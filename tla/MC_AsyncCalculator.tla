-------------------------- MODULE MC_AsyncCalculator --------------------------
(* AsyncCalculator on small instances: every text of at most two characters  *)
(* per call, one kind of payload character.                                   *)
EXTENDS AsyncCalculator, TLC

CONSTANTS w1, digit

\* One thread is enough: the disciplined caller starts none before the last is done.
MCWorkers == {w1}
MCPayload == {digit}
MCParts == UNION {[1 .. n -> MCPayload \cup {Bad, End}] : n \in 0 .. 2}
===============================================================================
