-------------------------- MODULE CalculatorContract --------------------------
(***************************************************************************)
(* What calc::async_calculator promises to a caller who has taken the       *)
(* answer before starting again (src/calculator/calculator.h and its tests  *)
(* in src/tests/tests.cpp): text is accepted until the text itself or an    *)
(* abort() ends the calculation; then there is one answer, it is a function *)
(* of the text, and it comes.  No threads, no queue, no flags but running().*)
(***************************************************************************)
EXTENDS Naturals, Sequences

CONSTANTS Payload, Bad, End, Parts, MaxText, SpawnMayFail

Characters == Payload \cup {Bad, End}

VARIABLES
  text,        \* everything handed over since start()
  lastFrom,    \* where the last part begins in it
  accepting,   \* running()
  answer,      \* what the future holds
  abortAsked   \* abort() came while running

vars == <<text, lastFrom, accepting, answer, abortAsked>>

None    == [kind |-> "none",    value |-> <<>>]
Pending == [kind |-> "pending", value |-> <<>>]
Aborted == [kind |-> "aborted", value |-> <<>>]
Invalid == [kind |-> "invalid", value |-> <<>>]

Init == text = <<>> /\ lastFrom = 0 /\ accepting = FALSE /\ answer = None /\ abortAsked = FALSE

\* The positions at which a parser of the text stops: one or none.
Stops == {q \in 1 .. Len(text) : /\ text[q] \in {Bad, End}
                                 /\ \A i \in 1 .. (q - 1) : text[i] \in Payload}

\* The answer the text deserves: the value of what precedes its end, if that
\* is not empty and no part came after the one that held the end.
Verdict(q) ==
  IF text[q] = End /\ q > 1 /\ q > lastFrom
  THEN [kind |-> "value", value |-> SubSeq(text, 1, q - 1)]
  ELSE Invalid

Allowed == {Verdict(q) : q \in Stops} \cup (IF abortAsked THEN {Aborted} ELSE {})

Start(chars) ==
  /\ ~accepting /\ answer # Pending /\ Len(chars) <= MaxText
  /\ text' = chars /\ lastFrom' = 0 /\ accepting' = TRUE /\ abortAsked' = FALSE
  /\ answer' \in {Pending} \cup (IF SpawnMayFail THEN {None} ELSE {})

AddExprPart(chars) ==
  /\ accepting /\ Len(text) + Len(chars) <= MaxText
  /\ text' = text \o chars /\ lastFrom' = Len(text)
  /\ UNCHANGED <<accepting, answer, abortAsked>>

Abort ==
  /\ accepting /\ accepting' = FALSE /\ abortAsked' = TRUE
  /\ UNCHANGED <<text, lastFrom, answer>>

\* The calculator has seen enough: from here on parts are refused.
Conclude ==
  /\ accepting /\ answer = Pending /\ Stops # {}
  /\ accepting' = FALSE
  /\ UNCHANGED <<text, lastFrom, answer, abortAsked>>

Answer ==
  /\ ~accepting /\ answer = Pending
  /\ answer' \in Allowed
  /\ UNCHANGED <<text, lastFrom, accepting, abortAsked>>

Reset ==
  /\ ~accepting /\ answer # Pending
  /\ text' = <<>> /\ lastFrom' = 0 /\ answer' = None /\ abortAsked' = FALSE
  /\ UNCHANGED accepting

Next ==
  \/ \E chars \in Parts : Start(chars) \/ AddExprPart(chars)
  \/ Abort \/ Conclude \/ Answer \/ Reset

Spec == Init /\ [][Next]_vars

\* The calculator owes the answer; the caller owes nothing.
FairSpec == Spec /\ WF_vars(Conclude) /\ WF_vars(Answer)
===============================================================================
