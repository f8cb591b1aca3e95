---------------------------- MODULE MC_CalcSession ----------------------------
(* CalcSession for one client and a few scripts of requests.                  *)
EXTENDS CalcSession, TLC

CONSTANTS w1, w2, digit, cr

MCWorkers == {w1, w2}
MCPayload == {digit}
Threads == Permutations(MCWorkers)
MCParts == {<<>>}        \* only the disciplined Caller draws from it

\* One well-formed request that ends with its newline, the longer one longer
\* than the buffer in any case.
OneRequest == {<< <<digit, End>> >>, << <<digit, digit, digit, End>> >>}
\* One request with an error before its last part.
Erroneous == {<< <<Bad, digit, End>> >>}
\* Two well-formed requests on one connection.
TwoRequests == {<< <<digit, End>>, <<digit, digit, End>> >>}
\* What telnet sends.
TelnetRequest == {<< <<digit, cr, End>> >>}
\* A request whose newline is missing.
Unterminated == {<< <<digit, digit>> >>}
\* A request that is ended, or not.
EndedOrNot == OneRequest \cup Unterminated
\* Whatever the other runs send.
AnyRequest == Erroneous \cup TwoRequests \cup TelnetRequest
===============================================================================
