--------------------------- MODULE AsyncCalculator ---------------------------
(***************************************************************************)
(* calc::async_calculator (src/calculator/calculator.h): an expression is  *)
(* handed over in parts by a caller, a thread of std::async parses it and   *)
(* evaluates it on the fly, a std::future carries the answer.               *)
(*                                                                         *)
(* What is kept is the control: the two atomics the caller polls, the       *)
(* mutex-protected part queue, the condition variable, every early return   *)
(* and both exits of calculate().  The text is abstracted to what the       *)
(* protocol tells apart: payload characters, a character at which the       *)
(* parser throws (Bad) and the end-of-expression character (End).  Blanks   *)
(* are what is left out of a part, so a part may be empty here.             *)
(*                                                                         *)
(* A locked section of the code is one action; accesses outside the lock    *)
(* are actions of their own.                                                *)
(***************************************************************************)
EXTENDS Naturals, Sequences

CONSTANTS
  Workers,       \* identities of the threads std::async starts
  NoWorker,      \* "no thread works for the last start()"
  Payload,       \* characters of numbers, operators and brackets
  Bad,           \* a character the parser answers with an exception
  End,           \* '\n' or '\r' (detail::entry_type::expr_end)
  Parts,         \* the texts a caller may pass in one call, blanks removed
  MaxText,       \* bound: characters handed over in one calculation
  MaxParts,      \* bound: parts waiting in the queue
  SpawnMayFail   \* whether std::async may throw std::system_error

Chars == Payload \cup {Bad, End}

ASSUME WorkerAssumption == NoWorker \notin Workers
ASSUME CharAssumption   == Bad # End /\ Bad \notin Payload /\ End \notin Payload
ASSUME PartsAssumption  == Parts \subseteq Seq(Chars)
ASSUME BoundAssumption  == MaxText \in Nat /\ MaxParts \in Nat /\ SpawnMayFail \in BOOLEAN

VARIABLES
  running, errorOccured, calculationFinished,   \* the three atomic_bool
  expressionParts,  \* m_expression_parts, each part an interval of stream
  readPos,          \* m_read_pos, in the front part
  operatorStack,    \* subexpression markers of the outermost expression
  numbers,          \* payload folded into m_numbers so far
  pc,               \* where each worker is in calculate()
  curChar,          \* the character get_character() returned last
  outcome,          \* what the worker puts into its future
  \* History, never read by a guard of the code's own steps:
  stream,           \* all characters handed over since the last start()
  lastFrom,         \* where in stream the last part starts
  current,          \* the worker of the last start()
  abortAsked        \* abort() took effect since the last start()

flags   == <<running, errorOccured, calculationFinished>>
parse   == <<expressionParts, readPos, operatorStack, numbers>>
history == <<stream, lastFrom, current, abortAsked>>
vars    == <<flags, parse, pc, curChar, outcome, history>>

PCs == {"idle", "begin", "loop", "enter", "peek", "fetch", "wait", "woken",
        "parse", "finish", "wipe_operators", "wipe_numbers", "wipe_parts",
        "err_running", "err_flag", "err_finished", "err_clean", "done"}
Kinds == {"none", "value", "aborted", "invalid"}
Outcomes == [kind : Kinds, value : Seq(Chars)]
NoOutcome == [kind |-> "none", value |-> <<>>]

Interval == [from : Nat, to : Nat]

TypeOK ==
  /\ running \in BOOLEAN /\ errorOccured \in BOOLEAN /\ calculationFinished \in BOOLEAN
  /\ expressionParts \in Seq(Interval)
  /\ readPos \in Nat
  /\ operatorStack \in Nat
  /\ numbers \in Seq(Chars)
  /\ pc \in [Workers -> PCs]
  /\ curChar \in [Workers -> Chars]
  /\ outcome \in [Workers -> Outcomes]
  /\ stream \in Seq(Chars)
  /\ lastFrom \in Nat
  /\ current \in Workers \cup {NoWorker}
  /\ abortAsked \in BOOLEAN

Init ==
  /\ running = FALSE /\ errorOccured = FALSE /\ calculationFinished = FALSE
  /\ expressionParts = <<>> /\ readPos = 0 /\ operatorStack = 0 /\ numbers = <<>>
  /\ pc = [w \in Workers |-> "idle"]
  /\ curChar = [w \in Workers |-> End]
  /\ outcome = [w \in Workers |-> NoOutcome]
  /\ stream = <<>> /\ lastFrom = 0 /\ current = NoWorker /\ abortAsked = FALSE

-----------------------------------------------------------------------------
(* The caller's side *)

\* A worker whose thread exists and has not made its future ready.
Active(w) == pc[w] \notin {"idle", "done"}
Quiescent == \A w \in Workers : ~Active(w)

\* clean_all() followed by m_running = true and the push of the first part.
RestartWith(chars) ==
  /\ running' = TRUE /\ errorOccured' = FALSE /\ calculationFinished' = FALSE
  /\ operatorStack' = 0 /\ numbers' = <<>> /\ readPos' = 0
  /\ expressionParts' = <<[from |-> 0, to |-> Len(chars)]>>
  /\ stream' = chars /\ lastFrom' = 0 /\ abortAsked' = FALSE

Start(w, chars) ==
  /\ ~running
  /\ ~Active(w)
  /\ Len(chars) <= MaxText
  /\ RestartWith(chars)
  /\ current' = w
  /\ pc' = [pc EXCEPT ![w] = "begin"]
  /\ outcome' = [outcome EXCEPT ![w] = NoOutcome]
  /\ UNCHANGED curChar

\* std::async throws after m_running was set: start() throws to its caller.
StartThrows(chars) ==
  /\ SpawnMayFail
  /\ ~running
  /\ Len(chars) <= MaxText
  /\ RestartWith(chars)
  /\ current' = NoWorker
  /\ UNCHANGED <<pc, outcome, curChar>>

\* m_cv.notify_one(): any one of the waiting threads, or nobody.
NotifyOne ==
  LET waiting == {w \in Workers : pc[w] = "wait"} IN
  IF waiting = {} THEN pc' = pc
  ELSE \E w \in waiting : pc' = [pc EXCEPT ![w] = "woken"]

\* Mutant: the push without the notification.
AddExprPart_NoNotify(chars) ==
  /\ running
  /\ Len(stream) + Len(chars) <= MaxText
  /\ Len(expressionParts) < MaxParts
  /\ stream' = stream \o chars
  /\ lastFrom' = Len(stream)
  /\ expressionParts' =
       Append(expressionParts, [from |-> Len(stream), to |-> Len(stream) + Len(chars)])
  /\ UNCHANGED <<flags, readPos, operatorStack, numbers, pc, curChar, outcome, current, abortAsked>>

AddExprPart(chars) ==
  /\ running
  /\ Len(stream) + Len(chars) <= MaxText
  /\ Len(expressionParts) < MaxParts
  /\ stream' = stream \o chars
  /\ lastFrom' = Len(stream)
  /\ expressionParts' =
       Append(expressionParts, [from |-> Len(stream), to |-> Len(stream) + Len(chars)])
  /\ NotifyOne
  /\ UNCHANGED <<flags, readPos, operatorStack, numbers, curChar, outcome, current, abortAsked>>

\* Mutant: m_running is cleared without the notification.
Abort_NoNotify ==
  /\ running
  /\ running' = FALSE
  /\ abortAsked' = TRUE
  /\ UNCHANGED <<errorOccured, calculationFinished, parse, pc, curChar, outcome,
                 stream, lastFrom, current>>

Abort ==
  /\ running
  /\ running' = FALSE
  /\ abortAsked' = TRUE
  /\ NotifyOne
  /\ UNCHANGED <<errorOccured, calculationFinished, parse, curChar, outcome,
                 stream, lastFrom, current>>

Reset ==
  /\ ~running
  /\ errorOccured' = FALSE /\ calculationFinished' = FALSE
  /\ expressionParts' = <<>> /\ readPos' = 0 /\ operatorStack' = 0 /\ numbers' = <<>>
  /\ current' = NoWorker
  /\ stream' = <<>> /\ lastFrom' = 0 /\ abortAsked' = FALSE
  /\ UNCHANGED <<running, pc, curChar, outcome>>

-----------------------------------------------------------------------------
(* The worker's side: calculate() *)

At(w, here, there) == pc[w] = here /\ pc' = [pc EXCEPT ![w] = there]

\* An exception leaves the try block; calculate() will rethrow it.
Throw(w, kind) ==
  /\ pc' = [pc EXCEPT ![w] = "err_running"]
  /\ outcome' = [outcome EXCEPT ![w] = [kind |-> kind, value |-> <<>>]]

\* Mutants: the outermost marker is not pushed, or popped instead.
Begin_NoPush(w) ==
  /\ At(w, "begin", "loop")
  /\ UNCHANGED <<flags, parse, curChar, outcome, history>>

Begin_Pops(w) ==
  /\ At(w, "begin", "loop")
  /\ operatorStack' = operatorStack - 1
  /\ UNCHANGED <<flags, expressionParts, readPos, numbers, curChar, outcome, history>>

Begin(w) ==
  /\ At(w, "begin", "loop")
  /\ operatorStack' = operatorStack + 1
  /\ UNCHANGED <<flags, expressionParts, readPos, numbers, curChar, outcome, history>>

\* Mutant: the loop tests the wrong flag.
Loop_TestsRunning(w) ==
  /\ At(w, "loop", IF running THEN "enter" ELSE "finish")
  /\ UNCHANGED <<flags, parse, curChar, outcome, history>>

\* while( !m_operator_stack.empty() && !m_calculation_finished )
Loop(w) ==
  /\ At(w, "loop", IF operatorStack > 0 /\ ~calculationFinished THEN "enter" ELSE "finish")
  /\ UNCHANGED <<flags, parse, curChar, outcome, history>>

\* assert( !m_operator_stack.empty() ): compiled out in a release build.
Enter(w) ==
  /\ At(w, "enter", "peek")
  /\ UNCHANGED <<flags, parse, curChar, outcome, history>>

\* get_character() reads m_running before it takes the lock.
Peek(w) ==
  /\ pc[w] = "peek"
  /\ \/ running /\ pc' = [pc EXCEPT ![w] = "fetch"] /\ UNCHANGED outcome
     \/ ~running /\ Throw(w, "aborted")
  /\ UNCHANGED <<flags, parse, curChar, history>>

\* Does the i-th queued part still hold an unread character?
Unread(i) ==
  LET p == expressionParts[i] IN
  p.to > p.from + (IF i = 1 THEN readPos ELSE 0)

\* The loop under the lock: drop exhausted parts, then read or wait.
Scan(w) ==
  \/ \E k \in 1 .. Len(expressionParts) :
       /\ Unread(k)
       /\ \A i \in 1 .. (k - 1) : ~Unread(i)
       /\ expressionParts' = SubSeq(expressionParts, k, Len(expressionParts))
       /\ readPos' = (IF k = 1 THEN readPos ELSE 0)
       /\ curChar' = [curChar EXCEPT ![w] = stream[expressionParts[k].from + readPos' + 1]]
       /\ pc' = [pc EXCEPT ![w] = "parse"]
       /\ UNCHANGED outcome
  \/ /\ \A i \in 1 .. Len(expressionParts) : ~Unread(i)
     /\ expressionParts' = <<>>
     /\ readPos' = (IF expressionParts = <<>> THEN readPos ELSE 0)
     /\ UNCHANGED curChar
     /\ \/ running /\ pc' = [pc EXCEPT ![w] = "wait"] /\ UNCHANGED outcome
        \/ ~running /\ Throw(w, "aborted")

Fetch(w) ==
  /\ pc[w] = "fetch"
  /\ Scan(w)
  /\ UNCHANGED <<flags, operatorStack, numbers, history>>

\* Mutant: a wait without its predicate takes any wake-up for an abort.
Woken_NoPredicate(w) ==
  /\ pc[w] = "woken"
  /\ \/ /\ ~running \/ expressionParts = <<>>
        /\ Throw(w, "aborted")
        /\ UNCHANGED <<expressionParts, readPos, curChar>>
     \/ running /\ expressionParts # <<>> /\ Scan(w)
  /\ UNCHANGED <<flags, operatorStack, numbers, history>>

\* The wait returned (notified or not): its predicate, then the check after it.
Woken(w) ==
  /\ pc[w] = "woken"
  /\ \/ ~running /\ Throw(w, "aborted") /\ UNCHANGED <<expressionParts, readPos, curChar>>
     \/ /\ running /\ expressionParts = <<>>
        /\ pc' = [pc EXCEPT ![w] = "wait"]
        /\ UNCHANGED <<expressionParts, readPos, curChar, outcome>>
     \/ running /\ expressionParts # <<>> /\ Scan(w)
  /\ UNCHANGED <<flags, operatorStack, numbers, history>>

SpuriousWake(w) ==
  /\ At(w, "wait", "woken")
  /\ UNCHANGED <<flags, parse, curChar, outcome, history>>

\* A payload character is folded into the stacks; a closing bracket also
\* returns from parse_subexpression() to the loop of calculate().
ParsePayload(w) ==
  /\ curChar[w] \in Payload
  /\ numbers' = Append(numbers, curChar[w])
  /\ readPos' = readPos + 1
  /\ \E next \in {"peek", "loop"} : pc' = [pc EXCEPT ![w] = next]
  /\ UNCHANGED <<calculationFinished, operatorStack, outcome>>

ParseEnd(w) ==
  /\ curChar[w] = End
  /\ numbers # <<>>
  /\ operatorStack' = (IF operatorStack = 0 THEN 0 ELSE operatorStack - 1)
  /\ calculationFinished' = TRUE
  /\ readPos' = readPos + 1
  /\ pc' = [pc EXCEPT ![w] = "loop"]
  /\ UNCHANGED <<numbers, outcome>>

\* An error in the text, an empty expression, or a top() of an empty stack.
ParseThrows(w) ==
  /\ curChar[w] = Bad \/ (curChar[w] = End /\ numbers = <<>>) \/ operatorStack = 0
  /\ Throw(w, "invalid")
  /\ UNCHANGED <<calculationFinished, operatorStack, numbers, readPos>>

Parse(w) ==
  /\ pc[w] = "parse"
  /\ ParsePayload(w) \/ ParseEnd(w) \/ ParseThrows(w)
  /\ UNCHANGED <<running, errorOccured, expressionParts, curChar, history>>

\* Mutant: the end of the text is taken without a look at the queue.
Complete_AnyQueue == operatorStack = 0 /\ numbers # <<>>

Complete == Len(expressionParts) = 1 /\ operatorStack = 0 /\ numbers # <<>>

\* The locked section at the end of the try block.
Finish(w) ==
  /\ pc[w] = "finish"
  /\ \/ /\ Complete
        /\ outcome' = [outcome EXCEPT ![w] = [kind |-> "value", value |-> numbers]]
        /\ numbers' = <<>>
        /\ running' = FALSE
        /\ pc' = [pc EXCEPT ![w] = "wipe_operators"]
     \/ /\ ~Complete
        /\ Throw(w, "invalid")
        /\ UNCHANGED <<numbers, running>>
  /\ UNCHANGED <<errorOccured, calculationFinished, expressionParts, readPos,
                 operatorStack, curChar, history>>

\* clean_parse_data() after the try block runs without the lock.
WipeOperators(w) ==
  /\ At(w, "wipe_operators", "wipe_numbers")
  /\ operatorStack' = 0
  /\ UNCHANGED <<flags, expressionParts, readPos, numbers, curChar, outcome, history>>

WipeNumbers(w) ==
  /\ At(w, "wipe_numbers", "wipe_parts")
  /\ numbers' = <<>>
  /\ UNCHANGED <<flags, expressionParts, readPos, operatorStack, curChar, outcome, history>>

WipeParts(w) ==
  /\ At(w, "wipe_parts", "done")
  /\ expressionParts' = <<>>
  /\ UNCHANGED <<flags, readPos, operatorStack, numbers, curChar, outcome, history>>

\* Mutant: the handler leaves m_running set.
ErrRunning_Skipped(w) ==
  /\ At(w, "err_running", "err_flag")
  /\ UNCHANGED <<flags, parse, curChar, outcome, history>>

\* The handler of calculate(): three stores without the lock, then the clean.
ErrRunning(w) ==
  /\ At(w, "err_running", "err_flag")
  /\ running' = FALSE
  /\ UNCHANGED <<errorOccured, calculationFinished, parse, curChar, outcome, history>>

ErrFlag(w) ==
  /\ At(w, "err_flag", "err_finished")
  /\ errorOccured' = TRUE
  /\ UNCHANGED <<running, calculationFinished, parse, curChar, outcome, history>>

\* Mutant: the handler forgets m_calculation_finished.
ErrFinished_Skipped(w) ==
  /\ At(w, "err_finished", "err_clean")
  /\ UNCHANGED <<flags, parse, curChar, outcome, history>>

ErrFinished(w) ==
  /\ At(w, "err_finished", "err_clean")
  /\ calculationFinished' = TRUE
  /\ UNCHANGED <<running, errorOccured, parse, curChar, outcome, history>>

ErrClean(w) ==
  /\ At(w, "err_clean", "done")
  /\ operatorStack' = 0 /\ numbers' = <<>> /\ expressionParts' = <<>>
  /\ UNCHANGED <<flags, readPos, curChar, outcome, history>>

\* One step of the thread, in the order of calculate().
Step(w) ==
  \/ Begin(w) \/ Loop(w) \/ Enter(w) \/ Peek(w) \/ Fetch(w) \/ Woken(w)
  \/ Parse(w) \/ Finish(w)
  \/ WipeOperators(w) \/ WipeNumbers(w) \/ WipeParts(w)
  \/ ErrRunning(w) \/ ErrFlag(w) \/ ErrFinished(w) \/ ErrClean(w)

-----------------------------------------------------------------------------
(* The calculator with a caller that, like the tests, has seen the future    *)
(* ready before it calls start() or reset() again, and calls                 *)
(* add_expr_part() and abort() whenever it likes.                            *)

Caller ==
  \/ \E chars \in Parts :
       \/ \E w \in Workers : Quiescent /\ Start(w, chars)
       \/ Quiescent /\ StartThrows(chars)
       \/ AddExprPart(chars)
  \/ Abort
  \/ Quiescent /\ Reset

Next == Caller \/ \E w \in Workers : Step(w) \/ SpuriousWake(w)

Spec == Init /\ [][Next]_vars

\* The operating system runs every thread that can run; nothing makes the
\* caller go on, and no wake-up is spurious by right.
FairSpec == Spec /\ \A w \in Workers : WF_vars(Step(w))

-----------------------------------------------------------------------------
(* Properties *)

Ready(w) == pc[w] = "done"

\* Where in the text the parser stops: its first error or end.
IsStop(q) ==
  /\ q \in 1 .. Len(stream)
  /\ stream[q] \in {Bad, End}
  /\ \A i \in 1 .. (q - 1) : stream[i] \in Payload

\* The text has an end, in its last part, and value is all that precedes it.
ValueText(value) ==
  \E q \in 1 .. Len(stream) :
    IsStop(q) /\ stream[q] = End /\ q > lastFrom /\ value = SubSeq(stream, 1, q - 1)

\* The text has an error, is empty, or goes on in a part after its end.
InvalidText ==
  \E q \in 1 .. Len(stream) : IsStop(q) /\ (stream[q] = Bad \/ q = 1 \/ q <= lastFrom)

\* The answer is computed from the whole text up to its first end and from
\* nothing else, however the text was cut into parts and whenever the parts
\* came; and the part that held the end was the last one (calculate(),
\* get_character()).
ResultIsWhole ==
  \A w \in Workers :
    Ready(w) /\ w = current /\ outcome[w].kind = "value" => ValueText(outcome[w].value)

\* An "Invalid expression" answer is the fault of the text: it has an error
\* or is empty, or a part followed the one that held the end (the size check
\* of calculate()).
InvalidJustified ==
  \A w \in Workers :
    Ready(w) /\ w = current /\ outcome[w].kind = "invalid" => InvalidText

\* "Calculation aborted" is answered only to a caller that called abort()
\* for this calculation: no stale flag or lost notification can cause it.
AbortedOnlyWhenAsked ==
  \A w \in Workers :
    Ready(w) /\ w = current /\ outcome[w].kind = "aborted" => abortAsked

\* Once the future is ready, the flags a caller polls agree with the answer,
\* and no part or operand is left for the next calculation (tests.cpp:41-43
\* and 105-107).
SettledWhenReady ==
  current # NoWorker /\ Ready(current) =>
    /\ ~running /\ calculationFinished
    /\ errorOccured <=> outcome[current].kind # "value"
    /\ expressionParts = <<>> /\ numbers = <<>> /\ operatorStack = 0

\* assert( !m_operator_stack.empty() ) in parse_subexpression() holds, and so
\* no top() in it meets an empty stack.
AssertHolds == \A w \in Workers : pc[w] \in {"enter", "parse"} => operatorStack > 0

\* Every calculation that was given an end or an error, or was aborted, makes
\* its future ready: no notification is lost between the unlocked read of
\* m_running, the wait and the push.
Decided == abortAsked \/ \E q \in 1 .. Len(stream) : stream[q] \in {Bad, End}
Settles == \A w \in Workers : (current = w /\ Decided) ~> Ready(w)

(* The calculator implements its contract: the answer is what the future of  *)
(* the last start() holds once it is ready, and until then it is pending.     *)
Answer ==
  IF current = NoWorker THEN NoOutcome
  ELSE IF Ready(current) THEN outcome[current]
  ELSE [kind |-> "pending", value |-> <<>>]

Contract == INSTANCE CalculatorContract WITH
              text <- stream, accepting <- running, answer <- Answer

\* Every step is a step of the contract or invisible to the caller, and what
\* the contract says must come does come.
ImplementsContract == Contract!FairSpec
-----------------------------------------------------------------------------
(* Why the properties hold: an invariant that every action preserves.        *)

Folding == {"begin", "loop", "enter", "peek", "fetch", "wait", "woken", "parse"}
Failing == {"err_running", "err_flag", "err_finished", "err_clean"}
Wiping  == {"wipe_operators", "wipe_numbers", "wipe_parts"}

\* At most the thread of the last start() is running.
Alone ==
  /\ \A w \in Workers : Active(w) => w = current
  /\ current # NoWorker => pc[current] # "idle"

\* The queued parts cover the text up to its end, in order and without gaps:
\* what lies between two of them is held by the ones between.
Tiled ==
  /\ lastFrom <= Len(stream)
  /\ \A i \in 1 .. Len(expressionParts) : expressionParts[i].from <= expressionParts[i].to
  /\ \A i, j \in 1 .. Len(expressionParts) : i < j =>
       /\ expressionParts[i].to <= expressionParts[j].from
       /\ expressionParts[i].to < expressionParts[j].from =>
            \E k \in (i + 1) .. (j - 1) : expressionParts[k].from < expressionParts[k].to
  /\ expressionParts # <<>> =>
       /\ expressionParts[Len(expressionParts)].to = Len(stream)
       /\ expressionParts[Len(expressionParts)].from = lastFrom

\* What was folded is a prefix of the text, all of it payload.
Folded ==
  /\ Len(numbers) <= Len(stream)
  /\ \A i \in 1 .. Len(numbers) : numbers[i] = stream[i] /\ stream[i] \in Payload

\* While text is folded, the next character to read is the one after it.
FoldingInv ==
  current # NoWorker /\ pc[current] \in Folding /\ ~calculationFinished =>
    /\ Folded
    /\ operatorStack = (IF pc[current] = "begin" THEN 0 ELSE 1)
    /\ IF expressionParts = <<>>
       THEN Len(numbers) = Len(stream) /\ readPos = 0
       ELSE /\ expressionParts[1].from + readPos = Len(numbers)
            /\ Len(numbers) <= expressionParts[1].to
    /\ pc[current] = "parse" =>
         /\ expressionParts # <<>>
         /\ Len(numbers) < expressionParts[1].to
         /\ curChar[current] = stream[Len(numbers) + 1]

\* After the end was read, it is the character right after what was folded.
EndingInv ==
  current # NoWorker /\ (pc[current] = "finish" \/ (pc[current] \in Folding /\ calculationFinished)) =>
    /\ pc[current] \in {"loop", "finish"}
    /\ calculationFinished
    /\ Folded /\ numbers # <<>> /\ operatorStack = 0
    /\ expressionParts # <<>>
    /\ expressionParts[1].from <= Len(numbers)
    /\ Len(numbers) < expressionParts[1].to
    /\ stream[Len(numbers) + 1] = End

\* What each way out of the try block has established.
LeavingInv ==
  current # NoWorker =>
    /\ pc[current] \in Failing => outcome[current].kind \in {"aborted", "invalid"}
    /\ pc[current] \in Wiping => outcome[current].kind = "value"
    /\ pc[current] \in Failing \cup Wiping \cup {"done"} =>
         /\ outcome[current].kind # "none"
         /\ outcome[current].kind = "value" => ~running /\ ValueText(outcome[current].value)
         /\ outcome[current].kind = "invalid" => InvalidText
         /\ outcome[current].kind = "aborted" => abortAsked

\* The flags, in the order in which the code writes them.
FlagsInv ==
  /\ running => ~abortAsked
  /\ current # NoWorker =>
       /\ pc[current] \in Folding \cup {"finish"} /\ ~running => abortAsked
       /\ pc[current] \in Wiping \cup (Failing \ {"err_running"}) \cup {"done"} => ~running
       /\ pc[current] \in Wiping \cup {"err_clean", "done"} => calculationFinished
       /\ errorOccured <=> \/ pc[current] \in {"err_finished", "err_clean"}
                           \/ pc[current] = "done" /\ outcome[current].kind # "value"

\* What the unlocked clean has wiped already.
WipedInv ==
  current # NoWorker =>
    /\ pc[current] \in {"wipe_numbers", "wipe_parts", "done"} => operatorStack = 0
    /\ pc[current] \in {"wipe_parts", "done"} => numbers = <<>>
    /\ pc[current] = "done" => expressionParts = <<>>

IInv ==
  /\ TypeOK /\ Alone /\ Tiled /\ FoldingInv /\ EndingInv /\ LeavingInv /\ FlagsInv /\ WipedInv
=============================================================================
