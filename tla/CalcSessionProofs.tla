-------------------------- MODULE CalcSessionProofs --------------------------
(* Proofs about CalcSession, for every client, every cut of its text and every *)
(* value of the constants.                                                     *)
EXTENDS CalcSession, AsyncCalculatorProofs

USE WorkerAssumption, CharAssumption, SessionAssumption DEF Chars, NetChars

-----------------------------------------------------------------------------
(* The calculator keeps its types though its caller does not wait for it.     *)

CalculatorOK == TypeOK /\ PartsInText

LEMMA RestartTyped ==
  ASSUME TypeOK, NEW chars \in Seq(Chars), RestartWith(chars),
         current' \in Workers \cup {NoWorker},
         pc' \in [Workers -> PCs], outcome' \in [Workers -> Outcomes], curChar' = curChar
  PROVE  CalculatorOK'
  <1>1. /\ 0 \in Nat /\ Len(chars) \in Nat
        /\ [from |-> 0, to |-> Len(chars)] \in Interval
    BY DEF Interval
  <1>2. /\ expressionParts' \in Seq(Interval) /\ Len(expressionParts') = 1
        /\ expressionParts'[1].from = 0 /\ expressionParts'[1].to = Len(chars)
    BY <1>1 DEF RestartWith
  <1>3. stream' = chars /\ numbers' \in Seq(Chars)
    BY DEF RestartWith
  <1>4. PartsInText'
    BY <1>1, <1>2, <1>3 DEF PartsInText
  <1> QED
    BY <1>2, <1>3, <1>4 DEF RestartWith, CalculatorOK, TypeOK

LEMMA StartTyped ==
  ASSUME TypeOK, NEW chars \in Seq(Chars), NEW w \in Workers, Start(w, chars)
  PROVE  CalculatorOK'
  <1>1. NoOutcome \in Outcomes
    BY EmptySeq DEF NoOutcome, Outcomes, Kinds
  <1>2. RestartWith(chars) /\ current' = w /\ curChar' = curChar
    BY DEF Start
  <1>3. pc' \in [Workers -> PCs] /\ outcome' \in [Workers -> Outcomes]
    BY <1>1 DEF Start, TypeOK, PCs
  <1> QED
    BY <1>2, <1>3, RestartTyped

LEMMA StartThrowsTyped ==
  ASSUME TypeOK, NEW chars \in Seq(Chars), StartThrows(chars)
  PROVE  CalculatorOK'
  BY RestartTyped DEF StartThrows, TypeOK

LEMMA AddExprPartTyped ==
  ASSUME CalculatorOK, NEW chars \in Seq(Chars), AddExprPart(chars)
  PROVE  CalculatorOK'
  <1> DEFINE part == [from |-> Len(stream), to |-> Len(stream) + Len(chars)]
  <1>1. /\ TypeOK /\ stream \in Seq(Chars) /\ expressionParts \in Seq(Interval)
        /\ Len(stream) \in Nat /\ Len(chars) \in Nat /\ Len(expressionParts) \in Nat
    BY DEF CalculatorOK, TypeOK
  <1>2. /\ stream' \in Seq(Chars) /\ Len(stream') = Len(stream) + Len(chars)
        /\ expressionParts' = Append(expressionParts, part) /\ lastFrom' = Len(stream)
    BY <1>1, Extended DEF AddExprPart
  <1>3. part \in Interval /\ part.from <= part.to /\ part.to <= Len(stream')
    BY <1>1, <1>2 DEF Interval
  <1>4. /\ expressionParts' \in Seq(Interval)
        /\ Len(expressionParts') = Len(expressionParts) + 1
        /\ expressionParts'[Len(expressionParts) + 1] = part
        /\ \A i \in 1 .. Len(expressionParts) : expressionParts'[i] = expressionParts[i]
    <2> HIDE DEF part
    <2> QED
      BY <1>1, <1>2, <1>3, AppendProperties
  <1>5. PartsInText'
    <2> HIDE DEF part
    <2> SUFFICES ASSUME NEW i \in 1 .. Len(expressionParts) + 1
                 PROVE  /\ expressionParts'[i].from <= expressionParts'[i].to
                        /\ expressionParts'[i].to <= Len(stream')
      BY <1>4 DEF PartsInText
    <2>1. CASE i = Len(expressionParts) + 1
      BY <1>3, <1>4, <2>1
    <2>2. CASE i # Len(expressionParts) + 1
      <3>1. i \in 1 .. Len(expressionParts) /\ expressionParts[i] \in Interval
        BY <1>1, <2>2, ElementOfSeq
      <3>2. expressionParts'[i] = expressionParts[i]
        BY <1>4, <3>1
      <3>3. /\ expressionParts[i].from <= expressionParts[i].to
            /\ expressionParts[i].to <= Len(stream)
        BY <3>1 DEF CalculatorOK, PartsInText
      <3> QED
        BY <1>1, <1>2, <3>1, <3>2, <3>3 DEF Interval
    <2> QED
      BY <2>1, <2>2
  <1>6. pc' \in [Workers -> PCs]
    BY <1>1, Notified DEF AddExprPart
  <1> QED
    BY <1>1, <1>2, <1>4, <1>5, <1>6 DEF AddExprPart, flags, CalculatorOK, TypeOK

LEMMA AbortTyped ==
  ASSUME CalculatorOK, Abort
  PROVE  CalculatorOK'
  BY Notified DEF CalculatorOK, TypeOK, PartsInText, Abort, parse

LEMMA ResetTyped ==
  ASSUME CalculatorOK, Reset
  PROVE  CalculatorOK'
  <1>1. /\ expressionParts' = <<>> /\ expressionParts' \in Seq(Interval)
        /\ numbers' \in Seq(Chars) /\ stream' \in Seq(Chars) /\ Len(expressionParts') = 0
    BY EmptySeq DEF Reset
  <1>2. /\ errorOccured' = FALSE /\ calculationFinished' = FALSE /\ readPos' = 0
        /\ operatorStack' = 0 /\ current' = NoWorker /\ lastFrom' = 0 /\ abortAsked' = FALSE
        /\ running' = running /\ pc' = pc /\ curChar' = curChar /\ outcome' = outcome
    BY DEF Reset
  <1>3. PartsInText'
    BY <1>1 DEF PartsInText
  <1> QED
    BY <1>1, <1>2, <1>3 DEF CalculatorOK, TypeOK

LEMMA ScanTyped ==
  ASSUME CalculatorOK, NEW w \in Workers, Scan(w), UNCHANGED <<flags, operatorStack, numbers, history>>
  PROVE  CalculatorOK'
  <1>1. /\ TypeOK /\ stream \in Seq(Chars) /\ expressionParts \in Seq(Interval) /\ readPos \in Nat
        /\ Len(stream) \in Nat /\ Len(expressionParts) \in Nat
    BY DEF CalculatorOK, TypeOK
  <1>2. ASSUME NEW k \in 1 .. Len(expressionParts), Unread(k),
               expressionParts' = SubSeq(expressionParts, k, Len(expressionParts)),
               readPos' = (IF k = 1 THEN readPos ELSE 0),
               curChar' = [curChar EXCEPT ![w] = stream[expressionParts[k].from + readPos' + 1]],
               pc' = [pc EXCEPT ![w] = "parse"], outcome' = outcome
        PROVE  CalculatorOK'
    <2>1. /\ expressionParts' \in Seq(Interval)
          /\ Len(expressionParts') = Len(expressionParts) - k + 1
          /\ \A i \in 1 .. Len(expressionParts) - k + 1 :
               expressionParts'[i] = expressionParts[k + i - 1]
      BY <1>1, <1>2, Dropped
    <2>2. PartsInText'
      <3> SUFFICES ASSUME NEW i \in 1 .. Len(expressionParts) - k + 1
                   PROVE  /\ expressionParts'[i].from <= expressionParts'[i].to
                          /\ expressionParts'[i].to <= Len(stream)
        BY <2>1 DEF PartsInText, history
      <3>1. k + i - 1 \in 1 .. Len(expressionParts)
        BY <1>1
      <3> QED
        BY <2>1, <3>1 DEF CalculatorOK, PartsInText
    <2>3. stream[expressionParts[k].from + readPos' + 1] \in Chars
      <3>1. /\ expressionParts[k].from \in Nat /\ expressionParts[k].to \in Nat
            /\ expressionParts[k].to <= Len(stream) /\ readPos' \in Nat
        <4>1. expressionParts[k] \in Interval
          BY <1>1, ElementOfSeq
        <4>2. readPos' \in Nat
          BY <1>1, <1>2
        <4>3. expressionParts[k].to <= Len(stream)
          BY DEF CalculatorOK, PartsInText
        <4> QED
          BY <4>1, <4>2, <4>3 DEF Interval
      <3>2. expressionParts[k].from + readPos' < expressionParts[k].to
        BY <1>2, <3>1 DEF Unread
      <3>3. expressionParts[k].from + readPos' + 1 \in 1 .. Len(stream)
        BY <1>1, <3>1, <3>2
      <3> QED
        BY <1>1, <3>3, ElementOfSeq
    <2>4. curChar' \in [Workers -> Chars] /\ pc' \in [Workers -> PCs] /\ readPos' \in Nat
      BY <1>1, <1>2, <2>3 DEF TypeOK, PCs
    <2> QED
      BY <1>1, <1>2, <2>1, <2>2, <2>4 DEF CalculatorOK, TypeOK, flags, history
  <1>3. ASSUME expressionParts' = <<>>, readPos' \in Nat, curChar' = curChar,
               pc' \in [Workers -> PCs], outcome' \in [Workers -> Outcomes]
        PROVE  CalculatorOK'
    <2>1. expressionParts' \in Seq(Interval) /\ Len(expressionParts') = 0
      BY <1>3, EmptySeq
    <2> QED
      BY <1>1, <1>3, <2>1 DEF CalculatorOK, TypeOK, PartsInText, flags, history
  <1>4. ASSUME Throw(w, "aborted")
        PROVE  pc' \in [Workers -> PCs] /\ outcome' \in [Workers -> Outcomes]
    <2>1. [kind |-> "aborted", value |-> <<>>] \in Outcomes
      BY EmptySeq DEF Outcomes, Kinds
    <2> QED
      BY <1>1, <1>4, <2>1 DEF Throw, TypeOK, PCs
  <1>5. ASSUME pc' = [pc EXCEPT ![w] = "wait"], outcome' = outcome
        PROVE  pc' \in [Workers -> PCs] /\ outcome' \in [Workers -> Outcomes]
    BY <1>1, <1>5 DEF TypeOK, PCs
  <1>6. 0 \in Nat
    OBVIOUS
  <1> QED
    BY <1>1, <1>2, <1>3, <1>4, <1>5, <1>6 DEF Scan

(* The steps of a thread, the thread of the last start() or not.              *)
LEMMA StepTyped ==
  ASSUME CalculatorOK, NEW w \in Workers, Step(w) \/ SpuriousWake(w)
  PROVE  CalculatorOK'
  <1>1. TypeOK /\ pc \in [Workers -> PCs] /\ outcome \in [Workers -> Outcomes]
    BY DEF CalculatorOK, TypeOK
  <1>2. ASSUME NEW there \in PCs, pc' = [pc EXCEPT ![w] = there]
        PROVE  pc' \in [Workers -> PCs]
    BY <1>1, <1>2
  <1>3. ASSUME NEW kind \in {"aborted", "invalid"}, Throw(w, kind)
        PROVE  pc' \in [Workers -> PCs] /\ outcome' \in [Workers -> Outcomes]
    <2>1. [kind |-> kind, value |-> <<>>] \in Outcomes
      BY EmptySeq DEF Outcomes, Kinds
    <2> QED
      BY <1>1, <1>2, <1>3, <2>1 DEF Throw, PCs
  <1>4. ASSUME pc' \in [Workers -> PCs], outcome' \in [Workers -> Outcomes],
               running' \in BOOLEAN, errorOccured' \in BOOLEAN, calculationFinished' \in BOOLEAN,
               readPos' \in Nat, operatorStack' \in Nat, numbers' \in Seq(Chars),
               expressionParts' = expressionParts \/ expressionParts' = <<>>,
               curChar' = curChar, UNCHANGED history
        PROVE  CalculatorOK'
    <2>1. expressionParts' \in Seq(Interval) /\ PartsInText'
      <3>1. CASE expressionParts' = expressionParts
        BY <1>4, <3>1 DEF CalculatorOK, PartsInText, TypeOK, history
      <3>2. CASE expressionParts' = <<>>
        <4>1. expressionParts' \in Seq(Interval) /\ Len(expressionParts') = 0
          BY <3>2, EmptySeq
        <4> QED
          BY <4>1 DEF PartsInText
      <3> QED
        BY <1>4, <3>1, <3>2
    <2> QED
      BY <1>1, <1>4, <2>1 DEF CalculatorOK, TypeOK, history
  <1>5. CASE Begin(w) \/ Loop(w) \/ Enter(w) \/ SpuriousWake(w)
    <2>1. pc' \in [Workers -> PCs]
      BY <1>2, <1>5 DEF Begin, Loop, Enter, SpuriousWake, At, PCs
    <2>2. operatorStack' \in Nat
      BY <1>1, <1>5 DEF Begin, Loop, Enter, SpuriousWake, TypeOK, parse
    <2> QED
      BY <1>1, <1>4, <1>5, <2>1, <2>2 DEF Begin, Loop, Enter, SpuriousWake, TypeOK, flags, parse
  <1>6. CASE Peek(w)
    <2>1. pc' \in [Workers -> PCs] /\ outcome' \in [Workers -> Outcomes]
      BY <1>1, <1>2, <1>3, <1>6 DEF Peek, PCs
    <2> QED
      BY <1>1, <1>4, <1>6, <2>1 DEF Peek, TypeOK, flags, parse
  <1>7. CASE Fetch(w) \/ Woken(w)
    <2>1. ASSUME UNCHANGED <<flags, operatorStack, numbers, history>>,
                 expressionParts' = expressionParts, readPos' = readPos, curChar' = curChar,
                 Throw(w, "aborted") \/ (pc' = [pc EXCEPT ![w] = "wait"] /\ outcome' = outcome)
          PROVE  CalculatorOK'
      <3>1. pc' \in [Workers -> PCs] /\ outcome' \in [Workers -> Outcomes]
        BY <1>1, <1>2, <1>3, <2>1 DEF PCs
      <3> QED
        BY <1>1, <1>4, <2>1, <3>1 DEF TypeOK, flags
    <2> QED
      BY <1>7, <2>1, ScanTyped DEF Fetch, Woken
  <1>8. CASE Parse(w)
    <2>1. /\ ParsePayload(w) \/ ParseEnd(w) \/ ParseThrows(w)
          /\ running' = running /\ errorOccured' = errorOccured
          /\ expressionParts' = expressionParts /\ curChar' = curChar /\ UNCHANGED history
      BY <1>8 DEF Parse
    <2>2. CASE ParsePayload(w)
      <3>1. numbers' \in Seq(Chars) /\ readPos' \in Nat
        BY <1>1, <2>2, AppendProperties DEF ParsePayload, TypeOK
      <3>2. pc' \in [Workers -> PCs]
        BY <1>2, <2>2 DEF ParsePayload, PCs
      <3> QED
        BY <1>1, <1>4, <2>1, <2>2, <3>1, <3>2 DEF ParsePayload, TypeOK
    <2>3. CASE ParseEnd(w)
      <3>1. pc' \in [Workers -> PCs]
        BY <1>2, <2>3 DEF ParseEnd, PCs
      <3>2. operatorStack' \in Nat /\ readPos' \in Nat
        BY <1>1, <2>3 DEF ParseEnd, TypeOK
      <3> QED
        BY <1>1, <1>4, <2>1, <2>3, <3>1, <3>2 DEF ParseEnd, TypeOK
    <2>4. CASE ParseThrows(w)
      BY <1>1, <1>3, <1>4, <2>1, <2>4 DEF ParseThrows, TypeOK
    <2> QED
      BY <2>1, <2>2, <2>3, <2>4
  <1>9. CASE Finish(w)
    <2>1. /\ pc' \in [Workers -> PCs] /\ outcome' \in [Workers -> Outcomes]
          /\ numbers' \in Seq(Chars) /\ running' \in BOOLEAN
      <3>1. CASE Complete /\ outcome' = [outcome EXCEPT ![w] = [kind |-> "value", value |-> numbers]]
                 /\ numbers' = <<>> /\ running' = FALSE /\ pc' = [pc EXCEPT ![w] = "wipe_operators"]
        <4>1. [kind |-> "value", value |-> numbers] \in Outcomes
          BY <1>1 DEF Outcomes, Kinds, TypeOK
        <4> QED
          BY <1>1, <1>2, <3>1, <4>1, EmptySeq DEF PCs
      <3>2. CASE Throw(w, "invalid") /\ UNCHANGED <<numbers, running>>
        BY <1>1, <1>3, <3>2 DEF TypeOK
      <3> QED
        BY <1>9, <3>1, <3>2 DEF Finish
    <2> QED
      BY <1>1, <1>4, <1>9, <2>1 DEF Finish, TypeOK
  <1>10. CASE WipeOperators(w) \/ WipeNumbers(w) \/ WipeParts(w)
    <2>1. pc' \in [Workers -> PCs]
      BY <1>2, <1>10 DEF WipeOperators, WipeNumbers, WipeParts, At, PCs
    <2>2. operatorStack' \in Nat /\ numbers' \in Seq(Chars)
      <3>1. <<>> \in Seq(Chars) /\ 0 \in Nat
        BY EmptySeq
      <3>2. operatorStack' \in {operatorStack, 0} /\ numbers' \in {numbers, <<>>}
        BY <1>10 DEF WipeOperators, WipeNumbers, WipeParts
      <3> QED
        BY <1>1, <3>1, <3>2 DEF TypeOK
    <2> QED
      BY <1>1, <1>4, <1>10, <2>1, <2>2 DEF WipeOperators, WipeNumbers, WipeParts, TypeOK, flags
  <1>11. CASE ErrRunning(w) \/ ErrFlag(w) \/ ErrFinished(w)
    <2>1. pc' \in [Workers -> PCs]
      BY <1>2, <1>11 DEF ErrRunning, ErrFlag, ErrFinished, At, PCs
    <2> QED
      BY <1>1, <1>4, <1>11, <2>1 DEF ErrRunning, ErrFlag, ErrFinished, TypeOK, parse
  <1>12. CASE ErrClean(w)
    <2>1. pc' \in [Workers -> PCs] /\ numbers' \in Seq(Chars) /\ operatorStack' \in Nat
      BY <1>2, <1>12, EmptySeq DEF ErrClean, At, PCs
    <2> QED
      BY <1>1, <1>4, <1>12, <2>1 DEF ErrClean, TypeOK, flags
  <1> QED
    BY <1>5, <1>6, <1>7, <1>8, <1>9, <1>10, <1>11, <1>12 DEF Step

-----------------------------------------------------------------------------
(* What each step of the session does to the calculator                       *)

\* '\r' is an end to the parser: what is fed is text of the calculator.
LEMMA ParsedTyped ==
  ASSUME NEW s \in Seq(NetChars)
  PROVE  Parsed(s) \in Seq(Chars)
  <1> DEFINE c(i) == IF s[i] = CarriageReturn THEN End ELSE s[i]
  <1>1. Len(s) \in Nat /\ \A i \in 1 .. Len(s) : s[i] \in NetChars
    BY ElementOfSeq
  <1>2. \A i \in 1 .. Len(s) : c(i) \in Chars
    BY <1>1
  <1>3. Parsed(s) = [i \in 1 .. Len(s) |-> c(i)]
    BY DEF Parsed
  <1> HIDE DEF c
  <1> QED
    BY <1>1, <1>2, <1>3, IsASeq

LEMMA CalculatorKept ==
  ASSUME CalculatorOK, UNCHANGED vars
  PROVE  CalculatorOK'
  BY DEF CalculatorOK, TypeOK, PartsInText, vars, flags, parse, history

LEMMA NetworkQuiet ==
  ASSUME SendRequest \/ CloseConnection \/ ResetConnection \/ ReadData \/ ReadEnd
  PROVE  UNCHANGED <<vars, strand, task, complete, newData, started, future, finished, stopAsked, script>>
  BY DEF SendRequest, CloseConnection, ResetConnection, ReadData, ReadEnd, client, local, network

LEMMA HandlerQuiet ==
  ASSUME Dispatch \/ CheckError \/ LastCharacter \/ CopyData \/ TestRunning
             \/ AssignResult \/ WriteResult
         \/ ReadNext \/ Release
  PROVE  UNCHANGED vars
  BY DEF Dispatch, CheckError, LastCharacter, CopyData, TestRunning, AssignResult, WriteResult, ReadNext, Release

LEMMA CalculatorStep ==
  ASSUME CalculatorOK, newData \in Seq(NetChars), SessionNext
  PROVE  CalculatorOK'
  <1>1. TypeOK
    BY DEF CalculatorOK
  <1>2. Parsed(newData) \in Seq(Chars)
    BY ParsedTyped
  <1>3. CASE SendRequest \/ CloseConnection \/ ResetConnection \/ ReadData \/ ReadEnd
    BY <1>3, NetworkQuiet, CalculatorKept
  <1>4. CASE Dispatch \/ CheckError \/ LastCharacter \/ CopyData \/ TestRunning
             \/ AssignResult \/ WriteResult
             \/ ReadNext \/ Release
    BY <1>4, HandlerQuiet, CalculatorKept
  <1>5. CASE Add
    BY <1>2, <1>5, AddExprPartTyped, CalculatorKept DEF Add
  <1>6. CASE StartCalculation
    BY <1>1, <1>2, <1>6, StartTyped, StartThrowsTyped DEF StartCalculation
  <1>7. CASE Restart
    BY <1>7, ResetTyped, CalculatorKept DEF Restart
  <1>8. CASE Stop \/ Destruct
    BY <1>8, AbortTyped, CalculatorKept DEF Stop, Destruct
  <1>9. ASSUME NEW w \in Workers, Worker(w) \/ (SpuriousWake(w) /\ UNCHANGED session)
        PROVE  CalculatorOK'
    BY <1>9, StepTyped DEF Worker
  <1> QED
    BY <1>3, <1>4, <1>5, <1>6, <1>7, <1>8, <1>9 DEF SessionNext, Handler

-----------------------------------------------------------------------------
(* The thread of the last start()                                             *)

\* A thread that is not the one of the last start() can only clear m_running,
\* and the one that is clears it before it has anything to clean.
LEMMA StepNotLeaving ==
  ASSUME TypeOK, NotLeaving, NEW w \in Workers, Step(w) \/ SpuriousWake(w)
  PROVE  NotLeaving'
  <1>1. /\ pc \in [Workers -> PCs] /\ current \in Workers \cup {NoWorker}
        /\ running \in BOOLEAN /\ w # NoWorker
    BY DEF TypeOK
  <1>2. ASSUME current' = current, running' => running,
               NEW there \in PCs, pc' = [pc EXCEPT ![w] = there],
               running' /\ w = current => there \in Folding \cup {"finish", "err_running"}
        PROVE  NotLeaving'
    BY <1>1, <1>2 DEF NotLeaving
  <1>3. CASE Begin(w) \/ Loop(w) \/ Enter(w) \/ SpuriousWake(w)
    <2>1. /\ current' = current /\ running' = running
          /\ \E there \in {"loop", "enter", "finish", "peek", "woken"} : pc' = [pc EXCEPT ![w] = there]
      BY <1>3 DEF Begin, Loop, Enter, SpuriousWake, At, flags, history
    <2> QED
      BY <1>2, <2>1 DEF Folding, PCs
  <1>4. CASE Peek(w)
    <2>1. /\ current' = current /\ running' = running
          /\ \E there \in {"fetch", "err_running"} : pc' = [pc EXCEPT ![w] = there]
      BY <1>4 DEF Peek, Throw, flags, history
    <2> QED
      BY <1>2, <2>1 DEF Folding, PCs
  <1>5. CASE Fetch(w) \/ Woken(w)
    <2>1. /\ current' = current /\ running' = running
          /\ \E there \in {"parse", "wait", "err_running"} : pc' = [pc EXCEPT ![w] = there]
      BY <1>5 DEF Fetch, Woken, Scan, Throw, flags, history
    <2> QED
      BY <1>2, <2>1 DEF Folding, PCs
  <1>6. CASE Parse(w)
    <2>1. /\ current' = current /\ running' = running
          /\ \E there \in {"peek", "loop", "err_running"} : pc' = [pc EXCEPT ![w] = there]
      BY <1>6 DEF Parse, ParsePayload, ParseEnd, ParseThrows, Throw, history
    <2> QED
      BY <1>2, <2>1 DEF Folding, PCs
  <1>7. CASE Finish(w)
    <2>1. /\ current' = current
          /\ \/ running' = running /\ pc' = [pc EXCEPT ![w] = "err_running"]
             \/ running' = FALSE /\ pc' = [pc EXCEPT ![w] = "wipe_operators"]
      BY <1>7 DEF Finish, Throw, history
    <2> QED
      BY <1>2, <2>1 DEF PCs
  <1>8. CASE ErrRunning(w)
    BY <1>2, <1>8 DEF ErrRunning, At, history, PCs
  <1>9. CASE \/ WipeOperators(w) \/ WipeNumbers(w) \/ WipeParts(w)
             \/ ErrFlag(w) \/ ErrFinished(w) \/ ErrClean(w)
    <2>1. /\ current' = current /\ running' = running
          /\ pc[w] \in {"wipe_operators", "wipe_numbers", "wipe_parts", "err_flag", "err_finished", "err_clean"}
          /\ \E there \in PCs : pc' = [pc EXCEPT ![w] = there]
      BY <1>9 DEF WipeOperators, WipeNumbers, WipeParts, ErrFlag, ErrFinished, ErrClean, At,
                  flags, history, PCs
    <2>2. running => w # current
      BY <1>1, <2>1 DEF NotLeaving, Folding
    <2> QED
      BY <1>2, <2>1, <2>2
  <1> QED
    BY <1>3, <1>4, <1>5, <1>6, <1>7, <1>8, <1>9 DEF Step

\* A notification lets a waiting thread go on, whichever it is.
LEMMA WakingNotLeaving ==
  ASSUME TypeOK, NotLeaving, NotifyOne, current' = current, running' => running
  PROVE  NotLeaving'
  BY Notified DEF NotLeaving, Folding, TypeOK

LEMMA NotLeavingStep ==
  ASSUME TypeOK, NotLeaving, SessionNext
  PROVE  NotLeaving'
  <1>1. UNCHANGED vars => NotLeaving'
    BY DEF NotLeaving, vars, flags, history
  <1>2. CASE SendRequest \/ CloseConnection \/ ResetConnection \/ ReadData \/ ReadEnd
    BY <1>1, <1>2, NetworkQuiet
  <1>3. CASE Dispatch \/ CheckError \/ LastCharacter \/ CopyData \/ TestRunning
             \/ AssignResult \/ WriteResult
             \/ ReadNext \/ Release
    BY <1>1, <1>3, HandlerQuiet
  <1>4. CASE Add
    BY <1>1, <1>4, WakingNotLeaving DEF Add, AddExprPart, flags
  <1>5. CASE StartCalculation
    <2>1. ASSUME NEW w \in Workers, Start(w, Parsed(newData))
          PROVE  NotLeaving'
      BY <2>1 DEF Start, NotLeaving, Folding, TypeOK
    <2>2. StartThrows(Parsed(newData)) => NotLeaving'
      BY DEF StartThrows, NotLeaving
    <2> QED
      BY <1>5, <2>1, <2>2 DEF StartCalculation
  <1>6. CASE Restart
    BY <1>1, <1>6 DEF Restart, Reset, NotLeaving
  <1>7. CASE Stop \/ Destruct
    BY <1>1, <1>7 DEF Stop, Destruct, Abort, NotLeaving
  <1>8. ASSUME NEW w \in Workers, Worker(w) \/ (SpuriousWake(w) /\ UNCHANGED session)
        PROVE  NotLeaving'
    BY <1>8, StepNotLeaving DEF Worker
  <1> QED
    BY <1>2, <1>3, <1>4, <1>5, <1>6, <1>7, <1>8 DEF SessionNext, Handler

-----------------------------------------------------------------------------
(* The threads the session can wait for                                       *)

LEMMA StepNotStray ==
  ASSUME TypeOK, NoStrayThread, NEW w \in Workers, Step(w) \/ SpuriousWake(w), UNCHANGED session
  PROVE  NoStrayThread'
  <1>1. Active(w)
    BY DEF Step, SpuriousWake, Begin, Loop, Enter, Peek, Fetch, Woken, Parse, Finish, WipeOperators,
           WipeNumbers, WipeParts, ErrRunning, ErrFlag, ErrFinished, ErrClean, At, Active
  <1>2. \E there : pc' = [pc EXCEPT ![w] = there]
    <2>1. Begin(w) \/ Loop(w) \/ Enter(w) \/ Peek(w) \/ SpuriousWake(w) => \E there : pc' = [pc EXCEPT ![w] = there]
      BY DEF Begin, Loop, Enter, Peek, SpuriousWake, At, Throw
    <2>2. Fetch(w) \/ Woken(w) => \E there : pc' = [pc EXCEPT ![w] = there]
      BY DEF Fetch, Woken, Scan, Throw
    <2>3. Parse(w) \/ Finish(w) => \E there : pc' = [pc EXCEPT ![w] = there]
      BY DEF Parse, ParsePayload, ParseEnd, ParseThrows, Finish, Throw
    <2>4. WipeOperators(w) \/ WipeNumbers(w) \/ WipeParts(w) => \E there : pc' = [pc EXCEPT ![w] = there]
      BY DEF WipeOperators, WipeNumbers, WipeParts, At
    <2>5. ErrRunning(w) \/ ErrFlag(w) \/ ErrFinished(w) \/ ErrClean(w) => \E there : pc' = [pc EXCEPT ![w] = there]
      BY DEF ErrRunning, ErrFlag, ErrFinished, ErrClean, At
    <2> QED
      BY <2>1, <2>2, <2>3, <2>4, <2>5 DEF Step
  <1>3. \A v \in Workers : Active(v)' => Active(v)
    BY <1>1, <1>2 DEF TypeOK, Active
  <1> QED
    BY <1>3 DEF NoStrayThread, session, local

\* m_result is only replaced, taken or destroyed once its thread is done.
LEMMA NotStrayStep ==
  ASSUME TypeOK, ConnectionTypeOK, AssignedAtOnce, NoStrayThread, SessionNext
  PROVE  NoStrayThread' /\ AssignedAtOnce'
  <1>1. ASSUME \A v \in Workers : Active(v)' => Active(v), future' = future, started' = started
        PROVE  NoStrayThread'
    BY <1>1 DEF NoStrayThread
  <1>2. UNCHANGED vars => \A v \in Workers : Active(v)' => Active(v)
    BY DEF vars, Active
  <1>3. NotifyOne => \A v \in Workers : Active(v)' => Active(v)
    BY Notified DEF Active
  <1>4. CASE SendRequest \/ CloseConnection \/ ResetConnection \/ ReadData \/ ReadEnd
    BY <1>1, <1>2, <1>4, NetworkQuiet DEF AssignedAtOnce
  <1>5. CASE Dispatch \/ CheckError \/ LastCharacter \/ CopyData \/ TestRunning \/ ReadNext
    <2>1. started' = started /\ future' = future /\ UNCHANGED vars /\ strand # "assign"
      BY <1>5 DEF Dispatch, CheckError, LastCharacter, CopyData, TestRunning, ReadNext, local
    <2> QED
      BY <1>1, <1>2, <2>1 DEF AssignedAtOnce
  <1>6. CASE Add
    <2>1. started' = started /\ future' = future /\ strand # "assign"
          /\ (NotifyOne \/ UNCHANGED vars)
      BY <1>6 DEF Add, AddExprPart, local
    <2> QED
      BY <1>1, <1>2, <1>3, <2>1 DEF AssignedAtOnce
  <1>7. CASE StartCalculation
    <2>1. strand = "start" /\ started = NoWorker /\ future' = future
      BY <1>7 DEF StartCalculation, AssignedAtOnce
    <2>2. ASSUME NEW w \in Workers, Start(w, Parsed(newData)), started' = w, strand' = "assign"
          PROVE  NoStrayThread' /\ AssignedAtOnce'
      <3>1. \A v \in Workers : Active(v)' => v = w \/ Active(v)
        BY <2>2 DEF Start, Active, TypeOK
      <3> QED
        BY <2>1, <2>2, <3>1 DEF NoStrayThread, AssignedAtOnce
    <2>3. CASE StartThrows(Parsed(newData)) /\ UNCHANGED started
      <3>1. \A v \in Workers : Active(v)' => Active(v)
        BY <2>3 DEF StartThrows, Active
      <3> QED
        BY <1>1, <2>1, <2>3, <3>1 DEF AssignedAtOnce
    <2> QED
      BY <1>7, <2>2, <2>3 DEF StartCalculation
  <1>8. CASE AssignResult
    <2>1. /\ future' = started /\ started' = NoWorker /\ UNCHANGED vars
          /\ future # NoWorker => ~Active(future)
      BY <1>8 DEF AssignResult, Ready, Active
    <2> QED
      BY <1>2, <2>1 DEF NoStrayThread, AssignedAtOnce
  <1>9. CASE WriteResult \/ Release
    <2>1. /\ future' = NoWorker /\ started' = started /\ UNCHANGED vars /\ strand # "assign"
          /\ future # NoWorker => ~Active(future)
      BY <1>9 DEF WriteResult, Release, Ready, Active, local
    <2> QED
      BY <1>2, <2>1 DEF NoStrayThread, AssignedAtOnce
  <1>10. CASE Restart
    <2>1. /\ started' = started /\ future' = future /\ strand # "assign"
          /\ pc' = pc
      BY <1>10 DEF Restart, Reset, local, vars
    <2>2. \A v \in Workers : Active(v)' => Active(v)
      BY <2>1 DEF Active
    <2> QED
      BY <1>1, <2>1, <2>2 DEF AssignedAtOnce
  <1>11. CASE Stop \/ Destruct
    <2>1. /\ started' = started /\ future' = future
          /\ NotifyOne \/ UNCHANGED vars
          /\ strand' = strand \/ strand # "assign"
      BY <1>11 DEF Stop, Destruct, Abort, local
    <2> QED
      BY <1>1, <1>2, <1>3, <2>1 DEF AssignedAtOnce
  <1>12. ASSUME NEW w \in Workers, Worker(w) \/ (SpuriousWake(w) /\ UNCHANGED session)
         PROVE  NoStrayThread' /\ AssignedAtOnce'
    <2>1. (Step(w) \/ SpuriousWake(w)) /\ UNCHANGED session
      BY <1>12 DEF Worker
    <2> QED
      BY <2>1, StepNotStray DEF AssignedAtOnce, session, local
  <1> QED
    BY <1>4, <1>5, <1>6, <1>7, <1>8, <1>9, <1>10, <1>11, <1>12 DEF SessionNext, Handler

-----------------------------------------------------------------------------
(* The connection: every step keeps its types, and no handler is told of more *)
(* characters than the buffer holds.                                          *)

ConnectionOK == ConnectionTypeOK /\ SizesInBuffer

LEMMA SendRequestTyped == ASSUME ConnectionOK, SendRequest PROVE ConnectionOK'
  <1>1. script \in Seq(Seq(NetChars)) /\ sent + 1 \in 1 .. Len(script)
    BY DEF ConnectionOK, ConnectionTypeOK, SendRequest
  <1>2. script[sent + 1] \in Seq(NetChars)
    BY <1>1, ElementOfSeq
  <1>3. inbox' \in Seq(NetChars)
    BY <1>2, ConcatProperties DEF ConnectionOK, ConnectionTypeOK, SendRequest
  <1> QED
    BY <1>1, <1>3 DEF ConnectionOK, ConnectionTypeOK, SizesInBuffer, SendRequest, local

LEMMA CloseConnectionTyped == ASSUME ConnectionOK, CloseConnection PROVE ConnectionOK'
  BY DEF ConnectionOK, ConnectionTypeOK, SizesInBuffer, CloseConnection, network, local

LEMMA ResetConnectionTyped == ASSUME ConnectionOK, ResetConnection PROVE ConnectionOK'
  BY EmptySeq DEF ConnectionOK, ConnectionTypeOK, SizesInBuffer, ResetConnection, local

(* A read puts what it takes from the inbox into the beginning of the buffer. *)
LEMMA OverlaidTyped ==
  ASSUME buffer \in Seq(NetChars), inbox \in Seq(NetChars), NEW n \in Nat, n <= Len(inbox)
  PROVE  /\ Overlaid(n) \in Seq(NetChars)
         /\ n <= Len(Overlaid(n)) /\ Len(buffer) <= Len(Overlaid(n))
         /\ \A i \in 1 .. n : Overlaid(n)[i] = inbox[i]
  <1> DEFINE m == IF n > Len(buffer) THEN n ELSE Len(buffer)
             c(i) == IF i <= n THEN inbox[i] ELSE buffer[i]
  <1>1. m \in Nat /\ n <= m /\ Len(buffer) <= m /\ Len(buffer) \in Nat /\ Len(inbox) \in Nat
    OBVIOUS
  <1>2. \A i \in 1 .. m : c(i) \in NetChars
    <2> SUFFICES ASSUME NEW i \in 1 .. m PROVE c(i) \in NetChars
      OBVIOUS
    <2>1. CASE i <= n
      <3>1. i \in 1 .. Len(inbox)
        BY <1>1, <2>1
      <3> QED
        BY <2>1, <3>1, ElementOfSeq
    <2>2. CASE ~(i <= n)
      <3>1. i \in 1 .. Len(buffer)
        BY <1>1, <2>2
      <3> QED
        BY <2>2, <3>1, ElementOfSeq
    <2> QED
      BY <2>1, <2>2
  <1>3. Overlaid(n) = [i \in 1 .. m |-> c(i)]
    BY DEF Overlaid
  <1>4. \A i \in 1 .. n : i \in 1 .. m /\ c(i) = inbox[i]
    BY <1>1
  <1> HIDE DEF c, m
  <1>5. Overlaid(n) \in Seq(NetChars) /\ Len(Overlaid(n)) = m
    BY <1>1, <1>2, <1>3, IsASeq
  <1> QED
    BY <1>1, <1>3, <1>4, <1>5

(* Completions are appended and taken out with the sizes they have.           *)
LEMMA AppendedSized ==
  ASSUME NEW q \in Seq(Completions), NEW d \in Completions, NEW m \in Nat, NEW n \in Nat,
         \A i \in 1 .. Len(q) : q[i].size <= m, m <= n, d.size <= n
  PROVE  /\ Append(q, d) \in Seq(Completions)
         /\ \A i \in 1 .. Len(Append(q, d)) : Append(q, d)[i].size <= n
  <1>1. /\ Append(q, d) \in Seq(Completions) /\ Len(Append(q, d)) = Len(q) + 1
        /\ Append(q, d)[Len(q) + 1] = d
        /\ \A i \in 1 .. Len(q) : Append(q, d)[i] = q[i]
    BY AppendProperties
  <1>2. ASSUME NEW i \in 1 .. Len(q) + 1
        PROVE  Append(q, d)[i].size <= n
    <2>1. CASE i = Len(q) + 1
      BY <1>1, <2>1
    <2>2. CASE i # Len(q) + 1
      <3>1. i \in 1 .. Len(q)
        BY <2>2
      <3>2. q[i] \in Completions
        BY <3>1, ElementOfSeq
      <3>3. q[i].size \in Nat
        BY <3>2 DEF Completions
      <3> QED
        BY <1>1, <3>1, <3>3
    <2> QED
      BY <2>1, <2>2
  <1> QED
    BY <1>1, <1>2

LEMMA ReadDataTyped == ASSUME ConnectionOK, ReadData PROVE ConnectionOK'
  <1>1. PICK n \in 1 .. BufferSize :
          /\ n <= Len(inbox) /\ buffer' = Overlaid(n)
          /\ inbox' = SubSeq(inbox, n + 1, Len(inbox))
          /\ ready' = Append(ready, [kind |-> "data", size |-> n])
    BY DEF ReadData
  <1>2. /\ n \in Nat /\ Len(inbox) \in Nat /\ Len(buffer) \in Nat /\ Len(ready) \in Nat
        /\ buffer \in Seq(NetChars) /\ inbox \in Seq(NetChars) /\ ready \in Seq(Completions)
    BY DEF ConnectionOK, ConnectionTypeOK
  <1>3. /\ buffer' \in Seq(NetChars) /\ n <= Len(buffer') /\ Len(buffer) <= Len(buffer')
        /\ Len(buffer') \in Nat
    BY <1>1, <1>2, OverlaidTyped
  <1>4. inbox' \in Seq(NetChars)
    <2>1. \A i \in n + 1 .. Len(inbox) : inbox[i] \in NetChars
      BY <1>2, ElementOfSeq
    <2> QED
      BY <1>1, <1>2, <2>1, SubSeqProperties
  <1> DEFINE d == [kind |-> "data", size |-> n]
  <1>5. d \in Completions /\ d.size = n
    BY <1>2 DEF Completions
  <1>6. /\ ready' \in Seq(Completions)
        /\ \A i \in 1 .. Len(ready') : ready'[i].size <= Len(buffer')
    <2>1. \A i \in 1 .. Len(ready) : ready[i].size <= Len(buffer)
      BY DEF ConnectionOK, SizesInBuffer
    <2> HIDE DEF d
    <2>2. Append(ready, d) \in Seq(Completions)
          /\ \A i \in 1 .. Len(Append(ready, d)) : Append(ready, d)[i].size <= Len(buffer')
      BY <1>2, <1>3, <1>5, <2>1, AppendedSized
    <2> QED
      BY <1>1, <2>2 DEF d
  <1>7. SizesInBuffer'
    <2>1. task' = task /\ task.size \in Nat /\ task.size <= Len(buffer)
      BY DEF ReadData, local, ConnectionOK, ConnectionTypeOK, Completions, SizesInBuffer
    <2>2. task'.size <= Len(buffer')
      BY <1>2, <1>3, <2>1
    <2> QED
      BY <1>6, <2>2 DEF SizesInBuffer
  <1>8. reads' \in Nat
    BY DEF ReadData, ConnectionOK, ConnectionTypeOK
  <1> QED
    BY <1>3, <1>4, <1>6, <1>7, <1>8 DEF ReadData, client, local, ConnectionOK, ConnectionTypeOK

LEMMA ReadEndTyped == ASSUME ConnectionOK, ReadEnd PROVE ConnectionOK'
  <1> DEFINE d == [kind |-> IF peer = "closed" THEN "eof" ELSE "error", size |-> 0]
  <1>1. d \in Completions /\ d.size = 0 /\ ready' = Append(ready, d)
    BY DEF Completions, ReadEnd
  <1>2. /\ ready \in Seq(Completions) /\ Len(buffer) \in Nat /\ 0 <= Len(buffer)
        /\ \A i \in 1 .. Len(ready) : ready[i].size <= Len(buffer)
    BY DEF ConnectionOK, ConnectionTypeOK, SizesInBuffer
  <1> HIDE DEF d
  <1>3. /\ ready' \in Seq(Completions)
        /\ \A i \in 1 .. Len(ready') : ready'[i].size <= Len(buffer)
    BY <1>1, <1>2, AppendedSized
  <1>4. reads' \in Nat
    BY DEF ReadEnd, ConnectionOK, ConnectionTypeOK
  <1> QED
    BY <1>3, <1>4 DEF ReadEnd, client, local, ConnectionOK, ConnectionTypeOK, SizesInBuffer

LEMMA Removed ==
  ASSUME NEW S, NEW s \in Seq(S), NEW k \in 1 .. Len(s)
  PROVE  /\ RemoveAt(s, k) \in Seq(S)
         /\ Len(RemoveAt(s, k)) = Len(s) - 1
         /\ \A i \in 1 .. Len(s) - 1 : RemoveAt(s, k)[i] = IF i < k THEN s[i] ELSE s[i + 1]
  <1> DEFINE a == SubSeq(s, 1, k - 1)
             b == SubSeq(s, k + 1, Len(s))
  <1>1. Len(s) \in Nat /\ k \in Nat /\ \A i \in 1 .. Len(s) : s[i] \in S
    BY ElementOfSeq
  <1>2. a \in Seq(S) /\ Len(a) = k - 1 /\ \A i \in 1 .. k - 1 : a[i] = s[i]
    <2>1. (\A i \in 1 .. k - 1 : s[i] \in S) /\ k - 1 \in Int /\ k \in Int /\ 1 \in Int
      BY <1>1
    <2>2. /\ a \in Seq(S) /\ Len(a) = (IF 1 <= k - 1 THEN k - 1 - 1 + 1 ELSE 0)
          /\ \A i \in 1 .. k - 1 - 1 + 1 : a[i] = s[1 + i - 1]
      BY <2>1, SubSeqProperties
    <2> HIDE DEF a
    <2>3. (IF 1 <= k - 1 THEN k - 1 - 1 + 1 ELSE 0) = k - 1
      BY <1>1
    <2>4. \A i \in 1 .. k - 1 : i \in 1 .. k - 1 - 1 + 1 /\ 1 + i - 1 = i
      BY <1>1
    <2>5. \A i \in 1 .. k - 1 : a[i] = s[i]
      BY <2>2, <2>4
    <2> QED
      BY <2>2, <2>3, <2>5
  <1>3. b \in Seq(S) /\ Len(b) = Len(s) - k /\ \A i \in 1 .. Len(s) - k : b[i] = s[k + i]
    <2>1. (\A i \in k + 1 .. Len(s) : s[i] \in S) /\ k + 1 \in Int /\ Len(s) \in Int
      BY <1>1
    <2>2. /\ b \in Seq(S)
          /\ Len(b) = (IF k + 1 <= Len(s) THEN Len(s) - (k + 1) + 1 ELSE 0)
          /\ \A i \in 1 .. Len(s) - (k + 1) + 1 : b[i] = s[k + 1 + i - 1]
      BY <2>1, SubSeqProperties
    <2> HIDE DEF b
    <2>3. (IF k + 1 <= Len(s) THEN Len(s) - (k + 1) + 1 ELSE 0) = Len(s) - k
      BY <1>1
    <2>4. \A i \in 1 .. Len(s) - k : i \in 1 .. Len(s) - (k + 1) + 1 /\ k + 1 + i - 1 = k + i
      BY <1>1
    <2>5. \A i \in 1 .. Len(s) - k : b[i] = s[k + i]
      BY <2>2, <2>4
    <2> QED
      BY <2>2, <2>3, <2>5
  <1>4. RemoveAt(s, k) = a \o b
    BY DEF RemoveAt
  <1> HIDE DEF a, b
  <1>5. /\ a \o b \in Seq(S) /\ Len(a \o b) = Len(a) + Len(b)
        /\ \A i \in 1 .. Len(a) + Len(b) : (a \o b)[i] = IF i <= Len(a) THEN a[i] ELSE b[i - Len(a)]
    <2>1. a \in Seq(S) /\ b \in Seq(S)
      BY <1>2, <1>3
    <2> QED
      BY <2>1, ConcatProperties, Zenon
  <1>6. ASSUME NEW i \in 1 .. Len(s) - 1
        PROVE  (a \o b)[i] = IF i < k THEN s[i] ELSE s[i + 1]
    <2>1. CASE i < k
      BY <1>1, <1>2, <1>3, <1>5, <2>1
    <2>2. CASE ~(i < k)
      <3>1. i - (k - 1) \in 1 .. Len(s) - k /\ k + (i - (k - 1)) = i + 1
        BY <1>1, <2>2
      <3>2. b[i - (k - 1)] = s[i + 1]
        BY <1>3, <3>1
      <3>3. (a \o b)[i] = b[i - (k - 1)]
        BY <1>1, <1>2, <1>3, <1>5, <2>2
      <3> QED
        BY <2>2, <3>2, <3>3
    <2> QED
      BY <2>1, <2>2
  <1> QED
    BY <1>1, <1>2, <1>3, <1>4, <1>5, <1>6

LEMMA DispatchTyped == ASSUME ConnectionOK, Dispatch PROVE ConnectionOK'
  <1>1. PICK k \in 1 .. Len(ready) :
          /\ task' = ready[k] /\ ready' = RemoveAt(ready, k)
          /\ strand' = (CASE ready[k].kind = "written" -> "restart"
                          [] ready[k].kind = "error" -> "idle"
                          [] OTHER -> "check")
    BY DEF Dispatch
  <1>2. /\ ready \in Seq(Completions) /\ Len(ready) \in Nat
        /\ \A i \in 1 .. Len(ready) : ready[i].size <= Len(buffer)
    BY DEF ConnectionOK, ConnectionTypeOK, SizesInBuffer
  <1>3. task' \in Completions /\ task'.size <= Len(buffer)
    BY <1>1, <1>2, ElementOfSeq
  <1>4. strand' \in {"restart", "idle", "check"}
    BY <1>1
  <1>5. ready' \in Seq(Completions) /\ Len(ready') = Len(ready) - 1
        /\ \A i \in 1 .. Len(ready) - 1 : ready'[i] = IF i < k THEN ready[i] ELSE ready[i + 1]
    BY <1>1, <1>2, Removed
  <1>6. \A i \in 1 .. Len(ready') : ready'[i].size <= Len(buffer)
    BY <1>2, <1>5
  <1> QED
    BY <1>3, <1>4, <1>5, <1>6 DEF Dispatch, client, ConnectionOK, ConnectionTypeOK, SizesInBuffer

LEMMA CopyDataTyped == ASSUME ConnectionOK, CopyData PROVE ConnectionOK'
  <1>1. task.size \in Nat /\ task.size <= Len(buffer) /\ buffer \in Seq(NetChars)
    BY DEF ConnectionOK, ConnectionTypeOK, SizesInBuffer, Completions
  <1>2. newData' \in Seq(NetChars)
    <2>1. \A i \in 1 .. task.size : buffer[i] \in NetChars
      BY <1>1, ElementOfSeq
    <2> QED
      BY <1>1, <2>1, SubSeqProperties DEF CopyData
  <1> QED
    BY <1>2 DEF CopyData, client, network, ConnectionOK, ConnectionTypeOK, SizesInBuffer

LEMMA AnswerTyped ==
  ASSUME TypeOK, ConnectionTypeOK,
         NEW reply \in Sent(IF future = NoWorker THEN NoOutcome ELSE outcome[future])
  PROVE  reply \in Outcomes \cup {Garbled}
  <1>1. NoOutcome \in Outcomes
    BY EmptySeq DEF NoOutcome, Outcomes, Kinds
  <1>2. future # NoWorker => outcome[future] \in Outcomes
    BY DEF TypeOK, ConnectionTypeOK
  <1> QED
    BY <1>1, <1>2 DEF Sent

LEMMA WriteResultTyped == ASSUME TypeOK, ConnectionOK, WriteResult PROVE ConnectionOK'
  <1>1. PICK reply \in Sent(IF future = NoWorker THEN NoOutcome ELSE outcome[future]) :
          replies' = Append(replies, reply)
    BY DEF WriteResult
  <1>2. replies' \in Seq(Outcomes \cup {Garbled})
    <2>1. replies \in Seq(Outcomes \cup {Garbled}) /\ reply \in Outcomes \cup {Garbled}
      BY AnswerTyped DEF ConnectionOK, ConnectionTypeOK
    <2> HIDE DEF NetChars, Chars
    <2> QED
      BY <1>1, <2>1, AppendProperties
  <1> DEFINE d == [kind |-> "written", size |-> 0]
  <1>3. d \in Completions /\ d.size = 0 /\ ready' = Append(ready, d)
    BY DEF Completions, WriteResult
  <1>4. /\ ready \in Seq(Completions) /\ Len(buffer) \in Nat /\ 0 <= Len(buffer)
        /\ \A i \in 1 .. Len(ready) : ready[i].size <= Len(buffer)
    BY DEF ConnectionOK, ConnectionTypeOK, SizesInBuffer
  <1> HIDE DEF d
  <1>5. /\ ready' \in Seq(Completions)
        /\ \A i \in 1 .. Len(ready') : ready'[i].size <= Len(buffer)
    BY <1>3, <1>4, AppendedSized
  <1> QED
    BY <1>2, <1>5 DEF WriteResult, client, local, ConnectionOK, ConnectionTypeOK, SizesInBuffer

LEMMA ConnectionStep ==
  ASSUME TypeOK, ConnectionOK, SessionNext
  PROVE  ConnectionOK'
  <1>1. UNCHANGED session => ConnectionOK'
    BY DEF session, client, network, local, ConnectionOK, ConnectionTypeOK, SizesInBuffer
  <1>2. CASE SendRequest \/ CloseConnection \/ ResetConnection \/ ReadData \/ ReadEnd
    BY <1>2, SendRequestTyped, CloseConnectionTyped, ResetConnectionTyped, ReadDataTyped, ReadEndTyped
  <1>3. CASE Dispatch \/ CopyData \/ WriteResult
    BY <1>3, DispatchTyped, CopyDataTyped, WriteResultTyped
  <1>4. CASE CheckError \/ LastCharacter \/ TestRunning \/ Add
    <2>1. /\ UNCHANGED <<client, network, task, newData, started, future, finished, stopAsked>>
          /\ strand' \in {"result", "last", "copy", "next", "add", "start", "terminated"}
          /\ complete' \in {complete, TRUE, FALSE}
      BY <1>4 DEF CheckError, LastCharacter, TestRunning, Add, AfterFeeding, local
    <2> QED
      BY <2>1 DEF client, network, ConnectionOK, ConnectionTypeOK, SizesInBuffer
  <1>5. CASE StartCalculation \/ AssignResult \/ Release
    <2>1. /\ UNCHANGED <<client, network, task, complete, newData, finished, stopAsked>>
          /\ strand' \in {"assign", "terminated", "result", "next", "destroyed"}
          /\ future' \in Workers \cup {NoWorker} /\ started' \in Workers \cup {NoWorker}
      BY <1>5 DEF StartCalculation, AssignResult, Release, AfterFeeding, local,
                  ConnectionOK, ConnectionTypeOK
    <2> QED
      BY <2>1 DEF client, network, ConnectionOK, ConnectionTypeOK, SizesInBuffer
  <1>6. CASE ReadNext \/ Restart
    <2>1. /\ UNCHANGED <<client, inbox, replies, buffer, ready, local, future, stopAsked>>
          /\ strand' \in {"idle", "terminated"}
          /\ reads' \in {reads, reads + 1} /\ finished' \in {finished, TRUE}
      BY <1>6 DEF ReadNext, Restart
    <2>2. reads' \in Nat
      BY <2>1 DEF ConnectionOK, ConnectionTypeOK
    <2> QED
      BY <2>1, <2>2 DEF client, local, ConnectionOK, ConnectionTypeOK, SizesInBuffer
  <1>7. CASE Stop \/ Destruct
    <2>1. /\ UNCHANGED <<client, network, local, future, finished>>
          /\ strand' \in {strand, "release"} /\ stopAsked' \in {stopAsked, TRUE}
      BY <1>7 DEF Stop, Destruct
    <2> QED
      BY <2>1 DEF client, network, local, ConnectionOK, ConnectionTypeOK, SizesInBuffer
  <1>8. ASSUME NEW w \in Workers, Worker(w) \/ (SpuriousWake(w) /\ UNCHANGED session)
        PROVE  ConnectionOK'
    BY <1>1, <1>8 DEF Worker
  <1> QED
    BY <1>2, <1>3, <1>4, <1>5, <1>6, <1>7, <1>8 DEF SessionNext, Handler

-----------------------------------------------------------------------------
(* The session's invariant and what follows from it                           *)

LEMMA SessionInitInv == SessionInit => SessionInv
  <1> SUFFICES ASSUME SessionInit
               PROVE  SessionInv
    OBVIOUS
  <1>1. TypeOK
    BY InitInv DEF SessionInit, IInv
  <1>2. ConnectionTypeOK
    <2>1. script \in Seq(Seq(NetChars)) /\ Len(script) \in Nat
      BY DEF SessionInit
    <2>2. /\ <<>> \in Seq(NetChars) /\ <<>> \in Seq(Outcomes \cup {Garbled})
          /\ <<>> \in Seq(Completions)
      BY EmptySeq
    <2>3. Idle \in Completions
      BY DEF Idle, Completions
    <2>4. /\ inbox \in Seq(NetChars) /\ buffer \in Seq(NetChars) /\ newData \in Seq(NetChars)
          /\ replies \in Seq(Outcomes \cup {Garbled}) /\ ready \in Seq(Completions)
          /\ task \in Completions
      BY <2>2, <2>3 DEF SessionInit
    <2>5. script \in Scripts /\ sent \in 0 .. Len(script)
      BY <2>1 DEF SessionInit
    <2> QED
      BY <2>4, <2>5 DEF SessionInit, ConnectionTypeOK
  <1>3. PartsInText /\ SizesInBuffer
    <2>1. Len(expressionParts) = 0 /\ Len(ready) = 0 /\ Len(buffer) = 0 /\ task.size = 0
      BY EmptySeq DEF SessionInit, Init, Idle
    <2> QED
      BY <2>1 DEF PartsInText, SizesInBuffer
  <1>4. NotLeaving /\ AssignedAtOnce /\ NoStrayThread
    BY DEF SessionInit, Init, NotLeaving, AssignedAtOnce, NoStrayThread, Active
  <1> QED
    BY <1>1, <1>2, <1>3, <1>4 DEF SessionInv, SessionTypeOK

LEMMA SessionStepInv == SessionInv /\ [SessionNext]_all => SessionInv'
  <1> SUFFICES ASSUME SessionInv, [SessionNext]_all
               PROVE  SessionInv'
    OBVIOUS
  <1>1. /\ TypeOK /\ ConnectionTypeOK /\ newData \in Seq(NetChars) /\ CalculatorOK /\ ConnectionOK
        /\ NotLeaving /\ AssignedAtOnce /\ NoStrayThread
    BY DEF SessionInv, SessionTypeOK, ConnectionTypeOK, CalculatorOK, ConnectionOK
  <1>2. CASE SessionNext
    <2>1. CalculatorOK' /\ ConnectionOK' /\ NotLeaving' /\ AssignedAtOnce' /\ NoStrayThread'
      BY <1>1, <1>2, CalculatorStep, ConnectionStep, NotLeavingStep, NotStrayStep
    <2> QED
      BY <2>1 DEF SessionInv, SessionTypeOK, CalculatorOK, ConnectionOK
  <1>3. CASE UNCHANGED all
    <2>1. UNCHANGED vars /\ UNCHANGED session
      BY <1>3 DEF all
    <2>2. CalculatorOK'
      BY <1>1, <2>1, CalculatorKept
    <2>3. ConnectionOK'
      BY <1>1, <2>1 DEF session, client, network, local, ConnectionOK, ConnectionTypeOK, SizesInBuffer
    <2>4. NotLeaving' /\ AssignedAtOnce' /\ NoStrayThread'
      BY <1>1, <2>1 DEF vars, flags, history, session, local, NotLeaving, AssignedAtOnce,
                        NoStrayThread, Active
    <2> QED
      BY <2>2, <2>3, <2>4 DEF SessionInv, SessionTypeOK, CalculatorOK, ConnectionOK
  <1> QED
    BY <1>2, <1>3

THEOREM SessionInvariance == SessionSpec => []SessionInv
  <1> QED
    BY SessionInitInv, SessionStepInv, PTL DEF SessionSpec

(* Every variable of the connection and of its calculator keeps its type,      *)
(* whatever the client sends and whenever the threads run: no handler reads    *)
(* beyond what m_buffer holds, no thread beyond the text it was given.         *)
THEOREM SessionTypeCorrect == SessionSpec => []SessionTypeOK
  <1>1. SessionInv => SessionTypeOK
    BY DEF SessionInv
  <1> QED
    BY <1>1, SessionInvariance, PTL

(* No thread outlives the session whose calculator it works on: the session    *)
(* holds, or is about to hold, the future of every thread that is not done.    *)
THEOREM NobodyStrays == SessionSpec => []NoStrayThread
  <1>1. SessionInv => NoStrayThread
    BY DEF SessionInv
  <1> QED
    BY <1>1, SessionInvariance, PTL

(* running() is only true while the thread of the last start() works, or if    *)
(* std::async could not create it.                                            *)
THEOREM RunningMeansWorked == SessionSpec => []RunningIsWorked
  <1>1. SessionInv => RunningIsWorked
    BY DEF SessionInv, NotLeaving, RunningIsWorked, Active, Folding
  <1> QED
    BY <1>1, SessionInvariance, PTL

-----------------------------------------------------------------------------
(* The answer a client gets to its request: for every request, however it is  *)
(* cut and whichever order the threads and the completions run in, in a        *)
(* session that is not stopped and whose socket takes what is written.         *)

\* What the theorems assume of the constants.
QuietFaults == Faults \subseteq {"reset"}

\* Before the answer.
Asking ==
  /\ SessionInv /\ IInv /\ strand # "terminated" /\ replies = <<>>
  /\ TextFlows /\ OneAtATime /\ Feeding

\* After it.
Answered == SessionInv /\ IInv /\ strand # "terminated" /\ replies # <<>> /\ AnsweredOnce

-----------------------------------------------------------------------------
(* The request                                                                *)

LEMMA RequestFacts ==
  ASSUME OneRequestEach, ConnectionTypeOK
  PROVE  /\ Len(script) = 1
         /\ request \in Seq(NetChars) /\ Len(request) \in Nat /\ Len(request) > 1
         /\ request[Len(request)] = End
         /\ \A i \in 1 .. (Len(request) - 1) : request[i] \in Payload
  <1>1. script \in Scripts /\ script \in Seq(Seq(NetChars))
    BY DEF ConnectionTypeOK
  <1>2. /\ Len(script) = 1 /\ Len(request) > 1 /\ request[Len(request)] = End
        /\ \A i \in 1 .. (Len(request) - 1) : request[i] \in Payload
    BY <1>1 DEF OneRequestEach, request
  <1>3. request \in Seq(NetChars)
    <2>1. 1 \in 1 .. Len(script)
      BY <1>2
    <2>2. script[1] \in Seq(NetChars)
      BY <1>1, <2>1, ElementOfSeq
    <2> QED
      BY <2>2 DEF request
  <1> QED
    BY <1>2, <1>3

(* The text that was fed is a beginning of the request.                       *)
Beginning ==
  /\ Len(stream) <= Len(request)
  /\ \A i \in 1 .. Len(stream) : stream[i] = request[i]

LEMMA UnfedTyped ==
  ASSUME SessionInv
  PROVE  /\ Unfed \in Seq(NetChars) /\ Len(Unfed) \in Nat
         /\ ready # <<>> => Len(Unfed) = ready[1].size
         /\ ready = <<>> /\ strand \in {"check", "last", "copy"} => Len(Unfed) = task.size
  <1>1. ASSUME NEW n \in Nat, n <= Len(buffer)
        PROVE  SubSeq(buffer, 1, n) \in Seq(NetChars) /\ Len(SubSeq(buffer, 1, n)) = n
    <2>1. buffer \in Seq(NetChars) /\ Len(buffer) \in Nat
      BY DEF SessionInv, SessionTypeOK, ConnectionTypeOK
    <2>2. \A i \in 1 .. n : buffer[i] \in NetChars
      BY <1>1, <2>1, ElementOfSeq
    <2>3. /\ SubSeq(buffer, 1, n) \in Seq(NetChars)
          /\ Len(SubSeq(buffer, 1, n)) = IF 1 <= n THEN n - 1 + 1 ELSE 0
      BY <2>2, SubSeqProperties
    <2> QED
      BY <2>3
  <1>2. CASE ready # <<>>
    <2>1. ready[1].size \in Nat /\ ready[1].size <= Len(buffer)
      <3>1. ready \in Seq(Completions) /\ 1 \in 1 .. Len(ready)
        BY <1>2, EmptySeq DEF SessionInv, SessionTypeOK, ConnectionTypeOK
      <3>2. ready[1] \in Completions
        BY <3>1, ElementOfSeq
      <3> QED
        BY <3>1, <3>2 DEF SessionInv, SizesInBuffer, Completions
    <2>2. Unfed = SubSeq(buffer, 1, ready[1].size)
      BY <1>2 DEF Unfed
    <2> QED
      BY <1>1, <1>2, <2>1, <2>2
  <1>3. CASE ready = <<>> /\ strand \in {"check", "last", "copy"}
    <2>1. task.size \in Nat /\ task.size <= Len(buffer)
      BY DEF SessionInv, SessionTypeOK, ConnectionTypeOK, SizesInBuffer, Completions
    <2>2. Unfed = SubSeq(buffer, 1, task.size)
      BY <1>3 DEF Unfed
    <2> QED
      BY <1>1, <1>3, <2>1, <2>2
  <1>4. CASE ready = <<>> /\ strand \notin {"check", "last", "copy"}
    <2>1. newData \in Seq(NetChars) /\ <<>> \in Seq(NetChars)
      BY EmptySeq DEF SessionInv, SessionTypeOK, ConnectionTypeOK
    <2>2. Unfed = newData \/ Unfed = <<>>
      BY <1>4 DEF Unfed
    <2>3. Unfed \in Seq(NetChars)
      BY <2>1, <2>2
    <2> QED
      BY <1>4, <2>3
  <1> QED
    BY <1>2, <1>3, <1>4

(* Nothing was read that was not sent.                                        *)
LEMMA ReadWithin ==
  ASSUME OneRequestEach, SessionInv, TextFlows
  PROVE  /\ Len(stream) \in Nat /\ Len(Unfed) \in Nat /\ Len(inbox) \in Nat
         /\ Len(stream) + Len(Unfed) <= Len(request)
         /\ Beginning
         /\ sent \in {0, 1}
  <1>1. /\ Len(stream) \in Nat /\ Len(inbox) \in Nat /\ ConnectionTypeOK
    BY DEF SessionInv, SessionTypeOK, TypeOK, ConnectionTypeOK
  <1>2. sent \in {0, 1} /\ Len(request) \in Nat
    <2>1. sent \in 0 .. Len(script)
      BY <1>1 DEF ConnectionTypeOK
    <2>2. Len(script) = 1 /\ Len(request) \in Nat
      BY <1>1, RequestFacts
    <2> QED
      BY <2>1, <2>2
  <1>3. Len(Unfed) \in Nat
    BY UnfedTyped
  <1>4. Len(stream) + Len(Unfed) <= Len(request)
    BY <1>1, <1>2, <1>3 DEF TextFlows
  <1> QED
    BY <1>1, <1>2, <1>3, <1>4 DEF TextFlows, Beginning

-----------------------------------------------------------------------------
(* The calculation of a beginning of the request                              *)

\* While no end was fed, the thread goes on and nothing clears m_running.
LEMMA GoesOn ==
  ASSUME OneRequestEach, SessionInv, IInv, Beginning, Len(stream) < Len(request),
         current # NoWorker, ~abortAsked
  PROVE  running
  <1>1. /\ TypeOK /\ ConnectionTypeOK /\ Len(stream) \in Nat /\ current \in Workers
        /\ pc[current] \in PCs
    BY DEF IInv, TypeOK, SessionInv, SessionTypeOK
  <1>2. \A i \in 1 .. Len(stream) : stream[i] \in Payload
    <2>1. \A i \in 1 .. Len(stream) : i \in 1 .. (Len(request) - 1)
      BY <1>1, RequestFacts
    <2> QED
      BY <1>1, <2>1, RequestFacts DEF Beginning
  <1>3. ~\E q \in 1 .. Len(stream) : IsStop(q)
    BY <1>2 DEF IsStop
  <1>4. pc[current] \notin Failing \cup Wiping \cup {"done"}
    <2>1. ~InvalidText /\ \A v : ~ValueText(v)
      BY <1>3 DEF InvalidText, ValueText
    <2>2. outcome[current].kind \in Kinds
      BY <1>1 DEF TypeOK, Outcomes
    <2> QED
      BY <2>1, <2>2 DEF IInv, LeavingInv, Kinds
  <1>5. pc[current] # "finish"
    <2> SUFFICES ASSUME pc[current] = "finish" PROVE FALSE
      OBVIOUS
    <2>1. /\ Folded /\ stream[Len(numbers) + 1] = End /\ expressionParts # <<>>
          /\ Len(numbers) < expressionParts[1].to
      BY DEF IInv, EndingInv
    <2>2. expressionParts[1].to \in Nat /\ expressionParts[1].to <= Len(stream) /\ Len(numbers) \in Nat
      BY <1>1, <2>1, FirstWithin DEF IInv, TypeOK
    <2>3. Len(numbers) + 1 \in 1 .. Len(stream)
      BY <1>1, <2>1, <2>2
    <2> QED
      BY <1>2, <2>1, <2>3
  <1>6. pc[current] \in Folding
    <2>1. pc[current] # "idle"
      BY DEF IInv, Alone
    <2> QED
      BY <1>1, <1>4, <1>5, <2>1 DEF PCs, Folding, Failing, Wiping
  <1> QED
    BY <1>1, <1>6 DEF IInv, FlagsInv

\* A beginning of the request is no reason to fail, nor to set the error flag.
LEMMA NeverFails ==
  ASSUME OneRequestEach, SessionInv, IInv, Beginning,
         current # NoWorker, ~abortAsked, lastFrom < Len(stream)
  PROVE  ~errorOccured /\ ~InvalidText
  <1>1. /\ TypeOK /\ ConnectionTypeOK /\ Len(stream) \in Nat /\ current \in Workers /\ lastFrom \in Nat
        /\ outcome[current].kind \in Kinds
    BY DEF IInv, TypeOK, Outcomes, SessionInv, SessionTypeOK
  <1>2. ASSUME NEW q \in 1 .. Len(stream), IsStop(q)
        PROVE  stream[q] = End /\ q = Len(request) /\ q = Len(stream)
    <2>1. q \in 1 .. Len(request) /\ stream[q] = request[q] /\ Len(request) \in Nat
      BY <1>1, RequestFacts DEF Beginning
    <2>2. stream[q] \notin Payload
      BY <1>2 DEF IsStop
    <2>3. q = Len(request)
      BY <1>1, <2>1, <2>2, RequestFacts
    <2> QED
      BY <1>1, <2>1, <2>3, RequestFacts DEF Beginning
  <1>3. ~InvalidText
    <2>1. Len(request) > 1 /\ Bad # End
      BY <1>1, RequestFacts
    <2> QED
      BY <1>1, <1>2, <2>1 DEF InvalidText
  <1>4. pc[current] \notin Failing /\ (pc[current] = "done" => outcome[current].kind = "value")
    BY <1>1, <1>3 DEF IInv, LeavingInv, Kinds
  <1> QED
    BY <1>3, <1>4 DEF IInv, FlagsInv, Failing

\* A thread that is done with the whole request has its value.
LEMMA Valued1 ==
  ASSUME OneRequestEach, SessionInv, IInv, Beginning, Len(stream) = Len(request),
         current # NoWorker, ~abortAsked, lastFrom < Len(stream), Ready(current)
  PROVE  outcome[current] = Deserved(1)
  <1>1. /\ TypeOK /\ ConnectionTypeOK /\ Len(stream) \in Nat /\ current \in Workers
        /\ outcome[current] \in Outcomes /\ stream \in Seq(Chars)
    BY DEF IInv, TypeOK, SessionInv, SessionTypeOK
  <1>2. outcome[current].kind = "value" /\ ValueText(outcome[current].value)
    <2>1. outcome[current].kind \in Kinds
      BY <1>1 DEF Outcomes
    <2> QED
      BY <1>1, <2>1, NeverFails DEF IInv, LeavingInv, Ready, Kinds
  <1> DEFINE IsFirst(q) == script[1][q] \notin Payload /\ \A i \in 1 .. (q - 1) : script[1][i] \in Payload
             N == Len(request)
  <1>3. N \in Nat /\ N > 1 /\ request = script[1]
    BY <1>1, RequestFacts DEF request
  <1>4. /\ N \in 1 .. Len(script[1]) /\ IsFirst(N)
        /\ \A q \in 1 .. Len(script[1]) : IsFirst(q) => q = N
    BY <1>1, <1>3, RequestFacts
  <1>5. Deserved(1) = [kind |-> "value", value |-> SubSeq(request, 1, N - 1)]
    <2>1. (CHOOSE q \in 1 .. Len(script[1]) : IsFirst(q)) = N
      <3> HIDE DEF IsFirst, N
      <3> QED
        BY <1>4
    <2>2. script[1][N] # Bad
      BY <1>1, <1>3, RequestFacts
    <2> QED
      BY <1>3, <2>1, <2>2 DEF Deserved
  <1>6. outcome[current].value = SubSeq(stream, 1, N - 1)
    <2>1. PICK q \in 1 .. Len(stream) :
            IsStop(q) /\ outcome[current].value = SubSeq(stream, 1, q - 1)
      BY <1>2 DEF ValueText
    <2>2. IsFirst(q)
      BY <1>1, <1>3, <2>1 DEF IsStop, Beginning
    <2> QED
      BY <1>3, <1>4, <2>1, <2>2
  <1>7. SubSeq(stream, 1, N - 1) = SubSeq(request, 1, N - 1)
    BY <1>3 DEF Beginning
  <1> QED
    BY <1>1, <1>2, <1>5, <1>6, <1>7 DEF Outcomes

-----------------------------------------------------------------------------
(* The calculator's own invariant survives every step of such a session       *)

LEMMA CalculatorSafe ==
  ASSUME RequestInv, QuietFaults, SessionNext
  PROVE  IInv'
  <1>1. /\ IInv /\ newData \in Seq(NetChars) /\ strand # "terminated"
        /\ (Feeding \/ AnsweredOnce)
    BY DEF RequestInv, Standing, SessionInv, SessionTypeOK, ConnectionTypeOK, SessionNext
  <1>2. Parsed(newData) \in Seq(Chars)
    BY <1>1, ParsedTyped
  <1>3. CASE SendRequest \/ CloseConnection \/ ResetConnection \/ ReadData \/ ReadEnd
    BY <1>1, <1>3, NetworkQuiet, StutterInv
  <1>4. CASE Dispatch \/ CheckError \/ LastCharacter \/ CopyData \/ TestRunning
             \/ AssignResult \/ WriteResult
             \/ ReadNext \/ Release
    BY <1>1, <1>4, HandlerQuiet, StutterInv
  <1>5. CASE Add
    BY <1>1, <1>2, <1>5, AddExprPartInv, StutterInv DEF Add
  <1>6. CASE StartCalculation
    <2>1. strand = "start"
      BY <1>6 DEF StartCalculation
    <2>2. Feeding /\ current = NoWorker
      BY <1>1, <2>1 DEF AnsweredOnce, Over, Feeding
    <2>3. Quiescent
      BY <1>1, <2>2 DEF IInv, Alone, Quiescent
    <2> QED
      BY <1>1, <1>2, <1>6, <2>3, StartInv, StartThrowsInv DEF StartCalculation
  <1>7. CASE Restart
    <2>1. strand = "restart"
      BY <1>7 DEF Restart
    <2>2. Quiescent
      BY <1>1, <2>1 DEF Feeding, AnsweredOnce
    <2> QED
      BY <1>1, <1>7, <2>2, ResetInv, StutterInv DEF Restart
  <1>8. CASE Stop \/ Destruct
    BY <1>1, <1>8, AbortInv, StutterInv DEF Stop, Destruct
  <1>9. ASSUME NEW w \in Workers, Worker(w) \/ (SpuriousWake(w) /\ UNCHANGED session)
        PROVE  IInv'
    BY <1>1, <1>9, WorkerInv DEF Worker
  <1> QED
    BY <1>3, <1>4, <1>5, <1>6, <1>7, <1>8, <1>9 DEF SessionNext, Handler

-----------------------------------------------------------------------------
(* Steps before the answer                                                    *)

LEMMA AskingTyped ==
  ASSUME Asking
  PROVE  /\ TypeOK /\ ConnectionTypeOK /\ SizesInBuffer /\ AssignedAtOnce
         /\ stream \in Seq(Chars) /\ Len(stream) \in Nat
         /\ inbox \in Seq(NetChars) /\ Len(inbox) \in Nat
         /\ buffer \in Seq(NetChars) /\ Len(buffer) \in Nat
         /\ newData \in Seq(NetChars) /\ Len(newData) \in Nat
         /\ ready \in Seq(Completions) /\ Len(ready) \in Nat /\ reads \in Nat
         /\ task.size \in Nat
  BY DEF Asking, SessionInv, SessionTypeOK, TypeOK, ConnectionTypeOK, Completions

\* The flow of the text depends on nothing else.
LEMMA FlowsOn ==
  ASSUME TextFlows, UNCHANGED <<script, sent, peer, inbox, stream>>,
         Len(Unfed') = Len(Unfed), \A i \in 1 .. Len(Unfed) : Unfed'[i] = Unfed[i]
  PROVE  TextFlows'
  BY DEF TextFlows, request

\* Nothing is left of it, before and after.
LEMMA FlowsOnEmpty ==
  ASSUME TextFlows, UNCHANGED <<script, sent, peer, inbox, stream>>,
         Len(Unfed') = 0, Len(Unfed) = 0
  PROVE  TextFlows'
  <1>1. \A i \in 1 .. Len(Unfed) : Unfed'[i] = Unfed[i]
    OBVIOUS
  <1> QED
    BY <1>1, FlowsOn

\* While a read is outstanding, nobody holds text that was not fed.
LEMMA OneRead ==
  ASSUME Asking, reads > 0
  PROVE  ready = <<>> /\ Len(ready) = 0 /\ reads = 1 /\ strand \in {"idle"} \cup Over /\ Unfed = <<>>
  <1>1. Len(ready) \in Nat /\ reads \in Nat /\ ready \in Seq(Completions)
    BY AskingTyped
  <1>2. Len(ready) = 0 /\ reads = 1 /\ strand \in {"idle"} \cup Over
    BY <1>1 DEF Asking, OneAtATime, Over
  <1>3. ready = <<>>
    BY <1>1, <1>2, EmptySeq
  <1> QED
    BY <1>2, <1>3 DEF Unfed, Over

\* While a handler is at work, there is no read and no completion.
LEMMA OneHandler ==
  ASSUME Asking, strand \notin {"idle"} \cup Over
  PROVE  ready = <<>> /\ Len(ready) = 0 /\ reads = 0
  <1>1. Len(ready) \in Nat /\ reads \in Nat /\ ready \in Seq(Completions)
    BY AskingTyped
  <1>2. Len(ready) = 0 /\ reads = 0
    BY <1>1 DEF Asking, OneAtATime
  <1> QED
    BY <1>1, <1>2, EmptySeq

LEMMA SendRequestAsks ==
  ASSUME Asking, OneRequestEach, SendRequest
  PROVE  Standing'
  <1>1. /\ inbox' = inbox \o script[sent + 1] /\ sent' = sent + 1 /\ sent < Len(script)
        /\ peer = "open"
        /\ UNCHANGED <<vars, script, peer, replies, reads, buffer, ready, strand, local, future>>
    BY DEF SendRequest
  <1>2. Len(script) = 1 /\ request \in Seq(NetChars) /\ Len(request) \in Nat /\ ConnectionTypeOK
        /\ inbox \in Seq(NetChars) /\ Len(inbox) \in Nat /\ Len(stream) \in Nat /\ Len(Unfed) \in Nat
    BY AskingTyped, RequestFacts, UnfedTyped DEF Asking
  <1>3. sent = 0
    <2>1. sent \in 0 .. Len(script)
      BY <1>2 DEF ConnectionTypeOK
    <2> QED
      BY <1>1, <1>2, <2>1
  <1>4. Len(stream) = 0 /\ Len(Unfed) = 0 /\ Len(inbox) = 0
    BY <1>2, <1>3 DEF Asking, TextFlows
  <1>5. inbox' = inbox \o request /\ sent' = 1
    BY <1>1, <1>3 DEF request
  <1>6. Len(inbox') = Len(request) /\ \A i \in 1 .. Len(request) : inbox'[i] = request[i]
    <2>1. /\ Len(inbox \o request) = Len(inbox) + Len(request)
          /\ \A i \in 1 .. Len(inbox) + Len(request) :
               (inbox \o request)[i] = IF i <= Len(inbox) THEN inbox[i] ELSE request[i - Len(inbox)]
      BY <1>2, ConcatProperties
    <2>2. Len(inbox) + Len(request) = Len(request) /\ \A i \in 1 .. Len(request) : ~(i <= Len(inbox)) /\ i - Len(inbox) = i
      BY <1>2, <1>4
    <2> QED
      BY <1>5, <2>1, <2>2
  <1>7. Unfed' = Unfed /\ stream' = stream /\ request' = request /\ peer' = "open"
    BY <1>1 DEF Unfed, local, vars, history, request
  <1>8. TextFlows'
    BY <1>2, <1>4, <1>5, <1>6, <1>7 DEF TextFlows
  <1>9. OneAtATime' /\ Feeding'
    BY <1>1, <1>7 DEF Asking, OneAtATime, Feeding, local, vars, flags, history
  <1> QED
    BY <1>1, <1>8, <1>9 DEF Standing, Asking

LEMMA CloseConnectionAsks ==
  ASSUME Asking, CloseConnection
  PROVE  Standing'
  <1>1. /\ peer = "open" /\ peer' = "closed"
        /\ UNCHANGED <<vars, script, sent, network, strand, local, future>>
    BY DEF CloseConnection
  <1>2. Unfed' = Unfed
    BY <1>1 DEF Unfed, local, network
  <1>3. TextFlows'
    BY <1>1, <1>2 DEF Asking, TextFlows, request, vars, history, network
  <1>4. OneAtATime' /\ Feeding'
    BY <1>1 DEF Asking, OneAtATime, Feeding, local, vars, flags, history, network, request
  <1> QED
    BY <1>1, <1>3, <1>4 DEF Standing, Asking, network

LEMMA ResetConnectionAsks ==
  ASSUME Asking, OneRequestEach, ResetConnection
  PROVE  Standing'
  <1>1. /\ peer' = "reset" /\ inbox' = <<>>
        /\ UNCHANGED <<vars, script, sent, replies, reads, buffer, ready, strand, local, future>>
    BY DEF ResetConnection
  <1>2. Unfed' = Unfed /\ stream' = stream /\ request' = request
    BY <1>1 DEF Unfed, local, request, vars, history
  <1>3. Len(stream) + Len(Unfed) <= Len(request) /\ Len(stream) \in Nat /\ Len(Unfed) \in Nat
    BY ReadWithin DEF Asking
  <1>4. Len(inbox') = 0
    BY <1>1
  <1>5. TextFlows'
    BY <1>1, <1>2, <1>3, <1>4 DEF Asking, TextFlows
  <1>6. OneAtATime' /\ Feeding'
    BY <1>1 DEF Asking, OneAtATime, Feeding, local, vars, flags, history, request
  <1> QED
    BY <1>1, <1>5, <1>6 DEF Standing, Asking

\* One completion of kind d is what is left of the outstanding read.
LEMMA OneCompletion ==
  ASSUME NEW d \in Completions, ready = <<>>, ready' = Append(ready, d)
  PROVE  Len(ready') = 1 /\ ready'[1] = d /\ ready' # <<>>
  BY EmptySeq

LEMMA ReadDataAsks ==
  ASSUME Asking, OneRequestEach, ReadData
  PROVE  Standing'
  <1>1. PICK n \in 1 .. BufferSize :
          /\ n <= Len(inbox) /\ buffer' = Overlaid(n)
          /\ inbox' = SubSeq(inbox, n + 1, Len(inbox))
          /\ ready' = Append(ready, [kind |-> "data", size |-> n])
    BY DEF ReadData
  <1>2. /\ reads > 0 /\ peer # "reset" /\ reads' = reads - 1
        /\ UNCHANGED <<vars, client, replies, strand, local, future>>
    BY DEF ReadData
  <1>3. /\ n \in Nat /\ Len(inbox) \in Nat /\ Len(stream) \in Nat
        /\ buffer \in Seq(NetChars) /\ inbox \in Seq(NetChars)
    BY AskingTyped
  <1>4. /\ ready = <<>> /\ reads = 1 /\ strand \in {"idle"} \cup Over /\ Len(Unfed) = 0
    BY <1>2, OneRead
  <1> DEFINE d == [kind |-> "data", size |-> n]
  <1>5. d \in Completions /\ d.kind = "data" /\ d.size = n
    BY <1>3 DEF Completions
  <1>6. Len(ready') = 1 /\ ready'[1] = d /\ ready' # <<>>
    <2> HIDE DEF d
    <2>1. ready' = Append(ready, d)
      BY <1>1 DEF d
    <2> QED
      BY <1>4, <1>5, <2>1, OneCompletion
  <1>7. /\ buffer' \in Seq(NetChars) /\ n <= Len(buffer')
        /\ \A i \in 1 .. n : buffer'[i] = inbox[i]
    BY <1>1, <1>3, OverlaidTyped
  <1>8. Unfed' = SubSeq(buffer', 1, n)
    BY <1>5, <1>6 DEF Unfed
  <1>9. Len(Unfed') = n /\ \A i \in 1 .. n : Unfed'[i] = inbox[i]
    <2>1. \A i \in 1 .. n : buffer'[i] \in NetChars
      <3>1. \A i \in 1 .. n : i \in 1 .. Len(buffer')
        BY <1>3, <1>7
      <3> QED
        BY <1>7, <3>1, ElementOfSeq
    <2>2. /\ Len(SubSeq(buffer', 1, n)) = (IF 1 <= n THEN n - 1 + 1 ELSE 0)
          /\ \A i \in 1 .. n - 1 + 1 : SubSeq(buffer', 1, n)[i] = buffer'[1 + i - 1]
      BY <1>3, <2>1, SubSeqProperties
    <2>3. (IF 1 <= n THEN n - 1 + 1 ELSE 0) = n /\ n - 1 + 1 = n /\ \A i \in 1 .. n : 1 + i - 1 = i
      BY <1>3
    <2> QED
      BY <1>7, <1>8, <2>2, <2>3
  <1>10. /\ Len(inbox') = Len(inbox) - n
         /\ \A i \in 1 .. Len(inbox) - n : inbox'[i] = inbox[n + i]
    <2>1. \A i \in n + 1 .. Len(inbox) : inbox[i] \in NetChars
      BY <1>3, ElementOfSeq
    <2>2. /\ Len(inbox') = (IF n + 1 <= Len(inbox) THEN Len(inbox) - (n + 1) + 1 ELSE 0)
          /\ \A i \in 1 .. Len(inbox) - (n + 1) + 1 : inbox'[i] = inbox[n + 1 + i - 1]
      BY <1>1, <1>3, <2>1, SubSeqProperties
    <2>3. /\ (IF n + 1 <= Len(inbox) THEN Len(inbox) - (n + 1) + 1 ELSE 0) = Len(inbox) - n
          /\ Len(inbox) - (n + 1) + 1 = Len(inbox) - n
          /\ \A i \in 1 .. Len(inbox) - n : n + 1 + i - 1 = n + i
      BY <1>1, <1>3
    <2> QED
      BY <2>2, <2>3
  <1>11. stream' = stream /\ request' = request /\ sent' = sent /\ peer' = peer
    BY <1>2 DEF vars, history, client, request
  <1>12. TextFlows'
    <2>1. sent # 0 /\ (sent = 1 => Len(stream) + Len(inbox) = Len(request))
      BY <1>1, <1>2, <1>3, <1>4 DEF Asking, TextFlows
    <2>2. \A i \in 1 .. Len(stream) : stream[i] = request[i]
      BY DEF Asking, TextFlows
    <2>3. \A i \in 1 .. Len(inbox) : inbox[i] = request[Len(stream) + i]
      <3>1. \A i \in 1 .. Len(inbox) : inbox[i] = request[Len(stream) + Len(Unfed) + i]
        BY DEF Asking, TextFlows
      <3> QED
        BY <1>3, <1>4, <3>1
    <2>4. \A i \in 1 .. n : Unfed'[i] = request[Len(stream) + i]
      <3>1. \A i \in 1 .. n : i \in 1 .. Len(inbox)
        BY <1>1, <1>3
      <3> QED
        BY <1>9, <2>3, <3>1
    <2>5. \A i \in 1 .. Len(inbox) - n : inbox'[i] = request[Len(stream) + n + i]
      <3>1. \A i \in 1 .. Len(inbox) - n : n + i \in 1 .. Len(inbox) /\ Len(stream) + (n + i) = Len(stream) + n + i
        BY <1>1, <1>3
      <3> QED
        BY <1>10, <2>3, <3>1
    <2>6. Len(stream) + n + (Len(inbox) - n) = Len(stream) + Len(inbox)
      BY <1>3
    <2> QED
      BY <1>2, <1>9, <1>10, <1>11, <2>1, <2>2, <2>4, <2>5, <2>6 DEF TextFlows
  <1>13. OneAtATime'
    <2>1. reads' = 0 /\ strand' = strand
      BY <1>2, <1>4
    <2> QED
      BY <1>4, <1>5, <1>6, <2>1 DEF OneAtATime
  <1>14. Feeding'
    BY <1>2, <1>4, <1>11 DEF Asking, Feeding, Over, vars, flags, history
  <1> QED
    BY <1>2, <1>12, <1>13, <1>14 DEF Standing, Asking

LEMMA EmptyFront ==
  ASSUME NEW s \in Seq(NetChars)
  PROVE  Len(SubSeq(s, 1, 0)) = 0
  BY SubSeqProperties

LEMMA ReadEndAsks ==
  ASSUME Asking, ReadEnd
  PROVE  Standing'
  <1> DEFINE d == [kind |-> IF peer = "closed" THEN "eof" ELSE "error", size |-> 0]
  <1>1. d \in Completions /\ d.size = 0 /\ d.kind # "written" /\ ready' = Append(ready, d)
    BY DEF Completions, ReadEnd
  <1>2. /\ reads > 0 /\ reads' = reads - 1
        /\ UNCHANGED <<vars, client, inbox, replies, buffer, strand, local, future>>
    BY DEF ReadEnd
  <1> HIDE DEF d
  <1>3. /\ ready = <<>> /\ reads = 1 /\ strand \in {"idle"} \cup Over /\ Len(Unfed) = 0
    BY <1>2, OneRead
  <1>4. Len(ready') = 1 /\ ready'[1] = d /\ ready' # <<>>
    BY <1>1, <1>3, OneCompletion
  <1>5. Len(Unfed') = 0
    <2>1. Unfed' = SubSeq(buffer, 1, 0)
      BY <1>1, <1>2, <1>4 DEF Unfed
    <2> QED
      BY <2>1, AskingTyped, EmptyFront
  <1>6. TextFlows'
    BY <1>2, <1>3, <1>5, FlowsOnEmpty DEF Asking, client, vars, history
  <1>7. OneAtATime'
    BY <1>1, <1>2, <1>3, <1>4 DEF OneAtATime
  <1>8. Feeding'
    BY <1>2, <1>3 DEF Asking, Feeding, Over, vars, flags, history
  <1> QED
    BY <1>2, <1>6, <1>7, <1>8 DEF Standing, Asking

LEMMA DispatchAsks ==
  ASSUME Asking, Dispatch
  PROVE  Standing'
  <1>1. PICK k \in 1 .. Len(ready) :
          /\ task' = ready[k] /\ ready' = RemoveAt(ready, k)
          /\ strand' = (CASE ready[k].kind = "written" -> "restart"
                          [] ready[k].kind = "error" -> "idle"
                          [] OTHER -> "check")
    BY DEF Dispatch
  <1>2. /\ strand = "idle"
        /\ UNCHANGED <<vars, client, inbox, replies, reads, buffer, complete, newData, started, future>>
    BY DEF Dispatch
  <1>3. /\ ready \in Seq(Completions) /\ Len(ready) \in Nat /\ reads \in Nat /\ buffer \in Seq(NetChars)
    BY AskingTyped
  <1>4. Len(ready) = 1 /\ reads = 0 /\ k = 1
    <2>1. k \in 1 .. Len(ready)
      OBVIOUS
    <2>2. reads + Len(ready) <= 1
      BY <1>2, <1>3 DEF Asking, OneAtATime
    <2>3. Len(ready) = 1 /\ reads = 0
      <3>1. Len(ready) \in Nat /\ reads \in Nat
        BY <1>3
      <3> HIDE <1>3
      <3>2. Len(ready) >= 1
        BY <2>1, <3>1
      <3> QED
        BY <2>2, <3>1, <3>2
    <2>4. k = 1
      BY <2>1, <2>3
    <2> QED
      BY <2>3, <2>4
  <1>5. ready # <<>> /\ task' = ready[1] /\ Unfed = SubSeq(buffer, 1, ready[1].size)
    <2>1. ready # <<>>
      BY <1>4
    <2>2. task' = ready[1]
      BY <1>1, <1>4
    <2> QED
      BY <2>1, <2>2 DEF Unfed
  <1>6. Len(ready') = 0 /\ ready' = <<>>
    <2>1. RemoveAt(ready, k) \in Seq(Completions) /\ Len(RemoveAt(ready, k)) = Len(ready) - 1
      BY <1>3, Removed
    <2>2. Len(RemoveAt(ready, k)) = 0
      BY <1>4, <2>1
    <2> QED
      BY <1>1, <2>1, <2>2, EmptySeq
  <1>7. ready[1].kind # "written" /\ (ready[1].kind = "error" => ready[1].size = 0)
    BY <1>4 DEF Asking, OneAtATime
  <1>8. strand' \in {"idle", "check"} /\ (strand' = "idle" => ready[1].size = 0)
    BY <1>1, <1>4, <1>7
  <1>9. TextFlows'
    <2>1. UNCHANGED <<script, sent, peer, inbox, stream>>
      BY <1>2 DEF client, vars, history
    <2>2. CASE strand' = "check"
      <3>1. Unfed' = Unfed
        <4>1. Unfed' = SubSeq(buffer', 1, task'.size)
          BY <1>6, <2>2 DEF Unfed
        <4>2. buffer' = buffer
          BY <1>2
        <4> QED
          BY <1>5, <4>1, <4>2
      <3> QED
        BY <2>1, <3>1, FlowsOn DEF Asking
    <2>3. CASE strand' = "idle"
      <3>1. Len(Unfed') = 0
        BY <1>6, <2>3 DEF Unfed
      <3>2. Len(Unfed) = 0
        BY <1>3, <1>5, <1>8, <2>3, EmptyFront
      <3> QED
        BY <2>1, <3>1, <3>2, FlowsOnEmpty DEF Asking
    <2> QED
      BY <1>8, <2>2, <2>3
  <1>10. OneAtATime'
    <2>1. reads' = 0
      BY <1>2, <1>4
    <2> QED
      BY <1>6, <1>8, <2>1 DEF OneAtATime
  <1>11. Feeding'
    BY <1>2, <1>8 DEF Asking, Feeding, Over, vars, flags, history
  <1> QED
    BY <1>2, <1>8, <1>9, <1>10, <1>11 DEF Standing, Asking

\* The flag is no reason to answer before the end.
LEMMA NotFailed ==
  ASSUME Asking, OneRequestEach, strand \notin Over
  PROVE  ~errorOccured
  <1>1. /\ ~abortAsked /\ (current = NoWorker => ~errorOccured)
        /\ (current # NoWorker => lastFrom < Len(stream)) /\ SessionInv /\ IInv /\ Beginning
    BY ReadWithin DEF Asking, Feeding
  <1> QED
    BY <1>1, NeverFails

LEMMA CheckErrorAsks ==
  ASSUME Asking, OneRequestEach, CheckError
  PROVE  Standing'
  <1>1. /\ strand = "check"
        /\ strand' = (IF errorOccured THEN "result" ELSE IF task.size > 0 THEN "last" ELSE "next")
        /\ UNCHANGED <<vars, client, network, task, newData, started, future>>
    BY DEF CheckError
  <1>2. /\ strand' = (IF task.size > 0 THEN "last" ELSE "next") /\ ready = <<>>
        /\ Len(ready) = 0 /\ reads = 0 /\ task.size \in Nat /\ buffer \in Seq(NetChars)
    BY <1>1, NotFailed, OneHandler, AskingTyped DEF Over
  <1>3. ready' = <<>> /\ buffer' = buffer /\ reads' = reads /\ inbox' = inbox /\ replies' = replies
        /\ UNCHANGED <<script, sent, peer, inbox, stream>>
    BY <1>1, <1>2 DEF network, client, vars, history
  <1>4. TextFlows'
    <2>1. CASE task.size > 0
      <3>1. Unfed' = Unfed
        BY <1>1, <1>2, <1>3, <2>1 DEF Unfed
      <3> QED
        BY <1>3, <3>1, FlowsOn DEF Asking
    <2>2. CASE ~(task.size > 0)
      <3>1. Len(Unfed') = 0
        BY <1>1, <1>2, <1>3, <2>2 DEF Unfed
      <3>2. task.size = 0 /\ Unfed = SubSeq(buffer, 1, task.size)
        BY <1>1, <1>2, <2>2 DEF Unfed
      <3>3. Len(Unfed) = 0
        BY <1>2, <3>2, EmptyFront
      <3> QED
        BY <1>3, <3>1, <3>3, FlowsOnEmpty DEF Asking
    <2> QED
      BY <2>1, <2>2
  <1>5. OneAtATime'
    BY <1>1, <1>2, <1>3 DEF OneAtATime, Over
  <1>6. Feeding'
    BY <1>1, <1>2 DEF Asking, Feeding, Over, vars, flags, history
  <1> QED
    BY <1>2, <1>3, <1>4, <1>5, <1>6 DEF Standing, Asking

\* Text that was read and not fed ends the request if its last character is End.
LEMMA EndIsLast ==
  ASSUME Asking, OneRequestEach, Len(Unfed) > 0, Unfed[Len(Unfed)] = End
  PROVE  Len(stream) + Len(Unfed) = Len(request)
  <1>1. /\ Len(stream) \in Nat /\ Len(Unfed) \in Nat /\ Len(stream) + Len(Unfed) <= Len(request)
        /\ Len(request) \in Nat /\ \A i \in 1 .. (Len(request) - 1) : request[i] \in Payload
    BY ReadWithin, RequestFacts, AskingTyped DEF Asking
  <1>2. request[Len(stream) + Len(Unfed)] = End
    <2>1. Len(Unfed) \in 1 .. Len(Unfed)
      BY <1>1
    <2> QED
      BY <2>1 DEF Asking, TextFlows
  <1>3. Len(stream) + Len(Unfed) \in 1 .. (Len(request) - 1) => FALSE
    BY <1>1, <1>2
  <1> QED
    BY <1>1, <1>3

\* What is in m_buffer and what is to be fed agree while a handler reads it.
LEMMA InBuffer ==
  ASSUME Asking, strand \in {"last", "copy"}
  PROVE  /\ ready = <<>> /\ Len(ready) = 0 /\ reads = 0 /\ task.size \in Nat /\ task.size > 0
         /\ Unfed = SubSeq(buffer, 1, task.size) /\ Len(Unfed) = task.size
         /\ Unfed[task.size] = buffer[task.size]
  <1>1. /\ ready = <<>> /\ Len(ready) = 0 /\ reads = 0 /\ task.size \in Nat /\ task.size > 0
        /\ buffer \in Seq(NetChars) /\ Len(buffer) \in Nat /\ task.size <= Len(buffer)
    BY OneHandler, AskingTyped DEF Over, Asking, Feeding, SizesInBuffer
  <1>2. Unfed = SubSeq(buffer, 1, task.size)
    BY <1>1 DEF Unfed
  <1>3. Len(Unfed) = task.size
    BY <1>1, UnfedTyped DEF Asking
  <1>4. \A i \in 1 .. task.size : buffer[i] \in NetChars
    BY <1>1, ElementOfSeq
  <1>5. \A i \in 1 .. task.size - 1 + 1 : SubSeq(buffer, 1, task.size)[i] = buffer[1 + i - 1]
    BY <1>1, <1>4, SubSeqProperties
  <1>6. task.size \in 1 .. task.size - 1 + 1 /\ 1 + task.size - 1 = task.size
    BY <1>1
  <1>7. SubSeq(buffer, 1, task.size)[task.size] = buffer[task.size]
    BY <1>5, <1>6
  <1> QED
    BY <1>1, <1>2, <1>3, <1>7

LEMMA LastCharacterAsks ==
  ASSUME Asking, OneRequestEach, LastCharacter
  PROVE  Standing'
  <1>1. /\ strand = "last" /\ strand' = "copy"
        /\ complete' = (buffer[task.size] = End)
        /\ UNCHANGED <<vars, client, network, task, newData, started, future>>
    BY DEF LastCharacter
  <1>2. /\ ready = <<>> /\ Len(ready) = 0 /\ reads = 0 /\ task.size \in Nat /\ task.size > 0
        /\ Len(Unfed) = task.size /\ Unfed[task.size] = buffer[task.size]
    BY <1>1, InBuffer
  <1>3. ready' = <<>> /\ reads' = reads /\ replies' = replies /\ buffer' = buffer
        /\ UNCHANGED <<script, sent, peer, inbox, stream>>
    BY <1>1, <1>2 DEF network, client, vars, history
  <1>4. Unfed' = Unfed
    BY <1>1, <1>2, <1>3 DEF Unfed
  <1>5. TextFlows'
    BY <1>3, <1>4, FlowsOn DEF Asking
  <1>6. complete' => Len(stream') + task'.size = Len(request')
    <2>1. complete' => Len(stream) + Len(Unfed) = Len(request)
      BY <1>1, <1>2, EndIsLast
    <2> QED
      BY <1>1, <1>2, <1>3, <2>1 DEF request
  <1>7. OneAtATime'
    BY <1>1, <1>2, <1>3 DEF OneAtATime, Over
  <1>8. Feeding'
    BY <1>1, <1>2, <1>6 DEF Asking, Feeding, Over, vars, flags, history
  <1> QED
    BY <1>1, <1>3, <1>5, <1>7, <1>8 DEF Standing, Asking

LEMMA CopyDataAsks ==
  ASSUME Asking, OneRequestEach, CopyData
  PROVE  Standing'
  <1>1. /\ strand = "copy" /\ strand' = "test"
        /\ newData' = SubSeq(buffer, 1, task.size)
        /\ UNCHANGED <<vars, client, network, task, complete, started, future>>
    BY DEF CopyData
  <1>2. /\ ready = <<>> /\ Len(ready) = 0 /\ reads = 0 /\ task.size \in Nat /\ task.size > 0
        /\ Unfed = SubSeq(buffer, 1, task.size) /\ Len(Unfed) = task.size
    BY <1>1, InBuffer
  <1>3. ready' = <<>> /\ reads' = reads /\ replies' = replies
        /\ UNCHANGED <<script, sent, peer, inbox, stream>>
    BY <1>1, <1>2 DEF network, client, vars, history
  <1>4. Unfed' = newData' /\ newData' = Unfed
    BY <1>1, <1>2, <1>3 DEF Unfed
  <1>5. TextFlows'
    BY <1>3, <1>4, FlowsOn DEF Asking
  <1>6. newData' # <<>>
    <2>1. Len(newData') > 0 /\ newData' \in Seq(NetChars)
      BY <1>2, <1>4, UnfedTyped DEF Asking
    <2> QED
      BY <2>1, EmptySeq
  <1>7. complete' => Len(stream') + Len(newData') = Len(request')
    <2>1. complete => Len(stream) + task.size = Len(request)
      BY <1>1 DEF Asking, Feeding
    <2> QED
      BY <1>1, <1>2, <1>3, <1>4, <2>1 DEF request
  <1>8. OneAtATime'
    BY <1>1, <1>2, <1>3 DEF OneAtATime, Over
  <1>9. Feeding'
    BY <1>1, <1>6, <1>7 DEF Asking, Feeding, Over, vars, flags, history
  <1> QED
    BY <1>1, <1>3, <1>5, <1>8, <1>9 DEF Standing, Asking

\* While a handler has text to feed, the request is not over.
LEMMA TextToFeed ==
  ASSUME Asking, OneRequestEach, strand \in {"test", "add", "start"}
  PROVE  /\ ready = <<>> /\ Len(ready) = 0 /\ reads = 0 /\ Unfed = newData
         /\ newData \in Seq(NetChars) /\ Len(newData) \in Nat /\ Len(newData) > 0
         /\ Len(stream) \in Nat /\ Len(stream) < Len(request) /\ Len(request) \in Nat
         /\ current # NoWorker => running
  <1>1. ready = <<>> /\ Len(ready) = 0 /\ reads = 0
    BY OneHandler DEF Over
  <1>2. Unfed = newData
    BY <1>1 DEF Unfed
  <1>3. newData \in Seq(NetChars) /\ Len(newData) \in Nat /\ newData # <<>>
    BY AskingTyped DEF Asking, Feeding
  <1>4. Len(newData) > 0
    BY <1>3, EmptySeq
  <1>5. /\ Len(stream) \in Nat /\ Len(stream) + Len(Unfed) <= Len(request) /\ Len(request) \in Nat
        /\ Beginning
    BY ReadWithin, RequestFacts, AskingTyped DEF Asking
  <1>6. Len(stream) < Len(request)
    BY <1>2, <1>3, <1>4, <1>5
  <1>7. current # NoWorker => running
    BY <1>5, <1>6, GoesOn DEF Asking, Feeding, Over
  <1> QED
    BY <1>1, <1>2, <1>3, <1>4, <1>5, <1>6, <1>7

LEMMA TestRunningAsks ==
  ASSUME Asking, OneRequestEach, TestRunning
  PROVE  Standing'
  <1>1. /\ strand = "test" /\ strand' = (IF running THEN "add" ELSE "start")
        /\ UNCHANGED <<vars, client, network, local, future>>
    BY DEF TestRunning
  <1>2. /\ ready = <<>> /\ Len(ready) = 0 /\ reads = 0 /\ (current # NoWorker => running)
    BY <1>1, TextToFeed
  <1>3. current = NoWorker => ~running
    BY DEF Asking, Feeding
  <1>4. ready' = <<>> /\ reads' = reads /\ replies' = replies
        /\ UNCHANGED <<script, sent, peer, inbox, stream>>
    BY <1>1, <1>2 DEF network, client, vars, history
  <1>5. Unfed' = Unfed
    BY <1>1, <1>2, <1>4 DEF Unfed, local
  <1>6. TextFlows'
    BY <1>4, <1>5, FlowsOn DEF Asking
  <1>7. OneAtATime'
    BY <1>1, <1>2, <1>4 DEF OneAtATime, Over
  <1>8. Feeding'
    BY <1>1, <1>2, <1>3 DEF Asking, Feeding, Over, vars, flags, history, local, client, request
  <1> QED
    BY <1>1, <1>4, <1>6, <1>7, <1>8 DEF Standing, Asking

\* What is fed is what was read: there is no '\r' in the request.
LEMMA ParsedAsIs ==
  ASSUME Asking, OneRequestEach, Unfed = newData
  PROVE  /\ Parsed(newData) \in Seq(Chars) /\ Len(Parsed(newData)) = Len(newData)
         /\ \A i \in 1 .. Len(newData) : Parsed(newData)[i] = request[Len(stream) + i]
  <1>1. /\ newData \in Seq(NetChars) /\ Len(newData) \in Nat
        /\ Len(stream) \in Nat /\ Len(request) \in Nat
        /\ Len(stream) + Len(newData) <= Len(request)
        /\ request[Len(request)] = End
        /\ \A i \in 1 .. (Len(request) - 1) : request[i] \in Payload
    BY ReadWithin, RequestFacts, AskingTyped DEF Asking
  <1> DEFINE c(i) == IF newData[i] = CarriageReturn THEN End ELSE newData[i]
  <1>2. ASSUME NEW i \in 1 .. Len(newData)
        PROVE  c(i) = request[Len(stream) + i] /\ c(i) \in Chars
    <2>1. newData[i] = request[Len(stream) + i]
      BY DEF Asking, TextFlows
    <2>2. Len(stream) + i \in 1 .. Len(request)
      BY <1>1
    <2>3. request[Len(stream) + i] \in Chars
      BY <1>1, <2>2
    <2> QED
      BY <2>1, <2>3
  <1>3. Parsed(newData) = [i \in 1 .. Len(newData) |-> c(i)]
    BY DEF Parsed
  <1> HIDE DEF c
  <1>4. Parsed(newData) \in Seq(Chars) /\ Len(Parsed(newData)) = Len(newData)
    BY <1>1, <1>2, <1>3, IsASeq
  <1> QED
    BY <1>2, <1>3, <1>4

\* What is fed follows what was fed.
LEMMA Fed ==
  ASSUME TextFlows, UNCHANGED <<script, sent, peer, inbox>>,
         Len(stream) \in Nat, Len(Unfed) \in Nat, Len(inbox) \in Nat,
         Len(stream') = Len(stream) + Len(Unfed), Len(Unfed') = 0,
         \A i \in 1 .. Len(stream) : stream'[i] = stream[i],
         \A i \in 1 .. Len(Unfed) : stream'[Len(stream) + i] = request[Len(stream) + i]
  PROVE  TextFlows'
  <1>1. request' = request
    BY DEF request
  <1>2. Len(stream') + Len(Unfed') = Len(stream) + Len(Unfed)
    OBVIOUS
  <1>3. ASSUME NEW i \in 1 .. Len(stream) + Len(Unfed)
        PROVE  stream'[i] = request[i]
    <2>1. CASE i <= Len(stream)
      <3>1. i \in 1 .. Len(stream)
        BY <2>1
      <3> QED
        BY <3>1 DEF TextFlows
    <2>2. CASE ~(i <= Len(stream))
      <3>1. i - Len(stream) \in 1 .. Len(Unfed) /\ Len(stream) + (i - Len(stream)) = i
        BY <2>2
      <3> QED
        BY <3>1
    <2> QED
      BY <2>1, <2>2
  <1> QED
    BY <1>1, <1>2, <1>3 DEF TextFlows

LEMMA AddAsks ==
  ASSUME Asking, OneRequestEach, Add
  PROVE  Standing'
  <1>1. strand = "add" /\ current # NoWorker /\ running
        /\ UNCHANGED <<client, network, local, future>>
    BY TextToFeed DEF Add, Asking, Feeding
  <1>2. AddExprPart(Parsed(newData)) /\ strand' = AfterFeeding
    BY <1>1 DEF Add
  <1>3. /\ ready = <<>> /\ Len(ready) = 0 /\ reads = 0 /\ Unfed = newData /\ Len(newData) \in Nat
        /\ Len(newData) > 0 /\ Len(stream) \in Nat
    BY <1>1, TextToFeed
  <1>4. /\ Parsed(newData) \in Seq(Chars) /\ Len(Parsed(newData)) = Len(newData)
        /\ \A i \in 1 .. Len(newData) : Parsed(newData)[i] = request[Len(stream) + i]
    BY <1>3, ParsedAsIs
  <1>5. ready' = <<>> /\ reads' = reads /\ replies' = replies
        /\ UNCHANGED <<script, sent, peer, inbox, newData, complete, started>>
    BY <1>1, <1>3 DEF network, client, local
  <1>6. Len(Unfed') = 0 /\ strand' \in {"result", "next"} /\ (strand' = "result" => complete)
    BY <1>2, <1>5 DEF Unfed, AfterFeeding
  <1>7. /\ stream' = stream \o Parsed(newData) /\ lastFrom' = Len(stream)
        /\ running' = running /\ errorOccured' = errorOccured
        /\ current' = current /\ abortAsked' = abortAsked
    BY <1>2 DEF AddExprPart, flags
  <1>8. /\ Len(stream') = Len(stream) + Len(newData)
        /\ \A i \in 1 .. Len(stream) : stream'[i] = stream[i]
        /\ \A i \in 1 .. Len(newData) : stream'[Len(stream) + i] = request[Len(stream) + i]
    <2> DEFINE t == Parsed(newData)
    <2>1. stream \in Seq(Chars) /\ t \in Seq(Chars) /\ Len(t) = Len(newData)
      BY <1>4, AskingTyped
    <2>2. \A i \in 1 .. Len(newData) : t[i] = request[Len(stream) + i]
      BY <1>4
    <2>3. stream' = stream \o t
      BY <1>7
    <2> HIDE DEF t
    <2>4. /\ Len(stream \o t) = Len(stream) + Len(t)
          /\ \A i \in 1 .. Len(stream) + Len(t) :
               (stream \o t)[i] = IF i <= Len(stream) THEN stream[i] ELSE t[i - Len(stream)]
      <3>1. PICK S : stream \in Seq(S) /\ t \in Seq(S)
        BY <2>1, Zenon
      <3>2. QED
        BY ONLY <3>1, ConcatProperties, Zenon
    <2>5. \A i \in 1 .. Len(stream) : i \in 1 .. Len(stream) + Len(t) /\ i <= Len(stream)
      BY <1>3, <2>1
    <2>6. \A i \in 1 .. Len(newData) :
            /\ Len(stream) + i \in 1 .. Len(stream) + Len(t)
            /\ ~(Len(stream) + i <= Len(stream)) /\ (Len(stream) + i) - Len(stream) = i
      BY <1>3, <2>1
    <2> QED
      BY <2>1, <2>2, <2>3, <2>4, <2>5, <2>6
  <1>9. TextFlows'
    <2>1. Len(inbox) \in Nat /\ TextFlows
      BY AskingTyped DEF Asking
    <2> QED
      BY <1>3, <1>5, <1>6, <1>8, <2>1, Fed
  <1>10. OneAtATime'
    BY <1>3, <1>5, <1>6 DEF OneAtATime, Over
  <1>11. complete => Len(stream') = Len(request')
    BY <1>1, <1>5, <1>8 DEF Asking, Feeding, request
  <1>12. Feeding'
    <2>1. current = future /\ ~abortAsked /\ future' = future
      BY <1>1 DEF Asking, Feeding, Over
    <2>2. lastFrom' < Len(stream')
      BY <1>3, <1>7, <1>8
    <2> QED
      BY <1>1, <1>6, <1>7, <1>11, <2>1, <2>2 DEF Feeding, Over
  <1> QED
    BY <1>5, <1>6, <1>9, <1>10, <1>12 DEF Standing, Asking

LEMMA StartCalculationAsks ==
  ASSUME Asking, OneRequestEach, StartCalculation
  PROVE  Standing'
  <1>1. strand = "start" /\ current = NoWorker /\ stream = <<>>
        /\ UNCHANGED <<client, network, task, complete, newData, future>>
    BY DEF StartCalculation, Asking, Feeding
  <1>2. /\ ready = <<>> /\ Len(ready) = 0 /\ reads = 0 /\ Unfed = newData /\ Len(newData) \in Nat
        /\ Len(newData) > 0 /\ Len(stream) = 0
    BY <1>1, TextToFeed
  <1>3. /\ Parsed(newData) \in Seq(Chars) /\ Len(Parsed(newData)) = Len(newData)
        /\ \A i \in 1 .. Len(newData) : Parsed(newData)[i] = request[Len(stream) + i]
    BY <1>2, ParsedAsIs
  <1>4. ready' = <<>> /\ reads' = reads /\ replies' = replies
        /\ UNCHANGED <<script, sent, peer, inbox>>
    BY <1>1, <1>2 DEF network, client
  <1>5. CASE StartThrows(Parsed(newData)) /\ strand' = "terminated"
    BY <1>4, <1>5 DEF StartThrows, RestartWith, Standing, Asking
  <1>6. ASSUME NEW w \in Workers, Start(w, Parsed(newData)), started' = w, strand' = "assign"
        PROVE  Standing'
    <2>1. /\ stream' = Parsed(newData) /\ lastFrom' = 0 /\ current' = w /\ abortAsked' = FALSE
      BY <1>6 DEF Start, RestartWith
    <2>2. Len(Unfed') = 0
      BY <1>4, <1>6 DEF Unfed
    <2>3. /\ Len(stream') = Len(stream) + Len(newData)
          /\ \A i \in 1 .. Len(stream) : stream'[i] = stream[i]
          /\ \A i \in 1 .. Len(newData) : stream'[Len(stream) + i] = request[Len(stream) + i]
      BY <1>2, <1>3, <2>1
    <2>4. TextFlows'
      <3>1. Len(inbox) \in Nat /\ TextFlows
        BY AskingTyped DEF Asking
      <3> QED
        BY <1>2, <1>4, <2>2, <2>3, <3>1, Fed
    <2>5. OneAtATime'
      BY <1>2, <1>4, <1>6 DEF OneAtATime, Over
    <2>6. current' # NoWorker /\ started' = current' /\ future' = NoWorker
      BY <1>1, <1>6, <2>1 DEF Asking, Feeding, Over
    <2>7. lastFrom' < Len(stream')
      BY <1>2, <2>1, <2>3
    <2>8. complete => Len(stream') = Len(request')
      BY <1>1, <1>4, <2>3 DEF Asking, Feeding, request
    <2>9. Feeding'
      BY <1>1, <1>6, <2>1, <2>6, <2>7, <2>8 DEF Feeding, Over
    <2> QED
      BY <1>4, <1>6, <2>4, <2>5, <2>9 DEF Standing, Asking
  <1> QED
    BY <1>5, <1>6 DEF StartCalculation

LEMMA AssignResultAsks ==
  ASSUME Asking, AssignResult
  PROVE  Standing'
  <1>1. /\ strand = "assign" /\ future' = started /\ strand' = AfterFeeding
        /\ UNCHANGED <<vars, client, network, task, complete, newData>>
    BY DEF AssignResult
  <1>2. /\ ready = <<>> /\ Len(ready) = 0 /\ reads = 0
    BY <1>1, OneHandler DEF Over
  <1>3. ready' = <<>> /\ reads' = reads /\ replies' = replies
        /\ UNCHANGED <<script, sent, peer, inbox, stream>>
    BY <1>1, <1>2 DEF network, client, vars, history
  <1>4. strand' \in {"result", "next"} /\ (strand' = "result" => complete)
    BY <1>1 DEF AfterFeeding
  <1>5. Len(Unfed) = 0 /\ Len(Unfed') = 0
    BY <1>1, <1>2, <1>3, <1>4 DEF Unfed
  <1>6. TextFlows'
    BY <1>3, <1>5, FlowsOnEmpty DEF Asking
  <1>7. OneAtATime'
    BY <1>2, <1>3, <1>4 DEF OneAtATime, Over
  <1>8. Feeding'
    BY <1>1, <1>4 DEF Asking, Feeding, Over, vars, flags, history, client, request
  <1> QED
    BY <1>3, <1>4, <1>6, <1>7, <1>8 DEF Standing, Asking

LEMMA WriteResultAnswers ==
  ASSUME Asking, OneRequestEach, QuietFaults, WriteResult
  PROVE  Standing'
  <1>1. /\ strand = "result" /\ strand' = "next"
        /\ future # NoWorker => Ready(future)
        /\ ready' = Append(ready, [kind |-> "written", size |-> 0])
        /\ UNCHANGED <<vars, client, inbox, reads, buffer, local>>
    BY DEF WriteResult
  <1>2. /\ current # NoWorker /\ future = current /\ Ready(current) /\ ~abortAsked
        /\ Len(stream) = Len(request) /\ lastFrom < Len(stream)
    BY <1>1 DEF Asking, Feeding, Over
  <1>3. SessionInv /\ IInv /\ Beginning /\ TypeOK /\ ConnectionTypeOK /\ AssignedAtOnce
    BY ReadWithin, AskingTyped DEF Asking
  <1>4. outcome[current] = Deserved(1)
    BY <1>2, <1>3, Valued1
  <1>5. replies' = Append(<<>>, Deserved(1))
    <2>1. "slow" \notin Faults
      BY DEF QuietFaults
    <2>2. Sent(outcome[current]) = {outcome[current]}
      BY <2>1 DEF Sent
    <2>3. replies = <<>>
      BY DEF Asking
    <2> QED
      BY <1>2, <1>4, <2>2, <2>3 DEF WriteResult
  <1>6. replies' = <<Deserved(1)>>
    BY <1>5
  <1>7. Deserved(1)' = Deserved(1)
    BY <1>1 DEF Deserved, client
  <1>8. sent = 1 /\ inbox = <<>>
    <2>1. /\ Len(stream) \in Nat /\ Len(Unfed) \in Nat /\ Len(inbox) \in Nat /\ sent \in {0, 1}
          /\ Len(request) > 1 /\ inbox \in Seq(NetChars)
      BY <1>3, ReadWithin, RequestFacts, AskingTyped DEF Asking
    <2>2. sent = 1
      BY <1>2, <2>1 DEF Asking, TextFlows
    <2>3. inbox = <<>> \/ Len(inbox) = 0
      BY <1>2, <2>1, <2>2 DEF Asking, TextFlows
    <2> QED
      BY <2>1, <2>2, <2>3, EmptySeq
  <1>9. Quiescent /\ ~running
    BY <1>2, <1>3 DEF IInv, Alone, Quiescent, Active, Ready, FlagsInv
  <1>10. ~errorOccured /\ started = NoWorker
    BY <1>1, <1>3, NotFailed DEF Over, AssignedAtOnce
  <1>11. \A i \in 1 .. Len(ready') : ready'[i].size = 0
    <2> DEFINE d == [kind |-> "written", size |-> 0]
    <2>1. d \in Completions /\ d.size = 0 /\ ready' = Append(ready, d)
      BY <1>1 DEF Completions
    <2>2. ready = <<>>
      BY <1>1, OneHandler DEF Over
    <2> HIDE DEF d
    <2>3. Len(ready') = 1 /\ ready'[1] = d
      BY <2>1, <2>2, OneCompletion
    <2> QED
      BY <2>1, <2>3
  <1>12. replies' # <<>>
    BY <1>6
  <1>13. AnsweredOnce'
    BY <1>1, <1>6, <1>7, <1>8, <1>9, <1>10, <1>11
       DEF AnsweredOnce, vars, flags, client, local, Quiescent, Active
  <1> QED
    BY <1>1, <1>12, <1>13 DEF Standing

LEMMA ReadNextAsks ==
  ASSUME Asking, ReadNext
  PROVE  Standing'
  <1>1. /\ strand = "next" /\ strand' = "idle" /\ reads' \in {reads, reads + 1}
        /\ UNCHANGED <<vars, client, inbox, replies, buffer, ready, local, future>>
    BY DEF ReadNext
  <1>2. ready = <<>> /\ Len(ready) = 0 /\ reads = 0
    BY <1>1, OneHandler DEF Over
  <1>3. Len(Unfed) = 0 /\ Len(Unfed') = 0
    BY <1>1, <1>2 DEF Unfed
  <1>4. TextFlows'
    BY <1>1, <1>3, FlowsOnEmpty DEF Asking, client, vars, history
  <1>5. OneAtATime'
    <2>1. Len(ready') = 0 /\ strand' \in {"idle"} \cup Over
      BY <1>1, <1>2
    <2>2. reads' = 0 \/ reads' = 1
      BY <1>1, <1>2
    <2>3. reads' + Len(ready') + 0 <= 1
      BY <2>1, <2>2
    <2>4. \A i \in 1 .. Len(ready') : FALSE
      BY <2>1
    <2> QED
      BY <2>1, <2>3, <2>4 DEF OneAtATime
  <1>6. Feeding'
    BY <1>1 DEF Asking, Feeding, Over, vars, flags, history
  <1> QED
    BY <1>1, <1>4, <1>5, <1>6 DEF Standing, Asking

LEMMA LeavingAsks ==
  ASSUME Asking, Destruct \/ Release
  PROVE  Standing'
  <1>1. /\ strand \in {"idle", "release"} /\ strand' \in Over /\ UNCHANGED <<client, network, local>>
        /\ Abort \/ UNCHANGED vars
    BY DEF Destruct, Release, Over
  <1>2. /\ UNCHANGED <<script, sent, peer, inbox, replies, reads, ready, buffer>>
        /\ UNCHANGED <<stream, current, lastFrom, errorOccured>> /\ (running' => running)
    BY <1>1 DEF client, network, Abort, vars, flags, history
  <1>3. Unfed' = Unfed
    BY <1>1, <1>2 DEF Unfed, Over
  <1>4. TextFlows'
    BY <1>2, <1>3, FlowsOn DEF Asking
  <1>5. OneAtATime'
    <2>1. strand \in {"idle"} \cup Over /\ strand' \in {"idle"} \cup Over
      BY <1>1 DEF Over
    <2> QED
      BY <1>2, <2>1 DEF Asking, OneAtATime
  <1>6. Feeding'
    BY <1>1, <1>2 DEF Asking, Feeding, Over
  <1> QED
    BY <1>1, <1>2, <1>4, <1>5, <1>6 DEF Standing, Asking, Over

\* The thread works on its own variables; the text and its caller's are not its.
LEMMA WorkerAsks ==
  ASSUME Asking, NEW w \in Workers, Step(w) \/ SpuriousWake(w), UNCHANGED session
  PROVE  Standing'
  <1>1. UNCHANGED history
    BY DEF Step, SpuriousWake, Begin, Loop, Enter, Peek, Fetch, Woken, Parse, Finish, WipeOperators,
           WipeNumbers, WipeParts, ErrRunning, ErrFlag, ErrFinished, ErrClean
  <1>2. current # NoWorker
    <2>1. pc[w] \notin {"idle", "done"}
      BY DEF Step, SpuriousWake, Begin, Loop, Enter, Peek, Fetch, Woken, Parse, Finish, WipeOperators,
             WipeNumbers, WipeParts, ErrRunning, ErrFlag, ErrFinished, ErrClean, At
    <2> QED
      BY <2>1, StepperIsCurrent DEF Asking
  <1>3. Unfed' = Unfed
    BY DEF Unfed, session, network, local
  <1>4. TextFlows'
    BY <1>1, <1>3, FlowsOn DEF Asking, session, client, network, history
  <1>5. OneAtATime' /\ Feeding'
    BY <1>1, <1>2 DEF Asking, OneAtATime, Feeding, session, client, network, local, history, request
  <1> QED
    BY <1>4, <1>5 DEF Standing, Asking, session, network

LEMMA AskingStep ==
  ASSUME Asking, OneRequestEach, QuietFaults, SessionNext
  PROVE  Standing'
  <1>1. strand # "restart"
    BY DEF Asking, Feeding
  <1>2. ~Restart /\ ~Stop
    BY <1>1 DEF Restart, Stop, QuietFaults
  <1>3. ASSUME NEW w \in Workers, Worker(w) \/ (SpuriousWake(w) /\ UNCHANGED session)
        PROVE  Standing'
    BY <1>3, WorkerAsks DEF Worker
  <1> QED
    BY <1>2, <1>3, SendRequestAsks, CloseConnectionAsks, ResetConnectionAsks, ReadDataAsks, ReadEndAsks,
       DispatchAsks, CheckErrorAsks, LastCharacterAsks, CopyDataAsks, TestRunningAsks, AddAsks,
       StartCalculationAsks, AssignResultAsks, WriteResultAnswers, ReadNextAsks, LeavingAsks DEF SessionNext, Handler

-----------------------------------------------------------------------------
(* Steps after the answer                                                     *)

\* What the answer leaves as it is.
LEMMA StillAnswered ==
  ASSUME Answered, UNCHANGED <<script, sent, replies, pc, running, started>>,
         inbox' = <<>>, errorOccured' = FALSE,
         strand' \in {"idle", "check", "next", "restart"} \cup Over,
         strand' = "check" => task'.size = 0,
         \A i \in 1 .. Len(ready') : ready'[i].size = 0
  PROVE  Standing'
  <1>1. Deserved(1)' = Deserved(1)
    BY DEF Deserved
  <1>2. AnsweredOnce'
    BY <1>1 DEF Answered, AnsweredOnce, Quiescent, Active
  <1> QED
    BY <1>2 DEF Answered, Standing, Over

LEMMA NetworkAnswered ==
  ASSUME Answered, OneRequestEach,
         SendRequest \/ CloseConnection \/ ResetConnection \/ ReadData \/ ReadEnd
  PROVE  Standing'
  <1>1. /\ ConnectionTypeOK /\ inbox = <<>> /\ sent = 1 /\ ready \in Seq(Completions) /\ ~errorOccured
        /\ errorOccured \in BOOLEAN
        /\ strand \in {"idle", "check", "next", "restart"} \cup Over /\ (strand = "check" => task.size = 0)
        /\ \A i \in 1 .. Len(ready) : ready[i].size = 0
    BY DEF Answered, AnsweredOnce, SessionInv, SessionTypeOK, ConnectionTypeOK, TypeOK
  <1>2. ~SendRequest
    <2>1. Len(script) = 1
      BY <1>1, RequestFacts
    <2>2. ~(sent < Len(script))
      BY <1>1, <2>1
    <2> QED
      BY <2>2 DEF SendRequest
  <1>3. ~ReadData
    <2> SUFFICES ASSUME NEW n \in 1 .. BufferSize, n <= Len(inbox) PROVE FALSE
      BY DEF ReadData
    <2>1. Len(inbox) = 0 /\ n \in Nat /\ n >= 1
      BY <1>1
    <2> QED
      BY <2>1
  <1>4. UNCHANGED <<vars, strand, task, started, script>>
    BY NetworkQuiet
  <1>5. CASE CloseConnection \/ ResetConnection
    <2>1. inbox' = <<>> /\ ready' = ready /\ sent' = sent /\ replies' = replies
      BY <1>1, <1>5 DEF CloseConnection, ResetConnection, network
    <2> QED
      BY <1>1, <1>4, <2>1, StillAnswered DEF vars, flags
  <1>6. CASE ReadEnd
    <2> DEFINE d == [kind |-> IF peer = "closed" THEN "eof" ELSE "error", size |-> 0]
    <2>1. d \in Completions /\ d.size = 0 /\ ready' = Append(ready, d) /\ inbox' = inbox
          /\ sent' = sent /\ replies' = replies
      BY <1>6 DEF Completions, ReadEnd, client
    <2> HIDE DEF d
    <2>2. \A i \in 1 .. Len(ready') : ready'[i].size = 0
      <3>1. /\ Len(ready') = Len(ready) + 1 /\ ready'[Len(ready) + 1] = d
            /\ \A i \in 1 .. Len(ready) : ready'[i] = ready[i]
        BY <1>1, <2>1, AppendProperties
      <3>2. ASSUME NEW i \in 1 .. Len(ready) + 1 PROVE i \in 1 .. Len(ready) \/ i = Len(ready) + 1
        BY <1>1
      <3>3. ASSUME NEW i \in 1 .. Len(ready) + 1 PROVE ready'[i].size = 0
        BY <1>1, <2>1, <3>1, <3>2
      <3> QED
        BY <3>1, <3>3
    <2> QED
      BY <1>1, <1>4, <2>1, <2>2, StillAnswered DEF vars, flags
  <1> QED
    BY <1>2, <1>3, <1>5, <1>6

LEMMA HandlersAnswered ==
  ASSUME Answered, Handler
  PROVE  Standing'
  <1>1. /\ ConnectionTypeOK /\ inbox = <<>> /\ ready \in Seq(Completions) /\ ~errorOccured
        /\ errorOccured \in BOOLEAN /\ ~running
        /\ strand \in {"idle", "check", "next", "restart"} \cup Over /\ (strand = "check" => task.size = 0)
        /\ \A i \in 1 .. Len(ready) : ready[i].size = 0
    BY DEF Answered, AnsweredOnce, SessionInv, SessionTypeOK, ConnectionTypeOK, TypeOK
  <1>2. /\ ~LastCharacter /\ ~CopyData /\ ~TestRunning /\ ~Add /\ ~StartCalculation
        /\ ~AssignResult /\ ~WriteResult
    BY <1>1 DEF LastCharacter, CopyData, TestRunning, Add, StartCalculation, AssignResult, WriteResult, Over
  <1>3. CASE Dispatch
    <2>1. PICK k \in 1 .. Len(ready) :
            /\ task' = ready[k] /\ ready' = RemoveAt(ready, k)
            /\ strand' = (CASE ready[k].kind = "written" -> "restart"
                            [] ready[k].kind = "error" -> "idle"
                            [] OTHER -> "check")
      BY <1>3 DEF Dispatch
    <2>2. strand' \in {"idle", "check", "restart"} /\ task'.size = 0
      BY <1>1, <2>1
    <2>3. \A i \in 1 .. Len(ready') : ready'[i].size = 0
      <3>1. /\ Len(ready') = Len(ready) - 1
            /\ \A i \in 1 .. Len(ready) - 1 : ready'[i] = IF i < k THEN ready[i] ELSE ready[i + 1]
        BY <1>1, <2>1, Removed
      <3>2. \A i \in 1 .. Len(ready) - 1 : i \in 1 .. Len(ready) /\ i + 1 \in 1 .. Len(ready)
        BY <1>1
      <3> QED
        BY <1>1, <3>1, <3>2
    <2> QED
      BY <1>1, <1>3, <2>2, <2>3, StillAnswered DEF Dispatch, vars, flags, client
  <1>4. CASE CheckError
    <2>1. strand' = "next" /\ UNCHANGED <<vars, client, network, started>>
      BY <1>1, <1>4 DEF CheckError
    <2> QED
      BY <1>1, <2>1, StillAnswered DEF vars, flags, client, network
  <1>5. CASE ReadNext
    BY <1>1, <1>5, StillAnswered DEF ReadNext, vars, flags, client, local
  <1>6. CASE Restart
    BY <1>1, <1>6, StillAnswered DEF Restart, Reset, client, local
  <1> QED
    BY <1>2, <1>3, <1>4, <1>5, <1>6 DEF Handler

LEMMA AnsweredStep ==
  ASSUME Answered, OneRequestEach, QuietFaults, SessionNext
  PROVE  Standing'
  <1>1. /\ inbox = <<>> /\ ~errorOccured /\ errorOccured \in BOOLEAN /\ ~running /\ Quiescent
        /\ \A i \in 1 .. Len(ready) : ready[i].size = 0
    BY DEF Answered, AnsweredOnce, SessionInv, SessionTypeOK, TypeOK
  <1>2. ~Stop
    BY DEF Stop, QuietFaults
  <1>3. CASE Destruct \/ Release
    <2>1. strand' \in Over /\ UNCHANGED <<vars, client, network, local>>
      BY <1>1, <1>3 DEF Destruct, Release, Abort, Over
    <2> QED
      BY <1>1, <2>1, StillAnswered DEF Over, vars, flags, client, network, local
  <1>4. ASSUME NEW w \in Workers, Step(w) \/ SpuriousWake(w)
        PROVE  FALSE
    <2>1. Active(w)
      BY <1>4 DEF Step, SpuriousWake, Begin, Loop, Enter, Peek, Fetch, Woken, Parse, Finish, WipeOperators,
             WipeNumbers, WipeParts, ErrRunning, ErrFlag, ErrFinished, ErrClean, At, Active
    <2> QED
      BY <1>1, <2>1 DEF Quiescent
  <1> QED
    BY <1>2, <1>3, <1>4, NetworkAnswered, HandlersAnswered DEF SessionNext, Worker

-----------------------------------------------------------------------------
(* The invariant and what follows                                             *)

LEMMA RequestInitInv ==
  ASSUME OneRequestEach, SessionInit
  PROVE  RequestInv
  <1>1. SessionInv /\ IInv
    BY SessionInitInv, InitInv DEF SessionInit
  <1>2. /\ sent = 0 /\ inbox = <<>> /\ replies = <<>> /\ reads = 1 /\ ready = <<>> /\ strand = "idle"
        /\ future = NoWorker /\ peer = "open"
        /\ stream = <<>> /\ ~running /\ ~errorOccured /\ current = NoWorker /\ ~abortAsked
    BY DEF SessionInit, Init
  <1>3. Unfed = <<>>
    BY <1>2 DEF Unfed
  <1>4. TextFlows
    BY <1>2, <1>3 DEF TextFlows
  <1>5. OneAtATime /\ Feeding
    BY <1>2 DEF OneAtATime, Feeding, Over
  <1> QED
    BY <1>1, <1>2, <1>4, <1>5 DEF RequestInv, Standing

LEMMA RequestStepInv ==
  ASSUME OneRequestEach, QuietFaults, RequestInv, SessionNext
  PROVE  RequestInv'
  <1>1. SessionInv'
    BY SessionStepInv DEF RequestInv
  <1>2. IInv'
    BY CalculatorSafe
  <1>3. Asking \/ Answered
    BY DEF RequestInv, Standing, Asking, Answered, SessionNext
  <1>4. Standing'
    BY <1>3, AskingStep, AnsweredStep
  <1> QED
    BY <1>1, <1>2, <1>4 DEF RequestInv

LEMMA RequestStutterInv ==
  ASSUME RequestInv, UNCHANGED all
  PROVE  RequestInv'
  <1>1. SessionInv' /\ IInv'
    BY SessionStepInv, StutterInv DEF RequestInv, all
  <1>2. Unfed' = Unfed /\ Deserved(1)' = Deserved(1)
    BY DEF Unfed, Deserved, all, session, client, network, local
  <1>3. TextFlows => TextFlows'
    BY <1>2, FlowsOn DEF all, session, client, network, vars, history
  <1>4. Standing'
    BY <1>2, <1>3 DEF RequestInv, Standing, OneAtATime, Feeding, AnsweredOnce, Quiescent, Active, request,
                      all, session, client, network, local, vars, flags, history
  <1> QED
    BY <1>1, <1>4 DEF RequestInv

LEMMA RequestInvariance ==
  ASSUME OneRequestEach, QuietFaults
  PROVE  SessionSpec => []RequestInv
  <1>1. SessionInit => RequestInv
    BY RequestInitInv
  <1>2. RequestInv /\ [SessionNext]_all => RequestInv'
    BY RequestStepInv, RequestStutterInv
  <1> QED
    BY <1>1, <1>2, PTL DEF SessionSpec

(* A client that sends one request gets the answer that this request deserves *)
(* and no other, wherever TCP cuts it, whether the client has closed its side *)
(* or the connection breaks, and whichever order the completions, the threads *)
(* of std::async and the handlers run in (on_data, write_result).             *)
THEOREM RightAnswer ==
  ASSUME OneRequestEach, QuietFaults
  PROVE  SessionSpec => []AnswersRight
  <1>1. RequestInv => AnswersRight
    <2> SUFFICES ASSUME RequestInv, replies # <<>>
                 PROVE  replies = <<Deserved(1)>> /\ sent = 1
      BY DEF AnswersRight
    <2> QED
      BY DEF RequestInv, Standing, AnsweredOnce
  <1> QED
    BY <1>1, RequestInvariance, PTL

(* The session keeps the calculator's own invariant, though it never asks     *)
(* whether the last thread is done before it calls start() or reset(): what   *)
(* is proved of the calculator with a careful caller holds in it as well.     *)
THEOREM CalculatorUsedWell ==
  ASSUME OneRequestEach, QuietFaults
  PROVE  SessionSpec => []IInv
  <1>1. RequestInv => IInv
    BY DEF RequestInv
  <1> QED
    BY <1>1, RequestInvariance, PTL
=============================================================================
