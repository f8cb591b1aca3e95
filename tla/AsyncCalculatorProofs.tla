------------------------ MODULE AsyncCalculatorProofs ------------------------
(* Proofs about AsyncCalculator, for every set of threads, alphabet, set of  *)
(* parts and bound.                                                           *)
EXTENDS AsyncCalculator, SequenceTheorems, TLAPS

USE WorkerAssumption, CharAssumption, PartsAssumption, BoundAssumption DEF Chars

(* What add_expr_part() does to the history: the old text stays in place.     *)
LEMMA Extended ==
  ASSUME NEW s \in Seq(Chars), NEW t \in Seq(Chars)
  PROVE  /\ s \o t \in Seq(Chars)
         /\ Len(s \o t) = Len(s) + Len(t)
         /\ Len(t) \in Nat
         /\ \A i \in 1 .. Len(s) : (s \o t)[i] = s[i]
  BY ConcatProperties

\* A number of operators other than none and one is at least two.
LEMMA BeyondOne == \A n \in Nat : n # 0 /\ n # 1 => 1 < n /\ n \in 2 .. n
  OBVIOUS

(* Dropping leading parts keeps the queue a sequence of intervals.            *)
LEMMA Dropped ==
  ASSUME NEW q \in Seq(Interval), NEW k \in 1 .. Len(q)
  PROVE  /\ SubSeq(q, k, Len(q)) \in Seq(Interval)
         /\ Len(SubSeq(q, k, Len(q))) = Len(q) - k + 1
         /\ \A i \in 1 .. Len(q) - k + 1 : SubSeq(q, k, Len(q))[i] = q[k + i - 1]
  <1>1. k \in Int /\ Len(q) \in Int
    OBVIOUS
  <1>2. \A i \in k .. Len(q) : q[i] \in Interval
    BY ElementOfSeq
  <1> QED
    BY <1>1, <1>2, SubSeqProperties

(* Only the thread of the last start() takes steps.                           *)
LEMMA StepperIsCurrent ==
  ASSUME IInv, NEW w \in Workers, pc[w] \notin {"idle", "done"}
  PROVE  w = current /\ current # NoWorker
  BY DEF IInv, Alone, Active

\* The push of the outermost marker starts the folding.
LEMMA BeginInv ==
  ASSUME IInv, NEW w \in Workers, Begin(w)
  PROVE  IInv'
  <1> USE DEF Begin, At, flags, parse, history
  <1>1. w = current /\ current # NoWorker
    BY StepperIsCurrent
  <1>2. TypeOK'
    BY DEF IInv, TypeOK, PCs
  <1>3. Alone'
    BY <1>1 DEF IInv, Alone, Active, TypeOK
  <1>4. Tiled'
    BY DEF IInv, Tiled
  <1>5. FoldingInv'
    BY <1>1 DEF IInv, TypeOK, FoldingInv, Folded, Folding
  <1>6. EndingInv'
    BY <1>1 DEF IInv, TypeOK, FoldingInv, EndingInv, Folded, Folding
  <1>7. LeavingInv'
    BY <1>1 DEF IInv, TypeOK, LeavingInv, Folding, Failing, Wiping, ValueText, InvalidText, IsStop
  <1>8. FlagsInv'
    BY <1>1 DEF IInv, TypeOK, FlagsInv, Folding, Failing, Wiping
  <1>9. WipedInv'
    BY <1>1 DEF IInv, TypeOK, WipedInv
  <1> QED
    BY <1>2, <1>3, <1>4, <1>5, <1>6, <1>7, <1>8, <1>9 DEF IInv

\* The loop goes on while folding and leaves only once the end was read.
LEMMA LoopInv ==
  ASSUME IInv, NEW w \in Workers, Loop(w)
  PROVE  IInv'
  <1> USE DEF Loop, At, flags, parse, history
  <1>1. w = current /\ current # NoWorker
    BY StepperIsCurrent
  <1>2. TypeOK'
    BY DEF IInv, TypeOK, PCs
  <1>3. Alone'
    BY <1>1 DEF IInv, Alone, Active, TypeOK
  <1>4. Tiled'
    BY DEF IInv, Tiled
  <1>5. FoldingInv'
    BY <1>1 DEF IInv, TypeOK, FoldingInv, Folded, Folding
  <1>6. EndingInv'
    BY <1>1 DEF IInv, TypeOK, FoldingInv, EndingInv, Folded, Folding
  <1>7. LeavingInv'
    BY <1>1 DEF IInv, TypeOK, LeavingInv, Folding, Failing, Wiping, ValueText, InvalidText, IsStop
  <1>8. FlagsInv'
    BY <1>1 DEF IInv, TypeOK, FlagsInv, Folding, Failing, Wiping
  <1>9. WipedInv'
    BY <1>1 DEF IInv, TypeOK, WipedInv
  <1> QED
    BY <1>2, <1>3, <1>4, <1>5, <1>6, <1>7, <1>8, <1>9 DEF IInv

\* Entering parse_subexpression() changes nothing the invariant speaks of.
LEMMA EnterInv ==
  ASSUME IInv, NEW w \in Workers, Enter(w)
  PROVE  IInv'
  <1> USE DEF Enter, At, flags, parse, history
  <1>1. w = current /\ current # NoWorker
    BY StepperIsCurrent
  <1>2. TypeOK'
    BY DEF IInv, TypeOK, PCs
  <1>3. Alone'
    BY <1>1 DEF IInv, Alone, Active, TypeOK
  <1>4. Tiled'
    BY DEF IInv, Tiled
  <1>5. FoldingInv'
    BY <1>1 DEF IInv, TypeOK, FoldingInv, Folded, Folding
  <1>6. EndingInv'
    BY <1>1 DEF IInv, TypeOK, FoldingInv, EndingInv, Folded, Folding
  <1>7. LeavingInv'
    BY <1>1 DEF IInv, TypeOK, LeavingInv, Folding, Failing, Wiping, ValueText, InvalidText, IsStop
  <1>8. FlagsInv'
    BY <1>1 DEF IInv, TypeOK, FlagsInv, Folding, Failing, Wiping
  <1>9. WipedInv'
    BY <1>1 DEF IInv, TypeOK, WipedInv
  <1> QED
    BY <1>2, <1>3, <1>4, <1>5, <1>6, <1>7, <1>8, <1>9 DEF IInv

(* Whatever makes the try block throw, the way out starts the same.           *)
LEMMA ThrowInv ==
  ASSUME IInv, NEW w \in Workers, NEW kind \in {"aborted", "invalid"},
         Throw(w, kind),
         pc[w] \in Folding \cup {"finish"},
         kind = "aborted" => abortAsked,
         kind = "invalid" => InvalidText,
         UNCHANGED <<flags, operatorStack, numbers, history>>,
         expressionParts' \in Seq(Interval), Tiled',
         readPos' \in Nat, curChar' \in [Workers -> Chars]
  PROVE  IInv'
  <1> USE DEF flags, history, Throw
  <1>1. w = current /\ current # NoWorker
    BY StepperIsCurrent DEF Folding
  <1>2. /\ pc' \in [Workers -> PCs] /\ outcome' \in [Workers -> Outcomes]
        /\ pc'[w] = "err_running" /\ outcome'[w].kind = kind
        /\ \A v \in Workers : v # w => pc'[v] = pc[v]
    <2>1. [kind |-> kind, value |-> <<>>] \in Outcomes
      BY DEF Outcomes, Kinds
    <2> QED
      BY <2>1 DEF IInv, TypeOK, PCs
  <1>3. TypeOK'
    BY <1>2 DEF IInv, TypeOK
  <1>4. Alone'
    BY <1>1, <1>2 DEF IInv, Alone, Active, Folding
  <1>5. FoldingInv' /\ EndingInv' /\ WipedInv'
    BY <1>1, <1>2 DEF FoldingInv, EndingInv, WipedInv, Folding
  <1>6. LeavingInv'
    BY <1>1, <1>2 DEF LeavingInv, Failing, Wiping, InvalidText, IsStop
  <1>7. FlagsInv'
    BY <1>1, <1>2 DEF IInv, FlagsInv, Folding, Failing, Wiping
  <1> QED
    BY <1>3, <1>4, <1>5, <1>6, <1>7 DEF IInv

\* The unlocked read of m_running throws only after an abort().
LEMMA PeekInv ==
  ASSUME IInv, NEW w \in Workers, Peek(w)
  PROVE  IInv'
  <1> USE DEF Peek, flags, parse, history
  <1>1. w = current /\ current # NoWorker
    BY StepperIsCurrent
  <1>2. CASE ~running
    <2>1. abortAsked
      BY <1>1, <1>2 DEF IInv, FlagsInv, Folding
    <2>2. Tiled'
      BY DEF IInv, Tiled
    <2> QED
      BY <1>2, <2>1, <2>2, ThrowInv DEF IInv, TypeOK, Folding
  <1>3. CASE running
    <2> pc' = [pc EXCEPT ![w] = "fetch"] /\ outcome' = outcome
      BY <1>3
    <2>1. TypeOK'
      BY DEF IInv, TypeOK, PCs
    <2>2. Alone'
      BY <1>1 DEF IInv, TypeOK, Alone, Active
    <2>3. Tiled'
      BY DEF IInv, Tiled
    <2>4. FoldingInv' /\ EndingInv'
      BY <1>1 DEF IInv, TypeOK, FoldingInv, EndingInv, Folded, Folding
    <2>5. LeavingInv'
      BY <1>1 DEF IInv, TypeOK, LeavingInv, Failing, Wiping
    <2>6. FlagsInv' /\ WipedInv'
      BY <1>1, <1>3 DEF IInv, TypeOK, FlagsInv, WipedInv, Folding, Failing, Wiping
    <2> QED
      BY <2>1, <2>2, <2>3, <2>4, <2>5, <2>6 DEF IInv
  <1> QED
    BY <1>2, <1>3

(* Dropping leading parts leaves the rest in order and without gaps.          *)
LEMMA DroppedTiled ==
  ASSUME TypeOK, Tiled, NEW k \in 1 .. Len(expressionParts),
         expressionParts' = SubSeq(expressionParts, k, Len(expressionParts)),
         UNCHANGED <<stream, lastFrom>>
  PROVE  Tiled'
  <1> DEFINE q == expressionParts
  <1>1. /\ q \in Seq(Interval) /\ Len(q) \in Nat /\ Len(q') = Len(q) - k + 1
        /\ \A i \in 1 .. Len(q') : q'[i] = q[k + i - 1] /\ k + i - 1 \in 1 .. Len(q)
    BY Dropped DEF TypeOK
  <1>2. \A i \in 1 .. Len(q') : q'[i].from <= q'[i].to
    BY <1>1 DEF Tiled
  <1>3. ASSUME NEW i \in 1 .. Len(q'), NEW j \in 1 .. Len(q'), i < j
        PROVE  /\ q'[i].to <= q'[j].from
               /\ q'[i].to < q'[j].from =>
                    \E m \in (i + 1) .. (j - 1) : q'[m].from < q'[m].to
    <2>1. q'[i] = q[k + i - 1] /\ q'[j] = q[k + j - 1] /\ k + i - 1 < k + j - 1
      BY <1>1, <1>3
    <2>2. q'[i].to <= q'[j].from
      BY <1>1, <2>1 DEF Tiled
    <2>3. ASSUME q'[i].to < q'[j].from
          PROVE  \E m \in (i + 1) .. (j - 1) : q'[m].from < q'[m].to
      <3> DEFINE a == k + i - 1
                 b == k + j - 1
      <3>a. a \in 1 .. Len(q) /\ b \in 1 .. Len(q) /\ a < b /\ q[a].to < q[b].from
        BY <1>1, <2>1, <2>3
      <3> HIDE DEF a, b
      <3>b. PICK m \in (a + 1) .. (b - 1) : q[m].from < q[m].to
        BY <3>a DEF Tiled
      <3> USE DEF a, b
      <3>1. m \in (k + i) .. (k + j - 2) /\ q[m].from < q[m].to
        BY <1>1, <3>b
      <3>2. m - k + 1 \in (i + 1) .. (j - 1) /\ m - k + 1 \in 1 .. Len(q')
        BY <1>1, <3>1
      <3>3. q'[m - k + 1] = q[m]
        <4>1. k \in Int /\ m \in Int
          BY <3>1
        <4>2. k + (m - k + 1) - 1 = m
          BY <4>1
        <4> QED
          BY <1>1, <3>2, <4>2
      <3> QED
        BY <3>1, <3>2, <3>3
    <2> QED
      BY <2>2, <2>3
  <1>4. q' # <<>> => q'[Len(q')].to = Len(stream') /\ q'[Len(q')].from = lastFrom'
    BY <1>1 DEF Tiled
  <1> QED
    BY <1>2, <1>3, <1>4 DEF Tiled

(* The front part lies within the text.                                       *)
LEMMA FirstWithin ==
  ASSUME TypeOK, Tiled, expressionParts # <<>>
  PROVE  /\ Len(expressionParts) \in Nat /\ Len(expressionParts) # 0 /\ Len(stream) \in Nat
         /\ expressionParts[1].from \in Nat /\ expressionParts[1].to \in Nat
         /\ expressionParts[1].to <= Len(stream)
         /\ Len(expressionParts) # 1 => expressionParts[1].to <= lastFrom
         /\ expressionParts[Len(expressionParts)].from = lastFrom
  <1> DEFINE L == Len(expressionParts)
  <1>1. /\ L \in Nat /\ L # 0 /\ L \in 1 .. L /\ 1 \in 1 .. L /\ Len(stream) \in Nat
        /\ lastFrom \in Nat
    BY EmptySeq DEF TypeOK
  <1>2. expressionParts[1] \in Interval /\ expressionParts[L] \in Interval
    BY <1>1, ElementOfSeq DEF TypeOK
  <1>3. /\ expressionParts[L].to = Len(stream) /\ expressionParts[L].from = lastFrom
        /\ expressionParts[L].from <= expressionParts[L].to
    BY <1>1 DEF Tiled
  <1>4. L # 1 => 1 < L
    BY <1>1, BeyondOne
  <1>5. L = 1 \/ expressionParts[1].to <= expressionParts[L].from
    BY <1>1, <1>4 DEF Tiled
  <1> QED
    BY <1>1, <1>2, <1>3, <1>5 DEF Interval

(* If the parts before the k-th are exhausted, what follows in the text is    *)
(* the k-th part; if all are, nothing follows.                                *)
LEMMA NextPart ==
  ASSUME TypeOK, Tiled, expressionParts # <<>>,
         expressionParts[1].from + readPos = Len(numbers),
         Len(numbers) <= expressionParts[1].to
  PROVE  /\ \A k \in 2 .. Len(expressionParts) :
              (\A i \in 1 .. (k - 1) : ~Unread(i)) => expressionParts[k].from = Len(numbers)
         /\ (\A i \in 1 .. Len(expressionParts) : ~Unread(i)) => Len(stream) = Len(numbers)
  <1> DEFINE q == expressionParts
  <1>1. /\ q \in Seq(Interval) /\ Len(q) \in Nat \ {0} /\ Len(numbers) \in Nat /\ readPos \in Nat
        /\ Len(stream) \in Nat
        /\ \A i \in 1 .. Len(q) : q[i].from \in Nat /\ q[i].to \in Nat
    <2>1. /\ q \in Seq(Interval) /\ Len(q) \in Nat \ {0} /\ Len(numbers) \in Nat /\ readPos \in Nat
          /\ Len(stream) \in Nat
      BY EmptySeq DEF TypeOK
    <2>2. \A i \in 1 .. Len(q) : q[i] \in Interval
      BY <2>1, ElementOfSeq
    <2> QED
      BY <2>1, <2>2 DEF Interval
  <1>2. ~Unread(1) => q[1].to = Len(numbers)
    BY <1>1 DEF Unread
  <1>3. \A i \in 2 .. Len(q) : ~Unread(i) => q[i].to <= q[i].from
    BY <1>1 DEF Unread
  <1>4. ASSUME NEW k \in 2 .. Len(q), \A i \in 1 .. (k - 1) : ~Unread(i)
        PROVE  q[k].from = Len(numbers)
    <2>1. q[1].to = Len(numbers)
      BY <1>1, <1>2, <1>4
    <2>2. ~\E m \in 2 .. (k - 1) : q[m].from < q[m].to
      BY <1>1, <1>3, <1>4
    <2>3. q[1].to <= q[k].from /\ ~(q[1].to < q[k].from)
      BY <1>1, <2>2 DEF Tiled
    <2> QED
      BY <1>1, <2>1, <2>3
  <1>5. ASSUME \A i \in 1 .. Len(q) : ~Unread(i)
        PROVE  Len(stream) = Len(numbers)
    <2>1. q[Len(q)].to = Len(stream)
      BY DEF Tiled
    <2>2. CASE Len(q) = 1
      BY <1>1, <1>2, <1>5, <2>1, <2>2
    <2>3. CASE Len(q) # 1
      <3>a. Len(q) \in 2 .. Len(q) /\ \A i \in 1 .. (Len(q) - 1) : ~Unread(i)
        <4>1. Len(q) \in 2 .. Len(q)
          BY <1>1, <2>3, BeyondOne
        <4>2. \A i \in 1 .. (Len(q) - 1) : i \in 1 .. Len(q)
          BY <1>1
        <4> QED
          BY <1>5, <4>1, <4>2
      <3>1. q[Len(q)].from = Len(numbers)
        BY <1>4, <3>a
      <3>2. q[Len(q)].to = q[Len(q)].from
        <4>1. q[Len(q)].to <= q[Len(q)].from
          BY <1>3, <1>5, <3>a
        <4>2. q[Len(q)].from <= q[Len(q)].to
          BY <3>a DEF Tiled
        <4> QED
          BY <1>1, <4>1, <4>2
      <3> QED
        BY <2>1, <3>1, <3>2
    <2> QED
      BY <2>2, <2>3
  <1> QED
    BY <1>4, <1>5

(* Reading under the lock, whether it finds a character, waits or gives up.   *)
LEMMA ScanInv ==
  ASSUME IInv, NEW w \in Workers, pc[w] \in {"fetch", "woken"}, Scan(w),
         UNCHANGED <<flags, operatorStack, numbers, history>>
  PROVE  IInv'
  <1> USE DEF flags, history
  <1>1. w = current /\ current # NoWorker /\ pc[current] \in Folding /\ pc[current] # "begin"
    BY StepperIsCurrent DEF Folding
  <1>2. ~calculationFinished
    BY <1>1 DEF IInv, EndingInv, Folding
  <1>3. /\ Folded /\ operatorStack = 1
        /\ expressionParts = <<>> => Len(numbers) = Len(stream) /\ readPos = 0
        /\ expressionParts # <<>> => /\ expressionParts[1].from + readPos = Len(numbers)
                                     /\ Len(numbers) <= expressionParts[1].to
    BY <1>1, <1>2 DEF IInv, FoldingInv
  <1>4. ~running => abortAsked
    BY <1>1 DEF IInv, FlagsInv
  <1>5. TypeOK /\ Tiled /\ Len(numbers) \in Nat /\ Len(stream) \in Nat
    BY DEF IInv, TypeOK
  <1>6. ASSUME NEW k \in 1 .. Len(expressionParts), Unread(k),
               \A i \in 1 .. (k - 1) : ~Unread(i),
               expressionParts' = SubSeq(expressionParts, k, Len(expressionParts)),
               readPos' = (IF k = 1 THEN readPos ELSE 0),
               curChar' = [curChar EXCEPT ![w] = stream[expressionParts[k].from + readPos' + 1]],
               pc' = [pc EXCEPT ![w] = "parse"],
               outcome' = outcome
        PROVE  IInv'
    <2>1. /\ expressionParts # <<>> /\ expressionParts[k] \in Interval /\ readPos \in Nat
          /\ Len(expressionParts) \in Nat
      BY <1>5 DEF TypeOK
    <2>2. expressionParts[k].from + readPos' = Len(numbers)
      BY <1>3, <1>5, <1>6, <2>1, NextPart DEF Interval
    <2>3. Len(numbers) < expressionParts[k].to
      BY <1>5, <1>6, <2>1, <2>2 DEF Unread, Interval
    <2>4. expressionParts[k].to <= Len(stream)
      <3> DEFINE L == Len(expressionParts)
      <3>1. L \in 1 .. L /\ expressionParts[L] \in Interval
        BY <1>5, <2>1, ElementOfSeq DEF TypeOK
      <3>2. expressionParts[L].to = Len(stream) /\ expressionParts[L].from <= expressionParts[L].to
        BY <1>5, <2>1, <3>1 DEF Tiled
      <3>3. k = L \/ expressionParts[k].to <= expressionParts[L].from
        BY <1>5, <2>1, <3>1 DEF Tiled
      <3> QED
        BY <1>5, <2>1, <3>1, <3>2, <3>3 DEF Interval
    <2>5. /\ expressionParts' \in Seq(Interval) /\ expressionParts' # <<>>
          /\ expressionParts'[1] = expressionParts[k]
      <3>1. /\ expressionParts' \in Seq(Interval)
            /\ Len(expressionParts') = Len(expressionParts) - k + 1
            /\ \A i \in 1 .. Len(expressionParts) - k + 1 : expressionParts'[i] = expressionParts[k + i - 1]
        BY <1>5, <1>6, Dropped DEF TypeOK
      <3>2. 1 \in 1 .. Len(expressionParts) - k + 1 /\ k + 1 - 1 = k
        BY <2>1
      <3> QED
        BY <2>1, <3>1, <3>2
    <2>6. curChar' = [curChar EXCEPT ![w] = stream[Len(numbers) + 1]]
      BY <1>6, <2>2
    <2>7. stream[Len(numbers) + 1] \in Chars
      BY <1>5, <2>1, <2>3, <2>4 DEF TypeOK, Interval
    <2>8. TypeOK'
      BY <1>5, <1>6, <2>5, <2>6, <2>7 DEF TypeOK, PCs
    <2>9. Alone'
      BY <1>1, <1>5, <1>6 DEF IInv, Alone, Active, TypeOK
    <2>10. Tiled'
      BY <1>5, <1>6, DroppedTiled
    <2>11. FoldingInv' /\ EndingInv'
      <3>1. pc'[current] = "parse" /\ Folded' /\ curChar'[current] = stream[Len(numbers) + 1]
        BY <1>1, <1>3, <1>5, <1>6, <2>6 DEF TypeOK, Folded
      <3>2. /\ numbers' = numbers /\ stream' = stream /\ current' = current
            /\ operatorStack' = 1 /\ calculationFinished' = FALSE
            /\ expressionParts'[1].from + readPos' = Len(numbers')
            /\ Len(numbers') < expressionParts'[1].to
            /\ Len(numbers') <= expressionParts'[1].to
        BY <1>2, <1>3, <1>5, <2>1, <2>2, <2>3, <2>5 DEF TypeOK, Interval
      <3>4. FoldingInv'
        BY <2>5, <3>1, <3>2 DEF FoldingInv
      <3>3. EndingInv'
        BY <1>2, <3>1 DEF EndingInv
      <3> QED
        BY <3>3, <3>4
    <2>12. LeavingInv'
      BY <1>1, <1>5, <1>6 DEF TypeOK, LeavingInv, Failing, Wiping
    <2>13. FlagsInv' /\ WipedInv'
      BY <1>1, <1>5, <1>6 DEF IInv, TypeOK, FlagsInv, WipedInv, Folding, Failing, Wiping
    <2> QED
      BY <2>8, <2>9, <2>10, <2>11, <2>12, <2>13 DEF IInv
  <1>7. ASSUME \A i \in 1 .. Len(expressionParts) : ~Unread(i),
               expressionParts' = <<>>,
               readPos' = (IF expressionParts = <<>> THEN readPos ELSE 0),
               curChar' = curChar
        PROVE  /\ Tiled' /\ readPos' = 0 /\ Len(numbers) = Len(stream)
               /\ expressionParts' \in Seq(Interval) /\ Len(expressionParts') = 0
    <2>1. Len(numbers) = Len(stream) /\ readPos' = 0
      BY <1>3, <1>5, <1>7, NextPart
    <2>2. expressionParts' \in Seq(Interval) /\ Len(expressionParts') = 0
      BY <1>7
    <2>3. Tiled'
      BY <1>5, <1>7, <2>2 DEF Tiled
    <2> QED
      BY <2>1, <2>2, <2>3
  <1>8. ASSUME \A i \in 1 .. Len(expressionParts) : ~Unread(i),
               expressionParts' = <<>>,
               readPos' = (IF expressionParts = <<>> THEN readPos ELSE 0),
               curChar' = curChar,
               running, pc' = [pc EXCEPT ![w] = "wait"], outcome' = outcome
        PROVE  IInv'
    <2>1. /\ Tiled' /\ readPos' = 0 /\ Len(numbers) = Len(stream)
          /\ expressionParts' \in Seq(Interval)
      BY <1>7, <1>8
    <2>2. TypeOK'
      BY <1>5, <1>8, <2>1 DEF TypeOK, PCs
    <2>3. Alone'
      BY <1>1, <1>5, <1>8 DEF IInv, Alone, Active, TypeOK
    <2>4. FoldingInv' /\ EndingInv'
      BY <1>1, <1>2, <1>3, <1>5, <1>8, <2>1 DEF TypeOK, FoldingInv, EndingInv, Folded, Folding
    <2>5. LeavingInv'
      BY <1>1, <1>5, <1>8 DEF TypeOK, LeavingInv, Failing, Wiping
    <2>6. FlagsInv' /\ WipedInv'
      BY <1>1, <1>5, <1>8 DEF IInv, TypeOK, FlagsInv, WipedInv, Folding, Failing, Wiping
    <2> QED
      BY <2>1, <2>2, <2>3, <2>4, <2>5, <2>6 DEF IInv
  <1>9. ASSUME \A i \in 1 .. Len(expressionParts) : ~Unread(i),
               expressionParts' = <<>>,
               readPos' = (IF expressionParts = <<>> THEN readPos ELSE 0),
               curChar' = curChar,
               ~running, Throw(w, "aborted")
        PROVE  IInv'
    <2>1. /\ Tiled' /\ readPos' \in Nat /\ expressionParts' \in Seq(Interval)
          /\ curChar' \in [Workers -> Chars]
      BY <1>5, <1>7, <1>9 DEF TypeOK
    <2> QED
      BY <1>1, <1>4, <1>9, <2>1, ThrowInv
  <1> QED
    BY <1>6, <1>8, <1>9 DEF Scan

\* The first scan of get_character() preserves the invariant.
LEMMA FetchInv ==
  ASSUME IInv, NEW w \in Workers, Fetch(w)
  PROVE  IInv'
  BY ScanInv DEF Fetch

\* So does every way out of the wait.
LEMMA WokenInv ==
  ASSUME IInv, NEW w \in Workers, Woken(w)
  PROVE  IInv'
  <1> USE DEF Woken, flags, parse, history
  <1>1. w = current /\ current # NoWorker
    BY StepperIsCurrent
  <1>2. CASE ~running
    <2>1. abortAsked
      BY <1>1, <1>2 DEF IInv, FlagsInv, Folding
    <2>2. Throw(w, "aborted") /\ UNCHANGED <<expressionParts, readPos, curChar>>
      BY <1>2
    <2>3. Tiled'
      BY <2>2 DEF IInv, Tiled
    <2> QED
      BY <2>1, <2>2, <2>3, ThrowInv DEF IInv, TypeOK, Folding
  <1>3. CASE running /\ expressionParts = <<>>
    <2>1. \A i \in 1 .. Len(expressionParts) : ~Unread(i)
      BY <1>3
    <2>2. CASE pc' = [pc EXCEPT ![w] = "wait"] /\ UNCHANGED <<expressionParts, readPos, curChar, outcome>>
      <3>1. Scan(w)
        BY <1>3, <2>1, <2>2 DEF Scan
      <3> QED
        BY <3>1, ScanInv
    <2> QED
      BY <1>3, <2>2
  <1>4. CASE running /\ expressionParts # <<>>
    BY <1>4, ScanInv
  <1> QED
    BY <1>2, <1>3, <1>4

(* One character is interpreted.                                              *)
LEMMA ParseInv ==
  ASSUME IInv, NEW w \in Workers, Parse(w)
  PROVE  IInv'
  <1>0. /\ pc[w] = "parse"
        /\ ParsePayload(w) \/ ParseEnd(w) \/ ParseThrows(w)
        /\ running' = running /\ errorOccured' = errorOccured
        /\ expressionParts' = expressionParts /\ curChar' = curChar
        /\ stream' = stream /\ lastFrom' = lastFrom /\ current' = current
        /\ abortAsked' = abortAsked
    BY DEF Parse, history
  <1>1. w = current /\ current # NoWorker
    BY <1>0, StepperIsCurrent
  <1>2. /\ ~calculationFinished
        /\ Folded /\ operatorStack = 1 /\ expressionParts # <<>>
        /\ expressionParts[1].from + readPos = Len(numbers)
        /\ Len(numbers) < expressionParts[1].to
        /\ curChar[w] = stream[Len(numbers) + 1]
    BY <1>0, <1>1 DEF IInv, FoldingInv, EndingInv, Folding
  <1>3. TypeOK /\ Tiled /\ Tiled'
    BY <1>0 DEF IInv, Tiled
  <1>4. /\ Len(numbers) \in Nat /\ Len(stream) \in Nat /\ readPos \in Nat
        /\ Len(numbers) + 1 \in 1 .. Len(stream)
        /\ expressionParts[1].from \in Nat /\ expressionParts[1].to \in Nat
    <2>1. /\ Len(stream) \in Nat /\ expressionParts[1].from \in Nat
          /\ expressionParts[1].to \in Nat /\ expressionParts[1].to <= Len(stream)
      BY <1>2, <1>3, FirstWithin
    <2>2. Len(numbers) \in Nat /\ readPos \in Nat
      BY <1>3 DEF TypeOK
    <2> QED
      BY <1>2, <2>1, <2>2
  <1>5. CASE ParsePayload(w)
    <2> USE DEF ParsePayload
    <2>1. /\ numbers' \in Seq(Chars) /\ Len(numbers') = Len(numbers) + 1
          /\ \A i \in 1 .. Len(numbers) : numbers'[i] = numbers[i]
          /\ numbers'[Len(numbers) + 1] = curChar[w]
      BY <1>3, <1>5 DEF TypeOK
    <2>2. Folded'
      BY <1>2, <1>4, <1>0, <1>5, <2>1 DEF Folded
    <2>3. PICK next \in {"peek", "loop"} : pc' = [pc EXCEPT ![w] = next]
      BY <1>5
    <2>4. TypeOK'
      BY <1>3, <1>4, <1>0, <1>5, <2>1, <2>3 DEF TypeOK, PCs
    <2>5. Alone'
      BY <1>0, <1>1, <1>3, <2>3 DEF IInv, Alone, Active, TypeOK
    <2>6. pc'[current] \in {"peek", "loop"} /\ current' = current /\ calculationFinished' = FALSE
      BY <1>0, <1>1, <1>2, <1>3, <1>5, <2>3 DEF TypeOK
    <2>7. FoldingInv'
      <3>0. expressionParts' = expressionParts /\ readPos' = readPos + 1
        BY <1>0, <1>5
      <3>1. expressionParts'[1].from + readPos' = Len(numbers') /\ Len(numbers') <= expressionParts'[1].to
        BY <1>2, <1>4, <2>1, <3>0
      <3> QED
        BY <1>2, <1>0, <1>5, <2>2, <2>6, <3>1 DEF FoldingInv
    <2>8. EndingInv' /\ LeavingInv' /\ WipedInv'
      BY <1>0, <2>6 DEF EndingInv, LeavingInv, WipedInv, Failing, Wiping
    <2>9. FlagsInv'
      BY <1>1, <1>0, <1>5, <2>6 DEF IInv, FlagsInv, Folding, Failing, Wiping
    <2> QED
      BY <1>3, <2>4, <2>5, <2>7, <2>8, <2>9 DEF IInv
  <1>6. CASE ParseEnd(w)
    <2> USE DEF ParseEnd
    <2>1. pc' = [pc EXCEPT ![w] = "loop"] /\ operatorStack' = 0 /\ calculationFinished' = TRUE
      BY <1>0, <1>2, <1>6
    <2>2. TypeOK'
      BY <1>3, <1>4, <1>0, <1>6, <2>1 DEF TypeOK, PCs
    <2>3. Alone'
      BY <1>0, <1>1, <1>3, <2>1 DEF IInv, Alone, Active, TypeOK
    <2>4. pc'[current] = "loop" /\ current' = current
      BY <1>0, <1>1, <1>3, <2>1 DEF TypeOK
    <2>5. FoldingInv' /\ LeavingInv' /\ WipedInv'
      BY <1>0, <2>1, <2>4 DEF FoldingInv, LeavingInv, WipedInv, Failing, Wiping
    <2>6. EndingInv'
      <3>0. expressionParts' = expressionParts /\ numbers' = numbers /\ stream' = stream
        BY <1>0, <1>6
      <3>2. stream[Len(numbers) + 1] = End
        BY <1>2, <1>6
      <3>3. expressionParts[1].from <= Len(numbers)
        BY <1>2, <1>4
      <3>1. Folded' /\ expressionParts'[1].from <= Len(numbers') /\ stream'[Len(numbers') + 1] = End
        BY <1>2, <3>0, <3>2, <3>3 DEF Folded
      <3> QED
        BY <1>2, <1>0, <1>6, <2>1, <2>4, <3>1 DEF EndingInv
    <2>7. FlagsInv'
      BY <1>1, <1>0, <1>6, <2>4 DEF IInv, FlagsInv, Folding, Failing, Wiping
    <2> QED
      BY <1>3, <2>2, <2>3, <2>5, <2>6, <2>7 DEF IInv
  <1>7. CASE ParseThrows(w)
    <2> USE DEF ParseThrows
    <2>1. InvalidText
      <3> DEFINE q == Len(numbers) + 1
      <3>1. stream[q] = Bad \/ (stream[q] = End /\ q = 1)
        BY <1>2, <1>4, <1>7
      <3>2. q \in 1 .. Len(stream) /\ \A i \in 1 .. (q - 1) : stream[i] \in Payload
        BY <1>2, <1>4 DEF Folded
      <3> QED
        BY <3>1, <3>2 DEF InvalidText, IsStop
    <2> QED
      BY <1>0, <1>3, <1>7, <2>1, ThrowInv DEF TypeOK, Folding, flags, history
  <1> QED
    BY <1>0, <1>5, <1>6, <1>7

(* The checks at the end of the try block separate the two answers.           *)
LEMMA FinishInv ==
  ASSUME IInv, NEW w \in Workers, Finish(w)
  PROVE  IInv'
  <1>0. /\ pc[w] = "finish"
        /\ errorOccured' = errorOccured /\ calculationFinished' = calculationFinished
        /\ expressionParts' = expressionParts /\ readPos' = readPos
        /\ operatorStack' = operatorStack /\ curChar' = curChar
        /\ stream' = stream /\ lastFrom' = lastFrom /\ current' = current
        /\ abortAsked' = abortAsked
    BY DEF Finish, history
  <1>1. w = current /\ current # NoWorker
    BY <1>0, StepperIsCurrent
  <1>2. /\ calculationFinished
        /\ Folded /\ numbers # <<>> /\ operatorStack = 0 /\ expressionParts # <<>>
        /\ expressionParts[1].from <= Len(numbers)
        /\ Len(numbers) < expressionParts[1].to
        /\ stream[Len(numbers) + 1] = End
    BY <1>0, <1>1 DEF IInv, EndingInv
  <1>3. TypeOK /\ Tiled /\ Tiled'
    BY <1>0 DEF IInv, Tiled
  <1> DEFINE L == Len(expressionParts)
             q == Len(numbers) + 1
  <1>4. /\ L \in Nat /\ L # 0 /\ Len(stream) \in Nat
        /\ expressionParts[1].from \in Nat /\ expressionParts[1].to \in Nat
        /\ expressionParts[1].to <= Len(stream)
        /\ L # 1 => expressionParts[1].to <= lastFrom
        /\ expressionParts[L].from = lastFrom
    BY <1>2, <1>3, FirstWithin
  <1>5. Len(numbers) \in Nat /\ Len(numbers) # 0 /\ lastFrom \in Nat
    BY <1>2, <1>3, EmptySeq DEF TypeOK
  <1>8. IsStop(q) /\ stream[q] = End
    BY <1>2, <1>4, <1>5 DEF IsStop, Folded
  <1>9. CASE Complete
    <2>1. /\ outcome' = [outcome EXCEPT ![w] = [kind |-> "value", value |-> numbers]]
          /\ numbers' = <<>> /\ running' = FALSE
          /\ pc' = [pc EXCEPT ![w] = "wipe_operators"]
      BY <1>9 DEF Finish
    <2>2. L = 1 /\ q > lastFrom
      BY <1>2, <1>4, <1>5, <1>9 DEF Complete
    <2>3. numbers = SubSeq(stream, 1, q - 1)
      <3>1. \A i \in 1 .. Len(numbers) : stream[i] \in Chars
        BY <1>2 DEF Folded
      <3>2. /\ SubSeq(stream, 1, Len(numbers)) \in Seq(Chars)
            /\ Len(SubSeq(stream, 1, Len(numbers))) = Len(numbers)
            /\ \A i \in 1 .. Len(numbers) : SubSeq(stream, 1, Len(numbers))[i] = stream[i]
        BY <1>5, <3>1, SubSeqProperties
      <3>3. numbers \in Seq(Chars) /\ \A i \in 1 .. Len(numbers) : numbers[i] = stream[i]
        BY <1>2, <1>3 DEF TypeOK, Folded
      <3>4. numbers = SubSeq(stream, 1, Len(numbers))
        BY <3>2, <3>3, SeqEqual
      <3> QED
        BY <1>5, <3>4
    <2>4. ValueText(numbers)
      BY <1>8, <2>2, <2>3 DEF ValueText, IsStop
    <2>5. [kind |-> "value", value |-> numbers] \in Outcomes
      BY <1>3 DEF TypeOK, Outcomes, Kinds
    <2>6. /\ pc'[current] = "wipe_operators" /\ current' = current
          /\ outcome'[current] = [kind |-> "value", value |-> numbers]
      BY <1>0, <1>1, <1>3, <2>1 DEF TypeOK
    <2>7. TypeOK'
      <3>1. /\ numbers' \in Seq(Chars) /\ running' \in BOOLEAN
            /\ pc' \in [Workers -> PCs] /\ outcome' \in [Workers -> Outcomes]
        <4>1. outcome \in [Workers -> Outcomes] /\ pc \in [Workers -> PCs]
          BY <1>3 DEF TypeOK
        <4>2. outcome' \in [Workers -> Outcomes]
          BY <2>1, <2>5, <4>1
        <4>3. pc' \in [Workers -> PCs]
          BY <2>1, <4>1 DEF PCs
        <4>4. numbers' \in Seq(Chars)
          BY <2>1
        <4>5. running' \in BOOLEAN
          BY <2>1
        <4> QED
          BY <4>2, <4>3, <4>4, <4>5
      <3> QED
        BY <1>0, <1>3, <3>1 DEF TypeOK
    <2>8. Alone'
      BY <1>0, <1>1, <1>3, <2>1 DEF IInv, Alone, Active, TypeOK
    <2>9. FoldingInv' /\ EndingInv' /\ WipedInv'
      BY <1>0, <2>6 DEF FoldingInv, EndingInv, WipedInv, Folding
    <2>10. LeavingInv'
      <3>1. outcome'[current'].value = numbers /\ outcome'[current'].kind = "value"
        BY <2>6
      <3>2. ValueText(outcome[current].value)'
        BY <1>0, <2>4, <3>1 DEF ValueText, IsStop
      <3> QED
        BY <2>1, <2>6, <3>1, <3>2 DEF LeavingInv, Failing, Wiping
    <2>11. FlagsInv'
      BY <1>0, <1>1, <1>2, <2>1, <2>6 DEF IInv, FlagsInv, Folding, Failing, Wiping
    <2> QED
      BY <1>3, <2>7, <2>8, <2>9, <2>10, <2>11 DEF IInv
  <1>10. CASE ~Complete
    <2>1. L # 1
      BY <1>2, <1>10 DEF Complete
    <2>2. InvalidText
      BY <1>2, <1>4, <1>5, <1>8, <2>1 DEF InvalidText, IsStop
    <2>3. Throw(w, "invalid") /\ UNCHANGED <<numbers, running>>
      BY <1>10 DEF Finish
    <2> QED
      BY <1>0, <1>3, <1>10, <2>2, <2>3, ThrowInv DEF TypeOK, flags, history
  <1> QED
    BY <1>9, <1>10

\* A spurious wake-up changes no data.
LEMMA SpuriousWakeInv ==
  ASSUME IInv, NEW w \in Workers, SpuriousWake(w)
  PROVE  IInv'
  <1> USE DEF SpuriousWake, At, flags, parse, history
  <1>1. w = current /\ current # NoWorker
    BY StepperIsCurrent
  <1>2. TypeOK'
    BY DEF IInv, TypeOK, PCs
  <1>3. Alone'
    BY <1>1 DEF IInv, Alone, Active, TypeOK
  <1>4. Tiled'
    BY DEF IInv, Tiled
  <1>5. FoldingInv'
    BY <1>1 DEF IInv, TypeOK, FoldingInv, Folded, Folding
  <1>6. EndingInv'
    BY <1>1 DEF IInv, TypeOK, FoldingInv, EndingInv, Folded, Folding
  <1>7. LeavingInv'
    BY <1>1 DEF IInv, TypeOK, LeavingInv, Folding, Failing, Wiping, ValueText, InvalidText, IsStop
  <1>8. FlagsInv'
    BY <1>1 DEF IInv, TypeOK, FlagsInv, Folding, Failing, Wiping
  <1>9. WipedInv'
    BY <1>1 DEF IInv, TypeOK, WipedInv
  <1> QED
    BY <1>2, <1>3, <1>4, <1>5, <1>6, <1>7, <1>8, <1>9 DEF IInv

\* First store of the unlocked clean: the operator stack.
LEMMA WipeOperatorsInv ==
  ASSUME IInv, NEW w \in Workers, WipeOperators(w)
  PROVE  IInv'
  <1> USE DEF WipeOperators, At, flags, parse, history
  <1>1. w = current /\ current # NoWorker
    BY StepperIsCurrent
  <1>2. TypeOK'
    BY DEF IInv, TypeOK, PCs
  <1>3. Alone'
    BY <1>1 DEF IInv, Alone, Active, TypeOK
  <1>4. Tiled'
    BY DEF IInv, Tiled
  <1>5. FoldingInv'
    BY <1>1 DEF IInv, TypeOK, FoldingInv, Folded, Folding
  <1>6. EndingInv'
    BY <1>1 DEF IInv, TypeOK, FoldingInv, EndingInv, Folded, Folding
  <1>7. LeavingInv'
    BY <1>1 DEF IInv, TypeOK, LeavingInv, Folding, Failing, Wiping, ValueText, InvalidText, IsStop
  <1>8. FlagsInv'
    BY <1>1 DEF IInv, TypeOK, FlagsInv, Folding, Failing, Wiping
  <1>9. WipedInv'
    BY <1>1 DEF IInv, TypeOK, WipedInv
  <1> QED
    BY <1>2, <1>3, <1>4, <1>5, <1>6, <1>7, <1>8, <1>9 DEF IInv

\* Second store of the unlocked clean: the numbers.
LEMMA WipeNumbersInv ==
  ASSUME IInv, NEW w \in Workers, WipeNumbers(w)
  PROVE  IInv'
  <1> USE DEF WipeNumbers, At, flags, parse, history
  <1>1. w = current /\ current # NoWorker
    BY StepperIsCurrent
  <1>2. TypeOK'
    BY DEF IInv, TypeOK, PCs
  <1>3. Alone'
    BY <1>1 DEF IInv, Alone, Active, TypeOK
  <1>4. Tiled'
    BY DEF IInv, Tiled
  <1>5. FoldingInv'
    BY <1>1 DEF IInv, TypeOK, FoldingInv, Folded, Folding
  <1>6. EndingInv'
    BY <1>1 DEF IInv, TypeOK, FoldingInv, EndingInv, Folded, Folding
  <1>7. LeavingInv'
    BY <1>1 DEF IInv, TypeOK, LeavingInv, Folding, Failing, Wiping, ValueText, InvalidText, IsStop
  <1>8. FlagsInv'
    BY <1>1 DEF IInv, TypeOK, FlagsInv, Folding, Failing, Wiping
  <1>9. WipedInv'
    BY <1>1 DEF IInv, TypeOK, WipedInv
  <1> QED
    BY <1>2, <1>3, <1>4, <1>5, <1>6, <1>7, <1>8, <1>9 DEF IInv

\* Last store of the unlocked clean: the queue; the future is ready after it.
LEMMA WipePartsInv ==
  ASSUME IInv, NEW w \in Workers, WipeParts(w)
  PROVE  IInv'
  <1> USE DEF WipeParts, At, flags, parse, history
  <1>1. w = current /\ current # NoWorker
    BY StepperIsCurrent
  <1>2. TypeOK'
    BY DEF IInv, TypeOK, PCs
  <1>3. Alone'
    BY <1>1 DEF IInv, Alone, Active, TypeOK
  <1>4. Tiled'
    BY DEF IInv, Tiled
  <1>5. FoldingInv'
    BY <1>1 DEF IInv, TypeOK, FoldingInv, Folded, Folding
  <1>6. EndingInv'
    BY <1>1 DEF IInv, TypeOK, FoldingInv, EndingInv, Folded, Folding
  <1>7. LeavingInv'
    BY <1>1 DEF IInv, TypeOK, LeavingInv, Folding, Failing, Wiping, ValueText, InvalidText, IsStop
  <1>8. FlagsInv'
    BY <1>1 DEF IInv, TypeOK, FlagsInv, Folding, Failing, Wiping, LeavingInv
  <1>9. WipedInv'
    BY <1>1 DEF IInv, TypeOK, WipedInv
  <1> QED
    BY <1>2, <1>3, <1>4, <1>5, <1>6, <1>7, <1>8, <1>9 DEF IInv

\* First store of the error path: m_running.
LEMMA ErrRunningInv ==
  ASSUME IInv, NEW w \in Workers, ErrRunning(w)
  PROVE  IInv'
  <1> USE DEF ErrRunning, At, flags, parse, history
  <1>1. w = current /\ current # NoWorker
    BY StepperIsCurrent
  <1>2. TypeOK'
    BY DEF IInv, TypeOK, PCs
  <1>3. Alone'
    BY <1>1 DEF IInv, Alone, Active, TypeOK
  <1>4. Tiled'
    BY DEF IInv, Tiled
  <1>5. FoldingInv'
    BY <1>1 DEF IInv, TypeOK, FoldingInv, Folded, Folding
  <1>6. EndingInv'
    BY <1>1 DEF IInv, TypeOK, FoldingInv, EndingInv, Folded, Folding
  <1>7. LeavingInv'
    BY <1>1 DEF IInv, TypeOK, LeavingInv, Folding, Failing, Wiping, ValueText, InvalidText, IsStop
  <1>8. FlagsInv'
    BY <1>1 DEF IInv, TypeOK, FlagsInv, Folding, Failing, Wiping
  <1>9. WipedInv'
    BY <1>1 DEF IInv, TypeOK, WipedInv
  <1> QED
    BY <1>2, <1>3, <1>4, <1>5, <1>6, <1>7, <1>8, <1>9 DEF IInv

\* Second store of the error path: m_error_occured.
LEMMA ErrFlagInv ==
  ASSUME IInv, NEW w \in Workers, ErrFlag(w)
  PROVE  IInv'
  <1> USE DEF ErrFlag, At, flags, parse, history
  <1>1. w = current /\ current # NoWorker
    BY StepperIsCurrent
  <1>2. TypeOK'
    BY DEF IInv, TypeOK, PCs
  <1>3. Alone'
    BY <1>1 DEF IInv, Alone, Active, TypeOK
  <1>4. Tiled'
    BY DEF IInv, Tiled
  <1>5. FoldingInv'
    BY <1>1 DEF IInv, TypeOK, FoldingInv, Folded, Folding
  <1>6. EndingInv'
    BY <1>1 DEF IInv, TypeOK, FoldingInv, EndingInv, Folded, Folding
  <1>7. LeavingInv'
    BY <1>1 DEF IInv, TypeOK, LeavingInv, Folding, Failing, Wiping, ValueText, InvalidText, IsStop
  <1>8. FlagsInv'
    BY <1>1 DEF IInv, TypeOK, FlagsInv, Folding, Failing, Wiping
  <1>9. WipedInv'
    BY <1>1 DEF IInv, TypeOK, WipedInv
  <1> QED
    BY <1>2, <1>3, <1>4, <1>5, <1>6, <1>7, <1>8, <1>9 DEF IInv

\* Third store of the error path: m_calculation_finished.
LEMMA ErrFinishedInv ==
  ASSUME IInv, NEW w \in Workers, ErrFinished(w)
  PROVE  IInv'
  <1> USE DEF ErrFinished, At, flags, parse, history
  <1>1. w = current /\ current # NoWorker
    BY StepperIsCurrent
  <1>2. TypeOK'
    BY DEF IInv, TypeOK, PCs
  <1>3. Alone'
    BY <1>1 DEF IInv, Alone, Active, TypeOK
  <1>4. Tiled'
    BY DEF IInv, Tiled
  <1>5. FoldingInv'
    BY <1>1 DEF IInv, TypeOK, FoldingInv, Folded, Folding
  <1>6. EndingInv'
    BY <1>1 DEF IInv, TypeOK, FoldingInv, EndingInv, Folded, Folding
  <1>7. LeavingInv'
    BY <1>1 DEF IInv, TypeOK, LeavingInv, Folding, Failing, Wiping, ValueText, InvalidText, IsStop
  <1>8. FlagsInv'
    BY <1>1 DEF IInv, TypeOK, FlagsInv, Folding, Failing, Wiping
  <1>9. WipedInv'
    BY <1>1 DEF IInv, TypeOK, WipedInv
  <1> QED
    BY <1>2, <1>3, <1>4, <1>5, <1>6, <1>7, <1>8, <1>9 DEF IInv

\* The locked clean of the error path leaves nothing behind.
LEMMA ErrCleanInv ==
  ASSUME IInv, NEW w \in Workers, ErrClean(w)
  PROVE  IInv'
  <1> USE DEF ErrClean, At, flags, parse, history
  <1>1. w = current /\ current # NoWorker
    BY StepperIsCurrent
  <1>2. TypeOK'
    BY DEF IInv, TypeOK, PCs
  <1>3. Alone'
    BY <1>1 DEF IInv, Alone, Active, TypeOK
  <1>4. Tiled'
    BY DEF IInv, Tiled
  <1>5. FoldingInv'
    BY <1>1 DEF IInv, TypeOK, FoldingInv, Folded, Folding
  <1>6. EndingInv'
    BY <1>1 DEF IInv, TypeOK, FoldingInv, EndingInv, Folded, Folding
  <1>7. LeavingInv'
    BY <1>1 DEF IInv, TypeOK, LeavingInv, Folding, Failing, Wiping, ValueText, InvalidText, IsStop
  <1>8. FlagsInv'
    BY <1>1 DEF IInv, TypeOK, FlagsInv, Folding, Failing, Wiping, LeavingInv
  <1>9. WipedInv'
    BY <1>1 DEF IInv, TypeOK, WipedInv
  <1> QED
    BY <1>2, <1>3, <1>4, <1>5, <1>6, <1>7, <1>8, <1>9 DEF IInv

-----------------------------------------------------------------------------
(* The caller's calls.                                                        *)

\* A calculation that was just set up has one part, which covers its text.
LEMMA RestartInv ==
  ASSUME TypeOK, NEW chars \in Seq(Chars), RestartWith(chars)
  PROVE  /\ expressionParts' \in Seq(Interval) /\ stream' \in Seq(Chars) /\ Tiled'
         /\ Len(expressionParts') = 1 /\ expressionParts' # <<>>
         /\ expressionParts'[1].from = 0 /\ 0 <= expressionParts'[1].to
         /\ numbers' \in Seq(Chars) /\ Len(numbers') = 0
  <1>1. chars \in Seq(Chars) /\ Len(chars) \in Nat
    OBVIOUS
  <1> DEFINE part == [from |-> 0, to |-> Len(chars)]
  <1>2. part \in Interval /\ part.from = 0 /\ part.to = Len(chars)
    BY <1>1 DEF Interval
  <1>3. expressionParts' = <<part>> /\ stream' = chars /\ lastFrom' = 0 /\ numbers' = <<>>
    BY DEF RestartWith
  <1> HIDE DEF part
  <1>4. /\ expressionParts' \in Seq(Interval) /\ Len(expressionParts') = 1
        /\ expressionParts'[1] = part /\ expressionParts' # <<>>
    BY <1>2, <1>3
  <1>5. Tiled'
    BY <1>1, <1>2, <1>3, <1>4 DEF Tiled
  <1> QED
    BY <1>1, <1>2, <1>3, <1>4, <1>5

\* start() establishes the invariant for the new thread.
LEMMA StartInv ==
  ASSUME IInv, Quiescent, NEW w \in Workers, NEW chars \in Seq(Chars), Start(w, chars)
  PROVE  IInv'
  <1>1. TypeOK
    BY DEF IInv
  <1>2. /\ expressionParts' \in Seq(Interval) /\ stream' \in Seq(Chars) /\ Tiled'
        /\ Len(expressionParts') = 1 /\ expressionParts' # <<>>
        /\ expressionParts'[1].from = 0 /\ 0 <= expressionParts'[1].to
        /\ numbers' \in Seq(Chars) /\ Len(numbers') = 0
    BY <1>1, RestartInv DEF Start
  <1>3. /\ running' = TRUE /\ errorOccured' = FALSE /\ calculationFinished' = FALSE
        /\ operatorStack' = 0 /\ readPos' = 0 /\ lastFrom' = 0 /\ abortAsked' = FALSE
        /\ current' = w /\ pc' = [pc EXCEPT ![w] = "begin"]
        /\ outcome' = [outcome EXCEPT ![w] = NoOutcome] /\ curChar' = curChar
    BY DEF Start, RestartWith
  <1>4. pc'[w] = "begin" /\ pc' \in [Workers -> PCs] /\ w # NoWorker
    BY <1>1, <1>3 DEF TypeOK, PCs
  <1>5. outcome' \in [Workers -> Outcomes]
    <2>1. NoOutcome \in Outcomes
      BY DEF NoOutcome, Outcomes, Kinds
    <2> QED
      BY <1>1, <1>3, <2>1 DEF TypeOK
  <1>6. TypeOK'
    BY <1>1, <1>2, <1>3, <1>4, <1>5 DEF TypeOK
  <1>7. Alone'
    BY <1>1, <1>3, <1>4 DEF Quiescent, Alone, Active, TypeOK
  <1>8. FoldingInv' /\ EndingInv'
    <2>1. Folded'
      BY <1>2, LenProperties DEF Folded
    <2> QED
      BY <1>2, <1>3, <1>4, <2>1 DEF FoldingInv, EndingInv
  <1>9. LeavingInv' /\ FlagsInv' /\ WipedInv'
    BY <1>3, <1>4 DEF LeavingInv, FlagsInv, WipedInv, Failing, Wiping
  <1> QED
    BY <1>2, <1>6, <1>7, <1>8, <1>9 DEF IInv

\* So does a start() whose thread cannot be created.
LEMMA StartThrowsInv ==
  ASSUME IInv, Quiescent, NEW chars \in Seq(Chars), StartThrows(chars)
  PROVE  IInv'
  <1>1. TypeOK
    BY DEF IInv
  <1>2. /\ expressionParts' \in Seq(Interval) /\ stream' \in Seq(Chars) /\ Tiled'
        /\ numbers' \in Seq(Chars)
    BY <1>1, RestartInv DEF StartThrows
  <1>3. /\ running' = TRUE /\ errorOccured' = FALSE /\ calculationFinished' = FALSE
        /\ operatorStack' = 0 /\ readPos' = 0 /\ lastFrom' = 0 /\ abortAsked' = FALSE
        /\ current' = NoWorker /\ pc' = pc /\ outcome' = outcome /\ curChar' = curChar
    BY DEF StartThrows, RestartWith
  <1>4. TypeOK'
    BY <1>1, <1>2, <1>3 DEF TypeOK
  <1>5. Alone'
    BY <1>3 DEF Quiescent, Alone, Active
  <1>6. FoldingInv' /\ EndingInv' /\ LeavingInv' /\ FlagsInv' /\ WipedInv'
    BY <1>3 DEF FoldingInv, EndingInv, LeavingInv, FlagsInv, WipedInv
  <1> QED
    BY <1>2, <1>4, <1>5, <1>6 DEF IInv

\* reset() leaves the calculator without a current calculation.
LEMMA ResetInv ==
  ASSUME IInv, Quiescent, Reset
  PROVE  IInv'
  <1>1. TypeOK
    BY DEF IInv
  <1>2. /\ running' = running /\ errorOccured' = FALSE /\ calculationFinished' = FALSE
        /\ expressionParts' = <<>> /\ stream' = <<>> /\ numbers' = <<>>
        /\ operatorStack' = 0 /\ readPos' = 0 /\ lastFrom' = 0 /\ abortAsked' = FALSE
        /\ current' = NoWorker /\ pc' = pc /\ outcome' = outcome /\ curChar' = curChar
    BY DEF Reset
  <1>3. /\ expressionParts' \in Seq(Interval) /\ stream' \in Seq(Chars) /\ numbers' \in Seq(Chars)
        /\ Len(expressionParts') = 0 /\ Len(stream') = 0
    BY <1>2
  <1>4. TypeOK'
    BY <1>1, <1>2, <1>3 DEF TypeOK
  <1>5. Alone'
    BY <1>2 DEF Quiescent, Alone, Active
  <1>6. Tiled'
    BY <1>2, <1>3 DEF Tiled
  <1>7. FoldingInv' /\ EndingInv' /\ LeavingInv' /\ FlagsInv' /\ WipedInv'
    BY <1>2 DEF FoldingInv, EndingInv, LeavingInv, FlagsInv, WipedInv
  <1> QED
    BY <1>4, <1>5, <1>6, <1>7 DEF IInv

(* A notification moves one waiting thread, or none.                          *)
LEMMA Notified ==
  ASSUME TypeOK, NotifyOne
  PROVE  /\ pc' \in [Workers -> PCs]
         /\ \A w \in Workers : pc'[w] = pc[w] \/ (pc[w] = "wait" /\ pc'[w] = "woken")
  BY DEF TypeOK, NotifyOne, PCs

\* abort() wakes at most one thread and changes m_running only.
LEMMA AbortInv ==
  ASSUME IInv, Abort
  PROVE  IInv'
  <1>1. TypeOK
    BY DEF IInv
  <1>2. /\ running /\ running' = FALSE /\ abortAsked' = TRUE
        /\ errorOccured' = errorOccured /\ calculationFinished' = calculationFinished
        /\ expressionParts' = expressionParts /\ readPos' = readPos
        /\ operatorStack' = operatorStack /\ numbers' = numbers
        /\ curChar' = curChar /\ outcome' = outcome
        /\ stream' = stream /\ lastFrom' = lastFrom /\ current' = current
    BY DEF Abort, parse
  <1>3. /\ pc' \in [Workers -> PCs]
        /\ \A w \in Workers : pc'[w] = pc[w] \/ (pc[w] = "wait" /\ pc'[w] = "woken")
    BY <1>1, Notified DEF Abort
  <1>4. TypeOK'
    BY <1>1, <1>2, <1>3 DEF TypeOK
  <1>5. Alone'
    BY <1>1, <1>2, <1>3 DEF IInv, Alone, Active, TypeOK
  <1>6. Tiled'
    BY <1>2 DEF IInv, Tiled
  <1>7. CASE current = NoWorker
    <2>1. FoldingInv' /\ EndingInv' /\ LeavingInv' /\ FlagsInv' /\ WipedInv'
      BY <1>2, <1>7 DEF FoldingInv, EndingInv, LeavingInv, FlagsInv, WipedInv
    <2> QED
      BY <1>4, <1>5, <1>6, <2>1 DEF IInv
  <1>8. CASE current # NoWorker
    <2>1. pc'[current] = pc[current] \/ (pc[current] = "wait" /\ pc'[current] = "woken")
      BY <1>1, <1>3, <1>8 DEF TypeOK
    <2>2. FoldingInv' /\ EndingInv'
      BY <1>2, <2>1 DEF IInv, FoldingInv, EndingInv, Folded, Folding
    <2>3. LeavingInv'
      BY <1>2, <2>1 DEF IInv, LeavingInv, Failing, Wiping, ValueText, InvalidText, IsStop
    <2>4. FlagsInv' /\ WipedInv'
      BY <1>2, <1>8, <2>1 DEF IInv, FlagsInv, WipedInv, Folding, Failing, Wiping
    <2> QED
      BY <1>4, <1>5, <1>6, <2>2, <2>3, <2>4 DEF IInv
  <1> QED
    BY <1>7, <1>8

(* A new part continues the text where the last one stopped.                  *)
LEMMA AppendedTiled ==
  ASSUME TypeOK, Tiled, NEW chars \in Seq(Chars), AddExprPart(chars)
  PROVE  Tiled'
  <1> DEFINE q == expressionParts
             n == Len(expressionParts)
             part == [from |-> Len(stream), to |-> Len(stream) + Len(chars)]
  <1>1. /\ q \in Seq(Interval) /\ n \in Nat /\ Len(stream) \in Nat /\ Len(chars) \in Nat
        /\ chars \in Seq(Chars) /\ stream \in Seq(Chars) /\ lastFrom \in Nat
    BY DEF TypeOK
  <1>2. /\ part.from = Len(stream) /\ part.to = Len(stream) + Len(chars)
        /\ part.from <= part.to /\ part \in Interval
    BY <1>1 DEF Interval
  <1>3. q' = Append(q, part) /\ lastFrom' = Len(stream) /\ stream' = stream \o chars
    BY DEF AddExprPart
  <1> HIDE DEF part
  <1>4. /\ Len(q') = n + 1 /\ q'[n + 1] = part
        /\ \A i \in 1 .. n : q'[i] = q[i]
    BY <1>1, <1>2, <1>3
  <1>5. Len(stream') = Len(stream) + Len(chars)
    BY <1>1, <1>3, Extended
  <1>6. \A i \in 1 .. n : q[i].from \in Nat /\ q[i].to \in Nat /\ q[i].from <= q[i].to
    <2>1. \A i \in 1 .. n : q[i] \in Interval
      BY <1>1, ElementOfSeq
    <2> QED
      BY <2>1 DEF Interval, Tiled
  <1>7. \A i \in 1 .. n : q[i].to <= Len(stream)
    <2> SUFFICES ASSUME NEW i \in 1 .. n
                 PROVE  q[i].to <= Len(stream)
      OBVIOUS
    <2>1. n \in 1 .. n /\ q[n].to = Len(stream) /\ (i = n \/ i < n)
      BY <1>1 DEF Tiled
    <2>2. CASE i = n
      BY <1>1, <2>1, <2>2
    <2>3. CASE i < n
      <3>1. q[i].to <= q[n].from
        BY <2>1, <2>3 DEF Tiled
      <3> QED
        BY <1>1, <1>6, <2>1, <3>1
    <2> QED
      BY <2>1, <2>2, <2>3
  <1>8. ASSUME NEW i \in 1 .. n, q[i].to < Len(stream)
        PROVE  \E k \in (i + 1) .. n : q[k].from < q[k].to
    <2>1. n \in 1 .. n /\ q[n].to = Len(stream) /\ i < n
      <3>1. n \in 1 .. n /\ q[n].to = Len(stream)
        BY <1>1 DEF Tiled
      <3>2. i # n
        BY <1>1, <1>6, <1>8, <3>1
      <3> QED
        BY <1>1, <3>1, <3>2
    <2>2. CASE q[n].from < q[n].to
      BY <2>1, <2>2
    <2>3. CASE ~(q[n].from < q[n].to)
      <3>1. q[i].to < q[n].from
        BY <1>1, <1>6, <1>8, <2>1, <2>3
      <3>2. PICK k \in (i + 1) .. (n - 1) : q[k].from < q[k].to
        BY <2>1, <3>1 DEF Tiled
      <3> QED
        BY <1>1, <3>2
    <2> QED
      BY <2>2, <2>3
  <1>9. lastFrom' <= Len(stream')
    BY <1>1, <1>3, <1>5
  <1>10. \A i \in 1 .. Len(q') : q'[i].from <= q'[i].to
    BY <1>1, <1>2, <1>4, <1>6
  <1>11. ASSUME NEW i \in 1 .. Len(q'), NEW j \in 1 .. Len(q'), i < j
         PROVE  /\ q'[i].to <= q'[j].from
                /\ q'[i].to < q'[j].from =>
                     \E k \in (i + 1) .. (j - 1) : q'[k].from < q'[k].to
    <2>1. i \in 1 .. n /\ q'[i] = q[i] /\ (j = n + 1 \/ j \in 1 .. n)
      BY <1>1, <1>4, <1>11
    <2>2. CASE j = n + 1
      <3>1. q'[j].from = Len(stream) /\ q'[i].to <= q'[j].from
        BY <1>2, <1>4, <1>7, <2>1, <2>2
      <3>2. ASSUME q'[i].to < q'[j].from
            PROVE  \E k \in (i + 1) .. (j - 1) : q'[k].from < q'[k].to
        <4>1. PICK k \in (i + 1) .. n : q[k].from < q[k].to
          BY <1>8, <2>1, <3>1, <3>2
        <4>2. k \in 1 .. n /\ k \in (i + 1) .. (j - 1)
          BY <1>1, <2>1, <2>2
        <4> QED
          BY <1>4, <4>1, <4>2
      <3> QED
        BY <3>1, <3>2
    <2>3. CASE j \in 1 .. n
      <3>1. q'[j] = q[j]
        BY <1>4, <2>3
      <3>2. q[i].to <= q[j].from
        BY <1>11, <2>1, <2>3 DEF Tiled
      <3>3. ASSUME q[i].to < q[j].from
            PROVE  \E k \in (i + 1) .. (j - 1) : q'[k].from < q'[k].to
        <4>1. PICK k \in (i + 1) .. (j - 1) : q[k].from < q[k].to
          BY <1>11, <2>1, <2>3, <3>3 DEF Tiled
        <4>2. k \in 1 .. n
          BY <1>1, <2>1, <2>3
        <4> QED
          BY <1>4, <4>1, <4>2
      <3> QED
        BY <2>1, <3>1, <3>2, <3>3
    <2> QED
      BY <2>1, <2>2, <2>3
  <1>12. q'[Len(q')].to = Len(stream') /\ q'[Len(q')].from = lastFrom'
    BY <1>2, <1>3, <1>4, <1>5
  <1> QED
    BY <1>9, <1>10, <1>11, <1>12 DEF Tiled

\* A part that is pushed extends text and queue alike.
LEMMA AddExprPartInv ==
  ASSUME IInv, NEW chars \in Seq(Chars), AddExprPart(chars)
  PROVE  IInv'
  <1>1. TypeOK /\ Tiled
    BY DEF IInv
  <1>2. /\ running /\ running' = running
        /\ errorOccured' = errorOccured /\ calculationFinished' = calculationFinished
        /\ readPos' = readPos /\ operatorStack' = operatorStack /\ numbers' = numbers
        /\ curChar' = curChar /\ outcome' = outcome
        /\ current' = current /\ abortAsked' = abortAsked
    BY DEF AddExprPart, flags
  <1>3. /\ pc' \in [Workers -> PCs]
        /\ \A w \in Workers : pc'[w] = pc[w] \/ (pc[w] = "wait" /\ pc'[w] = "woken")
    BY <1>1, Notified DEF AddExprPart
  <1>4. /\ stream' \in Seq(Chars) /\ Len(stream') = Len(stream) + Len(chars)
        /\ Len(chars) \in Nat /\ Len(stream) \in Nat
        /\ \A i \in 1 .. Len(stream) : stream'[i] = stream[i]
        /\ lastFrom' = Len(stream) /\ lastFrom \in Nat /\ lastFrom <= Len(stream)
    BY <1>1, Extended DEF AddExprPart, TypeOK, Tiled
  <1> DEFINE n == Len(expressionParts)
             part == [from |-> Len(stream), to |-> Len(stream) + Len(chars)]
  <1>5. /\ part \in Interval /\ part.from = Len(stream)
        /\ expressionParts \in Seq(Interval) /\ n \in Nat
        /\ expressionParts' = Append(expressionParts, part)
    BY <1>1, <1>4 DEF AddExprPart, TypeOK, Interval
  <1> HIDE DEF part
  <1>6. /\ expressionParts' \in Seq(Interval) /\ expressionParts' # <<>>
        /\ n > 0 => expressionParts'[1] = expressionParts[1]
        /\ n = 0 => expressionParts'[1] = part
    BY <1>5
  <1>7. TypeOK'
    BY <1>1, <1>2, <1>3, <1>4, <1>6 DEF TypeOK
  <1>8. Alone'
    BY <1>1, <1>2, <1>3 DEF IInv, Alone, Active, TypeOK
  <1>9. Tiled'
    BY <1>1, AppendedTiled
  <1>10. CASE current = NoWorker
    <2>1. FoldingInv' /\ EndingInv' /\ LeavingInv' /\ FlagsInv' /\ WipedInv'
      BY <1>2, <1>10 DEF IInv, FoldingInv, EndingInv, LeavingInv, FlagsInv, WipedInv
    <2> QED
      BY <1>7, <1>8, <1>9, <2>1 DEF IInv
  <1>11. CASE current # NoWorker
    <2>1. pc'[current] = pc[current] \/ (pc[current] = "wait" /\ pc'[current] = "woken")
      BY <1>1, <1>3, <1>11 DEF TypeOK
    <2>2. Folded => Folded'
      BY <1>1, <1>2, <1>4 DEF Folded, TypeOK
    <2>3. expressionParts = <<>> <=> n = 0
      BY <1>5, EmptySeq
    <2>4. expressionParts # <<>> => /\ expressionParts[1].from \in Nat
                                    /\ expressionParts[1].to \in Nat
                                    /\ expressionParts[1].to <= Len(stream)
      BY <1>1, FirstWithin
    <2>5. FoldingInv'
      <3> SUFFICES ASSUME current' # NoWorker, pc'[current'] \in Folding, ~calculationFinished'
                   PROVE  /\ Folded'
                          /\ operatorStack' = (IF pc'[current'] = "begin" THEN 0 ELSE 1)
                          /\ expressionParts'[1].from + readPos' = Len(numbers')
                          /\ Len(numbers') <= expressionParts'[1].to
                          /\ pc'[current'] = "parse" =>
                               /\ Len(numbers') < expressionParts'[1].to
                               /\ curChar'[current'] = stream'[Len(numbers') + 1]
        BY <1>6 DEF FoldingInv
      <3>1. pc[current] \in Folding /\ ~calculationFinished
        BY <1>2, <2>1 DEF Folding
      <3>2. /\ Folded
            /\ operatorStack = (IF pc[current] = "begin" THEN 0 ELSE 1)
            /\ IF expressionParts = <<>>
               THEN Len(numbers) = Len(stream) /\ readPos = 0
               ELSE /\ expressionParts[1].from + readPos = Len(numbers)
                    /\ Len(numbers) <= expressionParts[1].to
            /\ pc[current] = "parse" =>
                 /\ expressionParts # <<>>
                 /\ Len(numbers) < expressionParts[1].to
                 /\ curChar[current] = stream[Len(numbers) + 1]
        BY <1>11, <3>1 DEF IInv, FoldingInv
      <3>3. Folded' /\ operatorStack' = (IF pc'[current'] = "begin" THEN 0 ELSE 1)
        BY <1>2, <2>1, <2>2, <3>2
      <3>4. Len(numbers) \in Nat
        BY <1>1 DEF TypeOK
      <3>5. CASE expressionParts = <<>>
        <4>1. expressionParts'[1] = part /\ part.from = Len(stream) /\ part.from <= part.to
          BY <1>4, <1>5, <1>6, <2>3, <3>5 DEF part
        <4>2. pc'[current'] # "parse"
          BY <1>2, <2>1, <3>2, <3>5
        <4> QED
          BY <1>2, <1>4, <3>2, <3>3, <3>4, <3>5, <4>1, <4>2
      <3>6. CASE expressionParts # <<>>
        <4>1. expressionParts'[1] = expressionParts[1]
          BY <1>5, <1>6, <2>3, <3>6
        <4>2. expressionParts'[1].from + readPos' = Len(numbers') /\ Len(numbers') <= expressionParts'[1].to
          BY <1>2, <3>2, <3>6, <4>1
        <4>3. ASSUME pc'[current'] = "parse"
              PROVE  /\ Len(numbers') < expressionParts'[1].to
                     /\ curChar'[current'] = stream'[Len(numbers') + 1]
          <5>1. /\ Len(numbers) < expressionParts[1].to
                /\ curChar[current] = stream[Len(numbers) + 1]
            BY <1>2, <2>1, <3>2, <4>3
          <5>2. Len(numbers) + 1 \in 1 .. Len(stream)
            BY <1>4, <2>4, <3>4, <3>6, <5>1
          <5> QED
            BY <1>2, <1>4, <4>1, <5>1, <5>2
        <4> QED
          BY <3>3, <4>2, <4>3
      <3> QED
        BY <3>5, <3>6
    <2>6. EndingInv'
      <3> SUFFICES ASSUME pc[current] = "finish" \/ (pc[current] \in Folding /\ calculationFinished)
                   PROVE  EndingInv'
        BY <1>2, <2>1 DEF EndingInv, Folding
      <3>1. /\ pc[current] \in {"loop", "finish"}
            /\ calculationFinished
            /\ Folded /\ numbers # <<>> /\ operatorStack = 0
            /\ expressionParts # <<>>
            /\ expressionParts[1].from <= Len(numbers)
            /\ Len(numbers) < expressionParts[1].to
            /\ stream[Len(numbers) + 1] = End
        BY <1>11 DEF IInv, EndingInv
      <3>2. expressionParts'[1] = expressionParts[1]
        BY <1>5, <1>6, <2>3, <3>1
      <3>3. Len(numbers) \in Nat /\ Len(numbers) + 1 \in 1 .. Len(stream)
        BY <1>1, <1>4, <2>4, <3>1 DEF TypeOK
      <3>4. stream'[Len(numbers) + 1] = End
        BY <1>4, <3>1, <3>3
      <3>5. pc'[current'] \in {"loop", "finish"}
        BY <1>2, <2>1, <3>1
      <3> QED
        BY <1>2, <1>6, <2>2, <3>1, <3>2, <3>4, <3>5 DEF EndingInv
    <2>7. LeavingInv'
      <3>1. pc[current] \in Failing \cup Wiping \cup {"done"} => pc'[current'] = pc[current]
        BY <1>2, <2>1 DEF Failing, Wiping
      <3>2. pc'[current'] \in Failing \cup Wiping \cup {"done"} => pc'[current'] = pc[current]
        BY <1>2, <2>1 DEF Failing, Wiping
      <3>3. InvalidText => InvalidText'
        <4> SUFFICES ASSUME InvalidText
                     PROVE  InvalidText'
          OBVIOUS
        <4>1. PICK q \in 1 .. Len(stream) : IsStop(q) /\ (stream[q] = Bad \/ q = 1 \/ q <= lastFrom)
          BY DEF InvalidText
        <4>2. /\ q \in 1 .. Len(stream') /\ stream'[q] = stream[q]
              /\ \A i \in 1 .. (q - 1) : stream'[i] = stream[i]
              /\ q <= lastFrom => q <= lastFrom'
          BY <1>4, <4>1
        <4>3. IsStop(q)'
          BY <4>1, <4>2 DEF IsStop
        <4> QED
          BY <4>1, <4>2, <4>3 DEF InvalidText
      <3> QED
        BY <1>2, <1>11, <3>1, <3>2, <3>3 DEF IInv, LeavingInv, Failing, Wiping
    <2>8. FlagsInv' /\ WipedInv'
      BY <1>2, <1>11, <2>1 DEF IInv, FlagsInv, WipedInv, Folding, Failing, Wiping
    <2> QED
      BY <1>7, <1>8, <1>9, <2>5, <2>6, <2>7, <2>8 DEF IInv
  <1> QED
    BY <1>10, <1>11

-----------------------------------------------------------------------------
(* The invariant and what follows from it.                                    *)

\* The invariant holds initially.
LEMMA InitInv == Init => IInv
  <1> SUFFICES ASSUME Init
               PROVE  IInv
    OBVIOUS
  <1> USE DEF Init
  <1>1. TypeOK
    <2>1. NoOutcome \in Outcomes /\ End \in Chars
      BY DEF NoOutcome, Outcomes, Kinds
    <2>2. /\ pc \in [Workers -> PCs] /\ curChar \in [Workers -> Chars]
          /\ outcome \in [Workers -> Outcomes]
      BY <2>1 DEF PCs
    <2>3. expressionParts \in Seq(Interval) /\ numbers \in Seq(Chars) /\ stream \in Seq(Chars)
      OBVIOUS
    <2>4. running \in BOOLEAN /\ errorOccured \in BOOLEAN /\ calculationFinished \in BOOLEAN
      OBVIOUS
    <2>5. abortAsked \in BOOLEAN /\ readPos \in Nat /\ operatorStack \in Nat /\ lastFrom \in Nat
      OBVIOUS
    <2> QED
      BY <2>2, <2>3, <2>4, <2>5 DEF TypeOK
  <1>2. Alone /\ Tiled
    BY DEF Alone, Active, Tiled
  <1>3. FoldingInv /\ EndingInv /\ LeavingInv /\ FlagsInv /\ WipedInv
    BY DEF FoldingInv, EndingInv, LeavingInv, FlagsInv, WipedInv
  <1> QED
    BY <1>1, <1>2, <1>3 DEF IInv

\* A step that changes nothing preserves the invariant.
LEMMA StutterInv ==
  ASSUME IInv, UNCHANGED vars
  PROVE  IInv'
  <1> USE DEF vars, flags, parse, history
  <1>1. TypeOK' /\ Tiled'
    BY DEF IInv, TypeOK, Tiled
  <1>2. Alone'
    BY DEF IInv, Alone, Active
  <1>3. FoldingInv' /\ EndingInv'
    BY DEF IInv, FoldingInv, EndingInv, Folded
  <1>4. LeavingInv' /\ FlagsInv' /\ WipedInv'
    BY DEF IInv, LeavingInv, FlagsInv, WipedInv, ValueText, InvalidText, IsStop
  <1> QED
    BY <1>1, <1>2, <1>3, <1>4 DEF IInv

\* Every step preserves the invariant: one case per action.
(* The steps of the thread, in whichever state of the caller they come.       *)
LEMMA WorkerInv ==
  ASSUME IInv, NEW w \in Workers, Step(w) \/ SpuriousWake(w)
  PROVE  IInv'
  <1>1. CASE Begin(w)
    BY <1>1, BeginInv
  <1>2. CASE Loop(w)
    BY <1>2, LoopInv
  <1>3. CASE Enter(w)
    BY <1>3, EnterInv
  <1>4. CASE Peek(w)
    BY <1>4, PeekInv
  <1>5. CASE Fetch(w)
    BY <1>5, FetchInv
  <1>6. CASE Woken(w)
    BY <1>6, WokenInv
  <1>7. CASE Parse(w)
    BY <1>7, ParseInv
  <1>8. CASE Finish(w)
    BY <1>8, FinishInv
  <1>9. CASE WipeOperators(w)
    BY <1>9, WipeOperatorsInv
  <1>10. CASE WipeNumbers(w)
    BY <1>10, WipeNumbersInv
  <1>11. CASE WipeParts(w)
    BY <1>11, WipePartsInv
  <1>12. CASE ErrRunning(w)
    BY <1>12, ErrRunningInv
  <1>13. CASE ErrFlag(w)
    BY <1>13, ErrFlagInv
  <1>14. CASE ErrFinished(w)
    BY <1>14, ErrFinishedInv
  <1>15. CASE ErrClean(w)
    BY <1>15, ErrCleanInv
  <1>16. CASE SpuriousWake(w)
    BY <1>16, SpuriousWakeInv
  <1> QED
    BY <1>1, <1>2, <1>3, <1>4, <1>5, <1>6, <1>7, <1>8, <1>9, <1>10, <1>11,
       <1>12, <1>13, <1>14, <1>15, <1>16 DEF Step

\* IInv is inductive: the caller's operations and every step of calculate().
LEMMA NextInv == IInv /\ [Next]_vars => IInv'
  <1> SUFFICES ASSUME IInv, [Next]_vars
               PROVE  IInv'
    OBVIOUS
  <1>1. ASSUME NEW chars \in Parts, NEW w \in Workers, Quiescent, Start(w, chars)
        PROVE  IInv'
    BY <1>1, StartInv
  <1>2. ASSUME NEW chars \in Parts, Quiescent, StartThrows(chars)
        PROVE  IInv'
    BY <1>2, StartThrowsInv
  <1>3. ASSUME NEW chars \in Parts, AddExprPart(chars)
        PROVE  IInv'
    BY <1>3, AddExprPartInv
  <1>4. CASE Abort
    BY <1>4, AbortInv
  <1>5. CASE Quiescent /\ Reset
    BY <1>5, ResetInv
  <1>6. ASSUME NEW w \in Workers, Step(w) \/ SpuriousWake(w)
        PROVE  IInv'
    BY <1>6, WorkerInv
  <1>7. CASE UNCHANGED vars
    BY <1>7, StutterInv
  <1> QED
    BY <1>1, <1>2, <1>3, <1>4, <1>5, <1>6, <1>7 DEF Next, Caller

(* The inductive invariant of the calculator under the documented use.        *)
THEOREM Invariance == Spec => []IInv
  <1>1. Init => IInv
    BY InitInv
  <1>2. IInv /\ [Next]_vars => IInv'
    BY NextInv
  <1> QED
    BY <1>1, <1>2, PTL DEF Spec

(* Every variable keeps its type, the queue and the read position included.   *)
THEOREM TypeCorrect == Spec => []TypeOK
  <1>1. IInv => TypeOK
    BY DEF IInv
  <1> QED
    BY <1>1, Invariance, PTL

(* A value is computed from the whole text up to its end, whatever the cut    *)
(* into parts and the interleaving of push, abort and parser.                 *)
THEOREM WholeResult == Spec => []ResultIsWhole
  <1>1. IInv => ResultIsWhole
    BY DEF IInv, TypeOK, LeavingInv, ResultIsWhole, Ready
  <1> QED
    BY <1>1, Invariance, PTL

(* "Invalid expression" is answered only to texts that deserve it.            *)
THEOREM JustInvalid == Spec => []InvalidJustified
  <1>1. IInv => InvalidJustified
    BY DEF IInv, TypeOK, LeavingInv, InvalidJustified, Ready
  <1> QED
    BY <1>1, Invariance, PTL

(* "Calculation aborted" is answered to callers who called abort().           *)
THEOREM JustAborted == Spec => []AbortedOnlyWhenAsked
  <1>1. IInv => AbortedOnlyWhenAsked
    BY DEF IInv, TypeOK, LeavingInv, AbortedOnlyWhenAsked, Ready
  <1> QED
    BY <1>1, Invariance, PTL

(* A ready future means settled flags and nothing left over.                  *)
THEOREM Settled == Spec => []SettledWhenReady
  <1>1. IInv => SettledWhenReady
    BY DEF IInv, TypeOK, FlagsInv, WipedInv, SettledWhenReady, Ready
  <1> QED
    BY <1>1, Invariance, PTL

(* The assertion in parse_subexpression() never fails.                        *)
THEOREM AssertionHolds == Spec => []AssertHolds
  <1>1. IInv => AssertHolds
    <2> SUFFICES ASSUME IInv, NEW w \in Workers, pc[w] \in {"enter", "parse"}
                 PROVE  operatorStack > 0
      BY DEF AssertHolds
    <2>1. w = current /\ current # NoWorker
      BY StepperIsCurrent
    <2>2. ~calculationFinished
      BY <2>1 DEF IInv, EndingInv, Folding
    <2>3. operatorStack = 1
      BY <2>1, <2>2 DEF IInv, FoldingInv, Folding
    <2> QED
      BY <2>3
  <1> QED
    BY <1>1, Invariance, PTL

-----------------------------------------------------------------------------
(* AsyncCalculator implements CalculatorContract: what a caller sees of the   *)
(* threads, the queue and the flags is a behaviour of the contract, for every *)
(* value of the constants.  What must come eventually is left to TLC.         *)

\* A value has a text and nothing else has one: calculate() answers only when
\* a number is left, and an exception carries none.
Valued ==
  \A w \in Workers : outcome[w].kind = "value" <=> outcome[w].value # <<>>

RInv == IInv /\ Valued

(* Only a thrown exception and the end of the text set an outcome.            *)
LEMMA ValuedInv ==
  ASSUME TypeOK, Valued, [Next]_vars
  PROVE  Valued'
  <1> USE DEF Valued, TypeOK
  <1>1. CASE outcome' = outcome
    BY <1>1
  <1>2. ASSUME NEW w \in Workers, outcome' = [outcome EXCEPT ![w] = NoOutcome]
        PROVE  Valued'
    BY <1>2 DEF NoOutcome
  <1>3. ASSUME NEW w \in Workers, NEW kind \in {"aborted", "invalid"}, Throw(w, kind)
        PROVE  Valued'
    BY <1>3 DEF Throw
  <1>4. ASSUME NEW w \in Workers, numbers # <<>>,
               outcome' = [outcome EXCEPT ![w] = [kind |-> "value", value |-> numbers]]
        PROVE  Valued'
    BY <1>4
  <1>5. CASE Caller
    BY <1>1, <1>2, <1>5 DEF Caller, Start, StartThrows, AddExprPart, Abort, Reset
  <1>6. ASSUME NEW w \in Workers, Step(w) \/ SpuriousWake(w)
        PROVE  Valued'
    <2>1. Scan(w) => Valued'
      BY <1>1, <1>3 DEF Scan
    <2>2. Peek(w) \/ Fetch(w) \/ Woken(w) => Valued'
      BY <1>1, <1>3, <2>1 DEF Peek, Fetch, Woken
    <2>3. Parse(w) => Valued'
      BY <1>1, <1>3 DEF Parse, ParsePayload, ParseEnd, ParseThrows
    <2>4. Finish(w) => Valued'
      BY <1>3, <1>4 DEF Finish, Complete
    <2>5. Begin(w) \/ Loop(w) \/ Enter(w) \/ SpuriousWake(w) => Valued'
      BY <1>1 DEF Begin, Loop, Enter, SpuriousWake
    <2>6. WipeOperators(w) \/ WipeNumbers(w) \/ WipeParts(w) => Valued'
      BY <1>1 DEF WipeOperators, WipeNumbers, WipeParts
    <2>7. ErrRunning(w) \/ ErrFlag(w) \/ ErrFinished(w) \/ ErrClean(w) => Valued'
      BY <1>1 DEF ErrRunning, ErrFlag, ErrFinished, ErrClean
    <2> QED
      BY <1>6, <2>2, <2>3, <2>4, <2>5, <2>6, <2>7 DEF Step
  <1> QED
    BY <1>1, <1>5, <1>6 DEF Next, vars

\* RInv holds in every state.
LEMMA RInvariance == Spec => []RInv
  <1>1. Init => Valued
    <2>1. NoOutcome.kind = "none" /\ NoOutcome.value = <<>>
      BY DEF NoOutcome
    <2>2. Init => \A w \in Workers : outcome[w] = NoOutcome
      BY DEF Init
    <2> QED
      BY <2>1, <2>2 DEF Valued
  <1>2. IInv /\ Valued /\ [Next]_vars => Valued'
    BY ValuedInv DEF IInv
  <1> QED
    BY <1>1, <1>2, Invariance, PTL DEF Spec, RInv

(* The threads have nothing more to say once nobody calculates.               *)
LEMMA NothingPending ==
  ASSUME IInv, Quiescent
  PROVE  Answer # Contract!Pending
  <1>1. CASE current = NoWorker
    BY <1>1 DEF Answer, NoOutcome, Contract!Pending
  <1>2. CASE current # NoWorker
    <2>1. current \in Workers /\ pc[current] = "done"
      BY <1>2 DEF IInv, TypeOK, Alone, Quiescent, Active
    <2>2. outcome[current].kind \in Kinds
      BY <2>1 DEF IInv, TypeOK, Outcomes
    <2> QED
      BY <1>2, <2>1, <2>2 DEF Answer, Ready, Kinds, Contract!Pending
  <1> QED
    BY <1>1, <1>2

(* A text that is invalid, or whose end was reached, stops the parser.        *)
LEMMA StopsAt ==
  ASSUME NEW q \in 1 .. Len(stream)
  PROVE  IsStop(q) <=> q \in Contract!Stops
  BY DEF IsStop, Contract!Stops

(* While the answer is pending, a step that leaves the flags and the history  *)
(* alone and does not make the future ready is invisible.                     *)
LEMMA Invisible ==
  ASSUME IInv, NEW w \in Workers, pc[w] \notin {"idle", "done"},
         running' = running, UNCHANGED history,
         pc' \in [Workers -> PCs], pc'[w] # "done"
  PROVE  UNCHANGED Contract!vars
  BY StepperIsCurrent DEF history, Contract!vars, Answer, Ready

(* The calculator stops accepting text once the text itself stopped it.       *)
LEMMA Concludes ==
  ASSUME IInv, NEW w \in Workers, pc[w] \notin {"idle", "done"},
         running' = FALSE, UNCHANGED history, running => Contract!Stops # {},
         pc' \in [Workers -> PCs], pc'[w] # "done"
  PROVE  Contract!Conclude \/ UNCHANGED Contract!vars
  <1>1. w = current /\ current # NoWorker
    BY StepperIsCurrent
  <1>2. Answer = Contract!Pending /\ Answer' = Contract!Pending
    BY <1>1 DEF Answer, Ready, history, Contract!Pending
  <1>3. CASE running
    BY <1>2, <1>3 DEF Contract!Conclude, history
  <1>4. CASE ~running
    BY <1>2, <1>4 DEF Contract!vars, history, IInv, TypeOK
  <1> QED
    BY <1>3, <1>4

(* What the future holds when it is made ready is what the text deserves.     *)
LEMMA Answers ==
  ASSUME RInv, NEW w \in Workers, pc[w] \in {"wipe_parts", "err_clean"},
         UNCHANGED <<flags, outcome, history>>, pc' = [pc EXCEPT ![w] = "done"]
  PROVE  Contract!Answer
  <1>1. w = current /\ current # NoWorker /\ IInv /\ TypeOK
    BY StepperIsCurrent DEF RInv, IInv
  <1>2. /\ stream' = stream /\ lastFrom' = lastFrom /\ abortAsked' = abortAsked
        /\ current' = current /\ running' = running
    BY DEF history, flags
  <1>3. ~running /\ Answer = Contract!Pending /\ Answer' = outcome[w]
    BY <1>1, <1>2 DEF IInv, FlagsInv, Wiping, Failing, Answer, Ready, TypeOK, Contract!Pending
  <1>4. /\ outcome[w] = [kind |-> outcome[w].kind, value |-> outcome[w].value]
        /\ outcome[w].kind \in {"value", "aborted", "invalid"}
        /\ outcome[w].kind = "value" <=> outcome[w].value # <<>>
    <2>1. outcome[w] \in Outcomes
      BY <1>1 DEF TypeOK
    <2>2. outcome[w].kind \in Kinds /\ outcome[w].kind # "none"
      BY <1>1, <2>1 DEF Outcomes, IInv, LeavingInv, Wiping, Failing
    <2>3. outcome[w].kind = "value" <=> outcome[w].value # <<>>
      BY DEF RInv, Valued
    <2> QED
      BY <2>1, <2>2, <2>3 DEF Outcomes, Kinds
  <1>5. /\ outcome[w].kind = "value" => ValueText(outcome[w].value)
        /\ outcome[w].kind = "invalid" => InvalidText
        /\ outcome[w].kind = "aborted" => abortAsked
    BY <1>1 DEF IInv, LeavingInv, Wiping, Failing
  <1>6. outcome[w] \in Contract!Allowed
    <2>1. CASE outcome[w].kind = "value"
      <3>1. PICK q \in 1 .. Len(stream) :
              /\ IsStop(q) /\ stream[q] = End /\ q > lastFrom
              /\ outcome[w].value = SubSeq(stream, 1, q - 1)
        BY <1>5, <2>1 DEF ValueText
      <3>2. q # 1
        BY <1>4, <2>1, <3>1 DEF TypeOK
      <3>3. q > 1 /\ q \in Contract!Stops
        BY <1>1, <3>1, <3>2, StopsAt DEF TypeOK
      <3>4. outcome[w] = Contract!Verdict(q)
        BY <1>4, <2>1, <3>1, <3>3 DEF Contract!Verdict
      <3> QED
        BY <3>3, <3>4 DEF Contract!Allowed
    <2>2. CASE outcome[w].kind = "invalid"
      <3>1. PICK q \in 1 .. Len(stream) :
              IsStop(q) /\ (stream[q] = Bad \/ q = 1 \/ q <= lastFrom)
        BY <1>5, <2>2 DEF InvalidText
      <3>2. Contract!Verdict(q) = Contract!Invalid
        <4>1. q \in Nat /\ lastFrom \in Nat /\ (stream[q] = Bad => stream[q] # End)
          BY <1>1, CharAssumption DEF TypeOK
        <4> QED
          BY <3>1, <4>1 DEF Contract!Verdict
      <3>3. q \in Contract!Stops /\ outcome[w] = Contract!Invalid
        BY <1>4, <2>2, <3>1, StopsAt DEF Contract!Invalid
      <3> QED
        BY <3>2, <3>3 DEF Contract!Allowed
    <2>3. CASE outcome[w].kind = "aborted"
      BY <1>4, <1>5, <2>3 DEF Contract!Allowed, Contract!Aborted
    <2> QED
      BY <1>4, <2>1, <2>2, <2>3
  <1> QED
    BY <1>2, <1>3, <1>6 DEF Contract!Answer

-----------------------------------------------------------------------------
(* What the caller does is what the contract lets it do.                      *)

\* start() of the calculator is the start of the contract.
LEMMA StartRefined ==
  ASSUME IInv, Quiescent, NEW w \in Workers, NEW chars \in Parts, Start(w, chars)
  PROVE  Contract!Start(chars)
  <1>1. Answer' = Contract!Pending
    <2>1. current' = w /\ w # NoWorker /\ pc'[w] = "begin"
      BY WorkerAssumption DEF Start, IInv, TypeOK
    <2> QED
      BY <2>1 DEF Answer, Ready, Contract!Pending
  <1> QED
    BY <1>1, NothingPending DEF Start, RestartWith, Contract!Start

\* A start() that fails is invisible.
LEMMA StartThrowsRefined ==
  ASSUME IInv, Quiescent, NEW chars \in Parts, StartThrows(chars)
  PROVE  Contract!Start(chars)
  <1>1. Answer' = Contract!None
    BY DEF StartThrows, Answer, NoOutcome, Contract!None
  <1> QED
    BY <1>1, NothingPending DEF StartThrows, RestartWith, Contract!Start

\* add_expr_part() adds to the text of the contract.
LEMMA AddExprPartRefined ==
  ASSUME IInv, NEW chars \in Parts, AddExprPart(chars)
  PROVE  Contract!AddExprPart(chars)
  <1>1. Answer' = Answer
    BY Notified DEF AddExprPart, Answer, Ready, IInv, TypeOK
  <1> QED
    BY <1>1 DEF AddExprPart, flags, Contract!AddExprPart

\* abort() is the abort of the contract.
LEMMA AbortRefined ==
  ASSUME IInv, Abort
  PROVE  Contract!Abort
  <1>1. Answer' = Answer
    BY Notified DEF Abort, Answer, Ready, IInv, TypeOK
  <1> QED
    BY <1>1 DEF Abort, Contract!Abort

\* reset() is the reset of the contract.
LEMMA ResetRefined ==
  ASSUME IInv, Quiescent, Reset
  PROVE  Contract!Reset
  <1>1. Answer' = Contract!None
    BY DEF Reset, Answer, NoOutcome, Contract!None
  <1> QED
    BY <1>1, NothingPending DEF Reset, Contract!Reset

-----------------------------------------------------------------------------
(* What the thread does is a step of the contract, or nobody sees it.         *)

\* A step of calculate() answers, concludes or is invisible.
LEMMA StepRefined ==
  ASSUME RInv, NEW w \in Workers, Step(w) \/ SpuriousWake(w)
  PROVE  Contract!Conclude \/ Contract!Answer \/ UNCHANGED Contract!vars
  <1>1. IInv /\ TypeOK /\ pc \in [Workers -> PCs]
    BY DEF RInv, IInv, TypeOK
  <1>2. ASSUME pc[w] \notin {"idle", "done"}, UNCHANGED <<flags, history>>,
               NEW there \in PCs \ {"done"}, pc' = [pc EXCEPT ![w] = there]
        PROVE  UNCHANGED Contract!vars
    BY <1>1, <1>2, Invisible DEF flags
  <1>3. CASE Begin(w) \/ Loop(w) \/ Enter(w) \/ SpuriousWake(w)
    BY <1>2, <1>3 DEF Begin, Loop, Enter, SpuriousWake, At, PCs
  <1>4. CASE Peek(w)
    BY <1>2, <1>4 DEF Peek, Throw, PCs
  <1>5. ASSUME pc[w] \in {"fetch", "woken"}, Scan(w), UNCHANGED <<flags, history>>
        PROVE  UNCHANGED Contract!vars
    BY <1>2, <1>5 DEF Scan, Throw, PCs
  <1>6. CASE Fetch(w) \/ Woken(w)
    BY <1>2, <1>5, <1>6 DEF Fetch, Woken, Throw, PCs
  <1>7. CASE Parse(w)
    <2>1. /\ pc[w] = "parse" /\ running' = running /\ UNCHANGED history
          /\ ParsePayload(w) \/ ParseEnd(w) \/ ParseThrows(w)
      BY <1>7 DEF Parse
    <2>2. \E there \in {"peek", "loop", "err_running"} : pc' = [pc EXCEPT ![w] = there]
      BY <2>1 DEF ParsePayload, ParseEnd, ParseThrows, Throw
    <2>3. pc' \in [Workers -> PCs] /\ pc'[w] # "done"
      BY <1>1, <2>2 DEF PCs
    <2> QED
      BY <1>1, <2>1, <2>3, Invisible
  <1>8. CASE Finish(w)
    <2>1. /\ pc[w] = "finish" /\ UNCHANGED history
          /\ running' = running \/ running' = FALSE
          /\ \E there \in {"wipe_operators", "err_running"} : pc' = [pc EXCEPT ![w] = there]
      BY <1>8 DEF Finish, Throw
    <2>2. pc' \in [Workers -> PCs] /\ pc'[w] # "done"
      BY <1>1, <2>1 DEF PCs
    <2>3. Contract!Stops # {}
      <3> DEFINE q == Len(numbers) + 1
      <3>1. w = current /\ current # NoWorker
        BY <1>1, <2>1, StepperIsCurrent
      <3>2. Folded /\ stream[q] = End /\ Len(numbers) < expressionParts[1].to
                   /\ expressionParts # <<>>
        BY <1>1, <2>1, <3>1 DEF IInv, EndingInv
      <3>3. Len(numbers) \in Nat /\ Len(stream) \in Nat
        BY <1>1 DEF TypeOK
      <3>4. expressionParts[1].to \in Nat /\ expressionParts[1].to <= Len(stream)
        BY <1>1, <3>2, FirstWithin DEF IInv
      <3>5. q \in 1 .. Len(stream) /\ \A i \in 1 .. (q - 1) : i \in 1 .. Len(numbers)
        BY <3>2, <3>3, <3>4
      <3>6. IsStop(q)
        BY <3>2, <3>5 DEF IsStop, Folded
      <3> QED
        BY <3>5, <3>6, StopsAt
    <2> QED
      BY <1>1, <2>1, <2>2, <2>3, Concludes, Invisible
  <1>9. CASE WipeOperators(w) \/ WipeNumbers(w)
    BY <1>2, <1>9 DEF WipeOperators, WipeNumbers, At, PCs
  <1>10. CASE WipeParts(w) \/ ErrClean(w)
    BY <1>10, Answers DEF WipeParts, ErrClean, At
  <1>11. CASE ErrRunning(w)
    <2>1. /\ pc[w] = "err_running" /\ running' = FALSE /\ UNCHANGED history
          /\ pc' = [pc EXCEPT ![w] = "err_flag"]
      BY <1>11 DEF ErrRunning, At
    <2>2. pc' \in [Workers -> PCs] /\ pc'[w] # "done"
      BY <1>1, <2>1 DEF PCs
    <2>3. w = current /\ current # NoWorker
      BY <1>1, <2>1, StepperIsCurrent
    <2>4. /\ outcome[w].kind = "aborted" => abortAsked
          /\ outcome[w].kind = "invalid" => InvalidText
          /\ outcome[w].kind \in {"aborted", "invalid"}
      BY <1>1, <2>1, <2>3 DEF IInv, LeavingInv, Failing
    <2>5. running => Contract!Stops # {}
      BY <1>1, <2>4, StopsAt DEF IInv, FlagsInv, InvalidText
    <2> QED
      BY <1>1, <2>1, <2>2, <2>5, Concludes
  <1>12. CASE ErrFlag(w) \/ ErrFinished(w)
    <2>1. /\ pc[w] \in {"err_flag", "err_finished"} /\ running' = running /\ UNCHANGED history
          /\ \E there \in {"err_finished", "err_clean"} : pc' = [pc EXCEPT ![w] = there]
      BY <1>12 DEF ErrFlag, ErrFinished, At
    <2>2. pc' \in [Workers -> PCs] /\ pc'[w] # "done"
      BY <1>1, <2>1 DEF PCs
    <2> QED
      BY <1>1, <2>1, <2>2, Invisible
  <1> QED
    BY <1>3, <1>4, <1>6, <1>7, <1>8, <1>9, <1>10, <1>11, <1>12 DEF Step

(* The calculator, its threads and its queue, implements its contract: there   *)
(* is one answer to a calculation, it is the verdict on the text or the        *)
(* abort() that was asked for, and no text is accepted after it.               *)
THEOREM Refinement == Spec => Contract!Spec
  <1>1. Init => Contract!Init
    BY DEF Init, Contract!Init, Answer, NoOutcome, Contract!None
  <1>2. RInv /\ [Next]_vars => [Contract!Next]_Contract!vars
    <2> SUFFICES ASSUME RInv, [Next]_vars
                 PROVE  [Contract!Next]_Contract!vars
      OBVIOUS
    <2>1. IInv
      BY DEF RInv
    <2>2. CASE UNCHANGED vars
      BY <2>2 DEF vars, flags, history, Contract!vars, Answer, Ready
    <2>3. CASE Caller
      <3>1. ASSUME NEW chars \in Parts, NEW w \in Workers, Quiescent, Start(w, chars)
            PROVE  Contract!Next
        BY <2>1, <3>1, StartRefined DEF Contract!Next
      <3>2. ASSUME NEW chars \in Parts, Quiescent, StartThrows(chars)
            PROVE  Contract!Next
        BY <2>1, <3>2, StartThrowsRefined DEF Contract!Next
      <3>3. ASSUME NEW chars \in Parts, AddExprPart(chars)
            PROVE  Contract!Next
        BY <2>1, <3>3, AddExprPartRefined DEF Contract!Next
      <3>4. CASE Abort
        BY <2>1, <3>4, AbortRefined DEF Contract!Next
      <3>5. CASE Quiescent /\ Reset
        BY <2>1, <3>5, ResetRefined DEF Contract!Next
      <3> QED
        BY <2>3, <3>1, <3>2, <3>3, <3>4, <3>5 DEF Caller
    <2>4. ASSUME NEW w \in Workers, Step(w) \/ SpuriousWake(w)
          PROVE  [Contract!Next]_Contract!vars
      BY <2>4, StepRefined DEF Contract!Next
    <2> QED
      BY <2>2, <2>3, <2>4 DEF Next
  <1> QED
    BY <1>1, <1>2, RInvariance, PTL DEF Spec, Contract!Spec
=============================================================================
