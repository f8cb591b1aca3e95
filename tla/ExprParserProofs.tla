-------------------------- MODULE ExprParserProofs --------------------------
(***************************************************************************)
(* Proofs about the stacks of the expression parser, for texts of any       *)
(* length over any numbers.                                                 *)
(***************************************************************************)
EXTENDS ExprReference, SequenceTheorems, FiniteSetTheorems, TLAPS

\* What may stand on the operator stack.
Entries == Markers \cup Binary

\* Pushing: the stack grows by one and its other entries stay.
LEMMA Pushed ==
  ASSUME NEW S, NEW s \in Seq(S), NEW x \in S
  PROVE  /\ Append(s, x) \in Seq(S)
         /\ Append(s, x) # <<>>
         /\ Len(Append(s, x)) = Len(s) + 1
         /\ Append(s, x)[Len(s) + 1] = x
         /\ \A i \in 1 .. Len(s) : Append(s, x)[i] = s[i]
  OBVIOUS

\* top() and pop(): what they give for a stack that is not empty.
LEMMA TopAndPop ==
  ASSUME NEW S, NEW s \in Seq(S), s # <<>>
  PROVE  /\ Len(s) \in Nat \ {0}
         /\ Last(s) = s[Len(s)] /\ Last(s) \in S
         /\ Front(s) \in Seq(S)
         /\ Len(Front(s)) = Len(s) - 1
         /\ \A i \in 1 .. Len(s) - 1 : Front(s)[i] = s[i]
  <1>1. Len(s) \in Nat \ {0}
    OBVIOUS
  <1>2. Last(s) = s[Len(s)] /\ Last(s) \in S
    BY <1>1 DEF Last
  <1>3. Front(s) = SubSeq(s, 1, Len(s) - 1)
    BY DEF Front
  <1> DEFINE n == Len(s) - 1
  <1>4. n \in Nat /\ \A i \in 1 .. n : s[i] \in S
    BY <1>1
  <1> HIDE DEF n
  <1>5. /\ SubSeq(s, 1, n) \in Seq(S)
        /\ Len(SubSeq(s, 1, n)) = n
        /\ \A i \in 1 .. n : SubSeq(s, 1, n)[i] = s[i]
    <2>1. /\ SubSeq(s, 1, n) \in Seq(S)
          /\ Len(SubSeq(s, 1, n)) = IF 1 <= n THEN n - 1 + 1 ELSE 0
          /\ \A i \in 1 .. n - 1 + 1 : SubSeq(s, 1, n)[i] = s[1 + i - 1]
      BY <1>4, SubSeqProperties, Z3
    <2>2. n - 1 + 1 = n /\ \A i \in 1 .. n : 1 + i - 1 = i
      BY <1>4
    <2>3. QED
      BY <1>4, <2>1, <2>2
  <1>6. /\ Front(s) \in Seq(S) /\ Len(Front(s)) = Len(s) - 1
        /\ \A i \in 1 .. Len(s) - 1 : Front(s)[i] = s[i]
    BY <1>3, <1>5 DEF n
  <1>7. QED
    BY <1>1, <1>2, <1>6

\* maybe_swap_top_subexpr_start() changes at most the entry on top, and only
\* from one marker into the other.
LEMMA SwapsTop ==
  ASSUME NEW s \in Seq(Entries), s # <<>>
  PROVE  /\ Swapped(s) \in Seq(Entries)
         /\ Len(Swapped(s)) = Len(s)
         /\ \A i \in 1 .. Len(s) - 1 : Swapped(s)[i] = s[i]
         /\ \/ Swapped(s)[Len(s)] = s[Len(s)]
            \/ s[Len(s)] \in Markers /\ Swapped(s)[Len(s)] \in Markers
  <1> DEFINE e == "first_num"
  <1>1. e \in Entries /\ e \in Markers /\ "start" \in Markers
    BY DEF Entries, Markers
  <1>2. /\ Len(s) \in Nat \ {0} /\ Last(s) = s[Len(s)]
        /\ Front(s) \in Seq(Entries) /\ Len(Front(s)) = Len(s) - 1
        /\ \A i \in 1 .. Len(s) - 1 : Front(s)[i] = s[i]
    BY TopAndPop
  <1>3. CASE Last(s) = "start"
    <2>1. Swapped(s) = Append(Front(s), e)
      BY <1>3 DEF Swapped
    <2>2. QED
      BY <1>1, <1>2, <1>3, <2>1
  <1>4. CASE Last(s) # "start"
    <2>1. Swapped(s) = s
      BY <1>4 DEF Swapped
    <2>2. QED
      BY <2>1
  <1>5. QED
    BY <1>3, <1>4

\* Only operators are applied: a marker never outranks what is read.
LEMMA OnlySignsUnwind ==
  ASSUME TypeOK, Unwinds
  PROVE  /\ operators # <<>>
         /\ Last(operators) \in Binary
  <1>1. operators # <<>> /\ operators \in Seq(Entries)
    BY DEF Unwinds, TypeOK, Entries
  <1>2. Last(operators) \in Entries
    BY <1>1, TopAndPop
  <1>3. Precedence(token) \in Nat
    BY DEF TypeOK, Precedence, Binary, Markers
  <1>4. ASSUME Last(operators) \in Markers PROVE FALSE
    <2>0. \A m \in Markers : Precedence(m) = -1
      BY DEF Precedence, Markers
    <2>1. Precedence(Last(operators)) = -1
      BY <1>4, <2>0
    <2>2. QED
      BY <1>3, <2>1 DEF Unwinds
  <1>5. QED
    BY <1>1, <1>2, <1>4 DEF Entries

\* The result of an operator is a number, its division by zero excepted.
LEMMA CalculatedIsNumber ==
  ASSUME NEW a \in Int, NEW b \in Int, NEW oper \in Binary, oper = "/" => b # 0
  PROVE  Calculated(a, oper, b) \in Int
  <1>1. CASE oper = "/"
    <2>1. CASE b > 0
      BY <1>1, <2>1 DEF Calculated, Quotient
    <2>2. CASE ~(b > 0)
      <3>1. -b \in Int /\ -b > 0 /\ -a \in Int
        BY <1>1, <2>2
      <3>2. (-a) \div (-b) \in Int
        BY <3>1
      <3>3. QED
        BY <1>1, <2>2, <3>2 DEF Calculated, Quotient
    <2>3. QED
      BY <2>1, <2>2
  <1>2. CASE oper # "/"
    BY <1>2 DEF Calculated, Binary
  <1>3. QED
    BY <1>1, <1>2

-----------------------------------------------------------------------------

\* What a step of the parser needs to know of the state it starts from.
IInv == TypeOK /\ MarkerAtBottom /\ StackOrdered

\* The parts of the invariant that are about the operator stack, for any
\* stack: it is well-typed, a marker is at its bottom, precedence rises.
Sound(s) ==
  /\ s \in Seq(Entries)
  /\ s # <<>>
  /\ s[1] \in Markers
  /\ \A i \in 2 .. Len(s) :
       s[i] \in Binary /\ s[i - 1] \in Binary => Precedence(s[i - 1]) < Precedence(s[i])

\* In the middle of a text the stack is sound.
LEMMA StackIsSound ==
  ASSUME IInv, phase \in {"read", "minus", "unwind"}
  PROVE  Sound(operators)
  BY DEF IInv, TypeOK, MarkerAtBottom, StackOrdered, Sound, Entries

\* A marker may be pushed at any time, an operator on a marker or on a weaker
\* operator.
LEMMA PushKeepsSound ==
  ASSUME NEW s, Sound(s), NEW x \in Entries,
         x \in Binary /\ Last(s) \in Binary => Precedence(Last(s)) < Precedence(x)
  PROVE  Sound(Append(s, x))
  <1>1. /\ s \in Seq(Entries) /\ s # <<>> /\ Len(s) \in Nat \ {0}
        /\ Last(s) = s[Len(s)]
    BY TopAndPop DEF Sound
  <1> DEFINE t == Append(s, x)
  <1>2. /\ t \in Seq(Entries) /\ t # <<>>
        /\ Len(t) = Len(s) + 1 /\ t[Len(s) + 1] = x
        /\ \A i \in 1 .. Len(s) : t[i] = s[i]
    BY <1>1, Pushed
  <1>3. t[1] \in Markers
    BY <1>1, <1>2 DEF Sound
  <1>4. ASSUME NEW i \in 2 .. Len(t), t[i] \in Binary, t[i - 1] \in Binary
        PROVE  Precedence(t[i - 1]) < Precedence(t[i])
    <2>1. CASE i = Len(s) + 1
      <3>1. t[i] = x /\ t[i - 1] = Last(s)
        BY <1>1, <1>2, <2>1
      <3>2. QED
        BY <1>4, <3>1
    <2>2. CASE i # Len(s) + 1
      <3>1. i \in 2 .. Len(s) /\ t[i] = s[i] /\ t[i - 1] = s[i - 1]
        BY <1>1, <1>2, <2>2
      <3>2. QED
        BY <1>4, <3>1 DEF Sound
    <2>3. QED
      BY <2>1, <2>2
  <1> HIDE DEF t
  <1>5. Sound(t)
    BY <1>2, <1>3, <1>4 DEF Sound
  <1>6. QED
    BY <1>5 DEF t

\* maybe_swap_top_subexpr_start() keeps a sound stack sound.
LEMMA SwapKeepsSound ==
  ASSUME NEW s, Sound(s)
  PROVE  Sound(Swapped(s))
  <1>1. s \in Seq(Entries) /\ s # <<>> /\ Len(s) \in Nat \ {0}
    BY DEF Sound
  <1> DEFINE t == Swapped(s)
  <1>2. /\ t \in Seq(Entries) /\ Len(t) = Len(s)
        /\ \A i \in 1 .. Len(s) - 1 : t[i] = s[i]
        /\ \/ t[Len(s)] = s[Len(s)]
           \/ s[Len(s)] \in Markers /\ t[Len(s)] \in Markers
    BY <1>1, SwapsTop
  <1> HIDE DEF t
  <1>3. t # <<>> /\ t[1] \in Markers
    <2>1. t # <<>>
      BY <1>1, <1>2
    <2>2. CASE Len(s) = 1
      BY <1>2, <2>1, <2>2 DEF Sound
    <2>3. CASE Len(s) # 1
      BY <1>1, <1>2, <2>1, <2>3 DEF Sound
    <2>4. QED
      BY <2>2, <2>3
  <1>4. ASSUME NEW i \in 2 .. Len(t), t[i] \in Binary, t[i - 1] \in Binary
        PROVE  Precedence(t[i - 1]) < Precedence(t[i])
    <2>1. t[i] \notin Markers
      BY <1>4 DEF Binary, Markers
    <2>2. t[i] = s[i] /\ t[i - 1] = s[i - 1] /\ i \in 2 .. Len(s)
      BY <1>1, <1>2, <2>1
    <2>3. QED
      BY <1>4, <2>2 DEF Sound
  <1>5. QED
    BY <1>2, <1>3, <1>4 DEF Sound, t

\* Popping keeps a sound stack sound while an entry is left, and in any case
\* ordered.
LEMMA PopKeepsSound ==
  ASSUME NEW s, Sound(s), Len(s) # 1
  PROVE  Sound(Front(s))
  <1>1. /\ s \in Seq(Entries) /\ s # <<>> /\ Len(s) \in Nat \ {0, 1}
    BY DEF Sound
  <1> DEFINE t == Front(s)
  <1>2. /\ t \in Seq(Entries) /\ Len(t) = Len(s) - 1
        /\ \A i \in 1 .. Len(s) - 1 : t[i] = s[i]
    BY <1>1, TopAndPop
  <1> HIDE DEF t
  <1>3. t # <<>> /\ t[1] \in Markers
    BY <1>1, <1>2 DEF Sound
  <1>4. ASSUME NEW i \in 2 .. Len(t), t[i] \in Binary, t[i - 1] \in Binary
        PROVE  Precedence(t[i - 1]) < Precedence(t[i])
    <2>1. t[i] = s[i] /\ t[i - 1] = s[i - 1] /\ i \in 2 .. Len(s)
      BY <1>1, <1>2
    <2>2. QED
      BY <1>4, <2>1 DEF Sound
  <1>5. QED
    BY <1>2, <1>3, <1>4 DEF Sound, t

\* A sound stack gives the parts of the invariant that are about the stack.
LEMMA SoundIsEnough ==
  ASSUME NEW s, Sound(s), operators' = s
  PROVE  MarkerAtBottom' /\ StackOrdered' /\ operators' \in Seq(Entries)
  BY DEF Sound, MarkerAtBottom, StackOrdered

-----------------------------------------------------------------------------

\* calculate() starts with a sound stack.
LEMMA InitIInv == Init => IInv
  <1> SUFFICES ASSUME Init PROVE IInv
    OBVIOUS
  <1>1. TypeOK
    BY DEF Init, TypeOK, Markers, Binary
  <1>2. MarkerAtBottom
    BY DEF Init, MarkerAtBottom, Markers
  <1>3. StackOrdered
    BY DEF Init, StackOrdered
  <1>4. QED
    BY <1>1, <1>2, <1>3 DEF IInv

\* One token read keeps the text a sequence of tokens.
LEMMA TextTyped ==
  ASSUME TypeOK, NEW kind \in Kinds, NEW n \in Numbers \cup {0}, Reads(kind, n)
  PROVE  text' \in Seq(Tokens)
  <1>1. [kind |-> kind, value |-> n] \in Tokens
    BY DEF Tokens
  <1>2. QED
    BY <1>1 DEF Reads, TypeOK

\* An error changes nothing but where the parser is.
LEMMA InvalidIsSafe ==
  ASSUME IInv, Invalid, text' \in Seq(Tokens)
  PROVE  IInv'
  <1>1. TypeOK'
    BY DEF IInv, Invalid, TypeOK
  <1>2. MarkerAtBottom'
    BY DEF Invalid, MarkerAtBottom
  <1>3. StackOrdered'
    BY DEF IInv, Invalid, StackOrdered
  <1>4. QED
    BY <1>1, <1>2, <1>3 DEF IInv

\* Reading a token keeps the invariant.
LEMMA ReadIInv ==
  ASSUME IInv, Read
  PROVE  IInv'
  <1> USE ParserAssumption
  <1>0. TypeOK
    BY DEF IInv
  <1>k. /\ Binary \subseteq Kinds /\ Signs \subseteq Kinds
        /\ {"(", ")", "end", "bad", "number"} \subseteq Kinds
        /\ 0 \in Numbers \cup {0}
    BY DEF Kinds
  <1>1. CASE ReadOpening
    <2>1. text' \in Seq(Tokens)
      BY <1>0, <1>1, <1>k, TextTyped DEF ReadOpening
    <2>2. Sound(operators)
      BY <1>1, StackIsSound DEF ReadOpening
    <2>3. "start" \in Entries /\ "start" \notin Binary
      BY DEF Entries, Markers, Binary
    <2>4. Sound(Append(operators, "start"))
      BY <2>2, <2>3, PushKeepsSound
    <2>5. MarkerAtBottom' /\ StackOrdered' /\ operators' \in Seq(Entries)
      BY <1>1, <2>4, SoundIsEnough DEF ReadOpening
    <2>6. TypeOK'
      BY <1>0, <1>1, <2>1, <2>5 DEF ReadOpening, TypeOK, Entries
    <2>7. QED
      BY <2>5, <2>6 DEF IInv
  <1>2. CASE ReadClosing
    <2>1. PICK t \in {")", "end"} : Reads(t, 0) /\ token' = t
      BY <1>2 DEF ReadClosing
    <2>2. text' \in Seq(Tokens)
      BY <1>0, <1>k, <2>1, TextTyped
    <2>3. Sound(operators)
      BY <1>2, StackIsSound DEF ReadClosing
    <2>4. MarkerAtBottom' /\ StackOrdered' /\ operators' \in Seq(Entries)
      BY <1>2, <2>3, SoundIsEnough DEF ReadClosing
    <2>5. TypeOK'
      BY <1>0, <1>2, <2>1, <2>2, <2>4 DEF ReadClosing, TypeOK, Entries
    <2>6. QED
      BY <2>4, <2>5 DEF IInv
  <1>3. CASE ReadNumber
    <2>1. PICK n \in Numbers :
            /\ Reads("number", n)
            /\ numbers' = Append(numbers, IF phase = "minus" THEN -n ELSE n)
            /\ operators' = Swapped(operators)
            /\ phase' = "read"
            /\ UNCHANGED <<token, answer>>
      BY <1>3 DEF ReadNumber
    <2>2. text' \in Seq(Tokens)
      BY <1>0, <1>k, <2>1, TextTyped
    <2>3. phase \in {"read", "minus"}
      BY <2>1 DEF Reads
    <2>4. Sound(Swapped(operators))
      BY <2>3, StackIsSound, SwapKeepsSound
    <2>5. MarkerAtBottom' /\ StackOrdered' /\ operators' \in Seq(Entries)
      BY <2>1, <2>4, SoundIsEnough
    <2>6. numbers' \in Seq(Int)
      <3>1. n \in Int /\ -n \in Int
        OBVIOUS
      <3>2. QED
        BY <1>0, <2>1, <3>1 DEF TypeOK
    <2>7. TypeOK'
      BY <1>0, <2>1, <2>2, <2>5, <2>6 DEF TypeOK, Entries
    <2>8. QED
      BY <2>5, <2>7 DEF IInv
  <1>4. CASE ReadMinus
    <2>1. text' \in Seq(Tokens)
      BY <1>0, <1>4, <1>k, TextTyped DEF ReadMinus
    <2>2. Sound(operators)
      BY <1>4, StackIsSound DEF ReadMinus
    <2>3. MarkerAtBottom' /\ StackOrdered' /\ operators' \in Seq(Entries)
      BY <1>4, <2>2, SoundIsEnough DEF ReadMinus
    <2>4. TypeOK'
      BY <1>0, <1>4, <2>1, <2>3 DEF ReadMinus, TypeOK, Entries
    <2>5. QED
      BY <2>3, <2>4 DEF IInv
  <1>5. CASE ReadSign
    <2>1. PICK t \in Signs :
            /\ Reads(t, 0)
            /\ \/ Last(operators) = "start" /\ t # "-" /\ Invalid
               \/ /\ Last(operators) = "first_num"
                  /\ operators' = Append(operators, t)
                  /\ UNCHANGED <<numbers, phase, token, answer>>
               \/ /\ Last(operators) \notin Markers
                  /\ phase' = "unwind" /\ token' = t
                  /\ UNCHANGED <<operators, numbers, answer>>
      BY <1>5 DEF ReadSign
    <2>2. text' \in Seq(Tokens)
      BY <1>0, <1>k, <2>1, TextTyped
    <2>3. Sound(operators)
      BY <1>5, StackIsSound DEF ReadSign
    <2>4. CASE Invalid
      BY <2>2, <2>4, InvalidIsSafe
    <2>5. CASE /\ Last(operators) = "first_num"
               /\ operators' = Append(operators, t)
               /\ UNCHANGED <<numbers, phase, token, answer>>
      <3>1. t \in Entries /\ Last(operators) \notin Binary
        BY <2>5 DEF Entries, Binary
      <3>2. Sound(Append(operators, t))
        BY <2>3, <3>1, PushKeepsSound
      <3>3. MarkerAtBottom' /\ StackOrdered' /\ operators' \in Seq(Entries)
        BY <2>5, <3>2, SoundIsEnough
      <3>4. TypeOK'
        BY <1>0, <2>2, <2>5, <3>3 DEF TypeOK, Entries
      <3>5. QED
        BY <3>3, <3>4 DEF IInv
    <2>6. CASE /\ phase' = "unwind" /\ token' = t
               /\ UNCHANGED <<operators, numbers, answer>>
      <3>1. MarkerAtBottom' /\ StackOrdered' /\ operators' \in Seq(Entries)
        BY <2>3, <2>6, SoundIsEnough
      <3>2. TypeOK'
        BY <1>0, <2>2, <2>6, <3>1 DEF TypeOK, Entries
      <3>3. QED
        BY <3>1, <3>2 DEF IInv
    <2>7. QED
      BY <2>1, <2>4, <2>5, <2>6
  <1>6. CASE ReadError
    <2>1. PICK t \in {"(", ")", "end", "bad"} \cup Signs : Reads(t, 0)
      BY <1>6 DEF ReadError
    <2>2. text' \in Seq(Tokens)
      BY <1>0, <1>k, <2>1, TextTyped
    <2>3. QED
      BY <1>6, <2>2, InvalidIsSafe DEF ReadError
  <1>7. QED
    BY <1>1, <1>2, <1>3, <1>4, <1>5, <1>6 DEF Read

\* calc_math() on the top of the stacks keeps the invariant.
LEMMA UnwindIInv ==
  ASSUME IInv, Unwind
  PROVE  IInv'
  <1>0. TypeOK /\ phase = "unwind" /\ Unwinds /\ text' \in Seq(Tokens)
    BY DEF IInv, Unwind, TypeOK
  <1>1. Last(operators) \in Binary /\ operators # <<>>
    BY <1>0, OnlySignsUnwind
  <1>2. CASE Invalid
    BY <1>0, <1>2, InvalidIsSafe
  <1>3. CASE ~Invalid
    <2> DEFINE n == Len(numbers)
    <2>1. /\ ~(n < 2) /\ ~(Last(operators) = "/" /\ numbers[n] = 0) /\ Len(operators) # 1
          /\ numbers' = Append(SubSeq(numbers, 1, n - 2),
                               Calculated(numbers[n - 1], Last(operators), numbers[n]))
          /\ operators' = Swapped(Front(operators))
          /\ UNCHANGED <<phase, token, answer>>
      BY <1>3 DEF Unwind, Apply
    <2>2. Sound(operators)
      BY <1>0, StackIsSound
    <2>3. Sound(Swapped(Front(operators)))
      BY <2>1, <2>2, PopKeepsSound, SwapKeepsSound
    <2>4. MarkerAtBottom' /\ StackOrdered' /\ operators' \in Seq(Entries)
      BY <2>1, <2>3, SoundIsEnough
    <2>5. numbers' \in Seq(Int)
      <3>1. numbers \in Seq(Int) /\ n \in Nat /\ n >= 2
        BY <1>0, <2>1 DEF TypeOK
      <3>2. numbers[n] \in Int /\ numbers[n - 1] \in Int
        BY <3>1
      <3>3. Calculated(numbers[n - 1], Last(operators), numbers[n]) \in Int
        BY <1>1, <2>1, <3>2, CalculatedIsNumber
      <3>4. SubSeq(numbers, 1, n - 2) \in Seq(Int)
        BY <3>1
      <3>5. QED
        BY <2>1, <3>3, <3>4
    <2>6. TypeOK'
      BY <1>0, <2>1, <2>4, <2>5 DEF TypeOK, Entries
    <2>7. QED
      BY <2>4, <2>6 DEF IInv
  <1>4. QED
    BY <1>2, <1>3

\* An operator is pushed only on what it outranks.
LEMMA PushSignIInv ==
  ASSUME IInv, PushSign
  PROVE  IInv'
  <1>0. TypeOK /\ phase = "unwind" /\ token \in Binary
    BY DEF IInv, PushSign
  <1>1. Sound(operators)
    BY <1>0, StackIsSound
  <1>2. token \in Entries
    BY <1>0 DEF Entries
  <1>3. Last(operators) \in Binary => Precedence(Last(operators)) < Precedence(token)
    <2>1. operators # <<>> /\ ~(Precedence(token) <= Precedence(Last(operators)))
      BY <1>1 DEF PushSign, Unwinds, Sound
    <2>2. \A b \in Binary : Precedence(b) \in Nat
      BY DEF Precedence, Binary, Markers
    <2>3. QED
      BY <1>0, <2>1, <2>2
  <1>4. Sound(Append(operators, token))
    BY <1>1, <1>2, <1>3, PushKeepsSound
  <1>5. MarkerAtBottom' /\ StackOrdered' /\ operators' \in Seq(Entries)
    BY <1>4, SoundIsEnough DEF PushSign
  <1>6. TypeOK'
    BY <1>0, <1>5 DEF PushSign, TypeOK, Entries
  <1>7. QED
    BY <1>5, <1>6 DEF IInv

\* A closing bracket never takes the outermost marker.
LEMMA CloseIInv ==
  ASSUME IInv, Close
  PROVE  IInv'
  <1>0. TypeOK /\ phase = "unwind" /\ text' \in Seq(Tokens)
    BY DEF IInv, Close, TypeOK
  <1>1. CASE Invalid
    BY <1>0, <1>1, InvalidIsSafe
  <1>2. CASE ~Invalid
    <2>1. /\ Len(operators) # 1
          /\ operators' = Swapped(Front(operators))
          /\ phase' = "read"
          /\ UNCHANGED <<numbers, token, answer>>
      BY <1>2 DEF Close
    <2>2. Sound(operators)
      BY <1>0, StackIsSound
    <2>3. Sound(Swapped(Front(operators)))
      BY <2>1, <2>2, PopKeepsSound, SwapKeepsSound
    <2>4. MarkerAtBottom' /\ StackOrdered' /\ operators' \in Seq(Entries)
      BY <2>1, <2>3, SoundIsEnough
    <2>5. TypeOK'
      BY <1>0, <2>1, <2>4 DEF TypeOK, Entries
    <2>6. QED
      BY <2>4, <2>5 DEF IInv
  <1>3. QED
    BY <1>1, <1>2

\* The end of the text pops the last marker; what is left is still ordered.
LEMMA EndIInv ==
  ASSUME IInv, End
  PROVE  IInv'
  <1>0. TypeOK /\ phase = "unwind" /\ text' \in Seq(Tokens)
    BY DEF IInv, End, TypeOK
  <1>1. CASE Invalid
    BY <1>0, <1>1, InvalidIsSafe
  <1>2. CASE ~Invalid
    <2>1. /\ operators' = Front(operators)
          /\ phase' = "finish"
          /\ UNCHANGED <<numbers, token, answer>>
      BY <1>2 DEF End
    <2>2. Sound(operators)
      BY <1>0, StackIsSound
    <2>3. operators \in Seq(Entries) /\ operators # <<>> /\ Len(operators) \in Nat \ {0}
      BY <2>2 DEF Sound
    <2>4. /\ operators' \in Seq(Entries) /\ Len(operators') = Len(operators) - 1
          /\ \A i \in 1 .. Len(operators) - 1 : operators'[i] = operators[i]
      BY <2>1, <2>3, TopAndPop
    <2>5. MarkerAtBottom'
      BY <2>1 DEF MarkerAtBottom
    <2>6. StackOrdered'
      <3>1. ASSUME NEW i \in 2 .. Len(operators'),
                   operators'[i] \in Binary, operators'[i - 1] \in Binary
            PROVE  Precedence(operators'[i - 1]) < Precedence(operators'[i])
        <4>1. /\ operators'[i] = operators[i] /\ operators'[i - 1] = operators[i - 1]
              /\ i \in 2 .. Len(operators)
          BY <2>3, <2>4
        <4>2. QED
          BY <2>2, <3>1, <4>1 DEF Sound
      <3>2. QED
        BY <3>1 DEF StackOrdered
    <2>7. TypeOK'
      BY <1>0, <2>1, <2>4 DEF TypeOK, Entries
    <2>8. QED
      BY <2>5, <2>6, <2>7 DEF IInv
  <1>3. QED
    BY <1>1, <1>2

\* The final check leaves the operator stack alone.
LEMMA FinishIInv ==
  ASSUME IInv, Finish
  PROVE  IInv'
  <1>0. TypeOK /\ StackOrdered /\ text' \in Seq(Tokens)
    BY DEF IInv, Finish, TypeOK
  <1>1. CASE Invalid
    BY <1>0, <1>1, InvalidIsSafe
  <1>2. CASE ~Invalid
    <2>1. /\ Len(numbers) = 1
          /\ answer' = Last(numbers) /\ numbers' = Front(numbers)
          /\ phase' = "value"
          /\ UNCHANGED <<operators, token>>
      BY <1>2 DEF Finish
    <2>2. numbers \in Seq(Int) /\ numbers # <<>>
      <3>1. numbers \in Seq(Int)
        BY <1>0 DEF TypeOK
      <3>2. Len(<<>>) = 0
        OBVIOUS
      <3>3. QED
        BY <2>1, <3>1, <3>2
    <2>3. answer' \in Int /\ numbers' \in Seq(Int)
      BY <2>1, <2>2, TopAndPop
    <2>4. TypeOK'
      BY <1>0, <2>1, <2>3 DEF TypeOK
    <2>5. MarkerAtBottom' /\ StackOrdered'
      BY <1>0, <2>1 DEF MarkerAtBottom, StackOrdered
    <2>6. QED
      BY <2>4, <2>5 DEF IInv
  <1>3. QED
    BY <1>1, <1>2

-----------------------------------------------------------------------------

\* Every step keeps it.
LEMMA StepIInv == IInv /\ [Next]_vars => IInv'
  <1> SUFFICES ASSUME IInv, [Next]_vars PROVE IInv'
    OBVIOUS
  <1>1. CASE UNCHANGED vars
    BY <1>1 DEF vars, IInv, TypeOK, MarkerAtBottom, StackOrdered
  <1>2. CASE Next
    BY <1>2, ReadIInv, UnwindIInv, PushSignIInv, CloseIInv, EndIInv, FinishIInv DEF Next
  <1>3. QED
    BY <1>1, <1>2

\* IInv holds in every reachable state of the parser: the three properties
\* together are inductive.
THEOREM Invariance == Spec => []IInv
  <1>1. QED
    BY InitIInv, StepIInv, PTL DEF Spec

\* The stacks, the phase and the answer always have their types.
THEOREM TypeCorrect == Spec => []TypeOK
  <1>1. IInv => TypeOK
    BY DEF IInv
  <1>2. QED
    BY <1>1, Invariance, PTL

\* No top() or pop() meets an empty operator stack: a marker stays at the
\* bottom until the text ends.
THEOREM BottomStays == Spec => []MarkerAtBottom
  <1>1. IInv => MarkerAtBottom
    BY DEF IInv
  <1>2. QED
    BY <1>1, Invariance, PTL

\* Precedence rises along the operator stack between markers.
THEOREM OrderKept == Spec => []StackOrdered
  <1>1. IInv => StackOrdered
    BY DEF IInv
  <1>2. QED
    BY <1>1, Invariance, PTL

-----------------------------------------------------------------------------
(* Counting: what one more token, and one entry more or less on the stack,    *)
(* does to the counts that ValueIsBalanced compares.                          *)

Places(s, K) == {i \in 1 .. Len(s) : s[i] \in K}

LEMMA PlacesFinite ==
  ASSUME NEW S, NEW s \in Seq(S), NEW K
  PROVE  IsFiniteSet(Places(s, K)) /\ Cardinality(Places(s, K)) \in Nat
                                   /\ Cardinality(Places(s, K)) <= Len(s)
  <1>1. Len(s) \in Nat /\ IsFiniteSet(1 .. Len(s)) /\ Cardinality(1 .. Len(s)) = Len(s)
    <2>1. Len(s) \in Nat /\ 1 \in Int /\ Len(s) \in Int
      OBVIOUS
    <2>2. /\ IsFiniteSet(1 .. Len(s))
          /\ Cardinality(1 .. Len(s)) = IF 1 > Len(s) THEN 0 ELSE Len(s) - 1 + 1
      BY <2>1, FS_Interval
    <2>3. (IF 1 > Len(s) THEN 0 ELSE Len(s) - 1 + 1) = Len(s)
      BY <2>1
    <2>4. QED
      BY <2>1, <2>2, <2>3
  <1>2. Places(s, K) \in SUBSET (1 .. Len(s))
    BY DEF Places
  <1>3. /\ IsFiniteSet(Places(s, K))
        /\ Cardinality(Places(s, K)) <= Cardinality(1 .. Len(s))
    BY <1>1, <1>2, FS_Subset
  <1>4. Cardinality(Places(s, K)) \in Nat
    BY <1>3, FS_CardinalityType
  <1>5. QED
    BY <1>1, <1>3, <1>4

\* A sequence that goes on with one more entry.
LEMMA PlaceAdded ==
  ASSUME NEW S, NEW s \in Seq(S), NEW t \in Seq(S), NEW K,
         Len(t) = Len(s) + 1, \A i \in 1 .. Len(s) : t[i] = s[i]
  PROVE  Cardinality(Places(t, K)) =
           Cardinality(Places(s, K)) + (IF t[Len(t)] \in K THEN 1 ELSE 0)
  <1> DEFINE n == Len(t)
  <1>1. n \in Nat /\ n = Len(s) + 1 /\ Len(s) \in Nat
    OBVIOUS
  <1>2. IsFiniteSet(Places(s, K)) /\ n \notin Places(s, K)
    <2>1. IsFiniteSet(Places(s, K))
      BY PlacesFinite
    <2>2. n \notin 1 .. Len(s)
      BY <1>1
    <2>3. QED
      BY <2>1, <2>2 DEF Places
  <1>3. CASE t[n] \in K
    <2>1. Places(t, K) = Places(s, K) \cup {n}
      BY <1>1, <1>3 DEF Places
    <2>2. Cardinality(Places(s, K) \cup {n}) = Cardinality(Places(s, K)) + 1
      BY <1>2, FS_AddElement
    <2>3. QED
      BY <1>3, <2>1, <2>2
  <1>4. CASE t[n] \notin K
    <2>1. Places(t, K) = Places(s, K)
      BY <1>1, <1>4 DEF Places
    <2>2. Cardinality(Places(s, K)) + 0 = Cardinality(Places(s, K))
      BY PlacesFinite
    <2>3. QED
      BY <1>4, <2>1, <2>2
  <1>5. QED
    BY <1>3, <1>4

\* The kinds of the tokens, as a set of tokens.
LEMMA KindsCounted ==
  ASSUME text \in Seq(Tokens), NEW K
  PROVE  Count(K) = Cardinality(Places(text, {t \in Tokens : t.kind \in K})) /\ Count(K) \in Nat
  <1>1. {i \in 1 .. Len(text) : text[i].kind \in K} = Places(text, {t \in Tokens : t.kind \in K})
    BY DEF Places
  <1>2. QED
    BY <1>1, PlacesFinite DEF Count

LEMMA KindsCountedNext ==
  ASSUME text' \in Seq(Tokens), NEW K
  PROVE  Count(K)' = Cardinality(Places(text', {t \in Tokens : t.kind \in K}))
  <1>1. {i \in 1 .. Len(text') : text'[i].kind \in K} = Places(text', {t \in Tokens : t.kind \in K})
    BY DEF Places
  <1>2. QED
    BY <1>1 DEF Count

\* One token read is counted where it belongs.
LEMMA TokenCounted ==
  ASSUME TypeOK, NEW kind \in Kinds, NEW n \in Numbers \cup {0}, Reads(kind, n), NEW K
  PROVE  Count(K)' = Count(K) + (IF kind \in K THEN 1 ELSE 0)
  <1> DEFINE T == {t \in Tokens : t.kind \in K}
             x == [kind |-> kind, value |-> n]
  <1>1. x \in Tokens /\ x.kind = kind
    BY DEF Tokens
  <1>2. text \in Seq(Tokens) /\ text' = Append(text, x) /\ Len(text) \in Nat
    BY DEF TypeOK, Reads
  <1> HIDE DEF x
  <1>3. /\ text' \in Seq(Tokens) /\ Len(text') = Len(text) + 1 /\ text'[Len(text) + 1] = x
        /\ \A i \in 1 .. Len(text) : text'[i] = text[i]
    BY <1>1, <1>2, Pushed
  <1>4. x \in T <=> kind \in K
    BY <1>1
  <1> HIDE DEF T
  <1>5. Cardinality(Places(text', T)) = Cardinality(Places(text, T)) + (IF x \in T THEN 1 ELSE 0)
    <2>1. Cardinality(Places(text', T)) =
            Cardinality(Places(text, T)) + (IF text'[Len(text')] \in T THEN 1 ELSE 0)
      <3>1. text \in Seq(Tokens) /\ text' \in Seq(Tokens)
        BY <1>2, <1>3
      <3>2. Len(text') = Len(text) + 1
        BY <1>3
      <3>3. \A i \in 1 .. Len(text) : text'[i] = text[i]
        BY <1>3
      <3>4. QED
        BY <3>1, <3>2, <3>3, PlaceAdded
    <2>2. text'[Len(text')] = x
      BY <1>3
    <2>3. QED
      BY <2>1, <2>2
  <1>6. Count(K) = Cardinality(Places(text, T))
    BY <1>2, KindsCounted DEF T
  <1>7. Count(K)' = Cardinality(Places(text', T))
    BY <1>3, KindsCountedNext DEF T
  <1>8. QED
    BY <1>4, <1>5, <1>6, <1>7

\* A '-' is a negation by what precedes it.
LEMMA NegationCounted ==
  ASSUME TypeOK, NEW kind \in Kinds, NEW n \in Numbers \cup {0}, Reads(kind, n)
  PROVE  /\ Negations \in Nat
         /\ Negations' = Negations +
              (IF kind = "-" /\ (text = <<>> \/ Last(text).kind = "(") THEN 1 ELSE 0)
  <1> DEFINE N == {i \in 1 .. Len(text) : Negates(i)}
             x == [kind |-> kind, value |-> n]
             Is == kind = "-" /\ (text = <<>> \/ Last(text).kind = "(")
  <1>1. x \in Tokens /\ x.kind = kind
    BY DEF Tokens
  <1>2. text \in Seq(Tokens) /\ text' = Append(text, x) /\ Len(text) \in Nat
    BY DEF TypeOK, Reads
  <1>0. PICK m \in Nat : m = Len(text) + 1
    BY <1>2
  <1> HIDE DEF x
  <1>3. /\ text' \in Seq(Tokens) /\ Len(text') = m /\ text'[m] = x
        /\ \A i \in 1 .. Len(text) : text'[i] = text[i]
    BY <1>0, <1>1, <1>2, Pushed
  <1>4. IsFiniteSet(N) /\ m \notin N /\ Cardinality(N) \in Nat /\ Negations = Cardinality(N)
    <2>1. IsFiniteSet(1 .. Len(text))
      BY <1>2, FS_Interval
    <2>2. N \in SUBSET (1 .. Len(text))
      OBVIOUS
    <2>3. IsFiniteSet(N)
      BY <2>1, <2>2, FS_Subset
    <2>4. Cardinality(N) \in Nat
      BY <2>3, FS_CardinalityType
    <2>5. m \notin N
      BY <1>0, <1>2
    <2>6. QED
      BY <2>3, <2>4, <2>5 DEF Negations
  <1>5. \A i \in 1 .. Len(text) : Negates(i)' <=> Negates(i)
    <2>1. ASSUME NEW i \in 1 .. Len(text)
          PROVE  Negates(i)' <=> Negates(i)
      <3>1. text'[i] = text[i]
        BY <1>3
      <3>2. i # 1 => text'[i - 1] = text[i - 1]
        <4>1. i # 1 => i - 1 \in 1 .. Len(text)
          BY <1>2
        <4>2. QED
          BY <1>3, <4>1
      <3>3. QED
        BY <3>1, <3>2 DEF Negates
    <2>2. QED
      BY <2>1
  <1>6. Negates(m)' <=> Is
    <2>1. m = 1 <=> text = <<>>
      BY <1>0, <1>2
    <2>2. ASSUME text # <<>>
          PROVE  m - 1 = Len(text) /\ Len(text) \in 1 .. Len(text) /\ Last(text) = text[Len(text)]
      <3>1. Len(text) \in Nat \ {0} /\ Last(text) = text[Len(text)]
        BY <1>2, <2>2, TopAndPop
      <3>2. QED
        BY <1>0, <3>1
    <2>3. text # <<>> => text'[m - 1] = Last(text)
      BY <1>3, <2>2
    <2>4. text'[m].kind = kind
      BY <1>1, <1>3
    <2>5. QED
      BY <2>1, <2>3, <2>4 DEF Negates
  <1>7. Negations' = Cardinality({i \in 1 .. m : Negates(i)'})
    BY <1>3 DEF Negations
  <1>8. m \in Nat /\ 1 .. m = (1 .. Len(text)) \cup {m}
    BY <1>0, <1>2
  <1> HIDE DEF Is
  <1>9. CASE Is
    <2>1. {i \in 1 .. m : Negates(i)'} = N \cup {m}
      BY <1>5, <1>6, <1>8, <1>9
    <2>2. Cardinality(N \cup {m}) = Cardinality(N) + 1
      BY <1>4, FS_AddElement
    <2>3. QED
      BY <1>4, <1>7, <1>9, <2>1, <2>2 DEF Is
  <1>10. CASE ~Is
    <2>1. {i \in 1 .. m : Negates(i)'} = N
      BY <1>5, <1>6, <1>8, <1>10
    <2>2. Cardinality(N) = Cardinality(N) + 0
      BY <1>4
    <2>3. QED
      BY <1>4, <1>7, <1>10, <2>1, <2>2 DEF Is
  <1>11. QED
    BY <1>9, <1>10

\* The markers on a stack.
MarkersOn(s) == Cardinality(Places(s, Markers))

LEMMA OpenIsCounted ==
  /\ Open = MarkersOn(operators)
  /\ Open' = MarkersOn(operators')
  BY DEF Open, MarkersOn, Places

LEMMA PushCounted ==
  ASSUME NEW s \in Seq(Entries), NEW x \in Entries
  PROVE  /\ MarkersOn(s) \in Nat /\ Len(s) \in Nat /\ Len(Append(s, x)) = Len(s) + 1
         /\ MarkersOn(Append(s, x)) = MarkersOn(s) + (IF x \in Markers THEN 1 ELSE 0)
  <1> DEFINE t == Append(s, x)
  <1>1. /\ t \in Seq(Entries) /\ Len(t) = Len(s) + 1 /\ t[Len(t)] = x /\ Len(s) \in Nat
        /\ \A i \in 1 .. Len(s) : t[i] = s[i]
    BY Pushed
  <1> HIDE DEF t
  <1>2. MarkersOn(t) = MarkersOn(s) + (IF x \in Markers THEN 1 ELSE 0)
    BY <1>1, PlaceAdded DEF MarkersOn
  <1>3. MarkersOn(s) \in Nat
    BY PlacesFinite DEF MarkersOn
  <1>4. QED
    BY <1>1, <1>2, <1>3 DEF t

LEMMA PopCounted ==
  ASSUME NEW s \in Seq(Entries), s # <<>>
  PROVE  /\ MarkersOn(s) \in Nat /\ Len(s) \in Nat /\ Len(Front(s)) = Len(s) - 1
         /\ MarkersOn(Front(s)) = MarkersOn(s) - (IF Last(s) \in Markers THEN 1 ELSE 0)
  <1> DEFINE t == Front(s)
  <1>1. /\ t \in Seq(Entries) /\ Len(t) = Len(s) - 1 /\ Len(s) \in Nat \ {0} /\ Last(s) = s[Len(s)]
        /\ \A i \in 1 .. Len(s) - 1 : t[i] = s[i]
    BY TopAndPop
  <1> HIDE DEF t
  <1>2. Len(s) = Len(t) + 1 /\ \A i \in 1 .. Len(t) : s[i] = t[i]
    BY <1>1
  <1>3. MarkersOn(s) = MarkersOn(t) + (IF Last(s) \in Markers THEN 1 ELSE 0)
    BY <1>1, <1>2, PlaceAdded DEF MarkersOn
  <1>4. MarkersOn(s) \in Nat /\ MarkersOn(t) \in Nat
    BY <1>1, PlacesFinite DEF MarkersOn
  <1>5. MarkersOn(t) = MarkersOn(s) - (IF Last(s) \in Markers THEN 1 ELSE 0)
    BY <1>3, <1>4
  <1>6. QED
    BY <1>1, <1>4, <1>5 DEF t

LEMMA SwapCounted ==
  ASSUME NEW s \in Seq(Entries), s # <<>>
  PROVE  /\ MarkersOn(Swapped(s)) = MarkersOn(s) /\ Len(Swapped(s)) = Len(s)
         /\ Last(Swapped(s)) # "start"
  <1>1. Len(s) \in Nat \ {0} /\ Front(s) \in Seq(Entries) /\ Len(Front(s)) = Len(s) - 1
    BY TopAndPop
  <1>2. /\ Swapped(s) \in Seq(Entries) /\ Len(Swapped(s)) = Len(s)
        /\ \A i \in 1 .. Len(s) - 1 : Swapped(s)[i] = s[i]
        /\ \/ Swapped(s)[Len(s)] = s[Len(s)]
           \/ s[Len(s)] \in Markers /\ Swapped(s)[Len(s)] \in Markers
    BY SwapsTop
  <1>3. Places(Swapped(s), Markers) = Places(s, Markers)
    BY <1>1, <1>2 DEF Places
  <1>4. Last(Swapped(s)) # "start"
    <2>1. CASE Last(s) = "start"
      <3>1. Swapped(s) = Append(Front(s), "first_num") /\ "first_num" \in Entries
        BY <2>1 DEF Swapped, Entries, Markers
      <3>2. Last(Swapped(s)) = "first_num"
        <4>1. /\ Append(Front(s), "first_num") # <<>>
              /\ Len(Append(Front(s), "first_num")) = Len(Front(s)) + 1
              /\ Append(Front(s), "first_num")[Len(Front(s)) + 1] = "first_num"
          BY <1>1, <3>1, Pushed
        <4>2. QED
          BY <3>1, <4>1 DEF Last
      <3>3. QED
        BY <3>2
    <2>2. CASE Last(s) # "start"
      BY <2>2 DEF Swapped
    <2>3. QED
      BY <2>1, <2>2
  <1>5. QED
    BY <1>2, <1>3, <1>4 DEF MarkersOn

-----------------------------------------------------------------------------
(* The accounts are kept by every step                                        *)

BalancedInv == IInv /\ BalanceInv

\* What a step starts from: the counts are numbers.
LEMMA CountsTyped ==
  ASSUME IInv
  PROVE  /\ \A K : Count(K) \in Nat
         /\ Open \in Nat /\ Len(operators) \in Nat /\ Len(numbers) \in Nat
         /\ operators \in Seq(Entries) /\ numbers \in Seq(Int) /\ text \in Seq(Tokens)
         /\ Open = MarkersOn(operators)
  <1>1. operators \in Seq(Entries) /\ numbers \in Seq(Int) /\ text \in Seq(Tokens)
    BY DEF IInv, TypeOK, Entries
  <1>2. \A K : Count(K) \in Nat
    BY <1>1, KindsCounted
  <1>3. Open = MarkersOn(operators) /\ MarkersOn(operators) \in Nat
    BY <1>1, OpenIsCounted, PlacesFinite DEF MarkersOn
  <1>4. QED
    BY <1>1, <1>2, <1>3

\* No account is kept of a text that was refused.
LEMMA RefusedBalanced ==
  ASSUME phase' = "invalid"
  PROVE  BalanceInv'
  BY DEF BalanceInv, Accounted, BeginningSeen, ValueIsBalanced

\* While the parser goes on there is nothing to say of a value.
LEMMA NoValueYet ==
  ASSUME phase' # "value"
  PROVE  ValueIsBalanced'
  BY DEF ValueIsBalanced

\* All the kinds that are counted, for one token more.
LEMMA TokenAccounted ==
  ASSUME IInv, NEW kind \in Kinds, NEW n \in Numbers \cup {0}, Reads(kind, n)
  PROVE  /\ Count({"("})' = Count({"("}) + (IF kind = "(" THEN 1 ELSE 0)
         /\ Count({")"})' = Count({")"}) + (IF kind = ")" THEN 1 ELSE 0)
         /\ Count({"number"})' = Count({"number"}) + (IF kind = "number" THEN 1 ELSE 0)
         /\ Count(Binary)' = Count(Binary) + (IF kind \in Binary THEN 1 ELSE 0)
         /\ Negations \in Nat
         /\ Negations' = Negations +
              (IF kind = "-" /\ (text = <<>> \/ Last(text).kind = "(") THEN 1 ELSE 0)
         /\ text' # <<>> /\ Last(text').kind = kind
  <1>1. TypeOK
    BY DEF IInv
  <1>2. /\ Count({"("})' = Count({"("}) + (IF kind \in {"("} THEN 1 ELSE 0)
        /\ Count({")"})' = Count({")"}) + (IF kind \in {")"} THEN 1 ELSE 0)
        /\ Count({"number"})' = Count({"number"}) + (IF kind \in {"number"} THEN 1 ELSE 0)
        /\ Count(Binary)' = Count(Binary) + (IF kind \in Binary THEN 1 ELSE 0)
    <2>1. Count({"("})' = Count({"("}) + (IF kind \in {"("} THEN 1 ELSE 0)
      BY <1>1, TokenCounted
    <2>2. Count({")"})' = Count({")"}) + (IF kind \in {")"} THEN 1 ELSE 0)
      BY <1>1, TokenCounted
    <2>3. Count({"number"})' = Count({"number"}) + (IF kind \in {"number"} THEN 1 ELSE 0)
      BY <1>1, TokenCounted
    <2>4. Count(Binary)' = Count(Binary) + (IF kind \in Binary THEN 1 ELSE 0)
      BY <1>1, TokenCounted
    <2>5. QED
      BY <2>1, <2>2, <2>3, <2>4
  <1>3. /\ Negations \in Nat
        /\ Negations' = Negations +
             (IF kind = "-" /\ (text = <<>> \/ Last(text).kind = "(") THEN 1 ELSE 0)
    BY <1>1, NegationCounted
  <1>4. text' # <<>> /\ Last(text').kind = kind
    <2> DEFINE x == [kind |-> kind, value |-> n]
    <2>1. x \in Tokens /\ x.kind = kind
      BY DEF Tokens
    <2>2. text \in Seq(Tokens) /\ text' = Append(text, x)
      BY <1>1 DEF TypeOK, Reads
    <2> HIDE DEF x
    <2>3. /\ text' \in Seq(Tokens) /\ text' # <<>>
          /\ Len(text') = Len(text) + 1 /\ text'[Len(text) + 1] = x
      BY <2>1, <2>2, Pushed
    <2>4. Last(text') = x
      BY <2>3 DEF Last
    <2>5. QED
      BY <2>1, <2>3, <2>4
  <1>5. QED
    BY <1>2, <1>3, <1>4

\* The counts of the text do not change if the text does not.
LEMMA TextUncounted ==
  ASSUME text' = text
  PROVE  /\ Count({"("})' = Count({"("}) /\ Count({")"})' = Count({")"})
         /\ Count({"number"})' = Count({"number"}) /\ Count(Binary)' = Count(Binary)
         /\ Negations' = Negations
  BY DEF Count, Negations, Negates

LEMMA NegationsTyped ==
  ASSUME IInv
  PROVE  Negations \in Nat
  <1>1. Len(text) \in Nat
    BY DEF IInv, TypeOK
  <1>2. IsFiniteSet(1 .. Len(text))
    BY <1>1, FS_Interval
  <1>3. IsFiniteSet({i \in 1 .. Len(text) : Negates(i)})
    BY <1>2, FS_Subset
  <1>4. QED
    BY <1>3, FS_CardinalityType DEF Negations

\* A name for the height of a stack: the provers add numbers they know nothing
\* else of faster than the lengths of sequences.
Height(s) == Len(s)

\* The accounts of an unfinished parse, as two equations between numbers.
LEMMA AccountsKnown ==
  ASSUME IInv, Accounted, phase \in {"read", "minus", "unwind"}
  PROVE  /\ Count({"("}) \in Nat /\ Count({")"}) \in Nat
         /\ Count({"number"}) \in Nat /\ Count(Binary) \in Nat /\ Negations \in Nat
         /\ Open \in Nat /\ Height(operators) \in Nat /\ Height(numbers) \in Nat
         /\ Waits({")"}) \in {0, 1} /\ Waits(Binary) \in {0, 1}
         /\ Count({"("}) + 1 + Waits({")"}) = Count({")"}) + Open
         /\ Count({"number"}) + Height(operators) + Waits(Binary) + Negations =
              Height(numbers) + Count(Binary) + Open
  <1>1. /\ Count({"("}) \in Nat /\ Count({")"}) \in Nat
        /\ Count({"number"}) \in Nat /\ Count(Binary) \in Nat /\ Negations \in Nat
        /\ Open \in Nat /\ Height(operators) \in Nat /\ Height(numbers) \in Nat
    BY CountsTyped, NegationsTyped DEF Height
  <1>2. Waits({")"}) \in {0, 1} /\ Waits(Binary) \in {0, 1}
    BY DEF Waits
  <1>3. Count({"("}) + 1 + Waits({")"}) = Count({")"}) + Open + 0
    BY DEF Accounted
  <1>4. Count({"("}) + 1 + Waits({")"}) = Count({")"}) + Open
    BY <1>1, <1>3
  <1>5. Count({"number"}) + Height(operators) + Waits(Binary) + Negations =
          Height(numbers) + Count(Binary) + Open
    BY DEF Accounted, Height
  <1>6. QED
    BY <1>1, <1>2, <1>4, <1>5

LEMMA ReadOpeningBalanced ==
  ASSUME BalancedInv, ReadOpening
  PROVE  BalanceInv'
  <1>1. /\ IInv /\ Accounted /\ phase = "read" /\ phase' = "read" /\ Reads("(", 0)
        /\ operators' = Append(operators, "start") /\ numbers' = numbers
    BY DEF BalancedInv, BalanceInv, ReadOpening
  <1>2. "(" \in Kinds /\ 0 \in Numbers \cup {0} /\ "(" \notin Binary
    BY DEF Kinds, Binary
  <1>3. /\ Count({"("})' = Count({"("}) + 1 /\ Count({")"})' = Count({")"})
        /\ Count({"number"})' = Count({"number"}) /\ Count(Binary)' = Count(Binary)
        /\ Negations' = Negations /\ Negations \in Nat
        /\ text' # <<>> /\ Last(text').kind = "("
    <2>1. \A K : Count(K) \in Nat
      BY <1>1, CountsTyped
    <2>2. QED
      BY <1>1, <1>2, <2>1, TokenAccounted
  <1>4. /\ Open' = Open + 1 /\ Height(operators') = Height(operators) + 1
        /\ Last(operators') = "start"
    <2>1. "start" \in Entries /\ "start" \in Markers /\ operators \in Seq(Entries)
      BY <1>1, CountsTyped DEF Entries, Markers
    <2>2. MarkersOn(operators') = MarkersOn(operators) + 1 /\ Len(operators') = Len(operators) + 1
      BY <1>1, <2>1, PushCounted
    <2>3. Last(operators') = "start"
      BY <1>1, <2>1, Pushed DEF Last
    <2>4. QED
      BY <2>2, <2>3, OpenIsCounted DEF Height
  <1>5. Accounted'
    <2>1. Waits({")"}) = 0 /\ Waits(Binary) = 0
      BY <1>1 DEF Waits
    <2>2. Waits({")"})' = 0 /\ Waits(Binary)' = 0
      BY <1>1 DEF Waits
    <2>3. /\ Count({"("})' + 1 + 0 = Count({")"})' + Open' + 0
         /\ Count({"number"})' + Height(operators') + 0 + Negations' =
              Height(numbers') + Count(Binary)' + Open'
      <3>1. /\ Count({"("}) \in Nat /\ Count({")"}) \in Nat
            /\ Count({"number"}) \in Nat /\ Count(Binary) \in Nat /\ Negations \in Nat
            /\ Open \in Nat /\ Height(operators) \in Nat /\ Height(numbers) \in Nat
            /\ Count({"("}) + 1 + Waits({")"}) = Count({")"}) + Open
            /\ Count({"number"}) + Height(operators) + Waits(Binary) + Negations =
                 Height(numbers) + Count(Binary) + Open
        BY <1>1, AccountsKnown
      <3>2. Count({"("})' + 1 + 0 = Count({")"})' + Open' + 0
        BY <1>1, <1>3, <1>4, <2>1, <3>1
      <3>3. Count({"number"})' + Height(operators') + 0 + Negations' =
                Height(numbers') + Count(Binary)' + Open'
        <4>1. Count({"number"}) + (Height(operators) + 1) + 0 + Negations =
                Height(numbers) + Count(Binary) + (Open + 1)
          BY <2>1, <3>1
        <4>2. Height(numbers') = Height(numbers)
          BY <1>1
        <4>3. QED
          BY <1>3, <1>4, <4>1, <4>2
      <3>4. QED
        BY <3>2, <3>3
    <2>4. QED
      BY <1>1, <2>2, <2>3 DEF Accounted, Height
  <1>6. QED
    BY <1>1, <1>3, <1>4, <1>5 DEF BalanceInv, BeginningSeen, ValueIsBalanced

LEMMA ReadClosingBalanced ==
  ASSUME BalancedInv, ReadClosing
  PROVE  BalanceInv'
  <1>1. PICK t \in {")", "end"} : Reads(t, 0) /\ token' = t
    BY DEF ReadClosing
  <1>2. /\ IInv /\ Accounted /\ phase = "read" /\ phase' = "unwind"
        /\ operators' = operators /\ numbers' = numbers
    BY DEF BalancedInv, BalanceInv, ReadClosing
  <1>3. t \in Kinds /\ 0 \in Numbers \cup {0} /\ t \notin Binary
    BY DEF Kinds, Binary
  <1>4. /\ Count({"("})' = Count({"("})
        /\ Count({")"})' = Count({")"}) + (IF t = ")" THEN 1 ELSE 0)
        /\ Count({"number"})' = Count({"number"}) /\ Count(Binary)' = Count(Binary)
        /\ Negations' = Negations /\ Negations \in Nat
        /\ text' # <<>> /\ Last(text').kind = t
    <2>1. \A K : Count(K) \in Nat
      BY <1>2, CountsTyped
    <2>2. QED
      BY <1>1, <1>2, <1>3, <2>1, TokenAccounted
  <1>5. Open' = Open
    BY <1>2 DEF Open
  <1>6. Accounted'
    BY <1>1, <1>2, <1>3, <1>4, <1>5, CountsTyped DEF Accounted, Waits
  <1>7. QED
    BY <1>1, <1>2, <1>4, <1>6 DEF BalanceInv, BeginningSeen, ValueIsBalanced

LEMMA ReadNumberBalanced ==
  ASSUME BalancedInv, ReadNumber
  PROVE  BalanceInv'
  <1>1. PICK n \in Numbers :
          /\ Reads("number", n)
          /\ numbers' = Append(numbers, IF phase = "minus" THEN -n ELSE n)
          /\ operators' = Swapped(operators)
          /\ phase' = "read"
          /\ UNCHANGED <<token, answer>>
    BY DEF ReadNumber
  <1>2. /\ IInv /\ Accounted /\ phase \in {"read", "minus"}
    BY <1>1 DEF BalancedInv, BalanceInv, Reads
  <1>3. "number" \in Kinds /\ n \in Numbers \cup {0} /\ "number" \notin Binary
    BY DEF Kinds, Binary
  <1>4. /\ Count({"("})' = Count({"("}) /\ Count({")"})' = Count({")"})
        /\ Count({"number"})' = Count({"number"}) + 1 /\ Count(Binary)' = Count(Binary)
        /\ Negations' = Negations /\ Negations \in Nat
        /\ text' # <<>> /\ Last(text').kind = "number"
    <2>1. \A K : Count(K) \in Nat
      BY <1>2, CountsTyped
    <2>2. QED
      BY <1>1, <1>2, <1>3, <2>1, TokenAccounted
  <1>5. /\ Open' = Open /\ Height(operators') = Height(operators) /\ Last(operators') # "start"
    <2>1. operators # <<>> /\ operators \in Seq(Entries)
      BY <1>2, CountsTyped DEF IInv, MarkerAtBottom
    <2>2. QED
      BY <1>1, <2>1, SwapCounted, OpenIsCounted DEF Height
  <1>6. Height(numbers') = Height(numbers) + 1
    BY <1>1, <1>2, CountsTyped DEF Height
  <1>7. Accounted'
    <2>1. Waits({")"}) = 0 /\ Waits(Binary) = 0
      BY <1>2 DEF Waits
    <2>2. Waits({")"})' = 0 /\ Waits(Binary)' = 0
      BY <1>1 DEF Waits
    <2>3. /\ Count({"("})' + 1 + 0 = Count({")"})' + Open' + 0
         /\ Count({"number"})' + Height(operators') + 0 + Negations' =
              Height(numbers') + Count(Binary)' + Open'
      <3>1. /\ Count({"("}) \in Nat /\ Count({")"}) \in Nat
            /\ Count({"number"}) \in Nat /\ Count(Binary) \in Nat /\ Negations \in Nat
            /\ Open \in Nat /\ Height(operators) \in Nat /\ Height(numbers) \in Nat
            /\ Count({"("}) + 1 + Waits({")"}) = Count({")"}) + Open
            /\ Count({"number"}) + Height(operators) + Waits(Binary) + Negations =
                 Height(numbers) + Count(Binary) + Open
        BY <1>2, AccountsKnown
      <3>2. Count({"("})' + 1 + 0 = Count({")"})' + Open' + 0
        BY <1>4, <1>5, <1>6, <2>1, <3>1
      <3>3. Count({"number"})' + Height(operators') + 0 + Negations' =
                Height(numbers') + Count(Binary)' + Open'
        <4>1. (Count({"number"}) + 1) + Height(operators) + 0 + Negations =
                (Height(numbers) + 1) + Count(Binary) + Open
          BY <2>1, <3>1
        <4>2. QED
          BY <1>4, <1>5, <1>6, <4>1
      <3>4. QED
        BY <3>2, <3>3
    <2>4. QED
      BY <1>1, <2>2, <2>3 DEF Accounted, Height
  <1>8. QED
    BY <1>1, <1>4, <1>5, <1>7 DEF BalanceInv, BeginningSeen, ValueIsBalanced

LEMMA ReadMinusBalanced ==
  ASSUME BalancedInv, ReadMinus
  PROVE  BalanceInv'
  <1>1. /\ IInv /\ Accounted /\ phase = "read" /\ phase' = "minus" /\ Reads("-", 0)
        /\ operators' = operators /\ numbers' = numbers
        /\ text = <<>> \/ Last(text).kind = "("
    BY DEF BalancedInv, BalanceInv, BeginningSeen, ReadMinus
  <1>2. "-" \in Kinds /\ 0 \in Numbers \cup {0} /\ "-" \in Binary
    BY DEF Kinds, Binary
  <1>3. /\ Count({"("})' = Count({"("}) /\ Count({")"})' = Count({")"})
        /\ Count({"number"})' = Count({"number"}) /\ Count(Binary)' = Count(Binary) + 1
        /\ Negations' = Negations + 1 /\ Negations \in Nat
    <2>1. \A K : Count(K) \in Nat
      BY <1>1, CountsTyped
    <2>2. QED
      BY <1>1, <1>2, <2>1, TokenAccounted
  <1>4. Open' = Open
    BY <1>1 DEF Open
  <1>5. Accounted'
    <2>1. Waits({")"}) = 0 /\ Waits(Binary) = 0
      BY <1>1 DEF Waits
    <2>2. Waits({")"})' = 0 /\ Waits(Binary)' = 0
      BY <1>1 DEF Waits
    <2>3. /\ Count({"("})' + 1 + 0 = Count({")"})' + Open' + 0
          /\ Count({"number"})' + Height(operators') + 0 + Negations' =
               Height(numbers') + Count(Binary)' + Open'
      <3>1. /\ Count({"("}) \in Nat /\ Count({")"}) \in Nat
            /\ Count({"number"}) \in Nat /\ Count(Binary) \in Nat /\ Negations \in Nat
            /\ Open \in Nat /\ Height(operators) \in Nat /\ Height(numbers) \in Nat
            /\ Count({"("}) + 1 + Waits({")"}) = Count({")"}) + Open
            /\ Count({"number"}) + Height(operators) + Waits(Binary) + Negations =
                 Height(numbers) + Count(Binary) + Open
        BY <1>1, AccountsKnown
      <3>2. Count({"("})' + 1 + 0 = Count({")"})' + Open' + 0
        BY <1>3, <1>4, <2>1, <3>1
      <3>3. Count({"number"})' + Height(operators') + 0 + Negations' =
              Height(numbers') + Count(Binary)' + Open'
        <4>1. Count({"number"}) + Height(operators) + 0 + (Negations + 1) =
                Height(numbers) + (Count(Binary) + 1) + Open
          BY <2>1, <3>1
        <4>2. Height(numbers') = Height(numbers) /\ Height(operators') = Height(operators)
          BY <1>1
        <4>3. QED
          BY <1>3, <1>4, <4>1, <4>2
      <3>4. QED
        BY <3>2, <3>3
    <2>4. QED
      BY <1>1, <2>2, <2>3 DEF Accounted, Height
  <1>6. QED
    BY <1>1, <1>5 DEF BalanceInv, BeginningSeen, ValueIsBalanced

LEMMA ReadSignBalanced ==
  ASSUME BalancedInv, ReadSign
  PROVE  BalanceInv'
  <1>1. PICK t \in Signs :
          /\ Reads(t, 0)
          /\ \/ Last(operators) = "start" /\ t # "-" /\ Invalid
             \/ /\ Last(operators) = "first_num"
                /\ operators' = Append(operators, t)
                /\ UNCHANGED <<numbers, phase, token, answer>>
             \/ /\ Last(operators) \notin Markers
                /\ phase' = "unwind" /\ token' = t
                /\ UNCHANGED <<operators, numbers, answer>>
    BY DEF ReadSign
  <1>2. IInv /\ Accounted /\ BeginningSeen /\ phase = "read"
    BY DEF BalancedInv, BalanceInv, ReadSign
  <1>3. t \in Kinds /\ 0 \in Numbers \cup {0} /\ t \in Binary
    BY ParserAssumption DEF Kinds
  <1>4. t \notin {"(", ")", "number", "start"}
    BY <1>3 DEF Binary
  <1>5. CASE Invalid
    BY <1>5, RefusedBalanced DEF Invalid
  <1>6. CASE Last(operators) # "start"
    <2>1. ~(text = <<>> \/ Last(text).kind = "(")
      BY <1>2, <1>6 DEF BeginningSeen
    <2>2. /\ Count({"("})' = Count({"("}) /\ Count({")"})' = Count({")"})
          /\ Count({"number"})' = Count({"number"}) /\ Count(Binary)' = Count(Binary) + 1
          /\ Negations' = Negations /\ Negations \in Nat
          /\ text' # <<>> /\ Last(text').kind = t
      <3>1. \A K : Count(K) \in Nat
        BY <1>2, CountsTyped
      <3>2. QED
        BY <1>1, <1>2, <1>3, <1>4, <2>1, <3>1, TokenAccounted
    <2>3. CASE /\ operators' = Append(operators, t)
               /\ UNCHANGED <<numbers, phase, token, answer>>
      <3>1. t \in Entries /\ t \notin Markers /\ operators \in Seq(Entries)
        BY <1>2, <1>3, CountsTyped DEF Entries, Markers, Binary
      <3>2. Open' = Open /\ Height(operators') = Height(operators) + 1 /\ Last(operators') = t
        <4>1. MarkersOn(operators') = MarkersOn(operators) + 0 /\ MarkersOn(operators) \in Nat
              /\ Len(operators') = Len(operators) + 1
          BY <2>3, <3>1, PushCounted
        <4>2. Last(operators') = t
          BY <2>3, <3>1, Pushed DEF Last
        <4>3. QED
          BY <4>1, <4>2, OpenIsCounted DEF Height
      <3>3. Accounted'
        <4>1. Waits({")"}) = 0 /\ Waits(Binary) = 0
          BY <1>2 DEF Waits
        <4>2. Waits({")"})' = 0 /\ Waits(Binary)' = 0
          BY <1>2, <2>3 DEF Waits
        <4>3. /\ Count({"("})' + 1 + 0 = Count({")"})' + Open' + 0
             /\ Count({"number"})' + Height(operators') + 0 + Negations' =
                  Height(numbers') + Count(Binary)' + Open'
          <5>1. /\ Count({"("}) \in Nat /\ Count({")"}) \in Nat
                /\ Count({"number"}) \in Nat /\ Count(Binary) \in Nat /\ Negations \in Nat
                /\ Open \in Nat /\ Height(operators) \in Nat /\ Height(numbers) \in Nat
                /\ Count({"("}) + 1 + Waits({")"}) = Count({")"}) + Open
                /\ Count({"number"}) + Height(operators) + Waits(Binary) + Negations =
                     Height(numbers) + Count(Binary) + Open
            BY <1>2, AccountsKnown
          <5>2. Count({"("})' + 1 + 0 = Count({")"})' + Open' + 0
            BY <2>2, <3>2, <4>1, <5>1
          <5>3. Height(numbers') = Height(numbers)
            BY <2>3
          <5>4. Count({"number"})' + Height(operators') + 0 + Negations' =
                    Height(numbers') + Count(Binary)' + Open'
            <6>1. Count({"number"}) + (Height(operators) + 1) + 0 + Negations =
                    Height(numbers) + (Count(Binary) + 1) + Open
              BY <4>1, <5>1
            <6>2. QED
              BY <2>2, <3>2, <5>3, <6>1
          <5>5. QED
            BY <5>2, <5>4
        <4>4. QED
          BY <1>2, <2>3, <4>2, <4>3 DEF Accounted, Height
      <3>4. QED
        BY <1>2, <1>4, <2>2, <2>3, <3>2, <3>3 DEF BalanceInv, BeginningSeen, ValueIsBalanced
    <2>4. CASE /\ phase' = "unwind" /\ token' = t
               /\ UNCHANGED <<operators, numbers, answer>>
      <3>1. Open' = Open
        BY <2>4 DEF Open
      <3>2. Accounted'
        <4>1. Waits({")"}) = 0 /\ Waits(Binary) = 0
          BY <1>2 DEF Waits
        <4>2. Waits({")"})' = 0 /\ Waits(Binary)' = 1
          BY <1>3, <1>4, <2>4 DEF Waits
        <4>3. /\ Count({"("})' + 1 + 0 = Count({")"})' + Open' + 0
             /\ Count({"number"})' + Height(operators') + 1 + Negations' =
                  Height(numbers') + Count(Binary)' + Open'
          <5>1. /\ Count({"("}) \in Nat /\ Count({")"}) \in Nat
                /\ Count({"number"}) \in Nat /\ Count(Binary) \in Nat /\ Negations \in Nat
                /\ Open \in Nat /\ Height(operators) \in Nat /\ Height(numbers) \in Nat
                /\ Count({"("}) + 1 + Waits({")"}) = Count({")"}) + Open
                /\ Count({"number"}) + Height(operators) + Waits(Binary) + Negations =
                     Height(numbers) + Count(Binary) + Open
            BY <1>2, AccountsKnown
          <5>2. Count({"("})' + 1 + 0 = Count({")"})' + Open' + 0
            BY <2>2, <3>1, <4>1, <5>1
          <5>3. Height(numbers') = Height(numbers) /\ Height(operators') = Height(operators)
            BY <2>4
          <5>4. Count({"number"})' + Height(operators') + 1 + Negations' =
                    Height(numbers') + Count(Binary)' + Open'
            <6>1. Count({"number"}) + Height(operators) + 1 + Negations =
                    Height(numbers) + (Count(Binary) + 1) + Open
              BY <4>1, <5>1
            <6>2. QED
              BY <2>2, <3>1, <5>3, <6>1
          <5>5. QED
            BY <5>2, <5>4
        <4>4. QED
          BY <1>3, <1>4, <2>4, <4>2, <4>3 DEF Accounted, Height
      <3>3. QED
        BY <2>2, <2>4, <3>2 DEF BalanceInv, BeginningSeen, ValueIsBalanced
    <2>5. QED
      BY <1>1, <1>5, <1>6, <2>3, <2>4
  <1>7. QED
    BY <1>1, <1>5, <1>6 DEF Markers

LEMMA UnwindBalanced ==
  ASSUME BalancedInv, Unwind
  PROVE  BalanceInv'
  <1>1. /\ IInv /\ Accounted /\ BeginningSeen /\ phase = "unwind" /\ Unwinds /\ text' = text
    BY DEF BalancedInv, BalanceInv, Unwind
  <1>2. Last(operators) \in Binary /\ operators # <<>>
    BY <1>1, OnlySignsUnwind DEF IInv
  <1>3. CASE Invalid
    BY <1>3, RefusedBalanced DEF Invalid
  <1>4. CASE ~Invalid
    <2> DEFINE n == Len(numbers)
               r == Calculated(numbers[n - 1], Last(operators), numbers[n])
    <2>1. /\ ~(n < 2) /\ Len(operators) # 1
          /\ numbers' = Append(SubSeq(numbers, 1, n - 2), r)
          /\ operators' = Swapped(Front(operators))
          /\ UNCHANGED <<phase, token, answer>>
      BY <1>4 DEF Unwind, Apply
    <2>2. Len(numbers') = n - 1
      <3>1. numbers \in Seq(Int) /\ n \in Nat /\ n >= 2
        BY <1>1, <2>1, CountsTyped
      <3>2. \A i \in 1 .. n - 2 : numbers[i] \in Int
        BY <3>1
      <3>3. SubSeq(numbers, 1, n - 2) \in Seq(Int) /\ Len(SubSeq(numbers, 1, n - 2)) = n - 2
        <4>1. /\ SubSeq(numbers, 1, n - 2) \in Seq(Int)
              /\ Len(SubSeq(numbers, 1, n - 2)) = IF 1 <= n - 2 THEN n - 2 - 1 + 1 ELSE 0
          BY <3>1, <3>2, SubSeqProperties
        <4>2. \A k \in Nat : k >= 2 => (IF 1 <= k - 2 THEN k - 2 - 1 + 1 ELSE 0) = k - 2
          OBVIOUS
        <4>3. (IF 1 <= n - 2 THEN n - 2 - 1 + 1 ELSE 0) = n - 2
          BY <3>1, <4>2
        <4>4. QED
          BY <4>1, <4>3
      <3> HIDE DEF n, r
      <3>4. Len(Append(SubSeq(numbers, 1, n - 2), r)) = n - 2 + 1
        BY <3>3
      <3>5. QED
        BY <2>1, <3>1, <3>4
    <2>3. Open' = Open /\ Height(operators') = Height(operators) - 1
      <3>1. operators \in Seq(Entries) /\ Last(operators) \notin Markers
        BY <1>1, <1>2, CountsTyped DEF Markers, Binary
      <3>2. /\ Front(operators) \in Seq(Entries) /\ Len(Front(operators)) = Len(operators) - 1
            /\ Len(operators) \in Nat \ {0, 1}
        BY <1>2, <2>1, <3>1, TopAndPop
      <3>3. Front(operators) # <<>>
        BY <3>2
      <3>4. MarkersOn(Front(operators)) = MarkersOn(operators) - 0 /\ MarkersOn(operators) \in Nat
        BY <1>2, <3>1, PopCounted
      <3>5. /\ MarkersOn(operators') = MarkersOn(Front(operators))
            /\ Len(operators') = Len(Front(operators))
        BY <2>1, <3>2, <3>3, SwapCounted
      <3>6. QED
        BY <3>2, <3>4, <3>5, OpenIsCounted DEF Height
    <2>4. Accounted'
      <3>1. Waits({")"})' = Waits({")"}) /\ Waits(Binary)' = Waits(Binary)
        BY <2>1 DEF Waits
      <3>2. /\ Count({"("})' + 1 + Waits({")"})' = Count({")"})' + Open' + 0
            /\ Count({"number"})' + Height(operators') + Waits(Binary)' + Negations' =
                 Height(numbers') + Count(Binary)' + Open'
        <4>1. /\ Count({"("}) \in Nat /\ Count({")"}) \in Nat
              /\ Count({"number"}) \in Nat /\ Count(Binary) \in Nat /\ Negations \in Nat
              /\ Open \in Nat /\ Height(operators) \in Nat /\ Height(numbers) \in Nat
              /\ Waits({")"}) \in {0, 1} /\ Waits(Binary) \in {0, 1}
              /\ Count({"("}) + 1 + Waits({")"}) = Count({")"}) + Open
              /\ Count({"number"}) + Height(operators) + Waits(Binary) + Negations =
                   Height(numbers) + Count(Binary) + Open
          BY <1>1, AccountsKnown
        <4>2. /\ Count({"("})' = Count({"("}) /\ Count({")"})' = Count({")"})
              /\ Count({"number"})' = Count({"number"}) /\ Count(Binary)' = Count(Binary)
              /\ Negations' = Negations
          BY <1>1, TextUncounted
        <4>3. Height(numbers') = Height(numbers) - 1
          BY <2>2 DEF Height
        <4>4. Count({"("})' + 1 + Waits({")"})' = Count({")"})' + Open' + 0
          BY <2>3, <3>1, <4>1, <4>2
        <4>5. Count({"number"})' + Height(operators') + Waits(Binary)' + Negations' =
                Height(numbers') + Count(Binary)' + Open'
          <5>1. Count({"number"}) + (Height(operators) - 1) + Waits(Binary) + Negations =
                  (Height(numbers) - 1) + Count(Binary) + Open
            BY <4>1
          <5>2. QED
            BY <2>3, <3>1, <4>2, <4>3, <5>1
        <4>6. QED
          BY <4>4, <4>5
      <3>3. phase' = "unwind"
        BY <1>1, <2>1
      <3>4. QED
        BY <3>2, <3>3 DEF Accounted, Height
    <2>5. QED
      BY <1>1, <2>1, <2>4 DEF BalanceInv, BeginningSeen, ValueIsBalanced
  <1>5. QED
    BY <1>3, <1>4

LEMMA PushSignBalanced ==
  ASSUME BalancedInv, PushSign
  PROVE  BalanceInv'
  <1>1. /\ IInv /\ Accounted /\ BeginningSeen /\ phase = "unwind" /\ phase' = "read"
        /\ token \in Binary /\ operators' = Append(operators, token)
        /\ UNCHANGED <<numbers, token, text>>
    BY DEF BalancedInv, BalanceInv, PushSign
  <1>2. token \in Entries /\ token \notin Markers /\ operators \in Seq(Entries)
        /\ token \notin {"(", ")", "start"}
    BY <1>1, CountsTyped DEF Entries, Markers, Binary
  <1>3. Open' = Open /\ Height(operators') = Height(operators) + 1 /\ Last(operators') = token
    <2>1. /\ MarkersOn(operators') = MarkersOn(operators) + 0 /\ MarkersOn(operators) \in Nat
          /\ Len(operators') = Len(operators) + 1
      BY <1>1, <1>2, PushCounted
    <2>2. Last(operators') = token
      BY <1>1, <1>2, Pushed DEF Last
    <2>3. QED
      BY <2>1, <2>2, OpenIsCounted DEF Height
  <1>4. Accounted'
    BY <1>1, <1>2, <1>3, TextUncounted, CountsTyped, NegationsTyped DEF Accounted, Waits
  <1>5. text # <<>> /\ Last(text).kind = token
    BY <1>1 DEF BeginningSeen
  <1>6. QED
    BY <1>1, <1>2, <1>3, <1>4, <1>5 DEF BalanceInv, BeginningSeen, ValueIsBalanced

LEMMA CloseBalanced ==
  ASSUME BalancedInv, Close
  PROVE  BalanceInv'
  <1>1. /\ IInv /\ Accounted /\ BeginningSeen /\ phase = "unwind" /\ token = ")" /\ text' = text
    BY DEF BalancedInv, BalanceInv, Close
  <1>2. CASE Invalid
    BY <1>2, RefusedBalanced DEF Invalid
  <1>3. CASE ~Invalid
    <2>1. /\ Last(operators) = "first_num" /\ Len(operators) # 1
          /\ operators' = Swapped(Front(operators))
          /\ phase' = "read"
          /\ UNCHANGED <<numbers, token, answer>>
      BY <1>3 DEF Close
    <2>2. /\ Open' = Open - 1 /\ Height(operators') = Height(operators) - 1
          /\ Last(operators') # "start"
      <3>1. operators \in Seq(Entries) /\ Last(operators) \in Markers /\ operators # <<>>
        BY <1>1, <2>1, CountsTyped DEF Markers, IInv, MarkerAtBottom
      <3>2. /\ Front(operators) \in Seq(Entries) /\ Len(Front(operators)) = Len(operators) - 1
            /\ Len(operators) \in Nat \ {0, 1}
        BY <2>1, <3>1, TopAndPop
      <3>3. Front(operators) # <<>>
        BY <3>2
      <3>4. MarkersOn(Front(operators)) = MarkersOn(operators) - 1
        BY <3>1, PopCounted
      <3>5. /\ MarkersOn(operators') = MarkersOn(Front(operators))
            /\ Len(operators') = Len(Front(operators)) /\ Last(operators') # "start"
        BY <2>1, <3>2, <3>3, SwapCounted
      <3>6. QED
        BY <3>2, <3>4, <3>5, OpenIsCounted DEF Height
    <2>3. Accounted'
      <3>1. ")" \notin Binary
        BY DEF Binary
      <3>2. QED
        <4>1. Waits({")"}) = 1 /\ Waits(Binary) = 0
          BY <1>1, <3>1 DEF Waits
        <4>2. Waits({")"})' = 0 /\ Waits(Binary)' = 0
          BY <2>1 DEF Waits
        <4>3. /\ Count({"("})' + 1 + 0 = Count({")"})' + Open' + 0
             /\ Count({"number"})' + Height(operators') + 0 + Negations' =
                  Height(numbers') + Count(Binary)' + Open'
          <5>1. /\ Count({"("}) \in Nat /\ Count({")"}) \in Nat
                /\ Count({"number"}) \in Nat /\ Count(Binary) \in Nat /\ Negations \in Nat
                /\ Open \in Nat /\ Height(operators) \in Nat /\ Height(numbers) \in Nat
                /\ Count({"("}) + 1 + Waits({")"}) = Count({")"}) + Open
                /\ Count({"number"}) + Height(operators) + Waits(Binary) + Negations =
                     Height(numbers) + Count(Binary) + Open
            BY <1>1, AccountsKnown
          <5>2. Count({"("})' + 1 + 0 = Count({")"})' + Open' + 0
            BY <1>1, <2>1, <2>2, TextUncounted, <4>1, <5>1
          <5>3. Count({"number"})' + Height(operators') + 0 + Negations' =
                    Height(numbers') + Count(Binary)' + Open'
            <6>1. Count({"number"}) + (Height(operators) - 1) + 0 + Negations =
                    Height(numbers) + Count(Binary) + (Open - 1)
              BY <4>1, <5>1
            <6>2. Height(numbers') = Height(numbers)
              BY <2>1
            <6>3. QED
              BY <1>1, <2>2, TextUncounted, <6>1, <6>2
          <5>4. QED
            BY <5>2, <5>3
        <4>4. QED
          BY <2>1, <4>2, <4>3 DEF Accounted, Height
    <2>4. text # <<>> /\ Last(text).kind = ")"
      BY <1>1 DEF BeginningSeen
    <2>5. QED
      BY <1>1, <2>1, <2>2, <2>3, <2>4 DEF BalanceInv, BeginningSeen, ValueIsBalanced
  <1>4. QED
    BY <1>2, <1>3

LEMMA EndBalanced ==
  ASSUME BalancedInv, End
  PROVE  BalanceInv'
  <1>1. /\ IInv /\ Accounted /\ phase = "unwind" /\ token = "end" /\ text' = text
    BY DEF BalancedInv, BalanceInv, End
  <1>2. CASE Invalid
    BY <1>2, RefusedBalanced DEF Invalid
  <1>3. CASE ~Invalid
    <2>1. /\ Last(operators) = "first_num"
          /\ operators' = Front(operators)
          /\ phase' = "finish"
          /\ UNCHANGED <<numbers, token, answer>>
      BY <1>3 DEF End
    <2>2. Open' = Open - 1 /\ Height(operators') = Height(operators) - 1
      <3>1. operators \in Seq(Entries) /\ Last(operators) \in Markers /\ operators # <<>>
        BY <1>1, <2>1, CountsTyped DEF Markers, IInv, MarkerAtBottom
      <3>2. /\ MarkersOn(operators') = MarkersOn(operators) - 1
            /\ Len(operators') = Len(operators) - 1
        BY <2>1, <3>1, PopCounted
      <3>3. QED
        BY <3>2, OpenIsCounted DEF Height
    <2>3. Accounted'
      <3>1. "end" \notin Binary
        BY DEF Binary
      <3>2. QED
        <4>1. Waits({")"}) = 0 /\ Waits(Binary) = 0
          BY <1>1, <3>1 DEF Waits
        <4>2. Waits({")"})' = 0 /\ Waits(Binary)' = 0
          BY <2>1 DEF Waits
        <4>3. /\ Count({"("})' + 1 + 0 = Count({")"})' + Open' + 1
             /\ Count({"number"})' + Height(operators') + 0 + Negations' =
                  Height(numbers') + Count(Binary)' + Open'
          <5>1. /\ Count({"("}) \in Nat /\ Count({")"}) \in Nat
                /\ Count({"number"}) \in Nat /\ Count(Binary) \in Nat /\ Negations \in Nat
                /\ Open \in Nat /\ Height(operators) \in Nat /\ Height(numbers) \in Nat
                /\ Count({"("}) + 1 + Waits({")"}) = Count({")"}) + Open
                /\ Count({"number"}) + Height(operators) + Waits(Binary) + Negations =
                     Height(numbers) + Count(Binary) + Open
            BY <1>1, AccountsKnown
          <5>2. Count({"("})' + 1 + 0 = Count({")"})' + Open' + 1
            BY <1>1, <2>1, <2>2, TextUncounted, <4>1, <5>1
          <5>3. Count({"number"})' + Height(operators') + 0 + Negations' =
                    Height(numbers') + Count(Binary)' + Open'
            <6>1. Count({"number"}) + (Height(operators) - 1) + 0 + Negations =
                    Height(numbers) + Count(Binary) + (Open - 1)
              BY <4>1, <5>1
            <6>2. Height(numbers') = Height(numbers)
              BY <2>1
            <6>3. QED
              BY <1>1, <2>2, TextUncounted, <6>1, <6>2
          <5>4. QED
            BY <5>2, <5>3
        <4>4. QED
          BY <2>1, <4>2, <4>3 DEF Accounted, Height
    <2>4. QED
      BY <2>1, <2>3 DEF BalanceInv, BeginningSeen, ValueIsBalanced
  <1>4. QED
    BY <1>2, <1>3

LEMMA FinishBalanced ==
  ASSUME BalancedInv, Finish
  PROVE  BalanceInv'
  <1>1. /\ IInv /\ Accounted /\ phase = "finish" /\ text' = text
    BY DEF BalancedInv, BalanceInv, Finish
  <1>2. CASE Invalid
    BY <1>2, RefusedBalanced DEF Invalid
  <1>3. CASE ~Invalid
    <2>1. operators = <<>> /\ Len(numbers) = 1 /\ phase' = "value"
      BY <1>3 DEF Finish
    <2>2. Len(operators) = 0 /\ Open = 0
      <3>1. Len(operators) = 0 /\ operators \in Seq(Entries)
        BY <1>1, <2>1, CountsTyped
      <3>2. MarkersOn(operators) \in Nat /\ MarkersOn(operators) <= Len(operators)
        BY <3>1, PlacesFinite DEF MarkersOn
      <3>3. QED
        BY <3>1, <3>2, OpenIsCounted
    <2>3. /\ Count({"("}) = Count({")"})
          /\ Count({"number"}) = Count(Binary) - Negations + 1
      BY <1>1, <2>1, <2>2, CountsTyped, NegationsTyped DEF Accounted, Waits
    <2>4. ValueIsBalanced'
      BY <1>1, <2>3, TextUncounted DEF ValueIsBalanced
    <2>5. QED
      BY <2>1, <2>4 DEF BalanceInv, Accounted, BeginningSeen
  <1>4. QED
    BY <1>2, <1>3

LEMMA InitBalanced == Init => BalanceInv
  <1> SUFFICES ASSUME Init PROVE BalanceInv
    OBVIOUS
  <1>1. /\ operators = <<"start">> /\ numbers = <<>> /\ text = <<>> /\ phase = "read"
    BY DEF Init
  <1>2. \A K : Count(K) = 0
    <2>1. Len(text) = 0
      BY <1>1
    <2>2. \A K : {i \in 1 .. Len(text) : text[i].kind \in K} = {}
      BY <2>1
    <2>3. QED
      BY <2>2, FS_EmptySet DEF Count
  <1>3. Negations = 0
    <2>1. {i \in 1 .. Len(text) : Negates(i)} = {}
      BY <1>1
    <2>2. QED
      BY <2>1, FS_EmptySet DEF Negations
  <1>4. Open = 1 /\ Len(operators) = 1 /\ Last(operators) = "start" /\ Len(numbers) = 0
    <2>1. Len(operators) = 1 /\ operators[1] = "start" /\ Len(numbers) = 0
      BY <1>1
    <2>2. {i \in 1 .. Len(operators) : operators[i] \in Markers} = {1}
      BY <2>1 DEF Markers
    <2>3. Cardinality({1}) = 1
      BY FS_Singleton
    <2>4. QED
      BY <2>1, <2>2, <2>3 DEF Open, Last
  <1>5. Accounted
    BY <1>1, <1>2, <1>3, <1>4 DEF Accounted, Waits
  <1>6. QED
    BY <1>1, <1>4, <1>5 DEF BalanceInv, BeginningSeen, ValueIsBalanced

LEMMA BalancedInvariance == Spec => []BalancedInv
  <1>1. Init => BalancedInv
    BY InitIInv, InitBalanced DEF BalancedInv
  <1>2. BalancedInv /\ [Next]_vars => BalancedInv'
    <2> SUFFICES ASSUME BalancedInv, [Next]_vars PROVE BalancedInv'
      OBVIOUS
    <2>1. IInv'
      BY StepIInv DEF BalancedInv
    <2>2. CASE UNCHANGED vars
      <3>1. BalanceInv'
        BY <2>2, TextUncounted DEF BalancedInv, BalanceInv, Accounted, BeginningSeen, ValueIsBalanced,
                                   Waits, Open, vars
      <3>2. QED
        BY <2>1, <3>1 DEF BalancedInv
    <2>3. CASE Next
      <3>1. ReadError => BalanceInv'
        BY RefusedBalanced DEF ReadError, Invalid
      <3>2. BalanceInv'
        BY <2>3, <3>1, ReadOpeningBalanced, ReadClosingBalanced, ReadNumberBalanced, ReadMinusBalanced,
           ReadSignBalanced, UnwindBalanced, PushSignBalanced, CloseBalanced, EndBalanced,
           FinishBalanced DEF Next, Read
      <3>3. QED
        BY <2>1, <3>2 DEF BalancedInv
    <2>4. QED
      BY <2>2, <2>3
  <1>3. QED
    BY <1>1, <1>2, PTL DEF Spec

\* Only a text whose brackets match, and that has one number more than it has
\* operators, has a value: calc_subexpression() neither loses an operand nor
\* uses one twice, for texts of any length over any numbers.
THEOREM OnlyBalancedTexts == Spec => []ValueIsBalanced
  <1>1. BalancedInv => ValueIsBalanced
    BY DEF BalancedInv, BalanceInv
  <1>2. QED
    BY <1>1, BalancedInvariance, PTL

-----------------------------------------------------------------------------
(* Meanings, by recursion                                                    *)

\* Induction over the naturals, for sets: the least number outside is none.
LEMMA Induction ==
  ASSUME NEW S \in SUBSET Nat, 0 \in S, \A n \in S : n + 1 \in S
  PROVE  S = Nat
  <1> DEFINE I == {1 .. n : n \in Nat \ S}
             R == StrictSubsetOrdering(Nat)
  <1> SUFFICES ASSUME Nat \ S # {} PROVE FALSE
    OBVIOUS
  <1>1. I \subseteq FiniteSubsetsOf(Nat)
    <2>1. \A n \in Nat : IsFiniteSet(1 .. n)
      BY FS_Interval
    <2>2. \A n \in Nat : 1 .. n \subseteq Nat
      OBVIOUS
    <2>3. QED
      BY <2>1, <2>2 DEF FiniteSubsetsOf
  <1>2. PICK J \in I : \A K \in I : <<K, J>> \notin R
    <2>1. I # {}
      OBVIOUS
    <2>2. IsWellFoundedOn(R, FiniteSubsetsOf(Nat))
      BY FS_StrictSubsetOrderingWellFounded
    <2> HIDE DEF I, R
    <2>3. QED
      BY <1>1, <2>1, <2>2, WFMin
  <1>3. PICK n \in Nat \ S : J = 1 .. n
    OBVIOUS
  <1>4. n - 1 \in Nat \ S
    OBVIOUS
  <1>5. <<1 .. n - 1, 1 .. n>> \in R
    <2>1. 1 .. n - 1 \subseteq 1 .. n /\ n \in 1 .. n /\ n \notin 1 .. n - 1
      BY <1>4
    <2>2. 1 .. n - 1 \in SUBSET Nat /\ 1 .. n \in SUBSET Nat
      OBVIOUS
    <2>3. QED
      BY <2>1, <2>2 DEF StrictSubsetOrdering
  <1>6. QED
    BY <1>2, <1>3, <1>4, <1>5

-----------------------------------------------------------------------------
\* The meaning of the tokens from i to j.
Meaning(t, i, j) == Meanings(t)[<<i, j>>]

\* The place where they are cut, 0 if they are not.
Cut(t, i, j) ==
  IF LastSign(t, i, j, {"+", "-"}) # 0 THEN LastSign(t, i, j, {"+", "-"})
  ELSE LastSign(t, i, j, {"*", "/"})

\* A greatest element, for a set of places in a text.
LEMMA LastPlace ==
  ASSUME NEW n \in Nat, NEW P \in SUBSET (1 .. n), P # {}
  PROVE  \E k \in P : \A l \in P : l <= k
  <1> DEFINE S == {m \in Nat : \A Q \in SUBSET (1 .. m) : Q # {} => \E k \in Q : \A l \in Q : l <= k}
  <1>1. 0 \in S
    <2>1. 1 .. 0 = {}
      OBVIOUS
    <2>2. \A Q \in SUBSET (1 .. 0) : Q = {}
      BY <2>1
    <2>3. QED
      BY <2>2
  <1>2. ASSUME NEW m \in S PROVE m + 1 \in S
    <2>1. m \in Nat
      OBVIOUS
    <2>2. ASSUME NEW Q \in SUBSET (1 .. m + 1), Q # {}
          PROVE  \E k \in Q : \A l \in Q : l <= k
      <3>1. CASE m + 1 \in Q
        BY <2>1, <3>1
      <3>2. CASE m + 1 \notin Q
        <4>1. Q \in SUBSET (1 .. m)
          BY <2>1, <3>2
        <4>2. QED
          BY <2>2, <4>1
      <3>3. QED
        BY <3>1, <3>2
    <2>3. QED
      BY <2>1, <2>2
  <1>3. S = Nat
    <2>1. S \in SUBSET Nat
      OBVIOUS
    <2> HIDE DEF S
    <2>2. QED
      BY <1>1, <1>2, <2>1, Induction
  <1>4. n \in S
    BY <1>3
  <1>5. QED
    BY <1>4

\* What LastSign finds.
LEMMA LastSignFacts ==
  ASSUME NEW t, NEW i \in Nat, NEW j \in Nat, NEW signs
  PROVE  \/ /\ LastSign(t, i, j, signs) = 0
            /\ \A k \in i + 1 .. j : ~(t[k].kind \in signs /\ Depth(t, k) = Depth(t, i))
         \/ /\ LastSign(t, i, j, signs) \in i + 1 .. j
            /\ t[LastSign(t, i, j, signs)].kind \in signs
            /\ Depth(t, LastSign(t, i, j, signs)) = Depth(t, i)
            /\ \A k \in LastSign(t, i, j, signs) + 1 .. j :
                 ~(t[k].kind \in signs /\ Depth(t, k) = Depth(t, i))
  <1> DEFINE places == {k \in i + 1 .. j : t[k].kind \in signs /\ Depth(t, k) = Depth(t, i)}
  <1>1. CASE places = {}
    <2>1. LastSign(t, i, j, signs) = 0
      BY <1>1 DEF LastSign
    <2>2. QED
      BY <1>1, <2>1
  <1>2. CASE places # {}
    <2>1. PICK k \in places : \A l \in places : l <= k
      <3>1. places \in SUBSET (1 .. j)
        OBVIOUS
      <3> HIDE DEF places
      <3>2. QED
        BY <1>2, <3>1, LastPlace
    <2> DEFINE c == CHOOSE q \in places : \A l \in places : l <= q
    <2>2. LastSign(t, i, j, signs) = c
      BY <1>2 DEF LastSign
    <2>3. c \in places /\ \A l \in places : l <= c
      <3> HIDE DEF places
      <3>1. QED
        BY <2>1
    <2> HIDE DEF c
    <2>4. ASSUME NEW l \in c + 1 .. j PROVE l \notin places
      BY <2>3
    <2>5. QED
      BY <2>2, <2>3, <2>4
  <1>3. QED
    BY <1>1, <1>2

\* A cut lies within the tokens, after the first.
LEMMA CutWithin ==
  ASSUME NEW t, NEW i \in Nat, NEW j \in Nat
  PROVE  Cut(t, i, j) = 0 \/ Cut(t, i, j) \in i + 1 .. j
  <1>1. \A signs : LastSign(t, i, j, signs) = 0 \/ LastSign(t, i, j, signs) \in i + 1 .. j
    BY LastSignFacts
  <1>2. QED
    BY <1>1 DEF Cut

\* The definition of a meaning, by cases.
LEMMA MeaningByCut ==
  ASSUME NEW m, NEW t, NEW i, NEW j
  PROVE  MeaningBy(m, t, i, j) =
           IF i > j THEN Malformed
           ELSE IF Cut(t, i, j) # 0
                THEN Combined(m[<<i, Cut(t, i, j) - 1>>], t[Cut(t, i, j)].kind, m[<<Cut(t, i, j) + 1, j>>])
           ELSE IF i = j /\ t[i].kind = "number" THEN ValueOf(t[i].value)
           ELSE IF j = i + 1 /\ Leading(t, i) /\ t[i].kind = "-" /\ t[j].kind = "number"
                THEN ValueOf(-t[j].value)
           ELSE IF t[i].kind = "(" /\ t[j].kind = ")" THEN m[<<i + 1, j - 1>>]
           ELSE Malformed
  BY Zenon DEF MeaningBy, Cut

\* It is made of the meanings of fewer tokens.
LEMMA MeaningByFewer ==
  ASSUME NEW t, NEW i \in Nat \ {0}, NEW j \in Nat, j <= Len(t), Len(t) \in Nat, NEW m, NEW w,
         \A a \in 1 .. Len(t) + 1 : \A b \in 0 .. Len(t) :
            b - a < j - i => m[<<a, b>>] = w[<<a, b>>]
  PROVE  MeaningBy(m, t, i, j) = MeaningBy(w, t, i, j)
  <1> DEFINE c == Cut(t, i, j)
  <1>1. ASSUME i <= j, c # 0
        PROVE  m[<<i, c - 1>>] = w[<<i, c - 1>>] /\ m[<<c + 1, j>>] = w[<<c + 1, j>>]
    <2>1. c \in i + 1 .. j
      BY <1>1, CutWithin
    <2> HIDE DEF c
    <2>2. i \in 1 .. Len(t) + 1 /\ c - 1 \in 0 .. Len(t) /\ (c - 1) - i < j - i
      BY <1>1, <2>1
    <2>3. c + 1 \in 1 .. Len(t) + 1 /\ j \in 0 .. Len(t) /\ j - (c + 1) < j - i
      BY <1>1, <2>1
    <2>4. QED
      BY <2>2, <2>3
  <1>2. ASSUME i <= j
        PROVE  m[<<i + 1, j - 1>>] = w[<<i + 1, j - 1>>]
    <2>1. i + 1 \in 1 .. Len(t) + 1 /\ j - 1 \in 0 .. Len(t) /\ (j - 1) - (i + 1) < j - i
      BY <1>2
    <2>2. QED
      BY <2>1
  <1>3. i > j \/ i <= j
    OBVIOUS
  <1>4. i > j => ~(i <= j)
    OBVIOUS
  <1> HIDE DEF c
  <1>5. MeaningBy(m, t, i, j) =
           IF i > j THEN Malformed
           ELSE IF c # 0 THEN Combined(m[<<i, c - 1>>], t[c].kind, m[<<c + 1, j>>])
           ELSE IF i = j /\ t[i].kind = "number" THEN ValueOf(t[i].value)
           ELSE IF j = i + 1 /\ Leading(t, i) /\ t[i].kind = "-" /\ t[j].kind = "number"
                THEN ValueOf(-t[j].value)
           ELSE IF t[i].kind = "(" /\ t[j].kind = ")" THEN m[<<i + 1, j - 1>>]
           ELSE Malformed
    BY MeaningByCut DEF c
  <1>6. MeaningBy(w, t, i, j) =
           IF i > j THEN Malformed
           ELSE IF c # 0 THEN Combined(w[<<i, c - 1>>], t[c].kind, w[<<c + 1, j>>])
           ELSE IF i = j /\ t[i].kind = "number" THEN ValueOf(t[i].value)
           ELSE IF j = i + 1 /\ Leading(t, i) /\ t[i].kind = "-" /\ t[j].kind = "number"
                THEN ValueOf(-t[j].value)
           ELSE IF t[i].kind = "(" /\ t[j].kind = ")" THEN w[<<i + 1, j - 1>>]
           ELSE Malformed
    BY MeaningByCut DEF c
  <1>7. CASE i > j
    BY <1>5, <1>6, <1>7, Zenon
  <1>8. CASE ~(i > j) /\ c # 0
    <2>1. m[<<i, c - 1>>] = w[<<i, c - 1>>] /\ m[<<c + 1, j>>] = w[<<c + 1, j>>]
      BY <1>1, <1>3, <1>8, Zenon
    <2>2. QED
      BY <1>5, <1>6, <1>8, <2>1, Zenon
  <1>9. CASE ~(i > j) /\ c = 0
    <2>1. m[<<i + 1, j - 1>>] = w[<<i + 1, j - 1>>]
      BY <1>2, <1>3, <1>9, Zenon
    <2>2. QED
      BY <1>5, <1>6, <1>9, <2>1
  <1>10. QED
    BY <1>7, <1>8, <1>9, Zenon

\* The meanings m are right for the stretches of less than n tokens (a stretch
\* may have less than none).
RightBelow(m, t, n) ==
  \A i \in 1 .. Len(t) + 1 : \A j \in 0 .. Len(t) :
     j - i + Len(t) + 1 < n => m[<<i, j>>] = MeaningBy(m, t, i, j)

\* There are meanings right for one token more.
LEMMA MeaningsGrow ==
  ASSUME NEW t, Len(t) \in Nat, NEW n \in Nat, NEW m, RightBelow(m, t, n)
  PROVE  \E w : RightBelow(w, t, n + 1)
  <1> DEFINE N == Len(t)
             w == [s \in Stretches(t) |->
                     IF s[2] - s[1] + N + 1 = n THEN MeaningBy(m, t, s[1], s[2]) ELSE m[s]]
  <1>1. ASSUME NEW i \in 1 .. N + 1, NEW j \in 0 .. N
        PROVE  w[<<i, j>>] = IF j - i + N + 1 = n THEN MeaningBy(m, t, i, j) ELSE m[<<i, j>>]
    <2>1. <<i, j>> \in Stretches(t) /\ <<i, j>>[1] = i /\ <<i, j>>[2] = j
      BY DEF Stretches
    <2>2. QED
      BY <2>1, Zenon
  <1> HIDE DEF w
  <1>2. ASSUME NEW i \in 1 .. N + 1, NEW j \in 0 .. N, j - i + N + 1 < n + 1
        PROVE  w[<<i, j>>] = MeaningBy(w, t, i, j)
    <2>1. ASSUME NEW a \in 1 .. N + 1, NEW b \in 0 .. N, b - a < j - i
          PROVE  m[<<a, b>>] = w[<<a, b>>]
      <3>1. b - a + N + 1 # n
        BY <1>2, <2>1
      <3>2. QED
        BY <1>1, <3>1
    <2>2. MeaningBy(m, t, i, j) = MeaningBy(w, t, i, j)
      <3>1. i \in Nat \ {0} /\ j \in Nat /\ j <= Len(t)
        OBVIOUS
      <3>2. \A a \in 1 .. Len(t) + 1 : \A b \in 0 .. Len(t) :
              b - a < j - i => m[<<a, b>>] = w[<<a, b>>]
        BY <2>1
      <3>3. QED
        BY <3>1, <3>2, MeaningByFewer
    <2>3. CASE j - i + N + 1 = n
      BY <1>1, <2>2, <2>3
    <2>4. CASE j - i + N + 1 # n
      <3>1. j - i + N + 1 < n
        BY <1>2, <2>4
      <3>2. m[<<i, j>>] = MeaningBy(m, t, i, j)
        BY <3>1 DEF RightBelow
      <3>3. QED
        BY <1>1, <2>2, <2>4, <3>2
    <2>5. QED
      BY <2>3, <2>4
  <1>3. RightBelow(w, t, n + 1)
    BY <1>2 DEF RightBelow
  <1>4. QED
    BY <1>3

\* The recursion in Meanings ends: there is a function that obeys it.
LEMMA MeaningsExist ==
  ASSUME NEW t, Len(t) \in Nat
  PROVE  \E m : m = [s \in Stretches(t) |-> MeaningBy(m, t, s[1], s[2])]
  <1> DEFINE N == Len(t)
             S == {n \in Nat : \E m : RightBelow(m, t, n)}
  <1>1. 0 \in S
    <2>1. \A i \in 1 .. N + 1 : \A j \in 0 .. N : ~(j - i + N + 1 < 0)
      OBVIOUS
    <2>2. RightBelow(t, t, 0)
      BY <2>1 DEF RightBelow
    <2>3. QED
      BY <2>2
  <1>2. ASSUME NEW n \in S PROVE n + 1 \in S
    BY MeaningsGrow
  <1>3. S = Nat
    <2>1. S \in SUBSET Nat
      OBVIOUS
    <2> HIDE DEF S
    <2>2. QED
      BY <1>1, <1>2, <2>1, Induction
  <1>4. PICK m : RightBelow(m, t, 2 * N + 1)
    <2>1. 2 * N + 1 \in Nat
      OBVIOUS
    <2>2. 2 * N + 1 \in S
      BY <1>3, <2>1, Zenon
    <2>3. QED
      BY <2>2
  <1> HIDE DEF S
  <1> DEFINE w == [s \in Stretches(t) |-> m[s]]
  <1>5. ASSUME NEW i \in 1 .. N + 1, NEW j \in 0 .. N PROVE w[<<i, j>>] = m[<<i, j>>]
    BY DEF Stretches
  <1>6. ASSUME NEW i \in 1 .. N + 1, NEW j \in 0 .. N
        PROVE  m[<<i, j>>] = MeaningBy(w, t, i, j)
    <2> HIDE DEF w
    <2>1. j - i + N + 1 < 2 * N + 1
      OBVIOUS
    <2>2. m[<<i, j>>] = MeaningBy(m, t, i, j)
      BY <1>4, <2>1 DEF RightBelow
    <2>3. i \in Nat \ {0} /\ j \in Nat /\ j <= Len(t)
      OBVIOUS
    <2>4. \A a \in 1 .. Len(t) + 1 : \A b \in 0 .. Len(t) :
            b - a < j - i => m[<<a, b>>] = w[<<a, b>>]
      BY <1>5
    <2>5. MeaningBy(m, t, i, j) = MeaningBy(w, t, i, j)
      <3> HIDE DEF N
      <3>1. QED
        BY <2>3, <2>4, MeaningByFewer
    <2>6. QED
      BY <2>2, <2>5
  <1>7. ASSUME NEW s \in Stretches(t) PROVE m[s] = MeaningBy(w, t, s[1], s[2])
    <2>1. s = <<s[1], s[2]>> /\ s[1] \in 1 .. N + 1 /\ s[2] \in 0 .. N
      BY DEF Stretches
    <2> HIDE DEF w
    <2>2. QED
      BY <1>6, <2>1
  <1>8. w = [s \in Stretches(t) |-> MeaningBy(w, t, s[1], s[2])]
    <2>1. w = [s \in Stretches(t) |-> m[s]]
      OBVIOUS
    <2> HIDE DEF w
    <2>2. QED
      BY <1>7, <2>1, Zenon
  <1>9. QED
    BY <1>8

\* What Meanings computes, unfolded once.
LEMMA MeaningUnfolds ==
  ASSUME NEW t, Len(t) \in Nat, NEW i \in 1 .. Len(t) + 1, NEW j \in 0 .. Len(t)
  PROVE  Meaning(t, i, j) =
           IF i > j THEN Malformed
           ELSE IF Cut(t, i, j) # 0
                THEN Combined(Meaning(t, i, Cut(t, i, j) - 1), t[Cut(t, i, j)].kind,
                              Meaning(t, Cut(t, i, j) + 1, j))
           ELSE IF i = j /\ t[i].kind = "number" THEN ValueOf(t[i].value)
           ELSE IF j = i + 1 /\ Leading(t, i) /\ t[i].kind = "-" /\ t[j].kind = "number"
                THEN ValueOf(-t[j].value)
           ELSE IF t[i].kind = "(" /\ t[j].kind = ")" THEN Meaning(t, i + 1, j - 1)
           ELSE Malformed
  <1> DEFINE m == Meanings(t)
  <1>1. m = [s \in Stretches(t) |-> MeaningBy(m, t, s[1], s[2])]
    <2>1. m = CHOOSE w : w = [s \in Stretches(t) |-> MeaningBy(w, t, s[1], s[2])]
      BY DEF Meanings
    <2> HIDE DEF m
    <2>2. QED
      BY <2>1, MeaningsExist
  <1>2. <<i, j>> \in Stretches(t) /\ <<i, j>>[1] = i /\ <<i, j>>[2] = j
    BY DEF Stretches
  <1>3. m[<<i, j>>] = MeaningBy(m, t, i, j)
    <2> HIDE DEF m
    <2>1. QED
      BY <1>1, <1>2, Zenon
  <1>4. QED
    BY <1>3, MeaningByCut, Zenon DEF Meaning

\* What a token does to the depth of those after it.
Rise(a) == IF a.kind = "(" THEN 1 ELSE IF a.kind = ")" THEN -1 ELSE 0

\* The tokens of a kind among the first n.
Seen(t, n, c) == Cardinality({l \in 1 .. n : t[l].kind = c})

\* They are counted token by token.
LEMMA OneMoreSeen ==
  ASSUME NEW t, NEW k \in Nat \ {0}, NEW c
  PROVE  /\ Seen(t, k - 1, c) \in Nat
         /\ Seen(t, k, c) = Seen(t, k - 1, c) + (IF t[k].kind = c THEN 1 ELSE 0)
  <1> DEFINE P == {l \in 1 .. k - 1 : t[l].kind = c}
             Q == {l \in 1 .. k : t[l].kind = c}
  <1>1. IsFiniteSet(P) /\ k \notin P
    <2>1. IsFiniteSet(1 .. k - 1)
      BY FS_Interval
    <2>2. P \subseteq 1 .. k - 1
      OBVIOUS
    <2>3. QED
      BY <2>1, <2>2, FS_Subset
  <1>2. 1 .. k = (1 .. k - 1) \cup {k}
    OBVIOUS
  <1>3. Q = IF t[k].kind = c THEN P \cup {k} ELSE P
    BY <1>2, Zenon
  <1>4. Cardinality(P) \in Nat
    BY <1>1, FS_CardinalityType
  <1>5. Cardinality(P \cup {k}) = Cardinality(P) + 1
    <2> HIDE DEF P
    <2>1. QED
      BY <1>1, FS_AddElement
  <1>6. Seen(t, k - 1, c) = Cardinality(P) /\ Seen(t, k, c) = Cardinality(Q)
    BY Zenon DEF Seen
  <1> HIDE DEF P, Q
  <1>7. Cardinality(Q) = Cardinality(P) + (IF t[k].kind = c THEN 1 ELSE 0)
    BY <1>3, <1>4, <1>5
  <1>8. QED
    BY <1>4, <1>6, <1>7

\* Depth, token by token.
LEMMA DepthRises ==
  ASSUME NEW t, NEW k \in Nat \ {0}
  PROVE  Depth(t, 1) = 0 /\ Depth(t, k) \in Int /\ Depth(t, k + 1) = Depth(t, k) + Rise(t[k])
  <1> DEFINE a(n) == Seen(t, n, "(")
             b(n) == Seen(t, n, ")")
  <1>1. a(k - 1) \in Nat /\ a(k) = a(k - 1) + (IF t[k].kind = "(" THEN 1 ELSE 0)
    BY OneMoreSeen
  <1>2. b(k - 1) \in Nat /\ b(k) = b(k - 1) + (IF t[k].kind = ")" THEN 1 ELSE 0)
    BY OneMoreSeen
  <1>3. \A n \in Nat : Depth(t, n) = a(n - 1) - b(n - 1)
    BY DEF Depth, Seen
  <1>4. a(0) = 0 /\ b(0) = 0
    <2>1. {l \in 1 .. 0 : t[l].kind = "("} = {} /\ {l \in 1 .. 0 : t[l].kind = ")"} = {}
      OBVIOUS
    <2>2. QED
      BY <2>1, FS_EmptySet DEF Seen
  <1> HIDE DEF a, b
  <1>5. (k + 1) - 1 = k /\ k \in Nat /\ k + 1 \in Nat /\ 1 - 1 = 0 /\ 1 \in Nat
    OBVIOUS
  <1>6. Depth(t, 1) = 0 - 0 /\ Depth(t, k + 1) = a(k) - b(k) /\ Depth(t, k) = a(k - 1) - b(k - 1)
    BY <1>3, <1>4, <1>5
  <1>7. QED
    BY <1>1, <1>2, <1>6 DEF Rise

\* The tokens from i to j of one text stand d places further in another.
Shifted(t, u, d, i, j) == \A k \in i .. j : u[k + d] = t[k]

\* They are, from the first one on, as deep.
AsDeep(t, u, d, i, j) ==
  \A k \in i .. j + 1 : Depth(u, k + d) - Depth(u, i + d) = Depth(t, k) - Depth(t, i)

\* The same tokens at other places rise in the same way.
LEMMA DepthShifts ==
  ASSUME NEW t, NEW u, NEW d \in Nat, NEW i \in Nat \ {0}, NEW j \in Nat,
         Shifted(t, u, d, i, j)
  PROVE  AsDeep(t, u, d, i, j)
  <1> DEFINE S == {n \in Nat : i + n <= j + 1 =>
                     Depth(u, (i + n) + d) - Depth(u, i + d) = Depth(t, i + n) - Depth(t, i)}
  <1>0. Depth(t, i) \in Int /\ Depth(u, i + d) \in Int
    <2>1. i + d \in Nat \ {0}
      OBVIOUS
    <2>2. QED
      BY <2>1, DepthRises
  <1>1. 0 \in S
    <2>1. i + 0 = i
      OBVIOUS
    <2>2. QED
      BY <1>0, <2>1
  <1>2. ASSUME NEW n \in S PROVE n + 1 \in S
    <2>1. n \in Nat /\ n + 1 \in Nat
      OBVIOUS
    <2>2. ASSUME i + (n + 1) <= j + 1
          PROVE  Depth(u, (i + (n + 1)) + d) - Depth(u, i + d) = Depth(t, i + (n + 1)) - Depth(t, i)
      <3> DEFINE k == i + n
      <3>1. k \in i .. j /\ k \in Nat \ {0} /\ k + d \in Nat \ {0}
        BY <2>1, <2>2
      <3>2. i + (n + 1) = k + 1 /\ (i + (n + 1)) + d = (k + d) + 1
        BY <2>1
      <3>3. Depth(u, k + d) - Depth(u, i + d) = Depth(t, k) - Depth(t, i)
        BY <3>1, <2>1
      <3> HIDE DEF k
      <3>4. u[k + d] = t[k]
        BY <3>1 DEF Shifted
      <3>5. /\ Depth(t, k) \in Int /\ Depth(t, k + 1) = Depth(t, k) + Rise(t[k])
            /\ Depth(u, k + d) \in Int /\ Depth(u, (k + d) + 1) = Depth(u, k + d) + Rise(t[k])
        BY <3>1, <3>4, DepthRises
      <3>6. Rise(t[k]) \in Int
        BY DEF Rise
      <3>7. Depth(u, (k + d) + 1) - Depth(u, i + d) = Depth(t, k + 1) - Depth(t, i)
        BY <1>0, <3>3, <3>5, <3>6
      <3>8. QED
        BY <3>2, <3>7
    <2>3. QED
      BY <2>1, <2>2
  <1>3. S = Nat
    <2>1. S \in SUBSET Nat
      OBVIOUS
    <2> HIDE DEF S
    <2>2. QED
      BY <1>1, <1>2, <2>1, Induction
  <1>4. ASSUME NEW k \in i .. j + 1
        PROVE  Depth(u, k + d) - Depth(u, i + d) = Depth(t, k) - Depth(t, i)
    <2>1. k - i \in Nat /\ i + (k - i) = k /\ i + (k - i) <= j + 1
      OBVIOUS
    <2>2. k - i \in S
      <3> HIDE DEF S
      <3>1. QED
        BY <1>3, <2>1
    <2>3. QED
      BY <2>1, <2>2
  <1>5. QED
    BY <1>4 DEF AsDeep

\* So the last sign is the same.
LEMMA LastSignShifts ==
  ASSUME NEW t, NEW u, NEW d \in Nat, NEW i \in Nat \ {0}, NEW j \in Nat, NEW signs,
         Shifted(t, u, d, i, j)
  PROVE  LastSign(u, i + d, j + d, signs) =
           IF LastSign(t, i, j, signs) = 0 THEN 0 ELSE LastSign(t, i, j, signs) + d
  <1> DEFINE x == LastSign(t, i, j, signs)
             y == LastSign(u, i + d, j + d, signs)
             Is(k) == t[k].kind \in signs /\ Depth(t, k) = Depth(t, i)
             As(k) == u[k].kind \in signs /\ Depth(u, k) = Depth(u, i + d)
  <1> HIDE DEF x, y, Is, As
  <1>1. ASSUME NEW k \in i + 1 .. j PROVE Is(k) <=> As(k + d)
    <2>1. u[k + d] = t[k]
      BY DEF Shifted
    <2>2. Depth(u, k + d) - Depth(u, i + d) = Depth(t, k) - Depth(t, i)
      <3>1. AsDeep(t, u, d, i, j)
        BY DepthShifts
      <3>2. k \in i .. j + 1
        OBVIOUS
      <3>3. QED
        BY <3>1, <3>2 DEF AsDeep
    <2>3. Depth(t, i) \in Int /\ Depth(t, k) \in Int /\ Depth(u, i + d) \in Int /\ Depth(u, k + d) \in Int
      <3>1. k \in Nat \ {0} /\ i + d \in Nat \ {0} /\ k + d \in Nat \ {0}
        OBVIOUS
      <3>2. QED
        BY <3>1, DepthRises
    <2>4. Depth(t, k) = Depth(t, i) <=> Depth(u, k + d) = Depth(u, i + d)
      <3> DEFINE a == Depth(u, k + d)
                 b == Depth(u, i + d)
                 c == Depth(t, k)
                 e == Depth(t, i)
      <3>1. a - b = c - e /\ a \in Int /\ b \in Int /\ c \in Int /\ e \in Int
        BY <2>2, <2>3
      <3> HIDE DEF a, b, c, e
      <3>2. c = e <=> a = b
        BY <3>1
      <3>3. QED
        BY <3>2 DEF a, b, c, e
    <2>5. QED
      BY <2>1, <2>4 DEF Is, As
  <1>2. \/ x = 0 /\ \A k \in i + 1 .. j : ~Is(k)
        \/ x \in i + 1 .. j /\ Is(x) /\ \A k \in x + 1 .. j : ~Is(k)
    BY LastSignFacts DEF x, Is
  <1>3. \/ y = 0 /\ \A k \in (i + d) + 1 .. j + d : ~As(k)
        \/ y \in (i + d) + 1 .. j + d /\ As(y) /\ \A k \in y + 1 .. j + d : ~As(k)
    <2>1. i + d \in Nat /\ j + d \in Nat
      OBVIOUS
    <2>2. QED
      BY <2>1, LastSignFacts DEF y, As
  <1>4. ASSUME NEW k \in (i + d) + 1 .. j + d PROVE As(k) <=> Is(k - d)
    <2>1. k - d \in i + 1 .. j /\ (k - d) + d = k
      OBVIOUS
    <2>2. QED
      BY <1>1, <2>1
  <1>5. CASE x = 0
    <2>1. \A k \in i + 1 .. j : ~Is(k)
      BY <1>2, <1>5
    <2>2. \A k \in (i + d) + 1 .. j + d : ~As(k)
      <3>1. \A k \in (i + d) + 1 .. j + d : k - d \in i + 1 .. j
        OBVIOUS
      <3>2. QED
        BY <1>4, <2>1, <3>1
    <2>3. y = 0
      BY <1>3, <2>2
    <2>4. QED
      BY <1>5, <2>3 DEF x, y
  <1>6. CASE x # 0
    <2>1. x \in i + 1 .. j /\ Is(x) /\ \A k \in x + 1 .. j : ~Is(k)
      BY <1>2, <1>6
    <2>2. x + d \in (i + d) + 1 .. j + d /\ As(x + d)
      BY <1>1, <2>1
    <2>3. y \in (i + d) + 1 .. j + d /\ As(y) /\ \A k \in y + 1 .. j + d : ~As(k)
      BY <1>3, <2>2
    <2>4. ~(x + d > y)
      <3>1. x + d > y => x + d \in y + 1 .. j + d
        BY <2>2, <2>3
      <3>2. QED
        BY <2>2, <2>3, <3>1
    <2>5. ~(y > x + d)
      <3>1. y > x + d => y - d \in x + 1 .. j
        BY <2>1, <2>3
      <3>2. Is(y - d)
        BY <1>4, <2>3
      <3>3. QED
        BY <2>1, <3>1, <3>2
    <2>6. y = x + d
      BY <2>1, <2>3, <2>4, <2>5
    <2>7. QED
      BY <1>6, <2>6 DEF x, y
  <1>7. QED
    BY <1>5, <1>6

\* No tokens mean nothing.
LEMMA EmptyMeansNothing ==
  ASSUME NEW t, Len(t) \in Nat, NEW i \in 1 .. Len(t) + 1, NEW j \in 0 .. Len(t), i > j
  PROVE  Meaning(t, i, j) = Malformed
  BY MeaningUnfolds, Zenon

\* The tokens from i to j of t stand in u as well, and a '-' at their beginning
\* is a sign or not in both.
Shiftable(t, u, d, i, j) ==
  /\ i \in 1 .. Len(t) + 1 /\ j \in 0 .. Len(t)
  /\ i + d \in 1 .. Len(u) + 1 /\ j + d \in 0 .. Len(u)
  /\ Shifted(t, u, d, i, j)
  /\ i <= j /\ t[i].kind = "-" => (Leading(t, i) <=> Leading(u, i + d))

\* Less than n + 1 tokens mean the same in both.
SameBelow(t, u, d, n) ==
  \A a, b \in Int : b - a < n /\ Shiftable(t, u, d, a, b) =>
     Meaning(t, a, b) = Meaning(u, a + d, b + d)

\* Where a stretch is cut, or its brackets are taken off, both are still the same.
LEMMA PartsShiftable ==
  ASSUME NEW t, NEW u, Len(t) \in Nat, Len(u) \in Nat, NEW d \in Nat, NEW i, NEW j,
         Shiftable(t, u, d, i, j), i <= j
  PROVE  /\ \A c \in i + 1 .. j : Shiftable(t, u, d, i, c - 1)
         /\ \A c \in i + 1 .. j : t[c].kind \in Binary => Shiftable(t, u, d, c + 1, j)
         /\ t[i].kind = "(" /\ t[j].kind = ")" => Shiftable(t, u, d, i + 1, j - 1)
  <1>1. /\ i \in 1 .. Len(t) + 1 /\ j \in 0 .. Len(t)
        /\ i + d \in 1 .. Len(u) + 1 /\ j + d \in 0 .. Len(u)
        /\ \A k \in i .. j : u[k + d] = t[k]
        /\ t[i].kind = "-" => (Leading(t, i) <=> Leading(u, i + d))
    BY DEF Shiftable, Shifted
  <1>2. ASSUME NEW c \in i + 1 .. j PROVE Shiftable(t, u, d, i, c - 1)
    <2>1. \A k \in i .. c - 1 : k \in i .. j
      BY <1>1
    <2>2. c - 1 \in 0 .. Len(t) /\ (c - 1) + d \in 0 .. Len(u)
      BY <1>1
    <2>3. QED
      BY <1>1, <2>1, <2>2 DEF Shiftable, Shifted
  <1>3. ASSUME NEW c \in i + 1 .. j, t[c].kind \in Binary PROVE Shiftable(t, u, d, c + 1, j)
    <2>1. \A k \in c + 1 .. j : k \in i .. j
      BY <1>1
    <2>2. c + 1 \in 1 .. Len(t) + 1 /\ (c + 1) + d \in 1 .. Len(u) + 1
      BY <1>1
    <2>3. ~Leading(t, c + 1) /\ ~Leading(u, (c + 1) + d)
      <3>1. u[c + d] = t[c]
        BY <1>1, <1>3
      <3>2. (c + 1) - 1 = c /\ ((c + 1) + d) - 1 = c + d /\ c + 1 # 1 /\ (c + 1) + d # 1
        BY <1>1, <1>3
      <3>3. t[c].kind # "("
        BY <1>3 DEF Binary
      <3>4. QED
        BY <3>1, <3>2, <3>3 DEF Leading
    <2>4. QED
      BY <1>1, <2>1, <2>2, <2>3 DEF Shiftable, Shifted
  <1>4. ASSUME t[i].kind = "(", t[j].kind = ")" PROVE Shiftable(t, u, d, i + 1, j - 1)
    <2>0. i # j
      BY <1>4
    <2>1. \A k \in i + 1 .. j - 1 : k \in i .. j
      BY <1>1
    <2>2. /\ i + 1 \in 1 .. Len(t) + 1 /\ j - 1 \in 0 .. Len(t)
          /\ (i + 1) + d \in 1 .. Len(u) + 1 /\ (j - 1) + d \in 0 .. Len(u)
      BY <1>1, <2>0
    <2>3. Leading(t, i + 1) /\ Leading(u, (i + 1) + d)
      <3>1. u[i + d] = t[i]
        BY <1>1
      <3>2. (i + 1) - 1 = i /\ ((i + 1) + d) - 1 = i + d
        BY <1>1
      <3>3. QED
        BY <1>4, <3>1, <3>2 DEF Leading
    <2>4. QED
      BY <1>1, <2>1, <2>2, <2>3 DEF Shiftable, Shifted
  <1>5. QED
    BY <1>2, <1>3, <1>4

\* They are cut at the same place.
LEMMA CutShifts ==
  ASSUME NEW t, NEW u, NEW d \in Nat, NEW i \in Nat \ {0}, NEW j \in Nat, Shifted(t, u, d, i, j)
  PROVE  Cut(u, i + d, j + d) = IF Cut(t, i, j) = 0 THEN 0 ELSE Cut(t, i, j) + d
  <1> DEFINE x(s) == LastSign(t, i, j, s)
             y(s) == LastSign(u, i + d, j + d, s)
  <1>1. ASSUME NEW s PROVE /\ y(s) = IF x(s) = 0 THEN 0 ELSE x(s) + d
                           /\ x(s) # 0 => x(s) + d # 0
    <2>1. y(s) = IF x(s) = 0 THEN 0 ELSE x(s) + d
      BY LastSignShifts
    <2>2. x(s) = 0 \/ x(s) \in i + 1 .. j
      BY LastSignFacts
    <2> HIDE DEF x, y
    <2>3. QED
      BY <2>1, <2>2
  <1>2. Cut(t, i, j) = IF x({"+", "-"}) # 0 THEN x({"+", "-"}) ELSE x({"*", "/"})
    BY DEF Cut
  <1>3. Cut(u, i + d, j + d) = IF y({"+", "-"}) # 0 THEN y({"+", "-"}) ELSE y({"*", "/"})
    BY DEF Cut
  <1> HIDE DEF x, y
  <1>4. QED
    BY <1>1, <1>2, <1>3

\* What a cut finds is a sign outside the brackets.
LEMMA CutIsSign ==
  ASSUME NEW t, NEW i \in Nat, NEW j \in Nat, Cut(t, i, j) # 0
  PROVE  /\ Cut(t, i, j) \in i + 1 .. j
         /\ t[Cut(t, i, j)].kind \in Binary
         /\ Depth(t, Cut(t, i, j)) = Depth(t, i)
  <1>1. ASSUME NEW s, LastSign(t, i, j, s) # 0
        PROVE  /\ LastSign(t, i, j, s) \in i + 1 .. j
               /\ t[LastSign(t, i, j, s)].kind \in s
               /\ Depth(t, LastSign(t, i, j, s)) = Depth(t, i)
    BY <1>1, LastSignFacts
  <1>2. {"+", "-"} \subseteq Binary /\ {"*", "/"} \subseteq Binary
    BY DEF Binary
  <1>3. CASE LastSign(t, i, j, {"+", "-"}) # 0
    BY <1>1, <1>2, <1>3 DEF Cut
  <1>4. CASE LastSign(t, i, j, {"+", "-"}) = 0
    <2>1. LastSign(t, i, j, {"*", "/"}) # 0 /\ Cut(t, i, j) = LastSign(t, i, j, {"*", "/"})
      BY <1>4, Zenon DEF Cut
    <2>2. QED
      BY <1>1, <1>2, <2>1
  <1>5. QED
    BY <1>3, <1>4

\* If fewer tokens mean the same in both texts, so do these.
LEMMA MeaningShiftsOnce ==
  ASSUME NEW t, NEW u, Len(t) \in Nat, Len(u) \in Nat, NEW d \in Nat, NEW i \in Int, NEW j \in Int,
         i <= j, Shiftable(t, u, d, i, j), SameBelow(t, u, d, j - i)
  PROVE  Meaning(t, i, j) = Meaning(u, i + d, j + d)
  <1> DEFINE c == Cut(t, i, j)
             p == i + d
             q == j + d
             e == Cut(u, p, q)
  <1>1. /\ i \in 1 .. Len(t) + 1 /\ j \in 0 .. Len(t)
        /\ p \in 1 .. Len(u) + 1 /\ q \in 0 .. Len(u)
        /\ \A k \in i .. j : u[k + d] = t[k]
        /\ t[i].kind = "-" => (Leading(t, i) <=> Leading(u, p))
    BY DEF Shiftable, Shifted
  <1>2. e = IF c = 0 THEN 0 ELSE c + d
    <2>1. i \in Nat \ {0} /\ j \in Nat /\ Shifted(t, u, d, i, j)
      BY <1>1 DEF Shiftable
    <2>2. QED
      BY <2>1, CutShifts
  <1>3. u[p] = t[i] /\ u[q] = t[j]
    BY <1>1
  <1>4. ~(i > j) /\ ~(p > q) /\ (p = q <=> i = j) /\ (q = p + 1 <=> j = i + 1)
    OBVIOUS
  <1>5. /\ c # 0 => /\ c \in i + 1 .. j /\ t[c].kind \in Binary
        /\ i \in Nat /\ j \in Nat
    <2>1. i \in Nat /\ j \in Nat
      BY <1>1
    <2>2. QED
      BY <2>1, CutIsSign
  <1>6. ASSUME c # 0
        PROVE  /\ Meaning(t, i, c - 1) = Meaning(u, p, e - 1)
               /\ Meaning(t, c + 1, j) = Meaning(u, e + 1, q)
               /\ u[e] = t[c] /\ e # 0
    <2>1. c \in i + 1 .. j /\ t[c].kind \in Binary /\ e = c + d
      BY <1>2, <1>5, <1>6
    <2>2. Shiftable(t, u, d, i, c - 1) /\ Shiftable(t, u, d, c + 1, j)
      BY <2>1, PartsShiftable
    <2> HIDE DEF c, e
    <2>3. (c - 1) - i < j - i /\ j - (c + 1) < j - i /\ c - 1 \in Int /\ c + 1 \in Int
      BY <2>1
    <2>4. Meaning(t, i, c - 1) = Meaning(u, i + d, (c - 1) + d)
      BY <2>2, <2>3 DEF SameBelow
    <2>5. Meaning(t, c + 1, j) = Meaning(u, (c + 1) + d, j + d)
      BY <2>2, <2>3 DEF SameBelow
    <2>6. (c - 1) + d = e - 1 /\ (c + 1) + d = e + 1 /\ e # 0 /\ c \in i .. j
      <3>1. c \in i + 1 .. j /\ e = c + d /\ i \in Nat
        BY <1>5, <2>1
      <3>2. QED
        BY <3>1
    <2>7. u[e] = t[c]
      BY <1>1, <2>1, <2>6
    <2>8. QED
      BY <2>4, <2>5, <2>6, <2>7
  <1>7. ASSUME t[i].kind = "(", t[j].kind = ")"
        PROVE  Meaning(t, i + 1, j - 1) = Meaning(u, p + 1, q - 1)
    <2>1. Shiftable(t, u, d, i + 1, j - 1)
      BY <1>7, PartsShiftable
    <2>2. (j - 1) - (i + 1) < j - i /\ i + 1 \in Int /\ j - 1 \in Int
      OBVIOUS
    <2>3. Meaning(t, i + 1, j - 1) = Meaning(u, (i + 1) + d, (j - 1) + d)
      BY <2>1, <2>2 DEF SameBelow
    <2>4. (i + 1) + d = p + 1 /\ (j - 1) + d = q - 1
      OBVIOUS
    <2>5. QED
      BY <2>3, <2>4
  <1>8. Meaning(t, i, j) =
           IF i > j THEN Malformed
           ELSE IF c # 0 THEN Combined(Meaning(t, i, c - 1), t[c].kind, Meaning(t, c + 1, j))
           ELSE IF i = j /\ t[i].kind = "number" THEN ValueOf(t[i].value)
           ELSE IF j = i + 1 /\ Leading(t, i) /\ t[i].kind = "-" /\ t[j].kind = "number"
                THEN ValueOf(-t[j].value)
           ELSE IF t[i].kind = "(" /\ t[j].kind = ")" THEN Meaning(t, i + 1, j - 1)
           ELSE Malformed
    BY <1>1, MeaningUnfolds
  <1>9. Meaning(u, p, q) =
           IF p > q THEN Malformed
           ELSE IF e # 0 THEN Combined(Meaning(u, p, e - 1), u[e].kind, Meaning(u, e + 1, q))
           ELSE IF p = q /\ u[p].kind = "number" THEN ValueOf(u[p].value)
           ELSE IF q = p + 1 /\ Leading(u, p) /\ u[p].kind = "-" /\ u[q].kind = "number"
                THEN ValueOf(-u[q].value)
           ELSE IF u[p].kind = "(" /\ u[q].kind = ")" THEN Meaning(u, p + 1, q - 1)
           ELSE Malformed
    <2> HIDE DEF p, q
    <2>1. QED
      BY <1>1, MeaningUnfolds
  <1> HIDE DEF c, e, p, q
  <1>10. CASE c # 0
    <2>1. /\ Meaning(t, i, j) = Combined(Meaning(t, i, c - 1), t[c].kind, Meaning(t, c + 1, j))
          /\ Meaning(u, p, q) = Combined(Meaning(u, p, e - 1), u[e].kind, Meaning(u, e + 1, q))
      BY <1>4, <1>6, <1>8, <1>9, <1>10, Zenon
    <2>2. Meaning(t, i, j) = Meaning(u, p, q)
      BY <1>6, <1>10, <2>1, Zenon
    <2>3. QED
      BY <2>2 DEF p, q
  <1>11. CASE c = 0
    <2>1. e = 0
      BY <1>2, <1>11
    <2> DEFINE R(x) ==
           IF i = j /\ t[i].kind = "number" THEN ValueOf(t[i].value)
           ELSE IF j = i + 1 /\ Leading(t, i) /\ t[i].kind = "-" /\ t[j].kind = "number"
                THEN ValueOf(-t[j].value)
           ELSE IF t[i].kind = "(" /\ t[j].kind = ")" THEN x
           ELSE Malformed
    <2>2. Meaning(t, i, j) = R(Meaning(t, i + 1, j - 1))
      BY <1>4, <1>8, <1>11, Zenon
    <2>3. Meaning(u, p, q) = R(Meaning(u, p + 1, q - 1))
      <3>1. Meaning(u, p, q) =
              IF p = q /\ u[p].kind = "number" THEN ValueOf(u[p].value)
              ELSE IF q = p + 1 /\ Leading(u, p) /\ u[p].kind = "-" /\ u[q].kind = "number"
                   THEN ValueOf(-u[q].value)
              ELSE IF u[p].kind = "(" /\ u[q].kind = ")" THEN Meaning(u, p + 1, q - 1)
              ELSE Malformed
        BY <1>4, <1>9, <2>1, Zenon
      <3>2. QED
        BY <1>1, <1>3, <1>4, <3>1
    <2>4. Meaning(t, i, j) = Meaning(u, p, q)
      <3>1. CASE t[i].kind = "(" /\ t[j].kind = ")"
        BY <1>7, <2>2, <2>3, <3>1, Zenon
      <3>2. CASE ~(t[i].kind = "(" /\ t[j].kind = ")")
        <4>1. R(Meaning(t, i + 1, j - 1)) = R(Meaning(u, p + 1, q - 1))
          BY <3>2
        <4> HIDE DEF R
        <4>2. QED
          BY <2>2, <2>3, <4>1
      <3>3. QED
        BY <3>1, <3>2
    <2>5. QED
      BY <2>4 DEF p, q
  <1>12. QED
    BY <1>10, <1>11

\* The same tokens mean the same, wherever they stand.
LEMMA MeaningShifts ==
  ASSUME NEW t, NEW u, Len(t) \in Nat, Len(u) \in Nat, NEW d \in Nat, NEW i \in Int, NEW j \in Int,
         Shiftable(t, u, d, i, j)
  PROVE  Meaning(t, i, j) = Meaning(u, i + d, j + d)
  <1> DEFINE S == {n \in Nat : SameBelow(t, u, d, n)}
  <1>1. ASSUME NEW a \in Int, NEW b \in Int, b < a, Shiftable(t, u, d, a, b)
        PROVE  Meaning(t, a, b) = Meaning(u, a + d, b + d)
    <2>1. /\ a \in 1 .. Len(t) + 1 /\ b \in 0 .. Len(t) /\ a > b
          /\ a + d \in 1 .. Len(u) + 1 /\ b + d \in 0 .. Len(u) /\ a + d > b + d
      BY <1>1 DEF Shiftable
    <2>2. Meaning(t, a, b) = Malformed
      BY <2>1, EmptyMeansNothing
    <2> DEFINE p == a + d
               q == b + d
    <2>3. p \in 1 .. Len(u) + 1 /\ q \in 0 .. Len(u) /\ p > q
      BY <2>1
    <2> HIDE DEF p, q
    <2>4. Meaning(u, p, q) = Malformed
      BY <2>3, EmptyMeansNothing
    <2>5. QED
      BY <2>2, <2>4 DEF p, q
  <1>2. 0 \in S
    <2>1. \A a, b \in Int : b - a < 0 => b < a
      OBVIOUS
    <2>2. SameBelow(t, u, d, 0)
      BY <1>1, <2>1 DEF SameBelow
    <2>3. QED
      BY <2>2
  <1>3. ASSUME NEW n \in S PROVE n + 1 \in S
    <2>1. n \in Nat /\ SameBelow(t, u, d, n)
      OBVIOUS
    <2>2. ASSUME NEW a \in Int, NEW b \in Int, b - a < n + 1, Shiftable(t, u, d, a, b)
          PROVE  Meaning(t, a, b) = Meaning(u, a + d, b + d)
      <3>1. CASE b - a < n
        BY <2>1, <2>2, <3>1 DEF SameBelow
      <3>2. CASE ~(b - a < n)
        <4>1. b - a = n /\ a <= b
          BY <2>1, <2>2, <3>2
        <4>2. SameBelow(t, u, d, b - a)
          BY <2>1, <4>1
        <4>3. QED
          BY <2>2, <4>1, <4>2, MeaningShiftsOnce
      <3>3. QED
        BY <3>1, <3>2
    <2>3. n + 1 \in Nat /\ SameBelow(t, u, d, n + 1)
      BY <2>1, <2>2 DEF SameBelow
    <2>4. QED
      BY <2>3
  <1>4. S = Nat
    <2>1. S \in SUBSET Nat
      OBVIOUS
    <2> HIDE DEF S
    <2>2. QED
      BY <1>2, <1>3, <2>1, Induction
  <1>5. CASE j < i
    BY <1>1, <1>5
  <1>6. CASE i <= j
    <2>1. j - i + 1 \in Nat /\ j - i < j - i + 1
      BY <1>6
    <2>2. j - i + 1 \in S
      <3> HIDE DEF S
      <3>1. QED
        BY <1>4, <2>1
    <2>3. SameBelow(t, u, d, j - i + 1)
      BY <2>2
    <2>4. QED
      BY <2>1, <2>3 DEF SameBelow
  <1>7. QED
    BY <1>5, <1>6

-----------------------------------------------------------------------------
(* What has a meaning is well formed                                         *)

\* An operand ends at the k-th place.
Ended(t, k) == k >= 1 /\ t[k].kind \in {"number", ")"}

\* A '-' that belongs to the number after it.
Signed(t, k) == t[k].kind = "-" /\ Leading(t, k)

\* The k-th token may stand after the one before it.
Fits(t, k) ==
  /\ t[k].kind # "bad"
  /\ k > 1 => t[k - 1].kind # "end" /\ (Signed(t, k - 1) => t[k].kind = "number")
  /\ t[k].kind \in {"number", "("} => ~Ended(t, k - 1)
  /\ t[k].kind \in Binary \cup {")", "end"} =>
       Ended(t, k - 1) \/ (t[k].kind = "-" /\ Leading(t, k))

\* An operand begins at the i-th place.
Begins(t, i) == t[i].kind \in {"number", "("} \/ (t[i].kind = "-" /\ Leading(t, i))

\* The tokens from i to j begin and end as an expression does, each fits, as many
\* brackets are closed as are opened, and none that was opened before.
WellFormed(t, i, j) ==
  /\ i <= j /\ Begins(t, i) /\ Ended(t, j)
  /\ \A k \in i + 1 .. j : Fits(t, k)
  /\ Depth(t, j + 1) = Depth(t, i)
  /\ \A k \in i .. j + 1 : Depth(t, i) <= Depth(t, k)

\* Kinds of tokens that differ.
LEMMA SignsDiffer ==
  ASSUME NEW x \in Binary
  PROVE  x \notin {"number", "(", ")", "end", "bad"}
  BY DEF Binary

\* Two well-formed stretches with a sign between them.
LEMMA JoinWellFormed ==
  ASSUME NEW t, NEW i \in Nat \ {0}, NEW c \in Nat, NEW j \in Nat,
         t[c].kind \in Binary, WellFormed(t, i, c - 1), WellFormed(t, c + 1, j)
  PROVE  WellFormed(t, i, j)
  <1>1. i <= c - 1 /\ c + 1 <= j /\ c \in Nat \ {0}
    BY DEF WellFormed
  <1>2. ~Leading(t, c + 1) /\ ~Ended(t, c)
    <2>1. c + 1 # 1 /\ (c + 1) - 1 = c
      BY <1>1
    <2>2. QED
      BY <2>1, SignsDiffer DEF Leading, Ended
  <1>3. t[c + 1].kind \in {"number", "("}
    BY <1>2 DEF WellFormed, Begins
  <1>4. t[c - 1].kind \in {"number", ")"} /\ c # 1
    BY <1>1 DEF WellFormed, Ended
  <1>5. Fits(t, c)
    <2>1. Ended(t, c - 1)
      BY DEF WellFormed
    <2>2. t[c].kind \notin {"number", "(", "bad"}
      BY SignsDiffer
    <2>3. t[c - 1].kind # "end" /\ ~Signed(t, c - 1)
      BY <1>4 DEF Signed
    <2>4. QED
      BY <2>1, <2>2, <2>3 DEF Fits
  <1>6. Fits(t, c + 1)
    <2>1. (c + 1) - 1 = c
      OBVIOUS
    <2>2. t[c + 1].kind \notin Binary \cup {")", "end", "bad"}
      BY <1>3 DEF Binary
    <2>3. t[c].kind # "end" /\ ~Signed(t, c)
      BY <1>4, SignsDiffer DEF Signed, Leading
    <2>4. QED
      BY <1>2, <1>3, <2>1, <2>2, <2>3 DEF Fits
  <1>7. ASSUME NEW k \in i + 1 .. j PROVE Fits(t, k)
    <2>1. k \in i + 1 .. c - 1 \/ k = c \/ k = c + 1 \/ k \in (c + 1) + 1 .. j
      OBVIOUS
    <2>2. QED
      BY <1>5, <1>6, <2>1 DEF WellFormed
  <1>8. Depth(t, j + 1) = Depth(t, i)
    <2>1. Depth(t, c + 1) = Depth(t, c) + Rise(t[c]) /\ Depth(t, c) \in Int
      BY <1>1, DepthRises
    <2>2. Rise(t[c]) = 0
      BY SignsDiffer DEF Rise
    <2>3. Depth(t, c) = Depth(t, i)
      <3>1. (c - 1) + 1 = c
        OBVIOUS
      <3>2. QED
        BY <3>1 DEF WellFormed
    <2>4. Depth(t, j + 1) = Depth(t, c + 1)
      BY DEF WellFormed
    <2>5. QED
      BY <2>1, <2>2, <2>3, <2>4
  <1>9. i <= j
    BY <1>1
  <1>10. ASSUME NEW k \in i .. j + 1 PROVE Depth(t, i) <= Depth(t, k)
    <2>1. k \in i .. (c - 1) + 1 \/ k \in c + 1 .. j + 1
      BY <1>1
    <2>2. Depth(t, c + 1) = Depth(t, i)
      BY <1>8 DEF WellFormed
    <2>3. QED
      BY <2>1, <2>2 DEF WellFormed
  <1>11. QED
    BY <1>7, <1>8, <1>9, <1>10 DEF WellFormed

\* A well-formed stretch within brackets.
LEMMA BracketWellFormed ==
  ASSUME NEW t, NEW i \in Nat \ {0}, NEW j \in Nat,
         t[i].kind = "(", t[j].kind = ")", WellFormed(t, i + 1, j - 1)
  PROVE  WellFormed(t, i, j)
  <1>1. i + 1 <= j - 1 /\ j \in Nat \ {0}
    BY DEF WellFormed
  <1>2. Fits(t, i + 1)
    <2>1. (i + 1) - 1 = i
      OBVIOUS
    <2>2. ~Ended(t, i)
      BY DEF Ended
    <2>6. t[i].kind # "end" /\ ~Signed(t, i)
      BY DEF Signed
    <2>3. CASE t[i + 1].kind \in {"number", "("}
      <3>1. t[i + 1].kind \notin Binary \cup {")", "end", "bad"}
        BY <2>3 DEF Binary
      <3>2. QED
        BY <2>1, <2>2, <2>6, <3>1 DEF Fits
    <2>4. CASE t[i + 1].kind = "-" /\ Leading(t, i + 1)
      BY <2>1, <2>4, <2>6 DEF Fits
    <2>5. QED
      BY <2>3, <2>4 DEF WellFormed, Begins
  <1>3. Fits(t, j)
    <2>1. t[j - 1].kind \in {"number", ")"} /\ Ended(t, j - 1)
      BY DEF Ended, WellFormed
    <2>2. t[j - 1].kind # "end" /\ ~Signed(t, j - 1)
      BY <2>1 DEF Signed
    <2>3. QED
      BY <2>1, <2>2 DEF Fits
  <1>4. ASSUME NEW k \in i + 1 .. j PROVE Fits(t, k)
    <2>1. k = i + 1 \/ k = j \/ k \in (i + 1) + 1 .. j - 1
      OBVIOUS
    <2>2. QED
      BY <1>2, <1>3, <2>1 DEF WellFormed
  <1>5. Depth(t, j + 1) = Depth(t, i)
    <2>1. Depth(t, i + 1) = Depth(t, i) + 1 /\ Depth(t, i) \in Int
      BY DepthRises DEF Rise
    <2>2. Depth(t, j + 1) = Depth(t, j) + Rise(t[j]) /\ Rise(t[j]) = -1
      BY <1>1, DepthRises DEF Rise
    <2>3. Depth(t, j) = Depth(t, i + 1)
      <3>1. (j - 1) + 1 = j
        OBVIOUS
      <3>2. QED
        BY <3>1 DEF WellFormed
    <2>4. QED
      BY <2>1, <2>2, <2>3
  <1>6. i <= j /\ Begins(t, i) /\ Ended(t, j)
    BY <1>1 DEF Begins, Ended
  <1>7. ASSUME NEW k \in i .. j + 1 PROVE Depth(t, i) <= Depth(t, k)
    <2>1. k = i \/ k = j + 1 \/ k \in i + 1 .. (j - 1) + 1
      OBVIOUS
    <2>2. Depth(t, i + 1) = Depth(t, i) + 1 /\ Depth(t, i) \in Int
      BY DepthRises DEF Rise
    <2>3. CASE k \in i + 1 .. (j - 1) + 1
      <3>1. Depth(t, i + 1) <= Depth(t, k)
        BY <2>3 DEF WellFormed
      <3>2. k \in Nat \ {0}
        BY <2>3
      <3>3. Depth(t, k) \in Int
        BY <3>2, DepthRises
      <3>4. QED
        BY <2>2, <3>1, <3>3
    <2>4. QED
      BY <1>5, <2>1, <2>2, <2>3
  <1>8. QED
    BY <1>4, <1>5, <1>6, <1>7 DEF WellFormed

\* A number, with or without a '-' before it.
LEMMA NumberWellFormed ==
  ASSUME NEW t, NEW i \in Nat \ {0}
  PROVE  /\ t[i].kind = "number" => WellFormed(t, i, i)
         /\ t[i].kind = "-" /\ Leading(t, i) /\ t[i + 1].kind = "number" => WellFormed(t, i, i + 1)
  <1>1. ASSUME t[i].kind = "number" PROVE WellFormed(t, i, i)
    <2>1. Depth(t, i + 1) = Depth(t, i)
      <3>1. Depth(t, i + 1) = Depth(t, i) + Rise(t[i]) /\ Depth(t, i) \in Int
        BY DepthRises
      <3>2. Rise(t[i]) = 0
        BY <1>1 DEF Rise
      <3>3. QED
        BY <3>1, <3>2
    <2>2. i + 1 .. i = {} /\ i >= 1
      OBVIOUS
    <2>4. \A k \in i .. i + 1 : Depth(t, i) <= Depth(t, k)
      <3>1. Depth(t, i) \in Int /\ \A k \in i .. i + 1 : k = i \/ k = i + 1
        BY DepthRises
      <3>2. QED
        BY <2>1, <3>1
    <2>3. QED
      BY <1>1, <2>1, <2>2, <2>4 DEF WellFormed, Begins, Ended
  <1>2. ASSUME t[i].kind = "-", Leading(t, i), t[i + 1].kind = "number" PROVE WellFormed(t, i, i + 1)
    <2>1. /\ Depth(t, (i + 1) + 1) = Depth(t, i) /\ Depth(t, i + 1) = Depth(t, i)
          /\ Depth(t, i) \in Int
      <3>1. /\ Depth(t, i + 1) = Depth(t, i) + Rise(t[i]) /\ Depth(t, i) \in Int
            /\ Depth(t, (i + 1) + 1) = Depth(t, i + 1) + Rise(t[i + 1])
        <4>1. i + 1 \in Nat \ {0}
          OBVIOUS
        <4>2. QED
          BY <4>1, DepthRises
      <3>2. Rise(t[i]) = 0 /\ Rise(t[i + 1]) = 0
        BY <1>2 DEF Rise
      <3>3. QED
        BY <3>1, <3>2
    <2>2. Fits(t, i + 1)
      <3>1. (i + 1) - 1 = i
        OBVIOUS
      <3>2. t[i].kind # "end" /\ ~Ended(t, i)
        BY <1>2 DEF Ended
      <3>3. t[i + 1].kind \notin Binary \cup {")", "end", "bad"}
        BY <1>2 DEF Binary
      <3>4. QED
        BY <1>2, <3>1, <3>2, <3>3 DEF Fits
    <2>3. \A k \in i + 1 .. i + 1 : k = i + 1
      OBVIOUS
    <2>4. i <= i + 1 /\ i + 1 >= 1
      OBVIOUS
    <2>6. \A k \in i .. (i + 1) + 1 : Depth(t, i) <= Depth(t, k)
      <3>1. \A k \in i .. (i + 1) + 1 : k = i \/ k = i + 1 \/ k = (i + 1) + 1
        OBVIOUS
      <3>2. QED
        BY <2>1, <3>1
    <2>5. QED
      BY <1>2, <2>1, <2>2, <2>3, <2>4, <2>6 DEF WellFormed, Begins, Ended
  <1>3. QED
    BY <1>1, <1>2

\* Only what is well formed has a meaning.
LEMMA MeantIsWellFormed ==
  ASSUME NEW t, Len(t) \in Nat, NEW i \in 1 .. Len(t) + 1, NEW j \in 0 .. Len(t),
         Meaning(t, i, j).kind # "malformed"
  PROVE  WellFormed(t, i, j)
  <1> DEFINE Holds(n) == \A a \in 1 .. Len(t) + 1 : \A b \in 0 .. Len(t) :
                           b - a < n /\ Meaning(t, a, b).kind # "malformed" => WellFormed(t, a, b)
             S == {n \in Nat : Holds(n)}
  <1>1. ASSUME NEW a \in 1 .. Len(t) + 1, NEW b \in 0 .. Len(t),
               Meaning(t, a, b).kind # "malformed"
        PROVE  a <= b
    <2>1. CASE a > b
      <3>1. Meaning(t, a, b) = Malformed
        BY <2>1, EmptyMeansNothing
      <3>2. QED
        BY <1>1, <3>1 DEF Malformed
    <2>2. QED
      BY <2>1
  <1>2. 0 \in S
    BY <1>1
  <1>3. ASSUME NEW n \in S PROVE n + 1 \in S
    <2>1. n \in Nat /\ Holds(n)
      OBVIOUS
    <2>2. ASSUME NEW a \in 1 .. Len(t) + 1, NEW b \in 0 .. Len(t), b - a < n + 1,
                 Meaning(t, a, b).kind # "malformed"
          PROVE  WellFormed(t, a, b)
      <3> DEFINE c == Cut(t, a, b)
      <3>1. a <= b /\ a \in Nat \ {0} /\ b \in Nat \ {0}
        BY <1>1, <2>2
      <3>2. c # 0 => c \in a + 1 .. b /\ t[c].kind \in Binary
        BY <3>1, CutIsSign
      <3>3. Meaning(t, a, b) =
           IF a > b THEN Malformed
           ELSE IF c # 0 THEN Combined(Meaning(t, a, c - 1), t[c].kind, Meaning(t, c + 1, b))
           ELSE IF a = b /\ t[a].kind = "number" THEN ValueOf(t[a].value)
           ELSE IF b = a + 1 /\ Leading(t, a) /\ t[a].kind = "-" /\ t[b].kind = "number"
                THEN ValueOf(-t[b].value)
           ELSE IF t[a].kind = "(" /\ t[b].kind = ")" THEN Meaning(t, a + 1, b - 1)
           ELSE Malformed
        BY MeaningUnfolds
      <3> HIDE DEF c
      <3>4. CASE c # 0
        <4>1. Meaning(t, a, b) = Combined(Meaning(t, a, c - 1), t[c].kind, Meaning(t, c + 1, b))
          BY <3>1, <3>3, <3>4
        <4>2. Meaning(t, a, c - 1).kind # "malformed" /\ Meaning(t, c + 1, b).kind # "malformed"
          BY <2>2, <4>1 DEF Combined, Malformed
        <4>3. c - 1 \in 0 .. Len(t) /\ c + 1 \in 1 .. Len(t) + 1 /\ (c - 1) - a < n /\ b - (c + 1) < n
          <5>1. c \in a + 1 .. b /\ b - a < n + 1 /\ n \in Nat
            BY <2>1, <2>2, <3>2, <3>4
          <5> HIDE DEF Holds, S
          <5>2. QED
            BY <5>1
        <4>4. WellFormed(t, a, c - 1) /\ WellFormed(t, c + 1, b)
          BY <2>1, <4>2, <4>3
        <4>5. c \in Nat /\ t[c].kind \in Binary
          BY <3>1, <3>2, <3>4
        <4>6. QED
          BY <3>1, <4>4, <4>5, JoinWellFormed
      <3>5. CASE c = 0
        <4>1. CASE a = b /\ t[a].kind = "number"
          BY <3>1, <4>1, NumberWellFormed
        <4>2. CASE b = a + 1 /\ Leading(t, a) /\ t[a].kind = "-" /\ t[b].kind = "number"
          BY <3>1, <4>2, NumberWellFormed
        <4>3. CASE t[a].kind = "(" /\ t[b].kind = ")"
          <5>1. Meaning(t, a, b) = Meaning(t, a + 1, b - 1)
            BY <3>1, <3>3, <3>5, <4>3
          <5>2. a + 1 \in 1 .. Len(t) + 1 /\ b - 1 \in 0 .. Len(t) /\ (b - 1) - (a + 1) < n
            BY <2>1, <2>2, <3>1
          <5>3. WellFormed(t, a + 1, b - 1)
            BY <2>1, <2>2, <5>1, <5>2
          <5>4. QED
            BY <3>1, <4>3, <5>3, BracketWellFormed
        <4>4. CASE /\ ~(a = b /\ t[a].kind = "number")
                   /\ ~(b = a + 1 /\ Leading(t, a) /\ t[a].kind = "-" /\ t[b].kind = "number")
                   /\ ~(t[a].kind = "(" /\ t[b].kind = ")")
          <5>1. Meaning(t, a, b) = Malformed
            BY <3>3, <3>5, <4>4, Zenon
          <5>2. QED
            BY <2>2, <5>1 DEF Malformed
        <4>5. QED
          BY <4>1, <4>2, <4>3, <4>4
      <3>6. QED
        BY <3>4, <3>5
    <2>3. QED
      BY <2>1, <2>2
  <1>4. S = Nat
    <2>1. S \in SUBSET Nat
      OBVIOUS
    <2> HIDE DEF S
    <2>2. QED
      BY <1>2, <1>3, <2>1, Induction
  <1>5. Holds(Len(t) + 1)
    <2>1. Len(t) + 1 \in S
      <3> HIDE DEF S
      <3>1. QED
        BY <1>4
    <2>2. QED
      BY <2>1
  <1>6. j - i < Len(t) + 1
    OBVIOUS
  <1>7. QED
    BY <1>5, <1>6

-----------------------------------------------------------------------------
(* Operands, brackets and signs                                              *)

\* Outside the brackets, no sign after a, up to b, is weaker than q.
Above(t, a, b, q) ==
  \A k \in a + 1 .. b :
     t[k].kind \in Binary /\ Depth(t, k) = Depth(t, a) => q <= Precedence(t[k].kind)

\* The signs and their precedence.
LEMMA Precedences ==
  ASSUME NEW x \in Binary
  PROVE  /\ Precedence(x) \in {1, 2}
         /\ Precedence(x) = 1 <=> x \in {"+", "-"}
         /\ Precedence(x) = 2 <=> x \in {"*", "/"}
  BY DEF Precedence, Binary, Markers

\* What is weaker than what is given up is still weaker.
LEMMA AboveLess ==
  ASSUME NEW t, NEW a, NEW b, NEW q \in Int, NEW r \in Int, r <= q, Above(t, a, b, q)
  PROVE  Above(t, a, b, r)
  <1>1. ASSUME NEW k \in a + 1 .. b, t[k].kind \in Binary, Depth(t, k) = Depth(t, a)
        PROVE  r <= Precedence(t[k].kind)
    <2>1. q <= Precedence(t[k].kind) /\ Precedence(t[k].kind) \in Int
      BY <1>1, Precedences DEF Above
    <2> DEFINE p == Precedence(t[k].kind)
    <2> HIDE DEF p
    <2>2. q <= p /\ p \in Int
      BY <2>1 DEF p
    <2>3. r <= p
      BY <2>2
    <2>4. QED
      BY <2>3 DEF p
  <1>2. QED
    BY <1>1 DEF Above

\* A sign between an operand of signs at least as strong and one of stronger
\* ones: the two are cut there.
LEMMA CutAtWeakest ==
  ASSUME NEW t, NEW a \in Nat \ {0}, NEW b \in Nat, NEW c \in a + 1 .. b,
         t[c].kind \in Binary, Depth(t, c) = Depth(t, a), c < b => t[c + 1].kind \notin Binary,
         Above(t, a, c - 1, Precedence(t[c].kind)),
         Above(t, c + 1, b, Precedence(t[c].kind) + 1)
  PROVE  /\ Cut(t, a, b) = c
         /\ Above(t, a, b, Precedence(t[c].kind))
  <1> DEFINE q == Precedence(t[c].kind)
             Outer(k) == t[k].kind \in Binary /\ Depth(t, k) = Depth(t, a)
  <1>1. q \in {1, 2} /\ (q = 1 <=> t[c].kind \in {"+", "-"}) /\ (q = 2 <=> t[c].kind \in {"*", "/"})
    BY Precedences
  <1>2. ASSUME NEW k \in a + 1 .. c - 1, Outer(k) PROVE q <= Precedence(t[k].kind)
    BY <1>2 DEF Above
  <1>3. ASSUME NEW k \in c + 1 .. b, Outer(k) PROVE q + 1 <= Precedence(t[k].kind)
    <2>1. k # c + 1
      BY <1>3
    <2>2. k \in (c + 1) + 1 .. b
      BY <2>1
    <2>3. Depth(t, c + 1) = Depth(t, a)
      <3>1. c \in Nat \ {0}
        OBVIOUS
      <3>2. Depth(t, c) \in Int /\ Depth(t, c + 1) = Depth(t, c) + Rise(t[c])
        BY <3>1, DepthRises
      <3>3. Rise(t[c]) = 0
        BY SignsDiffer DEF Rise
      <3>4. QED
        BY <3>2, <3>3
    <2>4. QED
      BY <1>3, <2>2, <2>3 DEF Above
  <1>4. Outer(c)
    OBVIOUS
  <1>5. ASSUME NEW k, Outer(k)
        PROVE  /\ Precedence(t[k].kind) \in {1, 2}
               /\ Precedence(t[k].kind) = 1 <=> t[k].kind \in {"+", "-"}
               /\ Precedence(t[k].kind) = 2 <=> t[k].kind \in {"*", "/"}
    BY <1>5, Precedences
  <1>6. Above(t, a, b, q)
    <2>1. ASSUME NEW k \in a + 1 .. b, Outer(k) PROVE q <= Precedence(t[k].kind)
      <3>1. CASE k \in a + 1 .. c - 1
        BY <1>2, <2>1, <3>1
      <3>2. CASE k = c
        BY <1>1, <3>2
      <3>3. CASE k \in c + 1 .. b
        <4>1. q + 1 <= Precedence(t[k].kind) /\ Precedence(t[k].kind) \in {1, 2}
          BY <1>3, <1>5, <2>1, <3>3
        <4> DEFINE p == Precedence(t[k].kind)
        <4> HIDE DEF p, q
        <4>2. q + 1 <= p /\ p \in {1, 2} /\ q \in {1, 2}
          BY <1>1, <4>1 DEF p
        <4>3. q <= p
          BY <4>2
        <4>4. QED
          BY <4>3 DEF p
      <3>4. k \in a + 1 .. c - 1 \/ k = c \/ k \in c + 1 .. b
        OBVIOUS
      <3>5. QED
        BY <3>1, <3>2, <3>3, <3>4
    <2>2. QED
      BY <2>1 DEF Above
  <1> DEFINE x(s) == LastSign(t, a, b, s)
  <1>7. ASSUME NEW s \in SUBSET Binary
        PROVE  \/ x(s) = 0 /\ \A k \in a + 1 .. b : ~(t[k].kind \in s /\ Depth(t, k) = Depth(t, a))
               \/ /\ x(s) \in a + 1 .. b /\ t[x(s)].kind \in s /\ Outer(x(s))
                  /\ \A k \in x(s) + 1 .. b : ~(t[k].kind \in s /\ Depth(t, k) = Depth(t, a))
    <2>1. a \in Nat
      OBVIOUS
    <2>2. QED
      BY <2>1, LastSignFacts
  <1> HIDE DEF q, x, Outer
  <1>8. {"+", "-"} \in SUBSET Binary /\ {"*", "/"} \in SUBSET Binary
    BY DEF Binary
  <1>9. Cut(t, a, b) = IF x({"+", "-"}) # 0 THEN x({"+", "-"}) ELSE x({"*", "/"})
    BY DEF Cut, x
  <1>10. ASSUME NEW s \in SUBSET Binary, t[c].kind \in s,
                \A k \in c + 1 .. b : Outer(k) => t[k].kind \notin s
         PROVE  x(s) = c
    <2>1. /\ x(s) \in a + 1 .. b /\ t[x(s)].kind \in s /\ Outer(x(s))
          /\ \A k \in x(s) + 1 .. b : ~(t[k].kind \in s /\ Depth(t, k) = Depth(t, a))
      BY <1>7, <1>10
    <2>2. c \notin x(s) + 1 .. b
      BY <1>10, <2>1
    <2>3. x(s) \notin c + 1 .. b
      BY <1>10, <2>1
    <2>4. QED
      BY <2>1, <2>2, <2>3
  <1>11. CASE q = 1
    <2>1. ASSUME NEW k \in c + 1 .. b, Outer(k) PROVE t[k].kind \notin {"+", "-"}
      <3>1. q + 1 <= Precedence(t[k].kind)
        BY <1>3, <2>1
      <3>2. Precedence(t[k].kind) # 1
        BY <1>11, <3>1
      <3>3. QED
        BY <1>5, <2>1, <3>2
    <2>2. x({"+", "-"}) = c
      BY <1>1, <1>8, <1>10, <1>11, <2>1
    <2>3. c # 0
      OBVIOUS
    <2>4. QED
      BY <1>6, <1>9, <2>2, <2>3 DEF q
  <1>12. CASE q = 2
    <2>1. ASSUME NEW k \in c + 1 .. b PROVE ~Outer(k)
      <3>1. SUFFICES ASSUME Outer(k) PROVE FALSE
        OBVIOUS
      <3>2. q + 1 <= Precedence(t[k].kind) /\ Precedence(t[k].kind) \in {1, 2}
        BY <1>3, <1>5, <3>1
      <3>3. QED
        BY <1>12, <3>2
    <2>2. x({"*", "/"}) = c
      BY <1>1, <1>8, <1>10, <1>12, <2>1
    <2>3. x({"+", "-"}) = 0
      <3>1. SUFFICES ASSUME x({"+", "-"}) # 0 PROVE FALSE
        OBVIOUS
      <3> DEFINE y == x({"+", "-"})
      <3>2. y \in a + 1 .. b /\ t[y].kind \in {"+", "-"} /\ Outer(y)
        BY <1>7, <1>8, <3>1
      <3> HIDE DEF y
      <3>3. Precedence(t[y].kind) = 1
        BY <1>5, <3>2
      <3>4. y # c
        BY <1>12, <3>3 DEF q
      <3>5. y \notin a + 1 .. c - 1
        BY <1>2, <1>12, <3>2, <3>3
      <3>6. y \notin c + 1 .. b
        BY <2>1, <3>2
      <3>7. QED
        BY <3>2, <3>4, <3>5, <3>6
    <2>4. QED
      BY <1>6, <1>9, <2>2, <2>3 DEF q
  <1>13. QED
    BY <1>1, <1>11, <1>12

\* What a sign and its two operands mean together.
LEMMA JoinMeans ==
  ASSUME NEW t, Len(t) \in Nat, NEW a \in 1 .. Len(t), NEW b \in 1 .. Len(t), NEW c \in a + 1 .. b - 1,
         t[c].kind \in Binary, Depth(t, c) = Depth(t, a), Meaning(t, c + 1, b).kind # "malformed",
         Above(t, a, c - 1, Precedence(t[c].kind)),
         Above(t, c + 1, b, Precedence(t[c].kind) + 1)
  PROVE  /\ Meaning(t, a, b) = Combined(Meaning(t, a, c - 1), t[c].kind, Meaning(t, c + 1, b))
         /\ Above(t, a, b, Precedence(t[c].kind))
  <1>1. t[c + 1].kind \notin Binary
    <2>1. c + 1 \in 1 .. Len(t) + 1 /\ b \in 0 .. Len(t) /\ c + 1 # 1 /\ (c + 1) - 1 = c
      OBVIOUS
    <2>2. WellFormed(t, c + 1, b)
      BY <2>1, MeantIsWellFormed
    <2>3. ~Leading(t, c + 1)
      BY <2>1, SignsDiffer DEF Leading
    <2>4. t[c + 1].kind \in {"number", "("}
      BY <2>2, <2>3 DEF WellFormed, Begins
    <2>5. QED
      BY <2>4 DEF Binary
  <1>2. a \in Nat \ {0} /\ b \in Nat /\ c \in a + 1 .. b /\ c # 0 /\ ~(a > b)
    OBVIOUS
  <1>3. Cut(t, a, b) = c /\ Above(t, a, b, Precedence(t[c].kind))
    BY <1>1, <1>2, CutAtWeakest
  <1>4. a \in 1 .. Len(t) + 1 /\ b \in 0 .. Len(t)
    OBVIOUS
  <1>5. Meaning(t, a, b) = Combined(Meaning(t, a, c - 1), t[c].kind, Meaning(t, c + 1, b))
    BY <1>2, <1>3, <1>4, MeaningUnfolds
  <1>6. QED
    BY <1>3, <1>5

\* Where no sign stands outside the brackets, nothing is cut.
LEMMA NoCut ==
  ASSUME NEW t, NEW a \in Nat \ {0}, NEW b \in Nat, Above(t, a, b, 3)
  PROVE  Cut(t, a, b) = 0
  <1>1. SUFFICES ASSUME Cut(t, a, b) # 0 PROVE FALSE
    OBVIOUS
  <1> DEFINE c == Cut(t, a, b)
  <1>2. c \in a + 1 .. b /\ t[c].kind \in Binary /\ Depth(t, c) = Depth(t, a)
    BY <1>1, CutIsSign
  <1> HIDE DEF c
  <1>3. 3 <= Precedence(t[c].kind) /\ Precedence(t[c].kind) \in {1, 2}
    BY <1>2, Precedences DEF Above
  <1>4. QED
    BY <1>3

\* A number, with or without a '-' before it.
LEMMA NumberMeans ==
  ASSUME NEW t, Len(t) \in Nat, NEW a \in 1 .. Len(t)
  PROVE  /\ t[a].kind = "number" =>
              Meaning(t, a, a) = ValueOf(t[a].value) /\ Above(t, a, a, 3)
         /\ a < Len(t) /\ t[a].kind = "-" /\ Leading(t, a) /\ t[a + 1].kind = "number" =>
              Meaning(t, a, a + 1) = ValueOf(-t[a + 1].value) /\ Above(t, a, a + 1, 3)
  <1>1. ASSUME t[a].kind = "number"
        PROVE  Meaning(t, a, a) = ValueOf(t[a].value) /\ Above(t, a, a, 3)
    <2>1. a + 1 .. a = {}
      OBVIOUS
    <2>2. Above(t, a, a, 3)
      BY <2>1 DEF Above
    <2>3. a \in Nat \ {0} /\ a \in Nat /\ ~(a > a) /\ a \in 1 .. Len(t) + 1 /\ a \in 0 .. Len(t)
      OBVIOUS
    <2>4. Cut(t, a, a) = 0
      BY <2>2, <2>3, NoCut
    <2>5. Meaning(t, a, a) = ValueOf(t[a].value)
      BY <1>1, <2>3, <2>4, MeaningUnfolds
    <2>6. QED
      BY <2>2, <2>5
  <1>2. ASSUME a < Len(t), t[a].kind = "-", Leading(t, a), t[a + 1].kind = "number"
        PROVE  Meaning(t, a, a + 1) = ValueOf(-t[a + 1].value) /\ Above(t, a, a + 1, 3)
    <2>1. \A k \in a + 1 .. a + 1 : k = a + 1
      OBVIOUS
    <2>2. Above(t, a, a + 1, 3)
      BY <1>2, <2>1 DEF Above, Binary
    <2> DEFINE b == a + 1
    <2>3. /\ a \in Nat \ {0} /\ b \in Nat /\ ~(a > b) /\ a \in 1 .. Len(t) + 1 /\ b \in 0 .. Len(t)
          /\ a # b /\ b = a + 1
      BY <1>2
    <2>4. /\ t[a].kind = "-" /\ Leading(t, a) /\ t[b].kind = "number" /\ Above(t, a, b, 3)
      BY <1>2, <2>2
    <2> HIDE DEF b
    <2>5. Cut(t, a, b) = 0
      BY <2>3, <2>4, NoCut
    <2>6. Meaning(t, a, b) = ValueOf(-t[b].value)
      BY <2>3, <2>4, <2>5, MeaningUnfolds
    <2>7. QED
      BY <2>2, <2>6 DEF b
  <1>3. QED
    BY <1>1, <1>2

\* What is within two brackets that belong together.
LEMMA BracketMeans ==
  ASSUME NEW t, Len(t) \in Nat, NEW a \in 1 .. Len(t), NEW b \in 1 .. Len(t), a < b,
         t[a].kind = "(", t[b].kind = ")",
         \A k \in a + 1 .. b : Depth(t, a) < Depth(t, k)
  PROVE  Meaning(t, a, b) = Meaning(t, a + 1, b - 1) /\ Above(t, a, b, 3)
  <1>1. Above(t, a, b, 3)
    <2>1. ASSUME NEW k \in a + 1 .. b PROVE Depth(t, k) # Depth(t, a)
      <3>1. Depth(t, a) \in Int /\ Depth(t, a) < Depth(t, k)
        BY DepthRises
      <3>2. QED
        BY <3>1
    <2>2. QED
      BY <2>1 DEF Above
  <1>2. a \in Nat \ {0} /\ b \in Nat /\ ~(a > b) /\ a \in 1 .. Len(t) + 1 /\ b \in 0 .. Len(t)
    OBVIOUS
  <1>3. Cut(t, a, b) = 0
    BY <1>1, <1>2, NoCut
  <1>4. t[a].kind # "number" /\ t[a].kind # "-"
    OBVIOUS
  <1>5. Meaning(t, a, b) = Meaning(t, a + 1, b - 1)
    BY <1>2, <1>3, <1>4, MeaningUnfolds
  <1>6. QED
    BY <1>1, <1>5

\* A text that is longer means the same as far as it is the same.
LEMMA MeaningKept ==
  ASSUME NEW t, NEW u, Len(t) \in Nat, Len(u) \in Nat, Len(t) <= Len(u),
         \A k \in 1 .. Len(t) : u[k] = t[k],
         NEW i \in 1 .. Len(t) + 1, NEW j \in 0 .. Len(t)
  PROVE  Meaning(u, i, j) = Meaning(t, i, j)
  <1>1. i + 0 = i /\ j + 0 = j /\ i \in Int /\ j \in Int /\ 0 \in Nat
    OBVIOUS
  <1>2. ASSUME i <= j PROVE Leading(t, i) <=> Leading(u, i)
    <2>1. i = 1 \/ i - 1 \in 1 .. Len(t)
      OBVIOUS
    <2>2. QED
      BY <2>1 DEF Leading
  <1>3. \A k \in i .. j : k \in 1 .. Len(t) /\ k + 0 = k
    OBVIOUS
  <1>4. Shifted(t, u, 0, i, j)
    BY <1>3 DEF Shifted
  <1>5. i \in 1 .. Len(u) + 1 /\ j \in 0 .. Len(u)
    OBVIOUS
  <1>6. Shiftable(t, u, 0, i, j)
    BY <1>1, <1>2, <1>4, <1>5 DEF Shiftable
  <1>7. Meaning(t, i, j) = Meaning(u, i + 0, j + 0)
    BY <1>1, <1>6, MeaningShifts
  <1>8. QED
    BY <1>1, <1>7

\* And its brackets are as deep.
LEMMA DepthKept ==
  ASSUME NEW t, NEW u, NEW n \in Nat, \A k \in 1 .. n : u[k] = t[k], NEW k \in 1 .. n + 1
  PROVE  Depth(u, k) = Depth(t, k)
  <1>1. ASSUME NEW c PROVE {l \in 1 .. k - 1 : u[l].kind = c} = {l \in 1 .. k - 1 : t[l].kind = c}
    <2>1. \A l \in 1 .. k - 1 : u[l] = t[l]
      OBVIOUS
    <2>2. QED
      BY <2>1
  <1>2. QED
    BY <1>1, Zenon DEF Depth

-----------------------------------------------------------------------------
(* A division by zero that is done                                           *)

\* A sign outside the brackets cuts, unless a later or a weaker one does.
LEMMA CutIsLast ==
  ASSUME NEW t, NEW i \in Nat, NEW j \in Nat, NEW k \in i + 1 .. j,
         t[k].kind \in Binary, Depth(t, k) = Depth(t, i)
  PROVE  /\ Cut(t, i, j) # 0
         /\ k <= Cut(t, i, j) \/ t[Cut(t, i, j)].kind \in {"+", "-"}
         /\ t[k].kind \in {"+", "-"} => t[Cut(t, i, j)].kind \in {"+", "-"}
  <1> DEFINE sum == LastSign(t, i, j, {"+", "-"})
             product == LastSign(t, i, j, {"*", "/"})
             Outer(l, signs) == t[l].kind \in signs /\ Depth(t, l) = Depth(t, i)
  <1>1. \/ sum = 0 /\ \A l \in i + 1 .. j : ~Outer(l, {"+", "-"})
        \/ /\ sum \in i + 1 .. j /\ t[sum].kind \in {"+", "-"}
    BY LastSignFacts
  <1>2. \/ product = 0 /\ \A l \in i + 1 .. j : ~Outer(l, {"*", "/"})
        \/ product \in i + 1 .. j /\ \A l \in product + 1 .. j : ~Outer(l, {"*", "/"})
    BY LastSignFacts
  <1>3. Cut(t, i, j) = IF sum # 0 THEN sum ELSE product
    BY DEF Cut
  <1>4. Outer(k, {"+", "-"}) \/ Outer(k, {"*", "/"})
    BY DEF Binary
  <1>5. t[k].kind \in {"+", "-"} => Outer(k, {"+", "-"})
    OBVIOUS
  <1> HIDE DEF sum, product, Outer
  <1>6. CASE sum # 0
    <2>1. sum \in i + 1 .. j /\ t[sum].kind \in {"+", "-"} /\ Cut(t, i, j) = sum
      BY <1>1, <1>3, <1>6
    <2>2. QED
      BY <2>1
  <1>7. CASE sum = 0
    <2>1. ~Outer(k, {"+", "-"}) /\ Cut(t, i, j) = product
      BY <1>1, <1>3, <1>7
    <2>2. Outer(k, {"*", "/"})
      BY <1>4, <2>1
    <2>3. product \in i + 1 .. j /\ \A l \in product + 1 .. j : ~Outer(l, {"*", "/"})
      BY <1>2, <2>2
    <2>4. k <= product /\ product # 0
      BY <2>2, <2>3
    <2>5. QED
      BY <1>5, <2>1, <2>4
  <1>8. QED
    BY <1>6, <1>7

\* What stands before an operand that begins as deep as a longer stretch.
LEMMA SignBeforeOperand ==
  ASSUME NEW t, NEW i \in Nat \ {0}, NEW j \in Nat, WellFormed(t, i, j),
         NEW a \in i + 1 .. j, Depth(t, a) = Depth(t, i),
         t[a - 1].kind \in {"(", "+", "-"}, ~Signed(t, a - 1)
  PROVE  a - 1 \in i + 1 .. j /\ t[a - 1].kind \in {"+", "-"} /\ Depth(t, a - 1) = Depth(t, i)
  <1> DEFINE b == a - 1
  <1>1. b \in Nat \ {0} /\ b \in i .. j + 1 /\ b + 1 = a /\ b <= j
    OBVIOUS
  <1> HIDE DEF b
  <1>2. Depth(t, a) = Depth(t, b) + Rise(t[b]) /\ Depth(t, b) \in Int /\ Depth(t, i) <= Depth(t, b)
    BY <1>1, DepthRises DEF WellFormed
  <1>3. t[b].kind \in {"(", "+", "-"} /\ ~Signed(t, b)
    BY DEF b
  <1>4. t[b].kind # "("
    <2>1. t[b].kind = "(" => Rise(t[b]) = 1
      BY DEF Rise
    <2>2. Depth(t, i) \in Int
      BY DepthRises
    <2>3. QED
      BY <1>2, <2>1, <2>2
  <1>5. Depth(t, b) = Depth(t, i)
    <2>1. Rise(t[b]) = 0
      BY <1>3, <1>4 DEF Rise
    <2>2. QED
      BY <1>2, <2>1
  <1>6. b # i
    BY <1>3, <1>4 DEF WellFormed, Begins, Signed
  <1>7. b \in i + 1 .. j
    BY <1>1, <1>6
  <1>8. QED
    BY <1>3, <1>4, <1>5, <1>7 DEF b

\* What follows an operand that ends as deep as a longer stretch.
LEMMA SignAfterOperand ==
  ASSUME NEW t \in Seq(Tokens), NEW i \in Nat \ {0}, NEW j \in 0 .. Len(t), WellFormed(t, i, j),
         NEW n \in i .. j - 1, Ended(t, n), Depth(t, n + 1) = Depth(t, i)
  PROVE  t[n + 1].kind \in Binary
  <1> DEFINE b == n + 1
  <1>1. b \in i + 1 .. j /\ b - 1 = n /\ b \in 1 .. Len(t) /\ b \in Nat \ {0}
    OBVIOUS
  <1> HIDE DEF b
  <1>2. t[b].kind \in Kinds
    <2>1. t[b] \in Tokens
      BY <1>1
    <2>2. QED
      BY <2>1 DEF Tokens
  <1>3. Fits(t, b)
    BY <1>1 DEF WellFormed
  <1>4. t[b].kind \notin {"bad", "number", "("}
    BY <1>1, <1>3 DEF Fits
  <1>5. t[b].kind # "end"
    <2>1. CASE b = j
      BY <2>1 DEF WellFormed, Ended
    <2>2. CASE b # j
      <3>1. b + 1 \in i + 1 .. j /\ (b + 1) - 1 = b /\ b + 1 > 1
        BY <1>1, <2>2
      <3>2. Fits(t, b + 1)
        BY <3>1 DEF WellFormed
      <3>3. QED
        BY <3>1, <3>2 DEF Fits
    <2>3. QED
      BY <2>1, <2>2
  <1>6. t[b].kind # ")"
    <2>1. Depth(t, b + 1) = Depth(t, b) + Rise(t[b]) /\ Depth(t, b) \in Int
      BY <1>1, DepthRises
    <2>2. b + 1 \in i .. j + 1
      BY <1>1
    <2>3. Depth(t, i) <= Depth(t, b + 1) /\ Depth(t, b) = Depth(t, i)
      BY <2>2 DEF WellFormed, b
    <2>4. t[b].kind = ")" => Rise(t[b]) = -1
      BY DEF Rise
    <2>5. QED
      BY <2>1, <2>3, <2>4
  <1>7. t[b].kind \in Binary
    BY <1>2, <1>4, <1>5, <1>6 DEF Kinds
  <1>8. QED
    BY <1>7 DEF b

\* The tokens from a to n are factors of a product, the first one among them.
Factors(t, a, n) ==
  /\ a = 1 \/ (t[a - 1].kind \in {"(", "+", "-"} /\ ~Signed(t, a - 1))
  /\ Above(t, a, n, 2)

\* What is made of a stretch has no value if factors in it divide by zero.
LEMMA DivisionSpoils ==
  ASSUME NEW t \in Seq(Tokens), NEW a \in 1 .. Len(t), NEW n \in a .. Len(t),
         Meaning(t, a, n) = DividesByZero, Factors(t, a, n),
         NEW i \in 1 .. a, NEW j \in n .. Len(t)
  PROVE  Meaning(t, i, j).kind # "value"
  <1> DEFINE Holds(d) == \A b \in 1 .. a : \A e \in n .. Len(t) :
                           e - b < d => Meaning(t, b, e).kind \in {"malformed", "by_zero"}
             S == {d \in Nat : Holds(d)}
  <1>1. Len(t) \in Nat /\ a \in Nat \ {0} /\ n \in Nat \ {0} /\ a <= n /\ n <= Len(t)
    OBVIOUS
  <1>2. WellFormed(t, a, n)
    <2>1. a \in 1 .. Len(t) + 1 /\ n \in 0 .. Len(t) /\ Meaning(t, a, n).kind # "malformed"
      BY <1>1 DEF DividesByZero
    <2>2. QED
      BY <1>1, <2>1, MeantIsWellFormed
  <1>3. Depth(t, n + 1) = Depth(t, a) /\ Ended(t, n) /\ \A k \in a .. n + 1 : Depth(t, a) <= Depth(t, k)
    BY <1>2 DEF WellFormed
  <1>4. 0 \in S
    BY <1>1
  <1>5. ASSUME NEW d \in S PROVE d + 1 \in S
    <2>1. d \in Nat /\ Holds(d)
      OBVIOUS
    <2>2. ASSUME NEW b \in 1 .. a, NEW e \in n .. Len(t), e - b < d + 1,
                 Meaning(t, b, e).kind \notin {"malformed", "by_zero"}
          PROVE  FALSE
      <3> DEFINE c == Cut(t, b, e)
      <3>1. b \in Nat \ {0} /\ e \in Nat \ {0} /\ b <= a /\ n <= e /\ e <= Len(t) /\ ~(b > e)
            /\ b \in 1 .. Len(t) + 1 /\ e \in 0 .. Len(t)
        BY <1>1
      <3>2. WellFormed(t, b, e)
        BY <1>1, <2>2, <3>1, MeantIsWellFormed
      <3>3. Depth(t, b) \in Int /\ Depth(t, a) \in Int /\ Depth(t, b) <= Depth(t, a)
        <4>1. a \in b .. e + 1
          BY <1>1, <3>1
        <4>2. QED
          BY <1>1, <3>1, <3>2, <4>1, DepthRises DEF WellFormed
      <3>4. ~(b = a /\ e = n)
        BY <2>2 DEF DividesByZero
      <3>5. ASSUME b # a, Depth(t, a) = Depth(t, b)
            PROVE  a - 1 \in b + 1 .. e /\ t[a - 1].kind \in {"+", "-"} /\ Depth(t, a - 1) = Depth(t, b)
        <4>1. a \in b + 1 .. e /\ a # 1
          BY <1>1, <3>1, <3>5
        <4>2. t[a - 1].kind \in {"(", "+", "-"} /\ ~Signed(t, a - 1)
          BY <4>1 DEF Factors
        <4>3. QED
          BY <3>1, <3>2, <3>5, <4>1, <4>2, SignBeforeOperand
      <3>6. ASSUME e # n, Depth(t, a) = Depth(t, b)
            PROVE  n + 1 \in b + 1 .. e /\ t[n + 1].kind \in Binary /\ Depth(t, n + 1) = Depth(t, b)
        <4>1. n \in b .. e - 1 /\ n + 1 \in b + 1 .. e
          BY <1>1, <3>1, <3>6
        <4>2. Depth(t, n + 1) = Depth(t, b)
          BY <1>3, <3>6
        <4>3. QED
          BY <1>3, <3>1, <3>2, <4>1, <4>2, SignAfterOperand
      <3>7. Meaning(t, b, e) =
           IF b > e THEN Malformed
           ELSE IF c # 0 THEN Combined(Meaning(t, b, c - 1), t[c].kind, Meaning(t, c + 1, e))
           ELSE IF b = e /\ t[b].kind = "number" THEN ValueOf(t[b].value)
           ELSE IF e = b + 1 /\ Leading(t, b) /\ t[b].kind = "-" /\ t[e].kind = "number"
                THEN ValueOf(-t[e].value)
           ELSE IF t[b].kind = "(" /\ t[e].kind = ")" THEN Meaning(t, b + 1, e - 1)
           ELSE Malformed
        BY <1>1, <3>1, MeaningUnfolds
      <3>8. c # 0 => c \in b + 1 .. e /\ t[c].kind \in Binary /\ Depth(t, c) = Depth(t, b)
        BY <3>1, CutIsSign
      <3>9. ASSUME NEW k \in b + 1 .. e, t[k].kind \in Binary, Depth(t, k) = Depth(t, b)
            PROVE  /\ c # 0
                   /\ k <= c \/ t[c].kind \in {"+", "-"}
                   /\ t[k].kind \in {"+", "-"} => t[c].kind \in {"+", "-"}
        BY <3>1, <3>9, CutIsLast
      <3>10. {"+", "-"} \subseteq Binary
        BY DEF Binary
      <3> HIDE DEF c
      <3>11. CASE c # 0
        <4>1. c \in b + 1 .. e /\ t[c].kind \in Binary /\ Depth(t, c) = Depth(t, b)
          BY <3>8, <3>11
        <4>2. /\ Meaning(t, b, c - 1).kind \notin {"malformed", "by_zero"}
              /\ Meaning(t, c + 1, e).kind \notin {"malformed", "by_zero"}
          <5>1. Meaning(t, b, e) = Combined(Meaning(t, b, c - 1), t[c].kind, Meaning(t, c + 1, e))
            BY <3>1, <3>7, <3>11
          <5> DEFINE x == Meaning(t, b, c - 1)
                     y == Meaning(t, c + 1, e)
          <5>2. Combined(x, t[c].kind, y).kind \notin {"malformed", "by_zero"}
            BY <2>2, <5>1
          <5> HIDE DEF x, y
          <5>3. x.kind \notin {"malformed", "by_zero"} /\ y.kind \notin {"malformed", "by_zero"}
            BY <5>2 DEF Combined, Malformed, DividesByZero
          <5>4. QED
            BY <5>3 DEF x, y
        <4>3. ~(c < a)
          <5>1. ASSUME c < a PROVE FALSE
            <6>1. c + 1 \in 1 .. a /\ e - (c + 1) < d
              BY <1>1, <2>1, <2>2, <3>1, <4>1, <5>1
            <6>2. QED
              BY <2>1, <4>2, <6>1
          <5>2. QED
            BY <5>1
        <4>4. ~(c > n)
          <5>1. ASSUME c > n PROVE FALSE
            <6>1. c - 1 \in n .. Len(t) /\ (c - 1) - b < d
              BY <1>1, <2>1, <2>2, <3>1, <4>1, <5>1
            <6>2. QED
              BY <2>1, <4>2, <6>1
          <5>2. QED
            BY <5>1
        <4>5. c \in a .. n /\ c \in a .. n + 1
          BY <1>1, <3>1, <4>1, <4>3, <4>4
        <4>6. Depth(t, a) = Depth(t, b)
          <5>1. Depth(t, a) <= Depth(t, c)
            BY <1>3, <4>5
          <5>2. QED
            BY <3>3, <4>1, <5>1
        <4>7. c # a => t[c].kind \notin {"+", "-"}
          <5>1. ASSUME c # a PROVE t[c].kind \notin {"+", "-"}
            <6>1. c \in a + 1 .. n
              BY <1>1, <4>5, <5>1
            <6>2. 2 <= Precedence(t[c].kind)
              BY <4>1, <4>6, <6>1 DEF Factors, Above
            <6>3. QED
              BY <4>1, <6>2, Precedences
          <5>2. QED
            BY <5>1
        <4>8. b = a
          <5>1. ASSUME b # a PROVE FALSE
            <6>1. a - 1 \in b + 1 .. e /\ t[a - 1].kind \in {"+", "-"} /\ Depth(t, a - 1) = Depth(t, b)
              BY <3>5, <4>6, <5>1
            <6>2. t[c].kind \in {"+", "-"}
              BY <3>9, <3>10, <6>1
            <6>3. c = a
              BY <4>7, <6>2
            <6>4. t[a].kind = "-" /\ Leading(t, a)
              BY <1>2, <6>2, <6>3 DEF WellFormed, Begins
            <6>5. a # 1
              BY <3>1, <5>1
            <6>6. QED
              BY <6>1, <6>4, <6>5 DEF Leading
          <5>2. QED
            BY <5>1
        <4>9. c # a /\ t[c].kind \notin {"+", "-"}
          BY <3>1, <4>1, <4>7, <4>8
        <4>10. e = n
          <5>1. ASSUME e # n PROVE FALSE
            <6>1. n + 1 <= c
              BY <3>6, <3>9, <4>6, <4>9, <5>1
            <6>2. QED
              BY <1>1, <4>5, <6>1
          <5>2. QED
            BY <5>1
        <4>11. QED
          BY <3>4, <4>8, <4>10
      <3>12. CASE c = 0
        <4>1. b # a => Depth(t, a) # Depth(t, b)
          BY <3>5, <3>9, <3>10, <3>12
        <4>2. e # n => Depth(t, a) # Depth(t, b)
          BY <3>6, <3>9, <3>12
        <4>3. b # a /\ e # n
          <5>1. b = a => e = n
            BY <4>2
          <5>2. e = n => Depth(t, a) = Depth(t, b)
            <6>1. Depth(t, e + 1) = Depth(t, b)
              BY <3>2 DEF WellFormed
            <6>2. QED
              BY <1>3, <6>1
          <5>3. QED
            BY <3>4, <4>1, <5>1, <5>2
        <4>4. b \in 1 .. a - 1 /\ e \in n + 1 .. Len(t) /\ e # b /\ b + 1 \in 1 .. a /\ e - 1 \in n .. Len(t)
              /\ (e - 1) - (b + 1) < d
          BY <1>1, <2>1, <2>2, <3>1, <4>3
        <4>5. e # b + 1
          BY <1>1, <4>4
        <4>6. Meaning(t, b, e) = Meaning(t, b + 1, e - 1)
          BY <2>2, <3>1, <3>7, <3>12, <4>4, <4>5 DEF Malformed
        <4>7. QED
          BY <2>1, <2>2, <4>4, <4>6
      <3>13. QED
        BY <3>11, <3>12
    <2>3. QED
      BY <2>1, <2>2
  <1>6. S = Nat
    <2>1. S \in SUBSET Nat
      OBVIOUS
    <2> HIDE DEF S
    <2>2. QED
      BY <1>4, <1>5, <2>1, Induction
  <1>7. Holds(Len(t) + 1)
    <2>1. Len(t) + 1 \in S
      <3> HIDE DEF S
      <3>1. QED
        BY <1>1, <1>6
    <2>2. QED
      BY <2>1
  <1>8. j - i < Len(t) + 1
    BY <1>1
  <1>9. QED
    BY <1>7, <1>8

-----------------------------------------------------------------------------
(* Where the parser stands in the text                                       *)

\* Every token may stand after the one before it.
Proper(t) == \A k \in 1 .. Len(t) : Fits(t, k)

\* The i-th entry of the stack s: a bracket opened where the operand of the
\* entry below begins, or a sign after that operand, whose value waits.
Entry(t, s, ns, p, c, i) ==
  IF s[i] \in Markers
  THEN p[i] = p[i - 1] + 1 /\ c[i] = c[i - 1] /\ t[p[i]].kind = "("
  ELSE /\ p[i - 1] + 1 < p[i] /\ c[i] = c[i - 1] + 1 /\ t[p[i]].kind = s[i]
       /\ Depth(t, p[i]) = Depth(t, p[i - 1] + 1)
       /\ Meaning(t, p[i - 1] + 1, p[i] - 1) = ValueOf(ns[c[i]])
       /\ Above(t, p[i - 1] + 1, p[i] - 1, Precedence(s[i]))

\* The first n tokens of t are on the stacks: entry i of s stands for the token
\* p[i], the outermost marker for the beginning, with c[i] numbers before it;
\* no bracket that is open was closed since.
Traced(t, n, s, ns, p, c) ==
  /\ p \in [1 .. Len(s) -> 0 .. n] /\ c \in [1 .. Len(s) -> 0 .. Len(ns)]
  /\ p[1] = 0 /\ c[1] = 0
  /\ \A i \in 2 .. Len(s) : Entry(t, s, ns, p, c, i)
  /\ \A i, j \in 1 .. Len(s) : i < j => p[i] < p[j] /\ c[i] <= c[j]
  /\ \A i \in 1 .. Len(s) : s[i] \in Markers =>
       \A k \in p[i] + 1 .. n + 1 : Depth(t, p[i] + 1) <= Depth(t, k)
  /\ Depth(t, n + 1) = Depth(t, p[Len(s)] + 1)

\* After the topmost entry come either no tokens, or one operand whose value is
\* the number on top.
TopOperand(t, n, s, ns, p, c, q) ==
  LET m == Len(s) IN
  IF Ended(t, n)
  THEN /\ p[m] < n /\ Len(ns) = c[m] + 1
       /\ Meaning(t, p[m] + 1, n) = ValueOf(ns[Len(ns)])
       /\ Above(t, p[m] + 1, n, q) /\ Above(t, p[m] + 1, n, Precedence(s[m]) + 1)
  ELSE p[m] = n /\ Len(ns) = c[m]

Stacked(t, n, s, ns, q) ==
  \E p \in [1 .. Len(s) -> 0 .. n], c \in [1 .. Len(s) -> 0 .. Len(ns)] :
     Traced(t, n, s, ns, p, c) /\ TopOperand(t, n, s, ns, p, c, q)

StackedRead ==
  phase = "read" /\ Proper(text) => Stacked(text, Len(text), operators, numbers, 3)

StackedMinus ==
  phase = "minus" =>
    /\ text # <<>> /\ text[Len(text)].kind = "-"
    /\ Proper(text) =>
         /\ Last(operators) = "start" /\ ~Ended(text, Len(text) - 1)
         /\ Stacked(text, Len(text) - 1, operators, numbers, 3)

StackedUnwind ==
  phase = "unwind" =>
    /\ text # <<>> /\ text[Len(text)].kind = token
    /\ Proper(text) =>
         /\ Last(operators) # "start" /\ Ended(text, Len(text) - 1)
         /\ Stacked(text, Len(text) - 1, operators, numbers, Precedence(token))

\* A meaning at the end is the one number that is left.
StackedFinish ==
  phase = "finish" =>
    /\ text # <<>> /\ text[Len(text)].kind = "end"
    /\ TextMeaning(text).kind # "malformed" =>
         /\ operators = <<>> /\ Len(numbers) = 1
         /\ TextMeaning(text) = ValueOf(numbers[1])

\* The text u goes on where t ends.
GoesOn(t, u) ==
  Len(t) \in Nat /\ Len(u) \in Nat /\ Len(t) <= Len(u) /\ \A k \in 1 .. Len(t) : u[k] = t[k]

\* However the text t goes on, it has no value.
Hopeless(t) == \A u \in Seq(Tokens) : GoesOn(t, u) => TextMeaning(u).kind # "value"

\* What is said of a text, for any text that follows.
Verdict ==
  /\ phase = "value" /\ TextMeaning(text).kind # "malformed" => TextMeaning(text) = ValueOf(answer)
  /\ phase = "invalid" => Hopeless(text)

MeaningInv == StackedRead /\ StackedMinus /\ StackedUnwind /\ StackedFinish /\ Verdict

\* What that leaves as it is.
LEMMA PartsKept ==
  ASSUME NEW t, NEW u, GoesOn(t, u), NEW i \in 1 .. Len(t) + 1, NEW j \in 0 .. Len(t)
  PROVE  /\ Meaning(u, i, j) = Meaning(t, i, j)
         /\ Depth(u, i) = Depth(t, i)
         /\ Ended(u, j) <=> Ended(t, j)
         /\ \A q : Above(u, i, j, q) <=> Above(t, i, j, q)
  <1>1. /\ Len(t) \in Nat /\ Len(u) \in Nat /\ Len(t) <= Len(u)
        /\ \A k \in 1 .. Len(t) : u[k] = t[k]
    BY DEF GoesOn
  <1>2. Meaning(u, i, j) = Meaning(t, i, j)
    BY <1>1, MeaningKept
  <1>3. \A k \in 1 .. Len(t) + 1 : Depth(u, k) = Depth(t, k)
    BY <1>1, DepthKept
  <1>4. Ended(u, j) <=> Ended(t, j)
    <2>1. j >= 1 => u[j] = t[j]
      BY <1>1
    <2>2. QED
      BY <2>1 DEF Ended
  <1>5. \A q : Above(u, i, j, q) <=> Above(t, i, j, q)
    <2>1. \A k \in i + 1 .. j : u[k] = t[k] /\ Depth(u, k) = Depth(t, k)
      BY <1>1, <1>3
    <2>2. Depth(u, i) = Depth(t, i)
      BY <1>3
    <2>3. QED
      BY <2>1, <2>2 DEF Above
  <1>6. QED
    BY <1>2, <1>3, <1>4, <1>5

\* An entry of the stack stands where it stood.
LEMMA EntryKept ==
  ASSUME NEW t, NEW u, GoesOn(t, u), NEW n \in Nat, n <= Len(t), NEW s, NEW ns, NEW p, NEW c,
         NEW i, p[i - 1] \in 0 .. n, p[i] \in 0 .. n, Entry(t, s, ns, p, c, i)
  PROVE  Entry(u, s, ns, p, c, i)
  <1> DEFINE a == p[i - 1]
             b == p[i]
  <1>1. /\ Len(t) \in Nat /\ Len(u) \in Nat /\ Len(t) <= Len(u)
        /\ \A k \in 1 .. Len(t) : u[k] = t[k]
    BY DEF GoesOn
  <1>2. a \in 0 .. n /\ b \in 0 .. n /\ a < b
    <2>1. a \in 0 .. n /\ b \in 0 .. n
      OBVIOUS
    <2>2. b = a + 1 \/ a + 1 < b
      BY DEF Entry
    <2> HIDE DEF a, b
    <2>3. QED
      BY <2>1, <2>2
  <1>3. u[b] = t[b]
    <2> HIDE DEF a, b
    <2>1. QED
      BY <1>1, <1>2
  <1>4. CASE s[i] \in Markers
    BY <1>3, <1>4 DEF Entry
  <1>5. CASE s[i] \notin Markers
    <2>1. /\ a + 1 < b /\ c[i] = c[i - 1] + 1 /\ t[b].kind = s[i]
          /\ Depth(t, b) = Depth(t, a + 1)
          /\ Meaning(t, a + 1, b - 1) = ValueOf(ns[c[i]])
          /\ Above(t, a + 1, b - 1, Precedence(s[i]))
      BY <1>5 DEF Entry
    <2>2. /\ Depth(u, b) = Depth(t, b) /\ Depth(u, a + 1) = Depth(t, a + 1)
          /\ Meaning(u, a + 1, b - 1) = Meaning(t, a + 1, b - 1)
          /\ \A q : Above(u, a + 1, b - 1, q) <=> Above(t, a + 1, b - 1, q)
      <3> HIDE DEF a, b
      <3>1. /\ b \in 1 .. Len(t) + 1 /\ a + 1 \in 1 .. Len(t) + 1
            /\ b - 1 \in 0 .. Len(t)
        BY <1>1, <1>2
      <3>2. QED
        BY <3>1, PartsKept
    <2>3. QED
      BY <1>3, <1>5, <2>1, <2>2 DEF Entry
  <1>6. QED
    BY <1>4, <1>5

\* What is on the stacks stands for the same tokens in a longer text.
LEMMA StackedKept ==
  ASSUME NEW t, NEW u, GoesOn(t, u), NEW n \in Nat, n <= Len(t),
         NEW s \in Seq(Entries), s # <<>>, NEW ns \in Seq(Int), NEW q, Stacked(t, n, s, ns, q)
  PROVE  Stacked(u, n, s, ns, q)
  <1> DEFINE m == Len(s)
  <1>1. PICK p \in [1 .. m -> 0 .. n], c \in [1 .. m -> 0 .. Len(ns)] :
          Traced(t, n, s, ns, p, c) /\ TopOperand(t, n, s, ns, p, c, q)
    BY DEF Stacked
  <1>2. m \in Nat \ {0} /\ m \in 1 .. m
    OBVIOUS
  <1>3. /\ Len(t) \in Nat /\ Len(u) \in Nat /\ Len(t) <= Len(u)
        /\ \A k \in 1 .. Len(t) : u[k] = t[k]
    BY DEF GoesOn
  <1>4. ASSUME NEW i \in 2 .. m PROVE Entry(u, s, ns, p, c, i)
    <2>1. Entry(t, s, ns, p, c, i)
      BY <1>1 DEF Traced
    <2>2. p[i - 1] \in 0 .. n /\ p[i] \in 0 .. n
      <3>1. i - 1 \in 1 .. m /\ i \in 1 .. m
        BY <1>2
      <3>2. QED
        BY <1>1, <3>1
    <2>3. QED
      BY <2>1, <2>2, EntryKept
  <1>5. \A k \in 1 .. n + 1 : Depth(u, k) = Depth(t, k)
    <2>1. \A k \in 1 .. n + 1 : k \in 1 .. Len(t) + 1
      BY <1>3
    <2>2. 0 \in 0 .. Len(t)
      BY <1>3
    <2>3. QED
      BY <2>1, <2>2, PartsKept
  <1>6. ASSUME NEW i \in 1 .. m PROVE p[i] + 1 \in 1 .. n + 1 /\ p[i] \in 0 .. n
    <2>1. p[i] \in 0 .. n
      BY <1>1
    <2>2. QED
      BY <2>1
  <1>7. Traced(u, n, s, ns, p, c)
    <2>1. ASSUME NEW i \in 1 .. m, s[i] \in Markers, NEW k \in p[i] + 1 .. n + 1
          PROVE  Depth(u, p[i] + 1) <= Depth(u, k)
      <3>1. Depth(t, p[i] + 1) <= Depth(t, k)
        BY <1>1, <2>1 DEF Traced
      <3>2. k \in 1 .. n + 1
        BY <1>6
      <3>3. QED
        BY <1>5, <1>6, <3>1, <3>2
    <2>2. Depth(u, n + 1) = Depth(u, p[m] + 1)
      <3>1. Depth(t, n + 1) = Depth(t, p[m] + 1)
        BY <1>1 DEF Traced
      <3>2. n + 1 \in 1 .. n + 1 /\ p[m] + 1 \in 1 .. n + 1
        BY <1>2, <1>6
      <3>3. QED
        BY <1>5, <3>1, <3>2
    <2>3. QED
      BY <1>1, <1>4, <2>1, <2>2 DEF Traced
  <1>8. TopOperand(u, n, s, ns, p, c, q)
    <2>1. p[m] + 1 \in 1 .. Len(t) + 1 /\ n \in 0 .. Len(t)
      BY <1>2, <1>3, <1>6
    <2> DEFINE a == p[m] + 1
    <2>2. /\ Meaning(u, a, n) = Meaning(t, a, n)
          /\ Ended(u, n) <=> Ended(t, n)
          /\ \A r : Above(u, a, n, r) <=> Above(t, a, n, r)
      <3>1. a \in 1 .. Len(t) + 1
        BY <2>1
      <3> HIDE DEF a
      <3>2. QED
        BY <2>1, <3>1, PartsKept
    <2>3. TopOperand(t, n, s, ns, p, c, q)
      BY <1>1
    <2>4. QED
      BY <2>2, <2>3 DEF TopOperand
  <1>9. QED
    BY <1>7, <1>8 DEF Stacked

\* A stack with other markers where there were markers stands for the same.
LEMMA StackedSwap ==
  ASSUME NEW t, NEW n \in Nat, NEW s \in Seq(Entries), s # <<>>, NEW ns, NEW q, Stacked(t, n, s, ns, q)
  PROVE  Stacked(t, n, Swapped(s), ns, q)
  <1> DEFINE w == Swapped(s)
  <1>1. /\ w \in Seq(Entries) /\ Len(w) = Len(s)
        /\ \A i \in 1 .. Len(s) - 1 : w[i] = s[i]
        /\ w[Len(s)] = s[Len(s)] \/ (s[Len(s)] \in Markers /\ w[Len(s)] \in Markers)
    BY SwapsTop
  <1> HIDE DEF w
  <1>2. ASSUME NEW i \in 1 .. Len(s)
        PROVE  /\ w[i] \in Markers <=> s[i] \in Markers
               /\ Precedence(w[i]) = Precedence(s[i])
               /\ w[i] \notin Markers => w[i] = s[i]
    <2>1. CASE w[i] = s[i]
      BY <2>1
    <2>2. CASE w[i] # s[i]
      <3>1. i = Len(s)
        BY <1>1, <2>2
      <3>2. s[i] \in Markers /\ w[i] \in Markers
        BY <1>1, <2>2, <3>1
      <3>3. \A x \in Markers : Precedence(x) = -1
        BY DEF Precedence, Markers
      <3>4. QED
        BY <3>2, <3>3
    <2>3. QED
      BY <2>1, <2>2
  <1>3. PICK p \in [1 .. Len(s) -> 0 .. n], c \in [1 .. Len(s) -> 0 .. Len(ns)] :
          Traced(t, n, s, ns, p, c) /\ TopOperand(t, n, s, ns, p, c, q)
    BY DEF Stacked
  <1>4. ASSUME NEW i \in 2 .. Len(s) PROVE Entry(t, w, ns, p, c, i)
    <2>1. Entry(t, s, ns, p, c, i) /\ i \in 1 .. Len(s)
      BY <1>3 DEF Traced
    <2>2. CASE s[i] \in Markers
      BY <1>2, <2>1, <2>2 DEF Entry
    <2>3. CASE s[i] \notin Markers
      <3>1. w[i] = s[i]
        BY <1>2, <2>1, <2>3
      <3>2. QED
        BY <2>1, <3>1 DEF Entry
    <2>4. QED
      BY <2>2, <2>3
  <1>5. Traced(t, n, w, ns, p, c)
    BY <1>1, <1>2, <1>3, <1>4 DEF Traced
  <1>6. TopOperand(t, n, w, ns, p, c, q)
    <2>1. Precedence(w[Len(s)]) = Precedence(s[Len(s)])
      BY <1>2
    <2>2. QED
      BY <1>1, <1>3, <2>1 DEF TopOperand
  <1>7. QED
    BY <1>1, <1>3, <1>5, <1>6 DEF Stacked, w

\* Every entry of the stack has one of three precedences.
LEMMA EntryPrecedence ==
  ASSUME NEW x \in Entries
  PROVE  Precedence(x) \in {-1, 1, 2}
  <1>1. CASE x \in Markers
    BY <1>1 DEF Precedence, Markers
  <1>2. CASE x \in Binary
    BY <1>2, Precedences
  <1>3. QED
    BY <1>1, <1>2 DEF Entries

\* An operand is read where one is expected.
LEMMA OperandPushed ==
  ASSUME NEW t, Len(t) \in Nat, NEW n \in Nat, NEW e \in n + 1 .. Len(t),
         NEW s \in Seq(Entries), s # <<>>, NEW ns \in Seq(Int), NEW q, Stacked(t, n, s, ns, q),
         ~Ended(t, n), NEW v \in Int, Meaning(t, n + 1, e) = ValueOf(v), Above(t, n + 1, e, 3),
         Ended(t, e), \A k \in n + 1 .. e + 1 : Depth(t, k) = Depth(t, n + 1)
  PROVE  Stacked(t, e, s, Append(ns, v), 3)
  <1> DEFINE m == Len(s)
             l == Len(ns)
             w == Append(ns, v)
  <1>1. PICK p \in [1 .. m -> 0 .. n], c \in [1 .. m -> 0 .. l] :
          Traced(t, n, s, ns, p, c) /\ TopOperand(t, n, s, ns, p, c, q)
    BY DEF Stacked
  <1>2. m \in Nat \ {0} /\ m \in 1 .. m /\ s[m] \in Entries
    OBVIOUS
  <1>3. l \in Nat /\ Len(w) = l + 1 /\ w[l + 1] = v /\ \A i \in 1 .. l : w[i] = ns[i]
    BY Pushed
  <1>4. p[m] = n /\ l = c[m]
    BY <1>1 DEF TopOperand
  <1> HIDE DEF m, l, w
  <1>5. p \in [1 .. m -> 0 .. e] /\ c \in [1 .. m -> 0 .. Len(w)]
    <2>1. 0 .. n \subseteq 0 .. e /\ 0 .. l \subseteq 0 .. Len(w)
      BY <1>3
    <2>2. QED
      BY <1>1, <2>1
  <1>6. ASSUME NEW i \in 2 .. m PROVE Entry(t, s, w, p, c, i)
    <2>1. Entry(t, s, ns, p, c, i) /\ i \in 1 .. m /\ i - 1 \in 1 .. m
      BY <1>1, <1>2 DEF Traced, m
    <2>2. CASE s[i] \in Markers
      BY <2>1, <2>2 DEF Entry
    <2>3. CASE s[i] \notin Markers
      <3>1. c[i] = c[i - 1] + 1 /\ c[i] \in 0 .. l /\ c[i - 1] \in 0 .. l
        BY <1>1, <2>1, <2>3 DEF Entry
      <3>2. c[i] \in 1 .. l
        BY <1>3, <3>1
      <3>3. w[c[i]] = ns[c[i]]
        BY <1>3, <3>2
      <3>4. QED
        BY <2>1, <2>3, <3>3 DEF Entry
    <2>4. QED
      BY <2>2, <2>3
  <1>7. \A k \in 1 .. Len(t) + 1 : Depth(t, k) \in Int
    BY DepthRises
  <1>8. ASSUME NEW i \in 1 .. m, s[i] \in Markers, NEW k \in p[i] + 1 .. e + 1
        PROVE  Depth(t, p[i] + 1) <= Depth(t, k)
    <2>1. p[i] \in 0 .. n
      BY <1>1
    <2>2. \A x \in p[i] + 1 .. n + 1 : Depth(t, p[i] + 1) <= Depth(t, x)
      BY <1>1, <1>8 DEF Traced, m
    <2>3. CASE k <= n + 1
      BY <2>1, <2>2, <2>3
    <2>4. CASE k > n + 1
      <3>1. k \in n + 1 .. e + 1 /\ n + 1 \in p[i] + 1 .. n + 1
        BY <2>1, <2>4
      <3>2. QED
        BY <2>2, <3>1
    <2>5. QED
      BY <2>1, <2>3, <2>4
  <1>9. Depth(t, e + 1) = Depth(t, p[m] + 1)
    <2>1. e + 1 \in n + 1 .. e + 1
      OBVIOUS
    <2>2. QED
      BY <1>4, <2>1
  <1>10. Traced(t, e, s, w, p, c)
    BY <1>1, <1>5, <1>6, <1>8, <1>9 DEF Traced, m
  <1>11. TopOperand(t, e, s, w, p, c, 3)
    <2>1. Above(t, n + 1, e, Precedence(s[m]) + 1)
      <3>1. Precedence(s[m]) \in {-1, 1, 2}
        BY <1>2, EntryPrecedence
      <3>2. Precedence(s[m]) + 1 \in Int /\ Precedence(s[m]) + 1 <= 3
        BY <3>1
      <3>3. QED
        BY <3>2, AboveLess
    <2>2. p[m] < e
      BY <1>4
    <2>3. Len(w) = c[m] + 1 /\ w[Len(w)] = v
      BY <1>3, <1>4
    <2>4. QED
      BY <1>4, <2>1, <2>2, <2>3 DEF TopOperand, m
  <1>12. QED
    BY <1>5, <1>10, <1>11 DEF Stacked, m, w

\* A function on 1 .. m with one more argument.
OneMore(f, m, y) == [i \in 1 .. m + 1 |-> IF i = m + 1 THEN y ELSE f[i]]

\* A bracket or a sign goes onto the stack.
LEMMA EntryPushed ==
  ASSUME NEW t, Len(t) \in Nat, NEW n \in Nat, n < Len(t),
         NEW s \in Seq(Entries), s # <<>>, NEW ns \in Seq(Int), NEW x \in Entries,
         NEW p \in [1 .. Len(s) -> 0 .. n], NEW c \in [1 .. Len(s) -> 0 .. Len(ns)],
         NEW d \in c[Len(s)] .. Len(ns), Traced(t, n, s, ns, p, c), Depth(t, n + 1) <= Depth(t, n + 2),
         Entry(t, Append(s, x), ns, OneMore(p, Len(s), n + 1), OneMore(c, Len(s), d), Len(s) + 1)
  PROVE  /\ OneMore(p, Len(s), n + 1) \in [1 .. Len(Append(s, x)) -> 0 .. n + 1]
         /\ OneMore(c, Len(s), d) \in [1 .. Len(Append(s, x)) -> 0 .. Len(ns)]
         /\ Traced(t, n + 1, Append(s, x), ns, OneMore(p, Len(s), n + 1), OneMore(c, Len(s), d))
  <1> DEFINE m == Len(s)
             w == Append(s, x)
             f == OneMore(p, m, n + 1)
             g == OneMore(c, m, d)
  <1>1. m \in Nat \ {0} /\ Len(w) = m + 1 /\ w[m + 1] = x /\ \A i \in 1 .. m : w[i] = s[i]
    BY Pushed
  <1>2. f[m + 1] = n + 1 /\ g[m + 1] = d
    BY <1>1 DEF OneMore
  <1>3. ASSUME NEW i \in 1 .. m PROVE f[i] = p[i] /\ g[i] = c[i] /\ p[i] \in 0 .. n /\ c[i] \in 0 .. Len(ns)
    <2>1. i \in 1 .. m + 1 /\ i # m + 1
      BY <1>1
    <2>2. f[i] = p[i] /\ g[i] = c[i]
      <3> HIDE DEF m
      <3>1. QED
        BY <2>1, Zenon DEF OneMore
    <2>3. p[i] \in 0 .. n /\ c[i] \in 0 .. Len(ns)
      OBVIOUS
    <2>4. QED
      BY <2>2, <2>3
  <1>4. f \in [1 .. m + 1 -> 0 .. n + 1] /\ g \in [1 .. m + 1 -> 0 .. Len(ns)]
    <2>1. \A i \in 1 .. m + 1 : i = m + 1 \/ i \in 1 .. m
      BY <1>1
    <2>2. 0 .. n \subseteq 0 .. n + 1 /\ n + 1 \in 0 .. n + 1
      OBVIOUS
    <2>3. d \in 0 .. Len(ns)
      <3>1. c[m] \in 0 .. Len(ns) /\ d \in c[m] .. Len(ns)
        BY <1>1, <1>3
      <3>2. QED
        BY <3>1
    <2>4. QED
      BY <1>3, <2>1, <2>2, <2>3 DEF OneMore
  <1>0. Entry(t, w, ns, f, g, m + 1)
    OBVIOUS
  <1> HIDE DEF m, w, f, g
  <1>5. ASSUME NEW i \in 2 .. m + 1 PROVE Entry(t, w, ns, f, g, i)
    <2>1. CASE i = m + 1
      BY <1>0, <2>1
    <2>2. CASE i # m + 1
      <3>1. i \in 2 .. m /\ i \in 1 .. m /\ i - 1 \in 1 .. m
        BY <1>1, <2>2
      <3>2. Entry(t, s, ns, p, c, i)
        BY <3>1 DEF Traced, m
      <3>3. w[i] = s[i] /\ f[i] = p[i] /\ f[i - 1] = p[i - 1] /\ g[i] = c[i] /\ g[i - 1] = c[i - 1]
        BY <1>1, <1>3, <3>1
      <3>4. QED
        BY <3>2, <3>3 DEF Entry
    <2>3. QED
      BY <2>1, <2>2
  <1>6. ASSUME NEW i \in 1 .. m + 1, NEW j \in 1 .. m + 1, i < j PROVE f[i] < f[j] /\ g[i] <= g[j]
    <2>1. i \in 1 .. m
      BY <1>1, <1>6
    <2>2. CASE j = m + 1
      <3>1. f[i] \in 0 .. n /\ f[j] = n + 1
        BY <1>2, <1>3, <2>1, <2>2
      <3>2. g[i] = c[i] /\ g[j] = d /\ c[i] \in Nat
        BY <1>2, <1>3, <2>1, <2>2
      <3>3. c[i] <= d
        <4>1. c[m] \in Int /\ c[m] <= d /\ d \in Int
          BY <1>1, <1>3 DEF m
        <4>2. i = m \/ i < m
          BY <1>1, <2>1
        <4>3. i < m => c[i] <= c[m]
          BY <1>1, <2>1 DEF Traced, m
        <4>4. QED
          BY <3>2, <4>1, <4>2, <4>3
      <3>4. QED
        BY <3>1, <3>2, <3>3
    <2>3. CASE j # m + 1
      <3>1. j \in 1 .. m
        BY <1>1, <2>3
      <3>2. p[i] < p[j] /\ c[i] <= c[j]
        BY <1>6, <2>1, <3>1 DEF Traced, m
      <3>3. QED
        BY <1>3, <2>1, <3>1, <3>2
    <2>4. QED
      BY <2>2, <2>3
  <1>7. \A k \in 1 .. Len(t) + 1 : Depth(t, k) \in Int
    BY DepthRises
  <1>8. ASSUME NEW i \in 1 .. m + 1, w[i] \in Markers, NEW k \in f[i] + 1 .. (n + 1) + 1
        PROVE  Depth(t, f[i] + 1) <= Depth(t, k)
    <2>1. CASE i = m + 1
      <3>1. f[i] + 1 = (n + 1) + 1 /\ k = (n + 1) + 1 /\ (n + 1) + 1 \in 1 .. Len(t) + 1
        BY <1>2, <2>1
      <3>2. QED
        BY <1>7, <3>1
    <2>2. CASE i # m + 1
      <3>1. i \in 1 .. m
        BY <1>1, <2>2
      <3>2. f[i] = p[i] /\ p[i] \in 0 .. n /\ s[i] \in Markers
        BY <1>1, <1>3, <1>8, <3>1
      <3>3. \A y \in p[i] + 1 .. n + 1 : Depth(t, p[i] + 1) <= Depth(t, y)
        BY <3>1, <3>2 DEF Traced, m
      <3>4. CASE k <= n + 1
        <4>1. k \in p[i] + 1 .. n + 1
          BY <3>2, <3>4
        <4>2. QED
          BY <3>2, <3>3, <4>1
      <3>5. CASE ~(k <= n + 1)
        <4>1. k = n + 2 /\ n + 1 \in p[i] + 1 .. n + 1
          BY <3>2, <3>5
        <4>2. p[i] + 1 \in 1 .. Len(t) + 1 /\ n + 1 \in 1 .. Len(t) + 1 /\ n + 2 \in 1 .. Len(t) + 1
          <5> DEFINE o == p[i]
          <5>1. o \in 0 .. n
            BY <3>2
          <5> HIDE DEF o, f, g, w, m
          <5>2. o + 1 \in 1 .. Len(t) + 1 /\ n + 1 \in 1 .. Len(t) + 1 /\ n + 2 \in 1 .. Len(t) + 1
            BY <5>1
          <5>3. QED
            BY <5>2 DEF o
        <4>3. /\ Depth(t, p[i] + 1) \in Int /\ Depth(t, n + 1) \in Int /\ Depth(t, n + 2) \in Int
              /\ Depth(t, p[i] + 1) <= Depth(t, n + 1)
          BY <1>7, <3>3, <4>1, <4>2
        <4>4. Depth(t, p[i] + 1) <= Depth(t, n + 2)
          BY <4>3
        <4>5. QED
          BY <3>2, <4>1, <4>4
      <3>6. QED
        BY <3>4, <3>5
    <2>3. QED
      BY <2>1, <2>2
  <1>9. f[1] = 0 /\ g[1] = 0
    <2>1. 1 \in 1 .. m
      BY <1>1
    <2>2. QED
      BY <1>3, <2>1 DEF Traced
  <1>10. Depth(t, (n + 1) + 1) = Depth(t, f[m + 1] + 1)
    BY <1>2
  <1>11. Traced(t, n + 1, w, ns, f, g)
    BY <1>1, <1>4, <1>5, <1>6, <1>8, <1>9, <1>10 DEF Traced
  <1>12. QED
    BY <1>1, <1>4, <1>11 DEF m, w, f, g

\* An opening bracket is pushed where an operand is expected.
LEMMA BracketPushed ==
  ASSUME NEW t, Len(t) \in Nat, NEW n \in Nat, n < Len(t),
         NEW s \in Seq(Entries), s # <<>>, NEW ns \in Seq(Int), NEW q, Stacked(t, n, s, ns, q),
         ~Ended(t, n), t[n + 1].kind = "("
  PROVE  Stacked(t, n + 1, Append(s, "start"), ns, 3)
  <1> DEFINE m == Len(s)
             x == "start"
             w == Append(s, x)
  <1>1. PICK p \in [1 .. m -> 0 .. n], c \in [1 .. m -> 0 .. Len(ns)] :
          Traced(t, n, s, ns, p, c) /\ TopOperand(t, n, s, ns, p, c, q)
    BY DEF Stacked
  <1>2. m \in Nat \ {0} /\ m \in 1 .. m /\ x \in Entries /\ x \in Markers
    BY DEF Entries, Markers
  <1>3. Len(w) = m + 1 /\ w[m + 1] = x
    BY <1>2, Pushed
  <1>4. p[m] = n /\ Len(ns) = c[m] /\ c[m] \in c[m] .. Len(ns)
    <2>1. c[m] \in 0 .. Len(ns)
      BY <1>1, <1>2
    <2>2. QED
      BY <1>1, <2>1 DEF TopOperand
  <1> DEFINE f == OneMore(p, m, n + 1)
             g == OneMore(c, m, c[m])
  <1>5. f[m + 1] = n + 1 /\ g[m + 1] = c[m] /\ f[m] = p[m] /\ g[m] = c[m]
    <2>1. m + 1 \in 1 .. m + 1 /\ m \in 1 .. m + 1 /\ m # m + 1
      BY <1>2
    <2> HIDE DEF m
    <2>2. QED
      BY <2>1 DEF OneMore
  <1>6. Depth(t, n + 1) <= Depth(t, n + 2)
    <2>1. /\ Depth(t, n + 1) \in Int /\ Depth(t, (n + 1) + 1) = Depth(t, n + 1) + Rise(t[n + 1])
      <3>1. n + 1 \in Nat \ {0}
        OBVIOUS
      <3>2. QED
        BY <3>1, DepthRises
    <2>2. Rise(t[n + 1]) = 1 /\ (n + 1) + 1 = n + 2
      BY DEF Rise
    <2>3. QED
      BY <2>1, <2>2
  <1> HIDE DEF x, w, f, g
  <1>7. Entry(t, w, ns, f, g, m + 1)
    <2>1. (m + 1) - 1 = m
      BY <1>2
    <2>2. w[m + 1] \in Markers
      BY <1>2, <1>3
    <2>3. QED
      BY <1>4, <1>5, <2>1, <2>2 DEF Entry
  <1>8. /\ f \in [1 .. Len(w) -> 0 .. n + 1] /\ g \in [1 .. Len(w) -> 0 .. Len(ns)]
        /\ Traced(t, n + 1, w, ns, f, g)
    BY <1>1, <1>2, <1>4, <1>6, <1>7, EntryPushed DEF w, f, g
  <1>9. ~Ended(t, n + 1)
    BY DEF Ended
  <1>10. TopOperand(t, n + 1, w, ns, f, g, 3)
    BY <1>3, <1>4, <1>5, <1>9 DEF TopOperand
  <1>11. Stacked(t, n + 1, w, ns, 3)
    BY <1>8, <1>10 DEF Stacked
  <1>12. QED
    BY <1>11 DEF w, x

\* A sign is pushed after an operand.
LEMMA SignPushed ==
  ASSUME NEW t, Len(t) \in Nat, NEW n \in Nat, n < Len(t),
         NEW s \in Seq(Entries), s # <<>>, NEW ns \in Seq(Int), NEW q \in Int, Stacked(t, n, s, ns, q),
         Ended(t, n), t[n + 1].kind \in Binary, Precedence(t[n + 1].kind) <= q
  PROVE  Stacked(t, n + 1, Append(s, t[n + 1].kind), ns, 3)
  <1> DEFINE m == Len(s)
             x == t[n + 1].kind
             w == Append(s, x)
             l == Len(ns)
  <1>1. PICK p \in [1 .. m -> 0 .. n], c \in [1 .. m -> 0 .. l] :
          Traced(t, n, s, ns, p, c) /\ TopOperand(t, n, s, ns, p, c, q)
    BY DEF Stacked
  <1>2. m \in Nat \ {0} /\ m \in 1 .. m /\ l \in Nat /\ x \in Entries /\ x \in Binary /\ x \notin Markers
    BY DEF Entries, Markers, Binary
  <1>3. Len(w) = m + 1 /\ w[m + 1] = x
    BY <1>2, Pushed
  <1>4. /\ p[m] \in 0 .. n /\ p[m] < n /\ c[m] \in 0 .. l /\ l = c[m] + 1
        /\ Meaning(t, p[m] + 1, n) = ValueOf(ns[l]) /\ Above(t, p[m] + 1, n, q)
    <2>1. p[m] \in 0 .. n /\ c[m] \in 0 .. l
      BY <1>1, <1>2
    <2>2. QED
      BY <1>1, <2>1 DEF TopOperand
  <1>0. Depth(t, n + 1) = Depth(t, p[m] + 1)
    BY <1>1 DEF Traced
  <1> DEFINE f == OneMore(p, m, n + 1)
             g == OneMore(c, m, l)
  <1>5. f[m + 1] = n + 1 /\ g[m + 1] = l /\ f[m] = p[m] /\ g[m] = c[m]
    <2>1. m + 1 \in 1 .. m + 1 /\ m \in 1 .. m + 1 /\ m # m + 1
      BY <1>2
    <2> HIDE DEF m, l
    <2>2. QED
      BY <2>1 DEF OneMore
  <1>6. Depth(t, n + 1) <= Depth(t, n + 2)
    <2>1. /\ Depth(t, n + 1) \in Int /\ Depth(t, (n + 1) + 1) = Depth(t, n + 1) + Rise(t[n + 1])
      <3>1. n + 1 \in Nat \ {0}
        OBVIOUS
      <3>2. QED
        BY <3>1, DepthRises
    <2>2. Rise(t[n + 1]) = 0 /\ (n + 1) + 1 = n + 2
      BY SignsDiffer DEF Rise
    <2>3. QED
      BY <2>1, <2>2
  <1>7. Above(t, p[m] + 1, n, Precedence(x))
    <2>1. Precedence(x) \in Int
      <3>1. Precedence(x) \in {1, 2}
        BY <1>2, Precedences
      <3>2. QED
        BY <3>1
    <2>2. QED
      BY <1>4, <2>1, AboveLess
  <1>8. t[n + 1].kind = x
    OBVIOUS
  <1> HIDE DEF x, w, f, g, l
  <1>9. Entry(t, w, ns, f, g, m + 1)
    <2>1. (m + 1) - 1 = m /\ (n + 1) - 1 = n /\ p[m] + 1 < n + 1
      BY <1>2, <1>4
    <2>2. w[m + 1] \notin Markers
      BY <1>2, <1>3
    <2> HIDE DEF m
    <2>3. QED
      BY <1>0, <1>3, <1>4, <1>5, <1>7, <1>8, <2>1, <2>2 DEF Entry
  <1>10. l \in c[m] .. l
    BY <1>2, <1>4
  <1>11. /\ f \in [1 .. Len(w) -> 0 .. n + 1] /\ g \in [1 .. Len(w) -> 0 .. l]
         /\ Traced(t, n + 1, w, ns, f, g)
    BY <1>1, <1>2, <1>6, <1>9, <1>10, EntryPushed DEF w, f, g, l
  <1>12. ~Ended(t, n + 1)
    BY <1>2, <1>8, SignsDiffer DEF Ended
  <1>13. TopOperand(t, n + 1, w, ns, f, g, 3)
    BY <1>3, <1>4, <1>5, <1>12 DEF TopOperand, l
  <1>14. Stacked(t, n + 1, w, ns, 3)
    BY <1>11, <1>13 DEF Stacked, l
  <1>15. QED
    BY <1>14 DEF w, x

\* A function on fewer arguments.
Fewer(f, m) == [i \in 1 .. m |-> f[i]]

\* The topmost entry leaves the stack, with tokens and numbers only those below
\* do not depend on.
LEMMA EntryPopped ==
  ASSUME NEW t, Len(t) \in Nat, NEW n \in Nat, n <= Len(t), NEW e \in n .. n + 1, e <= Len(t),
         NEW s \in Seq(Entries), Len(s) > 1, NEW ns, Len(ns) \in Nat, NEW w, Len(w) \in Nat,
         NEW p \in [1 .. Len(s) -> 0 .. n], NEW c \in [1 .. Len(s) -> 0 .. Len(ns)],
         Traced(t, n, s, ns, p, c), c[Len(s) - 1] <= Len(w),
         \A k \in 1 .. c[Len(s) - 1] : w[k] = ns[k],
         Depth(t, e + 1) = Depth(t, p[Len(s) - 1] + 1)
  PROVE  /\ Fewer(p, Len(s) - 1) \in [1 .. Len(Front(s)) -> 0 .. e]
         /\ Fewer(c, Len(s) - 1) \in [1 .. Len(Front(s)) -> 0 .. Len(w)]
         /\ Traced(t, e, Front(s), w, Fewer(p, Len(s) - 1), Fewer(c, Len(s) - 1))
  <1> DEFINE m == Len(s) - 1
             r == Front(s)
             f == Fewer(p, m)
             g == Fewer(c, m)
  <1>1. m \in Nat \ {0} /\ Len(s) = m + 1 /\ m \in 1 .. m
    <2> DEFINE h == Len(s)
    <2>1. h \in Nat /\ h > 1
      OBVIOUS
    <2> HIDE DEF h
    <2>2. h - 1 \in Nat \ {0} /\ h = (h - 1) + 1 /\ h - 1 \in 1 .. h - 1
      BY <2>1
    <2>3. QED
      BY <2>2 DEF h
  <1>2. Len(r) = m /\ \A i \in 1 .. m : r[i] = s[i]
    <2>1. s # <<>>
      OBVIOUS
    <2>2. QED
      BY <2>1, TopAndPop
  <1> HIDE DEF r
  <1>3. ASSUME NEW i \in 1 .. m
        PROVE  /\ f[i] = p[i] /\ g[i] = c[i] /\ p[i] \in 0 .. n
               /\ c[i] \in 0 .. Len(w) /\ c[i] <= c[m] /\ p[i] <= p[m]
    <2>1. i \in 1 .. Len(s) /\ m \in 1 .. Len(s)
      BY <1>1
    <2>2. p[i] \in 0 .. n /\ c[i] \in 0 .. Len(ns) /\ c[m] \in 0 .. Len(ns) /\ p[m] \in 0 .. n
      BY <2>1
    <2>3. c[i] <= c[m] /\ p[i] <= p[m]
      <3>1. i = m \/ i < m
        <4> HIDE DEF m
        <4>1. QED
          BY <1>1
      <3>2. i < m => c[i] <= c[m] /\ p[i] < p[m]
        BY <2>1 DEF Traced
      <3> HIDE DEF m
      <3>3. CASE i = m
        <4> DEFINE x == c[m]
                   y == p[m]
        <4>1. x \in 0 .. Len(ns) /\ y \in 0 .. n
          BY <2>2
        <4>2. x <= x /\ y <= y
          <5> HIDE DEF x, y
          <5>1. QED
            BY <4>1
        <4>3. QED
          BY <3>3, <4>2
      <3>4. CASE i < m
        <4> DEFINE x == p[i]
                   y == p[m]
        <4>1. x \in 0 .. n /\ y \in 0 .. n /\ x < y
          BY <2>2, <3>2, <3>4
        <4>2. x <= y
          <5> HIDE DEF x, y
          <5>1. QED
            BY <4>1
        <4>3. QED
          BY <3>2, <3>4, <4>2
      <3>5. QED
        BY <3>1, <3>3, <3>4
    <2>4. c[m] <= Len(w)
      OBVIOUS
    <2> HIDE DEF m
    <2>5. c[i] \in 0 .. Len(w)
      BY <2>2, <2>3, <2>4
    <2>6. f[i] = p[i] /\ g[i] = c[i]
      BY Zenon DEF Fewer
    <2>7. QED
      BY <2>2, <2>3, <2>5, <2>6
  <1>4. f \in [1 .. m -> 0 .. e] /\ g \in [1 .. m -> 0 .. Len(w)]
    <2>1. 0 .. n \subseteq 0 .. e
      OBVIOUS
    <2> HIDE DEF m
    <2>2. QED
      BY <1>3, <2>1 DEF Fewer
  <1>5. \A k \in 1 .. c[m] : w[k] = ns[k]
    OBVIOUS
  <1>6. Depth(t, e + 1) = Depth(t, p[m] + 1)
    OBVIOUS
  <1> HIDE DEF m, f, g
  <1>7. ASSUME NEW i \in 2 .. m PROVE Entry(t, r, w, f, g, i)
    <2>1. Entry(t, s, ns, p, c, i)
      <3>1. i \in 2 .. Len(s)
        BY <1>1
      <3>2. QED
        BY <3>1 DEF Traced
    <2>2. i \in 1 .. m /\ i - 1 \in 1 .. m
      BY <1>1
    <2>3. r[i] = s[i] /\ f[i] = p[i] /\ f[i - 1] = p[i - 1] /\ g[i] = c[i] /\ g[i - 1] = c[i - 1]
      BY <1>2, <1>3, <2>2
    <2>4. CASE s[i] \in Markers
      BY <2>1, <2>3, <2>4 DEF Entry
    <2>5. CASE s[i] \notin Markers
      <3>1. c[i] = c[i - 1] + 1
        BY <2>1, <2>5 DEF Entry
      <3>2. c[i - 1] \in Nat /\ c[i] \in Nat /\ c[i] <= c[m] /\ c[m] \in Nat
        <4>1. c[i - 1] \in 0 .. Len(w) /\ c[i] \in 0 .. Len(w) /\ c[i] <= c[m] /\ c[m] \in 0 .. Len(w)
          BY <1>1, <1>3, <2>2
        <4> DEFINE x == c[i - 1]
                   y == c[i]
                   z == c[m]
                   k == Len(w)
        <4>2. x \in 0 .. k /\ y \in 0 .. k /\ y <= z /\ z \in 0 .. k
          BY <4>1
        <4> HIDE DEF x, y, z, k
        <4>3. x \in Nat /\ y \in Nat /\ y <= z /\ z \in Nat
          BY <4>2
        <4>4. QED
          BY <4>3 DEF x, y, z
      <3>3. c[i] \in 1 .. c[m]
        BY <3>1, <3>2
      <3>4. w[c[i]] = ns[c[i]]
        BY <1>5, <3>3
      <3>5. QED
        BY <2>1, <2>3, <2>5, <3>4 DEF Entry
    <2>6. QED
      BY <2>4, <2>5
  <1>8. ASSUME NEW i \in 1 .. m, NEW j \in 1 .. m, i < j PROVE f[i] < f[j] /\ g[i] <= g[j]
    <2>1. i \in 1 .. Len(s) /\ j \in 1 .. Len(s)
      BY <1>1
    <2>2. p[i] < p[j] /\ c[i] <= c[j]
      BY <1>8, <2>1 DEF Traced
    <2>3. QED
      BY <1>3, <2>2
  <1>9. \A k \in 1 .. Len(t) + 1 : Depth(t, k) \in Int
    <2>1. \A k \in 1 .. Len(t) + 1 : k \in Nat \ {0}
      OBVIOUS
    <2>2. QED
      BY <2>1, DepthRises
  <1>10. ASSUME NEW i \in 1 .. m, r[i] \in Markers, NEW k \in f[i] + 1 .. e + 1
         PROVE  Depth(t, f[i] + 1) <= Depth(t, k)
    <2>1. f[i] = p[i] /\ p[i] \in 0 .. n /\ s[i] \in Markers /\ p[i] <= p[m] /\ p[m] \in 0 .. n
      BY <1>1, <1>2, <1>3, <1>10
    <2>2. \A x \in p[i] + 1 .. n + 1 : Depth(t, p[i] + 1) <= Depth(t, x)
      <3>1. i \in 1 .. Len(s)
        BY <1>1
      <3>2. QED
        BY <2>1, <3>1 DEF Traced
    <2>3. CASE k <= n + 1
      <3>1. k \in p[i] + 1 .. n + 1
        BY <2>1, <2>3
      <3>2. QED
        BY <2>1, <2>2, <3>1
    <2>4. CASE ~(k <= n + 1)
      <3>1. k = e + 1
        <4>1. k \in Int /\ k <= e + 1 /\ e <= n + 1 /\ e \in Int
          BY <2>1
        <4>2. QED
          BY <2>4, <4>1
      <3>3. p[m] + 1 \in p[i] + 1 .. n + 1
        <4> DEFINE x == p[i]
                   y == p[m]
        <4>1. x \in 0 .. n /\ x <= y /\ y \in 0 .. n
          BY <2>1
        <4> HIDE DEF x, y
        <4>2. y + 1 \in x + 1 .. n + 1
          BY <4>1
        <4>3. QED
          BY <4>2 DEF x, y
      <3>2. QED
        BY <1>6, <2>1, <2>2, <3>1, <3>3
    <2>5. QED
      BY <2>3, <2>4
  <1>11. f[1] = 0 /\ g[1] = 0
    <2>1. 1 \in 1 .. m
      BY <1>1
    <2>2. QED
      BY <1>3, <2>1 DEF Traced
  <1>12. Depth(t, e + 1) = Depth(t, f[m] + 1)
    BY <1>1, <1>3, <1>6
  <1>13. Traced(t, e, r, w, f, g)
    BY <1>2, <1>4, <1>7, <1>8, <1>10, <1>11, <1>12 DEF Traced
  <1>14. QED
    BY <1>2, <1>4, <1>13 DEF m, r, f, g

\* The sign on top and its two operands.
LEMMA TopJoins ==
  ASSUME NEW t, Len(t) \in Nat, NEW n \in Nat, n <= Len(t),
         NEW s \in Seq(Entries), s # <<>>, s[Len(s)] \in Binary, s[1] \in Markers,
         NEW ns \in Seq(Int), NEW q,
         NEW p \in [1 .. Len(s) -> 0 .. n], NEW c \in [1 .. Len(s) -> 0 .. Len(ns)],
         Traced(t, n, s, ns, p, c), TopOperand(t, n, s, ns, p, c, q), Ended(t, n)
  PROVE  /\ Len(s) > 1 /\ Len(ns) > 1
         /\ c[Len(s)] = Len(ns) - 1 /\ c[Len(s) - 1] = Len(ns) - 2
         /\ p[Len(s) - 1] + 1 < p[Len(s)] /\ p[Len(s)] < n
         /\ Meaning(t, p[Len(s) - 1] + 1, n) =
              Combined(ValueOf(ns[Len(ns) - 1]), s[Len(s)], ValueOf(ns[Len(ns)]))
         /\ Above(t, p[Len(s) - 1] + 1, n, Precedence(s[Len(s)]))
         /\ Depth(t, n + 1) = Depth(t, p[Len(s) - 1] + 1)
  <1> DEFINE m == Len(s)
             l == Len(ns)
             a == p[m - 1] + 1
             b == p[m]
  <1>1. m \in Nat \ {0} /\ m # 1 /\ m > 1 /\ l \in Nat /\ s[m] \notin Markers
    <2>1. \A x \in Binary : x \notin Markers
      BY DEF Binary, Markers
    <2>2. QED
      BY <2>1
  <1>2. /\ m \in 2 .. m /\ m \in 1 .. m /\ m - 1 \in 1 .. m
    BY <1>1
  <1>3. /\ p[m] \in 0 .. n /\ p[m - 1] \in 0 .. n
        /\ c[m] \in 0 .. l /\ c[m - 1] \in 0 .. l
    BY <1>2
  <1>4. Entry(t, s, ns, p, c, m)
    BY <1>2 DEF Traced
  <1>5. /\ a < b /\ c[m] = c[m - 1] + 1 /\ t[b].kind = s[m]
        /\ Depth(t, b) = Depth(t, a)
        /\ Meaning(t, a, b - 1) = ValueOf(ns[c[m]])
        /\ Above(t, a, b - 1, Precedence(s[m]))
    BY <1>1, <1>4 DEF Entry
  <1>6. /\ b < n /\ l = c[m] + 1 /\ Meaning(t, b + 1, n) = ValueOf(ns[l])
        /\ Above(t, b + 1, n, Precedence(s[m]) + 1)
    BY DEF TopOperand
  <1>7. Depth(t, n + 1) = Depth(t, b + 1)
    BY DEF Traced
  <1>8. a \in Nat /\ a >= 1 /\ b \in Nat /\ b <= n
    BY <1>3
  <1> HIDE DEF m, l, a, b
  <1>9. /\ a \in 1 .. Len(t) /\ n \in 1 .. Len(t) /\ b \in a + 1 .. n - 1 /\ b \in Nat \ {0}
    BY <1>5, <1>6, <1>8
  <1>10. Meaning(t, b + 1, n).kind # "malformed"
    BY <1>6 DEF ValueOf
  <1>11. t[b].kind \in Binary /\ s[m] = t[b].kind
    BY <1>5 DEF m
  <1>12. /\ Meaning(t, a, n) = Combined(Meaning(t, a, b - 1), t[b].kind, Meaning(t, b + 1, n))
         /\ Above(t, a, n, Precedence(t[b].kind))
    BY <1>5, <1>6, <1>9, <1>10, <1>11, JoinMeans
  <1>13. Depth(t, n + 1) = Depth(t, a)
    <2>1. Depth(t, b + 1) = Depth(t, b) + Rise(t[b]) /\ Depth(t, b) \in Int
      BY <1>9, DepthRises
    <2>2. Rise(t[b]) = 0
      BY <1>11, SignsDiffer DEF Rise
    <2>3. QED
      BY <1>5, <1>7, <2>1, <2>2
  <1>14. c[m] = l - 1 /\ c[m - 1] = l - 2 /\ l > 1
    <2> DEFINE x == c[m]
               y == c[m - 1]
    <2>1. l \in Nat /\ x \in 0 .. l /\ y \in 0 .. l
      BY <1>1, <1>3
    <2>2. x = y + 1 /\ l = x + 1
      BY <1>5, <1>6
    <2> HIDE DEF x, y
    <2>3. x = l - 1 /\ y = l - 2 /\ l > 1
      BY <2>1, <2>2
    <2>4. QED
      BY <2>3 DEF x, y
  <1>15. Meaning(t, a, n) = Combined(ValueOf(ns[l - 1]), s[m], ValueOf(ns[l]))
    BY <1>5, <1>6, <1>11, <1>12, <1>14
  <1>16. QED
    BY <1>1, <1>5, <1>6, <1>11, <1>12, <1>13, <1>14, <1>15 DEF a, b, m, l

\* Two values with a sign between them.
LEMMA CombinedValues ==
  ASSUME NEW x, NEW y, NEW oper
  PROVE  Combined(ValueOf(x), oper, ValueOf(y)) =
           IF oper = "/" /\ y = 0 THEN DividesByZero ELSE ValueOf(Calculated(x, oper, y))
  <1>1. /\ ValueOf(x).kind = "value" /\ ValueOf(x).value = x
        /\ ValueOf(y).kind = "value" /\ ValueOf(y).value = y
    BY DEF ValueOf
  <1>2. "malformed" \notin {ValueOf(x).kind, ValueOf(y).kind} /\ "by_zero" \notin {ValueOf(x).kind, ValueOf(y).kind}
    BY <1>1
  <1>3. QED
    BY <1>1, <1>2 DEF Combined

\* The two numbers on top make room for a new one.
LEMMA Replaced ==
  ASSUME NEW ns \in Seq(Int), Len(ns) > 1, NEW v \in Int
  PROVE  /\ Append(SubSeq(ns, 1, Len(ns) - 2), v) \in Seq(Int)
         /\ Len(Append(SubSeq(ns, 1, Len(ns) - 2), v)) = Len(ns) - 1
         /\ \A k \in 1 .. Len(ns) - 2 : Append(SubSeq(ns, 1, Len(ns) - 2), v)[k] = ns[k]
         /\ Append(SubSeq(ns, 1, Len(ns) - 2), v)[Len(ns) - 1] = v
  <1> DEFINE n == Len(ns) - 2
             r == SubSeq(ns, 1, n)
  <1>1. n \in Nat /\ n + 1 = Len(ns) - 1 /\ \A k \in 1 .. n : ns[k] \in Int
    OBVIOUS
  <1> HIDE DEF n
  <1>2. r \in Seq(Int) /\ Len(r) = n /\ \A i \in 1 .. n : r[i] = ns[i]
    <2>1. /\ r \in Seq(Int)
          /\ Len(r) = IF 1 <= n THEN n - 1 + 1 ELSE 0
          /\ \A i \in 1 .. n - 1 + 1 : r[i] = ns[1 + i - 1]
      BY <1>1, SubSeqProperties, Z3
    <2>2. n - 1 + 1 = n /\ \A i \in 1 .. n : 1 + i - 1 = i
      BY <1>1
    <2>3. QED
      BY <1>1, <2>1, <2>2
  <1> HIDE DEF r
  <1>3. /\ Append(r, v) \in Seq(Int) /\ Len(Append(r, v)) = n + 1
        /\ Append(r, v)[n + 1] = v /\ \A i \in 1 .. n : Append(r, v)[i] = r[i]
    BY <1>2, Pushed
  <1>4. QED
    BY <1>1, <1>2, <1>3 DEF n, r

\* A sign is applied to the two numbers on top, unless it divides by zero.
LEMMA Applied ==
  ASSUME NEW t, Len(t) \in Nat, NEW n \in Nat, n <= Len(t), Ended(t, n),
         NEW s, Sound(s), s[Len(s)] \in Binary, NEW ns \in Seq(Int),
         NEW q \in Int, q <= Precedence(s[Len(s)]), Stacked(t, n, s, ns, q),
         ~(s[Len(s)] = "/" /\ ns[Len(ns)] = 0)
  PROVE  /\ Len(s) > 1 /\ Len(ns) > 1
         /\ Stacked(t, n, Front(s),
                    Append(SubSeq(ns, 1, Len(ns) - 2),
                           Calculated(ns[Len(ns) - 1], s[Len(s)], ns[Len(ns)])), q)
  <1> DEFINE m == Len(s)
             l == Len(ns)
             v == Calculated(ns[l - 1], s[m], ns[l])
             w == Append(SubSeq(ns, 1, l - 2), v)
  <1>1. s \in Seq(Entries) /\ s # <<>> /\ s[1] \in Markers
    BY DEF Sound
  <1>2. PICK p \in [1 .. m -> 0 .. n], c \in [1 .. m -> 0 .. l] :
          Traced(t, n, s, ns, p, c) /\ TopOperand(t, n, s, ns, p, c, q)
    BY DEF Stacked
  <1>3. /\ m > 1 /\ l > 1 /\ c[m] = l - 1 /\ c[m - 1] = l - 2
        /\ p[m - 1] + 1 < p[m] /\ p[m] < n
        /\ Meaning(t, p[m - 1] + 1, n) = Combined(ValueOf(ns[l - 1]), s[m], ValueOf(ns[l]))
        /\ Above(t, p[m - 1] + 1, n, Precedence(s[m]))
        /\ Depth(t, n + 1) = Depth(t, p[m - 1] + 1)
    BY <1>1, <1>2, TopJoins
  <1>4. m \in Nat /\ l \in Nat /\ m - 1 \in 1 .. m /\ m \in 1 .. m
    <2>1. m \in Nat /\ l \in Nat
      OBVIOUS
    <2>2. m > 1
      BY <1>3
    <2> HIDE DEF m, l
    <2>3. QED
      BY <2>1, <2>2
  <1>5. ns[l] \in Int /\ ns[l - 1] \in Int
    BY <1>3, <1>4
  <1>6. v \in Int
    BY <1>5, CalculatedIsNumber
  <1> HIDE DEF v
  <1>7. /\ Len(w) = l - 1 /\ w[l - 1] = v
        /\ \A k \in 1 .. l - 2 : w[k] = ns[k]
    BY <1>3, <1>6, Replaced
  <1> HIDE DEF w
  <1> DEFINE f == Fewer(p, m - 1)
             g == Fewer(c, m - 1)
  <1>8. /\ f \in [1 .. Len(Front(s)) -> 0 .. n]
        /\ g \in [1 .. Len(Front(s)) -> 0 .. Len(w)]
        /\ Traced(t, n, Front(s), w, f, g)
    <2>1. Len(w) \in Nat /\ c[m - 1] <= Len(w) /\ \A k \in 1 .. c[m - 1] : w[k] = ns[k]
      BY <1>3, <1>4, <1>7
    <2>2. n \in n .. n + 1
      OBVIOUS
    <2>3. QED
      BY <1>1, <1>2, <1>3, <1>4, <2>1, <2>2, EntryPopped
  <1>9. Len(Front(s)) = m - 1 /\ Front(s)[m - 1] = s[m - 1] /\ s[m - 1] \in Entries
    <2>1. Len(Front(s)) = m - 1 /\ \A i \in 1 .. m - 1 : Front(s)[i] = s[i]
      BY <1>1, TopAndPop
    <2>2. m - 1 \in 1 .. m - 1
      BY <1>3, <1>4
    <2>3. s[m - 1] \in Entries
      BY <1>1, <1>4
    <2>4. QED
      BY <2>1, <2>2, <2>3
  <1>10. f[m - 1] = p[m - 1] /\ g[m - 1] = c[m - 1]
    <2>1. m - 1 \in 1 .. m - 1
      BY <1>3, <1>4
    <2> HIDE DEF m
    <2>2. QED
      BY <2>1, Zenon DEF Fewer
  <1>11. Precedence(s[m - 1]) + 1 <= Precedence(s[m])
         /\ Precedence(s[m - 1]) \in Int /\ Precedence(s[m]) \in Int
    <2>1. Precedence(s[m - 1]) \in {-1, 1, 2} /\ Precedence(s[m]) \in {1, 2}
      BY <1>9, EntryPrecedence, Precedences
    <2>2. CASE s[m - 1] \in Binary
      <3>1. m \in 2 .. m
        BY <1>3, <1>4
      <3>2. Precedence(s[m - 1]) < Precedence(s[m])
        BY <2>2, <3>1 DEF Sound
      <3>3. QED
        BY <2>1, <3>2
    <2>3. CASE s[m - 1] \in Markers
      <3>1. \A x \in Markers : Precedence(x) = -1
        BY DEF Precedence, Markers
      <3>2. QED
        BY <2>1, <2>3, <3>1
    <2>4. QED
      BY <1>9, <2>2, <2>3 DEF Entries
  <1>12. Meaning(t, p[m - 1] + 1, n) = ValueOf(v)
    BY <1>3, CombinedValues DEF v
  <1>13. /\ Above(t, p[m - 1] + 1, n, q)
         /\ Above(t, p[m - 1] + 1, n, Precedence(s[m - 1]) + 1)
    <2> DEFINE a == p[m - 1] + 1
               x == Precedence(s[m - 1]) + 1
               y == Precedence(s[m])
    <2>1. Above(t, a, n, y) /\ x \in Int /\ y \in Int /\ x <= y /\ q <= y
      BY <1>3, <1>11
    <2> HIDE DEF a, x, y
    <2>2. Above(t, a, n, q) /\ Above(t, a, n, x)
      BY <2>1, AboveLess
    <2>3. QED
      BY <2>2 DEF a, x
  <1>14. p[m - 1] < n
    <2> DEFINE x == p[m - 1]
               y == p[m]
    <2>1. x \in 0 .. n /\ y \in 0 .. n
      BY <1>4
    <2>2. x + 1 < y /\ y < n
      BY <1>3
    <2> HIDE DEF x, y
    <2>3. x < n
      BY <2>1, <2>2
    <2>4. QED
      BY <2>3 DEF x
  <1>15. TopOperand(t, n, Front(s), w, f, g, q)
    <2>1. Len(w) = g[m - 1] + 1 /\ w[Len(w)] = v
      BY <1>3, <1>4, <1>7, <1>10
    <2> HIDE DEF m, l, f, g
    <2>2. QED
      BY <1>9, <1>10, <1>12, <1>13, <1>14, <2>1 DEF TopOperand
  <1>16. Stacked(t, n, Front(s), w, q)
    BY <1>8, <1>15 DEF Stacked
  <1>17. QED
    BY <1>3, <1>16 DEF w, v

\* A closing bracket takes its marker off the stack.
LEMMA Closed ==
  ASSUME NEW t, Len(t) \in Nat, NEW n \in Nat, n < Len(t), Ended(t, n), t[n + 1].kind = ")",
         NEW s \in Seq(Entries), Len(s) > 1, s[Len(s)] \in Markers, NEW ns \in Seq(Int),
         NEW q, Stacked(t, n, s, ns, q)
  PROVE  Stacked(t, n + 1, Front(s), ns, 3)
  <1> DEFINE m == Len(s)
             l == Len(ns)
  <1>1. s # <<>> /\ m \in Nat /\ l \in Nat /\ m - 1 \in 1 .. m /\ m \in 2 .. m /\ m \in 1 .. m
    OBVIOUS
  <1>2. PICK p \in [1 .. m -> 0 .. n], c \in [1 .. m -> 0 .. l] :
          Traced(t, n, s, ns, p, c) /\ TopOperand(t, n, s, ns, p, c, q)
    BY DEF Stacked
  <1> DEFINE a == p[m - 1]
             b == p[m]
  <1>3. b = a + 1 /\ c[m] = c[m - 1] /\ t[b].kind = "("
    BY <1>1, <1>2 DEF Traced, Entry
  <1>4. b < n /\ l = c[m] + 1 /\ Meaning(t, b + 1, n) = ValueOf(ns[l])
    BY <1>2 DEF TopOperand
  <1>5. /\ \A k \in b + 1 .. n + 1 : Depth(t, b + 1) <= Depth(t, k)
        /\ Depth(t, n + 1) = Depth(t, b + 1)
    BY <1>1, <1>2 DEF Traced
  <1>6. a \in 0 .. n /\ b \in 0 .. n /\ c[m] \in 0 .. l /\ c[m - 1] \in 0 .. l
    BY <1>1
  <1> HIDE DEF a, b
  <1>7. b \in Nat \ {0} /\ n + 1 \in Nat \ {0} /\ (n + 1) + 1 = n + 2
    BY <1>3, <1>6
  <1>8. /\ Depth(t, b + 1) = Depth(t, b) + 1 /\ Depth(t, b) \in Int
        /\ Depth(t, n + 2) = Depth(t, n + 1) - 1
    <2>1. Depth(t, b + 1) = Depth(t, b) + Rise(t[b]) /\ Depth(t, b) \in Int
      BY <1>7, DepthRises
    <2>2. Depth(t, (n + 1) + 1) = Depth(t, n + 1) + Rise(t[n + 1]) /\ Depth(t, n + 1) \in Int
      BY <1>7, DepthRises
    <2>3. Rise(t[b]) = 1 /\ Rise(t[n + 1]) = -1
      BY <1>3 DEF Rise
    <2>4. QED
      BY <1>7, <2>1, <2>2, <2>3
  <1>9. ASSUME NEW k \in b + 1 .. n + 1 PROVE Depth(t, b) < Depth(t, k)
    <2>1. Depth(t, b + 1) <= Depth(t, k)
      BY <1>5
    <2>2. k \in Nat \ {0}
      BY <1>7
    <2>3. Depth(t, k) \in Int
      BY <2>2, DepthRises
    <2>4. QED
      BY <1>8, <2>1, <2>3
  <1>10. Meaning(t, b, n + 1) = Meaning(t, b + 1, n) /\ Above(t, b, n + 1, 3)
    <2>1. b \in 1 .. Len(t) /\ n + 1 \in 1 .. Len(t) /\ b < n + 1 /\ (n + 1) - 1 = n
      BY <1>4, <1>6, <1>7
    <2>2. QED
      BY <1>3, <1>9, <2>1, BracketMeans
  <1>11. Depth(t, (n + 1) + 1) = Depth(t, a + 1)
    BY <1>3, <1>5, <1>7, <1>8
  <1> DEFINE f == Fewer(p, m - 1)
             g == Fewer(c, m - 1)
  <1>12. /\ f \in [1 .. Len(Front(s)) -> 0 .. n + 1]
         /\ g \in [1 .. Len(Front(s)) -> 0 .. l]
         /\ Traced(t, n + 1, Front(s), ns, f, g)
    <2>1. c[m - 1] <= l /\ \A k \in 1 .. c[m - 1] : ns[k] = ns[k]
      BY <1>6
    <2>2. n + 1 \in n .. n + 1 /\ n + 1 <= Len(t) /\ n <= Len(t)
      OBVIOUS
    <2>3. QED
      BY <1>1, <1>2, <1>11, <2>1, <2>2, EntryPopped DEF a
  <1>13. Len(Front(s)) = m - 1 /\ Front(s)[m - 1] = s[m - 1] /\ s[m - 1] \in Entries
    <2>1. Len(Front(s)) = m - 1 /\ \A i \in 1 .. m - 1 : Front(s)[i] = s[i]
      BY <1>1, TopAndPop
    <2>2. m - 1 \in 1 .. m - 1
      BY <1>1
    <2>3. s[m - 1] \in Entries
      BY <1>1
    <2>4. QED
      BY <2>1, <2>2, <2>3
  <1>14. f[m - 1] = a /\ g[m - 1] = c[m - 1]
    <2>1. m - 1 \in 1 .. m - 1
      BY <1>1
    <2> HIDE DEF m
    <2>2. QED
      BY <2>1, Zenon DEF Fewer, a
  <1>15. Above(t, a + 1, n + 1, 3) /\ Above(t, a + 1, n + 1, Precedence(s[m - 1]) + 1)
    <2> DEFINE x == Precedence(s[m - 1])
    <2>1. x \in {-1, 1, 2}
      BY <1>13, EntryPrecedence
    <2> HIDE DEF x
    <2>2. x + 1 \in Int /\ x + 1 <= 3
      BY <2>1
    <2>3. Above(t, a + 1, n + 1, x + 1)
      BY <1>3, <1>10, <2>2, AboveLess
    <2>4. QED
      BY <1>3, <1>10, <2>3 DEF x
  <1>16. Ended(t, n + 1)
    BY <1>7 DEF Ended
  <1>17. TopOperand(t, n + 1, Front(s), ns, f, g, 3)
    <2>1. l = g[m - 1] + 1 /\ f[m - 1] < n + 1
      <3>1. a < n + 1
        BY <1>6
      <3> HIDE DEF m, f, g
      <3>2. QED
        BY <1>3, <1>4, <1>14, <3>1
    <2>2. Meaning(t, a + 1, n + 1) = ValueOf(ns[l])
      BY <1>3, <1>4, <1>10
    <2> HIDE DEF m, f, g
    <2>3. QED
      BY <1>13, <1>14, <1>15, <1>16, <2>1, <2>2 DEF TopOperand
  <1>18. QED
    BY <1>12, <1>17 DEF Stacked

\* A bracket that is still on the stack is not closed.
LEMMA Unclosed ==
  ASSUME NEW t, Len(t) \in Nat, NEW n \in Nat, n <= Len(t), NEW s, Len(s) \in Nat, s[1] \in Markers,
         NEW ns, NEW p \in [1 .. Len(s) -> 0 .. n], NEW c, Traced(t, n, s, ns, p, c),
         NEW i \in 2 .. Len(s), s[i] \in Markers
  PROVE  Meaning(t, 1, n).kind = "malformed"
  <1> DEFINE a == p[i - 1]
             b == p[i]
  <1>1. i \in 1 .. Len(s) /\ i - 1 \in 1 .. Len(s) /\ 1 \in 1 .. Len(s)
    OBVIOUS
  <1>2. b = a + 1 /\ t[b].kind = "(" /\ a \in 0 .. n /\ b \in 0 .. n
    <2>1. Entry(t, s, ns, p, c, i)
      BY DEF Traced
    <2>2. QED
      BY <1>1, <2>1 DEF Entry
  <1>3. \A k \in b + 1 .. n + 1 : Depth(t, b + 1) <= Depth(t, k)
    BY <1>1 DEF Traced
  <1>4. \A k \in 1 .. n + 1 : 0 <= Depth(t, k)
    <2>1. p[1] = 0 /\ \A k \in p[1] + 1 .. n + 1 : Depth(t, p[1] + 1) <= Depth(t, k)
      BY <1>1 DEF Traced
    <2>2. Depth(t, 1) = 0
      <3>1. 1 \in Nat \ {0}
        OBVIOUS
      <3>2. QED
        BY <3>1, DepthRises
    <2>3. QED
      BY <2>1, <2>2
  <1> HIDE DEF a, b
  <1>5. b \in Nat \ {0} /\ b \in 1 .. n + 1 /\ n + 1 \in b + 1 .. n + 1
    BY <1>2
  <1>6. Depth(t, b + 1) = Depth(t, b) + 1 /\ Depth(t, b) \in Int
    <2>1. Depth(t, b + 1) = Depth(t, b) + Rise(t[b]) /\ Depth(t, b) \in Int
      BY <1>5, DepthRises
    <2>2. QED
      BY <1>2, <2>1 DEF Rise
  <1>7. Depth(t, n + 1) # 0
    <2>1. Depth(t, b + 1) <= Depth(t, n + 1) /\ 0 <= Depth(t, b)
      BY <1>3, <1>4, <1>5
    <2>2. QED
      BY <1>6, <2>1
  <1>8. ASSUME Meaning(t, 1, n).kind # "malformed" PROVE FALSE
    <2>1. 1 \in 1 .. Len(t) + 1 /\ n \in 0 .. Len(t) /\ 1 \in Nat \ {0}
      OBVIOUS
    <2>2. WellFormed(t, 1, n)
      BY <1>8, <2>1, MeantIsWellFormed
    <2>3. Depth(t, n + 1) = 0
      BY <2>1, <2>2, DepthRises DEF WellFormed
    <2>4. QED
      BY <1>7, <2>3
  <1>9. QED
    BY <1>8

\* Where the left operand of the sign on top begins, and what stands before it.
LEMMA TopOfProduct ==
  ASSUME NEW t, Len(t) \in Nat, NEW n \in Nat, n <= Len(t),
         NEW s, Sound(s), s[Len(s)] \in {"*", "/"}, NEW ns,
         NEW p \in [1 .. Len(s) -> 0 .. n], NEW c, Traced(t, n, s, ns, p, c),
         NEW b \in 0 .. n, b = p[Len(s) - 1], Len(s) > 1, b # 0
  PROVE  t[b].kind \in {"(", "+", "-"} /\ ~Signed(t, b)
  <1> DEFINE m == Len(s)
             i == m - 1
             a == p[i - 1]
  <1>1. s \in Seq(Entries) /\ m \in Nat /\ m > 1
    BY DEF Sound
  <1>2. b = p[i] /\ p[1] = 0 /\ \A k \in 2 .. m : Entry(t, s, ns, p, c, k)
    BY DEF Traced
  <1>3. i # 1
    <2>1. ASSUME i = 1 PROVE FALSE
      <3>1. b = p[1]
        BY <1>2, <2>1, Zenon
      <3>2. QED
        BY <1>2, <3>1, Zenon
    <2>2. QED
      BY <2>1, Zenon
  <1> HIDE DEF m
  <1>4. i \in 2 .. m /\ i - 1 \in 1 .. m /\ i \in 1 .. m /\ i + 1 = m /\ m \in 2 .. m
        /\ m \in 3 .. m
    BY <1>1, <1>3
  <1>5. /\ i \in 2 .. m /\ i - 1 \in 1 .. m /\ i \in 1 .. m /\ i + 1 = m /\ m \in 2 .. m
        /\ m \in 3 .. m /\ i - 1 \in 1 .. Len(s)
    BY <1>4 DEF m
  <1> HIDE DEF i
  <1>6. Entry(t, s, ns, p, c, i)
    BY <1>2, <1>5
  <1>7. CASE s[i] \in Markers
    BY <1>2, <1>6, <1>7 DEF Entry, Signed
  <1>8. CASE s[i] \notin Markers
    <2>1. a + 1 < b /\ t[b].kind = s[i] /\ Meaning(t, a + 1, b - 1).kind = "value"
      BY <1>2, <1>6, <1>8 DEF Entry, ValueOf
    <2>2. a \in 0 .. n
      BY <1>5 DEF m
    <2>3. s[i] \in {"+", "-"}
      <3>1. s[i] \in Binary
        BY <1>1, <1>5, <1>8 DEF Entries, m
      <3>2. s[m] \in Binary /\ Precedence(s[m]) = 2
        BY DEF Precedence, Markers, Binary, m
      <3>3. Precedence(s[i]) < Precedence(s[m])
        <4>1. m \in 2 .. Len(s) /\ m - 1 = i
          BY <1>1, <1>5 DEF m
        <4>2. QED
          BY <3>1, <3>2, <4>1 DEF Sound
      <3>4. QED
        BY <3>1, <3>2, <3>3, Precedences
    <2> HIDE DEF a
    <2>4. a + 1 \in 1 .. Len(t) + 1 /\ b - 1 \in 0 .. Len(t) /\ b # 1
      BY <2>1, <2>2
    <2>5. Ended(t, b - 1)
      BY <2>1, <2>4, MeantIsWellFormed DEF WellFormed
    <2>6. QED
      BY <2>1, <2>3, <2>4, <2>5 DEF Ended, Signed, Leading
  <1>9. QED
    BY <1>7, <1>8

\* However a text goes on after a division by zero is done, it has no value.
LEMMA DivisionFails ==
  ASSUME NEW t \in Seq(Tokens), NEW n \in Nat, n <= Len(t), Ended(t, n),
         NEW s, Sound(s), s[Len(s)] \in Binary, NEW ns \in Seq(Int),
         NEW q, Stacked(t, n, s, ns, q), NEW j \in n .. Len(t)
  PROVE  s[Len(s)] = "/" /\ ns[Len(ns)] = 0 => Meaning(t, 1, j).kind # "value"
  <1> DEFINE m == Len(s)
             l == Len(ns)
  <1>1. s \in Seq(Entries) /\ s # <<>> /\ s[1] \in Markers /\ m \in Nat /\ Len(t) \in Nat
    BY DEF Sound
  <1>2. PICK p \in [1 .. m -> 0 .. n], c \in [1 .. m -> 0 .. l] :
          Traced(t, n, s, ns, p, c) /\ TopOperand(t, n, s, ns, p, c, q)
    BY DEF Stacked
  <1> DEFINE b == p[m - 1]
             a == b + 1
  <1>3. /\ m > 1 /\ p[m - 1] + 1 < p[m] /\ p[m] < n
        /\ Meaning(t, p[m - 1] + 1, n) = Combined(ValueOf(ns[l - 1]), s[m], ValueOf(ns[l]))
        /\ Above(t, p[m - 1] + 1, n, Precedence(s[m]))
    BY <1>1, <1>2, TopJoins
  <1> SUFFICES ASSUME s[m] = "/", ns[l] = 0
               PROVE  Meaning(t, 1, j).kind # "value"
    OBVIOUS
  <1>4. s[m] \in {"*", "/"} /\ Precedence(s[m]) = 2
    BY DEF Precedence, Markers
  <1>5. b \in 0 .. n /\ p[m] \in 0 .. n
    <2>1. m - 1 \in 1 .. m /\ m \in 1 .. m
      BY <1>1, <1>3
    <2>2. QED
      BY <2>1
  <1>6. Meaning(t, a, n) = DividesByZero
    BY <1>3, CombinedValues
  <1>7. Above(t, a, n, 2)
    BY <1>3, <1>4
  <1>8. b < n
    <2> DEFINE x == p[m]
    <2>1. b + 1 < x /\ x < n /\ x \in 0 .. n
      BY <1>3, <1>5
    <2> HIDE DEF b, x
    <2>2. QED
      BY <1>5, <2>1
  <1>9. b # 0 => t[b].kind \in {"(", "+", "-"} /\ ~Signed(t, b)
    BY <1>1, <1>2, <1>3, <1>4, <1>5, TopOfProduct
  <1> HIDE DEF b, m, l
  <1>10. a \in 1 .. Len(t) /\ n \in a .. Len(t) /\ 1 \in 1 .. a /\ a - 1 = b
    BY <1>1, <1>5, <1>8
  <1>11. Factors(t, a, n)
    BY <1>5, <1>7, <1>9, <1>10 DEF Factors
  <1> HIDE DEF a
  <1>12. QED
    BY <1>6, <1>10, <1>11, DivisionSpoils

\* At the end of a text with a meaning, it is the only number.
LEMMA Finished ==
  ASSUME NEW t, Len(t) \in Nat, NEW n \in Nat, n <= Len(t), Ended(t, n),
         NEW s, Sound(s), s[Len(s)] \in Markers, NEW ns \in Seq(Int),
         NEW q, Stacked(t, n, s, ns, q), Meaning(t, 1, n).kind # "malformed"
  PROVE  Len(s) = 1 /\ Len(ns) = 1 /\ Meaning(t, 1, n) = ValueOf(ns[1])
  <1> DEFINE m == Len(s)
             l == Len(ns)
  <1>1. s \in Seq(Entries) /\ s # <<>> /\ s[1] \in Markers /\ m \in Nat /\ m # 0
    BY DEF Sound
  <1>2. PICK p \in [1 .. m -> 0 .. n], c \in [1 .. m -> 0 .. l] :
          Traced(t, n, s, ns, p, c) /\ TopOperand(t, n, s, ns, p, c, q)
    BY DEF Stacked
  <1>3. m = 1
    <2>1. ASSUME m # 1 PROVE FALSE
      <3>1. m \in 2 .. m
        <4> HIDE DEF m
        <4>1. QED
          BY <1>1, <2>1
      <3>2. QED
        BY <1>1, <1>2, <3>1, Unclosed
    <2>2. QED
      BY <2>1
  <1>4. p[1] = 0 /\ c[1] = 0
    BY <1>2 DEF Traced
  <1>5. l = c[m] + 1 /\ Meaning(t, p[m] + 1, n) = ValueOf(ns[l])
    BY <1>2 DEF TopOperand
  <1>6. l = 1 /\ p[m] + 1 = 1
    BY <1>3, <1>4, <1>5
  <1>7. QED
    BY <1>3, <1>5, <1>6

-----------------------------------------------------------------------------
(* One token more                                                            *)

\* The meaning of a text is that of the tokens before its end.
LEMMA TextMeaningIs ==
  ASSUME NEW t
  PROVE  TextMeaning(t) =
           IF t # <<>> /\ t[Len(t)].kind = "end" THEN Meaning(t, 1, Len(t) - 1) ELSE Malformed
  BY DEF TextMeaning, Meaning

\* In a text that means anything, every token may stand where it stands.
LEMMA MeantIsProper ==
  ASSUME NEW t \in Seq(Tokens), TextMeaning(t).kind # "malformed"
  PROVE  /\ t # <<>> /\ t[Len(t)].kind = "end" /\ TextMeaning(t) = Meaning(t, 1, Len(t) - 1)
         /\ Ended(t, Len(t) - 1) /\ Proper(t)
  <1> DEFINE n == Len(t) - 1
  <1>1. t # <<>> /\ t[Len(t)].kind = "end" /\ TextMeaning(t) = Meaning(t, 1, n)
    BY TextMeaningIs DEF Malformed
  <1>2. Len(t) \in Nat /\ n \in Nat /\ Len(t) = n + 1 /\ 1 \in 1 .. Len(t) + 1 /\ n \in 0 .. Len(t)
    BY <1>1
  <1> HIDE DEF n
  <1>3. WellFormed(t, 1, n)
    BY <1>1, <1>2, MeantIsWellFormed
  <1>4. ASSUME NEW k \in 1 .. Len(t) PROVE Fits(t, k)
    <2>1. CASE k \in 2 .. n
      BY <1>3, <2>1 DEF WellFormed
    <2>2. CASE k = 1
      <3>1. Begins(t, 1) /\ ~Ended(t, 1 - 1)
        BY <1>3 DEF WellFormed, Ended
      <3>2. t[1].kind \in {"number", "("} => t[1].kind \notin Binary \cup {")", "end", "bad"}
        BY DEF Binary
      <3>3. QED
        BY <2>2, <3>1, <3>2 DEF Begins, Fits
    <2>3. CASE k = n + 1
      <3>1. Ended(t, n) /\ (n + 1) - 1 = n
        BY <1>2, <1>3 DEF WellFormed
      <3>2. t[n].kind # "end" /\ ~Signed(t, n)
        BY <3>1 DEF Ended, Signed
      <3>3. QED
        BY <1>1, <1>2, <2>3, <3>1, <3>2 DEF Fits
    <2>4. k \in 2 .. n \/ k = 1 \/ k = n + 1
      BY <1>2
    <2>5. QED
      BY <2>1, <2>2, <2>3, <2>4
  <1>5. QED
    BY <1>1, <1>3, <1>4 DEF Proper, WellFormed, n

\* What a step that reads a token does to the text.
LEMMA TokenExtends ==
  ASSUME TypeOK, NEW kind \in Kinds, NEW v \in Numbers \cup {0}, Reads(kind, v)
  PROVE  /\ text \in Seq(Tokens) /\ text' \in Seq(Tokens)
         /\ Len(text) \in Nat /\ Len(text') = Len(text) + 1 /\ GoesOn(text, text')
         /\ text'[Len(text) + 1] = [kind |-> kind, value |-> v]
         /\ Ended(text', Len(text)) <=> Ended(text, Len(text))
         /\ Proper(text') => Proper(text) /\ Fits(text', Len(text) + 1)
         /\ kind # "end" => TextMeaning(text') = Malformed
  <1> DEFINE x == [kind |-> kind, value |-> v]
             n == Len(text)
             u == text'
  <1>1. x \in Tokens /\ text \in Seq(Tokens) /\ n \in Nat
    BY DEF Tokens, TypeOK
  <1>2. u = Append(text, x)
    BY DEF Reads
  <1>3. /\ u \in Seq(Tokens) /\ u # <<>> /\ Len(u) = n + 1
        /\ u[n + 1] = x /\ \A k \in 1 .. n : u[k] = text[k]
    BY <1>1, <1>2, Pushed
  <1> HIDE DEF u
  <1>4. GoesOn(text, u)
    <2> HIDE DEF n
    <2>1. QED
      BY <1>1, <1>3 DEF GoesOn, n
  <1>5. \A k \in 0 .. n : Ended(u, k) <=> Ended(text, k)
    BY <1>1, <1>3 DEF Ended
  <1>6. ASSUME Proper(u) PROVE Proper(text) /\ Fits(u, n + 1)
    <2>1. \A k \in 1 .. n + 1 : Fits(u, k)
      BY <1>3, <1>6 DEF Proper
    <2>2. ASSUME NEW k \in 1 .. n PROVE Fits(text, k)
      <3>1. k - 1 \in 0 .. n /\ (k # 1 => k - 1 \in 1 .. n) /\ k \in 1 .. n + 1
            /\ (k > 1 /\ k - 1 # 1 => (k - 1) - 1 \in 1 .. n)
        BY <1>1
      <3>2. (Ended(u, k - 1) <=> Ended(text, k - 1)) /\ (Leading(u, k) <=> Leading(text, k))
            /\ u[k] = text[k]
        BY <1>3, <1>5, <3>1 DEF Leading
      <3>5. k > 1 => u[k - 1] = text[k - 1] /\ (Signed(u, k - 1) <=> Signed(text, k - 1))
        BY <1>3, <3>1 DEF Leading, Signed
      <3>3. Fits(u, k)
        BY <2>1, <3>1
      <3>4. QED
        BY <3>2, <3>3, <3>5 DEF Fits
    <2>3. n + 1 \in 1 .. n + 1
      BY <1>1
    <2>4. QED
      BY <2>1, <2>2, <2>3 DEF Proper
  <1>7. ASSUME kind # "end" PROVE TextMeaning(u) = Malformed
    <2>1. u[Len(u)].kind # "end"
      BY <1>3, <1>7
    <2>2. QED
      BY <2>1, TextMeaningIs
  <1>8. n \in 0 .. n
    BY <1>1
  <1>9. QED
    BY <1>1, <1>3, <1>4, <1>5, <1>6, <1>7, <1>8 DEF u

\* A smaller bound holds as well.
LEMMA StackedLess ==
  ASSUME NEW t, NEW n, NEW s, NEW ns, NEW q \in Int, NEW r \in Int, r <= q, Stacked(t, n, s, ns, q)
  PROVE  Stacked(t, n, s, ns, r)
  <1>1. PICK p \in [1 .. Len(s) -> 0 .. n], c \in [1 .. Len(s) -> 0 .. Len(ns)] :
          Traced(t, n, s, ns, p, c) /\ TopOperand(t, n, s, ns, p, c, q)
    BY DEF Stacked
  <1>2. TopOperand(t, n, s, ns, p, c, r)
    BY <1>1, AboveLess DEF TopOperand
  <1>3. QED
    BY <1>1, <1>2, Zenon DEF Stacked

\* What is left to show of a step, by where it leads.
LEMMA OnlyRead ==
  ASSUME phase' = "read", Proper(text') => Stacked(text', Len(text'), operators', numbers', 3)
  PROVE  MeaningInv'
  BY DEF MeaningInv, StackedRead, StackedMinus, StackedUnwind, StackedFinish, Verdict

\* And if the text is refused.
LEMMA OnlyRefused ==
  ASSUME phase' = "invalid", Hopeless(text')
  PROVE  MeaningInv'
  BY DEF MeaningInv, StackedRead, StackedMinus, StackedUnwind, StackedFinish, Verdict

\* Every token of a text that goes on stands as it stood.
LEMMA ProperKept ==
  ASSUME NEW t, NEW u, GoesOn(t, u), Proper(u)
  PROVE  Proper(t)
  <1>1. /\ Len(t) \in Nat /\ Len(u) \in Nat /\ Len(t) <= Len(u)
        /\ \A k \in 1 .. Len(t) : u[k] = t[k]
    BY DEF GoesOn
  <1>2. ASSUME NEW k \in 1 .. Len(t) PROVE Fits(t, k)
    <2>1. /\ k > 1 => k - 1 \in 1 .. Len(t)
          /\ k > 1 /\ k - 1 # 1 => (k - 1) - 1 \in 1 .. Len(t)
          /\ k \in 1 .. Len(u) /\ (k # 1 => k > 1) /\ (k - 1 >= 1 => k > 1)
      BY <1>1
    <2>2. u[k] = t[k] /\ (k > 1 => u[k - 1] = t[k - 1])
      BY <1>1, <2>1
    <2>3. (Ended(u, k - 1) <=> Ended(t, k - 1)) /\ (Leading(u, k) <=> Leading(t, k))
      BY <2>1, <2>2 DEF Ended, Leading
    <2>4. k > 1 => (Signed(u, k - 1) <=> Signed(t, k - 1))
      BY <1>1, <2>1, <2>2 DEF Signed, Leading
    <2>5. Fits(u, k)
      BY <2>1 DEF Proper
    <2>6. QED
      BY <2>2, <2>3, <2>4, <2>5 DEF Fits
  <1>3. QED
    BY <1>2 DEF Proper

\* A text in which a token does not fit is hopeless.
LEMMA ImproperIsHopeless ==
  ASSUME NEW t, ~Proper(t)
  PROVE  Hopeless(t)
  <1> SUFFICES ASSUME NEW u \in Seq(Tokens), GoesOn(t, u), TextMeaning(u).kind = "value"
               PROVE  FALSE
    BY DEF Hopeless
  <1>1. Proper(u)
    BY MeantIsProper
  <1>2. QED
    BY <1>1, ProperKept

\* So is one that has ended without a value.
LEMMA EndedIsHopeless ==
  ASSUME NEW t \in Seq(Tokens), t # <<>>, t[Len(t)].kind = "end", TextMeaning(t).kind # "value"
  PROVE  Hopeless(t)
  <1> DEFINE n == Len(t)
  <1> SUFFICES ASSUME NEW u \in Seq(Tokens), GoesOn(t, u), TextMeaning(u).kind = "value"
               PROVE  FALSE
    BY DEF Hopeless
  <1>1. /\ n \in Nat \ {0} /\ Len(u) \in Nat /\ n <= Len(u)
        /\ \A k \in 1 .. n : u[k] = t[k]
    BY DEF GoesOn
  <1>2. u # <<>> /\ TextMeaning(u) = Meaning(u, 1, Len(u) - 1) /\ Proper(u)
    BY MeantIsProper
  <1>3. u[n].kind = "end" /\ t[n].kind = "end"
    BY <1>1
  <1>4. CASE Len(u) = n
    <2>1. 1 \in 1 .. Len(t) + 1 /\ n - 1 \in 0 .. Len(t)
      BY <1>1
    <2>2. Meaning(u, 1, n - 1) = Meaning(t, 1, n - 1)
      BY <2>1, PartsKept
    <2>3. TextMeaning(t) = Meaning(t, 1, n - 1)
      BY TextMeaningIs
    <2>4. QED
      BY <1>2, <1>4, <2>2, <2>3
  <1>5. CASE Len(u) # n
    <2> HIDE DEF n
    <2>1. n + 1 \in 1 .. Len(u) /\ (n + 1) - 1 = n /\ n + 1 > 1
      BY <1>1, <1>5
    <2>2. Fits(u, n + 1)
      BY <1>2, <2>1 DEF Proper
    <2>3. QED
      BY <1>3, <2>1, <2>2 DEF Fits
  <1>6. QED
    BY <1>4, <1>5

\* And one that closes a bracket that it did not open.
LEMMA UnopenedIsHopeless ==
  ASSUME NEW t \in Seq(Tokens), NEW n \in Nat, Len(t) = n + 1, t[n + 1].kind = ")",
         Depth(t, n + 1) = 0
  PROVE  Hopeless(t)
  <1> SUFFICES ASSUME NEW u \in Seq(Tokens), GoesOn(t, u), TextMeaning(u).kind = "value"
               PROVE  FALSE
    BY DEF Hopeless
  <1> DEFINE l == Len(u)
  <1>1. /\ l \in Nat /\ n + 1 <= l /\ u[n + 1] = t[n + 1]
    <2>1. n + 1 \in 1 .. Len(t)
      OBVIOUS
    <2>2. QED
      BY <2>1 DEF GoesOn
  <1>2. u # <<>> /\ u[l].kind = "end" /\ TextMeaning(u) = Meaning(u, 1, l - 1)
    BY MeantIsProper
  <1>3. n + 1 # l
    BY <1>1, <1>2
  <1>4. 1 \in 1 .. Len(u) + 1 /\ l - 1 \in 0 .. Len(u) /\ Len(u) \in Nat
    BY <1>1
  <1>5. WellFormed(u, 1, l - 1)
    BY <1>2, <1>4, MeantIsWellFormed
  <1> HIDE DEF l
  <1>6. (n + 1) + 1 \in 1 .. (l - 1) + 1
    BY <1>1, <1>3
  <1>7. Depth(u, 1) <= Depth(u, (n + 1) + 1)
    BY <1>5, <1>6 DEF WellFormed
  <1>8. Depth(u, 1) = 0
    <2>1. 1 \in Nat \ {0}
      OBVIOUS
    <2>2. QED
      BY <2>1, DepthRises
  <1>9. Depth(u, (n + 1) + 1) = Depth(u, n + 1) + Rise(u[n + 1]) /\ Depth(u, n + 1) = 0
    <2>1. n + 1 \in Nat \ {0} /\ n + 1 \in 1 .. Len(t) + 1 /\ 0 \in 0 .. Len(t)
      OBVIOUS
    <2>2. Depth(u, n + 1) = Depth(t, n + 1)
      BY <2>1, PartsKept
    <2>3. QED
      BY <2>1, <2>2, DepthRises
  <1>10. Rise(u[n + 1]) = -1
    BY <1>1 DEF Rise
  <1>11. QED
    BY <1>7, <1>8, <1>9, <1>10

\* An operand is expected where the stack says that an expression begins.
LEMMA NoneEnded ==
  ASSUME BalancedInv, phase = "read"
  PROVE  /\ text \in Seq(Tokens)
         /\ Last(operators) = "start" <=> Len(text) = 0 \/ text[Len(text)].kind = "("
         /\ Last(operators) = "start" => ~Ended(text, Len(text))
         /\ Last(operators) # "start" => ~Leading(text, Len(text) + 1)
  <1>1. text \in Seq(Tokens)
    BY DEF BalancedInv, IInv, TypeOK
  <1>2. Len(text) \in Nat /\ (text = <<>> <=> Len(text) = 0) /\ (Len(text) + 1) - 1 = Len(text)
    BY <1>1
  <1>3. Last(operators) = "start" <=> text = <<>> \/ Last(text).kind = "("
    BY DEF BalancedInv, BalanceInv, BeginningSeen
  <1>4. Last(text) = text[Len(text)]
    BY DEF Last
  <1>5. Last(operators) = "start" <=> Len(text) = 0 \/ text[Len(text)].kind = "("
    BY <1>2, <1>3, <1>4
  <1>6. QED
    BY <1>1, <1>2, <1>5 DEF Ended, Leading

\* What the steps that read know of the state they start from.
LEMMA ReadingFrom ==
  ASSUME BalancedInv, MeaningInv, phase \in {"read", "minus"}
  PROVE  /\ TypeOK /\ Sound(operators) /\ operators \in Seq(Entries) /\ operators # <<>>
         /\ numbers \in Seq(Int) /\ text \in Seq(Tokens)
         /\ phase = "read" /\ Proper(text) => Stacked(text, Len(text), operators, numbers, 3)
  <1>1. IInv
    BY DEF BalancedInv
  <1>2. TypeOK
    BY <1>1 DEF IInv
  <1>3. Sound(operators)
    BY <1>1, StackIsSound
  <1>4. QED
    BY <1>2, <1>3 DEF Sound, TypeOK, MeaningInv, StackedRead

\* An opening bracket is pushed where an operand is expected.
LEMMA ReadOpeningMeans ==
  ASSUME BalancedInv, MeaningInv, ReadOpening
  PROVE  MeaningInv'
  <1> DEFINE n == Len(text)
  <1>1. Reads("(", 0) /\ phase = "read" /\ phase' = "read"
        /\ operators' = Append(operators, "start") /\ numbers' = numbers
    BY DEF ReadOpening
  <1>2. /\ TypeOK /\ operators \in Seq(Entries) /\ operators # <<>> /\ numbers \in Seq(Int)
        /\ Proper(text) => Stacked(text, n, operators, numbers, 3)
    BY <1>1, ReadingFrom
  <1>3. "(" \in Kinds /\ 0 \in Numbers \cup {0}
    BY DEF Kinds
  <1>4. /\ n \in Nat /\ Len(text') = n + 1 /\ GoesOn(text, text')
        /\ text'[n + 1] = [kind |-> "(", value |-> 0]
        /\ Ended(text', n) <=> Ended(text, n)
        /\ Proper(text') => Proper(text) /\ Fits(text', n + 1)
    BY <1>1, <1>2, <1>3, TokenExtends
  <1>5. ASSUME Proper(text') PROVE Stacked(text', n + 1, operators', numbers', 3)
    <2> HIDE DEF n
    <2>1. Stacked(text, n, operators, numbers, 3)
      BY <1>2, <1>4, <1>5
    <2>2. Stacked(text', n, operators, numbers, 3)
      BY <1>2, <1>4, <2>1, StackedKept DEF n
    <2>3. text'[n + 1].kind = "("
      BY <1>4
    <2>4. ~Ended(text', n)
      <3>1. (n + 1) - 1 = n
        BY <1>4
      <3>2. QED
        BY <1>4, <1>5, <2>3, <3>1 DEF Fits
    <2>5. Len(text') \in Nat /\ n < Len(text')
      BY <1>4
    <2>6. QED
      BY <1>1, <1>2, <1>4, <2>2, <2>3, <2>4, <2>5, BracketPushed
  <1>6. QED
    BY <1>1, <1>4, <1>5, OnlyRead

\* A step that reads a sign or a bracket that waits.
LEMMA WaitsMeans ==
  ASSUME BalancedInv, MeaningInv, NEW kind \in Binary \cup {")", "end"}, Reads(kind, 0),
         phase = "read", phase' = "unwind", token' = kind, UNCHANGED <<operators, numbers>>,
         kind \in Binary => Last(operators) # "start"
  PROVE  MeaningInv'
  <1> DEFINE n == Len(text)
  <1>1. /\ TypeOK /\ operators \in Seq(Entries) /\ operators # <<>> /\ numbers \in Seq(Int)
        /\ Proper(text) => Stacked(text, n, operators, numbers, 3)
    BY ReadingFrom
  <1>2. kind \in Kinds /\ 0 \in Numbers \cup {0}
    BY DEF Kinds
  <1>3. /\ n \in Nat /\ Len(text') = n + 1 /\ GoesOn(text, text')
        /\ text'[n + 1] = [kind |-> kind, value |-> 0]
        /\ Ended(text', n) <=> Ended(text, n)
        /\ Proper(text') => Proper(text) /\ Fits(text', n + 1)
        /\ text' \in Seq(Tokens)
    BY <1>1, <1>2, TokenExtends
  <1>4. /\ Last(operators) = "start" => ~Ended(text, n)
        /\ Last(operators) # "start" => ~Leading(text, n + 1)
    BY NoneEnded
  <1>5. Precedence(token') \in 0 .. 2
    BY DEF Precedence, Binary, Markers
  <1> HIDE DEF n
  <1>6. text' # <<>> /\ text'[Len(text')].kind = token' /\ (n + 1) - 1 = n
    BY <1>3
  <1>7. ASSUME Proper(text')
        PROVE  /\ Last(operators') # "start" /\ Ended(text', n)
               /\ Stacked(text', n, operators', numbers', Precedence(token'))
    <2>1. Stacked(text, n, operators, numbers, 3)
      BY <1>1, <1>3, <1>7
    <2>2. Stacked(text', n, operators, numbers, 3)
      BY <1>1, <1>3, <2>1, StackedKept DEF n
    <2>3. Ended(text', n) \/ (kind = "-" /\ Leading(text', n + 1))
      BY <1>3, <1>6, <1>7 DEF Fits
    <2>4. Leading(text', n + 1) <=> Leading(text, n + 1)
      <3>1. n + 1 # 1 => n \in 1 .. n
        BY <1>3
      <3>2. n + 1 # 1 => text'[n] = text[n]
        BY <3>1, <1>3 DEF GoesOn, n
      <3>3. QED
        BY <1>6, <3>2 DEF Leading
    <2>5. Ended(text', n) /\ Last(operators) # "start"
      <3>1. "-" \in Binary
        BY DEF Binary
      <3>2. QED
        BY <1>3, <1>4, <2>3, <2>4, <3>1
    <2>6. Stacked(text', n, operators, numbers, Precedence(token'))
      <3> DEFINE r == Precedence(token')
      <3>1. r \in Int /\ 3 \in Int /\ r <= 3
        BY <1>5
      <3> HIDE DEF r
      <3>2. Stacked(text', n, operators, numbers, r)
        BY <2>2, <3>1, StackedLess
      <3>3. QED
        BY <3>2 DEF r
    <2>7. QED
      BY <2>5, <2>6
  <1>8. Len(text') - 1 = n
    BY <1>3
  <1>9. StackedUnwind'
    BY <1>6, <1>7, <1>8 DEF StackedUnwind
  <1>10. QED
    BY <1>9 DEF MeaningInv, StackedRead, StackedMinus, StackedFinish, Verdict

\* A closing bracket, or the end, waits for what is on the stack.
LEMMA ReadClosingMeans ==
  ASSUME BalancedInv, MeaningInv, ReadClosing
  PROVE  MeaningInv'
  <1>1. PICK t \in {")", "end"} : Reads(t, 0) /\ token' = t
    BY DEF ReadClosing
  <1>2. t \in Binary \cup {")", "end"} /\ t \notin Binary
    BY <1>1 DEF Binary
  <1>3. phase = "read" /\ phase' = "unwind" /\ UNCHANGED <<operators, numbers>>
    BY DEF ReadClosing
  <1>4. QED
    BY <1>1, <1>2, <1>3, WaitsMeans

\* A '-' where an expression begins waits for its number.
LEMMA ReadMinusMeans ==
  ASSUME BalancedInv, MeaningInv, ReadMinus
  PROVE  MeaningInv'
  <1> DEFINE n == Len(text)
  <1>1. /\ Reads("-", 0) /\ phase = "read" /\ phase' = "minus" /\ Last(operators) = "start"
        /\ UNCHANGED <<operators, numbers>>
    BY DEF ReadMinus
  <1>2. /\ TypeOK /\ operators \in Seq(Entries) /\ operators # <<>> /\ numbers \in Seq(Int)
        /\ Proper(text) => Stacked(text, n, operators, numbers, 3)
    BY <1>1, ReadingFrom
  <1>3. "-" \in Kinds /\ 0 \in Numbers \cup {0}
    BY DEF Kinds, Binary
  <1>4. /\ n \in Nat /\ Len(text') = n + 1 /\ GoesOn(text, text')
        /\ text'[n + 1] = [kind |-> "-", value |-> 0]
        /\ Ended(text', n) <=> Ended(text, n)
        /\ Proper(text') => Proper(text)
        /\ text' \in Seq(Tokens)
    BY <1>1, <1>2, <1>3, TokenExtends
  <1>5. ~Ended(text', n)
    BY <1>1, <1>4, NoneEnded
  <1> HIDE DEF n
  <1>6. text' # <<>> /\ text'[Len(text')].kind = "-" /\ Len(text') - 1 = n
    BY <1>4
  <1>7. ASSUME Proper(text') PROVE Stacked(text', n, operators', numbers', 3)
    <2>1. Stacked(text, n, operators, numbers, 3)
      BY <1>2, <1>4, <1>7
    <2>2. Stacked(text', n, operators, numbers, 3)
      BY <1>2, <1>4, <2>1, StackedKept DEF n
    <2>3. QED
      BY <1>1, <2>2
  <1>8. Last(operators') = "start"
    BY <1>1
  <1>9. StackedMinus'
    BY <1>5, <1>6, <1>7, <1>8 DEF StackedMinus
  <1>10. QED
    BY <1>1, <1>9 DEF MeaningInv, StackedRead, StackedUnwind, StackedFinish, Verdict

\* A sign is refused where an expression begins, pushed after its first operand
\* and waits after any other.
LEMMA ReadSignMeans ==
  ASSUME BalancedInv, MeaningInv, ReadSign
  PROVE  MeaningInv'
  <1> DEFINE n == Len(text)
  <1>1. PICK t \in Signs :
          /\ Reads(t, 0)
          /\ \/ Last(operators) = "start" /\ t # "-" /\ Invalid
             \/ /\ Last(operators) = "first_num"
                /\ operators' = Append(operators, t)
                /\ UNCHANGED <<numbers, phase, token, answer>>
             \/ /\ Last(operators) \notin Markers
                /\ phase' = "unwind" /\ token' = t
                /\ UNCHANGED <<operators, numbers, answer>>
    BY DEF ReadSign
  <1>2. phase = "read"
    BY DEF ReadSign
  <1>3. t \in Binary /\ t \in Kinds /\ 0 \in Numbers \cup {0} /\ t # "end"
    BY <1>1, ParserAssumption DEF Kinds, Binary
  <1>4. /\ TypeOK /\ operators \in Seq(Entries) /\ operators # <<>> /\ numbers \in Seq(Int)
        /\ Proper(text) => Stacked(text, n, operators, numbers, 3)
    BY <1>2, ReadingFrom
  <1>5. /\ n \in Nat /\ Len(text') = n + 1 /\ GoesOn(text, text')
        /\ text'[n + 1] = [kind |-> t, value |-> 0]
        /\ Ended(text', n) <=> Ended(text, n)
        /\ Proper(text') => Proper(text) /\ Fits(text', n + 1)
    BY <1>1, <1>3, <1>4, TokenExtends
  <1>6. CASE Last(operators) = "start" /\ t # "-" /\ Invalid
    <2>1. ~Ended(text', n)
      BY <1>2, <1>5, <1>6, NoneEnded
    <2>2. ~Proper(text')
      <3>1. text'[n + 1].kind = t /\ (n + 1) - 1 = n
        BY <1>5
      <3>2. QED
        BY <1>3, <1>5, <1>6, <2>1, <3>1 DEF Fits
    <2>3. phase' = "invalid"
      BY <1>6 DEF Invalid
    <2>4. QED
      BY <2>2, <2>3, ImproperIsHopeless, OnlyRefused
  <1>7. CASE /\ Last(operators) = "first_num"
             /\ operators' = Append(operators, t)
             /\ UNCHANGED <<numbers, phase, token, answer>>
    <2>1. ~Leading(text, n + 1)
      BY <1>2, <1>7, NoneEnded
    <2> HIDE DEF n
    <2>2. ASSUME Proper(text') PROVE Stacked(text', n + 1, operators', numbers', 3)
      <3>1. Stacked(text, n, operators, numbers, 3)
        BY <1>4, <1>5, <2>2
      <3>2. Stacked(text', n, operators, numbers, 3)
        BY <1>4, <1>5, <3>1, StackedKept DEF n
      <3>3. (n + 1) - 1 = n /\ text'[n + 1].kind = t
        BY <1>5
      <3>4. Leading(text', n + 1) <=> Leading(text, n + 1)
        <4>1. n + 1 # 1 => n \in 1 .. n
          BY <1>5
        <4>2. n + 1 # 1 => text'[n] = text[n]
          BY <4>1, <1>5 DEF GoesOn, n
        <4>3. QED
          BY <3>3, <4>2 DEF Leading
      <3>5. Ended(text', n)
        BY <1>3, <1>5, <2>1, <2>2, <3>3, <3>4 DEF Fits
      <3>6. Precedence(t) <= 3
        BY <1>3, Precedences
      <3>7. Len(text') \in Nat /\ n < Len(text') /\ 3 \in Int
        BY <1>5
      <3>8. Stacked(text', n + 1, Append(operators, text'[n + 1].kind), numbers, 3)
        BY <1>3, <1>4, <1>5, <3>2, <3>3, <3>5, <3>6, <3>7, SignPushed
      <3>9. QED
        BY <1>7, <3>3, <3>8
    <2>3. phase' = "read"
      BY <1>2, <1>7
    <2>4. QED
      BY <1>5, <2>2, <2>3, OnlyRead
  <1>8. CASE /\ Last(operators) \notin Markers
             /\ phase' = "unwind" /\ token' = t
             /\ UNCHANGED <<operators, numbers, answer>>
    <2>1. Last(operators) # "start"
      BY <1>8 DEF Markers
    <2>2. t \in Binary \cup {")", "end"}
      BY <1>3
    <2>3. QED
      BY <1>1, <1>2, <1>8, <2>1, <2>2, WaitsMeans
  <1>9. QED
    BY <1>1, <1>6, <1>7, <1>8

\* A number is an operand, with the '-' before it.
LEMMA ReadNumberMeans ==
  ASSUME BalancedInv, MeaningInv, ReadNumber
  PROVE  MeaningInv'
  <1> DEFINE n == Len(text)
  <1>1. PICK v \in Numbers :
          /\ Reads("number", v)
          /\ numbers' = Append(numbers, IF phase = "minus" THEN -v ELSE v)
          /\ operators' = Swapped(operators)
          /\ phase' = "read"
    BY DEF ReadNumber
  <1>2. phase \in {"read", "minus"}
    BY <1>1 DEF Reads
  <1>3. /\ TypeOK /\ operators \in Seq(Entries) /\ operators # <<>> /\ numbers \in Seq(Int)
        /\ phase = "read" /\ Proper(text) => Stacked(text, n, operators, numbers, 3)
    BY <1>2, ReadingFrom
  <1>4. v \in Int /\ -v \in Int /\ v \in Numbers \cup {0} /\ "number" \in Kinds
    BY ParserAssumption DEF Kinds
  <1>5. /\ n \in Nat /\ Len(text') = n + 1 /\ GoesOn(text, text')
        /\ text'[n + 1] = [kind |-> "number", value |-> v]
        /\ Ended(text', n) <=> Ended(text, n)
        /\ Proper(text') => Proper(text) /\ Fits(text', n + 1)
    BY <1>1, <1>3, <1>4, TokenExtends
  <1>6. /\ text'[n + 1].kind = "number" /\ text'[n + 1].value = v
        /\ n + 1 \in 1 .. Len(text') /\ Len(text') \in Nat
    BY <1>5
  <1> HIDE DEF n
  <1>7. Ended(text', n + 1)
    BY <1>5, <1>6 DEF Ended
  <1>8. Depth(text', (n + 1) + 1) = Depth(text', n + 1) /\ Depth(text', n + 1) \in Int
    <2>1. n + 1 \in Nat \ {0}
      BY <1>5
    <2>2. /\ Depth(text', (n + 1) + 1) = Depth(text', n + 1) + Rise(text'[n + 1])
          /\ Depth(text', n + 1) \in Int
      BY <2>1, DepthRises
    <2>3. Rise(text'[n + 1]) = 0
      BY <1>6 DEF Rise
    <2>4. QED
      BY <2>2, <2>3
  <1>9. CASE phase = "read"
    <2>1. ASSUME Proper(text') PROVE Stacked(text', n + 1, operators', numbers', 3)
      <3>1. Stacked(text, n, operators, numbers, 3)
        BY <1>3, <1>5, <1>9, <2>1
      <3>2. Stacked(text', n, operators, numbers, 3)
        BY <1>3, <1>5, <3>1, StackedKept DEF n
      <3>3. ~Ended(text', n)
        <4>1. (n + 1) - 1 = n
          BY <1>5
        <4>2. QED
          BY <1>5, <1>6, <2>1, <4>1 DEF Fits
      <3>4. Meaning(text', n + 1, n + 1) = ValueOf(v) /\ Above(text', n + 1, n + 1, 3)
        BY <1>6, NumberMeans
      <3>5. \A k \in n + 1 .. (n + 1) + 1 : Depth(text', k) = Depth(text', n + 1)
        <4>1. \A k \in n + 1 .. (n + 1) + 1 : k = n + 1 \/ k = (n + 1) + 1
          BY <1>5
        <4>2. QED
          BY <1>8, <4>1
      <3>6. n + 1 \in n + 1 .. Len(text')
        BY <1>5
      <3>7. Stacked(text', n + 1, operators, Append(numbers, v), 3)
        BY <1>3, <1>4, <1>5, <1>6, <1>7, <3>2, <3>3, <3>4, <3>5, <3>6, OperandPushed
      <3>8. Stacked(text', n + 1, Swapped(operators), Append(numbers, v), 3)
        BY <1>3, <1>5, <3>7, StackedSwap
      <3>9. numbers' = Append(numbers, v)
        BY <1>1, <1>9
      <3>10. QED
        BY <1>1, <3>8, <3>9
    <2>2. QED
      BY <1>1, <1>5, <2>1, OnlyRead
  <1>10. CASE phase = "minus"
    <2> DEFINE e == n - 1
    <2>1. /\ text # <<>> /\ text[n].kind = "-"
          /\ Proper(text) => ~Ended(text, e) /\ Stacked(text, e, operators, numbers, 3)
      BY <1>10 DEF MeaningInv, StackedMinus, n
    <2>2. e \in Nat /\ n = e + 1 /\ n \in 1 .. Len(text) /\ e <= Len(text) /\ n \in Nat
      <3>1. text \in Seq(Tokens)
        BY <1>3 DEF TypeOK
      <3>2. QED
        BY <2>1, <3>1 DEF n
    <2> HIDE DEF e
    <2>3. ASSUME Proper(text') PROVE Stacked(text', n + 1, operators', numbers', 3)
      <3>1. Stacked(text, e, operators, numbers, 3) /\ ~Ended(text, e) /\ Fits(text, n)
        BY <1>5, <2>1, <2>2, <2>3 DEF Proper
      <3>2. Stacked(text', e, operators, numbers, 3)
        BY <1>3, <1>5, <2>2, <3>1, StackedKept
      <3>3. /\ \A k \in 1 .. n : text'[k] = text[k]
            /\ e # 0 => e \in 1 .. n
        BY <1>5, <2>2 DEF GoesOn, n
      <3>4. text'[n].kind = "-"
        BY <2>1, <2>2, <3>3 DEF n
      <3>5. ~Ended(text', e)
        <4>1. e >= 1 => e \in 1 .. n
          BY <2>2
        <4>2. QED
          BY <3>1, <3>3, <4>1 DEF Ended
      <3>6. Leading(text', n)
        <4>1. n - 1 = e /\ (n # 1 => e \in 1 .. n)
          BY <2>2
        <4>2. Leading(text, n)
          <5>1. "-" \in Binary
            BY DEF Binary
          <5>2. QED
            BY <2>1, <3>1, <4>1, <5>1 DEF Fits
        <4>3. QED
          BY <3>3, <4>1, <4>2 DEF Leading
      <3>7. Meaning(text', n, n + 1) = ValueOf(-v) /\ Above(text', n, n + 1, 3)
        <4>1. n \in 1 .. Len(text') /\ n < Len(text')
          BY <1>5, <2>2
        <4>2. QED
          BY <1>6, <3>4, <3>6, <4>1, NumberMeans
      <3>8. \A k \in n .. (n + 1) + 1 : Depth(text', k) = Depth(text', n)
        <4>1. Depth(text', n + 1) = Depth(text', n) + Rise(text'[n]) /\ Depth(text', n) \in Int
          <5>1. n \in Nat \ {0}
            BY <2>2
          <5>2. QED
            BY <5>1, DepthRises
        <4>2. Rise(text'[n]) = 0
          BY <3>4 DEF Rise
        <4>3. \A k \in n .. (n + 1) + 1 : k = n \/ k = n + 1 \/ k = (n + 1) + 1
          BY <2>2
        <4>4. QED
          BY <1>8, <4>1, <4>2, <4>3
      <3>9. n + 1 \in e + 1 .. Len(text')
        BY <1>5, <2>2
      <3>10. Stacked(text', n + 1, operators, Append(numbers, -v), 3)
        BY <1>3, <1>4, <1>6, <1>7, <2>2, <3>2, <3>5, <3>7, <3>8, <3>9, OperandPushed
      <3>11. Stacked(text', n + 1, Swapped(operators), Append(numbers, -v), 3)
        BY <1>3, <1>5, <3>10, StackedSwap
      <3>12. numbers' = Append(numbers, -v)
        BY <1>1, <1>10
      <3>13. QED
        BY <1>1, <3>11, <3>12
    <2>4. QED
      BY <1>1, <1>5, <2>3, OnlyRead
  <1>11. QED
    BY <1>2, <1>9, <1>10

\* A token that is refused where it stands does not fit.
LEMMA ReadErrorMeans ==
  ASSUME BalancedInv, MeaningInv, ReadError
  PROVE  MeaningInv'
  <1> DEFINE n == Len(text)
  <1>1. PICK t \in {"(", ")", "end", "bad"} \cup Signs : Reads(t, 0) /\ (t = "bad" \/ phase = "minus")
    BY DEF ReadError
  <1>2. phase' = "invalid"
    BY DEF ReadError, Invalid
  <1>3. TypeOK /\ phase \in {"read", "minus"}
    BY <1>1 DEF BalancedInv, IInv, Reads
  <1>4. t \in Kinds /\ 0 \in Numbers \cup {0} /\ t # "number"
    BY <1>1, ParserAssumption DEF Kinds, Binary
  <1>5. /\ text \in Seq(Tokens) /\ n \in Nat /\ GoesOn(text, text')
        /\ text'[n + 1] = [kind |-> t, value |-> 0]
        /\ Proper(text') => Proper(text) /\ Fits(text', n + 1)
    BY <1>1, <1>3, <1>4, TokenExtends
  <1>6. text'[n + 1].kind = t
    BY <1>5
  <1>7. ~Proper(text')
    <2> SUFFICES ASSUME Proper(text') PROVE FALSE
      OBVIOUS
    <2>1. Proper(text) /\ Fits(text', n + 1)
      BY <1>5
    <2>2. t # "bad"
      BY <1>6, <2>1 DEF Fits
    <2>3. phase = "minus"
      BY <1>1, <2>2
    <2>4. text # <<>> /\ text[n].kind = "-" /\ ~Ended(text, n - 1)
      BY <2>1, <2>3 DEF MeaningInv, StackedMinus
    <2>10. n # 0
      BY <1>5, <2>4
    <2>11. n = Len(text)
      OBVIOUS
    <2> HIDE DEF n
    <2>5. n \in 1 .. Len(text) /\ (n + 1) - 1 = n /\ n + 1 > 1
          /\ (n # 1 => n - 1 \in 1 .. Len(text))
      BY <1>5, <2>10, <2>11
    <2>6. Fits(text, n)
      BY <2>1, <2>5 DEF Proper
    <2>7. Leading(text, n)
      BY <2>4, <2>6 DEF Fits, Binary
    <2>8. Signed(text', n)
      <3>1. text'[n] = text[n] /\ (n # 1 => text'[n - 1] = text[n - 1])
        BY <1>5, <2>5 DEF GoesOn
      <3>2. QED
        BY <2>4, <2>7, <3>1 DEF Signed, Leading
    <2>9. QED
      BY <1>4, <1>6, <2>1, <2>5, <2>8 DEF Fits
  <1>8. QED
    BY <1>2, <1>7, ImproperIsHopeless, OnlyRefused

-----------------------------------------------------------------------------
(* The token that waits                                                      *)

\* What the steps that unwind know of the state they start from.
LEMMA WaitingFrom ==
  ASSUME BalancedInv, MeaningInv, phase = "unwind"
  PROVE  /\ TypeOK /\ Sound(operators) /\ operators \in Seq(Entries) /\ operators # <<>>
         /\ Last(operators) = operators[Len(operators)] /\ Last(operators) \in Entries
         /\ Len(operators) \in Nat \ {0}
         /\ numbers \in Seq(Int) /\ text \in Seq(Tokens)
         /\ Len(text) \in Nat \ {0} /\ text[Len(text)].kind = token
         /\ Proper(text) =>
              /\ Last(operators) # "start" /\ Ended(text, Len(text) - 1)
              /\ Stacked(text, Len(text) - 1, operators, numbers, Precedence(token))
  <1>1. IInv
    BY DEF BalancedInv
  <1>2. TypeOK
    BY <1>1 DEF IInv
  <1>3. Sound(operators)
    BY <1>1, StackIsSound
  <1>4. operators \in Seq(Entries) /\ operators # <<>>
    BY <1>3 DEF Sound
  <1>5. StackedUnwind
    BY DEF MeaningInv
  <1>6. text \in Seq(Tokens) /\ text # <<>> /\ numbers \in Seq(Int)
    BY <1>2, <1>5 DEF TypeOK, StackedUnwind
  <1>7. Len(text) \in Nat \ {0}
    BY <1>6
  <1>8. QED
    BY <1>2, <1>3, <1>4, <1>5, <1>6, <1>7, TopAndPop DEF StackedUnwind

\* What does not unwind is a marker, for a token that is no operator.
LEMMA UnwoundToMarker ==
  ASSUME TypeOK, operators # <<>>, Last(operators) \in Entries, ~Unwinds, token \notin Binary
  PROVE  Last(operators) \in Markers
  <1>1. token \in {")", "end"}
    BY DEF TypeOK
  <1>2. Precedence(token) = 0
    BY <1>1 DEF Precedence, Markers
  <1>3. ASSUME Last(operators) \in Binary PROVE FALSE
    <2>1. Precedence(Last(operators)) \in {1, 2}
      BY <1>3, Precedences
    <2>2. QED
      BY <1>2, <2>1 DEF Unwinds
  <1>4. QED
    BY <1>3 DEF Entries

\* The sign on top is applied to its two operands.
LEMMA UnwindMeans ==
  ASSUME BalancedInv, MeaningInv, Unwind
  PROVE  MeaningInv'
  <1> DEFINE n == Len(text) - 1
             l == Len(numbers)
             w == Append(SubSeq(numbers, 1, l - 2),
                         Calculated(numbers[l - 1], Last(operators), numbers[l]))
  <1>1. phase = "unwind" /\ Unwinds /\ Apply /\ text' = text
    BY DEF Unwind
  <1>2. /\ TypeOK /\ Sound(operators) /\ operators \in Seq(Entries) /\ operators # <<>>
        /\ Last(operators) = operators[Len(operators)] /\ Len(operators) \in Nat \ {0}
        /\ numbers \in Seq(Int) /\ text \in Seq(Tokens)
        /\ Len(text) \in Nat \ {0} /\ text[Len(text)].kind = token
        /\ Proper(text) => Ended(text, n) /\ Stacked(text, n, operators, numbers, Precedence(token))
    BY <1>1, WaitingFrom
  <1>3. Last(operators) \in Binary
    BY <1>1, <1>2, OnlySignsUnwind
  <1>4. Precedence(token) <= Precedence(Last(operators)) /\ Precedence(token) \in Int
    BY <1>1, <1>2 DEF Unwinds, TypeOK, Precedence, Binary, Markers
  <1>5. n \in Nat /\ n <= Len(text) /\ Len(text) = n + 1 /\ Len(text) \in Nat
    BY <1>2
  <1> HIDE DEF n
  <1>6. CASE Last(operators) = "/" /\ numbers[l] = 0
    <2>1. phase' = "invalid"
      BY <1>1, <1>6 DEF Apply, Invalid
    <2>2. ASSUME NEW u \in Seq(Tokens), GoesOn(text, u), TextMeaning(u).kind = "value" PROVE FALSE
      <3>1. u # <<>> /\ TextMeaning(u) = Meaning(u, 1, Len(u) - 1) /\ Proper(u)
        BY <2>2, MeantIsProper
      <3>2. Proper(text)
        BY <2>2, <3>1, ProperKept
      <3>3. Ended(text, n) /\ Stacked(text, n, operators, numbers, Precedence(token))
        BY <1>2, <3>2
      <3>4. Stacked(u, n, operators, numbers, Precedence(token))
        BY <1>2, <1>5, <2>2, <3>3, StackedKept
      <3>5. Ended(u, n)
        <4>1. n \in 0 .. Len(text) /\ 1 \in 1 .. Len(text) + 1
          BY <1>5
        <4>2. QED
          BY <2>2, <3>3, <4>1, PartsKept
      <3>6. n <= Len(u) /\ Len(u) - 1 \in n .. Len(u)
        BY <1>5, <2>2 DEF GoesOn
      <3>7. /\ operators[Len(operators)] = "/" /\ numbers[Len(numbers)] = 0
            /\ operators[Len(operators)] \in Binary
        BY <1>2, <1>3, <1>6
      <3>8. Meaning(u, 1, Len(u) - 1).kind # "value"
        BY <1>2, <1>5, <3>4, <3>5, <3>6, <3>7, DivisionFails
      <3>9. QED
        BY <2>2, <3>1, <3>8
    <2>3. Hopeless(text')
      BY <1>1, <2>2 DEF Hopeless
    <2>4. QED
      BY <2>1, <2>3, OnlyRefused
  <1>7. CASE ~(Last(operators) = "/" /\ numbers[l] = 0)
    <2>1. ASSUME Proper(text)
          PROVE  /\ Len(operators) > 1 /\ l > 1
                 /\ Stacked(text, n, Front(operators), w, Precedence(token))
      <3> DEFINE q == Precedence(token)
      <3>1. Ended(text, n) /\ Stacked(text, n, operators, numbers, q)
        BY <1>2, <2>1
      <3>2. q \in Int /\ q <= Precedence(operators[Len(operators)])
        BY <1>2, <1>4
      <3> HIDE DEF q
      <3>3. /\ Len(operators) > 1 /\ l > 1
            /\ Stacked(text, n, Front(operators),
                       Append(SubSeq(numbers, 1, l - 2),
                              Calculated(numbers[l - 1], operators[Len(operators)], numbers[l])), q)
        BY <1>2, <1>3, <1>5, <1>7, <3>1, <3>2, Applied
      <3>4. QED
        BY <1>2, <3>3 DEF q
    <2>2. CASE l < 2 \/ Len(operators) = 1
      <3>1. phase' = "invalid"
        BY <1>1, <2>2 DEF Apply, Invalid
      <3>2. ~Proper(text)
        <4>1. ASSUME Proper(text) PROVE FALSE
          <5>1. Len(operators) > 1 /\ l > 1
            BY <2>1, <4>1
          <5>2. l \in Nat
            BY <1>2
          <5> HIDE DEF l, w
          <5>3. QED
            BY <1>2, <2>2, <5>1, <5>2
        <4>2. QED
          BY <4>1
      <3>3. QED
        BY <1>1, <3>1, <3>2, ImproperIsHopeless, OnlyRefused
    <2>3. CASE ~(l < 2 \/ Len(operators) = 1)
      <3>1. /\ numbers' = w /\ operators' = Swapped(Front(operators))
            /\ phase' = "unwind" /\ token' = token
        BY <1>1, <1>7, <2>3 DEF Apply
      <3> HIDE DEF l, w
      <3>2. Front(operators) \in Seq(Entries) /\ Front(operators) # <<>>
        <4>1. Front(operators) \in Seq(Entries) /\ Len(Front(operators)) = Len(operators) - 1
          BY <1>2, TopAndPop
        <4>2. Len(Front(operators)) # 0
          BY <1>2, <2>3, <4>1
        <4>3. QED
          BY <4>1, <4>2
      <3>3. Last(operators') # "start"
        <4> DEFINE f == Front(operators)
        <4>1. f \in Seq(Entries) /\ f # <<>>
          BY <3>2
        <4> HIDE DEF f
        <4>2. CASE Last(f) = "start"
          <5>1. Front(f) \in Seq(Entries) /\ "first_num" \in Entries
            BY <4>1, TopAndPop DEF Entries, Markers
          <5> DEFINE g == Front(f)
          <5> HIDE DEF g
          <5>2. /\ Append(g, "first_num") \in Seq(Entries) /\ Append(g, "first_num") # <<>>
                /\ Len(Append(g, "first_num")) = Len(g) + 1
                /\ Append(g, "first_num")[Len(g) + 1] = "first_num"
            BY <5>1, Pushed DEF g
          <5>3. Last(Append(g, "first_num")) = "first_num"
            BY <5>2, TopAndPop
          <5>4. Swapped(f) = Append(g, "first_num")
            BY <4>2 DEF Swapped, g
          <5>5. QED
            BY <3>1, <5>3, <5>4 DEF f
        <4>3. CASE Last(f) # "start"
          BY <3>1, <4>3 DEF Swapped, f
        <4>4. QED
          BY <4>2, <4>3
      <3>4. ASSUME Proper(text) PROVE Stacked(text, n, operators', numbers', Precedence(token))
        <4>1. Stacked(text, n, Front(operators), w, Precedence(token))
          BY <2>1, <3>4
        <4>2. QED
          BY <1>5, <3>1, <3>2, <4>1, StackedSwap
      <3>5. StackedUnwind'
        <4>1. text # <<>> /\ Len(text) - 1 = n
          BY <1>2, <1>5
        <4>2. QED
          BY <1>1, <1>2, <3>1, <3>3, <3>4, <4>1 DEF StackedUnwind
      <3>6. QED
        BY <3>1, <3>5 DEF MeaningInv, StackedRead, StackedMinus, StackedFinish, Verdict
    <2>4. QED
      BY <2>2, <2>3
  <1>8. QED
    BY <1>6, <1>7

\* A sign that waited is pushed once only weaker ones are below.
LEMMA PushSignMeans ==
  ASSUME BalancedInv, MeaningInv, PushSign
  PROVE  MeaningInv'
  <1> DEFINE n == Len(text) - 1
             q == Precedence(token)
  <1>1. /\ phase = "unwind" /\ token \in Binary /\ operators' = Append(operators, token)
        /\ phase' = "read" /\ numbers' = numbers /\ text' = text
    BY DEF PushSign
  <1>2. /\ operators \in Seq(Entries) /\ operators # <<>> /\ numbers \in Seq(Int)
        /\ Len(text) \in Nat \ {0} /\ text[Len(text)].kind = token
        /\ Proper(text) => Ended(text, n) /\ Stacked(text, n, operators, numbers, q)
    BY <1>1, WaitingFrom
  <1>3. n \in Nat /\ n < Len(text) /\ n + 1 = Len(text) /\ Len(text) \in Nat
    BY <1>2
  <1>4. q \in {1, 2}
    BY <1>1, Precedences
  <1>5. text[n + 1].kind = token /\ q = Precedence(text[n + 1].kind) /\ q <= q /\ q \in Int
    BY <1>2, <1>3, <1>4
  <1> HIDE DEF n, q
  <1>6. ASSUME Proper(text) PROVE Stacked(text, n + 1, Append(operators, token), numbers, 3)
    <2>1. Stacked(text, n, operators, numbers, q) /\ Ended(text, n)
      BY <1>2, <1>6
    <2>2. Stacked(text, n + 1, Append(operators, text[n + 1].kind), numbers, 3)
      BY <1>1, <1>2, <1>3, <1>5, <2>1, SignPushed
    <2>3. QED
      BY <1>5, <2>2
  <1>7. QED
    BY <1>1, <1>3, <1>6, OnlyRead

\* A closing bracket takes the opening one off the stack.
LEMMA CloseMeans ==
  ASSUME BalancedInv, MeaningInv, Close
  PROVE  MeaningInv'
  <1> DEFINE n == Len(text) - 1
             q == Precedence(token)
  <1>1. phase = "unwind" /\ ~Unwinds /\ token = ")" /\ text' = text
    BY DEF Close
  <1>2. /\ TypeOK /\ operators \in Seq(Entries) /\ operators # <<>> /\ numbers \in Seq(Int)
        /\ Last(operators) = operators[Len(operators)] /\ Last(operators) \in Entries
        /\ Len(operators) \in Nat \ {0} /\ text \in Seq(Tokens)
        /\ Len(text) \in Nat \ {0} /\ text[Len(text)].kind = token
        /\ Proper(text) =>
             /\ Last(operators) # "start" /\ Ended(text, n)
             /\ Stacked(text, n, operators, numbers, q)
    BY <1>1, WaitingFrom
  <1>3. n \in Nat /\ n < Len(text) /\ n + 1 = Len(text) /\ Len(text) \in Nat
    BY <1>2
  <1>4. token \notin Binary
    BY <1>1 DEF Binary
  <1>5. operators[Len(operators)] \in Markers
    BY <1>1, <1>2, <1>4, UnwoundToMarker
  <1> HIDE DEF n, q
  <1>6. CASE Last(operators) # "first_num" \/ Len(operators) = 1
    <2>1. phase' = "invalid"
      BY <1>6 DEF Close, Invalid
    <2>2. CASE ~Proper(text)
      BY <1>1, <2>1, <2>2, ImproperIsHopeless, OnlyRefused
    <2>3. CASE Proper(text)
      <3>1. Len(operators) = 1 /\ Stacked(text, n, operators, numbers, q)
        BY <1>2, <1>5, <1>6, <2>3 DEF Markers
      <3>2. PICK p \in [1 .. Len(operators) -> 0 .. n], c \in [1 .. Len(operators) -> 0 .. Len(numbers)] :
              Traced(text, n, operators, numbers, p, c)
        BY <3>1 DEF Stacked
      <3>3. Depth(text, n + 1) = 0
        <4>1. Depth(text, n + 1) = Depth(text, p[1] + 1) /\ p[1] = 0
          BY <3>1, <3>2 DEF Traced
        <4>2. Depth(text, 1) = 0
          <5>1. 1 \in Nat \ {0}
            OBVIOUS
          <5>2. QED
            BY <5>1, DepthRises
        <4>3. QED
          BY <4>1, <4>2
      <3>4. text[n + 1].kind = ")"
        BY <1>1, <1>2, <1>3
      <3>5. Hopeless(text)
        BY <1>2, <1>3, <3>3, <3>4, UnopenedIsHopeless
      <3>6. QED
        BY <1>1, <2>1, <3>5, OnlyRefused
    <2>4. QED
      BY <2>2, <2>3
  <1>7. CASE ~(Last(operators) # "first_num" \/ Len(operators) = 1)
    <2>1. operators' = Swapped(Front(operators)) /\ phase' = "read" /\ numbers' = numbers
      BY <1>7 DEF Close
    <2>2. Len(operators) > 1
      <3> DEFINE h == Len(operators)
      <3>1. h \in Nat \ {0} /\ h # 1
        BY <1>2, <1>7
      <3> HIDE DEF h
      <3>2. h > 1
        BY <3>1
      <3>3. QED
        BY <3>2 DEF h
    <2>3. Front(operators) \in Seq(Entries) /\ Front(operators) # <<>>
      <3>1. Front(operators) \in Seq(Entries) /\ Len(Front(operators)) = Len(operators) - 1
        BY <1>2, TopAndPop
      <3>2. Len(Front(operators)) # 0
        BY <1>2, <2>2, <3>1
      <3>3. QED
        BY <3>1, <3>2
    <2>4. ASSUME Proper(text) PROVE Stacked(text, n + 1, operators', numbers', 3)
      <3>1. Stacked(text, n, operators, numbers, q) /\ Ended(text, n)
        BY <1>2, <2>4
      <3>2. text[n + 1].kind = ")"
        BY <1>1, <1>2, <1>3
      <3>3. Stacked(text, n + 1, Front(operators), numbers, 3)
        BY <1>2, <1>3, <1>5, <2>2, <3>1, <3>2, Closed
      <3>4. n + 1 \in Nat
        BY <1>3
      <3>5. Stacked(text, n + 1, Swapped(Front(operators)), numbers, 3)
        BY <2>3, <3>3, <3>4, StackedSwap
      <3>6. QED
        BY <2>1, <3>5
    <2>5. QED
      BY <1>1, <1>3, <2>1, <2>4, OnlyRead
  <1>8. QED
    BY <1>6, <1>7

\* At the end only the outermost marker may be left.
LEMMA EndMeans ==
  ASSUME BalancedInv, MeaningInv, End
  PROVE  MeaningInv'
  <1> DEFINE n == Len(text) - 1
             q == Precedence(token)
  <1>1. phase = "unwind" /\ ~Unwinds /\ token = "end" /\ text' = text
    BY DEF End
  <1>2. /\ TypeOK /\ Sound(operators) /\ operators \in Seq(Entries) /\ operators # <<>>
        /\ numbers \in Seq(Int)
        /\ Last(operators) = operators[Len(operators)] /\ Last(operators) \in Entries
        /\ Len(operators) \in Nat \ {0} /\ text \in Seq(Tokens)
        /\ Len(text) \in Nat \ {0} /\ text[Len(text)].kind = token
        /\ Proper(text) =>
             /\ Last(operators) # "start" /\ Ended(text, n)
             /\ Stacked(text, n, operators, numbers, q)
    BY <1>1, WaitingFrom
  <1>3. n \in Nat /\ n <= Len(text) /\ Len(text) \in Nat
    BY <1>2
  <1>4. token \notin Binary
    BY <1>1 DEF Binary
  <1>5. operators[Len(operators)] \in Markers
    BY <1>1, <1>2, <1>4, UnwoundToMarker
  <1>6. ASSUME TextMeaning(text).kind # "malformed"
        PROVE  /\ Last(operators) = "first_num" /\ Len(operators) = 1 /\ Len(numbers) = 1
               /\ TextMeaning(text) = ValueOf(numbers[1])
    <2>1. Proper(text) /\ TextMeaning(text) = Meaning(text, 1, n)
      BY <1>2, <1>6, MeantIsProper
    <2> HIDE DEF n, q
    <2>2. Meaning(text, 1, n).kind # "malformed"
      BY <1>6, <2>1
    <2>3. Stacked(text, n, operators, numbers, q) /\ Ended(text, n) /\ Last(operators) # "start"
      BY <1>2, <2>1
    <2>4. Len(operators) = 1 /\ Len(numbers) = 1 /\ Meaning(text, 1, n) = ValueOf(numbers[1])
      BY <1>2, <1>3, <1>5, <2>2, <2>3, Finished
    <2>5. Last(operators) = "first_num"
      BY <1>2, <1>5, <2>3 DEF Markers
    <2>6. QED
      BY <2>1, <2>4, <2>5
  <1>7. CASE Last(operators) # "first_num"
    <2>1. phase' = "invalid"
      BY <1>7 DEF End, Invalid
    <2>2. TextMeaning(text).kind # "value"
      BY <1>6, <1>7
    <2>3. text # <<>> /\ text[Len(text)].kind = "end"
      BY <1>1, <1>2
    <2>4. QED
      BY <1>1, <1>2, <2>1, <2>2, <2>3, EndedIsHopeless, OnlyRefused
  <1>8. CASE Last(operators) = "first_num"
    <2>1. operators' = Front(operators) /\ phase' = "finish" /\ numbers' = numbers
      BY <1>8 DEF End
    <2>2. ASSUME TextMeaning(text).kind # "malformed" PROVE operators' = <<>>
      <3>1. Front(operators) \in Seq(Entries) /\ Len(Front(operators)) = Len(operators) - 1
        BY <1>2, TopAndPop
      <3>2. Len(Front(operators)) = 0
        BY <1>6, <2>2, <3>1
      <3>3. QED
        BY <2>1, <3>1, <3>2
    <2>3. StackedFinish'
      <3>1. text # <<>> /\ text[Len(text)].kind = "end"
        BY <1>1, <1>2
      <3>2. QED
        BY <1>1, <1>6, <2>1, <2>2, <3>1 DEF StackedFinish
    <2>4. QED
      BY <2>1, <2>3 DEF MeaningInv, StackedRead, StackedMinus, StackedUnwind, Verdict
  <1>9. QED
    BY <1>7, <1>8

\* What is left is the answer.
LEMMA FinishMeans ==
  ASSUME BalancedInv, MeaningInv, Finish
  PROVE  MeaningInv'
  <1>1. phase = "finish" /\ text' = text
    BY DEF Finish
  <1>2. text \in Seq(Tokens) /\ text # <<>> /\ text[Len(text)].kind = "end"
    BY <1>1 DEF BalancedInv, IInv, TypeOK, MeaningInv, StackedFinish
  <1>3. TextMeaning(text).kind # "malformed" =>
          /\ operators = <<>> /\ Len(numbers) = 1
          /\ TextMeaning(text) = ValueOf(numbers[1])
    BY <1>1 DEF MeaningInv, StackedFinish
  <1>4. CASE operators # <<>> \/ Len(numbers) # 1
    <2>1. phase' = "invalid"
      BY <1>4 DEF Finish, Invalid
    <2>2. TextMeaning(text).kind # "value"
      BY <1>3, <1>4
    <2>3. QED
      BY <1>1, <1>2, <2>1, <2>2, EndedIsHopeless, OnlyRefused
  <1>5. CASE ~(operators # <<>> \/ Len(numbers) # 1)
    <2>1. phase' = "value" /\ answer' = Last(numbers)
      BY <1>5 DEF Finish
    <2>2. Last(numbers) = numbers[1]
      BY <1>5 DEF Last
    <2>3. Verdict'
      BY <1>1, <1>3, <2>1, <2>2 DEF Verdict
    <2>4. QED
      BY <2>1, <2>3 DEF MeaningInv, StackedRead, StackedMinus, StackedUnwind, StackedFinish
  <1>6. QED
    BY <1>4, <1>5

\* Before a token is read, the outermost marker stands for the beginning.
LEMMA InitMeaning == Init => MeaningInv
  <1> SUFFICES ASSUME Init PROVE MeaningInv
    OBVIOUS
  <1>1. operators = <<"start">> /\ numbers = <<>> /\ text = <<>> /\ phase = "read"
    BY DEF Init
  <1> DEFINE s == <<"start">>
             p == [i \in 1 .. 1 |-> 0]
  <1>2. Len(s) = 1 /\ Len(text) = 0 /\ Len(numbers) = 0
    BY <1>1
  <1>3. p \in [1 .. Len(s) -> 0 .. 0] /\ p[1] = 0
    BY <1>2
  <1>4. Depth(text, 1) = 0
    <2>1. 1 \in Nat \ {0}
      OBVIOUS
    <2>2. QED
      BY <2>1, DepthRises
  <1> HIDE DEF s, p
  <1>5. Traced(text, 0, s, numbers, p, p)
    <2>1. \A i \in 2 .. Len(s) : Entry(text, s, numbers, p, p, i)
      BY <1>2
    <2>2. \A i, j \in 1 .. Len(s) : i < j => p[i] < p[j] /\ p[i] <= p[j]
      BY <1>2
    <2>3. \A i \in 1 .. Len(s) : s[i] \in Markers =>
            \A k \in p[i] + 1 .. 0 + 1 : Depth(text, p[i] + 1) <= Depth(text, k)
      <3>1. \A i \in 1 .. Len(s) : p[i] + 1 = 1
        BY <1>2, <1>3
      <3>2. \A k \in 1 .. 0 + 1 : k = 1
        OBVIOUS
      <3>3. QED
        BY <1>4, <3>1, <3>2
    <2>4. Depth(text, 0 + 1) = Depth(text, p[Len(s)] + 1)
      BY <1>2, <1>3
    <2>5. QED
      BY <1>2, <1>3, <2>1, <2>2, <2>3, <2>4 DEF Traced
  <1>6. TopOperand(text, 0, s, numbers, p, p, 3)
    BY <1>2, <1>3 DEF TopOperand, Ended
  <1>7. Stacked(text, 0, s, numbers, 3)
    BY <1>2, <1>3, <1>5, <1>6 DEF Stacked
  <1>8. StackedRead
    BY <1>1, <1>2, <1>7 DEF StackedRead, s
  <1>9. QED
    BY <1>1, <1>8 DEF MeaningInv, StackedMinus, StackedUnwind, StackedFinish, Verdict

\* Every step keeps what the stacks mean.
LEMMA StepMeaning == BalancedInv /\ MeaningInv /\ [Next]_vars => MeaningInv'
  <1> SUFFICES ASSUME BalancedInv, MeaningInv, [Next]_vars PROVE MeaningInv'
    OBVIOUS
  <1>1. CASE UNCHANGED vars
    BY <1>1 DEF vars, MeaningInv, StackedRead, StackedMinus, StackedUnwind, StackedFinish, Verdict
  <1>2. CASE Next
    BY <1>2, ReadOpeningMeans, ReadClosingMeans, ReadNumberMeans, ReadMinusMeans, ReadSignMeans,
       ReadErrorMeans, UnwindMeans, PushSignMeans, CloseMeans, EndMeans, FinishMeans DEF Next, Read
  <1>3. QED
    BY <1>1, <1>2

\* The verdict is right whatever follows.
LEMMA VerdictInvariance == Spec => [](BalancedInv /\ Verdict)
  <1>1. Init => MeaningInv
    BY InitMeaning
  <1>2. BalancedInv /\ MeaningInv /\ [Next]_vars => MeaningInv'
    BY StepMeaning
  <1>3. MeaningInv => Verdict
    BY DEF MeaningInv
  <1>4. QED
    BY <1>1, <1>2, <1>3, BalancedInvariance, PTL DEF Spec

\* A text with another after it goes on.
LEMMA JoinedGoesOn ==
  ASSUME NEW t \in Seq(Tokens), NEW w \in Seq(Tokens)
  PROVE  t \o w \in Seq(Tokens) /\ GoesOn(t, t \o w)
  <1> DEFINE u == t \o w
  <1>1. /\ u \in Seq(Tokens) /\ Len(u) = Len(t) + Len(w)
        /\ \A i \in 1 .. Len(t) + Len(w) : u[i] = IF i <= Len(t) THEN t[i] ELSE w[i - Len(t)]
    BY ConcatProperties
  <1>2. Len(t) \in Nat /\ Len(w) \in Nat
    OBVIOUS
  <1> HIDE DEF u
  <1>3. \A k \in 1 .. Len(t) : u[k] = t[k]
    BY <1>1, <1>2
  <1>4. GoesOn(t, u)
    BY <1>1, <1>2, <1>3 DEF GoesOn
  <1>5. QED
    BY <1>1, <1>4 DEF u

\* A well-formed text, of any length and with brackets as deep as it likes, is
\* answered with its value: parse_subexpression() and calc_subexpression() follow
\* the precedence, the associativity, the brackets and the negative numbers of
\* the grammar.
THEOREM MeansWhatItSays == Spec => []EvaluatesRight
  <1>1. Verdict => EvaluatesRight
    BY DEF Verdict, EvaluatesRight
  <1>2. QED
    BY <1>1, VerdictInvariance, PTL

\* parse_subexpression() and calc_subexpression() refuse a text, at any token,
\* only if no text that follows, from any set of continuations, gives it a value.
THEOREM RefusesRightly == Spec => []RefusesHopelessOnly
  <1>1. ASSUME BalancedInv, Verdict PROVE RefusesHopelessOnly
    <2>1. text \in Seq(Tokens)
      BY <1>1 DEF BalancedInv, IInv, TypeOK
    <2>2. ASSUME phase = "invalid", NEW u \in Continuations
          PROVE  TextMeaning(text \o u).kind # "value"
      <3>1. u \in Seq(Tokens)
        BY ReferenceAssumption
      <3>2. text \o u \in Seq(Tokens) /\ GoesOn(text, text \o u)
        BY <2>1, <3>1, JoinedGoesOn
      <3>3. QED
        BY <1>1, <2>2, <3>2 DEF Verdict, Hopeless
    <2>3. QED
      BY <2>2 DEF RefusesHopelessOnly
  <1>2. QED
    BY <1>1, VerdictInvariance, PTL
=============================================================================
