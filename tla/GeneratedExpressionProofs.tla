---------------------- MODULE GeneratedExpressionProofs ----------------------
(***************************************************************************)
(* Proofs about the generator, for all sizes, numbers and files: its types,  *)
(* the stack of flags and the unsigned difference the loop relies on, the    *)
(* bound on what is written, and that nothing but the destination is.  Then  *)
(* about the generator and the parser together: what the program generates   *)
(* is never refused, whatever the size and the choices, and what it repeats  *)
(* is given the value of the expression, or zero.                            *)
(***************************************************************************)
EXTENDS RepeatedExpression, ExprParserProofs

-----------------------------------------------------------------------------
(* The generator                                                             *)

\* Nothing was generated yet.
Untouched == size = 0 /\ brackets = 0 /\ written = 0 /\ prev = None

\* What has been checked when a file is written.
Checked ==
  /\ pc = "loop" => args.mode = "generate" /\ args.size >= 3
  /\ pc = "loop" => args.dest \in Openable /\ args.dest \in Names
  /\ pc = "copy" =>
       /\ args.mode = "repeat" /\ {args.from, args.dest} \subseteq Openable
       /\ args.dest \in Names /\ args.from \in Names
  /\ pc \in {"generate", "repeat"} => pc = args.mode /\ args.size \in Nat
  /\ pc \in {"loop", "copy"} => args.size \in Nat

\* Two characters at most for each that is counted: only the 1 of a division is
\* not, and the first action is no operator.
Paired ==
  /\ size = 0 => written = 0 /\ next # "math"
  /\ size # 0 => written <= 2 * size - 1
  /\ prev = "math" => written <= 2 * size - 2

\* The number that is missing after an operator, the brackets and the end of
\* the line still fit.
EndFits ==
  written + (IF prev = "math" THEN MaxWidth ELSE 0) + brackets + 1 <= 2 * args.size + MaxWidth - 1

GeneratorIInv ==
  /\ GeneratorTypeOK
  /\ RoomIsReal
  /\ LengthBounded
  /\ Checked
  /\ next = "close_bracket" => brackets # 0
  /\ pc \notin {"loop", "exit"} => Untouched
  /\ pc = "loop" => Paired /\ EndFits

-----------------------------------------------------------------------------

LEMMA ArgumentFacts ==
  ASSUME NEW a \in Arguments
  PROVE  /\ a.size \in Nat \cup {Absent} /\ a.size < Modulus
         /\ a.dest \in Names \cup {None} /\ a.from \in Names \cup {None}
  BY GeneratorAssumption DEF ArgumentSet

LEMMA TokenFacts ==
  /\ \A n \in Randoms \cup {1} : Number(n) \in FileTokens
  /\ \A sign \in MathSigns : Symbol(sign) \in FileTokens
  /\ Symbol("(") \in FileTokens /\ Symbol(")") \in FileTokens /\ Symbol("end") \in FileTokens
  BY DEF FileTokens

LEMMA WidthFacts ==
  /\ MaxWidth \in Nat \ {0}
  /\ \A n \in Randoms \cup {1} : Width[n] \in Nat /\ 1 <= Width[n] /\ Width[n] <= MaxWidth
  BY GeneratorAssumption

\* The next action is one, an operator follows a number or a closing bracket,
\* and a bracket is only closed where that is allowed.
LEMMA NextFacts ==
  ASSUME NEW action \in Actions, NEW canClose, NEW n \in NextActions(action, canClose)
  PROVE  n \in Actions /\ (n = "close_bracket" => canClose)
<1>1. action = "open_bracket" => NextActions(action, canClose) = {"put_number"}
  BY DEF NextActions
<1>2. action = "math" => NextActions(action, canClose) = {"put_number", "open_bracket"}
  BY DEF NextActions
<1>3. action \notin {"open_bracket", "math"} =>
        NextActions(action, canClose) =
          {"math"} \cup (IF canClose THEN {"close_bracket"} ELSE {})
  BY DEF NextActions
<1> QED
  BY <1>1, <1>2, <1>3 DEF Actions

\* The unsigned difference is the real one.
LEMMA RoomFacts ==
  ASSUME GeneratorIInv, pc = "loop"
  PROVE  Room = args.size - brackets /\ Room \in Nat
<1>1. args.size - brackets \in 0 .. Modulus - 1
  BY ArgumentFacts, GeneratorAssumption DEF GeneratorIInv, GeneratorTypeOK, RoomIsReal, Checked
<1>2. \A m \in Nat : \A t \in 0 .. m - 1 : t % m = t
  BY Z3
<1> DEFINE t == args.size - brackets
<1>3. Room = t % Modulus
  BY DEF Room
<1> HIDE DEF t
<1>4. t \in Nat /\ t \in 0 .. Modulus - 1 /\ Modulus \in Nat
  BY <1>1, GeneratorAssumption DEF t
<1>5. t % Modulus = t
  BY <1>2, <1>4
<1> QED
  BY <1>3, <1>4, <1>5 DEF t

LEMMA CharactersType ==
  ASSUME NEW line \in Seq(FileTokens)
  PROVE  Characters(line) \in Nat
<1> DEFINE all == (DOMAIN line) \X (1 .. MaxWidth)
<1>1. DOMAIN line = 1 .. Len(line) /\ Len(line) \in Nat
  OBVIOUS
<1>2. IsFiniteSet(1 .. Len(line)) /\ IsFiniteSet(1 .. MaxWidth)
  BY <1>1, WidthFacts, FS_Interval
<1>3. IsFiniteSet(all)
  BY <1>1, <1>2, FS_Product
<1>4. IsFiniteSet({c \in all : c[2] <= TokenWidth(line[c[1]])})
  BY <1>3, FS_Subset
<1> QED
  BY <1>4, FS_CardinalityType DEF Characters

\* Changing the destination keeps the type of the files.
LEMMA FilesType ==
  ASSUME files \in [Names -> Seq(FileTokens)], NEW dest \in Names, NEW line \in Seq(FileTokens)
  PROVE  [files EXCEPT ![dest] = line] \in [Names -> Seq(FileTokens)]
  OBVIOUS

-----------------------------------------------------------------------------
(* main()                                                                    *)

LEMMA GeneratorInitIInv == GeneratorInit => GeneratorIInv
<1> SUFFICES ASSUME GeneratorInit PROVE GeneratorIInv
  OBVIOUS
<1>1. GeneratorTypeOK
  BY GeneratorAssumption DEF GeneratorInit, GeneratorTypeOK, Actions, None
<1> QED
  BY <1>1 DEF GeneratorInit, GeneratorIInv, RoomIsReal, LengthBounded, Checked, Untouched

LEMMA ReadArgumentsIInv ==
  ASSUME GeneratorIInv, ReadArguments
  PROVE  GeneratorIInv'
<1>1. CASE pc' = "exit" /\ code' \in {0, 1} /\ UNCHANGED <<args, files, loopVars>>
  BY <1>1 DEF ReadArguments, GeneratorIInv, GeneratorTypeOK, RoomIsReal, LengthBounded, Checked,
     Untouched, loopVars
<1>2. CASE ~Misused /\ pc' = args.mode /\ UNCHANGED <<args, code, loopVars>>
  <2>1. args.size \in Nat /\ args.mode \in {"generate", "repeat"}
    BY <1>2, ArgumentFacts DEF Misused, GeneratorIInv, GeneratorTypeOK
  <2> QED
    BY <1>2, <2>1 DEF ReadArguments, GeneratorIInv, GeneratorTypeOK, RoomIsReal, LengthBounded, Checked,
       Untouched, loopVars
<1> QED
  BY <1>1, <1>2 DEF ReadArguments, Exit, Exits

-----------------------------------------------------------------------------
(* generate_expression()                                                     *)

LEMMA StartGeneratingIInv ==
  ASSUME GeneratorIInv, StartGenerating
  PROVE  GeneratorIInv'
<1>1. CASE Exit(1) /\ UNCHANGED files
  BY <1>1 DEF StartGenerating, Exit, Exits, GeneratorIInv, GeneratorTypeOK, RoomIsReal, LengthBounded,
     Checked, Untouched, loopVars
<1>2. CASE ~(args.size < 3 \/ args.dest \notin Openable)
  <2>1. args.dest \in Names /\ args.dest \in Openable /\ args.size \in Nat /\ args.size >= 3
    BY <1>2, GeneratorAssumption DEF StartGenerating, GeneratorIInv, Checked
  <2>2. files' \in [Names -> Seq(FileTokens)]
    <3>1. files' = [files EXCEPT ![args.dest] = <<>>] /\ <<>> \in Seq(FileTokens)
      BY <1>2 DEF StartGenerating
    <3> QED
      BY <2>1, <3>1, FilesType DEF GeneratorIInv, GeneratorTypeOK
  <2>3. /\ pc' = "loop" /\ next' \in {"put_number", "open_bracket"}
        /\ UNCHANGED <<args, code, size, brackets, hasMath, prev, written>>
    BY <1>2 DEF StartGenerating
  <2>4. size = 0 /\ brackets = 0 /\ written = 0 /\ prev # "math" /\ args.mode = "generate"
    BY DEF None, StartGenerating, GeneratorIInv, Untouched, Checked
  <2>5. GeneratorTypeOK'
    BY <2>2, <2>3 DEF GeneratorIInv, GeneratorTypeOK, Actions
  <2>6. (Paired /\ EndFits)'
    BY <2>1, <2>3, <2>4, WidthFacts DEF Paired, EndFits
  <2> QED
    BY <2>1, <2>3, <2>4, <2>5, <2>6 DEF GeneratorIInv, RoomIsReal, LengthBounded, Checked
<1> QED
  BY <1>1, <1>2 DEF StartGenerating

\* Of the text that a turn adds, and the number that is then missing.
LEMMA TurnBound ==
  \A w \in Nat, b \in Nat, s \in Nat, c \in Nat, t \in Nat, b1 \in Nat, m \in Nat :
    w + b <= 2 * s - 3 /\ c + t + b1 <= b + m + 1
      => (w + c) + t + b1 + 1 <= 2 * s + m - 1
  OBVIOUS

\* What a turn of the loop has to bring about: its text may grow by two
\* characters, but only where prev is not "math".
LEMMA TurnIInv ==
  ASSUME GeneratorIInv, pc = "loop", Continues, NEW action \in Actions, Advance(action),
         NEW line \in Seq(FileTokens), NEW characters \in Nat, NEW counted \in Nat \ {0},
         Writes(line, characters, counted),
         hasMath' \in Seq(BOOLEAN), Len(hasMath') = brackets', brackets' \in Nat,
         prev' = "math" => next = "math" /\ characters = 1 /\ counted = 1 /\ brackets' = brackets,
         \/ characters = counted /\ counted <= MaxWidth /\ brackets' = brackets
         \/ next = "math" /\ characters \in {1, 2} /\ counted = 1 /\ brackets' = brackets
         \/ characters = 1 /\ counted = 1 /\ brackets' \in {brackets - 1, brackets + 1}
  PROVE  GeneratorIInv'
<1>1. /\ size + brackets < args.size /\ args.size \in Nat /\ args.size >= 3 /\ size \in Nat /\ brackets \in Nat
      /\ written \in Nat /\ args.dest \in Names
  BY RoomFacts DEF GeneratorIInv, Continues, Checked, GeneratorTypeOK
<1>2. /\ size' = size + counted /\ written' = written + characters
      /\ UNCHANGED <<args, pc, code>> /\ prev' = action
  BY DEF Writes, Advance
<1>3. next' \in Actions /\ (next' = "close_bracket" => brackets' # 0)
  BY NextFacts DEF Advance
<1>4. files' \in [Names -> Seq(FileTokens)]
  <2>1. files[args.dest] \o line \in Seq(FileTokens)
    BY <1>1 DEF GeneratorIInv, GeneratorTypeOK
  <2> QED
    BY <1>1, <2>1, FilesType DEF Writes, GeneratorIInv, GeneratorTypeOK
<1>5. GeneratorTypeOK'
  BY <1>1, <1>2, <1>3, <1>4 DEF GeneratorIInv, GeneratorTypeOK
<1>6. RoomIsReal'
  BY <1>1, <1>2 DEF GeneratorIInv, RoomIsReal
<1>7. Paired /\ EndFits /\ MaxWidth \in Nat \ {0}
  BY WidthFacts DEF GeneratorIInv
<1>8. Paired'
  BY <1>1, <1>2, <1>7 DEF Paired
<1>9. EndFits'
  <2> DEFINE missing == IF prev' = "math" THEN MaxWidth ELSE 0
  <2>1. written + brackets <= 2 * args.size - 3
    <3>1. size = 0 => written = 0
      BY <1>7 DEF Paired
    <3>2. size # 0 => written <= 2 * size - 1
      BY <1>7 DEF Paired
    <3> QED
      BY <1>1, <3>1, <3>2
  <2>2. characters + missing + brackets' <= brackets + MaxWidth + 1
    <3>1. CASE prev' = "math"
      <4>1. characters = 1 /\ missing = MaxWidth /\ brackets' = brackets
        BY <3>1
      <4> HIDE DEF missing
      <4> QED
        BY <1>1, <1>7, <4>1
    <3>2. CASE prev' # "math"
      <4>1. missing = 0
        BY <3>2
      <4>2. \/ characters <= MaxWidth + 1 /\ brackets' = brackets
            \/ characters <= MaxWidth /\ brackets' <= brackets + 1
        BY <1>1, <1>7
      <4>3. characters + brackets' <= brackets + MaxWidth + 1
        <5> DEFINE b == brackets
                   b1 == brackets'
                   m == MaxWidth
        <5>1. b \in Nat /\ b1 \in Nat /\ m \in Nat
          BY <1>1, <1>7
        <5>2. (characters <= m + 1 /\ b1 = b) \/ (characters <= m /\ b1 <= b + 1)
          BY <4>2
        <5> HIDE DEF b, b1, m
        <5>3. characters + b1 <= b + m + 1
          BY <5>1, <5>2
        <5> QED
          BY <5>3 DEF b, b1, m
      <4>4. characters + 0 + brackets' = characters + brackets'
        OBVIOUS
      <4> HIDE DEF missing
      <4> QED
        BY <4>1, <4>3, <4>4
    <3> QED
      BY <3>1, <3>2
  <2>3. missing \in Nat
    BY <1>7
  <2>4. EndFits' <=>
          (written + characters) + missing + brackets' + 1 <= 2 * args.size + MaxWidth - 1
    BY <1>2 DEF EndFits
  <2> HIDE DEF missing
  <2>5. (written + characters) + missing + brackets' + 1 <= 2 * args.size + MaxWidth - 1
    BY <1>1, <1>7, <2>1, <2>2, <2>3, TurnBound
  <2> QED
    BY <2>4, <2>5
<1>10. LengthBounded'
  <2>1. brackets' \in Nat /\ written' \in Nat /\ args' = args
    BY <1>1, <1>2
  <2>2. (IF prev' = "math" THEN MaxWidth ELSE 0) \in Nat
    BY <1>7
  <2> QED
    BY <1>1, <1>7, <1>9, <2>1, <2>2 DEF EndFits, LengthBounded
<1> QED
  BY <1>1, <1>2, <1>3, <1>5, <1>6, <1>8, <1>9, <1>10 DEF GeneratorIInv, Checked

LEMMA PutNumberIInv ==
  ASSUME GeneratorIInv, PutNumber
  PROVE  GeneratorIInv'
<1>1. PICK n \in Randoms : Writes(<<Number(n)>>, Width[n], Width[n])
  BY DEF PutNumber
<1>2. <<Number(n)>> \in Seq(FileTokens) /\ Width[n] \in Nat \ {0} /\ Width[n] <= MaxWidth
  BY TokenFacts, WidthFacts
<1>3. /\ pc = "loop" /\ Continues /\ Advance("put_number") /\ "put_number" \in Actions
      /\ UNCHANGED <<brackets, hasMath>>
  BY DEF PutNumber, Turn, Actions
<1>4. /\ hasMath \in Seq(BOOLEAN) /\ Len(hasMath) = brackets /\ brackets \in Nat
      /\ prev' = "put_number"
  BY <1>3 DEF GeneratorIInv, GeneratorTypeOK, RoomIsReal, Advance
<1> QED
  BY <1>1, <1>2, <1>3, <1>4, TurnIInv

LEMMA OpenBracketIInv ==
  ASSUME GeneratorIInv, OpenBracket
  PROVE  GeneratorIInv'
<1>1. /\ pc = "loop" /\ Continues /\ Advance("open_bracket") /\ "open_bracket" \in Actions
      /\ Writes(<<Symbol("(")>>, 1, 1) /\ <<Symbol("(")>> \in Seq(FileTokens)
      /\ brackets' = brackets + 1 /\ hasMath' = Append(hasMath, FALSE)
  BY TokenFacts DEF OpenBracket, Turn, Actions
<1>2. /\ hasMath' \in Seq(BOOLEAN) /\ Len(hasMath') = brackets' /\ brackets' \in Nat
      /\ prev' # "math" /\ 1 \in Nat /\ 1 \in Nat \ {0}
      /\ brackets' \in {brackets - 1, brackets + 1}
  BY <1>1 DEF GeneratorIInv, GeneratorTypeOK, RoomIsReal, Advance
<1> QED
  BY <1>1, <1>2, TurnIInv, Zenon

LEMMA CloseBracketIInv ==
  ASSUME GeneratorIInv, CloseBracket
  PROVE  GeneratorIInv'
<1>1. /\ pc = "loop" /\ Continues /\ Advance("close_bracket") /\ "close_bracket" \in Actions
      /\ Writes(<<Symbol(")")>>, 1, 1) /\ <<Symbol(")")>> \in Seq(FileTokens)
      /\ brackets' = brackets - 1 /\ hasMath' = Front(hasMath) /\ next = "close_bracket"
  BY TokenFacts DEF CloseBracket, Turn, Actions
<1>2. hasMath \in Seq(BOOLEAN) /\ Len(hasMath) = brackets /\ brackets \in Nat \ {0}
  BY <1>1 DEF GeneratorIInv, GeneratorTypeOK, RoomIsReal
<1>3. /\ hasMath' \in Seq(BOOLEAN) /\ Len(hasMath') = brackets' /\ brackets' \in Nat
      /\ prev' # "math" /\ 1 \in Nat /\ 1 \in Nat \ {0}
      /\ brackets' \in {brackets - 1, brackets + 1}
  BY <1>1, <1>2 DEF Front, Advance
<1> QED
  BY <1>1, <1>2, <1>3, TurnIInv, Zenon

LEMMA PutMathIInv ==
  ASSUME GeneratorIInv, PutMath
  PROVE  GeneratorIInv'
<1>1. /\ pc = "loop" /\ Continues /\ next = "math" /\ brackets' = brackets
      /\ hasMath' = IF hasMath = <<>> THEN hasMath ELSE Append(Front(hasMath), TRUE)
  BY DEF PutMath, Turn
<1>2. hasMath \in Seq(BOOLEAN) /\ Len(hasMath) = brackets /\ brackets \in Nat
  BY DEF GeneratorIInv, GeneratorTypeOK, RoomIsReal
<1>3. hasMath' \in Seq(BOOLEAN) /\ Len(hasMath') = brackets'
  <2>1. CASE hasMath = <<>>
    BY <1>1, <1>2, <2>1
  <2>2. CASE hasMath # <<>>
    <3>1. Front(hasMath) \in Seq(BOOLEAN) /\ Len(Front(hasMath)) = Len(hasMath) - 1
      BY <1>2, <2>2 DEF Front
    <3> QED
      BY <1>1, <1>2, <2>2, <3>1
  <2> QED
    BY <2>1, <2>2
<1>4. CASE \E sign \in MathSigns \ {"/"} : Writes(<<Symbol(sign)>>, 1, 1) /\ Advance("math")
  <2>1. PICK sign \in MathSigns : Writes(<<Symbol(sign)>>, 1, 1) /\ Advance("math")
    BY <1>4
  <2>2. <<Symbol(sign)>> \in Seq(FileTokens) /\ "math" \in Actions
    BY TokenFacts DEF Actions
  <2>3. 1 \in Nat /\ 1 \in Nat \ {0} /\ 1 \in {1, 2} /\ brackets' \in Nat
    BY <1>1, <1>2
  <2> QED
    BY <1>1, <1>2, <1>3, <2>1, <2>2, <2>3, TurnIInv, Zenon
<1>5. CASE Writes(<<Symbol("/"), Number(1)>>, 2, 1) /\ Advance("put_number")
  <2>1. <<Symbol("/"), Number(1)>> \in Seq(FileTokens) /\ "put_number" \in Actions
    BY TokenFacts DEF Actions, MathSigns
  <2>2. /\ prev' # "math" /\ brackets' \in Nat
        /\ 2 \in Nat /\ 1 \in Nat \ {0} /\ 2 \in {1, 2}
    BY <1>1, <1>2, <1>5 DEF Advance
  <2> QED
    BY <1>1, <1>2, <1>3, <1>5, <2>1, <2>2, TurnIInv, Zenon
<1> QED
  BY <1>4, <1>5 DEF PutMath

LEMMA FinishGeneratingIInv ==
  ASSUME GeneratorIInv, FinishGenerating
  PROVE  GeneratorIInv'
<1> DEFINE Text(n) == (IF prev = "math" THEN <<Number(n)>> ELSE <<>>) \o Closing \o <<Symbol("end")>>
           Extra(n) == (IF prev = "math" THEN Width[n] ELSE 0) + brackets + 1
<1>1. PICK n \in Randoms : Writes(Text(n), Extra(n), 0)
  BY DEF FinishGenerating
<1>2. brackets \in Nat /\ size \in Nat /\ written \in Nat /\ args.dest \in Names
  BY DEF FinishGenerating, GeneratorIInv, GeneratorTypeOK, Checked
<1>3. Text(n) \in Seq(FileTokens)
  <2>1. Closing \in Seq(FileTokens) /\ <<Symbol("end")>> \in Seq(FileTokens)
    BY <1>2, TokenFacts DEF Closing
  <2>2. (IF prev = "math" THEN <<Number(n)>> ELSE <<>>) \in Seq(FileTokens)
    BY TokenFacts
  <2> QED
    BY <2>1, <2>2
<1>4. files' \in [Names -> Seq(FileTokens)]
  <2>1. files[args.dest] \o Text(n) \in Seq(FileTokens)
    BY <1>2, <1>3 DEF GeneratorIInv, GeneratorTypeOK
  <2> HIDE DEF Text
  <2> QED
    BY <1>1, <1>2, <2>1, FilesType DEF Writes, GeneratorIInv, GeneratorTypeOK
<1>5. /\ size' = size + 0 /\ written' = written + Extra(n)
      /\ pc' = "exit" /\ code' = 0 /\ UNCHANGED <<args, brackets, hasMath, prev, next>>
  BY <1>1 DEF Writes, FinishGenerating, Exits
<1>6. Extra(n) \in Nat /\ Extra(n) <= (IF prev = "math" THEN MaxWidth ELSE 0) + brackets + 1
  BY <1>2, WidthFacts
<1>7. GeneratorTypeOK'
  <2> HIDE DEF Extra
  <2> QED
    BY <1>2, <1>4, <1>5, <1>6 DEF GeneratorIInv, GeneratorTypeOK
<1>8. LengthBounded'
  <2>1. EndFits /\ args.size \in Nat /\ MaxWidth \in Nat
    BY WidthFacts DEF FinishGenerating, GeneratorIInv, Checked
  <2> HIDE DEF Extra
  <2> QED
    BY <1>2, <1>5, <1>6, <2>1 DEF EndFits, LengthBounded
<1> QED
  BY <1>5, <1>7, <1>8 DEF GeneratorIInv, RoomIsReal, Checked

-----------------------------------------------------------------------------
(* repeat_expression_for_size()                                              *)

LEMMA StartRepeatingIInv ==
  ASSUME GeneratorIInv, StartRepeating
  PROVE  GeneratorIInv'
<1>1. CASE Exit(1) /\ UNCHANGED files
  BY <1>1 DEF StartRepeating, Exit, Exits, GeneratorIInv, GeneratorTypeOK, RoomIsReal, LengthBounded,
     Checked, Untouched, loopVars
<1>2. CASE {args.from, args.dest} \subseteq Openable
  <2>1. /\ args.dest \in Names /\ args.from \in Names /\ args.size \in Nat
        /\ args.mode = "repeat"
    BY <1>2, GeneratorAssumption DEF StartRepeating, GeneratorIInv, Checked
  <2>2. files' \in [Names -> Seq(FileTokens)]
    <3>1. files' = [files EXCEPT ![args.dest] = <<>>] /\ <<>> \in Seq(FileTokens)
      BY <1>2 DEF StartRepeating
    <3> QED
      BY <2>1, <3>1, FilesType DEF GeneratorIInv, GeneratorTypeOK
  <2>3. pc' = "copy" /\ UNCHANGED <<args, code, loopVars>>
    BY <1>2 DEF StartRepeating
  <2> QED
    BY <1>2, <2>1, <2>2, <2>3 DEF StartRepeating, GeneratorIInv, GeneratorTypeOK, RoomIsReal,
       LengthBounded, Checked, Untouched, loopVars
<1> QED
  BY <1>1, <1>2 DEF StartRepeating

\* n copies of an expression are an expression of tokens.
LEMMA RepeatedType ==
  ASSUME NEW expression \in Seq(FileTokens), NEW n \in Nat \ {0}
  PROVE  Repeated(expression, n) \in Seq(FileTokens)
<1> DEFINE l == Len(expression) + 1
<1>1. l \in Nat \ {0}
  OBVIOUS
<1>2. n * l - 1 \in Nat
  <2>1. \A p \in Nat \ {0}, q \in Nat \ {0} : p * q \in Nat \ {0}
    BY Z3
  <2> HIDE DEF l
  <2>2. n * l \in Nat \ {0}
    BY <1>1, <2>1
  <2> QED
    BY <2>2
<1>3. \A k \in 1 .. n * l - 1 : k % l # 0 => expression[k % l] \in FileTokens
  <2>1. \A q \in Nat \ {0} : \A k \in Nat : k % q \in 0 .. q - 1
    BY Z3
  <2>2. l - 1 = Len(expression)
    OBVIOUS
  <2>3. \A i \in 1 .. l - 1 : expression[i] \in FileTokens
    BY <2>2
  <2> HIDE DEF l
  <2>4. \A k \in 1 .. n * l - 1 : k % l \in 0 .. l - 1
    BY <1>1, <2>1
  <2> QED
    BY <1>1, <2>3, <2>4
<1>4. \A k \in 1 .. n * l - 1 :
        Symbol(IF (k \div l) % 2 = 1 THEN "-" ELSE "+") \in FileTokens
  BY TokenFacts DEF MathSigns
<1> QED
  BY <1>2, <1>3, <1>4 DEF Repeated

LEMMA CopyExpressionIInv ==
  ASSUME GeneratorIInv, CopyExpression
  PROVE  GeneratorIInv'
<1>1. UNCHANGED <<args, loopVars>> /\ pc' = "exit" /\ code' \in {0, 1}
  BY DEF CopyExpression, Exit, Exits
<1>2. files' \in [Names -> Seq(FileTokens)]
  <2>1. CASE UNCHANGED files
    BY <2>1 DEF GeneratorIInv, GeneratorTypeOK
  <2>2. CASE files[args.from] # <<>>
    <3> DEFINE expression == WithoutEnd(files[args.from])
               n == args.size \div (Characters(expression) + 1)
               line == IF n = 0 THEN <<>> ELSE Append(Repeated(expression, n), Symbol("end"))
    <3>1. args.dest \in Names /\ args.from \in Names /\ args.size \in Nat
      BY DEF CopyExpression, GeneratorIInv, Checked
    <3>2. expression \in Seq(FileTokens)
      <4>1. files[args.from] \in Seq(FileTokens) /\ Len(files[args.from]) > 0
        BY <2>2, <3>1 DEF GeneratorIInv, GeneratorTypeOK
      <4> QED
        BY <4>1 DEF WithoutEnd, Front
    <3>3. n \in Nat
      <4>1. Characters(expression) + 1 \in Nat \ {0}
        BY <3>2, CharactersType
      <4>2. \A p \in Nat, q \in Nat \ {0} : p \div q \in Nat
        BY Z3
      <4> HIDE DEF expression
      <4> QED
        BY <3>1, <4>1, <4>2
    <3>4. line \in Seq(FileTokens)
      <4> HIDE DEF expression, n
      <4>1. n # 0 => Repeated(expression, n) \in Seq(FileTokens)
        BY <3>2, <3>3, RepeatedType
      <4> QED
        BY <4>1, TokenFacts
    <3>5. files' = [files EXCEPT ![args.dest] = line]
      BY <2>2 DEF CopyExpression
    <3> HIDE DEF line
    <3> QED
      BY <3>1, <3>4, <3>5, FilesType DEF GeneratorIInv, GeneratorTypeOK
  <2> QED
    BY <2>1, <2>2 DEF CopyExpression
<1> QED
  BY <1>1, <1>2 DEF CopyExpression, GeneratorIInv, GeneratorTypeOK, RoomIsReal, LengthBounded, Checked,
     Untouched, loopVars

-----------------------------------------------------------------------------

\* Every step keeps it.
LEMMA GeneratorStepIInv == GeneratorIInv /\ [GeneratorNext]_generatorVars => GeneratorIInv'
<1> SUFFICES ASSUME GeneratorIInv, [GeneratorNext]_generatorVars PROVE GeneratorIInv'
  OBVIOUS
<1>1. CASE UNCHANGED generatorVars
  BY <1>1 DEF generatorVars, loopVars, GeneratorIInv, GeneratorTypeOK, RoomIsReal, LengthBounded, Checked,
     Untouched, Paired, EndFits
<1>2. CASE GeneratorNext
  BY <1>2, ReadArgumentsIInv, StartGeneratingIInv, PutNumberIInv, OpenBracketIInv,
     CloseBracketIInv, PutMathIInv, FinishGeneratingIInv, StartRepeatingIInv,
     CopyExpressionIInv DEF GeneratorNext
<1> QED
  BY <1>1, <1>2

\* GeneratorIInv holds in every reachable state of the program.
THEOREM GeneratorInvariance == GeneratorSpec => []GeneratorIInv
<1> QED
  BY GeneratorInitIInv, GeneratorStepIInv, PTL DEF GeneratorSpec

\* Files, arguments and the variables of the loop always have their types.
THEOREM GeneratorTypeCorrect == GeneratorSpec => []GeneratorTypeOK
<1>1. GeneratorIInv => GeneratorTypeOK
  BY DEF GeneratorIInv
<1> QED
  BY <1>1, GeneratorInvariance, PTL

\* For every size, the unsigned difference in the condition of the loop never
\* wraps, and a flag is on the stack for every open bracket.
THEOREM RoomStaysReal == GeneratorSpec => []RoomIsReal
<1>1. GeneratorIInv => RoomIsReal
  BY DEF GeneratorIInv
<1> QED
  BY <1>1, GeneratorInvariance, PTL

\* For every size, what is written is at most twice the size and a number less
\* one digit.
THEOREM LengthStaysBounded == GeneratorSpec => []LengthBounded
<1>1. GeneratorIInv => LengthBounded
  BY DEF GeneratorIInv
<1> QED
  BY <1>1, GeneratorInvariance, PTL

\* No file but the destination is ever written, and that only once the size and
\* the files have been found good.
THEOREM OthersAreKept == GeneratorSpec => OthersKept
<1> DEFINE Kept ==
      \A name \in Names :
        files'[name] # files[name] =>
          /\ name = args.dest /\ args.dest \in Openable
          /\ args.mode = "generate" => args.size >= 3
          /\ args.mode = "repeat" => args.from \in Openable
<1>1. GeneratorIInv /\ [GeneratorNext]_generatorVars => [Kept]_generatorVars
  <2> SUFFICES ASSUME GeneratorIInv, GeneratorNext, NEW name \in Names, files'[name] # files[name]
               PROVE  /\ name = args.dest /\ args.dest \in Openable
                      /\ args.mode = "generate" => args.size >= 3
                      /\ args.mode = "repeat" => args.from \in Openable
    OBVIOUS
  <2>1. \A line : [files EXCEPT ![args.dest] = line][name] # files[name] => name = args.dest
    BY DEF GeneratorIInv, GeneratorTypeOK
  <2>2. /\ ~ReadArguments
        /\ pc \in {"generate", "loop", "repeat", "copy"}
        /\ \E line : files' = [files EXCEPT ![args.dest] = line]
    BY DEF GeneratorNext, ReadArguments, StartGenerating, PutNumber, OpenBracket, CloseBracket, PutMath,
       FinishGenerating, Turn, Writes, StartRepeating, CopyExpression
  <2>3. CASE pc \in {"loop", "copy"}
    BY <2>1, <2>2, <2>3 DEF GeneratorIInv, Checked
  <2>4. CASE pc = "generate"
    <3>1. StartGenerating
      BY <2>2, <2>4 DEF GeneratorNext, PutNumber, OpenBracket, CloseBracket, PutMath, FinishGenerating,
         Turn, StartRepeating, CopyExpression
    <3> QED
      BY <2>1, <2>2, <2>4, <3>1 DEF StartGenerating, GeneratorIInv, Checked
  <2>5. CASE pc = "repeat"
    <3>1. StartRepeating
      BY <2>2, <2>5 DEF GeneratorNext, PutNumber, OpenBracket, CloseBracket, PutMath, FinishGenerating,
         Turn, StartGenerating, CopyExpression
    <3> QED
      BY <2>1, <2>2, <2>5, <3>1 DEF StartRepeating, GeneratorIInv, Checked
  <2> QED
    BY <2>2, <2>3, <2>4, <2>5
<1> QED
  BY <1>1, GeneratorInvariance, PTL DEF GeneratorSpec, OthersKept
-----------------------------------------------------------------------------
(* The brackets of the file and the flags of the stack                       *)

Bracket == {"(", ")"}

\* No bracket follows the one that opens at i.
LastOpened(line, i) ==
  line[i].kind = "(" /\ \A k \in (i + 1) .. Len(line) : line[k].kind \notin Bracket

HoldsMath(line, i) == \E k \in i .. Len(line) : line[k].kind \in MathSigns

\* A bracket that is closed holds an operator, unless others are within it.
ClosedHoldMath(line) ==
  \A i, j \in DOMAIN line :
    /\ i < j /\ line[i].kind = "(" /\ line[j].kind = ")"
    /\ \A k \in (i + 1) .. (j - 1) : line[k].kind \notin Bracket
    => \E k \in i .. j : line[k].kind \in MathSigns

\* What the flag on top of the stack says is so in the file: it is what a
\* bracket is closed upon.
FlagIsTrue ==
  pc = "loop" =>
    /\ next = "close_bracket" => brackets # 0 /\ Last(hasMath)
    /\ brackets # 0 /\ Last(hasMath) =>
         \A i \in DOMAIN files[args.dest] :
           LastOpened(files[args.dest], i) => HoldsMath(files[args.dest], i)

BracketInv == GeneratorIInv /\ BracketsTracked /\ FlagIsTrue

LEMMA TrackedMeans ==
  BracketsTracked <=>
    (pc = "loop" =>
       /\ HowMany(files[args.dest], "(") - HowMany(files[args.dest], ")") = brackets
       /\ ClosedHoldMath(files[args.dest]))
  BY DEF BracketsTracked, ClosedHoldMath, Bracket

LEMMA TrackedNext ==
  BracketsTracked' <=>
    (pc' = "loop" =>
       /\ HowMany(files'[args'.dest], "(") - HowMany(files'[args'.dest], ")") = brackets'
       /\ ClosedHoldMath(files'[args'.dest]))
  BY DEF BracketsTracked, ClosedHoldMath, Bracket

\* A text with another after it.
LEMMA Joined ==
  ASSUME NEW s \in Seq(FileTokens), NEW x \in Seq(FileTokens)
  PROVE  /\ s \o x \in Seq(FileTokens)
         /\ Len(s) \in Nat /\ Len(x) \in Nat /\ Len(s \o x) = Len(s) + Len(x)
         /\ DOMAIN s = 1 .. Len(s) /\ DOMAIN (s \o x) = 1 .. Len(s) + Len(x)
         /\ \A i \in 1 .. Len(s) : (s \o x)[i] = s[i]
         /\ \A i \in Len(s) + 1 .. Len(s) + Len(x) : (s \o x)[i] = x[i - Len(s)]
  OBVIOUS

LEMMA CountType ==
  ASSUME NEW s \in Seq(FileTokens), NEW kind
  PROVE  IsFiniteSet({i \in DOMAIN s : s[i].kind = kind}) /\ HowMany(s, kind) \in Nat
<1>1. DOMAIN s = 1 .. Len(s) /\ Len(s) \in Nat
  OBVIOUS
<1>2. IsFiniteSet(1 .. Len(s))
  BY <1>1, FS_Interval
<1>3. IsFiniteSet({i \in DOMAIN s : s[i].kind = kind})
  BY <1>1, <1>2, FS_Subset
<1> QED
  BY <1>3, FS_CardinalityType DEF HowMany

LEMMA NothingCounted ==
  ASSUME NEW kind
  PROVE  HowMany(<<>>, kind) = 0
<1>1. {i \in DOMAIN <<>> : <<>>[i].kind = kind} = {}
  OBVIOUS
<1> QED
  BY <1>1, FS_EmptySet DEF HowMany

\* Tokens of other kinds do not change a count.
LEMMA OthersCounted ==
  ASSUME NEW s \in Seq(FileTokens), NEW x \in Seq(FileTokens), NEW kind,
         \A k \in 1 .. Len(x) : x[k].kind # kind
  PROVE  HowMany(s \o x, kind) = HowMany(s, kind)
<1> DEFINE t == s \o x
<1>1. /\ Len(s) \in Nat /\ Len(x) \in Nat
      /\ DOMAIN s = 1 .. Len(s) /\ DOMAIN t = 1 .. Len(s) + Len(x)
      /\ \A i \in 1 .. Len(s) : t[i] = s[i]
      /\ \A i \in Len(s) + 1 .. Len(s) + Len(x) : t[i] = x[i - Len(s)]
  BY Joined
<1> HIDE DEF t
<1>2. \A i \in DOMAIN t : t[i].kind = kind => i \in 1 .. Len(s)
  <2> SUFFICES ASSUME NEW i \in Len(s) + 1 .. Len(s) + Len(x) PROVE t[i].kind # kind
    BY <1>1
  <2>1. i - Len(s) \in 1 .. Len(x)
    BY <1>1
  <2> QED
    BY <1>1, <2>1
<1>3. {i \in DOMAIN t : t[i].kind = kind} = {i \in DOMAIN s : s[i].kind = kind}
  BY <1>1, <1>2
<1> QED
  BY <1>3 DEF HowMany, t

\* One more token of its kind.
LEMMA OneMoreCounted ==
  ASSUME NEW s \in Seq(FileTokens), NEW u \in FileTokens
  PROVE  HowMany(s \o <<u>>, u.kind) = HowMany(s, u.kind) + 1
<1> DEFINE t == s \o <<u>>
           kind == u.kind
           A == {i \in DOMAIN s : s[i].kind = kind}
<1>1. <<u>> \in Seq(FileTokens) /\ Len(<<u>>) = 1 /\ <<u>>[1] = u
  OBVIOUS
<1>2. /\ Len(s) \in Nat
      /\ DOMAIN s = 1 .. Len(s) /\ DOMAIN t = 1 .. Len(s) + 1
      /\ \A i \in 1 .. Len(s) : t[i] = s[i]
      /\ t[Len(s) + 1] = u
  <2>1. /\ Len(s) \in Nat
        /\ DOMAIN s = 1 .. Len(s) /\ DOMAIN t = 1 .. Len(s) + Len(<<u>>)
        /\ \A i \in 1 .. Len(s) : t[i] = s[i]
        /\ \A i \in Len(s) + 1 .. Len(s) + Len(<<u>>) : t[i] = <<u>>[i - Len(s)]
    BY <1>1, Joined
  <2> HIDE DEF t
  <2>2. Len(s) + 1 \in Len(s) + 1 .. Len(s) + 1 /\ Len(s) + 1 - Len(s) = 1
    BY <2>1
  <2> QED
    BY <1>1, <2>1, <2>2
<1>3. IsFiniteSet(A)
  BY CountType
<1>4. {i \in DOMAIN t : t[i].kind = kind} = A \cup {Len(s) + 1} /\ Len(s) + 1 \notin A
  <2> HIDE DEF t
  <2>1. \A i \in 1 .. Len(s) + 1 : i \in 1 .. Len(s) \/ i = Len(s) + 1
    BY <1>2
  <2>2. Len(s) + 1 \in 1 .. Len(s) + 1 /\ Len(s) + 1 \notin 1 .. Len(s)
    BY <1>2
  <2> QED
    BY <1>2, <2>1, <2>2
<1> HIDE DEF t, A
<1>5. Cardinality(A \cup {Len(s) + 1}) = Cardinality(A) + 1
  BY <1>3, <1>4, FS_AddElement
<1> QED
  BY <1>4, <1>5 DEF HowMany, A, t

-----------------------------------------------------------------------------
(* What a turn of the loop adds                                              *)

\* No bracket is closed.
LEMMA NotClosed ==
  ASSUME NEW s \in Seq(FileTokens), NEW x \in Seq(FileTokens),
         \A k \in 1 .. Len(x) : x[k].kind # ")",
         ClosedHoldMath(s)
  PROVE  ClosedHoldMath(s \o x)
<1> DEFINE t == s \o x
<1>1. /\ Len(s) \in Nat /\ Len(x) \in Nat
      /\ DOMAIN s = 1 .. Len(s) /\ DOMAIN t = 1 .. Len(s) + Len(x)
      /\ \A i \in 1 .. Len(s) : t[i] = s[i]
      /\ \A i \in Len(s) + 1 .. Len(s) + Len(x) : t[i] = x[i - Len(s)]
  BY Joined
<1> HIDE DEF t
<1> SUFFICES ASSUME NEW i \in 1 .. Len(s) + Len(x), NEW j \in 1 .. Len(s) + Len(x),
                    i < j, t[i].kind = "(", t[j].kind = ")",
                    \A k \in (i + 1) .. (j - 1) : t[k].kind \notin Bracket
             PROVE  \E k \in i .. j : t[k].kind \in MathSigns
  BY <1>1 DEF ClosedHoldMath, t
<1>2. j \in 1 .. Len(s)
  <2> SUFFICES ASSUME j \in Len(s) + 1 .. Len(s) + Len(x) PROVE FALSE
    BY <1>1
  <2>1. j - Len(s) \in 1 .. Len(x)
    BY <1>1
  <2> QED
    BY <1>1, <2>1
<1>3. i \in 1 .. Len(s)
  BY <1>1, <1>2
<1>4. \A k \in i .. j : k \in 1 .. Len(s) /\ t[k] = s[k]
  BY <1>1, <1>2, <1>3
<1>5. \A k \in (i + 1) .. (j - 1) : k \in i .. j
  BY <1>2, <1>3
<1>6. \A k \in (i + 1) .. (j - 1) : s[k].kind \notin Bracket
  BY <1>4, <1>5
<1>7. s[i].kind = "(" /\ s[j].kind = ")"
  BY <1>1, <1>2, <1>3
<1>8. PICK k \in i .. j : s[k].kind \in MathSigns
  BY <1>1, <1>2, <1>3, <1>6, <1>7 DEF ClosedHoldMath
<1> QED
  BY <1>4, <1>8

\* A bracket is closed upon an operator.
LEMMA ClosedUponMath ==
  ASSUME NEW s \in Seq(FileTokens), ClosedHoldMath(s),
         \A i \in DOMAIN s : LastOpened(s, i) => HoldsMath(s, i)
  PROVE  ClosedHoldMath(s \o <<Symbol(")")>>)
<1> DEFINE x == <<Symbol(")")>>
           t == s \o x
<1>1. x \in Seq(FileTokens) /\ Len(x) = 1
  BY TokenFacts
<1>2. /\ Len(s) \in Nat
      /\ DOMAIN s = 1 .. Len(s) /\ DOMAIN t = 1 .. Len(s) + 1
      /\ \A i \in 1 .. Len(s) : t[i] = s[i]
  BY <1>1, Joined
<1> HIDE DEF t, x
<1> SUFFICES ASSUME NEW i \in 1 .. Len(s) + 1, NEW j \in 1 .. Len(s) + 1,
                    i < j, t[i].kind = "(", t[j].kind = ")",
                    \A k \in (i + 1) .. (j - 1) : t[k].kind \notin Bracket
             PROVE  \E k \in i .. j : t[k].kind \in MathSigns
  BY <1>2 DEF ClosedHoldMath, t, x
<1>3. i \in 1 .. Len(s) /\ i <= j - 1 /\ j - 1 \in 1 .. Len(s)
  BY <1>2
<1>4. \A k \in i .. (j - 1) : k \in 1 .. Len(s) /\ k \in i .. j /\ t[k] = s[k]
  BY <1>2, <1>3
<1>5. \A k \in (i + 1) .. (j - 1) : k \in i .. (j - 1)
  BY <1>3
<1>6. s[i].kind = "("
  BY <1>2, <1>3
<1>7. \A k \in (i + 1) .. (j - 1) : s[k].kind \notin Bracket
  BY <1>4, <1>5
<1>8. CASE j \in 1 .. Len(s)
  <2>1. s[j].kind = ")" /\ \A k \in i .. j : t[k] = s[k]
    BY <1>2, <1>3, <1>8
  <2>2. PICK k \in i .. j : s[k].kind \in MathSigns
    BY <1>2, <1>3, <1>6, <1>7, <1>8, <2>1 DEF ClosedHoldMath
  <2> QED
    BY <2>1, <2>2
<1>9. CASE j = Len(s) + 1
  <2>1. j - 1 = Len(s)
    BY <1>2, <1>9
  <2>2. LastOpened(s, i)
    BY <1>6, <1>7, <2>1 DEF LastOpened
  <2>3. PICK k \in i .. Len(s) : s[k].kind \in MathSigns
    BY <1>2, <1>3, <2>2 DEF HoldsMath
  <2> QED
    BY <1>4, <2>1, <2>3
<1> QED
  BY <1>2, <1>8, <1>9
-----------------------------------------------------------------------------
(* The turns keep the file and the stack in step                             *)

\* The text of a turn is added to the destination.
LEMMA TextAdded ==
  ASSUME GeneratorIInv, pc = "loop", NEW x \in Seq(FileTokens), NEW characters, NEW counted,
         Writes(x, characters, counted), args' = args
  PROVE  /\ files[args.dest] \in Seq(FileTokens)
         /\ files'[args'.dest] = files[args.dest] \o x
<1>1. args.dest \in Names /\ files \in [Names -> Seq(FileTokens)]
  BY DEF GeneratorIInv, Checked, GeneratorTypeOK
<1> QED
  BY <1>1 DEF Writes

\* A bracket is only closed next where the flag allows it.
LEMMA ClosedNext ==
  ASSUME NEW action \in Actions, Advance(action)
  PROVE  next' = "close_bracket" => brackets' # 0 /\ Last(hasMath')
  BY NextFacts DEF Advance

\* Outside the loop nothing is claimed.
LEMMA LoopLeft ==
  ASSUME pc' # "loop"
  PROVE  BracketsTracked' /\ FlagIsTrue'
  BY DEF BracketsTracked, FlagIsTrue

\* A text without brackets, after which a set flag is still true.
LEMMA PlainTurn ==
  ASSUME BracketInv, pc = "loop", NEW action \in Actions, Advance(action),
         NEW x \in Seq(FileTokens), \A k \in 1 .. Len(x) : x[k].kind \notin Bracket,
         NEW characters, NEW counted, Writes(x, characters, counted),
         brackets' = brackets,
         \/ hasMath' = hasMath
         \/ \E k \in 1 .. Len(x) : x[k].kind \in MathSigns
  PROVE  BracketsTracked' /\ FlagIsTrue'
<1> DEFINE s == files[args.dest]
           t == s \o x
<1>1. pc' = "loop" /\ args' = args
  BY DEF Advance
<1>2. s \in Seq(FileTokens) /\ files'[args'.dest] = t
  BY <1>1, TextAdded DEF BracketInv
<1>3. HowMany(s, "(") - HowMany(s, ")") = brackets /\ ClosedHoldMath(s)
  BY TrackedMeans DEF BracketInv
<1>4. BracketsTracked'
  <2>1. \A k \in 1 .. Len(x) : x[k].kind # "(" /\ x[k].kind # ")"
    BY DEF Bracket
  <2>2. HowMany(t, "(") = HowMany(s, "(") /\ HowMany(t, ")") = HowMany(s, ")")
    BY <1>2, <2>1, OthersCounted
  <2>3. ClosedHoldMath(t)
    BY <1>2, <1>3, <2>1, NotClosed
  <2> HIDE DEF s, t
  <2>4. HowMany(t, "(") - HowMany(t, ")") = brackets'
    BY <1>3, <2>2
  <2> QED
    BY <1>2, <2>3, <2>4, TrackedNext
<1>5. /\ Len(s) \in Nat /\ Len(x) \in Nat /\ Len(t) = Len(s) + Len(x)
      /\ DOMAIN s = 1 .. Len(s) /\ DOMAIN t = 1 .. Len(s) + Len(x)
      /\ \A i \in 1 .. Len(s) : t[i] = s[i]
      /\ \A i \in Len(s) + 1 .. Len(s) + Len(x) : t[i] = x[i - Len(s)]
  BY <1>2, Joined
<1>6. hasMath' = hasMath /\ brackets # 0 /\ Last(hasMath) =>
        \A i \in DOMAIN s : LastOpened(s, i) => HoldsMath(s, i)
  BY DEF BracketInv, FlagIsTrue
<1> HIDE DEF s, t
<1>7. ASSUME NEW i \in DOMAIN t, LastOpened(t, i), brackets' # 0, Last(hasMath')
      PROVE  HoldsMath(t, i)
  <2>1. i \in 1 .. Len(s)
    <3> SUFFICES ASSUME i \in Len(s) + 1 .. Len(s) + Len(x) PROVE FALSE
      BY <1>5
    <3>1. i - Len(s) \in 1 .. Len(x)
      BY <1>5
    <3>2. x[i - Len(s)].kind \in Bracket
      BY <1>5, <1>7 DEF LastOpened, Bracket
    <3> QED
      BY <3>1, <3>2
  <2>2. CASE hasMath' = hasMath
    <3>1. \A k \in i .. Len(s) : k \in 1 .. Len(s) /\ k \in i .. Len(t) /\ t[k] = s[k]
      BY <1>5, <2>1
    <3>2. \A k \in (i + 1) .. Len(s) : k \in i .. Len(s) /\ k \in (i + 1) .. Len(t)
      BY <1>5, <2>1
    <3>3. i \in i .. Len(s)
      BY <1>5, <2>1
    <3>4. LastOpened(s, i)
      BY <1>7, <3>1, <3>2, <3>3 DEF LastOpened
    <3>5. HoldsMath(s, i)
      BY <1>5, <1>6, <1>7, <2>1, <2>2, <3>4
    <3> QED
      BY <3>1, <3>5 DEF HoldsMath
  <2>3. CASE \E k \in 1 .. Len(x) : x[k].kind \in MathSigns
    <3>1. PICK k \in 1 .. Len(x) : x[k].kind \in MathSigns
      BY <2>3
    <3>2. /\ Len(s) + k \in Len(s) + 1 .. Len(s) + Len(x)
          /\ Len(s) + k \in i .. Len(t) /\ Len(s) + k - Len(s) = k
      BY <1>5, <2>1
    <3>3. t[Len(s) + k] = x[k]
      BY <1>5, <3>2
    <3> QED
      BY <3>1, <3>2, <3>3 DEF HoldsMath
  <2> QED
    BY <2>2, <2>3
<1>8. FlagIsTrue'
  BY <1>2, <1>7, ClosedNext DEF FlagIsTrue
<1> QED
  BY <1>4, <1>8

LEMMA PutNumberTracked ==
  ASSUME BracketInv, PutNumber
  PROVE  BracketsTracked' /\ FlagIsTrue'
<1>1. PICK n \in Randoms : Writes(<<Number(n)>>, Width[n], Width[n])
  BY DEF PutNumber
<1>2. <<Number(n)>> \in Seq(FileTokens)
  BY TokenFacts
<1>3. \A k \in 1 .. Len(<<Number(n)>>) : <<Number(n)>>[k].kind \notin Bracket
  BY DEF Number, Bracket
<1>4. /\ pc = "loop" /\ Advance("put_number") /\ "put_number" \in Actions
      /\ brackets' = brackets /\ hasMath' = hasMath
  BY DEF PutNumber, Turn, Actions
<1> HIDE DEF Number
<1> QED
  BY <1>1, <1>2, <1>3, <1>4, PlainTurn

LEMMA PutMathTracked ==
  ASSUME BracketInv, PutMath
  PROVE  BracketsTracked' /\ FlagIsTrue'
<1>1. pc = "loop" /\ brackets' = brackets /\ {"math", "put_number"} \subseteq Actions
  BY DEF PutMath, Turn, Actions
<1>2. CASE \E sign \in MathSigns \ {"/"} : Writes(<<Symbol(sign)>>, 1, 1) /\ Advance("math")
  <2>1. PICK sign \in MathSigns \ {"/"} : Writes(<<Symbol(sign)>>, 1, 1) /\ Advance("math")
    BY <1>2
  <2>2. <<Symbol(sign)>> \in Seq(FileTokens)
    BY TokenFacts
  <2>3. /\ \A k \in 1 .. Len(<<Symbol(sign)>>) : <<Symbol(sign)>>[k].kind \notin Bracket
        /\ \E k \in 1 .. Len(<<Symbol(sign)>>) : <<Symbol(sign)>>[k].kind \in MathSigns
    <3>1. Len(<<Symbol(sign)>>) = 1 /\ <<Symbol(sign)>>[1].kind = sign
      BY DEF Symbol
    <3>2. sign \in MathSigns /\ sign \notin Bracket
      BY DEF MathSigns, Bracket
    <3> QED
      BY <3>1, <3>2
  <2> QED
    BY <1>1, <2>1, <2>2, <2>3, PlainTurn
<1>3. CASE Writes(<<Symbol("/"), Number(1)>>, 2, 1) /\ Advance("put_number")
  <2> DEFINE x == <<Symbol("/"), Number(1)>>
  <2>1. x \in Seq(FileTokens)
    <3>1. Symbol("/") \in FileTokens /\ Number(1) \in FileTokens
      BY TokenFacts DEF MathSigns
    <3> QED
      BY <3>1
  <2>2. /\ \A k \in 1 .. Len(x) : x[k].kind \notin Bracket
        /\ \E k \in 1 .. Len(x) : x[k].kind \in MathSigns
    <3>1. Len(x) = 2 /\ x[1].kind = "/" /\ x[2].kind = "number"
      BY DEF Symbol, Number
    <3>2. "/" \in MathSigns /\ "/" \notin Bracket /\ "number" \notin Bracket
      BY DEF MathSigns, Bracket
    <3> HIDE DEF x
    <3> QED
      BY <3>1, <3>2
  <2>3. Writes(x, 2, 1)
    BY <1>3
  <2> HIDE DEF x
  <2> QED
    BY <1>1, <1>3, <2>1, <2>2, <2>3, PlainTurn
<1> QED
  BY <1>2, <1>3 DEF PutMath

\* An opened bracket is counted, and has its flag clear.
LEMMA OpenBracketTracked ==
  ASSUME BracketInv, OpenBracket
  PROVE  BracketsTracked' /\ FlagIsTrue'
<1> DEFINE s == files[args.dest]
           u == Symbol("(")
           t == s \o <<u>>
<1>1. /\ pc = "loop" /\ pc' = "loop" /\ args' = args /\ Advance("open_bracket")
      /\ Writes(<<u>>, 1, 1) /\ brackets' = brackets + 1
      /\ hasMath' = Append(hasMath, FALSE) /\ "open_bracket" \in Actions
  BY DEF OpenBracket, Turn, Advance, Actions
<1>2. u \in FileTokens /\ u.kind = "("
  BY TokenFacts DEF Symbol
<1>3. <<u>> \in Seq(FileTokens) /\ Len(<<u>>) = 1 /\ <<u>>[1] = u
  BY <1>2
<1>4. s \in Seq(FileTokens) /\ files'[args'.dest] = t
  BY <1>1, <1>3, TextAdded DEF BracketInv
<1>5. HowMany(s, "(") - HowMany(s, ")") = brackets /\ ClosedHoldMath(s) /\ brackets \in Nat
  BY <1>1, TrackedMeans DEF BracketInv, GeneratorIInv, GeneratorTypeOK
<1>6. Last(hasMath') = FALSE
  <2>1. hasMath \in Seq(BOOLEAN)
    BY DEF BracketInv, GeneratorIInv, GeneratorTypeOK
  <2>2. /\ Len(Append(hasMath, FALSE)) = Len(hasMath) + 1
        /\ Append(hasMath, FALSE)[Len(hasMath) + 1] = FALSE
    BY <2>1
  <2> QED
    BY <1>1, <2>2 DEF Last
<1> HIDE DEF u
<1>7. HowMany(t, "(") = HowMany(s, "(") + 1
  BY <1>2, <1>4, OneMoreCounted
<1>8. \A k \in 1 .. Len(<<u>>) : <<u>>[k].kind # ")"
  BY <1>2, <1>3
<1>9. HowMany(t, ")") = HowMany(s, ")") /\ ClosedHoldMath(t)
  BY <1>3, <1>4, <1>5, <1>8, OthersCounted, NotClosed
<1>10. HowMany(s, "(") \in Nat /\ HowMany(s, ")") \in Nat
  BY <1>4, CountType
<1> HIDE DEF s, t
<1>11. HowMany(t, "(") - HowMany(t, ")") = brackets'
  BY <1>1, <1>5, <1>7, <1>9, <1>10
<1>13. BracketsTracked'
  BY <1>4, <1>9, <1>11, TrackedNext
<1>14. FlagIsTrue'
  BY <1>1, <1>6, ClosedNext DEF FlagIsTrue
<1> QED
  BY <1>13, <1>14

\* A bracket is closed upon a flag that is set, so it holds an operator.
LEMMA CloseBracketTracked ==
  ASSUME BracketInv, CloseBracket
  PROVE  BracketsTracked' /\ FlagIsTrue'
<1> DEFINE s == files[args.dest]
           u == Symbol(")")
           t == s \o <<u>>
<1>1. /\ pc = "loop" /\ pc' = "loop" /\ args' = args /\ Advance("close_bracket")
      /\ Writes(<<u>>, 1, 1) /\ brackets' = brackets - 1 /\ next = "close_bracket"
      /\ "close_bracket" \in Actions
  BY DEF CloseBracket, Turn, Advance, Actions
<1>2. u \in FileTokens /\ u.kind = ")"
  BY TokenFacts DEF Symbol
<1>3. <<u>> \in Seq(FileTokens) /\ Len(<<u>>) = 1 /\ <<u>>[1] = u
  BY <1>2
<1>4. s \in Seq(FileTokens) /\ files'[args'.dest] = t
  BY <1>1, <1>3, TextAdded DEF BracketInv
<1>5. HowMany(s, "(") - HowMany(s, ")") = brackets /\ ClosedHoldMath(s) /\ brackets \in Nat
  BY <1>1, TrackedMeans DEF BracketInv, GeneratorIInv, GeneratorTypeOK
<1>6. \A i \in DOMAIN s : LastOpened(s, i) => HoldsMath(s, i)
  BY <1>1 DEF BracketInv, FlagIsTrue
<1>7. ClosedHoldMath(t)
  BY <1>4, <1>5, <1>6, ClosedUponMath
<1>8. /\ Len(s) \in Nat /\ DOMAIN t = 1 .. Len(s) + 1 /\ Len(t) = Len(s) + 1
      /\ t[Len(s) + 1] = u
  <2>1. /\ Len(s) \in Nat
        /\ DOMAIN t = 1 .. Len(s) + Len(<<u>>) /\ Len(t) = Len(s) + Len(<<u>>)
        /\ \A i \in Len(s) + 1 .. Len(s) + Len(<<u>>) : t[i] = <<u>>[i - Len(s)]
    BY <1>3, <1>4, Joined
  <2> HIDE DEF s, t, u
  <2>2. Len(s) + 1 \in Len(s) + 1 .. Len(s) + 1 /\ Len(s) + 1 - Len(s) = 1
    BY <2>1
  <2> QED
    BY <1>3, <2>1, <2>2
<1> HIDE DEF u
<1>9. HowMany(t, ")") = HowMany(s, ")") + 1
  BY <1>2, <1>4, OneMoreCounted
<1>10. \A k \in 1 .. Len(<<u>>) : <<u>>[k].kind # "("
  BY <1>2, <1>3
<1>11. HowMany(t, "(") = HowMany(s, "(")
  BY <1>3, <1>4, <1>10, OthersCounted
<1>12. HowMany(s, "(") \in Nat /\ HowMany(s, ")") \in Nat
  BY <1>4, CountType
<1> HIDE DEF s, t
<1>13. HowMany(t, "(") - HowMany(t, ")") = brackets'
  BY <1>1, <1>5, <1>9, <1>11, <1>12
<1>15. BracketsTracked'
  BY <1>4, <1>7, <1>13, TrackedNext
<1>16. \A i \in DOMAIN t : ~LastOpened(t, i)
  <2> SUFFICES ASSUME NEW i \in 1 .. Len(s) + 1, LastOpened(t, i) PROVE FALSE
    BY <1>8
  <2>1. t[i].kind = "(" /\ \A k \in (i + 1) .. Len(s) + 1 : t[k].kind \notin Bracket
    BY <1>8 DEF LastOpened
  <2>2. i # Len(s) + 1
    BY <1>2, <1>8, <2>1
  <2>3. Len(s) + 1 \in (i + 1) .. Len(s) + 1
    BY <1>8, <2>2
  <2> QED
    BY <1>2, <1>8, <2>1, <2>3 DEF Bracket
<1>17. FlagIsTrue'
  BY <1>1, <1>4, <1>16, ClosedNext DEF FlagIsTrue
<1> QED
  BY <1>15, <1>17

\* The loop begins with an empty file and no bracket.
LEMMA StartGeneratingTracked ==
  ASSUME BracketInv, StartGenerating
  PROVE  BracketsTracked' /\ FlagIsTrue'
<1>1. CASE Exit(1)
  BY <1>1, LoopLeft DEF Exit, Exits
<1>2. CASE ~(args.size < 3 \/ args.dest \notin Openable)
  <2>1. args.dest \in Names /\ files \in [Names -> Seq(FileTokens)] /\ brackets = 0
    BY <1>2, GeneratorAssumption DEF StartGenerating, BracketInv, GeneratorIInv, GeneratorTypeOK, Untouched
  <2>2. /\ files' = [files EXCEPT ![args.dest] = <<>>] /\ args' = args /\ brackets' = brackets
        /\ next' # "close_bracket"
    BY <1>2 DEF StartGenerating
  <2>3. files'[args'.dest] = <<>> /\ brackets' = 0
    BY <2>1, <2>2
  <2>4. HowMany(<<>>, "(") = 0 /\ HowMany(<<>>, ")") = 0
    BY NothingCounted
  <2>5. ClosedHoldMath(<<>>)
    BY DEF ClosedHoldMath
  <2>7. BracketsTracked'
    BY <2>3, <2>4, <2>5, TrackedNext
  <2>8. FlagIsTrue'
    BY <2>2, <2>3 DEF FlagIsTrue
  <2> QED
    BY <2>7, <2>8
<1> QED
  BY <1>1, <1>2 DEF StartGenerating

\* The inductive invariant of the brackets.
LEMMA BracketInvariance == GeneratorSpec => []BracketInv
<1>1. GeneratorInit => BracketInv
  BY GeneratorInitIInv DEF GeneratorInit, BracketInv, BracketsTracked, FlagIsTrue
<1>2. BracketInv /\ [GeneratorNext]_generatorVars => BracketInv'
  <2> SUFFICES ASSUME BracketInv, [GeneratorNext]_generatorVars PROVE BracketInv'
    OBVIOUS
  <2>1. GeneratorIInv'
    BY GeneratorStepIInv DEF BracketInv
  <2>2. CASE UNCHANGED generatorVars
    <3>1. UNCHANGED <<files, args, pc, brackets, hasMath, next>>
      BY <2>2 DEF generatorVars, loopVars
    <3> QED
      BY <2>1, <3>1 DEF BracketInv, BracketsTracked, FlagIsTrue, HowMany
  <2>3. CASE ReadArguments
    <3>1. pc' # "loop"
      BY <2>3 DEF ReadArguments, Exit, Exits, Misused
    <3> QED
      BY <2>1, <3>1, LoopLeft DEF BracketInv
  <2>4. CASE StartGenerating
    BY <2>1, <2>4, StartGeneratingTracked DEF BracketInv
  <2>5. CASE PutNumber
    BY <2>1, <2>5, PutNumberTracked DEF BracketInv
  <2>6. CASE OpenBracket
    BY <2>1, <2>6, OpenBracketTracked DEF BracketInv
  <2>7. CASE CloseBracket
    BY <2>1, <2>7, CloseBracketTracked DEF BracketInv
  <2>8. CASE PutMath
    BY <2>1, <2>8, PutMathTracked DEF BracketInv
  <2>9. CASE FinishGenerating \/ StartRepeating \/ CopyExpression
    <3>1. pc' # "loop"
      BY <2>9 DEF FinishGenerating, StartRepeating, CopyExpression, Exit, Exits
    <3> QED
      BY <2>1, <3>1, LoopLeft DEF BracketInv
  <2> QED
    BY <2>2, <2>3, <2>4, <2>5, <2>6, <2>7, <2>8, <2>9 DEF GeneratorNext
<1> QED
  BY <1>1, <1>2, PTL DEF GeneratorSpec

\* The file and the counter agree on the open brackets at every turn of the
\* loop, and no bracket is closed without an operator in it: the flags of
\* has_math_within_brackets are true of the text.
THEOREM BracketsStayTracked == GeneratorSpec => []BracketsTracked
<1>1. BracketInv => BracketsTracked
  BY DEF BracketInv
<1> QED
  BY <1>1, BracketInvariance, PTL

-----------------------------------------------------------------------------
(* What is generated and the parser                                          *)

\* What may come first in a generated text.
Starts(b) == b.kind \in {"number", "("}

\* What may come after what.
Follows(a, b) ==
  /\ a.kind \in {"number", ")"} => b.kind \in Binary \cup {")", "end"}
  /\ a.kind = "(" => b.kind \in {"number", ")"}
  /\ a.kind \in {"+", "-", "*"} => b.kind \in {"number", "("}
  /\ a.kind = "/" => b.kind = "number" /\ b.value = 1
  /\ a.kind \in {"number", "(", ")"} \cup Binary

Shaped(t) ==
  /\ t # <<>> => Starts(t[1])
  /\ \A i \in 1 .. Len(t) - 1 : Follows(t[i], t[i + 1])

\* How many brackets are open after each beginning of a text.
Heights(t, h) ==
  /\ h \in [0 .. Len(t) -> Nat] /\ h[0] = 0
  /\ \A k \in 1 .. Len(t) : h[k] = h[k - 1] + Rise(t[k])

Emptied(t) == \E i \in 1 .. Len(t) - 1 : Empty(t, i)

\* A text that the calculator has a value for.
Legal(f, h) ==
  f \in Seq(Tokens) /\ Shaped(f) /\ ~Emptied(f) /\ Heights(f, h) /\ h[Len(f)] = 0

-----------------------------------------------------------------------------
(* The parser, reading a legal text                                          *)

Prefix(f) == Len(text) <= Len(f) /\ \A i \in 1 .. Len(text) : text[i] = f[i]

ReadsFrom(f) == text' # text => Len(text') <= Len(f) /\ Last(text') = f[Len(text')]

\* An operand has just been read.
Ready(t) == t # <<>> /\ Last(t).kind \in {"number", ")"}

\* With b brackets open, the stack has a marker for each and for the whole, and
\* every operator on it has its left operand on the other stack; one number
\* more is there if c is 1.  A division never waits for a bracket.
Stacks(s, ns, b, c) ==
  /\ MarkersOn(s) = b + 1
  /\ Height(ns) + b + 1 = Height(s) + c
  /\ \A i \in 2 .. Len(s) : s[i] \in Markers => s[i - 1] # "/"

Reading(h) ==
  phase = "read" =>
    /\ Stacks(operators, numbers, h[Len(text)], IF Ready(text) THEN 1 ELSE 0)
    /\ Last(operators) = "start" <=> text = <<>> \/ Last(text).kind = "("
    /\ text # <<>> /\ Last(text).kind \in Binary => Last(operators) = Last(text).kind
    /\ Ready(text) /\ Last(operators) = "/" => Last(numbers) = 1

Unwinding(h) ==
  phase = "unwind" =>
    /\ Stacks(operators, numbers, h[Len(text)] + (IF token = ")" THEN 1 ELSE 0), 1)
    /\ text # <<>> /\ Last(text).kind = token
    /\ Last(operators) # "start"
    /\ Last(operators) = "/" => Last(numbers) = 1

Accepting(f, h) ==
  /\ Prefix(f)
  /\ phase \in {"read", "unwind", "finish", "value"}
  /\ Reading(h) /\ Unwinding(h)
  /\ phase = "finish" => operators = <<>> /\ Len(numbers) = 1

\* A token of the text is read where the text allows it.
LEMMA TokenRead ==
  ASSUME NEW f, NEW h, TypeOK, Legal(f, h), Prefix(f),
         NEW kind \in Kinds, NEW n \in Numbers \cup {0}, Reads(kind, n), ReadsFrom(f)
  PROVE  /\ Prefix(f)' /\ text' # <<>>
         /\ Last(text').kind = kind /\ Last(text').value = n
         /\ h[Len(text)] \in Nat /\ h[Len(text')] \in Nat
         /\ h[Len(text')] = h[Len(text)] + (IF kind = "(" THEN 1 ELSE IF kind = ")" THEN -1 ELSE 0)
         /\ Len(text') \in 1 .. Len(f) /\ Last(text') = f[Len(text')]
         /\ text = <<>> => kind \in {"number", "("}
         /\ text # <<>> => Follows(Last(text), Last(text'))
         /\ text # <<>> /\ Last(text).kind = "(" => kind # ")"
  <1> DEFINE x == [kind |-> kind, value |-> n]
  <1>1. x \in Tokens /\ x.kind = kind /\ x.value = n
    BY DEF Tokens
  <1>2. text \in Seq(Tokens) /\ text' = Append(text, x) /\ Len(text) \in Nat
    BY DEF TypeOK, Reads
  <1>3. f \in Seq(Tokens) /\ Len(f) \in Nat /\ Shaped(f) /\ ~Emptied(f) /\ Heights(f, h)
    BY DEF Legal
  <1> HIDE DEF x
  <1>0. PICK k \in Nat : k = Len(text) + 1
    BY <1>2
  <1>4. /\ text' \in Seq(Tokens) /\ text' # <<>> /\ Len(text') = k /\ text'[k] = x
        /\ \A i \in 1 .. Len(text) : text'[i] = text[i]
    BY <1>0, <1>1, <1>2, Pushed
  <1>5. Last(text') = x
    BY <1>4 DEF Last
  <1>6. text' # text
    BY <1>0, <1>2, <1>4
  <1>7. k <= Len(f) /\ f[k] = x
    BY <1>4, <1>5, <1>6 DEF ReadsFrom
  <1>8. k \in 1 .. Len(f) /\ k - 1 = Len(text)
    BY <1>0, <1>2, <1>3, <1>7
  <1>9. Prefix(f)'
    <2>1. ASSUME NEW i \in 1 .. Len(text') PROVE text'[i] = f[i]
      <3>1. CASE i = k
        BY <1>4, <1>7, <3>1
      <3>2. CASE i # k
        <4>1. i \in 1 .. Len(text)
          BY <1>0, <1>2, <1>4, <3>2
        <4>2. QED
          BY <1>4, <4>1 DEF Prefix
      <3>3. QED
        BY <3>1, <3>2
    <2>2. QED
      BY <1>4, <1>7, <2>1 DEF Prefix
  <1>10. /\ h[Len(text)] \in Nat /\ h[Len(text')] \in Nat
         /\ h[Len(text')] = h[Len(text)] + Rise(x)
    <2>1. /\ h[k - 1] \in Nat /\ h[k] \in Nat
          /\ h[k] = h[k - 1] + Rise(f[k])
      BY <1>3, <1>8 DEF Heights
    <2>2. QED
      BY <1>4, <1>7, <1>8, <2>1
  <1>11. text = <<>> => kind \in {"number", "("}
    <2> SUFFICES ASSUME text = <<>> PROVE kind \in {"number", "("}
      OBVIOUS
    <2>1. k = 1 /\ f # <<>>
      BY <1>0, <1>3, <1>8
    <2>2. Starts(x)
      BY <1>3, <1>7, <2>1 DEF Shaped
    <2>3. QED
      BY <1>1, <2>2 DEF Starts
  <1>12. ASSUME text # <<>> PROVE Last(text) = f[k - 1] /\ k - 1 \in 1 .. Len(f) - 1
    <2>1. Len(text) \in 1 .. Len(text) /\ Last(text) = text[Len(text)]
      BY <1>2, <1>12 DEF Last
    <2>2. text[Len(text)] = f[Len(text)]
      BY <2>1 DEF Prefix
    <2>3. QED
      BY <1>2, <1>3, <1>8, <1>12, <2>1, <2>2
  <1>13. ASSUME text # <<>> PROVE Follows(Last(text), x)
    <2>1. k - 1 + 1 = k
      BY <1>0
    <2>2. Follows(f[k - 1], f[k - 1 + 1])
      BY <1>3, <1>12, <1>13 DEF Shaped
    <2>3. QED
      BY <1>7, <1>12, <1>13, <2>1, <2>2
  <1>14. ASSUME text # <<>>, Last(text).kind = "(" PROVE kind # ")"
    <2>1. k - 1 + 1 = k
      BY <1>0
    <2>2. ~(f[k - 1].kind = "(" /\ f[k - 1 + 1].kind = ")")
      BY <1>3, <1>12, <1>14 DEF Emptied, Empty
    <2>3. QED
      BY <1>1, <1>7, <1>12, <1>14, <2>1, <2>2
  <1>15. QED
    BY <1>1, <1>4, <1>5, <1>7, <1>8, <1>9, <1>10, <1>11, <1>13, <1>14 DEF Rise

\* Which tokens come after an operand, and what comes after a division.
LEMMA AfterOperand ==
  ASSUME NEW f, NEW h, TypeOK, Legal(f, h), Prefix(f),
         NEW kind \in Kinds, NEW n \in Numbers \cup {0}, Reads(kind, n), ReadsFrom(f)
  PROVE  /\ kind \in {"number", "("} <=> ~Ready(text)
         /\ kind # "bad"
         /\ Ready(text') <=> kind \in {"number", ")"}
         /\ text # <<>> /\ Last(text).kind = "/" => kind = "number" /\ n = 1
         /\ ~Ready(text) /\ text # <<>> /\ Last(text).kind # "(" => Last(text).kind \in Binary
  <1>1. /\ text' # <<>> /\ Last(text').kind = kind /\ Last(text').value = n
        /\ text = <<>> => kind \in {"number", "("}
        /\ text # <<>> => Follows(Last(text), Last(text'))
        /\ text # <<>> /\ Last(text).kind = "(" => kind # ")"
    BY TokenRead
  <1>2. Ready(text') <=> kind \in {"number", ")"}
    BY <1>1 DEF Ready
  <1>3. CASE text = <<>>
    BY <1>1, <1>2, <1>3 DEF Ready
  <1>4. CASE text # <<>>
    BY <1>1, <1>2, <1>4 DEF Ready, Follows, Binary
  <1>5. QED
    BY <1>3, <1>4

-----------------------------------------------------------------------------
(* What pushing and popping do to the stacks                                 *)

\* A marker pushed opens a bracket, unless a division is waiting; an operator
\* takes up the number that has been read before it.
LEMMA StacksPush ==
  ASSUME NEW s \in Seq(Entries), s # <<>>, NEW ns, Height(ns) \in Nat, NEW b \in Nat, NEW c \in {0, 1},
         Stacks(s, ns, b, c), NEW x \in Entries
  PROVE  /\ x \in Markers /\ Last(s) # "/" => Stacks(Append(s, x), ns, b + 1, c)
         /\ x \notin Markers => Stacks(Append(s, x), ns, b, c - 1)
         /\ Last(Append(s, x)) = x
  <1> DEFINE t == Append(s, x)
  <1>1. /\ MarkersOn(s) = b + 1 /\ Height(ns) + b + 1 = Height(s) + c
        /\ MarkersOn(t) = MarkersOn(s) + (IF x \in Markers THEN 1 ELSE 0)
        /\ Height(s) \in Nat /\ Height(t) = Height(s) + 1
    BY PushCounted DEF Stacks, Height
  <1>2. /\ Len(s) \in Nat \ {0} /\ Len(t) = Len(s) + 1 /\ t[Len(s) + 1] = x /\ Last(s) = s[Len(s)]
        /\ \A i \in 1 .. Len(s) : t[i] = s[i]
    <2>1. Len(s) \in Nat \ {0} /\ Last(s) = s[Len(s)]
      BY TopAndPop
    <2>2. QED
      BY <2>1, Pushed
  <1>3. Last(t) = x
    BY <1>2 DEF Last
  <1> HIDE DEF t
  <1>4. ASSUME x \in Markers => Last(s) # "/"
        PROVE  \A i \in 2 .. Len(t) : t[i] \in Markers => t[i - 1] # "/"
    <2> SUFFICES ASSUME NEW i \in 2 .. Len(t), t[i] \in Markers PROVE t[i - 1] # "/"
      OBVIOUS
    <2>1. CASE i = Len(t)
      <3>1. i - 1 \in 1 .. Len(s) /\ i - 1 = Len(s) /\ t[i] = x
        BY <1>2, <2>1
      <3>2. QED
        BY <1>2, <1>4, <3>1
    <2>2. CASE i # Len(t)
      <3>1. i \in 2 .. Len(s) /\ i \in 1 .. Len(s) /\ i - 1 \in 1 .. Len(s)
        BY <1>2, <2>2
      <3>2. t[i] = s[i] /\ t[i - 1] = s[i - 1]
        BY <1>2, <3>1
      <3>3. QED
        BY <3>1, <3>2 DEF Stacks
    <2>3. QED
      BY <2>1, <2>2
  <1>5. CASE x \in Markers
    <2>1. MarkersOn(t) = b + 1 + 1 /\ Height(ns) + (b + 1) + 1 = Height(t) + c
      BY <1>1, <1>5
    <2>2. QED
      BY <1>3, <1>4, <1>5, <2>1 DEF Stacks, t
  <1>6. CASE x \notin Markers
    <2>1. MarkersOn(t) = b + 1 /\ Height(ns) + b + 1 = Height(t) + (c - 1)
      BY <1>1, <1>6
    <2>2. QED
      BY <1>3, <1>4, <1>6, <2>1 DEF Stacks, t
  <1>7. QED
    BY <1>5, <1>6

\* A marker popped closes a bracket; an operator popped frees the place of
\* its right operand.
LEMMA StacksPop ==
  ASSUME NEW s, Sound(s), NEW ns, Height(ns) \in Nat, NEW b \in Nat,
         Stacks(s, ns, b, 1)
  PROVE  /\ Last(s) \in Markers =>
              /\ Stacks(Front(s), ns, b - 1, 1)
              /\ Front(s) # <<>> => Last(Front(s)) # "/"
         /\ Last(s) \in Binary =>
              /\ Front(s) # <<>> /\ Height(ns) >= 2
              /\ \A ms : Height(ms) \in Nat /\ Height(ms) + 1 = Height(ns) => Stacks(Front(s), ms, b, 1)
              /\ Last(Front(s)) # "/"
  <1> DEFINE t == Front(s)
  <1>0. s \in Seq(Entries) /\ s # <<>>
    BY DEF Sound
  <1>1. /\ MarkersOn(s) = b + 1 /\ Height(ns) + b + 1 = Height(s) + 1
        /\ MarkersOn(t) = MarkersOn(s) - (IF Last(s) \in Markers THEN 1 ELSE 0)
        /\ Height(s) \in Nat /\ Height(t) = Height(s) - 1
    BY <1>0, PopCounted DEF Stacks, Height
  <1>2. /\ Len(s) \in Nat \ {0} /\ t \in Seq(Entries) /\ Len(t) = Len(s) - 1
        /\ Last(s) = s[Len(s)]
        /\ \A i \in 1 .. Len(s) - 1 : t[i] = s[i]
    BY <1>0, TopAndPop
  <1> HIDE DEF t
  <1>3. \A i \in 2 .. Len(t) : t[i] \in Markers => t[i - 1] # "/"
    <2> SUFFICES ASSUME NEW i \in 2 .. Len(t), t[i] \in Markers PROVE t[i - 1] # "/"
      OBVIOUS
    <2>1. i \in 2 .. Len(s) /\ i \in 1 .. Len(s) - 1 /\ i - 1 \in 1 .. Len(s) - 1
      BY <1>2
    <2>2. t[i] = s[i] /\ t[i - 1] = s[i - 1]
      BY <1>2, <2>1
    <2>3. QED
      BY <2>1, <2>2 DEF Stacks
  <1>4. ASSUME t # <<>>
        PROVE  /\ Len(s) \in 2 .. Len(s) /\ Last(t) = s[Len(s) - 1]
    <2>1. Len(t) \in Nat \ {0} /\ Last(t) = t[Len(t)]
      BY <1>2, <1>4, TopAndPop
    <2>2. QED
      BY <1>2, <2>1
  <1>5. CASE Last(s) \in Markers
    <2>1. MarkersOn(t) = b - 1 + 1 /\ Height(ns) + (b - 1) + 1 = Height(t) + 1
      BY <1>1, <1>5
    <2>2. Stacks(t, ns, b - 1, 1)
      BY <1>3, <2>1 DEF Stacks
    <2>3. t # <<>> => Last(t) # "/"
      BY <1>2, <1>4, <1>5 DEF Stacks
    <2>4. Last(s) \notin Binary
      BY <1>5 DEF Markers, Binary
    <2>5. QED
      BY <1>5, <2>2, <2>3, <2>4 DEF t
  <1>6. CASE Last(s) \in Binary
    <2>0. Last(s) \notin Markers
      BY <1>6 DEF Markers, Binary
    <2>1. t # <<>>
      <3>1. s[1] \in Markers
        BY DEF Sound
      <3>2. Len(s) # 1
        BY <1>2, <2>0, <3>1
      <3>3. Len(t) # 0
        BY <1>2, <3>2
      <3>4. QED
        BY <3>3
    <2>2. Last(t) # "/"
      <3>1. SUFFICES ASSUME Last(t) = "/" PROVE FALSE
        OBVIOUS
      <3>2. Len(s) \in 2 .. Len(s) /\ s[Len(s) - 1] = "/"
        BY <1>4, <2>1, <3>1
      <3>3. s[Len(s)] \in Binary /\ s[Len(s) - 1] \in Binary
        BY <1>2, <1>6, <3>2 DEF Binary
      <3>4. Precedence("/") < Precedence(Last(s))
        BY <1>2, <3>2, <3>3 DEF Sound
      <3>5. Precedence("/") = 2 /\ Precedence(Last(s)) \in {1, 2}
        <4>1. \A x \in Binary : Precedence(x) \in {1, 2}
          BY DEF Precedence, Binary, Markers
        <4>2. Precedence("/") = 2
          BY DEF Precedence, Binary, Markers
        <4>3. QED
          BY <1>6, <4>1, <4>2
      <3>6. QED
        BY <3>4, <3>5
    <2>3. MarkersOn(t) = b + 1
      BY <1>1, <2>0
    <2>4. Height(ns) >= 2
      <3>1. MarkersOn(t) <= Height(t)
        BY <1>2, PlacesFinite DEF MarkersOn, Height
      <3>2. QED
        BY <1>1, <2>3, <3>1
    <2>5. ASSUME NEW ms, Height(ms) \in Nat, Height(ms) + 1 = Height(ns) PROVE Stacks(t, ms, b, 1)
      <3>1. Height(ms) + b + 1 = Height(t) + 1
        BY <1>1, <2>5
      <3>2. QED
        BY <1>3, <2>3, <3>1 DEF Stacks
    <2>6. QED
      BY <1>6, <2>0, <2>1, <2>2, <2>4, <2>5 DEF t
  <1>7. Last(s) \in Markers \cup Binary
    BY <1>0, TopAndPop DEF Entries
  <1>8. QED
    BY <1>5, <1>6, <1>7

\* "start" becoming "first_num" leaves the two stacks in step.
LEMMA StacksSwap ==
  ASSUME NEW s \in Seq(Entries), s # <<>>, NEW ns, NEW b, NEW c, Stacks(s, ns, b, c)
  PROVE  /\ Stacks(Swapped(s), ns, b, c)
         /\ Last(Swapped(s)) # "start"
         /\ Last(Swapped(s)) = "/" => Last(s) = "/"
         /\ Last(s) \in Binary => Last(Swapped(s)) = Last(s)
  <1> DEFINE t == Swapped(s)
  <1>1. /\ MarkersOn(t) = MarkersOn(s) /\ Len(t) = Len(s) /\ Last(t) # "start"
    BY SwapCounted
  <1>2. /\ t \in Seq(Entries)
        /\ \A i \in 1 .. Len(s) - 1 : t[i] = s[i]
        /\ \/ t[Len(s)] = s[Len(s)]
           \/ s[Len(s)] \in Markers /\ t[Len(s)] \in Markers
    BY SwapsTop
  <1>3. Len(s) \in Nat \ {0} /\ Last(s) = s[Len(s)]
    BY TopAndPop
  <1>4. Last(t) = t[Len(s)]
    BY <1>1, <1>2, <1>3 DEF Last
  <1> HIDE DEF t
  <1>5. \A i \in 2 .. Len(t) : t[i] \in Markers => t[i - 1] # "/"
    <2> SUFFICES ASSUME NEW i \in 2 .. Len(t), t[i] \in Markers PROVE t[i - 1] # "/"
      OBVIOUS
    <2>1. i \in 2 .. Len(s) /\ i - 1 \in 1 .. Len(s) - 1
      BY <1>1, <1>3
    <2>2. t[i - 1] = s[i - 1]
      BY <1>2, <2>1
    <2>3. s[i] \in Markers
      <3>1. CASE i = Len(s)
        BY <1>2, <3>1
      <3>2. CASE i # Len(s)
        <4>1. i \in 1 .. Len(s) - 1
          BY <1>3, <2>1, <3>2
        <4>2. QED
          BY <1>2, <4>1
      <3>3. QED
        BY <3>1, <3>2
    <2>4. QED
      BY <2>1, <2>2, <2>3 DEF Stacks
  <1>6. Height(t) = Height(s)
    BY <1>1 DEF Height
  <1>7. Stacks(t, ns, b, c)
    BY <1>1, <1>5, <1>6 DEF Stacks
  <1>8. /\ Last(t) = "/" => Last(s) = "/"
        /\ Last(s) \in Binary => Last(t) = Last(s)
    <2>1. \A x \in Markers : x # "/" /\ x \notin Binary
      BY DEF Markers, Binary
    <2>2. QED
      BY <1>2, <1>3, <1>4, <2>1
  <1>9. QED
    BY <1>1, <1>7, <1>8 DEF t

-----------------------------------------------------------------------------
(* Every step of the parser on a legal text                                  *)

\* What IInv of ExprParserProofs says of the types and of the two stacks.
LEMMA Typed ==
  ASSUME IInv
  PROVE  /\ TypeOK /\ operators \in Seq(Entries) /\ numbers \in Seq(Int)
         /\ Height(numbers) \in Nat /\ Height(operators) \in Nat
         /\ phase \in {"read", "unwind"} => Sound(operators) /\ operators # <<>>
  <1>1. TypeOK /\ operators \in Seq(Entries) /\ numbers \in Seq(Int)
    BY DEF IInv, TypeOK, Entries
  <1>2. phase \in {"read", "unwind"} => Sound(operators) /\ operators # <<>>
    BY StackIsSound DEF Sound
  <1>3. QED
    BY <1>1, <1>2 DEF Height

\* In the middle of the text, what is left of the invariant is about the phase.
LEMMA AcceptingRead ==
  ASSUME NEW f, NEW h, Prefix(f)', phase' = "read", Reading(h)'
  PROVE  Accepting(f, h)'
  BY DEF Accepting, Unwinding

\* When the stacks begin to unwind, that they are in step is all there is.
LEMMA AcceptingUnwind ==
  ASSUME NEW f, NEW h, Prefix(f)', phase' = "unwind", Unwinding(h)'
  PROVE  Accepting(f, h)'
  BY DEF Accepting, Reading

\* An opening bracket of a legal text (calculator.h, processing "(").
LEMMA OpeningAccepted ==
  ASSUME NEW f, NEW h, IInv, Legal(f, h), Accepting(f, h), ReadsFrom(f), ReadOpening
  PROVE  Accepting(f, h)'
  <1>0. /\ phase = "read" /\ phase' = "read" /\ Reads("(", 0) /\ Prefix(f)
        /\ operators' = Append(operators, "start") /\ numbers' = numbers
    BY DEF ReadOpening, Accepting
  <1>1. "(" \in Kinds /\ 0 \in Numbers \cup {0}
    BY DEF Kinds
  <1>2. /\ TypeOK /\ operators \in Seq(Entries) /\ operators # <<>> /\ Height(numbers) \in Nat
    BY <1>0, Typed
  <1>3. /\ Prefix(f)' /\ text' # <<>> /\ Last(text').kind = "("
        /\ h[Len(text)] \in Nat /\ h[Len(text')] = h[Len(text)] + 1
    BY <1>0, <1>1, <1>2, TokenRead
  <1>4. /\ ~Ready(text) /\ ~Ready(text')
        /\ text # <<>> /\ Last(text).kind # "(" => Last(text).kind \in Binary \ {"/"}
    BY <1>0, <1>1, <1>2, AfterOperand
  <1>5. /\ Stacks(operators, numbers, h[Len(text)], 0)
        /\ Last(operators) = "start" <=> text = <<>> \/ Last(text).kind = "("
        /\ text # <<>> /\ Last(text).kind \in Binary => Last(operators) = Last(text).kind
    BY <1>0, <1>4 DEF Accepting, Reading
  <1>6. Last(operators) # "/"
    BY <1>4, <1>5
  <1>7. "start" \in Entries /\ "start" \in Markers
    BY DEF Entries, Markers
  <1>8. /\ Stacks(operators', numbers', h[Len(text)] + 1, 0)
        /\ Last(operators') = "start"
    BY <1>0, <1>2, <1>3, <1>5, <1>6, <1>7, StacksPush
  <1>9. Reading(h)'
    BY <1>3, <1>4, <1>8 DEF Reading, Binary
  <1>10. QED
    BY <1>0, <1>3, <1>9, AcceptingRead

\* A closing bracket or the end of a legal text starts the unwinding.
LEMMA ClosingAccepted ==
  ASSUME NEW f, NEW h, IInv, Legal(f, h), Accepting(f, h), ReadsFrom(f), ReadClosing
  PROVE  Accepting(f, h)'
  <1>0. PICK t \in {")", "end"} : Reads(t, 0) /\ token' = t
    BY DEF ReadClosing
  <1>1. /\ phase = "read" /\ phase' = "unwind" /\ Prefix(f)
        /\ operators' = operators /\ numbers' = numbers
    BY DEF ReadClosing, Accepting
  <1>2. t \in Kinds /\ 0 \in Numbers \cup {0} /\ TypeOK
    BY Typed DEF Kinds
  <1>3. /\ Prefix(f)' /\ text' # <<>> /\ Last(text').kind = t
        /\ h[Len(text)] \in Nat
        /\ h[Len(text')] = h[Len(text)] + (IF t = "(" THEN 1 ELSE IF t = ")" THEN -1 ELSE 0)
    BY <1>0, <1>1, <1>2, TokenRead
  <1>4. Ready(text)
    BY <1>0, <1>1, <1>2, AfterOperand
  <1>5. /\ Stacks(operators, numbers, h[Len(text)], 1)
        /\ Last(operators) = "start" <=> text = <<>> \/ Last(text).kind = "("
        /\ Last(operators) = "/" => Last(numbers) = 1
    BY <1>1, <1>4 DEF Accepting, Reading
  <1>6. Last(operators) # "start"
    BY <1>4, <1>5 DEF Ready
  <1>7. h[Len(text')] + (IF t = ")" THEN 1 ELSE 0) = h[Len(text)]
    BY <1>3
  <1>8. Unwinding(h)'
    BY <1>0, <1>1, <1>3, <1>5, <1>6, <1>7 DEF Unwinding
  <1>9. QED
    BY <1>1, <1>3, <1>8, AcceptingUnwind

\* A number of a legal text.
LEMMA NumberAccepted ==
  ASSUME NEW f, NEW h, IInv, Legal(f, h), Accepting(f, h), ReadsFrom(f), ReadNumber
  PROVE  Accepting(f, h)'
  <1>0. PICK n \in Numbers :
          /\ Reads("number", n)
          /\ numbers' = Append(numbers, IF phase = "minus" THEN -n ELSE n)
          /\ operators' = Swapped(operators)
          /\ phase' = "read"
    BY DEF ReadNumber
  <1>1. phase = "read" /\ Prefix(f)
    BY <1>0 DEF Reads, Accepting
  <1>2. /\ TypeOK /\ operators \in Seq(Entries) /\ operators # <<>> /\ Height(numbers) \in Nat
        /\ numbers \in Seq(Int) /\ "number" \in Kinds /\ n \in Numbers \cup {0}
    BY <1>1, Typed DEF Kinds
  <1>3. /\ Prefix(f)' /\ text' # <<>> /\ Last(text').kind = "number"
        /\ h[Len(text)] \in Nat /\ h[Len(text')] = h[Len(text)]
    <2>1. h[Len(text')] = h[Len(text)] + 0 /\ h[Len(text)] \in Nat
      BY <1>0, <1>1, <1>2, TokenRead
    <2>2. QED
      BY <1>0, <1>1, <1>2, <2>1, TokenRead
  <1>4. /\ ~Ready(text) /\ Ready(text')
        /\ text # <<>> /\ Last(text).kind # "(" => Last(text).kind \in Binary
        /\ text # <<>> /\ Last(text).kind = "/" => n = 1
    BY <1>0, <1>1, <1>2, AfterOperand
  <1>5. /\ Stacks(operators, numbers, h[Len(text)], 0)
        /\ Last(operators) = "start" <=> text = <<>> \/ Last(text).kind = "("
        /\ text # <<>> /\ Last(text).kind \in Binary => Last(operators) = Last(text).kind
    BY <1>1, <1>4 DEF Accepting, Reading
  <1>6. /\ Stacks(operators', numbers, h[Len(text)], 0)
        /\ Last(operators') # "start"
        /\ Last(operators') = "/" => Last(operators) = "/"
    BY <1>0, <1>2, <1>5, StacksSwap
  <1>7. numbers' = Append(numbers, n) /\ n \in Int
    BY <1>0, <1>1, ParserAssumption
  <1>8. Height(numbers') = Height(numbers) + 1 /\ Last(numbers') = n
    BY <1>2, <1>7, Pushed DEF Height, Last
  <1>9. Stacks(operators', numbers', h[Len(text)], 1)
    <2>1. Height(operators') \in Nat
      BY <1>0, <1>2, SwapsTop DEF Height
    <2>2. Height(numbers) + h[Len(text)] + 1 = Height(operators') + 0
      BY <1>6 DEF Stacks
    <2>3. Height(numbers') + h[Len(text)] + 1 = Height(operators') + 1
      BY <1>2, <1>3, <1>8, <2>1, <2>2
    <2>4. QED
      BY <1>6, <2>3 DEF Stacks
  <1>10. Last(operators') = "/" => Last(numbers') = 1
    BY <1>4, <1>5, <1>6, <1>8
  <1>11. Reading(h)'
    BY <1>3, <1>4, <1>6, <1>9, <1>10 DEF Reading, Binary
  <1>12. QED
    BY <1>0, <1>3, <1>11, AcceptingRead

\* An operator of a legal text: its left operand is always there.
LEMMA SignAccepted ==
  ASSUME NEW f, NEW h, IInv, Legal(f, h), Accepting(f, h), ReadsFrom(f), ReadSign
  PROVE  Accepting(f, h)'
  <1>0. PICK t \in Signs :
          /\ Reads(t, 0)
          /\ \/ Last(operators) = "start" /\ t # "-" /\ Invalid
             \/ /\ Last(operators) = "first_num"
                /\ operators' = Append(operators, t)
                /\ UNCHANGED <<numbers, phase, token, answer>>
             \/ /\ Last(operators) \notin Markers
                /\ phase' = "unwind" /\ token' = t
                /\ UNCHANGED <<operators, numbers, answer>>
    BY DEF ReadSign
  <1>1. phase = "read" /\ Prefix(f)
    BY DEF ReadSign, Accepting
  <1>2. /\ TypeOK /\ operators \in Seq(Entries) /\ operators # <<>> /\ Height(numbers) \in Nat
        /\ t \in Kinds /\ 0 \in Numbers \cup {0} /\ t \in Binary /\ t \in Entries
    BY <1>1, Typed, ParserAssumption DEF Kinds, Entries
  <1>a. t \notin {"(", ")", "number", "end"} /\ t \notin Markers
    BY <1>2 DEF Binary, Markers
  <1>3. /\ Prefix(f)' /\ text' # <<>> /\ Last(text').kind = t
        /\ h[Len(text)] \in Nat /\ h[Len(text')] = h[Len(text)]
    <2>1. h[Len(text')] = h[Len(text)] + 0 /\ h[Len(text)] \in Nat
      BY <1>0, <1>1, <1>2, <1>a, TokenRead
    <2>2. QED
      BY <1>0, <1>1, <1>2, <2>1, TokenRead
  <1>4. Ready(text) /\ ~Ready(text')
    BY <1>0, <1>1, <1>2, <1>a, AfterOperand
  <1>5. /\ Stacks(operators, numbers, h[Len(text)], 1)
        /\ Last(operators) = "start" <=> text = <<>> \/ Last(text).kind = "("
        /\ Last(operators) = "/" => Last(numbers) = 1
    BY <1>1, <1>4 DEF Accepting, Reading
  <1>6. Last(operators) # "start"
    BY <1>4, <1>5 DEF Ready
  <1>7. CASE /\ operators' = Append(operators, t)
             /\ UNCHANGED <<numbers, phase, token, answer>>
    <2>1. /\ Stacks(operators', numbers', h[Len(text)], 0) /\ Last(operators') = t
      BY <1>2, <1>3, <1>5, <1>7, <1>a, StacksPush
    <2>2. Reading(h)'
      BY <1>3, <1>4, <1>a, <2>1 DEF Reading, Markers
    <2>3. QED
      BY <1>1, <1>3, <1>7, <2>2, AcceptingRead
  <1>8. CASE /\ phase' = "unwind" /\ token' = t
             /\ UNCHANGED <<operators, numbers, answer>>
    <2>1. h[Len(text')] + (IF t = ")" THEN 1 ELSE 0) = h[Len(text)]
      BY <1>3, <1>a
    <2>2. Unwinding(h)'
      BY <1>3, <1>5, <1>6, <1>8, <2>1 DEF Unwinding
    <2>3. QED
      BY <1>3, <1>8, <2>2, AcceptingUnwind
  <1>9. QED
    BY <1>0, <1>6, <1>7, <1>8

\* No unary minus stands in a legal text.
LEMMA MinusNotRead ==
  ASSUME NEW f, NEW h, IInv, Legal(f, h), Accepting(f, h), ReadsFrom(f), ReadMinus
  PROVE  FALSE
  <1>1. /\ phase = "read" /\ Prefix(f) /\ Reads("-", 0) /\ Last(operators) = "start"
    BY DEF ReadMinus, Accepting
  <1>2. TypeOK /\ "-" \in Kinds /\ 0 \in Numbers \cup {0}
    BY Typed DEF Kinds, Binary
  <1>3. Ready(text)
    BY <1>1, <1>2, AfterOperand
  <1>4. QED
    BY <1>1, <1>3 DEF Accepting, Reading, Ready

\* No unknown character stands in a legal text, nor anything after a unary
\* minus.
LEMMA NothingWrongRead ==
  ASSUME NEW f, NEW h, IInv, Legal(f, h), Accepting(f, h), ReadsFrom(f), ReadError
  PROVE  FALSE
  <1>1. PICK t \in {"(", ")", "end", "bad"} \cup Signs :
          Reads(t, 0) /\ (t = "bad" \/ phase = "minus")
    BY DEF ReadError
  <1>2. Prefix(f) /\ t = "bad"
    BY <1>1 DEF Accepting
  <1>3. TypeOK /\ t \in Kinds /\ 0 \in Numbers \cup {0}
    BY <1>2, Typed DEF Kinds
  <1>4. QED
    BY <1>1, <1>2, <1>3, AfterOperand

\* The operator that was read goes on its stack.
LEMMA PushAccepted ==
  ASSUME NEW f, NEW h, IInv, Legal(f, h), Accepting(f, h), PushSign
  PROVE  Accepting(f, h)'
  <1>0. /\ phase = "unwind" /\ token \in Binary /\ Prefix(f)
        /\ operators' = Append(operators, token) /\ phase' = "read"
        /\ numbers' = numbers /\ text' = text
    BY DEF PushSign, Accepting
  <1>1. /\ operators \in Seq(Entries) /\ operators # <<>> /\ Height(numbers) \in Nat
        /\ token \in Entries /\ token # ")" /\ token \notin Markers
    BY <1>0, Typed DEF Entries, Markers, Binary
  <1>2. /\ Stacks(operators, numbers, h[Len(text)] + 0, 1)
        /\ text # <<>> /\ Last(text).kind = token
    BY <1>0, <1>1 DEF Accepting, Unwinding
  <1>3. h[Len(text)] \in Nat /\ h[Len(text)] + 0 = h[Len(text)]
    <2>1. Len(text) \in 0 .. Len(f)
      BY <1>0, Typed DEF TypeOK, Prefix, Legal
    <2>2. QED
      BY <2>1 DEF Legal, Heights
  <1>4. ~Ready(text)
    BY <1>0, <1>2 DEF Ready, Binary
  <1>5. Stacks(operators', numbers', h[Len(text)], 0) /\ Last(operators') = token
    BY <1>0, <1>1, <1>2, <1>3, StacksPush
  <1>6. token # "start" /\ token # "("
    BY <1>0 DEF Binary
  <1>7. Reading(h)'
    BY <1>0, <1>2, <1>4, <1>5, <1>6 DEF Reading
  <1>8. Prefix(f)'
    BY <1>0 DEF Prefix
  <1>9. QED
    BY <1>0, <1>7, <1>8, AcceptingRead

\* What does not unwind any more has a marker on top.
LEMMA MarkerOnTop ==
  ASSUME NEW f, NEW h, IInv, Accepting(f, h), phase = "unwind", ~Unwinds, token \in {")", "end"}
  PROVE  Last(operators) = "first_num"
  <1>1. operators \in Seq(Entries) /\ operators # <<>> /\ Last(operators) # "start"
    BY Typed DEF Accepting, Unwinding
  <1>2. Last(operators) \in Markers \cup Binary
    BY <1>1, TopAndPop DEF Entries
  <1>3. ~(Precedence(token) <= Precedence(Last(operators)))
    BY <1>1 DEF Unwinds
  <1>4. /\ \A x \in {")", "end"} : Precedence(x) = 0
        /\ \A x \in Binary : Precedence(x) \in {1, 2}
    BY DEF Precedence, Binary, Markers
  <1>5. Last(operators) \notin Binary
    BY <1>3, <1>4
  <1>6. QED
    BY <1>1, <1>2, <1>5 DEF Markers

\* A closing bracket of a legal text finds its marker and a number.
LEMMA CloseAccepted ==
  ASSUME NEW f, NEW h, IInv, Legal(f, h), Accepting(f, h), Close
  PROVE  Accepting(f, h)'
  <1>0. phase = "unwind" /\ ~Unwinds /\ token = ")" /\ text' = text /\ Prefix(f)
    BY DEF Close, Accepting
  <1>1. /\ operators \in Seq(Entries) /\ operators # <<>> /\ Height(numbers) \in Nat
        /\ Sound(operators)
    BY <1>0, Typed
  <1>2. Last(operators) = "first_num" /\ Last(operators) \in Markers
    BY <1>0, MarkerOnTop DEF Markers
  <1>3. /\ Stacks(operators, numbers, h[Len(text)] + 1, 1)
        /\ text # <<>> /\ Last(text).kind = ")"
    BY <1>0 DEF Accepting, Unwinding
  <1>4. h[Len(text)] \in Nat /\ h[Len(text)] + 1 \in Nat /\ h[Len(text)] + 1 - 1 = h[Len(text)]
    <2>1. Len(text) \in 0 .. Len(f)
      BY <1>0, Typed DEF TypeOK, Prefix, Legal
    <2>2. h[Len(text)] \in Nat
      BY <2>1 DEF Legal, Heights
    <2>3. QED
      BY <2>2
  <1>5. Len(operators) # 1
    <2>1. PICK b \in Nat : b = h[Len(text)]
      BY <1>4
    <2>2. MarkersOn(operators) = b + 1 + 1
      BY <1>3, <2>1 DEF Stacks
    <2>3. MarkersOn(operators) <= Len(operators)
      BY <1>1, PlacesFinite DEF MarkersOn
    <2>4. Len(operators) \in Nat
      BY <1>1
    <2> DEFINE m == MarkersOn(operators)
               l == Len(operators)
    <2> HIDE DEF m, l
    <2>5. m = b + 1 + 1 /\ m <= l /\ l \in Nat
      BY <2>2, <2>3, <2>4 DEF m, l
    <2>6. l # 1
      BY <2>1, <2>5
    <2>7. QED
      BY <2>6 DEF l
  <1>6. /\ operators' = Swapped(Front(operators)) /\ phase' = "read" /\ numbers' = numbers
    BY <1>0, <1>2, <1>5 DEF Close
  <1> DEFINE s == Front(operators)
  <1>7. s \in Seq(Entries) /\ s # <<>>
    BY <1>1, <1>5, PopKeepsSound DEF Sound
  <1>8. Stacks(s, numbers, h[Len(text)], 1) /\ Last(s) # "/"
    <2>1. /\ Stacks(s, numbers, h[Len(text)] + 1 - 1, 1)
          /\ s # <<>> => Last(s) # "/"
      BY <1>1, <1>2, <1>3, <1>4, StacksPop
    <2>2. QED
      BY <1>4, <1>7, <2>1
  <1> HIDE DEF s
  <1>9. /\ Stacks(Swapped(s), numbers, h[Len(text)], 1)
        /\ Last(Swapped(s)) # "start" /\ Last(Swapped(s)) # "/"
    BY <1>7, <1>8, StacksSwap
  <1>10. Ready(text)
    BY <1>3 DEF Ready
  <1>11. Reading(h)'
    BY <1>0, <1>3, <1>6, <1>9, <1>10 DEF Reading, s, Binary
  <1>12. Prefix(f)'
    BY <1>0 DEF Prefix
  <1>13. QED
    BY <1>6, <1>11, <1>12, AcceptingRead

\* Only one marker, on top and at the bottom: nothing else is on the stack.
LEMMA LastMarker ==
  ASSUME NEW s, Sound(s), Last(s) \in Markers, MarkersOn(s) = 1
  PROVE  Front(s) = <<>> /\ Len(s) = 1
  <1>1. s \in Seq(Entries) /\ s # <<>>
    BY DEF Sound
  <1>2. /\ Len(s) \in Nat \ {0} /\ Front(s) \in Seq(Entries) /\ Len(Front(s)) = Len(s) - 1
        /\ \A i \in 1 .. Len(s) - 1 : Front(s)[i] = s[i]
    BY <1>1, TopAndPop
  <1>3. MarkersOn(Front(s)) = 0
    <2>1. MarkersOn(Front(s)) = MarkersOn(s) - 1
      BY <1>1, PopCounted
    <2>2. QED
      BY <2>1
  <1>4. Len(s) = 1
    <2>1. SUFFICES ASSUME Len(s) # 1 PROVE FALSE
      OBVIOUS
    <2>2. Sound(Front(s))
      BY <2>1, PopKeepsSound
    <2>3. 1 \in Places(Front(s), Markers)
      BY <1>2, <2>1, <2>2 DEF Sound, Places
    <2>4. IsFiniteSet(Places(Front(s), Markers))
      BY <1>2, PlacesFinite
    <2>5. Cardinality(Places(Front(s), Markers)) # 0
      BY <2>3, <2>4, FS_EmptySet
    <2>6. QED
      BY <1>3, <2>5 DEF MarkersOn
  <1>5. QED
    BY <1>2, <1>4

\* The end of a legal text finds the marker at the bottom.
LEMMA EndAccepted ==
  ASSUME NEW f, NEW h, IInv, Legal(f, h), Accepting(f, h), End
  PROVE  Accepting(f, h)'
  <1>0. phase = "unwind" /\ ~Unwinds /\ token = "end" /\ text' = text /\ Prefix(f)
    BY DEF End, Accepting
  <1>1. /\ Height(numbers) \in Nat /\ Sound(operators) /\ text \in Seq(Tokens)
    BY <1>0, Typed DEF TypeOK
  <1>2. Last(operators) = "first_num" /\ Last(operators) \in Markers
    BY <1>0, MarkerOnTop DEF Markers
  <1>3. /\ Stacks(operators, numbers, h[Len(text)] + 0, 1)
        /\ text # <<>> /\ Last(text).kind = "end"
    BY <1>0 DEF Accepting, Unwinding
  <1>4. Len(text) = Len(f)
    <2>1. f \in Seq(Tokens) /\ Len(f) \in Nat /\ Len(text) \in 1 .. Len(f)
      BY <1>0, <1>1, <1>3 DEF Legal, Prefix
    <2>2. Last(text) = f[Len(text)]
      BY <1>0, <1>1, <2>1 DEF Prefix, Last
    <2>3. Len(text) \notin 1 .. Len(f) - 1
      <3>1. SUFFICES ASSUME Len(text) \in 1 .. Len(f) - 1 PROVE FALSE
        OBVIOUS
      <3>2. Follows(f[Len(text)], f[Len(text) + 1])
        BY <3>1 DEF Legal, Shaped
      <3>3. QED
        BY <1>3, <2>2, <3>2 DEF Follows, Binary
    <2>4. QED
      BY <2>1, <2>3
  <1>5. h[Len(text)] = 0
    BY <1>4 DEF Legal
  <1>6. MarkersOn(operators) = 1 /\ Height(numbers) + 1 = Height(operators) + 1
    <2>1. MarkersOn(operators) = 0 + 0 + 1 /\ Height(numbers) + (0 + 0) + 1 = Height(operators) + 1
      BY <1>3, <1>5 DEF Stacks
    <2>2. Height(operators) \in Nat
      BY Typed
    <2>3. QED
      BY <1>1, <2>1, <2>2
  <1>7. Front(operators) = <<>> /\ Len(operators) = 1
    BY <1>1, <1>2, <1>6, LastMarker
  <1>8. Len(numbers) = 1
    <2>1. Height(operators) = 1
      BY <1>7 DEF Height
    <2>2. Height(numbers) = 1
      BY <1>1, <1>6, <2>1
    <2>3. QED
      BY <2>2 DEF Height
  <1>9. operators' = <<>> /\ phase' = "finish" /\ numbers' = numbers
    BY <1>0, <1>2, <1>7 DEF End
  <1>10. QED
    BY <1>0, <1>8, <1>9 DEF Accepting, Prefix, Reading, Unwinding

\* One number is left at the end, and it is the value.
LEMMA FinishAccepted ==
  ASSUME NEW f, NEW h, IInv, Accepting(f, h), Finish
  PROVE  Accepting(f, h)'
  <1>1. phase = "finish" /\ text' = text /\ operators = <<>> /\ Len(numbers) = 1
    BY DEF Finish, Accepting
  <1>2. phase' = "value"
    BY <1>1 DEF Finish
  <1>3. QED
    BY <1>1, <1>2 DEF Accepting, Prefix, Reading, Unwinding

\* An operator applied while unwinding has two operands, and a division has 1
\* on the right.
LEMMA UnwindAccepted ==
  ASSUME NEW f, NEW h, IInv, Legal(f, h), Accepting(f, h), Unwind
  PROVE  Accepting(f, h)'
  <1>0. phase = "unwind" /\ Unwinds /\ text' = text /\ Prefix(f) /\ Apply
    BY DEF Unwind, Accepting
  <1>1. /\ operators \in Seq(Entries) /\ operators # <<>> /\ Height(numbers) \in Nat
        /\ Sound(operators) /\ numbers \in Seq(Int) /\ TypeOK
    BY <1>0, Typed
  <1>2. Last(operators) \in Binary
    BY <1>0, <1>1, OnlySignsUnwind
  <1> DEFINE b == h[Len(text)] + (IF token = ")" THEN 1 ELSE 0)
             n == Len(numbers)
             s == Front(operators)
  <1>3. b \in Nat
    <2>1. Len(text) \in 0 .. Len(f)
      BY <1>0, <1>1 DEF TypeOK, Prefix, Legal
    <2>2. h[Len(text)] \in Nat
      BY <2>1 DEF Legal, Heights
    <2>3. QED
      BY <2>2
  <1>4. /\ Stacks(operators, numbers, b, 1)
        /\ text # <<>> /\ Last(text).kind = token
        /\ Last(operators) = "/" => Last(numbers) = 1
    BY <1>0 DEF Accepting, Unwinding
  <1> HIDE DEF b
  <1>5. /\ s # <<>> /\ Height(numbers) >= 2 /\ Last(s) # "/"
        /\ \A ms : Height(ms) \in Nat /\ Height(ms) + 1 = Height(numbers) => Stacks(s, ms, b, 1)
    BY <1>1, <1>2, <1>3, <1>4, StacksPop
  <1>6. s \in Seq(Entries) /\ Len(operators) # 1
    <2>1. s \in Seq(Entries) /\ Len(s) = Len(operators) - 1
      BY <1>1, TopAndPop
    <2>2. Len(s) # 0
      BY <1>5, <2>1
    <2>3. QED
      BY <2>1, <2>2
  <1>7. n \in Nat /\ n >= 2 /\ Last(numbers) = numbers[n]
    BY <1>1, <1>5 DEF Height, Last
  <1> DEFINE x == Calculated(numbers[n - 1], Last(operators), numbers[n])
             fewer == SubSeq(numbers, 1, n - 2)
  <1>8. /\ numbers' = Append(fewer, x) /\ operators' = Swapped(s) /\ phase' = "unwind"
        /\ token' = token
    <2>1. ~(n < 2 \/ (Last(operators) = "/" /\ numbers[n] = 0) \/ Len(operators) = 1)
      BY <1>4, <1>6, <1>7
    <2>2. QED
      BY <1>0, <2>1 DEF Apply
  <1>9. Height(numbers') \in Nat /\ Height(numbers') + 1 = Height(numbers)
    <2>1. x \in Int
      <3>1. numbers[n - 1] \in Int /\ numbers[n] \in Int
        BY <1>1, <1>7
      <3>2. Last(operators) = "/" => numbers[n] # 0
        BY <1>4, <1>7
      <3>3. QED
        BY <1>2, <3>1, <3>2, CalculatedIsNumber
    <2> HIDE DEF x
    <2>2. fewer \in Seq(Int) /\ Len(fewer) = n - 2
      <3>1. PICK m \in Nat : m = n - 2
        BY <1>7
      <3>2. \A i \in 1 .. m : numbers[i] \in Int
        BY <1>1, <1>7, <3>1
      <3>3. SubSeq(numbers, 1, m) \in Seq(Int) /\ Len(SubSeq(numbers, 1, m)) = m
        <4>1. /\ SubSeq(numbers, 1, m) \in Seq(Int)
              /\ Len(SubSeq(numbers, 1, m)) = IF 1 <= m THEN m - 1 + 1 ELSE 0
          BY <3>1, <3>2, SubSeqProperties, Z3
        <4>2. QED
          BY <3>1, <4>1
      <3>4. QED
        BY <3>1, <3>3
    <2> HIDE DEF fewer
    <2>3. Len(Append(fewer, x)) = n - 2 + 1
      BY <2>1, <2>2
    <2>4. QED
      BY <1>7, <1>8, <2>3 DEF Height
  <1> HIDE DEF x, fewer, s
  <1>10. Stacks(s, numbers', b, 1)
    BY <1>5, <1>9
  <1>11. /\ Stacks(operators', numbers', b, 1)
         /\ Last(operators') # "start" /\ Last(operators') # "/"
    BY <1>5, <1>6, <1>8, <1>10, StacksSwap
  <1>12. Unwinding(h)'
    BY <1>0, <1>4, <1>8, <1>11 DEF Unwinding, b
  <1>13. Prefix(f)'
    BY <1>0 DEF Prefix
  <1>14. QED
    BY <1>8, <1>12, <1>13, AcceptingUnwind

\* A legal text, read in order, is never refused.
LEMMA LegalIsAccepted ==
  ASSUME NEW f, NEW h, IInv, Legal(f, h), Accepting(f, h), ReadsFrom(f), Next
  PROVE  Accepting(f, h)'
  BY OpeningAccepted, ClosingAccepted, NumberAccepted, MinusNotRead, SignAccepted,
     NothingWrongRead, UnwindAccepted, PushAccepted, CloseAccepted, EndAccepted, FinishAccepted
     DEF Next, Read

-----------------------------------------------------------------------------
(* A shaped text that grows                                                  *)

\* A shaped text of which b brackets are open.
Grown(t, b) ==
  t \in Seq(Tokens) /\ Shaped(t) /\ \E h : Heights(t, h) /\ h[Len(t)] = b

\* The empty text is a beginning with no bracket open.
LEMMA NothingWritten == Grown(<<>>, 0)
  <1> DEFINE t == << >>
             h == [k \in 0 .. 0 |-> 0]
  <1>1. t \in Seq(Tokens) /\ Len(t) = 0
    OBVIOUS
  <1>2. Shaped(t)
    BY <1>1 DEF Shaped
  <1>3. h \in [0 .. 0 -> Nat] /\ h[0] = 0
    OBVIOUS
  <1> HIDE DEF h, t
  <1>4. Heights(t, h) /\ h[Len(t)] = 0
    BY <1>1, <1>3 DEF Heights
  <1>5. Grown(t, 0)
    BY <1>1, <1>2, <1>4 DEF Grown
  <1>6. QED
    BY <1>5 DEF t

\* One token more.
LEMMA GrowsBy ==
  ASSUME NEW t, NEW b, Grown(t, b), NEW x \in Tokens,
         t = <<>> => Starts(x), t # <<>> => Follows(Last(t), x),
         b + Rise(x) \in Nat
  PROVE  /\ Grown(Append(t, x), b + Rise(x))
         /\ t \o <<x>> = Append(t, x)
         /\ Append(t, x) # <<>> /\ Last(Append(t, x)) = x
  <1> DEFINE u == Append(t, x)
             n == Len(t)
  <1>1. t \in Seq(Tokens) /\ n \in Nat /\ Shaped(t)
    BY DEF Grown
  <1>2. /\ u \in Seq(Tokens) /\ u # <<>> /\ Len(u) = n + 1 /\ u[n + 1] = x
        /\ \A i \in 1 .. n : u[i] = t[i]
    BY <1>1, Pushed
  <1>3. Last(u) = x
    BY <1>2 DEF Last
  <1>4. t \o <<x>> = u
    BY <1>1, AppendIsConcat
  <1>5. PICK h : Heights(t, h) /\ h[n] = b
    BY DEF Grown
  <1> HIDE DEF u
  <1>6. Shaped(u)
    <2>1. Starts(u[1])
      <3>1. CASE t = <<>>
        BY <1>1, <1>2, <3>1
      <3>2. CASE t # <<>>
        <4>1. 1 \in 1 .. n
          BY <1>1, <3>2
        <4>2. QED
          BY <1>1, <1>2, <3>2, <4>1 DEF Shaped
      <3>3. QED
        BY <3>1, <3>2
    <2>2. ASSUME NEW i \in 1 .. Len(u) - 1 PROVE Follows(u[i], u[i + 1])
      <3>1. i \in 1 .. n /\ i \in Nat
        BY <1>1, <1>2
      <3>2. CASE i = n
        <4>1. t # <<>> /\ Last(t) = t[n]
          BY <1>1, <3>1, <3>2 DEF Last
        <4>2. QED
          BY <1>2, <3>1, <3>2, <4>1
      <3>3. CASE i # n
        <4>1. i \in 1 .. n - 1 /\ i + 1 \in 1 .. n
          BY <1>1, <3>1, <3>3
        <4>2. u[i] = t[i] /\ u[i + 1] = t[i + 1]
          BY <1>2, <3>1, <4>1
        <4>3. QED
          BY <1>1, <4>1, <4>2 DEF Shaped
      <3>4. QED
        BY <3>2, <3>3
    <2>3. QED
      BY <2>1, <2>2 DEF Shaped
  <1> DEFINE g == [k \in 0 .. n + 1 |-> IF k = n + 1 THEN b + Rise(x) ELSE h[k]]
  <1>7. Heights(u, g) /\ g[Len(u)] = b + Rise(x)
    <2>1. /\ h \in [0 .. n -> Nat] /\ h[0] = 0
          /\ \A k \in 1 .. n : h[k] = h[k - 1] + Rise(t[k])
      BY <1>5 DEF Heights
    <2>2. g \in [0 .. n + 1 -> Nat]
      <3>1. ASSUME NEW k \in 0 .. n + 1, k # n + 1 PROVE h[k] \in Nat
        BY <1>1, <2>1, <3>1
      <3>2. QED
        BY <3>1
    <2>3. g[0] = 0 /\ g[n + 1] = b + Rise(x) /\ \A k \in 0 .. n : g[k] = h[k]
      BY <1>1, <2>1
    <2> HIDE DEF g
    <2>4. ASSUME NEW k \in 1 .. n + 1 PROVE g[k] = g[k - 1] + Rise(u[k])
      <3>1. k - 1 \in 0 .. n
        BY <1>1
      <3>2. CASE k = n + 1
        <4>1. k - 1 = n
          BY <1>1, <3>2
        <4>2. QED
          BY <1>2, <1>5, <2>3, <3>1, <3>2, <4>1
      <3>3. CASE k # n + 1
        <4>1. k \in 1 .. n /\ k \in 0 .. n
          BY <1>1, <3>3
        <4>2. QED
          BY <1>2, <2>1, <2>3, <3>1, <4>1
      <3>4. QED
        BY <3>2, <3>3
    <2>5. QED
      BY <1>2, <2>2, <2>3, <2>4 DEF Heights
  <1> HIDE DEF g
  <1>8. Grown(u, b + Rise(x))
    BY <1>2, <1>6, <1>7 DEF Grown
  <1>9. QED
    BY <1>2, <1>3, <1>4, <1>8 DEF u

\* The closing brackets that are missing.
LEMMA GrowsClosed ==
  ASSUME NEW t, NEW b \in Nat, Grown(t, b), t # <<>>, Last(t).kind \in {"number", "(", ")"},
         NEW x \in Tokens, x.kind = ")"
  PROVE  LET u == t \o [i \in 1 .. b |-> x]
         IN Grown(u, 0) /\ u # <<>> /\ Last(u).kind \in {"number", ")"}
  <1> DEFINE c == [i \in 1 .. b |-> x]
             u == t \o c
             n == Len(t)
  <1>1. t \in Seq(Tokens) /\ n \in Nat \ {0} /\ Shaped(t) /\ Last(t) = t[n]
    BY TopAndPop DEF Grown
  <1>2. c \in Seq(Tokens) /\ Len(c) = b /\ \A i \in 1 .. b : c[i] = x
    OBVIOUS
  <1> HIDE DEF c
  <1>3. /\ u \in Seq(Tokens) /\ Len(u) = n + b
        /\ \A i \in 1 .. n : u[i] = t[i]
        /\ \A i \in 1 .. b : u[n + i] = x
    <2>1. u \in Seq(Tokens) /\ Len(u) = n + b
      BY <1>1, <1>2
    <2>2. \A i \in 1 .. n : u[i] = t[i]
      BY <1>1, <1>2
    <2>3. ASSUME NEW i \in 1 .. b PROVE u[n + i] = x
      <3>1. u[n + i] = c[n + i - n] /\ n + i - n = i
        BY <1>1, <1>2
      <3>2. QED
        BY <1>2, <3>1
    <2>4. QED
      BY <2>1, <2>2, <2>3
  <1> HIDE DEF u
  <1>4. \A i \in n + 1 .. n + b : u[i] = x
    <2> SUFFICES ASSUME NEW i \in n + 1 .. n + b PROVE u[i] = x
      OBVIOUS
    <2>1. i - n \in 1 .. b /\ n + (i - n) = i
      BY <1>1
    <2>2. QED
      BY <1>3, <2>1
  <1>5. PICK h : Heights(t, h) /\ h[n] = b
    BY DEF Grown
  <1>6. /\ h \in [0 .. n -> Nat] /\ h[0] = 0
        /\ \A k \in 1 .. n : h[k] = h[k - 1] + Rise(t[k])
    BY <1>5 DEF Heights
  <1>7. Rise(x) = -1
    BY DEF Rise
  <1>8. Last(t).kind = "(" => b # 0
    <2> SUFFICES ASSUME Last(t).kind = "(" PROVE b # 0
      OBVIOUS
    <2>1. Rise(t[n]) = 1 /\ n \in 1 .. n /\ n - 1 \in 0 .. n
      BY <1>1 DEF Rise
    <2>2. QED
      BY <1>5, <1>6, <2>1
  <1>9. Shaped(u)
    <2>1. Starts(u[1])
      BY <1>1, <1>3 DEF Shaped
    <2>2. ASSUME NEW i \in 1 .. Len(u) - 1 PROVE Follows(u[i], u[i + 1])
      <3>1. i \in Nat /\ i >= 1 /\ i + 1 <= n + b
        BY <1>1, <1>3
      <3>2. CASE i < n
        <4>1. i \in 1 .. n /\ i + 1 \in 1 .. n /\ i \in 1 .. n - 1
          BY <1>1, <3>1, <3>2
        <4>2. QED
          BY <1>1, <1>3, <4>1 DEF Shaped
      <3>3. CASE i >= n
        <4>1. i + 1 \in n + 1 .. n + b /\ (i = n \/ i \in n + 1 .. n + b)
          BY <1>1, <3>1, <3>3
        <4>2. u[i + 1] = x /\ u[i].kind \in {"number", "(", ")"}
          BY <1>1, <1>3, <1>4, <4>1
        <4>3. QED
          BY <4>2 DEF Follows, Binary
      <3>4. QED
        BY <1>1, <3>1, <3>2, <3>3
    <2>3. QED
      BY <2>1, <2>2 DEF Shaped
  <1> DEFINE g == [k \in 0 .. n + b |-> IF k <= n THEN h[k] ELSE n + b - k]
  <1>10. Heights(u, g) /\ g[Len(u)] = 0
    <2>1. g \in [0 .. n + b -> Nat]
      <3>1. ASSUME NEW k \in 0 .. n + b, k <= n PROVE h[k] \in Nat
        BY <1>1, <1>6, <3>1
      <3>2. ASSUME NEW k \in 0 .. n + b PROVE n + b - k \in Nat
        BY <1>1, <3>2
      <3>3. QED
        BY <3>1, <3>2
    <2>2. /\ g[0] = 0
          /\ \A k \in 0 .. n : g[k] = h[k]
          /\ \A k \in n + 1 .. n + b : g[k] = n + b - k
      BY <1>1, <1>6
    <2> HIDE DEF g
    <2>3. \A k \in n .. n + b : g[k] = n + b - k
      BY <1>1, <1>5, <2>2
    <2>4. ASSUME NEW k \in 1 .. n + b PROVE g[k] = g[k - 1] + Rise(u[k])
      <3>1. CASE k <= n
        <4>1. k \in 1 .. n /\ k \in 0 .. n /\ k - 1 \in 0 .. n
          BY <1>1, <3>1
        <4>2. QED
          BY <1>3, <1>6, <2>2, <4>1
      <3>2. CASE ~(k <= n)
        <4>1. k \in n + 1 .. n + b /\ k \in n .. n + b /\ k - 1 \in n .. n + b
          BY <1>1, <3>2
        <4>2. g[k] = n + b - k /\ g[k - 1] = n + b - (k - 1) /\ Rise(u[k]) = -1
          BY <1>4, <1>7, <2>3, <4>1
        <4>3. QED
          BY <1>1, <4>1, <4>2
      <3>3. QED
        BY <3>1, <3>2
    <2>5. g[n + b] = 0
      BY <1>1, <2>3
    <2>6. QED
      BY <1>3, <2>1, <2>2, <2>4, <2>5 DEF Heights
  <1> HIDE DEF g
  <1>11. Grown(u, 0)
    BY <1>3, <1>9, <1>10 DEF Grown
  <1>12. u # <<>> /\ Last(u) = u[n + b]
    BY <1>1, <1>3 DEF Last
  <1>13. Last(u).kind \in {"number", ")"}
    <2>1. CASE b = 0
      BY <1>1, <1>3, <1>8, <1>12, <2>1
    <2>2. CASE b # 0
      <3>1. n + b \in n + 1 .. n + b
        BY <1>1, <2>2
      <3>2. QED
        BY <1>4, <1>12, <3>1
    <2>3. QED
      BY <2>1, <2>2
  <1>14. QED
    BY <1>11, <1>12, <1>13 DEF u, c

-----------------------------------------------------------------------------
(* The program that generates                                                *)

\* What the last token of the text is after an action.
LastKinds(action) ==
  IF action = "put_number" THEN {"number"}
  ELSE IF action = "open_bracket" THEN {"("}
  ELSE IF action = "close_bracket" THEN {")"}
  ELSE {"+", "-", "*"}

\* What may be next.
Expected(action, n) ==
  /\ action \in {None, "math"} => n \in {"put_number", "open_bracket"}
  /\ action = "open_bracket" => n = "put_number"
  /\ action \in {"put_number", "close_bracket"} => n \in {"math", "close_bracket"}

\* The text in the middle of the loop.
Growing ==
  /\ args.dest \in Names /\ args.size >= 3
  /\ brackets \in Nat /\ Grown(File, brackets)
  /\ prev \in {"put_number", "open_bracket", "close_bracket", "math", None}
  /\ File # <<>> => Last(File).kind \in LastKinds(prev)
  /\ IF prev = None THEN File = <<>> /\ size = 0 /\ brackets = 0 ELSE File # <<>>
  /\ Expected(prev, next)
  /\ next = "close_bracket" => brackets # 0

\* The program has written what it was asked for.
Done == pc = "exit" /\ code = 0 /\ ~args.help

Generating ==
  /\ args \in Arguments /\ \E S : files \in [Names -> S]
  /\ pc \in {"arguments", "generate"} => size = 0 /\ brackets = 0 /\ prev = None
  /\ pc \in {"repeat", "copy"} => args.mode = "repeat"
  /\ pc = "loop" => Growing
  /\ Done /\ args.mode = "generate" => Grown(File, 0)

\* What the generator writes are tokens of the parser.
LEMMA GTokens ==
  /\ \A kind \in {"(", ")", "end"} \cup Binary :
              Symbol(kind) \in Tokens /\ Symbol(kind).kind = kind
         /\ \A n \in Randoms \cup {1} :
              Number(n) \in Tokens /\ Number(n).kind = "number" /\ Number(n).value = n
         /\ MathSigns = Binary
  BY CalculatorAssumption DEF Symbol, Number, Tokens, Kinds, MathSigns, Binary

\* What next_actions allows is what the shape of a text expects (generator.cpp).
LEMMA GNext ==
  ASSUME NEW action \in {"put_number", "open_bracket", "close_bracket", "math"},
         NEW canClose, NEW n \in NextActions(action, canClose)
  PROVE  Expected(action, n) /\ (n = "close_bracket" => canClose)
  <1>1. action = "open_bracket" => NextActions(action, canClose) = {"put_number"}
    BY DEF NextActions
  <1>2. action = "math" => NextActions(action, canClose) = {"put_number", "open_bracket"}
    BY DEF NextActions
  <1>3. action \notin {"open_bracket", "math"} =>
          NextActions(action, canClose) =
            {"math"} \cup (IF canClose THEN {"close_bracket"} ELSE {})
    BY DEF NextActions
  <1>4. QED
    BY <1>1, <1>2, <1>3 DEF Expected, None

\* What a turn of the loop writes is what the file has more.
LEMMA GWrites ==
  ASSUME Generating, args.dest \in Names, UNCHANGED args,
         NEW t, NEW characters, NEW counted, Writes(t, characters, counted)
  PROVE  /\ File' = File \o t
         /\ \E S : files' \in [Names -> S]
  <1>1. PICK S : files \in [Names -> S]
    BY DEF Generating
  <1>2. files' = [files EXCEPT ![args.dest] = files[args.dest] \o t]
    BY DEF Writes
  <1> DEFINE e == files[args.dest] \o t
  <1>3. files' = [files EXCEPT ![args.dest] = e]
    BY <1>2
  <1> HIDE DEF e
  <1>4. files' \in [Names -> S \cup {e}] /\ files'[args.dest] = e
    BY <1>1, <1>3
  <1>5. File = files[args.dest] /\ File' = files'[args.dest]
    BY DEF File
  <1>6. QED
    BY <1>4, <1>5 DEF e

\* A turn of the loop that leaves a shaped text.
LEMMA TurnGenerates ==
  ASSUME Generating, pc = "loop", NEW action \in {"put_number", "open_bracket", "close_bracket", "math"},
         NEW t, NEW characters, NEW counted, Writes(t, characters, counted), Advance(action),
         brackets' \in Nat, Grown(File \o t, brackets'), File \o t # <<>>,
         Last(File \o t).kind \in LastKinds(action)
  PROVE  Generating'
  <1>1. args.dest \in Names /\ args.size >= 3 /\ args \in Arguments
    BY DEF Generating, Growing
  <1>2. /\ UNCHANGED args /\ pc' = pc /\ prev' = action
        /\ next' \in NextActions(action, brackets' # 0 /\ Last(hasMath'))
    BY DEF Advance, Last
  <1>3. Expected(action, next') /\ (next' = "close_bracket" => brackets' # 0)
    BY <1>2, GNext
  <1>4. /\ File' = File \o t
        /\ \E S : files' \in [Names -> S]
    BY <1>1, <1>2, GWrites
  <1>5. Growing'
    BY <1>1, <1>2, <1>3, <1>4 DEF Growing, None
  <1>6. QED
    BY <1>1, <1>2, <1>4, <1>5 DEF Generating, Done

\* A number is put where a number may stand.
LEMMA PutNumberGenerates ==
  ASSUME Generating, PutNumber
  PROVE  Generating'
  <1>1. PICK n \in Randoms : Writes(<<Number(n)>>, Width[n], Width[n])
    BY DEF PutNumber
  <1>2. /\ pc = "loop" /\ next = "put_number" /\ brackets' = brackets /\ Advance("put_number")
    BY DEF PutNumber, Turn
  <1>3. Growing
    BY <1>2 DEF Generating
  <1> DEFINE x == Number(n)
             t == File
  <1>4. x \in Tokens /\ x.kind = "number" /\ Rise(x) = 0
    BY <1>1, GTokens DEF Rise
  <1>5. t # <<>> => Last(t).kind \in {"(", "+", "-", "*"}
    BY <1>2, <1>3 DEF Growing, LastKinds, Expected
  <1> HIDE DEF x
  <1>6. Starts(x) /\ (t # <<>> => Follows(Last(t), x))
    BY <1>4, <1>5 DEF Starts, Follows, Binary
  <1>7. brackets \in Nat /\ brackets + Rise(x) = brackets /\ Grown(t, brackets)
    BY <1>3, <1>4 DEF Growing
  <1> HIDE DEF t
  <1>8. /\ Grown(t \o <<x>>, brackets) /\ t \o <<x>> # <<>> /\ Last(t \o <<x>>) = x
    <2>1. brackets + Rise(x) \in Nat
      BY <1>7
    <2>2. /\ Grown(Append(t, x), brackets + Rise(x)) /\ t \o <<x>> = Append(t, x)
          /\ Append(t, x) # <<>> /\ Last(Append(t, x)) = x
      BY <1>4, <1>6, <1>7, <2>1, GrowsBy
    <2>3. QED
      BY <1>7, <2>2
  <1>9. Last(t \o <<x>>).kind \in LastKinds("put_number")
    BY <1>4, <1>8 DEF LastKinds
  <1>10. QED
    BY <1>1, <1>2, <1>7, <1>8, <1>9, TurnGenerates DEF x, t

\* An opening bracket raises the height by one.
LEMMA OpenBracketGenerates ==
  ASSUME Generating, OpenBracket
  PROVE  Generating'
  <1>1. /\ pc = "loop" /\ next = "open_bracket" /\ brackets' = brackets + 1
        /\ Advance("open_bracket") /\ Writes(<<Symbol("(")>>, 1, 1)
    BY DEF OpenBracket, Turn
  <1>2. Growing
    BY <1>1 DEF Generating
  <1> DEFINE x == Symbol("(")
             t == File
  <1>3. x \in Tokens /\ x.kind = "(" /\ Rise(x) = 1
    BY GTokens DEF Rise
  <1>4. t # <<>> => Last(t).kind \in {"+", "-", "*"}
    BY <1>1, <1>2 DEF Growing, LastKinds, Expected
  <1> HIDE DEF x
  <1>5. Starts(x) /\ (t # <<>> => Follows(Last(t), x))
    BY <1>3, <1>4 DEF Starts, Follows, Binary
  <1>6. brackets + Rise(x) = brackets' /\ brackets' \in Nat /\ Grown(t, brackets)
    BY <1>1, <1>2, <1>3 DEF Growing
  <1> HIDE DEF t
  <1>7. /\ Grown(t \o <<x>>, brackets') /\ t \o <<x>> # <<>> /\ Last(t \o <<x>>) = x
    BY <1>3, <1>5, <1>6, GrowsBy
  <1>8. Last(t \o <<x>>).kind \in LastKinds("open_bracket")
    BY <1>3, <1>7 DEF LastKinds
  <1>9. QED
    BY <1>1, <1>6, <1>7, <1>8, TurnGenerates DEF x, t

\* A closing bracket is put only while one is open.
LEMMA CloseBracketGenerates ==
  ASSUME Generating, CloseBracket
  PROVE  Generating'
  <1>1. /\ pc = "loop" /\ next = "close_bracket" /\ brackets' = brackets - 1
        /\ Advance("close_bracket") /\ Writes(<<Symbol(")")>>, 1, 1)
    BY DEF CloseBracket, Turn
  <1>2. Growing
    BY <1>1 DEF Generating
  <1> DEFINE x == Symbol(")")
             t == File
  <1>3. x \in Tokens /\ x.kind = ")" /\ Rise(x) = -1
    BY GTokens DEF Rise
  <1>4. t # <<>> /\ Last(t).kind \in {"number", ")"}
    BY <1>1, <1>2 DEF Growing, LastKinds, Expected, None
  <1> HIDE DEF x
  <1>5. Follows(Last(t), x)
    BY <1>3, <1>4 DEF Follows, Binary
  <1>6. brackets + Rise(x) = brackets' /\ brackets' \in Nat /\ Grown(t, brackets)
    BY <1>1, <1>2, <1>3 DEF Growing
  <1> HIDE DEF t
  <1>7. /\ Grown(t \o <<x>>, brackets') /\ t \o <<x>> # <<>> /\ Last(t \o <<x>>) = x
    BY <1>3, <1>4, <1>5, <1>6, GrowsBy
  <1>8. Last(t \o <<x>>).kind \in LastKinds("close_bracket")
    BY <1>3, <1>7 DEF LastKinds
  <1>9. QED
    BY <1>1, <1>6, <1>7, <1>8, TurnGenerates DEF x, t

\* An operator follows an operand, and a division brings its 1.
LEMMA PutMathGenerates ==
  ASSUME Generating, PutMath
  PROVE  Generating'
  <1>1. pc = "loop" /\ next = "math" /\ brackets' = brackets
    BY DEF PutMath, Turn
  <1>2. Growing
    BY <1>1 DEF Generating
  <1> DEFINE t == File
  <1>3. t # <<>> /\ Last(t).kind \in {"number", ")"}
    BY <1>1, <1>2 DEF Growing, LastKinds, Expected, None
  <1>4. brackets \in Nat /\ brackets + 0 = brackets /\ Grown(t, brackets)
    BY <1>2 DEF Growing
  <1> HIDE DEF t
  <1>5. ASSUME NEW sign \in Binary
        PROVE  LET x == Symbol(sign)
               IN /\ x \in Tokens /\ x.kind = sign
                  /\ Grown(Append(t, x), brackets) /\ t \o <<x>> = Append(t, x)
                  /\ Append(t, x) # <<>> /\ Last(Append(t, x)) = x
    <2> DEFINE x == Symbol(sign)
    <2>1. x \in Tokens /\ x.kind = sign
      BY GTokens
    <2> HIDE DEF x
    <2>2. Rise(x) = 0
      BY <2>1 DEF Rise, Binary
    <2>3. Follows(Last(t), x)
      BY <1>3, <2>1 DEF Follows, Binary
    <2>4. brackets + Rise(x) = brackets
      BY <1>4, <2>2
    <2>5. /\ Grown(Append(t, x), brackets) /\ t \o <<x>> = Append(t, x)
          /\ Append(t, x) # <<>> /\ Last(Append(t, x)) = x
      BY <1>3, <1>4, <2>1, <2>3, <2>4, GrowsBy
    <2>6. QED
      BY <2>1, <2>5 DEF x
  <1>6. ASSUME NEW sign \in Binary \ {"/"}, Writes(<<Symbol(sign)>>, 1, 1), Advance("math")
        PROVE  Generating'
    <2> DEFINE x == Symbol(sign)
    <2>1. /\ x.kind = sign /\ Grown(t \o <<x>>, brackets) /\ t \o <<x>> # <<>>
          /\ Last(t \o <<x>>) = x
      BY <1>5
    <2>2. Last(t \o <<x>>).kind \in LastKinds("math")
      BY <2>1 DEF LastKinds, Binary
    <2>3. QED
      BY <1>1, <1>4, <1>6, <2>1, <2>2, TurnGenerates DEF t
  <1>7. ASSUME Writes(<<Symbol("/"), Number(1)>>, 2, 1), Advance("put_number")
        PROVE  Generating'
    <2> DEFINE x == Symbol("/")
               y == Number(1)
               u == Append(t, x)
    <2>1. /\ x \in Tokens /\ x.kind = "/" /\ Grown(u, brackets)
          /\ u # <<>> /\ Last(u) = x
      <3>1. "/" \in Binary
        BY DEF Binary
      <3>2. QED
        BY <1>5, <3>1
    <2>2. y \in Tokens /\ y.kind = "number" /\ y.value = 1 /\ Rise(y) = 0
      BY GTokens DEF Rise
    <2>3. t \o <<x, y>> = Append(u, y)
      BY <1>4, <2>1, <2>2 DEF Grown
    <2> HIDE DEF x, y, u
    <2>4. Follows(Last(u), y)
      BY <2>1, <2>2 DEF Follows, Binary
    <2>5. brackets + Rise(y) = brackets
      BY <1>4, <2>2
    <2>6. Grown(Append(u, y), brackets) /\ Append(u, y) # <<>> /\ Last(Append(u, y)) = y
      BY <1>4, <2>1, <2>2, <2>4, <2>5, GrowsBy
    <2>7. Last(Append(u, y)).kind \in LastKinds("put_number")
      BY <2>2, <2>6 DEF LastKinds
    <2>8. Writes(<<x, y>>, 2, 1)
      BY <1>7 DEF x, y
    <2>9. QED
      BY <1>1, <1>4, <1>7, <2>3, <2>6, <2>7, <2>8, TurnGenerates DEF t
  <1>8. QED
    BY <1>6, <1>7, GTokens DEF PutMath

\* The loop has made a turn by the time it ends.
LEMMA LoopTurned ==
  ASSUME Generating, pc = "loop", ~Continues
  PROVE  prev # None
  <1>1. SUFFICES ASSUME prev = None PROVE FALSE
    OBVIOUS
  <1>2. size = 0 /\ brackets = 0 /\ args.size >= 3 /\ args \in Arguments
    BY <1>1 DEF Generating, Growing
  <1>3. args.size \in 0 .. Modulus - 1 /\ Modulus \in Nat /\ args.size - 0 = args.size
    BY <1>2, GeneratorAssumption DEF ArgumentSet, Absent
  <1>4. \A m \in Nat : \A t \in 0 .. m - 1 : t % m = t
    BY Z3
  <1>5. Room = args.size
    BY <1>2, <1>3, <1>4 DEF Room
  <1>6. QED
    BY <1>2, <1>3, <1>5 DEF Continues

\* After the loop: a last operator gets its operand, every bracket is closed
\* and the text ends.
LEMMA FinishGenerates ==
  ASSUME Generating, FinishGenerating
  PROVE  Generating'
  <1> DEFINE m(n) == IF prev = "math" THEN <<Number(n)>> ELSE <<>>
             e == Symbol("end")
             t == File
  <1>1. /\ pc = "loop" /\ ~Continues /\ pc' = "exit" /\ UNCHANGED args
    BY DEF FinishGenerating, Exits
  <1>2. PICK n \in Randoms :
          Writes(m(n) \o Closing \o <<e>>,
                   (IF prev = "math" THEN Width[n] ELSE 0) + brackets + 1, 0)
    BY DEF FinishGenerating
  <1>3. Growing /\ prev # None
    BY <1>1, LoopTurned DEF Generating
  <1>4. /\ Grown(t, brackets) /\ t # <<>> /\ brackets \in Nat /\ args.dest \in Names
        /\ Last(t).kind \in LastKinds(prev)
        /\ prev \in {"put_number", "open_bracket", "close_bracket", "math"}
    BY <1>3 DEF Growing
  <1> DEFINE u == t \o m(n)
  <1> HIDE DEF t
  <1>5. /\ Grown(u, brackets) /\ u # <<>> /\ Last(u).kind \in {"number", "(", ")"}
        /\ m(n) \in Seq(Tokens)
    <2>1. CASE prev = "math"
      <3> DEFINE x == Number(n)
      <3>1. x \in Tokens /\ x.kind = "number" /\ Rise(x) = 0
        BY <1>2, GTokens DEF Rise
      <3>2. m(n) = <<x>>
        BY <2>1
      <3> HIDE DEF x, m
      <3>3. Follows(Last(t), x)
        BY <1>4, <2>1, <3>1 DEF Follows, LastKinds, Binary
      <3>4. brackets + Rise(x) \in Nat /\ brackets + Rise(x) = brackets
        BY <1>4, <3>1
      <3>5. /\ Grown(Append(t, x), brackets + Rise(x)) /\ t \o <<x>> = Append(t, x)
            /\ Append(t, x) # <<>> /\ Last(Append(t, x)) = x
        BY <1>4, <3>1, <3>3, <3>4, GrowsBy
      <3>6. Grown(Append(t, x), brackets)
        BY <3>4, <3>5
      <3>7. u = Append(t, x)
        BY <3>2, <3>5
      <3>8. m(n) \in Seq(Tokens)
        BY <3>1, <3>2
      <3> HIDE DEF u
      <3>9. QED
        BY <3>1, <3>5, <3>6, <3>7, <3>8
    <2>2. CASE prev # "math"
      <3>1. m(n) = <<>>
        BY <2>2
      <3> HIDE DEF m
      <3>2. t \o <<>> = t
        BY <1>4 DEF Grown
      <3>3. Last(t).kind \in {"number", "(", ")"}
        BY <1>4, <2>2 DEF LastKinds
      <3>4. QED
        BY <1>4, <3>1, <3>2, <3>3
    <2>3. QED
      BY <2>1, <2>2
  <1> HIDE DEF m, u
  <1> DEFINE x == Symbol(")")
             v == u \o Closing
  <1>6. x \in Tokens /\ x.kind = ")" /\ e \in Tokens /\ e.kind = "end" /\ Rise(e) = 0
    BY GTokens DEF Rise
  <1>7. Closing = [i \in 1 .. brackets |-> x]
    BY DEF Closing
  <1>8. Closing \in Seq(Tokens)
    BY <1>4, <1>6, <1>7
  <1> HIDE DEF x, e
  <1>9. Grown(v, 0) /\ v # <<>> /\ Last(v).kind \in {"number", ")"}
    <2> DEFINE w == u \o [i \in 1 .. brackets |-> x]
    <2>1. v = w
      BY <1>7
    <2>2. Grown(w, 0) /\ w # <<>> /\ Last(w).kind \in {"number", ")"}
      <3>1. brackets \in Nat /\ x \in Tokens /\ x.kind = ")"
        BY <1>4, <1>6
      <3>2. Grown(u, brackets) /\ u # <<>> /\ Last(u).kind \in {"number", "(", ")"}
        BY <1>5
      <3>3. QED
        BY <3>1, <3>2, GrowsClosed, Zenon
    <2>3. QED
      BY <2>1, <2>2
  <1> HIDE DEF v
  <1>10. Grown(v \o <<e>>, 0)
    <2>1. Follows(Last(v), e)
      BY <1>6, <1>9 DEF Follows, Binary
    <2>2. 0 + Rise(e) \in Nat /\ 0 + Rise(e) = 0
      BY <1>6
    <2>3. Grown(Append(v, e), 0 + Rise(e)) /\ v \o <<e>> = Append(v, e)
      BY <1>6, <1>9, <2>1, <2>2, GrowsBy
    <2>4. QED
      BY <2>2, <2>3
  <1>11. t \o (m(n) \o Closing \o <<e>>) = v \o <<e>>
    <2>1. t \in Seq(Tokens) /\ <<e>> \in Seq(Tokens)
      BY <1>4, <1>6 DEF Grown
    <2>2. m(n) \o Closing \in Seq(Tokens)
      BY <1>5, <1>8
    <2>3. t \o (m(n) \o Closing \o <<e>>) = (t \o (m(n) \o Closing)) \o <<e>>
      BY <2>1, <2>2, ConcatAssociative
    <2>4. t \o (m(n) \o Closing) = (t \o m(n)) \o Closing
      BY <1>5, <1>8, <2>1, ConcatAssociative
    <2>5. QED
      BY <2>3, <2>4 DEF u, v
  <1>12. /\ File' = v \o <<e>>
         /\ \E S : files' \in [Names -> S]
    <2>1. /\ File' = File \o (m(n) \o Closing \o <<e>>)
          /\ \E S : files' \in [Names -> S]
      BY <1>1, <1>2, <1>4, GWrites
    <2>2. QED
      BY <1>11, <2>1 DEF t
  <1>13. args' \in Arguments
    BY <1>1 DEF Generating
  <1>14. QED
    BY <1>1, <1>10, <1>12, <1>13 DEF Generating, Growing

\* At the beginning nothing is written.
LEMMA InitGenerates ==
  ASSUME GeneratorInit
  PROVE  Generating
  <1>1. /\ files \in Initially /\ args \in Arguments
        /\ pc = "arguments" /\ size = 0 /\ brackets = 0 /\ prev = None
    BY DEF GeneratorInit
  <1>2. files \in [Names -> Seq(FileTokens)]
    BY <1>1, GeneratorAssumption
  <1>3. QED
    BY <1>1, <1>2 DEF Generating, Done

\* The arguments choose the mode and write nothing.
LEMMA ArgumentsGenerate ==
  ASSUME Generating, ReadArguments
  PROVE  Generating'
  <1>1. /\ pc = "arguments" /\ UNCHANGED files /\ UNCHANGED <<args, size, brackets, prev>>
        /\ \/ args.help /\ pc' = "exit"
           \/ code' = 1 /\ pc' = "exit"
           \/ ~Misused /\ pc' = args.mode
    BY DEF ReadArguments, Exit, Exits, loopVars
  <1>2. ~Misused => args.mode \in {"generate", "repeat"}
    BY DEF Misused
  <1>3. QED
    BY <1>1, <1>2 DEF Generating, Done

\* The generation starts with an empty file.
LEMMA StartGenerates ==
  ASSUME Generating, StartGenerating
  PROVE  Generating'
  <1>1. pc = "generate" /\ args \in Arguments
    BY DEF StartGenerating, Generating
  <1>2. CASE args.size < 3 \/ args.dest \notin Openable
    <2>1. UNCHANGED files /\ UNCHANGED args /\ pc' = "exit" /\ code' = 1
      BY <1>2 DEF StartGenerating, Exit, Exits
    <2>2. QED
      BY <2>1 DEF Generating, Done
  <1>3. CASE ~(args.size < 3 \/ args.dest \notin Openable)
    <2>1. /\ pc' = "loop" /\ files' = [files EXCEPT ![args.dest] = <<>>]
          /\ next' \in {"put_number", "open_bracket"}
          /\ UNCHANGED <<args, size, brackets, prev>>
      BY <1>3 DEF StartGenerating
    <2>2. PICK S : files \in [Names -> S]
      BY DEF Generating
    <2>3. args.dest \in Names /\ args.size >= 3
      BY <1>1, <1>3, GeneratorAssumption DEF ArgumentSet, Absent
    <2>4. files' \in [Names -> S \cup {<<>>}] /\ File' = <<>>
      BY <2>1, <2>2, <2>3 DEF File
    <2>5. size = 0 /\ brackets = 0 /\ prev = None
      BY <1>1 DEF Generating
    <2>6. Growing'
      BY <2>1, <2>3, <2>4, <2>5, NothingWritten DEF Growing, Expected, None
    <2>7. QED
      BY <1>1, <2>1, <2>4, <2>6 DEF Generating, Done
  <1>4. QED
    BY <1>2, <1>3

\* The repetition is the other mode: nothing is claimed of its text.
LEMMA RepeatGenerates ==
  ASSUME Generating, StartRepeating \/ CopyExpression
  PROVE  Generating'
  <1>1. pc \in {"repeat", "copy"} /\ args.mode = "repeat"
    BY DEF StartRepeating, CopyExpression, Generating
  <1>2. UNCHANGED args /\ pc' \in {"copy", "exit"}
    BY DEF StartRepeating, CopyExpression, Exit, Exits
  <1>3. \E e : files' = [files EXCEPT ![args.dest] = e] \/ files' = files
    <2>1. CASE StartRepeating
      BY <2>1 DEF StartRepeating
    <2>2. CASE CopyExpression
      BY <2>2 DEF CopyExpression
    <2>3. QED
      BY <2>1, <2>2
  <1>4. \E S : files' \in [Names -> S]
    <2>1. PICK S : files \in [Names -> S]
      BY DEF Generating
    <2>2. PICK e : files' = [files EXCEPT ![args.dest] = e] \/ files' = files
      BY <1>3
    <2>3. files' \in [Names -> S \cup {e}]
      BY <2>1, <2>2
    <2>4. QED
      BY <2>3
  <1>5. QED
    BY <1>1, <1>2, <1>4 DEF Generating, Done

\* Every step of the program keeps the text shaped.
LEMMA ProgramGenerates ==
  ASSUME Generating, GeneratorNext
  PROVE  Generating'
  BY ArgumentsGenerate, StartGenerates, PutNumberGenerates, OpenBracketGenerates,
     CloseBracketGenerates, PutMathGenerates, FinishGenerates, RepeatGenerates DEF GeneratorNext

-----------------------------------------------------------------------------
(* Both together                                                             *)

\* While the program runs, and after it failed, nothing has been read; then what
\* it generated is read, and only a text with an empty bracket may be refused.
Whole ==
  /\ Generating /\ IInv
  /\ ~Done => Init
  /\ Done /\ args.mode = "generate" =>
       \E f, h : f = File /\ (Emptied(f) \/ (Legal(f, h) /\ Accepting(f, h)))

\* Before the first token, any legal text may come.
LEMMA InitAccepting ==
  ASSUME Init, NEW f, NEW h, Legal(f, h)
  PROVE  Accepting(f, h)
  <1>1. /\ operators = <<"start">> /\ numbers = <<>> /\ phase = "read" /\ text = <<>>
    BY DEF Init
  <1>2. Len(text) = 0 /\ Len(f) \in Nat /\ h[0] = 0
    BY <1>1 DEF Legal, Heights
  <1> DEFINE s == <<"start">>
             e == << >>
  <1>3. s \in Seq(Entries) /\ Len(s) = 1 /\ s[1] = "start" /\ Last(s) = "start"
    BY DEF Entries, Markers, Last
  <1>4. MarkersOn(s) = 1
    <2>1. e \in Seq(Entries) /\ Len(e) = 0 /\ "start" \in Entries /\ "start" \in Markers
      BY DEF Entries, Markers
    <2>2. s = Append(e, "start")
      OBVIOUS
    <2>3. MarkersOn(e) = 0
      <3>1. Places(e, Markers) = {}
        BY DEF Places
      <3>2. QED
        BY <3>1, FS_EmptySet DEF MarkersOn
    <2> HIDE DEF e, s
    <2>4. MarkersOn(Append(e, "start")) = MarkersOn(e) + 1
      BY <2>1, PushCounted
    <2>5. QED
      BY <2>2, <2>3, <2>4
  <1>5. Height(s) = 1 /\ Height(e) = 0
    BY <1>3 DEF Height
  <1>6. Stacks(s, e, 0, 0)
    BY <1>3, <1>4, <1>5 DEF Stacks
  <1>7. Reading(h)
    BY <1>1, <1>2, <1>3, <1>6 DEF Reading, Ready
  <1>8. Prefix(f)
    BY <1>1, <1>2 DEF Prefix
  <1>9. QED
    BY <1>1, <1>7, <1>8 DEF Accepting, Unwinding

\* It holds at the beginning, when neither program has done anything.
LEMMA WholeInit ==
  ASSUME GeneratedInit
  PROVE  Whole
  <1>1. GeneratorInit /\ Init
    BY DEF GeneratedInit
  <1>2. Generating /\ IInv
    BY <1>1, InitGenerates, InitIInv
  <1>3. ~Done
    BY <1>1 DEF GeneratorInit, Done
  <1>4. QED
    BY <1>1, <1>2, <1>3 DEF Whole

\* The program goes on.
LEMMA WholeProgram ==
  ASSUME Whole, GeneratorNext, UNCHANGED vars
  PROVE  Whole'
  <1>1. Generating'
    BY ProgramGenerates DEF Whole
  <1>2. UNCHANGED vars
    BY DEF vars
  <1>3. IInv'
    BY <1>2, StepIInv DEF Whole
  <1>4. pc # "exit"
    BY DEF GeneratorNext, ReadArguments, StartGenerating, PutNumber, OpenBracket,
           CloseBracket, PutMath, FinishGenerating, StartRepeating, CopyExpression,
           Turn
  <1>5. Init /\ Init'
    BY <1>2, <1>4 DEF Whole, Done, Init, vars
  <1>6. ASSUME Done', args'.mode = "generate"
        PROVE  (\E f, h : f = File /\ (Emptied(f) \/ (Legal(f, h) /\ Accepting(f, h))))'
    <2>1. Grown(File', 0)
      BY <1>1, <1>6 DEF Generating
    <2>2. PICK f : f = File'
      OBVIOUS
    <2>3. PICK h : Heights(f, h) /\ h[Len(f)] = 0
      BY <2>1, <2>2 DEF Grown
    <2>4. CASE Emptied(f)
      BY <2>2, <2>4
    <2>5. CASE ~Emptied(f)
      <3>1. Legal(f, h)
        BY <2>1, <2>2, <2>3, <2>5 DEF Grown, Legal
      <3>2. Accepting(f, h)
        BY <1>5, <3>1, InitAccepting
      <3>3. Accepting(f, h)'
        BY <1>2, <3>2 DEF vars, Accepting, Prefix, Reading, Unwinding
      <3>4. QED
        BY <2>2, <3>1, <3>3
    <2>6. QED
      BY <2>4, <2>5
  <1>7. QED
    BY <1>1, <1>3, <1>5, <1>6 DEF Whole

\* The parser goes on.
LEMMA WholeCalculate ==
  ASSUME Whole, Calculate
  PROVE  Whole'
  <1>1. Done /\ Next /\ UNCHANGED generatorVars
    BY DEF Calculate, Done
  <1>2. UNCHANGED <<files, args, pc, code, size, brackets, hasMath, prev, next>>
    BY <1>1 DEF generatorVars, loopVars
  <1>3. Next /\ IInv
    BY <1>1 DEF Whole
  <1>4. IInv'
    BY <1>3, StepIInv
  <1>5. Generating' /\ Done' /\ File' = File
    BY <1>1, <1>2 DEF Whole, Generating, Done, Growing, File
  <1>6. ASSUME args.mode = "generate"
        PROVE  (\E f, h : f = File /\ (Emptied(f) \/ (Legal(f, h) /\ Accepting(f, h))))'
    <2>1. PICK f, h : f = File /\ (Emptied(f) \/ (Legal(f, h) /\ Accepting(f, h)))
      BY <1>1, <1>6 DEF Whole
    <2>2. ReadsFrom(f)
      BY <2>1 DEF Calculate, ReadsFrom, Last
    <2>3. Emptied(f) \/ (Legal(f, h) /\ Accepting(f, h)')
      BY <1>3, <2>1, <2>2, LegalIsAccepted
    <2>4. QED
      BY <1>5, <2>1, <2>3
  <1>7. QED
    BY <1>2, <1>4, <1>5, <1>6 DEF Whole

\* It does not depend on what a stuttering step may change.
LEMMA WholeStutter ==
  ASSUME Whole, UNCHANGED <<generatorVars, vars>>
  PROVE  Whole'
  <1>1. /\ UNCHANGED <<files, args, pc, code, size, brackets, hasMath, prev, next>>
        /\ UNCHANGED vars
    BY DEF generatorVars, loopVars, vars
  <1>2. Generating' /\ (Done' <=> Done) /\ File' = File
    BY <1>1 DEF Whole, Generating, Done, Growing, File
  <1>3. IInv'
    BY <1>1, StepIInv DEF Whole
  <1>4. Init => Init'
    BY <1>1 DEF Init, vars
  <1>5. \A f, h : Accepting(f, h) => Accepting(f, h)'
    BY <1>1 DEF vars, Accepting, Prefix, Reading, Unwinding
  <1>6. Done /\ args.mode = "generate" =>
          (\E f, h : f = File /\ (Emptied(f) \/ (Legal(f, h) /\ Accepting(f, h))))'
    BY <1>2, <1>5 DEF Whole
  <1>7. QED
    BY <1>1, <1>2, <1>3, <1>4, <1>6 DEF Whole

\* Whatever size is asked for and whatever the random choices, the calculator
\* refuses what the program generated only if it has an empty bracket, which
\* the program writes when an opening bracket makes the size.
THEOREM GeneratedIsAccepted == GeneratedSpec => []OnlyEmptyBracketsRefused
  <1>1. GeneratedInit => Whole
    BY WholeInit
  <1>2. Whole /\ [GeneratedNext]_<<generatorVars, vars>> => Whole'
    BY WholeProgram, WholeCalculate, WholeStutter DEF GeneratedNext
  <1>3. Whole => OnlyEmptyBracketsRefused
    <2> SUFFICES ASSUME Whole, args.mode = "generate", phase = "invalid"
                 PROVE  \E i \in 1 .. Len(File) - 1 : Empty(File, i)
      BY DEF OnlyEmptyBracketsRefused
    <2>1. Done
      BY DEF Whole, Init
    <2>2. PICK f, h : f = File /\ (Emptied(f) \/ (Legal(f, h) /\ Accepting(f, h)))
      BY <2>1 DEF Whole
    <2>3. Emptied(f)
      BY <2>2 DEF Accepting
    <2>4. QED
      BY <2>2, <2>3 DEF Emptied
  <1>4. QED
    BY <1>1, <1>2, <1>3, PTL DEF GeneratedSpec

-----------------------------------------------------------------------------
(* The meaning of a repeated expression                                      *)

\* What has a meaning has no end within it, and its value is a number.
Sensible(t, i, j) ==
  /\ \A k \in i .. j : t[k].kind # "end"
  /\ Meaning(t, i, j).kind \in {"value", "by_zero"}
  /\ Meaning(t, i, j).kind = "value" => \E v \in Int : Meaning(t, i, j) = ValueOf(v)

\* Of two that make sense, with a sign between them, the sense is the same.
LEMMA CombinedSensible ==
  ASSUME NEW a, NEW b, NEW oper \in Binary,
         a.kind \in {"value", "by_zero"}, b.kind \in {"value", "by_zero"},
         a.kind = "value" => \E v \in Int : a = ValueOf(v),
         b.kind = "value" => \E v \in Int : b = ValueOf(v)
  PROVE  /\ Combined(a, oper, b).kind \in {"value", "by_zero"}
         /\ Combined(a, oper, b).kind = "value" => \E v \in Int : Combined(a, oper, b) = ValueOf(v)
  <1>1. "malformed" \notin {a.kind, b.kind}
    OBVIOUS
  <1>2. CASE "by_zero" \in {a.kind, b.kind} \/ (oper = "/" /\ b.value = 0)
    <2>1. Combined(a, oper, b) = DividesByZero
      BY <1>1, <1>2 DEF Combined
    <2>2. QED
      BY <2>1 DEF DividesByZero
  <1>3. CASE ~("by_zero" \in {a.kind, b.kind} \/ (oper = "/" /\ b.value = 0))
    <2>1. Combined(a, oper, b) = ValueOf(Calculated(a.value, oper, b.value))
      BY <1>1, <1>3 DEF Combined
    <2>2. a.value \in Int /\ b.value \in Int
      BY <1>3 DEF ValueOf
    <2>3. Calculated(a.value, oper, b.value) \in Int
      BY <1>3, <2>2, CalculatedIsNumber
    <2> DEFINE v == Calculated(a.value, oper, b.value)
    <2> HIDE DEF v
    <2>4. Combined(a, oper, b) = ValueOf(v) /\ v \in Int
      BY <2>1, <2>3 DEF v
    <2>5. ValueOf(v).kind = "value"
      BY DEF ValueOf
    <2>6. QED
      BY <2>4, <2>5
  <1>4. QED
    BY <1>2, <1>3

\* Whatever has a meaning makes sense.
LEMMA MeantIsSensible ==
  ASSUME NEW t, Len(t) \in Nat, \A k \in 1 .. Len(t) : t[k].value \in Int,
         NEW i \in 1 .. Len(t) + 1, NEW j \in 0 .. Len(t), Meaning(t, i, j).kind # "malformed"
  PROVE  Sensible(t, i, j)
  <1> DEFINE Holds(n) == \A a \in 1 .. Len(t) + 1 : \A b \in 0 .. Len(t) :
                           b - a < n /\ Meaning(t, a, b).kind # "malformed" => Sensible(t, a, b)
             S == {n \in Nat : Holds(n)}
  <1>0. ASSUME NEW a \in 1 .. Len(t) + 1, NEW b \in 0 .. Len(t),
               Meaning(t, a, b).kind # "malformed"
        PROVE  a <= b
    BY <1>0, MeantIsWellFormed DEF WellFormed
  <1>1. 0 \in S
    BY <1>0
  <1>2. ASSUME NEW n \in S PROVE n + 1 \in S
    <2>1. n \in Nat /\ Holds(n)
      OBVIOUS
    <2>2. ASSUME NEW a \in 1 .. Len(t) + 1, NEW b \in 0 .. Len(t), b - a < n + 1,
                 Meaning(t, a, b).kind # "malformed"
          PROVE  Sensible(t, a, b)
      <3> DEFINE c == Cut(t, a, b)
      <3>1. a <= b /\ a \in Nat \ {0} /\ b \in Nat \ {0} /\ a \in 1 .. Len(t) /\ b \in 1 .. Len(t)
        BY <1>0, <2>2
      <3>2. c # 0 => c \in a + 1 .. b /\ t[c].kind \in Binary
        BY <3>1, CutIsSign
      <3>3. Meaning(t, a, b) =
           IF a > b THEN Malformed
           ELSE IF c # 0 THEN Combined(Meaning(t, a, c - 1), t[c].kind, Meaning(t, c + 1, b))
           ELSE IF a = b /\ t[a].kind = "number" THEN ValueOf(t[a].value)
           ELSE IF b = a + 1 /\ Leading(t, a) /\ t[a].kind = "-" /\ t[b].kind = "number"
                THEN ValueOf(-t[b].value)
           ELSE IF t[a].kind = "(" /\ t[b].kind = ")" THEN Meaning(t, a + 1, b - 1)
           ELSE Malformed
        BY MeaningUnfolds
      <3> HIDE DEF c
      <3>4. CASE c # 0
        <4>1. Meaning(t, a, b) = Combined(Meaning(t, a, c - 1), t[c].kind, Meaning(t, c + 1, b))
          BY <3>1, <3>3, <3>4
        <4>2. Meaning(t, a, c - 1).kind # "malformed" /\ Meaning(t, c + 1, b).kind # "malformed"
          BY <2>2, <4>1 DEF Combined, Malformed
        <4>3. c - 1 \in 0 .. Len(t) /\ c + 1 \in 1 .. Len(t) + 1 /\ (c - 1) - a < n /\ b - (c + 1) < n
          <5>1. c \in a + 1 .. b /\ b - a < n + 1 /\ n \in Nat
            BY <2>1, <2>2, <3>2, <3>4
          <5> HIDE DEF Holds, S
          <5>2. QED
            BY <5>1
        <4>4. Sensible(t, a, c - 1) /\ Sensible(t, c + 1, b)
          BY <2>1, <4>2, <4>3
        <4>5. c \in a + 1 .. b /\ t[c].kind \in Binary
          BY <3>2, <3>4
        <4>6. \A k \in a .. b : t[k].kind # "end"
          <5>1. \A k \in a .. b : k \in a .. c - 1 \/ k = c \/ k \in c + 1 .. b
            BY <3>1, <4>5
          <5>2. QED
            BY <4>4, <4>5, <5>1, SignsDiffer DEF Sensible
        <4>7. /\ Meaning(t, a, b).kind \in {"value", "by_zero"}
              /\ Meaning(t, a, b).kind = "value" => \E v \in Int : Meaning(t, a, b) = ValueOf(v)
          BY <4>1, <4>4, <4>5, CombinedSensible DEF Sensible
        <4>8. QED
          BY <4>6, <4>7 DEF Sensible
      <3>5. CASE c = 0
        <4>0. t[a].value \in Int /\ t[b].value \in Int /\ -t[b].value \in Int
          <5>1. t[a].value \in Int /\ t[b].value \in Int
            BY <3>1
          <5>2. QED
            BY <5>1
        <4>1. CASE a = b /\ t[a].kind = "number"
          <5>1. Meaning(t, a, b) = ValueOf(t[a].value)
            BY <3>1, <3>3, <3>5, <4>1
          <5>2. \A k \in a .. b : k = a
            BY <3>1, <4>1
          <5>3. QED
            BY <4>0, <4>1, <5>1, <5>2 DEF Sensible, ValueOf
        <4>2. CASE b = a + 1 /\ Leading(t, a) /\ t[a].kind = "-" /\ t[b].kind = "number"
          <5>1. Meaning(t, a, b) = ValueOf(-t[b].value)
            BY <3>1, <3>3, <3>5, <4>2
          <5>2. \A k \in a .. b : k = a \/ k = b
            BY <3>1, <4>2
          <5> DEFINE v == -t[b].value
          <5> HIDE DEF v
          <5>3. Meaning(t, a, b) = ValueOf(v) /\ v \in Int
            BY <4>0, <5>1 DEF v
          <5>4. QED
            BY <4>2, <5>2, <5>3 DEF Sensible, ValueOf
        <4>3. CASE t[a].kind = "(" /\ t[b].kind = ")"
          <5>0. ~(a = b /\ t[a].kind = "number")
                /\ ~(b = a + 1 /\ Leading(t, a) /\ t[a].kind = "-" /\ t[b].kind = "number")
            BY <4>3
          <5>1. Meaning(t, a, b) = Meaning(t, a + 1, b - 1)
            BY <3>1, <3>3, <3>5, <4>3, <5>0
          <5>2. a + 1 \in 1 .. Len(t) + 1 /\ b - 1 \in 0 .. Len(t) /\ (b - 1) - (a + 1) < n
            BY <2>1, <2>2, <3>1
          <5>3. Sensible(t, a + 1, b - 1)
            BY <2>1, <2>2, <5>1, <5>2
          <5>4. \A k \in a .. b : k = a \/ k = b \/ k \in a + 1 .. b - 1
            BY <3>1
          <5>5. QED
            BY <4>3, <5>1, <5>3, <5>4 DEF Sensible
        <4>4. CASE /\ ~(a = b /\ t[a].kind = "number")
                   /\ ~(b = a + 1 /\ Leading(t, a) /\ t[a].kind = "-" /\ t[b].kind = "number")
                   /\ ~(t[a].kind = "(" /\ t[b].kind = ")")
          <5>1. Meaning(t, a, b) = Malformed
            BY <3>3, <3>5, <4>4, Zenon
          <5>2. QED
            BY <2>2, <5>1 DEF Malformed
        <4>5. QED
          BY <4>1, <4>2, <4>3, <4>4
      <3>6. QED
        BY <3>4, <3>5
    <2>3. QED
      BY <2>1, <2>2
  <1>3. S = Nat
    <2>1. S \in SUBSET Nat
      OBVIOUS
    <2> HIDE DEF S
    <2>2. QED
      BY <1>1, <1>2, <2>1, Induction
  <1>4. Holds(Len(t) + 1)
    <2>1. Len(t) + 1 \in S
      <3> HIDE DEF S
      <3>1. QED
        BY <1>3
    <2>2. QED
      BY <2>1
  <1>5. j - i < Len(t) + 1
    OBVIOUS
  <1>6. QED
    BY <1>4, <1>5

\* A copy of an expression within brackets means what the expression means.
LEMMA CopyMeans ==
  ASSUME NEW t, NEW u, Len(t) \in Nat, Len(u) \in Nat, NEW r \in Nat \ {0}, r <= Len(t),
         NEW d \in Nat, d + r <= Len(u), Shifted(t, u, d, 1, r),
         t[1].kind = "(", \A k \in 2 .. r : Depth(t, k) > 0
  PROVE  Meaning(u, d + 1, d + r) = Meaning(t, 1, r) /\ Above(u, d + 1, d + r, 3)
  <1>1. 1 + d = d + 1 /\ r + d = d + r /\ 1 \in Nat \ {0} /\ r \in Nat /\ 1 \in Int /\ r \in Int
    OBVIOUS
  <1>2. Shiftable(t, u, d, 1, r)
    <2>1. /\ 1 \in 1 .. Len(t) + 1 /\ r \in 0 .. Len(t)
          /\ 1 + d \in 1 .. Len(u) + 1 /\ r + d \in 0 .. Len(u)
      OBVIOUS
    <2>2. QED
      BY <2>1 DEF Shiftable
  <1>3. Meaning(t, 1, r) = Meaning(u, d + 1, d + r)
    BY <1>1, <1>2, MeaningShifts
  <1>4. AsDeep(t, u, d, 1, r)
    BY <1>1, DepthShifts
  <1>5. ASSUME NEW k \in (d + 1) + 1 .. d + r PROVE Depth(u, k) # Depth(u, d + 1)
    <2> DEFINE x == k - d
    <2>1. x \in 2 .. r /\ x \in 1 .. r + 1 /\ x + d = k /\ x \in Nat \ {0} /\ d + 1 \in Nat \ {0}
          /\ k \in Nat \ {0}
      OBVIOUS
    <2> HIDE DEF x
    <2>2. Depth(u, x + d) - Depth(u, 1 + d) = Depth(t, x) - Depth(t, 1)
      BY <1>4, <2>1 DEF AsDeep
    <2>3. /\ Depth(t, 1) = 0 /\ Depth(t, x) > 0 /\ Depth(t, x) \in Int
          /\ Depth(u, k) \in Int /\ Depth(u, d + 1) \in Int
      BY <1>1, <2>1, DepthRises
    <2>4. QED
      BY <1>1, <2>1, <2>2, <2>3
  <1>6. Above(u, d + 1, d + r, 3)
    BY <1>5 DEF Above
  <1>7. QED
    BY <1>3, <1>6

\* In u, the first r tokens of t stand n times, with '-' and '+' between them in turn.
Copied(t, u, r, n) ==
  /\ \A c \in 0 .. n - 1 : Shifted(t, u, c * (r + 1), 1, r)
  /\ \A c \in 1 .. n - 1 : u[c * (r + 1)].kind = IF c % 2 = 1 THEN "-" ELSE "+"

\* n copies: the first and those added after each that is subtracted.
LEMMA CopiesMean ==
  ASSUME NEW t, NEW u, Len(t) \in Nat, Len(u) \in Nat, NEW r \in Nat \ {0}, r <= Len(t),
         NEW n \in Nat \ {0}, n * (r + 1) - 1 <= Len(u), Copied(t, u, r, n),
         t[1].kind = "(", \A k \in 2 .. r : Depth(t, k) > 0,
         NEW v \in Int, Meaning(t, 1, r) = ValueOf(v)
  PROVE  Meaning(u, 1, n * (r + 1) - 1) = ValueOf(IF n % 2 = 1 THEN v ELSE 0)
  <1> DEFINE e(c) == c * (r + 1)
             x(c) == IF c % 2 = 1 THEN v ELSE 0
             S == {c \in Nat : c + 1 <= n =>
                     /\ Meaning(u, 1, e(c + 1) - 1) = ValueOf(x(c + 1))
                     /\ Above(u, 1, e(c + 1) - 1, 1)}
  <1>1. /\ e(0) = 0 /\ e(1) = r + 1
        /\ \A c \in Nat : e(c) \in Nat /\ e(c + 1) = e(c) + (r + 1)
    OBVIOUS
  <1>2. \A c \in 1 .. n - 1 : e(c + 1) <= e(n)
    OBVIOUS
  <1>3. e(1) <= e(n) /\ e(n) - 1 <= Len(u) /\ e(n) \in Nat
    OBVIOUS
  <1>4. /\ \A c \in 0 .. n - 1 : Shifted(t, u, e(c), 1, r)
        /\ \A c \in 1 .. n - 1 : u[e(c)].kind = IF c % 2 = 1 THEN "-" ELSE "+"
    BY DEF Copied
  <1> HIDE DEF e
  <1>5. 0 \in S
    <2>1. Shifted(t, u, 0, 1, r) /\ 0 + r <= Len(u)
      <3>1. 0 \in 0 .. n - 1
        OBVIOUS
      <3>2. Shifted(t, u, e(0), 1, r)
        BY <1>4, <3>1
      <3>3. r <= Len(u)
        <4> DEFINE y == e(n)
        <4>1. r + 1 <= y /\ y - 1 <= Len(u) /\ y \in Nat
          BY <1>1, <1>3
        <4> HIDE DEF y, S
        <4>2. QED
          BY <4>1
      <3>4. QED
        BY <1>1, <3>2, <3>3
    <2>2. Meaning(u, 0 + 1, 0 + r) = Meaning(t, 1, r) /\ Above(u, 0 + 1, 0 + r, 3)
      BY <2>1, CopyMeans
    <2>3. 0 + 1 = 1 /\ 0 + r = r /\ e(0 + 1) - 1 = r
      BY <1>1
    <2>4. Above(u, 1, r, 1)
      BY <2>2, <2>3, AboveLess
    <2>5. x(0 + 1) = v
      OBVIOUS
    <2>6. QED
      BY <2>2, <2>3, <2>4, <2>5
  <1>6. ASSUME NEW k \in S PROVE k + 1 \in S
    <2>1. k \in Nat /\ k + 1 \in Nat
      OBVIOUS
    <2>2. SUFFICES ASSUME (k + 1) + 1 <= n
                   PROVE  /\ Meaning(u, 1, e((k + 1) + 1) - 1) = ValueOf(x((k + 1) + 1))
                          /\ Above(u, 1, e((k + 1) + 1) - 1, 1)
      BY <2>1
    <2> DEFINE c == k + 1
               a == e(c)
               b == e(c + 1) - 1
    <2>3. c \in 1 .. n - 1 /\ c \in 0 .. n - 1 /\ c \in Nat
      BY <2>1, <2>2
    <2>4. Meaning(u, 1, a - 1) = ValueOf(x(c)) /\ Above(u, 1, a - 1, 1)
      BY <2>1, <2>2
    <2>5. Shifted(t, u, a, 1, r) /\ u[a].kind = IF c % 2 = 1 THEN "-" ELSE "+"
      BY <1>4, <2>3
    <2>6. a \in Nat /\ b = a + r /\ b <= Len(u) /\ a >= 2
      <3>1. a \in Nat /\ e(c + 1) = a + (r + 1) /\ e(c + 1) <= e(n)
        BY <1>1, <1>2, <2>3
      <3>2. a >= 2
        <4>1. e(k) \in Nat /\ a = e(k) + (r + 1)
          BY <1>1, <2>1
        <4>2. QED
          BY <4>1
      <3> HIDE DEF a, c
      <3>3. QED
        BY <1>3, <3>1, <3>2
    <2>7. x(c) \in Int /\ x(c + 1) = IF c % 2 = 1 THEN x(c) - v ELSE x(c) + v
      <3> HIDE DEF c
      <3>1. c % 2 \in {0, 1} /\ ((c + 1) % 2 = 1 <=> (c % 2) = 0)
        BY <2>3
      <3>2. QED
        BY <3>1
    <2> HIDE DEF a, b, c, x
    <2>8. Meaning(u, a + 1, b) = ValueOf(v) /\ Above(u, a + 1, b, 3)
      BY <2>5, <2>6, CopyMeans
    <2>9. u[a].kind \in {"+", "-"} /\ u[a].kind \in Binary /\ Precedence(u[a].kind) = 1
      <3>1. u[a].kind \in {"+", "-"}
        BY <2>5
      <3>2. u[a].kind \in Binary
        BY <3>1 DEF Binary
      <3>3. QED
        BY <3>1, <3>2, Precedences
    <2>10. Depth(u, a) = Depth(u, 1)
      <3>1. Meaning(u, 1, a - 1).kind # "malformed"
        BY <2>4 DEF ValueOf
      <3>2. 1 \in 1 .. Len(u) + 1 /\ a - 1 \in 0 .. Len(u) /\ (a - 1) + 1 = a
        BY <2>6
      <3>3. WellFormed(u, 1, a - 1)
        BY <3>1, <3>2, MeantIsWellFormed
      <3>4. QED
        BY <3>2, <3>3 DEF WellFormed
    <2>11. /\ 1 \in 1 .. Len(u) /\ b \in 1 .. Len(u) /\ a \in 1 + 1 .. b - 1
      BY <2>6
    <2>12. Meaning(u, a + 1, b).kind # "malformed" /\ Above(u, a + 1, b, 1 + 1)
      BY <2>8, AboveLess DEF ValueOf
    <2>13. /\ Meaning(u, 1, b) = Combined(Meaning(u, 1, a - 1), u[a].kind, Meaning(u, a + 1, b))
           /\ Above(u, 1, b, 1)
      BY <2>4, <2>9, <2>10, <2>11, <2>12, JoinMeans
    <2>14. Meaning(u, 1, b) = ValueOf(Calculated(x(c), u[a].kind, v))
      BY <2>4, <2>8, <2>9, <2>13, CombinedValues
    <2>15. Calculated(x(c), u[a].kind, v) = x(c + 1)
      BY <2>5, <2>7 DEF Calculated
    <2>16. Meaning(u, 1, b) = ValueOf(x(c + 1)) /\ Above(u, 1, b, 1)
      BY <2>13, <2>14, <2>15
    <2>17. QED
      BY <2>16 DEF b, c
  <1>7. S = Nat
    <2>1. S \in SUBSET Nat
      OBVIOUS
    <2> HIDE DEF S
    <2>2. QED
      BY <1>5, <1>6, <2>1, Induction
  <1>8. Meaning(u, 1, e(n) - 1) = ValueOf(x(n))
    <2>1. n - 1 \in Nat /\ (n - 1) + 1 = n /\ n <= n
      OBVIOUS
    <2>2. n - 1 \in S
      <3> HIDE DEF S
      <3>1. QED
        BY <1>7, <2>1
    <2> HIDE DEF x
    <2>3. (n - 1) + 1 <= n => Meaning(u, 1, e((n - 1) + 1) - 1) = ValueOf(x((n - 1) + 1))
      BY <2>2
    <2>4. QED
      BY <2>1, <2>3
  <1>9. QED
    BY <1>8 DEF e

\* l goes c times into a, and leaves k.
Split(a, l, c, k) == a \div l = c /\ a % l = k

\* A quotient and a rest are found in one way only.
LEMMA SplitOnce ==
  ASSUME NEW l \in Nat \ {0}, NEW c \in Nat, NEW k \in 0 .. l - 1, NEW a \in Nat, a = c * l + k
  PROVE  Split(a, l, c, k)
  <1> DEFINE q == a \div l
             m == a % l
  <1>1. q \in Nat /\ m \in 0 .. l - 1 /\ a = q * l + m
    <2>1. \A x \in Nat, y \in Nat \ {0} :
            x \div y \in Nat /\ (x % y) \in 0 .. y - 1 /\ x = (x \div y) * y + (x % y)
      BY Z3
    <2>2. QED
      BY <2>1, Zenon
  <1> HIDE DEF q, m
  <1>2. \A x \in Nat, y \in Nat : x < y => x * l + l <= y * l
    <2>1. \A x \in Nat, y \in Nat, z \in Nat : x < y => x * z + z <= y * z
      BY Z3
    <2>2. QED
      BY <2>1
  <1> DEFINE v == c * l
             w == q * l
  <1>3. v \in Nat /\ w \in Nat
    <2>1. \A x \in Nat, y \in Nat : x * y \in Nat
      BY Z3
    <2>2. QED
      BY <1>1, <2>1
  <1>4. (c < q => v + l <= w) /\ (q < c => w + l <= v) /\ (q = c => w = v)
    BY <1>1, <1>2
  <1>5. v + k = w + m
    BY <1>1
  <1> HIDE DEF v, w
  <1>6. ~(c < q) /\ ~(q < c)
    BY <1>1, <1>3, <1>4, <1>5
  <1>7. q = c
    BY <1>1, <1>6
  <1>8. m = k
    BY <1>1, <1>3, <1>4, <1>5, <1>7
  <1>9. QED
    BY <1>7, <1>8 DEF q, m, Split

\* Where the copies of s stand in what is written.
LEMMA RepeatedCopies ==
  ASSUME NEW s \in Seq(FileTokens), NEW n \in Nat \ {0}, NEW t, t = Append(s, Symbol("end")),
         NEW u, u = Append(Repeated(s, n), Symbol("end"))
  PROVE  /\ u \in Seq(FileTokens) /\ Len(u) = n * (Len(s) + 1) /\ u[Len(u)].kind = "end"
         /\ \A k \in 1 .. Len(u) - 1 : u[k].kind = "end" => \E i \in 1 .. Len(s) : s[i].kind = "end"
         /\ Copied(t, u, Len(s), n)
  <1> DEFINE r == Len(s)
             l == r + 1
             N == n * l
             w == Repeated(s, n)
  <1>1. r \in Nat /\ l \in Nat \ {0}
    OBVIOUS
  <1>2. \A x \in Nat, y \in Nat, z \in Nat : x * z \in Nat /\ (x < y => x * z + z <= y * z)
    BY Z3
  <1>3. N \in Nat /\ N >= l
    <2> HIDE DEF l
    <2>1. \A x \in Nat \ {0}, y \in Nat : x * y \in Nat /\ x * y >= y
      BY Z3
    <2>2. l \in Nat
      BY <1>1
    <2>3. QED
      BY <2>1, <2>2
  <1>4. w \in Seq(FileTokens)
    BY RepeatedType
  <1>5. w = [k \in 1 .. N - 1 |->
               IF k % l # 0 THEN s[k % l] ELSE Symbol(IF (k \div l) % 2 = 1 THEN "-" ELSE "+")]
    BY Zenon DEF Repeated
  <1>6. /\ t \in Seq(FileTokens) /\ Len(t) = r + 1 /\ \A k \in 1 .. r : t[k] = s[k]
    BY TokenFacts, Pushed
  <1> HIDE DEF w, N
  <1>7. Len(w) = N - 1
    <2>1. DOMAIN w = 1 .. N - 1 /\ N - 1 \in Nat
      BY <1>1, <1>3, <1>5
    <2>2. QED
      BY <1>4, <2>1
  <1>8. /\ u \in Seq(FileTokens) /\ Len(u) = N /\ u[N] = Symbol("end")
        /\ \A k \in 1 .. N - 1 : u[k] = w[k]
    <2>1. /\ u \in Seq(FileTokens) /\ Len(u) = Len(w) + 1 /\ u[Len(w) + 1] = Symbol("end")
          /\ \A k \in 1 .. Len(w) : u[k] = w[k]
      BY <1>4, TokenFacts, Pushed DEF w
    <2>2. Len(w) + 1 = N
      BY <1>3, <1>7
    <2>3. QED
      BY <1>7, <2>1, <2>2
  <1>9. \A k \in 1 .. N - 1 :
          u[k] = IF k % l # 0 THEN s[k % l] ELSE Symbol(IF (k \div l) % 2 = 1 THEN "-" ELSE "+")
    BY <1>5, <1>8
  <1>10. ASSUME NEW k \in 1 .. N - 1, u[k].kind = "end"
         PROVE  \E i \in 1 .. r : s[i].kind = "end"
    <2>1. k % l # 0
      <3>1. Symbol("-").kind # "end" /\ Symbol("+").kind # "end"
        BY DEF Symbol
      <3>2. QED
        BY <1>9, <1>10, <3>1
    <2>2. k % l \in 1 .. r
      <3>1. \A x \in Nat, y \in Nat \ {0} : (x % y) \in 0 .. y - 1
        BY Z3
      <3>2. k \in Nat
        BY <1>3
      <3>3. (k % l) \in 0 .. l - 1
        BY <1>1, <3>1, <3>2
      <3> DEFINE z == k % l
      <3>4. z \in 0 .. l - 1 /\ z # 0
        BY <2>1, <3>3
      <3> HIDE DEF z
      <3>5. z \in 1 .. r
        BY <1>1, <3>4
      <3>6. QED
        BY <3>5 DEF z
    <2>3. s[k % l].kind = "end"
      BY <1>9, <1>10, <2>1
    <2>4. QED
      BY <2>2, <2>3
  <1>11. ASSUME NEW c \in 0 .. n - 1 PROVE c * l \in Nat /\ c * l + l <= N
    <2> HIDE DEF l
    <2>1. c \in Nat /\ n \in Nat /\ l \in Nat /\ c < n
      BY <1>1, <1>11
    <2>2. c * l \in Nat /\ c * l + l <= n * l
      BY <1>2, <2>1
    <2>3. QED
      BY <2>2 DEF N
  <1>12. ASSUME NEW c \in 0 .. n - 1, NEW k \in 1 .. r PROVE u[k + c * l] = t[k]
    <2> DEFINE x == c * l
               y == k + x
    <2>1. x \in Nat /\ x + l <= N
      BY <1>11
    <2>2. y = c * l + k /\ c \in Nat /\ k \in 0 .. l - 1 /\ y \in Nat
      <3>1. c \in Nat /\ k \in 0 .. l - 1
        BY <1>1
      <3>2. k + x = x + k /\ k + x \in Nat
        <4> HIDE DEF x
        <4>1. QED
          BY <2>1
      <3>3. QED
        BY <3>1, <3>2
    <2>3. y \in 1 .. N - 1
      <3> HIDE DEF x
      <3>1. QED
        BY <1>1, <1>3, <2>1
    <2>4. y % l = k
      <3> HIDE DEF x, y, l
      <3>1. Split(y, l, c, k)
        BY <1>1, <2>2, SplitOnce, Zenon
      <3>2. QED
        BY <3>1 DEF Split
    <2> HIDE DEF x, y
    <2>5. u[y] = s[k]
      <3>1. k # 0
        OBVIOUS
      <3>2. QED
        BY <1>9, <2>3, <2>4, <3>1
    <2>6. QED
      BY <1>6, <2>5 DEF y, x
  <1>13. ASSUME NEW c \in 1 .. n - 1
         PROVE  u[c * l].kind = IF c % 2 = 1 THEN "-" ELSE "+"
    <2> DEFINE x == c * l
    <2>1. x \in Nat /\ x + l <= N /\ x >= l
      <3>1. c \in 0 .. n - 1 /\ c \in Nat \ {0} /\ l \in Nat
        BY <1>1
      <3>2. x \in Nat /\ x + l <= N
        BY <1>11, <3>1
      <3>3. \A i \in Nat \ {0}, j \in Nat : i * j >= j
        BY Z3
      <3> HIDE DEF l
      <3>4. c * l >= l
        BY <3>1, <3>3
      <3>5. QED
        BY <3>2, <3>4
    <2>2. x \in 1 .. N - 1
      <3> HIDE DEF x
      <3>1. QED
        BY <1>1, <1>3, <2>1
    <2>3. x \div l = c /\ x % l = 0
      <3>1. x = c * l + 0 /\ c \in Nat /\ 0 \in 0 .. l - 1
        BY <1>1, <2>1
      <3> HIDE DEF x, l
      <3>2. Split(x, l, c, 0)
        BY <1>1, <2>1, <3>1, SplitOnce, Zenon
      <3>3. QED
        BY <3>2 DEF Split
    <2> HIDE DEF x
    <2>4. u[x] = Symbol(IF c % 2 = 1 THEN "-" ELSE "+")
      BY <1>9, <2>2, <2>3
    <2>5. \A y : Symbol(y).kind = y
      BY DEF Symbol
    <2>6. u[x].kind = IF c % 2 = 1 THEN "-" ELSE "+"
      BY <2>4, <2>5, Zenon
    <2>7. QED
      BY <2>6 DEF x
  <1>14. Copied(t, u, r, n)
    BY <1>12, <1>13 DEF Copied, Shifted
  <1>15. u[N].kind = "end"
    BY <1>8 DEF Symbol
  <1>16. QED
    BY <1>8, <1>10, <1>14, <1>15 DEF N

\* What is written means the value of the expression, or zero.
LEMMA RepeatedMeans ==
  ASSUME NEW s \in Seq(FileTokens), NEW n \in Nat \ {0}, NEW t, t = Append(s, Symbol("end")),
         NEW u, u = Append(Repeated(s, n), Symbol("end")),
         Wrapped(s), TextMeaning(t).kind = "value"
  PROVE  /\ TextMeaning(u) = ValueOf(IF n % 2 = 1 THEN TextMeaning(t).value ELSE 0)
         /\ \A k \in 1 .. Len(u) - 1 : u[k].kind # "end"
         /\ Len(u) \div (Len(s) + 1) = n
  <1> DEFINE r == Len(s)
             N == n * (r + 1)
  <1>1. /\ u \in Seq(FileTokens) /\ Len(u) = N /\ u[Len(u)].kind = "end"
        /\ \A k \in 1 .. Len(u) - 1 : u[k].kind = "end" => \E i \in 1 .. Len(s) : s[i].kind = "end"
        /\ Copied(t, u, r, n)
    BY RepeatedCopies
  <1>2. /\ t \in Seq(FileTokens) /\ t # <<>> /\ Len(t) = r + 1 /\ t[r + 1] = Symbol("end")
        /\ \A k \in 1 .. r : t[k] = s[k]
    BY TokenFacts, Pushed
  <1>3. FileTokens \subseteq Tokens /\ \A x \in FileTokens : x.value \in Int
    <2>1. ASSUME NEW x \in FileTokens PROVE x \in Tokens
      <3>1. CASE \E kind \in {"(", ")", "end"} \cup MathSigns : x = Symbol(kind)
        BY <3>1, GTokens, Zenon
      <3>2. CASE \E m \in Randoms \cup {1} : x = Number(m)
        BY <3>2, GTokens, Zenon
      <3>3. QED
        BY <3>1, <3>2, Zenon DEF FileTokens
    <2>2. ASSUME NEW x \in Tokens PROVE x.value \in Int
      <3>1. x.value \in Numbers \cup {0}
        BY DEF Tokens
      <3>2. \A y \in Numbers \cup {0} : y \in Int
        BY ParserAssumption
      <3>3. QED
        BY <3>1, <3>2, Zenon
    <2>3. QED
      BY <2>1, <2>2
  <1>4. r \in Nat /\ Len(t) \in Nat /\ Len(u) \in Nat /\ t[Len(t)].kind = "end" /\ Len(t) - 1 = r
    BY <1>1, <1>2 DEF Symbol
  <1>5. TextMeaning(t) = Meaning(t, 1, r)
    BY <1>2, <1>4, TextMeaningIs
  <1>6. Sensible(t, 1, r) /\ WellFormed(t, 1, r)
    <2>1. \A k \in 1 .. Len(t) : t[k].value \in Int
      BY <1>2, <1>3
    <2>2. 1 \in 1 .. Len(t) + 1 /\ r \in 0 .. Len(t) /\ Meaning(t, 1, r).kind # "malformed"
      BY <1>2, <1>4, <1>5
    <2>3. QED
      BY <1>4, <2>1, <2>2, MeantIsSensible, MeantIsWellFormed
  <1>7. r \in Nat \ {0} /\ r <= Len(t)
    BY <1>2, <1>4, <1>6 DEF WellFormed
  <1>8. PICK v \in Int : Meaning(t, 1, r) = ValueOf(v)
    BY <1>5, <1>6 DEF Sensible
  <1>9. TextMeaning(t).value = v
    BY <1>5, <1>8 DEF ValueOf
  <1>10. t[1].kind = "(" /\ \A k \in 2 .. r : Depth(t, k) > 0
    <2>1. s[1].kind = "(" /\ \A k \in 2 .. r : Depth(s, k) > 0
      BY DEF Wrapped
    <2>2. \A k \in 1 .. r + 1 : Depth(t, k) = Depth(s, k)
      BY <1>2, <1>4, DepthKept
    <2>3. 1 \in 1 .. r /\ \A k \in 2 .. r : k \in 1 .. r + 1
      BY <1>7
    <2>4. QED
      BY <1>2, <2>1, <2>2, <2>3
  <1>11. Meaning(u, 1, N - 1) = ValueOf(IF n % 2 = 1 THEN v ELSE 0)
    <2>1. N - 1 <= Len(u)
      BY <1>1, <1>4
    <2>2. QED
      BY <1>1, <1>4, <1>7, <1>8, <1>10, <2>1, CopiesMean
  <1>12. u # <<>>
    <2>1. N \in Nat /\ N # 0
      <3>1. \A x \in Nat \ {0}, y \in Nat \ {0} : x * y \in Nat \ {0}
        BY Z3
      <3>2. r + 1 \in Nat \ {0}
        BY <1>4
      <3>3. QED
        BY <3>1, <3>2
    <2>2. QED
      BY <1>1, <2>1
  <1>13. TextMeaning(u) = Meaning(u, 1, N - 1)
    BY <1>1, <1>12, TextMeaningIs
  <1>14. \A k \in 1 .. Len(u) - 1 : u[k].kind # "end"
    <2>1. \A i \in 1 .. r : s[i].kind # "end"
      BY <1>2, <1>6 DEF Sensible
    <2>2. QED
      BY <1>1, <2>1
  <1>15. Len(u) \div (r + 1) = n
    <2> DEFINE l == r + 1
    <2>1. l \in Nat \ {0} /\ 0 \in 0 .. l - 1 /\ n \in Nat /\ Len(u) = n * l
      BY <1>1, <1>4
    <2>2. n * l = n * l + 0
      BY <1>4, <2>1
    <2> HIDE DEF l
    <2>3. Len(u) = n * l + 0
      BY <2>1, <2>2
    <2> HIDE DEF N
    <2>4. Split(Len(u), l, n, 0)
      BY <1>4, <2>1, <2>3, SplitOnce, Zenon
    <2>5. Len(u) \div l = n
      BY <2>4 DEF Split
    <2>6. QED
      BY <2>5 DEF l
  <1>16. QED
    BY <1>9, <1>11, <1>13, <1>14, <1>15

\* The destination holds copies of what the other file holds.
Repeats ==
  /\ files[args.from] # <<>> /\ files[args.from] \in Seq(FileTokens)
  /\ \E n \in Nat :
       File = IF n = 0 THEN <<>>
              ELSE Append(Repeated(WithoutEnd(files[args.from]), n), Symbol("end"))

\* The parser has read a part of the file, and all of it once it has a value.
RepeatInv ==
  /\ pc = "copy" => File = <<>>
  /\ ~Done => text = <<>> /\ phase = "read"
  /\ Done => Prefix(File)
  /\ phase # "read" => text # <<>>
  /\ phase \in {"finish", "value"} => Last(text).kind = "end"
  /\ Done /\ args.mode = "repeat" => Repeats

\* It holds before either program has done anything.
LEMMA InitRepeats ==
  ASSUME GeneratedInit
  PROVE  RepeatInv
  BY DEF GeneratedInit, GeneratorInit, Init, RepeatInv, Done

\* The program ends once, and well only when it has written.
LEMMA EndsWell ==
  ASSUME GeneratorIInv, GeneratorNext
  PROVE  /\ ~Done
         /\ Done' => FinishGenerating \/ CopyExpression
         /\ pc' = "copy" => StartRepeating
  <1>1. CASE ReadArguments
    BY <1>1 DEF ReadArguments, Exit, Exits, Misused, Done
  <1>2. CASE StartGenerating
    BY <1>2 DEF StartGenerating, Exit, Exits, Done
  <1>3. CASE PutNumber \/ OpenBracket \/ CloseBracket \/ PutMath
    BY <1>3 DEF PutNumber, OpenBracket, CloseBracket, PutMath, Turn, Advance, Done
  <1>4. CASE FinishGenerating
    BY <1>4 DEF FinishGenerating, Exits, Done
  <1>5. CASE StartRepeating
    BY <1>5 DEF StartRepeating, Exit, Exits, Done
  <1>6. CASE CopyExpression
    BY <1>6 DEF CopyExpression, Exit, Exits, Done
  <1>7. QED
    BY <1>1, <1>2, <1>3, <1>4, <1>5, <1>6 DEF GeneratorNext

\* What is copied into the destination is the expression, repeated.  The source
\* is not the destination, which is empty.
LEMMA CopyRepeats ==
  ASSUME GeneratorIInv, RepeatInv, CopyExpression, Done'
  PROVE  Repeats'
  <1>1. /\ files[args.from] # <<>> /\ args' = args
        /\ args.dest \in Names /\ args.from \in Names /\ args.size \in Nat /\ File = <<>>
    BY DEF CopyExpression, Exit, Exits, Done, GeneratorIInv, Checked, RepeatInv
  <1> DEFINE s == WithoutEnd(files[args.from])
             n == args.size \div (Characters(s) + 1)
             line == IF n = 0 THEN <<>> ELSE Append(Repeated(s, n), Symbol("end"))
  <1>2. files' = [files EXCEPT ![args.dest] = line]
    BY <1>1 DEF CopyExpression
  <1>3. files \in [Names -> Seq(FileTokens)] /\ files[args.from] \in Seq(FileTokens)
    BY <1>1 DEF GeneratorIInv, GeneratorTypeOK
  <1>4. s \in Seq(FileTokens)
    <2>1. Len(files[args.from]) > 0
      BY <1>1, <1>3
    <2>2. QED
      BY <1>3, <2>1 DEF WithoutEnd, Front
  <1>5. n \in Nat
    <2>1. Characters(s) + 1 \in Nat \ {0}
      BY <1>4, CharactersType
    <2>2. \A p \in Nat, q \in Nat \ {0} : p \div q \in Nat
      BY Z3
    <2> HIDE DEF s
    <2>3. QED
      BY <1>1, <2>1, <2>2
  <1> HIDE DEF line
  <1>6. args.from # args.dest
    BY <1>1 DEF File
  <1>7. files'[args.from] = files[args.from] /\ File' = line
    BY <1>1, <1>2, <1>3, <1>6 DEF File
  <1>8. WithoutEnd(files'[args'.from]) = s
    BY <1>1, <1>7
  <1>9. /\ files'[args'.from] # <<>> /\ files'[args'.from] \in Seq(FileTokens)
    BY <1>1, <1>3, <1>7
  <1> HIDE DEF s, n
  <1>10. File' = IF n = 0 THEN <<>>
                 ELSE Append(Repeated(WithoutEnd(files'[args'.from]), n), Symbol("end"))
    BY <1>7, <1>8, Zenon DEF line
  <1>11. QED
    BY <1>5, <1>9, <1>10 DEF Repeats

\* The program goes on.
LEMMA ProgramRepeats ==
  ASSUME GeneratorIInv, RepeatInv, GeneratorNext, UNCHANGED vars
  PROVE  RepeatInv'
  <1>1. /\ ~Done /\ (Done' => FinishGenerating \/ CopyExpression)
        /\ (pc' = "copy" => StartRepeating)
    BY EndsWell
  <1>2. text = <<>> /\ phase = "read" /\ text' = <<>> /\ phase' = "read"
    BY <1>1 DEF RepeatInv, vars
  <1>3. ASSUME pc' = "copy" PROVE File' = <<>>
    <2>1. /\ files' = [files EXCEPT ![args.dest] = <<>>] /\ args' = args
          /\ args.dest \in Openable
      BY <1>1, <1>3 DEF StartRepeating, Exit, Exits
    <2>2. args.dest \in Names /\ files \in [Names -> Seq(FileTokens)]
      BY <2>1, GeneratorAssumption DEF GeneratorIInv, GeneratorTypeOK
    <2>3. QED
      BY <2>1, <2>2 DEF File
  <1>4. ASSUME Done' PROVE Prefix(File)'
    <2>1. args' = args /\ args.dest \in Names
      BY <1>1, <1>4 DEF FinishGenerating, CopyExpression, Exit, Exits, GeneratorIInv, Checked
    <2>2. files' \in [Names -> Seq(FileTokens)]
      BY GeneratorStepIInv DEF GeneratorIInv, GeneratorTypeOK
    <2>3. Len(File') \in Nat
      BY <2>1, <2>2 DEF File
    <2>4. QED
      BY <1>2, <2>3 DEF Prefix
  <1>5. ASSUME Done', args'.mode = "repeat" PROVE Repeats'
    <2>1. ~FinishGenerating
      BY <1>5 DEF FinishGenerating, Exits, GeneratorIInv, Checked
    <2>2. QED
      BY <1>1, <1>5, <2>1, CopyRepeats
  <1>6. QED
    BY <1>2, <1>3, <1>4, <1>5 DEF RepeatInv

\* One token is read at a time.
LEMMA OneRead ==
  ASSUME TypeOK, Next
  PROVE  text' = text \/ \E x \in Tokens : text' = Append(text, x)
  <1>1. ASSUME NEW kind \in Kinds, NEW n \in Numbers \cup {0}, Reads(kind, n)
        PROVE  \E x \in Tokens : text' = Append(text, x)
    <2>1. [kind |-> kind, value |-> n] \in Tokens
      BY DEF Tokens
    <2>2. QED
      BY <1>1, <2>1 DEF Reads
  <1>2. /\ Signs \subseteq Kinds /\ {"(", ")", "end", "bad", "number", "-"} \subseteq Kinds
        /\ 0 \in Numbers \cup {0}
    BY ParserAssumption DEF Kinds, Binary
  <1>3. CASE Read
    BY <1>1, <1>2, <1>3 DEF Read, ReadOpening, ReadClosing, ReadNumber, ReadMinus, ReadSign, ReadError
  <1>4. CASE Unwind \/ PushSign \/ Close \/ End \/ Finish
    BY <1>4 DEF Unwind, PushSign, Close, End, Finish
  <1>5. QED
    BY <1>3, <1>4 DEF Next

\* Nothing is waited for, and nothing said, before a token is read.
LEMMA SomethingRead ==
  ASSUME TypeOK, Next, phase # "read" => text # <<>>
  PROVE  text' # <<>>
  <1>1. CASE phase = "read"
    <2>1. Read
      BY <1>1 DEF Next, Unwind, PushSign, Close, End, Finish
    <2>2. PICK kind, n : text' = Append(text, [kind |-> kind, value |-> n])
      BY <2>1 DEF Read, ReadOpening, ReadClosing, ReadNumber, ReadMinus, ReadSign, ReadError, Reads
    <2>3. text \in Seq(Tokens)
      BY DEF TypeOK
    <2>4. QED
      BY <2>2, <2>3
  <1>2. CASE phase # "read"
    <2>1. CASE text' = text
      BY <1>2, <2>1
    <2>2. CASE \E x \in Tokens : text' = Append(text, x)
      BY <2>2, Pushed DEF TypeOK
    <2>3. QED
      BY <2>1, <2>2, OneRead
  <1>3. QED
    BY <1>1, <1>2

\* There is a value only at the end of the text.
LEMMA ValueAtEnd ==
  ASSUME TypeOK, BeginningSeen, Next, phase' \in {"finish", "value"},
         phase = "finish" => text # <<>> /\ Last(text).kind = "end"
  PROVE  text' = text /\ text # <<>> /\ Last(text).kind = "end"
  <1>1. ~Read
    BY DEF Read, ReadOpening, ReadClosing, ReadNumber, ReadMinus, ReadSign, ReadError, Invalid
  <1>2. ~Unwind /\ ~PushSign /\ ~Close
    BY DEF Unwind, Apply, PushSign, Close, Invalid
  <1>3. CASE End
    BY <1>3 DEF End, BeginningSeen
  <1>4. CASE Finish
    BY <1>4 DEF Finish
  <1>5. QED
    BY <1>1, <1>2, <1>3, <1>4 DEF Next

\* The parser goes on.
LEMMA CalculateRepeats ==
  ASSUME BalancedInv, RepeatInv, Calculate
  PROVE  RepeatInv'
  <1>1. /\ Done /\ Next /\ UNCHANGED generatorVars
        /\ TypeOK /\ BeginningSeen
    BY DEF Calculate, Done, BalancedInv, IInv, BalanceInv
  <1>2. UNCHANGED <<files, args, pc, code>> /\ Done' /\ File' = File
    BY <1>1 DEF generatorVars, Done, File
  <1>3. Repeats => Repeats'
    BY <1>2 DEF Repeats
  <1>4. /\ phase' # "read" => text' # <<>>
        /\ phase' \in {"finish", "value"} => Last(text').kind = "end"
    BY <1>1, SomethingRead, ValueAtEnd DEF RepeatInv
  <1>5. Prefix(File)'
    <2>1. Prefix(File) /\ text \in Seq(Tokens)
      BY <1>1 DEF RepeatInv, TypeOK
    <2>2. CASE text' = text
      BY <1>2, <2>1, <2>2 DEF Prefix
    <2>3. CASE \E x \in Tokens : text' = Append(text, x)
      <3>1. PICK x \in Tokens : text' = Append(text, x)
        BY <2>3
      <3>2. /\ Len(text') = Len(text) + 1 /\ Len(text) \in Nat
            /\ \A i \in 1 .. Len(text) : text'[i] = text[i]
        BY <2>1, <3>1, Pushed
      <3>3. text' # text
        BY <3>2
      <3>4. Len(text') <= Len(File) /\ text'[Len(text')] = File[Len(text')]
        BY <3>3 DEF Calculate, Last
      <3>5. \A i \in 1 .. Len(text') : i \in 1 .. Len(text) \/ i = Len(text')
        BY <3>2
      <3>6. QED
        BY <1>2, <2>1, <3>2, <3>4, <3>5 DEF Prefix
    <2>4. QED
      BY <1>1, <2>2, <2>3, OneRead
  <1>6. QED
    BY <1>1, <1>2, <1>3, <1>4, <1>5 DEF RepeatInv

\* Every step keeps it.
LEMMA StepRepeats ==
  ASSUME GeneratorIInv, BalancedInv, RepeatInv, [GeneratedNext]_<<generatorVars, vars>>
  PROVE  RepeatInv'
  <1>1. CASE GeneratorNext /\ UNCHANGED vars
    BY <1>1, ProgramRepeats
  <1>2. CASE Calculate
    BY <1>2, CalculateRepeats
  <1>3. CASE UNCHANGED <<generatorVars, vars>>
    <2>1. UNCHANGED <<files, args, pc, code, phase, text>>
      BY <1>3 DEF generatorVars, vars
    <2>2. QED
      BY <2>1 DEF RepeatInv, Done, File, Prefix, Repeats
  <1>4. QED
    BY <1>1, <1>2, <1>3 DEF GeneratedNext

\* With a value, the whole of the file was read.
LEMMA WholeRead ==
  ASSUME Prefix(File), text # <<>>, Last(text).kind = "end", TypeOK,
         NEW S, File \in Seq(S), \A k \in 1 .. Len(File) - 1 : File[k].kind # "end"
  PROVE  text = File
  <1>1. /\ text \in Seq(Tokens) /\ Len(text) \in Nat \ {0} /\ Len(File) \in Nat
        /\ Len(text) <= Len(File) /\ \A i \in 1 .. Len(text) : text[i] = File[i]
    BY DEF TypeOK, Prefix
  <1>2. File[Len(text)].kind = "end"
    BY <1>1 DEF Last
  <1>3. Len(text) = Len(File)
    BY <1>1, <1>2
  <1>4. /\ text = [i \in 1 .. Len(text) |-> text[i]]
        /\ File = [i \in 1 .. Len(File) |-> File[i]]
    BY <1>1
  <1>5. QED
    BY <1>1, <1>3, <1>4

\* Everything that is written can be read.
LEMMA FileTokensRead == FileTokens \subseteq Tokens
  BY GTokens DEF FileTokens

\* What the parser refuses has no value however it goes on, and a part of the
\* file goes on as the file.
LEMMA RefusedMeans ==
  ASSUME BalancedInv, Verdict, phase = "invalid", Prefix(File), File \in Seq(FileTokens)
  PROVE  TextMeaning(File).kind # "value"
  <1>1. text \in Seq(Tokens)
    BY DEF BalancedInv, IInv, TypeOK
  <1>2. File \in Seq(Tokens)
    <2>1. Len(File) \in Nat /\ \A i \in 1 .. Len(File) : File[i] \in Tokens
      BY FileTokensRead
    <2>2. File = [i \in 1 .. Len(File) |-> File[i]]
      OBVIOUS
    <2>3. QED
      BY <2>1, <2>2
  <1>3. GoesOn(text, File)
    BY <1>1, <1>2 DEF GoesOn, Prefix
  <1>4. QED
    BY <1>2, <1>3 DEF Verdict, Hopeless

\* The parser gives what it read its meaning, and what it read is the file.
LEMMA AcceptedMeans ==
  ASSUME BalancedInv, RepeatInv, Verdict, Done, phase = "value", File \in Seq(FileTokens),
         TextMeaning(File).kind = "value", \A k \in 1 .. Len(File) - 1 : File[k].kind # "end"
  PROVE  TextMeaning(File) = ValueOf(answer)
  <1>1. Prefix(File) /\ text # <<>> /\ Last(text).kind = "end" /\ TypeOK
    BY DEF RepeatInv, BalancedInv, IInv
  <1>2. text = File
    BY <1>1, WholeRead
  <1>3. QED
    BY <1>2 DEF Verdict

\* An expression within brackets that is repeated is given its value, or zero.
LEMMA RepeatedIsRight ==
  ASSUME BalancedInv, RepeatInv, Verdict
  PROVE  RepeatedIsValueOrZero
  <1> DEFINE s == WithoutEnd(files[args.from])
             t == Append(s, Symbol("end"))
             v == TextMeaning(t).value
             copies == Len(File) \div (Len(s) + 1)
  <1>1. SUFFICES ASSUME args.mode = "repeat", phase \in {"value", "invalid"}, Wrapped(s),
                        TextMeaning(t).kind = "value"
                 PROVE  phase = "value" /\ answer = IF copies % 2 = 1 THEN v ELSE 0
    BY Zenon DEF RepeatedIsValueOrZero
  <1>2. Done /\ text # <<>>
    BY <1>1 DEF RepeatInv
  <1>3. Prefix(File) /\ Repeats /\ TypeOK
    BY <1>1, <1>2 DEF RepeatInv, BalancedInv, IInv
  <1>4. s \in Seq(FileTokens)
    <2>1. files[args.from] \in Seq(FileTokens) /\ Len(files[args.from]) > 0
      BY <1>3 DEF Repeats
    <2>2. QED
      BY <2>1 DEF WithoutEnd, Front
  <1>5. PICK n \in Nat : File = IF n = 0 THEN <<>> ELSE Append(Repeated(s, n), Symbol("end"))
    BY <1>3 DEF Repeats
  <1>6. n \in Nat \ {0} /\ File = Append(Repeated(s, n), Symbol("end"))
    <2>1. Len(text) > 0 /\ Len(text) <= Len(File)
      BY <1>2, <1>3 DEF Prefix, TypeOK
    <2> HIDE DEF s
    <2>2. n # 0
      BY <1>5, <2>1
    <2>3. QED
      BY <1>5, <2>2
  <1>7. PICK u : u = File
    OBVIOUS
  <1> HIDE DEF s, t
  <1>8. t = Append(s, Symbol("end")) /\ u = Append(Repeated(s, n), Symbol("end"))
    BY <1>6, <1>7 DEF t
  <1>9. /\ TextMeaning(u) = ValueOf(IF n % 2 = 1 THEN v ELSE 0)
        /\ \A k \in 1 .. Len(u) - 1 : u[k].kind # "end"
        /\ Len(u) \div (Len(s) + 1) = n
    BY <1>1, <1>4, <1>6, <1>8, RepeatedMeans
  <1>10. u \in Seq(FileTokens)
    BY <1>4, <1>6, <1>8, RepeatedCopies
  <1>11. TextMeaning(u).kind = "value"
    BY <1>9 DEF ValueOf
  <1>12. phase = "value"
    BY <1>1, <1>3, <1>7, <1>10, <1>11, RefusedMeans
  <1>13. TextMeaning(u) = ValueOf(answer)
    BY <1>2, <1>7, <1>9, <1>10, <1>11, <1>12, AcceptedMeans
  <1>14. answer = IF n % 2 = 1 THEN v ELSE 0
    BY <1>9, <1>13 DEF ValueOf
  <1>15. copies = n
    BY <1>7, <1>9
  <1>16. QED
    BY <1>12, <1>14, <1>15, Zenon

\* An expression within brackets that has a value, repeated by the program, is
\* not refused: the calculator gives it that value if the number of copies is
\* odd, and zero if it is even, whatever the expression and the size.
THEOREM RepeatedStaysRight == GeneratedSpec => []RepeatedIsValueOrZero
  <1>1. GeneratedInit => RepeatInv /\ GeneratorInit /\ Init
    BY InitRepeats DEF GeneratedInit
  <1>2. [GeneratedNext]_<<generatorVars, vars>> => [GeneratorNext]_generatorVars /\ [Next]_vars
    BY DEF GeneratedNext, Calculate
  <1>3. GeneratorIInv /\ BalancedInv /\ RepeatInv /\ [GeneratedNext]_<<generatorVars, vars>> => RepeatInv'
    BY StepRepeats
  <1>4. BalancedInv /\ RepeatInv /\ Verdict => RepeatedIsValueOrZero
    BY RepeatedIsRight
  <1>5. GeneratedSpec => GeneratorSpec /\ Spec
    BY <1>1, <1>2, PTL DEF GeneratedSpec, GeneratorSpec, Spec
  <1>6. QED
    BY <1>1, <1>3, <1>4, <1>5, GeneratorInvariance, VerdictInvariance, PTL
       DEF GeneratedSpec
=============================================================================
