# Verification of the network calculator

This directory models the calculation server of this repository (`src/calculator`), its big integers
and the generator of expressions (`src/generator`) in TLA+, checks the models with TLC on small
instances and proves theorems about them with TLAPS.  A model keeps all
of the control of the code (guards, early returns, error paths, what is done under which lock and in
which order) and abstracts its data to what the properties tell apart.

## The system

| Part | State | Operations | Hard behaviour | Correct if |
|---|---|---|---|---|
| `calc::async_calculator` (`calculator.h`) | two stacks, queue of parts, read position, three atomics, mutex, condition variable | `start`, `add_expr_part`, `abort`, `reset`; the thread in `calculate()` | caller and thread interleave; a locked queue beside unlocked flags; two exits, each with unlocked stores | the answer is that of the text, however it was cut; flags agree with it; no wake-up is lost |
| the parser in it (`calculator.h`, `calculator.cpp`) | operator and number stack | one turn of `parse_subexpression` per token | evaluation while reading; markers for brackets on the operator stack | agrees with the grammar; no `top()` of an empty stack |
| `calc::calc_handle` (`calc_handle.h`) | the calculator, a future | `on_data`, `get_result`, `reset`, `abort` | decides on a flag another thread writes; blocks | starts or continues the right calculation; hands an answer over once |
| `network::detail::tcp_calc_session` (`server.cpp`) | socket, buffer, strand, `m_finished` | `start`, `stop`, `on_socket_data`, write completion, destructor | completions in any order; several reads into one buffer; TCP cuts requests; destroyed in the middle of a request | one right answer per request; ends with its client; its destructor ends |
| `network::tcp_calc_server` (`server.cpp`) and the signal handler of `main.cpp` | waiting session, list of running sessions, acceptor, pool of io threads | `start`, `handle_connection`, `accept_next_connection`, `stop` | `handle_connection` takes no lock, `stop` does; blocked io threads | keeps the limit, keeps accepting, ends on a signal |
| big integers (`big_int/`) | blocks, length, sign | arithmetic, comparison, bits, shifts, digits, text, primitives | carries, borrows and wrap-around in a block; zero; an object that is operand and result | equal to integer arithmetic; one representation per number |
| generator (`generator.cpp`) and its command line (`main.cpp`) | size, open brackets, flags per bracket, files | `generate_expression`, `repeat_expression_for_size` | unsigned difference in the loop condition; stops after any action | what it writes has a value; the size is bounded; only the destination is written |
| logger, command line of the calculator, tests | - | - | - | - |

A client's bytes reach a session as completions of asynchronous reads.  The session hands them to its
handle, which starts a calculation or adds to the running one.  When the last byte of a read is a
newline the session blocks in `get_result()` until the thread of `calculate()` has made the future
ready, writes the answer, and the completion of the write resets the calculator and reads on.  The
server owns the sessions; every handler occupies one of `m_max_sessions` io threads.

## Modules

| Module | What it is |
|---|---|
| `CalculatorContract` | abstract: what a caller of the calculator may rely on |
| `AsyncCalculator` | the calculator: caller's operations, and every step of `calculate()` |
| `AsyncCalculatorProofs` | its inductive invariant and theorems; it implements `CalculatorContract` |
| `ExprParser` | the shunting-yard, token by token |
| `ExprParserProofs` | its stack discipline, the balance of texts with a value, that it evaluates as the grammar says and refuses nothing else, proved |
| `ExprReference` | the meaning of an expression by its grammar, without stacks |
| `CalcSession` | client, TCP, session and handle on top of `AsyncCalculator`'s thread |
| `CalcSessionProofs` | its types and its threads, proved for any requests and faults; the answer to one request |
| `CalcServer` | server, io threads and who occupies them, signal handler |
| `CalcServerProofs` | its safety properties, proved |
| `BigUnsigned` | natural numbers as blocks: every operation as an operator |
| `BigUnsignedProofs` | addition, subtraction, comparison, `++` and `--`, proved for every length and width |
| `BigUnsignedProductProofs` | multiplication, division and shifts, proved for every length and width |
| `BigUnsignedInABase` | digits of a number in a base, and its text |
| `IntegerRegisters` | abstract: objects that hold integers |
| `BigInteger` | signed numbers, and the calls of a program that uses a few of them |
| `BigIntegerRefinement` | the refinement mapping: it implements `IntegerRegisters` |
| `BigIntegerProofs` | signed arithmetic, normal numbers, comparison, conversion, text and the refinement, proved for every length and width |
| `Generator` | the generator program: arguments, random expression, repetition |
| `GeneratedExpression` | the generator, and then the parser reading what it wrote |
| `RepeatedExpression` | what a repeated expression is worth, by `ExprReference` |
| `GeneratedExpressionProofs` | the generator's loop, brackets, bound on the size and files, that the parser accepts what it writes, and what a repeated expression is worth, proved |
| `MC_...` | the instances TLC checks |

Operators whose comment begins with "Mutant" are deliberately wrong variants of the definition that
follows them; each property is known to fail under at least one of them.

### AsyncCalculator

Variables carry the names of the members (`running` is `m_running`, and so on).  A part is an interval
of the history variable `stream`, the whole text handed over since the last `start()`; `numbers` is the
payload folded into the stacks so far and `operatorStack` counts the markers of the outermost
expression.  A section under `m_mutex` is one action; what the code does without it is an action each
(`Peek`, `WipeOperators`, `WipeNumbers`, `WipeParts`, `ErrRunning`, `ErrFlag`, `ErrFinished`).  Blanks
are left out of a part, so a part can be empty.  The position in `parse_number()` that wraps below zero
and is incremented right after is one step.  Plain members used by two threads at once (which happens
only in `CalcSession`) are read and written atomically in the model; in C++ that is a data race, so what
the model shows going wrong there is a lower bound.

`Caller` is the use the tests make of the class: the next `start()` or `reset()` comes after the future
is ready, `add_expr_part()` and `abort()` come at any time.  `CalcSession` uses the same operations
without this discipline.

### ExprParser

The operator stack and the number stack are sequences with their top last.  A run of digits is one
token; the `'-'` of a negative number is a token, as `parse_number()` reads it.  Each turn of the loop in
`calc_subexpression()` is an action.  Numbers are unbounded and quotients are rounded down, as in
`BigInteger`.

### CalcSession

`strand` says where the handler on the strand is.  A handler is cut where it reads an atomic of the
calculator, looks at the last character of `m_buffer` (`LastCharacter`), copies it out (`CopyData`), or
blocks.  `ready` holds completions that io threads have taken but the strand has not; it is served in
any order, because `strand::wrap` orders handlers only once they get to the strand.  `Destruct` is the
end of the last reference to a session: what `abort()` does, and then the wait for the future
(`Release`).  `Sent` is what the peer gets of an answer: with `"slow"` among the `Faults` the socket
does not take it before the string is destroyed (`server.cpp:87`).  `Overlaid` puts a read over the
beginning of the shared buffer.  An exception that leaves a handler ends the process: `strand =
"terminated"`.  Clients wait for an answer before they send more.

### CalcServer

`handle_connection()` is cut at each access to what `stop()` writes: `Prune`, `Admit`, `Push`, `Renew`,
`AcceptNext`.  `stop()` is cut likewise but keeps `AcceptNext` out (`Locked`).  `m_running_sessions` is
a set: its order never matters and no session is in it twice.  Names of session objects are reused once
nothing refers to them (`Fresh`).

Every handler occupies one of the io threads (`Busy`, `IdleThread`): that of a connection, that of the
signal, and those of the sessions, one for each at most, because of their strands.  A session's handler
begins with `Receive` (`work = "data"`) and may go on to wait in `m_result = ...` or `get_result()`
(`work = "wait"`) until its calculation is over (`Return`).  Of the calculation only that much is kept
as decides whether the wait ends: it is `"open"` (waits for text), `"ending"` (ends by itself: its end
was fed, it failed, or it was aborted) or `"astray"`: started over one that had not left `calculate()`
yet, which then wipes its text or clears its flag, so that it may end or wait for ever (`StrayEnds`
without fairness).  `Outcomes` says what text does to it and `MayThrow` when an exception may leave the
handler: whatever `CalcSession` can do from a state that is abstracted that way.  `join_all()` (`Join`)
waits until no handler is at work and `run()` has returned, because the io_service was stopped or
nothing is outstanding (`Outstanding`).

### BigUnsigned, BigUnsignedInABase, BigInteger

A number is the sequence of its blocks, of `N` bits, the least significant first; `len` is its length.
`AddBlock`, `SubtractBlock` and `getShiftedBlock` are the bodies of the loops, with the wrap-around of
`Blk`; `Chain` runs one of them over the blocks with its carry.  Multiplication and division fold over
the bits as the loops of the code do.  Capacities are left out, because every operation writes the
blocks it allocates before it reads them; and so are aliases of a put-here operation, because those
compute into a temporary (`DTRT_ALIASED`).  Where two results are assigned (`divideWithRemainder`, a
move) the order of the assignments is in the action.  `CombineMagnitudes` are the operators of
`BigUnsigned`, which compute into an object of their own; `SubtractHere` is the put-here `subtract()`
called as such, the one that may clear its result and throw after that.  `BigInteger` is a program with
a few objects: it requests any call on any of them, each both operand and result if it likes, and one
action per operation serves it.  Lengths and shift counts are far from the limits of `int`.  Negating
the least value of a signed type is assumed to wrap (`BigInteger.cc:82`); in C++ that is undefined.

### Generator, GeneratedExpression

One action per branch of the loop in `generate_expression()`, with every random choice.  A file is a
sequence of tokens as `ExprParser` reads them; sizes count characters, a number having `Width[n]` of
them.  `Room` is the unsigned difference of `generator.cpp:160`, modulo `Modulus`.  Writing does not fail
once a file is open, because the code never asks.  `GeneratedExpression` lets `ExprParser` read the file
after a successful end, so that "accepted by the calculator" is what the model of the calculator says.
`RepeatedExpression` only adds the property that needs the meaning of an expression.

## Runs

| Run | Bounds | Shows |
|---|---|---|
| `calculator` | one thread at a time, parts of up to 2 characters, up to 3 queued, texts up to 4, failing threads | `ResultIsWhole`, `InvalidJustified`, `AbortedOnlyWhenAsked`, `SettledWhenReady`, `AssertHolds`; no lost wake-up (`Settles`); the contract is implemented (`ImplementsContract`) |
| `session` | one request, shorter or longer than the buffer of 2, ended by a newline or not; the session may be destroyed | the answer is right (`AnswersRight`); a request that is ended is answered (`AnswerComes`); no handler waits for ever (`HandlersReturn`); a client that left frees its slot (`Retires`); the destructor ends (`DestructionEnds`) |
| `session_any` | erroneous, double and telnet requests, resets, `stop()`, failing threads | `NoStrayThread`, `RunningIsWorked` |
| `server` | two slots, four session objects, all faults | `LimitKept`, `OneConnectionPerSession`, `ServesUntilStopped` |
| `server_live` | the same, failing threads | `KeepsAccepting`; who comes alone is served (`LoneClientServed`); a signal brings all threads home (`StopEnds`) |
| `parser` | all texts of up to 8 tokens over 0, 2, 3, all operators and brackets; 7 ways to go on | the value is that of the grammar (`EvaluatesRight`); nothing is refused that could still become an expression with a value (`RefusesHopelessOnly`); stack discipline; values only for balanced texts |
| `biginteger` | two objects, blocks of 2 bits, operands of up to 2 blocks, all calls | `ImplementsIntegers` (refinement of `IntegerRegisters`), `Normal`, `ComparesRight`, `PrintsRight`, `ConvertsRight` |
| `generator` | sizes up to 7, numbers of one and two digits; four sources, sizes up to 32; unusable files and arguments | only an empty bracket makes the calculator refuse a file (`OnlyEmptyBracketsRefused`); `RepeatedIsValueOrZero`, `RoomIsReal`, `BracketsTracked`, `LengthBounded`, `OthersKept`, `Answered` |

Why the bounds suffice: a queue of three parts and texts of four characters contain a part that is
empty, one that ends the text and one after it; one thread is all the calculator has as long as its
caller waits for the answer before it starts again, and two (in `session_any`) are all `std::async` can
have running for one handle, because assigning the future waits for the older one; a buffer of two cuts
a request of four in every way; with two slots a connection can be admitted, refused, and handled while
`stop()` runs; eight tokens hold a bracketed sum as operand of a product, and three operators in a row.
A text that was refused might have gone on (`Continuations`) with an operand or none, up to two
brackets, and its end, or not at all; the theorem `RefusesRightly` has no such bound.  Two blocks of two
bits hold every carry and borrow within a block, between blocks, and out of the number, shifts by less
and by more than a block, and quotients with and without correction.  Results of up to four blocks are
compared, printed and converted, and copied, but are not operands: the bound is `MaxBlocks`, in
`Request`.  Size 7 has room for a bracket in a bracket, for an operator in either of them, and for an
end in the middle of each.

The other runs show disagreements between the code and what its comments, assertions, documentation or
tests say; each ends in a violation of one property, and `PROJECT.json` quotes the line:

| Run | Property | What happens |
|---|---|---|
| `session_two_answers` | `AnswersRight` | after an answer two reads share the buffer; a later request is garbled (`server.cpp:75`, `116`) |
| `session_error_crash` | `NoCrash` | a calculation fails between `running()` and `add_expr_part()` (`calc_handle.h:44-46`): the exception ends the process |
| `server_assert` | `WaitingSessionExists` | `stop()` takes away the waiting session; the assertion at `server.cpp:241` fails |
| `generator_length` | `TwiceTheSize` | a file is longer than the `size * 2` of `tests.cpp:360` |

Further configurations, which are not among the runs of `PROJECT.json`, show more of the same kind, each
with `tlc -config <configuration>.cfg` on the `MC_` module that its name begins with:

| Configuration | Property | What happens |
|---|---|---|
| `MC_CalcSession_second_crash` | `NoCrash` | the next request is handled before the completion of the write, whose `reset()` then throws (`server.cpp:115`) |
| `MC_CalcSession_error_answers` | `AnswersRight` | while the error flag is set every completion is answered (`server.cpp:61`), so an error is answered more than once |
| `MC_CalcSession_error_hangs` | `HandlersReturn` | the rest of a request with an error starts a calculation (`calc_handle.h:53`) whose text the failed one wipes; its handler waits for ever |
| `MC_CalcSession_telnet` | `AnswersRight` | CR ends the expression (`calculator.cpp:74`); LF in a part of its own makes it invalid |
| `MC_CalcSession_slow_answer` | `AnswersRight` | the string that is being sent is destroyed when `write_result()` returns (`server.cpp:87`) |
| `MC_CalcSession_no_newline` | `EndAnswers` | no newline is added at the end of the stream, contrary to the comment at `calc_handle.h:41` and to `tests.cpp:187`: such a request is never answered |
| `MC_CalcSession_stop_assert` | `AssertHolds` | `stop()` in the middle of a request leads to two threads on one calculator; the assertion at `calculator.h:286` fails |
| `MC_CalcSession_stop_hangs` | `HandlersReturn` | the same, and a handler waits for ever for the second of them |
| `MC_CalcServer_accept` | `KeepsAccepting` | one failed accept and the server never accepts again (`server.cpp:196`) |
| `MC_CalcServer_broken` | `LoneClientServed` | sessions of broken connections are never finished (`server.cpp:129`); with all slots lost everybody is refused |
| `MC_ExprParser_malformed` | `MalformedRefused` | `(2)2*` is answered with 4, although `calculator.h:263-266` demands two operands of an operator |
| `MC_BigInteger_predictable` | `FailureLeavesZero` | a refused `subtract()` with a shorter minuend leaves its result as it was (`BigUnsigned.cc:190`, against `221`) |
| `MC_BigInteger_shift_zero` | `ZeroIsEmpty` | shifting zero by a block leaves leading zero blocks (`BigUnsigned.cc:617`, against `BigUnsigned.hh:102`) |
| `MC_GeneratedExpression_empty` | `GeneratedIsValid` | `2*()`: a bracket that makes the size is closed at once and the file is refused, against `tests.cpp:314-321` |

One more configuration passes: `MC_BigInteger_three` checks `ImplementsIntegers` of three objects with
operands of one block, so that the operands and the result of a call may all be different objects.

So the passing session runs are restricted to what the code handles: `session` to a request alone on its
connection, without a slow socket or `stop()`.  `session_any` says what still holds beyond that, and
`StopEnds` what is left for the server: it ends unless the process crashed or a calculation went astray,
which are the hazards of `MC_CalcSession_stop_assert`, `MC_CalcSession_stop_hangs` and `server_assert`.
`server_live` is restricted likewise to accepts that succeed and to connections that are closed and not
broken.  `NoCrash` and `AssertHolds` of a session hold for no interesting class of its clients and are
no property of a passing run.

What the code does and nothing in the repository speaks against is no run: an object moved to itself
keeps its magnitude with the sign of zero (`BigInteger.cc:23`; with `"self_move"` in `Misuses`, `Normal`
fails); an empty source is refused after the destination was emptied (`generator.cpp:215`); a
destination that is also the source is emptied before it is read; a source that ends with `"\r\n"` keeps
its `'\r'`, which is not modelled.

Deadlock checking is on for the calculator and for the big integers.  Elsewhere it is off: a client may
stop sending, a calculation may wait for its caller for ever, and a stopped process has no steps; that
things end which must is stated as liveness.

## Fairness

`AsyncCalculator!FairSpec`: weak fairness of each thread's own steps, as any scheduler gives; callers
owe nothing, and no spurious wake-up is assumed.  `CalcSession!SessionFairSpec`: the network delivers
what was sent, the io threads run handlers, calculation threads run; clients owe nothing.  `CalcSession`
destroys nothing by fairness, but a destructor that has begun goes on (`Release`).
`CalcServer!FairSpec`: threads run handlers that have begun, and calculations that can end do; the
handler of a signal gets its turn if an io thread is idle again and again (strong fairness: `run()`
takes handlers from a queue in the order they became ready, and newer ones cannot pass it over for
ever).  Nobody has to connect, to send, to leave or to raise a signal.
`GeneratedExpression!GeneratedSpec`: the one thread of the program, and then of the parser, runs.

## What is proved

`AsyncCalculatorProofs` proves, for every set of threads, alphabet and set of parts, that the invariants
of the run `calculator` hold in every state of `AsyncCalculator!Spec`.  The argument is one inductive
invariant, `IInv`.  None of the properties is inductive alone: that a value is the whole text needs to
know that what was folded is a prefix of the text (`Folded`), that the front part continues exactly
there (`FoldingInv`) and that the queued parts tile the rest without gaps (`Tiled`); that an end was the
last part needs `EndingInv`; and all of it needs that only one thread is at work (`Alone`), which is
where the caller's discipline enters.  `FlagsInv` follows the order in which the flags are written,
`WipedInv` the unlocked clean, `LeavingInv` remembers why the thread leaves.  The assumptions are the
named ones of the module: the three kinds of characters differ and parts are sequences of them.

It also proves (`Refinement`) that the calculator implements `CalculatorContract` as far as safety goes:
under the refinement mapping of `AsyncCalculator!Contract` the initial states are initial, and every
step is a step of the contract or leaves it alone.  Most steps of `calculate()` are not visible; the
ones that are are those that set the future (`Answers`), and there the invariant says that the answer is
the verdict on the text.  That the answer comes is liveness and stays with the run `calculator`.

`CalcSessionProofs` proves what holds of a session whatever its client sends, however TCP cuts it, with
any of the modelled faults and `stop()` at any moment: `SessionTypeOK`, `NoStrayThread` and
`RunningIsWorked`.  The invariant (`SessionInv`) needs where a handler may be while a thread runs:
`start()` of the calculator and the assignment of its future are in one handler (`AssignedAtOnce`), and
while the running flag is up its thread has not yet got beyond taking it down (`NotLeaving`).

It also proves `AnswersRight`, for any alphabet, buffer and request, and for any way to cut the request,
under two assumptions.  `OneRequestEach`: a connection carries one request, which is well-formed and
ended by a newline only.  `QuietFaults`: a broken connection is the only fault, so the socket takes an
answer at once and nobody stops the session.  (That a thread cannot be made is no fault here but always
possible.)  Both are needed: `session_two_answers` and `MC_CalcSession_slow_answer` show what fails
without the one and the other.  The inductive
invariant, `RequestInv`, has two halves.  Until the answer, the text of the calculator and what is
unread in the buffer, ready, or on the network are together the request (`TextFlows`), there is one
handler with something to do (`OneAtATime`), and where it stands says whether the calculation has been
started and whether its last part was added (`Feeding`); after it, the answer is the one deserved and
nothing that is still to come has text in it (`AnsweredOnce`).  The invariant of `AsyncCalculatorProofs`
holds throughout (`CalculatorUsedWell`), which is what makes the answer right: its lemmas about the
calculator's own steps are cited, and the steps that the session makes in its stead are shown to keep
the discipline its caller is assumed to have.

`ExprParserProofs` proves that the operator stack keeps a marker at its bottom until the end of the text
(`MarkerAtBottom`), so that no `top()` meets an empty stack, and that precedence rises along the stack
between markers (`StackOrdered`), for texts of any length over any numbers.

It is one inductive invariant with `TypeOK`: a pushed operator outranks the one below it because
the unwinding has just stopped there (`PushSignIInv`), and the swap of markers changes no operator
(`SwapKeepsSound`).

`OnlyBalancedTexts` proves `ValueIsBalanced`: a text with a value has matching brackets and one number
more than it has operators, although the code counts the numbers of the whole expression when it applies
an operator.  The invariant keeps two accounts (`Accounted`): every open bracket of the text has its
marker on the operator stack, and the whole expression one more; and every operator that is no longer on
the stack has made one number of two.  A `'-'` is a sign of a number exactly where an expression begins,
which the stack shows by its marker (`BeginningSeen`).  Counts are cardinalities of sets of places; how
a push, a pop and a swap of a marker change them is proved once (`PushCounted`, `PopCounted`,
`SwapCounted`).

`MeansWhatItSays` proves `EvaluatesRight`, the property the parser is there for: if a text that is
answered means something by the grammar of `ExprReference`, the answer is that meaning, for texts of any
length over any numbers.  `RefusesRightly` proves the converse, `RefusesHopelessOnly`: when a text is
refused, at its end or anywhere before, no continuation, of whatever length, would give it a value.  The
reference cuts a text at its last operator of the lowest precedence outside brackets, from the top down;
the parser goes from left to right.  They meet in the invariant (`MeaningInv`, with `BalancedInv` from
above): the two stacks cut the text read so far into pieces, one for each number, with the operators and
open brackets between them, and each number is what its piece means.  A piece may only be the right
operand of the operator before it, so nothing in it may bind as weakly (`Above`); a reduction joins two
pieces (`JoinMeans`), a closing bracket encloses one (`BracketMeans`), and neither changes the meaning
of what stands before.  A refusal is justified by what any text with a meaning is like: what each token
may follow, and that its brackets match (`MeantIsWellFormed`).  What was read so far either breaks that
for good (`ImproperIsHopeless`, `EndedIsHopeless`, `UnopenedIsHopeless`), or it divides by zero within a
piece that every continuation has in it (`Hopeless`, kept in `Verdict`).  The meaning is a recursive
function over stretches of a text, whose existence is proved first.

`CalcServerProofs` proves `LimitKept` and `OneConnectionPerSession` for any number of slots and session
objects, with any of the modelled faults and `stop()` at any moment.  `LimitKept` needs that there is
still room when an admitted session is pushed (`Room`), although `handle_connection()` holds no lock;
that follows because only one such handler is ever at work (`OneHandler`: the next accept is armed in
its last call) and `stop()` only takes sessions away.  `OneConnectionPerSession` needs that the session
the server is about to wait with is untouched between `Renew` and `AcceptNext` (`Renewed`).
`ServesUntilStopped` is proved if there is a slot at all (`MaxSessions # 0`).  `Join` asks whether
anything is outstanding; that something is follows from the signal, whose handler is `done` only after
it has stopped the io_service (`HasThreads`).

`GeneratedExpressionProofs` proves of the generator, for all sizes, numbers and files, that the unsigned
difference in the loop's condition never wraps and that the stack of flags has an entry for every open
bracket (`RoomIsReal`), that nothing but the destination is written (`OthersKept`), and the bound on the
size (`LengthBounded`).  The first is why the loop ends, and why its `top()` has something to read.  The
bound is not inductive: it needs that each counted character stands for two at most, with one to spare
after an operator (`Paired`), and that what is still missing at the end fits (`EndFits`).  Both hold
because a turn begins with `size < approx_max_size - brackets_to_close`.  `BracketsTracked` is proved as
well: the counter is what is open in the file, and a bracket is only closed in the loop when there is an
operator in it.  It needs that the flag on top of the stack tells the truth about the text after the
last bracket (`FlagIsTrue`).

It also proves `OnlyEmptyBracketsRefused` (`GeneratedIsAccepted`): whatever the size and the random
choices, the parser refuses a generated file only if an opening bracket stands right before a closing
one.  The exception is real and `MC_GeneratedExpression_empty` shows it: when the bracket makes the size, the
code that follows the loop closes it at once.  The invariant (`Whole`) meets in the text: the program
keeps the file of a certain shape (`Grown`: each token may follow the one before, `Follows`, and the
counter is the height of the open brackets, `Heights`), for which `next_actions` and the 1 after every
`'/'` are needed; and a text of that shape without an empty bracket takes the parser from the first
token to a value (`LegalIsAccepted`).  For the latter, `Stacks` relates the parser's two stacks to the
height of the text read: a marker for each open bracket, a left operand for each operator, and no
division that waits for a bracket, so that every division has the 1 on its right.  The only assumptions
are those of the modules, and that the parser knows the generator's numbers and operators.

`RepeatedStaysRight` proves `RepeatedIsValueOrZero`: an expression within brackets that has a value,
repeated for whatever size, is worth that value if the number of copies is odd, and zero if it is even.
By `EvaluatesRight` and `RefusesHopelessOnly` only the meaning of the file matters, and it is computed
copy by copy (`CopiesMean`): a copy means what the expression means wherever it stands
(`MeaningShifts`), and as it is within brackets the sign before it is the last one outside brackets.
`RepeatInv` carries through the program that the file is such a repetition, and through the parser that
what was read is the beginning of the file; a value is only given at an end of a line, and there is only
one (`MeantIsSensible`).

`BigUnsignedProofs` proves that `add`, `subtract`, `compareTo`, `operator ++` and `operator --` compute
what they should on the numbers that blocks stand for, for blocks of any width and numbers of any
length, and that results are canonical; that `subtract` refuses exactly the negative differences; and
that `compareTo` orders by value.  Carries and values are recursive functions over blocks, so the module
first proves that such functions exist (`Recursion`) and an induction over sets of naturals (`Induct`,
`InductDown`), from the well-foundedness of finite sets in the library.  One turn of a loop is right
because a block wraps at most once (`AddBlockRight`, `SubtractBlockRight`); `AddChain` and
`SubtractChain` carry this along the blocks, and `Summation` turns equations of blocks into equations of
numbers.  The only assumption is that a block has bits (`BlockAssumption`).

`BigUnsignedProductProofs` proves the same of `multiply`, `divideWithRemainder` and the shifts.  Both
loops run over the bits, and each turn handles a run of shifted blocks; the invariants are over the
turns.  Of a multiplication: the product so far, and the bits of the one factor that are left times the
other factor, are the whole product (`TurnValue`); of a division (`DivisionInv`): the quotient so far
times the divisor, and the remainder, are the dividend; the remainder is less than the divisor shifted
to the last bit that was tried; and the bits of the quotient below it are clear, so that setting one
adds what it stands for.  That bound also says that the blocks allotted suffice: no carry leaves the
last block of a product, the borrow of a turn is a verdict on the whole remainder though the turn reads
only the blocks from its own up (`RemainderParts`), and only the top block of a product, a quotient or a
shifted number can be zero, which is all that `zapLeadingZero` takes off.  A left shift of zero is
excluded from `LeftShiftIsRight`; there it is false, as `MC_BigInteger_shift_zero` shows.  The code
goes over bits and blocks with folds: `FoldExists` shows that the recursive function behind a fold
exists, and `MultiplyFolds` and `DivisionFolds` that it makes the turns in order.  Besides
`BlockAssumption` this module uses that powers of two double (`PowerAssumption`), which the provers do
not know.

`BigIntegerProofs` proves what a program with any number of objects relies on, for numbers of any
length.  First the operations: sums, differences and products are those of the integers (`SumIsRight`,
`ProductIsRight`), `++` and `--` cross zero (`StepIsRight`), and a quotient is rounded down whatever the
signs, with a remainder that has the sign of the divisor (`DivisionRoundsDown`): where the signs differ
the code decreases the dividend first and corrects both results, and that is right also for a dividend
of 1 and for a remainder that becomes zero.  Then the state: `Normal` holds if zero is not shifted and
no object is moved to itself (`NumbersStayNormal`; the two calls that `Misuses` names, for the first of
which `MC_BigInteger_shift_zero` shows a failure).  The inductive invariant, `IInv`, adds to it
that the call that is being made is one that the program may make (`CallIsMade`), because an operation
is only right for operands of the kind that its constructor or operator checked.  In every such state
comparison, equality and `bitLength` agree with the integers (`ComparisonStaysRight`), a conversion to a
primitive returns exactly the numbers that the type holds (`ConversionsStayRight`, two's complement and
the least number included), and text reads back as the number that was printed (`PrintingStaysRight`).
The latter needs that the room for digits, which the constructor estimates from the bits of the base, is
never too small (`RoomSuffices`: each turn takes at least so many bits off the number, `SplitShrinks`),
that the digits and what is left are a way to write the number after each turn (`SplitStates`), and that
a number has one representation (`OneRepresentation`).  Besides `IntegerAssumption`, which bounds only
what the program passes in, `LengthAssumption` says once more that powers of two double, up to the
length in bits of the numbers that `ComparesRight` speaks of.

Last, the refinement: `ArithmeticIsOfIntegers` proves that `BigInteger` implements `IntegerRegisters`,
in which objects hold integers and a call computes with those.  The mapping is `Held`, a sign times the
number that blocks stand for, and the same `IInv` carries the proof: one lemma for each action
(`CombineServes` to `ParseServes`) shows that it throws just where the abstract call is refused and else
assigns what that one assigns (`ThrowServes`, `ReturnServes`), also where a dividend is the object that
receives the quotient, and where an object is moved from.  What is new under them are the operations
that work with the representation.  `BitwiseIsRight`: `bitAnd`, `bitOr` and `bitXor` make the number
whose bits are given by the bits of the operands, where `IntegerRegisters` finds those by division
(`BitsOfNumber`, by taking a number apart bit by bit, `HighPartSteps`) and the code by shifting within
blocks; the blocks above the shorter operand add no bit (`NoBits`).  `SettingIsRight`: `setBit` and
`setBlock` change one digit, of base two or of the base of the blocks, and no other.  `ShiftIsRight`: a
shift by a negative count is one in the other direction, and one to the right rounds down.  `FloorIs`: a
quotient that is rounded down, with a remainder of the divisor's sign, is the one that
`IntegerRegisters` defines by `\div`.  `PrimitiveIsRight`: the least number of a signed type keeps its
magnitude, which the type does not hold.  `DataIsRight` and `TextValue`: blocks, pieces of blocks
(`PackedFacts`) and symbols are read as the numbers that they are digits of, zeros in front or not.

Only model-checked: liveness, and with it the liveness of `CalculatorContract`, which the provers cannot
reason about under fairness.  Every safety invariant and action property of the passing runs,
`ImplementsIntegers`, and the safety of `CalculatorContract` are theorems.

## Not modelled

The logger only prints.  The calculator's command line parses options and keeps no state.  The tests are
read as a statement of intent.  Within the modelled parts: partial writes to a socket; overflow of
fixed-width number types of other calculators than `BigInteger`; corruption of members by unsynchronised
access (a member is read and written whole); capacities of arrays of blocks and the streams in
`BigIntegerUtils`; errors while a file is written; a server with no slot at all, because
`hardware_concurrency()` is unknown (then `start()` returns at once and `ServesUntilStopped` fails).

## Plan

1. Done: every component but those above.
2. `CalcSystem`: `CalcServer` with `CalcSession` for each of its sessions, to show that `Outcomes`,
   `MayThrow` and the three states of a calculation stand for what sessions do, and the destruction of
   sessions that are still there when `start()` returns.
3. Done: proofs of the safety of `CalculatorContract`, of `CalcSession`, of `ValueIsBalanced`, of
   `EvaluatesRight`, of `RefusesHopelessOnly`, of `BracketsTracked`, of `OnlyEmptyBracketsRefused` and
   of `RepeatedIsValueOrZero`.
4. Done: proofs of the arithmetic of `BigUnsigned`, of the properties of `BigInteger`, of its text, and
   of `ImplementsIntegers`.
