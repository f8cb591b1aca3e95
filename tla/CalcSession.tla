----------------------------- MODULE CalcSession -----------------------------
(***************************************************************************)
(* One connection: network::detail::tcp_calc_session and its base           *)
(* (src/calculator/server.cpp), the calc_handle it owns                     *)
(* (src/calculator/calc_handle.h) and, below them, the calculator itself,   *)
(* all of AsyncCalculator's worker steps included.                          *)
(*                                                                         *)
(* Completion handlers run on a strand: one at a time, but in no particular *)
(* order, for the threads of the io_service pick completions up             *)
(* concurrently before they reach the strand.  A handler is cut wherever it *)
(* reads something another thread may write (an atomic of the calculator,   *)
(* m_buffer) and wherever it blocks.  The calculator is used without the    *)
(* discipline of AsyncCalculator's own Caller: start() may meet a thread    *)
(* that is still leaving calculate().                                       *)
(***************************************************************************)
EXTENDS AsyncCalculator, SequencesExt

CONSTANTS
  CarriageReturn,   \* '\r': ends an expression, but is not what on_data() looks for
  Scripts,          \* the requests a client may send on its connection, in order
  BufferSize,       \* bound: the characters m_buffer holds (8192 in the code)
  Faults            \* what else may happen: a subset of {"stop", "reset", "slow"}

NetChars == Chars \cup {CarriageReturn}

ASSUME SessionAssumption ==
  /\ CarriageReturn \notin Chars
  /\ Scripts \subseteq Seq(Seq(NetChars))
  /\ BufferSize \in Nat \ {0}
  /\ Faults \subseteq {"stop", "reset", "slow"}

VARIABLES
  script, sent,   \* the client's requests and how many of them it has sent
  peer,           \* the client's end: "open", "closed" or "reset"
  inbox,          \* sent by the client, not read by the session
  replies,        \* answers written to the socket
  reads,          \* outstanding async_read_some operations
  buffer,         \* m_buffer
  ready,          \* completions not yet on the strand, in any order
  strand,         \* where the handler on the strand is
  task,           \* the completion it handles
  complete,       \* its transmit_complete
  newData,        \* new_data of calc_handle::on_data
  future,         \* m_result: the thread it belongs to, or NoWorker
  started,        \* the thread start() made, before it is assigned to m_result
  finished,       \* m_finished
  stopAsked       \* history: stop() was called

client  == <<script, sent, peer>>
network == <<inbox, replies, reads, buffer, ready>>
local   == <<task, complete, newData, started>>
session == <<client, network, strand, local, future, finished, stopAsked>>
all     == <<vars, session>>

\* A completion: bytes read, end of file, an error, or a write that is done.
Completions == [kind : {"data", "eof", "error", "written"}, size : Nat]
Idle == [kind |-> "written", size |-> 0]

\* What is sent of a string that was destroyed before it was.
Garbled == [kind |-> "garbled", value |-> <<>>]

ConnectionTypeOK ==
  /\ script \in Scripts /\ sent \in 0 .. Len(script)
  /\ peer \in {"open", "closed", "reset"}
  /\ inbox \in Seq(NetChars) /\ buffer \in Seq(NetChars) /\ newData \in Seq(NetChars)
  /\ replies \in Seq(Outcomes \cup {Garbled})
  /\ reads \in Nat
  /\ ready \in Seq(Completions)
  /\ strand \in {"idle", "check", "last", "copy", "test", "add", "start", "assign",
                 "result", "next", "restart", "release", "destroyed", "terminated"}
  /\ task \in Completions
  /\ complete \in BOOLEAN /\ finished \in BOOLEAN /\ stopAsked \in BOOLEAN
  /\ future \in Workers \cup {NoWorker} /\ started \in Workers \cup {NoWorker}

SessionTypeOK == TypeOK /\ ConnectionTypeOK

\* accept: start() resets the calculator and issues the first read.
SessionInit ==
  /\ Init
  /\ script \in Scripts /\ sent = 0 /\ peer = "open"
  /\ inbox = <<>> /\ replies = <<>> /\ reads = 1 /\ buffer = <<>> /\ ready = <<>>
  /\ strand = "idle" /\ task = Idle /\ complete = FALSE /\ newData = <<>>
  /\ future = NoWorker /\ started = NoWorker
  /\ finished = FALSE /\ stopAsked = FALSE

-----------------------------------------------------------------------------
(* The client and the network                                                *)

\* A client waits for its answer before it sends the next request.
SendRequest ==
  /\ peer = "open" /\ sent < Len(script)
  /\ Len(replies) >= sent
  /\ inbox' = inbox \o script[sent + 1]
  /\ sent' = sent + 1
  /\ UNCHANGED <<vars, script, peer, replies, reads, buffer, ready, strand, local,
                 future, finished, stopAsked>>

\* The client sends nothing more; it can still receive.
CloseConnection ==
  /\ peer = "open"
  /\ peer' = "closed"
  /\ UNCHANGED <<vars, script, sent, network, strand, local, future, finished, stopAsked>>

\* The connection breaks; what was not read is lost.
ResetConnection ==
  /\ "reset" \in Faults /\ peer # "reset"
  /\ peer' = "reset" /\ inbox' = <<>>
  /\ UNCHANGED <<vars, script, sent, replies, reads, buffer, ready, strand, local,
                 future, finished, stopAsked>>

\* m_buffer after n characters of the inbox were read into its beginning.
Overlaid(n) ==
  [i \in 1 .. (IF n > Len(buffer) THEN n ELSE Len(buffer)) |->
     IF i <= n THEN inbox[i] ELSE buffer[i]]

\* One outstanding read completes; every read has the same buffer.
ReadData ==
  /\ reads > 0 /\ peer # "reset"
  /\ \E n \in 1 .. BufferSize :
       /\ n <= Len(inbox)
       /\ buffer' = Overlaid(n)
       /\ inbox' = SubSeq(inbox, n + 1, Len(inbox))
       /\ ready' = Append(ready, [kind |-> "data", size |-> n])
  /\ reads' = reads - 1
  /\ UNCHANGED <<vars, client, replies, strand, local, future, finished, stopAsked>>

ReadEnd ==
  /\ reads > 0 /\ peer # "open" /\ inbox = <<>>
  /\ ready' = Append(ready, [kind |-> IF peer = "closed" THEN "eof" ELSE "error", size |-> 0])
  /\ reads' = reads - 1
  /\ UNCHANGED <<vars, client, inbox, replies, buffer, strand, local, future, finished, stopAsked>>

-----------------------------------------------------------------------------
(* The handlers                                                              *)

\* The strand takes any of the completions that are ready.
Dispatch ==
  /\ strand = "idle"
  /\ \E i \in 1 .. Len(ready) :
       /\ task' = ready[i]
       /\ ready' = RemoveAt(ready, i)
       /\ strand' = (CASE ready[i].kind = "written" -> "restart"
                       [] ready[i].kind = "error" -> "idle"
                       [] OTHER -> "check")
  /\ UNCHANGED <<vars, client, inbox, replies, reads, buffer, complete, newData,
                 started, future, finished, stopAsked>>

\* abstract_calc_session::on_data: the calculator's error flag is read once.
CheckError ==
  /\ strand = "check"
  /\ strand' = (IF errorOccured THEN "result" ELSE IF task.size > 0 THEN "last" ELSE "next")
  /\ complete' = FALSE
  /\ UNCHANGED <<vars, client, network, task, newData, started, future, finished, stopAsked>>

\* The last character of what was read decides whether the request is complete.
\* end-of-file never comes with data, so on_data() adds no newline of its own.
LastCharacter ==
  /\ strand = "last"
  /\ complete' = (buffer[task.size] = End)
  /\ strand' = "copy"
  /\ UNCHANGED <<vars, client, network, task, newData, started, future, finished, stopAsked>>

\* Mutant: all of m_buffer is copied, whatever the size read.
CopyData_WholeBuffer ==
  /\ strand = "copy"
  /\ newData' = buffer
  /\ strand' = "test"
  /\ UNCHANGED <<vars, client, network, task, complete, started, future, finished, stopAsked>>

\* The characters are copied out of m_buffer, where another read may have put
\* others since.
CopyData ==
  /\ strand = "copy"
  /\ newData' = SubSeq(buffer, 1, task.size)
  /\ strand' = "test"
  /\ UNCHANGED <<vars, client, network, task, complete, started, future, finished, stopAsked>>

\* calc_handle::on_data: running(), and then a call that relies on it.
TestRunning ==
  /\ strand = "test"
  /\ strand' = (IF running THEN "add" ELSE "start")
  /\ UNCHANGED <<vars, client, network, local, future, finished, stopAsked>>

\* '\r' and '\n' are one and the same to the parser.
Parsed(text) == [i \in 1 .. Len(text) |-> IF text[i] = CarriageReturn THEN End ELSE text[i]]

\* Mutant: every part of a request is answered at once.
AfterFeeding_EveryPart == "result"

AfterFeeding == IF complete THEN "result" ELSE "next"

\* No handler catches: an exception leaves io_service::run() and ends the process.
Add ==
  /\ strand = "add"
  /\ \/ AddExprPart(Parsed(newData)) /\ strand' = AfterFeeding
     \/ ~running /\ strand' = "terminated" /\ UNCHANGED vars
  /\ UNCHANGED <<client, network, local, future, finished, stopAsked>>

StartCalculation ==
  /\ strand = "start"
  /\ \/ /\ \E w \in Workers \ {future} : Start(w, Parsed(newData)) /\ started' = w
        /\ strand' = "assign"
     \/ StartThrows(Parsed(newData)) /\ strand' = "terminated" /\ UNCHANGED started
  /\ UNCHANGED <<client, network, task, complete, newData, future, finished, stopAsked>>

\* m_result = ...: the old future of std::async waits for its thread.
AssignResult ==
  /\ strand = "assign"
  /\ future # NoWorker => Ready(future)
  /\ future' = started /\ started' = NoWorker
  /\ strand' = AfterFeeding
  /\ UNCHANGED <<vars, client, network, task, complete, newData, finished, stopAsked>>

\* Mutant: the answer is taken without waiting for the future.
WriteResult_NoWait ==
  /\ strand = "result"
  /\ replies' = Append(replies, IF future = NoWorker THEN NoOutcome ELSE outcome[future])
  /\ future' = NoWorker
  /\ ready' = Append(ready, [kind |-> "written", size |-> 0])
  /\ strand' = "next"
  /\ UNCHANGED <<vars, client, inbox, reads, buffer, local, finished, stopAsked>>

\* write() refers to a string that write_result() destroys: it is gone if the
\* socket does not take all of it at once.
Sent(result) == {result} \cup (IF "slow" \in Faults THEN {Garbled} ELSE {})

\* write_result(): get_result() blocks on the future and uses it up; without
\* one it says "No calculation was done".  The write is asynchronous.
WriteResult ==
  /\ strand = "result"
  /\ future # NoWorker => Ready(future)
  /\ \E reply \in Sent(IF future = NoWorker THEN NoOutcome ELSE outcome[future]) :
       replies' = Append(replies, reply)
  /\ future' = NoWorker
  /\ ready' = Append(ready, [kind |-> "written", size |-> 0])
  /\ strand' = "next"
  /\ UNCHANGED <<vars, client, inbox, reads, buffer, local, finished, stopAsked>>

\* Mutants: only an answered request is read on; end of file is not remembered.
ReadNext_OnlyAfterAnswer ==
  /\ strand = "next"
  /\ IF task.kind = "eof"
     THEN finished' = TRUE /\ UNCHANGED reads
     ELSE reads' = (IF complete THEN reads + 1 ELSE reads) /\ UNCHANGED finished
  /\ strand' = "idle"
  /\ UNCHANGED <<vars, client, inbox, replies, buffer, ready, local, future, stopAsked>>

ReadNext_NeverFinished ==
  /\ strand = "next"
  /\ reads' = (IF task.kind = "eof" THEN reads ELSE reads + 1)
  /\ strand' = "idle"
  /\ UNCHANGED <<vars, client, inbox, replies, buffer, ready, local, future, finished, stopAsked>>

\* The end of on_data: read on, or remember that the client is gone.
ReadNext ==
  /\ strand = "next"
  /\ IF task.kind = "eof"
     THEN finished' = TRUE /\ UNCHANGED reads
     ELSE reads' = reads + 1 /\ UNCHANGED finished
  /\ strand' = "idle"
  /\ UNCHANGED <<vars, client, inbox, replies, buffer, ready, local, future, stopAsked>>

\* The write is done: start() again, that is reset() and another read.
Restart ==
  /\ strand = "restart"
  /\ \/ Reset /\ strand' = "idle" /\ reads' = reads + 1
     \/ running /\ strand' = "terminated" /\ UNCHANGED <<vars, reads>>
  /\ UNCHANGED <<client, inbox, replies, buffer, ready, local, future, finished, stopAsked>>

\* Mutant: the destructor does not abort.
Destruct_NoAbort ==
  /\ strand = "idle" /\ reads = 0 /\ ready = <<>>
  /\ finished \/ stopAsked
  /\ strand' = "release"
  /\ UNCHANGED <<vars, client, network, local, future, finished, stopAsked>>

\* The server drops a session once it is finished, or at stop(); the last
\* handler to refer to it is over.  The destructor aborts what still runs.
Destruct ==
  /\ strand = "idle" /\ reads = 0 /\ ready = <<>>
  /\ finished \/ stopAsked
  /\ strand' = "release"
  /\ Abort \/ (~running /\ UNCHANGED vars)
  /\ UNCHANGED <<client, network, local, future, finished, stopAsked>>

\* It waits for the future, as does ~calc_handle, whose m_result goes before
\* the calculator that the thread works on.
Release ==
  /\ strand = "release"
  /\ future # NoWorker => Ready(future)
  /\ future' = NoWorker /\ strand' = "destroyed"
  /\ UNCHANGED <<vars, client, network, local, finished, stopAsked>>

\* stop() of the server, from the thread that handles the signal.
Stop ==
  /\ "stop" \in Faults /\ ~stopAsked
  /\ strand \notin {"release", "destroyed"}
  /\ stopAsked' = TRUE
  /\ Abort \/ (~running /\ UNCHANGED vars)
  /\ UNCHANGED <<client, network, strand, local, future, finished>>

Handler ==
  \/ Dispatch \/ CheckError \/ LastCharacter \/ CopyData \/ TestRunning \/ Add \/ StartCalculation
  \/ AssignResult \/ WriteResult \/ ReadNext \/ Restart

Worker(w) == Step(w) /\ UNCHANGED session

SessionNext ==
  /\ strand # "terminated"
  /\ \/ SendRequest \/ CloseConnection \/ ResetConnection \/ ReadData \/ ReadEnd
     \/ Handler \/ Stop \/ Destruct \/ Release
     \/ \E w \in Workers : Worker(w) \/ (SpuriousWake(w) /\ UNCHANGED session)

SessionSpec == SessionInit /\ [][SessionNext]_all

\* The io_service, the network and the scheduler go on; the client need not.
SessionFairSpec ==
  /\ SessionSpec
  /\ WF_all(strand # "terminated" /\ (ReadData \/ ReadEnd))
  /\ WF_all(Handler) /\ WF_all(Release)
  /\ \A w \in Workers : WF_all(strand # "terminated" /\ Worker(w))

-----------------------------------------------------------------------------
(* Properties                                                                *)

\* What a request deserves: the value of what precedes the first character that
\* is no payload, or an error message if that is Bad.
Deserved(k) ==
  LET q == CHOOSE q \in 1 .. Len(script[k]) :
             script[k][q] \notin Payload /\ \A i \in 1 .. (q - 1) : script[k][i] \in Payload
  IN IF script[k][q] = Bad THEN [kind |-> "invalid", value |-> <<>>]
     ELSE [kind |-> "value", value |-> SubSeq(script[k], 1, q - 1)]

\* Every answer is the one its request deserves, however TCP cut the request
\* and whichever order the handlers ran in, and nobody gets more answers than
\* it sent requests (on_data, write_result).
AnswersRight ==
  \A k \in 1 .. Len(replies) : k <= sent /\ replies[k] = Deserved(k)

\* Whatever a client sends and whatever goes wrong, a thread that works on the
\* calculator is one the session can wait for: no thread outlives the session
\* whose calculator it uses (m_result, ~abstract_calc_session).
NoStrayThread == \A w \in Workers : Active(w) => w \in {future, started}

\* The calculator says it is running only while the thread of the last start()
\* works, or if that thread could not be created: parts are never queued for
\* nobody to read.
RunningIsWorked == running /\ current # NoWorker => Active(current)

\* No exception escapes from a handler into the io_service, which would end
\* the process with all its connections: add_expr_part(), reset() and start()
\* throw if the calculation ended, or began, since the handler looked.
NoCrash == strand # "terminated"

\* No handler holds its io thread for ever: it waits for a future only while
\* the thread behind that future ends by itself (m_result = ..., get_result()).
HandlersReturn == (strand \in {"assign", "result"}) ~> (strand \notin {"assign", "result"})

\* A client that sent a request and ended it gets an answer.
AnswerComes == (sent > 0 /\ Last(script[1]) = End) ~> (replies # <<>>)

\* Destroying a session never blocks the io thread for ever, even if the client
\* left in the middle of a request that its calculation still waits for.
DestructionEnds == (strand = "release") ~> (strand = "destroyed")

\* A client that sent all it wants to send and closed its side is answered,
\* even if the newline is missing (calc_handle.h:41, tests.cpp:184-187).
EndAnswers == (sent = Len(script) /\ peer = "closed") ~> (replies # <<>>)

\* The session of a client that is gone becomes finished, so that its slot in
\* the server is freed (m_finished).
Retires == (peer # "open") ~> finished
-----------------------------------------------------------------------------
(* Why the threads are kept track of: an invariant that every step preserves, *)
(* for any client and any fault.                                              *)

\* Every queued part lies in the text.
PartsInText ==
  \A i \in 1 .. Len(expressionParts) :
    expressionParts[i].from <= expressionParts[i].to /\ expressionParts[i].to <= Len(stream)

\* The thread of the last start() has not begun to leave calculate(): a thread
\* of an earlier start() can only clear m_running, never set it.
NotLeaving ==
  running /\ current # NoWorker => pc[current] \in Folding \cup {"finish", "err_running"}

\* No handler is told of more characters than m_buffer holds.
SizesInBuffer ==
  /\ \A i \in 1 .. Len(ready) : ready[i].size <= Len(buffer)
  /\ task.size <= Len(buffer)

\* A new thread is assigned to m_result by the handler that started it.
AssignedAtOnce == started # NoWorker => strand = "assign"

SessionInv ==
  /\ SessionTypeOK /\ PartsInText /\ NotLeaving
  /\ SizesInBuffer /\ AssignedAtOnce /\ NoStrayThread

(* Why the answers are right if every client sends one request: an invariant  *)
(* of the sessions that are not stopped and whose socket takes what is        *)
(* written.  (More requests, and the second read that start() issues, are     *)
(* what breaks it.)                                                           *)

OneRequestEach ==
  \A s \in Scripts :
    /\ Len(s) = 1 /\ Len(s[1]) > 1 /\ s[1][Len(s[1])] = End
    /\ \A i \in 1 .. (Len(s[1]) - 1) : s[1][i] \in Payload

request == script[1]

\* Read from the socket, but not yet handed to the calculator.
Unfed ==
  IF ready # <<>> THEN SubSeq(buffer, 1, ready[1].size)
  ELSE IF strand \in {"check", "last", "copy"} THEN SubSeq(buffer, 1, task.size)
  ELSE IF strand \in {"test", "add", "start"} THEN newData
  ELSE <<>>

\* What was fed, what was read and what was sent follow each other in the
\* request, and nothing is missing unless the connection broke.
TextFlows ==
  LET fed == Len(stream)  read == Len(stream) + Len(Unfed)  all_ == read + Len(inbox) IN
  /\ sent = 0 => all_ = 0
  /\ IF peer = "reset" THEN inbox = <<>> /\ read <= Len(request)
     ELSE sent = 1 => all_ = Len(request)
  /\ \A i \in 1 .. Len(stream) : stream[i] = request[i]
  /\ \A i \in 1 .. Len(Unfed) : Unfed[i] = request[fed + i]
  /\ \A i \in 1 .. Len(inbox) : inbox[i] = request[read + i]

Over == {"release", "destroyed"}

\* Until the answer, there is one read, one completion or one handler.
OneAtATime ==
  /\ reads + Len(ready) + (IF strand \in {"idle"} \cup Over THEN 0 ELSE 1) <= 1
  /\ \A i \in 1 .. Len(ready) :
       ready[i].kind # "written" /\ (ready[i].kind = "error" => ready[i].size = 0)

\* Until the answer, the handlers' view of the calculator is right.
Feeding ==
  /\ strand # "restart"
  /\ strand \notin Over => ~abortAsked /\ current = (IF strand = "assign" THEN started ELSE future)
  /\ current = NoWorker => ~running /\ ~errorOccured /\ stream = <<>>
  /\ current # NoWorker => lastFrom < Len(stream)
  /\ strand = "assign" => current # NoWorker /\ future = NoWorker
  /\ strand \in {"last", "copy"} => task.size > 0
  /\ strand = "copy" /\ complete => Len(stream) + task.size = Len(request)
  /\ strand \in {"test", "add", "start"} =>
       newData # <<>> /\ (complete => Len(stream) + Len(newData) = Len(request))
  /\ strand = "add" => current # NoWorker
  /\ strand = "start" => current = NoWorker
  /\ strand = "assign" /\ complete => Len(stream) = Len(request)
  /\ strand = "result" => Len(stream) = Len(request) /\ current # NoWorker

\* After the answer nothing is left to read or to calculate.
AnsweredOnce ==
  /\ replies = <<Deserved(1)>> /\ sent = 1 /\ inbox = <<>>
  /\ Quiescent /\ ~running /\ ~errorOccured /\ started = NoWorker
  /\ strand \in {"idle", "check", "next", "restart"} \cup Over
  /\ strand = "check" => task.size = 0
  /\ \A i \in 1 .. Len(ready) : ready[i].size = 0

\* Where the one request stands.
Standing ==
  IF strand = "terminated" THEN replies = <<>> /\ running /\ current = NoWorker
  ELSE IF replies = <<>> THEN TextFlows /\ OneAtATime /\ Feeding
  ELSE AnsweredOnce

RequestInv == SessionInv /\ IInv /\ Standing
=============================================================================
