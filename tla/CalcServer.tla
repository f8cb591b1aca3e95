------------------------------ MODULE CalcServer ------------------------------
(***************************************************************************)
(* network::abstract_calc_server and tcp_calc_server                        *)
(* (src/calculator/server.cpp), and the part of main() that stops them      *)
(* (src/calculator/main.cpp).                                               *)
(*                                                                         *)
(* start() arms the first accept, makes one io thread per possible session  *)
(* and joins them.  handle_connection() takes no lock, so it is cut at each *)
(* access to what stop() writes; stop() holds m_mutex, which only           *)
(* accept_next_connection() takes too.                                      *)
(*                                                                         *)
(* Every handler occupies an io thread for as long as it runs, those of the *)
(* sessions too, which may wait for a calculation (calc_handle.h).  What a  *)
(* session and its calculator do is CalcSession; here a handler does one of *)
(* the things it may do there, and a calculation is only waiting for text,  *)
(* ending by itself, or astray: started over one that had not left yet,     *)
(* which may take its text or clear its flag, so that it need not end.      *)
(* A session object nobody refers to may be used again under the same name. *)
(***************************************************************************)
EXTENDS Naturals, FiniteSets

CONSTANTS
  Sessions,     \* names of session objects
  NoSession,    \* a null shared_ptr
  MaxSessions,  \* m_max_sessions
  Faults        \* what may go wrong, a subset of FaultKinds

\* An accept fails, a connection breaks, an io thread cannot be made, a client
\* sends an expression with an error, or a second one.
FaultKinds == {"accept", "reset", "spawn", "unruly"}

ASSUME ServerAssumption ==
  /\ NoSession \notin Sessions
  /\ MaxSessions \in Nat
  /\ Faults \subseteq FaultKinds

VARIABLES
  mainPc,           \* where start() is, then how the process ended
  threads,          \* io threads made so far
  ioStopped,        \* io_service::stop() was called
  acceptorOpen,
  accepting,        \* the session of the pending async_accept, or NoSession
  waitingSession,   \* m_waiting_session
  runningSessions,  \* m_running_sessions; a set: its order never matters
  client,           \* of each session object: its client, as far as the session knows
  calculation,      \* of each session object: what its calculator does
  work,             \* of each session object: where its handler is
  handlerPc,        \* where handle_connection() is
  handled,          \* the session it was called with
  stopPc            \* the signal, then where its handler is

pool     == <<mainPc, threads, ioStopped>>
acceptor == <<acceptorOpen, accepting>>
lists    == <<waitingSession, runningSessions>>
handler  == <<handlerPc, handled>>
sessions == <<client, calculation, work>>
vars == <<pool, acceptor, lists, sessions, handler, stopPc>>

TypeOK ==
  /\ mainPc \in {"start", "spawn", "join", "done", "crashed"}
  /\ threads \in 0 .. MaxSessions
  /\ ioStopped \in BOOLEAN /\ acceptorOpen \in BOOLEAN
  /\ accepting \in Sessions \cup {NoSession}
  /\ waitingSession \in Sessions \cup {NoSession}
  /\ runningSessions \subseteq Sessions
  /\ client \in [Sessions -> {"none", "accepted", "reading", "finished", "broken"}]
  /\ calculation \in [Sessions -> {"none", "open", "ending", "astray"}]
  /\ work \in [Sessions -> {"idle", "data", "wait"}]
  /\ handlerPc \in {"idle", "prune", "admit", "push", "renew", "accept"}
  /\ handled \in Sessions \cup {NoSession}
  /\ stopPc \in {"armed", "raised", "lists", "waiting", "acceptor", "io", "done"}

Init ==
  /\ mainPc = "start" /\ threads = 0 /\ ioStopped = FALSE
  /\ acceptorOpen = TRUE /\ accepting = NoSession
  /\ waitingSession = NoSession /\ runningSessions = {}
  /\ client = [s \in Sessions |-> "none"]
  /\ calculation = [s \in Sessions |-> "none"]
  /\ work = [s \in Sessions |-> "idle"]
  /\ handlerPc = "idle" /\ handled = NoSession
  /\ stopPc = "armed"

\* A session's outstanding read and its handler refer to it.
Alive(s) == client[s] = "reading" \/ work[s] # "idle"

\* The last reference to these sessions goes; the destructor aborts what still
\* runs and waits for it, which may be for ever if it is astray.
Destroyed(c) == IF c = "astray" THEN c ELSE "none"

Destroy(S) ==
  /\ client' = [s \in Sessions |-> IF s \in S THEN "none" ELSE client[s]]
  /\ calculation' = [s \in Sessions |->
                       IF s \in S THEN Destroyed(calculation[s]) ELSE calculation[s]]

\* create_new_session(): an object that nothing refers to yet.
Fresh(s) ==
  /\ s \notin {accepting, waitingSession, handled} \cup runningSessions
  /\ ~Alive(s) /\ calculation[s] # "astray"

\* m_waiting_session becomes one of them.
CreateSession(s) == Fresh(s) /\ waitingSession' = s /\ Destroy({s})

\* stop() holds m_mutex.
Locked == stopPc \in {"waiting", "acceptor"}

\* The handlers that occupy an io thread.
Busy ==
  Cardinality({s \in Sessions : work[s] # "idle"})
    + (IF handlerPc = "idle" THEN 0 ELSE 1)
    + (IF stopPc \in {"armed", "raised", "done"} THEN 0 ELSE 1)
IdleThread == ~ioStopped /\ Busy < threads

\* Mutant: nothing waits for a signal.
Outstanding_NoSignal ==
  accepting # NoSession \/ \E s \in Sessions : client[s] = "reading"

\* What io_service::run() still waits for: a signal, whose handler stops it, a
\* connection, or a read.
Outstanding ==
  \/ stopPc # "done"
  \/ accepting # NoSession
  \/ \E s \in Sessions : client[s] = "reading"

-----------------------------------------------------------------------------
(* abstract_calc_server::start(), on the main thread                         *)

StartServer ==
  /\ mainPc = "start"
  /\ \E s \in Sessions : CreateSession(s) /\ accepting' = s
  /\ mainPc' = "spawn"
  /\ UNCHANGED <<threads, ioStopped, acceptorOpen, runningSessions, work, handler, stopPc>>

\* Mutant: one thread too many.
SpawnThread_OneMore ==
  /\ mainPc = "spawn"
  /\ \/ threads <= MaxSessions /\ threads' = threads + 1 /\ UNCHANGED mainPc
     \/ threads > MaxSessions /\ mainPc' = "join" /\ UNCHANGED threads
  /\ UNCHANGED <<ioStopped, acceptor, lists, sessions, handler, stopPc>>

SpawnThread ==
  /\ mainPc = "spawn"
  /\ \/ threads < MaxSessions /\ threads' = threads + 1 /\ UNCHANGED <<mainPc, ioStopped>>
     \/ threads = MaxSessions /\ mainPc' = "join" /\ UNCHANGED <<threads, ioStopped>>
     \/ /\ "spawn" \in Faults /\ threads < MaxSessions
        /\ ioStopped' = TRUE /\ mainPc' = "join" /\ UNCHANGED threads
  /\ UNCHANGED <<acceptor, lists, sessions, handler, stopPc>>

\* join_all(): run() returns once the io_service is stopped or has nothing
\* left to wait for, and the handler the thread is in has returned.
Join ==
  /\ mainPc = "join"
  /\ threads = 0 \/ ((ioStopped \/ ~Outstanding) /\ Busy = 0)
  /\ mainPc' = "done"
  /\ UNCHANGED <<threads, ioStopped, acceptor, lists, sessions, handler, stopPc>>

-----------------------------------------------------------------------------
(* handle_connection(), on any io thread, without m_mutex                    *)

\* A client connects, as long as an object is left for the next (a bound).
Connect ==
  /\ IdleThread /\ handlerPc = "idle"
  /\ acceptorOpen /\ accepting # NoSession
  /\ \E s \in Sessions : Fresh(s)
  /\ handled' = accepting /\ accepting' = NoSession
  /\ client' = [client EXCEPT ![accepting] = "accepted"]
  /\ handlerPc' = "prune"
  /\ UNCHANGED <<pool, acceptorOpen, lists, calculation, work, stopPc>>

\* The accept failed: the error is logged and that is all.
AcceptFails ==
  /\ IdleThread /\ handlerPc = "idle"
  /\ accepting # NoSession
  /\ "accept" \in Faults \/ ~acceptorOpen
  /\ accepting' = NoSession
  /\ UNCHANGED <<pool, acceptorOpen, lists, sessions, handler, stopPc>>

\* Mutant: nothing is erased from the list.
Prune_KeepsAll ==
  /\ handlerPc = "prune"
  /\ handlerPc' = "admit"
  /\ UNCHANGED <<pool, acceptor, lists, sessions, handled, stopPc>>

\* The sessions that are finished() are erased; only end of file makes them so.
Prune ==
  /\ handlerPc = "prune"
  /\ runningSessions' = {s \in runningSessions : client[s] # "finished"}
  /\ Destroy(runningSessions \ runningSessions')
  /\ handlerPc' = "admit"
  /\ UNCHANGED <<pool, acceptor, waitingSession, work, handled, stopPc>>

\* Mutants: one session too many; a refused connection ends the handler.
Admit_OneMore ==
  /\ handlerPc = "admit"
  /\ IF Cardinality(runningSessions) <= MaxSessions
     THEN handlerPc' = "push" /\ client' = [client EXCEPT ![handled] = "reading"]
     ELSE handlerPc' = "renew" /\ UNCHANGED client
  /\ UNCHANGED <<pool, acceptor, lists, calculation, work, handled, stopPc>>

Admit_RefusalReturns ==
  /\ handlerPc = "admit"
  /\ IF Cardinality(runningSessions) < MaxSessions
     THEN handlerPc' = "push" /\ client' = [client EXCEPT ![handled] = "reading"]
     ELSE handlerPc' = "idle" /\ UNCHANGED client
  /\ UNCHANGED <<pool, acceptor, lists, calculation, work, handled, stopPc>>

\* The limit; an admitted session is started right away.
Admit ==
  /\ handlerPc = "admit"
  /\ IF Cardinality(runningSessions) < MaxSessions
     THEN handlerPc' = "push" /\ client' = [client EXCEPT ![handled] = "reading"]
     ELSE handlerPc' = "renew" /\ UNCHANGED client
  /\ UNCHANGED <<pool, acceptor, lists, calculation, work, handled, stopPc>>

Push ==
  /\ handlerPc = "push"
  /\ runningSessions' = runningSessions \cup {handled}
  /\ handlerPc' = "renew"
  /\ UNCHANGED <<pool, acceptor, waitingSession, sessions, handled, stopPc>>

\* Mutant: the session at hand goes on waiting.
Renew_SameSession ==
  /\ handlerPc = "renew"
  /\ handlerPc' = "accept"
  /\ UNCHANGED <<pool, acceptor, lists, sessions, handled, stopPc>>

Renew ==
  /\ handlerPc = "renew"
  /\ \E s \in Sessions : CreateSession(s)
  /\ handlerPc' = "accept"
  /\ UNCHANGED <<pool, acceptor, runningSessions, work, handled, stopPc>>

\* accept_next_connection(): a null m_waiting_session fails the assertion or,
\* with assertions compiled out, is dereferenced; the process ends either way.
AcceptNext ==
  /\ handlerPc = "accept" /\ ~Locked
  /\ \/ /\ waitingSession # NoSession
        /\ accepting' = waitingSession
        /\ handlerPc' = "idle" /\ handled' = NoSession
        /\ UNCHANGED mainPc
     \/ /\ waitingSession = NoSession
        /\ mainPc' = "crashed"
        /\ UNCHANGED <<accepting, handler>>
  /\ UNCHANGED <<threads, ioStopped, acceptorOpen, lists, sessions, stopPc>>

-----------------------------------------------------------------------------
(* The handlers of the sessions, each on its strand                           *)

\* The read of a session is done, with text, end of file or an error.
Receive ==
  /\ IdleThread
  /\ \E s \in Sessions :
       /\ client[s] = "reading" /\ work[s] = "idle"
       /\ work' = [work EXCEPT ![s] = "data"]
  /\ UNCHANGED <<pool, acceptor, lists, client, calculation, handler, stopPc>>

\* Mutant: the result is asked for after every part.
Outcomes_EveryPart(c) ==
  CASE c \in {"none", "open"} -> {"open", "ending"} \X {"wait"}
    [] c = "ending" -> {"ending", "astray"} \X {"wait"}
    [] c = "astray" -> {<<"astray", "wait">>}

\* What a handler with text makes of its session: the calculation, and whether
\* it goes on to wait for it.  Text for a calculation on its way out either
\* joins the parts it leaves behind or starts another one over it.
Outcomes(c) ==
  CASE c \in {"none", "open"} ->
         {<<"open", "idle">>, <<"ending", "wait">>}
         \cup (IF "unruly" \in Faults THEN {<<"ending", "idle">>} ELSE {})
    [] c = "ending" -> {"ending", "astray"} \X {"idle", "wait"}
    [] c = "astray" -> {"astray"} \X {"idle", "wait"}

\* An exception leaves the handler: add_expr_part() or reset() finds the
\* calculator not as it looked a moment before.
MayThrow(c) == c \in {"ending", "astray"} \/ (c = "open" /\ "unruly" \in Faults)

HandleText(s) ==
  /\ work[s] = "data"
  /\ \/ /\ \E o \in Outcomes(calculation[s]) :
            /\ calculation' = [calculation EXCEPT ![s] = o[1]]
            /\ work' = [work EXCEPT ![s] = o[2]]
        /\ UNCHANGED mainPc
     \/ /\ MayThrow(calculation[s])
        /\ mainPc' = "crashed" /\ UNCHANGED <<calculation, work>>
  /\ UNCHANGED <<threads, ioStopped, acceptor, lists, client, handler, stopPc>>

\* m_finished is set at end of file; an error leaves it alone.
HandleEnd(s) ==
  /\ work[s] = "data"
  /\ work' = [work EXCEPT ![s] = "idle"]
  /\ IF s \in runningSessions \cup {handled}
     THEN /\ \/ client' = [client EXCEPT ![s] = "finished"]
             \/ "reset" \in Faults /\ client' = [client EXCEPT ![s] = "broken"]
          /\ UNCHANGED calculation
     ELSE Destroy({s})
  /\ UNCHANGED <<pool, acceptor, lists, handler, stopPc>>

\* The thread is done: one on its way out is, sooner or later.
CalculationEnds(s) ==
  /\ calculation[s] = "ending"
  /\ calculation' = [calculation EXCEPT ![s] = "none"]
  /\ UNCHANGED <<pool, acceptor, lists, client, work, handler, stopPc>>

\* One that is astray may end as well.
StrayEnds(s) ==
  /\ calculation[s] = "astray"
  /\ calculation' = [calculation EXCEPT ![s] = "ending"]
  /\ UNCHANGED <<pool, acceptor, lists, client, work, handler, stopPc>>

\* The future is ready: m_result = ... or get_result() returns.
Return(s) ==
  /\ work[s] = "wait" /\ calculation[s] = "none"
  /\ work' = [work EXCEPT ![s] = "idle"]
  /\ UNCHANGED <<pool, acceptor, lists, client, calculation, handler, stopPc>>

SessionStep(s) == HandleText(s) \/ HandleEnd(s) \/ CalculationEnds(s) \/ Return(s)

-----------------------------------------------------------------------------
(* The signal handler of main(): tcp_calc_server::stop(), io_service::stop() *)

Signal ==
  /\ stopPc = "armed" /\ stopPc' = "raised"
  /\ UNCHANGED <<pool, acceptor, lists, sessions, handler>>

HandleSignal ==
  /\ IdleThread
  /\ stopPc = "raised" /\ stopPc' = "lists"
  /\ UNCHANGED <<pool, acceptor, lists, sessions, handler>>

Aborted(c) == IF c = "open" THEN "ending" ELSE c

\* m_mutex, abort() of every session in the list, then clear().
StopLists ==
  /\ stopPc = "lists" /\ stopPc' = "waiting"
  /\ LET dead == {s \in runningSessions : ~Alive(s)} IN
     /\ client' = [s \in Sessions |-> IF s \in dead THEN "none" ELSE client[s]]
     /\ calculation' = [s \in Sessions |->
          IF s \notin runningSessions THEN calculation[s]
          ELSE IF s \in dead THEN Destroyed(calculation[s])
          ELSE Aborted(calculation[s])]
  /\ runningSessions' = {}
  /\ UNCHANGED <<pool, acceptor, waitingSession, work, handler>>

StopWaiting ==
  /\ stopPc = "waiting" /\ stopPc' = "acceptor"
  /\ waitingSession' = NoSession
  /\ UNCHANGED <<pool, acceptor, runningSessions, sessions, handler>>

StopAcceptor ==
  /\ stopPc = "acceptor" /\ stopPc' = "io"
  /\ acceptorOpen' = FALSE
  /\ UNCHANGED <<pool, accepting, lists, sessions, handler>>

StopIo ==
  /\ stopPc = "io" /\ stopPc' = "done"
  /\ ioStopped' = TRUE
  /\ UNCHANGED <<mainPc, threads, acceptor, lists, sessions, handler>>

-----------------------------------------------------------------------------
Main     == StartServer \/ SpawnThread \/ Join
Handle   == Prune \/ Admit \/ Push \/ Renew \/ AcceptNext
Stopping == StopLists \/ StopWaiting \/ StopAcceptor \/ StopIo

Running == mainPc # "crashed"

Next ==
  /\ Running
  /\ \/ Main \/ Connect \/ AcceptFails \/ Handle
     \/ Receive \/ \E s \in Sessions : SessionStep(s) \/ StrayEnds(s)
     \/ Signal \/ HandleSignal \/ Stopping

Spec == Init /\ [][Next]_vars

\* Threads run, and run() takes the handlers in the order they became ready, so
\* that of the signal is not passed over for ever.  Nobody has to connect, to
\* send, to leave or to raise a signal.
FairSpec ==
  /\ Spec
  /\ WF_vars(Running /\ Main) /\ WF_vars(Running /\ Handle) /\ WF_vars(Running /\ Stopping)
  /\ WF_vars(Running /\ \E s \in Sessions : SessionStep(s))
  /\ SF_vars(Running /\ HandleSignal)

-----------------------------------------------------------------------------
(* Properties                                                                *)

\* No more sessions than m_max_sessions run, whoever comes and goes or stops
\* the server while a connection is being handled.
LimitKept == Cardinality(runningSessions) <= MaxSessions

\* The session that waits for the next connection belongs to nobody yet: two
\* connections never share a socket, a buffer or a calculator.
OneConnectionPerSession ==
  accepting # NoSession => client[accepting] = "none" /\ accepting \notin runningSessions

\* accept_next_connection() finds a session to wait with (its assertion), also
\* if stop() runs between the call of create_new_session() and the lock.
WaitingSessionExists == handlerPc = "accept" /\ ~Locked => waitingSession # NoSession

\* Until it is stopped, the server always comes back to accepting.
KeepsAccepting == mainPc = "join" ~> (accepting # NoSession \/ stopPc # "armed" \/ ioStopped)

\* A client that connects while nobody else is there any more is served: those
\* who left do not keep their slots (the erase before the limit is tested).
LoneClientServed ==
  (handlerPc = "prune" /\ \A s \in runningSessions : client[s] # "reading")
    ~> (handlerPc = "push" \/ stopPc # "armed" \/ ioStopped)

\* A calculation was started over one that had not left: a handler may wait for
\* it for ever.
GoneAstray == \E s \in Sessions : calculation[s] = "astray"

\* After a signal, or if a thread cannot be made, all io threads come home,
\* those too that wait for a calculation, and start() returns, unless the
\* process ends before or a calculation goes astray.
StopEnds == (stopPc # "armed" \/ ioStopped) ~> (mainPc \in {"done", "crashed"} \/ GoneAstray)

\* start() does not return before that, even if an accept failed and nobody is
\* left: the signal_set of main() keeps run() from returning.
ServesUntilStopped == mainPc = "done" => ioStopped
=============================================================================
