-------------------------- MODULE CalcServerProofs --------------------------
(***************************************************************************)
(* Proofs about the server, for any number of slots and session objects and *)
(* with stop() at any moment.                                               *)
(***************************************************************************)
EXTENDS CalcServer, FiniteSetTheorems, TLAPS

\* Only one handler of an accept is at work, and while it is no accept is
\* pending: accept_next_connection() is its last call.
OneHandler ==
  /\ handlerPc # "idle" => accepting = NoSession /\ handled \in Sessions
  /\ mainPc = "start" => handlerPc = "idle" /\ accepting = NoSession

\* The sessions are counted, and there is room for the one that is admitted.
Room ==
  /\ IsFiniteSet(runningSessions)
  /\ LimitKept
  /\ handlerPc = "push" => Cardinality(runningSessions) < MaxSessions

\* The session the server is about to wait with is new.
Renewed ==
  handlerPc = "accept" /\ waitingSession # NoSession =>
    client[waitingSession] = "none" /\ waitingSession \notin runningSessions

\* A handler is at work only for a session whose read it completes.
ReadersWork == \A s \in Sessions : work[s] # "idle" => client[s] = "reading"

SessionsOK ==
  /\ client \in [Sessions -> {"none", "accepted", "reading", "finished", "broken"}]
  /\ calculation \in [Sessions -> {"none", "open", "ending", "astray"}]
  /\ work \in [Sessions -> {"idle", "data", "wait"}]
  /\ ReadersWork

\* start() has io threads to wait for unless they could not be made, and the
\* handler of the signal, which run() waits for, ends by stopping it.
HasThreads ==
  /\ mainPc = "join" /\ threads = 0 => ioStopped
  /\ stopPc = "done" => ioStopped
  /\ ServesUntilStopped

IInv ==
  TypeOK /\ OneHandler /\ Room /\ OneConnectionPerSession /\ Renewed /\ ReadersWork

\* A list that shrinks or is cleared is still finite and no longer than
\* before.
LEMMA SmallerKeepsLimit ==
  ASSUME NEW S, NEW T, IsFiniteSet(S), T \subseteq S
  PROVE  /\ IsFiniteSet(T)
         /\ Cardinality(T) \in Nat /\ Cardinality(S) \in Nat
         /\ Cardinality(T) <= Cardinality(S)
  BY FS_Subset, FS_CardinalityType

\* What does not touch the list and takes no step towards pushing keeps Room.
LEMMA RoomKept ==
  ASSUME Room, runningSessions' \subseteq runningSessions,
         handlerPc' = "push" => handlerPc = "push" \/ Cardinality(runningSessions) < MaxSessions
  PROVE  Room'
  <1> USE ServerAssumption
  <1>1. /\ IsFiniteSet(runningSessions')
        /\ Cardinality(runningSessions') \in Nat /\ Cardinality(runningSessions) \in Nat
        /\ Cardinality(runningSessions') <= Cardinality(runningSessions)
    BY SmallerKeepsLimit DEF Room
  <1>2. Cardinality(runningSessions') <= MaxSessions
    BY <1>1 DEF Room, LimitKept
  <1>3. ASSUME handlerPc' = "push" PROVE Cardinality(runningSessions') < MaxSessions
    <2>1. Cardinality(runningSessions) < MaxSessions
      BY <1>3 DEF Room
    <2>2. QED
      BY <1>1, <2>1
  <1>4. QED
    BY <1>1, <1>2, <1>3 DEF Room, LimitKept

-----------------------------------------------------------------------------

\* The server starts without sessions.
LEMMA InitIInv == Init => IInv
  <1> SUFFICES ASSUME Init PROVE IInv
    OBVIOUS
  <1> USE ServerAssumption
  <1>1. TypeOK
    <2>1. /\ client \in [Sessions -> {"none", "accepted", "reading", "finished", "broken"}]
          /\ calculation \in [Sessions -> {"none", "open", "ending", "astray"}]
          /\ work \in [Sessions -> {"idle", "data", "wait"}]
      BY DEF Init
    <2>2. threads \in 0 .. MaxSessions
      BY DEF Init
    <2>3. QED
      BY <2>1, <2>2 DEF Init, TypeOK
  <1>2. OneHandler /\ OneConnectionPerSession /\ Renewed /\ ReadersWork
    BY DEF Init, OneHandler, OneConnectionPerSession, Renewed, ReadersWork
  <1>3. Room
    BY FS_EmptySet DEF Init, Room, LimitKept
  <1>4. QED
    BY <1>1, <1>2, <1>3 DEF IInv

\* A destroyed session has no client.
LEMMA DestroyOK ==
  ASSUME SessionsOK, NEW S, Destroy(S)
  PROVE  /\ client' \in [Sessions -> {"none", "accepted", "reading", "finished", "broken"}]
         /\ calculation' \in [Sessions -> {"none", "open", "ending", "astray"}]
         /\ \A t \in Sessions : client'[t] = IF t \in S THEN "none" ELSE client[t]
  <1>1. \A t \in Sessions : client[t] \in {"none", "accepted", "reading", "finished", "broken"}
    BY DEF SessionsOK
  <1>2. client' \in [Sessions -> {"none", "accepted", "reading", "finished", "broken"}]
    BY <1>1 DEF Destroy
  <1>3. \A t \in Sessions : calculation[t] \in {"none", "open", "ending", "astray"}
                             /\ Destroyed(calculation[t]) \in {"none", "astray"}
    BY DEF SessionsOK, Destroyed
  <1>4. calculation' \in [Sessions -> {"none", "open", "ending", "astray"}]
    BY <1>3 DEF Destroy
  <1> QED
    BY <1>2, <1>4 DEF Destroy

\* What a handler makes of a calculation is one, and it waits or is done.
LEMMA OutcomesTyped ==
  ASSUME NEW c \in {"none", "open", "ending", "astray"}, NEW o \in Outcomes(c)
  PROVE  o[1] \in {"open", "ending", "astray"} /\ o[2] \in {"idle", "wait"}
  <1>1. CASE c \in {"none", "open"}
    <2>1. o \in {<<"open", "idle">>, <<"ending", "wait">>, <<"ending", "idle">>}
      BY <1>1 DEF Outcomes
    <2> QED
      BY <2>1
  <1>2. CASE c = "ending"
    BY <1>2 DEF Outcomes
  <1>3. CASE c = "astray"
    BY <1>3 DEF Outcomes
  <1> QED
    BY <1>1, <1>2, <1>3

\* The steps of the sessions themselves.
LEMMA SessionStepOK ==
  ASSUME SessionsOK, NEW s \in Sessions, SessionStep(s) \/ StrayEnds(s)
  PROVE  /\ SessionsOK'
         /\ \A t \in Sessions : client[t] # "reading" => client'[t] = client[t]
         /\ UNCHANGED <<threads, ioStopped, acceptorOpen, accepting, waitingSession,
                        runningSessions, handlerPc, handled, stopPc>>
         /\ mainPc' \in {mainPc, "crashed"}
  <1>1. CASE HandleText(s)
    <2>1. /\ work[s] = "data" /\ client' = client
          /\ UNCHANGED <<threads, ioStopped, acceptorOpen, accepting, waitingSession,
                         runningSessions, handlerPc, handled, stopPc>>
          /\ mainPc' \in {mainPc, "crashed"}
      BY <1>1 DEF HandleText, acceptor, lists, handler
    <2>2. CASE UNCHANGED <<calculation, work>>
      BY <2>1, <2>2 DEF SessionsOK, ReadersWork
    <2>3. ASSUME NEW o \in Outcomes(calculation[s]),
                 calculation' = [calculation EXCEPT ![s] = o[1]],
                 work' = [work EXCEPT ![s] = o[2]]
          PROVE  SessionsOK'
      <3>1. o[1] \in {"open", "ending", "astray"} /\ o[2] \in {"idle", "wait"}
        BY OutcomesTyped DEF SessionsOK
      <3>2. \A t \in Sessions : work'[t] # "idle" => work[t] # "idle"
        BY <2>1, <2>3 DEF SessionsOK
      <3> QED
        BY <2>1, <2>3, <3>1, <3>2 DEF SessionsOK, ReadersWork
    <2> QED
      BY <1>1, <2>1, <2>2, <2>3 DEF HandleText
  <1>2. CASE HandleEnd(s)
    <2>1. /\ work[s] = "data" /\ work' = [work EXCEPT ![s] = "idle"] /\ client[s] = "reading"
          /\ UNCHANGED <<mainPc, threads, ioStopped, acceptorOpen, accepting, waitingSession,
                         runningSessions, handlerPc, handled, stopPc>>
      BY <1>2 DEF HandleEnd, pool, acceptor, lists, handler, SessionsOK, ReadersWork
    <2>2. CASE calculation' = calculation
               /\ (client' = [client EXCEPT ![s] = "finished"]
                   \/ client' = [client EXCEPT ![s] = "broken"])
      BY <2>1, <2>2 DEF SessionsOK, ReadersWork
    <2>3. CASE Destroy({s})
      <3>1. /\ client' \in [Sessions -> {"none", "accepted", "reading", "finished", "broken"}]
            /\ calculation' \in [Sessions -> {"none", "open", "ending", "astray"}]
            /\ \A t \in Sessions : client'[t] = IF t \in {s} THEN "none" ELSE client[t]
        BY <2>3, DestroyOK
      <3> QED
        BY <2>1, <3>1 DEF SessionsOK, ReadersWork
    <2> QED
      BY <1>2, <2>1, <2>2, <2>3 DEF HandleEnd
  <1>3. CASE CalculationEnds(s) \/ StrayEnds(s)
    BY <1>3 DEF CalculationEnds, StrayEnds, pool, acceptor, lists, handler, SessionsOK, ReadersWork
  <1>4. CASE Return(s)
    BY <1>4 DEF Return, pool, acceptor, lists, handler, SessionsOK, ReadersWork
  <1> QED
    BY <1>1, <1>2, <1>3, <1>4 DEF SessionStep

\* A read is done.
LEMMA ReceiveOK ==
  ASSUME SessionsOK, Receive
  PROVE  /\ SessionsOK'
         /\ UNCHANGED <<mainPc, threads, ioStopped, acceptorOpen, accepting, waitingSession,
                        runningSessions, handlerPc, handled, stopPc, client>>
  BY DEF Receive, pool, acceptor, lists, handler, SessionsOK, ReadersWork

\* A new session has no client, and nobody uses it.
LEMMA CreateSessionOK ==
  ASSUME SessionsOK, NEW s \in Sessions, CreateSession(s), work' = work
  PROVE  /\ waitingSession' = s /\ s \notin runningSessions /\ SessionsOK' /\ client'[s] = "none"
  <1>1. /\ waitingSession' = s /\ Destroy({s}) /\ s \notin runningSessions /\ work[s] = "idle"
    BY DEF CreateSession, Fresh, Alive
  <1>2. /\ client' \in [Sessions -> {"none", "accepted", "reading", "finished", "broken"}]
        /\ calculation' \in [Sessions -> {"none", "open", "ending", "astray"}]
        /\ \A t \in Sessions : client'[t] = IF t \in {s} THEN "none" ELSE client[t]
    BY <1>1, DestroyOK
  <1> QED
    BY <1>1, <1>2 DEF SessionsOK, ReadersWork

\* The steps of the main thread.
LEMMA MainIInv ==
  ASSUME IInv, Main
  PROVE  IInv'
  <1> USE ServerAssumption DEF IInv
  <1>1. CASE StartServer
    <2>1. PICK s \in Sessions : CreateSession(s) /\ accepting' = s
      BY <1>1 DEF StartServer
    <2>2. /\ mainPc = "start" /\ mainPc' = "spawn" /\ handlerPc = "idle"
          /\ UNCHANGED <<threads, ioStopped, acceptorOpen, runningSessions, work,
                         handlerPc, handled, stopPc>>
      BY <1>1 DEF StartServer, OneHandler, handler
    <2>3. waitingSession' = s /\ s \notin runningSessions /\ SessionsOK' /\ client'[s] = "none"
      BY <2>1, <2>2, CreateSessionOK DEF SessionsOK, TypeOK
    <2>8. TypeOK' /\ ReadersWork'
      BY <2>1, <2>2, <2>3 DEF TypeOK, SessionsOK
    <2>4. OneHandler' /\ Renewed'
      BY <2>2 DEF OneHandler, Renewed
    <2>5. Room'
      BY <2>2, RoomKept
    <2>6. OneConnectionPerSession'
      BY <2>1, <2>2, <2>3 DEF OneConnectionPerSession
    <2>7. QED
      BY <2>4, <2>5, <2>6, <2>8
  <1>2. CASE SpawnThread
    <2>1. /\ UNCHANGED <<acceptorOpen, accepting, waitingSession, runningSessions,
                         client, calculation, work,
                         handlerPc, handled, stopPc>>
          /\ mainPc = "spawn" /\ mainPc' \in {"spawn", "join"}
      BY <1>2 DEF SpawnThread, acceptor, lists, handler, sessions
    <2>2. threads' \in 0 .. MaxSessions /\ ioStopped' \in BOOLEAN
      <3>1. threads \in 0 .. MaxSessions /\ ioStopped \in BOOLEAN
        BY DEF TypeOK
      <3>2. \/ threads < MaxSessions /\ threads' = threads + 1 /\ ioStopped' = ioStopped
            \/ threads' = threads /\ ioStopped' = ioStopped
            \/ threads' = threads /\ ioStopped' = TRUE
        BY <1>2 DEF SpawnThread
      <3>3. threads' \in 0 .. MaxSessions
        BY <3>1, <3>2
      <3>4. ioStopped' \in BOOLEAN
        BY <3>1, <3>2
      <3>5. QED
        BY <3>3, <3>4
    <2>3. TypeOK'
      BY <2>1, <2>2 DEF TypeOK
    <2>4. OneHandler' /\ Renewed' /\ OneConnectionPerSession' /\ ReadersWork'
      BY <2>1 DEF OneHandler, Renewed, OneConnectionPerSession, ReadersWork
    <2>5. Room'
      BY <2>1, RoomKept
    <2>6. QED
      BY <2>3, <2>4, <2>5
  <1>3. CASE Join
    <2>1. /\ UNCHANGED <<threads, ioStopped, acceptorOpen, accepting, waitingSession,
                         runningSessions, client, calculation, work, handlerPc, handled, stopPc>>
          /\ mainPc' = "done"
      BY <1>3 DEF Join, acceptor, lists, handler, sessions
    <2>2. TypeOK'
      BY <2>1 DEF TypeOK
    <2>3. OneHandler' /\ Renewed' /\ OneConnectionPerSession' /\ ReadersWork'
      BY <2>1 DEF OneHandler, Renewed, OneConnectionPerSession, ReadersWork
    <2>4. Room'
      BY <2>1, RoomKept
    <2>5. QED
      BY <2>2, <2>3, <2>4
  <1>4. QED
    BY <1>1, <1>2, <1>3 DEF Main

\* A connection is accepted, or could not be.
LEMMA AcceptIInv ==
  ASSUME IInv, Connect \/ AcceptFails
  PROVE  IInv'
  <1> USE ServerAssumption DEF IInv
  <1>1. CASE Connect
    <2>1. /\ handlerPc = "idle" /\ handlerPc' = "prune"
          /\ accepting # NoSession /\ handled' = accepting /\ accepting' = NoSession
          /\ client' = [client EXCEPT ![accepting] = "accepted"]
          /\ UNCHANGED <<mainPc, threads, ioStopped, acceptorOpen, waitingSession,
                         runningSessions, calculation, work, stopPc>>
          /\ client[accepting] = "none"
      BY <1>1 DEF Connect, pool, lists, OneConnectionPerSession
    <2>2. accepting \in Sessions
      BY <2>1 DEF TypeOK
    <2>3. TypeOK'
      BY <2>1, <2>2 DEF TypeOK
    <2>4. OneHandler'
      BY <2>1, <2>2 DEF OneHandler
    <2>5. Renewed' /\ OneConnectionPerSession'
      BY <2>1 DEF Renewed, OneConnectionPerSession
    <2>8. ReadersWork'
      BY <2>1, <2>2 DEF ReadersWork, TypeOK
    <2>6. Room'
      BY <2>1, RoomKept
    <2>7. QED
      BY <2>3, <2>4, <2>5, <2>6, <2>8
  <1>2. CASE AcceptFails
    <2>1. /\ handlerPc = "idle" /\ accepting' = NoSession
          /\ UNCHANGED <<mainPc, threads, ioStopped, acceptorOpen, waitingSession,
                         runningSessions, client, calculation, work, handlerPc, handled, stopPc>>
      BY <1>2 DEF AcceptFails, pool, lists, handler, sessions
    <2>2. TypeOK'
      BY <2>1 DEF TypeOK
    <2>3. OneHandler' /\ Renewed' /\ OneConnectionPerSession' /\ ReadersWork'
      BY <2>1 DEF OneHandler, Renewed, OneConnectionPerSession, ReadersWork
    <2>4. Room'
      BY <2>1, RoomKept
    <2>5. QED
      BY <2>2, <2>3, <2>4
  <1>3. QED
    BY <1>1, <1>2

\* The steps of handle_connection().
LEMMA HandleIInv ==
  ASSUME IInv, Handle
  PROVE  IInv'
  <1> USE ServerAssumption DEF IInv
  <1>1. CASE Prune
    <2>1. /\ handlerPc = "prune" /\ handlerPc' = "admit"
          /\ runningSessions' \subseteq runningSessions
          /\ Destroy(runningSessions \ runningSessions')
          /\ \A s \in runningSessions \ runningSessions' : client[s] = "finished"
          /\ UNCHANGED <<mainPc, threads, ioStopped, acceptorOpen, accepting,
                         waitingSession, work, handled, stopPc>>
      BY <1>1 DEF Prune, pool, acceptor
    <2>8. /\ client' \in [Sessions -> {"none", "accepted", "reading", "finished", "broken"}]
          /\ calculation' \in [Sessions -> {"none", "open", "ending", "astray"}]
          /\ \A t \in Sessions :
               client'[t] = IF t \in runningSessions \ runningSessions' THEN "none" ELSE client[t]
      BY <2>1, DestroyOK DEF SessionsOK, TypeOK
    <2>2. TypeOK' /\ ReadersWork'
      BY <2>1, <2>8 DEF TypeOK, ReadersWork
    <2>3. OneHandler' /\ Renewed'
      BY <2>1 DEF OneHandler, Renewed
    <2>4. OneConnectionPerSession'
      BY <2>1 DEF OneHandler, OneConnectionPerSession
    <2>5. Room'
      BY <2>1, RoomKept
    <2>6. QED
      BY <2>2, <2>3, <2>4, <2>5
  <1>2. CASE Admit
    <2>1. /\ handlerPc = "admit"
          /\ \/ /\ Cardinality(runningSessions) < MaxSessions /\ handlerPc' = "push"
                /\ client' = [client EXCEPT ![handled] = "reading"]
             \/ handlerPc' = "renew" /\ client' = client
          /\ UNCHANGED <<mainPc, threads, ioStopped, acceptorOpen, accepting,
                         waitingSession, runningSessions, calculation, work, handled, stopPc>>
      BY <1>2 DEF Admit, pool, acceptor, lists
    <2>2. TypeOK' /\ ReadersWork'
      BY <2>1 DEF TypeOK, ReadersWork
    <2>3. OneHandler' /\ Renewed' /\ OneConnectionPerSession'
      BY <2>1 DEF OneHandler, Renewed, OneConnectionPerSession
    <2>4. Room'
      BY <2>1, RoomKept
    <2>5. QED
      BY <2>2, <2>3, <2>4
  <1>3. CASE Push
    <2>1. /\ handlerPc = "push" /\ handlerPc' = "renew"
          /\ runningSessions' = runningSessions \cup {handled}
          /\ UNCHANGED <<mainPc, threads, ioStopped, acceptorOpen, accepting,
                         waitingSession, client, calculation, work, handled, stopPc>>
      BY <1>3 DEF Push, pool, acceptor, sessions
    <2>2. handled \in Sessions /\ accepting = NoSession
      BY <2>1 DEF OneHandler
    <2>3. TypeOK'
      BY <2>1, <2>2 DEF TypeOK
    <2>4. OneHandler' /\ Renewed' /\ OneConnectionPerSession' /\ ReadersWork'
      BY <2>1, <2>2 DEF OneHandler, Renewed, OneConnectionPerSession, ReadersWork
    <2>5. Room'
      <3>1. IsFiniteSet(runningSessions) /\ Cardinality(runningSessions) < MaxSessions
        BY <2>1 DEF Room
      <3>2. Cardinality(runningSessions) \in Nat
        BY <3>1, FS_CardinalityType
      <3>3. /\ IsFiniteSet(runningSessions')
            /\ \/ Cardinality(runningSessions') = Cardinality(runningSessions)
               \/ Cardinality(runningSessions') = Cardinality(runningSessions) + 1
        BY <2>1, <3>1, FS_AddElement
      <3>4. Cardinality(runningSessions') <= MaxSessions
        BY <3>1, <3>2, <3>3
      <3>5. QED
        BY <2>1, <3>3, <3>4 DEF Room, LimitKept
    <2>6. QED
      BY <2>3, <2>4, <2>5
  <1>4. CASE Renew
    <2>1. PICK s \in Sessions : CreateSession(s)
      BY <1>4 DEF Renew
    <2>2. /\ handlerPc = "renew" /\ handlerPc' = "accept"
          /\ UNCHANGED <<mainPc, threads, ioStopped, acceptorOpen, accepting,
                         runningSessions, work, handled, stopPc>>
      BY <1>4 DEF Renew, pool, acceptor
    <2>9. waitingSession' = s /\ s \notin runningSessions /\ SessionsOK' /\ client'[s] = "none"
      BY <2>1, <2>2, CreateSessionOK DEF SessionsOK, TypeOK
    <2>3. TypeOK' /\ ReadersWork'
      BY <2>2, <2>9 DEF TypeOK, SessionsOK
    <2>4. OneHandler'
      BY <2>2 DEF OneHandler
    <2>5. Renewed'
      BY <2>2, <2>9 DEF Renewed
    <2>6. OneConnectionPerSession'
      BY <2>2 DEF OneConnectionPerSession, OneHandler
    <2>7. Room'
      BY <2>2, RoomKept
    <2>8. QED
      BY <2>3, <2>4, <2>5, <2>6, <2>7
  <1>5. CASE AcceptNext
    <2>0. UNCHANGED <<threads, ioStopped, acceptorOpen, waitingSession, runningSessions,
                      client, calculation, work, stopPc>>
      BY <1>5 DEF AcceptNext, lists, sessions
    <2>1. CASE /\ handlerPc = "accept" /\ waitingSession # NoSession
               /\ accepting' = waitingSession
               /\ handlerPc' = "idle" /\ handled' = NoSession
               /\ UNCHANGED mainPc
      <3>1. TypeOK'
        BY <2>0, <2>1 DEF TypeOK
      <3>2. OneHandler' /\ Renewed' /\ ReadersWork'
        BY <2>0, <2>1 DEF OneHandler, Renewed, ReadersWork
      <3>3. OneConnectionPerSession'
        BY <2>0, <2>1 DEF OneConnectionPerSession, Renewed
      <3>4. Room'
        BY <2>0, <2>1, RoomKept
      <3>5. QED
        BY <3>1, <3>2, <3>3, <3>4
    <2>2. CASE mainPc' = "crashed" /\ UNCHANGED <<accepting, handlerPc, handled>>
      <3>1. TypeOK'
        BY <2>0, <2>2 DEF TypeOK
      <3>2. OneHandler' /\ Renewed' /\ OneConnectionPerSession' /\ ReadersWork'
        BY <2>0, <2>2 DEF OneHandler, Renewed, OneConnectionPerSession, ReadersWork
      <3>3. Room'
        BY <2>0, <2>2, RoomKept
      <3>4. QED
        BY <3>1, <3>2, <3>3
    <2>3. QED
      BY <1>5, <2>1, <2>2 DEF AcceptNext, handler, sessions
  <1>6. QED
    BY <1>1, <1>2, <1>3, <1>4, <1>5 DEF Handle

\* What the sessions do leaves those alone that have no client.
LEMMA SessionsIInv ==
  ASSUME IInv, Receive \/ (\E s \in Sessions : SessionStep(s) \/ StrayEnds(s))
  PROVE  IInv'
  <1> USE ServerAssumption DEF IInv
  <1>1. SessionsOK
    BY DEF SessionsOK, TypeOK
  <1>2. /\ SessionsOK'
        /\ \A t \in Sessions : client[t] # "reading" => client'[t] = client[t]
        /\ UNCHANGED <<threads, ioStopped, acceptorOpen, accepting, waitingSession,
                       runningSessions, handlerPc, handled, stopPc>>
        /\ mainPc' \in {mainPc, "crashed"}
    BY <1>1, SessionStepOK, ReceiveOK
  <1>3. TypeOK' /\ ReadersWork'
    BY <1>2 DEF TypeOK, SessionsOK
  <1>4. OneHandler'
    BY <1>2 DEF OneHandler
  <1>5. Renewed' /\ OneConnectionPerSession'
    BY <1>2 DEF Renewed, OneConnectionPerSession, TypeOK
  <1>6. Room'
    BY <1>2, RoomKept
  <1> QED
    BY <1>3, <1>4, <1>5, <1>6

\* The signal handler only takes sessions away.
LEMMA StopIInv ==
  ASSUME IInv, Signal \/ HandleSignal \/ Stopping
  PROVE  IInv'
  <1> USE ServerAssumption DEF IInv
  <1>1. /\ runningSessions' \subseteq runningSessions
        /\ waitingSession' \in {waitingSession, NoSession}
        /\ acceptorOpen' \in BOOLEAN /\ ioStopped' \in BOOLEAN
        /\ stopPc' \in {"raised", "lists", "waiting", "acceptor", "io", "done"}
        /\ UNCHANGED <<mainPc, threads, accepting, work, handlerPc, handled>>
    <2>1. CASE StopLists
      BY <2>1 DEF StopLists, TypeOK, pool, acceptor, handler
    <2>2. CASE Signal \/ HandleSignal \/ StopWaiting \/ StopAcceptor \/ StopIo
      BY <2>2 DEF Signal, HandleSignal, StopWaiting, StopAcceptor, StopIo, TypeOK,
                  pool, acceptor, lists, handler, sessions
    <2> QED
      BY <2>1, <2>2 DEF Stopping
  <1>2. /\ client' \in [Sessions -> {"none", "accepted", "reading", "finished", "broken"}]
        /\ calculation' \in [Sessions -> {"none", "open", "ending", "astray"}]
        /\ \A s \in Sessions : client[s] = "reading" => client'[s] = "reading"
        /\ \A s \in Sessions : client[s] = "none" => client'[s] = "none"
    <2>1. CASE StopLists
      <3> DEFINE dead == {s \in runningSessions : ~Alive(s)}
      <3>1. /\ client' = [s \in Sessions |-> IF s \in dead THEN "none" ELSE client[s]]
            /\ calculation' = [s \in Sessions |->
                 IF s \notin runningSessions THEN calculation[s]
                 ELSE IF s \in dead THEN Destroyed(calculation[s])
                 ELSE Aborted(calculation[s])]
        BY <2>1 DEF StopLists
      <3>2. \A s \in dead : client[s] # "reading"
        BY DEF Alive
      <3>3. \A s \in Sessions :
              /\ calculation[s] \in {"none", "open", "ending", "astray"}
              /\ Destroyed(calculation[s]) \in {"none", "astray"}
              /\ Aborted(calculation[s]) \in {"none", "ending", "astray"}
        BY DEF TypeOK, Destroyed, Aborted
      <3> HIDE DEF dead
      <3>4. calculation' \in [Sessions -> {"none", "open", "ending", "astray"}]
        BY <3>1, <3>3
      <3>5. client' \in [Sessions -> {"none", "accepted", "reading", "finished", "broken"}]
        BY <3>1 DEF TypeOK
      <3> QED
        BY <3>1, <3>2, <3>4, <3>5
    <2>2. CASE ~StopLists
      <3>1. UNCHANGED <<client, calculation>>
        BY <2>2 DEF Signal, HandleSignal, Stopping, StopWaiting, StopAcceptor, StopIo, sessions
      <3> QED
        BY <3>1 DEF TypeOK
    <2> QED
      BY <2>1, <2>2
  <1>3. ReadersWork'
    BY <1>1, <1>2 DEF ReadersWork
  <1>4. TypeOK'
    BY <1>1, <1>2 DEF TypeOK
  <1>5. OneHandler'
    BY <1>1 DEF OneHandler
  <1>6. Renewed' /\ OneConnectionPerSession'
    BY <1>1, <1>2 DEF Renewed, OneConnectionPerSession, TypeOK
  <1>7. Room'
    BY <1>1, RoomKept
  <1> QED
    BY <1>3, <1>4, <1>5, <1>6, <1>7

-----------------------------------------------------------------------------

\* IInv holds in every reachable state of the server.
THEOREM Invariance == Spec => []IInv
  <1>1. Init => IInv
    BY InitIInv
  <1>2. IInv /\ [Next]_vars => IInv'
    <2> SUFFICES ASSUME IInv, [Next]_vars PROVE IInv'
      OBVIOUS
    <2>1. CASE UNCHANGED vars
      <3>1. UNCHANGED <<mainPc, threads, ioStopped, acceptorOpen, accepting, waitingSession,
                        runningSessions, client, calculation, work, handlerPc, handled, stopPc>>
        BY <2>1 DEF vars, pool, acceptor, lists, handler, sessions
      <3>2. TypeOK' /\ OneHandler' /\ OneConnectionPerSession' /\ Renewed' /\ ReadersWork'
        BY <3>1 DEF IInv, TypeOK, OneHandler, OneConnectionPerSession, Renewed, ReadersWork
      <3>3. Room'
        BY <3>1, RoomKept DEF IInv
      <3>4. QED
        BY <3>2, <3>3 DEF IInv
    <2>2. CASE Next
      BY <2>2, MainIInv, AcceptIInv, HandleIInv, SessionsIInv, StopIInv DEF Next
    <2>3. QED
      BY <2>1, <2>2
  <1>3. QED
    BY <1>1, <1>2, PTL DEF Spec

\* Sessions, threads and handlers always have their types.
THEOREM TypeCorrect == Spec => []TypeOK
  <1>1. IInv => TypeOK
    BY DEF IInv
  <1>2. QED
    BY <1>1, Invariance, PTL

\* Whatever faults occur and whenever the server is stopped, no more than
\* m_max_sessions sessions run.
THEOREM LimitHolds == Spec => []LimitKept
  <1>1. IInv => LimitKept
    BY DEF IInv, Room
  <1>2. QED
    BY <1>1, Invariance, PTL

\* Two connections never share a session object.
THEOREM SessionsNotShared == Spec => []OneConnectionPerSession
  <1>1. IInv => OneConnectionPerSession
    BY DEF IInv
  <1>2. QED
    BY <1>1, Invariance, PTL

-----------------------------------------------------------------------------

\* start() has threads to join, or the io_service was stopped.
LEMMA HasThreadsStep ==
  ASSUME MaxSessions # 0, IInv, HasThreads, [Next]_vars
  PROVE  HasThreads'
  <1> USE ServerAssumption
  <1>1. CASE UNCHANGED vars
    BY <1>1 DEF vars, pool, HasThreads, ServesUntilStopped
  <1>2. CASE StartServer
    BY <1>2 DEF StartServer, HasThreads, ServesUntilStopped
  <1>3. CASE SpawnThread
    BY <1>3 DEF SpawnThread, IInv, TypeOK, HasThreads, ServesUntilStopped
  <1>4. CASE Join
    BY <1>4 DEF Join, Outstanding, HasThreads, ServesUntilStopped
  <1>5. CASE Connect \/ AcceptFails \/ Prune \/ Admit \/ Push \/ Renew \/ Receive
    BY <1>5 DEF Connect, AcceptFails, Prune, Admit, Push, Renew, Receive, pool,
                HasThreads, ServesUntilStopped
  <1>6. CASE AcceptNext
    BY <1>6 DEF AcceptNext, HasThreads, ServesUntilStopped
  <1>7. CASE Signal \/ HandleSignal \/ Stopping
    BY <1>7 DEF Signal, HandleSignal, Stopping, StopLists, StopWaiting, StopAcceptor, StopIo, pool,
                HasThreads, ServesUntilStopped
  <1>8. CASE \E s \in Sessions : SessionStep(s) \/ StrayEnds(s)
    <2>1. SessionsOK
      BY DEF IInv, SessionsOK, TypeOK
    <2>2. UNCHANGED <<threads, ioStopped, stopPc>> /\ mainPc' \in {mainPc, "crashed"}
      BY <1>8, <2>1, SessionStepOK
    <2> QED
      BY <2>2 DEF HasThreads, ServesUntilStopped
  <1> QED
    BY <1>1, <1>2, <1>3, <1>4, <1>5, <1>6, <1>7, <1>8 DEF Next, Main, Handle

\* If there is a slot at all, start() returns only once the io_service was
\* stopped, whatever becomes of the accept and of the sessions: either it could
\* not make its threads, or the handler of the signal came to its end, for as
\* long as that has not happened run() has something to wait for.
THEOREM ServesOn ==
  ASSUME MaxSessions # 0
  PROVE  Spec => []ServesUntilStopped
  <1>1. Init => HasThreads
    BY DEF Init, HasThreads, ServesUntilStopped
  <1>2. IInv /\ HasThreads /\ [Next]_vars => HasThreads'
    BY HasThreadsStep
  <1>3. HasThreads => ServesUntilStopped
    BY DEF HasThreads
  <1>4. QED
    BY <1>1, <1>2, <1>3, Invariance, PTL DEF Spec
=============================================================================
