------------------------- MODULE ServiceLifecycleProofs -------------------------
(***************************************************************************)
(* Proofs about the life of the service, for any number of processes, any  *)
(* workers and any --max-requests.                                         *)
(***************************************************************************)
EXTENDS ServiceLifecycle, SequenceTheorems, TLAPS

ThreadState == [at: ThreadAt, status: Statuses]

LEMMA PipesType ==
  /\ Len(Pipes) \in Nat
  /\ Len(Pipes) >= 1
  /\ DOMAIN Pipes = 1..Len(Pipes)
  /\ Pipes[1] = Main
  /\ Main \in Threads
<1> DEFINE Names == STRING \cup {Main}
<1>1. Pipes \in Seq(Names)
  <2>1. <<Main>> \in Seq(Names)
    OBVIOUS
  <2>2. Workers \in Seq(Names)
    BY LifecycleAssumption
  <2>3. QED BY <2>1, <2>2, ConcatProperties DEF Pipes
<1>2. Len(Pipes) = 1 + Len(Workers)
  BY LifecycleAssumption DEF Pipes, Main
<1>3. Pipes[1] = Main
  BY LifecycleAssumption DEF Pipes, Main
<1>4. Len(Workers) \in Nat
  BY LifecycleAssumption
<1>5. DOMAIN Pipes = 1..Len(Pipes)
  BY <1>1
<1>6. QED BY <1>1, <1>2, <1>3, <1>4, <1>5 DEF Threads

LEMMA NoThreadsType == NoThreads \in [Threads -> ThreadState]
BY DEF NoThreads, ThreadState, ThreadAt, Statuses

LEMMA StateAt ==
  ASSUME NEW s \in ThreadState, NEW at
  PROVE  [s EXCEPT !.at = at] = [at |-> at, status |-> s.status]
BY DEF ThreadState

\* One step of a thread: it was started, it moves, and nothing but its own pipe
\* changes.  The main thread goes on to a pipe only below the limit.
LEMMA ThreadMoves ==
  ASSUME TypeOK, NEW p \in Processes, NEW t \in Threads, ThreadStep(p, t)
  PROVE  /\ ~Idle(p, t)
         /\ pipe' \in [Processes -> [Threads -> PipeStates]]
         /\ \E r \in ThreadState :
              /\ thread' = [thread EXCEPT ![p][t] = r]
              /\ r.at # "none"
              /\ \/ r.at \in {"check", "out"}
                 \/ /\ UNCHANGED served
                    /\ \/ thread[p][t].at # "check"
                       \/ t = Main => ~LimitReached(p)
<1> USE DEF TypeOK, Idle
<1>0. thread[p][t] \in ThreadState
  BY DEF ThreadState
<1>1. ASSUME NEW at \in ThreadAt, MoveTo(p, t, at)
      PROVE  thread' = [thread EXCEPT ![p][t] =
                          [at |-> at, status |-> thread[p][t].status]]
  <2>1. [thread[p][t] EXCEPT !.at = at]
          = [at |-> at, status |-> thread[p][t].status]
    BY <1>0, StateAt
  <2>2. thread' = [thread EXCEPT ![p][t] = [thread[p][t] EXCEPT !.at = at]]
    BY <1>1 DEF MoveTo
  <2>3. QED BY <2>1, <2>2
<1>2. ASSUME NEW at \in ThreadAt, MoveTo(p, t, at), at # "none",
             \/ at \in {"check", "out"}
             \/ /\ UNCHANGED served
                /\ thread[p][t].at # "check" \/ (t = Main => ~LimitReached(p))
      PROVE  \E r \in ThreadState :
               /\ thread' = [thread EXCEPT ![p][t] = r]
               /\ r.at # "none"
               /\ \/ r.at \in {"check", "out"}
                  \/ /\ UNCHANGED served
                     /\ \/ thread[p][t].at # "check"
                        \/ t = Main => ~LimitReached(p)
  <2>1. [at |-> at, status |-> thread[p][t].status] \in ThreadState
    BY <1>0 DEF ThreadState
  <2>2. thread' = [thread EXCEPT ![p][t] =
                     [at |-> at, status |-> thread[p][t].status]]
    BY <1>1, <1>2
  <2>3. QED BY <1>2, <2>1, <2>2
<1>3. ASSUME NEW status \in Statuses, Return(p, t, status),
             thread[p][t].at # "check", UNCHANGED served
      PROVE  /\ pipe' \in [Processes -> [Threads -> PipeStates]]
             /\ \E r \in ThreadState :
                  /\ thread' = [thread EXCEPT ![p][t] = r]
                  /\ r.at # "none"
                  /\ UNCHANGED served /\ thread[p][t].at # "check"
  <2>1. pipe' \in [Processes -> [Threads -> PipeStates]]
    BY <1>3 DEF Return, PipeStates
  <2>2. [at |-> "after", status |-> status] \in ThreadState
    BY DEF ThreadState, ThreadAt
  <2>3. QED BY <1>3, <2>1, <2>2 DEF Return
<1> USE DEF ThreadAt, Statuses, PipeStates, Connected, Left
<1>4. CASE CheckStop(p, t)
  <2>1. PICK at \in {"out", "create"} :
          /\ MoveTo(p, t, at)
          /\ at = "create" => ~(t = Main /\ LimitReached(p))
    BY <1>4 DEF CheckStop
  <2>2. QED BY <1>4, <1>2, <2>1 DEF CheckStop
<1>5. CASE CreatePipe(p, t)
  <2>1. CASE /\ MoveTo(p, t, "connect")
             /\ pipe' = [pipe EXCEPT ![p][t] = "listening"]
    BY <1>2, <1>5, <2>1 DEF CreatePipe
  <2>2. CASE Return(p, t, "SystemError")
    BY <1>3, <1>5, <2>2 DEF CreatePipe
  <2>3. QED BY <1>5, <2>1, <2>2 DEF CreatePipe
<1>6. CASE ConnectClient(p, t)
  <2>1. CASE Return(p, t, "SystemError")
    BY <1>3, <1>6, <2>1 DEF ConnectClient
  <2>2. CASE MoveTo(p, t, "waiting") /\ UNCHANGED pipe
    BY <1>2, <1>6, <2>2 DEF ConnectClient
  <2>3. CASE MoveTo(p, t, "read") /\ UNCHANGED pipe
    BY <1>2, <1>6, <2>3 DEF ConnectClient
  <2>4. QED BY <1>6, <2>1, <2>2, <2>3 DEF ConnectClient
<1>7. CASE ReadRequest(p, t)
  <2>1. CASE \E status \in Statuses : Return(p, t, status)
    BY <1>3, <1>7, <2>1 DEF ReadRequest
  <2>2. CASE MoveTo(p, t, "ack") /\ pipe' = [pipe EXCEPT ![p][t] = "answered"]
    BY <1>2, <1>7, <2>2 DEF ReadRequest
  <2>3. QED BY <1>7, <2>1, <2>2 DEF ReadRequest, ExchangeFails
<1>8. CASE ReadAcknowledgement(p, t)
  <2>1. \E status \in Statuses : Return(p, t, status)
    BY <1>8 DEF ReadAcknowledgement, ExchangeFails
  <2>2. QED BY <1>3, <1>8, <2>1 DEF ReadAcknowledgement
<1>9. CASE AfterExchange(p, t)
  <2>1. PICK at \in {"out", "check"} :
          thread' = [thread EXCEPT ![p][t] = [at |-> at, status |-> "Served"]]
    BY <1>9 DEF AfterExchange
  <2>2. [at |-> at, status |-> "Served"] \in ThreadState
    BY <2>1 DEF ThreadState
  <2>3. QED BY <1>9, <2>1, <2>2 DEF AfterExchange
<1>10. QED
  BY <1>4, <1>5, <1>6, <1>7, <1>8, <1>9 DEF ThreadStep

\* Waking a pipe moves clients only.
LEMMA WakeType ==
  ASSUME TypeOK, NEW t \in Threads, WakePipe(t) \/ GiveUpWaking(t)
  PROVE  pipe' \in [Processes -> [Threads -> PipeStates]]
<1>1. CASE UNCHANGED pipe
  BY <1>1 DEF TypeOK
<1>2. CASE \E q \in Processes : pipe' = [pipe EXCEPT ![q][t] = "left"]
  <2>1. PICK q \in Processes : pipe' = [pipe EXCEPT ![q][t] = "left"]
    BY <1>2
  <2>2. "left" \in PipeStates
    BY DEF PipeStates, Left
  <2>3. QED BY <2>1, <2>2 DEF TypeOK
<1>3. QED BY <1>1, <1>2 DEF WakePipe, GiveUpWaking

LEMMA WakeMoves ==
  ASSUME TypeOK, NEW t, WakePipe(t) \/ GiveUpWaking(t)
  PROVE  \A q \in Processes, u \in Threads : pipe'[q][u] \in {pipe[q][u], "left"}
<1>1. CASE UNCHANGED pipe
  BY <1>1
<1>2. CASE \E q \in Processes : pipe' = [pipe EXCEPT ![q][t] = "left"]
  <2>1. PICK q \in Processes : pipe' = [pipe EXCEPT ![q][t] = "left"]
    BY <1>2
  <2>2. QED BY <2>1 DEF TypeOK
<1>3. QED BY <1>1, <1>2 DEF WakePipe, GiveUpWaking

-----------------------------------------------------------------------------
LEMMA TypeStep == TypeOK /\ TurnInv /\ RequestsInv /\ [Next]_vars => TypeOK'
<1> SUFFICES ASSUME TypeOK, TurnInv, RequestsInv, [Next]_vars
             PROVE  TypeOK'
  OBVIOUS
<1> USE PipesType DEF TypeOK, vars, control, kernel, history
<1>a. ASSUME NEW p \in Processes, NEW at \in ProcessAt, Goto(p, at)
      PROVE  process' \in [Processes -> ProcessAt]
  BY <1>a DEF Goto
<1>b. ASSUME NEW p \in Processes, NEW code \in {"running", "SUCCESS", "FAILURE"},
             Exit(p, code)
      PROVE  /\ process' \in [Processes -> ProcessAt]
             /\ exit' \in [Processes -> {"running", "SUCCESS", "FAILURE"}]
             /\ turn' \in [Processes -> 1..(Len(Pipes) + 1)]
  <2>1. "done" \in ProcessAt
    BY DEF ProcessAt
  <2>2. QED BY <1>a, <1>b, <2>1 DEF Exit
<1>c. ASSUME NEW p \in Processes, NEW i \in 1..(Len(Pipes) + 1), ThenJoin(p, i)
      PROVE  /\ process' \in [Processes -> ProcessAt]
             /\ turn' \in [Processes -> 1..(Len(Pipes) + 1)]
  BY <1>a, <1>c DEF ThenJoin, ProcessAt, ServingAt, LeavingAt
<1>d. ASSUME NEW p \in Processes
      PROVE  /\ Closed(mutex, p)
                  \in [owner: Processes \cup {Nobody}, handles: SUBSET Processes]
             /\ ClosedEvent(p) \in [set: BOOLEAN, handles: SUBSET Processes]
  BY DEF Closed, ClosedEvent
<1>e. ASSUME NEW p \in Processes
      PROVE  /\ [mutex EXCEPT !.handles = @ \cup {p}]
                  \in [owner: Processes \cup {Nobody}, handles: SUBSET Processes]
             /\ [owner |-> p, handles |-> {p}]
                  \in [owner: Processes \cup {Nobody}, handles: SUBSET Processes]
             /\ [stop EXCEPT !.handles = @ \cup {p}]
                  \in [set: BOOLEAN, handles: SUBSET Processes]
  OBVIOUS
<1> USE DEF ProcessAt, StartingAt, ServingAt, LeavingAt, QuittingAt
<1>1. ASSUME NEW p \in Processes, CreateMutex(p) PROVE TypeOK'
  <2>1. process' \in [Processes -> ProcessAt]
    BY <1>1, <1>a DEF CreateMutex
  <2>2. mutex' \in [owner: Processes \cup {Nobody}, handles: SUBSET Processes]
    <3>1. CASE mutex.handles = {}
      BY <1>1, <1>e, <3>1 DEF CreateMutex
    <3>2. CASE mutex.handles # {}
      BY <1>1, <1>e, <3>2 DEF CreateMutex
    <3>3. QED BY <3>1, <3>2
  <2>3. QED BY <1>1, <2>1, <2>2 DEF CreateMutex
<1>2. ASSUME NEW p \in Processes, OpenMutex(p) PROVE TypeOK'
  <2>1. found' \in [Processes -> SUBSET Processes]
    BY <1>2 DEF OpenMutex
  <2>2. UNCHANGED <<stop, thread, served, pipe, cut>>
    BY <1>2 DEF OpenMutex
  <2>3. CASE mutex.handles = {}
    <3>1. Exit(p, "SUCCESS") /\ UNCHANGED mutex
      BY <1>2, <2>3 DEF OpenMutex
    <3>2. QED BY <1>b, <2>1, <2>2, <3>1
  <2>4. CASE mutex.handles # {}
    <3>1. /\ mutex' = [mutex EXCEPT !.handles = @ \cup {p}]
          /\ Goto(p, "signal") /\ UNCHANGED <<exit, turn>>
      BY <1>2, <2>4 DEF OpenMutex
    <3>2. QED BY <1>a, <1>e, <2>1, <2>2, <3>1
  <2>5. QED BY <2>3, <2>4
<1>3. ASSUME NEW p \in Processes, LeaveDuplicate(p) PROVE TypeOK'
  BY <1>3, <1>b, <1>d DEF LeaveDuplicate
<1>4. ASSUME NEW p \in Processes, CreateStopEvent(p) PROVE TypeOK'
  <2>1. CASE Goto(p, "reset") /\ UNCHANGED exit
    <3>1. stop' \in [set: BOOLEAN, handles: SUBSET Processes]
      BY <1>4, <1>e, <2>1 DEF CreateStopEvent
    <3>2. QED BY <1>4, <1>a, <2>1, <3>1 DEF CreateStopEvent
  <2>2. CASE Goto(p, "unlock") /\ UNCHANGED stop
    BY <1>4, <1>a, <2>2 DEF CreateStopEvent
  <2>3. QED BY <1>4, <2>1, <2>2 DEF CreateStopEvent
<1>5. ASSUME NEW p \in Processes, ResetStopEvent(p) PROVE TypeOK'
  BY <1>5, <1>a DEF ResetStopEvent
<1>6. ASSUME NEW p \in Processes, SpawnThreads(p) PROVE TypeOK'
  <2>1. thread' \in [Processes -> [Threads -> ThreadState]]
    BY <1>6 DEF SpawnThreads, ThreadState, ThreadAt, Statuses
  <2>2. QED BY <1>6, <1>a, <2>1 DEF SpawnThreads, ThreadState
<1>7. ASSUME NEW p \in Processes, LeaveLoop(p) PROVE TypeOK'
  <2>1. 2 \in 1..(Len(Pipes) + 1)
    OBVIOUS
  <2>2. ThenJoin(p, 2)
    BY <1>7 DEF LeaveLoop
  <2>3. QED BY <1>7, <1>c, <2>1, <2>2 DEF LeaveLoop
<1>8. ASSUME NEW p \in Processes, WakeWorker(p) PROVE TypeOK'
  <2>1. turn[p] \in DOMAIN Pipes /\ turn[p] + 1 \in 1..(Len(Pipes) + 1)
    BY <1>8 DEF WakeWorker, TurnInv
  <2>2. Pipes[turn[p]] \in Threads
    BY <2>1 DEF Threads
  <2>3. CASE thread[p][Pipes[turn[p]]].at = "none"
    BY <1>8, <1>c, <2>1, <2>3 DEF WakeWorker
  <2>4. CASE thread[p][Pipes[turn[p]]].at # "none"
    BY <1>8, <1>a, <2>2, <2>4, WakeType DEF WakeWorker
  <2>5. QED BY <2>3, <2>4
<1>9. ASSUME NEW p \in Processes, JoinWorker(p) PROVE TypeOK'
  <2>1. turn[p] + 1 \in 1..(Len(Pipes) + 1)
    BY <1>9 DEF JoinWorker, TurnInv
  <2>2. QED BY <1>9, <1>c, <2>1 DEF JoinWorker
<1>10. ASSUME NEW p \in Processes, CloseStopEvent(p) PROVE TypeOK'
  BY <1>10, <1>a, <1>d DEF CloseStopEvent
<1>11. ASSUME NEW p \in Processes, ReleaseMutex(p) PROVE TypeOK'
  BY <1>11, <1>a DEF ReleaseMutex
<1>12. ASSUME NEW p \in Processes, CloseMutex(p) PROVE TypeOK'
  BY <1>12, <1>b, <1>d DEF CloseMutex
<1>13. ASSUME NEW p \in Processes, OpenStopEvent(p) PROVE TypeOK'
  BY <1>13, <1>a DEF OpenStopEvent
<1>14. ASSUME NEW p \in Processes, SetStopEvent(p) PROVE TypeOK'
  BY <1>14, <1>a, <1>d DEF SetStopEvent
<1>15. ASSUME NEW p \in Processes, WakeNext(p) PROVE TypeOK'
  <2>1. turn[p] \in DOMAIN Pipes
    BY <1>15 DEF WakeNext, TurnInv
  <2>2. Pipes[turn[p]] \in Threads
    BY <2>1 DEF Threads
  <2>3. turn' \in [Processes -> 1..(Len(Pipes) + 1)]
    BY <1>15, <2>1 DEF WakeNext
  <2>4. QED BY <1>15, <1>a, <2>2, <2>3, WakeType DEF WakeNext
<1>16. ASSUME NEW p \in Processes, AcquireMutex(p) PROVE TypeOK'
  BY <1>16, <1>a DEF AcquireMutex
<1>17. ASSUME NEW p \in Processes, QuitSucceeds(p) PROVE TypeOK'
  BY <1>17, <1>b DEF QuitSucceeds
<1>18. ASSUME NEW p \in Processes, QuitFails(p) PROVE TypeOK'
  BY <1>18, <1>b, <1>d DEF QuitFails
<1>19. ASSUME NEW p \in Processes, Crash(p) PROVE TypeOK'
  <2>1. thread' \in [Processes -> [Threads -> ThreadState]]
    BY <1>19, NoThreadsType DEF Crash, ThreadState
  <2>2. pipe' \in [Processes -> [Threads -> PipeStates]]
    BY <1>19 DEF Crash, PipeStates
  <2>3. QED BY <1>19, <1>b, <1>d, <2>1, <2>2 DEF Crash, ThreadState
<1>20. ASSUME NEW p \in Processes, NEW t \in Threads, ThreadStep(p, t)
       PROVE  TypeOK'
  <2>1. /\ thread' \in [Processes -> [Threads -> ThreadState]]
        /\ pipe' \in [Processes -> [Threads -> PipeStates]]
    <3>1. PICK r \in ThreadState : thread' = [thread EXCEPT ![p][t] = r]
      BY <1>20, ThreadMoves
    <3>2. thread \in [Processes -> [Threads -> ThreadState]]
      BY DEF ThreadState
    <3>3. QED BY <1>20, <3>1, <3>2, ThreadMoves
  <2>2. served' \in [Processes -> 0..MaxRequests]
    <3>1. CASE AfterExchange(p, t)
      <4>1. t = Main /\ MaxRequests > 0 => served[p] + 1 \in 0..MaxRequests
        BY <3>1, LifecycleAssumption DEF AfterExchange, RequestsInv, LimitReached
      <4>2. QED BY <3>1, <4>1 DEF AfterExchange
    <3>2. CASE ~AfterExchange(p, t)
      BY <1>20, <3>2
      DEF ThreadStep, CheckStop, CreatePipe, ConnectClient, ReadRequest,
          ReadAcknowledgement
    <3>3. QED BY <3>1, <3>2
  <2>3. exit' \in [Processes -> {"running", "SUCCESS", "FAILURE"}]
    BY <1>20
    DEF ThreadStep, CheckStop, CreatePipe, ConnectClient, ReadRequest,
        ReadAcknowledgement, AfterExchange
  <2>4. cut' \in [Processes -> SUBSET Threads]
    BY <1>20 DEF ThreadStep
  <2>5. QED BY <1>20, <2>1, <2>2, <2>3, <2>4 DEF ThreadStep, ThreadState
<1>21. ASSUME NEW p \in Processes, NEW t \in Threads, Client(p, t)
       PROVE  TypeOK'
  <2>1. pipe' \in [Processes -> [Threads -> PipeStates]]
    BY <1>21 DEF Client, ClientMoves, PipeStates, Connected, Left
  <2>2. QED BY <1>21, <2>1 DEF Client
<1>22. CASE UNCHANGED vars
  BY <1>22
<1>23. QED
  BY <1>1, <1>2, <1>3, <1>4, <1>5, <1>6, <1>7, <1>8, <1>9, <1>10, <1>11,
     <1>12, <1>13, <1>14, <1>15, <1>16, <1>17, <1>18, <1>19, <1>20, <1>21,
     <1>22
  DEF Next, Launch, ServiceStep, QuitStep

-----------------------------------------------------------------------------
(***************************************************************************)
(* The handle and the mutex.                                               *)
(***************************************************************************)
\* A step that leaves the mutex alone moves no process into or out of the
\* program, and none to a place where it owns the mutex that did not.
LEMMA OtherMoves ==
  ASSUME TypeOK, NEW p \in Processes,
         \/ CreateStopEvent(p) \/ ResetStopEvent(p) \/ SpawnThreads(p)
         \/ LeaveLoop(p) \/ WakeWorker(p) \/ JoinWorker(p)
         \/ CloseStopEvent(p) \/ OpenStopEvent(p) \/ SetStopEvent(p)
         \/ WakeNext(p)
  PROVE  /\ UNCHANGED mutex
         /\ process[p] \notin {"idle", "done"}
         /\ \E at \in ProcessAt :
              /\ process' = [process EXCEPT ![p] = at]
              /\ at \notin {"idle", "duplicate", "done", "close", "release"}
              /\ at \in OwningAt <=> process[p] \in OwningAt
              /\ at \in QuittingAt <=> process[p] \in QuittingAt
<1> USE DEF ProcessAt, OwningAt, StartingAt, ServingAt, LeavingAt, QuittingAt
<1>1. ASSUME NEW i, ThenJoin(p, i)
      PROVE  \E at \in {"close_event", "wake"} :
               process' = [process EXCEPT ![p] = at]
  BY <1>1 DEF ThenJoin, Goto
<1>2. CASE CreateStopEvent(p) \/ ResetStopEvent(p) \/ SpawnThreads(p)
           \/ CloseStopEvent(p)
  BY <1>2
  DEF CreateStopEvent, ResetStopEvent, SpawnThreads, CloseStopEvent, Goto, kernel
<1>3. CASE OpenStopEvent(p) \/ SetStopEvent(p)
  BY <1>3 DEF OpenStopEvent, SetStopEvent, Goto
<1>4. CASE WakeNext(p)
  BY <1>4 DEF WakeNext, Goto, kernel
<1>5. CASE LeaveLoop(p) \/ JoinWorker(p)
  BY <1>1, <1>5 DEF LeaveLoop, JoinWorker, kernel
<1>6. CASE WakeWorker(p)
  <2>1. \E at \in {"close_event", "wake", "join"} :
          process' = [process EXCEPT ![p] = at]
    BY <1>1, <1>6 DEF WakeWorker, Goto
  <2>2. QED BY <1>6, <2>1 DEF WakeWorker, kernel
<1>7. QED BY <1>2, <1>3, <1>4, <1>5, <1>6

LEMMA HandleStep ==
  ASSUME TypeOK, HandleInv, [Next]_vars
  PROVE  HandleInv'
<1> USE DEF HandleInv, TypeOK, Closed, Goto, Exit
<1>1. ASSUME NEW p \in Processes, CreateMutex(p) PROVE HandleInv'
  <2>1. mutex'.handles = mutex.handles \cup {p}
    BY <1>1 DEF CreateMutex
  <2>2. \A q \in Processes \ {p} : process'[q] = process[q]
    BY <1>1 DEF CreateMutex
  <2>3. QED BY <2>1, <2>2
<1>2. ASSUME NEW p \in Processes, OpenMutex(p) PROVE HandleInv'
  <2>1. CASE mutex.handles = {}
    BY <1>2, <2>1 DEF OpenMutex
  <2>2. CASE mutex.handles # {}
    BY <1>2, <2>2 DEF OpenMutex
  <2>3. QED BY <2>1, <2>2
<1>3. ASSUME NEW p \in Processes,
             LeaveDuplicate(p) \/ CloseMutex(p) \/ QuitSucceeds(p)
               \/ QuitFails(p) \/ Crash(p)
      PROVE  HandleInv'
  <2>1. process' = [process EXCEPT ![p] = "done"]
    BY <1>3 DEF LeaveDuplicate, CloseMutex, QuitSucceeds, QuitFails, Crash
  <2>2. mutex'.handles = mutex.handles \ {p}
    BY <1>3 DEF LeaveDuplicate, CloseMutex, QuitSucceeds, QuitFails, Crash
  <2>3. QED BY <2>1, <2>2
<1>4. ASSUME NEW p \in Processes, ReleaseMutex(p) \/ AcquireMutex(p)
      PROVE  HandleInv'
  <2>1. mutex'.handles = mutex.handles
    BY <1>4 DEF ReleaseMutex, AcquireMutex
  <2>2. process[p] \notin {"idle", "done"}
    BY <1>4 DEF ReleaseMutex, AcquireMutex
  <2>3. \A q \in Processes \ {p} : process'[q] = process[q]
    BY <1>4 DEF ReleaseMutex, AcquireMutex
  <2>4. QED BY <2>1, <2>2, <2>3
<1>5. ASSUME NEW p \in Processes,
             \/ CreateStopEvent(p) \/ ResetStopEvent(p) \/ SpawnThreads(p)
             \/ LeaveLoop(p) \/ WakeWorker(p) \/ JoinWorker(p)
             \/ CloseStopEvent(p) \/ OpenStopEvent(p) \/ SetStopEvent(p)
             \/ WakeNext(p)
      PROVE  HandleInv'
  BY <1>5, OtherMoves
<1>6. ASSUME NEW p \in Processes, NEW t \in Threads,
             ThreadStep(p, t) \/ Client(p, t)
      PROVE  HandleInv'
  BY <1>6 DEF ThreadStep, Client, control, kernel
<1>7. CASE UNCHANGED vars
  BY <1>7 DEF vars, control, kernel
<1>8. QED
  BY <1>1, <1>2, <1>3, <1>4, <1>5, <1>6, <1>7
  DEF Next, Launch, ServiceStep, QuitStep

\* A service takes the mutex when nobody has a handle to it, a quit when
\* nobody owns it.
LEMMA OwnerStep ==
  ASSUME TypeOK, HandleInv, OwnerInv, [Next]_vars
  PROVE  OwnerInv'
<1> USE DEF OwnerInv, TypeOK, Closed, Goto, Exit
<1>a. \A at \in {"idle", "duplicate", "signal", "wait", "close", "done"} :
        at \notin OwningAt
  BY DEF OwningAt, StartingAt, ServingAt
<1>1. ASSUME NEW p \in Processes, CreateMutex(p) PROVE OwnerInv'
  <2>1. CASE mutex.handles = {}
    <3>1. \A q \in Processes : process[q] \notin OwningAt
      BY <1>a, <2>1 DEF HandleInv
    <3>2. mutex'.owner = p /\ process' = [process EXCEPT ![p] = "event"]
      BY <1>1, <2>1 DEF CreateMutex
    <3>3. QED BY <3>1, <3>2
  <2>2. CASE mutex.handles # {}
    <3>1. /\ mutex'.owner = mutex.owner
          /\ process' = [process EXCEPT ![p] = "duplicate"]
      BY <1>1, <2>2 DEF CreateMutex
    <3>2. QED BY <1>a, <3>1
  <2>3. QED BY <2>1, <2>2
<1>2. ASSUME NEW p \in Processes, OpenMutex(p) PROVE OwnerInv'
  <2>1. PICK at \in {"done", "signal"} : process' = [process EXCEPT ![p] = at]
    BY <1>2 DEF OpenMutex
  <2>2. mutex'.owner = mutex.owner
    BY <1>2 DEF OpenMutex
  <2>3. QED BY <1>a, <2>1, <2>2
<1>3. ASSUME NEW p \in Processes,
             LeaveDuplicate(p) \/ CloseMutex(p) \/ QuitFails(p)
      PROVE  OwnerInv'
  <2>1. process' = [process EXCEPT ![p] = "done"] /\ mutex'.owner = mutex.owner
    BY <1>3 DEF LeaveDuplicate, CloseMutex, QuitFails
  <2>2. QED BY <1>a, <2>1
<1>4. ASSUME NEW p \in Processes,
             ReleaseMutex(p) \/ QuitSucceeds(p) \/ Crash(p)
      PROVE  OwnerInv'
  <2>1. /\ \E at \in {"close", "done"} : process' = [process EXCEPT ![p] = at]
        /\ mutex'.owner = mutex.owner \/ mutex.owner = p
    <3>1. CASE Crash(p)
      BY <3>1 DEF Crash
    <3>2. CASE ReleaseMutex(p) \/ QuitSucceeds(p)
      BY <3>2 DEF ReleaseMutex, QuitSucceeds, OwningAt
    <3>3. QED BY <1>4, <3>1, <3>2
  <2>2. PICK at \in {"close", "done"} : process' = [process EXCEPT ![p] = at]
    BY <2>1
  <2>3. QED BY <1>a, <2>1, <2>2
<1>5. ASSUME NEW p \in Processes, AcquireMutex(p) PROVE OwnerInv'
  <2>1. \A q \in Processes : process[q] \notin OwningAt
    BY <1>5 DEF AcquireMutex, Processes, Nobody
  <2>2. mutex'.owner = p /\ process' = [process EXCEPT ![p] = "release"]
    BY <1>5 DEF AcquireMutex
  <2>3. QED BY <2>1, <2>2
<1>6. ASSUME NEW p \in Processes,
             \/ CreateStopEvent(p) \/ ResetStopEvent(p) \/ SpawnThreads(p)
             \/ LeaveLoop(p) \/ WakeWorker(p) \/ JoinWorker(p)
             \/ CloseStopEvent(p) \/ OpenStopEvent(p) \/ SetStopEvent(p)
             \/ WakeNext(p)
      PROVE  OwnerInv'
  BY <1>6, OtherMoves
<1>7. ASSUME NEW p \in Processes, NEW t \in Threads,
             ThreadStep(p, t) \/ Client(p, t)
      PROVE  OwnerInv'
  BY <1>7 DEF ThreadStep, Client, control, kernel
<1>8. CASE UNCHANGED vars
  BY <1>8 DEF vars, control, kernel
<1>9. QED
  BY <1>1, <1>2, <1>3, <1>4, <1>5, <1>6, <1>7, <1>8
  DEF Next, Launch, ServiceStep, QuitStep

-----------------------------------------------------------------------------
(***************************************************************************)
(* The threads.                                                            *)
(***************************************************************************)
\* Outside the time its threads run a process starts none.
LEMMA ThreadlessMoves ==
  ASSUME TypeOK, NEW p \in Processes,
         \/ CreateMutex(p) \/ OpenMutex(p) \/ LeaveDuplicate(p)
         \/ CreateStopEvent(p) \/ ResetStopEvent(p) \/ CloseStopEvent(p)
         \/ ReleaseMutex(p) \/ CloseMutex(p) \/ OpenStopEvent(p)
         \/ SetStopEvent(p) \/ WakeNext(p) \/ AcquireMutex(p)
         \/ QuitSucceeds(p) \/ QuitFails(p)
  PROVE  /\ UNCHANGED <<thread, served>>
         /\ process[p] \notin ServingAt
         /\ \E at : process' = [process EXCEPT ![p] = at] /\ at \notin ServingAt
         /\ \A q \in Processes \ {p} : turn'[q] = turn[q]
<1> USE DEF TypeOK, ServingAt, Goto, Exit
<1>1. CASE CreateMutex(p) \/ OpenMutex(p) \/ LeaveDuplicate(p)
  <2>1. CASE CreateMutex(p)
    BY <2>1 DEF CreateMutex
  <2>2. CASE OpenMutex(p)
    BY <2>2 DEF OpenMutex
  <2>3. CASE LeaveDuplicate(p)
    <3>1. process' = [process EXCEPT ![p] = "done"]
      BY <2>3 DEF LeaveDuplicate
    <3>2. QED BY <2>3, <3>1 DEF LeaveDuplicate
  <2>4. QED BY <1>1, <2>1, <2>2, <2>3
<1>2. CASE \/ CreateStopEvent(p) \/ ResetStopEvent(p) \/ CloseStopEvent(p)
           \/ ReleaseMutex(p) \/ CloseMutex(p)
  BY <1>2
  DEF CreateStopEvent, ResetStopEvent, CloseStopEvent, ReleaseMutex, CloseMutex
<1>3. CASE \/ OpenStopEvent(p) \/ SetStopEvent(p) \/ WakeNext(p)
           \/ AcquireMutex(p) \/ QuitSucceeds(p) \/ QuitFails(p)
  BY <1>3
  DEF OpenStopEvent, SetStopEvent, WakeNext, AcquireMutex, QuitSucceeds,
      QuitFails
<1>4. QED BY <1>1, <1>2, <1>3

\* Before the i-th join the threads before the i-th are out.
LEMMA JoinStep ==
  ASSUME TypeOK, ThreadInv, NEW p \in Processes, NEW i \in 1..(Len(Pipes) + 1),
         \A j \in DOMAIN Pipes : j < i => Idle(p, Pipes[j]),
         ThenJoin(p, i), UNCHANGED thread
  PROVE  ThreadInv'
<1>1. \A q \in Processes \ {p} : process'[q] = process[q] /\ turn'[q] = turn[q]
  BY DEF ThenJoin, Goto, TypeOK
<1>2. turn'[p] = i
  BY DEF ThenJoin, TypeOK
<1>3. process'[p] = "close_event" => \A t \in Threads : Idle(p, t)
  <2>1. process'[p] = "close_event" => i > Len(Pipes)
    BY DEF ThenJoin, Goto, TypeOK
  <2>2. QED BY <2>1, PipesType DEF Threads
<1>4. process'[p] \in {"close_event", "wake"}
  BY DEF ThenJoin, Goto, TypeOK
<1>5. QED BY <1>1, <1>2, <1>3, <1>4 DEF ThreadInv, Idle, ServingAt

LEMMA ThreadInvStep ==
  ASSUME TypeOK, ThreadInv, TurnInv, [Next]_vars
  PROVE  ThreadInv'
<1>1. ASSUME NEW p \in Processes,
             \/ CreateMutex(p) \/ OpenMutex(p) \/ LeaveDuplicate(p)
             \/ CreateStopEvent(p) \/ ResetStopEvent(p) \/ CloseStopEvent(p)
             \/ ReleaseMutex(p) \/ CloseMutex(p) \/ OpenStopEvent(p)
             \/ SetStopEvent(p) \/ WakeNext(p) \/ AcquireMutex(p)
             \/ QuitSucceeds(p) \/ QuitFails(p)
      PROVE  ThreadInv'
  <2>1. /\ UNCHANGED thread
        /\ process[p] \notin ServingAt /\ process'[p] \notin ServingAt
        /\ \A q \in Processes \ {p} :
             process'[q] = process[q] /\ turn'[q] = turn[q]
    BY <1>1, ThreadlessMoves DEF TypeOK
  <2>2. QED BY <2>1 DEF ThreadInv, Idle, ServingAt
<1>2. ASSUME NEW p \in Processes, SpawnThreads(p) PROVE ThreadInv'
  <2>1. /\ process'[p] = "serve"
        /\ \A q \in Processes \ {p} :
             /\ process'[q] = process[q]
             /\ turn'[q] = turn[q]
             /\ thread'[q] = thread[q]
    BY <1>2 DEF SpawnThreads, Goto, TypeOK
  <2>2. QED BY <2>1 DEF ThreadInv, Idle, ServingAt
<1>3. ASSUME NEW p \in Processes, LeaveLoop(p) PROVE ThreadInv'
  <2>1. ThenJoin(p, 2) /\ UNCHANGED thread /\ Idle(p, Main)
    BY <1>3 DEF LeaveLoop, Idle
  <2>2. \A j \in DOMAIN Pipes : j < 2 => Idle(p, Pipes[j])
    BY <2>1, PipesType
  <2>3. 2 \in 1..(Len(Pipes) + 1)
    BY PipesType
  <2>4. QED BY <2>1, <2>2, <2>3, JoinStep
<1>4. ASSUME NEW p \in Processes, WakeWorker(p) PROVE ThreadInv'
  <2>1. /\ UNCHANGED thread /\ process[p] = "wake" /\ turn[p] \in Nat
        /\ turn[p] + 1 \in 1..(Len(Pipes) + 1)
    BY <1>4, PipesType DEF WakeWorker, TurnInv, TypeOK
  <2>2. CASE thread[p][Pipes[turn[p]]].at = "none"
    <3>1. ThenJoin(p, turn[p] + 1)
      BY <1>4, <2>2 DEF WakeWorker
    <3>2. \A j \in DOMAIN Pipes : j < turn[p] + 1 => Idle(p, Pipes[j])
      BY <2>1, <2>2, PipesType DEF ThreadInv, Idle
    <3>3. QED BY <2>1, <3>1, <3>2, JoinStep
  <2>3. CASE thread[p][Pipes[turn[p]]].at # "none"
    <3>1. process' = [process EXCEPT ![p] = "join"] /\ UNCHANGED turn
      BY <1>4, <2>3 DEF WakeWorker, Goto
    <3>2. QED BY <2>1, <3>1 DEF ThreadInv, Idle, ServingAt, TypeOK
  <2>4. QED BY <2>2, <2>3
<1>5. ASSUME NEW p \in Processes, JoinWorker(p) PROVE ThreadInv'
  <2>1. /\ ThenJoin(p, turn[p] + 1) /\ UNCHANGED thread
        /\ process[p] = "join" /\ turn[p] \in Nat
        /\ thread[p][Pipes[turn[p]]].at = "out"
    BY <1>5 DEF JoinWorker, TypeOK
  <2>2. turn[p] + 1 \in 1..(Len(Pipes) + 1)
    BY <2>1, PipesType DEF TurnInv
  <2>3. \A j \in DOMAIN Pipes : j < turn[p] + 1 => Idle(p, Pipes[j])
    BY <2>1, PipesType DEF ThreadInv, Idle
  <2>4. QED BY <2>1, <2>2, <2>3, JoinStep
<1>6. ASSUME NEW p \in Processes, Crash(p) PROVE ThreadInv'
  <2>1. /\ process'[p] = "done" /\ thread'[p] = NoThreads
        /\ \A q \in Processes \ {p} :
             /\ process'[q] = process[q]
             /\ turn'[q] = turn[q]
             /\ thread'[q] = thread[q]
    BY <1>6 DEF Crash, Exit, Goto, TypeOK
  <2>2. QED BY <2>1 DEF ThreadInv, Idle, NoThreads
<1>7. ASSUME NEW p \in Processes, NEW t \in Threads, ThreadStep(p, t)
      PROVE  ThreadInv'
  <2>1. ~Idle(p, t)
    BY <1>7, ThreadMoves
  <2>2. PICK r \in ThreadState : thread' = [thread EXCEPT ![p][t] = r]
    BY <1>7, ThreadMoves
  <2>3. \A q \in Processes, u \in Threads :
          q # p \/ u # t => thread'[q][u] = thread[q][u]
    BY <2>2 DEF TypeOK
  <2>4. UNCHANGED <<process, turn>>
    BY <1>7 DEF ThreadStep
  <2>5. \A i \in DOMAIN Pipes : Pipes[i] \in Threads
    BY DEF Threads
  <2>6. QED BY <2>1, <2>3, <2>4, <2>5 DEF ThreadInv, Idle
<1>8. CASE UNCHANGED vars \/ \E p \in Processes, t \in Threads : Client(p, t)
  BY <1>8 DEF vars, control, Client, ThreadInv, Idle
<1>9. QED
  BY <1>1, <1>2, <1>3, <1>4, <1>5, <1>6, <1>7, <1>8
  DEF Next, Launch, ServiceStep, QuitStep

\* The turn starts with the first pipe and ends after the last.
LEMMA TurnStep ==
  ASSUME TypeOK, TurnInv, [Next]_vars
  PROVE  TurnInv'
<1> USE PipesType DEF TurnInv, TypeOK, Goto, Exit
<1>1. ASSUME NEW p \in Processes, NEW at, Goto(p, at), UNCHANGED turn,
             at \notin {"idle", "set", "wake", "signal"},
             at = "join" => process[p] = "wake",
             at = "wake_all" => process[p] = "set"
      PROVE  TurnInv'
  BY <1>1
<1>2. ASSUME NEW p \in Processes, NEW i \in 1..(Len(Pipes) + 1), ThenJoin(p, i)
      PROVE  TurnInv'
  BY <1>2 DEF ThenJoin
<1>3. ASSUME NEW p \in Processes, NEW code, Exit(p, code) PROVE TurnInv'
  BY <1>3
<1>4. ASSUME NEW p \in Processes, CreateMutex(p) PROVE TurnInv'
  BY <1>1, <1>4 DEF CreateMutex
<1>5. ASSUME NEW p \in Processes, OpenMutex(p) PROVE TurnInv'
  <2>1. CASE Exit(p, "SUCCESS")
    BY <1>3, <2>1
  <2>2. CASE Goto(p, "signal") /\ UNCHANGED turn /\ process[p] = "idle"
    BY <2>2
  <2>3. QED BY <1>5, <2>1, <2>2 DEF OpenMutex
<1>6. ASSUME NEW p \in Processes,
             LeaveDuplicate(p) \/ CloseMutex(p) \/ QuitSucceeds(p)
               \/ QuitFails(p) \/ Crash(p)
      PROVE  TurnInv'
  BY <1>3, <1>6 DEF LeaveDuplicate, CloseMutex, QuitSucceeds, QuitFails, Crash
<1>7. ASSUME NEW p \in Processes,
             \/ CreateStopEvent(p) \/ ResetStopEvent(p) \/ SpawnThreads(p)
             \/ CloseStopEvent(p) \/ ReleaseMutex(p) \/ AcquireMutex(p)
             \/ SetStopEvent(p)
      PROVE  TurnInv'
  BY <1>1, <1>7
  DEF CreateStopEvent, ResetStopEvent, SpawnThreads, CloseStopEvent,
      ReleaseMutex, AcquireMutex, SetStopEvent, kernel
<1>8. ASSUME NEW p \in Processes, OpenStopEvent(p) PROVE TurnInv'
  <2>1. /\ process[p] = "signal" /\ UNCHANGED turn
        /\ process' = [process EXCEPT ![p] = "set"]
    BY <1>8 DEF OpenStopEvent
  <2>2. QED BY <2>1
<1>9. ASSUME NEW p \in Processes, WakeNext(p) PROVE TurnInv'
  <2>1. turn' = [turn EXCEPT ![p] = @ + 1] /\ turn'[p] \in Nat
    BY <1>9 DEF WakeNext
  <2>2. PICK at \in {"wait", "wake_all"} :
          /\ process' = [process EXCEPT ![p] = at]
          /\ at = "wake_all" => ~(turn'[p] > Len(Pipes))
    BY <1>9 DEF WakeNext
  <2>3. QED BY <2>1, <2>2
<1>10. ASSUME NEW p \in Processes, LeaveLoop(p) PROVE TurnInv'
  <2>1. 2 \in 1..(Len(Pipes) + 1)
    OBVIOUS
  <2>2. QED BY <1>2, <1>10, <2>1 DEF LeaveLoop
<1>11. ASSUME NEW p \in Processes, WakeWorker(p) PROVE TurnInv'
  <2>1. process[p] = "wake" /\ turn[p] + 1 \in 1..(Len(Pipes) + 1)
    BY <1>11 DEF WakeWorker
  <2>2. CASE ThenJoin(p, turn[p] + 1)
    BY <1>2, <2>1, <2>2
  <2>3. CASE Goto(p, "join") /\ UNCHANGED turn
    BY <1>1, <2>1, <2>3
  <2>4. QED BY <1>11, <2>2, <2>3 DEF WakeWorker
<1>12. ASSUME NEW p \in Processes, JoinWorker(p) PROVE TurnInv'
  <2>1. turn[p] + 1 \in 1..(Len(Pipes) + 1)
    BY <1>12 DEF JoinWorker
  <2>2. QED BY <1>2, <1>12, <2>1 DEF JoinWorker
<1>13. CASE \/ UNCHANGED vars
            \/ \E p \in Processes, t \in Threads :
                 ThreadStep(p, t) \/ Client(p, t)
  BY <1>13 DEF vars, control, ThreadStep, Client
<1>14. QED
  BY <1>4, <1>5, <1>6, <1>7, <1>8, <1>9, <1>10, <1>11, <1>12, <1>13
  DEF Next, Launch, ServiceStep, QuitStep

\* The main thread counts only exchanges it was allowed.
LEMMA RequestsStep ==
  ASSUME TypeOK, RequestsInv, [Next]_vars
  PROVE  RequestsInv'
<1> USE DEF RequestsInv, LimitReached
<1>1. ASSUME NEW p \in Processes, SpawnThreads(p) PROVE RequestsInv'
  BY <1>1, PipesType DEF SpawnThreads, TypeOK
<1>2. ASSUME NEW p \in Processes, Crash(p) PROVE RequestsInv'
  BY <1>2, PipesType DEF Crash, NoThreads, TypeOK
<1>3. ASSUME NEW p \in Processes,
             LeaveLoop(p) \/ WakeWorker(p) \/ JoinWorker(p)
      PROVE  RequestsInv'
  BY <1>3 DEF LeaveLoop, WakeWorker, JoinWorker
<1>4. ASSUME NEW p \in Processes,
             \/ CreateMutex(p) \/ OpenMutex(p) \/ LeaveDuplicate(p)
             \/ CreateStopEvent(p) \/ ResetStopEvent(p) \/ CloseStopEvent(p)
             \/ ReleaseMutex(p) \/ CloseMutex(p) \/ OpenStopEvent(p)
             \/ SetStopEvent(p) \/ WakeNext(p) \/ AcquireMutex(p)
             \/ QuitSucceeds(p) \/ QuitFails(p)
      PROVE  RequestsInv'
  BY <1>4, ThreadlessMoves
<1>5. ASSUME NEW p \in Processes, NEW t \in Threads, ThreadStep(p, t)
      PROVE  RequestsInv'
  <2>1. PICK r \in ThreadState :
          /\ thread' = [thread EXCEPT ![p][t] = r]
          /\ \/ r.at \in {"check", "out"}
             \/ /\ UNCHANGED served
                /\ thread[p][t].at # "check" \/ (t = Main => ~LimitReached(p))
    BY <1>5, ThreadMoves
  <2>2. ~Idle(p, t)
    BY <1>5, ThreadMoves
  <2>3. t = Main \/ UNCHANGED served
    BY <1>5
    DEF ThreadStep, CheckStop, CreatePipe, ConnectClient, ReadRequest,
        ReadAcknowledgement, AfterExchange
  <2>4. \A q \in Processes \ {p} : served'[q] = served[q]
    BY <1>5
    DEF ThreadStep, CheckStop, CreatePipe, ConnectClient, ReadRequest,
        ReadAcknowledgement, AfterExchange, TypeOK
  <2>5. QED BY <2>1, <2>2, <2>3, <2>4, PipesType DEF TypeOK, Idle
<1>6. CASE UNCHANGED vars \/ \E p \in Processes, t \in Threads : Client(p, t)
  BY <1>6 DEF vars, Client
<1>7. QED
  BY <1>1, <1>2, <1>3, <1>4, <1>5, <1>6 DEF Next, Launch, ServiceStep, QuitStep

-----------------------------------------------------------------------------
(***************************************************************************)
(* What a quit has found.                                                  *)
(***************************************************************************)
\* Where a process may get to from where it is, as far as a quit is concerned.
LEMMA QuitKept ==
  ASSUME TypeOK, QuitInv, NEW p \in Processes, UNCHANGED found, NEW at,
         process' = [process EXCEPT ![p] = at],
         at \notin {"idle", "duplicate", "release"},
         \/ at \in QuittingAt \cup {"done"}
         \/ process[p] \notin QuittingAt \cup {"done"},
         at \in QuittingAt => process[p] \in QuittingAt,
         process[p] \in Past => at \in Past,
         \A q \in Processes : exit'[q] = "SUCCESS" =>
           \/ exit[q] = "SUCCESS" /\ (q # p \/ at = "done")
           \/ q = p /\ at = "done" /\ (process[p] = "release" \/ found[p] = {})
  PROVE  QuitInv'
<1>1. process'[p] = at /\ \A q \in Processes \ {p} : process'[q] = process[q]
  BY DEF TypeOK
<1>2. \A q \in Processes : found[q] \subseteq Processes
  BY DEF TypeOK
<1>3. "done" \in Past
  BY DEF Past
<1>4. QED BY <1>1, <1>2, <1>3 DEF QuitInv

LEMMA QuitInvStep ==
  ASSUME TypeOK, HandleInv, OwnerInv, QuitInv, [Next]_vars
  PROVE  QuitInv'
<1> USE DEF QuittingAt, Past, history
<1>a. /\ QuittingAt \cap OwningAt = {"release"}
      /\ \A at \in ProcessAt :
           at \notin OwningAt \cup QuittingAt \cup {"idle", "duplicate"}
             => at \in Past
      /\ StartingAt \cup ServingAt \subseteq OwningAt
  BY DEF ProcessAt, OwningAt, StartingAt, ServingAt, LeavingAt
<1>b. \A q \in Processes :
        process[q] \in ProcessAt /\ found[q] \subseteq Processes
  BY DEF TypeOK
<1>1. ASSUME NEW p \in Processes, CreateMutex(p) PROVE QuitInv'
  <2>1. PICK at \in {"event", "duplicate"} : process' = [process EXCEPT ![p] = at]
    BY <1>1 DEF CreateMutex, Goto
  <2>2. process[p] = "idle" /\ UNCHANGED <<exit, found>>
    BY <1>1 DEF CreateMutex
  <2>3. /\ found[p] = {} /\ exit[p] # "SUCCESS"
        /\ \A q \in Processes : p \notin found[q]
    BY <2>2 DEF QuitInv
  <2>4. process'[p] = at /\ \A q \in Processes \ {p} : process'[q] = process[q]
    BY <2>1 DEF TypeOK
  <2>5. QED BY <1>b, <2>2, <2>3, <2>4 DEF QuitInv
<1>2. ASSUME NEW p \in Processes, OpenMutex(p) PROVE QuitInv'
  <2>1. /\ process[p] = "idle"
        /\ found'[p] =
             {q \in Processes : process[q] \in StartingAt \cup ServingAt}
        /\ \A q \in Processes \ {p} : found'[q] = found[q]
    BY <1>2 DEF OpenMutex, TypeOK
  <2>2. \A q \in Processes : p \notin found[q]
    BY <2>1 DEF QuitInv
  <2>3. /\ process'[p] \in {"done", "signal"}
        /\ \A q \in Processes \ {p} :
             process'[q] = process[q] /\ exit'[q] = exit[q]
        /\ exit'[p] = "SUCCESS" => mutex.handles = {} /\ process'[p] = "done"
    BY <1>2, <2>1 DEF OpenMutex, Exit, Goto, TypeOK, QuitInv
  <2>4. p \notin found'[p]
    BY <2>1 DEF StartingAt, ServingAt
  <2>5. exit'[p] = "SUCCESS" => found'[p] = {}
    BY <2>1, <2>3 DEF HandleInv, StartingAt, ServingAt
  <2>6. \A q \in found'[p] :
          process[q] \notin {"idle", "duplicate"} \cup QuittingAt
    BY <2>1 DEF StartingAt, ServingAt
  <2>7. QED BY <1>b, <2>1, <2>2, <2>3, <2>4, <2>5, <2>6 DEF QuitInv
<1>3. ASSUME NEW p \in Processes, LeaveDuplicate(p) \/ CloseMutex(p)
      PROVE  QuitInv'
  <2>1. /\ process' = [process EXCEPT ![p] = "done"]
        /\ process[p] \in {"duplicate", "close"}
        /\ UNCHANGED found
        /\ \A q \in Processes \ {p} : exit'[q] = exit[q]
    BY <1>3 DEF LeaveDuplicate, CloseMutex, Exit, Goto, TypeOK
  <2>2. found[p] = {}
    BY <2>1 DEF QuitInv
  <2>3. QED BY <2>1, <2>2, QuitKept
<1>4. ASSUME NEW p \in Processes, QuitSucceeds(p) \/ QuitFails(p) \/ Crash(p)
      PROVE  QuitInv'
  <2>1. /\ process' = [process EXCEPT ![p] = "done"]
        /\ UNCHANGED found
        /\ \A q \in Processes \ {p} : exit'[q] = exit[q]
        /\ exit'[p] = "SUCCESS" => process[p] = "release"
    <3>1. CASE QuitSucceeds(p)
      BY <3>1 DEF QuitSucceeds, Exit, Goto, TypeOK
    <3>2. CASE QuitFails(p)
      BY <3>2 DEF QuitFails, Exit, Goto, TypeOK
    <3>3. CASE Crash(p)
      BY <3>3 DEF Crash, Exit, Goto, TypeOK
    <3>4. QED BY <1>4, <3>1, <3>2, <3>3
  <2>2. QED BY <2>1, QuitKept
<1>5. ASSUME NEW p \in Processes, ReleaseMutex(p) PROVE QuitInv'
  <2>1. /\ process' = [process EXCEPT ![p] = "close"]
        /\ process[p] = "unlock"
        /\ UNCHANGED <<found, exit>>
    BY <1>5 DEF ReleaseMutex, Goto
  <2>2. exit[p] # "SUCCESS"
    BY <2>1 DEF QuitInv
  <2>3. QED BY <2>1, <2>2, QuitKept
<1>6. ASSUME NEW p \in Processes, AcquireMutex(p) PROVE QuitInv'
  <2>1. /\ process[p] = "wait" /\ process'[p] = "release"
        /\ \A q \in Processes \ {p} : process'[q] = process[q]
        /\ UNCHANGED <<found, exit>>
        /\ mutex.owner = Nobody
    BY <1>6 DEF AcquireMutex, Goto, TypeOK
  <2>2. exit[p] # "SUCCESS" /\ \A q \in Processes : p \notin found[q]
    BY <2>1 DEF QuitInv
  <2>3. \A q \in Processes : process[q] \notin OwningAt
    BY <2>1 DEF OwnerInv, Processes, Nobody
  <2>4. \A q \in found[p] : process[q] \in Past
    BY <1>a, <1>b, <2>3 DEF QuitInv
  <2>5. QED BY <1>b, <2>1, <2>2, <2>4 DEF QuitInv
<1>7. ASSUME NEW p \in Processes,
             \/ CreateStopEvent(p) \/ ResetStopEvent(p) \/ SpawnThreads(p)
             \/ LeaveLoop(p) \/ WakeWorker(p) \/ JoinWorker(p)
             \/ CloseStopEvent(p) \/ OpenStopEvent(p) \/ SetStopEvent(p)
             \/ WakeNext(p)
      PROVE  QuitInv'
  <2>1. PICK at \in ProcessAt :
          /\ process' = [process EXCEPT ![p] = at]
          /\ at \notin {"idle", "duplicate", "done", "close", "release"}
          /\ at \in QuittingAt <=> process[p] \in QuittingAt
    BY <1>7, OtherMoves
  <2>2. process[p] \notin {"idle", "done", "close"} /\ UNCHANGED found
    BY <1>7
    DEF CreateStopEvent, ResetStopEvent, SpawnThreads, LeaveLoop, WakeWorker,
        JoinWorker, CloseStopEvent, OpenStopEvent, SetStopEvent, WakeNext
  <2>3. \A q \in Processes : exit'[q] = "SUCCESS" => exit[q] = "SUCCESS"
    BY <1>7
    DEF CreateStopEvent, ResetStopEvent, SpawnThreads, LeaveLoop, WakeWorker,
        JoinWorker, CloseStopEvent, OpenStopEvent, SetStopEvent, WakeNext, TypeOK
  <2>4. exit[p] # "SUCCESS"
    BY <2>2 DEF QuitInv
  <2>5. QED BY <2>1, <2>2, <2>3, <2>4, QuitKept
<1>8. ASSUME NEW p \in Processes, NEW t \in Threads,
             ThreadStep(p, t) \/ Client(p, t)
      PROVE  QuitInv'
  <2>1. UNCHANGED <<process, found>>
    BY <1>8 DEF ThreadStep, Client, control
  <2>2. \A q \in Processes : exit'[q] = "SUCCESS" => exit[q] = "SUCCESS"
    BY <1>8
    DEF ThreadStep, CheckStop, CreatePipe, ConnectClient, ReadRequest,
        ReadAcknowledgement, AfterExchange, Client, control, TypeOK
  <2>3. QED BY <2>1, <2>2 DEF QuitInv
<1>9. CASE UNCHANGED vars
  BY <1>9 DEF vars, control, QuitInv
<1>10. QED
  BY <1>1, <1>2, <1>3, <1>4, <1>5, <1>6, <1>7, <1>8, <1>9
  DEF Next, Launch, ServiceStep, QuitStep

\* A step of a thread is about its own pipe.  An answer it has written it waits
\* with, and it cuts one off before the deadline for a system error only.
LEMMA AnswerMoves ==
  ASSUME TypeOK, AnswerInv, NEW p \in Processes, NEW t \in Threads,
         ThreadStep(p, t)
  PROVE  /\ \A q \in Processes, u \in Threads :
              q # p \/ u # t => /\ pipe'[q][u] = pipe[q][u]
                                /\ thread'[q][u] = thread[q][u]
                                /\ u \in cut'[q] => u \in cut[q]
         /\ pipe'[p][t] = "answered" => thread'[p][t].at = "ack"
         /\ t \in cut'[p] =>
              \/ thread'[p][t].at = "out"
              \/ thread'[p][t] = [at |-> "after", status |-> "SystemError"]
<1> USE DEF TypeOK
<1>1. /\ \A q \in Processes, u \in Threads :
           q # p \/ u # t => /\ pipe'[q][u] = pipe[q][u]
                             /\ thread'[q][u] = thread[q][u]
      /\ pipe'[p][t] = "answered" =>
           \/ thread'[p][t].at = "ack"
           \/ pipe[p][t] = "answered" /\ thread[p][t].at # "ack"
  <2> USE DEF MoveTo, Return, ExchangeFails, Left, Connected
  <2>1. CASE CheckStop(p, t) \/ CreatePipe(p, t) \/ AfterExchange(p, t)
    BY <2>1 DEF CheckStop, CreatePipe, AfterExchange
  <2>2. CASE ConnectClient(p, t)
    BY <2>2 DEF ConnectClient
  <2>3. CASE ReadRequest(p, t)
    BY <2>3 DEF ReadRequest
  <2>4. CASE ReadAcknowledgement(p, t)
    BY <2>4 DEF ReadAcknowledgement
  <2>5. QED BY <2>1, <2>2, <2>3, <2>4 DEF ThreadStep
<1>2. cut' = IF CutsOff(p, t) THEN [cut EXCEPT ![p] = @ \cup {t}] ELSE cut
  BY DEF ThreadStep
<1>3. \A q \in Processes, u \in Threads :
        (q # p \/ u # t) /\ u \in cut'[q] => u \in cut[q]
  BY <1>2
<1>4. CASE t \in cut[p]
  <2>1. \/ thread[p][t].at = "out"
        \/ thread[p][t].at = "after" /\ thread[p][t].status = "SystemError"
    BY <1>4 DEF AnswerInv
  <2>2. thread[p][t].at \notin {"check", "create", "connect", "waiting", "read",
                                "ack"}
    BY <2>1
  <2>3. AfterExchange(p, t)
    BY <2>2 DEF ThreadStep, CheckStop, CreatePipe, ConnectClient, ReadRequest,
                ReadAcknowledgement
  <2>4. thread[p][t].status = "SystemError"
    BY <2>1, <2>3 DEF AfterExchange
  <2>5. thread'[p][t].at = "out"
    BY <2>3, <2>4 DEF AfterExchange
  <2>6. pipe'[p][t] # "answered"
    BY <2>2, <2>3 DEF AfterExchange, AnswerInv
  <2>7. QED BY <1>1, <1>3, <2>5, <2>6
<1>5. CASE t \notin cut[p] /\ CutsOff(p, t)
  <2>1. pipe[p][t] = "answered" /\ thread[p][t].at = "ack"
    BY <1>5 DEF CutsOff, AnswerInv
  <2>2. ReadAcknowledgement(p, t)
    BY <2>1 DEF ThreadStep, CheckStop, CreatePipe, ConnectClient, ReadRequest,
                AfterExchange
  <2>3. PICK status \in {"ClientTimeout", "SystemError"} : Return(p, t, status)
    BY <2>1, <2>2 DEF ReadAcknowledgement, ExchangeFails, Left
  <2>4. thread'[p][t] = [at |-> "after", status |-> status]
    BY <2>3 DEF Return
  <2>5. status = "SystemError"
    BY <1>5, <2>4 DEF CutsOff
  <2>6. QED BY <1>1, <1>3, <2>1, <2>4, <2>5
<1>6. CASE t \notin cut[p] /\ ~CutsOff(p, t)
  BY <1>1, <1>2, <1>3, <1>6 DEF AnswerInv
<1>7. QED BY <1>4, <1>5, <1>6

LEMMA AnswerStep ==
  ASSUME TypeOK, ThreadInv, TurnInv, AnswerInv, [Next]_vars
  PROVE  AnswerInv'
<1> USE DEF AnswerInv
<1>1. ASSUME NEW p \in Processes, SpawnThreads(p) PROVE AnswerInv'
  <2>1. \A t \in Threads : Idle(p, t)
    BY <1>1 DEF SpawnThreads, ThreadInv, ServingAt
  <2>2. /\ UNCHANGED pipe
        /\ cut'[p] = {}
        /\ \A q \in Processes \ {p} : thread'[q] = thread[q] /\ cut'[q] = cut[q]
    BY <1>1 DEF SpawnThreads, TypeOK
  <2>3. QED BY <2>1, <2>2 DEF Idle
<1>2. ASSUME NEW p \in Processes, Crash(p) PROVE AnswerInv'
  <2>1. /\ \A t \in Threads : pipe'[p][t] = "none"
        /\ cut'[p] = {}
        /\ \A q \in Processes \ {p} :
             thread'[q] = thread[q] /\ pipe'[q] = pipe[q] /\ cut'[q] = cut[q]
    BY <1>2 DEF Crash, TypeOK
  <2>2. QED BY <2>1
<1>3. ASSUME NEW t \in Threads, WakePipe(t) \/ GiveUpWaking(t),
             UNCHANGED <<thread, cut>>
      PROVE  AnswerInv'
  BY <1>3, WakeMoves
<1>4. ASSUME NEW p \in Processes, WakeWorker(p) PROVE AnswerInv'
  <2>1. Pipes[turn[p]] \in Threads
    BY <1>4, PipesType DEF WakeWorker, TurnInv, TypeOK, Threads
  <2>2. QED BY <1>3, <1>4, <2>1 DEF WakeWorker, history
<1>5. ASSUME NEW p \in Processes, WakeNext(p) PROVE AnswerInv'
  <2>1. Pipes[turn[p]] \in Threads
    BY <1>5, PipesType DEF WakeNext, TurnInv, TypeOK, Threads
  <2>2. QED BY <1>3, <1>5, <2>1 DEF WakeNext, history
<1>6. ASSUME NEW p \in Processes,
             \/ CreateMutex(p) \/ OpenMutex(p) \/ LeaveDuplicate(p)
             \/ CreateStopEvent(p) \/ ResetStopEvent(p) \/ LeaveLoop(p)
             \/ JoinWorker(p) \/ CloseStopEvent(p) \/ ReleaseMutex(p)
             \/ CloseMutex(p) \/ OpenStopEvent(p) \/ SetStopEvent(p)
             \/ AcquireMutex(p) \/ QuitSucceeds(p) \/ QuitFails(p)
      PROVE  AnswerInv'
  BY <1>6
  DEF CreateMutex, OpenMutex, LeaveDuplicate, CreateStopEvent, ResetStopEvent,
      LeaveLoop, JoinWorker, CloseStopEvent, ReleaseMutex, CloseMutex,
      OpenStopEvent, SetStopEvent, AcquireMutex, QuitSucceeds, QuitFails,
      history
<1>7. ASSUME NEW p \in Processes, NEW t \in Threads, ThreadStep(p, t)
      PROVE  AnswerInv'
  BY <1>7, AnswerMoves
<1>8. ASSUME NEW p \in Processes, NEW t \in Threads, Client(p, t)
      PROVE  AnswerInv'
  BY <1>8 DEF Client, ClientMoves, TypeOK, history
<1>9. CASE UNCHANGED vars
  BY <1>9 DEF vars, history
<1>10. QED
  BY <1>1, <1>2, <1>4, <1>5, <1>6, <1>7, <1>8, <1>9
  DEF Next, Launch, ServiceStep, QuitStep

-----------------------------------------------------------------------------
LEMMA InitInv == Init => TypeOK /\ LifeInv
<1> SUFFICES ASSUME Init PROVE TypeOK /\ LifeInv
  OBVIOUS
<1>1. TypeOK
  <2>1. thread \in [Processes -> [Threads -> ThreadState]]
    BY NoThreadsType DEF Init
  <2>2. QED
    BY <2>1, PipesType, LifecycleAssumption
    DEF Init, TypeOK, ProcessAt, PipeStates, ThreadState
<1>2. HandleInv /\ OwnerInv /\ QuitInv
  BY DEF Init, HandleInv, OwnerInv, QuitInv, OwningAt, StartingAt, ServingAt,
         QuittingAt
<1>3. ThreadInv /\ RequestsInv
  BY PipesType DEF Init, ThreadInv, RequestsInv, Idle, NoThreads
<1>4. TurnInv
  BY DEF Init, TurnInv
<1>5. AnswerInv
  BY DEF Init, AnswerInv
<1>6. QED BY <1>1, <1>2, <1>3, <1>4, <1>5 DEF LifeInv

\* Every variable keeps its type and the inductive invariant holds, for all
\* values of the constants.
THEOREM InvCorrect == Spec => [](TypeOK /\ LifeInv)
<1>1. TypeOK /\ LifeInv /\ [Next]_vars => (TypeOK /\ LifeInv)'
  <2>1. SUFFICES ASSUME TypeOK, LifeInv, [Next]_vars
                 PROVE  TypeOK' /\ LifeInv'
    OBVIOUS
  <2>2. TypeOK'
    BY <2>1, TypeStep DEF LifeInv
  <2>3. HandleInv' /\ OwnerInv' /\ QuitInv'
    BY <2>1, HandleStep, OwnerStep, QuitInvStep DEF LifeInv
  <2>4. ThreadInv' /\ TurnInv' /\ RequestsInv'
    BY <2>1, ThreadInvStep, TurnStep, RequestsStep DEF LifeInv
  <2>5. AnswerInv'
    BY <2>1, AnswerStep DEF LifeInv
  <2>6. QED BY <2>2, <2>3, <2>4, <2>5 DEF LifeInv
<1>2. QED BY <1>1, InitInv, PTL DEF Spec

\* The type invariant on its own.
THEOREM TypeCorrect == Spec => []TypeOK
BY InvCorrect, PTL

\* However processes are started, told to quit and killed, the threads of one
\* of them at most serve.
THEOREM ServesAlone == Spec => []OneServes
<1>1. TypeOK /\ LifeInv => OneServes
  <2>1. SUFFICES ASSUME TypeOK, LifeInv, NEW p \in Processes,
                        NEW q \in Processes, Serves(p), Serves(q)
                 PROVE  p = q
    BY DEF OneServes
  <2>2. process[p] \in ServingAt /\ process[q] \in ServingAt
    BY <2>1 DEF LifeInv, ThreadInv, Idle, Serves
  <2>3. QED BY <2>1, <2>2 DEF LifeInv, OwnerInv, OwningAt
<1>2. QED BY <1>1, InvCorrect, PTL

\* A quit that reports success has waited for what it found.
THEOREM QuitIsTrue == Spec => []QuitMeansStopped
<1>1. TypeOK /\ LifeInv => QuitMeansStopped
  <2>1. SUFFICES ASSUME TypeOK, LifeInv, NEW p \in Processes,
                        exit[p] = "SUCCESS", NEW q \in found[p]
                 PROVE  ~Serves(q)
    BY DEF QuitMeansStopped
  <2>2. q \in Processes /\ process[q] \in Past
    BY <2>1 DEF LifeInv, QuitInv, TypeOK
  <2>3. QED BY <2>1, <2>2 DEF LifeInv, ThreadInv, Idle, Serves, ServingAt, Past
<1>2. QED BY <1>1, InvCorrect, PTL

\* Whatever quits, wakes and joins, the process stays until its threads' answers
\* are read or cut off, and a thread that cut one off before the deadline had a
\* system error and serves no more.
THEOREM AnswersStay == Spec => []NotCutOff
<1>1. TypeOK /\ LifeInv => NotCutOff
  <2>1. SUFFICES ASSUME TypeOK, LifeInv, NEW p \in Processes, NEW t \in Threads
                 PROVE  /\ pipe[p][t] = "answered" => process[p] \in ServingAt
                        /\ t \in cut[p] => thread[p][t].at \in {"after", "out"}
    BY DEF NotCutOff
  <2>2. CASE pipe[p][t] = "answered"
    <3>1. thread[p][t].at = "ack"
      BY <2>1, <2>2 DEF LifeInv, AnswerInv
    <3>2. ~Idle(p, t)
      BY <3>1 DEF Idle
    <3>3. process[p] \in ServingAt
      BY <2>1, <3>2 DEF LifeInv, ThreadInv
    <3>4. QED BY <2>1, <3>3 DEF LifeInv, AnswerInv
  <2>3. CASE pipe[p][t] # "answered"
    BY <2>1, <2>3 DEF LifeInv, AnswerInv
  <2>4. QED BY <2>2, <2>3
<1>2. QED BY <1>1, InvCorrect, PTL
=============================================================================
