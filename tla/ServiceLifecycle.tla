--------------------------- MODULE ServiceLifecycle ---------------------------
(***************************************************************************)
(* Processes of contextime-context-service.exe, started and told to quit   *)
(* in any order.  They meet in a named mutex, a named stop event and the   *)
(* named pipes.  A service has a main thread, which serves the context     *)
(* pipe, and workers with a pipe of their own; every thread serves one     *)
(* connection at a time.  A kernel object lives as long as a handle to it. *)
(***************************************************************************)
EXTENDS Naturals, Sequences

CONSTANTS
  N,            \* processes, numbered in the order of their launch
  Workers,      \* the workers in the order in which they are joined
  MaxRequests   \* --max-requests, 0 is no limit

Processes == 1..N
Nobody == 0

Main == "context"
Pipes == <<Main>> \o Workers
Threads == {Pipes[i] : i \in DOMAIN Pipes}

ASSUME LifecycleAssumption ==
  /\ N \in Nat
  /\ MaxRequests \in Nat
  /\ Workers \in Seq(STRING)
  /\ Main \notin {Workers[i] : i \in DOMAIN Workers}

VARIABLES
  process,  \* where wmain or SignalQuit is
  exit,     \* the exit code
  turn,     \* the pipe it wakes or the thread it joins
  mutex,    \* its owner and the processes with a handle to it
  stop,     \* the event: is it set, who has a handle to it
  thread,   \* where each thread is, and the status of its last exchange
  served,   \* exchanges of the main thread
  pipe,     \* the pipe instance of each thread and the client at its other end
  found,    \* history: the services that ran when a quit was called
  cut       \* history: threads that closed on an unread answer, not at a deadline

control == <<process, exit, turn>>
kernel == <<mutex, stop>>
history == <<found, cut>>
vars == <<control, kernel, thread, served, pipe, history>>

StartingAt == {"event", "reset", "spawn"}
ServingAt == {"serve", "wake", "join"}
LeavingAt == {"close_event", "unlock", "close"}
QuittingAt == {"signal", "set", "wake_all", "wait", "release"}
ProcessAt == {"idle", "duplicate", "done"} \cup StartingAt \cup ServingAt
               \cup LeavingAt \cup QuittingAt

ThreadAt == {"none", "check", "create", "connect", "waiting", "read", "ack",
             "after", "out"}
Statuses == {"Served", "ClientTimeout", "ClientDisconnected", "ProtocolError",
             "SystemError"}
Left == {"left", "left_requested"}
Connected == {"connected", "requested", "answered", "acked"}
PipeStates == {"none", "listening"} \cup Connected \cup Left

TypeOK ==
  /\ process \in [Processes -> ProcessAt]
  /\ exit \in [Processes -> {"running", "SUCCESS", "FAILURE"}]
  /\ turn \in [Processes -> 1..(Len(Pipes) + 1)]
  /\ mutex \in [owner: Processes \cup {Nobody}, handles: SUBSET Processes]
  /\ stop \in [set: BOOLEAN, handles: SUBSET Processes]
  /\ thread \in [Processes -> [Threads -> [at: ThreadAt, status: Statuses]]]
  /\ served \in [Processes -> 0..MaxRequests]
  /\ pipe \in [Processes -> [Threads -> PipeStates]]
  /\ found \in [Processes -> SUBSET Processes]
  /\ cut \in [Processes -> SUBSET Threads]

NoThreads == [t \in Threads |-> [at |-> "none", status |-> "Served"]]

Init ==
  /\ process = [p \in Processes |-> "idle"]
  /\ exit = [p \in Processes |-> "running"]
  /\ turn = [p \in Processes |-> 1]
  /\ mutex = [owner |-> Nobody, handles |-> {}]
  /\ stop = [set |-> FALSE, handles |-> {}]
  /\ thread = [p \in Processes |-> NoThreads]
  /\ served = [p \in Processes |-> 0]
  /\ pipe = [p \in Processes |-> [t \in Threads |-> "none"]]
  /\ found = [p \in Processes |-> {}]
  /\ cut = [p \in Processes |-> {}]

Closed(object, p) == [object EXCEPT !.handles = @ \ {p}]

\* The last handle takes the event with it.
ClosedEvent(p) ==
  LET left == Closed(stop, p)
  IN [left EXCEPT !.set = @ /\ left.handles # {}]

Goto(p, at) == process' = [process EXCEPT ![p] = at]

Exit(p, code) ==
  /\ Goto(p, "done")
  /\ exit' = [exit EXCEPT ![p] = code]
  /\ turn' = [turn EXCEPT ![p] = 1]

-----------------------------------------------------------------------------
(***************************************************************************)
(* One thread and one connection.                                          *)
(***************************************************************************)
MoveTo(p, t, at) == thread' = [thread EXCEPT ![p][t].at = at]

\* ServeOne... returns: the pipe is disconnected and closed.
Return(p, t, status) ==
  /\ thread' = [thread EXCEPT ![p][t] = [at |-> "after", status |-> status]]
  /\ pipe' = [pipe EXCEPT ![p][t] = "none"]

LimitReached(p) == MaxRequests > 0 /\ served[p] >= MaxRequests

CheckStop(p, t) ==
  /\ thread[p][t].at = "check"
  /\ MoveTo(p, t, IF stop.set \/ (t = Main /\ LimitReached(p))
                  THEN "out" ELSE "create")
  /\ UNCHANGED <<pipe, served, exit>>

CreatePipe(p, t) ==
  /\ thread[p][t].at = "create"
  /\ \/ /\ MoveTo(p, t, "connect")
        /\ pipe' = [pipe EXCEPT ![p][t] = "listening"]
     \/ Return(p, t, "SystemError")
  /\ UNCHANGED <<served, exit>>

\* ConnectNamedPipe: a client that came and went before the call is
\* ERROR_NO_DATA; one that comes while the call waits ends the wait.
ConnectClient(p, t) ==
  /\ \/ /\ thread[p][t].at = "connect"
        /\ \/ /\ pipe[p][t] = "listening"
              /\ MoveTo(p, t, "waiting")
              /\ UNCHANGED pipe
           \/ /\ pipe[p][t] \in Connected
              /\ MoveTo(p, t, "read")
              /\ UNCHANGED pipe
           \/ pipe[p][t] \in Left /\ Return(p, t, "SystemError")
     \/ /\ thread[p][t].at = "waiting"
        /\ pipe[p][t] # "listening"
        /\ MoveTo(p, t, "read")
        /\ UNCHANGED pipe
  /\ UNCHANGED <<served, exit>>

\* TransferExact and all that is done between two of its calls may fail, or come
\* to the deadline, also when the client has just moved.
ExchangeFails(p, t) ==
  \E status \in {"ClientTimeout", "SystemError"} : Return(p, t, status)

\* Reads a request, handles it and writes the response, also to a request that
\* cannot be decoded.  A client that has left is noticed when nothing is left to
\* read, or by the write.
ReadRequest(p, t) ==
  /\ thread[p][t].at = "read"
  /\ \/ /\ pipe[p][t] = "requested"
        /\ MoveTo(p, t, "ack")
        /\ pipe' = [pipe EXCEPT ![p][t] = "answered"]
     \/ pipe[p][t] \in Left /\ Return(p, t, "ClientDisconnected")
     \/ ExchangeFails(p, t)
  /\ UNCHANGED <<served, exit>>

\* Mutant of ReadAcknowledgement: disconnects without waiting for it.
DisconnectAtOnce(p, t) ==
  /\ thread[p][t].at = "ack"
  /\ Return(p, t, "Served")
  /\ UNCHANGED <<served, exit>>

ReadAcknowledgement(p, t) ==
  /\ thread[p][t].at = "ack"
  /\ \/ /\ pipe[p][t] = "acked"
        /\ \E status \in {"Served", "ProtocolError"} : Return(p, t, status)
     \/ pipe[p][t] \in Left /\ Return(p, t, "ClientDisconnected")
     \/ ExchangeFails(p, t)
  /\ UNCHANGED <<served, exit>>

\* The rest of the loop: the stop check comes before a look at the status.
AfterExchange(p, t) ==
  LET fatal == thread[p][t].status = "SystemError"
  IN /\ thread[p][t].at = "after"
     /\ thread' = [thread EXCEPT ![p][t] =
                     [at |-> IF stop.set \/ fatal THEN "out" ELSE "check",
                      status |-> "Served"]]
     /\ served' = IF t = Main /\ ~stop.set /\ MaxRequests > 0
                  THEN [served EXCEPT ![p] = @ + 1] ELSE served
     /\ exit' = IF t = Main /\ ~stop.set /\ fatal
                THEN [exit EXCEPT ![p] = "FAILURE"] ELSE exit
     /\ UNCHANGED pipe

\* The thread closes the pipe on an answer nobody has read, for no deadline.
CutsOff(p, t) ==
  /\ pipe[p][t] = "answered" /\ pipe'[p][t] = "none"
  /\ thread'[p][t].status # "ClientTimeout"

ThreadStep(p, t) ==
  /\ \/ CheckStop(p, t)
     \/ CreatePipe(p, t)
     \/ ConnectClient(p, t)
     \/ ReadRequest(p, t)
     \/ ReadAcknowledgement(p, t)
     \/ AfterExchange(p, t)
  /\ cut' = IF CutsOff(p, t) THEN [cut EXCEPT ![p] = @ \cup {t}] ELSE cut
  /\ UNCHANGED <<process, turn, kernel, found>>

\* The client at the other end: it sends its request, reads the response and
\* acknowledges it, and closes; or gives up, at its deadline at the latest.
ClientMoves ==
  {<<"listening", "connected">>, <<"connected", "requested">>,
   <<"answered", "acked">>, <<"connected", "left">>,
   <<"requested", "left_requested">>, <<"answered", "left">>}

Client(p, t) ==
  /\ \E move \in ClientMoves :
       /\ pipe[p][t] = move[1]
       /\ pipe' = [pipe EXCEPT ![p][t] = move[2]]
  /\ UNCHANGED <<control, kernel, thread, served, history>>

-----------------------------------------------------------------------------
(***************************************************************************)
(* WakePipeWithRetry.                                                      *)
(***************************************************************************)
\* A free instance takes the connection, which is closed at once; a busy one
\* will do, and without an instance the attempt is repeated.
WakePipe(t) ==
  \/ \E q \in Processes :
       /\ pipe[q][t] = "listening"
       /\ pipe' = [pipe EXCEPT ![q][t] = "left"]
  \/ /\ \A q \in Processes : pipe[q][t] # "listening"
     /\ \E q \in Processes : pipe[q][t] # "none"
     /\ UNCHANGED pipe

\* Fifty attempts in 500 ms are taken to be more than a thread needs from its
\* stop check to its pipe.
GiveUpWaking(t) ==
  /\ \A q \in Processes : pipe[q][t] = "none" /\ thread[q][t].at # "create"
  /\ UNCHANGED pipe

-----------------------------------------------------------------------------
(***************************************************************************)
(* wmain of a service.                                                     *)
(***************************************************************************)
\* Mutant of CreateMutex: does not ask whether the mutex existed.
CreateMutexAnyway(p) ==
  /\ process[p] = "idle"
  /\ mutex' = [owner |-> p, handles |-> mutex.handles \cup {p}]
  /\ Goto(p, "event")
  /\ UNCHANGED <<exit, turn, stop, thread, served, pipe, history>>

CreateMutex(p) ==
  /\ process[p] = "idle"
  /\ IF mutex.handles = {}
     THEN mutex' = [owner |-> p, handles |-> {p}] /\ Goto(p, "event")
     ELSE mutex' = [mutex EXCEPT !.handles = @ \cup {p}] /\ Goto(p, "duplicate")
  /\ UNCHANGED <<exit, turn, stop, thread, served, pipe, history>>

LeaveDuplicate(p) ==
  /\ process[p] = "duplicate"
  /\ mutex' = Closed(mutex, p)
  /\ Exit(p, "SUCCESS")
  /\ UNCHANGED <<stop, thread, served, pipe, history>>

\* A quit may have left its handle to the event, and the event set.
CreateStopEvent(p) ==
  /\ process[p] = "event"
  /\ \/ /\ Goto(p, "reset")
        /\ stop' = [stop EXCEPT !.handles = @ \cup {p}]
        /\ UNCHANGED exit
     \/ /\ Goto(p, "unlock")
        /\ exit' = [exit EXCEPT ![p] = "FAILURE"]
        /\ UNCHANGED stop
  /\ UNCHANGED <<turn, mutex, thread, served, pipe, history>>

ResetStopEvent(p) ==
  /\ process[p] = "reset"
  /\ stop' = [stop EXCEPT !.set = FALSE]
  /\ Goto(p, "spawn")
  /\ UNCHANGED <<exit, turn, mutex, thread, served, pipe, history>>

\* Workers are started if the store is there and a thread is to be had.
SpawnThreads(p) ==
  /\ process[p] = "spawn"
  /\ \E started \in SUBSET (Threads \ {Main}) :
       thread' = [thread EXCEPT ![p] =
                    [t \in Threads |->
                       IF t \in started \cup {Main}
                       THEN [at |-> "check", status |-> "Served"] ELSE @[t]]]
  /\ Goto(p, "serve")
  /\ cut' = [cut EXCEPT ![p] = {}]
  /\ UNCHANGED <<exit, turn, kernel, served, pipe, found>>

\* The next worker to wake and to join, from the i-th on.
ThenJoin(p, i) ==
  /\ turn' = [turn EXCEPT ![p] = i]
  /\ Goto(p, IF i > Len(Pipes) THEN "close_event" ELSE "wake")

LeaveLoop(p) ==
  /\ process[p] = "serve"
  /\ thread[p][Main].at = "out"
  /\ stop' = [stop EXCEPT !.set = TRUE]
  /\ ThenJoin(p, 2)
  /\ UNCHANGED <<exit, mutex, thread, served, pipe, history>>

\* Mutant of WakeWorker: joins without waking.
JoinAsleep(p) ==
  /\ process[p] = "wake"
  /\ Goto(p, "join")
  /\ UNCHANGED <<exit, turn, pipe, kernel, thread, served, history>>

WakeWorker(p) ==
  LET t == Pipes[turn[p]]
  IN /\ process[p] = "wake"
     /\ IF thread[p][t].at = "none"
        THEN ThenJoin(p, turn[p] + 1) /\ UNCHANGED pipe
        ELSE /\ WakePipe(t) \/ GiveUpWaking(t)
             /\ Goto(p, "join")
             /\ UNCHANGED turn
     /\ UNCHANGED <<exit, kernel, thread, served, history>>

\* Mutant of JoinWorker: leaves the worker to itself.
DetachWorker(p) ==
  /\ process[p] = "join"
  /\ ThenJoin(p, turn[p] + 1)
  /\ UNCHANGED <<exit, kernel, thread, served, pipe, history>>

JoinWorker(p) ==
  /\ process[p] = "join"
  /\ thread[p][Pipes[turn[p]]].at = "out"
  /\ ThenJoin(p, turn[p] + 1)
  /\ UNCHANGED <<exit, kernel, thread, served, pipe, history>>

CloseStopEvent(p) ==
  /\ process[p] = "close_event"
  /\ stop' = ClosedEvent(p)
  /\ Goto(p, "unlock")
  /\ UNCHANGED <<exit, turn, mutex, thread, served, pipe, history>>

ReleaseMutex(p) ==
  /\ process[p] = "unlock"
  /\ mutex' = [mutex EXCEPT !.owner = Nobody]
  /\ Goto(p, "close")
  /\ UNCHANGED <<exit, turn, stop, thread, served, pipe, history>>

CloseMutex(p) ==
  /\ process[p] = "close"
  /\ mutex' = Closed(mutex, p)
  /\ Exit(p, IF exit[p] = "running" THEN "SUCCESS" ELSE exit[p])
  /\ UNCHANGED <<stop, thread, served, pipe, history>>

\* The process is killed: the kernel closes what it had open.
Crash(p) ==
  /\ process[p] \in StartingAt \cup ServingAt \cup LeavingAt
  /\ mutex' = [owner |-> IF mutex.owner = p THEN Nobody ELSE mutex.owner,
               handles |-> mutex.handles \ {p}]
  /\ stop' = ClosedEvent(p)
  /\ thread' = [thread EXCEPT ![p] = NoThreads]
  /\ pipe' = [pipe EXCEPT ![p] = [t \in Threads |-> "none"]]
  /\ Exit(p, "FAILURE")
  /\ cut' = [cut EXCEPT ![p] = {}]
  /\ UNCHANGED <<served, found>>

-----------------------------------------------------------------------------
(***************************************************************************)
(* SignalQuit.                                                             *)
(***************************************************************************)
OpenMutex(p) ==
  /\ process[p] = "idle"
  /\ found' = [found EXCEPT ![p] =
                 {q \in Processes : process[q] \in StartingAt \cup ServingAt}]
  /\ IF mutex.handles = {}
     THEN Exit(p, "SUCCESS") /\ UNCHANGED mutex
     ELSE /\ mutex' = [mutex EXCEPT !.handles = @ \cup {p}]
          /\ Goto(p, "signal")
          /\ UNCHANGED <<exit, turn>>
  /\ UNCHANGED <<stop, thread, served, pipe, cut>>

OpenStopEvent(p) ==
  /\ process[p] = "signal"
  /\ stop.handles # {}
  /\ stop' = [stop EXCEPT !.handles = @ \cup {p}]
  /\ Goto(p, "set")
  /\ UNCHANGED <<exit, turn, mutex, thread, served, pipe, history>>

SetStopEvent(p) ==
  /\ process[p] = "set"
  /\ stop' = [ClosedEvent(p) EXCEPT !.set = stop.handles # {p}]
  /\ Goto(p, "wake_all")
  /\ UNCHANGED <<exit, turn, mutex, thread, served, pipe, history>>

WakeNext(p) ==
  /\ process[p] = "wake_all"
  /\ WakePipe(Pipes[turn[p]]) \/ GiveUpWaking(Pipes[turn[p]])
  /\ turn' = [turn EXCEPT ![p] = @ + 1]
  /\ Goto(p, IF turn'[p] > Len(Pipes) THEN "wait" ELSE "wake_all")
  /\ UNCHANGED <<exit, kernel, thread, served, history>>

\* WAIT_OBJECT_0 or WAIT_ABANDONED.
AcquireMutex(p) ==
  /\ process[p] = "wait"
  /\ mutex.owner = Nobody
  /\ mutex' = [mutex EXCEPT !.owner = p]
  /\ Goto(p, "release")
  /\ UNCHANGED <<exit, turn, stop, thread, served, pipe, history>>

QuitSucceeds(p) ==
  /\ process[p] = "release"
  /\ mutex' = [owner |-> Nobody, handles |-> mutex.handles \ {p}]
  /\ Exit(p, "SUCCESS")
  /\ UNCHANGED <<stop, thread, served, pipe, history>>

\* No event after fifty attempts, or no mutex after five seconds.
QuitFails(p) ==
  /\ process[p] \in {"signal", "wait"}
  /\ mutex' = Closed(mutex, p)
  /\ Exit(p, "FAILURE")
  /\ UNCHANGED <<stop, thread, served, pipe, history>>

-----------------------------------------------------------------------------
ServiceStep(p) ==
  \/ LeaveDuplicate(p)
  \/ CreateStopEvent(p)
  \/ ResetStopEvent(p)
  \/ SpawnThreads(p)
  \/ LeaveLoop(p)
  \/ WakeWorker(p)
  \/ JoinWorker(p)
  \/ CloseStopEvent(p)
  \/ ReleaseMutex(p)
  \/ CloseMutex(p)

QuitStep(p) ==
  \/ OpenStopEvent(p)
  \/ SetStopEvent(p)
  \/ WakeNext(p)
  \/ AcquireMutex(p)
  \/ QuitSucceeds(p)
  \/ QuitFails(p)

\* Somebody runs the program, with or without --quit.
Launch(p) ==
  /\ \A q \in 1..(p - 1) : process[q] # "idle"
  /\ CreateMutex(p) \/ OpenMutex(p)

Next ==
  \E p \in Processes :
    \/ Launch(p)
    \/ ServiceStep(p)
    \/ QuitStep(p)
    \/ Crash(p)
    \/ \E t \in Threads : ThreadStep(p, t) \/ Client(p, t)

Spec == Init /\ [][Next]_vars

\* Processes that were launched and threads that were started go on: every wait
\* of theirs but ConnectNamedPipe and join has a deadline.  Clients, crashes and
\* launches have no fairness.
FairSpec ==
  /\ Spec
  /\ \A p \in Processes :
       /\ WF_vars(ServiceStep(p) \/ QuitStep(p))
       /\ \A t \in Threads : WF_vars(ThreadStep(p, t))

-----------------------------------------------------------------------------
Serves(p) == \E t \in Threads : thread[p][t].at \notin {"none", "out"}

(***************************************************************************)
(* What the exclusion rests on: a process has a handle to the mutex from   *)
(* its first look to its end, and a service owns it until its last worker  *)
(* is joined.                                                              *)
(***************************************************************************)
Idle(p, t) == thread[p][t].at \in {"none", "out"}
OwningAt == StartingAt \cup ServingAt \cup {"close_event", "unlock", "release"}
Past == {"close", "done"}

HandleInv ==
  \A p \in Processes : process[p] \notin {"idle", "done"} => p \in mutex.handles

OwnerInv == \A p \in Processes : process[p] \in OwningAt => mutex.owner = p

\* Threads run between their start and their join, in the order of the pipes.
ThreadInv ==
  \A p \in Processes :
    /\ process[p] \notin ServingAt => \A t \in Threads : Idle(p, t)
    /\ process[p] \in {"wake", "join"} =>
         \A i \in DOMAIN Pipes : i < turn[p] => Idle(p, Pipes[i])

TurnInv ==
  \A p \in Processes :
    /\ process[p] \in {"idle", "signal", "set"} => turn[p] = 1
    /\ process[p] \in {"wake", "join", "wake_all"} => turn[p] <= Len(Pipes)

\* The main thread leaves its loop before it serves one request too many.
RequestsInv ==
  \A p \in Processes :
    thread[p][Main].at \notin {"none", "check", "out"} => ~LimitReached(p)

\* What a quit has found has left when the mutex is free.
QuitInv ==
  \A p \in Processes :
    /\ process[p] \notin QuittingAt \cup {"done"} => found[p] = {}
    /\ exit[p] = "SUCCESS" => process[p] = "done"
    /\ \A q \in found[p] : process[q] \notin {"idle", "duplicate"} \cup QuittingAt
    /\ process[p] = "release" \/ exit[p] = "SUCCESS" =>
         \A q \in found[p] : process[q] \in Past

\* An answer nobody has acknowledged is waited for, and a thread that does not
\* wait has had a system error, or has ended.
AnswerInv ==
  \A p \in Processes, t \in Threads :
    /\ pipe[p][t] = "answered" => thread[p][t].at = "ack"
    /\ t \in cut[p] =>
         \/ thread[p][t].at = "out"
         \/ thread[p][t].at = "after" /\ thread[p][t].status = "SystemError"

LifeInv ==
  HandleInv /\ OwnerInv /\ ThreadInv /\ TurnInv /\ RequestsInv /\ QuitInv
    /\ AnswerInv

\* docs/context-service.md:65, the second instance exits: two services never
\* serve at once, whatever starts, quits and crashes.  Rests on the mutex being
\* held until the last worker is joined.
OneServes ==
  \A p, q \in Processes : Serves(p) /\ Serves(q) => p = q

\* A quit that reports success leaves no thread running of the services that
\* ran when it was called; installers replace the files on its word.
QuitMeansStopped ==
  \A p \in Processes :
    exit[p] = "SUCCESS" => \A q \in found[p] : ~Serves(q)

\* The acknowledgement keeps the service from cutting off a response the client
\* has not read yet (context_service_client_win.cpp:148): while there is one the
\* service does not get past its joins, whoever tells it to quit and wakes its
\* pipes.  Without the end of the process, only the deadline cuts one off, and a
\* SystemError of TransferExact, with which the thread has served for the last
\* time.
NotCutOff ==
  \A p \in Processes, t \in Threads :
    /\ pipe[p][t] = "answered" => process[p] \in ServingAt
    /\ t \in cut[p] => thread[p][t].at \in {"after", "out"}

\* A stop event that is set when a service is serving is heard: its threads
\* leave their pipes, are joined, and the process ends.  Also when the service
\* sets it for itself, after an error of the main thread, with nobody else there
\* to wake its workers.  (A quit that comes between CreateEvent and ResetEvent
\* of a starting service is not heard.)
StopIsHeard ==
  (\E p \in Processes : process[p] \in ServingAt) /\ stop.set
    ~> \A p \in Processes : process[p] \notin ServingAt
=============================================================================
