------------------------ MODULE ProjectCandidatesProofs ------------------------
(***************************************************************************)
(* Proofs about the way of a project's symbols into the candidate list,    *)
(* for any windows, versions, lease, poll interval and numbers of faults.  *)
(***************************************************************************)
EXTENDS ProjectCandidates, TLAPS

Exchange == [from: Windows, op: Ops, version: Versions, waits: BOOLEAN]

LEMMA ConstantTypes ==
  /\ MaxVersion \in Nat /\ MaxVersion >= 1
  /\ Lease \in Nat /\ Lease >= 1
  /\ Poll \in Nat /\ Poll >= 1
  /\ MaxGeneration \in Nat /\ MaxGeneration >= 3
  /\ MaxFaults \in Nat /\ MaxMoves \in Nat
BY CandidatesAssumption

\* There is always a generation that neither the snapshot nor the worker holds;
\* another one is taken after a restart only.
LEMMA NextGenerationsType ==
  ASSUME TypeOK, NEW g \in NextGenerations
  PROVE  /\ g \in Generations
         /\ g # active.generation
         /\ ~reborn => g # shown.generation
<1> DEFINE free == (1..MaxGeneration) \ {active.generation, shown.generation}
           least == CHOOSE h \in free : \A i \in free : h <= i
<1>1. \E h \in free : \A i \in free : h <= i
  <2>1. {1, 2, 3} \subseteq 1..MaxGeneration
    BY ConstantTypes
  <2>2. CASE 1 \in free
    BY <2>2
  <2>3. CASE 1 \notin free /\ 2 \in free
    BY <2>1, <2>3
  <2>4. CASE 1 \notin free /\ 2 \notin free
    <3>1. 3 \in free
      BY <2>1, <2>4
    <3>2. QED BY <2>1, <2>4, <3>1
  <2>5. QED BY <2>2, <2>3, <2>4
<1>2. least \in free
  BY <1>1
<1>3. g = least \/ (reborn /\ g \in {shown.generation} \ {0, active.generation})
  BY Zenon DEF NextGenerations
<1>4. shown.generation \in Generations /\ free \subseteq Generations
  BY DEF TypeOK, Shown, Generations
<1>5. QED BY <1>2, <1>3, <1>4

\* A window's record stays one, whatever of it is assigned.
LEMMA WindowUpdates ==
  ASSUME NEW s \in Window
  PROVE  /\ Ended(s) \in Window
         /\ \A b \in BOOLEAN : [s EXCEPT !.activated = b] \in Window
         /\ \A b, c \in BOOLEAN :
              /\ [s EXCEPT !.activated = b, !.sent = c] \in Window
              /\ [s EXCEPT !.activated = b, !.force = c] \in Window
              /\ [s EXCEPT !.enabled = b, !.force = c] \in Window
         /\ \A v \in Versions :
              /\ [s EXCEPT !.published = v] \in Window
              /\ [s EXCEPT !.at = "capture", !.captured = v] \in Window
<1>1. 0 \in Versions
  BY ConstantTypes DEF Versions
<1>2. QED BY <1>1 DEF Ended, Window

\* Wherever a report's exchange ends.
LEMMA ResumeType ==
  ASSUME NEW s \in Window, s.at \in Ops, NEW ok \in BOOLEAN
  PROVE  Resume(s, ok) \in Window
<1>1. /\ s.activated \in BOOLEAN
      /\ s.version \in Versions
      /\ s.published \in Versions
      /\ s.captured \in Versions
  BY DEF Window
<1>2. (s.activated \/ ok) \in BOOLEAN /\ (s.activated /\ ~ok) \in BOOLEAN
  BY <1>1, Zenon
<1>3. Activated(s, ok) \in Window
  <2> DEFINE next == [s EXCEPT !.activated = @ \/ ok, !.force = FALSE]
  <2>1. next \in Window
    BY <1>2, WindowUpdates, Zenon
  <2>2. Ended(next) \in Window
    BY <2>1, WindowUpdates
  <2>3. [next EXCEPT !.at = "capture", !.captured = s.version] \in Window
    BY <1>1, <2>1, WindowUpdates, Zenon
  <2>4. QED BY <2>2, <2>3, Zenon DEF Activated
<1>4. Published(s, ok) \in Window
  <2>1. PICK v \in Versions : Published(s, ok) = Ended([s EXCEPT !.published = v])
    BY <1>1, Zenon DEF Published
  <2>2. QED BY <2>1, WindowUpdates
<1>5. Ended([s EXCEPT !.activated = @ /\ ~ok]) \in Window
  <2>1. [s EXCEPT !.activated = @ /\ ~ok] \in Window
    BY <1>2, WindowUpdates, Zenon
  <2>2. QED BY <2>1, WindowUpdates
<1>6. Ended([s EXCEPT !.activated = @ /\ ~ok, !.sent = ok]) \in Window
  <2>1. [s EXCEPT !.activated = @ /\ ~ok, !.sent = ok] \in Window
    BY <1>2, WindowUpdates, Zenon
  <2>2. QED BY <2>1, WindowUpdates
<1>7. QED
  <2>1. CASE s.at = "activate"
    BY <1>3, <2>1 DEF Resume
  <2>2. CASE s.at = "upsert"
    BY <1>4, <2>2 DEF Resume
  <2>3. CASE s.at = "deactivate"
    BY <1>5, <2>3 DEF Resume
  <2>4. CASE s.at = "disable"
    BY <1>6, <2>4 DEF Resume
  <2>5. QED BY <2>1, <2>2, <2>3, <2>4 DEF Ops

\* What the indexer makes of a request.
LEMMA HandleType ==
  ASSUME TypeOK, NEW r \in Exchange, Handle(r) \/ HandleFails(r)
  PROVE  /\ active' \in Snapshot
         /\ dictionary' \in [Windows -> Versions]
<1>1. ASSUME NEW w \in Windows, NEW v \in Versions, Publish(w, v)
      PROVE  active' \in Snapshot
  BY <1>1, NextGenerationsType, ConstantTypes DEF Publish, Snapshot, Left
<1>2. ASSUME Clear PROVE active' \in Snapshot
  BY <1>2, NextGenerationsType, ConstantTypes
  DEF Clear, EmptySnapshot, Snapshot, Left, Versions
<1>3. [active EXCEPT !.left = Lease] \in Snapshot
  BY ConstantTypes DEF TypeOK, Snapshot, Left
<1>4. CASE HandleFails(r)
  BY <1>2, <1>4 DEF HandleFails, TypeOK
<1>5. CASE Handle(r) /\ r.op = "activate"
  BY <1>1, <1>3, <1>5 DEF Handle, Activate, Exchange, TypeOK
<1>6. CASE Handle(r) /\ r.op \in {"disable", "deactivate"}
  BY <1>2, <1>6 DEF Handle, Exchange, TypeOK
<1>7. CASE Handle(r) /\ r.op = "upsert"
  <2>1. Upsert(r.from, r.version)
    BY <1>7 DEF Handle
  <2>2. (IF r.version > dictionary[r.from]
         THEN r.version ELSE dictionary[r.from]) \in Versions
    BY DEF Exchange, TypeOK
  <2>3. QED BY <1>1, <2>1, <2>2 DEF Upsert, Exchange, TypeOK
<1>8. QED BY <1>4, <1>5, <1>6, <1>7 DEF Exchange, Ops

LEMMA ResponseType ==
  ASSUME TypeOK
  PROVE  /\ MakeResponse.project \in Windows \cup {Nobody}
         /\ MakeResponse.generation = active.generation
         /\ MakeResponse.generation \in Generations
         /\ MakeResponse.candidates \in Versions
         /\ MakeResponse.ttl \in Left
         /\ MakeResponse.ttl < 0 => MakeResponse.project = Nobody
         /\ \/ /\ MakeResponse.project = active.project
               /\ MakeResponse.candidates = active.candidates
            \/ MakeResponse.project = Nobody /\ MakeResponse.candidates = 0
BY ConstantTypes DEF MakeResponse, IsLive, TypeOK, Snapshot, Left, Versions

-----------------------------------------------------------------------------
LEMMA TypeStep == TypeOK /\ WaitInv /\ [Next]_vars => TypeOK'
<1> SUFFICES ASSUME TypeOK, WaitInv, [Next]_vars
             PROVE  TypeOK'
  OBVIOUS
<1> USE ConstantTypes
        DEF TypeOK, vars, bounds, history, server, worker
<1>a. Fault => faults' \in 0..MaxFaults /\ moves' \in 0..MaxMoves
  BY DEF Fault
<1>b. ASSUME NEW w \in Windows, NEW s \in Window,
             window' = [window EXCEPT ![w] = s]
      PROVE  window' \in [Windows -> Window]
  BY <1>b
<1>c. \A w \in Windows : window[w] \in Window
  OBVIOUS
<1>1. ASSUME NEW w \in Windows, Report(w) PROVE TypeOK'
  <2>1. \E s \in Window : window' = [window EXCEPT ![w] = s]
    BY <1>1, <1>c DEF Report, Window, Ops
  <2>2. QED BY <1>1, <1>b, <2>1 DEF Report
<1>2. ASSUME NEW w \in Windows, Send(w) PROVE TypeOK'
  <2>1. CASE up /\ exchange = NoExchange
    <3>1. exchange' \in Exchange
      <4>1. window[w].at \in Ops /\ window[w].captured \in Versions
        BY <1>2, <1>c DEF Send, Window
      <4>2. exchange' = [from |-> w, op |-> window[w].at,
                         version |-> window[w].captured, waits |-> TRUE]
        BY <1>2, <2>1 DEF Send
      <4>3. QED BY <4>1, <4>2 DEF Exchange
    <3>2. QED BY <1>2, <2>1, <3>1 DEF Send, Exchange
  <2>2. CASE ~(up /\ exchange = NoExchange)
    <3>1. window' = [window EXCEPT ![w] = Resume(window[w], FALSE)]
      BY <1>2, <2>2 DEF Send
    <3>2. Resume(window[w], FALSE) \in Window
      BY <1>2, <1>c, ResumeType DEF Send
    <3>3. window' \in [Windows -> Window]
      BY <1>b, <3>1, <3>2
    <3>4. QED BY <1>2, <2>2, <3>3 DEF Send
  <2>3. QED BY <2>1, <2>2
<1>3. ASSUME NEW w \in Windows, SendTimeout(w) PROVE TypeOK'
  <2>1. Resume(window[w], FALSE) \in Window
    BY <1>3, <1>c, ResumeType DEF SendTimeout, Ops
  <2>2. window' \in [Windows -> Window]
    BY <1>3, <1>b, <2>1 DEF SendTimeout
  <2>3. QED BY <1>3, <1>a, <2>2 DEF SendTimeout
<1>4. ASSUME NEW w \in Windows, Abandon(w) PROVE TypeOK'
  <2>1. Resume(window[w], FALSE) \in Window
    BY <1>4, <1>c, ResumeType DEF Abandon, WaitInv
  <2>2. window' \in [Windows -> Window]
    BY <1>4, <1>b, <2>1 DEF Abandon
  <2>3. exchange' \in Exchange
    BY <1>4 DEF Abandon, Waits, Exchange
  <2>4. QED BY <1>4, <1>a, <2>2, <2>3 DEF Abandon, Exchange
<1>5. ASSUME NEW w \in Windows, Capture(w) PROVE TypeOK'
  <2>1. window' \in [Windows -> Window]
    BY <1>5, <1>c DEF Capture, Window, Ops
  <2>2. QED BY <1>5, <2>1 DEF Capture
<1>6. ASSUME NEW w \in Windows, CaptureFails(w) PROVE TypeOK'
  <2>1. window' \in [Windows -> Window]
    BY <1>6, <1>b, <1>c, WindowUpdates DEF CaptureFails
  <2>2. QED BY <1>6, <1>a, <2>1 DEF CaptureFails
<1>7. ASSUME NEW w \in Windows, Edit(w) PROVE TypeOK'
  <2>1. window[w].version + 1 \in Versions
    BY <1>7, <1>c DEF Edit, Window, Versions
  <2>2. window' \in [Windows -> Window]
    BY <1>7, <1>c, <2>1 DEF Edit, Window
  <2>3. QED BY <1>7, <2>2 DEF Edit
<1>8. ASSUME NEW w \in Windows, Configure(w) PROVE TypeOK'
  <2>1. window' \in [Windows -> Window]
    <3>1. (~window[w].enabled) \in BOOLEAN
      BY <1>c, Zenon
    <3>2. [window[w] EXCEPT !.enabled = ~@, !.force = TRUE] \in Window
      BY <1>c, <3>1, WindowUpdates, Zenon
    <3>3. window' = [window EXCEPT ![w] =
                       [window[w] EXCEPT !.enabled = ~@, !.force = TRUE]]
      BY <1>8, Zenon DEF Configure
    <3>4. QED BY <1>b, <3>2, <3>3
  <2>2. QED BY <1>8, <2>1 DEF Configure
<1>9. CASE Serve
  <2>1. exchange \in Exchange
    BY <1>9 DEF Serve, Exchange
  <2>2. active' \in Snapshot /\ dictionary' \in [Windows -> Versions]
    BY <1>9, <2>1, HandleType DEF Serve
  <2>3. window' \in [Windows -> Window]
    <3>1. ASSUME NEW ok \in BOOLEAN, Answered(ok)
          PROVE  window' \in [Windows -> Window]
      <4>1. \A w \in Windows : Waits(w) => Resume(window[w], ok) \in Window
        BY <1>c, ResumeType DEF WaitInv
      <4>2. QED BY <1>c, <3>1, <4>1 DEF Answered
    <3>2. \/ UNCHANGED window
          \/ Answered(TRUE)
          \/ Answered(FALSE)
      BY <1>9 DEF Serve
    <3>3. QED BY <3>1, <3>2
  <2>4. faults' \in 0..MaxFaults /\ moves' \in 0..MaxMoves
    BY <1>9, <1>a DEF Serve
  <2>5. gone' \in Nat
    BY <1>9 DEF Serve
  <2>6. QED BY <1>9, <2>2, <2>3, <2>4, <2>5 DEF Serve
<1>10. CASE Fetch
  <2>1. shown' \in Shown /\ reborn' \in BOOLEAN
    <3>1. CASE UNCHANGED <<shown, reborn>>
      BY <3>1
    <3>2. CASE /\ Show(MakeResponse.project, MakeResponse.generation,
                       MakeResponse.candidates)
               /\ reborn' = FALSE
      BY <3>2, ResponseType DEF Show, Shown
    <3>3. QED BY <1>10, <3>1, <3>2 DEF Fetch, PublishShown
  <2>2. fetch' \in [due: 0..Poll, valid: Left]
    BY <1>10, ResponseType DEF Fetch
  <2>3. QED BY <1>10, <2>1, <2>2 DEF Fetch
<1>11. CASE FetchFails
  <2>1. /\ shown' \in Shown
        /\ reborn' \in BOOLEAN
        /\ gone' \in Nat
    <3>1. CASE UNCHANGED <<shown, history>>
      BY <3>1
    <3>2. CASE Show(Nobody, 0, 0) /\ gone' = 0 /\ reborn' = FALSE
      <4>1. 0 \in Versions /\ 0 \in Generations
        BY DEF Generations, Versions
      <4>2. shown' \in Shown
        BY <3>2, <4>1, Zenon DEF Show, Shown
      <4>3. gone' \in Nat
        BY <3>2
      <4>4. QED BY <3>2, <4>2, <4>3, Zenon
    <3>3. QED BY <1>11, <3>1, <3>2 DEF FetchFails, PublishExpired
  <2>2. fetch' \in [due: 0..Poll, valid: Left]
    BY <1>11 DEF FetchFails
  <2>3. faults' \in 0..MaxFaults /\ moves' \in 0..MaxMoves
    BY <1>11, <1>a DEF FetchFails
  <2>4. QED BY <1>11, <2>1, <2>2, <2>3 DEF FetchFails
<1>12. CASE MoveFocus
  BY <1>12 DEF MoveFocus
<1>13. CASE ServiceStops
  <2>1. window' \in [Windows -> Window]
    BY <1>13, <1>c, ResumeType DEF ServiceStops, Answered, WaitInv
  <2>2. active' \in Snapshot
    BY <1>13
    DEF ServiceStops, EmptySnapshot, Snapshot, Generations, Versions, Left
  <2>3. QED BY <1>13, <1>a, <2>1, <2>2 DEF ServiceStops
<1>14. CASE ServiceStarts
  BY <1>14 DEF ServiceStarts
<1>15. CASE Tick
  <2>1. \A n \in Left : Less(n) \in Left
    BY DEF Less, Left
  <2>2. active' \in Snapshot
    BY <1>15, <2>1 DEF Tick, Snapshot
  <2>3. fetch' \in [due: 0..Poll, valid: Left]
    BY <1>15, <2>1 DEF Tick
  <2>4. gone' \in Nat
    BY <1>15 DEF Tick
  <2>5. QED BY <1>15, <2>2, <2>3, <2>4 DEF Tick
<1>16. CASE UNCHANGED vars
  BY <1>16
<1>17. QED
  BY <1>1, <1>2, <1>3, <1>4, <1>5, <1>6, <1>7, <1>8, <1>9, <1>10, <1>11,
     <1>12, <1>13, <1>14, <1>15, <1>16 DEF Next, ReporterStep

-----------------------------------------------------------------------------
\* A report that waits for no connection may go on without one.
LEMMA FreeReport ==
  ASSUME WaitInv, NEW w \in Windows, ~Waits(w), UNCHANGED exchange,
         NEW s, window \in [Windows -> Window],
         window' = [window EXCEPT ![w] = s]
  PROVE  WaitInv'
BY DEF WaitInv, Waits

LEMMA WaitStep == TypeOK /\ WaitInv /\ [Next]_vars => WaitInv'
<1> SUFFICES ASSUME TypeOK, WaitInv, [Next]_vars
             PROVE  WaitInv'
  OBVIOUS
<1> USE DEF vars, bounds, history, server, worker
<1>a. window \in [Windows -> Window]
  BY DEF TypeOK
<1>b. {"idle", "capture"} \cap Ops = {}
  BY DEF Ops
<1>c. UNCHANGED <<window, exchange>> => WaitInv'
  BY DEF WaitInv, Waits
<1>d. exchange' = NoExchange => WaitInv'
  BY DEF WaitInv, Waits
<1>1. ASSUME NEW w \in Windows, Report(w) PROVE WaitInv'
  <2>1. ~Waits(w)
    BY <1>1, <1>b DEF Report, WaitInv
  <2>2. \E s : window' = [window EXCEPT ![w] = s]
    BY <1>1 DEF Report
  <2>3. QED BY <1>1, <1>a, <2>1, <2>2, FreeReport DEF Report
<1>2. ASSUME NEW w \in Windows, Send(w) PROVE WaitInv'
  <2>1. CASE up /\ exchange = NoExchange
    <3>1. /\ exchange' = [from |-> w, op |-> window[w].at,
                          version |-> window[w].captured, waits |-> TRUE]
          /\ UNCHANGED window
          /\ window[w].at \in Ops
      BY <1>2, <2>1 DEF Send
    <3>2. QED BY <3>1 DEF WaitInv, Waits
  <2>2. CASE ~(up /\ exchange = NoExchange)
    BY <1>2, <1>a, <2>2, FreeReport DEF Send
  <2>3. QED BY <2>1, <2>2
<1>3. ASSUME NEW w \in Windows, SendTimeout(w) PROVE WaitInv'
  BY <1>3, <1>a, FreeReport DEF SendTimeout
<1>4. ASSUME NEW w \in Windows, Abandon(w) PROVE WaitInv'
  <2>1. exchange \in Exchange
    BY <1>4 DEF Abandon, Waits, TypeOK, Exchange
  <2>2. exchange'.waits = FALSE
    BY <1>4, <2>1 DEF Abandon, Exchange
  <2>3. QED BY <2>2 DEF WaitInv, Waits
<1>5. ASSUME NEW w \in Windows, Capture(w) PROVE WaitInv'
  <2>1. ~Waits(w)
    BY <1>5, <1>b DEF Capture, WaitInv
  <2>2. \E s : window' = [window EXCEPT ![w] = s]
    BY <1>5 DEF Capture
  <2>3. QED BY <1>5, <1>a, <2>1, <2>2, FreeReport DEF Capture
<1>6. ASSUME NEW w \in Windows, CaptureFails(w) PROVE WaitInv'
  <2>1. ~Waits(w)
    BY <1>6, <1>b DEF CaptureFails, WaitInv
  <2>2. QED BY <1>6, <1>a, <2>1, FreeReport DEF CaptureFails
<1>7. ASSUME NEW w \in Windows, Edit(w) \/ Configure(w) PROVE WaitInv'
  <2>1. \A v \in Windows : window'[v].at = window[v].at
    BY <1>7, <1>a DEF Edit, Configure, Window
  <2>2. UNCHANGED exchange
    BY <1>7 DEF Edit, Configure
  <2>3. QED BY <2>1, <2>2 DEF WaitInv, Waits
<1>8. CASE Serve \/ ServiceStops
  BY <1>8, <1>d DEF Serve, ServiceStops
<1>9. CASE Fetch \/ FetchFails \/ MoveFocus \/ ServiceStarts \/ Tick
  BY <1>9, <1>c DEF Fetch, FetchFails, MoveFocus, ServiceStarts, Tick
<1>10. CASE UNCHANGED vars
  BY <1>10, <1>c
<1>11. QED
  BY <1>1, <1>2, <1>3, <1>4, <1>5, <1>6, <1>7, <1>8, <1>9, <1>10
  DEF Next, ReporterStep

-----------------------------------------------------------------------------
\* A request that is served leaves the snapshot of the same candidates, or of
\* others under another generation than the worker's.
LEMMA HandleKeeps ==
  ASSUME TypeOK, GenerationInv, NEW r \in Exchange, Handle(r) \/ HandleFails(r)
  PROVE  /\ active'.project = Nobody => active'.candidates = 0
         /\ \/ /\ active'.project = active.project
               /\ active'.generation = active.generation
               /\ active'.candidates = active.candidates
            \/ active'.project = Nobody
            \/ ~reborn => active'.generation # shown.generation
<1> DEFINE Kept == /\ active'.project = active.project
                   /\ active'.generation = active.generation
                   /\ active'.candidates = active.candidates
           New == /\ active'.project # Nobody
                  /\ ~reborn => active'.generation # shown.generation
           Cleared == active'.project = Nobody /\ active'.candidates = 0
<1>1. ASSUME NEW w \in Windows, NEW v \in Versions, Publish(w, v)
      PROVE  New
  BY <1>1, NextGenerationsType, CandidatesAssumption DEF Publish
<1>2. ASSUME Clear PROVE Cleared
  BY <1>2 DEF Clear, EmptySnapshot
<1>3. active' = [active EXCEPT !.left = Lease] => Kept
  BY DEF TypeOK, Snapshot
<1>4. UNCHANGED active => Kept
  OBVIOUS
<1>5. CASE Handle(r) /\ r.op = "activate"
  BY <1>1, <1>3, <1>5 DEF Handle, Activate, Exchange, TypeOK, GenerationInv
<1>6. CASE Handle(r) /\ r.op \in {"disable", "deactivate"}
  BY <1>2, <1>6 DEF Handle
<1>7. CASE Handle(r) /\ r.op = "upsert"
  <2>1. Upsert(r.from, r.version)
    BY <1>7 DEF Handle
  <2>2. (IF r.version > dictionary[r.from]
         THEN r.version ELSE dictionary[r.from]) \in Versions
    BY DEF Exchange, TypeOK
  <2>3. New \/ Kept
    BY <1>1, <1>4, <2>1, <2>2 DEF Upsert, Exchange
  <2>4. QED BY <2>3 DEF GenerationInv
<1>8. CASE HandleFails(r)
  BY <1>2, <1>4, <1>8 DEF HandleFails, GenerationInv
<1>9. QED BY <1>5, <1>6, <1>7, <1>8 DEF Exchange, Ops

LEMMA GenerationStep ==
  TypeOK /\ GenerationInv /\ [Next]_vars => GenerationInv'
<1> SUFFICES ASSUME TypeOK, GenerationInv, [Next]_vars
             PROVE  GenerationInv'
  OBVIOUS
<1> USE DEF vars, bounds, history, server, worker
<1>a. UNCHANGED <<active, shown, reborn>> => GenerationInv'
  BY DEF GenerationInv
<1>1. CASE Serve
  <2>1. UNCHANGED <<shown, reborn>>
    BY <1>1 DEF Serve
  <2>2. CASE Handle(exchange) \/ HandleFails(exchange)
    <3>1. exchange \in Exchange
      BY <1>1 DEF Serve, TypeOK, Exchange
    <3>2. QED BY <2>1, <2>2, <3>1, HandleKeeps DEF GenerationInv
  <2>3. QED BY <1>1, <1>a, <2>1, <2>2 DEF Serve
<1>2. CASE Fetch
  <2>1. UNCHANGED active
    BY <1>2 DEF Fetch
  <2>2. CASE UNCHANGED <<shown, reborn>>
    BY <1>a, <2>1, <2>2
  <2>3. CASE Show(MakeResponse.project, MakeResponse.generation,
                  MakeResponse.candidates)
    BY <2>1, <2>3, ResponseType DEF Show, GenerationInv
  <2>4. QED BY <1>2, <2>2, <2>3 DEF Fetch, PublishShown
<1>3. CASE FetchFails
  <2>1. UNCHANGED active
    BY <1>3 DEF FetchFails
  <2>2. CASE UNCHANGED <<shown, history>>
    BY <1>a, <2>1, <2>2
  <2>3. CASE Show(Nobody, 0, 0)
    BY <2>1, <2>3 DEF Show, GenerationInv
  <2>4. QED BY <1>3, <2>2, <2>3 DEF FetchFails, PublishExpired
<1>4. CASE ServiceStops
  BY <1>4 DEF ServiceStops, EmptySnapshot, GenerationInv
<1>5. CASE Tick
  <2>1. /\ active'.project = active.project
        /\ active'.generation = active.generation
        /\ active'.candidates = active.candidates
    BY <1>5 DEF Tick, TypeOK, Snapshot
  <2>2. QED BY <1>5, <2>1 DEF Tick, GenerationInv
<1>6. ASSUME NEW w \in Windows, ReporterStep(w) \/ Edit(w) \/ Configure(w)
      PROVE  GenerationInv'
  BY <1>6, <1>a
  DEF ReporterStep, Report, Send, SendTimeout, Abandon, Capture, CaptureFails,
      Edit, Configure
<1>7. CASE MoveFocus \/ ServiceStarts
  BY <1>7, <1>a DEF MoveFocus, ServiceStarts
<1>8. CASE UNCHANGED vars
  BY <1>8, <1>a
<1>9. QED BY <1>1, <1>2, <1>3, <1>4, <1>5, <1>6, <1>7, <1>8 DEF Next

LEMMA ValidStep == TypeOK /\ ValidInv /\ [Next]_vars => ValidInv'
<1> SUFFICES ASSUME TypeOK, ValidInv, [Next]_vars
             PROVE  ValidInv'
  OBVIOUS
<1> USE ConstantTypes DEF vars, bounds, history, server, worker
<1>a. /\ fetch.due \in 0..Poll
      /\ fetch.valid \in Left
      /\ gone \in Nat
  BY DEF TypeOK
<1>b. UNCHANGED <<fetch, shown, gone>> => ValidInv'
  BY DEF ValidInv
<1>1. CASE Serve
  <2>1. UNCHANGED <<fetch, shown>> /\ (gone' = 0 \/ gone' = gone)
    BY <1>1 DEF Serve
  <2>2. QED BY <1>a, <2>1 DEF ValidInv, Left
<1>2. CASE Fetch
  <2>1. shown'.project = MakeResponse.project
    BY <1>2 DEF Fetch, PublishShown, Show
  <2>2. gone' = 0 /\ fetch'.valid = MakeResponse.ttl
    BY <1>2 DEF Fetch
  <2>3. QED BY <2>1, <2>2, ResponseType DEF ValidInv, Left
<1>3. CASE FetchFails
  <2>1. CASE fetch.valid < 0
    <3>1. shown'.project = Nobody
      BY <1>3, <2>1 DEF FetchFails, PublishExpired, Show
    <3>2. QED BY <3>1 DEF ValidInv
  <2>2. CASE fetch.valid >= 0
    <3>1. /\ UNCHANGED <<shown, gone>>
          /\ fetch'.valid = fetch.valid
      BY <1>3, <1>a, <2>2 DEF FetchFails, PublishExpired, TypeOK, Left
    <3>2. QED BY <2>2, <3>1 DEF ValidInv
  <2>3. QED BY <1>a, <2>1, <2>2 DEF Left
<1>4. CASE Tick
  <2>1. /\ UNCHANGED shown
        /\ fetch'.due = fetch.due - 1
        /\ fetch'.valid = IF fetch.valid < 0 THEN fetch.valid ELSE fetch.valid - 1
        /\ gone' = 0 \/ gone' = gone + 1
    BY <1>4 DEF Tick, Less
  <2>2. QED BY <1>a, <2>1 DEF ValidInv, Left
<1>5. ASSUME NEW w \in Windows, ReporterStep(w) \/ Edit(w) \/ Configure(w)
      PROVE  ValidInv'
  BY <1>5, <1>b
  DEF ReporterStep, Report, Send, SendTimeout, Abandon, Capture, CaptureFails,
      Edit, Configure
<1>6. CASE MoveFocus \/ ServiceStops \/ ServiceStarts
  BY <1>6, <1>b DEF MoveFocus, ServiceStops, ServiceStarts
<1>7. CASE UNCHANGED vars
  BY <1>7, <1>b
<1>8. QED BY <1>1, <1>2, <1>3, <1>4, <1>5, <1>6, <1>7 DEF Next

-----------------------------------------------------------------------------
\* The inductive invariant: the types, that only a report at an exchange waits
\* for one, and what generation and validity of what is shown tell.
THEOREM InvCorrect == Spec => [](TypeOK /\ WaitInv /\ ShownInv)
<1>1. Init => TypeOK /\ WaitInv /\ ShownInv
  <2> SUFFICES ASSUME Init PROVE TypeOK /\ WaitInv /\ ShownInv
    OBVIOUS
  <2>1. [enabled |-> TRUE, sent |-> FALSE, activated |-> FALSE, force |-> FALSE,
         version |-> 1, published |-> 0, captured |-> 0, at |-> "idle"] \in Window
    <3>1. 0 \in Versions /\ 1 \in Versions
      BY ConstantTypes DEF Versions
    <3>2. QED BY <3>1 DEF Window
  <2>2. active \in Snapshot /\ shown \in Shown
    <3>1. /\ {0, 1} \subseteq Generations
          /\ 0 \in Versions
          /\ -1 \in Left
      BY ConstantTypes DEF Generations, Versions, Left
    <3>2. active \in Snapshot
      BY <3>1 DEF Init, EmptySnapshot, Snapshot
    <3>3. shown \in Shown
      BY <3>1 DEF Init, Shown
    <3>4. QED BY <3>2, <3>3
  <2>3. fetch \in [due: 0..Poll, valid: Left]
    BY ConstantTypes DEF Init, Left
  <2>4. TypeOK
    <3>1. window \in [Windows -> Window]
      BY <2>1, Zenon DEF Init
    <3>2. dictionary \in [Windows -> Versions]
      BY ConstantTypes DEF Init, Versions
    <3>3. up \in BOOLEAN /\ reborn \in BOOLEAN
      BY Zenon DEF Init
    <3>4. /\ focus \in Windows \cup {Nobody}
          /\ exchange = NoExchange
          /\ faults \in 0..MaxFaults
          /\ moves \in 0..MaxMoves
          /\ gone \in Nat
      BY ConstantTypes DEF Init
    <3>5. QED BY <2>2, <2>3, <3>1, <3>2, <3>3, <3>4, Zenon DEF TypeOK
  <2>5. WaitInv
    BY DEF Init, WaitInv, Waits
  <2>6. ShownInv
    BY DEF Init, ShownInv, GenerationInv, ValidInv, EmptySnapshot
  <2>7. QED BY <2>4, <2>5, <2>6
<1>2. TypeOK /\ WaitInv /\ ShownInv /\ [Next]_vars
        => (TypeOK /\ WaitInv /\ ShownInv)'
  BY TypeStep, WaitStep, GenerationStep, ValidStep DEF ShownInv
<1>3. QED BY <1>1, <1>2, PTL DEF Spec

\* Every variable stays within its type.
THEOREM TypeCorrect == Spec => []TypeOK
BY InvCorrect, PTL

\* Candidates of a project that is no longer active end within the lease and a
\* poll.
THEOREM LeftEnds == Spec => []LeftProjectEnds
<1>1. TypeOK /\ ShownInv => LeftProjectEnds
  BY ConstantTypes DEF TypeOK, ShownInv, ValidInv, LeftProjectEnds, Left
<1>2. QED BY <1>1, InvCorrect, PTL

\* What is shown after a successful fetch is what the indexer answered, but for
\* a service that restarted.
THEOREM ServedIsShown == Spec => ShownIsServed
<1>1. TypeOK /\ ShownInv /\ Fetch
        => \/ /\ shown'.project = MakeResponse.project
              /\ shown'.candidates = MakeResponse.candidates
           \/ reborn
  <2> SUFFICES ASSUME TypeOK, ShownInv, Fetch, ~reborn
               PROVE  /\ shown'.project = MakeResponse.project
                      /\ shown'.candidates = MakeResponse.candidates
    OBVIOUS
  <2>1. CASE shown.project = MakeResponse.project
               /\ shown.generation = MakeResponse.generation
    <3>1. UNCHANGED shown
      BY <2>1 DEF Fetch, PublishShown
    <3>2. QED BY <2>1, <3>1, ResponseType DEF ShownInv, GenerationInv
  <2>2. CASE ~(shown.project = MakeResponse.project
                 /\ shown.generation = MakeResponse.generation)
    BY <2>2 DEF Fetch, PublishShown, Show
  <2>3. QED BY <2>1, <2>2
<1>2. QED BY <1>1, InvCorrect, PTL DEF ShownIsServed
=============================================================================
