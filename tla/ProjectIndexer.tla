----------------------------- MODULE ProjectIndexer -----------------------------
(***************************************************************************)
(* The project indexer: one thread serves the adapters' and the managers'  *)
(* requests in turn, changes the dictionaries and keeps the snapshot of    *)
(* the active project from which the candidate server answers.             *)
(***************************************************************************)
EXTENDS ProjectDictionary

CONSTANTS
  Approved,    \* keys of the language server and of the user
  NoProject,   \* the empty snapshot
  Lease        \* kActiveProjectLeaseMs, in ticks

ASSUME IndexerAssumption ==
  /\ Approved \subseteq Keys
  /\ Lease \in Nat \ {0}

VARIABLES
  active,    \* ActiveProjectSnapshotCache
  reply,     \* the answer to the last change
  lagging    \* history: the disk changed and the snapshot could not know

vars == <<storeVars, active, reply, lagging>>

\* left: the ticks the lease still has.
Snapshot ==
  [project: Projects, left: 0..Lease,
   candidates: UNION {EntriesOver(K) : K \in SUBSET Approved}]

ASSUME NoProjectAssumption == NoProject \notin Snapshot

TypeOK ==
  /\ StoreTypeOK
  /\ active \in Snapshot \cup {NoProject}
  /\ reply \in {"none", "Ok", "Error"}
  /\ lagging \in BOOLEAN

Init ==
  /\ StoreInit
  /\ active = NoProject
  /\ reply = "none"
  /\ lagging = FALSE

-----------------------------------------------------------------------------
(***************************************************************************)
(* The snapshot of the active project.                                     *)
(***************************************************************************)
IsActive(p) == active # NoProject /\ active.project = p
IsLive == active # NoProject /\ active.left > 0

\* The order of the candidates, the choice of one entry for a symbol and the
\* cut after 256 of them are left out.
CandidatesOf(dictionary) ==
  LET shown == IF dictionary.enabled
               THEN DOMAIN dictionary.entries \cap Approved
               ELSE {}
  IN [k \in shown |-> dictionary.entries[k]]

\* Allocations succeed: a failing one clears the snapshot.
Publish(p, dictionary) ==
  /\ active' = [project |-> p, left |-> Lease,
                candidates |-> CandidatesOf(dictionary)]
  /\ lagging' = FALSE

Clear ==
  /\ active' = NoProject
  /\ lagging' = FALSE

KeepActive == UNCHANGED <<active, lagging>>

\* Mutant of Refreshable: the lease need not be live.
RefreshableAnyTime(p) == IsActive(p)

\* RefreshLease succeeds.
Refreshable(p) == IsActive(p) /\ IsLive

-----------------------------------------------------------------------------
(***************************************************************************)
(* The requests that do not change a dictionary.                           *)
(***************************************************************************)
ActivateProject(p) ==
  /\ job = NoJob
  /\ \/ /\ Refreshable(p)
        /\ active' = [active EXCEPT !.left = Lease]
        /\ UNCHANGED <<lagging, cache>>
     \/ /\ ~Refreshable(p)
        /\ \E loaded \in Load(p) :
             /\ cache' = loaded.cache
             /\ IF loaded.status = "Ok" THEN Publish(p, loaded.snapshot)
                                        ELSE Clear
  /\ UNCHANGED <<file, temporary, outside, job, reply>>

DeactivateProject ==
  /\ job = NoJob
  /\ Clear
  /\ UNCHANGED <<storeVars, reply>>

ViewProject(p) ==
  /\ job = NoJob
  /\ \E loaded \in Load(p) : cache' = loaded.cache
  /\ UNCHANGED <<file, temporary, outside, job, active, reply, lagging>>

-----------------------------------------------------------------------------
(***************************************************************************)
(* The requests that do: their end, after the store's last step.           *)
(***************************************************************************)
Reply(answer) == reply' = answer /\ job' = NoJob

\* A change that is made but answered with an error leaves the snapshot
\* behind the disk.
AnswerError(isMade) ==
  /\ Reply("Error")
  /\ active' = active
  /\ lagging' = (lagging \/ (isMade /\ IsActive(project)))

AnswerUpsert ==
  /\ job.request.op = "Upsert"
  /\ IF Refreshable(project) THEN Publish(project, job.snapshot) ELSE KeepActive
  /\ Reply("Ok")
  /\ UNCHANGED cache

AnswerTerm ==
  /\ job.request.op \in {"UpsertTerm", "RemoveEntry"}
  /\ IF IsActive(project) /\ IsLive THEN Publish(project, job.snapshot)
                                   ELSE KeepActive
  /\ Reply("Ok")
  /\ UNCHANGED cache

\* SetEnabled loads once more, and may fail to.
AnswerSetEnabled ==
  /\ job.request.op = "SetEnabled"
  /\ \E loaded \in Load(project) :
       /\ cache' = loaded.cache
       /\ IF loaded.status # "Ok" THEN AnswerError(TRUE)
          ELSE /\ IF IsActive(project) /\ IsLive
                  THEN Publish(project, loaded.snapshot)
                  ELSE KeepActive
               /\ Reply("Ok")

AnswerRemove ==
  /\ job.request.op = "Remove"
  /\ IF IsActive(project) THEN Clear ELSE KeepActive
  /\ Reply("Ok")
  /\ UNCHANGED cache

\* Remove fails on a left-over temporary file when the dictionary is gone.
AnswerFailed ==
  /\ AnswerError(job.request.op = "Remove" /\ file[project].content = Absent)
  /\ UNCHANGED cache

Answer ==
  /\ job # NoJob /\ job.step = "answer"
  /\ IF job.status # "Ok" THEN AnswerFailed
     ELSE \/ AnswerUpsert
          \/ AnswerTerm
          \/ AnswerSetEnabled
          \/ AnswerRemove
  /\ UNCHANGED <<file, temporary, outside>>

-----------------------------------------------------------------------------
Begin(request) ==
  /\ \/ BeginUpsert(request)
     \/ BeginManaged(request)
     \/ BeginRemove(request)
  /\ reply' = "none"
  /\ KeepActive

Tick ==
  /\ IsLive
  /\ active' = [active EXCEPT !.left = @ - 1]
  /\ UNCHANGED <<storeVars, reply, lagging>>

Crash ==
  /\ StoreDies
  /\ Clear
  /\ UNCHANGED reply

OutsideChange(p) ==
  /\ ChangeOutside(p)
  /\ lagging' = (lagging \/ IsActive(p))
  /\ UNCHANGED <<active, reply>>

Next ==
  \/ \E request \in Requests : Begin(request)
  \/ StoreStep /\ UNCHANGED <<active, reply, lagging>>
  \/ Answer
  \/ \E p \in Projects : ActivateProject(p) \/ ViewProject(p)
  \/ DeactivateProject
  \/ Tick
  \/ Crash
  \/ \E p \in Projects : OutsideChange(p)

Spec == Init /\ [][Next]_vars

-----------------------------------------------------------------------------
(***************************************************************************)
(* Properties.                                                             *)
(***************************************************************************)

\* What a request makes of a dictionary; of a file that is none, nothing.
Effect(r, d) ==
  IF r.op = "Remove" THEN Absent
  ELSE IF d = Corrupt THEN d
  ELSE CASE r.op \in {"Upsert", "UpsertTerm"} ->
              [d EXCEPT !.exists = TRUE, !.entries = Merge(@, r.batch)]
         [] r.op = "RemoveEntry" -> [d EXCEPT !.entries = Without(@, r.key)]
         [] r.op = "SetEnabled" -> [d EXCEPT !.enabled = r.enabled]

\* The change being served is on the disk.  A Remove that fails where
\* nothing was counts as made.
ChangeMade ==
  /\ job # NoJob
  /\ IF job.request.op = "Remove"
     THEN job.step # "target" /\ file[project].content = Absent
     ELSE job.step = "answer" /\ job.status = "Ok"

Durable ==
  INSTANCE DurableDictionary WITH
    Content <- Content, Request <- Requests, NoRequest <- NoJob, Effect <- Effect,
    durable <- [p \in Projects |-> file[p].content],
    request <- IF job = NoJob THEN NoJob ELSE job.request,
    made <- ChangeMade,
    outcome <- reply

-----------------------------------------------------------------------------
(***************************************************************************)
(* What the properties rest on.                                            *)
(***************************************************************************)
\* Nobody's stamp comes back, and what the cache takes for absent is Absent.
StampInv ==
  /\ \A p \in Projects : file[p].stamp <= outside
  /\ cache # Nothing =>
       /\ cache.stamp <= outside
       /\ ~cache.dictionary.exists => cache.dictionary = Absent

FreshInv == \A p \in Projects : Fresh(p) => cache.dictionary = file[p].content

\* Until it is made, a change is one of what the disk holds.
BasisInv ==
  job # NoJob /\ job.step \in {"open", "write", "replace"} =>
    /\ job.request.op # "Remove"
    /\ file[project].content # Corrupt
    /\ job.snapshot = Effect(job.request, file[project].content)
    /\ job.snapshot.exists

\* Afterwards the disk holds it.
MadeInv ==
  job # NoJob =>
    /\ job.step \in {"target", "temporary"} => job.request.op = "Remove"
    /\ job.step # "answer" => job.status = "Ok"
    /\ job.step = "temporary" => file[project].content = Absent
    /\ job.step = "answer" /\ job.status = "Ok" =>
         file[project].content =
           IF job.request.op = "Remove" THEN Absent ELSE job.snapshot

\* The candidates may be behind only while a change that is made waits for
\* its answer.
ActiveInv ==
  IsLive /\ ~lagging =>
    \/ ChangeMade /\ active.project = project
    \/ LET content == file[active.project].content
       IN content # Corrupt /\ active.candidates = CandidatesOf(content)

IndexerInv == StampInv /\ FreshInv /\ BasisInv /\ MadeInv /\ ActiveInv

-----------------------------------------------------------------------------
\* A change is made to the dictionary on the disk as a whole or not at all,
\* whichever step of Save, ReplaceFile or Remove fails and wherever the
\* process dies; it is made to what the disk holds, not to a stale cached
\* dictionary; and "Ok" is answered only when it has been made.
ImplementsDurable == Durable!DurableSpec

\* The cached dictionary that Upsert and RemoveEntry would start from
\* (TryLoadCached) is what the file holds, after any sequence of the
\* store's own changes, failed ones and somebody else's included.  The types
\* come with it.
CacheCoherent ==
  /\ TypeOK
  /\ FreshInv

\* An upsert loses no entry of the file, lowers no frequency or time, and
\* keeps every entry it was asked to add (Upsert's merge).
NothingForgotten ==
  [][\A p \in Projects :
       /\ SaveReplace /\ file'[p] # file[p]
       /\ job.request.op \in {"Upsert", "UpsertTerm"}
       => LET new == file'[p].content.entries
              Kept(entries) ==
                \A k \in DOMAIN entries : k \in DOMAIN new /\ new[k] >= entries[k]
          IN Kept(file[p].content.entries) /\ Kept(job.request.batch)]_vars

\* Between two requests the candidates of a live lease are those of the
\* dictionary on the disk: no lapsed, failed, repeated or reordered sequence
\* of requests leaves an older dictionary's candidates.  The exceptions are
\* the file's changes the indexer is not told of and its own that it
\* answered with an error (SetEnabled's second load, Remove's second file).
ActiveIsDurable ==
  job = NoJob /\ IsLive /\ ~lagging
    => LET content == file[active.project].content
       IN /\ content # Corrupt
          /\ active.candidates = CandidatesOf(content)
=============================================================================
