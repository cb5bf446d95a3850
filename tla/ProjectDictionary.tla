--------------------------- MODULE ProjectDictionary ---------------------------
(***************************************************************************)
(* ProjectDictionaryStore: one file per project, written by one thread     *)
(* through a temporary file, and one project cached in memory.  An action  *)
(* is what happens between two changes of the disk, so that the process    *)
(* can die between any two of them.                                        *)
(***************************************************************************)
EXTENDS Integers, FiniteSets

CONSTANTS
  Projects,
  Keys,            \* symbol, type and source of an entry
  Observations,    \* frequency and last_seen_ms, each kept at its maximum
  MaximumEntries,  \* kMaximumProjectDictionaryEntries
  Requests,        \* bound: the changes that are asked for
  Corrupt,         \* a file that is no dictionary, or half of one
  Nothing,         \* no cached project
  NoJob,           \* the owner serves no request
  MaxOutside       \* bound: changes of the files by somebody else

ASSUME StoreAssumption ==
  /\ Observations \subseteq Nat
  /\ IsFiniteSet(Keys)
  /\ MaximumEntries \in Nat
  /\ MaxOutside \in Nat

VARIABLES
  file,       \* <project>.dict, with its size and time as a stamp
  temporary,  \* <project>.dict.tmp: none, a part of it, or the whole
  cache,      \* cached_snapshot_ and the stamp of its file
  outside,    \* changes made by somebody else
  job         \* the change being made

storeVars == <<file, temporary, cache, outside, job>>

\* The entries of a dictionary, by their key.
EntriesOver(K) == [K -> Observations]
Entries ==
  UNION {EntriesOver(K) : K \in {K \in SUBSET Keys :
                                   Cardinality(K) <= MaximumEntries}}
Batch == UNION {EntriesOver(K) : K \in SUBSET Keys}

Dictionary == [exists: BOOLEAN, enabled: BOOLEAN, entries: Entries]

NoEntries == [k \in {} |-> 0]
Absent == [exists |-> FALSE, enabled |-> TRUE, entries |-> NoEntries]

Content == {d \in Dictionary : d.exists} \cup {Absent, Corrupt}

\* A stamp counts what others did to the file: two of the store's own
\* saves may leave the same size and time.
File == [content: Content, stamp: 0..MaxOutside]

CacheEntry == [project: Projects, dictionary: Dictionary, stamp: 0..MaxOutside]

Status == {"Ok", "NotFound", "InvalidEntry", "CorruptData", "IoError"}

Request ==
  [op: {"Upsert", "UpsertTerm"}, project: Projects, batch: Batch]
  \cup [op: {"RemoveEntry"}, project: Projects, key: Keys]
  \cup [op: {"SetEnabled"}, project: Projects, enabled: BOOLEAN]
  \cup [op: {"Remove"}, project: Projects]

ASSUME RequestAssumption == Requests \subseteq Request

JobStep == {"open", "write", "replace", "target", "temporary", "answer"}

Job == [request: Requests, step: JobStep, snapshot: Dictionary, status: Status]

\* What stands for nothing is told from something.
ASSUME NothingAssumption ==
  /\ Corrupt \notin Dictionary
  /\ Nothing \notin CacheEntry
  /\ NoJob \notin Job \cup Requests

StoreTypeOK ==
  /\ file \in [Projects -> File]
  /\ temporary \in [Projects -> {"none", "part", "whole"}]
  /\ cache \in CacheEntry \cup {Nothing}
  /\ outside \in 0..MaxOutside
  /\ job \in Job \cup {NoJob}

StoreInit ==
  /\ file = [p \in Projects |-> [content |-> Absent, stamp |-> 0]]
  /\ temporary = [p \in Projects |-> "none"]
  /\ cache = Nothing
  /\ outside = 0
  /\ job = NoJob

-----------------------------------------------------------------------------
(***************************************************************************)
(* The cache and the load.                                                 *)
(***************************************************************************)
Invalidated(p) == IF cache # Nothing /\ cache.project = p THEN Nothing ELSE cache

\* CacheSnapshot: the file's stamp is captured, or nothing is kept.
CacheSnapshot(p, d, stamp) ==
  {[project |-> p, dictionary |-> d, stamp |-> stamp], Nothing}

\* TryLoadCached: existence and stamp still are what they were.
Fresh(p) ==
  /\ cache # Nothing
  /\ cache.project = p
  /\ file[p].content # Absent <=> cache.dictionary.exists
  /\ file[p].stamp = cache.stamp

\* Load: its status, its snapshot and the cache it leaves.
Load(p) ==
  {[status |-> "IoError", snapshot |-> Absent, cache |-> Invalidated(p)]}
  \cup
  IF file[p].content = Corrupt
  THEN {[status |-> "CorruptData", snapshot |-> Absent,
         cache |-> Invalidated(p)]}
  ELSE {[status |-> "Ok", snapshot |-> file[p].content, cache |-> c] :
          c \in CacheSnapshot(p, file[p].content, file[p].stamp)}

\* What Upsert and RemoveEntry start from: a stamp that cannot be read is as
\* good as none.
LoadFor(p) ==
  Load(p)
  \cup
  {[status |-> "Ok", snapshot |-> cache.dictionary, cache |-> cache] :
     x \in IF Fresh(p) THEN {p} ELSE {}}

Larger(a, b) == IF a >= b THEN a ELSE b

\* Mutant of Merge: the last observation wins.
MergeLast(entries, batch) ==
  [k \in DOMAIN entries \cup DOMAIN batch |->
     IF k \in DOMAIN batch THEN batch[k] ELSE entries[k]]

\* The linear merge of Upsert.
Merge(entries, batch) ==
  [k \in DOMAIN entries \cup DOMAIN batch |->
     IF k \notin DOMAIN batch THEN entries[k]
     ELSE IF k \notin DOMAIN entries THEN batch[k]
     ELSE Larger(entries[k], batch[k])]

Without(entries, key) == [k \in DOMAIN entries \ {key} |-> entries[k]]

-----------------------------------------------------------------------------
(***************************************************************************)
(* The beginning of a change: everything before the first write.           *)
(***************************************************************************)
StartJob(request, step, snapshot, status) ==
  job' = [request |-> request, step |-> step,
          snapshot |-> snapshot, status |-> status]

Refuse(request, status) == StartJob(request, "answer", Absent, status)

\* Upsert from a snapshot it has loaded.
Upserted(request, loaded) ==
  LET merged == Merge(loaded.snapshot.entries, request.batch)
  IN IF loaded.status # "Ok"
     THEN Refuse(request, loaded.status)
     ELSE IF Cardinality(DOMAIN merged) > MaximumEntries
     THEN Refuse(request, "InvalidEntry")
     ELSE StartJob(request, "open",
                [loaded.snapshot EXCEPT !.exists = TRUE, !.entries = merged],
                "Ok")

\* The adapter's records.
BeginUpsert(request) ==
  /\ job = NoJob
  /\ request.op = "Upsert"
  /\ \E loaded \in LoadFor(request.project) :
       /\ cache' = loaded.cache
       /\ Upserted(request, loaded)
  /\ UNCHANGED <<file, temporary, outside>>

AddTerm(request, loaded) ==
  request.op = "UpsertTerm" /\ Upserted(request, loaded)

RemoveEntry(request, loaded) ==
  /\ request.op = "RemoveEntry"
  /\ StartJob(request, "open",
              [loaded.snapshot EXCEPT !.entries = Without(@, request.key)], "Ok")

SetEnabled(request, loaded) ==
  /\ request.op = "SetEnabled"
  /\ StartJob(request, "open",
              [loaded.snapshot EXCEPT !.enabled = request.enabled], "Ok")

\* The managing requests load first, for a project that is not there has
\* nothing to manage; what they loaded is what the store starts from.
BeginManaged(request) ==
  /\ job = NoJob
  /\ request.op \in {"UpsertTerm", "RemoveEntry", "SetEnabled"}
  /\ \E loaded \in Load(request.project) :
       /\ cache' = loaded.cache
       /\ IF loaded.status # "Ok"
          THEN Refuse(request, loaded.status)
          ELSE IF ~loaded.snapshot.exists
          THEN Refuse(request, "NotFound")
          ELSE \/ AddTerm(request, loaded)
               \/ RemoveEntry(request, loaded)
               \/ SetEnabled(request, loaded)
  /\ UNCHANGED <<file, temporary, outside>>

BeginRemove(request) ==
  /\ job = NoJob
  /\ request.op = "Remove"
  /\ StartJob(request, "target", Absent, "Ok")
  /\ UNCHANGED <<file, temporary, cache, outside>>

-----------------------------------------------------------------------------
(***************************************************************************)
(* Save: a temporary file that replaces the dictionary.                    *)
(***************************************************************************)
project == job.request.project

Continue(step) == job' = [job EXCEPT !.step = step]
Fail == job' = [job EXCEPT !.step = "answer", !.status = "IoError"]

\* Mutant of SaveOpen: the dictionary itself is opened and truncated.
SaveOpenInPlace ==
  /\ job # NoJob /\ job.step = "open"
  /\ file' = [file EXCEPT ![project].content = Corrupt]
  /\ temporary' = [temporary EXCEPT ![project] = "part"]
  /\ Continue("write")
  /\ UNCHANGED <<cache, outside>>

SaveOpen ==
  /\ job # NoJob /\ job.step = "open"
  /\ \/ /\ temporary' = [temporary EXCEPT ![project] = "part"]
        /\ Continue("write")
     \/ /\ Fail
        /\ UNCHANGED temporary
  /\ UNCHANGED <<file, cache, outside>>

\* A failed write takes the temporary file away, if that succeeds.
SaveWrite ==
  /\ job # NoJob /\ job.step = "write"
  /\ \/ /\ temporary' = [temporary EXCEPT ![project] = "whole"]
        /\ Continue("replace")
     \/ /\ \E left \in {temporary[project], "none"} :
             temporary' = [temporary EXCEPT ![project] = left]
        /\ Fail
  /\ UNCHANGED <<file, cache, outside>>

\* Mutant of CacheSaved: the project stays cached as it was.
CacheKept == cache' = cache

CacheSaved == \E c \in CacheSnapshot(project, job.snapshot, 0) : cache' = c

SaveReplace ==
  /\ job # NoJob /\ job.step = "replace"
  /\ \/ /\ file' = [file EXCEPT ![project] =
                      [content |-> job.snapshot, stamp |-> 0]]
        /\ temporary' = [temporary EXCEPT ![project] = "none"]
        /\ CacheSaved
        /\ Continue("answer")
     \/ /\ \E left \in {temporary[project], "none"} :
             temporary' = [temporary EXCEPT ![project] = left]
        /\ Fail
        /\ UNCHANGED <<file, cache>>
  /\ UNCHANGED outside

-----------------------------------------------------------------------------
(***************************************************************************)
(* Remove: the dictionary, then a temporary file that may be left over.    *)
(***************************************************************************)
RemoveTarget ==
  /\ job # NoJob /\ job.step = "target"
  /\ \/ /\ file' = [file EXCEPT ![project] = [content |-> Absent, stamp |-> 0]]
        /\ Continue("temporary")
     \/ /\ Fail
        /\ UNCHANGED file
  /\ UNCHANGED <<temporary, cache, outside>>

RemoveTemporary ==
  /\ job # NoJob /\ job.step = "temporary"
  /\ \/ /\ temporary' = [temporary EXCEPT ![project] = "none"]
        /\ cache' = Invalidated(project)
        /\ Continue("answer")
     \/ /\ Fail
        /\ UNCHANGED <<temporary, cache>>
  /\ UNCHANGED <<file, outside>>

StoreStep ==
  \/ SaveOpen
  \/ SaveWrite
  \/ SaveReplace
  \/ RemoveTarget
  \/ RemoveTemporary

\* The process dies.  The system goes on and keeps the files as they are.
StoreDies ==
  /\ cache' = Nothing
  /\ job' = NoJob
  /\ UNCHANGED <<file, temporary, outside>>

\* The user, or another program, changes or damages a file between two
\* requests.
ChangeOutside(p) ==
  /\ job = NoJob
  /\ outside < MaxOutside
  /\ outside' = outside + 1
  /\ \E c \in {Absent, Corrupt, [Absent EXCEPT !.exists = TRUE]}
              \ {file[p].content} :
       file' = [file EXCEPT ![p] =
                  [content |-> c, stamp |-> IF c = Absent THEN 0 ELSE outside']]
  /\ UNCHANGED <<temporary, cache, job>>
=============================================================================
