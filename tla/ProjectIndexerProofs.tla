-------------------------- MODULE ProjectIndexerProofs --------------------------
(***************************************************************************)
(* Proofs about the dictionaries and the indexer, for any projects, keys,  *)
(* observations and requests, any bound on the entries, any lease and any  *)
(* number of changes by somebody else.                                     *)
(***************************************************************************)
EXTENDS ProjectIndexer, FiniteSetTheorems, TLAPS

-----------------------------------------------------------------------------
(***************************************************************************)
(* Entries, merges and dictionaries.                                       *)
(***************************************************************************)

\* A set of keys has a size, and no larger one than a set around it.
LEMMA KeysAreFinite ==
  ASSUME NEW K \in SUBSET Keys, NEW L \in SUBSET K
  PROVE  /\ Cardinality(K) \in Nat
         /\ Cardinality(L) \in Nat
         /\ Cardinality(L) <= Cardinality(K)
<1>1. IsFiniteSet(K)
  BY StoreAssumption, FS_Subset
<1>2. IsFiniteSet(L) /\ Cardinality(L) <= Cardinality(K)
  BY <1>1, FS_Subset
<1>3. QED BY <1>1, <1>2, FS_CardinalityType

LEMMA BatchIs ==
  ASSUME NEW e
  PROVE  e \in Batch <=> DOMAIN e \subseteq Keys /\ e \in EntriesOver(DOMAIN e)
BY DEF Batch, EntriesOver

LEMMA EntriesAre ==
  ASSUME NEW e
  PROVE  e \in Entries <=>
           e \in Batch /\ Cardinality(DOMAIN e) <= MaximumEntries
BY DEF Entries, Batch, EntriesOver

\* Upsert's merge is over the keys of both, and lowers no observation.
LEMMA MergeType ==
  ASSUME NEW a \in Batch, NEW b \in Batch
  PROVE  /\ Merge(a, b) \in Batch
         /\ DOMAIN Merge(a, b) = DOMAIN a \cup DOMAIN b
         /\ \A k \in DOMAIN a : Merge(a, b)[k] >= a[k]
         /\ \A k \in DOMAIN b : Merge(a, b)[k] >= b[k]
<1> DEFINE m == Merge(a, b)
<1>1. /\ DOMAIN a \subseteq Keys /\ \A k \in DOMAIN a : a[k] \in Observations
      /\ DOMAIN b \subseteq Keys /\ \A k \in DOMAIN b : b[k] \in Observations
  BY BatchIs DEF EntriesOver
<1>2. /\ DOMAIN m = DOMAIN a \cup DOMAIN b
      /\ \A k \in DOMAIN m :
           m[k] = IF k \notin DOMAIN b THEN a[k]
                  ELSE IF k \notin DOMAIN a THEN b[k]
                  ELSE Larger(a[k], b[k])
  BY DEF Merge
<1>3. \A k \in DOMAIN m :
        /\ m[k] \in Observations
        /\ k \in DOMAIN a => m[k] >= a[k]
        /\ k \in DOMAIN b => m[k] >= b[k]
  <2> HIDE DEF m
  <2>1. \A x, y \in Observations :
          Larger(x, y) \in Observations /\ Larger(x, y) >= x /\ Larger(x, y) >= y
    BY StoreAssumption DEF Larger
  <2>2. \A x \in Observations : x >= x
    BY StoreAssumption
  <2>3. QED BY <1>1, <1>2, <2>1, <2>2
<1>4. m \in [DOMAIN m -> Observations]
  <2>1. m = [k \in DOMAIN m |-> m[k]]
    BY DEF Merge
  <2> HIDE DEF m
  <2>2. QED BY <1>3, <2>1
<1>5. m \in Batch
  BY <1>1, <1>2, <1>4, BatchIs DEF EntriesOver
<1>6. QED BY <1>2, <1>3, <1>5

\* An entry less leaves entries.
LEMMA WithoutType ==
  ASSUME NEW e \in Entries, NEW key
  PROVE  Without(e, key) \in Entries
<1> DEFINE w == Without(e, key)
<1>1. DOMAIN e \subseteq Keys /\ e \in EntriesOver(DOMAIN e)
      /\ Cardinality(DOMAIN e) <= MaximumEntries
  BY EntriesAre, BatchIs
<1>2. DOMAIN w = DOMAIN e \ {key} /\ w \in [DOMAIN w -> Observations]
  BY <1>1 DEF Without, EntriesOver
<1>3. Cardinality(DOMAIN w) <= MaximumEntries
  BY <1>1, <1>2, KeysAreFinite, StoreAssumption
<1>4. QED BY <1>1, <1>2, <1>3, EntriesAre, BatchIs DEF EntriesOver

LEMMA AbsentType == Absent \in Dictionary /\ [Absent EXCEPT !.exists = TRUE] \in Dictionary
<1>1. DOMAIN NoEntries = {} /\ NoEntries \in EntriesOver({})
  BY DEF NoEntries, EntriesOver
<1>2. NoEntries \in Entries
  BY <1>1, FS_EmptySet, StoreAssumption, EntriesAre, BatchIs
<1>3. QED BY <1>2 DEF Absent, Dictionary

\* What a file holds is a dictionary unless it is corrupt, and an absent one is
\* Absent.
LEMMA ContentIs ==
  ASSUME NEW c \in Content, c # Corrupt
  PROVE  c \in Dictionary /\ (~c.exists => c = Absent)
BY AbsentType DEF Content

\* The candidates are entries of approved keys.
LEMMA CandidatesType ==
  ASSUME NEW d \in Dictionary
  PROVE  CandidatesOf(d) \in UNION {EntriesOver(K) : K \in SUBSET Approved}
<1>1. d.entries \in EntriesOver(DOMAIN d.entries)
  BY EntriesAre, BatchIs DEF Dictionary
<1> DEFINE shown == IF d.enabled THEN DOMAIN d.entries \cap Approved ELSE {}
           candidates == [k \in shown |-> d.entries[k]]
<1>2. candidates \in EntriesOver(shown) /\ shown \in SUBSET Approved
  BY <1>1 DEF EntriesOver
<1>3. CandidatesOf(d) = candidates
  BY DEF CandidatesOf
<1> HIDE DEF shown, candidates
<1>4. QED BY <1>2, <1>3

LEMMA RequestIs ==
  ASSUME NEW r \in Requests
  PROVE  /\ r.project \in Projects
         /\ r.op \in {"Upsert", "UpsertTerm", "RemoveEntry", "SetEnabled", "Remove"}
         /\ r.op \in {"Upsert", "UpsertTerm"} => r.batch \in Batch
         /\ r.op = "SetEnabled" => r.enabled \in BOOLEAN
BY RequestAssumption DEF Request

-----------------------------------------------------------------------------
(***************************************************************************)
(* The load.                                                               *)
(***************************************************************************)

\* A cache that knows no more than the files, or what it knew.
KnownCache(c) ==
  \/ c \in {cache, Nothing}
  \/ \E p \in Projects :
       /\ file[p].content # Corrupt
       /\ c = [project |-> p, dictionary |-> file[p].content,
               stamp |-> file[p].stamp]

\* What a load of p comes to: a cached dictionary included, it is the file's.
LoadedFrom(p, loaded) ==
  /\ KnownCache(loaded.cache)
  /\ loaded.status \in Status
  /\ loaded.status = "Ok" =>
       /\ file[p].content # Corrupt
       /\ loaded.snapshot = file[p].content
       /\ loaded.snapshot \in Dictionary

LEMMA FileIs ==
  ASSUME TypeOK, NEW p \in Projects
  PROVE  /\ file[p].content \in Content
         /\ file[p].stamp \in 0..MaxOutside
         /\ file[p].content # Corrupt => file[p].content \in Dictionary
BY ContentIs DEF TypeOK, StoreTypeOK, File

LEMMA LoadIs ==
  ASSUME TypeOK, NEW p \in Projects, NEW loaded \in Load(p)
  PROVE  LoadedFrom(p, loaded)
<1>1. KnownCache(Invalidated(p))
  BY DEF KnownCache, Invalidated
<1>2. CASE loaded = [status |-> "IoError", snapshot |-> Absent,
                     cache |-> Invalidated(p)]
  BY <1>1, <1>2 DEF LoadedFrom, Status
<1>3. CASE loaded = [status |-> "CorruptData", snapshot |-> Absent,
                     cache |-> Invalidated(p)]
  BY <1>1, <1>3 DEF LoadedFrom, Status
<1>4. CASE /\ file[p].content # Corrupt
           /\ \E c \in CacheSnapshot(p, file[p].content, file[p].stamp) :
                loaded = [status |-> "Ok", snapshot |-> file[p].content,
                          cache |-> c]
  <2>1. PICK c \in CacheSnapshot(p, file[p].content, file[p].stamp) :
          loaded = [status |-> "Ok", snapshot |-> file[p].content, cache |-> c]
    BY <1>4
  <2>2. KnownCache(c)
    BY <1>4 DEF KnownCache, CacheSnapshot
  <2>3. QED BY <1>4, <2>1, <2>2, FileIs DEF LoadedFrom, Status
<1>5. QED BY <1>2, <1>3, <1>4 DEF Load

LEMMA LoadForIs ==
  ASSUME TypeOK, FreshInv, NEW p \in Projects, NEW loaded \in LoadFor(p)
  PROVE  LoadedFrom(p, loaded)
<1>1. CASE loaded \in Load(p)
  BY <1>1, LoadIs
<1>2. CASE /\ Fresh(p)
           /\ loaded = [status |-> "Ok", snapshot |-> cache.dictionary,
                        cache |-> cache]
  <2>1. cache \in CacheEntry /\ cache.dictionary = file[p].content
    BY <1>2 DEF FreshInv, Fresh, TypeOK, StoreTypeOK
  <2>2. cache.dictionary \in Dictionary
    BY <2>1 DEF CacheEntry
  <2>3. QED
    BY <1>2, <2>1, <2>2, NothingAssumption DEF LoadedFrom, KnownCache, Status
<1>3. QED BY <1>1, <1>2 DEF LoadFor

\* Such a cache has the right type and, while the files stay as they are, is
\* coherent.
LEMMA KnownCacheKeeps ==
  ASSUME TypeOK, StampInv, FreshInv, UNCHANGED <<file, outside>>,
         KnownCache(cache')
  PROVE  /\ cache' \in CacheEntry \cup {Nothing}
         /\ StampInv'
         /\ FreshInv'
<1>1. CASE cache' \in {cache, Nothing}
  BY <1>1 DEF TypeOK, StoreTypeOK, StampInv, FreshInv, Fresh
<1>2. CASE \E p \in Projects :
             /\ file[p].content # Corrupt
             /\ cache' = [project |-> p, dictionary |-> file[p].content,
                          stamp |-> file[p].stamp]
  <2>1. PICK p \in Projects :
             /\ file[p].content # Corrupt
             /\ cache' = [project |-> p, dictionary |-> file[p].content,
                          stamp |-> file[p].stamp]
    BY <1>2
  <2>2. /\ file[p].content \in Dictionary
        /\ ~file[p].content.exists => file[p].content = Absent
        /\ file[p].stamp \in 0..MaxOutside
    BY <2>1, FileIs, ContentIs
  <2>3. cache' \in CacheEntry
    BY <2>1, <2>2 DEF CacheEntry
  <2>4. StampInv'
    BY <2>1, <2>2 DEF StampInv
  <2>5. FreshInv'
    BY <2>1 DEF FreshInv, Fresh
  <2>6. QED BY <2>3, <2>4, <2>5
<1>3. QED BY <1>1, <1>2 DEF KnownCache

-----------------------------------------------------------------------------
(***************************************************************************)
(* The beginning of a change.                                              *)
(***************************************************************************)

\* What a begun change is: refused, a Remove, or one of what the file holds.
Begun(r, j) ==
  /\ j \in Job
  /\ j.request = r
  /\ \/ j.step = "answer" /\ j.status # "Ok" /\ r.op # "Remove"
     \/ j.step = "target" /\ j.status = "Ok" /\ r.op = "Remove"
     \/ /\ j.step = "open" /\ j.status = "Ok" /\ r.op # "Remove"
        /\ file[r.project].content # Corrupt
        /\ j.snapshot = Effect(r, file[r.project].content)
        /\ j.snapshot.exists

LEMMA RefuseIs ==
  ASSUME NEW r \in Requests, r.op # "Remove",
         NEW s \in Status \ {"Ok"}, Refuse(r, s)
  PROVE  Begun(r, job')
BY AbsentType DEF Refuse, StartJob, Begun, Job, JobStep

LEMMA OpenIs ==
  ASSUME NEW r \in Requests, NEW d \in Dictionary, d.exists, r.op # "Remove",
         file[r.project].content # Corrupt,
         d = Effect(r, file[r.project].content),
         StartJob(r, "open", d, "Ok")
  PROVE  Begun(r, job')
BY DEF StartJob, Begun, Job, JobStep, Status

LEMMA UpsertedIs ==
  ASSUME NEW r \in Requests, r.op \in {"Upsert", "UpsertTerm"},
         NEW loaded, LoadedFrom(r.project, loaded), Upserted(r, loaded)
  PROVE  Begun(r, job')
<1> DEFINE d == loaded.snapshot
           merged == Merge(d.entries, r.batch)
           result == [d EXCEPT !.exists = TRUE, !.entries = merged]
<1>1. CASE loaded.status # "Ok"
  BY <1>1, RefuseIs DEF Upserted, LoadedFrom
<1>2. CASE loaded.status = "Ok" /\ Cardinality(DOMAIN merged) > MaximumEntries
  BY <1>2, RefuseIs DEF Upserted, Status
<1>3. CASE loaded.status = "Ok" /\ ~(Cardinality(DOMAIN merged) > MaximumEntries)
  <2>1. /\ d \in Dictionary
        /\ d = file[r.project].content
        /\ file[r.project].content # Corrupt
    BY <1>3 DEF LoadedFrom
  <2>2. d.entries \in Batch
    BY <2>1, EntriesAre DEF Dictionary
  <2>3. merged \in Batch
    BY <2>2, RequestIs, MergeType
  <2>4. Cardinality(DOMAIN merged) \in Nat
    BY <2>3, BatchIs, KeysAreFinite
  <2>5. merged \in Entries
    BY <1>3, <2>3, <2>4, EntriesAre, StoreAssumption
  <2> HIDE DEF merged
  <2>6. result \in Dictionary /\ result.exists
    BY <2>1, <2>5 DEF Dictionary
  <2> USE DEF merged
  <2>7. result = Effect(r, d)
    BY <2>1 DEF Effect
  <2>8. StartJob(r, "open", result, "Ok")
    BY <1>3 DEF Upserted
  <2> HIDE DEF result
  <2>9. QED BY <2>1, <2>6, <2>7, <2>8, OpenIs
<1>4. QED BY <1>1, <1>2, <1>3

LEMMA ManagedIs ==
  ASSUME NEW r \in Requests, NEW loaded, LoadedFrom(r.project, loaded),
         loaded.status = "Ok", loaded.snapshot.exists,
         RemoveEntry(r, loaded) \/ SetEnabled(r, loaded)
  PROVE  Begun(r, job')
<1> DEFINE d == loaded.snapshot
<1>1. /\ d \in Dictionary
      /\ d = file[r.project].content
      /\ file[r.project].content # Corrupt
  BY DEF LoadedFrom
<1>2. CASE RemoveEntry(r, loaded)
  <2> DEFINE result == [d EXCEPT !.entries = Without(@, r.key)]
  <2>1. Without(d.entries, r.key) \in Entries
    BY <1>1, WithoutType DEF Dictionary
  <2>2. result \in Dictionary /\ result.exists
    BY <1>1, <2>1 DEF Dictionary
  <2>3. result = Effect(r, d) /\ r.op # "Remove"
    BY <1>1, <1>2 DEF Effect, RemoveEntry
  <2>4. StartJob(r, "open", result, "Ok")
    BY <1>2 DEF RemoveEntry
  <2> HIDE DEF result
  <2>5. QED BY <1>1, <2>2, <2>3, <2>4, OpenIs
<1>3. CASE SetEnabled(r, loaded)
  <2> DEFINE result == [d EXCEPT !.enabled = r.enabled]
  <2>1. result \in Dictionary /\ result.exists
    BY <1>1, <1>3, RequestIs DEF Dictionary, SetEnabled
  <2>2. result = Effect(r, d) /\ r.op # "Remove"
    BY <1>1, <1>3 DEF Effect, SetEnabled
  <2>3. StartJob(r, "open", result, "Ok")
    BY <1>3 DEF SetEnabled
  <2> HIDE DEF result
  <2>4. QED BY <1>1, <2>1, <2>2, <2>3, OpenIs
<1>4. QED BY <1>2, <1>3

\* Every beginning, with the cache it leaves.
LEMMA BeginIs ==
  ASSUME TypeOK, FreshInv, NEW r \in Requests, Begin(r)
  PROVE  /\ job = NoJob
         /\ Begun(r, job')
         /\ KnownCache(cache')
         /\ UNCHANGED <<file, temporary, outside, active, lagging>>
         /\ reply' = "none"
<1>1. r.project \in Projects
  BY RequestIs
<1>2. CASE BeginUpsert(r)
  <2>1. PICK loaded \in LoadFor(r.project) :
          cache' = loaded.cache /\ Upserted(r, loaded)
    BY <1>2 DEF BeginUpsert
  <2>2. LoadedFrom(r.project, loaded)
    BY <1>1, LoadForIs
  <2>3. KnownCache(cache')
    BY <2>1, <2>2 DEF LoadedFrom
  <2>4. Begun(r, job')
    BY <1>2, <2>1, <2>2, UpsertedIs DEF BeginUpsert
  <2>5. QED BY <1>2, <2>3, <2>4 DEF Begin, BeginUpsert, KeepActive
<1>3. CASE BeginManaged(r)
  <2>1. PICK loaded \in Load(r.project) :
          /\ cache' = loaded.cache
          /\ IF loaded.status # "Ok"
             THEN Refuse(r, loaded.status)
             ELSE IF ~loaded.snapshot.exists
             THEN Refuse(r, "NotFound")
             ELSE \/ AddTerm(r, loaded)
                  \/ RemoveEntry(r, loaded)
                  \/ SetEnabled(r, loaded)
    BY <1>3 DEF BeginManaged
  <2>2. LoadedFrom(r.project, loaded)
    BY <1>1, LoadIs
  <2>3. KnownCache(cache')
    BY <2>1, <2>2 DEF LoadedFrom
  <2>4. Begun(r, job')
    <3> r.op # "Remove"
      BY <1>3 DEF BeginManaged
    <3>1. CASE loaded.status # "Ok"
      BY <2>1, <2>2, <3>1, RefuseIs DEF LoadedFrom
    <3>2. CASE loaded.status = "Ok" /\ ~loaded.snapshot.exists
      BY <2>1, <3>2, RefuseIs DEF Status
    <3>3. CASE loaded.status = "Ok" /\ loaded.snapshot.exists
      BY <2>1, <2>2, <3>3, UpsertedIs, ManagedIs DEF AddTerm
    <3>4. QED BY <3>1, <3>2, <3>3
  <2>5. QED BY <1>3, <2>3, <2>4 DEF Begin, BeginManaged, KeepActive
<1>4. CASE BeginRemove(r)
  <2>1. Begun(r, job')
    BY <1>4, AbsentType DEF BeginRemove, StartJob, Begun, Job, JobStep, Status
  <2>2. QED BY <1>4, <2>1 DEF Begin, BeginRemove, KnownCache, KeepActive
<1>5. QED BY <1>2, <1>3, <1>4 DEF Begin

-----------------------------------------------------------------------------
(***************************************************************************)
(* Every step keeps the types and the inductive invariant.                 *)
(***************************************************************************)
Inv == TypeOK /\ IndexerInv

LEMMA InitInv ==
  ASSUME Init
  PROVE  Inv
<1>1. Absent \in Content
  BY DEF Content
<1>2. StoreTypeOK
  BY <1>1, StoreAssumption DEF Init, StoreInit, StoreTypeOK, File
<1>3. TypeOK
  BY <1>2 DEF Init, TypeOK
<1>4. StampInv /\ FreshInv /\ BasisInv /\ MadeInv
  BY StoreAssumption
     DEF Init, StoreInit, StampInv, FreshInv, Fresh, BasisInv, MadeInv
<1>5. ActiveInv
  BY DEF Init, ActiveInv, IsLive
<1>6. QED BY <1>3, <1>4, <1>5 DEF Inv, IndexerInv

LEMMA StutterInv ==
  ASSUME Inv, UNCHANGED vars
  PROVE  Inv'
BY DEF Inv, IndexerInv, vars, storeVars, TypeOK, StoreTypeOK, StampInv, FreshInv,
       Fresh, BasisInv, MadeInv, ActiveInv, ChangeMade, IsLive, project

LEMMA JobIs ==
  ASSUME TypeOK, job # NoJob
  PROVE  /\ job \in Job
         /\ job.request \in Requests
         /\ project \in Projects
         /\ job.step \in JobStep
         /\ job.status \in Status
         /\ job.snapshot \in Dictionary
BY RequestIs DEF TypeOK, StoreTypeOK, Job, project

LEMMA JobGoesOn ==
  ASSUME TypeOK, job # NoJob, NEW step \in JobStep
  PROVE  /\ Continue(step) =>
              /\ job' \in Job /\ job' # NoJob
              /\ job'.step = step /\ job'.status = job.status
              /\ job'.request = job.request /\ job'.snapshot = job.snapshot
         /\ Fail =>
              /\ job' \in Job /\ job' # NoJob
              /\ job'.step = "answer" /\ job'.status = "IoError"
              /\ job'.request = job.request /\ job'.snapshot = job.snapshot
<1>1. job \in Job
  BY JobIs
<1>2. Continue(step) => job' \in Job
  BY <1>1 DEF Continue, Job
<1>3. Fail => job' \in Job
  BY <1>1 DEF Fail, Job, JobStep, Status
<1>4. QED BY <1>1, <1>2, <1>3, NothingAssumption DEF Continue, Fail, Job

LEMMA ActiveIs ==
  ASSUME TypeOK, IsLive
  PROVE  active \in Snapshot /\ active.project \in Projects
BY DEF TypeOK, IsLive, Snapshot

\* What is published has the snapshot's type and the candidates of the file.
LEMMA PublishIs ==
  ASSUME NEW p \in Projects, NEW d \in Dictionary, Publish(p, d)
  PROVE  /\ active' \in Snapshot
         /\ active'.project = p
         /\ active'.candidates = CandidatesOf(d)
         /\ lagging' = FALSE
<1>1. CandidatesOf(d) \in UNION {EntriesOver(K) : K \in SUBSET Approved}
  BY CandidatesType
<1>2. Lease \in 0..Lease
  BY IndexerAssumption
<1>3. QED BY <1>1, <1>2 DEF Publish, Snapshot

LEMMA BeginInv ==
  ASSUME Inv, NEW r \in Requests, Begin(r)
  PROVE  Inv'
<1>1. /\ TypeOK /\ StampInv /\ FreshInv /\ ActiveInv
  BY DEF Inv, IndexerInv
<1>2. /\ job = NoJob
      /\ Begun(r, job')
      /\ KnownCache(cache')
      /\ UNCHANGED <<file, temporary, outside, active, lagging>>
      /\ reply' = "none"
  BY <1>1, BeginIs
<1>3. cache' \in CacheEntry \cup {Nothing} /\ StampInv' /\ FreshInv'
  BY <1>1, <1>2, KnownCacheKeeps
<1>4. job' \in Job /\ job' # NoJob /\ job'.request = r
  BY <1>2, NothingAssumption DEF Begun
<1>5. TypeOK'
  BY <1>1, <1>2, <1>3, <1>4 DEF TypeOK, StoreTypeOK
<1>6. BasisInv'
  <2>1. (project = r.project)'
    BY <1>4 DEF project
  <2>2. QED BY <1>2, <1>4, <2>1 DEF BasisInv, Begun
<1>7. MadeInv'
  BY <1>2, <1>4 DEF MadeInv, Begun
<1>8. ActiveInv'
  BY <1>1, <1>2 DEF ActiveInv, IsLive, ChangeMade
<1>9. QED BY <1>3, <1>5, <1>6, <1>7, <1>8 DEF Inv, IndexerInv

\* Opening and writing the temporary file, and every failure of the three
\* steps of Save, leave the dictionaries and the cache alone.
LEMMA SaveGoesOn ==
  ASSUME Inv, job # NoJob, job.step \in {"open", "write", "replace"},
         \/ \E step \in {"write", "replace"} : Continue(step)
         \/ Fail,
         temporary' \in [Projects -> {"none", "part", "whole"}],
         UNCHANGED <<file, cache, outside, active, reply, lagging>>
  PROVE  Inv'
<1>1. TypeOK /\ StampInv /\ FreshInv /\ BasisInv /\ MadeInv /\ ActiveInv
  BY DEF Inv, IndexerInv
<1>2. /\ job' \in Job /\ job' # NoJob
      /\ job'.request = job.request /\ job'.snapshot = job.snapshot
      /\ \/ job'.step \in {"write", "replace"} /\ job'.status = job.status
         \/ job'.step = "answer" /\ job'.status = "IoError"
  BY <1>1, JobGoesOn DEF JobStep
<1>3. TypeOK'
  BY <1>1, <1>2 DEF TypeOK, StoreTypeOK
<1>4. StampInv' /\ FreshInv'
  BY <1>1 DEF StampInv, FreshInv, Fresh
<1>5. BasisInv' /\ MadeInv'
  BY <1>1, <1>2 DEF BasisInv, MadeInv, project
<1>6. ActiveInv'
  BY <1>1, <1>2 DEF ActiveInv, BasisInv, ChangeMade, IsLive
<1>7. QED BY <1>3, <1>4, <1>5, <1>6 DEF Inv, IndexerInv

\* The temporary file takes the dictionary's place.
LEMMA SaveReplaced ==
  ASSUME Inv, job # NoJob, job.step = "replace",
         file' = [file EXCEPT ![project] = [content |-> job.snapshot, stamp |-> 0]],
         temporary' = [temporary EXCEPT ![project] = "none"],
         CacheSaved, Continue("answer"),
         UNCHANGED <<outside, active, reply, lagging>>
  PROVE  Inv'
<1>1. TypeOK /\ StampInv /\ FreshInv /\ BasisInv /\ MadeInv /\ ActiveInv
  BY DEF Inv, IndexerInv
<1>2. /\ job' \in Job /\ job' # NoJob
      /\ job'.request = job.request /\ job'.snapshot = job.snapshot
      /\ job'.step = "answer" /\ job'.status = job.status
  BY <1>1, JobGoesOn DEF JobStep
<1>3. /\ project \in Projects /\ job.snapshot \in Dictionary
      /\ job.snapshot.exists /\ job.request.op # "Remove" /\ job.status = "Ok"
  BY <1>1, JobIs DEF BasisInv, MadeInv
<1>4. job.snapshot \in Content /\ job.snapshot # Absent
  BY <1>3 DEF Content, Absent
<1>5. /\ file' \in [Projects -> File]
      /\ \A p \in Projects : p # project => file'[p] = file[p]
      /\ file'[project].content = job.snapshot /\ file'[project].stamp = 0
  BY <1>1, <1>3, <1>4, StoreAssumption DEF TypeOK, StoreTypeOK, File
<1>6. \/ cache' = Nothing
      \/ cache' = [project |-> project, dictionary |-> job.snapshot, stamp |-> 0]
  BY DEF CacheSaved, CacheSnapshot
<1>7. cache' \in CacheEntry \cup {Nothing}
  BY <1>3, <1>6, StoreAssumption DEF CacheEntry
<1>8. TypeOK'
  BY <1>1, <1>2, <1>3, <1>5, <1>7 DEF TypeOK, StoreTypeOK
<1>9. StampInv'
  BY <1>1, <1>3, <1>5, <1>6 DEF StampInv, TypeOK, StoreTypeOK
<1>10. FreshInv'
  BY <1>5, <1>6 DEF FreshInv, Fresh
<1>11. BasisInv' /\ MadeInv'
  BY <1>2, <1>3, <1>5 DEF BasisInv, MadeInv, project
<1>12. ActiveInv'
  <2>1. (project' = project) /\ ChangeMade'
    BY <1>2, <1>3 DEF project, ChangeMade
  <2>2. ~ChangeMade
    BY <1>3 DEF ChangeMade
  <2>3. IsLive => active.project \in Projects
    BY <1>1, ActiveIs
  <2>4. QED BY <1>1, <1>5, <2>1, <2>2, <2>3 DEF ActiveInv, IsLive
<1>13. QED BY <1>8, <1>9, <1>10, <1>11, <1>12 DEF Inv, IndexerInv

LEMMA SaveInv ==
  ASSUME Inv, SaveOpen \/ SaveWrite \/ SaveReplace,
         UNCHANGED <<active, reply, lagging>>
  PROVE  Inv'
<1>1. temporary \in [Projects -> {"none", "part", "whole"}]
  BY DEF Inv, TypeOK, StoreTypeOK
<1>2. CASE SaveOpen
  <2>1. temporary' \in [Projects -> {"none", "part", "whole"}]
    BY <1>1, <1>2 DEF SaveOpen
  <2>2. QED BY <1>2, <2>1, SaveGoesOn DEF SaveOpen
<1>3. job # NoJob => project \in Projects
  BY JobIs DEF Inv
<1>4. CASE SaveWrite
  <2>1. temporary' \in [Projects -> {"none", "part", "whole"}]
    BY <1>1, <1>3, <1>4 DEF SaveWrite
  <2>2. QED BY <1>4, <2>1, SaveGoesOn DEF SaveWrite
<1>5. CASE SaveReplace
  <2>1. CASE /\ \E left \in {temporary[project], "none"} :
                  temporary' = [temporary EXCEPT ![project] = left]
             /\ Fail
             /\ UNCHANGED <<file, cache>>
    <3>1. temporary' \in [Projects -> {"none", "part", "whole"}]
      BY <1>1, <1>3, <1>5, <2>1 DEF SaveReplace
    <3>2. QED BY <1>5, <2>1, <3>1, SaveGoesOn DEF SaveReplace
  <2>2. QED BY <1>5, <2>1, SaveReplaced DEF SaveReplace
<1>6. QED BY <1>2, <1>4, <1>5

\* The cache of a file that is gone, with the stamp of no file, is one of no
\* dictionary.
LEMMA AbsentKeeps ==
  ASSUME TypeOK, StampInv, FreshInv, NEW q \in Projects, UNCHANGED <<cache, outside>>,
         file' = [file EXCEPT ![q] = [content |-> Absent, stamp |-> 0]]
  PROVE  /\ file' \in [Projects -> File]
         /\ \A p \in Projects : p # q => file'[p] = file[p]
         /\ file'[q].content = Absent
         /\ StampInv'
         /\ FreshInv'
<1>1. Absent \in Content
  BY DEF Content
<1>2. /\ file' \in [Projects -> File]
      /\ \A p \in Projects : p # q => file'[p] = file[p]
      /\ file'[q].content = Absent /\ file'[q].stamp = 0
  BY <1>1, StoreAssumption DEF TypeOK, StoreTypeOK, File
<1>3. StampInv'
  BY <1>2 DEF StampInv, TypeOK, StoreTypeOK
<1>4. FreshInv'
  BY <1>2 DEF FreshInv, Fresh, StampInv
<1>5. QED BY <1>2, <1>3, <1>4

LEMMA RemoveTargetInv ==
  ASSUME Inv, RemoveTarget, UNCHANGED <<active, reply, lagging>>
  PROVE  Inv'
<1>1. TypeOK /\ StampInv /\ FreshInv /\ BasisInv /\ MadeInv /\ ActiveInv
  BY DEF Inv, IndexerInv
<1>2. /\ job # NoJob /\ job.step = "target" /\ project \in Projects
      /\ job.request.op = "Remove" /\ job.status = "Ok" /\ ~ChangeMade
      /\ UNCHANGED <<temporary, cache, outside>>
  BY <1>1, JobIs DEF RemoveTarget, MadeInv, ChangeMade
<1>3. CASE /\ file' = [file EXCEPT ![project] = [content |-> Absent, stamp |-> 0]]
           /\ Continue("temporary")
  <2>1. /\ job' \in Job /\ job' # NoJob
        /\ job'.request = job.request /\ job'.step = "temporary"
        /\ job'.status = job.status
    BY <1>1, <1>2, <1>3, JobGoesOn DEF JobStep
  <2>2. /\ file' \in [Projects -> File]
        /\ \A p \in Projects : p # project => file'[p] = file[p]
        /\ file'[project].content = Absent
        /\ StampInv' /\ FreshInv'
    BY <1>1, <1>2, <1>3, AbsentKeeps
  <2>3. TypeOK'
    BY <1>1, <1>2, <2>1, <2>2 DEF TypeOK, StoreTypeOK
  <2>4. BasisInv' /\ MadeInv'
    BY <1>2, <2>1, <2>2 DEF BasisInv, MadeInv, project
  <2>5. ActiveInv'
    <3>1. project' = project /\ ChangeMade'
      BY <1>2, <2>1, <2>2 DEF project, ChangeMade
    <3>2. IsLive => active.project \in Projects
      BY <1>1, ActiveIs
    <3>3. QED BY <1>1, <1>2, <2>2, <3>1, <3>2 DEF ActiveInv, IsLive
  <2>6. QED BY <2>2, <2>3, <2>4, <2>5 DEF Inv, IndexerInv
<1>4. CASE Fail /\ UNCHANGED file
  <2>1. /\ job' \in Job /\ job' # NoJob
        /\ job'.request = job.request /\ job'.step = "answer"
        /\ job'.status = "IoError"
    BY <1>1, <1>2, <1>4, JobGoesOn DEF JobStep
  <2>2. TypeOK'
    BY <1>1, <1>2, <1>4, <2>1 DEF TypeOK, StoreTypeOK
  <2>3. StampInv' /\ FreshInv'
    BY <1>1, <1>2, <1>4 DEF StampInv, FreshInv, Fresh
  <2>4. BasisInv' /\ MadeInv'
    BY <2>1 DEF BasisInv, MadeInv
  <2>5. ActiveInv'
    BY <1>1, <1>2, <1>4 DEF ActiveInv, IsLive
  <2>6. QED BY <2>2, <2>3, <2>4, <2>5 DEF Inv, IndexerInv
<1>5. QED BY <1>3, <1>4 DEF RemoveTarget

LEMMA RemoveTemporaryInv ==
  ASSUME Inv, RemoveTemporary, UNCHANGED <<active, reply, lagging>>
  PROVE  Inv'
<1>1. TypeOK /\ StampInv /\ FreshInv /\ BasisInv /\ MadeInv /\ ActiveInv
  BY DEF Inv, IndexerInv
<1>2. /\ job # NoJob /\ job.step = "temporary" /\ project \in Projects
      /\ job.request.op = "Remove" /\ job.status = "Ok"
      /\ file[project].content = Absent /\ ChangeMade
      /\ UNCHANGED <<file, outside>>
  BY <1>1, JobIs DEF RemoveTemporary, MadeInv, ChangeMade, project
<1>3. /\ KnownCache(cache')
      /\ temporary' \in [Projects -> {"none", "part", "whole"}]
  BY <1>1, <1>2
     DEF RemoveTemporary, KnownCache, Invalidated, TypeOK, StoreTypeOK
<1>4. cache' \in CacheEntry \cup {Nothing} /\ StampInv' /\ FreshInv'
  BY <1>1, <1>2, <1>3, KnownCacheKeeps
<1>5. /\ job' \in Job /\ job' # NoJob
      /\ job'.request = job.request /\ job'.step = "answer"
  BY <1>1, <1>2, JobGoesOn DEF JobStep, RemoveTemporary
<1>6. TypeOK'
  BY <1>1, <1>2, <1>3, <1>4, <1>5 DEF TypeOK, StoreTypeOK
<1>7. BasisInv' /\ MadeInv'
  BY <1>2, <1>5 DEF BasisInv, MadeInv, project
<1>8. ActiveInv'
  <2>1. project' = project /\ ChangeMade'
    BY <1>2, <1>5 DEF project, ChangeMade
  <2>2. QED BY <1>1, <1>2, <2>1 DEF ActiveInv, IsLive
<1>9. QED BY <1>4, <1>6, <1>7, <1>8 DEF Inv, IndexerInv

\* A step that leaves the store without a job and its files as they are, if
\* the candidates it leaves are those of a file.
LEMMA IdleKeeps ==
  ASSUME Inv, KnownCache(cache'), UNCHANGED <<file, temporary, outside>>,
         job' = NoJob,
         reply' \in {"none", "Ok", "Error"}, lagging' \in BOOLEAN,
         active' \in Snapshot \cup {NoProject},
         IsLive' /\ ~lagging' =>
           LET content == file[active'.project].content
           IN content # Corrupt /\ active'.candidates = CandidatesOf(content)
  PROVE  Inv'
<1>1. cache' \in CacheEntry \cup {Nothing} /\ StampInv' /\ FreshInv'
  BY KnownCacheKeeps DEF Inv, IndexerInv
<1>2. TypeOK'
  BY <1>1 DEF Inv, TypeOK, StoreTypeOK
<1>3. BasisInv' /\ MadeInv' /\ ActiveInv'
  BY DEF BasisInv, MadeInv, ActiveInv
<1>4. QED BY <1>1, <1>2, <1>3 DEF Inv, IndexerInv

\* Where nothing is being changed, a snapshot that is kept is still right.
LEMMA KeptIsCurrent ==
  ASSUME Inv, UNCHANGED <<file, active, lagging>>,
         ~(ChangeMade /\ IsActive(project))
  PROVE  /\ active' \in Snapshot \cup {NoProject}
         /\ lagging' \in BOOLEAN
         /\ IsLive' /\ ~lagging' =>
              LET content == file[active'.project].content
              IN content # Corrupt /\ active'.candidates = CandidatesOf(content)
<1>1. active' \in Snapshot \cup {NoProject} /\ lagging' \in BOOLEAN
  BY DEF Inv, TypeOK
<1>2. ASSUME IsLive' /\ ~lagging'
      PROVE  LET content == file[active'.project].content
             IN content # Corrupt /\ active'.candidates = CandidatesOf(content)
  BY <1>2 DEF Inv, IndexerInv, ActiveInv, IsLive, IsActive
<1>3. QED BY <1>1, <1>2

\* A snapshot of what the file holds is right.
LEMMA PublishedIsCurrent ==
  ASSUME NEW p \in Projects, file[p].content # Corrupt,
         file[p].content \in Dictionary,
         Publish(p, file[p].content)
  PROVE  /\ active' \in Snapshot \cup {NoProject}
         /\ lagging' \in BOOLEAN
         /\ IsLive' /\ ~lagging' =>
              LET content == file[active'.project].content
              IN content # Corrupt /\ active'.candidates = CandidatesOf(content)
<1>1. /\ active' \in Snapshot /\ active'.project = p
      /\ active'.candidates = CandidatesOf(file[p].content)
      /\ lagging' = FALSE
  BY PublishIs
<1>2. QED BY <1>1

LEMMA ClearedIsCurrent ==
  ASSUME Clear
  PROVE  /\ active' \in Snapshot \cup {NoProject}
         /\ lagging' \in BOOLEAN
         /\ ~IsLive'
BY DEF Clear, IsLive

LEMMA ActivateInv ==
  ASSUME Inv, NEW p \in Projects, ActivateProject(p)
  PROVE  Inv'
<1>1. TypeOK /\ job = NoJob /\ job' = NoJob /\ ~ChangeMade
      /\ UNCHANGED <<file, temporary, outside, reply>>
  BY DEF Inv, ActivateProject, ChangeMade
<1>2. reply' \in {"none", "Ok", "Error"}
  BY <1>1 DEF TypeOK
<1>3. CASE /\ Refreshable(p)
           /\ active' = [active EXCEPT !.left = Lease]
           /\ UNCHANGED <<lagging, cache>>
  <2>1. active \in Snapshot /\ IsLive /\ lagging \in BOOLEAN
    BY <1>1, <1>3, ActiveIs DEF Refreshable, TypeOK
  <2>2. /\ active' \in Snapshot
        /\ active'.project = active.project
        /\ active'.candidates = active.candidates
    BY <1>3, <2>1, IndexerAssumption DEF Snapshot
  <2>3. KnownCache(cache')
    BY <1>3 DEF KnownCache
  <2>4. ~lagging => LET content == file[active.project].content
                    IN content # Corrupt /\ active.candidates = CandidatesOf(content)
    BY <1>1, <2>1 DEF Inv, IndexerInv, ActiveInv
  <2>5. QED BY <1>1, <1>2, <1>3, <2>1, <2>2, <2>3, <2>4, IdleKeeps
<1>4. CASE \E loaded \in Load(p) :
             /\ cache' = loaded.cache
             /\ IF loaded.status = "Ok" THEN Publish(p, loaded.snapshot)
                                        ELSE Clear
  <2>1. PICK loaded \in Load(p) :
             /\ cache' = loaded.cache
             /\ IF loaded.status = "Ok" THEN Publish(p, loaded.snapshot)
                                        ELSE Clear
    BY <1>4
  <2>2. LoadedFrom(p, loaded)
    BY <1>1, LoadIs
  <2>3. KnownCache(cache')
    BY <2>1, <2>2 DEF LoadedFrom
  <2>4. CASE loaded.status = "Ok"
    <3>1. /\ file[p].content # Corrupt /\ file[p].content \in Dictionary
          /\ Publish(p, file[p].content)
      BY <2>1, <2>2, <2>4 DEF LoadedFrom
    <3>2. QED BY <1>1, <1>2, <2>3, <3>1, PublishedIsCurrent, IdleKeeps
  <2>5. CASE loaded.status # "Ok"
    BY <1>1, <1>2, <2>1, <2>3, <2>5, ClearedIsCurrent, IdleKeeps
  <2>6. QED BY <2>4, <2>5
<1>5. QED BY <1>3, <1>4 DEF ActivateProject

LEMMA ViewInv ==
  ASSUME Inv, NEW p \in Projects, ViewProject(p)
  PROVE  Inv'
<1>1. /\ TypeOK /\ job = NoJob /\ job' = NoJob /\ ~ChangeMade
      /\ UNCHANGED <<file, temporary, outside, active, reply, lagging>>
  BY DEF Inv, ViewProject, ChangeMade
<1>2. PICK loaded \in Load(p) : cache' = loaded.cache
  BY DEF ViewProject
<1>3. KnownCache(cache')
  BY <1>1, <1>2, LoadIs DEF LoadedFrom
<1>4. reply' \in {"none", "Ok", "Error"}
  BY <1>1 DEF TypeOK
<1>5. QED BY <1>1, <1>3, <1>4, KeptIsCurrent, IdleKeeps

LEMMA DeactivateInv ==
  ASSUME Inv, DeactivateProject
  PROVE  Inv'
<1>1. /\ TypeOK /\ job = NoJob /\ job' = NoJob /\ Clear
      /\ UNCHANGED <<file, temporary, outside, cache, reply>>
  BY DEF Inv, DeactivateProject, storeVars
<1>2. KnownCache(cache') /\ reply' \in {"none", "Ok", "Error"}
  BY <1>1 DEF KnownCache, TypeOK
<1>3. QED BY <1>1, <1>2, ClearedIsCurrent, IdleKeeps

LEMMA CrashInv ==
  ASSUME Inv, Crash
  PROVE  Inv'
<1>1. /\ TypeOK /\ job' = NoJob /\ Clear
      /\ UNCHANGED <<file, temporary, outside, reply>>
  BY DEF Inv, Crash, StoreDies
<1>2. KnownCache(cache') /\ reply' \in {"none", "Ok", "Error"}
  BY <1>1 DEF KnownCache, TypeOK, Crash, StoreDies
<1>3. QED BY <1>1, <1>2, ClearedIsCurrent, IdleKeeps

LEMMA AnswerInv ==
  ASSUME Inv, Answer
  PROVE  Inv'
<1>1. /\ TypeOK /\ MadeInv /\ job # NoJob /\ job.step = "answer"
      /\ UNCHANGED <<file, temporary, outside>>
  BY DEF Inv, IndexerInv, Answer
<1>2. /\ project \in Projects /\ job.snapshot \in Dictionary
      /\ job.snapshot # Corrupt /\ lagging \in BOOLEAN
      /\ active \in Snapshot \cup {NoProject}
  BY <1>1, JobIs, NothingAssumption DEF TypeOK
<1>3. UNCHANGED cache => KnownCache(cache')
  BY DEF KnownCache
<1>4. ASSUME NEW isMade \in BOOLEAN, AnswerError(isMade), KnownCache(cache'),
             ChangeMade => isMade
      PROVE  Inv'
  <2>1. /\ reply' = "Error" /\ job' = NoJob /\ active' = active
        /\ lagging' = (lagging \/ (isMade /\ IsActive(project)))
    BY <1>4 DEF AnswerError, Reply
  <2>2. lagging' \in BOOLEAN
    BY <1>2, <2>1
  <2>3. IsLive' /\ ~lagging' =>
          LET content == file[active'.project].content
          IN content # Corrupt /\ active'.candidates = CandidatesOf(content)
    <3>1. ~lagging' => ~lagging /\ ~(ChangeMade /\ IsActive(project))
      BY <1>4, <2>1
    <3>2. QED
      BY <2>1, <3>1 DEF Inv, IndexerInv, ActiveInv, IsLive, IsActive
  <2>4. QED BY <1>1, <1>2, <1>4, <2>1, <2>2, <2>3, IdleKeeps
<1>5. CASE job.status # "Ok"
  <2>1. /\ AnswerError(job.request.op = "Remove" /\ file[project].content = Absent)
        /\ UNCHANGED cache
    BY <1>5 DEF Answer, AnswerFailed
  <2>2. ChangeMade => job.request.op = "Remove" /\ file[project].content = Absent
    BY <1>5 DEF ChangeMade
  <2>3. QED BY <1>3, <1>4, <2>1, <2>2
<1>6. ASSUME job.status = "Ok", job.request.op # "Remove"
      PROVE  file[project].content = job.snapshot
  BY <1>1, <1>6 DEF MadeInv
<1>7. ASSUME Reply("Ok"), UNCHANGED cache, job.status = "Ok",
             job.request.op # "Remove",
             \/ Publish(project, job.snapshot)
             \/ KeepActive /\ ~(IsActive(project) /\ IsLive)
      PROVE  Inv'
  <2>1. reply' = "Ok" /\ job' = NoJob /\ KnownCache(cache')
    BY <1>3, <1>7 DEF Reply
  <2>2. CASE Publish(project, job.snapshot)
    BY <1>1, <1>2, <1>6, <1>7, <2>1, <2>2, PublishedIsCurrent, IdleKeeps
  <2>3. CASE KeepActive /\ ~(IsActive(project) /\ IsLive)
    <3>1. IsLive' /\ ~lagging' =>
            LET content == file[active'.project].content
            IN content # Corrupt /\ active'.candidates = CandidatesOf(content)
      BY <2>3 DEF KeepActive, Inv, IndexerInv, ActiveInv, IsLive, IsActive
    <3>2. QED BY <1>1, <1>2, <2>1, <2>3, <3>1, IdleKeeps DEF KeepActive
  <2>4. QED BY <1>7, <2>2, <2>3
<1>8. CASE job.status = "Ok" /\ AnswerUpsert
  <2>1. \/ Publish(project, job.snapshot)
        \/ KeepActive /\ ~(IsActive(project) /\ IsLive)
    BY <1>8 DEF AnswerUpsert, Refreshable
  <2>2. QED BY <1>7, <1>8, <2>1 DEF AnswerUpsert
<1>9. CASE job.status = "Ok" /\ AnswerTerm
  <2>1. \/ Publish(project, job.snapshot)
        \/ KeepActive /\ ~(IsActive(project) /\ IsLive)
    BY <1>9 DEF AnswerTerm
  <2>2. QED BY <1>7, <1>9, <2>1 DEF AnswerTerm
<1>10. CASE job.status = "Ok" /\ AnswerSetEnabled
  <2>1. PICK loaded \in Load(project) :
       /\ cache' = loaded.cache
       /\ IF loaded.status # "Ok" THEN AnswerError(TRUE)
          ELSE /\ IF IsActive(project) /\ IsLive
                  THEN Publish(project, loaded.snapshot)
                  ELSE KeepActive
               /\ Reply("Ok")
    BY <1>10 DEF AnswerSetEnabled
  <2>2. LoadedFrom(project, loaded)
    BY <1>1, <1>2, LoadIs
  <2>3. KnownCache(cache')
    BY <2>1, <2>2 DEF LoadedFrom
  <2>4. CASE loaded.status # "Ok"
    BY <1>4, <2>1, <2>3, <2>4
  <2>5. CASE loaded.status = "Ok" /\ IsActive(project) /\ IsLive
    <3>1. /\ file[project].content # Corrupt /\ file[project].content \in Dictionary
          /\ Publish(project, file[project].content)
          /\ reply' = "Ok" /\ job' = NoJob
      BY <2>1, <2>2, <2>5 DEF LoadedFrom, Reply
    <3>2. QED BY <1>1, <1>2, <2>3, <3>1, PublishedIsCurrent, IdleKeeps
  <2>6. CASE loaded.status = "Ok" /\ ~(IsActive(project) /\ IsLive)
    <3>1. KeepActive /\ reply' = "Ok" /\ job' = NoJob
      BY <2>1, <2>6 DEF Reply
    <3>2. IsLive' /\ ~lagging' =>
            LET content == file[active'.project].content
            IN content # Corrupt /\ active'.candidates = CandidatesOf(content)
      BY <2>6, <3>1 DEF KeepActive, Inv, IndexerInv, ActiveInv, IsLive, IsActive
    <3>3. QED BY <1>1, <1>2, <2>3, <3>1, <3>2, IdleKeeps DEF KeepActive
  <2>7. QED BY <2>4, <2>5, <2>6
<1>11. CASE job.status = "Ok" /\ AnswerRemove
  <2>1. reply' = "Ok" /\ job' = NoJob /\ KnownCache(cache')
    BY <1>3, <1>11 DEF AnswerRemove, Reply
  <2>2. CASE IsActive(project)
    BY <1>1, <1>11, <2>1, <2>2, ClearedIsCurrent, IdleKeeps DEF AnswerRemove
  <2>3. CASE ~IsActive(project)
    <3>1. KeepActive
      BY <1>11, <2>3 DEF AnswerRemove
    <3>2. QED
      BY <1>1, <2>1, <2>3, <3>1, KeptIsCurrent, IdleKeeps DEF KeepActive
  <2>4. QED BY <2>2, <2>3
<1>12. QED BY <1>5, <1>8, <1>9, <1>10, <1>11 DEF Answer

LEMMA TickInv ==
  ASSUME Inv, Tick
  PROVE  Inv'
<1>1. TypeOK /\ StampInv /\ FreshInv /\ BasisInv /\ MadeInv /\ ActiveInv
  BY DEF Inv, IndexerInv
<1>2. /\ active \in Snapshot /\ IsLive
      /\ active' = [active EXCEPT !.left = @ - 1]
      /\ UNCHANGED <<file, temporary, cache, outside, job, reply, lagging>>
  BY <1>1, ActiveIs DEF Tick, storeVars
<1>3. /\ active' \in Snapshot
      /\ active'.project = active.project
      /\ active'.candidates = active.candidates
  BY <1>2, IndexerAssumption DEF Snapshot, IsLive
<1>4. TypeOK'
  BY <1>1, <1>2, <1>3 DEF TypeOK, StoreTypeOK
<1>5. StampInv' /\ FreshInv' /\ BasisInv' /\ MadeInv'
  BY <1>1, <1>2 DEF StampInv, FreshInv, Fresh, BasisInv, MadeInv, project
<1>6. ActiveInv'
  BY <1>1, <1>2, <1>3 DEF ActiveInv, ChangeMade, project
<1>7. QED BY <1>4, <1>5, <1>6 DEF Inv, IndexerInv

\* A file changed by somebody else has a stamp that no cached one has, or is
\* gone.
LEMMA OutsideInv ==
  ASSUME Inv, NEW q \in Projects, OutsideChange(q)
  PROVE  Inv'
<1>1. TypeOK /\ StampInv /\ FreshInv /\ ActiveInv
  BY DEF Inv, IndexerInv
<1>2. /\ job = NoJob /\ job' = NoJob /\ outside < MaxOutside
      /\ outside' = outside + 1
      /\ UNCHANGED <<temporary, cache, active, reply>>
      /\ lagging' = (lagging \/ IsActive(q))
  BY DEF OutsideChange, ChangeOutside
<1>3. PICK c \in {Absent, Corrupt, [Absent EXCEPT !.exists = TRUE]} :
        file' = [file EXCEPT ![q] =
                  [content |-> c, stamp |-> IF c = Absent THEN 0 ELSE outside']]
  BY DEF OutsideChange, ChangeOutside
<1>4. outside \in Nat /\ outside' \in 0..MaxOutside
  BY <1>1, <1>2, StoreAssumption DEF TypeOK, StoreTypeOK
<1>5. c \in Content
  <2>1. [Absent EXCEPT !.exists = TRUE] \in Content
    BY AbsentType DEF Content, Absent
  <2>2. QED BY <2>1 DEF Content
<1>6. /\ file' \in [Projects -> File]
      /\ \A p \in Projects : p # q => file'[p] = file[p]
      /\ file'[q].content = c
      /\ file'[q].stamp = IF c = Absent THEN 0 ELSE outside'
  BY <1>1, <1>3, <1>4, <1>5, StoreAssumption DEF TypeOK, StoreTypeOK, File
<1>7. TypeOK'
  BY <1>1, <1>2, <1>4, <1>6 DEF TypeOK, StoreTypeOK
<1>8. cache # Nothing => cache.stamp \in Nat
  BY <1>1 DEF TypeOK, StoreTypeOK, CacheEntry
<1>9. \A p \in Projects : file[p].stamp \in Nat
  BY <1>1 DEF TypeOK, StoreTypeOK, File
<1>10. StampInv'
  BY <1>1, <1>2, <1>4, <1>6, <1>8, <1>9 DEF StampInv
<1>11. FreshInv'
  BY <1>1, <1>2, <1>4, <1>6, <1>8 DEF FreshInv, Fresh, StampInv
<1>12. BasisInv' /\ MadeInv'
  BY <1>2 DEF BasisInv, MadeInv
<1>13. ActiveInv'
  <2>1. IsLive => active.project \in Projects
    BY <1>1, ActiveIs
  <2>2. QED
    BY <1>1, <1>2, <1>6, <2>1 DEF ActiveInv, IsLive, IsActive, ChangeMade
<1>14. QED BY <1>7, <1>10, <1>11, <1>12, <1>13 DEF Inv, IndexerInv

LEMMA StepInv ==
  ASSUME Inv, [Next]_vars
  PROVE  Inv'
<1>1. CASE \E r \in Requests : Begin(r)
  BY <1>1, BeginInv
<1>2. CASE StoreStep /\ UNCHANGED <<active, reply, lagging>>
  BY <1>2, SaveInv, RemoveTargetInv, RemoveTemporaryInv DEF StoreStep
<1>3. CASE Answer
  BY <1>3, AnswerInv
<1>4. CASE \E p \in Projects : ActivateProject(p) \/ ViewProject(p)
  BY <1>4, ActivateInv, ViewInv
<1>5. CASE DeactivateProject
  BY <1>5, DeactivateInv
<1>6. CASE Tick
  BY <1>6, TickInv
<1>7. CASE Crash
  BY <1>7, CrashInv
<1>8. CASE \E p \in Projects : OutsideChange(p)
  BY <1>8, OutsideInv
<1>9. CASE UNCHANGED vars
  BY <1>9, StutterInv
<1>10. QED
  BY <1>1, <1>2, <1>3, <1>4, <1>5, <1>6, <1>7, <1>8, <1>9 DEF Next

\* The indexer's invariant.
THEOREM InvCorrect == Spec => []Inv
<1>1. Init => Inv
  BY InitInv
<1>2. Inv /\ [Next]_vars => Inv'
  BY StepInv
<1>3. QED BY <1>1, <1>2, PTL DEF Spec

\* The cached dictionary that Upsert and RemoveEntry would start from is what
\* the file holds, for any sequence of changes, failures and crashes.
THEOREM CacheIsCoherent == Spec => []CacheCoherent
<1>1. Inv => CacheCoherent
  BY DEF Inv, IndexerInv, CacheCoherent
<1>2. QED BY <1>1, InvCorrect, PTL

\* Between two requests a live lease's candidates are the dictionary's on the
\* disk, wherever the indexer could know.
THEOREM ActiveCandidates == Spec => []ActiveIsDurable
<1>1. Inv => ActiveIsDurable
  BY DEF Inv, IndexerInv, ActiveInv, ActiveIsDurable, ChangeMade
<1>2. QED BY <1>1, InvCorrect, PTL

-----------------------------------------------------------------------------
(***************************************************************************)
(* What a change makes of the disk.                                        *)
(***************************************************************************)

\* No upsert loses an entry or an observation, of the file or of the request.
THEOREM NothingLost == Spec => NothingForgotten
<1> DEFINE Lost(p) ==
       /\ SaveReplace /\ file'[p] # file[p]
       /\ job.request.op \in {"Upsert", "UpsertTerm"}
       => LET new == file'[p].content.entries
              Kept(entries) ==
                \A k \in DOMAIN entries : k \in DOMAIN new /\ new[k] >= entries[k]
          IN Kept(file[p].content.entries) /\ Kept(job.request.batch)
<1>1. ASSUME Inv, Next, NEW p \in Projects, SaveReplace, file'[p] # file[p],
             job.request.op \in {"Upsert", "UpsertTerm"}
      PROVE  LET new == file'[p].content.entries
                 Kept(entries) ==
                   \A k \in DOMAIN entries : k \in DOMAIN new /\ new[k] >= entries[k]
             IN Kept(file[p].content.entries) /\ Kept(job.request.batch)
  <2> DEFINE d == file[project].content
             r == job.request
  <2>1. TypeOK /\ BasisInv /\ job # NoJob /\ job.step = "replace"
    BY <1>1 DEF Inv, IndexerInv, SaveReplace
  <2>2. /\ project \in Projects /\ r \in Requests /\ d \in Dictionary
        /\ d # Corrupt
        /\ job.snapshot = Effect(r, d)
    BY <2>1, JobIs, FileIs DEF BasisInv
  <2>3. /\ p = project
        /\ file'[p].content = job.snapshot
    <3>1. file' = [file EXCEPT ![project] = [content |-> job.snapshot, stamp |-> 0]]
      BY <1>1 DEF SaveReplace
    <3>2. QED BY <1>1, <2>1, <2>2, <3>1 DEF TypeOK, StoreTypeOK
  <2>4. job.snapshot = [d EXCEPT !.exists = TRUE, !.entries = Merge(@, r.batch)]
    BY <1>1, <2>2 DEF Effect
  <2>5. file'[p].content.entries = Merge(d.entries, r.batch)
    BY <2>2, <2>3, <2>4 DEF Dictionary
  <2>6. d.entries \in Batch /\ r.batch \in Batch
    BY <1>1, <2>2, EntriesAre, RequestIs DEF Dictionary
  <2> HIDE DEF d, r
  <2>7. /\ \A k \in DOMAIN d.entries :
             /\ k \in DOMAIN file'[p].content.entries
             /\ file'[p].content.entries[k] >= d.entries[k]
        /\ \A k \in DOMAIN r.batch :
             /\ k \in DOMAIN file'[p].content.entries
             /\ file'[p].content.entries[k] >= r.batch[k]
    BY <2>5, <2>6, MergeType
  <2>8. QED BY <2>3, <2>7 DEF d, r
<1>2. Inv /\ [Next]_vars => [\A p \in Projects : Lost(p)]_vars
  BY <1>1
<1>3. QED BY <1>2, InvCorrect, PTL DEF Spec, NothingForgotten

-----------------------------------------------------------------------------
(***************************************************************************)
(* The indexer implements the durable dictionaries.                        *)
(***************************************************************************)
OnDisk == [p \in Projects |-> file[p].content]
Served == IF job = NoJob THEN NoJob ELSE job.request

\* Nothing of what the dictionaries promise changes.
LEMMA DurableStutters ==
  ASSUME UNCHANGED <<file, reply>>, Served' = Served, ChangeMade' <=> ChangeMade
  PROVE  UNCHANGED Durable!durableVars
BY DEF Durable!durableVars, Served, ChangeMade

LEMMA BeginDurable ==
  ASSUME Inv, NEW r \in Requests, Begin(r)
  PROVE  Durable!Call(r)
<1>1. /\ job = NoJob /\ Begun(r, job') /\ UNCHANGED file /\ reply' = "none"
  BY BeginIs DEF Inv, IndexerInv
<1>2. job' # NoJob /\ job'.request = r
  BY <1>1, NothingAssumption DEF Begun
<1>3. ~ChangeMade /\ ~ChangeMade'
  BY <1>1, <1>2 DEF ChangeMade, Begun
<1>4. ChangeMade' = ChangeMade
  BY <1>3 DEF ChangeMade
<1>5. QED BY <1>1, <1>2, <1>4 DEF Durable!Call

LEMMA StoreDurable ==
  ASSUME Inv, StoreStep, UNCHANGED <<active, reply, lagging>>
  PROVE  Durable!Make \/ UNCHANGED Durable!durableVars
<1>1. /\ TypeOK /\ BasisInv /\ MadeInv
      /\ job # NoJob /\ project \in Projects /\ job.request \in Requests
  BY JobIs DEF Inv, IndexerInv, StoreStep, SaveOpen, SaveWrite, SaveReplace,
               RemoveTarget, RemoveTemporary
<1>2. job.request # NoJob
  BY <1>1, NothingAssumption
<1>3. \A step \in JobStep : Continue(step) \/ Fail =>
        job' # NoJob /\ job'.request = job.request /\ project' = project
  BY <1>1, JobGoesOn DEF project
<1>4. ASSUME job.step \in {"open", "write", "replace"}, UNCHANGED file,
             \/ \E step \in {"write", "replace"} : Continue(step)
             \/ Fail
      PROVE  UNCHANGED Durable!durableVars
  <2>1. /\ job' # NoJob /\ job'.request = job.request
        /\ \/ job'.step \in {"write", "replace"}
           \/ job'.step = "answer" /\ job'.status = "IoError"
    BY <1>1, <1>4, JobGoesOn DEF JobStep
  <2>2. job.request.op # "Remove"
    BY <1>1, <1>4 DEF BasisInv
  <2>3. ~ChangeMade /\ ~ChangeMade'
    BY <1>4, <2>1, <2>2 DEF ChangeMade
  <2>4. QED BY <1>1, <1>4, <2>1, <2>3, DurableStutters DEF Served
<1>5. CASE SaveOpen \/ SaveWrite
  BY <1>4, <1>5 DEF SaveOpen, SaveWrite
<1>6. ASSUME NEW c,
             file' = [file EXCEPT ![project] = [content |-> c, stamp |-> 0]],
             c = Effect(job.request, file[project].content),
             ~ChangeMade, ChangeMade', job' # NoJob, job'.request = job.request
      PROVE  Durable!Make
  <2>1. OnDisk' = [OnDisk EXCEPT ![job.request.project] = Effect(job.request, @)]
    BY <1>1, <1>6 DEF OnDisk, TypeOK, StoreTypeOK, project
  <2>2. QED BY <1>1, <1>2, <1>6, <2>1 DEF Durable!Make, OnDisk
<1>7. CASE SaveReplace
  <2>1. CASE Fail /\ UNCHANGED file
    BY <1>4, <1>7, <2>1 DEF SaveReplace
  <2>2. CASE /\ file' = [file EXCEPT ![project] =
                           [content |-> job.snapshot, stamp |-> 0]]
             /\ Continue("answer")
    <3>1. /\ job' # NoJob /\ job'.request = job.request
          /\ job'.step = "answer" /\ job'.status = job.status
      BY <1>1, <2>2, JobGoesOn DEF JobStep
    <3>2. /\ job.snapshot = Effect(job.request, file[project].content)
          /\ job.request.op # "Remove" /\ job.status = "Ok"
          /\ job.step = "replace"
      BY <1>1, <1>7 DEF BasisInv, MadeInv, SaveReplace
    <3>3. ~ChangeMade /\ ChangeMade'
      BY <3>1, <3>2 DEF ChangeMade
    <3>4. QED BY <1>6, <2>2, <3>1, <3>2, <3>3
  <2>3. QED BY <1>7, <2>1, <2>2 DEF SaveReplace
<1>8. CASE RemoveTarget
  <2>1. /\ job.step = "target" /\ job.request.op = "Remove" /\ ~ChangeMade
        /\ Effect(job.request, file[project].content) = Absent
    BY <1>1, <1>8 DEF RemoveTarget, MadeInv, ChangeMade, Effect
  <2>2. CASE /\ file' = [file EXCEPT ![project] = [content |-> Absent, stamp |-> 0]]
             /\ Continue("temporary")
    <3>1. /\ job' # NoJob /\ job'.request = job.request
          /\ job'.step = "temporary" /\ project' = project
      BY <1>1, <2>2, JobGoesOn DEF JobStep, project
    <3>2. ChangeMade'
      BY <1>1, <2>1, <2>2, <3>1 DEF ChangeMade, TypeOK, StoreTypeOK
    <3>3. QED BY <1>6, <2>1, <2>2, <3>1, <3>2
  <2>3. CASE Fail /\ UNCHANGED file
    <3>1. /\ job' # NoJob /\ job'.request = job.request
          /\ job'.step = "answer" /\ job'.status = "IoError"
          /\ project' = project
      BY <1>1, <2>3, JobGoesOn DEF JobStep, project
    <3>2. CASE file[project].content = Absent
      <4>1. ChangeMade'
        BY <2>1, <2>3, <3>1, <3>2 DEF ChangeMade
      <4>2. OnDisk' = [OnDisk EXCEPT ![job.request.project] = Effect(job.request, @)]
        BY <1>1, <2>1, <2>3, <3>2 DEF OnDisk, project
      <4>3. QED BY <1>1, <1>2, <2>1, <3>1, <4>1, <4>2 DEF Durable!Make, OnDisk
    <3>3. CASE file[project].content # Absent
      <4>1. ~ChangeMade'
        BY <2>1, <2>3, <3>1, <3>3 DEF ChangeMade
      <4>2. QED
        BY <1>1, <2>1, <2>3, <3>1, <4>1, DurableStutters DEF Served
    <3>4. QED BY <3>2, <3>3
  <2>4. QED BY <1>8, <2>2, <2>3 DEF RemoveTarget
<1>9. CASE RemoveTemporary
  <2>1. /\ job' # NoJob /\ job'.request = job.request
        /\ job'.step = "answer" /\ project' = project /\ UNCHANGED file
    BY <1>1, <1>9, JobGoesOn DEF RemoveTemporary, JobStep, project
  <2>2. ChangeMade /\ ChangeMade'
    BY <1>1, <1>9, <2>1 DEF RemoveTemporary, MadeInv, ChangeMade
  <2>3. QED BY <1>1, <2>1, <2>2, DurableStutters DEF Served
<1>10. QED BY <1>5, <1>7, <1>8, <1>9 DEF StoreStep

LEMMA AnswerDurable ==
  ASSUME Inv, Answer
  PROVE  Durable!AnswerOk \/ Durable!Fail
<1>1. /\ TypeOK /\ MadeInv /\ job # NoJob /\ job.step = "answer"
      /\ job.request \in Requests /\ UNCHANGED file
  BY JobIs DEF Inv, IndexerInv, Answer
<1>2. job.request # NoJob
  BY <1>1, NothingAssumption
<1>3. CASE Reply("Error")
  <2>1. reply' = "Error" /\ job' = NoJob /\ ~ChangeMade'
    BY <1>3 DEF Reply, ChangeMade
  <2>2. QED BY <1>1, <1>2, <2>1 DEF Durable!Fail
<1>4. CASE Reply("Ok") /\ job.status = "Ok"
  <2>1. reply' = "Ok" /\ job' = NoJob /\ ~ChangeMade'
    BY <1>4 DEF Reply, ChangeMade
  <2>2. ChangeMade
    BY <1>1, <1>4 DEF ChangeMade, MadeInv
  <2>3. QED BY <1>1, <2>1, <2>2 DEF Durable!AnswerOk
<1>5. CASE job.status # "Ok"
  BY <1>3, <1>5 DEF Answer, AnswerFailed, AnswerError
<1>6. CASE job.status = "Ok"
  BY <1>3, <1>4, <1>6
     DEF Answer, AnswerUpsert, AnswerTerm, AnswerSetEnabled, AnswerRemove,
         AnswerError
<1>7. QED BY <1>5, <1>6

LEMMA CrashDurable ==
  ASSUME Inv, Crash
  PROVE  Durable!Fail \/ UNCHANGED Durable!durableVars
<1>1. job' = NoJob /\ ~ChangeMade' /\ UNCHANGED <<file, reply>>
  BY DEF Crash, StoreDies, ChangeMade
<1>2. CASE job = NoJob
  BY <1>1, <1>2, DurableStutters DEF Served, ChangeMade
<1>3. CASE job # NoJob
  <2>1. job.request # NoJob
    BY <1>3, JobIs, NothingAssumption DEF Inv
  <2>2. QED BY <1>1, <1>3, <2>1 DEF Durable!Fail
<1>4. QED BY <1>2, <1>3

LEMMA OutsideDurable ==
  ASSUME Inv, NEW q \in Projects, OutsideChange(q)
  PROVE  Durable!ChangeOutside(q)
<1>1. /\ job = NoJob /\ job' = NoJob /\ ~ChangeMade /\ ~ChangeMade'
      /\ UNCHANGED reply
  BY DEF OutsideChange, ChangeOutside, ChangeMade
<1>2. PICK c \in {Absent, Corrupt, [Absent EXCEPT !.exists = TRUE]} :
        file' = [file EXCEPT ![q] =
                  [content |-> c, stamp |-> IF c = Absent THEN 0 ELSE outside']]
  BY DEF OutsideChange, ChangeOutside
<1>3. c \in Content
  <2>1. [Absent EXCEPT !.exists = TRUE] \in Content
    BY AbsentType DEF Content, Absent
  <2>2. QED BY <2>1 DEF Content
<1>4. OnDisk' = [OnDisk EXCEPT ![q] = c]
  BY <1>2 DEF OnDisk, Inv, TypeOK, StoreTypeOK
<1>5. ChangeMade' = ChangeMade
  BY <1>1 DEF ChangeMade
<1>6. QED BY <1>1, <1>3, <1>4, <1>5 DEF Durable!ChangeOutside, OnDisk

\* Whichever step of Save or Remove fails and wherever the process dies, a
\* change is made as a whole or not at all, to what the disk holds, and "Ok" is
\* answered only when it has been made.
THEOREM IndexerImplementsDurable == Spec => ImplementsDurable
<1>1. Init => Durable!DurableInit
  <2> SUFFICES ASSUME Init PROVE Durable!DurableInit
    OBVIOUS
  <2>1. TypeOK
    BY InitInv DEF Inv
  <2>2. OnDisk \in [Projects -> Content]
    BY <2>1, FileIs DEF OnDisk
  <2>3. job = NoJob /\ reply = "none" /\ ~ChangeMade
    BY DEF Init, StoreInit, ChangeMade
  <2>4. QED BY <2>2, <2>3 DEF Durable!DurableInit, OnDisk
<1>2. Inv /\ [Next]_vars => [Durable!DurableNext]_(Durable!durableVars)
  <2> SUFFICES ASSUME Inv, [Next]_vars
               PROVE  Durable!DurableNext \/ UNCHANGED Durable!durableVars
    OBVIOUS
  <2>1. CASE \E r \in Requests : Begin(r)
    BY <2>1, BeginDurable DEF Durable!DurableNext
  <2>2. CASE StoreStep /\ UNCHANGED <<active, reply, lagging>>
    BY <2>2, StoreDurable DEF Durable!DurableNext
  <2>3. CASE Answer
    BY <2>3, AnswerDurable DEF Durable!DurableNext
  <2>4. CASE UNCHANGED <<file, job, reply>>
    BY <2>4, DurableStutters DEF Served, ChangeMade, project
  <2>5. CASE \E p \in Projects : ActivateProject(p) \/ ViewProject(p)
    BY <2>4, <2>5 DEF ActivateProject, ViewProject
  <2>6. CASE DeactivateProject \/ Tick \/ UNCHANGED vars
    BY <2>4, <2>6 DEF DeactivateProject, Tick, vars, storeVars
  <2>7. CASE Crash
    BY <2>7, CrashDurable DEF Durable!DurableNext
  <2>8. CASE \E p \in Projects : OutsideChange(p)
    BY <2>8, OutsideDurable DEF Durable!DurableNext
  <2>9. QED
    BY <2>1, <2>2, <2>3, <2>5, <2>6, <2>7, <2>8 DEF Next
<1>3. QED
  BY <1>1, <1>2, InvCorrect, PTL DEF Spec, ImplementsDurable, Durable!DurableSpec
=============================================================================
