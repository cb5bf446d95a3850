----------------------------- MODULE DecisionCache -----------------------------
(***************************************************************************)
(* DecisionCache: one background writer and any number of readers share a  *)
(* sequence number and two atomic words.  One action is one atomic access. *)
(* The accesses are interleaved as x86 and x64 perform them: the writer's  *)
(* two increments are locked instructions and loads stay in program order. *)
(***************************************************************************)
EXTENDS CachedDecision

CONSTANTS
  Readers,
  NotAsked,
  Decisions,            \* the decisions the writer may be handed
  Deadlines,            \* the expiry times it may be handed
  ReadStates,           \* the safety states readers bring along
  MaximumReadAttempts,  \* kMaximumReadAttempts, 3 in the code
  MaxStores             \* bound: stores of one behaviour

ASSUME CacheAssumption ==
  /\ Decisions \subseteq Decision
  /\ Deadlines \subseteq Time
  /\ ReadStates \subseteq ReadState
  /\ NotAsked \notin ReadState
  /\ MaximumReadAttempts \in Nat \ {0}
  /\ MaxStores \in Nat

VARIABLES
  sequence,       \* sequence_
  decision_word,  \* decision_word_
  expires_at_ms,  \* expires_at_ms_
  wpc,            \* where the writer is in Store
  storing,        \* Store's arguments
  rpc,            \* where each reader is in Read and Load
  state,          \* Read's argument, NotAsked outside a read
  attempt,        \* Load's loop counter
  load,           \* Load's locals
  returned        \* what the reader's last Read returned

shared == <<sequence, decision_word, expires_at_ms>>
writer == <<wpc, storing>>
reader == <<rpc, state, attempt, load, returned>>
vars == <<shared, writer, reader>>

WriterStep == {"idle", "word", "expiry", "finish"}
ReaderStep == {"idle", "safety", "before", "word", "expiry", "after"}

\* before, candidate_word and candidate_expiry of one round of the loop.
Load == [before: Nat, word: Word, expires: Time]
NoLoad == [before |-> 0, word |-> NoWord, expires |-> 0]

TypeOK ==
  /\ sequence \in Nat
  /\ decision_word \in Word
  /\ expires_at_ms \in Time
  /\ wpc \in WriterStep
  /\ storing \in Entry
  /\ rpc \in [Readers -> ReaderStep]
  /\ state \in [Readers -> ReadState \cup {NotAsked}]
  /\ attempt \in [Readers -> 0..(MaximumReadAttempts - 1)]
  /\ load \in [Readers -> Load]
  /\ returned \in [Readers -> Decision]

Init ==
  /\ sequence = 0
  /\ decision_word = NoWord
  /\ expires_at_ms = 0
  /\ wpc = "idle"
  /\ storing = NoEntry
  /\ rpc = [r \in Readers |-> "idle"]
  /\ state = [r \in Readers |-> NotAsked]
  /\ attempt = [r \in Readers |-> 0]
  /\ load = [r \in Readers |-> NoLoad]
  /\ returned = [r \in Readers |-> Keep("Chinese", "ContextUnavailable")]

-----------------------------------------------------------------------------
(***************************************************************************)
(* The writer: Publish and Invalidate are a Store of the entry they imply. *)
(***************************************************************************)
\* Mutant of BeginStore: the sequence number moves to the next even value.
BeginStoreUnmarked(entry) ==
  /\ wpc = "idle"
  /\ sequence < 2 * MaxStores
  /\ sequence' = sequence + 2
  /\ storing' = entry
  /\ wpc' = "word"
  /\ UNCHANGED <<decision_word, expires_at_ms, reader>>

BeginStore(entry) ==
  /\ wpc = "idle"
  /\ sequence < 2 * MaxStores
  /\ sequence' = sequence + 1
  /\ storing' = entry
  /\ wpc' = "word"
  /\ UNCHANGED <<decision_word, expires_at_ms, reader>>

Publish(d, e) == BeginStore(EntryOf(d, e))

Invalidate == BeginStore(NoEntry)

StoreWord ==
  /\ wpc = "word"
  /\ decision_word' = storing.word
  /\ wpc' = "expiry"
  /\ UNCHANGED <<sequence, expires_at_ms, storing, reader>>

StoreExpiry ==
  /\ wpc = "expiry"
  /\ expires_at_ms' = storing.expires
  /\ wpc' = "finish"
  /\ UNCHANGED <<sequence, decision_word, storing, reader>>

FinishStore ==
  /\ wpc = "finish"
  /\ sequence' = sequence + 1
  /\ wpc' = "idle"
  /\ UNCHANGED <<decision_word, expires_at_ms, storing, reader>>

-----------------------------------------------------------------------------
(***************************************************************************)
(* The readers.                                                            *)
(***************************************************************************)
CallRead(r, s) ==
  /\ rpc[r] = "idle"
  /\ rpc' = [rpc EXCEPT ![r] = "safety"]
  /\ state' = [state EXCEPT ![r] = s]
  /\ UNCHANGED <<shared, writer, attempt, load, returned>>

Return(r, d) ==
  /\ returned' = [returned EXCEPT ![r] = d]
  /\ rpc' = [rpc EXCEPT ![r] = "idle"]
  /\ state' = [state EXCEPT ![r] = NotAsked]
  /\ attempt' = [attempt EXCEPT ![r] = 0]
  /\ load' = [load EXCEPT ![r] = NoLoad]

Safety(r) == EvaluateDecisionCacheSafety(state[r])

\* The local rules may decide before an atomic is touched.
EvaluateSafety(r) ==
  /\ rpc[r] = "safety"
  /\ \/ /\ Safety(r).source # "ContextUnavailable"
        /\ Return(r, Safety(r))
     \/ /\ Safety(r).source = "ContextUnavailable"
        /\ rpc' = [rpc EXCEPT ![r] = "before"]
        /\ UNCHANGED <<state, attempt, load, returned>>
  /\ UNCHANGED <<shared, writer>>

\* Mutant of NextAttempt: the loop has no bound.
NextAttemptForever(r) ==
  /\ rpc' = [rpc EXCEPT ![r] = "before"]
  /\ load' = [load EXCEPT ![r] = NoLoad]
  /\ UNCHANGED <<state, attempt, returned>>

\* The next round of Load's loop, or its failure after the last one.
NextAttempt(r) ==
  \/ /\ attempt[r] + 1 < MaximumReadAttempts
     /\ attempt' = [attempt EXCEPT ![r] = @ + 1]
     /\ rpc' = [rpc EXCEPT ![r] = "before"]
     /\ load' = [load EXCEPT ![r] = NoLoad]
     /\ UNCHANGED <<state, returned>>
  \/ /\ attempt[r] + 1 >= MaximumReadAttempts
     /\ Return(r, Safety(r))

\* Mutant of LoadBefore: a store in progress is not noticed.
LoadBeforeAny(r) ==
  /\ rpc[r] = "before"
  /\ load' = [load EXCEPT ![r].before = sequence]
  /\ rpc' = [rpc EXCEPT ![r] = "word"]
  /\ UNCHANGED <<shared, writer, state, attempt, returned>>

LoadBefore(r) ==
  /\ rpc[r] = "before"
  /\ \/ /\ sequence % 2 = 0
        /\ load' = [load EXCEPT ![r].before = sequence]
        /\ rpc' = [rpc EXCEPT ![r] = "word"]
        /\ UNCHANGED <<state, attempt, returned>>
     \/ /\ sequence % 2 # 0
        /\ NextAttempt(r)
  /\ UNCHANGED <<shared, writer>>

LoadWord(r) ==
  /\ rpc[r] = "word"
  /\ load' = [load EXCEPT ![r].word = decision_word]
  /\ rpc' = [rpc EXCEPT ![r] = "expiry"]
  /\ UNCHANGED <<shared, writer, state, attempt, returned>>

LoadExpiry(r) ==
  /\ rpc[r] = "expiry"
  /\ load' = [load EXCEPT ![r].expires = expires_at_ms]
  /\ rpc' = [rpc EXCEPT ![r] = "after"]
  /\ UNCHANGED <<shared, writer, state, attempt, returned>>

\* The entry the reader has put together from its two loads.
Loaded(r) == [word |-> load[r].word, expires |-> load[r].expires]

\* Mutant of LoadAfter: the sequence number is not looked at again.
LoadAfterUnchecked(r) ==
  /\ rpc[r] = "after"
  /\ Return(r, Answer(Loaded(r), state[r]))
  /\ UNCHANGED <<shared, writer>>

\* An equal second value is even as well: the first one was.
LoadAfter(r) ==
  /\ rpc[r] = "after"
  /\ \/ /\ load[r].before = sequence
        /\ Return(r, Answer(Loaded(r), state[r]))
     \/ /\ load[r].before # sequence
        /\ NextAttempt(r)
  /\ UNCHANGED <<shared, writer>>

-----------------------------------------------------------------------------
WriterNext ==
  \/ \E d \in Decisions, e \in Deadlines : Publish(d, e)
  \/ Invalidate
  \/ StoreWord
  \/ StoreExpiry
  \/ FinishStore

ReaderStepOf(r) ==
  \/ EvaluateSafety(r)
  \/ LoadBefore(r)
  \/ LoadWord(r)
  \/ LoadExpiry(r)
  \/ LoadAfter(r)

ReaderNext(r) ==
  \/ \E s \in ReadStates : CallRead(r, s)
  \/ ReaderStepOf(r)

Next == WriterNext \/ \E r \in Readers : ReaderNext(r)

Spec == Init /\ [][Next]_vars

\* A thread inside Read keeps running; the writer may stop anywhere, also
\* half way through a Store, and nobody has to start a read.
FairSpec == Spec /\ \A r \in Readers : WF_vars(ReaderStepOf(r))

-----------------------------------------------------------------------------
(***************************************************************************)
(* The inductive invariant.                                                *)
(***************************************************************************)

\* The sequence number is odd exactly while a store is in progress, and the
\* words already stored are the store's own.
WriterInv ==
  /\ sequence % 2 = 0 <=> wpc = "idle"
  /\ wpc = "expiry" => decision_word = storing.word
  /\ wpc \in {"idle", "finish"} /\ sequence > 0 =>
       /\ decision_word = storing.word
       /\ expires_at_ms = storing.expires
  /\ sequence = 0 => decision_word = NoWord /\ expires_at_ms = 0

\* A reader whose sequence number still stands has loaded what is there now.
ReaderInv(r) ==
  /\ rpc[r] = "idle" <=> state[r] = NotAsked
  /\ rpc[r] \in {"word", "expiry", "after"} =>
       /\ load[r].before % 2 = 0
       /\ load[r].before <= sequence
  /\ rpc[r] \in {"before", "word", "expiry", "after"} =>
       Safety(r).source = "ContextUnavailable"
  /\ load[r].before = sequence =>
       /\ rpc[r] \in {"expiry", "after"} => load[r].word = decision_word
       /\ rpc[r] = "after" => load[r].expires = expires_at_ms

CacheInv == WriterInv /\ \A r \in Readers : ReaderInv(r)

-----------------------------------------------------------------------------
(***************************************************************************)
(* What the cache is for.                                                  *)
(***************************************************************************)

\* "sequence_ makes readers reject an in-progress two-word update instead of
\* observing torn state" (decision_cache.h): a reader about to accept its
\* two loads holds an entry that was stored as one, and is in force now.
NoTornRead ==
  \A r \in Readers :
    rpc[r] = "after" /\ load[r].before = sequence =>
      /\ wpc = "idle"
      /\ Loaded(r) = [word |-> decision_word, expires |-> expires_at_ms]

\* The cache implements the one-entry slot.  A store takes effect at its first
\* increment, which makes every reader of the old entry start over; a read
\* takes effect when it looks at the sequence number the second time.
InForce == IF wpc = "idle"
           THEN [word |-> decision_word, expires |-> expires_at_ms]
           ELSE storing

Slot == INSTANCE DecisionSlot
          WITH slot <- InForce, request <- state, answer <- returned

ImplementsSlot == Slot!SlotSpec

\* Read is bounded: it returns whatever the writer does or stops doing, a
\* store abandoned half way included.
ReadReturns == \A r \in Readers : (rpc[r] # "idle") ~> (rpc[r] = "idle")
=============================================================================
