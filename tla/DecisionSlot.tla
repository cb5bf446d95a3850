----------------------------- MODULE DecisionSlot -----------------------------
(***************************************************************************)
(* What the decision cache promises its readers: one entry, replaced as a  *)
(* whole, and a read that answers from the entry of some instant between   *)
(* its call and its return, or, while the entry is being replaced under    *)
(* it, from the reader's own safety state alone.                           *)
(***************************************************************************)
CONSTANTS
  Readers,    \* the threads that read
  ReadState,  \* what a reader asks with
  NotAsked,   \* the request of a reader that is not in a read
  Entry,      \* what can be stored
  NoEntry,    \* the entry of an empty cache
  Decision,   \* what a read returns
  Answer(_, _),                    \* ... from an entry and a read state
  EvaluateDecisionCacheSafety(_)   \* ... from a read state alone

VARIABLES
  slot,      \* the entry in force
  request,   \* the read state of each reader's unfinished read
  answer     \* what each reader's last finished read returned

slotVars == <<slot, request, answer>>

SlotInit ==
  /\ slot = NoEntry
  /\ request = [r \in Readers |-> NotAsked]
  /\ answer \in [Readers -> Decision]

Replace(entry) ==
  /\ slot' = entry
  /\ UNCHANGED <<request, answer>>

Ask(r, state) ==
  /\ request[r] = NotAsked
  /\ request' = [request EXCEPT ![r] = state]
  /\ UNCHANGED <<slot, answer>>

Reply(r, d) ==
  /\ request[r] # NotAsked
  /\ answer' = [answer EXCEPT ![r] = d]
  /\ request' = [request EXCEPT ![r] = NotAsked]
  /\ UNCHANGED slot

AnswerFromSlot(r) == Reply(r, Answer(slot, request[r]))

AnswerFromSafety(r) == Reply(r, EvaluateDecisionCacheSafety(request[r]))

SlotNext ==
  \/ \E entry \in Entry : Replace(entry)
  \/ \E r \in Readers :
       \/ \E state \in ReadState : Ask(r, state)
       \/ AnswerFromSlot(r)
       \/ AnswerFromSafety(r)

SlotSpec == SlotInit /\ [][SlotNext]_slotVars
=============================================================================
