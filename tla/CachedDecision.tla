---------------------------- MODULE CachedDecision ----------------------------
(***************************************************************************)
(* What may be put into the decision cache and what a read makes of it:    *)
(* the pure half of src/context-service/src/decision_cache.cpp, with the   *)
(* request the refresh worker derives from a live snapshot and the last    *)
(* check before a mode is applied.  The two atomic words themselves are in *)
(* DecisionCache.                                                          *)
(***************************************************************************)
EXTENDS ContextEngine

\* DecisionCacheReadState: the fresh safety state the reader brings along.
ReadState ==
  [current_mode: InputMode,
   composition_active: BOOLEAN, candidate_visible: BOOLEAN,
   explicit_user_lock: OptionalMode,
   now_ms: Time, manual_override_until_ms: Time,
   automation_enabled: BOOLEAN]

IsStableAutomaticDecision(d) ==
  \/ d.source \in RuleSource /\ d.desired_mode # "Keep"
  \/ d.source = "FallbackKeep" /\ d.desired_mode = "Keep" /\ ~d.should_switch

IsDecisionShapeValid(d) ==
  IF d.desired_mode = "Keep" THEN ~d.should_switch
                             ELSE d.target_mode = d.desired_mode

Cacheable(d) == IsDecisionShapeValid(d) /\ IsStableAutomaticDecision(d)

\* The packed word: the valid bit, the desired mode and the source.  The
\* target and the switch flag of the published decision are not kept.
NoWord == [valid |-> FALSE, desired |-> "Keep", source |-> "CompositionProtection"]
Word == [valid: BOOLEAN, desired: DesiredMode, source: DecisionSource]

Pack(d) == [valid |-> TRUE, desired |-> d.desired_mode, source |-> d.source]

\* Mutant of Rebase: the published switch flag is taken as it was.
RebaseAlways(word, mode) ==
  IF word.desired = "Keep" THEN Keep(mode, word.source)
  ELSE [Select(mode, word.desired, word.source) EXCEPT !.should_switch = TRUE]

\* The switch is worked out again against the mode the reader is in.
Rebase(word, mode) ==
  IF word.desired = "Keep" THEN Keep(mode, word.source)
                           ELSE Select(mode, word.desired, word.source)

SafetySnapshot(state) ==
  [DefaultSnapshot EXCEPT
     !.current_mode = state.current_mode,
     !.composition_active = state.composition_active,
     !.candidate_visible = state.candidate_visible,
     !.explicit_user_lock = state.explicit_user_lock,
     !.now_ms = state.now_ms,
     !.manual_override_until_ms = state.manual_override_until_ms,
     !.automation_enabled = state.automation_enabled,
     !.context_available = FALSE]

EvaluateDecisionCacheSafety(state) == Evaluate(SafetySnapshot(state))

\* What a store of decision d until e puts into the cache: a decision that
\* may not be cached clears it.
Entry == [word: Word, expires: Time]
NoEntry == [word |-> NoWord, expires |-> 0]
EntryOf(d, e) == IF Cacheable(d) THEN [word |-> Pack(d), expires |-> e]
                                 ELSE NoEntry

\* DecisionCache::Read once it has an entry in its hands: no cached rule is
\* looked at unless the local safety rules left the decision open.
Answer(entry, state) ==
  LET safety == EvaluateDecisionCacheSafety(state)
      usable == /\ safety.source = "ContextUnavailable"
                /\ entry.word.valid
                /\ state.now_ms < entry.expires
  IN IF usable THEN Rebase(entry.word, state.current_mode) ELSE safety

\* The request the refresh worker sends for a live snapshot.
PrepareContextRefreshSnapshot(live, now) ==
  [live EXCEPT !.composition_active = FALSE, !.candidate_visible = FALSE,
               !.explicit_user_lock = None, !.now_ms = now,
               !.manual_override_until_ms = 0, !.automation_enabled = TRUE,
               !.context_available = TRUE]

\* Mutant of ApplyDecision: the user's own lock is not a rule.
ApplyRuleDecision(d, mode) ==
  IF d.should_switch /\ d.source \in RuleSource THEN d.target_mode ELSE None

\* ImeStateApplier::ApplyDecision: the mode the sink is asked for, None when
\* the decision is kept.
ApplyDecision(d, mode) ==
  IF /\ d.should_switch
     /\ d.desired_mode # "Keep"
     /\ d.target_mode # mode
     /\ d.desired_mode = d.target_mode
  THEN d.target_mode
  ELSE None

-----------------------------------------------------------------------------
\* The read state of a live snapshot.
ReadStateOf(s) ==
  [current_mode |-> s.current_mode,
   composition_active |-> s.composition_active,
   candidate_visible |-> s.candidate_visible,
   explicit_user_lock |-> s.explicit_user_lock,
   now_ms |-> s.now_ms,
   manual_override_until_ms |-> s.manual_override_until_ms,
   automation_enabled |-> s.automation_enabled]
=============================================================================
