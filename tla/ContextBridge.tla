----------------------------- MODULE ContextBridge -----------------------------
(***************************************************************************)
(* The ContextIME part of the Weasel text service: it takes the focus,     *)
(* receives the refresh worker's ready messages, applies a decision        *)
(* through the Weasel server, and tells its own mode changes from the      *)
(* user's.  Everything but the worker's posting runs on the TSF thread,    *)
(* one handler at a time.  The worker is what ContextRefreshWorker is      *)
(* proved to be: a slot that answers the focus of now, with a deadline.    *)
(***************************************************************************)
EXTENDS CachedDecision

CONSTANTS
  Largest,                    \* the largest instant
  DecisionTtl,                \* decision_ttl_ms
  ManualOverrideDurationMs,   \* kManualOverrideDurationMs
  AutomaticOriginDurationMs,  \* kAutomaticOriginDurationMs
  NoPending,                  \* no automatic switch waits for its confirmation
  NoAnswer                    \* the Context Service does not answer

ASSUME BridgeAssumption ==
  /\ Largest \in Nat
  /\ Time = 0..Largest
  /\ DecisionTtl \in 1..Largest
  /\ ManualOverrideDurationMs \in 1..Largest
  /\ AutomaticOriginDurationMs \in 1..Largest

VARIABLES
  now,
  window,      \* activated: _contextBridgeWindow is there, the worker runs
  foreground,  \* _contextForeground
  mode,        \* _status.ascii_mode
  busy,        \* _status.composing, _pComposition or a visible candidate list
  origin,      \* the bookkeeping of who changed the mode, see Origin
  slot,        \* what the worker's Read finds
  posted,      \* a ready message is in the queue
  server,      \* the mode of the session in the Weasel server
  rule,        \* what the Context Service would answer, if it does
  author,      \* history: who changed the session's mode last
  user_until,  \* history: the user's last change is protected until then
  bar_until,   \* history: ... and the last one by the language bar until then
  lost         \* history: a switch was not delivered or not confirmed

userVars == <<author, user_until, bar_until>>
worldVars == <<server, rule, userVars, lost>>
workerVars == <<slot, posted>>
vars == <<now, window, foreground, mode, busy, origin, workerVars, worldVars>>

Pending == [mode: InputMode, until: Time]

\* _contextObserved*, _contextPending* and _contextManualOverrideUntilMs.
Origin == [observed: OptionalMode, pending: Pending \cup {NoPending},
           override: Time]

TypeOK ==
  /\ now \in Time
  /\ window \in BOOLEAN
  /\ foreground \in BOOLEAN
  /\ mode \in InputMode
  /\ busy \in BOOLEAN
  /\ origin \in Origin
  /\ slot \in Entry
  /\ posted \in BOOLEAN
  /\ server \in InputMode
  /\ rule \in OptionalMode \cup {NoAnswer}
  /\ author \in {"user", "automatic", "nobody"}
  /\ user_until \in Time
  /\ bar_until \in Time
  /\ lost \in BOOLEAN

Init ==
  /\ now = 0
  /\ window = FALSE
  /\ foreground = FALSE
  /\ mode = "Chinese"
  /\ busy = FALSE
  /\ origin = [observed |-> None, pending |-> NoPending, override |-> 0]
  /\ slot = NoEntry
  /\ posted = FALSE
  /\ server = "Chinese"
  /\ rule = None
  /\ author = "nobody"
  /\ user_until = 0
  /\ bar_until = 0
  /\ lost = FALSE

SaturatingDeadline(t, duration) ==
  IF t > Largest - duration THEN Largest ELSE t + duration

-----------------------------------------------------------------------------
(***************************************************************************)
(* Whose change is it.                                                     *)
(***************************************************************************)
\* Mutant of MarkManualOverride: the deadline is not extended.
MarkNothing(o) == [o EXCEPT !.pending = NoPending]

MarkManualOverride(o) ==
  [o EXCEPT !.override = SaturatingDeadline(now, ManualOverrideDurationMs),
            !.pending = NoPending]

PendingSays(o, m) ==
  o.pending # NoPending /\ o.pending.mode = m

\* Mutant of Observe: every change is the user's.
ObserveUser(o, m, automatic_apply) ==
  LET seen == [o EXCEPT !.observed = m]
  IN IF o.observed = None THEN seen
     ELSE IF o.observed = m THEN o ELSE MarkManualOverride(seen)

\* _ObserveContextMode, with _contextAutomaticApply.
Observe(o, m, automatic_apply) ==
  IF o.observed = None
  THEN [o EXCEPT !.observed = m,
                 !.pending = IF PendingSays(o, m) THEN NoPending ELSE @]
  ELSE IF o.observed = m
  THEN o
  ELSE LET automatic == \/ automatic_apply
                        \/ PendingSays(o, m) /\ now <= o.pending.until
           seen == [o EXCEPT !.observed = m]
       IN IF automatic THEN [seen EXCEPT !.pending = NoPending]
                       ELSE MarkManualOverride(seen)

\* A response of the Weasel server: the status, and _UpdateLanguageBar.
Response(o, m, automatic_apply) ==
  /\ mode' = m
  /\ origin' = Observe(o, m, automatic_apply)

\* Did the server get the command, did the client get the status back.
Exchanges == [delivered: BOOLEAN, answered: BOOLEAN]

-----------------------------------------------------------------------------
(***************************************************************************)
(* The life of the bridge and its focus.                                   *)
(***************************************************************************)

\* A new generation: nothing published for it yet.
NewGeneration == slot' = NoEntry

\* The end of ActivateEx of a new text service: _EnsureServerConnected, then
\* _InitContextBridge, with a new generation if the focus is there already.
InitContextBridge ==
  /\ ~window
  /\ origin.observed = None
  /\ window' = TRUE
  /\ NewGeneration
  /\ Response(origin, server, FALSE)
  /\ UNCHANGED <<now, foreground, busy, posted, worldVars>>

\* Stop joins the worker; what it posted goes with the window.
UninitContextBridge ==
  /\ window
  /\ window' = FALSE
  /\ foreground' = FALSE
  /\ NewGeneration
  /\ posted' = FALSE
  /\ origin' = [origin EXCEPT !.pending = NoPending]
  /\ UNCHANGED <<now, mode, busy, worldVars>>

\* OnSetFocus reports changes of the focus.
SetFocus ==
  /\ ~foreground
  /\ foreground' = TRUE
  /\ NewGeneration
  /\ UNCHANGED <<now, window, mode, busy, origin, posted, worldVars>>

\* A queued ready message survives the loss of the focus.
KillFocus ==
  /\ foreground
  /\ foreground' = FALSE
  /\ NewGeneration
  /\ busy' = FALSE
  /\ UNCHANGED <<now, window, mode, origin, posted, worldVars>>

-----------------------------------------------------------------------------
(***************************************************************************)
(* The worker publishes for the focus, or fails to get an answer for it.   *)
(***************************************************************************)
Served == IF rule = None THEN Keep(mode, "FallbackKeep")
                         ELSE Select(mode, rule, "SyntaxContext")

\* Mutant of WorkerPublishes: the window is not told.
WorkerPublishesSilently ==
  /\ window /\ foreground
  /\ rule # NoAnswer
  /\ slot' = EntryOf(Served, SaturatingDeadline(now, DecisionTtl))
  /\ UNCHANGED <<now, window, foreground, mode, busy, origin, posted,
                 worldVars>>

WorkerPublishes ==
  /\ window /\ foreground
  /\ rule # NoAnswer
  /\ slot' = EntryOf(Served, SaturatingDeadline(now, DecisionTtl))
  /\ posted' = TRUE
  /\ UNCHANGED <<now, window, foreground, mode, busy, origin, worldVars>>

WorkerFails ==
  /\ window /\ foreground
  /\ rule = NoAnswer
  /\ slot' = NoEntry
  /\ UNCHANGED <<now, window, foreground, mode, busy, origin, posted,
                 worldVars>>

-----------------------------------------------------------------------------
(***************************************************************************)
(* A ready message.                                                        *)
(***************************************************************************)
LiveState ==
  [ReadStateOf(DefaultSnapshot) EXCEPT
     !.current_mode = mode,
     !.composition_active = busy,
     !.now_ms = now,
     !.manual_override_until_ms = origin.override]

\* What the sink is asked for.
Target == ApplyDecision(Answer(slot, LiveState), mode)

ApplyContextMode(target) ==
  LET pending ==
        [mode |-> target,
         until |-> SaturatingDeadline(now, AutomaticOriginDurationMs)]
      marked == [origin EXCEPT !.pending = pending]
  IN \E x \in Exchanges :
       /\ server' = IF x.delivered THEN target ELSE server
       /\ lost' = (lost \/ ~x.delivered \/ ~x.answered)
       /\ author' = IF server' # server THEN "automatic" ELSE author
       /\ \/ /\ x.answered
             /\ mode' = server'
             /\ LET seen == Observe(marked, server', TRUE)
                IN origin' = IF server' = target
                             THEN [seen EXCEPT !.pending = NoPending]
                             ELSE seen
          \/ /\ ~x.answered
             /\ origin' = marked
             /\ UNCHANGED mode

CanApply == foreground /\ ~busy

AutomaticSwitch ==
  /\ posted
  /\ posted' = FALSE
  /\ foreground /\ window
  /\ Target # None /\ CanApply
  /\ ApplyContextMode(Target)
  /\ UNCHANGED <<now, window, foreground, busy, slot, rule, user_until,
                 bar_until>>

\* The message finds no focus, or no reason or no leave to switch.
ReadyIgnored ==
  /\ posted
  /\ posted' = FALSE
  /\ ~(foreground /\ window /\ Target # None /\ CanApply)
  /\ UNCHANGED <<now, window, foreground, mode, busy, origin, slot, worldVars>>

-----------------------------------------------------------------------------
(***************************************************************************)
(* The user, the Weasel server and the context.                            *)
(***************************************************************************)
UserChanges(m) ==
  /\ server' = m
  /\ author' = "user"

Protected == user_until' = SaturatingDeadline(now, ManualOverrideDurationMs)

\* A key the server toggles the mode on.  The user has changed the mode if it
\* is not the one that was shown before.
UserKey ==
  /\ window /\ foreground
  /\ \E m \in InputMode \ {server} :
       /\ UserChanges(m)
       /\ Response(origin, m, FALSE)
  /\ IF mode' # mode THEN Protected ELSE UNCHANGED user_until
  /\ UNCHANGED bar_until
  /\ UNCHANGED <<now, window, foreground, busy, workerVars, rule, lost>>

\* The language bar menu: marked at once, seen with some later response.
UserLangBar ==
  /\ window /\ foreground
  /\ origin' = MarkManualOverride(origin)
  /\ \E m \in InputMode : UserChanges(m)
  /\ Protected
  /\ bar_until' = user_until'
  /\ UNCHANGED <<now, window, foreground, mode, busy, workerVars, rule, lost>>

\* Any other response, to a key that is text, say.
Refresh ==
  /\ window /\ foreground
  /\ Response(origin, server, FALSE)
  /\ UNCHANGED <<now, window, foreground, busy, workerVars, worldVars>>

Compose ==
  /\ window /\ foreground
  /\ busy' = ~busy
  /\ UNCHANGED <<now, window, foreground, mode, origin, workerVars, worldVars>>

ContextChanges ==
  /\ \E m \in (OptionalMode \cup {NoAnswer}) \ {rule} : rule' = m
  /\ UNCHANGED <<now, window, foreground, mode, busy, origin, workerVars,
                 server, userVars, lost>>

Tick ==
  /\ now < Largest
  /\ now' = now + 1
  /\ UNCHANGED <<window, foreground, mode, busy, origin, workerVars, worldVars>>

Next ==
  \/ InitContextBridge
  \/ UninitContextBridge
  \/ SetFocus
  \/ KillFocus
  \/ WorkerPublishes
  \/ WorkerFails
  \/ AutomaticSwitch
  \/ ReadyIgnored
  \/ UserKey
  \/ UserLangBar
  \/ Refresh
  \/ Compose
  \/ ContextChanges
  \/ Tick

Spec == Init /\ [][Next]_vars

\* The worker refreshes, and the thread dispatches its messages.
FairSpec ==
  /\ Spec
  /\ WF_vars(WorkerPublishes)
  /\ WF_vars(AutomaticSwitch \/ ReadyIgnored)

-----------------------------------------------------------------------------
(***************************************************************************)
(* The bookkeeping of origins is never behind the mode that is shown, and  *)
(* the override covers the user's changes, as long as no switch was lost.  *)
(***************************************************************************)
OverrideInv ==
  /\ origin.override <= SaturatingDeadline(now, ManualOverrideDurationMs)
  /\ bar_until <= origin.override
  /\ user_until <= origin.override \/ lost

ObservedInv ==
  /\ window => origin.observed # None
  /\ origin.observed \in {None, mode}

PendingInv == origin.pending = NoPending \/ lost

\* What the bridge does not see yet is the user's doing.
AuthorInv == server = mode \/ author = "user" \/ lost

OriginInv == OverrideInv /\ ObservedInv /\ PendingInv /\ AuthorInv

\* Automation keeps its hands off for ManualOverrideDurationMs after the user
\* changed the mode by key or language bar (docs/product-plan.md:300).  A switch
\* that was not confirmed is excepted: it stays pending, and a key of the user
\* that leads to the same mode in that time is taken for it.
ManualWins == [][AutomaticSwitch => now >= user_until \/ lost]_vars

\* ... and after a click on the language bar even if the server fails to
\* confirm what the bridge applies.
LangBarWins == [][AutomaticSwitch => now >= bar_until]_vars

\* docs/ime-context-bridge.md:78: only mode changes by keys, the language bar
\* and compartments extend the manual override, the bridge's own never do.  An
\* unconfirmed one that is seen after its pending origin has expired does.
OriginExact ==
  [][origin'.override # origin.override => author' = "user" \/ lost]_vars

\* The mode ends up where the context's rule wants it once there is a focus, no
\* composition and no manual override, also after a ready message came too
\* late, too early or was dropped for a composition, unless the server fails.
Undisturbed(m) ==
  /\ window /\ foreground /\ ~busy
  /\ rule = m
  /\ origin.override <= now /\ now < Largest

ModeFollowsRule ==
  \A m \in InputMode : []([]Undisturbed(m) => <>(mode = m \/ lost))
=============================================================================
