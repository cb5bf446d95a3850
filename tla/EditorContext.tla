----------------------------- MODULE EditorContext -----------------------------
(***************************************************************************)
(* The editor contexts of all VS Code windows and the one place the        *)
(* Context Service keeps one of them: EditorContextStore.  A window        *)
(* captures a report at any time, an event or its heartbeat; the report is *)
(* stored at most MaxTransit later, and every window has at most one under *)
(* way, which is what ContextReporter shows of a reporter.  Instants are   *)
(* kept as the time that is left.                                          *)
(***************************************************************************)
EXTENDS ContextEngine

CONSTANTS
  Windows,      \* the VS Code windows
  Elsewhere,    \* another application is in the foreground
  Syntaxes,     \* the kinds of text the cursors may be in
  Ttl,          \* kDefaultEditorContextTtlMs
  MaxTransit,   \* bound on the time from a capture to the store
  NoReport      \* no report is under way, no update is stored

EditorSurface == {"Unknown", "Editor", "IntegratedTerminal"}
EditorSyntax ==
  {"Unknown", "Code", "Comment", "String", "MarkdownText", "MarkdownCode"}

ASSUME EditorAssumption ==
  /\ Elsewhere \notin Windows
  /\ Syntaxes \subseteq EditorSyntax
  /\ Ttl \in Nat
  /\ MaxTransit \in Nat

VARIABLES
  foreground,   \* the window with the focus
  surface,      \* VSCodeContextProvider.surface of each window
  flight,       \* each window's report under way
  store,        \* EditorContextStore, with the window its update came from
  away,         \* history: how long each window has not had the focus
  silenced      \* history: the windows that have said they lost it

windowVars == <<foreground, surface, away>>
vars == <<windowVars, flight, store, silenced>>

EditorContextUpdate ==
  [window_focused: BOOLEAN, surface: EditorSurface, syntax: EditorSyntax]

\* The longest a window's rule may be heard of after it lost the focus.
Bound == MaxTransit + Ttl

TypeOK ==
  /\ foreground \in Windows \cup {Elsewhere}
  /\ surface \in [Windows -> EditorSurface]
  /\ flight \in [Windows ->
       [update: EditorContextUpdate, age: 0..MaxTransit] \cup {NoReport}]
  /\ store \in [update: EditorContextUpdate, left: 0..Ttl, from: Windows]
               \cup {NoReport}
  /\ away \in [Windows -> 0..Bound]
  /\ silenced \subseteq Windows

Init ==
  /\ foreground = Elsewhere
  /\ surface = [w \in Windows |-> "Unknown"]
  /\ flight = [w \in Windows |-> NoReport]
  /\ store = NoReport
  /\ away = [w \in Windows |-> Bound]
  /\ silenced = {}

-----------------------------------------------------------------------------
(***************************************************************************)
(* EditorContextStore.                                                     *)
(***************************************************************************)
\* Invalidate
Invalidated == NoReport

\* Mutant of Publish: an update of an unfocused window is not stored.
PublishFocused(update, w) ==
  IF update.window_focused THEN [update |-> update, left |-> Ttl, from |-> w]
                           ELSE store

\* Publish
Publish(update, w) ==
  IF Ttl = 0 THEN Invalidated
             ELSE [update |-> update, left |-> Ttl, from |-> w]

ModeForSyntax(syntax) ==
  CASE syntax \in {"Code", "MarkdownCode"} -> "English"
    [] syntax \in {"Comment", "MarkdownText"} -> "Chinese"
    [] OTHER -> None

IsVSCode(application) == application \in Windows

\* Mutant of Apply: the deadline is not looked at.
ApplyExpired(application, snapshot) ==
  IF /\ store # NoReport
     /\ store.update.window_focused
     /\ IsVSCode(application)
     /\ store.update.surface = "Editor"
     /\ snapshot.syntax_context = None
  THEN [snapshot EXCEPT !.syntax_context = ModeForSyntax(store.update.syntax)]
  ELSE snapshot

\* Apply: the snapshot with the rule of the stored update.
Apply(application, snapshot) ==
  IF /\ store # NoReport
     /\ store.update.window_focused
     /\ store.left > 0
     /\ IsVSCode(application)
     /\ store.update.surface = "Editor"
     /\ snapshot.syntax_context = None
  THEN [snapshot EXCEPT !.syntax_context = ModeForSyntax(store.update.syntax)]
  ELSE snapshot

\* ServeOne, an evaluate request: what the service decides for a client that
\* brings no rule of its own.
Served == Evaluate(Apply(foreground, DefaultSnapshot))

-----------------------------------------------------------------------------
(***************************************************************************)
(* The windows.                                                            *)
(***************************************************************************)
unavailableUpdate(focused) ==
  [window_focused |-> focused, surface |-> "Unknown", syntax |-> "Unknown"]

\* capture() returns: the window with the cursor in that kind of text.
Captured(w, syntax) ==
  IF foreground # w
  THEN unavailableUpdate(FALSE)
  ELSE CASE surface[w] = "Editor" ->
              [window_focused |-> TRUE, surface |-> "Editor", syntax |-> syntax]
         [] surface[w] = "IntegratedTerminal" ->
              [window_focused |-> TRUE, surface |-> "IntegratedTerminal",
               syntax |-> "Unknown"]
         [] OTHER -> unavailableUpdate(TRUE)

\* An event or the heartbeat: every window has one, focused or not.
Report(w) ==
  /\ flight[w] = NoReport
  /\ \E syntax \in Syntaxes :
       flight' = [flight EXCEPT
                    ![w] = [update |-> Captured(w, syntax), age |-> 0]]
  /\ UNCHANGED <<windowVars, store, silenced>>

\* The service reads the request and stores the update.
Deliver(w) ==
  /\ flight[w] # NoReport
  /\ store' = Publish(flight[w].update, w)
  /\ flight' = [flight EXCEPT ![w] = NoReport]
  /\ silenced' = IF flight[w].update.window_focused \/ foreground = w
                  THEN silenced
                  ELSE silenced \cup {w}
  /\ UNCHANGED windowVars

\* The exchange fails.
Lose(w) ==
  /\ flight[w] # NoReport
  /\ flight' = [flight EXCEPT ![w] = NoReport]
  /\ UNCHANGED <<windowVars, store, silenced>>

\* The user goes to another window: both windows' surface is unknown until
\* the editor or the terminal is used again.
Focus(w) ==
  /\ w # foreground
  /\ foreground' = w
  /\ surface' = [v \in Windows |->
                   IF v \in {foreground, w} THEN "Unknown" ELSE surface[v]]
  /\ away' = [v \in Windows |-> IF v \in {foreground, w} THEN 0 ELSE away[v]]
  /\ silenced' = silenced \ {w}
  /\ UNCHANGED <<flight, store>>

\* The user works in the editor or in the terminal.
Interact(w, where) ==
  /\ foreground = w
  /\ surface' = [surface EXCEPT ![w] = where]
  /\ UNCHANGED <<foreground, away, flight, store, silenced>>

Tick ==
  /\ \A w \in Windows : flight[w] # NoReport => flight[w].age < MaxTransit
  /\ flight' = [w \in Windows |-> IF flight[w] = NoReport THEN NoReport
                                  ELSE [flight[w] EXCEPT !.age = @ + 1]]
  /\ store' = IF store = NoReport \/ store.left = 0 THEN store
              ELSE [store EXCEPT !.left = @ - 1]
  /\ away' = [w \in Windows |-> IF w = foreground \/ away[w] = Bound
                                THEN away[w] ELSE away[w] + 1]
  /\ UNCHANGED <<foreground, surface, silenced>>

Next ==
  \/ \E w \in Windows :
       \/ Report(w) \/ Deliver(w) \/ Lose(w)
       \/ \E where \in EditorSurface : Interact(w, where)
  \/ \E w \in Windows \cup {Elsewhere} : Focus(w)
  \/ Tick

Spec == Init /\ [][Next]_vars

-----------------------------------------------------------------------------
RuleFrom(w) == store # NoReport /\ store.from = w /\ Served.source = "SyntaxContext"

\* A window the user has left is heard of for a bounded time only: what it
\* sent before it left, as long as the store keeps it.
ForeignRuleEnds ==
  \A w \in Windows : RuleFrom(w) /\ w # foreground => away[w] < Bound

\* Once the service has heard that a window lost the focus, it decides
\* nothing by what that window said before.
LeavingSilences == \A w \in silenced : ~RuleFrom(w)

\* What bounds a rule the user has left: a focused update under way was captured
\* before its window lost the focus, a stored one has only its time left.
FlightInv ==
  \A w \in Windows :
    flight[w] # NoReport /\ flight[w].update.window_focused /\ w # foreground
    => away[w] <= flight[w].age

StoreInv ==
  store # NoReport /\ store.update.window_focused /\ store.from # foreground
  => away[store.from] + store.left <= Bound

\* A window that has said it lost the focus has nothing older under way.
SilencedInv ==
  \A w \in silenced :
    /\ w # foreground
    /\ flight[w] # NoReport => ~flight[w].update.window_focused
    /\ store # NoReport /\ store.from = w => ~store.update.window_focused

ReportsInv == FlightInv /\ StoreInv /\ SilencedInv

\* The rule of the window the user is in ends with its time or by a newer
\* report of that window, never by a report of a window in the background.
FocusedKeepsRule ==
  [][(foreground' = foreground /\ RuleFrom(foreground)
        /\ Served'.source # "SyntaxContext")
     => store' # NoReport /\ store'.from = foreground]_vars
=============================================================================
