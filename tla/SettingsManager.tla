---------------------------- MODULE SettingsManager ----------------------------
(***************************************************************************)
(* The project dictionary manager: a window whose one thread is blocked    *)
(* while a request is at the indexer's pipe, and the indexer's side of the *)
(* management protocol.  Meanwhile the editor creates dictionaries and     *)
(* adds symbols.  Project identifiers and entries are numbers in the order *)
(* in which the service sorts them; identifier 0 is the all-zero one.      *)
(***************************************************************************)
EXTENDS Integers, Sequences, FiniteSets

CONSTANTS
  Projects,            \* 1..n
  Entries,             \* 1..m, symbol, type and source
  Terms,               \* the entries that are manual terms
  Refused,             \* terms a user can type that are no valid entries
  EntryPage,           \* kEntryPageSize
  ProjectPage,         \* kProjectPageSize
  MaximumDisplayed,    \* kMaximumDisplayedProjects
  MaxFaults,           \* bound: calls that fail
  MaxOthers            \* bound: changes by the editor

NoProject == 0
NoEntry == 0
NoNextCursor == -1     \* kNoNextCursor
NoCall == [operation |-> "none"]

ASSUME ManagerAssumption ==
  /\ Projects \subseteq Nat \ {0} /\ IsFiniteSet(Projects)
  /\ Entries \subseteq Nat \ {0} /\ IsFiniteSet(Entries)
  /\ Terms \subseteq Entries
  /\ Refused \subseteq Nat \ {0} /\ Refused \cap Entries = {}
  /\ EntryPage \in 1..128 /\ ProjectPage \in 1..512
  /\ MaximumDisplayed \in Nat \ {0}
  /\ {MaxFaults, MaxOthers} \subseteq Nat

VARIABLES
  store,     \* the dictionaries: [exists, enabled, entries]
  ui,        \* AppState, and its list box and buttons
  call,      \* the request the manager waits for
  faults, others,
  origin,    \* history: the project whose page is shown
  unread,    \* history: the load of the selected project failed
  fresh,     \* history: nothing failed or changed by others since the load
  quiet      \* history: no project came or went since the listing

bounds == <<faults, others>>
history == <<origin, unread, fresh, quiet>>
vars == <<store, ui, call, bounds, history>>

Ids == Projects \cup {NoProject}
Cursors == 0..Cardinality(Projects) + Cardinality(Entries)

Ui ==
  [ids: Seq(Projects),        \* project_ids
   rows: Seq(Projects),       \* the list box
   selected: Ids,             \* selected_project
   previous: Ids,             \* previous, in RefreshProjects
   entries: Seq(Entries),     \* page_entries
   entry: Nat,                \* selected_entry, from 1; 0 for none
   cursor: Cursors,           \* current_cursor
   next: Cursors \cup {NoNextCursor},  \* next_cursor
   enabled: BOOLEAN,          \* selected_enabled
   listed: BOOLEAN,           \* RefreshProjects came to its end
   buttons: [project: BOOLEAN, entry: BOOLEAN, previous: BOOLEAN,
             next: BOOLEAN]]  \* enabled, since the last SetButtons

Operations == {"ListProjects", "ViewProject", "SetEnabled", "RemoveProject",
               "UpsertTerm", "RemoveEntry"}

Request == [operation: Operations, project: Ids, enabled: BOOLEAN,
            size: Nat, cursor: Cursors,
            entry: Entries \cup Refused \cup {NoEntry}]

TypeOK ==
  /\ store \in [Projects -> [exists: BOOLEAN, enabled: BOOLEAN,
                             entries: SUBSET Entries]]
  /\ ui \in Ui
  /\ call \in Request \cup {NoCall}
  /\ faults \in 0..MaxFaults
  /\ others \in 0..MaxOthers
  /\ origin \in Ids
  /\ {unread, fresh, quiet} \subseteq BOOLEAN

-----------------------------------------------------------------------------
(***************************************************************************)
(* The service: HandleManagementRequest.                                   *)
(***************************************************************************)
\* Each element of a set of numbers once, in their order.
Sorted(S) ==
  CHOOSE s \in [1..Cardinality(S) -> S] :
    \A i, j \in DOMAIN s : i < j => s[i] < s[j]

Existing == {p \in Projects : store[p].exists}

Answer(r) ==
  [status |-> "Ok", operation |-> r.operation, total |-> 0,
   next |-> NoNextCursor, exists |-> FALSE, enabled |-> FALSE, items |-> <<>>]

\* Mutant of Refusal: the dictionary's state is filled in before it is known.
RefusalFilled(r, status) ==
  [Answer(r) EXCEPT !.status = status, !.exists = r.project # NoProject]

Refusal(r, status) == [Answer(r) EXCEPT !.status = status]

\* At most size elements of s after the first begin ones.
Slice(s, begin, size) ==
  [i \in 1..(IF begin + size < Len(s) THEN size ELSE Len(s) - begin) |->
     s[begin + i]]

\* Mutant of PageEnd: a page begins one after the end of the page before.
PageEndSkips(cursor, size, total) ==
  IF cursor + size + 1 < total THEN cursor + size + 1 ELSE NoNextCursor

\* next_cursor of the page of that size at cursor.
PageEnd(cursor, size, total) ==
  IF cursor + size < total THEN cursor + size ELSE NoNextCursor

\* SetPage, and what it cuts out.
Page(r, all, answer) ==
  IF r.cursor > Len(all) THEN Refusal(r, "MalformedRequest")
  ELSE [answer EXCEPT
          !.total = Len(all),
          !.next = PageEnd(r.cursor, r.size, Len(all)),
          !.items = Slice(all, r.cursor, r.size)]

\* The dictionary of r's project after r.
Changed(r) ==
  LET d == store[r.project]
  IN CASE r.operation = "SetEnabled" -> [d EXCEPT !.enabled = r.enabled]
       [] r.operation = "UpsertTerm" -> [d EXCEPT !.entries = @ \cup {r.entry}]
       [] r.operation = "RemoveEntry" -> [d EXCEPT !.entries = @ \ {r.entry}]

Metadata(r, d) ==
  [Answer(r) EXCEPT !.exists = TRUE, !.enabled = d.enabled,
                    !.total = Cardinality(d.entries)]

Response(r) ==
  CASE r.operation = "ListProjects" -> Page(r, Sorted(Existing), Answer(r))
    [] r.operation = "RemoveProject" -> Answer(r)
    [] r.operation \notin {"ListProjects", "RemoveProject"} ->
         IF ~store[r.project].exists THEN Refusal(r, "NotFound")
         ELSE IF r.operation = "ViewProject"
         THEN Page(r, Sorted(store[r.project].entries),
                   Metadata(r, store[r.project]))
         ELSE Metadata(r, Changed(r))

Effect(r) ==
  CASE r.operation \in {"ListProjects", "ViewProject"} -> UNCHANGED store
    [] r.operation = "RemoveProject" ->
         store' = [store EXCEPT ![r.project] =
                     [exists |-> FALSE, enabled |-> TRUE, entries |-> {}]]
    [] r.operation \in {"SetEnabled", "UpsertTerm", "RemoveEntry"} ->
         IF store[r.project].exists
         THEN store' = [store EXCEPT ![r.project] = Changed(r)]
         ELSE UNCHANGED store

-----------------------------------------------------------------------------
(***************************************************************************)
(* The protocol: what EncodeRequest and EncodeResponse let pass.           *)
(***************************************************************************)
ValidRequest(r) ==
  /\ r.operation \in Operations
  /\ r.operation = "ListProjects" =>
       r.project = NoProject /\ ~r.enabled /\ r.size \in 1..512
  /\ r.operation = "ViewProject" => ~r.enabled /\ r.size \in 1..128
  /\ r.operation \notin {"ListProjects", "ViewProject"} =>
       r.size = 0 /\ r.cursor = 0
  /\ r.operation = "RemoveProject" => ~r.enabled
  /\ r.operation \in {"UpsertTerm", "RemoveEntry"} =>
       r.project # NoProject /\ ~r.enabled /\ r.entry \in Entries
  /\ r.operation = "UpsertTerm" => r.entry \in Terms

ValidResponse(a) ==
  /\ a.status # "Ok" =>
       /\ a.items = <<>> /\ a.total = 0 /\ a.next = NoNextCursor
       /\ ~a.exists /\ ~a.enabled
  /\ a.status = "Ok" /\ a.operation = "ListProjects" =>
       ~a.exists /\ ~a.enabled /\ Len(a.items) <= 512 /\ Len(a.items) <= a.total
  /\ a.status = "Ok" /\ a.operation = "ViewProject" =>
       /\ Len(a.items) <= 128 /\ Len(a.items) <= a.total
       /\ a.exists \/ (a.items = <<>> /\ a.total = 0 /\ ~a.enabled)
  /\ a.status = "Ok" /\ a.operation \notin {"ListProjects", "ViewProject"} =>
       a.items = <<>> /\ a.next = NoNextCursor

-----------------------------------------------------------------------------
(***************************************************************************)
(* The window.  Each operator gives the state of the window after it.      *)
(***************************************************************************)
SetButtons(u) ==
  LET on == u.selected # NoProject
  IN [u EXCEPT !.buttons =
        [project |-> on, entry |-> on /\ u.entry > 0,
         previous |-> on /\ u.cursor > 0,
         next |-> on /\ u.next # NoNextCursor]]

\* Mutant of ClearEntries: the page and its entry stay.
ClearButtons(u) == SetButtons([u EXCEPT !.enabled = FALSE])

ClearEntries(u) ==
  SetButtons([u EXCEPT !.entries = <<>>, !.entry = 0, !.cursor = 0,
                       !.next = NoNextCursor, !.enabled = FALSE])

PopulateEntries(u, cursor, a) ==
  SetButtons([u EXCEPT !.entries = a.items, !.entry = 0, !.cursor = cursor,
                       !.next = a.next, !.enabled = a.enabled])

Ask(operation, project) ==
  [operation |-> operation, project |-> project, enabled |-> FALSE, size |-> 0,
   cursor |-> 0, entry |-> NoEntry]

View(project, cursor) ==
  [Ask("ViewProject", project) EXCEPT !.size = EntryPage, !.cursor = cursor]

List(cursor) ==
  [Ask("ListProjects", NoProject) EXCEPT !.size = ProjectPage,
                                         !.cursor = cursor]

\* LoadEntryPage up to its call.
LoadEntryPage(u, cursor) ==
  IF u.selected = NoProject
  THEN ui' = ClearEntries(u) /\ call' = NoCall
  ELSE ui' = u /\ call' = View(u.selected, cursor)

\* A user selects a row of the list box, or RefreshProjects does.
SelectProject(u, p) == LoadEntryPage([u EXCEPT !.selected = p], 0)

\* RefreshProjects up to its first call.
RefreshProjects(u) ==
  /\ ui' = ClearEntries([u EXCEPT !.previous = u.selected, !.ids = <<>>,
                                  !.rows = <<>>, !.selected = NoProject,
                                  !.listed = FALSE])
  /\ call' = List(0)
  /\ quiet' = TRUE

Init ==
  /\ store \in [Projects -> {[exists |-> TRUE, enabled |-> TRUE,
                              entries |-> Entries],
                             [exists |-> FALSE, enabled |-> TRUE,
                              entries |-> {}]}]
  /\ ui = [ids |-> <<>>, rows |-> <<>>, selected |-> NoProject,
           previous |-> NoProject, entries |-> <<>>, entry |-> 0,
           cursor |-> 0, next |-> NoNextCursor, enabled |-> FALSE,
           listed |-> FALSE,
           buttons |-> [project |-> FALSE, entry |-> FALSE,
                        previous |-> FALSE, next |-> FALSE]]
  /\ call = List(0)     \* the refresh that WM_CREATE posts
  /\ faults = 0 /\ others = 0
  /\ origin = NoProject
  /\ unread = FALSE /\ fresh = FALSE /\ quiet = TRUE

Idle == call = NoCall

Press(request) ==
  /\ Idle
  /\ call' = request
  /\ UNCHANGED <<store, ui, bounds, history>>

Refresh ==
  /\ Idle
  /\ RefreshProjects(ui)
  /\ UNCHANGED <<store, bounds, origin, unread, fresh>>

Select ==
  /\ Idle
  /\ \E p \in {ui.rows[i] : i \in DOMAIN ui.rows} : SelectProject(ui, p)
  /\ unread' = FALSE
  /\ UNCHANGED <<store, bounds, origin, fresh, quiet>>

ToggleProject ==
  /\ ui.buttons.project
  /\ Press([Ask("SetEnabled", ui.selected) EXCEPT !.enabled = ~ui.enabled])

\* After the user has confirmed it, as RemoveSelectedEntry.
RemoveProject ==
  ui.buttons.project /\ Press(Ask("RemoveProject", ui.selected))

\* AddTerm looks at the length and the encoding alone: a term with a separator,
\* a drive or a control character in it gets as far as EncodeRequest.
AddTerm(e) ==
  /\ ui.buttons.project
  /\ Press([Ask("UpsertTerm", ui.selected) EXCEPT !.entry = e])

RemoveSelectedEntry ==
  /\ ui.buttons.entry
  /\ ui.entry \in DOMAIN ui.entries
  /\ Press([Ask("RemoveEntry", ui.selected) EXCEPT
              !.entry = ui.entries[ui.entry]])

\* LVN_ITEMCHANGED.
SelectEntry ==
  /\ Idle
  /\ \E i \in DOMAIN ui.entries \cup {0} :
       ui' = SetButtons([ui EXCEPT !.entry = i])
  /\ UNCHANGED <<store, call, bounds, history>>

PreviousPage ==
  /\ Idle /\ ui.buttons.previous
  /\ LoadEntryPage(ui, IF ui.cursor > EntryPage THEN ui.cursor - EntryPage ELSE 0)
  /\ UNCHANGED <<store, bounds, history>>

NextPage ==
  /\ Idle /\ ui.buttons.next /\ ui.next # NoNextCursor
  /\ LoadEntryPage(ui, ui.next)
  /\ UNCHANGED <<store, bounds, history>>

-----------------------------------------------------------------------------
(***************************************************************************)
(* What the manager does with the outcome of its call.                     *)
(***************************************************************************)
\* The page of projects is the last, or the list is full.
ListEnds(u) ==
  LET chosen == IF \E i \in DOMAIN u.ids : u.ids[i] = u.previous
                THEN u.previous ELSE u.ids[1]
      all == [u EXCEPT !.rows = u.ids, !.listed = TRUE, !.previous = NoProject]
  IN /\ IF u.ids = <<>> THEN ui' = all /\ call' = NoCall
        ELSE SelectProject(all, chosen)
     /\ unread' = FALSE

Listed(a) ==
  LET u == [ui EXCEPT !.ids = @ \o a.items]
  IN /\ IF a.next = NoNextCursor \/ Len(u.ids) >= MaximumDisplayed
        THEN ListEnds(u)
        ELSE /\ ui' = u
             /\ call' = IF a.next <= call.cursor THEN NoCall ELSE List(a.next)
             /\ UNCHANGED unread
     /\ UNCHANGED <<origin, fresh, quiet>>

Viewed(a) ==
  /\ ui' = PopulateEntries(ui, call.cursor, a)
  /\ call' = NoCall
  /\ origin' = ui.selected
  /\ unread' = FALSE
  /\ fresh' = TRUE
  /\ UNCHANGED quiet

\* Mutant of Reload: the page is left as it was.
KeepPage == ui' = ui /\ call' = NoCall

Reload == LoadEntryPage(ui, ui.cursor)

Succeeds(a) ==
  CASE a.operation = "ListProjects" -> Listed(a)
    [] a.operation = "ViewProject" -> Viewed(a)
    [] a.operation = "RemoveProject" ->
         RefreshProjects(ui) /\ UNCHANGED <<origin, unread, fresh>>
    [] a.operation \in {"SetEnabled", "UpsertTerm", "RemoveEntry"} ->
         Reload /\ UNCHANGED history

Fails(status) ==
  /\ ui' = IF call.operation = "ViewProject" /\ status = "NotFound"
           THEN ClearEntries([ui EXCEPT !.selected = NoProject])
           ELSE ui
  /\ call' = NoCall
  /\ unread' = (unread \/ call.operation = "ViewProject")
  /\ fresh' = (fresh /\ ~ValidRequest(call))
  /\ quiet' = (quiet /\ call.operation # "RemoveProject")
  /\ UNCHANGED origin

Finish(a) == IF a.status = "Ok" THEN Succeeds(a) ELSE Fails(a.status)

\* EncodeRequest refuses, and nothing is sent.
CallRefused ==
  /\ ~Idle /\ ~ValidRequest(call)
  /\ Fails("ProtocolError")
  /\ UNCHANGED <<store, bounds>>

Served ==
  /\ ~Idle /\ ValidRequest(call)
  /\ Effect(call)
  /\ Finish(Response(call))
  /\ UNCHANGED bounds

Fault == faults < MaxFaults /\ faults' = faults + 1 /\ UNCHANGED others

\* No answer, before or after the change; or an error of the store.
CallFails ==
  /\ ~Idle /\ ValidRequest(call)
  /\ Fault
  /\ Effect(call) \/ UNCHANGED store
  /\ Fails("StoreError")

\* The editor publishes a symbol.
Publish(p, e) ==
  /\ others < MaxOthers
  /\ others' = others + 1
  /\ store' = [store EXCEPT ![p].exists = TRUE, ![p].entries = @ \cup {e}]
  /\ fresh' = FALSE
  /\ quiet' = (quiet /\ store[p].exists)
  /\ UNCHANGED <<ui, call, faults, origin, unread>>

Next ==
  \/ Refresh
  \/ Select
  \/ ToggleProject
  \/ RemoveProject
  \/ \E e \in Terms \cup Refused : AddTerm(e)
  \/ SelectEntry
  \/ RemoveSelectedEntry
  \/ PreviousPage
  \/ NextPage
  \/ CallRefused
  \/ Served
  \/ CallFails
  \/ \E p \in Projects, e \in Entries : Publish(p, e)

Spec == Init /\ [][Next]_vars

-----------------------------------------------------------------------------
(***************************************************************************)
(* What the properties rest on.                                            *)
(***************************************************************************)
TermRefused == call.operation = "UpsertTerm" /\ call.entry \in Refused

\* A request is about what is selected, and nothing is while the projects are
\* listed.
CallInv ==
  ~Idle =>
    /\ ValidRequest(call) \/ TermRefused
    /\ IF call.operation = "ListProjects"
       THEN ui.selected = NoProject /\ call = List(call.cursor)
       ELSE ui.selected # NoProject /\ call.project = ui.selected
    /\ call.operation = "ViewProject" => call.size = EntryPage

\* Only a page that is being loaded may not be the selected project's.
BelongInv ==
  /\ ui.selected = NoProject =>
       ui.entries = <<>> /\ ~ui.buttons.project /\ ~ui.buttons.entry
  /\ ui.selected # NoProject /\ call.operation # "ViewProject" =>
       origin = ui.selected \/ unread

\* A listing under way has the projects before its cursor.
ListInv ==
  call.operation = "ListProjects" =>
    /\ ~ui.listed
    /\ quiet =>
         /\ Len(ui.ids) = call.cursor
         /\ call.cursor <= Cardinality(Existing)
         /\ ui.ids = Slice(Sorted(Existing), 0, call.cursor)

ManagerInv == CallInv /\ BelongInv /\ ListInv

-----------------------------------------------------------------------------
\* Nothing can be done without a project, and the page shown is the selected
\* project's, unless the load that was to replace it has failed.
PageBelongs ==
  Idle =>
    IF ui.selected = NoProject
    THEN ui.entries = <<>> /\ ~ui.buttons.project /\ ~ui.buttons.entry
    ELSE origin = ui.selected \/ unread

\* After a change of the manager's own, whatever page it was made on, the page
\* shown is the page of the stored dictionary.
PageIsCurrent ==
  Idle /\ fresh /\ ui.selected # NoProject =>
    LET d == store[ui.selected]
    IN /\ d.exists /\ ui.enabled = d.enabled
       /\ ui.entries = Slice(Sorted(d.entries), ui.cursor, EntryPage)

\* A listing during which, and after which, no project comes or goes shows every
\* project once, up to the bound, however many requests it takes and whatever
\* fails on the way: one that fails half-way shows none.
ListIsComplete ==
  /\ ~ui.listed => ui.rows = <<>>
  /\ ui.listed /\ quiet =>
       \/ ui.rows = Sorted(Existing)
       \/ /\ Len(ui.rows) >= MaximumDisplayed
          /\ ui.rows = Slice(Sorted(Existing), 0, Len(ui.rows))

\* Of the requests the manager builds EncodeRequest refuses none but a term the
\* user typed: never an entry of a page or a cursor.  To each of the others,
\* whatever has become of the dictionary, the service builds a response that
\* EncodeResponse and DecodeResponse let pass (the service's thread would end with
\* a SystemError), and a listing gets on.  The types come with it.
WellFormed ==
  /\ TypeOK
  /\ ~Idle =>
       IF ValidRequest(call)
       THEN /\ ValidResponse(Response(call))
            /\ call.operation = "ListProjects" =>
                 Response(call).next \notin 0..call.cursor
       ELSE TermRefused

\* RemoveEntry deletes the record that is selected in the list, as
\* docs/project-dictionary-management.md:35 says.
RemovesSelectedRecord ==
  [][RemoveSelectedEntry => origin = ui.selected]_vars
=============================================================================
