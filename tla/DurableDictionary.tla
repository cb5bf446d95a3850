--------------------------- MODULE DurableDictionary ---------------------------
(***************************************************************************)
(* What the project dictionaries promise whoever asks for a change: it is  *)
(* made as a whole or not at all, also when the process dies in the middle *)
(* of it, and an answer of "Ok" means that it has been made.               *)
(***************************************************************************)
CONSTANTS
  Projects,
  Content,       \* what can be on the disk for a project
  Request,       \* the changes that can be asked for, each of one project
  NoRequest,
  Effect(_, _)   \* what a request makes of its project's content

VARIABLES
  durable,   \* the content of each project
  request,   \* the request being served
  made,      \* has its change been made
  outcome    \* the answer to the last request

durableVars == <<durable, request, made, outcome>>

DurableInit ==
  /\ durable \in [Projects -> Content]
  /\ request = NoRequest
  /\ made = FALSE
  /\ outcome = "none"

Call(r) ==
  /\ request = NoRequest
  /\ request' = r
  /\ outcome' = "none"
  /\ UNCHANGED <<durable, made>>

Make ==
  /\ request # NoRequest
  /\ ~made
  /\ durable' = [durable EXCEPT ![request.project] = Effect(request, @)]
  /\ made' = TRUE
  /\ UNCHANGED <<request, outcome>>

AnswerOk ==
  /\ made
  /\ outcome' = "Ok"
  /\ request' = NoRequest
  /\ made' = FALSE
  /\ UNCHANGED durable

\* An error, or no answer at all from a process that dies.
Fail ==
  /\ request # NoRequest
  /\ outcome' \in {"Error", outcome}
  /\ request' = NoRequest
  /\ made' = FALSE
  /\ UNCHANGED durable

\* Somebody else changes a project's file between two requests.
ChangeOutside(p) ==
  /\ request = NoRequest
  /\ \E c \in Content : durable' = [durable EXCEPT ![p] = c]
  /\ UNCHANGED <<request, made, outcome>>

DurableNext ==
  \/ \E r \in Request : Call(r)
  \/ Make
  \/ AnswerOk
  \/ Fail
  \/ \E p \in Projects : ChangeOutside(p)

DurableSpec == DurableInit /\ [][DurableNext]_durableVars
=============================================================================
