--------------------------- MODULE SessionRecords ---------------------------
(***************************************************************************)
(* The records of the session store (src/src/session_store.rs), what each  *)
(* operation answers and what it makes of the map of records, and the      *)
(* routing of a request to a session (src/src/routing.rs).                 *)
(*                                                                         *)
(* Ids, projects, titles and messages are opaque.  The hash of an automatic*)
(* session is a function of a project and an opening (the messages up to   *)
(* the first of the user).  Times and the order they give to a list are    *)
(* left out.                                                               *)
(***************************************************************************)
EXTENDS Naturals, Sequences

CONSTANTS
    Ids,        \* session ids
    Projects,   \* canonical project directories
    Titles,     \* titles that are not empty
    Openings,   \* the stable contexts of conversations
    AutoId,     \* automatic_session_id: the id for a project and an opening
    Messages,   \* history items
    Malformed,  \* those that validate_history refuses
    TitleOf,    \* the title a session without one gets from its project
    MaxTurns,   \* max_history_turns
    None

\* The most messages a history keeps.
MaxMessages == 2 * (IF MaxTurns = 0 THEN 1 ELSE MaxTurns)

ASSUME RecordsAssumption ==
    /\ MaxTurns \in Nat
    /\ Malformed \subseteq Messages
    /\ TitleOf \in [Projects -> Titles]
    /\ AutoId \in [Projects \X Openings -> Ids]

\* What /proc says of the pid that an older runtime left in a record.
Runtimes == {"none", "alive", "dead"}

Histories == Seq(Messages)

Record ==
    [project: Projects, title: Titles, history: Histories, runtime: Runtimes]

Maps == [Ids -> Record \cup {None}]

ValidHistory(h) == \A i \in 1..Len(h) : h[i] \notin Malformed

\* Every history of the map m is valid and within the limit.
WithinLimit(m) ==
    \A i \in Ids : m[i] # None =>
       Len(m[i].history) <= MaxMessages /\ ValidHistory(m[i].history)

-----------------------------------------------------------------------------
(* Operations: a record with every field, whatever the operation needs.    *)

Kinds == {"list", "get", "route", "create", "rename", "replace", "append",
          "clear_sidecar", "delete"}

Requests ==
    [kind: Kinds, id: Ids \cup {None}, project: Projects \cup {None},
     title: Titles \cup {None}, messages: Histories]

\* Those that name what they need.
Operation == {o \in Requests : /\ o.kind # "list" => o.id \in Ids
                               /\ o.kind \in {"create", "route"} => o.project \in Projects}

Op(kind, id, project, title, messages) ==
    [kind |-> kind, id |-> id, project |-> project, title |-> title,
     messages |-> messages]

\* resolve_session: a named session must exist and be of the project; without
\* a name the request goes to the automatic session of its conversation.
Resolve(requested, project, opening, title) ==
    IF requested = None
    THEN Op("create", AutoId[project, opening], project, title, <<>>)
    ELSE Op("route", requested, project, None, <<>>)

\* The operations that run with `write`.
Mutations == Kinds \ {"list", "get", "route"}

\* The errors, in the order the code meets them.
Refused(op) ==
    \/ op.kind = "append" /\ ~ValidHistory(op.messages)
    \/ op.kind = "rename" /\ op.title = None

Unknown(op, m) == op.kind \notin {"list", "create"} /\ m[op.id] = None

\* Mutant: a session that exists is given to whoever creates it.
Foreign_Named(op, m) ==
    op.kind = "route" /\ m[op.id] # None /\ m[op.id].project # op.project

Foreign(op, m) ==
    op.kind \in {"create", "route"} /\ m[op.id] # None /\ m[op.id].project # op.project

BadChange(op) == op.kind = "replace" /\ ~ValidHistory(op.messages)

Status(op, m) ==
    IF Refused(op)           THEN "invalid"
    ELSE IF Unknown(op, m)   THEN "not_found"
    ELSE IF Foreign(op, m)   THEN "conflict"
    ELSE IF BadChange(op)    THEN "invalid"
    ELSE "ok"

\* Whether `with_data` writes the file: it does for a mutation that returns
\* no error, and deleting what is not there is none for the store.
Writes(op, m) ==
    op.kind \in Mutations /\ (Status(op, m) = "ok" \/ op.kind = "delete")

\* Mutant: the limit is forgotten.
Recent_All(h) == h

\* The last MaxMessages of a history.
Recent(h) ==
    SubSeq(h, (IF Len(h) > MaxMessages THEN Len(h) - MaxMessages ELSE 0) + 1, Len(h))

\* A new record.
Fresh(op) ==
    [project |-> op.project,
     title   |-> IF op.title = None THEN TitleOf[op.project] ELSE op.title,
     history |-> <<>>, runtime |-> "none"]

\* The record r after the change op.
Changed(op, r) ==
    CASE op.kind = "rename"        -> [r EXCEPT !.title = op.title]
      [] op.kind = "replace"       -> [r EXCEPT !.history = Recent(op.messages)]
      [] op.kind = "append"        -> [r EXCEPT !.history = Recent(r.history \o op.messages)]
      [] op.kind = "clear_sidecar" -> [r EXCEPT !.runtime = "none"]
      [] OTHER                     -> r

\* What op puts in the place of its session.
Entry(op, m) ==
    CASE op.kind = "delete"                     -> None
      [] op.kind = "create" /\ m[op.id] = None  -> Fresh(op)
      [] OTHER                                  -> Changed(op, m[op.id])

\* The map after op.
After(op, m) == IF Writes(op, m) THEN [m EXCEPT ![op.id] = Entry(op, m)] ELSE m

\* The sessions that the answer shows.
Shown(op, m) ==
    IF op.kind = "list"
    THEN {i \in Ids : m[i] # None /\ op.project \in {None, m[i].project}}
    ELSE IF Status(op, m) = "ok" THEN {op.id} ELSE {}

Reply(op, m) ==
    [status |-> Status(op, m),
     value  |-> [i \in Ids |-> IF i \in Shown(op, m) THEN After(op, m)[i] ELSE None]]

NoRecords == [i \in Ids |-> None]
Failure   == [status |-> "failed", value |-> NoRecords]

Replies ==
    [status: {"ok", "invalid", "not_found", "conflict", "failed"}, value: Maps]

ASSUME NoneAssumption ==
    None \notin Ids \cup Projects \cup Titles \cup Record \cup Operation \cup Replies
=============================================================================
