---------------------------- MODULE SessionStore ----------------------------
(***************************************************************************)
(* The session store (src/src/session_store.rs): one file of records that  *)
(* several proxies share, each with a mutex around its own store calls, all*)
(* with a lock on a file beside it; and the handlers that call it          *)
(* (src/src/server.rs, src/src/routing.rs).                                *)
(*                                                                         *)
(* A store call is split at every step that touches the file system: any   *)
(* of them may fail, the process may die between any two, and the power may*)
(* go.  `file` is what a reader finds, `durable` what may be on the disk:  *)
(* a rename is only sure to last once the directory has been synced, and a *)
(* file that was renamed without having been synced may come back torn.    *)
(***************************************************************************)
EXTENDS SessionRecords, FiniteSets

CONSTANTS
    Procs,      \* proxies that share the store
    Tasks,      \* the requests they handle
    ProcOf,     \* the proxy a request is handled by
    Requested,  \* bound: the operations that clients ask for
    Legacy,     \* bound: the maps that an earlier run may have left
    MaxCalls,   \* bound: requests in a behaviour
    Torn        \* what a file is that was only written in part

ASSUME StoreAssumption ==
    /\ ProcOf \in [Tasks -> Procs]
    /\ Requested \subseteq Operation
    /\ Legacy \subseteq Maps /\ \A m \in Legacy : WithinLimit(m)
    /\ MaxCalls \in Nat
    /\ None \notin Tasks \cup Maps /\ Torn \notin Maps

VARIABLES
    file,     \* the content of the file
    durable,  \* the contents that a loss of power may leave
    flock,    \* the task that holds the lock file
    mutex,    \* the task that holds each proxy's mutex
    pc,       \* where a task stands
    op,       \* the operation it performs
    reply,    \* what it will answer
    buffer,   \* the map it has in memory
    temp,     \* its temporary file: none, written or synced
    up,       \* the proxy has started and serves requests
    booter,   \* the task that starts it
    stale,    \* the sessions whose runtime it has still to clear
    calls     \* requests so far

disk  == <<file, durable>>
locks == <<flock, mutex>>
work  == <<pc, op, reply, buffer, temp>>
boot  == <<up, booter, stale>>
vars  == <<disk, locks, work, boot, calls>>

Set(f, t, v) == [f EXCEPT ![t] = v]

-----------------------------------------------------------------------------
Init ==
    /\ file \in Legacy /\ durable = {file}
    /\ flock = None
    /\ mutex = [p \in Procs |-> None]
    /\ pc = [t \in Tasks |-> "idle"]
    /\ op = [t \in Tasks |-> None]
    /\ reply = [t \in Tasks |-> None]
    /\ buffer = [t \in Tasks |-> None]
    /\ temp = [t \in Tasks |-> "none"]
    /\ up = [p \in Procs |-> FALSE]
    /\ booter = [p \in Procs |-> None]
    /\ stale = [p \in Procs |-> {}]
    /\ calls = 0

\* A task begins the operation o.
Begin(t, o) ==
    /\ op' = Set(op, t, o)
    /\ pc' = Set(pc, t, IF Refused(o) THEN "refuse" ELSE "mutex")
    /\ UNCHANGED <<disk, locks, reply, buffer, temp>>

\* A request reaches a handler.
Ask(t, o) ==
    /\ pc[t] = "idle" /\ up[ProcOf[t]] /\ calls < MaxCalls
    /\ Begin(t, o)
    /\ calls' = calls + 1
    /\ UNCHANGED boot

\* The history to append is found invalid before any lock is taken.
Refuse(t) ==
    /\ pc[t] = "refuse"
    /\ reply' = Set(reply, t, Reply(op[t], NoRecords))
    /\ pc' = Set(pc, t, "answer")
    /\ UNCHANGED <<disk, locks, op, buffer, temp, boot, calls>>

LockMutex(t) ==
    /\ pc[t] = "mutex" /\ mutex[ProcOf[t]] = None
    /\ mutex' = Set(mutex, ProcOf[t], t)
    /\ pc' = Set(pc, t, "flock")
    /\ UNCHANGED <<disk, flock, op, reply, buffer, temp, boot, calls>>

\* The client hangs up while its request waits for the mutex, the one await.
HangUp(t) ==
    /\ pc[t] = "mutex" /\ booter[ProcOf[t]] # t
    /\ pc' = Set(pc, t, "idle")
    /\ op' = Set(op, t, None)
    /\ UNCHANGED <<disk, locks, reply, buffer, temp, boot, calls>>

\* Mutant: nobody locks the file, or minds who has.
LockFile_Never(t) ==
    /\ pc[t] = "flock"
    /\ pc' = Set(pc, t, "read")
    /\ UNCHANGED <<disk, locks, op, reply, buffer, temp, boot, calls>>

LockFile(t) ==
    /\ pc[t] = "flock" /\ flock = None
    /\ flock' = t
    /\ pc' = Set(pc, t, "read")
    /\ UNCHANGED <<disk, mutex, op, reply, buffer, temp, boot, calls>>

\* The file is parsed and the closure of the operation applied to it.
Read(t) ==
    /\ pc[t] = "read" /\ file # Torn
    /\ reply' = Set(reply, t, Reply(op[t], file))
    /\ buffer' = Set(buffer, t, After(op[t], file))
    /\ pc' = Set(pc, t, IF Writes(op[t], file) THEN "write" ELSE "unlock")
    /\ UNCHANGED <<disk, locks, op, temp, boot, calls>>

\* Mutant: the temporary file is not synced.
WriteTemp_NoSync(t) ==
    /\ pc[t] = "write"
    /\ temp' = Set(temp, t, "written")
    /\ pc' = Set(pc, t, "rename")
    /\ UNCHANGED <<disk, locks, op, reply, buffer, boot, calls>>

WriteTemp(t) ==
    /\ pc[t] = "write"
    /\ temp' = Set(temp, t, "written")
    /\ pc' = Set(pc, t, "sync_file")
    /\ UNCHANGED <<disk, locks, op, reply, buffer, boot, calls>>

SyncTemp(t) ==
    /\ pc[t] = "sync_file"
    /\ temp' = Set(temp, t, "synced")
    /\ pc' = Set(pc, t, "rename")
    /\ UNCHANGED <<disk, locks, op, reply, buffer, boot, calls>>

\* Mutant: the directory is not synced.
Persist_NoSync(t) ==
    /\ pc[t] = "rename"
    /\ file' = buffer[t]
    /\ durable' = durable \cup {IF temp[t] = "synced" THEN buffer[t] ELSE Torn}
    /\ temp' = Set(temp, t, "none")
    /\ pc' = Set(pc, t, "unlock")
    /\ UNCHANGED <<locks, op, reply, buffer, boot, calls>>

\* The temporary file takes the place of the file.
Persist(t) ==
    /\ pc[t] = "rename"
    /\ file' = buffer[t]
    /\ durable' = durable \cup {IF temp[t] = "synced" THEN buffer[t] ELSE Torn}
    /\ temp' = Set(temp, t, "none")
    /\ pc' = Set(pc, t, "sync_dir")
    /\ UNCHANGED <<locks, op, reply, buffer, boot, calls>>

SyncDir(t) ==
    /\ pc[t] = "sync_dir"
    /\ durable' = {file}
    /\ pc' = Set(pc, t, "unlock")
    /\ UNCHANGED <<file, locks, op, reply, buffer, temp, boot, calls>>

\* Mutant: the mutex is not given back.
Release_FileOnly(t) ==
    /\ flock' = IF flock = t THEN None ELSE flock
    /\ UNCHANGED mutex

\* The locks go with the guards, on every way out.
Release(t) ==
    /\ flock' = IF flock = t THEN None ELSE flock
    /\ mutex' = Set(mutex, ProcOf[t], None)

\* Any step on the file system may fail; the temporary file is removed.
IoFails(t) ==
    /\ pc[t] \in {"flock", "read", "write", "sync_file", "rename", "sync_dir"}
    /\ Release(t)
    /\ reply' = Set(reply, t, Failure)
    /\ temp' = Set(temp, t, "none")
    /\ pc' = Set(pc, t, "answer")
    /\ UNCHANGED <<disk, op, buffer, boot, calls>>

Unlock(t) ==
    /\ pc[t] = "unlock"
    /\ Release(t)
    /\ pc' = Set(pc, t, "answer")
    /\ UNCHANGED <<disk, op, reply, buffer, temp, boot, calls>>

\* The locals of an operation that is over.
Forget(t) ==
    /\ op' = Set(op, t, None)
    /\ reply' = Set(reply, t, None)
    /\ buffer' = Set(buffer, t, None)

Answer(t) ==
    /\ pc[t] = "answer" /\ booter[ProcOf[t]] # t
    /\ Forget(t)
    /\ pc' = Set(pc, t, "idle")
    /\ UNCHANGED <<disk, locks, temp, boot, calls>>

-----------------------------------------------------------------------------
(* A proxy starts: clear_stale_runtime lists the records and clears, one   *)
(* store call each, the runtime of those whose process is gone.            *)

ListAll      == Op("list", None, None, None, <<>>)
ClearOf(i)   == Op("clear_sidecar", i, None, None, <<>>)
StaleIn(m)   == {i \in Ids : m[i] # None /\ m[i].runtime = "dead"}

Boot(t) ==
    LET p == ProcOf[t] IN
    /\ pc[t] = "idle" /\ ~up[p] /\ booter[p] = None
    /\ booter' = Set(booter, p, t)
    /\ Begin(t, ListAll)
    /\ UNCHANGED <<up, stale, calls>>

\* A store call of the start has answered.
BootHears(t) ==
    LET p == ProcOf[t] IN
    /\ pc[t] = "answer" /\ booter[p] = t
    /\ Forget(t)
    /\ IF reply[t].status = "ok"
       THEN /\ pc' = Set(pc, t, "boot")
            /\ stale' = IF op[t] = ListAll THEN Set(stale, p, StaleIn(reply[t].value)) ELSE stale
            /\ UNCHANGED booter
       ELSE /\ pc' = Set(pc, t, "idle")
            /\ booter' = Set(booter, p, None)
            /\ stale' = Set(stale, p, {})
    /\ UNCHANGED <<disk, locks, temp, up, calls>>

BootClears(t, i) ==
    LET p == ProcOf[t] IN
    /\ pc[t] = "boot" /\ i \in stale[p]
    /\ stale' = Set(stale, p, stale[p] \ {i})
    /\ Begin(t, ClearOf(i))
    /\ UNCHANGED <<up, booter, calls>>

BootDone(t) ==
    LET p == ProcOf[t] IN
    /\ pc[t] = "boot" /\ stale[p] = {}
    /\ up' = Set(up, p, TRUE)
    /\ booter' = Set(booter, p, None)
    /\ pc' = Set(pc, t, "idle")
    /\ UNCHANGED <<disk, locks, op, reply, buffer, temp, stale, calls>>

-----------------------------------------------------------------------------
(* Faults *)

\* The proxies of P are gone with all they had in memory, and the system has
\* released their lock.
Dies(P) ==
    LET Kill(f, v) == [t \in Tasks |-> IF ProcOf[t] \in P THEN v ELSE f[t]]
        Wipe(f, v) == [p \in Procs |-> IF p \in P THEN v ELSE f[p]]
    IN  /\ pc' = Kill(pc, "idle")
        /\ op' = Kill(op, None)
        /\ reply' = Kill(reply, None)
        /\ buffer' = Kill(buffer, None)
        /\ temp' = Kill(temp, "none")
        /\ flock' = IF flock # None /\ ProcOf[flock] \in P THEN None ELSE flock
        /\ mutex' = Wipe(mutex, None)
        /\ up' = Wipe(up, FALSE)
        /\ booter' = Wipe(booter, None)
        /\ stale' = Wipe(stale, {})

Crash(p) ==
    /\ Dies({p})
    /\ UNCHANGED <<disk, calls>>

LosePower ==
    /\ Dies(Procs)
    /\ file' \in durable
    /\ durable' = {file'}
    /\ UNCHANGED calls

-----------------------------------------------------------------------------
\* What a task does when it can.
Step(t) ==
    \/ Refuse(t) \/ LockMutex(t) \/ LockFile(t) \/ Read(t)
    \/ WriteTemp(t) \/ SyncTemp(t) \/ Persist(t) \/ SyncDir(t)
    \/ IoFails(t) \/ Unlock(t) \/ Answer(t)
    \/ BootHears(t) \/ BootDone(t)
    \/ \E i \in Ids : BootClears(t, i)

Next ==
    \/ \E t \in Tasks :
          \/ Step(t) \/ Boot(t) \/ HangUp(t)
          \/ \E o \in Requested : Ask(t, o)
    \/ \E p \in Procs : Crash(p)
    \/ LosePower

Spec == Init /\ [][Next]_vars

Fairness == \A t \in Tasks :
    /\ WF_vars(Step(t))
    /\ SF_vars(LockMutex(t))
    /\ SF_vars(LockFile(t))

FairSpec == Spec /\ Fairness

-----------------------------------------------------------------------------
(* Properties *)

Places == {"idle", "refuse", "mutex", "flock", "read", "write", "sync_file", "rename",
           "sync_dir", "unlock", "answer", "boot"}

\* Every variable has its type.
TypeOK ==
    /\ file \in Maps \cup {Torn} /\ durable \in SUBSET (Maps \cup {Torn})
    /\ flock \in Tasks \cup {None}
    /\ mutex \in [Procs -> Tasks \cup {None}]
    /\ pc \in [Tasks -> Places]
    /\ op \in [Tasks -> Operation \cup {None}]
    /\ reply \in [Tasks -> Replies \cup {None}]
    /\ buffer \in [Tasks -> Maps \cup {None}]
    /\ temp \in [Tasks -> {"none", "written", "synced"}]
    /\ up \in [Procs -> BOOLEAN]
    /\ booter \in [Procs -> Tasks \cup {None}]
    /\ stale \in [Procs -> SUBSET Ids]
    /\ calls \in 0..MaxCalls

Locked   == {"read", "write", "sync_file", "rename", "sync_dir", "unlock"}

\* A task holds the mutex of its proxy from when it is let in until with_data
\* returns, by whatever way, and the lock file from when it has locked it: no
\* two tasks of any proxies are at the file at a time, and no lock is left.
LockInv ==
    /\ \A t \in Tasks : flock = t <=> pc[t] \in Locked
    /\ \A t \in Tasks : mutex[ProcOf[t]] = t <=> pc[t] \in Locked \cup {"flock"}

\* Whatever step a crash, a loss of power or a full disk comes at, the file
\* that the next start finds is a whole map of records.
FileWhole == file # Torn /\ Torn \notin durable

\* No record, on the disk or about to go there, holds a history longer than
\* the limit or with an item that validate_history refuses, whatever
\* operations by whichever proxies have made it.
HistoriesValid == \A m \in ({file} \cup durable \cup {buffer[t] : t \in Tasks}) \ {None, Torn} :
                     WithinLimit(m)

\* The session that a request is told, routed or created, is of the project
\* that it asked for, though ids are shared and sessions come and go.
InProject ==
    \A t \in Tasks :
       pc[t] = "answer" /\ reply[t].status = "ok" /\ op[t].kind \in {"route", "create"}
       => reply[t].value[op[t].id].project = op[t].project

\* The answers that have been settled on, and those whose change will last.
Done    == {"sync_dir", "unlock", "answer"}
Given   == [t \in Tasks |-> IF pc[t] \in Done THEN reply[t] ELSE None]
Lasting == [t \in Tasks |-> /\ pc[t] \in {"unlock", "answer"}
                            /\ reply[t].status = "ok"
                            /\ op[t].kind \in Mutations]

Map == INSTANCE SessionMap WITH
    sessions <- file, past <- durable, call <- op, answer <- Given, settled <- Lasting

\* The session store implements the map of sessions: a call takes effect at
\* once and where it is answered with success it lasts.
MapSpec == Map!Spec

\* A request is always answered, and a start comes to an end, however often
\* the file system fails: no lock is waited for in vain.
Answered == \A t \in Tasks : op[t] # None ~> op[t] = None
=============================================================================
