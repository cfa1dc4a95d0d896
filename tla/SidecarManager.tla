--------------------------- MODULE SidecarManager ---------------------------
(***************************************************************************)
(* The on-demand sidecars of the Rust proxy: SidecarManager::ensure, stop, *)
(* reap_idle and stop_all (src/src/sidecar.rs) with the three actors that  *)
(* call them concurrently -- client requests (routing::resolve), the       *)
(* DELETE /proxy/sessions/{id} handler and the background reaper -- and    *)
(* the graceful shutdown and restart of `serve` (src/src/server.rs).       *)
(*                                                                         *)
(* One action per stretch of code between two awaits.  A store call runs   *)
(* under the store's mutex and an exclusive file lock with no await inside,*)
(* so it is one atomic step.  What the operating system does to the        *)
(* sidecar processes is the environment.                                   *)
(***************************************************************************)
EXTENDS Naturals, FiniteSets

CONSTANTS
    Sessions,       \* proxy session ids
    Requests,       \* concurrent client requests that need a sidecar
    Deleters,       \* concurrent session deletions
    Reaper,         \* the task that reaps idle sidecars
    Shutdown,       \* the end of `serve`
    Pids,           \* process ids; a pid is reused once its process is gone
    Ports,          \* loopback ports
    MaxSidecars,    \* PROXY_MAX_SIDECARS
    IdleEnabled,    \* PROXY_SIDECAR_IDLE_TIMEOUT is not zero
    MayDisconnect,  \* a client may hang up while its handler waits
    MaySicken,      \* a live sidecar may stop answering its health endpoint
    MayCrash,       \* the proxy may die at any point
    MayReusePid,    \* an unrelated program may get the pid of an ended sidecar
    None            \* no pid, no port, nobody

Tasks == Requests \cup Deleters \cup {Reaper, Shutdown}

ASSUME SidecarAssumption ==
    /\ IsFiniteSet(Sessions)
    /\ IsFiniteSet(Requests) /\ Requests # {}
    /\ MaxSidecars \in Nat \ {0}
    /\ {IdleEnabled, MayDisconnect, MaySicken, MayCrash, MayReusePid} \subseteq BOOLEAN
    /\ None \notin Sessions \cup Tasks \cup Pids \cup Ports
    /\ Reaper # Shutdown
    /\ Requests \cap Deleters = {}
    /\ {Reaper, Shutdown} \cap (Requests \cup Deleters) = {}

VARIABLES
    stored,   \* sessions present in the session store
    sidecar,  \* the `sidecar` object of each stored record: its pid and url
    managed,  \* SidecarManager.processes: the Child kept for a session
    last,     \* SidecarManager.last: absent, used recently, or past the timeout
    holder,   \* the owner of each session's async mutex
    proc,     \* the process table
    kids,     \* processes whose parent is the running proxy
    pc,       \* where each task stands
    sess,     \* the session a request is for
    target,   \* the session a task is stopping or deleting
    todo,     \* sessions a task still has to stop, or to forget
    local     \* the pid and url a task holds in a local variable

storeVars == <<stored, sidecar>>
mapVars   == <<managed, last>>
osVars    == <<proc, kids>>
taskVars  == <<pc, sess, target, todo, local>>
vars      == <<storeVars, mapVars, holder, osVars, taskVars>>

NoRecord == [pid |-> None, port |-> None]
Nobody(st) == [state |-> st, session |-> None, port |-> None]
Gone     == Nobody("free")
Live     == {"boot", "up", "sick"}

\* Mutant: any living process with the recorded pid passes for the sidecar.
Matches_AnyProcess(p, s) == p # None /\ proc[p].state \in Live \cup {"other"}

\* process_matches: the pid runs codebuddy --serve with the session's marker.
Matches(p, s) == p # None /\ proc[p].state \in Live /\ proc[p].session = s

Bound(q)     == \E p \in Pids : proc[p].state \in {"up", "sick"} /\ proc[p].port = q
\* healthy(url): whoever listens on the port answers 200.
Healthy(q)   == \E p \in Pids : proc[p].state = "up" /\ proc[p].port = q

ManagedSessions == {s \in Sessions : managed[s] # None}
AtCap           == Cardinality(ManagedSessions) >= MaxSidecars
Expired         == {s \in Sessions : last[s] = "idle"}

\* Where a process goes when it ends by itself or by a signal nobody waits for:
\* a child stays a zombie until the proxy calls wait.
Ended(p)     == IF p \in kids THEN Nobody("zombie") ELSE Gone

WithState(p, st) == [state |-> st, session |-> proc[p].session, port |-> proc[p].port]

Goto(t, to)  == pc' = [pc EXCEPT ![t] = to]
Release(r)   == holder' = [s \in Sessions |-> IF holder[s] = r THEN None ELSE holder[s]]

\* terminate_child: TERM, then KILL after five seconds, then wait.
TerminateChild(p) ==
    /\ proc' = [proc EXCEPT ![p] = Gone]
    /\ kids' = kids \ {p}

\* ensure returns Err and drops its lock guard.
Fail(r) == Goto(r, "error") /\ Release(r)

-----------------------------------------------------------------------------
Init ==
    /\ stored = Sessions
    /\ sidecar = [s \in Sessions |-> NoRecord]
    /\ managed = [s \in Sessions |-> None]
    /\ last = [s \in Sessions |-> "none"]
    /\ holder = [s \in Sessions |-> None]
    /\ proc = [p \in Pids |-> Gone]
    /\ kids = {}
    /\ pc = [t \in Tasks |-> "idle"]
    /\ sess = [r \in Requests |-> None]
    /\ target = [t \in Tasks |-> None]
    /\ todo = [t \in Tasks |-> {}]
    /\ local = [t \in Tasks |-> NoRecord]

-----------------------------------------------------------------------------
(* ensure *)

\* routing::resolve found the session in the store and calls ensure.
Arrive(r, s) ==
    /\ pc[r] = "idle" /\ pc[Shutdown] = "idle"
    /\ s \in stored
    /\ Goto(r, "lock")
    /\ sess' = [sess EXCEPT ![r] = s]
    /\ UNCHANGED <<storeVars, mapVars, holder, osVars, target, todo, local>>

\* Mutant: ensure does not take the session mutex.
Lock_Unguarded(r) ==
    /\ pc[r] = "lock"
    /\ holder' = [holder EXCEPT ![sess[r]] = r]
    /\ Goto(r, "reconcile")
    /\ UNCHANGED <<storeVars, mapVars, osVars, sess, target, todo, local>>

\* self.lock(&session.id).lock_owned().await
Lock(r) ==
    /\ pc[r] = "lock"
    /\ holder[sess[r]] = None
    /\ holder' = [holder EXCEPT ![sess[r]] = r]
    /\ Goto(r, "reconcile")
    /\ UNCHANGED <<storeVars, mapVars, osVars, sess, target, todo, local>>

\* Mutant: the pids of the exited children are forgotten, not their sessions.
Reconcile_Pids(r) ==
    LET dead == {p \in kids : proc[p].state = "zombie"} IN
    /\ pc[r] = "reconcile"
    /\ managed' = [s \in Sessions |-> IF managed[s] \in dead THEN None ELSE managed[s]]
    /\ proc' = [p \in Pids |-> IF p \in dead THEN Gone ELSE proc[p]]
    /\ kids' = kids \ dead
    /\ todo' = [todo EXCEPT ![r] = dead]
    /\ Goto(r, "forget")
    /\ UNCHANGED <<storeVars, last, holder, sess, target, local>>

\* Mutant: an exited child is waited for but its entry stays in the map.
Reconcile_Keep(r) ==
    LET exited == {s \in ManagedSessions : proc[managed[s]].state = "zombie"}
        dead   == {managed[s] : s \in exited}
    IN /\ pc[r] = "reconcile"
       /\ proc' = [p \in Pids |-> IF p \in dead THEN Gone ELSE proc[p]]
       /\ kids' = kids \ dead
       /\ todo' = [todo EXCEPT ![r] = exited]
       /\ Goto(r, "forget")
       /\ UNCHANGED <<storeVars, managed, last, holder, sess, target, local>>

\* reconcile_exited, under the `processes` mutex: reap and drop every child
\* that has exited, of whatever session.
Reconcile(r) ==
    LET exited == {s \in ManagedSessions : proc[managed[s]].state = "zombie"}
        dead   == {managed[s] : s \in exited}
    IN /\ pc[r] = "reconcile"
       /\ managed' = [s \in Sessions |-> IF s \in exited THEN None ELSE managed[s]]
       /\ proc' = [p \in Pids |-> IF p \in dead THEN Gone ELSE proc[p]]
       /\ kids' = kids \ dead
       /\ todo' = [todo EXCEPT ![r] = exited]
       /\ Goto(r, "forget")
       /\ UNCHANGED <<storeVars, last, holder, sess, target, local>>

\* ... then, with that mutex released, `last.remove` and `clear_sidecar` for
\* each of them; the store's NotFound is ignored.
ForgetExited(r, s) ==
    /\ pc[r] = "forget" /\ s \in todo[r]
    /\ last' = [last EXCEPT ![s] = "none"]
    /\ sidecar' = [sidecar EXCEPT ![s] = NoRecord]
    /\ todo' = [todo EXCEPT ![r] = @ \ {s}]
    /\ UNCHANGED <<stored, managed, holder, osVars, pc, sess, target, local>>

\* store.get and process_matches on the record it returned.
Get(r) ==
    LET s == sess[r] IN
    /\ pc[r] = "forget" /\ todo[r] = {}
    /\ \/ /\ s \notin stored
          /\ Fail(r)
          /\ UNCHANGED local
       \/ /\ s \in stored /\ Matches(sidecar[s].pid, s)
          /\ local' = [local EXCEPT ![r] = sidecar[s]]
          /\ Goto(r, "probe")
          /\ UNCHANGED holder
       \/ /\ s \in stored /\ ~Matches(sidecar[s].pid, s)
          /\ Goto(r, "cap")
          /\ UNCHANGED <<holder, local>>
    /\ UNCHANGED <<storeVars, mapVars, osVars, sess, target, todo>>

\* healthy(url).await on the recorded url: reuse the sidecar, or start another.
Probe(r) ==
    /\ pc[r] = "probe"
    /\ \/ /\ Healthy(local[r].port)
          /\ last' = [last EXCEPT ![sess[r]] = "fresh"]
          /\ Release(r)
          /\ Goto(r, "stream")
          /\ UNCHANGED local
       \/ /\ ~Healthy(local[r].port)
          /\ Goto(r, "cap")
          /\ local' = [local EXCEPT ![r] = NoRecord]
          /\ UNCHANGED <<last, holder>>
    /\ UNCHANGED <<storeVars, managed, osVars, sess, target, todo>>

\* The first look at the cap: when it is reached, reap the idle sidecars.
CheckCap(r) ==
    /\ pc[r] = "cap"
    /\ IF AtCap /\ IdleEnabled
       THEN Goto(r, "stopping") /\ todo' = [todo EXCEPT ![r] = Expired]
       ELSE Goto(r, "recap") /\ UNCHANGED todo
    /\ UNCHANGED <<storeVars, mapVars, holder, osVars, sess, target, local>>

\* Mutant: the cap is not looked at again after reaping.
Spawn_NoSecondLook(r, p, q) ==
    /\ pc[r] = "recap"
    /\ proc[p] = Gone
    /\ ~Bound(q)
    /\ proc' = [proc EXCEPT ![p] = [state |-> "boot", session |-> sess[r], port |-> q]]
    /\ kids' = kids \cup {p}
    /\ local' = [local EXCEPT ![r] = [pid |-> p, port |-> q]]
    /\ Goto(r, "poll")
    /\ UNCHANGED <<storeVars, mapVars, holder, sess, target, todo>>

\* The second look, then free_port and Command::spawn.  The port is only known
\* to be free: the listener that found it is closed before the child binds it.
Spawn(r, p, q) ==
    /\ pc[r] = "recap"
    /\ ~AtCap
    /\ proc[p] = Gone
    /\ ~Bound(q)
    /\ proc' = [proc EXCEPT ![p] = [state |-> "boot", session |-> sess[r], port |-> q]]
    /\ kids' = kids \cup {p}
    /\ local' = [local EXCEPT ![r] = [pid |-> p, port |-> q]]
    /\ Goto(r, "poll")
    /\ UNCHANGED <<storeVars, mapVars, holder, sess, target, todo>>

\* Still at the cap, or the CLI is missing, or the directory, log, port or
\* process could not be created.
Refuse(r) ==
    /\ pc[r] = "recap"
    /\ Fail(r)
    /\ UNCHANGED <<storeVars, mapVars, osVars, sess, target, todo, local>>

\* Mutant: at the deadline ensure gives up without terminating the child.
Poll_Abandon(r) ==
    LET p == local[r].pid IN
    /\ pc[r] = "poll"
    /\ \/ /\ Healthy(local[r].port)
          /\ Goto(r, "adopt")
          /\ UNCHANGED <<holder, local>>
       \/ /\ ~Healthy(local[r].port)
          /\ Fail(r)
          /\ local' = [local EXCEPT ![r] = NoRecord]
    /\ UNCHANGED <<storeVars, mapVars, osVars, sess, target, todo>>

\* One turn of the start-up loop: the child has exited; the url answers; or
\* it does not and the deadline has passed (before it, the loop sleeps).
Poll(r) ==
    LET p == local[r].pid IN
    /\ pc[r] = "poll"
    /\ \/ /\ proc[p].state = "zombie"
          /\ TerminateChild(p)
          /\ Fail(r)
          /\ local' = [local EXCEPT ![r] = NoRecord]
       \/ /\ proc[p].state # "zombie" /\ Healthy(local[r].port)
          /\ Goto(r, "adopt")
          /\ UNCHANGED <<osVars, holder, local>>
       \/ /\ proc[p].state # "zombie" /\ ~Healthy(local[r].port)
          /\ TerminateChild(p)
          /\ Fail(r)
          /\ local' = [local EXCEPT ![r] = NoRecord]
    /\ UNCHANGED <<storeVars, mapVars, sess, target, todo>>

\* Mutant: the error of store.update is returned with `?`.
Adopt_Leak(r) ==
    LET s == sess[r] IN
    /\ pc[r] = "adopt"
    /\ \/ /\ s \in stored
          /\ sidecar' = [sidecar EXCEPT ![s] = local[r]]
          /\ Goto(r, "manage")
          /\ UNCHANGED <<holder, local>>
       \/ /\ s \notin stored
          /\ Fail(r)
          /\ local' = [local EXCEPT ![r] = NoRecord]
          /\ UNCHANGED sidecar
    /\ UNCHANGED <<stored, mapVars, osVars, sess, target, todo>>

\* store.update with the new sidecar; the session may be gone by now.
Adopt(r) ==
    LET s == sess[r] IN
    /\ pc[r] = "adopt"
    /\ \/ /\ s \in stored
          /\ sidecar' = [sidecar EXCEPT ![s] = local[r]]
          /\ Goto(r, "manage")
          /\ UNCHANGED <<osVars, holder, local>>
       \/ /\ s \notin stored
          /\ TerminateChild(local[r].pid)
          /\ Fail(r)
          /\ local' = [local EXCEPT ![r] = NoRecord]
          /\ UNCHANGED sidecar
    /\ UNCHANGED <<stored, mapVars, sess, target, todo>>

\* last.insert and processes.insert.  A Child already in the map is dropped,
\* which neither kills nor waits for it.
Manage(r) ==
    LET s == sess[r] IN
    /\ pc[r] = "manage"
    /\ last' = [last EXCEPT ![s] = "fresh"]
    /\ managed' = [managed EXCEPT ![s] = local[r].pid]
    /\ Release(r)
    /\ Goto(r, "stream")
    /\ UNCHANGED <<storeVars, osVars, sess, target, todo, local>>

\* The answer has been streamed over the sidecar, or the error returned.
Answer(r) ==
    /\ pc[r] \in {"stream", "error"}
    /\ Goto(r, "idle")
    /\ local' = [local EXCEPT ![r] = NoRecord]
    /\ sess' = [sess EXCEPT ![r] = None]
    /\ UNCHANGED <<storeVars, mapVars, holder, osVars, target, todo>>

\* The client hangs up: the handler's future is dropped at an await, its lock
\* guard with it.  Dropping a Child leaves the process running.
Disconnect(r) ==
    /\ MayDisconnect
    /\ \/ pc[r] \in {"lock", "forget", "probe", "stopWait", "stopClear",
                     "poll", "adopt", "stream"}
       \/ pc[r] = "stopping" /\ todo[r] # {}
    /\ Goto(r, "idle")
    /\ Release(r)
    /\ sess' = [sess EXCEPT ![r] = None]
    /\ target' = [target EXCEPT ![r] = None]
    /\ todo' = [todo EXCEPT ![r] = {}]
    /\ local' = [local EXCEPT ![r] = NoRecord]
    /\ UNCHANGED <<storeVars, mapVars, osVars>>

-----------------------------------------------------------------------------
(* stop, which takes no session lock *)

\* store.get: an unknown session is NotFound, before anything is stopped.
StopGet(t, s) ==
    /\ pc[t] = "stopping" /\ s \in todo[t]
    /\ todo' = [todo EXCEPT ![t] = @ \ {s}]
    /\ IF s \in stored
       THEN /\ target' = [target EXCEPT ![t] = s]
            /\ local' = [local EXCEPT ![t] = sidecar[s]]
            /\ Goto(t, "stopKill")
       ELSE UNCHANGED <<pc, target, local>>
    /\ UNCHANGED <<storeVars, mapVars, holder, osVars, sess>>

\* Terminate the managed child; failing that, TERM to the recorded pid if it
\* is still this session's sidecar, which may ignore it.
StopKill(t) ==
    LET s == target[t]
        p == local[t].pid
    IN /\ pc[t] = "stopKill"
       /\ \/ /\ managed[s] # None
             /\ TerminateChild(managed[s])
             /\ managed' = [managed EXCEPT ![s] = None]
             /\ Goto(t, "stopClear")
          \/ /\ managed[s] = None /\ Matches(p, s)
             /\ \/ proc' = [proc EXCEPT ![p] = Ended(p)]
                \/ UNCHANGED proc
             /\ Goto(t, "stopWait")
             /\ UNCHANGED <<managed, kids>>
          \/ /\ managed[s] = None /\ ~Matches(p, s)
             /\ Goto(t, "stopClear")
             /\ UNCHANGED <<managed, osVars>>
       /\ UNCHANGED <<storeVars, last, holder, sess, target, todo, local>>

\* Mutant: wait for the process to go, however long it takes.
StopWait_Forever(t) ==
    /\ pc[t] = "stopWait"
    /\ ~Matches(local[t].pid, target[t])
    /\ Goto(t, "stopClear")
    /\ UNCHANGED <<storeVars, mapVars, osVars, holder, sess, target, todo, local>>

\* Up to five seconds for /proc/<pid> to disappear, then KILL if the pid is
\* still this session's sidecar.
StopWait(t) ==
    LET p == local[t].pid IN
    /\ pc[t] = "stopWait"
    /\ proc' = IF Matches(p, target[t]) THEN [proc EXCEPT ![p] = Ended(p)] ELSE proc
    /\ Goto(t, "stopClear")
    /\ UNCHANGED <<storeVars, mapVars, kids, holder, sess, target, todo, local>>

\* clear_sidecar; its NotFound makes stop return before `last.remove`.
StopClear(t) ==
    /\ pc[t] = "stopClear"
    /\ IF target[t] \in stored
       THEN /\ sidecar' = [sidecar EXCEPT ![target[t]] = NoRecord]
            /\ Goto(t, "stopForget")
       ELSE /\ Goto(t, "stopping")
            /\ UNCHANGED sidecar
    /\ local' = [local EXCEPT ![t] = NoRecord]
    /\ UNCHANGED <<stored, mapVars, holder, osVars, sess, target, todo>>

StopForget(t) ==
    /\ pc[t] = "stopForget"
    /\ last' = [last EXCEPT ![target[t]] = "none"]
    /\ Goto(t, "stopping")
    /\ UNCHANGED <<storeVars, managed, holder, osVars, sess, target, todo, local>>

\* Nothing left to stop: back to the caller.
StopDone(t) ==
    /\ pc[t] = "stopping" /\ todo[t] = {}
    /\ \/ t \in Requests /\ Goto(t, "recap")
       \/ t \in Deleters /\ Goto(t, "delete")
       \/ t = Reaper     /\ Goto(t, "idle")
       \/ t = Shutdown   /\ Goto(t, "exit")
    /\ target' = [target EXCEPT ![t] = IF t \in Deleters THEN @ ELSE None]
    /\ UNCHANGED <<storeVars, mapVars, holder, osVars, sess, todo, local>>

-----------------------------------------------------------------------------
(* The callers of stop *)

\* delete_session: stop, whose NotFound is tolerated, then store.delete.
DeleteStart(d, s) ==
    /\ pc[d] = "idle" /\ pc[Shutdown] = "idle"
    /\ Goto(d, "stopping")
    /\ todo' = [todo EXCEPT ![d] = {s}]
    /\ target' = [target EXCEPT ![d] = s]
    /\ UNCHANGED <<storeVars, mapVars, holder, osVars, sess, local>>

Delete(d) ==
    /\ pc[d] = "delete"
    /\ stored' = stored \ {target[d]}
    /\ sidecar' = [sidecar EXCEPT ![target[d]] = NoRecord]
    /\ target' = [target EXCEPT ![d] = None]
    /\ Goto(d, "idle")
    /\ UNCHANGED <<mapVars, holder, osVars, sess, todo, local>>

\* An automatic session's id is derived from the conversation, so the id of a
\* deleted session can come back.
Create(s) ==
    /\ pc[Shutdown] = "idle"
    /\ s \notin stored
    /\ stored' = stored \cup {s}
    /\ UNCHANGED <<sidecar, mapVars, holder, osVars, taskVars>>

\* A sidecar passes the idle timeout.
Age(s) ==
    /\ IdleEnabled
    /\ last[s] = "fresh"
    /\ last' = [last EXCEPT ![s] = "idle"]
    /\ UNCHANGED <<storeVars, managed, holder, osVars, taskVars>>

\* reap_idle in the background task: a snapshot of the expired sessions.
Scan ==
    /\ pc[Reaper] = "idle" /\ pc[Shutdown] = "idle"
    /\ IdleEnabled /\ Expired # {}
    /\ Goto(Reaper, "stopping")
    /\ todo' = [todo EXCEPT ![Reaper] = Expired]
    /\ UNCHANGED <<storeVars, mapVars, holder, osVars, sess, target, local>>

\* axum has finished the open requests; `idle.abort()` drops the reaper at an
\* await; stop_all takes the keys of `processes`.
StopAll ==
    /\ pc[Shutdown] = "idle"
    /\ \A t \in Requests \cup Deleters : pc[t] = "idle"
    /\ pc[Reaper] \in {"idle", "stopping", "stopWait", "stopClear"}
    /\ pc' = [pc EXCEPT ![Reaper] = "idle", ![Shutdown] = "stopping"]
    /\ todo' = [todo EXCEPT ![Reaper] = {}, ![Shutdown] = ManagedSessions]
    /\ target' = [target EXCEPT ![Reaper] = None]
    /\ local' = [local EXCEPT ![Reaper] = NoRecord]
    /\ UNCHANGED <<storeVars, mapVars, holder, osVars, sess>>

\* The proxy has exited, or dies; a new one starts with empty maps and runs
\* clear_stale_runtime.  Each sidecar leads its own session (setsid) and
\* survives; init reaps the zombies.
Restart ==
    /\ MayCrash \/ pc[Shutdown] = "exit"
    /\ LET after == [p \in Pids |-> IF proc[p].state = "zombie" THEN Gone ELSE proc[p]] IN
       /\ proc' = after
       /\ sidecar' = [s \in Sessions |->
            IF sidecar[s].pid # None /\ after[sidecar[s].pid] = Gone
            THEN NoRecord ELSE sidecar[s]]
    /\ kids' = {}
    /\ managed' = [s \in Sessions |-> None]
    /\ last' = [s \in Sessions |-> "none"]
    /\ holder' = [s \in Sessions |-> None]
    /\ pc' = [t \in Tasks |-> "idle"]
    /\ sess' = [r \in Requests |-> None]
    /\ target' = [t \in Tasks |-> None]
    /\ todo' = [t \in Tasks |-> {}]
    /\ local' = [t \in Tasks |-> NoRecord]
    /\ UNCHANGED stored

-----------------------------------------------------------------------------
(* The sidecar processes, and the rest of the machine *)

\* The CLI opens its port, or exits when somebody else has it.
Bind(p) ==
    /\ proc[p].state = "boot"
    /\ proc' = [proc EXCEPT ![p] =
                   IF Bound(proc[p].port) THEN Ended(p) ELSE WithState(p, "up")]
    /\ UNCHANGED <<storeVars, mapVars, holder, kids, taskVars>>

Flap(p) ==
    /\ MaySicken
    /\ proc[p].state \in {"up", "sick"}
    /\ proc' = [proc EXCEPT ![p] =
                   WithState(p, IF proc[p].state = "up" THEN "sick" ELSE "up")]
    /\ UNCHANGED <<storeVars, mapVars, holder, kids, taskVars>>

ProcessExit(p) ==
    /\ proc[p].state \in Live
    /\ proc' = [proc EXCEPT ![p] = Ended(p)]
    /\ UNCHANGED <<storeVars, mapVars, holder, kids, taskVars>>

\* An unrelated program gets a free pid.
Unrelated(p) ==
    /\ MayReusePid
    /\ proc[p] = Gone
    /\ proc' = [proc EXCEPT ![p] = Nobody("other")]
    /\ UNCHANGED <<storeVars, mapVars, holder, kids, taskVars>>

-----------------------------------------------------------------------------
StopStep(t) ==
    \/ \E s \in Sessions : StopGet(t, s)
    \/ StopKill(t) \/ StopWait(t) \/ StopClear(t) \/ StopForget(t) \/ StopDone(t)

\* The steps of ensure once it holds the session lock.
EnsureStep(r) ==
    \/ Reconcile(r)
    \/ \E s \in Sessions : ForgetExited(r, s)
    \/ Get(r) \/ Probe(r) \/ CheckCap(r)
    \/ \E p \in Pids, q \in Ports : Spawn(r, p, q)
    \/ Refuse(r) \/ Poll(r) \/ Adopt(r) \/ Manage(r)

RequestNext(r) ==
    \/ \E s \in Sessions : Arrive(r, s)
    \/ Lock(r) \/ EnsureStep(r) \/ Answer(r) \/ Disconnect(r)

ServerNext ==
    \/ \E d \in Deleters : Delete(d) \/ \E s \in Sessions : DeleteStart(d, s)
    \/ \E s \in Sessions : Create(s) \/ Age(s)
    \/ Scan \/ StopAll \/ Restart

MachineNext == \E p \in Pids : Bind(p) \/ Flap(p) \/ ProcessExit(p) \/ Unrelated(p)

Next ==
    \/ \E r \in Requests : RequestNext(r)
    \/ \E t \in Tasks : StopStep(t)
    \/ ServerNext
    \/ MachineNext

Spec == Init /\ [][Next]_vars

\* The runtime polls every task that can run.  The session mutex is tokio's,
\* which serves its waiters first come first served, hence strong fairness.
\* Nothing obliges a client to come or to leave, a sidecar to start, answer or
\* exit, or the proxy to stop.
Fairness ==
    /\ \A r \in Requests : SF_vars(Lock(r)) /\ WF_vars(EnsureStep(r))
    /\ \A t \in Tasks : WF_vars(StopStep(t))
    /\ \A d \in Deleters : WF_vars(Delete(d))

FairSpec == Spec /\ Fairness

-----------------------------------------------------------------------------
(* Properties *)

Record       == [pid : Pids \cup {None}, port : Ports \cup {None}]
Process      == [state : Live \cup {"free", "zombie", "other"},
                 session : Sessions \cup {None}, port : Ports \cup {None}]
StopPoints   == {"stopping", "stopKill", "stopWait", "stopClear", "stopForget"}
Starting     == {"poll", "adopt", "manage"}
\* Where ensure holds the session lock.
Critical     == {"reconcile", "forget", "probe", "cap", "recap"} \cup Starting \cup StopPoints

\* Every record, map and local holds values of the kind the code gives it; in
\* particular only a session is ever used as a key of a map.
TypeOK ==
    /\ stored \subseteq Sessions
    /\ sidecar \in [Sessions -> Record]
    /\ managed \in [Sessions -> Pids \cup {None}]
    /\ last \in [Sessions -> {"none", "fresh", "idle"}]
    /\ holder \in [Sessions -> Requests \cup {None}]
    /\ proc \in [Pids -> Process]
    /\ kids \subseteq Pids
    /\ pc \in [Tasks -> {"idle", "lock", "stream", "error", "delete", "exit"} \cup Critical]
    /\ sess \in [Requests -> Sessions \cup {None}]
    /\ target \in [Tasks -> Sessions \cup {None}]
    /\ todo \in [Tasks -> SUBSET Sessions]
    /\ local \in [Tasks -> Record]

\* The session lock is held exactly by the request that is inside ensure for
\* that session, however ensure ends -- reuse, start, error or a client that
\* hangs up: so no two requests ever start a sidecar for one session at a time.
LockInv ==
    /\ \A r \in Requests : pc[r] \in Critical =>
           sess[r] \in Sessions /\ holder[sess[r]] = r
    /\ \A s \in Sessions : holder[s] # None => pc[holder[s]] \in Critical /\ sess[holder[s]] = s

StartingRequests == {r \in Requests : pc[r] \in Starting}

ChildOf(p, s) == proc[p].state = "zombie" \/ (proc[p].state \in Live /\ proc[p].session = s)

\* A Child handle is a process the proxy has not waited for yet, started for
\* the session that holds it, and there is one handle per process: the map and
\* the ensures that are starting a sidecar never share one.  So a `wait` always
\* has a child to wait for, and a signal reaches no process twice.
Ownership ==
    /\ \A s \in ManagedSessions : managed[s] \in kids /\ ChildOf(managed[s], s)
    /\ \A s, z \in ManagedSessions : managed[s] = managed[z] => s = z
    /\ \A r \in StartingRequests : local[r].pid \in kids /\ ChildOf(local[r].pid, sess[r])
    /\ \A r, q \in StartingRequests : local[r].pid = local[q].pid => r = q
    /\ \A s \in ManagedSessions, r \in StartingRequests : managed[s] # local[r].pid
    /\ \A p \in kids : proc[p].state \in Live \cup {"zombie"}

\* How far concurrent ensures can overshoot PROXY_MAX_SIDECARS: the cap is
\* looked at before the start and the child counted after it, so each request
\* but the one at the cap may add one.  With one request at a time it is exact.
CapBound ==
    Cardinality(ManagedSessions) + Cardinality(StartingRequests)
        <= MaxSidecars - 1 + Cardinality(Requests)

\* An ensure that starts a sidecar and then returns an error -- the child
\* exited, the deadline passed, or the session was deleted meanwhile -- leaves
\* no process behind.
FailedStartLeavesNothing ==
    [][\A r \in Requests :
          pc[r] \in {"poll", "adopt"} /\ pc'[r] = "error" => proc'[local[r].pid] = Gone]_vars

\* stop ends no process but a sidecar of the session it stops, whatever has
\* become of the recorded pid since: a reused pid is never signalled.
StopTouchesOnlyItsSession ==
    [][\A t \in Tasks, p \in Pids :
          /\ pc[t] \in {"stopKill", "stopWait"} /\ pc'[t] \in {"stopWait", "stopClear"}
          /\ pc[t] # pc'[t]
          /\ proc'[p] # proc[p]
          => proc[p].state = "zombie" \/ proc[p].session = target[t]]_vars

\* Every live child of the proxy is one it can still find: managed for some
\* session, or held by the ensure that is starting it.  It holds while clients
\* wait for their answers and the cap leaves no room to replace a sick sidecar.
NoOrphan ==
    \A p \in kids : proc[p].state \in Live =>
        \/ \E s \in Sessions : managed[s] = p
        \/ \E r \in Requests : pc[r] \in Starting /\ local[r].pid = p

\* Every ensure returns -- an answer or an error, never a deadlock among the
\* session mutexes and the stops that ensure itself makes at the cap.
EnsureReturns == \A r \in Requests :
    pc[r] \in {"lock"} \cup Critical ~> pc[r] \in {"stream", "error", "idle"}

\* And so does every deletion, though an ensure of its session runs and the
\* reaper stops it too.
DeleteReturns == \A d \in Deleters : pc[d] # "idle" ~> pc[d] = "idle"

\* No request waits for ever, with all of them at the same mutexes.
CallsReturn == EnsureReturns /\ DeleteReturns

\* Once stop_all has returned, no child of the proxy is alive.
ShutdownLeavesNoChild ==
    pc[Shutdown] = "exit" => \A p \in kids : proc[p].state \notin Live

=============================================================================
