------------------------ MODULE SidecarManagerProofs ------------------------
(***************************************************************************)
(* Proofs about SidecarManager for every number of sessions, requests,     *)
(* deleters, processes and ports and for every cap.                        *)
(***************************************************************************)
EXTENDS SidecarManager, FiniteSetTheorems, TLAPS

USE SidecarAssumption

-----------------------------------------------------------------------------
(* Types *)

\* The code's maps are empty at the start.
LEMMA TypeInit == Init => TypeOK
  BY DEF Init, TypeOK, Record, Process, NoRecord, Gone, Nobody, Tasks, Live

\* The values that several actions assign have their types.
LEMMA Values ==
  /\ NoRecord \in Record
  /\ Gone \in Process /\ Nobody("other") \in Process
  /\ \A p : Ended(p) \in Process
  BY DEF Record, Process, NoRecord, Gone, Nobody, Live, Ended

\* Dropping a lock guard keeps the owners' type.
LEMMA ReleaseType ==
  ASSUME TypeOK, NEW r, Release(r)
  PROVE  holder' \in [Sessions -> Requests \cup {None}]
  BY DEF TypeOK, Release

\* Reaping a child keeps the process table's type.
LEMMA TerminateChildType ==
  ASSUME TypeOK, NEW p, TerminateChild(p)
  PROVE  proc' \in [Pids -> Process] /\ kids' \subseteq Pids
  BY Values DEF TypeOK, TerminateChild

\* A step of ensure keeps the types.
LEMMA TypeEnsure ==
  ASSUME TypeOK, NEW r \in Requests, EnsureStep(r)
  PROVE  TypeOK'
<1> USE DEF storeVars, mapVars, osVars, taskVars, Tasks, Goto, Critical, Starting, StopPoints
<1>1. CASE Reconcile(r)
  BY <1>1, Values DEF TypeOK, Reconcile, ManagedSessions
<1>2. ASSUME NEW s \in Sessions, ForgetExited(r, s) PROVE TypeOK'
  BY <1>2, Values DEF TypeOK, ForgetExited
<1>3. CASE Get(r)
  BY <1>3, ReleaseType, Values DEF TypeOK, Get, Fail
<1>4. CASE Probe(r)
  BY <1>4, ReleaseType, Values DEF TypeOK, Probe
<1>5. CASE CheckCap(r)
  BY <1>5 DEF TypeOK, CheckCap, Expired
<1>6. ASSUME NEW p \in Pids, NEW q \in Ports, Spawn(r, p, q) PROVE TypeOK'
  BY <1>6 DEF TypeOK, Spawn, Record, Process, Live
<1>7. CASE Refuse(r)
  BY <1>7, ReleaseType DEF TypeOK, Refuse, Fail
<1>8. CASE Poll(r)
  BY <1>8, ReleaseType, TerminateChildType, Values DEF TypeOK, Poll, Fail
<1>9. CASE Adopt(r)
  BY <1>9, ReleaseType, TerminateChildType, Values DEF TypeOK, Adopt, Fail
<1>10. CASE Manage(r)
  BY <1>10, ReleaseType DEF TypeOK, Manage, Record
<1> QED
  BY <1>1, <1>2, <1>3, <1>4, <1>5, <1>6, <1>7, <1>8, <1>9, <1>10 DEF EnsureStep

\* A step of stop keeps the types.
LEMMA TypeStop ==
  ASSUME TypeOK, NEW t \in Tasks, StopStep(t)
  PROVE  TypeOK'
<1> USE DEF storeVars, mapVars, osVars, taskVars, Goto, Critical, Starting, StopPoints
<1>1. ASSUME NEW s \in Sessions, StopGet(t, s) PROVE TypeOK'
  BY <1>1 DEF TypeOK, StopGet
<1>2. CASE StopKill(t)
  BY <1>2, TerminateChildType, Values DEF TypeOK, StopKill
<1>3. CASE StopWait(t)
  BY <1>3, Values DEF TypeOK, StopWait
<1>4. CASE StopClear(t)
  BY <1>4, Values DEF TypeOK, StopClear
<1>5. CASE StopForget(t)
  BY <1>5 DEF TypeOK, StopForget
<1>6. CASE StopDone(t)
  BY <1>6 DEF TypeOK, StopDone
<1> QED
  BY <1>1, <1>2, <1>3, <1>4, <1>5, <1>6 DEF StopStep

\* A step of a client, of the handlers, of the reaper or of `serve` keeps them.
LEMMA TypeServer ==
  ASSUME TypeOK, ServerNext
  PROVE  TypeOK'
<1> USE DEF storeVars, mapVars, osVars, taskVars, Tasks, Goto, Critical, Starting, StopPoints
<1>1. ASSUME NEW d \in Deleters, Delete(d) PROVE TypeOK'
  BY <1>1, Values DEF TypeOK, Delete
<1>2. ASSUME NEW d \in Deleters, NEW s \in Sessions, DeleteStart(d, s) PROVE TypeOK'
  BY <1>2 DEF TypeOK, DeleteStart
<1>3. ASSUME NEW s \in Sessions, Create(s) \/ Age(s) PROVE TypeOK'
  BY <1>3 DEF TypeOK, Create, Age
<1>4. CASE Scan
  BY <1>4 DEF TypeOK, Scan, Expired
<1>5. CASE StopAll
  BY <1>5, Values DEF TypeOK, StopAll, ManagedSessions
<1>6. CASE Restart
  BY <1>6, Values DEF TypeOK, Restart
<1> QED
  BY <1>1, <1>2, <1>3, <1>4, <1>5, <1>6 DEF ServerNext

\* So does a step of the machine.
LEMMA TypeMachine ==
  ASSUME TypeOK, MachineNext
  PROVE  TypeOK'
<1> SUFFICES ASSUME NEW p \in Pids, Bind(p) \/ Flap(p) \/ ProcessExit(p) \/ Unrelated(p)
             PROVE  TypeOK'
  BY DEF MachineNext
<1> USE DEF storeVars, mapVars, taskVars
<1>1. WithState(p, "up") \in Process /\ WithState(p, "sick") \in Process
  BY DEF TypeOK, Process, Live, WithState
<1>2. proc' \in [Pids -> Process]
  BY <1>1, Values DEF TypeOK, Bind, Flap, ProcessExit, Unrelated
<1> QED
  BY <1>2 DEF TypeOK, Bind, Flap, ProcessExit, Unrelated

\* A client's arrival, its wait for the lock and its departure keep them.
LEMMA TypeRequest ==
  ASSUME TypeOK, NEW r \in Requests, RequestNext(r)
  PROVE  TypeOK'
<1> USE DEF storeVars, mapVars, osVars, Tasks, Goto, Critical, Starting, StopPoints
<1>1. ASSUME NEW s \in Sessions, Arrive(r, s) PROVE TypeOK'
  BY <1>1 DEF TypeOK, Arrive
<1>2. CASE Lock(r)
  BY <1>2 DEF TypeOK, Lock
<1>3. CASE Answer(r)
  BY <1>3, Values DEF TypeOK, Answer
<1>4. CASE Disconnect(r)
  BY <1>4, Values, ReleaseType DEF TypeOK, Disconnect
<1> QED
  BY <1>1, <1>2, <1>3, <1>4, TypeEnsure DEF RequestNext

\* TypeOK: every map, record and local keeps its type.
LEMMA TypeNext ==
  ASSUME TypeOK, [Next]_vars
  PROVE  TypeOK'
<1>1. CASE UNCHANGED vars
  BY <1>1 DEF TypeOK, vars, storeVars, mapVars, osVars, taskVars
<1> QED
  BY <1>1, TypeRequest, TypeStop, TypeServer, TypeMachine DEF Next

\* TypeOK holds in every behaviour of ensure, stop, the handlers and the reaper.
THEOREM TypeCorrect == Spec => []TypeOK
  BY TypeInit, TypeNext, PTL DEF Spec

-----------------------------------------------------------------------------
(* The session lock *)

\* A request waiting for the lock knows its session: what LockInv needs to be
\* inductive.
WaitersKnow == \A r \in Requests : pc[r] = "lock" => sess[r] \in Sessions

LockIInv == TypeOK /\ WaitersKnow /\ LockInv

\* Nobody holds a lock at the start.
LEMMA LockInit == Init => LockIInv
  BY TypeInit DEF Init, LockIInv, WaitersKnow, LockInv, Tasks, Critical, Starting, StopPoints

\* A step of a request inside ensure: the lock is kept or is dropped with it.
LEMMA LockEnsure ==
  ASSUME LockIInv, NEW r \in Requests, EnsureStep(r), TypeOK'
  PROVE  LockIInv'
<1> USE DEF LockIInv, TypeOK, WaitersKnow, LockInv, storeVars, mapVars, osVars, taskVars,
            Tasks, Goto, Fail, Release, Critical, Starting, StopPoints
<1>1. CASE Reconcile(r)
  BY <1>1 DEF Reconcile
<1>2. ASSUME NEW s \in Sessions, ForgetExited(r, s) PROVE LockIInv'
  BY <1>2 DEF ForgetExited
<1>3. CASE Get(r)
  BY <1>3 DEF Get
<1>4. CASE Probe(r)
  BY <1>4 DEF Probe
<1>5. CASE CheckCap(r)
  BY <1>5 DEF CheckCap
<1>6. ASSUME NEW p \in Pids, NEW q \in Ports, Spawn(r, p, q) PROVE LockIInv'
  BY <1>6 DEF Spawn
<1>7. CASE Refuse(r)
  BY <1>7 DEF Refuse
<1>8. CASE Poll(r)
  BY <1>8 DEF Poll
<1>9. CASE Adopt(r)
  BY <1>9 DEF Adopt
<1>10. CASE Manage(r)
  BY <1>10 DEF Manage
<1> QED
  BY <1>1, <1>2, <1>3, <1>4, <1>5, <1>6, <1>7, <1>8, <1>9, <1>10 DEF EnsureStep

\* A step of stop, made by a request inside ensure or by another task.
LEMMA LockStop ==
  ASSUME LockIInv, NEW t \in Tasks, StopStep(t), TypeOK'
  PROVE  LockIInv'
<1> USE DEF LockIInv, TypeOK, WaitersKnow, LockInv, storeVars, mapVars, osVars, taskVars,
            Tasks, Goto, Critical, Starting, StopPoints
<1>1. ASSUME NEW s \in Sessions, StopGet(t, s) PROVE LockIInv'
  BY <1>1 DEF StopGet
<1>2. CASE StopKill(t)
  BY <1>2 DEF StopKill
<1>3. CASE StopWait(t)
  BY <1>3 DEF StopWait
<1>4. CASE StopClear(t)
  BY <1>4 DEF StopClear
<1>5. CASE StopForget(t)
  BY <1>5 DEF StopForget
<1>6. CASE StopDone(t)
  BY <1>6 DEF StopDone
<1> QED
  BY <1>1, <1>2, <1>3, <1>4, <1>5, <1>6 DEF StopStep

\* Taking the lock, and a client that comes, leaves or hangs up.
LEMMA LockRequest ==
  ASSUME LockIInv, NEW r \in Requests, RequestNext(r), TypeOK'
  PROVE  LockIInv'
<1> USE DEF LockIInv, TypeOK, WaitersKnow, LockInv, storeVars, mapVars, osVars,
            Tasks, Goto, Release, Critical, Starting, StopPoints
<1>1. ASSUME NEW s \in Sessions, Arrive(r, s) PROVE LockIInv'
  BY <1>1 DEF Arrive
<1>2. CASE Lock(r)
  BY <1>2 DEF Lock
<1>3. CASE Answer(r)
  BY <1>3 DEF Answer
<1>4. CASE Disconnect(r)
  BY <1>4 DEF Disconnect
<1> QED
  BY <1>1, <1>2, <1>3, <1>4, LockEnsure DEF RequestNext

\* The other tasks neither hold nor wait for a session lock.
LEMMA LockServer ==
  ASSUME LockIInv, ServerNext, TypeOK'
  PROVE  LockIInv'
<1> USE DEF LockIInv, TypeOK, WaitersKnow, LockInv, storeVars, mapVars, osVars, taskVars,
            Tasks, Goto, Critical, Starting, StopPoints
<1>1. ASSUME NEW d \in Deleters, Delete(d) PROVE LockIInv'
  BY <1>1 DEF Delete
<1>2. ASSUME NEW d \in Deleters, NEW s \in Sessions, DeleteStart(d, s) PROVE LockIInv'
  BY <1>2 DEF DeleteStart
<1>3. ASSUME NEW s \in Sessions, Create(s) \/ Age(s) PROVE LockIInv'
  BY <1>3 DEF Create, Age
<1>4. CASE Scan
  BY <1>4 DEF Scan
<1>5. CASE StopAll
  BY <1>5 DEF StopAll
<1>6. CASE Restart
  BY <1>6 DEF Restart
<1> QED
  BY <1>1, <1>2, <1>3, <1>4, <1>5, <1>6 DEF ServerNext

\* Every step keeps the lock invariant.
LEMMA LockNext ==
  ASSUME LockIInv, [Next]_vars
  PROVE  LockIInv'
<1>1. TypeOK'
  BY TypeNext DEF LockIInv
<1>2. CASE MachineNext \/ UNCHANGED vars
  BY <1>1, <1>2 DEF LockIInv, WaitersKnow, LockInv, MachineNext, Bind, Flap, ProcessExit,
     Unrelated, vars, storeVars, mapVars, osVars, taskVars
<1> QED
  BY <1>1, <1>2, LockRequest, LockStop, LockServer DEF Next

\* LockInv: for any number of requests, a session's lock is held exactly by the
\* one request that is inside ensure for it.
THEOREM LockCorrect == Spec => []LockInv
<1>1. LockIInv => LockInv
  BY DEF LockIInv
<1> QED
  BY <1>1, LockInit, LockNext, PTL DEF Spec

-----------------------------------------------------------------------------
(* The cap *)

\* Both sets that CapBound counts are finite.
LEMMA CountedFinite ==
  ASSUME TypeOK
  PROVE  /\ IsFiniteSet(ManagedSessions) /\ IsFiniteSet(StartingRequests)
         /\ Cardinality(ManagedSessions) \in Nat
         /\ Cardinality(StartingRequests) \in Nat
         /\ Cardinality(Requests) \in Nat
         /\ Cardinality(StartingRequests) <= Cardinality(Requests)
<1>1. ManagedSessions \in SUBSET Sessions /\ StartingRequests \in SUBSET Requests
  BY DEF ManagedSessions, StartingRequests
<1> QED
  BY <1>1, FS_Subset, FS_CardinalityType

\* A step that adds no child to either set keeps the bound.
LEMMA CapShrinks ==
  ASSUME TypeOK, CapBound,
         ManagedSessions' \subseteq ManagedSessions,
         StartingRequests' \subseteq StartingRequests
  PROVE  CapBound'
<1>1. /\ Cardinality(ManagedSessions') <= Cardinality(ManagedSessions)
      /\ Cardinality(StartingRequests') <= Cardinality(StartingRequests)
      /\ Cardinality(ManagedSessions') \in Nat /\ Cardinality(StartingRequests') \in Nat
  BY CountedFinite, FS_Subset, FS_CardinalityType
<1> QED
  BY <1>1, CountedFinite DEF CapBound

\* A start is only made below the cap, and each request makes one at a time.
LEMMA CapSpawn ==
  ASSUME TypeOK, TypeOK', NEW r \in Requests, NEW p \in Pids, NEW q \in Ports, Spawn(r, p, q)
  PROVE  CapBound'
<1>1. ManagedSessions' = ManagedSessions
  BY DEF Spawn, ManagedSessions, mapVars
<1>2. Cardinality(ManagedSessions) <= MaxSidecars - 1
  BY CountedFinite DEF Spawn, AtCap
<1>3. Cardinality(StartingRequests') \in Nat
      /\ Cardinality(StartingRequests') <= Cardinality(Requests)
  <2>1. StartingRequests' \in SUBSET Requests
    BY DEF StartingRequests
  <2> QED
    BY <2>1, FS_Subset, FS_CardinalityType
<1> QED
  BY <1>1, <1>2, <1>3, CountedFinite DEF CapBound

\* The child moves from the request that started it to the map.
LEMMA CapManage ==
  ASSUME TypeOK, CapBound, NEW r \in Requests, Manage(r)
  PROVE  CapBound'
<1>1. ManagedSessions' \in SUBSET (ManagedSessions \cup {sess[r]})
  BY DEF Manage, ManagedSessions, TypeOK
<1>2. StartingRequests' = StartingRequests \ {r} /\ r \in StartingRequests
  BY DEF Manage, StartingRequests, Starting, Goto, TypeOK, Tasks
<1>3. /\ Cardinality(ManagedSessions') <= Cardinality(ManagedSessions) + 1
      /\ Cardinality(ManagedSessions') \in Nat
  <2>1. /\ IsFiniteSet(ManagedSessions \cup {sess[r]})
        /\ Cardinality(ManagedSessions \cup {sess[r]}) \in Nat
        /\ Cardinality(ManagedSessions \cup {sess[r]}) <= Cardinality(ManagedSessions) + 1
    <3> DEFINE S == ManagedSessions
               x == sess[r]
    <3>1. IsFiniteSet(S) /\ Cardinality(S) \in Nat
      BY CountedFinite
    <3> HIDE DEF S, x
    <3>2. IsFiniteSet(S \cup {x})
      BY <3>1, FS_AddElement
    <3>3. Cardinality(S \cup {x}) = IF x \in S THEN Cardinality(S) ELSE Cardinality(S) + 1
      BY <3>1, FS_AddElement
    <3>4. Cardinality(S \cup {x}) \in Nat /\ Cardinality(S \cup {x}) <= Cardinality(S) + 1
      BY <3>1, <3>3
    <3> QED
      BY <3>2, <3>4 DEF S, x
  <2>2. /\ IsFiniteSet(ManagedSessions')
        /\ Cardinality(ManagedSessions') <= Cardinality(ManagedSessions \cup {sess[r]})
    BY <1>1, <2>1, FS_Subset
  <2> QED
    BY <2>1, <2>2, CountedFinite, FS_CardinalityType
<1>4. Cardinality(StartingRequests') = Cardinality(StartingRequests) - 1
  BY <1>2, CountedFinite, FS_RemoveElement
<1> QED
  BY <1>3, <1>4, CountedFinite DEF CapBound

\* Every other step adds no child to either set.
LEMMA CapOthers ==
  ASSUME TypeOK, [Next]_vars,
         ~ \E r \in Requests : Manage(r) \/ \E p \in Pids, q \in Ports : Spawn(r, p, q)
  PROVE  /\ ManagedSessions' \subseteq ManagedSessions
         /\ StartingRequests' \subseteq StartingRequests
<1> USE DEF TypeOK, ManagedSessions, StartingRequests, Starting, Goto, Fail, Tasks,
            storeVars, mapVars, osVars, taskVars
<1>1. ASSUME NEW r \in Requests, EnsureStep(r)
      PROVE  /\ ManagedSessions' \subseteq ManagedSessions
             /\ StartingRequests' \subseteq StartingRequests
  <2>1. CASE Reconcile(r) \/ \E s \in Sessions : ForgetExited(r, s)
    BY <2>1 DEF Reconcile, ForgetExited
  <2>2. CASE Get(r) \/ Probe(r) \/ CheckCap(r) \/ Refuse(r)
    BY <2>2 DEF Get, Probe, CheckCap, Refuse
  <2>3. CASE Poll(r) \/ Adopt(r)
    BY <2>3 DEF Poll, Adopt
  <2> QED
    BY <1>1, <2>1, <2>2, <2>3 DEF EnsureStep
<1>2. ASSUME NEW t \in Tasks, StopStep(t)
      PROVE  /\ ManagedSessions' \subseteq ManagedSessions
             /\ StartingRequests' \subseteq StartingRequests
  BY <1>2 DEF StopStep, StopGet, StopKill, StopWait, StopClear, StopForget, StopDone
<1>3. ASSUME NEW r \in Requests,
             (\E s \in Sessions : Arrive(r, s)) \/ Lock(r) \/ Answer(r) \/ Disconnect(r)
      PROVE  /\ ManagedSessions' \subseteq ManagedSessions
             /\ StartingRequests' \subseteq StartingRequests
  BY <1>3 DEF Arrive, Lock, Answer, Disconnect
<1>4. CASE ServerNext
  BY <1>4 DEF ServerNext, Delete, DeleteStart, Create, Age, Scan, StopAll, Restart
<1>5. CASE MachineNext \/ UNCHANGED vars
  BY <1>5 DEF MachineNext, Bind, Flap, ProcessExit, Unrelated, vars
<1> QED
  BY <1>1, <1>2, <1>3, <1>4, <1>5 DEF Next, RequestNext

\* CapBound: with n concurrent requests the cap is exceeded by at most n - 1,
\* counting the sidecars being started.
THEOREM CapCorrect == Spec => []CapBound
<1> DEFINE CapIInv == TypeOK /\ CapBound
<1>1. Init => CapIInv
  <2>1. Init => ManagedSessions = {} /\ StartingRequests = {}
    BY DEF Init, ManagedSessions, StartingRequests, Starting, Tasks
  <2>2. Cardinality(Requests) \in Nat /\ Cardinality(Requests) # 0
    BY FS_CardinalityType, FS_EmptySet
  <2> QED
    <3>1. Init => Cardinality(ManagedSessions) = 0 /\ Cardinality(StartingRequests) = 0
      BY <2>1, FS_EmptySet
    <3>2. 0 + 0 <= MaxSidecars - 1 + Cardinality(Requests)
      BY <2>2
    <3> QED
      BY <3>1, <3>2, TypeInit DEF CapBound
<1>2. CapIInv /\ [Next]_vars => CapIInv'
  <2> SUFFICES ASSUME TypeOK, CapBound, [Next]_vars PROVE CapIInv'
    OBVIOUS
  <2>1. TypeOK'
    BY TypeNext
  <2>2. CASE \E r \in Requests : Manage(r) \/ \E p \in Pids, q \in Ports : Spawn(r, p, q)
    BY <2>1, <2>2, CapManage, CapSpawn
  <2>3. CASE ~ \E r \in Requests : Manage(r) \/ \E p \in Pids, q \in Ports : Spawn(r, p, q)
    BY <2>1, <2>3, CapOthers, CapShrinks
  <2> QED
    BY <2>2, <2>3
<1>3. CapIInv => CapBound
  OBVIOUS
<1> QED
  BY <1>1, <1>2, <1>3, PTL DEF Spec

-----------------------------------------------------------------------------
(* Child processes *)

\* A task that is about to stop a session has one: what Ownership needs to be
\* inductive.
StopsASession == \A t \in Tasks : pc[t] = "stopKill" => target[t] \in Sessions

OwnIInv == TypeOK /\ StopsASession /\ Ownership

\* There is no process at the start.
LEMMA OwnInit == Init => OwnIInv
  BY TypeInit DEF Init, OwnIInv, StopsASession, Ownership, ManagedSessions,
     StartingRequests, Starting, Tasks

\* A step that leaves the processes, the map and the starting requests alone.
LEMMA OwnStutter ==
  ASSUME OwnIInv, TypeOK', StopsASession', UNCHANGED <<managed, proc, kids>>,
         StartingRequests' \subseteq StartingRequests,
         \A r \in StartingRequests' : local'[r] = local[r] /\ sess'[r] = sess[r]
  PROVE  OwnIInv'
<1>1. ManagedSessions' = ManagedSessions
  BY DEF ManagedSessions
<1>2. \A p, s : ChildOf(p, s)' <=> ChildOf(p, s)
  BY DEF ChildOf
<1> QED
  BY <1>1, <1>2 DEF OwnIInv, Ownership

\* A step that waits for children nobody holds any more once it is made.
LEMMA OwnReap ==
  ASSUME OwnIInv, TypeOK', StopsASession', NEW dead \in SUBSET Pids,
         proc' = [p \in Pids |-> IF p \in dead THEN Gone ELSE proc[p]],
         kids' = kids \ dead,
         \A s \in ManagedSessions' :
            s \in ManagedSessions /\ managed'[s] = managed[s] /\ managed[s] \notin dead,
         \A r \in StartingRequests' :
            /\ r \in StartingRequests /\ local[r].pid \notin dead
            /\ local'[r] = local[r] /\ sess'[r] = sess[r]
  PROVE  OwnIInv'
<1>1. \A p \in kids' : p \in kids /\ p \in Pids /\ proc'[p] = proc[p]
  BY DEF OwnIInv, TypeOK
<1>2. \A p \in kids' : \A s : ChildOf(p, s)' <=> ChildOf(p, s)
  BY <1>1 DEF ChildOf
<1> QED
  BY <1>1, <1>2 DEF OwnIInv, Ownership

\* Waiting for one child.
LEMMA OwnTerminate ==
  ASSUME OwnIInv, TypeOK', StopsASession', NEW p \in Pids, TerminateChild(p),
         \A s \in ManagedSessions' :
            s \in ManagedSessions /\ managed'[s] = managed[s] /\ managed[s] # p,
         \A r \in StartingRequests' :
            /\ r \in StartingRequests /\ local[r].pid # p
            /\ local'[r] = local[r] /\ sess'[r] = sess[r]
  PROVE  OwnIInv'
<1> DEFINE dead == {p}
<1>1. dead \in SUBSET Pids
  OBVIOUS
<1>2. proc' = [q \in Pids |-> IF q \in dead THEN Gone ELSE proc[q]] /\ kids' = kids \ dead
  BY DEF TerminateChild, OwnIInv, TypeOK
<1>3. /\ \A s \in ManagedSessions' : managed[s] \notin dead
      /\ \A r \in StartingRequests' : local[r].pid \notin dead
  OBVIOUS
<1> HIDE DEF dead
<1> QED
  BY <1>1, <1>2, <1>3, OwnReap

\* The steps of ensure that wait for a child, start one or hand it over.
LEMMA OwnEnsure ==
  ASSUME OwnIInv, NEW r \in Requests, EnsureStep(r), TypeOK', StopsASession'
  PROVE  OwnIInv'
<1> USE DEF OwnIInv, Ownership, ManagedSessions, StartingRequests, Starting, Tasks, Goto, ChildOf
<1>1. CASE Reconcile(r)
  <2> DEFINE exited == {s \in ManagedSessions : proc[managed[s]].state = "zombie"}
             dead   == {managed[s] : s \in exited}
  <2>1. dead \in SUBSET Pids
    BY DEF TypeOK
  <2>2. /\ proc' = [p \in Pids |-> IF p \in dead THEN Gone ELSE proc[p]]
        /\ kids' = kids \ dead
        /\ managed' = [s \in Sessions |-> IF s \in exited THEN None ELSE managed[s]]
        /\ pc' = [pc EXCEPT ![r] = "forget"] /\ pc[r] = "reconcile"
        /\ UNCHANGED <<local, sess>>
    BY <1>1 DEF Reconcile
  <2>3. \A s \in ManagedSessions' :
           s \in ManagedSessions /\ managed'[s] = managed[s] /\ managed[s] \notin dead
    BY <2>2 DEF TypeOK
  <2>4. \A q \in StartingRequests' : q \in StartingRequests /\ local[q].pid \notin dead
    BY <2>2 DEF TypeOK
  <2> HIDE DEF dead
  <2> QED
    BY <2>1, <2>2, <2>3, <2>4, OwnReap
<1>2. ASSUME NEW s \in Sessions, ForgetExited(r, s) PROVE OwnIInv'
  BY <1>2, OwnStutter DEF ForgetExited, osVars
<1>3. CASE Get(r)
  BY <1>3, OwnStutter DEF TypeOK, Get, Fail, mapVars, osVars
<1>4. CASE Probe(r) \/ CheckCap(r) \/ Refuse(r)
  BY <1>4, OwnStutter DEF TypeOK, Probe, CheckCap, Refuse, Fail, mapVars, osVars
<1>5. ASSUME NEW p \in Pids, NEW q \in Ports, Spawn(r, p, q) PROVE OwnIInv'
  BY <1>5 DEF TypeOK, Spawn, Gone, Nobody, Live, mapVars
<1>6. CASE Poll(r)
  <2>1. CASE UNCHANGED osVars
    BY <1>6, <2>1, OwnStutter DEF TypeOK, Poll, Fail, mapVars, osVars
  <2>2. CASE TerminateChild(local[r].pid)
    <3>1. local[r].pid \in Pids
      BY <1>6 DEF Poll, TypeOK
    <3>2. /\ pc[r] = "poll" /\ pc' = [pc EXCEPT ![r] = "error"]
          /\ local' = [local EXCEPT ![r] = NoRecord]
          /\ UNCHANGED <<managed, sess>>
      <4>1. local[r].pid \in kids /\ local[r].pid \notin kids'
        BY <1>6, <2>2 DEF Poll, TerminateChild
      <4> QED
        BY <1>6, <4>1 DEF Poll, Fail, mapVars, osVars
    <3>3. /\ \A s \in ManagedSessions' :
               s \in ManagedSessions /\ managed'[s] = managed[s] /\ managed[s] # local[r].pid
          /\ \A q \in StartingRequests' :
               /\ q \in StartingRequests /\ local[q].pid # local[r].pid
               /\ local'[q] = local[q] /\ sess'[q] = sess[q]
      BY <3>2 DEF TypeOK
    <3> QED
      BY <2>2, <3>1, <3>3, OwnTerminate
  <2> QED
    BY <1>6, <2>1, <2>2 DEF Poll
<1>7. CASE Adopt(r)
  <2>1. CASE UNCHANGED osVars
    BY <1>7, <2>1, OwnStutter DEF TypeOK, Adopt, Fail, mapVars, osVars
  <2>2. CASE TerminateChild(local[r].pid)
    <3>1. local[r].pid \in Pids
      BY <1>7 DEF Adopt, TypeOK
    <3>2. /\ pc[r] = "adopt" /\ pc' = [pc EXCEPT ![r] = "error"]
          /\ local' = [local EXCEPT ![r] = NoRecord]
          /\ UNCHANGED <<managed, sess>>
      <4>1. local[r].pid \in kids /\ local[r].pid \notin kids'
        BY <1>7, <2>2 DEF Adopt, TerminateChild
      <4> QED
        BY <1>7, <4>1 DEF Adopt, Fail, mapVars, osVars
    <3>3. /\ \A s \in ManagedSessions' :
               s \in ManagedSessions /\ managed'[s] = managed[s] /\ managed[s] # local[r].pid
          /\ \A q \in StartingRequests' :
               /\ q \in StartingRequests /\ local[q].pid # local[r].pid
               /\ local'[q] = local[q] /\ sess'[q] = sess[q]
      BY <3>2 DEF TypeOK
    <3> QED
      BY <2>2, <3>1, <3>3, OwnTerminate
  <2> QED
    BY <1>7, <2>1, <2>2 DEF Adopt
<1>8. CASE Manage(r)
  BY <1>8 DEF TypeOK, Manage, storeVars, osVars
<1> QED
  BY <1>1, <1>2, <1>3, <1>4, <1>5, <1>6, <1>7, <1>8 DEF EnsureStep

\* The steps of stop that end a process.
LEMMA OwnStop ==
  ASSUME OwnIInv, NEW t \in Tasks, StopStep(t), TypeOK', StopsASession'
  PROVE  OwnIInv'
<1> USE DEF OwnIInv, Ownership, ManagedSessions, StartingRequests, Starting, Tasks, Goto, ChildOf
<1>1. (\E s \in Sessions : StopGet(t, s)) \/ StopClear(t) \/ StopForget(t) \/ StopDone(t)
      => OwnIInv'
  BY OwnStutter DEF TypeOK, StopGet, StopClear, StopForget, StopDone, mapVars, osVars
<1>2. CASE StopKill(t)
  <2>1. CASE managed[target[t]] # None
    <3>1. managed[target[t]] \in Pids /\ TerminateChild(managed[target[t]])
      BY <1>2, <2>1 DEF StopKill, StopsASession, TypeOK
    <3>2. /\ managed' = [managed EXCEPT ![target[t]] = None]
          /\ pc[t] = "stopKill" /\ pc' = [pc EXCEPT ![t] = "stopClear"]
          /\ target[t] \in ManagedSessions
          /\ UNCHANGED <<local, sess>>
      BY <1>2, <2>1 DEF StopKill, StopsASession
    <3>3. /\ \A s \in ManagedSessions' :
               /\ s \in ManagedSessions /\ managed'[s] = managed[s]
               /\ managed[s] # managed[target[t]]
          /\ \A q \in StartingRequests' :
               /\ q \in StartingRequests /\ local[q].pid # managed[target[t]]
               /\ local'[q] = local[q] /\ sess'[q] = sess[q]
      BY <3>2 DEF TypeOK
    <3> QED
      BY <3>1, <3>3, OwnTerminate
  <2>2. CASE managed[target[t]] = None
    BY <1>2, <2>2 DEF TypeOK, StopKill, Matches, Ended, Nobody, osVars
  <2> QED
    BY <2>1, <2>2
<1>3. CASE StopWait(t)
  BY <1>3 DEF TypeOK, StopWait, Matches, Ended, Nobody, mapVars
<1> QED
  BY <1>1, <1>2, <1>3 DEF StopStep

\* The machine ends or changes a process, but a child only becomes a zombie.
LEMMA OwnMachine ==
  ASSUME OwnIInv, MachineNext, TypeOK', StopsASession'
  PROVE  OwnIInv'
<1> SUFFICES ASSUME NEW p \in Pids, Bind(p) \/ Flap(p) \/ ProcessExit(p) \/ Unrelated(p)
             PROVE  OwnIInv'
  BY DEF MachineNext
<1> USE DEF OwnIInv, TypeOK, Ownership, ManagedSessions, StartingRequests, ChildOf, Live,
            mapVars, taskVars
<1>1. CASE Bind(p)
  BY <1>1 DEF Bind, Ended, WithState, Nobody
<1>2. CASE Flap(p)
  BY <1>2 DEF Flap, WithState
<1>3. CASE ProcessExit(p)
  BY <1>3 DEF ProcessExit, Ended, Nobody
<1>4. CASE Unrelated(p)
  BY <1>4 DEF Unrelated, Gone, Nobody
<1> QED
  BY <1>1, <1>2, <1>3, <1>4

\* Only StopGet leads to the kill, and it sets the target.
LEMMA TargetNext ==
  ASSUME TypeOK, StopsASession, [Next]_vars
  PROVE  StopsASession'
<1> USE DEF TypeOK, StopsASession, storeVars, mapVars, osVars, taskVars, Tasks, Goto, Fail
<1>1. ASSUME NEW r \in Requests, EnsureStep(r) PROVE StopsASession'
  BY <1>1 DEF EnsureStep, Reconcile, ForgetExited, Get, Probe, CheckCap, Spawn, Refuse,
     Poll, Adopt, Manage
<1>2. ASSUME NEW t \in Tasks, StopStep(t) PROVE StopsASession'
  BY <1>2 DEF StopStep, StopGet, StopKill, StopWait, StopClear, StopForget, StopDone
<1>3. ASSUME NEW r \in Requests,
             (\E s \in Sessions : Arrive(r, s)) \/ Lock(r) \/ Answer(r) \/ Disconnect(r)
      PROVE  StopsASession'
  BY <1>3 DEF Arrive, Lock, Answer, Disconnect
<1>4. CASE ServerNext
  BY <1>4 DEF ServerNext, Delete, DeleteStart, Create, Age, Scan, StopAll, Restart
<1>5. CASE MachineNext \/ UNCHANGED vars
  BY <1>5 DEF MachineNext, Bind, Flap, ProcessExit, Unrelated, vars
<1> QED
  BY <1>1, <1>2, <1>3, <1>4, <1>5 DEF Next, RequestNext

\* Every step keeps the ownership of the children.
LEMMA OwnNext ==
  ASSUME OwnIInv, [Next]_vars
  PROVE  OwnIInv'
<1>1. TypeOK' /\ StopsASession'
  BY TypeNext, TargetNext DEF OwnIInv
<1> USE DEF storeVars, mapVars, osVars, taskVars, Tasks, Goto, StartingRequests, Starting
<1>2. ASSUME NEW r \in Requests, \E s \in Sessions : Arrive(r, s) PROVE OwnIInv'
  BY <1>1, <1>2, OwnStutter DEF OwnIInv, TypeOK, Arrive
<1>3. ASSUME NEW r \in Requests, Lock(r) \/ Answer(r) \/ Disconnect(r) PROVE OwnIInv'
  BY <1>1, <1>3, OwnStutter DEF OwnIInv, TypeOK, Lock, Answer, Disconnect
<1>4. ASSUME NEW d \in Deleters, Delete(d) \/ \E s \in Sessions : DeleteStart(d, s) PROVE OwnIInv'
  BY <1>1, <1>4, OwnStutter DEF OwnIInv, TypeOK, Delete, DeleteStart
<1>5. CASE (\E s \in Sessions : Create(s) \/ Age(s)) \/ Scan \/ StopAll
  BY <1>1, <1>5, OwnStutter DEF OwnIInv, TypeOK, Create, Age, Scan, StopAll
<1>6. CASE Restart
  BY <1>1, <1>6 DEF OwnIInv, Ownership, ManagedSessions, Restart
<1>7. CASE UNCHANGED vars
  BY <1>1, <1>7, OwnStutter DEF vars
<1> QED
  BY <1>1, <1>2, <1>3, <1>4, <1>5, <1>6, <1>7, OwnEnsure, OwnStop, OwnMachine
     DEF Next, RequestNext, ServerNext

\* Ownership: no two holders ever share a child process, whatever the processes,
\* the clients and the stops do.
THEOREM OwnershipCorrect == Spec => []Ownership
<1>1. OwnIInv => Ownership
  BY DEF OwnIInv
<1> QED
  BY <1>1, OwnInit, OwnNext, PTL DEF Spec

\* Which steps end a start: the failing branches of the poll and of the update.
LEMMA FailedStartStep ==
  ASSUME OwnIInv, [Next]_vars, NEW r \in Requests,
         pc[r] \in {"poll", "adopt"}, pc'[r] = "error"
  PROVE  proc'[local[r].pid] = Gone
<1> USE DEF OwnIInv, TypeOK, storeVars, mapVars, osVars, taskVars, Tasks, Goto, Fail
<1>1. local[r].pid \in Pids
  BY DEF Ownership, StartingRequests, Starting
<1>2. ASSUME NEW q \in Requests, EnsureStep(q) PROVE proc'[local[r].pid] = Gone
  <2>1. CASE Poll(q) \/ Adopt(q)
    BY <1>1, <2>1 DEF Poll, Adopt, TerminateChild
  <2>2. CASE ~(Poll(q) \/ Adopt(q))
    BY <1>2, <2>2 DEF EnsureStep, Reconcile, ForgetExited, Get, Probe, CheckCap, Spawn,
       Refuse, Manage
  <2> QED
    BY <2>1, <2>2
<1>3. ASSUME NEW t \in Tasks, StopStep(t) PROVE FALSE
  BY <1>3 DEF StopStep, StopGet, StopKill, StopWait, StopClear, StopForget, StopDone
<1>4. ASSUME NEW q \in Requests,
             (\E s \in Sessions : Arrive(q, s)) \/ Lock(q) \/ Answer(q) \/ Disconnect(q)
      PROVE  FALSE
  BY <1>4 DEF Arrive, Lock, Answer, Disconnect
<1>5. CASE ServerNext
  BY <1>5 DEF ServerNext, Delete, DeleteStart, Create, Age, Scan, StopAll, Restart
<1>6. CASE MachineNext \/ UNCHANGED vars
  BY <1>6 DEF MachineNext, Bind, Flap, ProcessExit, Unrelated, vars
<1> QED
  BY <1>2, <1>3, <1>4, <1>5, <1>6 DEF Next, RequestNext

\* FailedStartLeavesNothing: whatever happens to the child and to the session
\* meanwhile, a start that fails ends the process it started.
THEOREM FailedStartCorrect == Spec => FailedStartLeavesNothing
<1>1. OwnIInv /\ [Next]_vars =>
        [\A r \in Requests :
           pc[r] \in {"poll", "adopt"} /\ pc'[r] = "error" => proc'[local[r].pid] = Gone]_vars
  BY FailedStartStep
<1> QED
  BY <1>1, OwnInit, OwnNext, PTL DEF Spec, FailedStartLeavesNothing

\* A step that moves a task on from its kill or its wait is that task's own.
LEMMA StopStepIsolated ==
  ASSUME OwnIInv, [Next]_vars, NEW t \in Tasks, NEW p \in Pids,
         pc[t] \in {"stopKill", "stopWait"}, pc'[t] \in {"stopWait", "stopClear"},
         pc[t] # pc'[t], proc'[p] # proc[p]
  PROVE  proc[p].state = "zombie" \/ proc[p].session = target[t]
<1> USE DEF OwnIInv, TypeOK, storeVars, mapVars, osVars, taskVars, Tasks, Goto, Fail
<1>1. ASSUME NEW r \in Requests, EnsureStep(r) PROVE FALSE
  BY <1>1 DEF EnsureStep, Reconcile, ForgetExited, Get, Probe, CheckCap, Spawn, Refuse,
     Poll, Adopt, Manage
<1>2. ASSUME NEW u \in Tasks, StopStep(u), u # t PROVE FALSE
  BY <1>2 DEF StopStep, StopGet, StopKill, StopWait, StopClear, StopForget, StopDone
<1>3. CASE StopKill(t)
  <2>1. CASE managed[target[t]] # None
    <3>1. target[t] \in ManagedSessions /\ p = managed[target[t]]
      BY <1>3, <2>1 DEF StopKill, StopsASession, ManagedSessions, TerminateChild
    <3> QED
      BY <3>1 DEF Ownership, ChildOf
  <2>2. CASE managed[target[t]] = None
    BY <1>3, <2>2 DEF StopKill, Matches
  <2> QED
    BY <2>1, <2>2
<1>4. CASE StopWait(t)
  BY <1>4 DEF StopWait, Matches
<1>5. CASE StopStep(t) /\ ~StopKill(t) /\ ~StopWait(t)
  BY <1>5 DEF StopStep, StopGet, StopClear, StopForget, StopDone
<1>6. ASSUME NEW r \in Requests,
             (\E s \in Sessions : Arrive(r, s)) \/ Lock(r) \/ Answer(r) \/ Disconnect(r)
      PROVE  FALSE
  BY <1>6 DEF Arrive, Lock, Answer, Disconnect
<1>7. CASE ServerNext
  BY <1>7 DEF ServerNext, Delete, DeleteStart, Create, Age, Scan, StopAll, Restart
<1>8. CASE MachineNext \/ UNCHANGED vars
  BY <1>8 DEF MachineNext, Bind, Flap, ProcessExit, Unrelated, vars
<1> QED
  BY <1>1, <1>2, <1>3, <1>4, <1>5, <1>6, <1>7, <1>8 DEF Next, RequestNext

\* StopTouchesOnlyItsSession: however the pids are reused, and whoever stops
\* what at the same time, stop ends only a sidecar of the session it stops.
THEOREM StopCorrect == Spec => StopTouchesOnlyItsSession
<1>1. OwnIInv /\ [Next]_vars =>
        [\A t \in Tasks, p \in Pids :
          /\ pc[t] \in {"stopKill", "stopWait"} /\ pc'[t] \in {"stopWait", "stopClear"}
          /\ pc[t] # pc'[t]
          /\ proc'[p] # proc[p]
          => proc[p].state = "zombie" \/ proc[p].session = target[t]]_vars
  BY StopStepIsolated
<1> QED
  BY <1>1, OwnInit, OwnNext, PTL DEF Spec, StopTouchesOnlyItsSession

-----------------------------------------------------------------------------
(* Orphans *)

\* A child the proxy can still find: managed, or being started.
Found(p) ==
    \/ \E s \in Sessions : managed[s] = p
    \/ \E r \in Requests : pc[r] \in Starting /\ local[r].pid = p

\* The two ways to lose one: the client of a start hangs up, or the sidecar that
\* takes the place of another in the map was started while that one lived.
Loses(r, p) ==
    \/ Disconnect(r) /\ pc[r] \in Starting /\ local[r].pid = p
    \/ Manage(r) /\ managed[sess[r]] = p

\* With the maps and the starts as they are, what is found stays found.
LEMMA FoundStutter ==
  ASSUME NEW p, Found(p), UNCHANGED managed,
         \A r \in Requests : pc[r] \in Starting =>
             pc'[r] \in Starting /\ local'[r] = local[r]
  PROVE  Found(p)'
BY DEF Found

\* A step of ensure loses what Loses says, and what it spawns can be found.
LEMMA FoundEnsure ==
  ASSUME OwnIInv, LockInv, NEW r \in Requests, EnsureStep(r),
         NEW p \in kids', proc'[p].state \in Live
  PROVE  \/ Found(p)'
         \/ p \in kids /\ proc[p].state \in Live /\ ~Found(p)
         \/ Loses(r, p)
<1> USE DEF OwnIInv, TypeOK, storeVars, mapVars, osVars, taskVars, Tasks, Goto
<1>1. CASE Reconcile(r)
  <2>1. p \in kids /\ proc[p].state \in Live
    BY <1>1 DEF Reconcile, Gone, Nobody, Live
  <2>2. ASSUME NEW s \in Sessions, managed[s] = p PROVE managed'[s] = p
    BY <1>1, <2>1, <2>2 DEF Reconcile, Live
  <2>3. ASSUME NEW q \in Requests, pc[q] \in Starting
        PROVE  pc'[q] \in Starting /\ local'[q] = local[q]
    BY <1>1, <2>3 DEF Reconcile, Starting
  <2> QED
    BY <2>1, <2>2, <2>3 DEF Found
<1>2. CASE (\E s \in Sessions : ForgetExited(r, s)) \/ Get(r) \/ Probe(r) \/ CheckCap(r) \/ Refuse(r)
  <2>1. UNCHANGED <<managed, osVars>> /\ pc[r] \notin Starting
    BY <1>2 DEF ForgetExited, Get, Probe, CheckCap, Refuse, Starting
  <2>2. \A q \in Requests \ {r} : pc'[q] = pc[q] /\ local'[q] = local[q]
    BY <1>2 DEF ForgetExited, Get, Probe, CheckCap, Refuse, Fail
  <2> QED
    BY <2>1, <2>2, FoundStutter
<1>3. ASSUME NEW x \in Pids, NEW y \in Ports, Spawn(r, x, y)
      PROVE  Found(p)' \/ (p \in kids /\ proc[p].state \in Live /\ ~Found(p))
  <2>1. pc'[r] \in Starting /\ local'[r].pid = x
    BY <1>3 DEF Spawn, Starting
  <2>2. CASE p = x
    BY <2>1, <2>2 DEF Found
  <2>3. CASE p # x
    <3>1. p \in kids /\ proc[p].state \in Live
      BY <1>3, <2>3 DEF Spawn
    <3>2. \A q \in Requests : pc[q] \in Starting => pc'[q] \in Starting /\ local'[q] = local[q]
      BY <1>3 DEF Spawn, Starting
    <3> QED
      BY <1>3, <3>1, <3>2, FoundStutter DEF Spawn
  <2> QED
    BY <2>2, <2>3
<1>4. CASE Poll(r) \/ Adopt(r)
  <2>1. UNCHANGED managed /\ \A q \in Requests \ {r} : pc'[q] = pc[q] /\ local'[q] = local[q]
    BY <1>4 DEF Poll, Adopt, Fail
  <2>2. CASE TerminateChild(local[r].pid)
    <3>1. p \in kids /\ p # local[r].pid /\ proc[p].state \in Live
      BY <2>2 DEF TerminateChild
    <3>2. ASSUME Found(p) PROVE Found(p)'
      BY <2>1, <3>1, <3>2 DEF Found
    <3> QED
      BY <3>1, <3>2
  <2>3. CASE ~TerminateChild(local[r].pid)
    <3>1. UNCHANGED <<kids, proc, local>> /\ pc'[r] \in Starting
      BY <1>4, <2>3 DEF Poll, Adopt, Starting
    <3> QED
      BY <2>1, <3>1, FoundStutter
  <2> QED
    BY <2>2, <2>3
<1>5. CASE Manage(r)
  <2>1. sess[r] \in Sessions
    BY <1>5 DEF LockInv, Critical, Starting, Manage
  <2>2. /\ UNCHANGED <<kids, proc, local>>
        /\ managed' = [managed EXCEPT ![sess[r]] = local[r].pid]
        /\ \A q \in Requests \ {r} : pc'[q] = pc[q]
    BY <1>5 DEF Manage
  <2>3. ASSUME Found(p), managed[sess[r]] # p PROVE Found(p)'
    BY <2>1, <2>2, <2>3 DEF Found
  <2> QED
    BY <1>5, <2>2, <2>3 DEF Loses
<1> QED
  BY <1>1, <1>2, <1>3, <1>4, <1>5 DEF EnsureStep

\* The other steps of the proxy and of the machine lose none.
LEMMA FoundStop ==
  ASSUME OwnIInv, NEW t \in Tasks, StopStep(t),
         NEW p \in kids', proc'[p].state \in Live
  PROVE  Found(p)' \/ (p \in kids /\ proc[p].state \in Live /\ ~Found(p))
<1> USE DEF OwnIInv, TypeOK, mapVars, osVars, Tasks, Goto
<1>1. \A q \in Requests : pc[q] \in Starting => pc'[q] \in Starting /\ local'[q] = local[q]
  BY DEF StopStep, StopGet, StopKill, StopWait, StopClear, StopForget, StopDone, Starting
<1>2. p \in kids /\ proc[p].state \in Live
  BY DEF StopStep, StopGet, StopKill, StopWait, StopClear, StopForget, StopDone, TerminateChild,
     Ended, Gone, Nobody, Live
<1>3. \A s \in Sessions : managed[s] = p => managed'[s] = p
  BY <1>2 DEF StopStep, StopGet, StopKill, StopWait, StopClear, StopForget, StopDone, TerminateChild
<1> QED
  BY <1>1, <1>2, <1>3 DEF Found

LEMMA FoundNext ==
  ASSUME OwnIInv, LockInv, [Next]_vars,
         NEW p \in kids', proc'[p].state \in Live
  PROVE  \/ Found(p)'
         \/ p \in kids /\ proc[p].state \in Live /\ ~Found(p)
         \/ \E r \in Requests : Loses(r, p)
<1> USE DEF OwnIInv, TypeOK, storeVars, mapVars, osVars, taskVars, Tasks, Goto
<1>1. ASSUME NEW r \in Requests, (\E s \in Sessions : Arrive(r, s)) \/ Lock(r) \/ Answer(r)
      PROVE  Found(p)' \/ (p \in kids /\ proc[p].state \in Live /\ ~Found(p))
  <2>1. UNCHANGED <<managed, kids, proc>>
    BY <1>1 DEF Arrive, Lock, Answer
  <2>2. \A q \in Requests : pc[q] \in Starting => pc'[q] \in Starting /\ local'[q] = local[q]
    BY <1>1 DEF Arrive, Lock, Answer, Starting
  <2> QED
    BY <2>1, <2>2, FoundStutter
<1>2. ASSUME NEW r \in Requests, Disconnect(r)
      PROVE  \/ Found(p)'
             \/ p \in kids /\ proc[p].state \in Live /\ ~Found(p)
             \/ Loses(r, p)
  <2>1. UNCHANGED <<managed, kids, proc>> /\ \A q \in Requests \ {r} : pc'[q] = pc[q] /\ local'[q] = local[q]
    BY <1>2 DEF Disconnect
  <2> QED
    BY <1>2, <2>1 DEF Found, Loses
<1>3. CASE \/ \E d \in Deleters : Delete(d) \/ \E s \in Sessions : DeleteStart(d, s)
           \/ (\E s \in Sessions : Create(s) \/ Age(s)) \/ Scan \/ StopAll
  <2>1. UNCHANGED <<managed, kids, proc>>
    BY <1>3 DEF Delete, DeleteStart, Create, Age, Scan, StopAll
  <2>2. \A q \in Requests : pc[q] \in Starting => pc'[q] \in Starting /\ local'[q] = local[q]
    BY <1>3 DEF Delete, DeleteStart, Create, Age, Scan, StopAll, Starting
  <2> QED
    BY <2>1, <2>2, FoundStutter
<1>4. ~Restart
  BY DEF Restart
<1>5. CASE MachineNext \/ UNCHANGED vars
  <2>1. UNCHANGED <<managed, kids, pc, local>>
    BY <1>5 DEF MachineNext, Bind, Flap, ProcessExit, Unrelated, vars
  <2>2. proc[p].state \in Live
    BY <1>5, <2>1 DEF MachineNext, Bind, Flap, ProcessExit, Unrelated, vars, Ended, Nobody, Live,
       WithState
  <2> QED
    BY <2>1, <2>2, FoundStutter
<1> QED
  BY <1>1, <1>2, <1>3, <1>4, <1>5, FoundEnsure, FoundStop DEF Next, RequestNext, ServerNext

\* What these lemmas come to for a behaviour.
LostOnly ==
    [][\A p \in kids :
          Found(p) /\ p \in kids' /\ proc'[p].state \in Live /\ ~Found(p)'
             => \E r \in Requests : Loses(r, p)]_vars

\* A child that lives and can be found is lost in these two ways only, however
\* many sessions, requests and deletions there are, and whatever the cap is
\* (SidecarManager::ensure, which drops its handle or overwrites another).
THEOREM LostCorrect == Spec => LostOnly
<1>1. OwnIInv /\ LockIInv /\ [Next]_vars =>
        [\A p \in kids :
            Found(p) /\ p \in kids' /\ proc'[p].state \in Live /\ ~Found(p)'
               => \E r \in Requests : Loses(r, p)]_vars
  BY FoundNext DEF LockIInv
<1> QED
  BY <1>1, OwnInit, OwnNext, LockInit, LockNext, PTL DEF Spec, LostOnly

\* Only Manage makes an entry of the map.
LEMMA MadeByManage ==
  ASSUME TypeOK, [Next]_vars, NEW s \in Sessions, managed[s] = None, managed'[s] # None
  PROVE  \E q \in Requests : Manage(q) /\ sess[q] = s
<1> USE DEF TypeOK, storeVars, mapVars, osVars, taskVars
<1>1. ASSUME NEW r \in Requests, EnsureStep(r) PROVE Manage(r) /\ sess[r] = s
  <2>1. CASE Manage(r)
    BY <2>1 DEF Manage
  <2>2. CASE ~Manage(r)
    BY <1>1, <2>2 DEF EnsureStep, Reconcile, ForgetExited, Get, Probe, CheckCap, Spawn, Refuse,
       Poll, Adopt
  <2> QED
    BY <2>1, <2>2
<1>2. ASSUME NEW t \in Tasks, StopStep(t) PROVE FALSE
  BY <1>2 DEF StopStep, StopGet, StopKill, StopWait, StopClear, StopForget, StopDone
<1>3. ASSUME NEW r \in Requests,
             (\E z \in Sessions : Arrive(r, z)) \/ Lock(r) \/ Answer(r) \/ Disconnect(r)
      PROVE  FALSE
  BY <1>3 DEF Arrive, Lock, Answer, Disconnect
<1>4. CASE ServerNext
  BY <1>4 DEF ServerNext, Delete, DeleteStart, Create, Age, Scan, StopAll, Restart
<1>5. CASE MachineNext \/ UNCHANGED vars
  BY <1>5 DEF MachineNext, Bind, Flap, ProcessExit, Unrelated, vars
<1> QED
  BY <1>1, <1>2, <1>3, <1>4, <1>5 DEF Next, RequestNext

\* Only Spawn begins a start, and a start keeps its session.
LEMMA BegunBySpawn ==
  ASSUME TypeOK, [Next]_vars, NEW r \in Requests, pc'[r] \in Starting
  PROVE  /\ sess'[r] = sess[r]
         /\ pc[r] \in Starting \/ \E p \in Pids, q \in Ports : Spawn(r, p, q)
<1> USE DEF TypeOK, storeVars, mapVars, osVars, taskVars, Tasks, Goto, Starting
<1>1. ASSUME NEW q \in Requests, EnsureStep(q)
      PROVE  /\ sess'[r] = sess[r]
             /\ pc[r] \in Starting \/ \E p \in Pids, z \in Ports : Spawn(r, p, z)
  <2>1. CASE q = r
    BY <1>1, <2>1 DEF EnsureStep, Reconcile, ForgetExited, Get, Probe, CheckCap, Refuse,
       Poll, Adopt, Manage, Fail, Spawn
  <2>2. CASE q # r
    BY <1>1, <2>2 DEF EnsureStep, Reconcile, ForgetExited, Get, Probe, CheckCap, Spawn, Refuse,
       Poll, Adopt, Manage, Fail
  <2> QED
    BY <2>1, <2>2
<1>2. ASSUME NEW t \in Tasks, StopStep(t) PROVE sess'[r] = sess[r] /\ pc[r] \in Starting
  BY <1>2 DEF StopStep, StopGet, StopKill, StopWait, StopClear, StopForget, StopDone
<1>3. ASSUME NEW q \in Requests,
             (\E z \in Sessions : Arrive(q, z)) \/ Lock(q) \/ Answer(q) \/ Disconnect(q)
      PROVE  sess'[r] = sess[r] /\ pc[r] \in Starting
  BY <1>3 DEF Arrive, Lock, Answer, Disconnect
<1>4. CASE ServerNext
  BY <1>4 DEF ServerNext, Delete, DeleteStart, Create, Age, Scan, StopAll, Restart
<1>5. CASE MachineNext \/ UNCHANGED vars
  BY <1>5 DEF MachineNext, Bind, Flap, ProcessExit, Unrelated, vars
<1> QED
  BY <1>1, <1>2, <1>3, <1>4, <1>5 DEF Next, RequestNext

\* With a cap of one, the session of a start has no sidecar in the map, and
\* gets none before the start ends.
AloneIInv ==
    /\ OwnIInv /\ LockIInv /\ NoOrphan
    /\ \A r \in Requests : pc[r] \in Starting => managed[sess[r]] = None

\* The cap admits a start only while the map is empty, and only a Manage of
\* another start could fill it.
LEMMA AloneNext ==
  ASSUME MaxSidecars = 1, ~MayDisconnect, AloneIInv, [Next]_vars
  PROVE  AloneIInv'
<1>1. OwnIInv' /\ LockIInv'
  BY OwnNext, LockNext DEF AloneIInv
<1>2. ASSUME NEW r \in Requests, NEW p \in Pids PROVE ~Loses(r, p)
  BY DEF Loses, Disconnect, Manage, AloneIInv, Starting
<1>3. NoOrphan'
  <2> SUFFICES ASSUME NEW p \in kids', proc'[p].state \in Live PROVE Found(p)'
    BY DEF NoOrphan, Found
  <2>1. p \in Pids
    BY <1>1 DEF OwnIInv, TypeOK
  <2> QED
    BY <1>2, <2>1, FoundNext DEF AloneIInv, LockIInv, NoOrphan, Found
<1>4. ASSUME NEW r \in Requests, pc'[r] \in Starting PROVE managed'[sess'[r]] = None
  <2>1. /\ sess'[r] = sess[r]
        /\ pc[r] \in Starting \/ \E p \in Pids, q \in Ports : Spawn(r, p, q)
    BY <1>4, BegunBySpawn DEF AloneIInv, OwnIInv
  <2>2. pc[r] \in Critical
    BY <2>1 DEF Spawn, Critical
  <2>3. sess[r] \in Sessions /\ holder[sess[r]] = r
    BY <2>2 DEF AloneIInv, LockIInv, LockInv
  <2>4. managed[sess[r]] = None
    <3>1. CASE pc[r] \in Starting
      BY <3>1 DEF AloneIInv
    <3>2. ASSUME NEW p \in Pids, NEW q \in Ports, Spawn(r, p, q)
          PROVE  managed[sess[r]] = None
      <4>1. Cardinality(ManagedSessions) < 1 /\ IsFiniteSet(ManagedSessions)
        BY <3>2, CountedFinite DEF Spawn, AtCap, AloneIInv, OwnIInv
      <4>2. ManagedSessions = {}
        BY <4>1, FS_CardinalityType, FS_EmptySet
      <4> QED
        BY <2>3, <4>2 DEF ManagedSessions
    <3> QED
      BY <2>1, <3>1, <3>2
  <2>5. ASSUME NEW q \in Requests, Manage(q), sess[q] = sess[r] PROVE FALSE
    <3>1. pc[q] \in Critical
      BY <2>5 DEF Manage, Critical, Starting
    <3>2. q = r
      BY <2>2, <2>5, <3>1 DEF AloneIInv, LockIInv, LockInv
    <3> QED
      BY <1>4, <2>5, <3>2 DEF Manage, Goto, Starting, AloneIInv, OwnIInv, TypeOK, Tasks
  <2> QED
    BY <2>1, <2>3, <2>4, <2>5, MadeByManage DEF AloneIInv, OwnIInv
<1> QED
  BY <1>1, <1>3, <1>4 DEF AloneIInv

\* NoOrphan: with a cap of one and clients that wait for their answers, no
\* sidecar is lost, however many requests and deletions there are and whatever
\* becomes of the processes, and though the proxy dies and starts again.
THEOREM NoOrphanCorrect ==
  ASSUME MaxSidecars = 1, ~MayDisconnect
  PROVE  Spec => []NoOrphan
<1>1. Init => AloneIInv
  BY OwnInit, LockInit DEF Init, AloneIInv, NoOrphan, Starting, Tasks
<1>2. AloneIInv /\ [Next]_vars => AloneIInv'
  BY AloneNext
<1>3. AloneIInv => NoOrphan
  BY DEF AloneIInv
<1> QED
  BY <1>1, <1>2, <1>3, PTL DEF Spec

=============================================================================
