------------------------- MODULE SessionStoreProofs -------------------------
(***************************************************************************)
(* Proofs about SessionStore for any proxies, requests, ids and projects,  *)
(* any limit of the history and any operations, that the file is always    *)
(* whole, the locks are kept and the map of sessions is implemented.       *)
(***************************************************************************)
EXTENDS SessionStore, TLAPS

USE RecordsAssumption, NoneAssumption, StoreAssumption

-----------------------------------------------------------------------------
(* The records *)

LEMMA NoneFacts == None \notin Operation /\ None \notin Replies /\ None \notin Record /\ None \notin Tasks
                   /\ None \notin Maps
  OBVIOUS

\* The limit is at least one exchange.
LEMMA LimitType == MaxMessages \in Nat /\ MaxMessages >= 2
  BY DEF MaxMessages

\* What is kept of a history is a history within the limit, and as valid.
LEMMA RecentFacts ==
  ASSUME NEW h \in Histories
  PROVE  /\ Recent(h) \in Histories
         /\ Len(Recent(h)) <= MaxMessages
         /\ ValidHistory(h) => ValidHistory(Recent(h))
<1> DEFINE a == (IF Len(h) > MaxMessages THEN Len(h) - MaxMessages ELSE 0) + 1
<1>1. a \in Nat /\ a >= 1 /\ Len(h) \in Nat /\ Len(h) - a + 1 <= MaxMessages /\ a <= Len(h) + 1
  BY LimitType DEF Histories
<1>2. Recent(h) = SubSeq(h, a, Len(h))
  BY DEF Recent
<1> HIDE DEF a
<1>3. Recent(h) \in Seq(Messages)
  BY <1>1, <1>2 DEF Histories
<1>4. Len(Recent(h)) = IF a <= Len(h) THEN Len(h) - a + 1 ELSE 0
  BY <1>1, <1>2 DEF Histories
<1>5. \A i \in 1..Len(Recent(h)) : Recent(h)[i] = h[a + i - 1] /\ a + i - 1 \in 1..Len(h)
  BY <1>1, <1>2, <1>4 DEF Histories
<1> QED
  BY <1>1, <1>3, <1>4, <1>5, LimitType DEF Histories, ValidHistory

\* A change to a record is a record.
LEMMA ChangedType ==
  ASSUME NEW o \in Operation, NEW r \in Record, ~Refused(o)
  PROVE  Changed(o, r) \in Record
<1>1. o.messages \in Histories /\ o.title \in Titles \cup {None} /\ r.history \in Histories
  BY DEF Operation, Requests, Record
<1>2. r.history \o o.messages \in Histories
  BY <1>1 DEF Histories
<1>3. Recent(o.messages) \in Histories /\ Recent(r.history \o o.messages) \in Histories
  BY <1>1, <1>2, RecentFacts
<1>4. o.kind = "rename" => o.title \in Titles
  BY <1>1 DEF Refused
<1> QED
  BY <1>3, <1>4 DEF Changed, Record, Runtimes

\* An operation makes a map of a map.
LEMMA AfterType ==
  ASSUME NEW o \in Operation, NEW m \in Maps
  PROVE  After(o, m) \in Maps
<1>1. CASE ~Writes(o, m)
  BY <1>1 DEF After
<1>2. CASE Writes(o, m)
  <2>1. o.id \in Ids
    BY <1>2 DEF Writes, Mutations, Operation, Kinds
  <2>2. Entry(o, m) \in Record \cup {None}
    <3>1. CASE o.kind = "delete"
      BY <3>1 DEF Entry
    <3>2. CASE o.kind = "create" /\ m[o.id] = None
      BY <3>2 DEF Entry, Fresh, Record, Runtimes, Operation, Requests, Histories
    <3>3. CASE o.kind # "delete" /\ ~(o.kind = "create" /\ m[o.id] = None)
      <4>1. Status(o, m) = "ok" /\ o.kind # "list"
        BY <1>2, <3>3 DEF Writes, Mutations
      <4>2. m[o.id] # None /\ ~Refused(o)
        BY <3>3, <4>1 DEF Status, Unknown
      <4>3. m[o.id] \in Record
        BY <2>1, <4>2 DEF Maps
      <4> QED
        BY <3>3, <4>2, <4>3, ChangedType DEF Entry
    <3> QED
      BY <3>1, <3>2, <3>3
  <2> QED
    BY <1>2, <2>1, <2>2 DEF After, Maps
<1> QED
  BY <1>1, <1>2

\* And it has an answer.
LEMMA ReplyType ==
  ASSUME NEW o \in Operation, NEW m \in Maps
  PROVE  Reply(o, m) \in Replies
<1>1. Status(o, m) \in {"ok", "invalid", "not_found", "conflict", "failed"}
  BY DEF Status
<1>2. \A i \in Ids : After(o, m)[i] \in Record \cup {None}
  BY AfterType DEF Maps
<1> QED
  BY <1>1, <1>2 DEF Reply, Replies, Maps

LEMMA NoRecordsType == NoRecords \in Maps /\ Failure \in Replies
  BY DEF NoRecords, Maps, Failure, Replies

-----------------------------------------------------------------------------
(* The invariant *)

\* What a task has in hand at each place: an operation while it works, an
\* answer once it has read the file, a synced temporary file at the rename.
InHand(t) ==
    /\ pc[t] \in {"idle", "boot"} <=> op[t] = None
    /\ pc[t] \in {"idle", "boot", "refuse", "mutex", "flock", "read"} => reply[t] = None
    /\ pc[t] \in {"write", "sync_file", "rename", "sync_dir", "unlock", "answer"} => reply[t] # None
    /\ pc[t] \in {"write", "sync_file", "rename"} => buffer[t] # None
    /\ pc[t] = "rename" => temp[t] = "synced"
    /\ pc[t] = "refuse" => Refused(op[t])

Hands == \A t \in Tasks : InHand(t)

IInv == TypeOK /\ FileWhole /\ file \in durable /\ Hands

\* A store call may begin with an operation.
LEMMA BeginType ==
  ASSUME TypeOK, Hands, NEW t \in Tasks, NEW o \in Operation, Begin(t, o), pc[t] \in {"idle", "boot"}
  PROVE  /\ pc' \in [Tasks -> Places] /\ op' \in [Tasks -> Operation \cup {None}]
         /\ Hands'
BY DEF Begin, Set, TypeOK, Places, Hands, InHand, work, disk, locks

LEMMA BootOps ==
  /\ ListAll \in Operation
  /\ \A i \in Ids : ClearOf(i) \in Operation
  BY DEF ListAll, ClearOf, Op, Operation, Requests, Kinds, Histories

LEMMA InitI == Init => IInv
  BY DEF Init, IInv, TypeOK, FileWhole, Hands, InHand, Places

LEMMA StepI ==
  ASSUME IInv, NEW t \in Tasks, Step(t)
  PROVE  IInv'
<1> USE DEF IInv
<1> TypeOK /\ FileWhole /\ file \in durable /\ Hands
  OBVIOUS
<1>1. CASE Refuse(t)
  <2>1. op[t] \in Operation
    BY <1>1 DEF Refuse, TypeOK, Hands, InHand
  <2>2. Reply(op[t], NoRecords) \in Replies
    BY <2>1, ReplyType, NoRecordsType
  <2> QED
    BY <1>1, <2>1, <2>2 DEF Refuse, Set, disk, locks, boot, TypeOK, FileWhole, Hands, InHand, Places
<1>2. CASE LockMutex(t)
  BY <1>2 DEF LockMutex, Set, disk, boot, TypeOK, FileWhole, Hands, InHand, Places
<1>3. CASE LockFile(t)
  BY <1>3 DEF LockFile, Set, disk, boot, TypeOK, FileWhole, Hands, InHand, Places
<1>4. CASE Read(t)
  <2>1. op[t] \in Operation /\ file \in Maps
    BY <1>4 DEF Read, TypeOK, Hands, InHand
  <2>2. Reply(op[t], file) \in Replies /\ After(op[t], file) \in Maps
    BY <2>1, ReplyType, AfterType
  <2> QED
    BY <1>4, <2>1, <2>2 DEF Read, Set, disk, locks, boot, TypeOK, FileWhole, Hands, InHand, Places
<1>5. CASE WriteTemp(t)
  BY <1>5 DEF WriteTemp, Set, disk, locks, boot, TypeOK, FileWhole, Hands, InHand, Places
<1>6. CASE SyncTemp(t)
  BY <1>6 DEF SyncTemp, Set, disk, locks, boot, TypeOK, FileWhole, Hands, InHand, Places
<1>8. CASE SyncDir(t)
  BY <1>8 DEF SyncDir, Set, locks, boot, TypeOK, FileWhole, Hands, InHand, Places
<1>9. CASE IoFails(t)
  BY <1>9, NoRecordsType DEF IoFails, Release, Set, disk, boot, TypeOK, FileWhole, Hands, InHand, Places
<1>10. CASE Unlock(t)
  BY <1>10 DEF Unlock, Release, Set, disk, boot, TypeOK, FileWhole, Hands, InHand, Places
<1>11. CASE Answer(t)
  BY <1>11 DEF Answer, Forget, Set, disk, locks, boot, TypeOK, FileWhole, Hands, InHand, Places
<1>12. CASE BootHears(t)
  <2>1. pc' \in [Tasks -> Places] /\ Hands'
    BY <1>12 DEF BootHears, Forget, Set, TypeOK, Hands, InHand, Places
  <2>2. booter' \in [Procs -> Tasks \cup {None}] /\ stale' \in [Procs -> SUBSET Ids]
    BY <1>12 DEF BootHears, Set, StaleIn, TypeOK
  <2> QED
    BY <1>12, <2>1, <2>2 DEF BootHears, Forget, Set, disk, locks, TypeOK, FileWhole
<1>13. CASE BootDone(t)
  BY <1>13 DEF BootDone, Set, disk, locks, TypeOK, FileWhole, Hands, InHand, Places
<1>14. ASSUME NEW i \in Ids, BootClears(t, i)
       PROVE  IInv'
  <2>1. Begin(t, ClearOf(i)) /\ pc[t] = "boot"
    BY <1>14 DEF BootClears
  <2>2. Hands' /\ pc' \in [Tasks -> Places] /\ op' \in [Tasks -> Operation \cup {None}]
    BY <2>1, BeginType, BootOps
  <2> QED
    BY <1>14, <2>1, <2>2 DEF BootClears, Begin, Set, disk, locks, TypeOK, FileWhole
<1>7. CASE Persist(t)
  <2>1. buffer[t] \in Maps \cup {None} /\ temp[t] = "synced"
    BY <1>7 DEF Persist, TypeOK, Hands, InHand
  <2> QED
    BY <1>7, <2>1 DEF Persist, Set, locks, boot, TypeOK, FileWhole, Hands, InHand, Places
<1> QED
  BY <1>1, <1>2, <1>3, <1>4, <1>5, <1>6, <1>7, <1>8, <1>9, <1>10, <1>11, <1>12, <1>13, <1>14 DEF Step
\* Death leaves nothing in hand.
LEMMA DiesI ==
  ASSUME IInv, NEW P \in SUBSET Procs, Dies(P), calls' = calls,
         file' \in durable, durable' \in SUBSET durable, file' \in durable'
  PROVE  IInv'
<1>1. flock' \in Tasks \cup {None} /\ mutex' \in [Procs -> Tasks \cup {None}]
      /\ booter' \in [Procs -> Tasks \cup {None}] /\ stale' \in [Procs -> SUBSET Ids]
      /\ up' \in [Procs -> BOOLEAN] /\ calls' \in 0..MaxCalls
  BY DEF IInv, TypeOK, Dies
<1>2. pc' \in [Tasks -> Places] /\ op' \in [Tasks -> Operation \cup {None}]
      /\ reply' \in [Tasks -> Replies \cup {None}] /\ buffer' \in [Tasks -> Maps \cup {None}]
      /\ temp' \in [Tasks -> {"none", "written", "synced"}]
  BY DEF IInv, TypeOK, Dies, Places
<1>3. Hands'
  BY DEF IInv, TypeOK, Dies, Hands, InHand
<1>4. FileWhole' /\ file' \in Maps \cup {Torn} /\ durable' \in SUBSET (Maps \cup {Torn})
  BY DEF IInv, TypeOK, FileWhole
<1> QED
  BY <1>1, <1>2, <1>3, <1>4 DEF IInv, TypeOK

LEMMA NextI == IInv /\ [Next]_vars => IInv'
<1> SUFFICES ASSUME IInv, [Next]_vars PROVE IInv'
  OBVIOUS
<1>1. ASSUME NEW t \in Tasks, Step(t) PROVE IInv'
  BY <1>1, StepI
<1>2. ASSUME NEW t \in Tasks, NEW o \in Requested, Ask(t, o) PROVE IInv'
  <2>1. Begin(t, o) /\ pc[t] = "idle" /\ o \in Operation /\ TypeOK /\ Hands
    BY <1>2 DEF Ask, IInv
  <2>2. Hands' /\ pc' \in [Tasks -> Places] /\ op' \in [Tasks -> Operation \cup {None}]
    BY <2>1, BeginType
  <2> QED
    BY <1>2, <2>1, <2>2 DEF Ask, Begin, Set, disk, locks, boot, IInv, TypeOK, FileWhole
<1>3. ASSUME NEW t \in Tasks, Boot(t) PROVE IInv'
  <2>1. Begin(t, ListAll) /\ pc[t] = "idle" /\ TypeOK /\ Hands
    BY <1>3 DEF Boot, IInv
  <2>2. Hands' /\ pc' \in [Tasks -> Places] /\ op' \in [Tasks -> Operation \cup {None}]
    BY <2>1, BeginType, BootOps
  <2> QED
    BY <1>3, <2>1, <2>2 DEF Boot, Begin, Set, disk, locks, IInv, TypeOK, FileWhole
<1>4. ASSUME NEW t \in Tasks, HangUp(t) PROVE IInv'
  BY <1>4 DEF HangUp, Set, disk, locks, boot, IInv, TypeOK, FileWhole, Hands, InHand, Places
<1>5. ASSUME NEW p \in Procs, Crash(p) PROVE IInv'
  BY <1>5, DiesI DEF Crash, disk, IInv
<1>6. CASE LosePower
  BY <1>6, DiesI DEF LosePower, IInv
<1>7. CASE UNCHANGED vars
  BY <1>7 DEF vars, disk, locks, work, boot, IInv, TypeOK, FileWhole, Hands, InHand
<1> QED
  BY <1>1, <1>2, <1>3, <1>4, <1>5, <1>6, <1>7 DEF Next

LEMMA Invariant == Spec => []IInv
  BY InitI, NextI, PTL DEF Spec

\* Every variable of the store has its type.
THEOREM TypeCorrect == Spec => []TypeOK
<1>1. IInv => TypeOK
  BY DEF IInv
<1> QED
  BY <1>1, Invariant, PTL

\* The file is whole whenever a crash or a loss of power comes.
THEOREM FileCorrect == Spec => []FileWhole
<1>1. IInv => FileWhole
  BY DEF IInv
<1> QED
  BY <1>1, Invariant, PTL
-----------------------------------------------------------------------------
(* Locks *)

LEMMA LockInit == Init => LockInv
  BY DEF Init, LockInv, Locked

\* A proxy's death takes its tasks and its locks together.
LEMMA LockDies ==
  ASSUME TypeOK, LockInv, NEW P \in SUBSET Procs, Dies(P)
  PROVE  LockInv'
<1> SUFFICES ASSUME NEW t \in Tasks
             PROVE  /\ (flock' = t <=> pc'[t] \in Locked)
                    /\ (mutex'[ProcOf[t]] = t <=> pc'[t] \in Locked \cup {"flock"})
  BY DEF LockInv
<1>1. CASE ProcOf[t] \in P
  BY <1>1 DEF Dies, TypeOK, LockInv, Locked
<1>2. CASE ProcOf[t] \notin P
  BY <1>2 DEF Dies, TypeOK, LockInv, Locked
<1> QED
  BY <1>1, <1>2

LEMMA LockStep ==
  ASSUME TypeOK, Hands, LockInv, [Next]_vars
  PROVE  LockInv'
<1>1. ASSUME NEW t \in Tasks, LockMutex(t) PROVE LockInv'
  BY <1>1 DEF LockMutex, Set, TypeOK, LockInv, Locked
<1>2. ASSUME NEW t \in Tasks, LockFile(t) PROVE LockInv'
  BY <1>2 DEF LockFile, Set, TypeOK, LockInv, Locked
<1>3. ASSUME NEW t \in Tasks, Read(t) \/ WriteTemp(t) \/ SyncTemp(t) \/ Persist(t) \/ SyncDir(t)
      PROVE  LockInv'
  BY <1>3 DEF Read, WriteTemp, SyncTemp, Persist, SyncDir, Set, locks, TypeOK, LockInv, Locked
<1>4. ASSUME NEW t \in Tasks, IoFails(t) \/ Unlock(t) PROVE LockInv'
  BY <1>4 DEF IoFails, Unlock, Release, Set, TypeOK, LockInv, Locked
<1>5. ASSUME NEW t \in Tasks, Refuse(t) \/ Answer(t) \/ BootHears(t) \/ BootDone(t) \/ HangUp(t)
      PROVE  LockInv'
  BY <1>5 DEF Refuse, Answer, BootHears, BootDone, HangUp, Set, locks, TypeOK, LockInv, Locked
<1>6. ASSUME NEW t \in Tasks, NEW o \in Operation, Begin(t, o), pc[t] \in {"idle", "boot"}
      PROVE  LockInv'
  BY <1>6 DEF Begin, Set, locks, TypeOK, LockInv, Locked
<1>7. ASSUME NEW t \in Tasks, (\E i \in Ids : BootClears(t, i)) \/ Boot(t) \/ \E o \in Requested : Ask(t, o)
      PROVE  LockInv'
  BY <1>6, <1>7, BootOps DEF BootClears, Boot, Ask
<1>8. ASSUME NEW p \in Procs, Crash(p) PROVE LockInv'
  BY <1>8, LockDies DEF Crash
<1>9. CASE LosePower
  BY <1>9, LockDies DEF LosePower
<1>10. CASE UNCHANGED vars
  BY <1>10 DEF vars, locks, work, LockInv
<1> QED
  BY <1>1, <1>2, <1>3, <1>4, <1>5, <1>7, <1>8, <1>9, <1>10 DEF Next, Step

\* Locks are held exactly where with_data holds them.
THEOREM LockCorrect == Spec => []LockInv
<1>1. IInv => TypeOK /\ Hands
  BY DEF IInv
<1>2. IInv /\ LockInv /\ [Next]_vars => LockInv'
  BY <1>1, LockStep
<1> QED
  BY <1>2, LockInit, Invariant, PTL DEF Spec

-----------------------------------------------------------------------------
(* What a task has made of the file is what it would make of it now: the   *)
(* lock keeps others from the file between the read and the rename.        *)

UpToDate(t) ==
    pc[t] \in {"write", "sync_file", "rename"} =>
       /\ buffer[t] = After(op[t], file)
       /\ reply[t] = Reply(op[t], file)
       /\ Writes(op[t], file)

Fresher == \A t \in Tasks : UpToDate(t)

LEMMA FresherInit == Init => Fresher
  BY DEF Init, Fresher, UpToDate

LEMMA FresherStep ==
  ASSUME IInv, LockInv, Fresher, [Next]_vars
  PROVE  Fresher'
<1> TypeOK /\ Hands
  BY DEF IInv
<1>1. ASSUME NEW t \in Tasks,
             Refuse(t) \/ LockMutex(t) \/ LockFile(t) \/ WriteTemp(t) \/ SyncTemp(t)
               \/ SyncDir(t) \/ Unlock(t) \/ Answer(t) \/ BootHears(t) \/ BootDone(t) \/ HangUp(t)
               \/ IoFails(t)
      PROVE  Fresher'
  <2>1. file' = file
    BY <1>1 DEF Refuse, LockMutex, LockFile, WriteTemp, SyncTemp, SyncDir, Unlock, Answer,
                BootHears, BootDone, HangUp, IoFails, disk
  <2>2. \A u \in Tasks : pc'[u] \in {"write", "sync_file", "rename"} =>
           pc[u] \in {"write", "sync_file", "rename"} /\ op'[u] = op[u]
           /\ buffer'[u] = buffer[u] /\ reply'[u] = reply[u]
    BY <1>1 DEF Refuse, LockMutex, LockFile, WriteTemp, SyncTemp, SyncDir, Unlock, Answer,
                BootHears, BootDone, HangUp, IoFails, Forget, Set, TypeOK
  <2> QED
    BY <2>1, <2>2 DEF Fresher, UpToDate
<1>2. ASSUME NEW t \in Tasks, Read(t) PROVE Fresher'
  BY <1>2 DEF Read, Set, disk, TypeOK, Fresher, UpToDate
<1>3. ASSUME NEW t \in Tasks, Persist(t) PROVE Fresher'
  <2>1. \A u \in Tasks : u # t => pc[u] \notin {"write", "sync_file", "rename"}
    BY <1>3 DEF Persist, LockInv, Locked
  <2>2. \A u \in Tasks : pc'[u] \notin {"write", "sync_file", "rename"}
    BY <1>3, <2>1 DEF Persist, Set, TypeOK
  <2> QED
    BY <2>2 DEF Fresher, UpToDate
<1>4. ASSUME NEW t \in Tasks, (\E i \in Ids : BootClears(t, i)) \/ Boot(t) \/ \E o \in Requested : Ask(t, o)
      PROVE  Fresher'
  BY <1>4 DEF BootClears, Boot, Ask, Begin, Set, disk, TypeOK, Fresher, UpToDate
<1>5. ASSUME NEW p \in Procs, Crash(p) PROVE Fresher'
  BY <1>5 DEF Crash, Dies, disk, TypeOK, Fresher, UpToDate
<1>6. CASE LosePower
  BY <1>6 DEF LosePower, Dies, TypeOK, Fresher, UpToDate
<1>7. CASE UNCHANGED vars
  BY <1>7 DEF vars, disk, work, Fresher, UpToDate
<1> QED
  BY <1>1, <1>2, <1>3, <1>4, <1>5, <1>6, <1>7 DEF Next, Step

LEMMA FresherAlways == Spec => []Fresher
<1>1. IInv /\ LockInv /\ Fresher /\ [Next]_vars => Fresher'
  BY FresherStep
<1> QED
  BY <1>1, FresherInit, Invariant, LockCorrect, PTL DEF Spec
-----------------------------------------------------------------------------
(* The store implements the map of sessions *)

\* The map's operations are those of the records.
LEMMA SameRecords ==
  /\ Map!Maps = Maps /\ Map!Operation = Operation /\ Map!Failure = Failure
  /\ Map!Mutations = Mutations
  /\ \A o, m : Map!After(o, m) = After(o, m) /\ Map!Reply(o, m) = Reply(o, m)
<1>1. \A h : Map!ValidHistory(h) = ValidHistory(h)
  BY DEF Map!ValidHistory, ValidHistory
<1>2. \A h : Map!Recent(h) = Recent(h)
  BY DEF Map!Recent, Recent, Map!MaxMessages, MaxMessages
<1>3. Map!Maps = Maps
  BY DEF Map!Maps, Maps, Map!Record, Record, Map!Histories, Histories, Map!Runtimes, Runtimes
<1>4. Map!Kinds = Kinds /\ Map!Mutations = Mutations
  BY DEF Map!Kinds, Kinds, Map!Mutations, Mutations
<1>5. Map!Operation = Operation
  BY <1>4 DEF Map!Operation, Operation, Map!Requests, Requests, Map!Histories, Histories
<1>6. Map!Failure = Failure
  BY DEF Map!Failure, Failure, Map!NoRecords, NoRecords
<1>7. \A o, m : Map!Status(o, m) = Status(o, m)
  BY <1>1 DEF Map!Status, Status, Map!Refused, Refused, Map!Unknown, Unknown,
              Map!Foreign, Foreign, Map!BadChange, BadChange
<1>8. \A o, m : Map!Writes(o, m) = Writes(o, m)
  BY <1>4, <1>7 DEF Map!Writes, Writes
<1>9. \A o, r : Map!Changed(o, r) = Changed(o, r)
  BY <1>2 DEF Map!Changed, Changed
<1>10. \A o, m : Map!Entry(o, m) = Entry(o, m)
  BY <1>9 DEF Map!Entry, Entry, Map!Fresh, Fresh
<1>11. \A o, m : Map!After(o, m) = After(o, m)
  BY <1>8, <1>10 DEF Map!After, After
<1>12. \A o, m : Map!Shown(o, m) = Shown(o, m)
  BY <1>7 DEF Map!Shown, Shown
<1>13. \A o, m : Map!Reply(o, m) = Reply(o, m)
  BY <1>7, <1>11, <1>12 DEF Map!Reply, Reply
<1> QED
  BY <1>3, <1>4, <1>5, <1>6, <1>11, <1>13

\* The steps that show the map nothing.
Same == UNCHANGED <<file, durable, op, Given, Lasting>>

LEMMA SameStutters == Same => UNCHANGED Map!vars
  BY DEF Same, Map!vars

\* An operation that does not write leaves the map alone.
LEMMA NoWrite == \A o, m : ~Writes(o, m) => After(o, m) = m
  BY DEF After

\* What a handler refuses it would refuse whatever the store holds.
LEMMA RefusedFacts ==
  ASSUME NEW o, NEW m, Refused(o)
  PROVE  /\ After(o, m) = m /\ Reply(o, NoRecords) = Reply(o, m)
         /\ Reply(o, m).status # "ok"
<1>1. \A n : Status(o, n) = "invalid" /\ o.kind # "list" /\ o.kind # "delete"
  BY DEF Status, Refused
<1>2. \A n : Shown(o, n) = {} /\ ~Writes(o, n)
  BY <1>1 DEF Shown, Writes
<1> QED
  BY <1>1, <1>2, NoWrite DEF Reply

LEMMA MapInit == Init => Map!Init
<1> SUFFICES ASSUME Init PROVE Map!Init
  OBVIOUS
<1>1. Given = [t \in Tasks |-> None] /\ Lasting = [t \in Tasks |-> FALSE]
  BY DEF Init, Given, Lasting, Done
<1> QED
  BY <1>1, SameRecords DEF Init, Map!Init

\* A call begins.
LEMMA MapCall ==
  ASSUME IInv, NEW t \in Tasks, NEW o \in Operation, Begin(t, o), pc[t] \in {"idle", "boot"}
  PROVE  Map!Call(t)
<1>1. op[t] = None /\ op' = [op EXCEPT ![t] = o] /\ op'[t] = o
  BY DEF Begin, Set, IInv, TypeOK, Hands, InHand
<1>2. Given' = Given
  BY DEF Begin, Set, IInv, TypeOK, Given, Done
<1>3. Lasting' = Lasting
  BY DEF Begin, Set, IInv, TypeOK, Lasting
<1> QED
  BY <1>1, <1>2, <1>3, SameRecords DEF Map!Call, Begin, disk

\* Tasks vanish with what they were doing.
LEMMA MapEnds ==
  ASSUME NEW T \in SUBSET Tasks,
         op' = [t \in Tasks |-> IF t \in T THEN None ELSE op[t]],
         \A t \in T : pc'[t] \notin Done,
         \A t \in Tasks \ T : pc'[t] = pc[t] /\ reply'[t] = reply[t]
  PROVE  Map!Ends(T)
<1>1. Given' = [t \in Tasks |-> IF t \in T THEN None ELSE Given[t]]
  BY DEF Given, Done
<1>2. Lasting' = [t \in Tasks |-> IF t \in T THEN FALSE ELSE Lasting[t]]
  BY DEF Lasting, Done
<1> QED
  BY <1>1, <1>2 DEF Map!Ends

LEMMA MapStep ==
  ASSUME IInv, LockInv, Fresher, NEW t \in Tasks, Step(t)
  PROVE  Map!Next \/ UNCHANGED Map!vars
<1> TypeOK /\ Hands /\ FileWhole
  BY DEF IInv
<1>1. CASE Refuse(t)
  <2>1. op[t] \in Operation /\ op[t] # None /\ pc[t] = "refuse" /\ file \in durable
    BY <1>1, NoneFacts DEF Refuse, TypeOK, Hands, InHand, IInv
  <2>2. Refused(op[t])
    BY <2>1 DEF Hands, InHand
  <2>3. After(op[t], file) = file /\ Reply(op[t], NoRecords) = Reply(op[t], file)
        /\ Reply(op[t], file).status # "ok"
    BY <2>2, RefusedFacts
  <2>4. /\ Given' = [Given EXCEPT ![t] = Reply(op[t], file)]
        /\ Lasting' = Lasting
        /\ Given[t] = None
    BY <1>1, <2>1, <2>3 DEF Refuse, Set, TypeOK, Given, Lasting, Done
  <2>5. Map!Perform(t)
    BY <1>1, <2>1, <2>3, <2>4, SameRecords DEF Map!Perform, Refuse, disk
  <2> QED
    BY <2>5 DEF Map!Next
<1>2. CASE LockMutex(t) \/ LockFile(t) \/ WriteTemp(t) \/ SyncTemp(t) \/ Unlock(t) \/ BootDone(t)
  <2>1. Same
    BY <1>2 DEF Same, LockMutex, LockFile, WriteTemp, SyncTemp, Unlock, BootDone, Set, TypeOK,
                Given, Lasting, Done, disk
  <2> QED
    BY <2>1, SameStutters
<1>3. CASE Read(t)
  <2>1. op[t] \in Operation /\ op[t] # None /\ pc[t] = "read" /\ file \in durable
    BY <1>3, NoneFacts DEF Read, TypeOK, Hands, InHand, IInv
  <2>2. CASE Writes(op[t], file)
    <3>1. Same
      BY <1>3, <2>1, <2>2 DEF Same, Read, Set, TypeOK, Given, Lasting, Done, disk
    <3> QED
      BY <3>1, SameStutters
  <2>3. CASE ~Writes(op[t], file)
    <3>1. After(op[t], file) = file /\ pc' = [pc EXCEPT ![t] = "unlock"]
      BY <1>3, <2>3, NoWrite DEF Read, Set
    <3>2. ~(Reply(op[t], file).status = "ok" /\ op[t].kind \in Mutations)
      BY <2>3 DEF Writes, Reply
    <3>3. /\ Given' = [Given EXCEPT ![t] = Reply(op[t], file)]
          /\ Lasting' = Lasting
          /\ Given[t] = None
      BY <1>3, <2>1, <3>1, <3>2 DEF Read, Set, TypeOK, Given, Lasting, Done
    <3>4. Map!Perform(t)
      BY <1>3, <2>1, <3>1, <3>3, SameRecords DEF Map!Perform, Read, disk
    <3> QED
      BY <3>4 DEF Map!Next
  <2> QED
    BY <2>2, <2>3
<1>4. CASE Persist(t)
  <2>1. op[t] # None /\ pc[t] = "rename" /\ temp[t] = "synced"
    BY <1>4 DEF Persist, Hands, InHand
  <2>2. buffer[t] = After(op[t], file) /\ reply[t] = Reply(op[t], file)
    BY <2>1 DEF Fresher, UpToDate
  <2>3. /\ Given' = [Given EXCEPT ![t] = Reply(op[t], file)]
        /\ Lasting' = Lasting
        /\ Given[t] = None
    BY <1>4, <2>1, <2>2 DEF Persist, Set, TypeOK, Given, Lasting, Done
  <2>4. Map!Perform(t)
    BY <1>4, <2>1, <2>2, <2>3, SameRecords DEF Map!Perform, Persist
  <2> QED
    BY <2>4 DEF Map!Next
<1>5. CASE SyncDir(t)
  <2>1. pc[t] = "sync_dir" /\ reply[t] # None
    BY <1>5 DEF SyncDir, Hands, InHand
  <2>2. /\ Given' = Given
        /\ Lasting' = [Lasting EXCEPT ![t] = reply[t].status = "ok" /\ op[t].kind \in Mutations]
        /\ Given[t] = reply[t]
    BY <1>5, <2>1 DEF SyncDir, Set, TypeOK, Given, Lasting, Done
  <2>3. Map!Settle(t)
    BY <1>5, <2>1, <2>2, SameRecords DEF Map!Settle, Map!Confirmed, SyncDir
  <2> QED
    BY <2>3 DEF Map!Next
<1>6. CASE IoFails(t)
  <2>1. op[t] # None /\ pc[t] \in {"flock", "read", "write", "sync_file", "rename", "sync_dir"}
    BY <1>6 DEF IoFails, Hands, InHand
  <2>2. /\ Given' = [Given EXCEPT ![t] = Failure]
        /\ Lasting' = Lasting
    BY <1>6, <2>1 DEF IoFails, Set, TypeOK, Given, Lasting, Done, Failure
  <2>3. Map!Fail(t)
    BY <1>6, <2>1, <2>2, SameRecords DEF Map!Fail, IoFails, disk
  <2> QED
    BY <2>3 DEF Map!Next
<1>7. CASE Answer(t) \/ BootHears(t)
  <2>1. pc[t] = "answer" /\ reply[t] # None
    BY <1>7 DEF Answer, BootHears, Hands, InHand
  <2>2. Map!Ends({t})
    BY <1>7, MapEnds DEF Answer, BootHears, Forget, Set, TypeOK, Done
  <2>3. Given[t] = reply[t] /\ (reply[t].status = "ok" /\ op[t].kind \in Mutations => Lasting[t])
    BY <2>1 DEF Given, Lasting, Done
  <2>4. Map!Return(t)
    BY <1>7, <2>1, <2>2, <2>3, SameRecords DEF Map!Return, Map!Confirmed, Answer, BootHears, disk
  <2> QED
    BY <2>4 DEF Map!Next
<1>8. ASSUME NEW i \in Ids, BootClears(t, i) PROVE Map!Next
  BY <1>8, MapCall, BootOps DEF BootClears, Map!Next
<1> QED
  BY <1>1, <1>2, <1>3, <1>4, <1>5, <1>6, <1>7, <1>8 DEF Step
LEMMA MapNext ==
  ASSUME IInv, LockInv, Fresher, [Next]_vars
  PROVE  Map!Next \/ UNCHANGED Map!vars
<1> TypeOK
  BY DEF IInv
<1>1. ASSUME NEW t \in Tasks, NEW o \in Requested, Ask(t, o) PROVE Map!Next
  BY <1>1, MapCall DEF Ask, Map!Next
<1>2. ASSUME NEW t \in Tasks, Boot(t) PROVE Map!Next
  BY <1>2, MapCall, BootOps DEF Boot, Map!Next
<1>3. ASSUME NEW T \in SUBSET Tasks, Map!Vanish(T) PROVE Map!Next
  BY <1>3 DEF Map!Next
<1>4. ASSUME NEW t \in Tasks, HangUp(t) PROVE Map!Next
  <2>1. op' = [u \in Tasks |-> IF u \in {t} THEN None ELSE op[u]]
    BY <1>4 DEF HangUp, Set, TypeOK
  <2>2. pc'[t] = "idle" /\ \A u \in Tasks \ {t} : pc'[u] = pc[u] /\ reply'[u] = reply[u]
    BY <1>4 DEF HangUp, Set, TypeOK
  <2>3. Map!Ends({t})
    BY <2>1, <2>2, MapEnds DEF Done
  <2> QED
    BY <1>3, <1>4, <2>3 DEF Map!Vanish, HangUp, disk
<1>5. ASSUME NEW P \in SUBSET Procs, Dies(P)
      PROVE  Map!Ends({t \in Tasks : ProcOf[t] \in P})
  BY <1>5, MapEnds DEF Dies, TypeOK, Done
<1>6. ASSUME NEW p \in Procs, Crash(p) PROVE Map!Next
  BY <1>3, <1>5, <1>6 DEF Map!Vanish, Crash, disk
<1>7. CASE LosePower
  <2>1. {t \in Tasks : ProcOf[t] \in Procs} = Tasks
    OBVIOUS
  <2>2. Map!Ends(Tasks)
    BY <1>5, <1>7, <2>1 DEF LosePower
  <2> QED
    BY <1>7, <2>2 DEF Map!LosePower, LosePower, Map!Next
<1>8. CASE UNCHANGED vars
  BY <1>8, SameStutters DEF vars, disk, work, Same, Given, Lasting
<1> QED
  BY <1>1, <1>2, <1>4, <1>6, <1>7, <1>8, MapStep DEF Next

\* The store implements the map: calls are atomic, in spite of other proxies,
\* failures and crashes, and what is confirmed lasts.
THEOREM MapCorrect == Spec => MapSpec
<1>1. IInv /\ LockInv /\ Fresher /\ [Next]_vars => [Map!Next]_(Map!vars)
  BY MapNext
<1> QED
  BY <1>1, MapInit, Invariant, LockCorrect, FresherAlways, PTL DEF Spec, MapSpec, Map!Spec

-----------------------------------------------------------------------------
(* Histories *)

\* Valid histories are valid one after the other.
LEMMA ConcatFacts ==
  ASSUME NEW g \in Histories, NEW h \in Histories, ValidHistory(g), ValidHistory(h)
  PROVE  g \o h \in Histories /\ ValidHistory(g \o h)
<1>1. g \o h \in Seq(Messages) /\ Len(g \o h) = Len(g) + Len(h)
  BY DEF Histories
<1>2. ASSUME NEW i \in 1..Len(g \o h) PROVE (g \o h)[i] \notin Malformed
  <2>1. CASE i \in 1..Len(g)
    <3>1. (g \o h)[i] = g[i]
      BY <2>1 DEF Histories
    <3> QED
      BY <2>1, <3>1 DEF ValidHistory
  <2>2. CASE i \notin 1..Len(g)
    <3>1. i - Len(g) \in 1..Len(h) /\ (g \o h)[i] = h[i - Len(g)]
      BY <1>1, <1>2, <2>2 DEF Histories
    <3> QED
      BY <3>1 DEF ValidHistory
  <2> QED
    BY <2>1, <2>2
<1> QED
  BY <1>1, <1>2 DEF Histories, ValidHistory

\* An operation that is carried out keeps every history valid and short.
LEMMA AfterWithin ==
  ASSUME NEW o \in Operation, NEW m \in Maps, WithinLimit(m)
  PROVE  WithinLimit(After(o, m))
<1>1. CASE ~Writes(o, m)
  BY <1>1 DEF After
<1>2. CASE Writes(o, m)
  <2>1. o.id \in Ids /\ o.messages \in Histories
    BY <1>2 DEF Writes, Mutations, Operation, Requests, Kinds
  <2> DEFINE e == Entry(o, m)
  <2>2. e # None => Len(e.history) <= MaxMessages /\ ValidHistory(e.history)
    <3>1. CASE o.kind = "delete"
      BY <3>1 DEF Entry
    <3>2. CASE o.kind = "create" /\ m[o.id] = None
      BY <3>2, LimitType DEF Entry, Fresh, ValidHistory
    <3>3. CASE o.kind # "delete" /\ ~(o.kind = "create" /\ m[o.id] = None)
      <4> DEFINE r == m[o.id]
      <4>1. Status(o, m) = "ok" /\ e = Changed(o, r)
        BY <1>2, <3>3 DEF Writes, Entry
      <4>2. r # None /\ ~Refused(o) /\ ~BadChange(o)
        BY <1>2, <3>3, <4>1 DEF Status, Unknown, Writes, Mutations
      <4>3. r \in Record /\ r.history \in Histories /\ Len(r.history) <= MaxMessages /\ ValidHistory(r.history)
        BY <2>1, <4>2 DEF Maps, Record, WithinLimit
      <4>4. CASE o.kind = "append"
        <5>1. ValidHistory(o.messages)
          BY <4>2, <4>4 DEF Refused
        <5>2. r.history \o o.messages \in Histories /\ ValidHistory(r.history \o o.messages)
          BY <2>1, <4>3, <5>1, ConcatFacts
        <5>3. e = [r EXCEPT !.history = Recent(r.history \o o.messages)]
          BY <4>1, <4>4 DEF Changed
        <5> QED
          BY <4>3, <5>2, <5>3, RecentFacts DEF Record
      <4>5. CASE o.kind = "replace"
        <5>1. ValidHistory(o.messages)
          BY <4>2, <4>5 DEF BadChange
        <5>2. e = [r EXCEPT !.history = Recent(o.messages)]
          BY <4>1, <4>5 DEF Changed
        <5> QED
          BY <2>1, <4>3, <5>1, <5>2, RecentFacts DEF Record
      <4>6. CASE o.kind \notin {"append", "replace"}
        <5>1. e.history = r.history
          BY <4>1, <4>3, <4>6 DEF Changed, Record
        <5> QED
          BY <4>3, <5>1
      <4> QED
        BY <4>4, <4>5, <4>6
    <3> QED
      BY <3>1, <3>2, <3>3
  <2>3. After(o, m) = [m EXCEPT ![o.id] = e]
    BY <1>2 DEF After
  <2> QED
    BY <2>1, <2>2, <2>3 DEF WithinLimit, Maps
<1> QED
  BY <1>1, <1>2

LEMMA HistoriesInit == Init => HistoriesValid
  BY DEF Init, HistoriesValid

LEMMA HistoriesStep ==
  ASSUME IInv, HistoriesValid, [Next]_vars
  PROVE  HistoriesValid'
<1> TypeOK /\ Hands /\ FileWhole /\ file \in durable
  BY DEF IInv
<1>1. ASSUME UNCHANGED <<disk, buffer>> PROVE HistoriesValid'
  BY <1>1 DEF disk, HistoriesValid
<1>2. ASSUME NEW t \in Tasks, Read(t) PROVE HistoriesValid'
  <2>1. op[t] \in Operation /\ file \in Maps
    BY <1>2, NoneFacts DEF Read, TypeOK, Hands, InHand
  <2>2. WithinLimit(file) /\ file # None
    BY <2>1, NoneFacts DEF HistoriesValid, FileWhole
  <2>3. WithinLimit(After(op[t], file))
    BY <2>1, <2>2, AfterWithin
  <2>4. \A u \in Tasks : buffer'[u] \in {buffer[u], After(op[t], file)}
    BY <1>2 DEF Read, Set, TypeOK
  <2> QED
    BY <1>2, <2>3, <2>4 DEF Read, disk, HistoriesValid
<1>3. ASSUME NEW t \in Tasks, Persist(t) PROVE HistoriesValid'
  <2>1. file' = buffer[t] /\ durable' = durable \cup {buffer[t]} /\ buffer' = buffer
    BY <1>3 DEF Persist, Hands, InHand
  <2> QED
    BY <2>1 DEF HistoriesValid
<1>4. ASSUME NEW t \in Tasks, SyncDir(t) PROVE HistoriesValid'
  BY <1>4 DEF SyncDir, HistoriesValid
<1>5. ASSUME NEW t \in Tasks, Answer(t) \/ BootHears(t) PROVE HistoriesValid'
  <2>1. UNCHANGED disk /\ \A u \in Tasks : buffer'[u] \in {buffer[u], None}
    BY <1>5 DEF Answer, BootHears, Forget, Set, TypeOK
  <2> QED
    BY <2>1 DEF disk, HistoriesValid
<1>6. ASSUME NEW P \in SUBSET Procs, Dies(P), file' \in durable, durable' \in SUBSET durable
      PROVE  HistoriesValid'
  <2>1. \A u \in Tasks : buffer'[u] \in {buffer[u], None}
    BY <1>6 DEF Dies
  <2> QED
    BY <1>6, <2>1 DEF HistoriesValid
<1>7. ASSUME NEW p \in Procs, Crash(p) PROVE HistoriesValid'
  BY <1>6, <1>7 DEF Crash, disk
<1>8. CASE LosePower
  BY <1>6, <1>8 DEF LosePower
<1>9. ASSUME NEW t \in Tasks,
             Refuse(t) \/ LockMutex(t) \/ LockFile(t) \/ WriteTemp(t) \/ SyncTemp(t) \/ IoFails(t)
               \/ Unlock(t) \/ BootDone(t) \/ (\E i \in Ids : BootClears(t, i)) \/ Boot(t) \/ HangUp(t)
               \/ \E o \in Requested : Ask(t, o)
      PROVE  HistoriesValid'
  BY <1>1, <1>9 DEF Refuse, LockMutex, LockFile, WriteTemp, SyncTemp, IoFails, Unlock, BootDone,
                    BootClears, Boot, HangUp, Ask, Begin
<1>10. CASE UNCHANGED vars
  BY <1>1, <1>10 DEF vars, work
<1> QED
  BY <1>2, <1>3, <1>4, <1>5, <1>7, <1>8, <1>9, <1>10 DEF Next, Step

\* No history on the disk is too long or holds an invalid item.
THEOREM HistoriesCorrect == Spec => []HistoriesValid
<1>1. IInv /\ HistoriesValid /\ [Next]_vars => HistoriesValid'
  BY HistoriesStep
<1> QED
  BY <1>1, HistoriesInit, Invariant, PTL DEF Spec
-----------------------------------------------------------------------------
(* Projects *)

\* What a task is about to answer is a failure or the answer to its operation.
Truthful(t) == reply[t] # None => \/ reply[t] = Failure
                                 \/ \E m \in Maps : reply[t] = Reply(op[t], m)

AllTruthful == \A t \in Tasks : Truthful(t)

\* A session that is told is of the project that was asked for.
LEMMA ReplyProject ==
  ASSUME NEW o \in Operation, NEW m \in Maps, Reply(o, m).status = "ok", o.kind \in {"route", "create"}
  PROVE  Reply(o, m).value[o.id].project = o.project
<1>1. Status(o, m) = "ok" /\ o.id \in Ids /\ o.project \in Projects /\ Shown(o, m) = {o.id}
  BY DEF Reply, Operation, Shown
<1>2. Reply(o, m).value[o.id] = After(o, m)[o.id]
  BY <1>1 DEF Reply
<1>3. ~Foreign(o, m) /\ ~Unknown(o, m)
  BY <1>1 DEF Status
<1>4. m[o.id] # None => m[o.id].project = o.project /\ m[o.id] \in Record
  BY <1>1, <1>3 DEF Foreign, Maps
<1>5. After(o, m)[o.id] = IF m[o.id] = None THEN Fresh(o) ELSE m[o.id]
  BY <1>1, <1>3, <1>4 DEF After, Writes, Entry, Changed, Mutations, Kinds, Unknown, Maps
<1> QED
  BY <1>2, <1>4, <1>5 DEF Fresh

LEMMA TruthInit == Init => AllTruthful
  BY DEF Init, AllTruthful, Truthful

LEMMA TruthStep ==
  ASSUME IInv, AllTruthful, [Next]_vars
  PROVE  AllTruthful'
<1> TypeOK /\ Hands /\ FileWhole
  BY DEF IInv
<1>1. ASSUME NEW t \in Tasks,
             LockMutex(t) \/ LockFile(t) \/ WriteTemp(t) \/ SyncTemp(t) \/ Persist(t) \/ SyncDir(t)
               \/ Unlock(t) \/ BootDone(t)
      PROVE  AllTruthful'
  BY <1>1 DEF LockMutex, LockFile, WriteTemp, SyncTemp, Persist, SyncDir, Unlock, BootDone,
              AllTruthful, Truthful
<1>2. ASSUME NEW t \in Tasks, Read(t) PROVE AllTruthful'
  BY <1>2 DEF Read, Set, TypeOK, FileWhole, AllTruthful, Truthful
<1>3. ASSUME NEW t \in Tasks, Refuse(t) PROVE AllTruthful'
  BY <1>3, NoRecordsType DEF Refuse, Set, TypeOK, AllTruthful, Truthful
<1>4. ASSUME NEW t \in Tasks, IoFails(t) PROVE AllTruthful'
  BY <1>4 DEF IoFails, Set, TypeOK, AllTruthful, Truthful
<1>5. ASSUME NEW t \in Tasks, Answer(t) \/ BootHears(t) PROVE AllTruthful'
  BY <1>5 DEF Answer, BootHears, Forget, Set, TypeOK, AllTruthful, Truthful
<1>6. ASSUME NEW t \in Tasks, NEW o, Begin(t, o), pc[t] \in {"idle", "boot"} PROVE AllTruthful'
  <2>1. reply[t] = None /\ reply' = reply /\ \A u \in Tasks : u # t => op'[u] = op[u]
    BY <1>6 DEF Begin, Set, TypeOK, Hands, InHand
  <2> QED
    BY <2>1 DEF AllTruthful, Truthful
<1>7. ASSUME NEW t \in Tasks, (\E i \in Ids : BootClears(t, i)) \/ Boot(t) \/ \E o \in Requested : Ask(t, o)
      PROVE  AllTruthful'
  BY <1>6, <1>7 DEF BootClears, Boot, Ask
<1>8. ASSUME NEW t \in Tasks, HangUp(t) PROVE AllTruthful'
  <2>1. reply[t] = None /\ reply' = reply /\ \A u \in Tasks : u # t => op'[u] = op[u]
    BY <1>8 DEF HangUp, Set, TypeOK, Hands, InHand
  <2> QED
    BY <2>1 DEF AllTruthful, Truthful
<1>9. ASSUME NEW P \in SUBSET Procs, Dies(P) PROVE AllTruthful'
  BY <1>9 DEF Dies, AllTruthful, Truthful
<1>10. CASE LosePower \/ \E p \in Procs : Crash(p)
  BY <1>9, <1>10 DEF LosePower, Crash
<1>11. CASE UNCHANGED vars
  BY <1>11 DEF vars, work, AllTruthful, Truthful
<1> QED
  BY <1>1, <1>2, <1>3, <1>4, <1>5, <1>7, <1>8, <1>10, <1>11 DEF Next, Step

\* No request is given a session of another project.
THEOREM ProjectCorrect == Spec => []InProject
<1>1. IInv /\ AllTruthful /\ [Next]_vars => AllTruthful'
  BY TruthStep
<1>2. IInv /\ AllTruthful => InProject
  <2> SUFFICES ASSUME IInv, AllTruthful, NEW t \in Tasks, pc[t] = "answer",
                      reply[t].status = "ok", op[t].kind \in {"route", "create"}
               PROVE  reply[t].value[op[t].id].project = op[t].project
    BY DEF InProject
  <2>1. op[t] \in Operation /\ reply[t] # None
    BY NoneFacts DEF IInv, TypeOK, Hands, InHand
  <2>2. reply[t] # Failure
    BY DEF Failure
  <2> QED
    BY <2>1, <2>2, ReplyProject DEF AllTruthful, Truthful
<1> QED
  BY <1>1, <1>2, TruthInit, Invariant, PTL DEF Spec
=============================================================================
