---------------------------- MODULE Backup_proofs ----------------------------
(***************************************************************************)
(* What is proved about Backup, Settings and StoreFile for any number of   *)
(* requests, jobs and directories.                                         *)
(***************************************************************************)
EXTENDS Backup, FiniteSetTheorems, TLAPS

USE DEF filevars, jobvars, Becomes

-----------------------------------------------------------------------------
(* Types.                                                                  *)

LEMMA TornApart == Torn \notin Data
BY DEF Torn, Data, Key

LEMMA FreeHas == Free.step = "free"
BY DEF Free

LEMMA LockHas ==
    ASSUME TypeOK, lock.step \in {"truncate", "write", "rename"}
    PROVE  /\ lock.by \in Client
           /\ lock.before \in Data
           /\ \A s \in {"truncate", "write", "rename"} :
                [lock EXCEPT !.step = s] \in Lock(Client, Data)
<1>1. lock \in [step : {"truncate", "write", "rename"}, by : Client, before : Data]
  BY DEF TypeOK, SettingsTypeOK, FileTypeOK, Lock, Free
<1> QED
  BY <1>1 DEF Lock

LEMMA JobHas ==
    ASSUME TypeOK, NEW c \in Client
    PROVE  LET j == job[c]
           IN  /\ j.step = "set" => j.data \in Data
               /\ j.step \in {"start", "remember"} => j.key \in Key /\ j.dir \in Dir
               /\ j.step = "insert" => j.dir \in Dir /\ j.at \in Nat /\ j.disks \in Nat
<1>1. CASE job[c] = Idle
  BY <1>1 DEF Idle
<1>2. CASE job[c] \in Job
  BY <1>2 DEF Job
<1> QED
  BY <1>1, <1>2 DEF TypeOK, SettingsTypeOK

LEMMA WorkHas ==
    ASSUME TypeOK, NEW j \in Id
    PROVE  /\ work[j].step \in {"domain", "disk", "manifest"} => work[j].left \in Nat
           /\ work[j].step = "disk" => work[j].left # 0
<1>1. CASE work[j] = None
  BY <1>1 DEF None
<1>2. CASE work[j] \in Work \ {None}
  BY <1>2 DEF Work
<1> QED
  BY <1>1, <1>2 DEF TypeOK

LEMMA InitTypes == Init => TypeOK
<1> SUFFICES ASSUME Init PROVE TypeOK
  OBVIOUS
<1>1. [k \in Key |-> ""] \in Data
  BY DEF Data
<1>2. SettingsTypeOK
  BY <1>1 DEF Init, SettingsInit, SettingsTypeOK, FileInit, FileTypeOK, Lock
<1>3. [j \in Id |-> None] \in [Id -> Work]
  BY DEF Work
<1> QED
  BY <1>2, <1>3 DEF Init, TypeOK

\* The steps of the store leave the types of the requests alone.
LEMMA FileTypes ==
    ASSUME TypeOK, NEW c \in Client,
           Truncate(c) \/ Write(c) \/ Rename(c) \/ Fail(c),
           lock.step = "rename" => tmp = mem
    PROVE  FileTypeOK(Client, Data)'
<1> USE DEF TypeOK, SettingsTypeOK, FileTypeOK
<1>1. CASE Truncate(c)
  BY <1>1, LockHas DEF Truncate
<1>2. CASE Write(c)
  BY <1>2, LockHas DEF Write
<1>3. CASE Rename(c)
  BY <1>3 DEF Rename, Lock
<1>4. CASE Fail(c)
  BY <1>4 DEF Fail, Lock
<1> QED
  BY <1>1, <1>2, <1>3, <1>4

\* A save that is about to rename its file has written all of it.
TmpWhole == lock.step = "rename" => tmp = mem

LEMMA RequestTypes ==
    ASSUME TypeOK, TmpWhole, NEW c \in Client, Request(c)
    PROVE  TypeOK'
<1> USE DEF TypeOK
<1>1. ASSUME NEW in \in Form, Put(c, in)
      PROVE  SettingsTypeOK'
  <2>1. [step |-> "set", data |-> in] \in Job
    BY DirAssumption DEF Job
  <2>2. in \in [Key -> Dir \cup {""}]
    BY DirAssumption DEF Data
  <2>3. ASSUME NEW k \in Key, in[k] # ""
        PROVE  <<k, in[k]>> \in Key \X Dir
    BY <2>2, <2>3
  <2>4. used' \in SUBSET (Key \X Dir)
    <3> DEFINE named == {<<k, in[k]>> : k \in {k \in Key : in[k] # ""}}
    <3>1. named \subseteq Key \X Dir
      BY <2>3
    <3>2. used' = used \cup named
      BY <1>1 DEF Put
    <3>3. used \subseteq Key \X Dir
      BY DEF SettingsTypeOK
    <3> HIDE DEF named
    <3> QED
      BY <3>1, <3>2, <3>3
  <2>5. job' \in [Client -> {Idle} \cup Job]
    BY <1>1, <2>1 DEF Put, SettingsTypeOK
  <2>6. FileTypeOK(Client, Data)'
    BY <1>1 DEF Put, SettingsTypeOK, FileTypeOK
  <2> QED
    BY <2>4, <2>5, <2>6 DEF SettingsTypeOK
<1>2. ASSUME NEW k \in Key, NEW d \in Dir, Ask(c, k, d)
      PROVE  SettingsTypeOK'
  <2>1. [step |-> "start", key |-> k, dir |-> d] \in Job
    BY DEF Job
  <2> QED
    BY <1>2, <2>1 DEF Ask, SettingsTypeOK, FileTypeOK
<1>3. CASE Refused(c)
  BY <1>3 DEF Refused, SettingsTypeOK, FileTypeOK, Request
<1>4. CASE Snapshot(c)
  <2>1. BaseOf[job[c].dir] \in Dir
    BY <1>4, JobHas, DirAssumption DEF Snapshot
  <2>2. /\ [step |-> "remember", key |-> "snapshot", dir |-> BaseOf[job[c].dir]] \in Job
        /\ <<"snapshot", BaseOf[job[c].dir]>> \in Key \X Dir
    BY <2>1 DEF Job, Key
  <2> QED
    BY <1>4, <2>2 DEF Snapshot, SettingsTypeOK, FileTypeOK, Request
<1>5. CASE Remember(c)
  <2> DEFINE data == [mem EXCEPT ![job[c].key] = job[c].dir]
  <2>1. data \in Data
    BY <1>5, JobHas DEF Remember, Data, SettingsTypeOK, FileTypeOK
  <2>2. [step |-> "set", data |-> data] \in Job
    BY <2>1 DEF Job
  <2> QED
    BY <1>5, <2>2 DEF Remember, SettingsTypeOK, FileTypeOK, Request
<1>6. CASE SetBegins(c)
  <2>1. job[c].data \in Data
    BY <1>6, JobHas DEF SetBegins
  <2>2. [step |-> "truncate", by |-> c, before |-> mem] \in Lock(Client, Data)
    BY DEF Lock, SettingsTypeOK, FileTypeOK
  <2> QED
    BY <1>6, <2>1, <2>2 DEF SetBegins, Acquire, SettingsTypeOK, FileTypeOK, Request
<1>7. CASE SetGoesOn(c)
  BY <1>7, FileTypes DEF SetGoesOn, SettingsTypeOK, TmpWhole, Request
<1> QED
  BY <1>1, <1>2, <1>3, <1>4, <1>5, <1>6, <1>7 DEF Request

LEMMA StartTypes ==
    ASSUME TypeOK, NEW c \in Client, StartsBackup(c)
    PROVE  TypeOK'
<1> USE DEF TypeOK, SettingsTypeOK
<1>1. ASSUME NEW disks \in Disks, NEW t \in Second, Accepted(c, disks, t)
      PROVE  TypeOK'
  <2>1. [step |-> "insert", dir |-> job[c].dir, at |-> t, disks |-> disks] \in Job
    BY <1>1, JobHas, JobsAssumption DEF Accepted, Job
  <2> QED
    BY <1>1, <2>1 DEF Accepted, FileTypeOK
<1>2. ASSUME NEW j \in Id, Insert(c, j)
      PROVE  TypeOK'
  <2>1. job[c].dir \in Dir /\ job[c].at \in Nat /\ job[c].disks \in Nat
    BY <1>2, JobHas DEF Insert
  <2>2. /\ [step |-> "remember", key |-> "backup", dir |-> job[c].dir] \in Job
        /\ <<"backup", job[c].dir>> \in Key \X Dir
        /\ [step |-> "domain", left |-> job[c].disks] \in Work
    BY <2>1 DEF Job, Key, Work
  <2>3. FileTypeOK(Client, Data)'
    BY <1>2 DEF Insert, FileTypeOK
  <2>4. job' \in [Client -> {Idle} \cup Job] /\ used' \in SUBSET (Key \X Dir)
    BY <1>2, <2>2 DEF Insert
  <2>5. list' \in SUBSET Id /\ pruned' \in SUBSET Id
    BY <1>2 DEF Insert
  <2>6. /\ state' \in [Id -> {"new", "running", "done", "failed", "lost"}]
        /\ started' \in [Id -> Nat]
        /\ work' \in [Id -> Work]
    BY <1>2, <2>1, <2>2 DEF Insert
  <2> QED
    BY <2>3, <2>4, <2>5, <2>6
<1> QED
  BY <1>1, <1>2 DEF StartsBackup

LEMMA AfterType ==
    ASSUME NEW n \in Nat
    PROVE  After(n) \in Work
BY DEF After, Work

LEMMA RunTypes ==
    ASSUME TypeOK, NEW j \in Id, Run(j)
    PROVE  TypeOK'
<1>1. ASSUME NEW w \in Work, NEW s \in {"running", "done", "failed"}, GoesOn(j, w, s)
      PROVE  TypeOK'
  BY <1>1 DEF GoesOn, TypeOK, SettingsTypeOK, FileTypeOK
<1>2. None \in Work
  BY DEF Work
<1>3. ASSUME NEW ok \in BOOLEAN, WriteDomain(j, ok)
      PROVE  TypeOK'
  BY <1>1, <1>2, <1>3, WorkHas, AfterType DEF WriteDomain
<1>4. ASSUME NEW ok \in BOOLEAN, Convert(j, ok)
      PROVE  TypeOK'
  <2>1. work[j].left - 1 \in Nat
    BY <1>4, WorkHas DEF Convert
  <2> QED
    BY <1>1, <1>2, <1>4, <2>1, AfterType DEF Convert
<1>5. CASE Manifest(j)
  BY <1>1, <1>2, <1>5 DEF Manifest
<1> QED
  BY <1>3, <1>4, <1>5 DEF Run

LEMMA StepTypes == TypeOK /\ TmpWhole /\ [Next]_vars => TypeOK'
<1> SUFFICES ASSUME TypeOK, TmpWhole, [Next]_vars
             PROVE  TypeOK'
  OBVIOUS
<1>1. CASE Restart
  <2>1. [j \in Id |-> None] \in [Id -> Work]
    BY DEF Work
  <2> QED
    BY <1>1, <2>1 DEF Restart, Stop, TypeOK, SettingsTypeOK, FileTypeOK, Lock
<1>2. CASE UNCHANGED vars
  BY <1>2 DEF vars, TypeOK, SettingsTypeOK, FileTypeOK
<1> QED
  BY <1>1, <1>2, RequestTypes, StartTypes, RunTypes DEF Next

LEMMA InitWhole == Init => TmpWhole
BY FreeHas DEF Init, SettingsInit, FileInit, TmpWhole

LEMMA WholeStep == TmpWhole /\ [Next]_vars => TmpWhole'
<1> SUFFICES ASSUME TmpWhole, [Next]_vars
             PROVE  TmpWhole'
  OBVIOUS
<1>1. ASSUME NEW c, Request(c)
      PROVE  TmpWhole'
  <2>1. CASE UNCHANGED <<lock, tmp, mem>>
    BY <2>1 DEF TmpWhole
  <2>2. CASE lock'.step # "rename"
    BY <2>2 DEF TmpWhole
  <2>3. CASE Write(c)
    BY <2>3 DEF Write, TmpWhole
  <2>4. CASE Truncate(c)
    BY <2>4, <2>2 DEF Truncate
  <2>5. CASE Rename(c) \/ Fail(c)
    BY <2>5, <2>2, FreeHas DEF Rename, Fail
  <2>6. CASE SetBegins(c)
    BY <2>6, <2>2 DEF SetBegins, Acquire
  <2> QED
    BY <1>1, <2>1, <2>3, <2>4, <2>5, <2>6 DEF Request, Put, Ask, Refused,
       Snapshot, Remember, SetGoesOn
<1>2. ASSUME NEW c, StartsBackup(c)
      PROVE  TmpWhole'
  BY <1>2 DEF StartsBackup, Accepted, Insert, TmpWhole
<1>3. ASSUME NEW j, Run(j)
      PROVE  TmpWhole'
  BY <1>3 DEF Run, WriteDomain, Convert, Manifest, GoesOn, TmpWhole
<1>4. CASE Restart
  BY <1>4, FreeHas DEF Restart, Stop, TmpWhole
<1> QED
  BY <1>1, <1>2, <1>3, <1>4 DEF Next, vars, TmpWhole

(* Every variable keeps its type; in particular neither the file nor what  *)
(* a new daemon reads from it is ever half a record.                       *)
THEOREM TypeCorrect == Spec => []TypeOK
BY InitWhole, InitTypes, StepTypes, WholeStep, PTL DEF Spec

-----------------------------------------------------------------------------
(* The refinement of the atomic store.                                     *)

\* A step of the holder is a save of the atomic store when it ends, and
\* nothing before.
LEMMA AtomicSave ==
    ASSUME TypeOK, TmpWhole, NEW c \in Client, SetGoesOn(c)
    PROVE  [Atomic!Next]_(Atomic!store)
<1> USE DEF Atomic!Next, Atomic!Save, Atomic!store, Seen
<1>1. CASE Truncate(c) \/ Write(c)
  <2>1. lock # Free /\ lock' # Free /\ lock'.before = lock.before
    BY <1>1, LockHas DEF Truncate, Write, Free, TypeOK, SettingsTypeOK, FileTypeOK, Lock
  <2> QED
    BY <1>1, <2>1 DEF Truncate, Write
<1>2. CASE Rename(c)
  <2>1. mem \in Data /\ file' = mem /\ mem' = mem /\ unsaved' = FALSE /\ lock' = Free
    BY <1>2 DEF Rename, TmpWhole, TypeOK, SettingsTypeOK, FileTypeOK
  <2> QED
    BY <2>1
<1>3. CASE Fail(c)
  <2>1. /\ mem \in Data /\ file' = file /\ mem' = mem /\ unsaved' = TRUE /\ lock' = Free
        /\ "save" \in Events
    BY <1>3 DEF Fail, TypeOK, SettingsTypeOK, FileTypeOK
  <2> QED
    BY <2>1
<1> QED
  BY <1>1, <1>2, <1>3 DEF SetGoesOn

LEMMA AtomicStep ==
    TypeOK /\ TmpWhole /\ [Next]_vars => [Atomic!Next]_(Atomic!store)
<1> SUFFICES ASSUME TypeOK, TmpWhole, [Next]_vars
             PROVE  [Atomic!Next]_(Atomic!store)
  OBVIOUS
<1>1. CASE UNCHANGED filevars
  BY <1>1 DEF Atomic!store, Seen
<1>2. CASE Restart
  BY <1>2 DEF Restart, Stop, Atomic!Next, Atomic!Reload, Seen
<1>3. ASSUME NEW c \in Client, SetBegins(c)
      PROVE  [Atomic!Next]_(Atomic!store)
  BY <1>3 DEF SetBegins, Acquire, Atomic!store, Seen, Free
<1>4. ASSUME NEW c \in Client, Request(c)
      PROVE  [Atomic!Next]_(Atomic!store)
  BY <1>1, <1>3, <1>4, AtomicSave DEF Request, Put, Ask, Refused, Snapshot, Remember
<1>5. ASSUME NEW c \in Client, StartsBackup(c)
      PROVE  [Atomic!Next]_(Atomic!store)
  BY <1>1, <1>5 DEF StartsBackup, Accepted, Insert
<1>6. ASSUME NEW j \in Id, Run(j)
      PROVE  [Atomic!Next]_(Atomic!store)
  BY <1>1, <1>6 DEF Run, WriteDomain, Convert, Manifest, GoesOn
<1> QED
  BY <1>1, <1>2, <1>4, <1>5, <1>6 DEF Next, vars

(* The settings file implements the atomic store: as far as readers see,   *)
(* memory and file change in one step, whatever fails or stops in between. *)
THEOREM StoreImplementsAtomic == Spec => StoreIsAtomic
<1>1. Init => Atomic!Init
  <2>1. [k \in Key |-> ""] \in Data
    BY DEF Data
  <2> QED
    BY <2>1 DEF Init, SettingsInit, FileInit, Atomic!Init, Atomic!StoreInit, Seen
<1> QED
  BY <1>1, InitWhole, InitTypes, StepTypes, WholeStep, AtomicStep, PTL
     DEF Spec, StoreIsAtomic, Atomic!Spec

-----------------------------------------------------------------------------
(* The remembered directories.                                             *)

\* "" or a directory that was put or used.
Known(k, d) == d = "" \/ <<k, d>> \in used

\* Nothing unknown is on its way to memory or file, and of the directories of
\* backups only valid ones are.
DirInv ==
    /\ \A k \in Key : Known(k, mem[k]) /\ Known(k, file[k])
    /\ \A d \in Dir : <<"backup", d>> \in used => Valid(d)
    /\ \A c \in Client :
         /\ job[c].step = "set" => \A k \in Key : Known(k, job[c].data[k])
         /\ job[c].step = "remember" => <<job[c].key, job[c].dir>> \in used
         /\ job[c].step = "start" => Valid(job[c].dir)
         /\ job[c].step = "insert" => Valid(job[c].dir)

\* What a request's move to `j` has to show for DirInv to hold again.
JobFits(j) ==
    /\ j.step = "set" => \A k \in Key : j.data[k] = "" \/ <<k, j.data[k]>> \in used'
    /\ j.step = "remember" => <<j.key, j.dir>> \in used'
    /\ j.step \in {"start", "insert"} => Valid(j.dir)

LEMMA DirMoves ==
    ASSUME TypeOK, DirInv, NEW c \in Client, NEW j, Becomes(c, j), JobFits(j),
           UNCHANGED <<mem, file>>, used \subseteq used',
           \A d \in Dir : <<"backup", d>> \in used' => Valid(d)
    PROVE  DirInv'
<1>1. \A k \in Key : Known(k, mem[k])' /\ Known(k, file[k])'
  BY DEF DirInv, Known
<1>2. ASSUME NEW b \in Client
      PROVE  /\ job'[b].step = "set" => \A k \in Key : Known(k, job[b].data[k])'
             /\ job'[b].step = "remember" => <<job'[b].key, job'[b].dir>> \in used'
             /\ job'[b].step = "start" => Valid(job'[b].dir)
             /\ job'[b].step = "insert" => Valid(job'[b].dir)
  <2>1. job'[b] = IF b = c THEN j ELSE job[b]
    BY DEF TypeOK, SettingsTypeOK
  <2>2. CASE b = c
    BY <2>1, <2>2 DEF JobFits, Known
  <2>3. CASE b # c
    BY <2>1, <2>3 DEF DirInv, Known
  <2> QED
    BY <2>2, <2>3
<1> QED
  BY <1>1, <1>2 DEF DirInv, Valid

LEMMA RequestKnows ==
    ASSUME TypeOK, TmpWhole, DirInv, NEW c \in Client, Request(c)
    PROVE  DirInv'
<1>0. used \in SUBSET (Key \X Dir) /\ \A d \in Dir : <<"backup", d>> \in used => Valid(d)
  BY DEF DirInv, TypeOK, SettingsTypeOK
<1>1. ASSUME NEW in \in Form, Put(c, in)
      PROVE  DirInv'
  <2>1. in \in [Key -> Dir \cup {""}]
    BY DirAssumption DEF Data
  <2>2. \A k \in Key : in[k] = "" \/ <<k, in[k]>> \in used'
    BY <1>1 DEF Put
  <2>3. JobFits([step |-> "set", data |-> in])
    BY <2>2 DEF JobFits, Known
  <2>4. ASSUME NEW d \in Dir, <<"backup", d>> \in used'
        PROVE  Valid(d)
    BY <1>0, <1>1, <2>4 DEF Put
  <2> QED
    BY <1>1, <2>3, <2>4, DirMoves DEF Put
<1>2. ASSUME NEW k \in Key, NEW d \in Dir, Ask(c, k, d)
      PROVE  DirInv'
  <2>1. JobFits([step |-> "start", key |-> k, dir |-> d])
    BY <1>2 DEF JobFits, Ask
  <2> QED
    BY <1>0, <1>2, <2>1, DirMoves DEF Ask
<1>3. CASE Refused(c)
  <2>1. JobFits(Idle)
    BY DEF JobFits, Idle
  <2> QED
    BY <1>0, <1>3, <2>1, DirMoves DEF Refused
<1>4. CASE Snapshot(c)
  <2> DEFINE j == [step |-> "remember", key |-> "snapshot", dir |-> BaseOf[job[c].dir]]
  <2>1. JobFits(j)
    BY <1>4 DEF JobFits, Snapshot
  <2>2. \A d \in Dir : <<"backup", d>> \in used' => Valid(d)
    BY <1>0, <1>4 DEF Snapshot
  <2> HIDE DEF j
  <2>3. Becomes(c, j)
    BY <1>4 DEF Snapshot, j
  <2> QED
    BY <1>4, <2>1, <2>2, <2>3, DirMoves DEF Snapshot
<1>5. CASE Remember(c)
  <2> DEFINE r == job[c]
             data == [mem EXCEPT ![r.key] = r.dir]
             j == IF mem[r.key] = r.dir THEN Idle ELSE [step |-> "set", data |-> data]
  <2>1. r.key \in Key /\ r.dir \in Dir /\ <<r.key, r.dir>> \in used
    BY <1>5, JobHas DEF Remember, DirInv
  <2>2. \A k \in Key : data[k] = IF k = r.key THEN r.dir ELSE mem[k]
    BY <2>1 DEF TypeOK, SettingsTypeOK, FileTypeOK, Data
  <2>3. \A k \in Key : Known(k, data[k])
    BY <2>1, <2>2 DEF DirInv, Known
  <2>4. Becomes(c, j) /\ UNCHANGED <<mem, file, used>>
    BY <1>5 DEF Remember
  <2>5. JobFits(Idle)
    BY DEF JobFits, Idle
  <2>6. JobFits([step |-> "set", data |-> data])
    <3> DEFINE set == [step |-> "set", data |-> data]
    <3>1. set.step = "set" /\ set.data = data
      OBVIOUS
    <3>2. \A k \in Key : data[k] = "" \/ <<k, data[k]>> \in used'
      BY <2>3, <2>4 DEF Known
    <3> HIDE DEF data, set
    <3>3. \A k \in Key : set.data[k] = "" \/ <<k, set.data[k]>> \in used'
      BY <3>1, <3>2
    <3> QED
      BY <3>1, <3>3 DEF JobFits, set
  <2>7. JobFits(j)
    BY <2>5, <2>6
  <2> HIDE DEF j
  <2> QED
    BY <1>0, <2>4, <2>7, DirMoves
<1>6. CASE SetBegins(c)
  <2>1. \A k \in Key : Known(k, job[c].data[k])
    BY <1>6 DEF SetBegins, DirInv
  <2> QED
    BY <1>6, <2>1 DEF SetBegins, Acquire, DirInv, Known
<1>7. CASE SetGoesOn(c)
  <2>1. CASE (Truncate(c) \/ Write(c)) /\ UNCHANGED job
    BY <1>7, <2>1 DEF SetGoesOn, Truncate, Write, DirInv, Known
  <2>2. CASE Rename(c) /\ Becomes(c, Idle)
    <3>1. mem' = mem /\ file' = mem /\ used' = used
      BY <1>7, <2>2 DEF SetGoesOn, Rename, TmpWhole
    <3>2. \A b \in Client : job'[b] = IF b = c THEN Idle ELSE job[b]
      BY <2>2 DEF TypeOK, SettingsTypeOK
    <3>3. Idle.step = "idle"
      BY DEF Idle
    <3> QED
      BY <3>1, <3>2, <3>3 DEF DirInv, Known
  <2>3. CASE Fail(c) /\ Becomes(c, Idle)
    <3>1. JobFits(Idle)
      BY DEF JobFits, Idle
    <3> QED
      BY <1>0, <1>7, <2>3, <3>1, DirMoves DEF SetGoesOn, Fail
  <2> QED
    BY <1>7, <2>1, <2>2, <2>3 DEF SetGoesOn
<1> QED
  BY <1>1, <1>2, <1>3, <1>4, <1>5, <1>6, <1>7 DEF Request

LEMMA StartKnows ==
    ASSUME TypeOK, DirInv, NEW c \in Client, StartsBackup(c)
    PROVE  DirInv'
<1>0. used \in SUBSET (Key \X Dir) /\ \A d \in Dir : <<"backup", d>> \in used => Valid(d)
  BY DEF DirInv, TypeOK, SettingsTypeOK
<1>1. ASSUME NEW disks \in Disks, NEW t \in Second, Accepted(c, disks, t)
      PROVE  DirInv'
  <2>1. JobFits([step |-> "insert", dir |-> job[c].dir, at |-> t, disks |-> disks])
    BY <1>1 DEF JobFits, Accepted, DirInv
  <2> QED
    BY <1>0, <1>1, <2>1, DirMoves DEF Accepted
<1>2. ASSUME NEW j \in Id, Insert(c, j)
      PROVE  DirInv'
  <2>1. Valid(job[c].dir)
    BY <1>2 DEF Insert, DirInv
  <2>2. JobFits([step |-> "remember", key |-> "backup", dir |-> job[c].dir])
    BY <1>2 DEF JobFits, Insert
  <2>3. \A d \in Dir : <<"backup", d>> \in used' => Valid(d)
    BY <1>0, <1>2, <2>1 DEF Insert
  <2> QED
    BY <1>2, <2>2, <2>3, DirMoves DEF Insert
<1> QED
  BY <1>1, <1>2 DEF StartsBackup

LEMMA DirStep == TypeOK /\ TmpWhole /\ DirInv /\ [Next]_vars => DirInv'
<1> SUFFICES ASSUME TypeOK, TmpWhole, DirInv, [Next]_vars
             PROVE  DirInv'
  OBVIOUS
<1>1. CASE UNCHANGED <<mem, file, used, job>>
  BY <1>1 DEF DirInv, Known, Valid
<1>2. ASSUME NEW j \in Id, Run(j)
      PROVE  DirInv'
  BY <1>1, <1>2 DEF Run, WriteDomain, Convert, Manifest, GoesOn
<1>3. CASE Restart
  <2>1. Idle.step = "idle" /\ \A c \in Client : job'[c] = Idle
    BY <1>3 DEF Restart, Idle
  <2> QED
    BY <1>3, <2>1 DEF Restart, Stop, DirInv, Known, Valid
<1> QED
  BY <1>1, <1>2, <1>3, RequestKnows, StartKnows DEF Next, vars

LEMMA InitKnows == Init => DirInv
<1>1. Idle.step = "idle"
  BY DEF Idle
<1> QED
  BY <1>1 DEF Init, SettingsInit, FileInit, DirInv, Known, Valid

(* Whatever is remembered was put by a user or used by work that was taken *)
(* on, for any number of requests in any order.                            *)
THEOREM OnlyUsedRemembered == Spec => []RememberedWasUsed
<1>1. TypeOK /\ DirInv => RememberedWasUsed
  BY DEF DirInv, Known, RememberedWasUsed, TypeOK, SettingsTypeOK, FileTypeOK, Data
<1> QED
  BY <1>1, InitKnows, InitTypes, InitWhole, DirStep, StepTypes, WholeStep, PTL DEF Spec

(* No directory that validation refuses becomes the default of backups.    *)
THEOREM BackupDefaultValid == Spec => []BackupDirValid
<1>1. TypeOK /\ DirInv => BackupDirValid
  <2> SUFFICES ASSUME TypeOK, DirInv
               PROVE  BackupDirValid
    OBVIOUS
  <2>1. "backup" \in Key
    BY DEF Key
  <2>2. /\ mem["backup"] \in Dir \cup {""} /\ Known("backup", mem["backup"])
        /\ file["backup"] \in Dir \cup {""} /\ Known("backup", file["backup"])
    BY <2>1 DEF DirInv, TypeOK, SettingsTypeOK, FileTypeOK, Data
  <2> QED
    BY <2>2, DirAssumption DEF DirInv, Known, BackupDirValid, Valid
<1> QED
  BY <1>1, InitKnows, InitTypes, InitWhole, DirStep, StepTypes, WholeStep, PTL DEF Spec

-----------------------------------------------------------------------------
(* The list of jobs.                                                       *)

\* Only jobs that are listed or pruned have a start to compare, so that a new
\* one disturbs no comparison; and a goroutine works on a running job.
ListInv ==
    /\ NewestListed
    /\ list \cap pruned = {}
    /\ \A j \in list \cup pruned : state[j] # "new"
    /\ \A j \in Id : work[j].step # "none" => state[j] = "running"

LEMMA ListFinite ==
    ASSUME TypeOK, NEW j \in Id, j \notin list
    PROVE  /\ IsFiniteSet(list \cup {j})
           /\ Cardinality(list) \in Nat
           /\ Cardinality(list \cup {j}) = Cardinality(list) + 1
<1>1. IsFiniteSet(list)
  BY IdAssumption, FS_Subset DEF TypeOK
<1> QED
  BY <1>1, FS_CardinalityType, FS_AddElement

LEMMA ListedJobStarts ==
    ASSUME TypeOK, ListInv, NEW c \in Client, NEW j \in Id, Insert(c, j)
    PROVE  ListInv'
<1> DEFINE jobs == list \cup {j}
<1>1. j \notin list /\ j \notin pruned
  BY DEF Insert, ListInv
<1>2. /\ list' \subseteq jobs
      /\ Cardinality(list') = IF Cardinality(jobs) < MaxJobs THEN Cardinality(jobs) ELSE MaxJobs
      /\ \A k \in list', d \in jobs \ list' : started'[k] >= started'[d]
      /\ pruned' = pruned \cup (jobs \ list')
  BY DEF Insert, Keeps
<1>3. \A k \in Id : k # j => started'[k] = started[k]
  BY DEF Insert, TypeOK
<1>4. /\ IsFiniteSet(jobs) /\ Cardinality(jobs) = Cardinality(list) + 1
      /\ Cardinality(list) \in Nat /\ MaxJobs \in Nat
  <2>1. MaxJobs \in Nat
    BY JobsAssumption
  <2> QED
    BY <1>1, <2>1, ListFinite
<1>5. Cardinality(list') <= MaxJobs
  BY <1>2, <1>4
<1>6. started' \in [Id -> Nat] /\ pruned \subseteq Id /\ list \subseteq Id
  BY RequestTypes, StartTypes DEF StartsBackup, TypeOK
<1>7. ASSUME Cardinality(jobs) <= MaxJobs
      PROVE  NewestListed'
  <2>1. Cardinality(list') = Cardinality(jobs)
    BY <1>2, <1>4, <1>7
  <2>2. list' = jobs
    BY <1>2, <1>4, <2>1, FS_Subset
  <2>3. pruned = {}
    BY <1>4, <1>7 DEF ListInv, NewestListed
  <2>4. pruned' = {}
    BY <1>2, <2>2, <2>3
  <2> QED
    BY <1>5, <2>4 DEF NewestListed
<1>8. ASSUME ~(Cardinality(jobs) <= MaxJobs)
      PROVE  NewestListed'
  <2>1. Cardinality(list') = MaxJobs /\ list' # jobs
    BY <1>2, <1>4, <1>8
  <2>2. ASSUME NEW k \in list', NEW d \in pruned'
        PROVE  started'[k] >= started'[d]
    <3>1. CASE d \in jobs \ list'
      BY <1>2, <3>1
    <3>2. CASE d \in pruned /\ k \in list
      BY <1>1, <1>3, <1>6, <3>2 DEF ListInv, NewestListed
    <3>3. CASE d \in pruned /\ k = j
      <4>1. PICK e \in jobs \ list' : TRUE
        BY <1>2, <2>1
      <4>2. e \in list /\ started'[k] >= started'[e]
        BY <1>2, <3>3, <4>1
      <4>3. started'[e] = started[e] /\ started'[d] = started[d]
        BY <1>1, <1>3, <1>6, <3>3, <4>2
      <4>4. started[e] >= started[d]
        BY <3>3, <4>2 DEF ListInv, NewestListed
      <4>5. started'[k] \in Nat /\ started'[e] \in Nat /\ started'[d] \in Nat
        BY <1>6, <3>3, <4>2
      <4> QED
        BY <4>2, <4>3, <4>4, <4>5
    <3> QED
      BY <1>2, <2>2, <3>1, <3>2, <3>3
  <2> QED
    BY <1>5, <2>1, <2>2 DEF NewestListed
<1>9. NewestListed'
  BY <1>7, <1>8
<1>10. /\ list' \cap pruned' = {}
       /\ list' \cup pruned' = list \cup pruned \cup {j}
  BY <1>1, <1>2 DEF ListInv
<1>11. /\ \A k \in Id : state'[k] = IF k = j THEN "running" ELSE state[k]
       /\ \A k \in Id : k # j => work'[k] = work[k]
  BY DEF Insert, TypeOK
<1> QED
  BY <1>6, <1>9, <1>10, <1>11 DEF ListInv

LEMMA ListedJobRuns ==
    ASSUME TypeOK, ListInv, NEW j \in Id, Run(j)
    PROVE  ListInv'
<1>1. None.step = "none" /\ state[j] = "running"
  BY DEF Run, WriteDomain, Convert, Manifest, None, ListInv
<1>2. ASSUME NEW w, NEW s \in {"running", "done", "failed"}, GoesOn(j, w, s),
             s = "running" \/ w = None
      PROVE  ListInv'
  <2>1. \A k \in Id : /\ state'[k] = IF k = j THEN s ELSE state[k]
                     /\ work'[k] = IF k = j THEN w ELSE work[k]
    BY <1>2 DEF GoesOn, TypeOK
  <2> QED
    BY <1>1, <1>2, <2>1 DEF GoesOn, ListInv, NewestListed, TypeOK
<1>3. ASSUME NEW ok \in BOOLEAN, WriteDomain(j, ok)
      PROVE  ListInv'
  BY <1>2, <1>3 DEF WriteDomain
<1>4. ASSUME NEW ok \in BOOLEAN, Convert(j, ok)
      PROVE  ListInv'
  BY <1>2, <1>4 DEF Convert
<1>5. CASE Manifest(j)
  BY <1>2, <1>5 DEF Manifest
<1> QED
  BY <1>3, <1>4, <1>5 DEF Run

LEMMA ListStep == TypeOK /\ ListInv /\ [Next]_vars => ListInv'
<1> SUFFICES ASSUME TypeOK, ListInv, [Next]_vars
             PROVE  ListInv'
  OBVIOUS
<1>1. CASE UNCHANGED jobvars
  BY <1>1 DEF ListInv, NewestListed
<1>2. ASSUME NEW c \in Client, StartsBackup(c)
      PROVE  ListInv'
  BY <1>1, <1>2, ListedJobStarts DEF StartsBackup, Accepted
<1>3. CASE Restart
  <2>1. list' = {} /\ pruned' = {} /\ \A j \in Id : work'[j].step = "none"
    BY <1>3 DEF Restart, None
  <2>2. Cardinality({}) <= MaxJobs
    BY FS_EmptySet, JobsAssumption
  <2>3. NewestListed'
    BY <2>1, <2>2 DEF NewestListed
  <2> QED
    BY <2>1, <2>3 DEF ListInv
<1> QED
  BY <1>1, <1>2, <1>3, ListedJobRuns DEF Next, vars, Request

LEMMA InitListed == Init => ListInv
<1>1. Cardinality({}) <= MaxJobs
  BY FS_EmptySet, JobsAssumption
<1>2. None.step = "none"
  BY DEF None
<1> SUFFICES ASSUME Init PROVE ListInv
  OBVIOUS
<1>3. NewestListed
  BY <1>1 DEF Init, NewestListed
<1>4. \A j \in Id : work[j].step = "none"
  BY <1>2 DEF Init
<1> QED
  BY <1>3, <1>4 DEF Init, ListInv

(* The list holds the newest of all jobs since the daemon started, for any *)
(* number of requests, whatever the host's clock said to each.             *)
THEOREM ListHoldsNewest == Spec => []NewestListed
<1>1. ListInv => NewestListed
  BY DEF ListInv
<1> QED
  BY <1>1, InitListed, InitTypes, InitWhole, ListStep, StepTypes, WholeStep, PTL DEF Spec

-----------------------------------------------------------------------------
(* The refinement of the abstract jobs: the part without fairness.         *)

LEMMA StartedJobView ==
    ASSUME TypeOK, ListInv, NEW c \in Client, NEW j \in Id, Insert(c, j)
    PROVE  JobView!Next
<1> DEFINE gone == (list \cup {j}) \ list'
<1>1. gone \in SUBSET Id /\ list' \subseteq list \cup {j}
  BY DEF Insert, Keeps, TypeOK
<1>2. state[j] = "new" /\ \A k \in Id : state'[k] = IF k = j THEN "running" ELSE state[k]
  BY DEF Insert, TypeOK
<1>3. \A k \in list : state[k] # "new"
  BY DEF ListInv
<1>4. JobView!Start(j, gone)
  BY <1>1, <1>2, <1>3 DEF JobView!Start, View
<1> QED
  BY <1>1, <1>4 DEF JobView!Next

LEMMA RunningJobView ==
    ASSUME TypeOK, ListInv, NEW j \in Id, Run(j)
    PROVE  [JobView!Next]_View
<1>1. state[j] = "running"
  BY DEF Run, WriteDomain, Convert, Manifest, ListInv
<1>2. ASSUME NEW w, NEW s \in {"running", "done", "failed"}, GoesOn(j, w, s)
      PROVE  [JobView!Next]_View
  <2>1. list' = list /\ \A k \in Id : state'[k] = IF k = j THEN s ELSE state[k]
    BY <1>2 DEF GoesOn, TypeOK
  <2>2. CASE s = "running" \/ j \notin list
    BY <1>1, <2>1, <2>2 DEF View
  <2>3. CASE s # "running" /\ j \in list
    <3>1. View[j] = "running" /\ View' = [View EXCEPT ![j] = s]
      BY <1>1, <2>1, <2>3 DEF View
    <3>2. JobView!End(j)
      BY <2>3, <3>1 DEF JobView!End, JobView!Ended
    <3> QED
      BY <3>2 DEF JobView!Next
  <2> QED
    BY <2>2, <2>3
<1>3. ASSUME NEW ok \in BOOLEAN, WriteDomain(j, ok)
      PROVE  [JobView!Next]_View
  BY <1>2, <1>3 DEF WriteDomain
<1>4. ASSUME NEW ok \in BOOLEAN, Convert(j, ok)
      PROVE  [JobView!Next]_View
  BY <1>2, <1>4 DEF Convert
<1>5. CASE Manifest(j)
  BY <1>2, <1>5 DEF Manifest
<1> QED
  BY <1>3, <1>4, <1>5 DEF Run

LEMMA JobViewStep ==
    TypeOK /\ ListInv /\ [Next]_vars => [JobView!Next]_View
<1> SUFFICES ASSUME TypeOK, ListInv, [Next]_vars
             PROVE  [JobView!Next]_View
  OBVIOUS
<1>1. CASE UNCHANGED jobvars
  BY <1>1 DEF View
<1>2. ASSUME NEW c \in Client, StartsBackup(c)
      PROVE  [JobView!Next]_View
  BY <1>1, <1>2, StartedJobView DEF StartsBackup, Accepted
<1>3. CASE Restart
  <2>1. JobView!Forget
    BY <1>3 DEF Restart, JobView!Forget, View, TypeOK
  <2> QED
    BY <2>1 DEF JobView!Next
<1> QED
  BY <1>1, <1>2, <1>3, RunningJobView DEF Next, vars, Request

(* A listed job ends once and keeps its end, and a job that left the list  *)
(* does not come back: every step of Backup is one of BackupJob or none.   *)
THEOREM JobsEndOnce == Spec => JobView!Init /\ [][JobView!Next]_View
<1>1. Init => JobView!Init
  BY DEF Init, JobView!Init, View
<1> QED
  BY <1>1, InitListed, InitTypes, InitWhole, ListStep, StepTypes, WholeStep,
     JobViewStep, PTL DEF Spec
=============================================================================
