---------------------------- MODULE Mounts_proofs ----------------------------
(***************************************************************************)
(* What is proved about Mounts for any number of entries, mount points and *)
(* requests.                                                               *)
(***************************************************************************)
EXTENDS Mounts, FiniteSetTheorems, SequenceTheorems, TLAPS

USE DEF store

-----------------------------------------------------------------------------
(* What a caller carries, and what an edit and the host's commands return. *)

LEMMA NoEntryApart == NoEntry \notin Entry
BY PointAssumption DEF NoEntry, Entry

LEMMA NoEntryHas == NoEntry.password = "" /\ NoEntry.point = "" /\ ~NoEntry.auto
BY DEF NoEntry

LEMMA JobHas ==
    ASSUME TypeOK, NEW a \in Actor
    PROVE  LET j == job[a]
           IN  /\ j.step \in {"put", "look", "check", "act"}
                    => j.id \in Id /\ j.entry \in Entry
               /\ j.step \in {"find", "delete", "report"} => j.id \in Id
               /\ j.step \in {"check", "act"}
                    => j.op \in {"mount", "unmount", "delete"}
               /\ j.step = "report" => j.failed \in BOOLEAN
               /\ j.step = "check"
                    => j \in [step : {"check", "act"},
                              op : {"mount", "unmount", "delete"},
                              id : Id, entry : Entry]
<1>1. CASE job[a] = Idle
  BY <1>1 DEF Idle
<1>2. CASE job[a] \in Work
  BY <1>2 DEF Work
<1> QED
  BY <1>1, <1>2 DEF TypeOK

LEMMA JobMoves ==
    ASSUME TypeOK, NEW a \in Actor, NEW j \in {Idle} \cup Work, Becomes(a, j)
    PROVE  job' \in [Actor -> {Idle} \cup Work]
BY DEF TypeOK, Becomes

LEMMA StartingType == Starting \in [Actor -> {Idle} \cup Work]
BY DEF Starting, Work

LEMMA BootActs == Boot \in Actor
BY DEF Actor

LEMMA KeepPasswordType ==
    ASSUME TypeOK, NEW i \in Id, NEW e \in Entry
    PROVE  /\ KeepPassword(i, e) \in Entry
           /\ mem[i].password # "" => KeepPassword(i, e).password # ""
<1>1. mem[i] \in Entry \cup {NoEntry}
  BY DEF TypeOK
<1>2. mem[i].password \in Password \cup {""}
  <2>1. CASE mem[i] \in Entry
    BY <2>1 DEF Entry
  <2>2. CASE mem[i] = NoEntry
    BY <2>2, NoEntryHas
  <2> QED
    BY <1>1, <2>1, <2>2
<1> QED
  BY <1>2 DEF KeepPassword, Entry

LEMMA SaveTypes ==
    ASSUME TypeOK, NEW entries \in [Id -> Entry \cup {NoEntry}],
           NEW ok \in BOOLEAN, Save(entries, ok)
    PROVE  /\ mem' \in [Id -> Entry \cup {NoEntry}]
           /\ disk' \in [Id -> Entry \cup {NoEntry}]
           /\ unsaved' \in BOOLEAN
BY DEF TypeOK, Save

LEMMA LookupType ==
    ASSUME TypeOK, NEW i \in Id, NEW op \in {"mount", "unmount", "delete"}
    PROVE  Lookup(i, op) \in {Idle} \cup Work
<1>1. mem[i] # NoEntry => mem[i] \in Entry
  BY DEF TypeOK
<1>2. mem[i] # NoEntry
        => [step |-> "check", op |-> op, id |-> i, entry |-> mem[i]] \in Work
  BY <1>1 DEF Work
<1>3. [step |-> "delete", id |-> i] \in Work
  BY DEF Work
<1> QED
  BY <1>2, <1>3 DEF Lookup

LEMMA AfterUnmountType ==
    ASSUME NEW j, j.id \in Id
    PROVE  AfterUnmount(j) \in {Idle} \cup Work
<1>1. [step |-> "delete", id |-> j.id] \in Work
  BY DEF Work
<1> QED
  BY <1>1 DEF AfterUnmount

\* A mount adds one to the stack of its point, and to no other.
LEMMA AttachAdds ==
    ASSUME TypeOK, NEW e \in Entry, NEW o, Attach(e, o)
    PROVE  /\ table' \in [Point -> Seq(Share)]
           /\ \A p \in Point : p # e.point => table'[p] = table[p]
           /\ Len(table'[e.point]) <= Len(table[e.point]) + 1
<1> DEFINE s == table[e.point]
<1>1. e.point \in Point /\ e.share \in Share
  BY DEF Entry
<1>2. s \in Seq(Share) /\ table \in [Point -> Seq(Share)]
  BY <1>1 DEF TypeOK
<1>3. Len(s) \in Nat
  BY <1>2, LenProperties
<1>4. CASE table' = [table EXCEPT ![e.point] = <<e.share>> \o @]
  <2>1. <<e.share>> \in Seq(Share) /\ Len(<<e.share>>) = 1
    BY <1>1
  <2>2. <<e.share>> \o s \in Seq(Share) /\ Len(<<e.share>> \o s) = 1 + Len(s)
    BY <2>1, <1>2, ConcatProperties
  <2>3. table' \in [Point -> Seq(Share)]
    BY <1>4, <1>2, <2>2
  <2>4. table'[e.point] = <<e.share>> \o s
    BY <1>4, <1>1, <1>2
  <2>5. \A p \in Point : p # e.point => table'[p] = table[p]
    BY <1>4, <1>2
  <2> QED
    BY <2>2, <2>3, <2>4, <2>5, <1>3
<1>5. CASE UNCHANGED table
  BY <1>5, <1>2, <1>3
<1> QED
  BY <1>4, <1>5 DEF Attach

\* An unmount adds nothing anywhere.
LEMMA DetachTakes ==
    ASSUME TypeOK, NEW q \in Point, NEW o, Detach(q, o)
    PROVE  /\ table' \in [Point -> Seq(Share)]
           /\ \A p \in Point : Len(table'[p]) <= Len(table[p])
<1>1. table \in [Point -> Seq(Share)]
  BY DEF TypeOK
<1>2. \A p \in Point : Len(table[p]) \in Nat
  BY <1>1, LenProperties
<1>3. CASE Mounted(q) /\ table' = [table EXCEPT ![q] = Tail(@)]
  <2>1. table[q] \in Seq(Share) /\ table[q] # <<>>
    BY <1>1, <1>3 DEF Mounted
  <2>2. Tail(table[q]) \in Seq(Share) /\ Len(Tail(table[q])) = Len(table[q]) - 1
    BY <2>1, HeadTailProperties
  <2>3. table' \in [Point -> Seq(Share)]
    BY <1>1, <1>3, <2>2
  <2>4. \A p \in Point : table'[p] = IF p = q THEN Tail(table[q]) ELSE table[p]
    BY <1>1, <1>3
  <2> QED
    BY <1>2, <2>2, <2>3, <2>4
<1>4. CASE UNCHANGED table
  BY <1>1, <1>2, <1>4
<1> QED
  BY <1>3, <1>4 DEF Detach, Succeeds, TimesOut

LEMMA RestartClears ==
    ASSUME TypeOK, NEW reboot \in BOOLEAN, Restart(reboot)
    PROVE  /\ table' \in [Point -> Seq(Share)]
           /\ \A p \in Point : Len(table'[p]) <= Len(table[p])
<1>1. table \in [Point -> Seq(Share)]
  BY DEF TypeOK
<1>2. \A p \in Point : Len(table[p]) \in Nat
  BY <1>1, LenProperties
<1>3. <<>> \in Seq(Share) /\ Len(<<>>) = 0
  BY EmptySeq
<1> QED
  BY <1>1, <1>2, <1>3 DEF Restart

-----------------------------------------------------------------------------
(* Type correctness.                                                       *)

LEMMA InitTypes == Init => TypeOK
<1> SUFFICES ASSUME Init
             PROVE  TypeOK
  OBVIOUS
<1>1. PICK entries \in [Id -> Form \cup {NoEntry}] : StoreInit(entries)
  BY DEF Init
<1>2. entries \in [Id -> Entry \cup {NoEntry}]
  BY FormAssumption
<1>3. <<>> \in Seq(Share)
  BY EmptySeq
<1> QED
  BY <1>1, <1>2, <1>3, StartingType DEF Init, StoreInit, TypeOK

LEMMA BeginTypes ==
    ASSUME TypeOK, NEW c \in Client, Begin(c)
    PROVE  TypeOK'
<1>1. c \in Actor
  BY DEF Actor
<1>2. ASSUME NEW i \in Id, NEW in \in Form, PutBegin(c, i, in)
      PROVE  TypeOK'
  <2>1. [step |-> "put", id |-> i, entry |-> in] \in Work
    BY FormAssumption DEF Work
  <2>2. job' \in [Actor -> {Idle} \cup Work]
    BY <1>1, <1>2, <2>1, JobMoves DEF PutBegin
  <2> QED
    BY <1>2, <2>2 DEF PutBegin, TypeOK
<1>3. ASSUME NEW i \in Id, NEW in \in Form, NEW ok \in BOOLEAN, Post(c, i, in, ok)
      PROVE  TypeOK'
  <2> DEFINE e == KeepPassword(i, in)
  <2>1. in \in Entry
    BY FormAssumption
  <2>2. e \in Entry
    BY <2>1, KeepPasswordType
  <2>3. [mem EXCEPT ![i] = e] \in [Id -> Entry \cup {NoEntry}]
    BY <2>2 DEF TypeOK
  <2>4. /\ mem' \in [Id -> Entry \cup {NoEntry}]
        /\ disk' \in [Id -> Entry \cup {NoEntry}]
        /\ unsaved' \in BOOLEAN
    BY <1>3, <2>3, SaveTypes DEF Post
  <2>5. [step |-> "look", id |-> i, entry |-> e] \in Work
    BY <2>2 DEF Work
  <2>6. (IF ok /\ e.auto THEN [step |-> "look", id |-> i, entry |-> e] ELSE Idle)
          \in {Idle} \cup Work
    BY <2>5
  <2>7. job' \in [Actor -> {Idle} \cup Work]
    BY <1>1, <1>3, <2>6, JobMoves DEF Post
  <2> QED
    BY <1>3, <2>4, <2>7 DEF Post, TypeOK
<1>4. ASSUME NEW i \in Id, NEW op \in {"mount", "unmount", "delete"}, Request(c, i, op)
      PROVE  TypeOK'
  <2>1. job' \in [Actor -> {Idle} \cup Work]
    BY <1>1, <1>4, LookupType, JobMoves DEF Request
  <2> QED
    BY <1>4, <2>1 DEF Request, TypeOK
<1> QED
  BY <1>2, <1>3, <1>4 DEF Begin

LEMMA ContinueTypes ==
    ASSUME TypeOK, NEW a \in Actor, Continue(a)
    PROVE  TypeOK'
<1> DEFINE j == job[a]
<1>1. CASE PostLook(a)
  <2>1. [step |-> "find", id |-> j.id] \in Work
    BY <1>1, JobHas DEF PostLook, Work
  <2>2. job' \in [Actor -> {Idle} \cup Work]
    BY <1>1, <2>1, JobMoves DEF PostLook
  <2> QED
    BY <1>1, <2>2 DEF PostLook, TypeOK
<1>2. CASE Find(a)
  <2>1. job' \in [Actor -> {Idle} \cup Work]
    BY <1>2, JobHas, LookupType, JobMoves DEF Find
  <2> QED
    BY <1>2, <2>1 DEF Find, TypeOK
<1>3. CASE Check(a)
  <2>1. j.id \in Id /\ j \in [step : {"check", "act"},
                              op : {"mount", "unmount", "delete"},
                              id : Id, entry : Entry]
    BY <1>3, JobHas DEF Check
  <2>2. [j EXCEPT !.step = "act"] \in Work
    BY <2>1 DEF Work
  <2>3. AfterUnmount(j) \in {Idle} \cup Work
    BY <2>1, AfterUnmountType
  <2>4. (IF MustAct(j) THEN [j EXCEPT !.step = "act"]
         ELSE IF j.op = "mount" THEN Idle ELSE AfterUnmount(j)) \in {Idle} \cup Work
    BY <2>2, <2>3
  <2>5. job' \in [Actor -> {Idle} \cup Work]
    BY <1>3, <2>4, JobMoves DEF Check
  <2> QED
    BY <1>3, <2>5 DEF Check, TypeOK
<1>4. CASE MkdirFails(a)
  <2>1. job' \in [Actor -> {Idle} \cup Work]
    BY <1>4, JobMoves DEF MkdirFails
  <2> QED
    BY <1>4, <2>1 DEF MkdirFails, TypeOK
<1>5. CASE Report(a)
  <2>1. job' \in [Actor -> {Idle} \cup Work]
    BY <1>5, JobMoves DEF Report
  <2>2. last' \in SUBSET Id
    BY <1>5, JobHas DEF Report, TypeOK
  <2> QED
    BY <1>5, <2>1, <2>2 DEF Report, TypeOK
<1>6. ASSUME NEW ok \in BOOLEAN, PutWrite(a, ok)
      PROVE  TypeOK'
  <2>1. j.id \in Id /\ j.entry \in Entry
    BY <1>6, JobHas DEF PutWrite
  <2>2. KeepPassword(j.id, j.entry) \in Entry
    BY <2>1, KeepPasswordType
  <2>3. [mem EXCEPT ![j.id] = KeepPassword(j.id, j.entry)]
          \in [Id -> Entry \cup {NoEntry}]
    BY <2>2 DEF TypeOK
  <2>4. /\ mem' \in [Id -> Entry \cup {NoEntry}]
        /\ disk' \in [Id -> Entry \cup {NoEntry}]
        /\ unsaved' \in BOOLEAN
    BY <1>6, <2>3, SaveTypes DEF PutWrite
  <2>5. job' \in [Actor -> {Idle} \cup Work]
    BY <1>6, JobMoves DEF PutWrite
  <2> QED
    BY <1>6, <2>4, <2>5 DEF PutWrite, TypeOK
<1>7. ASSUME NEW ok \in BOOLEAN, Delete(a, ok)
      PROVE  TypeOK'
  <2>1. [mem EXCEPT ![j.id] = NoEntry] \in [Id -> Entry \cup {NoEntry}]
    BY DEF TypeOK
  <2>2. /\ mem' \in [Id -> Entry \cup {NoEntry}]
        /\ disk' \in [Id -> Entry \cup {NoEntry}]
        /\ unsaved' \in BOOLEAN
    BY <1>7, <2>1, SaveTypes DEF Delete
  <2>3. job' \in [Actor -> {Idle} \cup Work]
    BY <1>7, JobMoves DEF Delete
  <2> QED
    BY <1>7, <2>2, <2>3 DEF Delete, TypeOK
<1>8. ASSUME NEW o \in Outcome, DoMount(a, o)
      PROVE  TypeOK'
  <2>1. j.id \in Id /\ j.entry \in Entry
    BY <1>8, JobHas DEF DoMount
  <2>2. table' \in [Point -> Seq(Share)]
    BY <1>8, <2>1, AttachAdds DEF DoMount
  <2>3. [step |-> "report", id |-> j.id, failed |-> o # "ok"] \in Work
    BY <2>1 DEF Work
  <2>4. job' \in [Actor -> {Idle} \cup Work]
    BY <1>8, <2>3, JobMoves DEF DoMount
  <2> QED
    BY <1>8, <2>2, <2>4 DEF DoMount, TypeOK
<1>9. ASSUME NEW o \in Outcome, DoUnmount(a, o)
      PROVE  TypeOK'
  <2>1. j.id \in Id /\ j.entry.point \in Point
    BY <1>9, JobHas DEF DoUnmount, Entry
  <2>2. table' \in [Point -> Seq(Share)]
    BY <1>9, <2>1, DetachTakes DEF DoUnmount
  <2>3. job' \in [Actor -> {Idle} \cup Work]
    BY <1>9, <2>1, AfterUnmountType, JobMoves DEF DoUnmount
  <2> QED
    BY <1>9, <2>2, <2>3 DEF DoUnmount, TypeOK
<1> QED
  BY <1>1, <1>2, <1>3, <1>4, <1>5, <1>6, <1>7, <1>8, <1>9 DEF Continue

LEMMA AutoTypes ==
    ASSUME TypeOK, AutoGoesOn
    PROVE  TypeOK'
<1>1. CASE AutoList
  <2>1. job' \in [Actor -> {Idle} \cup Work]
    BY <1>1, BootActs, JobMoves DEF AutoList
  <2> QED
    BY <1>1, <2>1 DEF AutoList, TypeOK
<1>2. ASSUME NEW i \in Id, AutoNext(i)
      PROVE  TypeOK'
  <2>1. job' \in [Actor -> {Idle} \cup Work]
    BY <1>2, BootActs, LookupType, JobMoves DEF AutoNext
  <2> QED
    BY <1>2, <2>1 DEF AutoNext, TypeOK
<1> QED
  BY <1>1, <1>2 DEF AutoGoesOn

LEMMA RestartTypes ==
    ASSUME TypeOK, NEW reboot \in BOOLEAN, Restart(reboot)
    PROVE  TypeOK'
BY RestartClears, StartingType DEF Restart, Reload, TypeOK

LEMMA StepTypes == TypeOK /\ [Next]_vars => TypeOK'
<1> SUFFICES ASSUME TypeOK, [Next]_vars
             PROVE  TypeOK'
  OBVIOUS
<1>1. CASE UNCHANGED vars
  BY <1>1 DEF vars, TypeOK
<1> QED
  BY <1>1, BeginTypes, ContinueTypes, AutoTypes, RestartTypes DEF Next

(* Every variable keeps its type; no entry is looked up that is not there, *)
(* and no umount empties an empty stack.                                   *)
THEOREM TypeCorrect == Spec => []TypeOK
BY InitTypes, StepTypes, PTL DEF Spec

-----------------------------------------------------------------------------
(* Mounts do not pile up.  StackBounded alone is not inductive: a caller   *)
(* that is about to mount counts as well.                                  *)

Mounting(p) == {a \in Actor : /\ job[a].step = "act" /\ job[a].op = "mount"
                             /\ job[a].entry.point = p}

CallersBound ==
    \A p \in Point :
        Len(table[p]) + Cardinality(Mounting(p)) <= Cardinality(Actor)

LEMMA ActorsFinite == IsFiniteSet(Actor) /\ Cardinality(Actor) \in Nat
<1>1. IsFiniteSet(Actor)
  BY ActorAssumption, FS_AddElement DEF Actor
<1> QED
  BY <1>1, FS_CardinalityType

LEMMA MountingFinite ==
    ASSUME NEW p
    PROVE  /\ IsFiniteSet(Mounting(p))
           /\ Cardinality(Mounting(p)) \in Nat
           /\ Cardinality(Mounting(p)) <= Cardinality(Actor)
<1>1. Mounting(p) \in SUBSET Actor
  BY DEF Mounting
<1>2. IsFiniteSet(Mounting(p)) /\ Cardinality(Mounting(p)) <= Cardinality(Actor)
  BY <1>1, ActorsFinite, FS_Subset
<1> QED
  BY <1>2, FS_CardinalityType

LEMMA MountingFiniteNext ==
    ASSUME NEW p
    PROVE  /\ IsFiniteSet(Mounting(p)')
           /\ Cardinality(Mounting(p)') \in Nat
           /\ Cardinality(Mounting(p)') <= Cardinality(Actor)
<1>1. Mounting(p)' \in SUBSET Actor
  BY DEF Mounting
<1>2. /\ IsFiniteSet(Mounting(p)')
      /\ Cardinality(Mounting(p)') <= Cardinality(Actor)
  BY <1>1, ActorsFinite, FS_Subset
<1> QED
  BY <1>2, FS_CardinalityType

LEMMA StackLength ==
    ASSUME TypeOK, NEW p \in Point
    PROVE  Len(table[p]) \in Nat
<1>1. table[p] \in Seq(Share)
  BY DEF TypeOK
<1> QED
  BY <1>1, LenProperties

LEMMA StackLengthNext ==
    ASSUME TypeOK', NEW p \in Point
    PROVE  Len(table'[p]) \in Nat
<1>1. table'[p] \in Seq(Share)
  BY DEF TypeOK
<1> QED
  BY <1>1, LenProperties

\* A step after which no stack is higher and nobody else is about to mount.
LEMMA NothingAdded ==
    ASSUME TypeOK, TypeOK', NEW p \in Point,
           Len(table[p]) + Cardinality(Mounting(p)) <= Cardinality(Actor),
           Mounting(p)' \subseteq Mounting(p), Len(table'[p]) <= Len(table[p])
    PROVE  Len(table'[p]) + Cardinality(Mounting(p)') <= Cardinality(Actor)
<1>1. Cardinality(Mounting(p)') <= Cardinality(Mounting(p))
  BY MountingFinite, FS_Subset
<1> QED
  BY <1>1, MountingFinite, MountingFiniteNext, StackLength, StackLengthNext,
     ActorsFinite

\* One caller moves on, not towards mounting.
LEMMA MovesOn ==
    ASSUME TypeOK, NEW a \in Actor, NEW j, Becomes(a, j), NEW p,
           ~(j.step = "act" /\ j.op = "mount" /\ j.entry.point = p)
    PROVE  Mounting(p)' \subseteq Mounting(p)
<1>1. \A b \in Actor : job'[b] = IF b = a THEN j ELSE job[b]
  BY DEF Becomes, TypeOK
<1> QED
  BY <1>1 DEF Mounting

LEMMA QuietStep ==
    ASSUME TypeOK, TypeOK', CallersBound, NEW a \in Actor, NEW j, Becomes(a, j),
           j.step # "act", \A p \in Point : Len(table'[p]) <= Len(table[p])
    PROVE  CallersBound'
BY MovesOn, NothingAdded DEF CallersBound

LEMMA SameTable ==
    ASSUME TypeOK, UNCHANGED table
    PROVE  \A p \in Point : Len(table'[p]) <= Len(table[p])
BY StackLength

LEMMA LookupQuiet ==
    ASSUME NEW i, NEW op
    PROVE  Lookup(i, op).step # "act"
BY DEF Lookup, Idle

LEMMA AfterUnmountQuiet ==
    ASSUME NEW j
    PROVE  AfterUnmount(j).step # "act"
BY DEF AfterUnmount, Idle

LEMMA CheckKeepsBound ==
    ASSUME TypeOK, TypeOK', CallersBound, NEW a \in Actor, Check(a)
    PROVE  CallersBound'
<1> DEFINE j == job[a]
<1>1. UNCHANGED table /\ j.step = "check"
  BY DEF Check
<1>2. CASE MustAct(j)
  <2>1. Becomes(a, [j EXCEPT !.step = "act"])
    BY <1>2 DEF Check
  <2>2. j \in [step : {"check", "act"}, op : {"mount", "unmount", "delete"},
              id : Id, entry : Entry]
    BY <1>1, JobHas
  <2>3. /\ [j EXCEPT !.step = "act"].op = j.op
        /\ [j EXCEPT !.step = "act"].entry = j.entry
    BY <2>2
  <2> SUFFICES ASSUME NEW p \in Point
               PROVE  Len(table'[p]) + Cardinality(Mounting(p)') <= Cardinality(Actor)
    BY DEF CallersBound
  <2>4. CASE j.op = "mount" /\ j.entry.point = p
    <3>1. table[p] = <<>>
      BY <1>2, <2>4 DEF MustAct, Mounted
    <3>2. Len(table'[p]) = 0
      BY <1>1, <3>1
    <3> QED
      BY <3>2, MountingFiniteNext, ActorsFinite
  <2>5. CASE ~(j.op = "mount" /\ j.entry.point = p)
    <3>1. Mounting(p)' \subseteq Mounting(p)
      BY <2>1, <2>3, <2>5, MovesOn
    <3> QED
      BY <1>1, <3>1, SameTable, NothingAdded DEF CallersBound
  <2> QED
    BY <2>4, <2>5
<1>3. CASE ~MustAct(j)
  <2>1. Becomes(a, IF j.op = "mount" THEN Idle ELSE AfterUnmount(j))
    BY <1>3 DEF Check
  <2>2. (IF j.op = "mount" THEN Idle ELSE AfterUnmount(j)).step # "act"
    BY AfterUnmountQuiet DEF Idle
  <2> QED
    BY <1>1, <2>1, <2>2, SameTable, QuietStep
<1> QED
  BY <1>2, <1>3

\* Who mounts counts as a caller before and as a mount after.
LEMMA DoMountKeepsBound ==
    ASSUME TypeOK, TypeOK', CallersBound, NEW a \in Actor, NEW o, DoMount(a, o)
    PROVE  CallersBound'
<1> DEFINE j == job[a]
           q == j.entry.point
           done == [step |-> "report", id |-> j.id, failed |-> o # "ok"]
<1>1. j.step = "act" /\ j.op = "mount" /\ Attach(j.entry, o) /\ Becomes(a, done)
  BY DEF DoMount
<1>2. j.entry \in Entry /\ q \in Point
  BY <1>1, JobHas DEF Entry
<1>3. /\ \A p \in Point : p # q => table'[p] = table[p]
      /\ Len(table'[q]) <= Len(table[q]) + 1
  BY <1>1, <1>2, AttachAdds
<1>4. \A b \in Actor : job'[b] = IF b = a THEN done ELSE job[b]
  BY <1>1 DEF Becomes, TypeOK
<1> SUFFICES ASSUME NEW p \in Point
             PROVE  Len(table'[p]) + Cardinality(Mounting(p)') <= Cardinality(Actor)
  BY DEF CallersBound
<1>5. CASE p = q
  <2>1. a \in Mounting(p)
    BY <1>1, <1>5 DEF Mounting
  <2>2. Mounting(p)' = Mounting(p) \ {a}
    BY <1>4 DEF Mounting
  <2>3. Cardinality(Mounting(p)') = Cardinality(Mounting(p)) - 1
    BY <2>1, <2>2, MountingFinite, FS_RemoveElement
  <2>4. Len(table[p]) + Cardinality(Mounting(p)) <= Cardinality(Actor)
    BY DEF CallersBound
  <2> QED
    BY <1>3, <1>5, <2>3, <2>4, MountingFinite, StackLength, StackLengthNext,
       ActorsFinite
<1>6. CASE p # q
  <2>1. Mounting(p)' \subseteq Mounting(p)
    BY <1>1, MovesOn
  <2>2. Len(table'[p]) <= Len(table[p])
    BY <1>3, <1>6, StackLength
  <2> QED
    BY <2>1, <2>2, NothingAdded DEF CallersBound
<1> QED
  BY <1>5, <1>6

LEMMA BoundStep ==
    TypeOK /\ TypeOK' /\ CallersBound /\ [Next]_vars => CallersBound'
<1> SUFFICES ASSUME TypeOK, TypeOK', CallersBound, [Next]_vars
             PROVE  CallersBound'
  OBVIOUS
<1>1. CASE UNCHANGED vars
  BY <1>1 DEF vars, CallersBound, Mounting
<1>2. ASSUME NEW c \in Client, Begin(c)
      PROVE  CallersBound'
  <2>1. c \in Actor
    BY DEF Actor
  <2>2. ASSUME NEW i \in Id, NEW in \in Form, PutBegin(c, i, in)
        PROVE  CallersBound'
    BY <2>1, <2>2, SameTable, QuietStep DEF PutBegin
  <2>3. ASSUME NEW i \in Id, NEW in \in Form, NEW ok \in BOOLEAN, Post(c, i, in, ok)
        PROVE  CallersBound'
    <3> DEFINE e == KeepPassword(i, in)
               j == IF ok /\ e.auto THEN [step |-> "look", id |-> i, entry |-> e]
                                    ELSE Idle
    <3>1. Becomes(c, j) /\ UNCHANGED table
      BY <2>3 DEF Post
    <3>2. j.step # "act"
      BY DEF Idle
    <3> HIDE DEF j
    <3> QED
      BY <2>1, <3>1, <3>2, SameTable, QuietStep
  <2>4. ASSUME NEW i \in Id, NEW op \in {"mount", "unmount", "delete"},
               Request(c, i, op)
        PROVE  CallersBound'
    BY <2>1, <2>4, LookupQuiet, SameTable, QuietStep DEF Request
  <2> QED
    BY <1>2, <2>2, <2>3, <2>4 DEF Begin
<1>3. ASSUME NEW a \in Actor, Continue(a)
      PROVE  CallersBound'
  <2>1. CASE PostLook(a)
    BY <2>1, SameTable, QuietStep DEF PostLook, Idle
  <2>2. CASE Find(a)
    BY <2>2, LookupQuiet, SameTable, QuietStep DEF Find
  <2>3. CASE Check(a)
    BY <2>3, CheckKeepsBound
  <2>4. CASE MkdirFails(a)
    BY <2>4, SameTable, QuietStep DEF MkdirFails, Idle
  <2>5. CASE Report(a)
    BY <2>5, SameTable, QuietStep DEF Report, Idle
  <2>6. ASSUME NEW ok \in BOOLEAN, PutWrite(a, ok)
        PROVE  CallersBound'
    BY <2>6, SameTable, QuietStep DEF PutWrite, Idle
  <2>7. ASSUME NEW ok \in BOOLEAN, Delete(a, ok)
        PROVE  CallersBound'
    BY <2>7, SameTable, QuietStep DEF Delete, Idle
  <2>8. ASSUME NEW o \in Outcome, DoMount(a, o)
        PROVE  CallersBound'
    BY <2>8, DoMountKeepsBound
  <2>9. ASSUME NEW o \in Outcome, DoUnmount(a, o)
        PROVE  CallersBound'
    <3>1. job[a].entry.point \in Point
      BY <2>9, JobHas DEF DoUnmount, Entry
    <3> QED
      BY <2>9, <3>1, DetachTakes, AfterUnmountQuiet, QuietStep DEF DoUnmount
  <2> QED
    BY <1>3, <2>1, <2>2, <2>3, <2>4, <2>5, <2>6, <2>7, <2>8, <2>9 DEF Continue
<1>4. CASE AutoGoesOn
  <2>1. CASE AutoList
    BY <2>1, BootActs, SameTable, QuietStep DEF AutoList, Idle
  <2>2. ASSUME NEW i \in Id, AutoNext(i)
        PROVE  CallersBound'
    BY <2>2, BootActs, LookupQuiet, SameTable, QuietStep DEF AutoNext
  <2> QED
    BY <1>4, <2>1, <2>2 DEF AutoGoesOn
<1>5. ASSUME NEW reboot \in BOOLEAN, Restart(reboot)
      PROVE  CallersBound'
  <2>1. \A a \in Actor : job'[a].step # "act"
    BY <1>5 DEF Restart, Starting, Idle
  <2>2. \A p : Mounting(p)' = {}
    BY <2>1 DEF Mounting
  <2> QED
    BY <1>5, <2>2, RestartClears, NothingAdded DEF CallersBound
<1> QED
  BY <1>1, <1>2, <1>3, <1>4, <1>5 DEF Next

LEMMA InitBound == Init => CallersBound
<1> SUFFICES ASSUME Init, NEW p \in Point
             PROVE  Len(table[p]) + Cardinality(Mounting(p)) <= Cardinality(Actor)
  BY DEF CallersBound
<1>1. \A a \in Actor : job[a].step # "act"
  BY DEF Init, Starting, Idle
<1>2. Mounting(p) = {}
  BY <1>1 DEF Mounting
<1>3. Len(table[p]) = 0
  BY DEF Init
<1> QED
  BY <1>2, <1>3, FS_EmptySet, ActorsFinite

LEMMA BoundSuffices == TypeOK /\ CallersBound => StackBounded
BY MountingFinite, StackLength, ActorsFinite DEF CallersBound, StackBounded

(* Never more mounts on one point than callers that run at the same time:  *)
(* every caller finds the point free before it mounts, and the table and   *)
(* the callers past that check never exceed the callers together.          *)
THEOREM MountsDoNotPileUp == Spec => []StackBounded
BY InitTypes, StepTypes, InitBound, BoundStep, BoundSuffices, PTL DEF Spec

-----------------------------------------------------------------------------
(* Passwords are kept.                                                     *)

LEMMA SavedStep ==
    TypeOK /\ SavedUnlessFailed /\ [Next]_vars => SavedUnlessFailed'
<1> SUFFICES ASSUME TypeOK, SavedUnlessFailed, [Next]_vars
             PROVE  SavedUnlessFailed'
  OBVIOUS
<1> USE DEF SavedUnlessFailed
<1>1. CASE UNCHANGED store
  BY <1>1
<1>2. ASSUME NEW entries, NEW ok \in BOOLEAN, Save(entries, ok)
      PROVE  SavedUnlessFailed'
  BY <1>2 DEF Save
<1>3. CASE Reload
  BY <1>3 DEF Reload
<1> QED
  BY <1>1, <1>2, <1>3 DEF Next, vars, Begin, Continue, AutoGoesOn, Restart,
     PutBegin, Post, Request, PostLook, Find, Check, MkdirFails, Report,
     PutWrite, Delete, DoMount, DoUnmount, AutoList, AutoNext

LEMMA PasswordStep ==
    ASSUME TypeOK, SavedUnlessFailed, [Next]_vars, NEW i \in Id,
           mem[i].password # "", mem'[i] # NoEntry, ~unsaved
    PROVE  mem'[i].password # ""
<1>1. CASE UNCHANGED mem
  BY <1>1
<1>2. ASSUME NEW k \in Id, NEW e \in Entry, NEW ok,
             Save([mem EXCEPT ![k] = KeepPassword(k, e)], ok)
      PROVE  mem'[i].password # ""
  <2>1. mem'[i] = IF i = k THEN KeepPassword(k, e) ELSE mem[i]
    BY <1>2 DEF Save, TypeOK
  <2> QED
    BY <2>1, KeepPasswordType
<1>3. ASSUME NEW k \in Id, NEW ok, Save([mem EXCEPT ![k] = NoEntry], ok)
      PROVE  mem'[i].password # ""
  <2>1. mem'[i] = IF i = k THEN NoEntry ELSE mem[i]
    BY <1>3 DEF Save, TypeOK
  <2> QED
    BY <2>1
<1>4. CASE Reload
  BY <1>4 DEF Reload, SavedUnlessFailed
<1>5. ASSUME NEW c \in Client, Begin(c)
      PROVE  mem'[i].password # ""
  BY <1>1, <1>2, <1>5, FormAssumption DEF Begin, PutBegin, Post, Request
<1>6. ASSUME NEW a \in Actor, Continue(a)
      PROVE  mem'[i].password # ""
  <2>1. ASSUME NEW ok \in BOOLEAN, PutWrite(a, ok)
        PROVE  mem'[i].password # ""
    BY <1>2, <2>1, JobHas DEF PutWrite
  <2>2. ASSUME NEW ok \in BOOLEAN, Delete(a, ok)
        PROVE  mem'[i].password # ""
    BY <1>3, <2>2, JobHas DEF Delete
  <2> QED
    BY <1>1, <1>6, <2>1, <2>2 DEF Continue, PostLook, Find, Check, MkdirFails,
       Report, DoMount, DoUnmount
<1> QED
  BY <1>1, <1>4, <1>5, <1>6 DEF Next, vars, AutoGoesOn, AutoList, AutoNext, Restart

(* An entry that has a password keeps one as long as it is there, through  *)
(* every edit and every restart after a save.                              *)
THEOREM PasswordsKept == Spec => PasswordNeverBlanked
<1>1. Init => SavedUnlessFailed
  BY DEF Init, StoreInit, SavedUnlessFailed
<1>2. TypeOK /\ SavedUnlessFailed /\ [Next]_vars
        => [\A i \in Id : mem[i].password # "" /\ mem'[i] # NoEntry /\ ~unsaved
                            => mem'[i].password # ""]_vars
  BY PasswordStep
<1> QED
  BY <1>1, <1>2, InitTypes, StepTypes, SavedStep, PTL DEF Spec, PasswordNeverBlanked

-----------------------------------------------------------------------------
(* What takes an entry or a mount away.                                    *)

\* A step that takes one away is of a request, or of a restart.
OnRequest ==
    /\ \A i \in Id :
          mem[i] # NoEntry /\ mem'[i] = NoEntry
            => unsaved \/ \E c \in Client : job[c].step = "delete" /\ job[c].id = i
    /\ \A p \in Point :
          Len(table'[p]) < Len(table[p])
            => \/ \E c \in Client : /\ job[c].step = "act" /\ job[c].op # "mount"
                                    /\ job[c].entry.point = p
               \/ "reboot" \in Events /\ \A q \in Point : table'[q] = <<>>

(* Only requests take anything away: an entry goes with a DELETE of its    *)
(* own, or with a restart after a save that failed, and a mount goes with  *)
(* an umount that a client asked for on its point, or with the host.  The  *)
(* goroutine that mounts at start (main.go) does neither, whatever fails.  *)
OnlyRequestsRemove == [][OnRequest]_vars

\* Where the goroutine of the start can be: it looks up only to mount.
BootMounts ==
    /\ job[Boot].step \notin {"put", "look", "find", "delete"}
    /\ job[Boot].step \in {"check", "act"} => job[Boot].op = "mount"

LEMMA LookupMounts ==
    ASSUME NEW i
    PROVE  LET j == Lookup(i, "mount")
           IN  j = Idle \/ (j.step = "check" /\ j.op = "mount")
BY DEF Lookup

LEMMA InitBoots == Init => BootMounts
BY BootActs DEF Init, Starting, BootMounts

LEMMA BootStays ==
    ASSUME TypeOK, BootMounts, [Next]_vars
    PROVE  BootMounts'
<1> USE DEF BootMounts
<1>1. job \in [Actor -> {Idle} \cup Work] /\ Boot \in Actor
  BY BootActs DEF TypeOK
<1>2. ASSUME NEW a \in Actor, NEW j, a # Boot, Becomes(a, j)
      PROVE  BootMounts'
  BY <1>1, <1>2 DEF Becomes
<1>3. ASSUME NEW j, Becomes(Boot, j),
             \/ j.step \in {"idle", "report"}
             \/ j.step \in {"check", "act"} /\ j.op = "mount"
      PROVE  BootMounts'
  BY <1>1, <1>3 DEF Becomes
<1>4. ASSUME NEW c \in Client, Begin(c)
      PROVE  BootMounts'
  <2>1. c \in Actor /\ c # Boot
    BY ActorAssumption DEF Actor
  <2> QED
    BY <1>2, <1>4, <2>1 DEF Begin, PutBegin, Post, Request
<1>5. ASSUME NEW a \in Client, Continue(a)
      PROVE  BootMounts'
  <2>1. a \in Actor /\ a # Boot
    BY ActorAssumption DEF Actor
  <2>2. \E j : Becomes(a, j)
    BY <1>5 DEF Continue, PostLook, Find, Check, MkdirFails, Report, PutWrite,
       Delete, DoMount, DoUnmount
  <2> QED
    BY <1>2, <2>1, <2>2
<1>6. CASE Continue(Boot)
  <2>1. CASE Check(Boot)
    <3>1. job[Boot].step = "check" /\ job[Boot].op = "mount"
      BY <2>1 DEF Check
    <3>2. job[Boot] \in [step : {"check", "act"},
                         op : {"mount", "unmount", "delete"},
                         id : Id, entry : Entry]
      BY <3>1, <1>1, JobHas
    <3> DEFINE j == [job[Boot] EXCEPT !.step = "act"]
    <3>3. j.step = "act" /\ j.op = "mount"
      BY <3>1, <3>2
    <3>4. Becomes(Boot, j) \/ Becomes(Boot, Idle)
      BY <2>1, <3>1 DEF Check
    <3> HIDE DEF j
    <3>5. Idle.step = "idle"
      BY DEF Idle
    <3> QED
      BY <1>3, <3>3, <3>4, <3>5
  <2>2. CASE MkdirFails(Boot) \/ Report(Boot)
    <3>1. Becomes(Boot, Idle) /\ Idle.step = "idle"
      BY <2>2 DEF MkdirFails, Report, Idle
    <3> QED
      BY <1>3, <3>1
  <2>3. ASSUME NEW o \in Outcome, DoMount(Boot, o)
        PROVE  BootMounts'
    <3> DEFINE j == [step |-> "report", id |-> job[Boot].id, failed |-> o # "ok"]
    <3>1. Becomes(Boot, j) /\ j.step = "report"
      BY <2>3 DEF DoMount
    <3> HIDE DEF j
    <3> QED
      BY <1>3, <3>1
  <2>4. /\ ~PostLook(Boot) /\ ~Find(Boot)
        /\ \A ok : ~PutWrite(Boot, ok) /\ ~Delete(Boot, ok)
        /\ \A o : ~DoUnmount(Boot, o)
    BY DEF PostLook, Find, PutWrite, Delete, DoUnmount
  <2> QED
    BY <1>6, <2>1, <2>2, <2>3, <2>4 DEF Continue
<1>7. CASE AutoGoesOn
  <2>1. CASE AutoList
    <3>1. Becomes(Boot, Idle) /\ Idle.step = "idle"
      BY <2>1 DEF AutoList, Idle
    <3> QED
      BY <1>3, <3>1
  <2>2. ASSUME NEW i \in Id, AutoNext(i)
        PROVE  BootMounts'
    <3>1. Becomes(Boot, Lookup(i, "mount"))
      BY <2>2 DEF AutoNext
    <3>2. Idle.step = "idle"
      BY DEF Idle
    <3> QED
      BY <1>3, <3>1, <3>2, LookupMounts
  <2> QED
    BY <1>7, <2>1, <2>2 DEF AutoGoesOn
<1>8. CASE \E reboot \in BOOLEAN : Restart(reboot)
  BY <1>1, <1>8 DEF Restart, Starting
<1>9. CASE UNCHANGED vars
  BY <1>9 DEF vars
<1>10. \A a \in Actor : a = Boot \/ a \in Client
  BY DEF Actor
<1> QED
  BY <1>4, <1>5, <1>6, <1>7, <1>8, <1>9, <1>10 DEF Next

LEMMA EntryGoes ==
    ASSUME TypeOK, BootMounts, SavedUnlessFailed, [Next]_vars, NEW i \in Id,
           mem[i] # NoEntry, mem'[i] = NoEntry, ~unsaved
    PROVE  \E c \in Client : job[c].step = "delete" /\ job[c].id = i
<1>1. ~UNCHANGED mem
  OBVIOUS
<1>2. ASSUME NEW k \in Id, NEW e \in Entry, NEW ok,
             Save([mem EXCEPT ![k] = KeepPassword(k, e)], ok)
      PROVE  FALSE
  <2>1. mem'[i] = IF i = k THEN KeepPassword(k, e) ELSE mem[i]
    BY <1>2 DEF Save, TypeOK
  <2> QED
    BY <2>1, KeepPasswordType, NoEntryApart
<1>3. ~Reload
  BY <1>1 DEF Reload, SavedUnlessFailed
<1>4. ASSUME NEW c \in Client, Begin(c)
      PROVE  FALSE
  BY <1>1, <1>2, <1>4, FormAssumption DEF Begin, PutBegin, Post, Request
<1>5. ASSUME NEW a \in Actor, NEW ok \in BOOLEAN, PutWrite(a, ok)
      PROVE  FALSE
  BY <1>2, <1>5, JobHas DEF PutWrite
<1>6. ASSUME NEW a \in Actor, NEW ok \in BOOLEAN, Delete(a, ok)
      PROVE  a \in Client /\ job[a].step = "delete" /\ job[a].id = i
  <2>1. job[a].step = "delete" /\ job[a].id \in Id
    BY <1>6, JobHas DEF Delete
  <2>2. a \in Client
    BY <2>1 DEF Actor, BootMounts
  <2>3. mem'[i] = IF i = job[a].id THEN NoEntry ELSE mem[i]
    BY <1>6, <2>1 DEF Delete, Save, TypeOK
  <2> QED
    BY <2>1, <2>2, <2>3
<1>7. \E a \in Actor : Continue(a)
  BY <1>1, <1>3, <1>4 DEF Next, vars, AutoGoesOn, AutoList, AutoNext, Restart
<1>8. \E a \in Actor, ok \in BOOLEAN : PutWrite(a, ok) \/ Delete(a, ok)
  BY <1>1, <1>7 DEF Continue, PostLook, Find, Check, MkdirFails, Report,
     DoMount, DoUnmount
<1> QED
  BY <1>5, <1>6, <1>8

LEMMA MountGoes ==
    ASSUME TypeOK, BootMounts, [Next]_vars, NEW p \in Point,
           Len(table'[p]) < Len(table[p])
    PROVE  \/ \E c \in Client : /\ job[c].step = "act" /\ job[c].op # "mount"
                               /\ job[c].entry.point = p
           \/ "reboot" \in Events /\ \A q \in Point : table'[q] = <<>>
<1>1. table \in [Point -> Seq(Share)] /\ Len(table[p]) \in Nat
  BY LenProperties DEF TypeOK
<1>2. table' # table
  BY <1>1
<1>3. ASSUME NEW a \in Actor, NEW o \in Outcome, DoMount(a, o)
      PROVE  FALSE
  <2> DEFINE e == job[a].entry
  <2>1. e \in Entry /\ Attach(e, o)
    BY <1>3, JobHas DEF DoMount
  <2>2. e.point \in Point /\ e.share \in Share
    BY <2>1 DEF Entry
  <2>3. table' = [table EXCEPT ![e.point] = <<e.share>> \o @]
    BY <1>2, <2>1 DEF Attach
  <2>4. p = e.point /\ table'[p] = <<e.share>> \o table[p]
    BY <1>1, <2>2, <2>3
  <2>5. <<e.share>> \in Seq(Share) /\ Len(<<e.share>>) = 1
    BY <2>2
  <2>6. Len(<<e.share>> \o table[p]) = 1 + Len(table[p])
    BY <1>1, <2>5, ConcatProperties
  <2> QED
    BY <1>1, <2>4, <2>6
<1>4. ASSUME NEW a \in Actor, NEW o \in Outcome, DoUnmount(a, o)
      PROVE  /\ a \in Client /\ job[a].step = "act" /\ job[a].op # "mount"
             /\ job[a].entry.point = p
  <2>1. job[a].step = "act" /\ job[a].op # "mount" /\ job[a].entry.point \in Point
    BY <1>4, JobHas DEF DoUnmount, Entry
  <2>2. a \in Client
    BY <2>1 DEF Actor, BootMounts
  <2>3. p # job[a].entry.point => table'[p] = table[p]
    BY <1>1, <1>4 DEF DoUnmount, Detach
  <2> QED
    BY <1>1, <2>1, <2>2, <2>3
<1>5. ASSUME NEW reboot \in BOOLEAN, Restart(reboot)
      PROVE  "reboot" \in Events /\ \A q \in Point : table'[q] = <<>>
  BY <1>2, <1>5 DEF Restart
<1>6. ASSUME NEW c \in Client, Begin(c)
      PROVE  FALSE
  BY <1>2, <1>6 DEF Begin, PutBegin, Post, Request
<1>7. ASSUME NEW a \in Actor, Continue(a)
      PROVE  \E o \in Outcome : DoMount(a, o) \/ DoUnmount(a, o)
  BY <1>2, <1>7 DEF Continue, PostLook, Find, Check, MkdirFails, Report,
     PutWrite, Delete
<1>8. \/ \E a \in Actor : Continue(a)
      \/ \E reboot \in BOOLEAN : Restart(reboot)
  BY <1>2, <1>6 DEF Next, vars, AutoGoesOn, AutoList, AutoNext
<1> QED
  BY <1>3, <1>4, <1>5, <1>7, <1>8

THEOREM RequestsRemove == Spec => OnlyRequestsRemove
<1>1. Init => SavedUnlessFailed
  BY DEF Init, StoreInit, SavedUnlessFailed
<1>2. TypeOK /\ BootMounts /\ SavedUnlessFailed /\ [Next]_vars => [OnRequest]_vars
  BY EntryGoes, MountGoes DEF OnRequest
<1>3. TypeOK /\ BootMounts /\ [Next]_vars => BootMounts'
  BY BootStays
<1> QED
  BY <1>1, <1>2, <1>3, InitTypes, StepTypes, InitBoots, SavedStep,
     PTL DEF Spec, OnlyRequestsRemove

-----------------------------------------------------------------------------
(* Entries and their file, through every edit and every restart.           *)

(* Memory and file are the same unless the last save failed (saveLocked).  *)
THEOREM MemoryIsSaved == Spec => []SavedUnlessFailed
<1>1. Init => SavedUnlessFailed
  BY DEF Init, StoreInit, SavedUnlessFailed
<1> QED
  BY <1>1, InitTypes, StepTypes, SavedStep, PTL DEF Spec

Store == INSTANCE AtomicStore WITH Contents <- [Id -> Entry \cup {NoEntry}]

LEMMA StoreSteps ==
    ASSUME TypeOK, [Next]_vars
    PROVE  \/ UNCHANGED store
           \/ Reload
           \/ \E contents \in [Id -> Entry \cup {NoEntry}], ok \in BOOLEAN :
                 Save(contents, ok)
<1>1. ASSUME NEW i \in Id, NEW e \in Entry
      PROVE  [mem EXCEPT ![i] = KeepPassword(i, e)] \in [Id -> Entry \cup {NoEntry}]
  BY KeepPasswordType DEF TypeOK
<1>2. ASSUME NEW i \in Id
      PROVE  [mem EXCEPT ![i] = NoEntry] \in [Id -> Entry \cup {NoEntry}]
  BY DEF TypeOK
<1>3. ASSUME NEW c \in Client, Begin(c)
      PROVE  \/ UNCHANGED store
             \/ \E contents \in [Id -> Entry \cup {NoEntry}], ok \in BOOLEAN :
                   Save(contents, ok)
  BY <1>1, <1>3, FormAssumption DEF Begin, PutBegin, Post, Request
<1>4. ASSUME NEW a \in Actor, NEW ok \in BOOLEAN, PutWrite(a, ok)
      PROVE  \E contents \in [Id -> Entry \cup {NoEntry}] : Save(contents, ok)
  BY <1>1, <1>4, JobHas DEF PutWrite
<1>5. ASSUME NEW a \in Actor, NEW ok \in BOOLEAN, Delete(a, ok)
      PROVE  \E contents \in [Id -> Entry \cup {NoEntry}] : Save(contents, ok)
  BY <1>2, <1>5, JobHas DEF Delete
<1>6. ASSUME NEW a \in Actor, Continue(a)
      PROVE  \/ UNCHANGED store
             \/ \E ok \in BOOLEAN : PutWrite(a, ok) \/ Delete(a, ok)
  BY <1>6 DEF Continue, PostLook, Find, Check, MkdirFails, Report, DoMount, DoUnmount
<1> QED
  BY <1>3, <1>4, <1>5, <1>6 DEF Next, vars, AutoGoesOn, AutoList, AutoNext, Restart

(* The entries are kept as AtomicStore promises, which StoreFile shows of  *)
(* the writes and the rename.                                              *)
THEOREM StoreIsAtomic == Spec => Store!Spec
<1>1. Init => Store!Init
  BY FormAssumption DEF Init, StoreInit, Store!Init, Store!StoreInit
<1>2. TypeOK /\ [Next]_vars => [Store!Next]_(Store!store)
  <2> SUFFICES ASSUME TypeOK, [Next]_vars, ~UNCHANGED store
               PROVE  Store!Next
    BY DEF Store!store
  <2>1. ASSUME NEW contents \in [Id -> Entry \cup {NoEntry}], NEW ok \in BOOLEAN,
               Save(contents, ok)
        PROVE  Store!Next
    BY <2>1 DEF Save, Store!Save, Store!Next
  <2>2. Reload => Store!Next
    BY DEF Reload, Store!Reload, Store!Next
  <2> QED
    BY <2>1, <2>2, StoreSteps
<1> QED
  BY <1>1, <1>2, InitTypes, StepTypes, PTL DEF Spec, Store!Spec
=============================================================================
