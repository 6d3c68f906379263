------------------------- MODULE HostdevPins_proofs -------------------------
(***************************************************************************)
(* What is proved about HostdevPins for every set of VMs, requests,        *)
(* spellings and events.                                                   *)
(***************************************************************************)
EXTENDS HostdevPins, TLAPS

USE DEF store, libvirt, Hostdev

-----------------------------------------------------------------------------
(* Facts about the parts of a step.                                        *)

\* A device is the canonical form of a spelling.
LEMMA CanonIsDevice ==
    ASSUME NEW s \in Spelling
    PROVE  Canon[s] \in Device
BY DEF Device

\* What the step of a request says of the request.
LEMMA JobKind ==
    ASSUME TypeOK, NEW c \in Client
    PROVE  /\ job[c].step \in {"post state", "post attach", "post pin"}
                => job[c] \in PostJob
           /\ job[c].step \in {"delete state", "delete detach"}
                => job[c] \in DeleteJob
           /\ job[c] # Idle => job[c].pin \in Pin
<1>1. job[c] \in {Idle} \cup PostJob \cup DeleteJob
  BY DEF TypeOK
<1>2. CASE job[c] = Idle
  BY <1>2 DEF Idle
<1>3. CASE job[c] \in PostJob
  BY <1>3 DEF PostJob
<1>4. CASE job[c] \in DeleteJob
  BY <1>4 DEF DeleteJob
<1> QED
  BY <1>1, <1>2, <1>3, <1>4

\* A request that moves on to a well-typed job keeps the type of job.
LEMMA JobMoves ==
    ASSUME TypeOK, NEW c \in Client, NEW j \in {Idle} \cup PostJob \cup DeleteJob,
           job' = [job EXCEPT ![c] = j]
    PROVE  job' \in [Client -> {Idle} \cup PostJob \cup DeleteJob]
BY DEF TypeOK

\* The jobs of POST and DELETE, field by field.
LEMMA PostJobIs ==
    ASSUME NEW step \in {"post state", "post attach", "post pin"}, NEW p \in Pin,
           NEW persistent \in BOOLEAN, NEW running \in BOOLEAN
    PROVE  [step |-> step, pin |-> p, persistent |-> persistent,
            running |-> running] \in PostJob
BY DEF PostJob

LEMMA DeleteJobIs ==
    ASSUME NEW step \in {"delete state", "delete detach"}, NEW p \in Pin,
           NEW running \in BOOLEAN
    PROVE  [step |-> step, pin |-> p, running |-> running] \in DeleteJob
BY DEF DeleteJob

\* The fields of a job.
LEMMA PostJobHas ==
    ASSUME NEW j \in PostJob
    PROVE  j.pin \in Pin /\ j.persistent \in BOOLEAN /\ j.running \in BOOLEAN
BY DEF PostJob

\* What the step of the reconciler says of its pass.
LEMMA PassKind ==
    ASSUME TypeOK
    PROVE  /\ rec.step = "next" => rec \in [step : {"next"}, todo : SUBSET Pin]
           /\ rec.step \in {"has", "attach"}
                => rec \in [step : {"has", "attach"}, todo : SUBSET Pin, pin : Pin]
BY DEF TypeOK, PassStep, Idle

\* A pass that goes on with fewer pins is a pass.
LEMMA RestType ==
    ASSUME NEW todo \in SUBSET Pin
    PROVE  Rest(todo) \in {Idle} \cup PassStep
BY DEF Rest, PassStep

\* virsh keeps the types of what libvirt holds.
LEMMA VirshTypes ==
    ASSUME TypeOK, NEW v \in VM, NEW d \in Device, NEW scope, NEW o,
           AttachDevice(v, d, scope, o) \/ DetachDevice(v, d, scope, o)
    PROVE  /\ power' \in [VM -> Power]
           /\ config' \in [VM -> SUBSET Device]
           /\ live' \in [VM -> SUBSET Device]
BY DEF TypeOK, AttachDevice, DetachDevice, Attach, Detach

-----------------------------------------------------------------------------
(* Type correctness.                                                       *)

LEMMA RequestTypes ==
    ASSUME TypeOK, NEW c \in Client, Request(c)
    PROVE  TypeOK'
<1>1. CASE PostBegin(c)
  <2>1. job' \in [Client -> {Idle} \cup PostJob \cup DeleteJob]
    BY <1>1, PostJobIs, JobMoves DEF PostBegin
  <2> QED
    BY <1>1, <2>1 DEF PostBegin, TypeOK
<1>2. CASE PostState(c)
  <2>1. job[c] \in PostJob
    BY <1>2, JobKind DEF PostState
  <2>2. job' \in [Client -> {Idle} \cup PostJob \cup DeleteJob]
    BY <1>2, <2>1, PostJobHas, PostJobIs, JobMoves DEF PostState
  <2> QED
    BY <1>2, <2>2 DEF PostState, TypeOK
<1>3. CASE PostAttach(c)
  <2>1. job[c] \in PostJob
    BY <1>3, JobKind DEF PostAttach
  <2>2. job[c].pin.vm \in VM /\ Canon[job[c].pin.id] \in Device
    BY <2>1, CanonIsDevice DEF PostJob, Pin
  <2>3. PICK o \in Outcome :
          AttachDevice(job[c].pin.vm, Canon[job[c].pin.id],
                       Scope(job[c].running, job[c].persistent), o)
    BY <1>3 DEF PostAttach
  <2>4. /\ power' \in [VM -> Power]
        /\ config' \in [VM -> SUBSET Device]
        /\ live' \in [VM -> SUBSET Device]
    BY <2>2, <2>3, VirshTypes
  <2>5. job' \in [Client -> {Idle} \cup PostJob \cup DeleteJob]
    <3>1. CASE job' = [job EXCEPT ![c] = Idle]
      BY <3>1, JobMoves
    <3>2. CASE job' = [job EXCEPT ![c] = [step |-> "post pin", pin |-> job[c].pin,
                         persistent |-> TRUE, running |-> FALSE]]
      BY <3>2, <2>1, PostJobHas, PostJobIs, JobMoves
    <3> QED
      BY <1>3, <3>1, <3>2 DEF PostAttach
  <2> QED
    BY <1>3, <2>4, <2>5 DEF PostAttach, TypeOK
<1>4. CASE PostPin(c)
  <2>1. job[c].pin \in Pin
    BY <1>4, JobKind DEF PostPin, PostJob
  <2>2. job' \in [Client -> {Idle} \cup PostJob \cup DeleteJob]
    BY <1>4, JobMoves DEF PostPin
  <2> QED
    BY <1>4, <2>1, <2>2 DEF PostPin, Add, Save, TypeOK
<1>5. CASE DeleteUnpin(c)
  <2>1. job' \in [Client -> {Idle} \cup PostJob \cup DeleteJob]
    BY <1>5, DeleteJobIs, JobMoves DEF DeleteUnpin
  <2> QED
    BY <1>5, <2>1 DEF DeleteUnpin, Remove, Save, TypeOK
<1>6. CASE DeleteState(c)
  <2>1. job[c] \in DeleteJob
    BY <1>6, JobKind DEF DeleteState
  <2>2. job' \in [Client -> {Idle} \cup PostJob \cup DeleteJob]
    <3>1. job[c].pin \in Pin
      BY <2>1 DEF DeleteJob
    <3> QED
      BY <1>6, <3>1, DeleteJobIs, JobMoves DEF DeleteState
  <2> QED
    BY <1>6, <2>2 DEF DeleteState, TypeOK
<1>7. CASE DeleteDetach(c)
  <2>1. job[c] \in DeleteJob
    BY <1>7, JobKind DEF DeleteDetach
  <2>2. job[c].pin.vm \in VM /\ Canon[job[c].pin.id] \in Device
    BY <2>1, CanonIsDevice DEF DeleteJob, Pin
  <2>3. PICK o \in Outcome :
          /\ DetachDevice(job[c].pin.vm, Canon[job[c].pin.id],
                          Scope(job[c].running, TRUE), o)
          /\ gone' = IF o = "ok" THEN gone \cup {DeviceOf(job[c].pin)} ELSE gone
    BY <1>7 DEF DeleteDetach
  <2>4. /\ power' \in [VM -> Power]
        /\ config' \in [VM -> SUBSET Device]
        /\ live' \in [VM -> SUBSET Device]
    BY <2>2, <2>3, VirshTypes
  <2>5. gone' \subseteq (VM \X Device)
    BY <2>2, <2>3 DEF TypeOK, DeviceOf
  <2> QED
    BY <1>7, <2>4, <2>5 DEF DeleteDetach, TypeOK
<1> QED
  BY <1>1, <1>2, <1>3, <1>4, <1>5, <1>6, <1>7 DEF Request

LEMMA PassTypes ==
    ASSUME TypeOK, Pass
    PROVE  TypeOK'
<1>1. CASE PassBegin
  BY <1>1, RestType DEF PassBegin, TypeOK
<1>2. ASSUME NEW p \in Pin, NEW ok \in BOOLEAN, PassState(p, ok)
      PROVE  TypeOK'
  <2>1. rec.todo \in SUBSET Pin
    BY <1>2, PassKind DEF PassState
  <2>2. rec' \in {Idle} \cup PassStep
    BY <1>2, <2>1, RestType DEF PassState, PassStep
  <2> QED
    BY <1>2, <2>2 DEF PassState, TypeOK
<1>3. ASSUME NEW p \in Pin, NEW ok \in BOOLEAN, PassHas(p, ok)
      PROVE  TypeOK'
  <2>1. rec.todo \in SUBSET Pin
    BY <1>3, PassKind DEF PassHas
  <2>2. rec' \in {Idle} \cup PassStep
    BY <1>3, <2>1, RestType DEF PassHas, PassStep
  <2> QED
    BY <1>3, <2>2 DEF PassHas, TypeOK
<1>4. ASSUME NEW p \in Pin, NEW o \in Outcome, PassAttach(p, o)
      PROVE  TypeOK'
  <2>1. rec.todo \in SUBSET Pin
    BY <1>4, PassKind DEF PassAttach
  <2>2. rec' \in {Idle} \cup PassStep
    BY <1>4, <2>1, RestType DEF PassAttach
  <2>3. p.vm \in VM /\ Canon[p.id] \in Device
    BY CanonIsDevice DEF Pin
  <2>4. /\ power' \in [VM -> Power]
        /\ config' \in [VM -> SUBSET Device]
        /\ live' \in [VM -> SUBSET Device]
    BY <1>4, <2>3, VirshTypes DEF PassAttach
  <2> QED
    BY <1>4, <2>2, <2>4 DEF PassAttach, TypeOK
<1> QED
  BY <1>1, <1>2, <1>3, <1>4 DEF Pass

LEMMA WorldTypes ==
    ASSUME TypeOK, Restart \/ \E v \in VM : Environment(v)
    PROVE  TypeOK'
<1>1. CASE Restart
  BY <1>1 DEF Restart, Reload, TypeOK
<1>2. ASSUME NEW v \in VM, Environment(v)
      PROVE  TypeOK'
  <2> DEFINE DomainTypes == /\ power \in [VM -> Power]
                           /\ config \in [VM -> SUBSET Device]
                           /\ live \in [VM -> SUBSET Device]
  <2>1. DomainTypes
    BY DEF TypeOK
  <2>2. DomainTypes'
    <3>1. CASE Start(v)
      BY <2>1, <3>1 DEF Start, Power
    <3>2. CASE Shutdown(v, {})
      BY <2>1, <3>2 DEF Shutdown, Power
    <3>3. CASE Pause(v) \/ Resume(v)
      BY <2>1, <3>3 DEF Pause, Resume, Power
    <3>4. CASE Undefine(v, {})
      BY <2>1, <3>4 DEF Undefine, Power
    <3>5. CASE Create(v)
      BY <2>1, <3>5 DEF Create, Power
    <3>6. CASE Resave(v, {})
      BY <2>1, <3>6 DEF Resave
    <3> QED
      BY <1>2, <3>1, <3>2, <3>3, <3>4, <3>5, <3>6 DEF Environment
  <2>3. UNCHANGED <<store, job, rec, acked, gone>>
    BY <1>2 DEF Environment
  <2> QED
    BY <2>2, <2>3 DEF TypeOK
<1> QED
  BY <1>1, <1>2

(* Every variable keeps its type.                                          *)
THEOREM TypeCorrect == Spec => []TypeOK
<1>1. Init => TypeOK
  BY DEF Init, StoreInit, TypeOK, Power
<1>2. TypeOK /\ [Next]_vars => TypeOK'
  <2> SUFFICES ASSUME TypeOK, [Next]_vars
               PROVE  TypeOK'
    OBVIOUS
  <2>1. CASE UNCHANGED vars
    BY <2>1 DEF vars, TypeOK
  <2>2. CASE Next
    BY <2>2, RequestTypes, PassTypes, WorldTypes DEF Next
  <2> QED
    BY <2>1, <2>2
<1> QED
  BY <1>1, <1>2, PTL DEF Spec

-----------------------------------------------------------------------------
(* The store: what a save, a failed save and a restart leave behind.       *)

StoreInv == AckedPinSurvives /\ SavedUnlessFailed

LEMMA SaveKeepsStoreInv ==
    ASSUME StoreInv, NEW contents, NEW ok \in BOOLEAN, Save(contents, ok),
           acked' \subseteq contents, ~ok => acked' \subseteq acked
    PROVE  StoreInv'
BY DEF StoreInv, AckedPinSurvives, SavedUnlessFailed, Save

LEMMA StoreInvStep ==
    ASSUME StoreInv, [Next]_vars
    PROVE  StoreInv'
<1>1. CASE UNCHANGED <<mem, disk, unsaved, acked>>
  BY <1>1 DEF StoreInv, AckedPinSurvives, SavedUnlessFailed
<1>2. ASSUME NEW c \in Client, PostPin(c)
      PROVE  StoreInv'
  <2>1. PICK ok \in BOOLEAN : Add(job[c].pin, ok)
    BY <1>2 DEF PostPin
  <2>2. acked' \subseteq mem \cup {job[c].pin}
    BY <2>1 DEF Add, StoreInv, AckedPinSurvives
  <2> QED
    BY <2>1, <2>2, SaveKeepsStoreInv DEF Add
<1>3. ASSUME NEW c \in Client, DeleteUnpin(c)
      PROVE  StoreInv'
  <2>1. PICK p \in Pin, ok \in BOOLEAN : Remove(p, ok)
    BY <1>3 DEF DeleteUnpin
  <2>2. acked' \subseteq mem \ {p} /\ acked' \subseteq acked
    BY <2>1 DEF Remove, StoreInv, AckedPinSurvives
  <2> QED
    BY <2>1, <2>2, SaveKeepsStoreInv DEF Remove
<1>4. CASE Restart
  BY <1>4 DEF Restart, Reload, StoreInv, AckedPinSurvives, SavedUnlessFailed
<1>5. CASE UNCHANGED vars
  BY <1>1, <1>5 DEF vars
<1>6. CASE Pass
  BY <1>1, <1>6 DEF Pass, PassBegin, PassState, PassHas, PassAttach
<1>7. ASSUME NEW v \in VM, Environment(v)
      PROVE  StoreInv'
  BY <1>1, <1>7 DEF Environment
<1>8. ASSUME NEW c \in Client, Request(c)
      PROVE  StoreInv'
  BY <1>1, <1>2, <1>3, <1>8
     DEF Request, PostBegin, PostState, PostAttach, DeleteState, DeleteDetach
<1> QED
  BY <1>4, <1>5, <1>6, <1>7, <1>8 DEF Next

(* A pin whose POST was answered 201, and that no DELETE has named since,  *)
(* is in memory and in the file, whatever saves fail and whenever the      *)
(* daemon restarts.                                                        *)
THEOREM AckedPinsSurvive == Spec => []AckedPinSurvives
<1>1. Init => StoreInv
  BY DEF Init, StoreInit, StoreInv, AckedPinSurvives, SavedUnlessFailed
<1>2. StoreInv /\ [Next]_vars => StoreInv'
  BY StoreInvStep
<1>3. StoreInv => AckedPinSurvives
  BY DEF StoreInv
<1> QED
  BY <1>1, <1>2, <1>3, PTL DEF Spec

(* Memory and file differ only after a failed save.                        *)
THEOREM MemoryIsSaved == Spec => []SavedUnlessFailed
<1>1. Init => StoreInv
  BY DEF Init, StoreInit, StoreInv, AckedPinSurvives, SavedUnlessFailed
<1>2. StoreInv /\ [Next]_vars => StoreInv'
  BY StoreInvStep
<1>3. StoreInv => SavedUnlessFailed
  BY DEF StoreInv
<1> QED
  BY <1>1, <1>2, <1>3, PTL DEF Spec

(* The store of the pins, whatever requests and passes do around it: each  *)
(* step saves a set of pins, reads the file again, or leaves it alone,     *)
(* which is what StoreFile implements (usb/store.go, pci/store.go: Pin,    *)
(* Unpin, NewStore).                                                       *)
Store == INSTANCE AtomicStore WITH Contents <- SUBSET Pin

THEOREM StoreIsAtomic == Spec => Store!Spec
<1>1. Init => Store!Init
  BY DEF Init, StoreInit, Store!Init, Store!StoreInit
<1>2. TypeOK /\ [Next]_vars => [Store!Next]_(Store!store)
  <2> SUFFICES ASSUME TypeOK, [Next]_vars, ~UNCHANGED store
               PROVE  Store!Next
    BY DEF Store!store
  <2>1. ASSUME NEW pins \in SUBSET Pin, NEW ok \in BOOLEAN, Save(pins, ok)
        PROVE  Store!Next
    BY <2>1 DEF Save, Store!Save, Store!Next
  <2>2. ASSUME NEW c \in Client, DeleteUnpin(c)
        PROVE  Store!Next
    BY <2>1, <2>2 DEF DeleteUnpin, Remove, TypeOK
  <2>3. ASSUME NEW c \in Client, PostPin(c)
        PROVE  Store!Next
    <3>1. job[c].pin \in Pin
      BY <2>3, JobKind DEF PostPin, PostJob
    <3> QED
      BY <2>1, <2>3, <3>1 DEF PostPin, Add, TypeOK
  <2>4. CASE Reload
    BY <2>4 DEF Reload, Store!Reload, Store!Next
  <2> QED
    BY <2>2, <2>3, <2>4 DEF Next, Request, PostBegin, PostState, PostAttach, DeleteState,
       DeleteDetach, Pass, PassBegin, PassState, PassHas, PassAttach, Restart,
       Environment, vars
<1> QED
  BY <1>1, <1>2, TypeCorrect, PTL DEF Spec, Store!Spec

-----------------------------------------------------------------------------
(* Deleted devices stay unpinned, where the three known ways to lose an    *)
(* unpin are absent: a save that fails, an identifier with two spellings,  *)
(* and a POST that overlaps the DELETE.                                    *)

SavesSucceed  == "save" \notin Events
OneSpelling   == \A s, t \in Spelling : Canon[s] = Canon[t] => s = t
OneAtATime    == \A c, d \in Client : c = d

\* Between its two halves a DELETE has the pin out of memory.
DeletingIsUnpinned ==
    \A c \in Client :
        job[c].step \in {"delete state", "delete detach"} => job[c].pin \notin mem

DeleteInv == mem = disk /\ DeletedIsUnpinned /\ DeletingIsUnpinned

\* Two pins of one device are one pin when an identifier has one spelling.
LEMMA OnePinPerDevice ==
    ASSUME OneSpelling, NEW p \in Pin, NEW q \in Pin, DeviceOf(p) = DeviceOf(q)
    PROVE  p = q
<1>1. p.vm = q.vm /\ Canon[p.id] = Canon[q.id]
  BY DEF DeviceOf
<1>2. p.id \in Spelling /\ q.id \in Spelling
  BY DEF Pin
<1>3. p.id = q.id
  BY <1>1, <1>2 DEF OneSpelling
<1> QED
  BY <1>1, <1>3 DEF Pin

\* A request that moves on while the store and gone stay as they are.
LEMMA QuietRequest ==
    ASSUME TypeOK, DeleteInv, NEW c \in Client, NEW j,
           job' = [job EXCEPT ![c] = j],
           j.step \in {"delete state", "delete detach"} => j.pin \notin mem,
           UNCHANGED <<mem, disk, gone>>
    PROVE  DeleteInv'
BY DEF TypeOK, DeleteInv, DeletedIsUnpinned, DeletingIsUnpinned, DeviceOf

LEMMA DeleteInvRequest ==
    ASSUME SavesSucceed, OneSpelling, OneAtATime,
           TypeOK, DeleteInv, NEW c \in Client, Request(c)
    PROVE  DeleteInv'
<1>1. CASE PostBegin(c)
  BY <1>1, QuietRequest DEF PostBegin
<1>2. CASE PostState(c)
  BY <1>2, QuietRequest DEF PostState
<1>3. CASE PostAttach(c)
  <2>1. CASE job' = [job EXCEPT ![c] = Idle]
    BY <1>3, <2>1, QuietRequest DEF PostAttach, Idle
  <2>2. CASE job' = [job EXCEPT ![c] = [step |-> "post pin", pin |-> job[c].pin,
                       persistent |-> TRUE, running |-> FALSE]]
    BY <1>3, <2>2, QuietRequest DEF PostAttach
  <2> QED
    BY <1>3, <2>1, <2>2 DEF PostAttach
<1>4. CASE PostPin(c)
  <2>1. /\ mem' = mem \cup {job[c].pin}
        /\ disk' = mem'
        /\ gone' = gone \ {DeviceOf(job[c].pin)}
    BY <1>4 DEF PostPin, Add, Save, SavesSucceed
  <2>2. DeletedIsUnpinned'
    BY <2>1 DEF DeleteInv, DeletedIsUnpinned, DeviceOf
  <2>3. \A d \in Client : job'[d] = Idle
    BY <1>4 DEF PostPin, OneAtATime, TypeOK
  <2>4. DeletingIsUnpinned'
    <3>1. \A d \in Client : job'[d].step = "idle"
      BY <2>3 DEF Idle
    <3> QED
      BY <3>1 DEF DeletingIsUnpinned
  <2> QED
    BY <2>1, <2>2, <2>4 DEF DeleteInv
<1>5. CASE DeleteUnpin(c)
  <2>1. PICK p \in Pin :
          /\ mem' = mem \ {p}
          /\ disk' = mem'
          /\ job' = [job EXCEPT ![c] = [step |-> "delete state", pin |-> p,
                                        running |-> FALSE]]
          /\ gone' = gone
    BY <1>5 DEF DeleteUnpin, Remove, Save, SavesSucceed
  <2>2. DeletedIsUnpinned'
    BY <2>1 DEF DeleteInv, DeletedIsUnpinned, DeviceOf
  <2>3. \A d \in Client : job'[d].pin = p
    BY <2>1 DEF OneAtATime, TypeOK
  <2>4. DeletingIsUnpinned'
    <3>1. p \notin mem'
      BY <2>1
    <3> QED
      BY <2>3, <3>1 DEF DeletingIsUnpinned
  <2> QED
    BY <2>1, <2>2, <2>4 DEF DeleteInv
<1>6. CASE DeleteState(c)
  BY <1>6, QuietRequest DEF DeleteState, DeleteInv, DeletingIsUnpinned
<1>7. CASE DeleteDetach(c)
  <2>1. job[c].pin \in Pin /\ job[c].pin \notin mem
    BY <1>7, JobKind DEF DeleteDetach, DeleteJob, DeleteInv, DeletingIsUnpinned
  <2>2. UNCHANGED <<mem, disk>> /\ gone' \subseteq gone \cup {DeviceOf(job[c].pin)}
    BY <1>7 DEF DeleteDetach
  <2>3. \A p \in mem : DeviceOf(p) # DeviceOf(job[c].pin)
    BY <2>1, OnePinPerDevice DEF TypeOK
  <2>4. DeletedIsUnpinned'
    BY <2>2, <2>3 DEF DeleteInv, DeletedIsUnpinned, DeviceOf
  <2>5. DeletingIsUnpinned'
    BY <1>7, <2>2 DEF DeleteDetach, DeleteInv, DeletingIsUnpinned, TypeOK, Idle
  <2> QED
    BY <2>2, <2>4, <2>5 DEF DeleteInv
<1> QED
  BY <1>1, <1>2, <1>3, <1>4, <1>5, <1>6, <1>7 DEF Request

LEMMA DeleteInvStep ==
    ASSUME SavesSucceed, OneSpelling, OneAtATime, TypeOK, DeleteInv, [Next]_vars
    PROVE  DeleteInv'
<1>1. CASE UNCHANGED <<mem, disk, gone, job>>
  BY <1>1 DEF DeleteInv, DeletedIsUnpinned, DeletingIsUnpinned, DeviceOf
<1>2. CASE UNCHANGED vars
  BY <1>1, <1>2 DEF vars
<1>3. CASE Pass
  BY <1>1, <1>3 DEF Pass, PassBegin, PassState, PassHas, PassAttach
<1>4. ASSUME NEW v \in VM, Environment(v)
      PROVE  DeleteInv'
  BY <1>1, <1>4 DEF Environment
<1>5. CASE Restart
  <2>1. mem' = disk /\ disk' = disk /\ gone' = gone
    BY <1>5 DEF Restart, Reload
  <2>2. \A c \in Client : job'[c] = Idle
    BY <1>5 DEF Restart
  <2>3. DeletingIsUnpinned'
    <3>1. \A d \in Client : job'[d].step = "idle"
      BY <2>2 DEF Idle
    <3> QED
      BY <3>1 DEF DeletingIsUnpinned
  <2>4. DeletedIsUnpinned'
    BY <2>1 DEF DeleteInv, DeletedIsUnpinned, DeviceOf
  <2> QED
    BY <2>1, <2>3, <2>4 DEF DeleteInv
<1> QED
  BY <1>2, <1>3, <1>4, <1>5, DeleteInvRequest DEF Next

(* With saves that succeed, identifiers of one spelling and no overlapping *)
(* requests, a device whose last answered request is a successful DELETE   *)
(* is not pinned, so that no later pass of the reconciler restores it.     *)
THEOREM DeletedStaysUnpinned ==
    ASSUME SavesSucceed, OneSpelling, OneAtATime
    PROVE  Spec => []DeletedIsUnpinned
<1>1. Init => DeleteInv
  BY DEF Init, StoreInit, DeleteInv, DeletedIsUnpinned, DeletingIsUnpinned, Idle
<1>2. TypeOK /\ DeleteInv /\ [Next]_vars => DeleteInv'
  BY DeleteInvStep
<1>3. DeleteInv => DeletedIsUnpinned
  BY DEF DeleteInv
<1> QED
  BY <1>1, <1>2, <1>3, TypeCorrect, PTL DEF Spec

-----------------------------------------------------------------------------
(* How far the reconciler can bring a deleted device back.                 *)

\* The pins that a pass still has to look at, or works on.
Carried(r) ==
    {p \in Pin : \/ r # Idle /\ p \in r.todo
                 \/ r.step \in {"has", "attach"} /\ p = r.pin}

PassKeepsToList ==
    /\ rec = Idle => \A p \in Carried(rec') : p \in mem /\ DeviceOf(p) \notin gone
    /\ rec # Idle => Carried(rec') \subseteq Carried(rec)
    /\ rec' # rec =>
         \A v \in VM : \A d \in config'[v] \ config[v] :
             \E p \in Carried(rec) : DeviceOf(p) = <<v, d>>

(* Only the pass that was under way when a device was deleted can bring it *)
(* back: a pass begins with pins of devices that are not deleted, its list *)
(* only gets shorter, and it attaches nothing that it has not listed.  So  *)
(* "Unpin first so the reconciler will not immediately re-add it"          *)
(* (handlers.go:724, 829) holds of every pass that begins later.           *)
PassesKeepToList == [][PassKeepsToList]_vars

LEMMA RestCarries ==
    ASSUME NEW todo \in SUBSET Pin
    PROVE  Carried(Rest(todo)) = todo
<1>1. CASE todo = {}
  <2>1. Rest(todo) = Idle /\ Idle.step = "idle"
    BY <1>1 DEF Rest, Idle
  <2> QED
    BY <1>1, <2>1 DEF Carried
<1>2. CASE todo # {}
  <2> DEFINE r == [step |-> "next", todo |-> todo]
  <2>1. Rest(todo) = r
    BY <1>2 DEF Rest
  <2>2. r.step = "next" /\ r.todo = todo /\ r # Idle
    BY DEF Idle
  <2> HIDE DEF r
  <2> QED
    BY <2>1, <2>2 DEF Carried
<1> QED
  BY <1>1, <1>2

\* While a pass goes on its list gets shorter.
LEMMA PassShortens ==
    ASSUME TypeOK, Pass, rec # Idle
    PROVE  Carried(rec') \subseteq Carried(rec)
<1>1. rec \in PassStep /\ rec.todo \in SUBSET Pin
  BY DEF TypeOK, PassStep
<1>2. ASSUME NEW todo \in SUBSET rec.todo, rec' = Rest(todo)
      PROVE  Carried(rec') \subseteq Carried(rec)
  <2>1. Carried(rec') = todo
    BY <1>1, <1>2, RestCarries
  <2> QED
    BY <1>1, <2>1 DEF Carried
<1>3. ASSUME NEW p \in Pin, NEW ok \in BOOLEAN, PassState(p, ok)
      PROVE  Carried(rec') \subseteq Carried(rec)
  <2>1. CASE ok
    <3>1. rec'.todo = rec.todo \ {p} /\ rec'.pin = p /\ p \in rec.todo
      BY <1>3, <2>1 DEF PassState
    <3> QED
      BY <3>1 DEF Carried
  <2>2. CASE ~ok
    BY <1>2, <1>3, <2>2 DEF PassState
  <2> QED
    BY <2>1, <2>2
<1>4. ASSUME NEW p \in Pin, NEW ok \in BOOLEAN, PassHas(p, ok)
      PROVE  Carried(rec') \subseteq Carried(rec)
  <2>1. CASE rec' = [step |-> "attach", todo |-> rec.todo, pin |-> p]
    <3>1. rec'.todo = rec.todo /\ rec'.pin = p /\ rec.step = "has" /\ rec.pin = p
      BY <1>4, <2>1 DEF PassHas
    <3> QED
      BY <3>1 DEF Carried
  <2>2. CASE rec' = Rest(rec.todo)
    BY <1>2, <2>2
  <2> QED
    BY <1>4, <2>1, <2>2 DEF PassHas
<1>5. ASSUME NEW p \in Pin, NEW o \in Outcome, PassAttach(p, o)
      PROVE  Carried(rec') \subseteq Carried(rec)
  BY <1>2, <1>5 DEF PassAttach
<1>6. ~PassBegin
  BY DEF PassBegin
<1> QED
  BY <1>3, <1>4, <1>5, <1>6 DEF Pass

\* What a pass attaches is the device of the pin it works on.
LEMMA PassAttaches ==
    ASSUME TypeOK, Pass, NEW v \in VM, NEW d \in config'[v] \ config[v]
    PROVE  \E p \in Carried(rec) : DeviceOf(p) = <<v, d>>
<1>1. PICK p \in Pin, o \in Outcome : PassAttach(p, o)
  BY DEF Pass, PassBegin, PassState, PassHas
<1>2. p \in Carried(rec)
  BY <1>1 DEF PassAttach, Carried
<1>3. config' = [config EXCEPT ![p.vm] = @ \cup {Canon[p.id]}]
  BY <1>1 DEF PassAttach, AttachDevice, Attach
<1>4. v = p.vm /\ d = Canon[p.id]
  BY <1>3 DEF TypeOK
<1> QED
  BY <1>2, <1>4 DEF DeviceOf

THEOREM OnlyOldPassReattaches ==
    ASSUME SavesSucceed, OneSpelling, OneAtATime
    PROVE  Spec => PassesKeepToList
<1>1. TypeOK /\ DeletedIsUnpinned /\ [Next]_vars => [PassKeepsToList]_vars
  <2> SUFFICES ASSUME TypeOK, DeletedIsUnpinned, Next
               PROVE  PassKeepsToList
    OBVIOUS
  <2>1. CASE rec' = rec
    <3>1. rec = Idle => Carried(rec') = {}
      BY <2>1 DEF Carried, Idle
    <3> QED
      BY <2>1, <3>1 DEF PassKeepsToList
  <2>2. CASE Restart
    <3>1. Carried(rec') = {}
      BY <2>2 DEF Restart, Carried, Idle
    <3>2. config' = config
      BY <2>2 DEF Restart
    <3> QED
      BY <3>1, <3>2 DEF PassKeepsToList
  <2>3. CASE Pass
    <3>1. ASSUME rec = Idle
          PROVE  \A p \in Carried(rec') : p \in mem /\ DeviceOf(p) \notin gone
      <4>1. rec.step = "idle"
        BY <3>1 DEF Idle
      <4>2. PassBegin
        BY <2>3, <4>1 DEF Pass, PassState, PassHas, PassAttach
      <4>3. Carried(rec') = mem
        BY <4>2, RestCarries DEF PassBegin, TypeOK
      <4> QED
        BY <4>3 DEF DeletedIsUnpinned
    <3> QED
      BY <2>3, <3>1, PassShortens, PassAttaches DEF PassKeepsToList
  <2>4. CASE \E c \in Client : Request(c)
    <3>1. rec' = rec
      BY <2>4 DEF Request, PostBegin, PostState, PostAttach, PostPin,
         DeleteUnpin, DeleteState, DeleteDetach
    <3> QED
      BY <2>1, <3>1
  <2>5. CASE \E v \in VM : Environment(v)
    BY <2>1, <2>5 DEF Environment
  <2> QED
    BY <2>2, <2>3, <2>4, <2>5 DEF Next
<1>2. Spec => []DeletedIsUnpinned
  BY DeletedStaysUnpinned
<1> QED
  BY <1>1, <1>2, TypeCorrect, PTL DEF Spec, PassesKeepToList

-----------------------------------------------------------------------------
(* The invariant that the refinement of DomainEdits needs besides the      *)
(* types.  A domain that is gone left no device behind for the next one of *)
(* its name; the pin that a pass works on is not on the list of those to   *)
(* come; and what a restart loses, a save that failed had lost.            *)

GoneIsBlank == \A v \in VM : ~Exists(v) => config[v] = {}
ListedOnce  == rec.step \in {"has", "attach"} => rec.pin \notin rec.todo
FailedSave  == unsaved => "save" \in Events

EditInv == TypeOK /\ GoneIsBlank /\ ListedOnce /\ SavedUnlessFailed /\ FailedSave

LEMMA VirshBlank ==
    ASSUME TypeOK, GoneIsBlank, NEW v \in VM, NEW d, NEW scope, NEW o,
           AttachDevice(v, d, scope, o) \/ DetachDevice(v, d, scope, o)
    PROVE  GoneIsBlank'
<1>1. CASE UNCHANGED libvirt
  BY <1>1 DEF GoneIsBlank, Exists
<1>2. CASE ~UNCHANGED libvirt
  <2>1. Exists(v) /\ power' = power
    BY <1>2 DEF AttachDevice, DetachDevice, CanAttach, CanDetach, Attach, Detach,
       Succeeds, TimesOut
  <2>2. \A w \in VM : w # v => config'[w] = config[w]
    BY <1>2 DEF AttachDevice, DetachDevice, Attach, Detach, TypeOK
  <2> QED
    BY <2>1, <2>2 DEF GoneIsBlank, Exists
<1> QED
  BY <1>1, <1>2

LEMMA BlankStep ==
    ASSUME EditInv, [Next]_vars
    PROVE  GoneIsBlank'
<1> USE DEF EditInv
<1>1. CASE UNCHANGED libvirt
  BY <1>1 DEF GoneIsBlank, Exists
<1>2. ASSUME NEW c \in Client, Request(c), ~UNCHANGED libvirt
      PROVE  GoneIsBlank'
  <2>1. CASE PostAttach(c)
    BY <2>1, JobKind, VirshBlank DEF PostAttach, PostJob, Pin
  <2>2. CASE DeleteDetach(c)
    BY <2>2, JobKind, VirshBlank DEF DeleteDetach, DeleteJob, Pin
  <2> QED
    BY <1>2, <2>1, <2>2 DEF Request, PostBegin, PostState, PostPin, DeleteUnpin, DeleteState
<1>3. ASSUME Pass, ~UNCHANGED libvirt
      PROVE  GoneIsBlank'
  <2>1. PICK p \in Pin, o \in Outcome : PassAttach(p, o)
    BY <1>3 DEF Pass, PassBegin, PassState, PassHas
  <2> QED
    BY <2>1, VirshBlank DEF PassAttach, Pin
<1>4. ASSUME NEW v \in VM, Environment(v)
      PROVE  GoneIsBlank'
  <2>1. CASE Start(v) \/ Shutdown(v, {}) \/ Pause(v) \/ Resume(v)
    BY <2>1 DEF TypeOK, GoneIsBlank, Exists, Active, Start, Shutdown, Pause, Resume
  <2>2. CASE Undefine(v, {}) \/ Create(v) \/ Resave(v, {})
    BY <2>2 DEF TypeOK, GoneIsBlank, Exists, Undefine, Create, Resave
  <2> QED
    BY <1>4, <2>1, <2>2 DEF Environment
<1> QED
  BY <1>1, <1>2, <1>3, <1>4 DEF Next, Restart, vars

LEMMA ListedStep ==
    ASSUME EditInv, [Next]_vars
    PROVE  ListedOnce'
<1>1. CASE rec' = rec
  BY <1>1 DEF EditInv, ListedOnce
<1>2. \A todo : Rest(todo).step \notin {"has", "attach"}
  BY DEF Rest, Idle
<1>3. CASE Pass
  <2>1. CASE PassBegin
    BY <1>2, <2>1 DEF PassBegin, ListedOnce
  <2>2. ASSUME NEW p \in Pin, NEW ok \in BOOLEAN, PassState(p, ok)
        PROVE  ListedOnce'
    BY <1>2, <2>2 DEF PassState, ListedOnce
  <2>3. ASSUME NEW p \in Pin, NEW ok \in BOOLEAN, PassHas(p, ok)
        PROVE  ListedOnce'
    BY <1>2, <2>3 DEF PassHas, EditInv, ListedOnce
  <2>4. ASSUME NEW p \in Pin, NEW o \in Outcome, PassAttach(p, o)
        PROVE  ListedOnce'
    BY <1>2, <2>4 DEF PassAttach, ListedOnce
  <2> QED
    BY <1>3, <2>1, <2>2, <2>3, <2>4 DEF Pass
<1>4. rec' = Idle => ListedOnce'
  BY DEF ListedOnce, Idle
<1> QED
  BY <1>1, <1>3, <1>4 DEF Next, Request, PostBegin, PostState, PostAttach, PostPin,
     DeleteUnpin, DeleteState, DeleteDetach, Restart, Environment, vars

LEMMA FailedStep ==
    ASSUME FailedSave, [Next]_vars
    PROVE  FailedSave'
BY DEF FailedSave, Next, Request, PostBegin, PostState, PostAttach, PostPin, Add,
   DeleteUnpin, Remove, Save, DeleteState, DeleteDetach, Pass, PassBegin, PassState,
   PassHas, PassAttach, Restart, Reload, Environment, vars

LEMMA EditInvariant == Spec => []EditInv
<1> DEFINE Others == GoneIsBlank /\ ListedOnce /\ FailedSave
<1>1. Init => GoneIsBlank
  BY DEF Init, GoneIsBlank
<1>2. Init => ListedOnce
  <2>1. rec = Idle => ListedOnce
    BY DEF ListedOnce, Idle
  <2> QED
    BY <2>1 DEF Init
<1>3. Init => FailedSave
  BY DEF Init, StoreInit, FailedSave
<1>4. TypeOK /\ SavedUnlessFailed /\ Others <=> EditInv
  BY DEF EditInv
<1>5. EditInv /\ [Next]_vars => Others'
  BY BlankStep, ListedStep, FailedStep DEF EditInv
<1> QED
  BY <1>1, <1>2, <1>3, <1>4, <1>5, TypeCorrect, MemoryIsSaved, PTL DEF Spec

-----------------------------------------------------------------------------
(* What the parts of a step are to Edits(v, d), one device's view of it.   *)

LEMMA NewDoc ==
    ASSUME NEW v \in VM, NEW d \in Device
    PROVE  DocOf({}, d) = Edits(v, d)!Template({}, {"net"})
<1>1. [p \in {"device"} |-> d \in {}] = [p \in {"device"} |-> p \in {}]
  OBVIOUS
<1> QED
  BY <1>1 DEF DocOf, Edits!Template, Edits!Part

LEMMA EditedDoc ==
    ASSUME NEW v \in VM, NEW d \in Device, NEW has, NEW on \in BOOLEAN
    PROVE  Edits(v, d)!Edited(DocOf(has, d), "device", on)
             = DocOf(IF on THEN has \cup {d} ELSE has \ {d}, d)
<1> DEFINE new == IF on THEN has \cup {d} ELSE has \ {d}
<1>1. (d \in new) = on
  OBVIOUS
<1> HIDE DEF new
<1> QED
  BY <1>1 DEF Edits!Edited, DocOf

LEMMA DocIsThere ==
    ASSUME NEW v \in VM, NEW d \in Device
    PROVE  Edits(v, d)!Exists <=> Exists(v)
BY DEF Edits!Exists, Edits!Gone, ConfigOf, DocOf

LEMMA DocStays ==
    ASSUME NEW v \in VM, NEW d \in Device, Exists(v)' <=> Exists(v),
           d \in config'[v] <=> d \in config[v]
    PROVE  ConfigOf(v, d)' = ConfigOf(v, d)
<1>1. (d \in config'[v]) = (d \in config[v])
  OBVIOUS
<1>2. DocOf(config[v], d)' = DocOf(config[v], d)
  BY <1>1 DEF DocOf
<1> QED
  BY <1>2 DEF ConfigOf

LEMMA PinsStay ==
    ASSUME NEW v \in VM, NEW d \in Device, UNCHANGED mem
    PROVE  PinsOf(v, d)' = PinsOf(v, d)
BY DEF PinsOf, Names

LEMMA PassesStay ==
    ASSUME NEW v \in VM, NEW d \in Device, UNCHANGED rec
    PROVE  PassesOf(v, d)' = PassesOf(v, d)
BY DEF PassesOf, PassOf, Listed, WorksOn, Names

LEMMA RequestsStay ==
    ASSUME NEW v \in VM, NEW d \in Device, UNCHANGED job
    PROVE  RequestsOf(v, d)' = RequestsOf(v, d)
BY DEF RequestsOf, RequestOf, Names

LEMMA RequestMoves ==
    ASSUME TypeOK, NEW v \in VM, NEW d \in Device, NEW c \in Client, NEW j,
           job' = [job EXCEPT ![c] = j]
    PROVE  Edits(v, d)!Becomes(c, RequestOf(v, d, j))
<1>1. \A e \in Client : RequestOf(v, d, job'[e]) = IF e = c THEN RequestOf(v, d, j)
                                                  ELSE RequestOf(v, d, job[e])
  BY DEF TypeOK
<1>2. RequestsOf(v, d)' = [RequestsOf(v, d) EXCEPT ![c] = RequestOf(v, d, j)]
  BY <1>1 DEF RequestsOf
<1> QED
  BY <1>2 DEF Edits!Becomes

LEMMA RequestIdles ==
    ASSUME TypeOK, NEW v \in VM, NEW d \in Device, NEW c \in Client, NEW j,
           job' = [job EXCEPT ![c] = j], RequestOf(v, d, j) = RequestOf(v, d, job[c])
    PROVE  RequestsOf(v, d)' = RequestsOf(v, d)
<1>1. \A e \in Client : RequestOf(v, d, job'[e]) = RequestOf(v, d, job[e])
  BY DEF TypeOK
<1> QED
  BY <1>1 DEF RequestsOf

LEMMA PassMoves ==
    ASSUME NEW v \in VM, NEW d \in Device
    PROVE  /\ PassesOf(v, d)["device"] = PassOf(v, d)
           /\ Edits(v, d)!PassBecomes("device", PassOf(v, d)')
BY DEF Edits!PassBecomes, PassesOf

\* To the document of v, attaching d is to set the part, and detaching to clear it.
LEMMA AttachIsCarried ==
    ASSUME TypeOK, NEW v \in VM, NEW d \in Device, NEW scope, "config" \in scope,
           NEW o, AttachDevice(v, d, scope, o)
    PROVE  LET fits == "live" \in scope => Active(v) /\ d \notin live[v]
           IN  Edits(v, d)!Carried(o, Edits(v, d)!CanAttach("device", TRUE) /\ fits,
                                   Edits(v, d)!Edited(ConfigOf(v, d), "device", TRUE))
<1> DEFINE fits == "live" \in scope => Active(v) /\ d \notin live[v]
           can == Edits(v, d)!CanAttach("device", TRUE)
<1>1. CanAttach(v, d, scope) <=> can /\ fits
  <2>1. Exists(v) => (ConfigOf(v, d).has["device"] <=> d \in config[v])
    BY DEF ConfigOf, DocOf
  <2>2. Exists(v) => ConfigOf(v, d).has["device"] \in BOOLEAN
    BY DEF ConfigOf, DocOf
  <2>3. can <=> Exists(v) /\ d \notin config[v]
    BY <2>1, <2>2, DocIsThere DEF Edits!CanAttach
  <2> QED
    BY <2>3 DEF CanAttach
<1>2. ASSUME CanAttach(v, d, scope), Attach(v, d, scope)
      PROVE  ConfigOf(v, d)' = Edits(v, d)!Edited(ConfigOf(v, d), "device", TRUE)
  <2>1. ConfigOf(v, d) = DocOf(config[v], d)
    BY <1>2 DEF CanAttach, ConfigOf
  <2>2. ConfigOf(v, d)' = DocOf(config[v] \cup {d}, d)
    BY <1>2 DEF CanAttach, Attach, ConfigOf, Exists, TypeOK
  <2> QED
    BY <2>1, <2>2, EditedDoc
<1>3. UNCHANGED libvirt => ConfigOf(v, d)' = ConfigOf(v, d)
  BY DocStays DEF Exists
<1> QED
  BY <1>1, <1>2, <1>3 DEF AttachDevice, Edits!Carried, Edits!Succeeds, Edits!TimesOut,
     Edits!Refuses, Succeeds, TimesOut, Refuses

\* The pass attaches in the persistent document only, so that nothing else can fail.
LEMMA AttachInConfig ==
    ASSUME TypeOK, NEW v \in VM, NEW d \in Device, NEW o, AttachDevice(v, d, {"config"}, o)
    PROVE  Edits(v, d)!Carried(o, Edits(v, d)!CanAttach("device", TRUE),
                               Edits(v, d)!Edited(ConfigOf(v, d), "device", TRUE))
<1> DEFINE can == Edits(v, d)!CanAttach("device", TRUE)
           fits == "live" \in {"config"} => Active(v) /\ d \notin live[v]
<1>1. (can /\ fits) <=> can
  OBVIOUS
<1>2. Edits(v, d)!Carried(o, can /\ fits, Edits(v, d)!Edited(ConfigOf(v, d), "device", TRUE))
  BY AttachIsCarried
<1> HIDE DEF can, fits
<1> QED
  BY <1>1, <1>2 DEF Edits!Carried, Edits!Succeeds, Edits!TimesOut, Edits!Refuses, can

LEMMA DetachIsCarried ==
    ASSUME TypeOK, NEW v \in VM, NEW d \in Device, NEW scope, "config" \in scope,
           NEW o, DetachDevice(v, d, scope, o)
    PROVE  \E fits \in BOOLEAN :
             Edits(v, d)!Carried(o, Edits(v, d)!CanAttach("device", FALSE) /\ fits,
                                 Edits(v, d)!Edited(ConfigOf(v, d), "device", FALSE))
<1> DEFINE fits == "live" \in scope => Active(v) /\ d \in live[v]
           can == Edits(v, d)!CanAttach("device", FALSE)
<1>1. CanDetach(v, d, scope) <=> can /\ fits
  <2>1. Exists(v) => (ConfigOf(v, d).has["device"] <=> d \in config[v])
    BY DEF ConfigOf, DocOf
  <2>2. Exists(v) => ConfigOf(v, d).has["device"] \in BOOLEAN
    BY DEF ConfigOf, DocOf
  <2>3. can <=> Exists(v) /\ d \in config[v]
    BY <2>1, <2>2, DocIsThere DEF Edits!CanAttach
  <2> QED
    BY <2>3 DEF CanDetach
<1>2. ASSUME CanDetach(v, d, scope), Detach(v, d, scope)
      PROVE  ConfigOf(v, d)' = Edits(v, d)!Edited(ConfigOf(v, d), "device", FALSE)
  <2>1. ConfigOf(v, d) = DocOf(config[v], d)
    BY <1>2 DEF CanDetach, ConfigOf
  <2>2. ConfigOf(v, d)' = DocOf(config[v] \ {d}, d)
    BY <1>2 DEF CanDetach, Detach, ConfigOf, Exists, TypeOK
  <2> QED
    BY <2>1, <2>2, EditedDoc
<1>3. UNCHANGED libvirt => ConfigOf(v, d)' = ConfigOf(v, d)
  BY DocStays DEF Exists
<1>4. Edits(v, d)!Carried(o, can /\ fits, Edits(v, d)!Edited(ConfigOf(v, d), "device", FALSE))
  BY <1>1, <1>2, <1>3 DEF DetachDevice, Edits!Carried, Edits!Succeeds, Edits!TimesOut,
     Edits!Refuses, Succeeds, TimesOut, Refuses
<1> QED
  BY <1>4

\* Attaching and detaching another device, or in the running domain only.
LEMMA VirshElsewhere ==
    ASSUME TypeOK, NEW v \in VM, NEW d \in Device, NEW w \in VM, NEW e \in Device,
           NEW scope, NEW o, AttachDevice(w, e, scope, o) \/ DetachDevice(w, e, scope, o),
           w # v \/ e # d \/ "config" \notin scope
    PROVE  ConfigOf(v, d)' = ConfigOf(v, d)
<1>1. power' = power
  BY DEF AttachDevice, DetachDevice, Attach, Detach
<1>2. d \in config'[v] <=> d \in config[v]
  BY DEF AttachDevice, DetachDevice, Attach, Detach, TypeOK
<1> QED
  BY <1>1, <1>2, DocStays DEF Exists

-----------------------------------------------------------------------------
(* Each step is one of Edits(v, d), or none.                               *)

EditsStep(v, d) == [Edits(v, d)!Next]_(Edits(v, d)!vars)

LEMMA Stutters ==
    ASSUME NEW v \in VM, NEW d \in Device, ConfigOf(v, d)' = ConfigOf(v, d),
           PinsOf(v, d)' = PinsOf(v, d), RequestsOf(v, d)' = RequestsOf(v, d),
           PassesOf(v, d)' = PassesOf(v, d)
    PROVE  EditsStep(v, d)
BY DEF EditsStep, Edits!vars

LEMMA RequestSteps ==
    ASSUME NEW v \in VM, NEW d \in Device, NEW c \in Client,
           Edits(v, d)!Begin(c) \/ Edits(v, d)!Continue(c)
    PROVE  EditsStep(v, d)
BY DEF EditsStep, Edits!Next

LEMMA PassSteps ==
    ASSUME NEW v \in VM, NEW d \in Device, Edits(v, d)!Pass("device")
    PROVE  EditsStep(v, d)
BY DEF EditsStep, Edits!Next, Edits!Part

\* What a job is to its device, and to any other.
LEMMA IdleJob ==
    ASSUME NEW v \in VM, NEW d \in Device
    PROVE  RequestOf(v, d, Idle) = Idle
BY DEF RequestOf, Idle

LEMMA OtherJob ==
    ASSUME NEW v \in VM, NEW d \in Device, NEW j, ~Names(j.pin, v, d)
    PROVE  RequestOf(v, d, j) = Idle
BY DEF RequestOf

LEMMA PostJobOf ==
    ASSUME NEW v \in VM, NEW d \in Device, NEW j \in PostJob, Names(j.pin, v, d)
    PROVE  RequestOf(v, d, j) = IF j.step = "post pin"
                                  THEN [step |-> "pin", part |-> "device"]
                                ELSE IF j.persistent THEN AttachOf(TRUE) ELSE Idle
BY DEF RequestOf, PostJob

LEMMA DeleteJobOf ==
    ASSUME NEW v \in VM, NEW d \in Device, NEW j \in DeleteJob, Names(j.pin, v, d)
    PROVE  RequestOf(v, d, j) = AttachOf(FALSE)
BY DEF RequestOf, DeleteJob

\* An attach or detach of the device by a request, whose job goes from j to k.
LEMMA AttachStep ==
    ASSUME TypeOK, NEW v \in VM, NEW d \in Device, NEW c \in Client,
           NEW on \in BOOLEAN, NEW o \in Outcome, NEW fits \in BOOLEAN, NEW k,
           RequestOf(v, d, job[c]) = AttachOf(on),
           Edits(v, d)!Carried(o, Edits(v, d)!CanAttach("device", on) /\ fits,
                               Edits(v, d)!Edited(ConfigOf(v, d), "device", on)),
           job' = [job EXCEPT ![c] = k],
           RequestOf(v, d, k) = Edits(v, d)!After(AttachOf(on), o),
           UNCHANGED <<mem, rec>>
    PROVE  EditsStep(v, d)
<1>1. PinsOf(v, d)' = PinsOf(v, d) /\ PassesOf(v, d)' = PassesOf(v, d)
  BY PinsStay, PassesStay
<1>2. RequestsOf(v, d)[c] = AttachOf(on)
  BY DEF RequestsOf
<1>3. Edits(v, d)!Becomes(c, Edits(v, d)!After(RequestsOf(v, d)[c], o))
  BY <1>2, RequestMoves
<1>4. LET a == RequestsOf(v, d)[c]
      IN  a.step = "attach" /\ a.part = "device" /\ a.on = on
  BY <1>2 DEF AttachOf
<1>5. Edits(v, d)!Attach(c, o)
  BY <1>1, <1>3, <1>4 DEF Edits!Attach
<1> QED
  BY <1>5, RequestSteps DEF Edits!Continue, Edits!Outcome, Outcome

LEMMA PostImplements ==
    ASSUME TypeOK, NEW v \in VM, NEW d \in Device, NEW c \in Client,
           PostBegin(c) \/ PostState(c) \/ PostAttach(c)
    PROVE  EditsStep(v, d)
<1>1. CASE PostBegin(c)
  <2>1. PICK p \in Pin, persistent \in BOOLEAN :
          job' = [job EXCEPT ![c] = [step |-> "post state", pin |-> p,
                                     persistent |-> persistent, running |-> FALSE]]
    BY <1>1 DEF PostBegin
  <2> DEFINE k == [step |-> "post state", pin |-> p, persistent |-> persistent,
                   running |-> FALSE]
  <2>2. k \in PostJob /\ k.pin = p /\ k.persistent = persistent /\ k.step = "post state"
    BY PostJobIs
  <2>3. /\ ConfigOf(v, d)' = ConfigOf(v, d)
        /\ PinsOf(v, d)' = PinsOf(v, d)
        /\ PassesOf(v, d)' = PassesOf(v, d)
    BY <1>1, DocStays, PinsStay, PassesStay DEF PostBegin, Exists
  <2>4. RequestOf(v, d, job[c]) = Idle /\ RequestsOf(v, d)[c] = Idle
    BY <1>1, IdleJob DEF PostBegin, RequestsOf
  <2>5. CASE Names(p, v, d) /\ persistent
    <3>1. RequestOf(v, d, k) = Edits(v, d)!EditStep("device", TRUE)
      BY <2>2, <2>5, PostJobOf DEF AttachOf, Edits!EditStep
    <3>2. Edits(v, d)!Becomes(c, Edits(v, d)!EditStep("device", TRUE))
      BY <2>1, <3>1, RequestMoves
    <3>3. Edits(v, d)!Post(c, "device")
      BY <2>3, <2>4, <3>2 DEF Edits!Post, Edits!Idle, Idle
    <3> QED
      BY <3>3, RequestSteps DEF Edits!Begin, Edits!Part
  <2>6. CASE ~(Names(p, v, d) /\ persistent)
    <3>1. RequestOf(v, d, k) = Idle
      <4> HIDE DEF k
      <4> QED
        BY <2>2, <2>6, PostJobOf, OtherJob
    <3> QED
      BY <2>1, <2>3, <2>4, <3>1, RequestIdles, Stutters
  <2> QED
    BY <2>5, <2>6
<1>2. CASE PostState(c)
  <2>1. job[c] \in PostJob /\ job[c].step = "post state"
    BY <1>2, JobKind DEF PostState
  <2>2. PICK running \in BOOLEAN :
          job' = [job EXCEPT ![c] = [step |-> "post attach", pin |-> job[c].pin,
                          persistent |-> job[c].persistent, running |-> running]]
    BY <1>2 DEF PostState
  <2> DEFINE k == [step |-> "post attach", pin |-> job[c].pin,
                   persistent |-> job[c].persistent, running |-> running]
  <2>3. /\ k \in PostJob
        /\ k.pin = job[c].pin /\ k.persistent = job[c].persistent /\ k.step = "post attach"
    BY <2>1, PostJobIs, PostJobHas
  <2>4. RequestOf(v, d, k) = RequestOf(v, d, job[c])
    <3> HIDE DEF k
    <3>1. CASE Names(job[c].pin, v, d)
      BY <2>1, <2>3, <3>1, PostJobOf
    <3>2. CASE ~Names(job[c].pin, v, d)
      BY <2>3, <3>2, OtherJob
    <3> QED
      BY <3>1, <3>2
  <2>5. RequestsOf(v, d)' = RequestsOf(v, d)
    BY <2>2, <2>4, RequestIdles
  <2> QED
    BY <1>2, <2>5, DocStays, PinsStay, PassesStay, Stutters DEF PostState, Exists
<1>3. CASE PostAttach(c)
  <2> DEFINE j == job[c]
             k(o) == IF o = "ok" /\ j.persistent
                       THEN [step |-> "post pin", pin |-> j.pin,
                             persistent |-> TRUE, running |-> FALSE]
                       ELSE Idle
             scope == Scope(j.running, j.persistent)
  <2>1. j \in PostJob /\ j.step = "post attach" /\ j.pin \in Pin /\ j.persistent \in BOOLEAN
    BY <1>3, JobKind, PostJobHas DEF PostAttach
  <2>2. PICK o \in Outcome :
          /\ AttachDevice(j.pin.vm, Canon[j.pin.id], scope, o)
          /\ job' = [job EXCEPT ![c] = k(o)]
    BY <1>3 DEF PostAttach
  <2>3. UNCHANGED <<mem, rec>>
    BY <1>3 DEF PostAttach
  <2>4. "config" \in scope <=> j.persistent
    BY <2>1 DEF Scope
  <2>5. CASE Names(j.pin, v, d) /\ j.persistent
    <3>1. PICK fits \in BOOLEAN :
            Edits(v, d)!Carried(o, Edits(v, d)!CanAttach("device", TRUE) /\ fits,
                                Edits(v, d)!Edited(ConfigOf(v, d), "device", TRUE))
      BY <2>2, <2>4, <2>5, AttachIsCarried DEF Names
    <3>2. RequestOf(v, d, j) = AttachOf(TRUE)
      BY <2>1, <2>5, PostJobOf
    <3>3. RequestOf(v, d, k(o)) = Edits(v, d)!After(AttachOf(TRUE), o)
      <4>1. CASE o = "ok"
        <5>1. k(o) \in PostJob /\ k(o).pin = j.pin /\ k(o).persistent /\ k(o).step = "post pin"
          BY <2>1, <2>5, <4>1, PostJobIs
        <5>2. RequestOf(v, d, k(o)) = [step |-> "pin", part |-> "device"]
          BY <2>5, <5>1, PostJobOf
        <5> QED
          BY <4>1, <5>2 DEF AttachOf, Edits!After
      <4>2. CASE o # "ok"
        BY <4>2, IdleJob DEF Edits!After, Edits!Idle, Idle
      <4> QED
        BY <4>1, <4>2
    <3> QED
      BY <2>2, <2>3, <3>1, <3>2, <3>3, AttachStep
  <2>6. CASE ~(Names(j.pin, v, d) /\ j.persistent)
    <3>1. RequestOf(v, d, j) = Idle
      BY <2>1, <2>6, PostJobOf, OtherJob
    <3>2. RequestOf(v, d, k(o)) = Idle
      <4>1. CASE k(o) = Idle
        BY <4>1, IdleJob
      <4>2. CASE k(o) # Idle
        BY <2>6, <4>2, OtherJob
      <4> QED
        BY <4>1, <4>2
    <3>3. j.pin.vm \in VM /\ Canon[j.pin.id] \in Device
      BY <2>1, CanonIsDevice DEF Pin
    <3>4. ConfigOf(v, d)' = ConfigOf(v, d)
      BY <2>2, <2>4, <2>6, <3>3, VirshElsewhere DEF Names
    <3> QED
      BY <2>2, <2>3, <3>1, <3>2, <3>4, RequestIdles, PinsStay, PassesStay, Stutters
  <2> QED
    BY <2>5, <2>6
<1> QED
  BY <1>1, <1>2, <1>3

\* Two pins of one device of one VM are one pin when a device has one spelling.
LEMMA OnePin ==
    ASSUME OneSpelling, NEW v \in VM, NEW d \in Device, NEW p \in Pin, NEW q \in Pin,
           Names(p, v, d), Names(q, v, d)
    PROVE  p = q
BY OnePinPerDevice DEF Names, DeviceOf

LEMMA PinImplements ==
    ASSUME TypeOK, NEW v \in VM, NEW d \in Device, NEW c \in Client, PostPin(c)
    PROVE  EditsStep(v, d)
<1> DEFINE j == job[c]
<1>1. j \in PostJob /\ j.step = "post pin" /\ j.pin \in Pin /\ j.persistent \in BOOLEAN
  BY JobKind, PostJobHas DEF PostPin
<1>2. job' = [job EXCEPT ![c] = Idle] /\ mem' = mem \cup {j.pin}
  BY DEF PostPin, Add, Save
<1>3. ConfigOf(v, d)' = ConfigOf(v, d) /\ PassesOf(v, d)' = PassesOf(v, d)
  BY DocStays, PassesStay DEF PostPin, Exists
<1>4. CASE Names(j.pin, v, d)
  <2>1. RequestsOf(v, d)[c] = [step |-> "pin", part |-> "device"]
    BY <1>1, <1>4, PostJobOf DEF RequestsOf
  <2>2. PinsOf(v, d)' = PinsOf(v, d) \cup {"device"}
    BY <1>2, <1>4 DEF PinsOf, Names
  <2>3. Edits(v, d)!Becomes(c, Edits(v, d)!Idle)
    BY <1>2, IdleJob, RequestMoves DEF Edits!Idle, Idle
  <2>4. Edits(v, d)!Pin(c)
    BY <1>3, <2>1, <2>2, <2>3 DEF Edits!Pin
  <2> QED
    BY <2>4, RequestSteps DEF Edits!Continue
<1>5. CASE ~Names(j.pin, v, d)
  <2>1. RequestOf(v, d, Idle) = RequestOf(v, d, j)
    BY <1>5, IdleJob, OtherJob
  <2>2. PinsOf(v, d)' = PinsOf(v, d)
    BY <1>2, <1>5 DEF PinsOf, Names
  <2> QED
    BY <1>2, <1>3, <2>1, <2>2, RequestIdles, Stutters
<1> QED
  BY <1>4, <1>5

LEMMA DeleteImplements ==
    ASSUME OneSpelling, TypeOK, NEW v \in VM, NEW d \in Device, NEW c \in Client,
           DeleteUnpin(c) \/ DeleteState(c) \/ DeleteDetach(c)
    PROVE  EditsStep(v, d)
<1>1. CASE DeleteUnpin(c)
  <2>1. PICK p \in Pin :
          /\ mem' = mem \ {p}
          /\ job' = [job EXCEPT ![c] = [step |-> "delete state", pin |-> p,
                                        running |-> FALSE]]
    BY <1>1 DEF DeleteUnpin, Remove, Save
  <2> DEFINE k == [step |-> "delete state", pin |-> p, running |-> FALSE]
  <2>2. k \in DeleteJob /\ k.pin = p
    BY DeleteJobIs
  <2>3. ConfigOf(v, d)' = ConfigOf(v, d) /\ PassesOf(v, d)' = PassesOf(v, d)
    BY <1>1, DocStays, PassesStay DEF DeleteUnpin, Exists
  <2>4. RequestOf(v, d, job[c]) = Idle /\ RequestsOf(v, d)[c] = Idle
    BY <1>1, IdleJob DEF DeleteUnpin, RequestsOf
  <2>5. CASE Names(p, v, d)
    <3>1. RequestOf(v, d, k) = Edits(v, d)!EditStep("device", FALSE)
      BY <2>2, <2>5, DeleteJobOf DEF AttachOf, Edits!EditStep
    <3>2. Edits(v, d)!Becomes(c, Edits(v, d)!EditStep("device", FALSE))
      BY <2>1, <3>1, RequestMoves
    <3>3. \A q \in mem : Names(q, v, d) => q = p
      BY <2>5, OnePin DEF TypeOK
    <3>4. PinsOf(v, d)' = PinsOf(v, d) \ {"device"}
      BY <2>1, <3>3 DEF PinsOf, Names
    <3>5. Edits(v, d)!Delete(c, "device")
      BY <2>3, <2>4, <3>2, <3>4 DEF Edits!Delete, Edits!Idle, Idle
    <3> QED
      BY <3>5, RequestSteps DEF Edits!Begin, Edits!Part
  <2>6. CASE ~Names(p, v, d)
    <3>1. RequestOf(v, d, k) = RequestOf(v, d, job[c])
      BY <2>2, <2>4, <2>6, OtherJob
    <3>2. PinsOf(v, d)' = PinsOf(v, d)
      BY <2>1, <2>6 DEF PinsOf, Names
    <3> QED
      BY <2>1, <2>3, <3>1, <3>2, RequestIdles, Stutters
  <2> QED
    BY <2>5, <2>6
<1>2. CASE DeleteState(c)
  <2>1. job[c] \in DeleteJob /\ job[c].pin \in Pin
    BY <1>2, JobKind DEF DeleteState, DeleteJob
  <2>2. PICK running \in BOOLEAN :
          job' = [job EXCEPT ![c] = [step |-> "delete detach", pin |-> job[c].pin,
                                     running |-> running]]
    BY <1>2 DEF DeleteState
  <2> DEFINE k == [step |-> "delete detach", pin |-> job[c].pin, running |-> running]
  <2>3. k \in DeleteJob /\ k.pin = job[c].pin
    BY <2>1, DeleteJobIs
  <2>4. RequestOf(v, d, k) = RequestOf(v, d, job[c])
    <3> HIDE DEF k
    <3>1. CASE Names(job[c].pin, v, d)
      BY <2>1, <2>3, <3>1, DeleteJobOf
    <3>2. CASE ~Names(job[c].pin, v, d)
      BY <2>3, <3>2, OtherJob
    <3> QED
      BY <3>1, <3>2
  <2>5. RequestsOf(v, d)' = RequestsOf(v, d)
    BY <2>2, <2>4, RequestIdles
  <2> QED
    BY <1>2, <2>5, DocStays, PinsStay, PassesStay, Stutters DEF DeleteState, Exists
<1>3. CASE DeleteDetach(c)
  <2> DEFINE j == job[c]
             scope == Scope(j.running, TRUE)
  <2>1. j \in DeleteJob /\ j.pin \in Pin
    BY <1>3, JobKind DEF DeleteDetach, DeleteJob
  <2>2. PICK o \in Outcome : DetachDevice(j.pin.vm, Canon[j.pin.id], scope, o)
    BY <1>3 DEF DeleteDetach
  <2>3. UNCHANGED <<mem, rec>> /\ job' = [job EXCEPT ![c] = Idle]
    BY <1>3 DEF DeleteDetach
  <2>4. CASE Names(j.pin, v, d)
    <3>1. "config" \in scope
      BY DEF Scope
    <3>2. PICK fits \in BOOLEAN :
            Edits(v, d)!Carried(o, Edits(v, d)!CanAttach("device", FALSE) /\ fits,
                                Edits(v, d)!Edited(ConfigOf(v, d), "device", FALSE))
      BY <2>2, <2>4, <3>1, DetachIsCarried DEF Names
    <3>3. RequestOf(v, d, j) = AttachOf(FALSE)
      BY <2>1, <2>4, DeleteJobOf
    <3>4. RequestOf(v, d, Idle) = Edits(v, d)!After(AttachOf(FALSE), o)
      BY IdleJob DEF AttachOf, Edits!After, Edits!Idle, Idle
    <3> QED
      BY <2>3, <3>2, <3>3, <3>4, AttachStep
  <2>5. CASE ~Names(j.pin, v, d)
    <3>1. RequestOf(v, d, Idle) = RequestOf(v, d, j)
      BY <2>5, IdleJob, OtherJob
    <3>2. j.pin.vm \in VM /\ Canon[j.pin.id] \in Device
      BY <2>1, CanonIsDevice DEF Pin
    <3>3. ConfigOf(v, d)' = ConfigOf(v, d)
      BY <2>2, <2>5, <3>2, VirshElsewhere DEF Names
    <3> QED
      BY <2>3, <3>1, <3>3, RequestIdles, PinsStay, PassesStay, Stutters
  <2> QED
    BY <2>4, <2>5
<1> QED
  BY <1>1, <1>2, <1>3

LEMMA PassImplements ==
    ASSUME OneSpelling, EditInv, NEW v \in VM, NEW d \in Device, Pass
    PROVE  EditsStep(v, d)
<1> USE DEF EditInv
<1> DEFINE check == [step |-> "check", part |-> "device"]
           InList(todo) == \E q \in todo : Names(q, v, d)
<1>1. PassOf(v, d)' = PassOf(v, d) => PassesOf(v, d)' = PassesOf(v, d)
  BY DEF PassesOf
<1>2. ASSUME NEW todo, rec' = Rest(todo)
      PROVE  PassOf(v, d)' = IF InList(todo) THEN check ELSE Idle
  <2>1. CASE todo = {}
    BY <1>2, <2>1 DEF Rest, PassOf, Listed, WorksOn, Idle
  <2>2. CASE todo # {}
    <3>1. rec' # Idle /\ rec'.step = "next" /\ rec'.todo = todo
      BY <1>2, <2>2 DEF Rest, Idle
    <3> QED
      BY <3>1 DEF PassOf, Listed, WorksOn
  <2> QED
    BY <2>1, <2>2
<1>3. /\ PinsOf(v, d)' = PinsOf(v, d)
      /\ RequestsOf(v, d)' = RequestsOf(v, d)
  BY PinsStay, RequestsStay DEF Pass, PassBegin, PassState, PassHas, PassAttach
<1>4. UNCHANGED libvirt => ConfigOf(v, d)' = ConfigOf(v, d)
  BY DocStays DEF Exists
<1>5. CASE PassBegin
  <2>1. PassOf(v, d)' = IF InList(mem) THEN check ELSE Idle
    BY <1>2, <1>5 DEF PassBegin
  <2>2. PassOf(v, d) = Idle
    BY <1>5 DEF PassBegin, PassOf, Listed, WorksOn, Idle
  <2>3. CASE InList(mem)
    <3>1. Edits(v, d)!PassBegin("device")
      BY <1>3, <1>4, <1>5, <2>1, <2>2, <2>3, PassMoves
         DEF PassBegin, Edits!PassBegin, PinsOf, Edits!Idle, Idle
    <3> QED
      BY <3>1, PassSteps DEF Edits!Pass
  <2>4. CASE ~InList(mem)
    BY <1>1, <1>3, <1>4, <1>5, <2>1, <2>2, <2>4, Stutters DEF PassBegin
  <2> QED
    BY <2>3, <2>4
<1>6. ASSUME NEW p \in Pin, NEW ok \in BOOLEAN, PassState(p, ok)
      PROVE  EditsStep(v, d)
  <2>1. /\ rec # Idle /\ rec.step = "next" /\ p \in rec.todo
        /\ rec.todo \in SUBSET Pin
    BY <1>6, PassKind DEF PassState, Idle
  <2>2. PassOf(v, d) = IF InList(rec.todo) THEN check ELSE Idle
    BY <2>1 DEF PassOf, Listed, WorksOn
  <2>3. ConfigOf(v, d)' = ConfigOf(v, d)
    BY <1>4, <1>6 DEF PassState
  <2>4. CASE ok
    <3>1. /\ rec' # Idle /\ rec'.step = "has" /\ rec'.todo = rec.todo \ {p} /\ rec'.pin = p
      BY <1>6, <2>4 DEF PassState, Idle
    <3>2. PassOf(v, d)' = IF InList(rec.todo) THEN check ELSE Idle
      BY <2>1, <3>1 DEF PassOf, Listed, WorksOn
    <3> QED
      BY <1>1, <1>3, <2>2, <2>3, <3>2, Stutters
  <2>5. CASE ~ok
    <3>1. PassOf(v, d)' = IF InList(rec.todo \ {p}) THEN check ELSE Idle
      BY <1>2, <1>6, <2>5 DEF PassState
    <3>2. CASE ~Names(p, v, d)
      <4>1. InList(rec.todo \ {p}) <=> InList(rec.todo)
        BY <3>2
      <4> QED
        BY <1>1, <1>3, <2>2, <2>3, <3>1, <4>1, Stutters
    <3>3. CASE Names(p, v, d)
      <4>1. ~InList(rec.todo \ {p}) /\ InList(rec.todo)
        BY <2>1, <3>3, OnePin
      <4>2. PassesOf(v, d)["device"].step = "check"
        BY <2>2, <4>1, PassMoves
      <4>3. Edits(v, d)!Answers(FALSE)
        BY <1>6, <2>5, <3>3, DocIsThere DEF PassState, Names, Edits!Answers
      <4>4. Edits(v, d)!PassBecomes("device", Edits(v, d)!Idle)
        BY <3>1, <4>1, PassMoves DEF Edits!Idle, Idle
      <4>5. Edits(v, d)!PassCheck("device", FALSE)
        BY <1>3, <2>3, <4>2, <4>3, <4>4 DEF Edits!PassCheck
      <4> QED
        BY <4>5, PassSteps DEF Edits!Pass
    <3> QED
      BY <3>2, <3>3
  <2> QED
    BY <2>4, <2>5
<1>7. ASSUME NEW p \in Pin, NEW ok \in BOOLEAN, PassHas(p, ok)
      PROVE  EditsStep(v, d)
  <2>1. /\ rec # Idle /\ rec.step = "has" /\ rec.pin = p
        /\ rec.todo \in SUBSET Pin /\ p \notin rec.todo
    BY <1>7, PassKind DEF PassHas, ListedOnce, Idle
  <2>2. PassOf(v, d) = IF InList(rec.todo) \/ Names(p, v, d) THEN check ELSE Idle
    BY <2>1 DEF PassOf, Listed, WorksOn
  <2>3. ConfigOf(v, d)' = ConfigOf(v, d)
    BY <1>4, <1>7 DEF PassHas
  <2>4. PassOf(v, d)' = IF InList(rec.todo) THEN check
                        ELSE IF Names(p, v, d) /\ ok /\ d \notin config[v] THEN AttachOf(TRUE)
                        ELSE Idle
    <3>1. CASE ok /\ Canon[p.id] \notin config[p.vm]
      <4>1. /\ rec' # Idle /\ rec'.step = "attach" /\ rec'.todo = rec.todo /\ rec'.pin = p
        BY <1>7, <3>1 DEF PassHas, Idle
      <4>2. PassOf(v, d)' = IF InList(rec.todo) THEN check
                            ELSE IF Names(p, v, d) THEN AttachOf(TRUE) ELSE Idle
        BY <4>1 DEF PassOf, Listed, WorksOn
      <4> QED
        BY <3>1, <4>2 DEF Names
    <3>2. CASE ~(ok /\ Canon[p.id] \notin config[p.vm])
      <4>1. rec' = Rest(rec.todo)
        BY <1>7, <3>2 DEF PassHas
      <4> QED
        BY <1>2, <3>2, <4>1 DEF Names
    <3> QED
      BY <3>1, <3>2
  <2>5. CASE ~Names(p, v, d)
    BY <1>1, <1>3, <2>2, <2>3, <2>4, <2>5, Stutters
  <2>6. CASE Names(p, v, d)
    <3>1. ~InList(rec.todo)
      BY <2>1, <2>6, OnePin
    <3>2. PassesOf(v, d)["device"].step = "check"
      BY <2>2, <2>6, PassMoves
    <3>3. Edits(v, d)!Answers(ok)
      BY <1>7, <2>6, DocIsThere DEF PassHas, Names, Edits!Answers
    <3>4. ok => (Edits(v, d)!Missing("device") <=> d \notin config[v])
      BY <1>7, <2>6 DEF PassHas, Names, Edits!Missing, ConfigOf, DocOf
    <3>5. PassOf(v, d)' = IF ok /\ Edits(v, d)!Missing("device")
                            THEN Edits(v, d)!EditStep("device", TRUE)
                            ELSE Edits(v, d)!Idle
      BY <2>4, <2>6, <3>1, <3>4 DEF AttachOf, Edits!EditStep, Edits!Idle, Idle
    <3>6. Edits(v, d)!PassCheck("device", ok)
      BY <1>3, <2>3, <3>2, <3>3, <3>5, PassMoves DEF Edits!PassCheck
    <3> QED
      BY <3>6, PassSteps DEF Edits!Pass
  <2> QED
    BY <2>5, <2>6
<1>8. ASSUME NEW p \in Pin, NEW o \in Outcome, PassAttach(p, o)
      PROVE  EditsStep(v, d)
  <2>1. /\ rec # Idle /\ rec.step = "attach" /\ rec.pin = p
        /\ rec.todo \in SUBSET Pin /\ p \notin rec.todo
    BY <1>8, PassKind DEF PassAttach, ListedOnce, Idle
  <2>2. PassOf(v, d) = IF InList(rec.todo) THEN check
                       ELSE IF Names(p, v, d) THEN AttachOf(TRUE) ELSE Idle
    BY <2>1 DEF PassOf, Listed, WorksOn
  <2>3. PassOf(v, d)' = IF InList(rec.todo) THEN check ELSE Idle
    BY <1>2, <1>8 DEF PassAttach
  <2>4. AttachDevice(p.vm, Canon[p.id], {"config"}, o)
    BY <1>8 DEF PassAttach
  <2>5. CASE ~Names(p, v, d)
    <3>1. p.vm \in VM /\ Canon[p.id] \in Device
      BY CanonIsDevice DEF Pin
    <3>2. ConfigOf(v, d)' = ConfigOf(v, d)
      BY <2>4, <2>5, <3>1, VirshElsewhere DEF Names
    <3> QED
      BY <1>1, <1>3, <2>2, <2>3, <2>5, <3>2, Stutters
  <2>6. CASE Names(p, v, d)
    <3>1. ~InList(rec.todo)
      BY <2>1, <2>6, OnePin
    <3>2. PassesOf(v, d)["device"].step = "attach"
      BY <2>2, <2>6, <3>1, PassMoves DEF AttachOf
    <3>3. Edits(v, d)!Carried(o, Edits(v, d)!CanAttach("device", TRUE),
                              Edits(v, d)!Edited(ConfigOf(v, d), "device", TRUE))
      BY <2>4, <2>6, AttachInConfig DEF Names
    <3>4. Edits(v, d)!PassBecomes("device", Edits(v, d)!Idle)
      BY <2>3, <3>1, PassMoves DEF Edits!Idle, Idle
    <3>5. Edits(v, d)!PassAttach("device", o)
      BY <1>3, <3>2, <3>3, <3>4 DEF Edits!PassAttach
    <3> QED
      BY <3>5, PassSteps DEF Edits!Pass, Edits!Outcome, Outcome
  <2> QED
    BY <2>5, <2>6
<1> QED
  BY <1>5, <1>6, <1>7, <1>8 DEF Pass

LEMMA RestartImplements ==
    ASSUME EditInv, NEW v \in VM, NEW d \in Device, Restart
    PROVE  EditsStep(v, d)
<1>1. ConfigOf(v, d)' = ConfigOf(v, d)
  BY DocStays DEF Restart, Exists
<1>2. RequestsOf(v, d)' = [c \in Client |-> Edits(v, d)!Idle]
  <2>1. \A c \in Client : RequestOf(v, d, job'[c]) = Edits(v, d)!Idle
    BY IdleJob DEF Restart, Edits!Idle, Idle
  <2> QED
    BY <2>1 DEF RequestsOf
<1>3. PassesOf(v, d)' = [p \in {"device"} |-> Edits(v, d)!Idle]
  BY DEF Restart, PassesOf, PassOf, Listed, WorksOn, Idle, Edits!Idle
<1>4. PinsOf(v, d)' \in SUBSET {"device"}
  BY DEF PinsOf
<1>5. "save" \notin Events => PinsOf(v, d)' = PinsOf(v, d)
  <2>1. "save" \notin Events => mem' = mem
    BY DEF EditInv, SavedUnlessFailed, FailedSave, Restart, Reload
  <2> QED
    BY <2>1, PinsStay
<1>6. Edits(v, d)!Restart
  BY <1>1, <1>2, <1>3, <1>4, <1>5 DEF Restart, Reload, Edits!Restart, Edits!Part
<1> QED
  BY <1>6 DEF EditsStep, Edits!Next

LEMMA EnvironmentImplements ==
    ASSUME EditInv, NEW v \in VM, NEW d \in Device, NEW w \in VM, Environment(w)
    PROVE  EditsStep(v, d)
<1> USE DEF EditInv
<1>1. /\ PinsOf(v, d)' = PinsOf(v, d)
      /\ RequestsOf(v, d)' = RequestsOf(v, d)
      /\ PassesOf(v, d)' = PassesOf(v, d)
  BY PinsStay, RequestsStay, PassesStay DEF Environment
<1>2. CASE Start(w) \/ Shutdown(w, {}) \/ Pause(w) \/ Resume(w)
  <2>1. Exists(v)' <=> Exists(v)
    BY <1>2 DEF Start, Shutdown, Pause, Resume, Exists, Active, TypeOK
  <2>2. config' = config
    BY <1>2 DEF Start, Shutdown, Pause, Resume
  <2> QED
    BY <1>1, <2>1, <2>2, DocStays, Stutters
<1>3. CASE w # v /\ (Undefine(w, {}) \/ Create(w) \/ Resave(w, {}))
  <2>1. power'[v] = power[v] /\ config'[v] = config[v]
    BY <1>3 DEF Undefine, Create, Resave, TypeOK
  <2> QED
    BY <1>1, <2>1, DocStays, Stutters DEF Exists
<1>4. CASE Undefine(v, {})
  <2>1. power'[v] = "undefined" /\ Exists(v) /\ "undefine" \in Events
    BY <1>4 DEF Undefine, Exists, TypeOK
  <2>2. ConfigOf(v, d)' = Edits(v, d)!Gone
    BY <2>1 DEF ConfigOf, Exists, Edits!Gone
  <2>3. Edits(v, d)!Undefine
    BY <1>1, <2>1, <2>2, DocIsThere DEF Edits!Undefine
  <2> QED
    BY <2>3 DEF EditsStep, Edits!Next, Edits!Outside
<1>5. CASE Create(v)
  <2>1. power'[v] = "shut off" /\ config'[v] = {} /\ ~Exists(v)
    BY <1>5 DEF Create, TypeOK, GoneIsBlank
  <2>2. ConfigOf(v, d)' = Edits(v, d)!Template({}, {"net"})
    BY <2>1, NewDoc DEF ConfigOf, Exists
  <2>3. Edits(v, d)!Create
    BY <1>1, <2>1, <2>2, DocIsThere DEF Edits!Create
  <2> QED
    BY <2>3 DEF EditsStep, Edits!Next, Edits!Outside
<1>6. CASE Resave(v, {})
  <2>1. Exists(v) /\ power' = power /\ config'[v] = {} /\ "resave" \in Events
    BY <1>6 DEF Resave, TypeOK
  <2>2. ConfigOf(v, d).nics = {"net"} /\ ConfigOf(v, d)' = DocOf({}, d)
    BY <2>1 DEF ConfigOf, DocOf, Exists
  <2>3. Edits(v, d)!Resave
    BY <1>1, <2>1, <2>2, NewDoc, DocIsThere DEF Edits!Resave
  <2> QED
    BY <2>3 DEF EditsStep, Edits!Next, Edits!Outside
<1> QED
  BY <1>2, <1>3, <1>4, <1>5, <1>6 DEF Environment

LEMMA EditsStart ==
    ASSUME Init, NEW v \in VM, NEW d \in Device
    PROVE  Edits(v, d)!Init
<1>1. ConfigOf(v, d) = Edits(v, d)!Template({}, {"net"})
  BY NewDoc DEF Init, ConfigOf, Exists
<1>2. PinsOf(v, d) = {}
  BY DEF Init, StoreInit, PinsOf
<1>3. RequestsOf(v, d) = [c \in Client |-> Edits(v, d)!Idle]
  <2>1. \A c \in Client : RequestOf(v, d, job[c]) = Edits(v, d)!Idle
    BY IdleJob DEF Init, Edits!Idle, Idle
  <2> QED
    BY <2>1 DEF RequestsOf
<1>4. PassesOf(v, d) = [p \in {"device"} |-> Edits(v, d)!Idle]
  BY DEF Init, PassesOf, PassOf, Listed, WorksOn, Idle, Edits!Idle
<1> QED
  BY <1>1, <1>2, <1>3, <1>4 DEF Edits!Init, Edits!Part

(* What DomainEdits says of a part that is attached and detached, and      *)
(* EditorsKeepToTheirPart proves of it, is true of each passed-through     *)
(* device of each VM, as long as requests spell it in one way: a request   *)
(* and a pass do to its pin and to the persistent document what DomainEdits*)
(* says, or nothing (AttachDeviceXML, DetachDeviceXML; usb and pci stores).*)
THEOREM EditsOneDocument ==
    ASSUME OneSpelling
    PROVE  Spec => EditsImplemented
<1> DEFINE Step == \A v \in VM, d \in Device : [Edits(v, d)!Next]_(Edits(v, d)!vars)
<1>1. Init => \A v \in VM, d \in Device : Edits(v, d)!Init
  BY EditsStart
<1>2. EditInv /\ [Next]_vars => [Step]_vars
  <2> SUFFICES ASSUME EditInv, [Next]_vars, ~UNCHANGED vars, NEW v \in VM, NEW d \in Device
               PROVE  EditsStep(v, d)
    BY DEF EditsStep
  <2>1. ASSUME NEW c \in Client, Request(c)
        PROVE  EditsStep(v, d)
    BY <2>1, PostImplements, PinImplements, DeleteImplements DEF EditInv, Request
  <2> QED
    BY <2>1, PassImplements, RestartImplements, EnvironmentImplements DEF Next
<1> QED
  BY <1>1, <1>2, EditInvariant, PTL DEF Spec, EditsImplemented
=============================================================================
