--------------------------- MODULE TpmPins_proofs ---------------------------
(***************************************************************************)
(* What is proved about TpmPins for every set of VMs, requests and events. *)
(***************************************************************************)
EXTENDS TpmPins, TLAPS

USE DEF store, libvirt

-----------------------------------------------------------------------------
(* Facts about requests, passes and documents.                             *)

LEMMA SetTPMType ==
    ASSUME NEW tpm \in Tpm, NEW on \in BOOLEAN
    PROVE  /\ SetTPM(tpm, on) \in Tpm
           /\ tpm = "operator's" /\ on => SetTPM(tpm, on) = tpm
           /\ ~on => SetTPM(tpm, on) = "none"
BY DEF SetTPM, Tpm

\* What a request that is not idle carries.
LEMMA JobHas ==
    ASSUME TypeOK, NEW c \in Client, job[c].step # "idle"
    PROVE  /\ job[c].vm \in VM
           /\ job[c].on \in BOOLEAN
           /\ job[c].step = "define" => job[c].dump \in Tpm
<1>1. job[c] \in {Idle} \cup Job
  BY DEF TypeOK
<1>2. CASE job[c] = Idle
  BY <1>2 DEF Idle
<1>3. CASE job[c] \in Job
  BY <1>3 DEF Job
<1> QED
  BY <1>1, <1>2, <1>3

LEMMA JobMoves ==
    ASSUME TypeOK, NEW c \in Client, NEW j \in {Idle} \cup Job,
           job' = [job EXCEPT ![c] = j]
    PROVE  job' \in [Client -> {Idle} \cup Job]
BY DEF TypeOK

\* What a pass that is not idle carries.
LEMMA PassHas ==
    ASSUME TypeOK
    PROVE  /\ rec.step \in {"next", "check", "dump", "define"} => rec.todo \in SUBSET VM
           /\ rec.step \in {"check", "dump", "define"} => rec.vm \in VM
           /\ rec.step = "define" => rec.dump \in Tpm
           /\ rec.step = "check"
                => rec \in [step : {"check", "dump"}, todo : SUBSET VM, vm : VM]
<1>1. CASE rec = Idle
  BY <1>1 DEF Idle
<1>2. CASE rec \in PassStep
  BY <1>2 DEF PassStep
<1> QED
  BY <1>1, <1>2 DEF TypeOK

LEMMA RestType ==
    ASSUME NEW todo \in SUBSET VM
    PROVE  Rest(todo) \in {Idle} \cup PassStep
BY DEF Rest, PassStep

LEMMA RedefineTypes ==
    ASSUME TypeOK, NEW v \in VM, NEW doc \in Tpm, NEW o, Redefine(v, doc, o)
    PROVE  /\ power' \in [VM -> Power]
           /\ config' \in [VM -> Tpm]
           /\ live' \in [VM -> Tpm]
BY DEF TypeOK, Redefine, Power

LEMMA SaveTypes ==
    ASSUME TypeOK, NEW pins \in SUBSET VM, NEW ok \in BOOLEAN, Save(pins, ok)
    PROVE  mem' \in SUBSET VM /\ disk' \in SUBSET VM /\ unsaved' \in BOOLEAN
BY DEF TypeOK, Save

-----------------------------------------------------------------------------
(* Type correctness.                                                       *)

LEMMA RequestTypes ==
    ASSUME TypeOK, NEW c \in Client, Begin(c) \/ Continue(c)
    PROVE  TypeOK'
<1>1. ASSUME NEW v \in VM, PostBegin(c, v)
      PROVE  TypeOK'
  <2>1. [step |-> "dump", vm |-> v, on |-> TRUE] \in Job
    BY DEF Job
  <2>2. job' \in [Client -> {Idle} \cup Job]
    BY <1>1, <2>1, JobMoves DEF PostBegin
  <2> QED
    BY <1>1, <2>2 DEF PostBegin, TypeOK
<1>2. ASSUME NEW v \in VM, NEW ok \in BOOLEAN, DeleteBegin(c, v, ok)
      PROVE  TypeOK'
  <2>1. [step |-> "dump", vm |-> v, on |-> FALSE] \in Job
    BY DEF Job
  <2>2. job' \in [Client -> {Idle} \cup Job]
    BY <1>2, <2>1, JobMoves DEF DeleteBegin
  <2>3. mem \ {v} \in SUBSET VM
    BY DEF TypeOK
  <2>4. mem' \in SUBSET VM /\ disk' \in SUBSET VM /\ unsaved' \in BOOLEAN
    BY <1>2, <2>3, SaveTypes DEF DeleteBegin
  <2> QED
    BY <1>2, <2>2, <2>4 DEF DeleteBegin, TypeOK
<1>3. ASSUME NEW ok \in BOOLEAN, RequestDump(c, ok)
      PROVE  TypeOK'
  <2>1. job[c].vm \in VM /\ job[c].on \in BOOLEAN
    BY <1>3, JobHas DEF RequestDump
  <2>2. config[job[c].vm] \in Tpm
    BY <2>1 DEF TypeOK
  <2>3. [step |-> "define", vm |-> job[c].vm, on |-> job[c].on,
         dump |-> config[job[c].vm]] \in Job
    BY <2>1, <2>2 DEF Job
  <2>4. job' \in [Client -> {Idle} \cup Job]
    BY <1>3, <2>3, JobMoves DEF RequestDump
  <2> QED
    BY <1>3, <2>4 DEF RequestDump, TypeOK
<1>4. ASSUME NEW o \in Outcome, RequestDefine(c, o)
      PROVE  TypeOK'
  <2>1. job[c].vm \in VM /\ job[c].on \in BOOLEAN /\ job[c].dump \in Tpm
    BY <1>4, JobHas DEF RequestDefine
  <2>2. SetTPM(job[c].dump, job[c].on) \in Tpm
    BY <2>1, SetTPMType
  <2>3. /\ power' \in [VM -> Power]
        /\ config' \in [VM -> Tpm]
        /\ live' \in [VM -> Tpm]
    BY <1>4, <2>1, <2>2, RedefineTypes DEF RequestDefine
  <2>4. [step |-> "pin", vm |-> job[c].vm, on |-> TRUE] \in Job
    BY <2>1 DEF Job
  <2>5. job' \in [Client -> {Idle} \cup Job]
    BY <1>4, <2>4, JobMoves DEF RequestDefine
  <2> QED
    BY <1>4, <2>3, <2>5 DEF RequestDefine, TypeOK
<1>5. ASSUME NEW ok \in BOOLEAN, WritePin(c, ok)
      PROVE  TypeOK'
  <2>1. mem \cup {job[c].vm} \in SUBSET VM
    BY <1>5, JobHas DEF WritePin, TypeOK
  <2>2. mem' \in SUBSET VM /\ disk' \in SUBSET VM /\ unsaved' \in BOOLEAN
    BY <1>5, <2>1, SaveTypes DEF WritePin
  <2>3. job' \in [Client -> {Idle} \cup Job]
    BY <1>5, JobMoves DEF WritePin
  <2> QED
    BY <1>5, <2>2, <2>3 DEF WritePin, TypeOK
<1> QED
  BY <1>1, <1>2, <1>3, <1>4, <1>5 DEF Begin, Continue

LEMMA PassTypes ==
    ASSUME TypeOK, Pass
    PROVE  TypeOK'
<1>1. CASE PassBegin
  <2>1. rec' \in {Idle} \cup PassStep
    BY <1>1, RestType DEF PassBegin, TypeOK
  <2> QED
    BY <1>1, <2>1 DEF PassBegin, TypeOK
<1>2. ASSUME NEW v \in VM, NEW ok \in BOOLEAN, PassState(v, ok)
      PROVE  TypeOK'
  <2>1. rec.todo \ {v} \in SUBSET VM
    BY <1>2, PassHas DEF PassState
  <2>2. [step |-> "check", todo |-> rec.todo \ {v}, vm |-> v] \in PassStep
    BY <2>1 DEF PassStep
  <2>3. rec' \in {Idle} \cup PassStep
    BY <1>2, <2>1, <2>2, RestType DEF PassState
  <2> QED
    BY <1>2, <2>3 DEF PassState, TypeOK
<1>3. ASSUME NEW v \in VM, NEW ok \in BOOLEAN, PassCheck(v, ok)
      PROVE  TypeOK'
  <2>1. /\ rec.todo \in SUBSET VM
        /\ rec \in [step : {"check", "dump"}, todo : SUBSET VM, vm : VM]
    BY <1>3, PassHas DEF PassCheck
  <2>2. [rec EXCEPT !.step = "dump"] \in PassStep
    BY <2>1 DEF PassStep
  <2>3. rec' \in {Idle} \cup PassStep
    BY <1>3, <2>1, <2>2, RestType DEF PassCheck
  <2> QED
    BY <1>3, <2>3 DEF PassCheck, TypeOK
<1>4. ASSUME NEW v \in VM, NEW ok \in BOOLEAN, PassDump(v, ok)
      PROVE  TypeOK'
  <2>1. rec.todo \in SUBSET VM /\ config[v] \in Tpm
    BY <1>4, PassHas DEF PassDump, TypeOK
  <2>2. [step |-> "define", todo |-> rec.todo, vm |-> v, dump |-> config[v]]
          \in PassStep
    BY <2>1 DEF PassStep
  <2>3. rec' \in {Idle} \cup PassStep
    BY <1>4, <2>1, <2>2, RestType DEF PassDump
  <2> QED
    BY <1>4, <2>3 DEF PassDump, TypeOK
<1>5. ASSUME NEW v \in VM, NEW o \in Outcome, PassDefine(v, o)
      PROVE  TypeOK'
  <2>1. rec.todo \in SUBSET VM /\ rec.dump \in Tpm
    BY <1>5, PassHas DEF PassDefine
  <2>2. SetTPM(rec.dump, TRUE) \in Tpm
    BY <2>1, SetTPMType
  <2>3. /\ power' \in [VM -> Power]
        /\ config' \in [VM -> Tpm]
        /\ live' \in [VM -> Tpm]
    BY <1>5, <2>2, RedefineTypes DEF PassDefine
  <2>4. rec' \in {Idle} \cup PassStep
    BY <1>5, <2>1, RestType DEF PassDefine
  <2> QED
    BY <1>5, <2>3, <2>4 DEF PassDefine, TypeOK
<1> QED
  BY <1>1, <1>2, <1>3, <1>4, <1>5 DEF Pass

LEMMA WorldTypes ==
    ASSUME TypeOK, Restart \/ \E v \in VM : Environment(v)
    PROVE  TypeOK'
<1>1. CASE Restart
  BY <1>1 DEF Restart, Reload, TypeOK
<1>2. ASSUME NEW v \in VM, Environment(v)
      PROVE  TypeOK'
  <2>1. power' \in [VM -> Power] /\ config' \in [VM -> Tpm] /\ live' \in [VM -> Tpm]
    <3>1. CASE Undefine(v, "none") \/ Create(v)
      BY <3>1 DEF TypeOK, Undefine, Create, Power, Tpm
    <3>2. ASSUME NEW tpm \in {"none", "operator's"}, Resave(v, tpm)
          PROVE  power' \in [VM -> Power] /\ config' \in [VM -> Tpm]
                 /\ live' \in [VM -> Tpm]
      BY <3>2 DEF TypeOK, Resave, Tpm
    <3> QED
      BY <1>2, <3>1, <3>2 DEF Environment
  <2>2. UNCHANGED <<mem, disk, unsaved, job, rec>>
    BY <1>2 DEF Environment
  <2> QED
    BY <2>1, <2>2 DEF TypeOK
<1> QED
  BY <1>1, <1>2

(* Every variable keeps its type: in particular, no sequence of requests,  *)
(* repairs and re-saves gives a domain two TPM devices.                    *)
THEOREM TypeCorrect == Spec => []TypeOK
<1>1. Init => TypeOK
  BY DEF Init, StoreInit, TypeOK, Power, Tpm
<1>2. TypeOK /\ [Next]_vars => TypeOK'
  <2> SUFFICES ASSUME TypeOK, [Next]_vars PROVE TypeOK'
    OBVIOUS
  <2>1. CASE UNCHANGED vars
    BY <2>1 DEF vars, TypeOK
  <2>2. CASE Next
    BY <2>2, RequestTypes, PassTypes, WorldTypes DEF Next
  <2> QED
    BY <2>1, <2>2
<1> QED
  BY <1>1, <1>2, PTL DEF Spec

-----------------------------------------------------------------------------
(* The operator's device.  The state to look at is the one before the      *)
(* define: if what is about to be defined is the current document, enabled *)
(* or repaired, it still has the operator's device.                        *)

\* A step takes the operator's device of v for the daemon's.
TakesOver(v) == config[v] = "operator's" /\ config'[v] = "ours"

LEMMA RedefineReplaces ==
    ASSUME TypeOK, NEW v \in VM, NEW w \in VM, NEW doc \in Tpm, NEW o,
           Redefine(w, doc, o), TakesOver(v)
    PROVE  v = w /\ doc = "ours"
BY DEF TypeOK, Redefine, TakesOver

LEMMA RequestTakesOver ==
    ASSUME TypeOK, NEW v \in VM, NEW c \in Client, Begin(c) \/ Continue(c),
           TakesOver(v)
    PROVE  StaleDump(v)
<1>1. PICK o \in Outcome : RequestDefine(c, o)
  BY DEF Begin, Continue, PostBegin, DeleteBegin, RequestDump, WritePin, TakesOver
<1>2. job[c].vm \in VM /\ job[c].on \in BOOLEAN /\ job[c].dump \in Tpm
  BY <1>1, JobHas DEF RequestDefine
<1>3. /\ job[c].vm = v
      /\ SetTPM(job[c].dump, job[c].on) = "ours"
  BY <1>1, <1>2, SetTPMType, RedefineReplaces DEF RequestDefine
<1>4. job[c].dump # "operator's"
  BY <1>2, <1>3, SetTPMType
<1> QED
  BY <1>1, <1>3, <1>4 DEF StaleDump, TakesOver, RequestDefine

LEMMA PassTakesOver ==
    ASSUME TypeOK, NEW v \in VM, Pass, TakesOver(v)
    PROVE  StaleDump(v)
<1>1. PICK w \in VM, o \in Outcome : PassDefine(w, o)
  BY DEF Pass, PassBegin, PassState, PassCheck, PassDump, TakesOver
<1>2. rec.dump \in Tpm
  BY <1>1, PassHas DEF PassDefine
<1>3. w = v /\ SetTPM(rec.dump, TRUE) = "ours"
  BY <1>1, <1>2, SetTPMType, RedefineReplaces DEF PassDefine
<1>4. rec.dump # "operator's"
  BY <1>2, <1>3, SetTPMType
<1> QED
  BY <1>1, <1>3, <1>4 DEF StaleDump, TakesOver, PassDefine

(* "Enabling a domain that already has one leaves the existing device      *)
(* alone" (virsh/tpm.go:70): a TPM of the operator's is replaced only by a *)
(* define whose dumpxml was read before the TPM was configured.            *)
THEOREM OperatorKeepsTpm == Spec => OperatorsTpmKept
<1> DEFINE Kept == \A v \in VM : config[v] = "operator's" /\ config'[v] = "ours"
                                   => StaleDump(v)
<1>1. TypeOK /\ [Next]_vars => Kept
  <2> SUFFICES ASSUME TypeOK, [Next]_vars, NEW v \in VM, TakesOver(v)
               PROVE  StaleDump(v)
    BY DEF TakesOver
  <2>1. CASE UNCHANGED vars
    BY <2>1 DEF vars, TakesOver
  <2>2. CASE \E c \in Client : Begin(c) \/ Continue(c)
    BY <2>2, RequestTakesOver
  <2>3. CASE Pass
    BY <2>3, PassTakesOver
  <2>4. CASE Restart
    BY <2>4 DEF Restart, TakesOver
  <2>5. ASSUME NEW w \in VM, Environment(w)
        PROVE  StaleDump(v)
    BY <2>5 DEF Environment, Undefine, Create, Resave, TakesOver, TypeOK
  <2> QED
    BY <2>1, <2>2, <2>3, <2>4, <2>5 DEF Next
<1>2. TypeOK /\ [Next]_vars => [Kept]_vars
  BY <1>1
<1> QED
  BY <1>2, TypeCorrect, PTL DEF Spec, OperatorsTpmKept
-----------------------------------------------------------------------------
(* The invariant that the refinement of DomainEdits needs besides the      *)
(* types.  A domain that is gone left no device behind for the next one of *)
(* its name; the VM that a pass works on is not on the list of those to    *)
(* come; and what a restart loses, a save that failed had lost.            *)

GoneIsBlank == \A v \in VM : ~Exists(v) => config[v] = "none"
ListedOnce  == rec.step \in {"check", "dump", "define"} => rec.vm \notin rec.todo
FailedSave  == unsaved => "save" \in Events

EditInv == TypeOK /\ GoneIsBlank /\ ListedOnce /\ SavedUnlessFailed /\ FailedSave

LEMMA RedefineBlank ==
    ASSUME TypeOK, GoneIsBlank, NEW v \in VM, NEW doc, NEW o, Redefine(v, doc, o)
    PROVE  GoneIsBlank'
BY DEF TypeOK, GoneIsBlank, Redefine, Exists

LEMMA BlankStep ==
    ASSUME EditInv, [Next]_vars
    PROVE  GoneIsBlank'
<1> USE DEF EditInv
<1>1. CASE UNCHANGED libvirt
  BY <1>1 DEF GoneIsBlank, Exists
<1>2. ASSUME NEW c \in Client, NEW o \in Outcome, RequestDefine(c, o)
      PROVE  GoneIsBlank'
  BY <1>2, JobHas, RedefineBlank DEF RequestDefine
<1>3. ASSUME NEW v \in VM, NEW o \in Outcome, PassDefine(v, o)
      PROVE  GoneIsBlank'
  BY <1>3, RedefineBlank DEF PassDefine
<1>4. ASSUME NEW v \in VM, Environment(v)
      PROVE  GoneIsBlank'
  BY <1>4 DEF TypeOK, GoneIsBlank, Environment, Undefine, Create, Resave, Exists
<1>5. ASSUME NEW c \in Client, Begin(c) \/ Continue(c), ~UNCHANGED libvirt
      PROVE  GoneIsBlank'
  BY <1>2, <1>5 DEF Begin, Continue, PostBegin, DeleteBegin, RequestDump, WritePin
<1>6. ASSUME Pass, ~UNCHANGED libvirt
      PROVE  GoneIsBlank'
  BY <1>3, <1>6 DEF Pass, PassBegin, PassState, PassCheck, PassDump
<1> QED
  BY <1>1, <1>4, <1>5, <1>6 DEF Next, Restart, vars

LEMMA ListedStep ==
    ASSUME EditInv, [Next]_vars
    PROVE  ListedOnce'
<1> USE DEF EditInv
<1>1. CASE rec' = rec
  BY <1>1 DEF ListedOnce
<1>2. \A todo : Rest(todo).step \notin {"check", "dump", "define"}
  BY DEF Rest, Idle
<1>3. ASSUME Pass
      PROVE  ListedOnce'
  <2>1. CASE PassBegin
    BY <1>2, <2>1 DEF PassBegin, ListedOnce
  <2>2. ASSUME NEW v \in VM, NEW ok \in BOOLEAN, PassState(v, ok)
        PROVE  ListedOnce'
    BY <1>2, <2>2 DEF PassState, ListedOnce
  <2>3. ASSUME NEW v \in VM, NEW ok \in BOOLEAN, PassCheck(v, ok)
        PROVE  ListedOnce'
    BY <1>2, <2>3, PassHas DEF PassCheck, ListedOnce
  <2>4. ASSUME NEW v \in VM, NEW ok \in BOOLEAN, PassDump(v, ok)
        PROVE  ListedOnce'
    BY <1>2, <2>4 DEF PassDump, ListedOnce
  <2>5. ASSUME NEW v \in VM, NEW o \in Outcome, PassDefine(v, o)
        PROVE  ListedOnce'
    BY <1>2, <2>5 DEF PassDefine, ListedOnce
  <2> QED
    BY <1>3, <2>1, <2>2, <2>3, <2>4, <2>5 DEF Pass
<1>4. rec' = Idle => ListedOnce'
  BY DEF ListedOnce, Idle
<1> QED
  BY <1>1, <1>3, <1>4 DEF Next, Begin, Continue, PostBegin, DeleteBegin, RequestDump,
     RequestDefine, WritePin, Restart, Environment, vars
LEMMA SavesStep ==
    ASSUME EditInv, [Next]_vars
    PROVE  SavedUnlessFailed' /\ FailedSave'
<1>1. ASSUME NEW pins, NEW ok, Save(pins, ok)
      PROVE  SavedUnlessFailed' /\ FailedSave'
  BY <1>1 DEF Save, SavedUnlessFailed, FailedSave
<1>2. CASE UNCHANGED store
  BY <1>2 DEF EditInv, SavedUnlessFailed, FailedSave
<1>3. CASE Reload
  BY <1>3 DEF Reload, SavedUnlessFailed, FailedSave
<1> QED
  BY <1>1, <1>2, <1>3 DEF Next, Begin, Continue, Pass, PostBegin, DeleteBegin, RequestDump,
     RequestDefine, WritePin, PassBegin, PassState, PassCheck, PassDump, PassDefine,
     Restart, Environment, vars

LEMMA EditInvariant == Spec => []EditInv
<1> DEFINE Others == GoneIsBlank /\ ListedOnce /\ SavedUnlessFailed /\ FailedSave
<1>1. Init => GoneIsBlank
  BY DEF Init, GoneIsBlank
<1>5. Init => ListedOnce
  <2>1. rec = Idle => ListedOnce
    BY DEF ListedOnce, Idle
  <2> QED
    BY <2>1 DEF Init
<1>2. Init => SavedUnlessFailed /\ FailedSave
  BY DEF Init, StoreInit, SavedUnlessFailed, FailedSave
<1>3. TypeOK /\ Others <=> EditInv
  BY DEF EditInv
<1>4. EditInv /\ [Next]_vars => Others'
  BY BlankStep, ListedStep, SavesStep
<1> QED
  BY <1>1, <1>2, <1>3, <1>4, <1>5, TypeCorrect, PTL DEF Spec
(* Memory and file of the pins differ only after a save that failed, so    *)
(* that a restart loses and revives a pin at no other time                 *)
(* (tpm/store.go: the map, and saveLocked under the same mutex).           *)
THEOREM MemoryIsSaved == Spec => []SavedUnlessFailed
<1>1. EditInv => SavedUnlessFailed
  BY DEF EditInv
<1> QED
  BY <1>1, EditInvariant, PTL

(* The store of the pins, whatever requests and passes do around it: each  *)
(* step saves a set of VM names, reads the file again, or leaves it alone, *)
(* which is what StoreFile implements (tpm/store.go: Pin, Unpin, NewStore).*)
Store == INSTANCE AtomicStore WITH Contents <- SUBSET VM

THEOREM StoreIsAtomic == Spec => Store!Spec
<1>1. Init => Store!Init
  BY DEF Init, StoreInit, Store!Init, Store!StoreInit
<1>2. TypeOK /\ [Next]_vars => [Store!Next]_(Store!store)
  <2> SUFFICES ASSUME TypeOK, [Next]_vars, ~UNCHANGED store
               PROVE  Store!Next
    BY DEF Store!store
  <2>1. ASSUME NEW pins \in SUBSET VM, NEW ok \in BOOLEAN, Save(pins, ok)
        PROVE  Store!Next
    BY <2>1 DEF Save, Store!Save, Store!Next
  <2>2. ASSUME NEW c \in Client, NEW v \in VM, NEW ok \in BOOLEAN, DeleteBegin(c, v, ok)
        PROVE  Store!Next
    BY <2>1, <2>2 DEF DeleteBegin, TypeOK
  <2>3. ASSUME NEW c \in Client, NEW ok \in BOOLEAN, WritePin(c, ok)
        PROVE  Store!Next
    BY <2>1, <2>3, JobHas DEF WritePin, TypeOK
  <2>4. CASE Reload
    BY <2>4 DEF Reload, Store!Reload, Store!Next
  <2> QED
    BY <2>2, <2>3, <2>4 DEF Next, Begin, Continue, Pass, PostBegin, RequestDump,
       RequestDefine, PassBegin, PassState, PassCheck, PassDump, PassDefine, Restart,
       Environment, vars
<1> QED
  BY <1>1, <1>2, TypeCorrect, PTL DEF Spec, Store!Spec

-----------------------------------------------------------------------------
(* What the parts of a step are to Edits(v), one VM's view of it.          *)

LEMMA EditedDoc ==
    ASSUME NEW v \in VM, NEW tpm \in Tpm, NEW on \in BOOLEAN
    PROVE  Edits(v)!Edited(DocOf(tpm), "tpm", on) = DocOf(SetTPM(tpm, on))
BY DEF Edits!Edited, DocOf, SetTPM, Tpm

LEMMA NewDoc ==
    ASSUME NEW v \in VM
    PROVE  DocOf("none") = Edits(v)!Template({}, {"net"})
<1>1. [p \in {"tpm"} |-> "none" # "none"] = [p \in {"tpm"} |-> p \in {}]
  OBVIOUS
<1> QED
  BY <1>1 DEF DocOf, Edits!Template, Edits!Part

LEMMA DocIsThere ==
    ASSUME NEW v \in VM
    PROVE  Edits(v)!Exists <=> Exists(v)
BY DEF Edits!Exists, Edits!Gone, ConfigOf, DocOf

LEMMA DocStays ==
    ASSUME NEW v \in VM, power'[v] = power[v], config'[v] = config[v]
    PROVE  ConfigOf(v)' = ConfigOf(v)
BY DEF ConfigOf, Exists

LEMMA PinsStay ==
    ASSUME NEW v \in VM, v \in mem' <=> v \in mem
    PROVE  PinsOf(v)' = PinsOf(v)
BY DEF PinsOf

LEMMA PassesStay ==
    ASSUME NEW v \in VM, rec' = rec
    PROVE  PassesOf(v)' = PassesOf(v)
BY DEF PassesOf, PassOf, Listed, WorksOn

LEMMA RequestsStay ==
    ASSUME NEW v \in VM, job' = job
    PROVE  RequestsOf(v)' = RequestsOf(v)
BY DEF RequestsOf

LEMMA RequestMoves ==
    ASSUME TypeOK, NEW v \in VM, NEW c \in Client, NEW j,
           job' = [job EXCEPT ![c] = j]
    PROVE  Edits(v)!Becomes(c, RequestOf(v, j))
<1>1. \A d \in Client : RequestOf(v, job'[d]) = IF d = c THEN RequestOf(v, j)
                                              ELSE RequestOf(v, job[d])
  BY DEF TypeOK
<1>2. RequestsOf(v)' = [RequestsOf(v) EXCEPT ![c] = RequestOf(v, j)]
  BY <1>1 DEF RequestsOf
<1> QED
  BY <1>2 DEF Edits!Becomes

LEMMA RequestIdles ==
    ASSUME TypeOK, NEW v \in VM, NEW c \in Client, NEW j,
           job' = [job EXCEPT ![c] = j], RequestOf(v, j) = RequestOf(v, job[c])
    PROVE  RequestsOf(v)' = RequestsOf(v)
<1>1. \A d \in Client : RequestOf(v, job'[d]) = RequestOf(v, job[d])
  BY DEF TypeOK
<1> QED
  BY <1>1 DEF RequestsOf

LEMMA PassMoves ==
    ASSUME NEW v \in VM
    PROVE  Edits(v)!PassBecomes("tpm", PassOf(v)')
BY DEF Edits!PassBecomes, PassesOf

LEMMA RedefineIsCarried ==
    ASSUME TypeOK, NEW v \in VM, NEW dump \in Tpm, NEW on \in BOOLEAN, NEW o,
           Redefine(v, SetTPM(dump, on), o)
    PROVE  Edits(v)!Carried(o, TRUE, Edits(v)!Edited(DocOf(dump), "tpm", on))
<1>1. Edits(v)!Edited(DocOf(dump), "tpm", on) = DocOf(SetTPM(dump, on))
  BY EditedDoc
<1>2. ASSUME Succeeds(o, TRUE) \/ TimesOut(o, TRUE),
             config' = [config EXCEPT ![v] = SetTPM(dump, on)],
             power' = [power EXCEPT ![v] = IF Exists(v) THEN @ ELSE "shut off"]
      PROVE  ConfigOf(v)' = DocOf(SetTPM(dump, on))
  BY <1>2 DEF ConfigOf, Exists, TypeOK
<1>3. ASSUME UNCHANGED libvirt
      PROVE  ConfigOf(v)' = ConfigOf(v)
  BY <1>3, DocStays
<1> QED
  BY <1>1, <1>2, <1>3 DEF Redefine, Edits!Carried, Edits!Succeeds, Edits!TimesOut, Edits!Refuses, Succeeds, TimesOut, Refuses

LEMMA RedefineElsewhere ==
    ASSUME TypeOK, NEW v \in VM, NEW w, w # v, NEW doc, NEW o, Redefine(w, doc, o)
    PROVE  ConfigOf(v)' = ConfigOf(v)
<1>1. power'[v] = power[v] /\ config'[v] = config[v]
  BY DEF Redefine, TypeOK
<1> QED
  BY <1>1, DocStays

-----------------------------------------------------------------------------
(* Each step is one of Edits(v), or none if it is about another VM.        *)

EditsStep(v) == [Edits(v)!Next]_(Edits(v)!vars)

LEMMA Stutters ==
    ASSUME NEW v \in VM, ConfigOf(v)' = ConfigOf(v), PinsOf(v)' = PinsOf(v),
           RequestsOf(v)' = RequestsOf(v), PassesOf(v)' = PassesOf(v)
    PROVE  EditsStep(v)
BY DEF EditsStep, Edits!vars

LEMMA RequestSteps ==
    ASSUME NEW v \in VM, NEW c \in Client, Edits(v)!Begin(c) \/ Edits(v)!Continue(c)
    PROVE  EditsStep(v)
BY DEF EditsStep, Edits!Next

LEMMA PassSteps ==
    ASSUME NEW v \in VM, Edits(v)!Pass("tpm")
    PROVE  EditsStep(v)
BY DEF EditsStep, Edits!Next, Edits!Part

LEMMA MappedJob ==
    ASSUME NEW v \in VM, NEW c \in Client, job[c].step # "idle", job[c].vm = v
    PROVE  LET a == RequestsOf(v)[c]
           IN  /\ job[c].step = "dump" => a = DumpOf(job[c].on)
               /\ job[c].step = "define" => a = DefineOf(job[c].on, job[c].dump)
               /\ job[c].step = "pin" => a = [step |-> "pin", part |-> "tpm"]
BY DEF RequestsOf, RequestOf

LEMMA IdleJob ==
    ASSUME NEW v \in VM, NEW c \in Client, job[c] = Idle
    PROVE  RequestsOf(v)[c] = Idle /\ RequestOf(v, job[c]) = Idle
BY DEF RequestsOf, RequestOf, Idle

\* A request about another VM.
LEMMA OtherJob ==
    ASSUME NEW v \in VM, NEW j, j = Idle \/ j.vm # v
    PROVE  RequestOf(v, j) = Idle
BY DEF RequestOf, Idle

LEMMA BeginImplements ==
    ASSUME TypeOK, NEW v \in VM, NEW c \in Client, Begin(c)
    PROVE  EditsStep(v)
<1>1. ASSUME NEW w \in VM, PostBegin(c, w)
      PROVE  EditsStep(v)
  <2> DEFINE j == [step |-> "dump", vm |-> w, on |-> TRUE]
  <2>1. job' = [job EXCEPT ![c] = j]
    BY <1>1 DEF PostBegin
  <2>2. /\ ConfigOf(v)' = ConfigOf(v)
        /\ PinsOf(v)' = PinsOf(v)
        /\ PassesOf(v)' = PassesOf(v)
    BY <1>1, DocStays, PinsStay, PassesStay DEF PostBegin
  <2>3. CASE w = v
    <3>1. RequestOf(v, j) = Edits(v)!EditStep("tpm", TRUE)
      BY <2>3 DEF RequestOf, DumpOf, Edits!EditStep
    <3>2. RequestsOf(v)[c] = Edits(v)!Idle
      BY <1>1, IdleJob DEF PostBegin, Edits!Idle, Idle
    <3>3. Edits(v)!Becomes(c, Edits(v)!EditStep("tpm", TRUE))
      BY <2>1, <3>1, RequestMoves
    <3>4. Edits(v)!Post(c, "tpm")
      BY <2>2, <3>2, <3>3 DEF Edits!Post
    <3> QED
      BY <3>4, RequestSteps DEF Edits!Begin, Edits!Part
  <2>4. CASE w # v
    <3>1. RequestOf(v, j) = RequestOf(v, job[c])
      BY <1>1, <2>4, IdleJob, OtherJob DEF PostBegin
    <3> QED
      BY <2>1, <2>2, <3>1, RequestIdles, Stutters
  <2> QED
    BY <2>3, <2>4
<1>2. ASSUME NEW w \in VM, NEW ok \in BOOLEAN, DeleteBegin(c, w, ok)
      PROVE  EditsStep(v)
  <2> DEFINE j == [step |-> "dump", vm |-> w, on |-> FALSE]
  <2>1. job' = [job EXCEPT ![c] = j]
    BY <1>2 DEF DeleteBegin
  <2>2. /\ ConfigOf(v)' = ConfigOf(v)
        /\ PassesOf(v)' = PassesOf(v)
        /\ mem' = mem \ {w}
    BY <1>2, DocStays, PassesStay DEF DeleteBegin, Save
  <2>3. CASE w = v
    <3>1. RequestOf(v, j) = Edits(v)!EditStep("tpm", FALSE)
      BY <2>3 DEF RequestOf, DumpOf, Edits!EditStep
    <3>2. PinsOf(v)' = PinsOf(v) \ {"tpm"}
      BY <2>2, <2>3 DEF PinsOf
    <3>3. RequestsOf(v)[c] = Edits(v)!Idle
      BY <1>2, IdleJob DEF DeleteBegin, Edits!Idle, Idle
    <3>4. Edits(v)!Becomes(c, Edits(v)!EditStep("tpm", FALSE))
      BY <2>1, <3>1, RequestMoves
    <3>5. Edits(v)!Delete(c, "tpm")
      BY <2>2, <3>2, <3>3, <3>4 DEF Edits!Delete
    <3> QED
      BY <3>5, RequestSteps DEF Edits!Begin, Edits!Part
  <2>4. CASE w # v
    <3>1. RequestOf(v, j) = RequestOf(v, job[c])
      BY <1>2, <2>4, IdleJob, OtherJob DEF DeleteBegin
    <3>2. PinsOf(v)' = PinsOf(v)
      BY <2>2, <2>4, PinsStay
    <3> QED
      BY <2>1, <2>2, <3>1, <3>2, RequestIdles, Stutters
  <2> QED
    BY <2>3, <2>4
<1> QED
  BY <1>1, <1>2 DEF Begin

LEMMA ContinueImplements ==
    ASSUME TypeOK, NEW v \in VM, NEW c \in Client, Continue(c)
    PROVE  EditsStep(v)
<1> DEFINE j == job[c]
<1>1. ASSUME NEW ok \in BOOLEAN, RequestDump(c, ok)
      PROVE  EditsStep(v)
  <2> DEFINE k == IF ok THEN [step |-> "define", vm |-> j.vm, on |-> j.on, dump |-> config[j.vm]]
                        ELSE Idle
  <2>1. job' = [job EXCEPT ![c] = k] /\ j.step = "dump"
    BY <1>1 DEF RequestDump
  <2>2. /\ ConfigOf(v)' = ConfigOf(v)
        /\ PinsOf(v)' = PinsOf(v)
        /\ PassesOf(v)' = PassesOf(v)
    BY <1>1, DocStays, PinsStay, PassesStay DEF RequestDump
  <2>3. CASE j.vm = v
    <3>1. RequestsOf(v)[c] = DumpOf(j.on)
      BY <2>1, <2>3, MappedJob
    <3>2. Edits(v)!Answers(ok)
      BY <1>1, <2>3, DocIsThere DEF RequestDump, DumpAnswers, Edits!Answers
    <3>3. RequestOf(v, k) = IF ok THEN Edits(v)!DefineStep("tpm", j.on) ELSE Edits(v)!Idle
      <4>1. CASE ok
        <5>1. ConfigOf(v) = DocOf(config[v])
          BY <1>1, <2>3, <4>1 DEF RequestDump, DumpAnswers, ConfigOf
        <5>2. RequestOf(v, k) = DefineOf(j.on, config[v])
          BY <2>3, <4>1 DEF RequestOf
        <5> QED
          BY <4>1, <5>1, <5>2 DEF DefineOf, Edits!DefineStep, Edits!Read
      <4>2. CASE ~ok
        BY <4>2 DEF RequestOf, Idle, Edits!Idle
      <4> QED
        BY <4>1, <4>2
    <3>4. Edits(v)!Becomes(c, RequestOf(v, k))
      BY <2>1, RequestMoves
    <3>5. Edits(v)!Dump(c, ok)
      BY <2>2, <3>1, <3>2, <3>3, <3>4 DEF Edits!Dump, DumpOf
    <3> QED
      BY <3>5, RequestSteps DEF Edits!Continue
  <2>4. CASE j.vm # v
    <3>1. RequestOf(v, k) = RequestOf(v, j)
      BY <2>4, OtherJob
    <3> QED
      BY <2>1, <2>2, <3>1, RequestIdles, Stutters
  <2> QED
    BY <2>3, <2>4
<1>2. ASSUME NEW o \in Outcome, RequestDefine(c, o)
      PROVE  EditsStep(v)
  <2> DEFINE k == IF o = "ok" /\ j.on THEN [step |-> "pin", vm |-> j.vm, on |-> TRUE] ELSE Idle
  <2>1. job' = [job EXCEPT ![c] = k] /\ j.step = "define"
    BY <1>2 DEF RequestDefine
  <2>2. PinsOf(v)' = PinsOf(v) /\ PassesOf(v)' = PassesOf(v)
    BY <1>2, PinsStay, PassesStay DEF RequestDefine
  <2>3. j.vm \in VM /\ j.on \in BOOLEAN /\ j.dump \in Tpm
    BY <2>1, JobHas
  <2>4. CASE j.vm = v
    <3>1. RequestsOf(v)[c] = DefineOf(j.on, j.dump)
      BY <2>1, <2>4, MappedJob
    <3>2. Edits(v)!Carried(o, TRUE, Edits(v)!Edited(DocOf(j.dump), "tpm", j.on))
      BY <1>2, <2>3, <2>4, RedefineIsCarried DEF RequestDefine
    <3>3. RequestOf(v, k) = Edits(v)!After(DefineOf(j.on, j.dump), o)
      BY <2>4 DEF RequestOf, Edits!After, DefineOf, Idle, Edits!Idle
    <3>4. Edits(v)!Becomes(c, RequestOf(v, k))
      BY <2>1, RequestMoves
    <3>5. LET a == RequestsOf(v)[c]
          IN  /\ a.step = "define" /\ a.part = "tpm" /\ a.on = j.on
              /\ a.dump = DocOf(j.dump)
      BY <3>1 DEF DefineOf
    <3>6. Edits(v)!Becomes(c, Edits(v)!After(RequestsOf(v)[c], o))
      BY <3>1, <3>3, <3>4
    <3>7. Edits(v)!DefineDoc(c, o)
      BY <2>2, <3>2, <3>5, <3>6 DEF Edits!DefineDoc
    <3> QED
      BY <3>7, RequestSteps DEF Edits!Continue, Edits!Outcome, Outcome
  <2>5. CASE j.vm # v
    <3>1. RequestOf(v, k) = RequestOf(v, j)
      BY <2>5, OtherJob
    <3>2. ConfigOf(v)' = ConfigOf(v)
      BY <1>2, <2>5, RedefineElsewhere DEF RequestDefine
    <3> QED
      BY <2>1, <2>2, <3>1, <3>2, RequestIdles, Stutters
  <2> QED
    BY <2>4, <2>5
<1>3. ASSUME NEW ok \in BOOLEAN, WritePin(c, ok)
      PROVE  EditsStep(v)
  <2>1. job' = [job EXCEPT ![c] = Idle] /\ j.step = "pin" /\ mem' = mem \cup {j.vm}
    BY <1>3 DEF WritePin, Save
  <2>2. ConfigOf(v)' = ConfigOf(v) /\ PassesOf(v)' = PassesOf(v)
    BY <1>3, DocStays, PassesStay DEF WritePin
  <2>3. CASE j.vm = v
    <3>1. RequestsOf(v)[c] = [step |-> "pin", part |-> "tpm"]
      BY <2>1, <2>3, MappedJob
    <3>2. PinsOf(v)' = PinsOf(v) \cup {"tpm"}
      BY <2>1, <2>3 DEF PinsOf
    <3>3. RequestOf(v, Idle) = Edits(v)!Idle
      BY DEF RequestOf, Idle, Edits!Idle
    <3>4. Edits(v)!Becomes(c, Edits(v)!Idle)
      BY <2>1, <3>3, RequestMoves
    <3>5. Edits(v)!Pin(c)
      BY <2>2, <3>1, <3>2, <3>4 DEF Edits!Pin
    <3> QED
      BY <3>5, RequestSteps DEF Edits!Continue
  <2>4. CASE j.vm # v
    <3>1. RequestOf(v, Idle) = RequestOf(v, j)
      BY <2>4, OtherJob
    <3>2. PinsOf(v)' = PinsOf(v)
      BY <2>1, <2>4, PinsStay
    <3> QED
      BY <2>1, <2>2, <3>1, <3>2, RequestIdles, Stutters
  <2> QED
    BY <2>3, <2>4
<1> QED
  BY <1>1, <1>2, <1>3 DEF Continue

LEMMA PassImplements ==
    ASSUME EditInv, NEW v \in VM, Pass
    PROVE  EditsStep(v)
<1> USE DEF EditInv
<1> DEFINE check == [step |-> "check", part |-> "tpm"]
<1>1. \A d : /\ PassesOf(v)["tpm"] = PassOf(v)
             /\ Edits(v)!PassBecomes("tpm", PassOf(v)')
  BY PassMoves DEF PassesOf
<1>2. PassOf(v)' = PassOf(v) => PassesOf(v)' = PassesOf(v)
  BY DEF PassesOf
<1>3. rec = Idle => PassOf(v) = Idle
  BY DEF PassOf, Listed, WorksOn, Idle
<1>4. ASSUME NEW todo, rec' = Rest(todo)
      PROVE  PassOf(v)' = IF v \in todo THEN check ELSE Idle
  BY <1>4 DEF Rest, PassOf, Listed, WorksOn, Idle
<1>5. UNCHANGED store => PinsOf(v)' = PinsOf(v)
  BY PinsStay
<1>6. UNCHANGED libvirt => ConfigOf(v)' = ConfigOf(v)
  BY DocStays
<1>7. UNCHANGED job => RequestsOf(v)' = RequestsOf(v)
  BY RequestsStay
<1>8. CASE PassBegin
  <2>1. PassOf(v)' = IF v \in mem THEN check ELSE Idle
    BY <1>8, <1>4 DEF PassBegin
  <2>2. CASE v \in mem
    <3>1. Edits(v)!PassBegin("tpm")
      BY <1>1, <1>3, <1>5, <1>6, <1>7, <1>8, <2>1, <2>2 DEF PassBegin, Edits!PassBegin, PinsOf, Edits!Idle, Idle
    <3> QED
      BY <3>1, PassSteps DEF Edits!Pass
  <2>3. CASE v \notin mem
    BY <1>2, <1>3, <1>5, <1>6, <1>7, <1>8, <2>1, <2>3, Stutters DEF PassBegin
  <2> QED
    BY <2>2, <2>3
<1>9. ASSUME NEW w \in VM, NEW ok \in BOOLEAN, PassState(w, ok)
      PROVE  EditsStep(v)
  <2>1. PassOf(v) = IF v \in rec.todo THEN check ELSE Idle
    BY <1>9 DEF PassState, PassOf, Listed, WorksOn, Idle
  <2>2. /\ ConfigOf(v)' = ConfigOf(v)
        /\ PinsOf(v)' = PinsOf(v)
        /\ RequestsOf(v)' = RequestsOf(v)
    BY <1>5, <1>6, <1>7, <1>9 DEF PassState
  <2>3. CASE ok
    <3>1. rec' = [step |-> "check", todo |-> rec.todo \ {w}, vm |-> w] /\ w \in rec.todo
      BY <1>9, <2>3 DEF PassState
    <3>2. PassOf(v)' = IF v \in rec.todo THEN check ELSE Idle
      BY <3>1 DEF PassOf, Listed, WorksOn, Idle
    <3> QED
      BY <1>2, <2>1, <2>2, <3>2, Stutters
  <2>4. CASE ~ok /\ w # v
    <3>1. PassOf(v)' = IF v \in rec.todo \ {w} THEN check ELSE Idle
      BY <1>4, <1>9, <2>4 DEF PassState
    <3> QED
      BY <1>2, <2>1, <2>2, <2>4, <3>1, Stutters
  <2>5. CASE ~ok /\ w = v
    <3>1. PassOf(v)' = Edits(v)!Idle
      BY <1>4, <1>9, <2>5 DEF PassState, Edits!Idle, Idle
    <3>2. PassesOf(v)["tpm"].step = "check"
      BY <1>1, <1>9, <2>1, <2>5 DEF PassState
    <3>3. Edits(v)!Answers(FALSE)
      BY <1>9, <2>5, DocIsThere DEF PassState, DumpAnswers, Edits!Answers
    <3>4. Edits(v)!PassCheck("tpm", FALSE)
      BY <1>1, <2>2, <3>1, <3>2, <3>3 DEF Edits!PassCheck
    <3> QED
      BY <3>4, PassSteps DEF Edits!Pass
  <2> QED
    BY <2>3, <2>4, <2>5
<1>10. ASSUME NEW w \in VM, NEW ok \in BOOLEAN, PassCheck(w, ok)
       PROVE  EditsStep(v)
  <2>1. rec.vm = w /\ w \notin rec.todo /\ rec.step = "check"
    BY <1>10 DEF PassCheck, ListedOnce
  <2>2. /\ ConfigOf(v)' = ConfigOf(v)
        /\ PinsOf(v)' = PinsOf(v)
        /\ RequestsOf(v)' = RequestsOf(v)
    BY <1>5, <1>6, <1>7, <1>10 DEF PassCheck
  <2>3. PassOf(v) = IF v \in rec.todo \/ v = w THEN check ELSE Idle
    BY <2>1 DEF PassOf, Listed, WorksOn, Idle
  <2>4. PassOf(v)' = IF v \in rec.todo THEN check
                     ELSE IF v = w /\ ok /\ config[w] = "none" THEN DumpOf(TRUE)
                     ELSE Idle
    <3>1. CASE ok /\ config[w] = "none"
      <4>1. /\ rec' # Idle /\ rec'.step = "dump"
            /\ rec'.todo = rec.todo /\ rec'.vm = w
        BY <1>10, <2>1, <3>1, PassHas DEF PassCheck, Present, Idle
      <4> QED
        BY <3>1, <4>1 DEF PassOf, Listed, WorksOn
    <3>2. CASE ~(ok /\ config[w] = "none")
      <4>1. rec' = Rest(rec.todo)
        BY <1>10, <3>2 DEF PassCheck, Present
      <4> QED
        BY <1>4, <3>2, <4>1
    <3> QED
      BY <3>1, <3>2
  <2>5. CASE v # w
    BY <1>2, <2>2, <2>3, <2>4, <2>5, Stutters
  <2>6. CASE v = w
    <3>1. PassesOf(v)["tpm"].step = "check"
      BY <1>1, <2>3, <2>6
    <3>2. Edits(v)!Answers(ok)
      BY <1>10, <2>6, DocIsThere DEF PassCheck, DumpAnswers, Edits!Answers
    <3>3. ok => (Edits(v)!Missing("tpm") <=> config[v] = "none")
      BY <1>10, <2>6 DEF PassCheck, DumpAnswers, Edits!Missing, ConfigOf, DocOf
    <3>4. PassOf(v)' = IF ok /\ Edits(v)!Missing("tpm")
                         THEN Edits(v)!EditStep("tpm", TRUE) ELSE Edits(v)!Idle
      BY <2>1, <2>4, <2>6, <3>3 DEF DumpOf, Edits!EditStep, Edits!Idle, Idle
    <3>5. Edits(v)!PassCheck("tpm", ok)
      BY <1>1, <2>2, <3>1, <3>2, <3>4 DEF Edits!PassCheck
    <3> QED
      BY <3>5, PassSteps DEF Edits!Pass
  <2> QED
    BY <2>5, <2>6
<1>11. ASSUME NEW w \in VM, NEW ok \in BOOLEAN, PassDump(w, ok)
       PROVE  EditsStep(v)
  <2>1. rec # Idle /\ rec.vm = w /\ w \notin rec.todo /\ rec.step = "dump"
    BY <1>11 DEF PassDump, ListedOnce, Idle
  <2>2. /\ ConfigOf(v)' = ConfigOf(v)
        /\ PinsOf(v)' = PinsOf(v)
        /\ RequestsOf(v)' = RequestsOf(v)
    BY <1>5, <1>6, <1>7, <1>11 DEF PassDump
  <2>3. PassOf(v) = IF v \in rec.todo THEN check ELSE IF v = w THEN DumpOf(TRUE) ELSE Idle
    BY <2>1 DEF PassOf, Listed, WorksOn
  <2>4. PassOf(v)' = IF v \in rec.todo THEN check
                     ELSE IF v = w /\ ok THEN DefineOf(TRUE, config[w])
                     ELSE Idle
    <3>1. CASE ok
      <4>1. rec' = [step |-> "define", todo |-> rec.todo, vm |-> w, dump |-> config[w]]
        BY <1>11, <3>1 DEF PassDump
      <4> QED
        BY <3>1, <4>1 DEF PassOf, Listed, WorksOn, Idle
    <3>2. CASE ~ok
      BY <1>4, <1>11, <3>2 DEF PassDump
    <3> QED
      BY <3>1, <3>2
  <2>5. CASE v # w
    BY <1>2, <2>2, <2>3, <2>4, <2>5, Stutters
  <2>6. CASE v = w
    <3>1. PassesOf(v)["tpm"].step = "dump"
      BY <1>1, <2>1, <2>3, <2>6 DEF DumpOf
    <3>2. Edits(v)!Answers(ok)
      BY <1>11, <2>6, DocIsThere DEF PassDump, DumpAnswers, Edits!Answers
    <3>3. ok => ConfigOf(v) = DocOf(config[v])
      BY <1>11, <2>6 DEF PassDump, DumpAnswers, ConfigOf
    <3>4. PassOf(v)' = IF ok THEN Edits(v)!DefineStep("tpm", TRUE) ELSE Edits(v)!Idle
      BY <2>1, <2>4, <2>6, <3>3 DEF DefineOf, Edits!DefineStep, Edits!Read, Edits!Idle, Idle
    <3>5. Edits(v)!PassDump("tpm", ok)
      BY <1>1, <2>2, <3>1, <3>2, <3>4 DEF Edits!PassDump
    <3> QED
      BY <3>5, PassSteps DEF Edits!Pass
  <2> QED
    BY <2>5, <2>6
<1>12. ASSUME NEW w \in VM, NEW o \in Outcome, PassDefine(w, o)
       PROVE  EditsStep(v)
  <2>1. /\ rec # Idle /\ rec.vm = w /\ w \notin rec.todo
        /\ rec.step = "define" /\ rec.dump \in Tpm
    BY <1>12, PassHas DEF PassDefine, ListedOnce, Idle
  <2>2. PinsOf(v)' = PinsOf(v) /\ RequestsOf(v)' = RequestsOf(v)
    BY <1>5, <1>7, <1>12 DEF PassDefine
  <2>3. PassOf(v) = IF v \in rec.todo THEN check
                    ELSE IF v = w THEN DefineOf(TRUE, rec.dump) ELSE Idle
    BY <2>1 DEF PassOf, Listed, WorksOn
  <2>4. PassOf(v)' = IF v \in rec.todo THEN check ELSE Idle
    BY <1>4, <1>12 DEF PassDefine
  <2>5. CASE v # w
    <3>1. ConfigOf(v)' = ConfigOf(v)
      BY <1>12, <2>5, RedefineElsewhere DEF PassDefine
    <3> QED
      BY <1>2, <2>2, <2>3, <2>4, <2>5, <3>1, Stutters
  <2>6. CASE v = w
    <3>1. LET a == PassesOf(v)["tpm"] IN a.step = "define" /\ a.dump = DocOf(rec.dump)
      BY <1>1, <2>1, <2>3, <2>6 DEF DefineOf
    <3>2. Edits(v)!Carried(o, TRUE, Edits(v)!Edited(DocOf(rec.dump), "tpm", TRUE))
      BY <1>12, <2>1, <2>6, RedefineIsCarried DEF PassDefine
    <3>3. PassOf(v)' = Edits(v)!Idle
      BY <2>1, <2>4, <2>6 DEF Edits!Idle, Idle
    <3>4. Edits(v)!PassDefine("tpm", o)
      BY <1>1, <2>2, <3>1, <3>2, <3>3 DEF Edits!PassDefine
    <3> QED
      BY <3>4, PassSteps DEF Edits!Pass, Edits!Outcome, Outcome
  <2> QED
    BY <2>5, <2>6
<1> QED
  BY <1>8, <1>9, <1>10, <1>11, <1>12 DEF Pass

LEMMA RestartImplements ==
    ASSUME EditInv, NEW v \in VM, Restart
    PROVE  EditsStep(v)
<1>1. ConfigOf(v)' = ConfigOf(v)
  BY DocStays DEF Restart
<1>2. RequestsOf(v)' = [c \in Client |-> Edits(v)!Idle]
  BY DEF Restart, RequestsOf, RequestOf, Idle, Edits!Idle
<1>3. PassesOf(v)' = [p \in {"tpm"} |-> Edits(v)!Idle]
  BY DEF Restart, PassesOf, PassOf, Listed, WorksOn, Idle, Edits!Idle
<1>4. PinsOf(v)' \in SUBSET {"tpm"}
  BY DEF PinsOf
<1>5. "save" \notin Events => PinsOf(v)' = PinsOf(v)
  BY DEF EditInv, SavedUnlessFailed, FailedSave, Restart, Reload, PinsOf
<1>6. Edits(v)!Restart
  BY <1>1, <1>2, <1>3, <1>4, <1>5 DEF Restart, Reload, Edits!Restart, Edits!Part
<1> QED
  BY <1>6 DEF EditsStep, Edits!Next

LEMMA EnvironmentImplements ==
    ASSUME EditInv, NEW v \in VM, NEW w \in VM, Environment(w)
    PROVE  EditsStep(v)
<1> USE DEF EditInv
<1>1. /\ PinsOf(v)' = PinsOf(v)
      /\ RequestsOf(v)' = RequestsOf(v)
      /\ PassesOf(v)' = PassesOf(v)
  BY PinsStay, RequestsStay, PassesStay DEF Environment
<1>2. CASE w # v
  <2>1. power'[v] = power[v] /\ config'[v] = config[v]
    BY <1>2 DEF Environment, Undefine, Create, Resave, TypeOK
  <2> QED
    BY <1>1, <2>1, DocStays, Stutters
<1>3. CASE Undefine(v, "none")
  <2>1. power'[v] = "undefined" /\ Exists(v) /\ "undefine" \in Events
    BY <1>3 DEF Undefine, Exists, TypeOK
  <2>2. ConfigOf(v)' = Edits(v)!Gone
    BY <2>1 DEF ConfigOf, Exists, Edits!Gone
  <2>3. Edits(v)!Undefine
    BY <1>1, <2>1, <2>2, DocIsThere DEF Edits!Undefine
  <2> QED
    BY <2>3 DEF EditsStep, Edits!Next, Edits!Outside
<1>4. CASE Create(v)
  <2>1. power'[v] = "shut off" /\ config'[v] = "none" /\ ~Exists(v)
    BY <1>4 DEF Create, TypeOK, GoneIsBlank
  <2>2. ConfigOf(v)' = Edits(v)!Template({}, {"net"})
    BY <2>1, NewDoc DEF ConfigOf, Exists
  <2>3. Edits(v)!Create
    BY <1>1, <2>1, <2>2, DocIsThere DEF Edits!Create
  <2> QED
    BY <2>3 DEF EditsStep, Edits!Next, Edits!Outside
<1>5. ASSUME NEW tpm \in {"none", "operator's"}, Resave(v, tpm)
      PROVE  EditsStep(v)
  <2> DEFINE own == {p \in {"tpm"} : tpm # "none"}
  <2>1. Exists(v) /\ power' = power /\ config'[v] = tpm /\ "resave" \in Events
    BY <1>5 DEF Resave, TypeOK
  <2>2. ConfigOf(v) = DocOf(config[v]) /\ ConfigOf(v)' = DocOf(tpm)
    BY <2>1 DEF ConfigOf, Exists
  <2>3. DocOf(tpm) = Edits(v)!Template(own, ConfigOf(v).nics)
    BY <2>2 DEF DocOf, Edits!Template, Edits!Part
  <2>4. Edits(v)!Resave
    BY <1>1, <2>1, <2>2, <2>3, DocIsThere DEF Edits!Resave
  <2> QED
    BY <2>4 DEF EditsStep, Edits!Next, Edits!Outside
<1> QED
  BY <1>2, <1>3, <1>4, <1>5 DEF Environment

LEMMA EditsStart ==
    ASSUME Init, NEW v \in VM
    PROVE  Edits(v)!Init
<1>1. ConfigOf(v) = Edits(v)!Template({}, {"net"})
  BY NewDoc DEF Init, ConfigOf, Exists
<1>2. PinsOf(v) = {}
  BY DEF Init, StoreInit, PinsOf
<1>3. RequestsOf(v) = [c \in Client |-> Edits(v)!Idle]
  BY DEF Init, RequestsOf, RequestOf, Idle, Edits!Idle
<1>4. PassesOf(v) = [p \in {"tpm"} |-> Edits(v)!Idle]
  BY DEF Init, PassesOf, PassOf, Listed, WorksOn, Idle, Edits!Idle
<1> QED
  BY <1>1, <1>2, <1>3, <1>4 DEF Edits!Init, Edits!Part

(* What DomainEdits says of a part that is dumped and defined, and         *)
(* EditorsKeepToTheirPart proves of it, is true of the TPM of each VM: the *)
(* handlers and the reconciler do to the document and the pin of one VM    *)
(* what the requests and the pass of that part do there, and to the others *)
(* nothing (virsh/tpm.go, tpm/store.go).                                   *)
THEOREM EditsOneDocument == Spec => EditsImplemented
<1> DEFINE Step == \A v \in VM : [Edits(v)!Next]_(Edits(v)!vars)
<1>1. Init => \A v \in VM : Edits(v)!Init
  BY EditsStart
<1>2. EditInv /\ [Next]_vars => [Step]_vars
  <2> SUFFICES ASSUME EditInv, [Next]_vars, ~UNCHANGED vars, NEW v \in VM
               PROVE  EditsStep(v)
    BY DEF EditsStep
  <2>1. ASSUME NEW c \in Client, Begin(c) \/ Continue(c)
        PROVE  EditsStep(v)
    BY <2>1, BeginImplements, ContinueImplements DEF EditInv
  <2> QED
    BY <2>1, PassImplements, RestartImplements, EnvironmentImplements DEF Next
<1> QED
  BY <1>1, <1>2, EditInvariant, PTL DEF Spec, EditsImplemented
=============================================================================
