--------------------------- MODULE VncPins_proofs ---------------------------
(***************************************************************************)
(* What is proved about VncPins for every set of VMs, requests, passwords, *)
(* ports and events.                                                       *)
(***************************************************************************)
EXTENDS VncPins, TLAPS

USE DEF store, libvirt

-----------------------------------------------------------------------------
(* Facts about documents, entries and jobs.                                *)

LEMMA NoEntryIsEntry == NoEntry \in Entry
BY DEF NoEntry, Entry

LEMMA BlankDocuments == NoConsole \in Document /\ Template \in Document
BY DEF NoConsole, Template, Document, AllIPv6

\* Editing a document with an entry gives a document.
LEMMA EditedIsDocument ==
    ASSUME NEW doc \in Document, NEW e \in Entry, NEW edit
    PROVE  Edited(doc, edit, e) \in Document
<1>1. e.pw \in Password \cup {""} /\ e.listen \in {"", Local, AllIPv4}
      /\ e.port \in Port \cup {0}
  BY DEF Entry
<1>2. SetPassword(doc, e.pw) \in Document
  BY <1>1 DEF SetPassword, Document
<1>3. SetListen(doc, e) \in Document
  BY <1>1 DEF SetListen, Document
<1> QED
  BY <1>2, <1>3 DEF Edited

\* Another password makes another entry.
LEMMA WithPassword ==
    ASSUME NEW e \in Entry, NEW pw \in Password \cup {""}
    PROVE  /\ [e EXCEPT !.pw = pw] \in Entry
           /\ [e EXCEPT !.pw = pw].pw = pw
           /\ [e EXCEPT !.pw = pw].listen = e.listen
BY DEF Entry

LEMMA EntryHasPassword ==
    ASSUME NEW e \in Entry
    PROVE  e.pw \in Password \cup {""}
BY DEF Entry

LEMMA TaskHas ==
    ASSUME NEW t \in Task
    PROVE  t.vm \in VM /\ t.entry \in Entry
BY DEF Task

\* What a request that is not idle carries.
LEMMA JobHas ==
    ASSUME TypeOK, NEW c \in Client, job[c].step # "idle"
    PROVE  /\ job[c].task \in Task
           /\ job[c].step = "define" => job[c].doc \in Document
<1>1. job[c] \in {Idle} \cup Job
  BY DEF TypeOK
<1>2. CASE job[c] = Idle
  BY <1>2 DEF Idle
<1>3. CASE job[c] \in Job
  BY <1>3 DEF Job
<1> QED
  BY <1>1, <1>2, <1>3

LEMMA JobIs ==
    ASSUME NEW step \in {"dump", "read pin", "pin"}, NEW t \in Task
    PROVE  [step |-> step, task |-> t] \in Job
BY DEF Job

LEMMA DefineJobIs ==
    ASSUME NEW t \in Task, NEW doc \in Document
    PROVE  [step |-> "define", task |-> t, doc |-> doc] \in Job
BY DEF Job

LEMMA JobMoves ==
    ASSUME TypeOK, NEW c \in Client, NEW j \in {Idle} \cup Job,
           job' = [job EXCEPT ![c] = j]
    PROVE  job' \in [Client -> {Idle} \cup Job]
BY DEF TypeOK

LEMMA RedefineTypes ==
    ASSUME TypeOK, NEW v \in VM, NEW doc \in Document, NEW o, Redefine(v, doc, o)
    PROVE  /\ power' \in [VM -> Power]
           /\ config' \in [VM -> Document]
           /\ live' \in [VM -> Document]
BY DEF TypeOK, Redefine, Power

LEMMA SaveTypes ==
    ASSUME TypeOK, NEW v \in VM, NEW e \in Entry, NEW ok \in BOOLEAN,
           Save([mem EXCEPT ![v] = e], ok)
    PROVE  /\ mem' \in [VM -> Entry]
           /\ disk' \in [VM -> Entry]
           /\ unsaved' \in BOOLEAN
BY DEF TypeOK, Save

-----------------------------------------------------------------------------
(* Type correctness: the requests.                                         *)

\* The task with which a POST begins.
PostTask(v, e) == [route |-> IF e.pw = "" THEN "listen" ELSE "set",
                   edit |-> IF e.pw = "" THEN "listen" ELSE "pw",
                   vm |-> v, entry |-> e]

LEMMA PostTaskIs ==
    ASSUME NEW v \in VM, NEW e \in Entry
    PROVE  PostTask(v, e) \in Task
BY DEF PostTask, Task

\* The entry with which a POST begins.
LEMMA PostEntry ==
    ASSUME TypeOK, NEW v \in VM, NEW in \in Entry
    PROVE  /\ [in EXCEPT !.pw = IF @ = "" THEN mem[v].pw ELSE @] \in Entry
           /\ [in EXCEPT !.pw = IF @ = "" THEN mem[v].pw ELSE @].listen = in.listen
<1>1. mem[v].pw \in Password \cup {""} /\ in.pw \in Password \cup {""}
  BY EntryHasPassword DEF TypeOK
<1> QED
  BY <1>1, WithPassword

\* The other ways a task changes.
LEMMA TaskMoves ==
    ASSUME NEW t \in Task, NEW pw \in Password \cup {""}
    PROVE  /\ [t EXCEPT !.edit = "listen"] \in Task
           /\ [t EXCEPT !.entry.pw = pw] \in Task
           /\ [t EXCEPT !.edit = "listen"].entry = t.entry
           /\ [t EXCEPT !.edit = "listen"].route = t.route
           /\ [t EXCEPT !.entry.pw = pw].entry.listen = t.entry.listen
           /\ [t EXCEPT !.entry.pw = pw].route = t.route
BY DEF Task, Entry

LEMMA AfterDefineType ==
    ASSUME NEW t \in Task
    PROVE  AfterDefine(t) \in {Idle} \cup Job
<1>1. [t EXCEPT !.edit = "listen"] \in Task
  BY DEF Task
<1>2. t.route \in {"set", "listen", "clear"}
  BY DEF Task
<1> QED
  BY <1>1, <1>2, JobIs DEF AfterDefine

LEMMA RequestTypes ==
    ASSUME TypeOK, NEW c \in Client, Begin(c) \/ Continue(c)
    PROVE  TypeOK'
<1>1. ASSUME NEW v \in VM, NEW in \in Entry, PostBegin(c, v, in)
      PROVE  TypeOK'
  <2> DEFINE e == [in EXCEPT !.pw = IF @ = "" THEN mem[v].pw ELSE @]
  <2>1. e \in Entry
    BY PostEntry
  <2>2. job' = [job EXCEPT ![c] = [step |-> "dump", task |-> PostTask(v, e)]]
    BY <1>1 DEF PostBegin, PostTask
  <2>3. [step |-> "dump", task |-> PostTask(v, e)] \in Job
    BY <2>1, PostTaskIs, JobIs
  <2>4. job' \in [Client -> {Idle} \cup Job]
    BY <2>2, <2>3, JobMoves
  <2> QED
    BY <1>1, <2>4 DEF PostBegin, TypeOK
<1>2. ASSUME NEW v \in VM, NEW ok \in BOOLEAN, DeleteBegin(c, v, ok)
      PROVE  TypeOK'
  <2>1. [route |-> "clear", edit |-> "pw", vm |-> v, entry |-> NoEntry] \in Task
    BY NoEntryIsEntry DEF Task
  <2>2. job' \in [Client -> {Idle} \cup Job]
    BY <1>2, <2>1, JobIs, JobMoves DEF DeleteBegin
  <2>3. mem' \in [VM -> Entry] /\ disk' \in [VM -> Entry] /\ unsaved' \in BOOLEAN
    BY <1>2, NoEntryIsEntry, SaveTypes DEF DeleteBegin
  <2> QED
    BY <1>2, <2>2, <2>3 DEF DeleteBegin, TypeOK
<1>3. ASSUME NEW ok \in BOOLEAN, RequestDump(c, ok)
      PROVE  TypeOK'
  <2>1. job[c].task \in Task
    BY <1>3, JobHas DEF RequestDump
  <2>2. Edited(config[job[c].task.vm], job[c].task.edit, job[c].task.entry) \in Document
    BY <2>1, TaskHas, EditedIsDocument DEF TypeOK
  <2>3. job' \in [Client -> {Idle} \cup Job]
    BY <1>3, <2>1, <2>2, DefineJobIs, JobMoves DEF RequestDump
  <2> QED
    BY <1>3, <2>3 DEF RequestDump, TypeOK
<1>4. ASSUME NEW o \in Outcome, RequestDefine(c, o)
      PROVE  TypeOK'
  <2>1. job[c].task \in Task /\ job[c].doc \in Document
    BY <1>4, JobHas DEF RequestDefine
  <2>2. /\ power' \in [VM -> Power]
        /\ config' \in [VM -> Document]
        /\ live' \in [VM -> Document]
    BY <1>4, <2>1, TaskHas, RedefineTypes DEF RequestDefine
  <2>3. job' \in [Client -> {Idle} \cup Job]
    BY <1>4, <2>1, AfterDefineType, JobMoves DEF RequestDefine
  <2> QED
    BY <1>4, <2>2, <2>3 DEF RequestDefine, TypeOK
<1>5. CASE ReadPin(c)
  <2>1. job[c].task \in Task
    BY <1>5, JobHas DEF ReadPin
  <2>2. mem[job[c].task.vm].pw \in Password \cup {""}
    BY <2>1, TaskHas, EntryHasPassword DEF TypeOK
  <2>3. [job[c].task EXCEPT !.entry.pw = mem[job[c].task.vm].pw] \in Task
    BY <2>1, <2>2, TaskMoves
  <2>4. job' \in [Client -> {Idle} \cup Job]
    BY <1>5, <2>3, JobIs, JobMoves DEF ReadPin
  <2> QED
    BY <1>5, <2>4 DEF ReadPin, TypeOK
<1>6. ASSUME NEW ok \in BOOLEAN, WritePin(c, ok)
      PROVE  TypeOK'
  <2>1. job[c].task \in Task
    BY <1>6, JobHas DEF WritePin
  <2>2. mem' \in [VM -> Entry] /\ disk' \in [VM -> Entry] /\ unsaved' \in BOOLEAN
    BY <1>6, <2>1, TaskHas, SaveTypes DEF WritePin
  <2>3. job' \in [Client -> {Idle} \cup Job]
    BY <1>6, JobMoves DEF WritePin
  <2> QED
    BY <1>6, <2>2, <2>3 DEF WritePin, TypeOK
<1> QED
  BY <1>1, <1>2, <1>3, <1>4, <1>5, <1>6 DEF Begin, Continue

-----------------------------------------------------------------------------
(* Type correctness: the pass and the world.                               *)

LEMMA RestType ==
    ASSUME NEW todo \in SUBSET Item
    PROVE  Rest(todo) \in {Idle} \cup PassStep
BY DEF Rest, PassStep

LEMMA CheckType ==
    ASSUME NEW todo \in SUBSET Item, NEW i \in Item, NEW edit \in {"pw", "listen"}
    PROVE  Check(edit, todo, i) \in PassStep
BY DEF Check, PassStep

LEMMA AfterPasswordType ==
    ASSUME NEW todo \in SUBSET Item, NEW i \in Item
    PROVE  /\ AfterPassword(todo, i) \in {Idle} \cup PassStep
           /\ FirstCheck(todo, i) \in {Idle} \cup PassStep
BY RestType, CheckType DEF AfterPassword, FirstCheck

\* What a pass that is not idle carries.
LEMMA PassHas ==
    ASSUME TypeOK
    PROVE  /\ rec.step = "next" => rec.todo \in SUBSET Item
           /\ rec.step \in {"check", "dump", "define"}
                => /\ rec.todo \in SUBSET Item
                   /\ rec.item \in Item
                   /\ rec.edit \in {"pw", "listen"}
           /\ rec.step = "define" => rec.doc \in Document
           /\ rec.step \in {"check", "dump"}
                => rec \in [step : {"check", "dump"}, edit : {"pw", "listen"},
                            todo : SUBSET Item, item : Item]
<1>1. CASE rec = Idle
  BY <1>1 DEF Idle
<1>2. CASE rec \in PassStep
  BY <1>2 DEF PassStep
<1> QED
  BY <1>1, <1>2 DEF TypeOK

LEMMA PassTypes ==
    ASSUME TypeOK, Pass
    PROVE  TypeOK'
<1>1. CASE PassBegin
  <2>1. Pinned \in SUBSET Item
    BY DEF Pinned, Item, TypeOK
  <2> QED
    BY <1>1, <2>1, RestType DEF PassBegin, TypeOK
<1>2. ASSUME NEW i \in Item, NEW ok \in BOOLEAN, PassState(i, ok)
      PROVE  TypeOK'
  <2>1. rec.todo \ {i} \in SUBSET Item
    BY <1>2, PassHas DEF PassState
  <2>2. rec' \in {Idle} \cup PassStep
    BY <1>2, <2>1, RestType, AfterPasswordType DEF PassState
  <2> QED
    BY <1>2, <2>2 DEF PassState, TypeOK
<1>3. ASSUME NEW i \in Item, NEW ok \in BOOLEAN, PassCheck(i, ok)
      PROVE  TypeOK'
  <2>1. /\ rec.todo \in SUBSET Item
        /\ rec \in [step : {"check", "dump"}, edit : {"pw", "listen"},
                    todo : SUBSET Item, item : Item]
    BY <1>3, PassHas DEF PassCheck
  <2>2. [rec EXCEPT !.step = "dump"] \in PassStep
    BY <2>1 DEF PassStep
  <2>3. rec' \in {Idle} \cup PassStep
    BY <1>3, <2>1, <2>2, RestType, AfterPasswordType DEF PassCheck
  <2> QED
    BY <1>3, <2>3 DEF PassCheck, TypeOK
<1>4. ASSUME NEW i \in Item, NEW ok \in BOOLEAN, PassDump(i, ok)
      PROVE  TypeOK'
  <2>1. rec.todo \in SUBSET Item /\ rec.edit \in {"pw", "listen"}
    BY <1>4, PassHas DEF PassDump
  <2>2. i.vm \in VM /\ i.entry \in Entry
    BY DEF Item
  <2>3. Edited(config[i.vm], rec.edit, i.entry) \in Document
    BY <2>2, EditedIsDocument DEF TypeOK
  <2>4. [step |-> "define", edit |-> rec.edit, todo |-> rec.todo, item |-> i,
         doc |-> Edited(config[i.vm], rec.edit, i.entry)] \in PassStep
    BY <2>1, <2>3 DEF PassStep
  <2>5. rec' \in {Idle} \cup PassStep
    BY <1>4, <2>1, <2>4, RestType DEF PassDump
  <2> QED
    BY <1>4, <2>5 DEF PassDump, TypeOK
<1>5. ASSUME NEW i \in Item, NEW o \in Outcome, PassDefine(i, o)
      PROVE  TypeOK'
  <2>1. rec.todo \in SUBSET Item /\ rec.doc \in Document
    BY <1>5, PassHas DEF PassDefine
  <2>2. /\ power' \in [VM -> Power]
        /\ config' \in [VM -> Document]
        /\ live' \in [VM -> Document]
    BY <1>5, <2>1, RedefineTypes DEF PassDefine, Item
  <2>3. rec' \in {Idle} \cup PassStep
    BY <1>5, <2>1, RestType, AfterPasswordType DEF PassDefine
  <2> QED
    BY <1>5, <2>2, <2>3 DEF PassDefine, TypeOK
<1> QED
  BY <1>1, <1>2, <1>3, <1>4, <1>5 DEF Pass

LEMMA WorldTypes ==
    ASSUME TypeOK, Restart \/ \E v \in VM : Environment(v)
    PROVE  TypeOK'
<1>1. CASE Restart
  BY <1>1 DEF Restart, Reload, TypeOK
<1>2. ASSUME NEW v \in VM, Environment(v)
      PROVE  TypeOK'
  <2> DEFINE WorldTyped == /\ power \in [VM -> Power]
                           /\ config \in [VM -> Document]
                           /\ live \in [VM -> Document]
  <2>1. WorldTyped
    BY DEF TypeOK
  <2>2. WorldTyped'
    <3>1. CASE Undefine(v, Template) \/ Create(v)
      BY <2>1, <3>1, BlankDocuments DEF Undefine, Create, Power
    <3>2. CASE Resave(v, Template) \/ Resave(v, NoConsole)
      BY <2>1, <3>2, BlankDocuments DEF Resave
    <3> QED
      BY <1>2, <3>1, <3>2 DEF Environment
  <2>3. UNCHANGED <<mem, disk, unsaved, job, rec>>
    BY <1>2 DEF Environment
  <2> QED
    BY <2>2, <2>3 DEF TypeOK
<1> QED
  BY <1>1, <1>2

(* Every variable keeps its type.                                          *)
THEOREM TypeCorrect == Spec => []TypeOK
<1>1. Init => TypeOK
  BY BlankDocuments, NoEntryIsEntry DEF Init, StoreInit, TypeOK, Power
<1>2. TypeOK /\ [Next]_vars => TypeOK'
  <2> SUFFICES ASSUME TypeOK, [Next]_vars
               PROVE  TypeOK'
    OBVIOUS
  <2>1. CASE UNCHANGED vars
    BY <2>1 DEF vars, TypeOK
  <2>2. CASE Next
    BY <2>2, RequestTypes, PassTypes, WorldTypes DEF Next
  <2> QED
    BY <2>1, <2>2
<1> QED
  BY <1>1, <1>2, PTL DEF Spec

-----------------------------------------------------------------------------
(* No exposed console without a password.  The invariant is inductive once *)
(* it also says of the requests that set the address alone that the        *)
(* address is the local one: such a request reads the pinned password in   *)
(* a step of its own, and may find that there is none any more.            *)

AddressAlone ==
    \A c \in Client :
        /\ job[c].step = "read pin" => job[c].task.route = "listen"
        /\ job[c].step # "idle" /\ job[c].task.route = "listen"
             => job[c].task.entry.listen = Local

ExposureInv == ExposedEntryHasPassword /\ AddressAlone

\* What the invariant asks of one job.
SafeJob(j) ==
    /\ j # Idle => Safe(j.task.entry)
    /\ j.step = "read pin" => j.task.route = "listen"
    /\ j.step # "idle" /\ j.task.route = "listen" => j.task.entry.listen = Local

LEMMA InvIsPerJob ==
    ExposureInv <=> /\ \A v \in VM : Safe(mem[v]) /\ Safe(disk[v])
                    /\ \A c \in Client : SafeJob(job[c])
BY DEF ExposureInv, ExposedEntryHasPassword, AddressAlone, SafeJob

LEMMA IdleIsSafe == SafeJob(Idle)
BY DEF SafeJob, Idle

\* One request moves on to a safe job, and the store stays as it is.
LEMMA SafeMove ==
    ASSUME TypeOK, ExposureInv, NEW c \in Client, NEW j, SafeJob(j),
           job' = [job EXCEPT ![c] = j], UNCHANGED <<mem, disk>>
    PROVE  ExposureInv'
<1>1. \A d \in Client : SafeJob(job[d])
  BY InvIsPerJob
<1>2. \A d \in Client : SafeJob(job'[d])
  BY <1>1 DEF TypeOK
<1>3. \A v \in VM : Safe(mem'[v]) /\ Safe(disk'[v])
  BY InvIsPerJob
<1> QED
  BY <1>2, <1>3 DEF ExposureInv, ExposedEntryHasPassword, AddressAlone, SafeJob

\* A request ends with saving a safe entry, or begins with saving none.
LEMMA SafeSave ==
    ASSUME TypeOK, ExposureInv, NEW c \in Client, NEW j, SafeJob(j),
           job' = [job EXCEPT ![c] = j], NEW v \in VM, NEW e, Safe(e),
           NEW ok \in BOOLEAN, Save([mem EXCEPT ![v] = e], ok)
    PROVE  ExposureInv'
<1>1. \A d \in Client : SafeJob(job'[d])
  BY InvIsPerJob DEF TypeOK
<1>2. \A w \in VM : Safe(mem[w]) /\ Safe(disk[w])
  BY InvIsPerJob
<1>3. \A w \in VM : Safe(mem'[w])
  BY <1>2 DEF Save, TypeOK
<1>4. \A w \in VM : Safe(disk'[w])
  BY <1>2, <1>3 DEF Save
<1> QED
  BY <1>1, <1>3, <1>4 DEF ExposureInv, ExposedEntryHasPassword, AddressAlone, SafeJob

\* A job whose entry has not changed is as safe as it was.
LEMMA SafeJobIs ==
    ASSUME NEW step \in {"dump", "pin"}, NEW t,
           Safe(t.entry), t.route = "listen" => t.entry.listen = Local
    PROVE  SafeJob([step |-> step, task |-> t])
BY DEF SafeJob

LEMMA LocalIsSafe ==
    ASSUME NEW e, e.listen = Local
    PROVE  Safe(e)
BY DEF Safe, Local, AllIPv4

LEMMA ExposureRequest ==
    ASSUME TypeOK, ExposureInv, NEW c \in Client, Begin(c) \/ Continue(c)
    PROVE  ExposureInv'
<1> DEFINE t == job[c].task
<1>0. SafeJob(job[c])
  BY InvIsPerJob
<1>1. ASSUME NEW v \in VM, NEW in \in Entry, PostBegin(c, v, in)
      PROVE  ExposureInv'
  <2> DEFINE e == [in EXCEPT !.pw = IF @ = "" THEN mem[v].pw ELSE @]
  <2>1. Accepted(e)
    BY <1>1 DEF PostBegin
  <2>2. Safe(e) /\ (PostTask(v, e).route = "listen" => e.listen = Local)
    BY <2>1, LocalIsSafe DEF Accepted, Safe, PostTask
  <2>3. PostTask(v, e).entry = e
    BY DEF PostTask
  <2> HIDE DEF e
  <2>4. SafeJob([step |-> "dump", task |-> PostTask(v, e)])
    BY <2>2, <2>3, SafeJobIs
  <2>5. job' = [job EXCEPT ![c] = [step |-> "dump", task |-> PostTask(v, e)]]
    BY <1>1 DEF PostBegin, PostTask, e
  <2> QED
    BY <1>1, <2>4, <2>5, SafeMove DEF PostBegin
<1>2. ASSUME NEW v \in VM, NEW ok \in BOOLEAN, DeleteBegin(c, v, ok)
      PROVE  ExposureInv'
  <2>1. Safe(NoEntry)
    BY DEF Safe, NoEntry, AllIPv4
  <2>2. SafeJob([step |-> "dump", task |-> [route |-> "clear", edit |-> "pw",
                                            vm |-> v, entry |-> NoEntry]])
    BY <2>1 DEF SafeJob
  <2> QED
    BY <1>2, <2>1, <2>2, SafeSave DEF DeleteBegin
<1>3. ASSUME NEW ok \in BOOLEAN, RequestDump(c, ok)
      PROVE  ExposureInv'
  <2>1. job[c].step = "dump" /\ job[c] # Idle
    BY <1>3 DEF RequestDump, Idle
  <2>2. SafeJob([step |-> "define", task |-> t,
                 doc |-> Edited(config[t.vm], t.edit, t.entry)])
    BY <1>0, <2>1 DEF SafeJob
  <2> QED
    BY <1>3, <2>2, IdleIsSafe, SafeMove DEF RequestDump
<1>4. ASSUME NEW o \in Outcome, RequestDefine(c, o)
      PROVE  ExposureInv'
  <2>1. job[c].step = "define" /\ job[c] # Idle /\ t \in Task
    BY <1>4, JobHas DEF RequestDefine, Idle
  <2>2. Safe(t.entry) /\ (t.route = "listen" => t.entry.listen = Local)
    BY <1>0, <2>1 DEF SafeJob
  <2>3. SafeJob(AfterDefine(t))
    <3>1. CASE t.route = "clear"
      BY <3>1, IdleIsSafe DEF AfterDefine
    <3>2. CASE t.route = "listen"
      BY <2>2, <3>2 DEF AfterDefine, SafeJob
    <3>3. CASE t.route = "set"
      <4>1. SafeJob([step |-> "dump", task |-> [t EXCEPT !.edit = "listen"]])
        BY <2>1, <2>2, <3>3, TaskMoves, EntryHasPassword, SafeJobIs
      <4>2. SafeJob([step |-> "pin", task |-> t])
        BY <2>2, SafeJobIs
      <4> QED
        BY <3>3, <4>1, <4>2 DEF AfterDefine
    <3> QED
      BY <2>1, <3>1, <3>2, <3>3 DEF Task
  <2> QED
    BY <1>4, <2>3, IdleIsSafe, SafeMove DEF RequestDefine
<1>5. CASE ReadPin(c)
  <2>1. job[c].step = "read pin" /\ t \in Task
    BY <1>5, JobHas DEF ReadPin
  <2>2. t.entry.listen = Local
    BY <1>0, <2>1 DEF SafeJob
  <2> DEFINE u == [t EXCEPT !.entry.pw = mem[t.vm].pw]
  <2>3. mem[t.vm].pw \in Password \cup {""}
    BY <2>1, TaskHas, EntryHasPassword DEF TypeOK
  <2>4. u.entry.listen = Local
    BY <2>1, <2>2, <2>3, TaskMoves
  <2>5. job' = [job EXCEPT ![c] = [step |-> "pin", task |-> u]]
    BY <1>5 DEF ReadPin
  <2> HIDE DEF u
  <2>6. SafeJob([step |-> "pin", task |-> u])
    BY <2>4, LocalIsSafe, SafeJobIs
  <2> QED
    BY <1>5, <2>5, <2>6, SafeMove DEF ReadPin
<1>6. ASSUME NEW ok \in BOOLEAN, WritePin(c, ok)
      PROVE  ExposureInv'
  <2>1. job[c].step = "pin" /\ job[c] # Idle /\ t \in Task
    BY <1>6, JobHas DEF WritePin, Idle
  <2>2. Safe(t.entry) /\ t.vm \in VM
    BY <1>0, <2>1, TaskHas DEF SafeJob
  <2> QED
    BY <1>6, <2>2, IdleIsSafe, SafeSave DEF WritePin
<1> QED
  BY <1>1, <1>2, <1>3, <1>4, <1>5, <1>6 DEF Begin, Continue

LEMMA ExposureStep ==
    ASSUME TypeOK, ExposureInv, [Next]_vars
    PROVE  ExposureInv'
<1>1. CASE UNCHANGED <<mem, disk, job>>
  BY <1>1 DEF ExposureInv, ExposedEntryHasPassword, AddressAlone, Safe
<1>2. CASE UNCHANGED vars
  BY <1>1, <1>2 DEF vars
<1>3. CASE Pass
  BY <1>1, <1>3 DEF Pass, PassBegin, PassState, PassCheck, PassDump, PassDefine
<1>4. ASSUME NEW v \in VM, Environment(v)
      PROVE  ExposureInv'
  BY <1>1, <1>4 DEF Environment
<1>5. CASE Restart
  <2>1. \A v \in VM : Safe(mem'[v]) /\ Safe(disk'[v])
    BY <1>5, InvIsPerJob DEF Restart, Reload
  <2>2. \A c \in Client : SafeJob(job'[c])
    BY <1>5, IdleIsSafe DEF Restart
  <2> QED
    BY <2>1, <2>2 DEF ExposureInv, ExposedEntryHasPassword, AddressAlone, SafeJob
<1> QED
  BY <1>2, <1>3, <1>4, <1>5, ExposureRequest DEF Next

(* No entry in memory, in the file or in the hands of a request exposes a  *)
(* console without a password.                                             *)
THEOREM ExposedIsProtected == Spec => []ExposedEntryHasPassword
<1>1. Init => ExposureInv
  <2> SUFFICES ASSUME Init PROVE ExposureInv
    OBVIOUS
  <2>1. \A v \in VM : Safe(mem[v]) /\ Safe(disk[v])
    BY DEF Init, StoreInit, Safe, NoEntry, AllIPv4
  <2>2. \A c \in Client : job[c] = Idle
    BY DEF Init
  <2>3. \A c \in Client : SafeJob(job[c])
    BY <2>2, IdleIsSafe
  <2> QED
    BY <2>1, <2>3, InvIsPerJob
<1>2. TypeOK /\ ExposureInv /\ [Next]_vars => ExposureInv'
  BY ExposureStep
<1>3. ExposureInv => ExposedEntryHasPassword
  BY DEF ExposureInv
<1> QED
  BY <1>1, <1>2, <1>3, TypeCorrect, PTL DEF Spec

-----------------------------------------------------------------------------
(* The store.                                                              *)

\* The steps that touch the store, and how.
LEMMA StoreSteps ==
    ASSUME TypeOK, [Next]_vars
    PROVE  \/ UNCHANGED store
           \/ Reload
           \/ \E contents \in [VM -> Entry], ok \in BOOLEAN : Save(contents, ok)
<1>1. ASSUME NEW c \in Client, NEW v \in VM, NEW ok \in BOOLEAN, DeleteBegin(c, v, ok)
      PROVE  \E contents \in [VM -> Entry] : Save(contents, ok)
  <2>1. [mem EXCEPT ![v] = NoEntry] \in [VM -> Entry]
    BY NoEntryIsEntry DEF TypeOK
  <2> QED
    BY <1>1, <2>1 DEF DeleteBegin
<1>2. ASSUME NEW c \in Client, NEW ok \in BOOLEAN, WritePin(c, ok)
      PROVE  \E contents \in [VM -> Entry] : Save(contents, ok)
  <2>1. job[c].task \in Task
    BY <1>2, JobHas DEF WritePin
  <2>2. [mem EXCEPT ![job[c].task.vm] = job[c].task.entry] \in [VM -> Entry]
    BY <2>1, TaskHas DEF TypeOK
  <2> QED
    BY <1>2, <2>2 DEF WritePin
<1> QED
  BY <1>1, <1>2 DEF Next, Begin, Continue, Pass, PostBegin, RequestDump, RequestDefine,
     ReadPin, PassBegin, PassState, PassCheck, PassDump, PassDefine, Restart,
     Environment, vars

(* Memory and file of the entries differ only after a save that failed, so *)
(* that a restart brings no older password or address back at any other    *)
(* time (vnc/store.go: the map, and saveLocked under the same mutex).      *)
THEOREM MemoryIsSaved == Spec => []SavedUnlessFailed
<1>1. Init => SavedUnlessFailed
  BY DEF Init, StoreInit, SavedUnlessFailed
<1>2. TypeOK /\ SavedUnlessFailed /\ [Next]_vars => SavedUnlessFailed'
  <2> SUFFICES ASSUME TypeOK, SavedUnlessFailed, [Next]_vars
               PROVE  SavedUnlessFailed'
    OBVIOUS
  <2>1. CASE UNCHANGED store
    BY <2>1 DEF SavedUnlessFailed
  <2>2. CASE Reload
    BY <2>2 DEF Reload, SavedUnlessFailed
  <2>3. ASSUME NEW contents, NEW ok, Save(contents, ok)
        PROVE  SavedUnlessFailed'
    BY <2>3 DEF Save, SavedUnlessFailed
  <2> QED
    BY <2>1, <2>2, <2>3, StoreSteps
<1> QED
  BY <1>1, <1>2, TypeCorrect, PTL DEF Spec

(* The store of the entries, whatever requests and passes do around it, is *)
(* the one that StoreFile implements (vnc/store.go: Set, Remove, NewStore).*)
Store == INSTANCE AtomicStore WITH Contents <- [VM -> Entry]

THEOREM StoreIsAtomic == Spec => Store!Spec
<1>1. Init => Store!Init
  <2>1. [v \in VM |-> NoEntry] \in [VM -> Entry]
    BY NoEntryIsEntry
  <2> QED
    BY <2>1 DEF Init, StoreInit, Store!Init, Store!StoreInit
<1>2. TypeOK /\ [Next]_vars => [Store!Next]_(Store!store)
  BY StoreSteps DEF Save, Reload, Store!Save, Store!Reload, Store!Next, Store!store
<1> QED
  BY <1>1, <1>2, TypeCorrect, PTL DEF Spec, Store!Spec

-----------------------------------------------------------------------------
(* What a define writes.  WhatIsDefined says of the requests and of the    *)
(* pass what they carry from the look at the store and from the dump to    *)
(* the define, which comes two commands later.                             *)

SetsPassword(t) ==
    /\ t.route = "set" => t.entry.pw # ""
    /\ t.route = "listen" => t.edit = "listen"

RequestDefines(j) ==
    j.step # "idle" =>
        /\ SetsPassword(j.task)
        /\ j.step = "read pin" => j.task.route = "listen"
        /\ j.step = "define" /\ j.task.edit = "pw" => j.doc.pw = j.task.entry.pw

AsksFor(edit, e) == IF edit = "pw" THEN e.pw # "" ELSE e.listen # ""

PassDefines(r) ==
    /\ r.step \in {"check", "dump", "define"} => AsksFor(r.edit, r.item.entry)
    /\ r.step = "define" =>
         /\ r.doc.console
         /\ r.edit = "pw" => r.doc.pw = r.item.entry.pw
         /\ r.edit = "listen" => HasListen(r.doc, r.item.entry)

WhatIsDefined == (\A c \in Client : RequestDefines(job[c])) /\ PassDefines(rec)

\* What an edit leaves in the document.
LEMMA EditedHas ==
    ASSUME NEW doc \in Document, NEW e \in Entry
    PROVE  /\ Edited(doc, "pw", e).pw = e.pw
           /\ Edited(doc, "pw", e).console = doc.console
           /\ Edited(doc, "listen", e).listen = e.listen
           /\ Edited(doc, "listen", e).port = e.port
           /\ Edited(doc, "listen", e).console = doc.console
           /\ Edited(doc, "listen", e).pw = doc.pw
BY DEF Edited, SetPassword, SetListen, Document

LEMMA RequestMoves ==
    ASSUME TypeOK, WhatIsDefined, NEW c \in Client, NEW j, RequestDefines(j),
           job' = [job EXCEPT ![c] = j], UNCHANGED rec
    PROVE  WhatIsDefined'
<1>1. \A d \in Client : job'[d] = job[d] \/ job'[d] = j
  BY DEF TypeOK
<1>2. \A d \in Client : RequestDefines(job'[d])
  BY <1>1 DEF WhatIsDefined
<1> QED
  BY <1>2 DEF WhatIsDefined

LEMMA IdleDefines == RequestDefines(Idle) /\ PassDefines(Idle)
BY DEF RequestDefines, PassDefines, Idle

LEMMA StepDefines ==
    ASSUME NEW step \in {"dump", "read pin", "pin"}, NEW t, SetsPassword(t),
           step = "read pin" => t.route = "listen"
    PROVE  RequestDefines([step |-> step, task |-> t])
BY DEF RequestDefines

LEMMA TaskSetsPassword ==
    ASSUME NEW t \in Task, SetsPassword(t)
    PROVE  /\ SetsPassword([t EXCEPT !.edit = "listen"])
           /\ \A pw \in Password \cup {""} :
                t.route # "set" => SetsPassword([t EXCEPT !.entry.pw = pw])
BY DEF Task, Entry, SetsPassword

LEMMA DefinesAfter ==
    ASSUME NEW t \in Task, SetsPassword(t)
    PROVE  RequestDefines(AfterDefine(t))
<1>1. CASE t.route = "clear"
  BY <1>1, IdleDefines DEF AfterDefine
<1>2. CASE t.route = "listen"
  BY <1>2, StepDefines DEF AfterDefine
<1>3. CASE t.route = "set"
  <2>1. RequestDefines([step |-> "dump", task |-> [t EXCEPT !.edit = "listen"]])
    BY TaskSetsPassword, StepDefines
  <2>2. RequestDefines([step |-> "pin", task |-> t])
    BY StepDefines
  <2> QED
    BY <1>3, <2>1, <2>2 DEF AfterDefine
<1> QED
  BY <1>1, <1>2, <1>3 DEF Task

LEMMA DefinesRequest ==
    ASSUME TypeOK, WhatIsDefined, NEW c \in Client, Begin(c) \/ Continue(c)
    PROVE  WhatIsDefined'
<1> DEFINE t == job[c].task
<1>0. RequestDefines(job[c])
  BY DEF WhatIsDefined
<1>1. ASSUME NEW v \in VM, NEW in \in Entry, PostBegin(c, v, in)
      PROVE  WhatIsDefined'
  <2> DEFINE e == [in EXCEPT !.pw = IF @ = "" THEN mem[v].pw ELSE @]
  <2>1. job' = [job EXCEPT ![c] = [step |-> "dump", task |-> PostTask(v, e)]]
    BY <1>1 DEF PostBegin, PostTask
  <2> HIDE DEF e
  <2>2. SetsPassword(PostTask(v, e))
    BY DEF SetsPassword, PostTask
  <2> QED
    BY <1>1, <2>1, <2>2, StepDefines, RequestMoves DEF PostBegin
<1>2. ASSUME NEW v \in VM, NEW ok \in BOOLEAN, DeleteBegin(c, v, ok)
      PROVE  WhatIsDefined'
  <2> DEFINE u == [route |-> "clear", edit |-> "pw", vm |-> v, entry |-> NoEntry]
  <2>1. SetsPassword(u)
    BY DEF SetsPassword
  <2>2. RequestDefines([step |-> "dump", task |-> u])
    BY <2>1, StepDefines
  <2> QED
    BY <1>2, <2>2, RequestMoves DEF DeleteBegin
<1>3. ASSUME NEW ok \in BOOLEAN, RequestDump(c, ok)
      PROVE  WhatIsDefined'
  <2> DEFINE doc == Edited(config[t.vm], t.edit, t.entry)
  <2>1. t \in Task /\ SetsPassword(t) /\ config[t.vm] \in Document
    BY <1>0, <1>3, JobHas, TaskHas DEF RequestDump, RequestDefines, TypeOK
  <2>2. t.edit = "pw" => doc.pw = t.entry.pw
    BY <2>1, TaskHas, EditedHas
  <2> HIDE DEF doc
  <2>3. RequestDefines([step |-> "define", task |-> t, doc |-> doc])
    BY <2>1, <2>2 DEF RequestDefines
  <2>4. \/ job' = [job EXCEPT ![c] = [step |-> "define", task |-> t, doc |-> doc]]
        \/ job' = [job EXCEPT ![c] = Idle]
    BY <1>3 DEF RequestDump, doc
  <2>5. UNCHANGED rec
    BY <1>3 DEF RequestDump
  <2> QED
    BY <2>3, <2>4, <2>5, IdleDefines, RequestMoves
<1>4. ASSUME NEW o \in Outcome, RequestDefine(c, o)
      PROVE  WhatIsDefined'
  <2>1. t \in Task /\ SetsPassword(t)
    BY <1>0, <1>4, JobHas DEF RequestDefine, RequestDefines
  <2> QED
    BY <1>4, <2>1, DefinesAfter, IdleDefines, RequestMoves DEF RequestDefine
<1>5. CASE ReadPin(c)
  <2>1. t \in Task /\ SetsPassword(t)
    BY <1>0, <1>5, JobHas DEF ReadPin, RequestDefines
  <2> DEFINE u == [t EXCEPT !.entry.pw = mem[t.vm].pw]
  <2>2. mem[t.vm].pw \in Password \cup {""}
    BY <2>1, TaskHas, EntryHasPassword DEF TypeOK
  <2>3. job' = [job EXCEPT ![c] = [step |-> "pin", task |-> u]] /\ UNCHANGED rec
    BY <1>5 DEF ReadPin
  <2>4. t.route = "listen"
    BY <1>0, <1>5 DEF ReadPin, RequestDefines
  <2>5. SetsPassword(u)
    BY <2>1, <2>2, <2>4, TaskSetsPassword
  <2> HIDE DEF u
  <2>6. RequestDefines([step |-> "pin", task |-> u])
    BY <2>5, StepDefines
  <2> QED
    BY <2>3, <2>6, RequestMoves
<1>6. ASSUME NEW ok \in BOOLEAN, WritePin(c, ok)
      PROVE  WhatIsDefined'
  BY <1>6, IdleDefines, RequestMoves DEF WritePin
<1> QED
  BY <1>1, <1>2, <1>3, <1>4, <1>5, <1>6 DEF Begin, Continue

LEMMA RestDefines ==
    ASSUME NEW todo
    PROVE  PassDefines(Rest(todo))
BY IdleDefines DEF Rest, PassDefines

LEMMA AfterPasswordDefines ==
    ASSUME NEW todo, NEW i
    PROVE  PassDefines(AfterPassword(todo, i)) /\ PassDefines(FirstCheck(todo, i))
<1>1. \A edit \in {"pw", "listen"} :
        AsksFor(edit, i.entry) => PassDefines(Check(edit, todo, i))
  BY DEF PassDefines, Check
<1> QED
  BY <1>1, RestDefines DEF AfterPassword, FirstCheck, AsksFor

LEMMA DefinesPass ==
    ASSUME TypeOK, WhatIsDefined, Pass
    PROVE  WhatIsDefined'
<1>1. UNCHANGED job
  BY DEF Pass, PassBegin, PassState, PassCheck, PassDump, PassDefine
<1>2. PassDefines(rec)
  BY DEF WhatIsDefined
<1>3. ASSUME NEW i \in Item, NEW ok \in BOOLEAN, PassCheck(i, ok)
      PROVE  PassDefines(rec')
  <2>1. rec \in [step : {"check", "dump"}, edit : {"pw", "listen"},
                 todo : SUBSET Item, item : Item]
    BY <1>3, PassHas DEF PassCheck
  <2>2. PassDefines([rec EXCEPT !.step = "dump"])
    BY <1>2, <2>1 DEF PassDefines
  <2> QED
    BY <1>3, <2>2, RestDefines, AfterPasswordDefines DEF PassCheck
<1>4. ASSUME NEW i \in Item, NEW ok \in BOOLEAN, PassDump(i, ok)
      PROVE  PassDefines(rec')
  <2> DEFINE doc == Edited(config[i.vm], rec.edit, i.entry)
             next == [step |-> "define", edit |-> rec.edit, todo |-> rec.todo,
                      item |-> i, doc |-> doc]
  <2>1. /\ rec.step = "dump"
        /\ i = rec.item
        /\ rec' = IF ok /\ config[i.vm].console THEN next ELSE Rest(rec.todo)
    BY <1>4 DEF PassDump
  <2>2. rec.edit \in {"pw", "listen"} /\ i.entry \in Entry /\ config[i.vm] \in Document
    BY <2>1, PassHas DEF Item, TypeOK
  <2>3. AsksFor(rec.edit, i.entry)
    BY <1>2, <2>1 DEF PassDefines
  <2>4. /\ doc.console = config[i.vm].console
        /\ rec.edit = "pw" => doc.pw = i.entry.pw
        /\ rec.edit = "listen" => doc.listen = i.entry.listen /\ doc.port = i.entry.port
    BY <2>2, EditedHas
  <2> HIDE DEF doc
  <2>5. config[i.vm].console => PassDefines(next)
    BY <2>2, <2>3, <2>4 DEF PassDefines, HasListen
  <2> HIDE DEF next
  <2> QED
    BY <2>1, <2>5, RestDefines
<1>5. ASSUME PassBegin \/ \E i \in Item, ok \in BOOLEAN : PassState(i, ok)
      PROVE  PassDefines(rec')
  BY <1>5, RestDefines, AfterPasswordDefines DEF PassBegin, PassState
<1>6. ASSUME NEW i \in Item, NEW o \in Outcome, PassDefine(i, o)
      PROVE  PassDefines(rec')
  BY <1>6, RestDefines, AfterPasswordDefines DEF PassDefine
<1>7. PassDefines(rec')
  BY <1>3, <1>4, <1>5, <1>6 DEF Pass
<1> QED
  BY <1>1, <1>7 DEF WhatIsDefined

LEMMA DefinesInvariant == Spec => []WhatIsDefined
<1>1. Init => WhatIsDefined
  <2> SUFFICES ASSUME Init PROVE WhatIsDefined
    OBVIOUS
  <2>1. rec = Idle /\ \A c \in Client : job[c] = Idle
    BY DEF Init
  <2> QED
    BY <2>1, IdleDefines DEF WhatIsDefined
<1>2. TypeOK /\ WhatIsDefined /\ [Next]_vars => WhatIsDefined'
  <2> SUFFICES ASSUME TypeOK, WhatIsDefined, [Next]_vars
               PROVE  WhatIsDefined'
    OBVIOUS
  <2>1. CASE UNCHANGED <<job, rec>>
    BY <2>1 DEF WhatIsDefined
  <2>2. CASE Restart
    <3>1. rec' = Idle /\ \A c \in Client : job'[c] = Idle
      BY <2>2 DEF Restart
    <3> QED
      BY <3>1, IdleDefines DEF WhatIsDefined
  <2> QED
    BY <2>1, <2>2, DefinesRequest, DefinesPass DEF Next, Environment, vars
<1> QED
  BY <1>1, <1>2, TypeCorrect, PTL DEF Spec

(* "Reading back what we wrote is what makes the reconciler idempotent"    *)
(* (virsh/vnc.go:16-22): whatever a repair of the password or the address  *)
(* does to a document, the check with which the next pass begins finds it  *)
(* there, also when the entry, the document and the console have changed   *)
(* since the pass began.                                                   *)
RepairsAreReadBack ==
    [][\A i \in Item :
         /\ rec.step = "define" /\ rec.item = i /\ rec' # rec
         /\ config'[i.vm] # config[i.vm]
         => /\ config'[i.vm].console
            /\ IF rec.edit = "pw" THEN HasPassword(config'[i.vm])
                                  ELSE HasListen(config'[i.vm], i.entry)]_vars

LEMMA RedefineWrites ==
    ASSUME TypeOK, NEW v \in VM, NEW doc, NEW o, Redefine(v, doc, o)
    PROVE  /\ \A w \in VM : config'[w] # config[w] => w = v
           /\ config'[v] # config[v] => config'[v] = doc
BY DEF Redefine, TypeOK

\* Who changes documents: the outside, or one define of the daemon's.
LEMMA ConfigChanges ==
    ASSUME [Next]_vars, config' # config
    PROVE  \/ UNCHANGED <<job, rec>>
           \/ UNCHANGED rec /\ \E c \in Client, o \in Outcome : RequestDefine(c, o)
           \/ UNCHANGED job /\ \E i \in Item, o \in Outcome : PassDefine(i, o)
BY DEF Next, Begin, Continue, Pass, PostBegin, DeleteBegin, RequestDump, RequestDefine,
   ReadPin, WritePin, PassBegin, PassState, PassCheck, PassDump, PassDefine, Restart,
   Environment, vars

THEOREM RepairsReadBack == Spec => RepairsAreReadBack
<1> DEFINE A(i) == /\ rec.step = "define" /\ rec.item = i /\ rec' # rec
                   /\ config'[i.vm] # config[i.vm]
                   => /\ config'[i.vm].console
                      /\ IF rec.edit = "pw" THEN HasPassword(config'[i.vm])
                                            ELSE HasListen(config'[i.vm], i.entry)
<1>1. TypeOK /\ WhatIsDefined /\ [Next]_vars => [\A i \in Item : A(i)]_vars
  <2> SUFFICES ASSUME TypeOK, WhatIsDefined, [Next]_vars, NEW i \in Item,
                      rec.step = "define", rec.item = i, rec' # rec,
                      config'[i.vm] # config[i.vm]
               PROVE  /\ config'[i.vm].console
                      /\ IF rec.edit = "pw" THEN HasPassword(config'[i.vm])
                                            ELSE HasListen(config'[i.vm], i.entry)
    OBVIOUS
  <2>1. PICK k \in Item, o \in Outcome : PassDefine(k, o)
    BY ConfigChanges
  <2>2. k = i /\ Redefine(i.vm, rec.doc, o) /\ i.vm \in VM
    BY <2>1 DEF PassDefine, Item
  <2>3. config'[i.vm] = rec.doc
    BY <2>2, RedefineWrites
  <2>4. PassDefines(rec) /\ rec.edit \in {"pw", "listen"}
    BY PassHas DEF WhatIsDefined
  <2> QED
    BY <2>3, <2>4 DEF PassDefines, AsksFor, HasPassword
<1> QED
  BY <1>1, TypeCorrect, DefinesInvariant, PTL DEF Spec, RepairsAreReadBack

\* What is about to be defined is not an edit of the document as it is now.
OutdatedRequest(j) == j.doc # Edited(config[j.task.vm], j.task.edit, j.task.entry)
OutdatedPass == rec.doc # Edited(config[rec.item.vm], rec.edit, rec.item.entry)

(* No request and no repair takes a password out of a document, whatever   *)
(* else it sets, but a DELETE and the define of a listen address that was  *)
(* dumped before the password was set (SetVNCListen edits the tag and      *)
(* keeps its other attributes: virsh/vnc.go).  A POST or a repair that     *)
(* sets a password never does, even when it is outdated: what it writes,   *)
(* read two virsh commands earlier, is not empty.                          *)
PasswordsStay ==
    [][\A v \in VM :
         config[v].pw # "" /\ config'[v].pw = "" =>
           \/ UNCHANGED <<job, rec>>
           \/ \E c \in Client :
                /\ job'[c] # job[c]
                /\ job[c].step = "define" /\ job[c].task.vm = v
                /\ \/ job[c].task.route = "clear"
                   \/ job[c].task.edit = "listen" /\ OutdatedRequest(job[c])
           \/ /\ rec' # rec
              /\ rec.step = "define" /\ rec.item.vm = v
              /\ rec.edit = "listen" /\ OutdatedPass]_vars

\* A define of the current document with another address keeps its password.
LEMMA ListenKeepsPassword ==
    ASSUME NEW doc \in Document, NEW e \in Entry
    PROVE  Edited(doc, "listen", e).pw = doc.pw
BY EditedHas

THEOREM ConsoleKeepsPassword == Spec => PasswordsStay
<1> DEFINE Strips(v) == config[v].pw # "" /\ config'[v].pw = ""
           ByRequest(v) == \E c \in Client :
                             /\ job'[c] # job[c]
                             /\ job[c].step = "define" /\ job[c].task.vm = v
                             /\ \/ job[c].task.route = "clear"
                                \/ job[c].task.edit = "listen" /\ OutdatedRequest(job[c])
           ByPass(v) == /\ rec' # rec
                        /\ rec.step = "define" /\ rec.item.vm = v
                        /\ rec.edit = "listen" /\ OutdatedPass
<1>1. ASSUME TypeOK, WhatIsDefined, NEW v \in VM, Strips(v),
             NEW c \in Client, NEW o \in Outcome, RequestDefine(c, o)
      PROVE  ByRequest(v)
  <2> DEFINE t == job[c].task
  <2>1. /\ job[c].step = "define"
        /\ t \in Task /\ t.vm \in VM /\ t.entry \in Entry
        /\ Redefine(t.vm, job[c].doc, o)
    BY <1>1, JobHas, TaskHas DEF RequestDefine
  <2>2. t.vm = v /\ job[c].doc.pw = ""
    BY <1>1, <2>1, RedefineWrites
  <2>3. RequestDefines(job[c])
    BY <1>1 DEF WhatIsDefined
  <2>4. t.route = "clear" \/ t.edit = "listen"
    BY <2>1, <2>2, <2>3 DEF RequestDefines, SetsPassword, Task
  <2>5. Edited(config[v], "listen", t.entry).pw = config[v].pw
    BY <1>1, <2>1, ListenKeepsPassword DEF TypeOK
  <2>6. t.edit = "listen" => OutdatedRequest(job[c])
    BY <1>1, <2>2, <2>5 DEF OutdatedRequest
  <2>7. job'[c] # job[c]
    <3>1. job'[c].step # "define"
      BY <1>1, <2>1 DEF RequestDefine, AfterDefine, Idle, Task, TypeOK
    <3> QED
      BY <2>1, <3>1
  <2> QED
    BY <2>1, <2>2, <2>4, <2>6, <2>7
<1>2. ASSUME TypeOK, WhatIsDefined, NEW v \in VM, Strips(v), [Next]_vars,
             NEW i \in Item, NEW o \in Outcome, PassDefine(i, o)
      PROVE  ByPass(v)
  <2>1. /\ rec.step = "define" /\ i = rec.item /\ i.vm \in VM /\ i.entry \in Entry
        /\ Redefine(i.vm, rec.doc, o)
    BY <1>2 DEF PassDefine, Item
  <2>2. i.vm = v /\ rec.doc.pw = ""
    BY <1>2, <2>1, RedefineWrites
  <2>3. PassDefines(rec) /\ rec.edit \in {"pw", "listen"}
    BY <1>2, <2>1, PassHas DEF WhatIsDefined
  <2>4. rec.edit = "listen"
    BY <2>1, <2>2, <2>3 DEF PassDefines, AsksFor
  <2>5. Edited(config[v], "listen", i.entry).pw = config[v].pw
    BY <1>2, <2>1, ListenKeepsPassword DEF TypeOK
  <2>6. OutdatedPass
    BY <1>2, <2>1, <2>2, <2>4, <2>5 DEF OutdatedPass
  <2>7. rec'.step # "define"
    BY <1>2 DEF PassDefine, AfterPassword, Check, Rest, Idle
  <2> QED
    BY <2>1, <2>2, <2>4, <2>6, <2>7
<1>3. TypeOK /\ WhatIsDefined /\ [Next]_vars =>
        [\A v \in VM : Strips(v) => \/ UNCHANGED <<job, rec>>
                                    \/ ByRequest(v)
                                    \/ ByPass(v)]_vars
  <2> SUFFICES ASSUME TypeOK, WhatIsDefined, [Next]_vars, NEW v \in VM, Strips(v)
               PROVE  UNCHANGED <<job, rec>> \/ ByRequest(v) \/ ByPass(v)
    OBVIOUS
  <2>1. config' # config
    OBVIOUS
  <2> HIDE DEF Strips, ByRequest, ByPass
  <2> QED
    BY <1>1, <1>2, <2>1, ConfigChanges
<1> QED
  BY <1>3, TypeCorrect, DefinesInvariant, PTL DEF Spec, PasswordsStay
=============================================================================
