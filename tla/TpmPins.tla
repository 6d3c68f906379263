------------------------------- MODULE TpmPins -------------------------------
(***************************************************************************)
(* Pinned TPM devices: internal/tpm/store.go, the POST and DELETE handlers *)
(* of tpmDomain and SetTPM of internal/virsh/tpm.go, which reads the       *)
(* persistent document in one virsh command and defines it in another.     *)
(* The store is a set of VM names.                                         *)
(***************************************************************************)
EXTENDS Libvirt, PinStore

CONSTANT Client   \* concurrent HTTP requests

VARIABLES job,   \* job[c]: where request c is in its handler
          rec    \* where the reconciler is in its pass

vars == <<power, config, live, mem, disk, unsaved, job, rec>>

\* What this module keeps of a document: the one TPM device a domain may
\* have, if any; added by the daemon, or configured by the operator.
Tpm == {"none", "ours", "operator's"}

Idle == [step |-> "idle"]

\* `on` is what SetTPM was called with, `dump` the device it found.
Job == [step : {"dump", "pin"}, vm : VM, on : BOOLEAN]
         \cup [step : {"define"}, vm : VM, on : BOOLEAN, dump : Tpm]

PassStep == [step : {"next"}, todo : SUBSET VM]
              \cup [step : {"check", "dump"}, todo : SUBSET VM, vm : VM]
              \cup [step : {"define"}, todo : SUBSET VM, vm : VM, dump : Tpm]

\* At most one TPM in a document.
TypeOK ==
    /\ power \in [VM -> Power]
    /\ config \in [VM -> Tpm]
    /\ live \in [VM -> Tpm]
    /\ mem \in SUBSET VM
    /\ disk \in SUBSET VM
    /\ unsaved \in BOOLEAN
    /\ job \in [Client -> {Idle} \cup Job]
    /\ rec \in {Idle} \cup PassStep

Init ==
    /\ power = [v \in VM |-> "shut off"]
    /\ config = [v \in VM |-> "none"]
    /\ live = [v \in VM |-> "none"]
    /\ StoreInit({})
    /\ job = [c \in Client |-> Idle]
    /\ rec = Idle

-----------------------------------------------------------------------------
\* Mutant: a device is added to a document that has one.
AddsASecond(tpm, on) ==
    IF ~on THEN "none" ELSE IF tpm = "none" THEN "ours" ELSE "two"

\* Mutant: a device the operator configured is replaced.
Replaces(tpm, on) == IF on THEN "ours" ELSE "none"

\* setTPMXML: enabling leaves a device alone that is there already.
SetTPM(tpm, on) ==
    IF ~on THEN "none" ELSE IF tpm = "none" THEN "ours" ELSE tpm

-----------------------------------------------------------------------------
(* POST: SetTPM, then pin.  DELETE: unpin, then SetTPM; the error of the   *)
(* unpin is dropped.                                                       *)

PostBegin(c, v) ==
    /\ job[c] = Idle
    /\ job' = [job EXCEPT ![c] = [step |-> "dump", vm |-> v, on |-> TRUE]]
    /\ UNCHANGED <<libvirt, store, rec>>

DeleteBegin(c, v, ok) ==
    /\ job[c] = Idle
    /\ Save(mem \ {v}, ok)
    /\ job' = [job EXCEPT ![c] = [step |-> "dump", vm |-> v, on |-> FALSE]]
    /\ UNCHANGED <<libvirt, rec>>

RequestDump(c, ok) ==
    LET j == job[c]
    IN  /\ j.step = "dump"
        /\ DumpAnswers(j.vm, ok)
        /\ job' = [job EXCEPT ![c] =
                     IF ok THEN [step |-> "define", vm |-> j.vm, on |-> j.on,
                                 dump |-> config[j.vm]]
                           ELSE Idle]
        /\ UNCHANGED <<libvirt, store, rec>>

RequestDefine(c, o) ==
    LET j == job[c]
    IN  /\ j.step = "define"
        /\ Redefine(j.vm, SetTPM(j.dump, j.on), o)
        /\ job' = [job EXCEPT ![c] =
                     IF o = "ok" /\ j.on
                       THEN [step |-> "pin", vm |-> j.vm, on |-> TRUE] ELSE Idle]
        /\ UNCHANGED <<store, rec>>

WritePin(c, ok) ==
    /\ job[c].step = "pin"
    /\ Save(mem \cup {job[c].vm}, ok)
    /\ job' = [job EXCEPT ![c] = Idle]
    /\ UNCHANGED <<libvirt, rec>>

-----------------------------------------------------------------------------
(* One pass of the reconciler over the VMs it found pinned.                *)

Rest(todo) == IF todo = {} THEN Idle ELSE [step |-> "next", todo |-> todo]

\* Mutant: the document is defined whatever is in it.
NeverPresent(tpm) == FALSE

\* Mutant: the test is the wrong way round.
PresentIfNone(tpm) == tpm = "none"

\* tpmInfoXML: any TPM will do.
Present(tpm) == tpm # "none"

PassBegin ==
    /\ rec = Idle
    /\ mem # {}
    /\ rec' = Rest(mem)
    /\ UNCHANGED <<libvirt, store, job>>

PassState(v, ok) ==
    /\ rec.step = "next"
    /\ v \in rec.todo
    /\ DumpAnswers(v, ok)
    /\ rec' = IF ok THEN [step |-> "check", todo |-> rec.todo \ {v}, vm |-> v]
                    ELSE Rest(rec.todo \ {v})
    /\ UNCHANGED <<libvirt, store, job>>

PassCheck(v, ok) ==
    /\ rec.step = "check"
    /\ v = rec.vm
    /\ DumpAnswers(v, ok)
    /\ rec' = IF ok /\ ~Present(config[v])
                THEN [rec EXCEPT !.step = "dump"] ELSE Rest(rec.todo)
    /\ UNCHANGED <<libvirt, store, job>>

PassDump(v, ok) ==
    /\ rec.step = "dump"
    /\ v = rec.vm
    /\ DumpAnswers(v, ok)
    /\ rec' = IF ok THEN [step |-> "define", todo |-> rec.todo, vm |-> v,
                          dump |-> config[v]]
                    ELSE Rest(rec.todo)
    /\ UNCHANGED <<libvirt, store, job>>

PassDefine(v, o) ==
    /\ rec.step = "define"
    /\ v = rec.vm
    /\ Redefine(v, SetTPM(rec.dump, TRUE), o)
    /\ rec' = Rest(rec.todo)
    /\ UNCHANGED <<store, job>>

-----------------------------------------------------------------------------
Restart ==
    /\ Reload
    /\ job' = [c \in Client |-> Idle]
    /\ rec' = Idle
    /\ UNCHANGED libvirt

\* A re-save drops the device, unless the operator writes one of his own.
Environment(v) ==
    /\ \/ Undefine(v, "none") \/ Create(v)
       \/ \E tpm \in {"none", "operator's"} : Resave(v, tpm)
    /\ UNCHANGED <<store, job, rec>>

Begin(c) ==
    \E v \in VM : PostBegin(c, v) \/ \E ok \in BOOLEAN : DeleteBegin(c, v, ok)

Continue(c) ==
    \/ \E ok \in BOOLEAN : RequestDump(c, ok) \/ WritePin(c, ok)
    \/ \E o \in Outcome : RequestDefine(c, o)

Pass ==
    \/ PassBegin
    \/ \E v \in VM, ok \in BOOLEAN :
         PassState(v, ok) \/ PassCheck(v, ok) \/ PassDump(v, ok)
    \/ \E v \in VM, o \in Outcome : PassDefine(v, o)

Next ==
    \/ \E c \in Client : Begin(c) \/ Continue(c)
    \/ Pass
    \/ Restart
    \/ \E v \in VM : Environment(v)

Spec == Init /\ [][Next]_vars

\* As in VncPins.
Fairness ==
    /\ WF_vars(Pass)
    /\ \A c \in Client : WF_vars(Continue(c))
    /\ \A v \in VM :
         /\ SF_vars(PassState(v, TRUE))
         /\ SF_vars(PassCheck(v, TRUE))
         /\ SF_vars(PassDump(v, TRUE))
         /\ SF_vars(PassDefine(v, "ok"))

FairSpec == Spec /\ Fairness

-----------------------------------------------------------------------------
\* Somebody is about to define for v a document that is not the current one.
StaleDump(v) ==
    \/ \E c \in Client : /\ job[c].step = "define"
                         /\ job[c].vm = v /\ job[c].dump # config[v]
    \/ rec.step = "define" /\ rec.vm = v /\ rec.dump # config[v]

(* "silently rewriting a TPM the operator configured by hand ... would be  *)
(* a destructive surprise" (virsh/tpm.go:71-72): no request to enable and  *)
(* no repair replaces the operator's device, unless it was configured      *)
(* between their dumpxml and their define.                                 *)
OperatorsTpmKept ==
    [][\A v \in VM : config[v] = "operator's" /\ config'[v] = "ours"
                       => StaleDump(v)]_vars

(***************************************************************************)
(* One VM as DomainEdits sees it, which knows the document by whether it   *)
(* has the part, and the pass over the VM from when it is on the list.     *)
(***************************************************************************)
DocOf(tpm) == [has |-> [p \in {"tpm"} |-> tpm # "none"], nics |-> {"net"}]

ConfigOf(v) == IF Exists(v) THEN DocOf(config[v]) ELSE [gone |-> TRUE]

PinsOf(v) == IF v \in mem THEN {"tpm"} ELSE {}

DumpOf(on)         == [step |-> "dump", part |-> "tpm", on |-> on]
DefineOf(on, dump) == [step |-> "define", part |-> "tpm", on |-> on,
                       dump |-> DocOf(dump), seen |-> DocOf(dump)]

RequestOf(v, j) ==
    IF j.step = "idle" \/ j.vm # v THEN Idle
    ELSE IF j.step = "dump" THEN DumpOf(j.on)
    ELSE IF j.step = "define" THEN DefineOf(j.on, j.dump)
    ELSE [step |-> "pin", part |-> "tpm"]

Listed(v)       == rec # Idle /\ v \in rec.todo
WorksOn(v, step) == rec.step = step /\ rec.vm = v

PassOf(v) ==
    IF Listed(v) \/ WorksOn(v, "check") THEN [step |-> "check", part |-> "tpm"]
    ELSE IF WorksOn(v, "dump") THEN DumpOf(TRUE)
    ELSE IF WorksOn(v, "define") THEN DefineOf(TRUE, rec.dump)
    ELSE Idle

RequestsOf(v) == [c \in Client |-> RequestOf(v, job[c])]
PassesOf(v)   == [p \in {"tpm"} |-> PassOf(v)]

Edits(v) == INSTANCE DomainEdits
              WITH Defined <- {"tpm"}, Attached <- {}, Official <- {"tpm"}, Net <- {"net"},
                   config <- ConfigOf(v), pins <- PinsOf(v),
                   job <- RequestsOf(v), rec <- PassesOf(v)

(* What DomainEdits says of a part that is dumped and defined is what the  *)
(* requests and the reconciler of the TPM do to each VM, whatever they do  *)
(* to the others in between, and whichever save or command fails.          *)
EditsImplemented ==
    /\ \A v \in VM : Edits(v)!Init
    /\ [][\A v \in VM : [Edits(v)!Next]_(Edits(v)!vars)]_vars

(* "A TPM the operator enabled here would quietly disappear"               *)
(* (tpm/store.go:5-8): a pinned VM that exists has a TPM again and again,  *)
(* however often the official UI drops it, whatever becomes of the         *)
(* requests under way.                                                     *)
PinnedTpmRestored ==
    \A v \in VM :
        <>[](v \in mem /\ Exists(v)) => []<>(config[v] # "none")

(* "A reconciler that keeps acting on an unchanged domain is reporting a   *)
(* broken read path" (tpm/store.go:121-123): when a document and its pin   *)
(* stop changing, the reconciler stops defining it.                        *)
ReconcilerSettles ==
    \A v \in VM :
        <>[][config'[v] = config[v] /\ mem' = mem]_vars
            => <>[](rec.step = "define" => rec.vm # v)
=============================================================================
