----------------------------- MODULE DomainEdits -----------------------------
(***************************************************************************)
(* Everybody who edits the persistent document of one domain, together:    *)
(* the VNC and the TPM tab, which dump the document and define the edited  *)
(* one (virsh/vnc.go, virsh/tpm.go), the USB and PCI tabs, which attach    *)
(* and detach (AttachDeviceXML, DetachDeviceXML), the network tab, which   *)
(* detaches an interface and attaches another (SwitchInterface), the       *)
(* reconcilers of the pinned parts, and the official interface.  VncPins,  *)
(* TpmPins and HostdevPins have the details of each; here a part is in the *)
(* document or it is not, and the question is what the editors of one part *)
(* do to the parts of the others.                                          *)
(***************************************************************************)
EXTENDS Naturals, FiniteSets, World

CONSTANTS Defined,  \* parts that are edited by dumpxml and define
          Attached, \* parts that are attached and detached by one command
          Official, \* parts that the official interface can configure as well
          Net,      \* libvirt's networks, of which the interface has one; the
                    \* type that detach-interface is given is then always right
          Client    \* concurrent HTTP requests

Part == Defined \cup Attached

ASSUME OfficialAssumption == Official \subseteq Part

\* The interfaces with the MAC address of the one that is switched.
Doc  == [has : [Part -> BOOLEAN], nics : SUBSET Net]
Gone == [gone |-> TRUE]

VARIABLES config,   \* the persistent document, or Gone when there is no domain
          pins,     \* the parts that are pinned
          job,      \* job[c]: where request c is in its handler
          rec       \* rec[p]: where the reconciler of part p is

vars == <<config, pins, job, rec>>

Idle == [step |-> "idle"]

\* `dump` is what dumpxml answered; `seen` (history) what the document was.
Define == [step : {"define"}, part : Defined, on : BOOLEAN, dump : Doc, seen : Doc]

Job == [step : {"dump"}, part : Defined, on : BOOLEAN]
         \cup Define
         \cup [step : {"attach"}, part : Attached, on : BOOLEAN]
         \cup [step : {"pin"}, part : Part]
         \cup [step : {"look", "unplug", "plug"}, net : Net]

PassStep == [step : {"check"}, part : Part]
              \cup [step : {"dump"}, part : Defined, on : {TRUE}]
              \cup Define
              \cup [step : {"attach"}, part : Attached, on : {TRUE}]

TypeOK ==
    /\ config \in Doc \cup {Gone}
    /\ pins \in SUBSET Part
    /\ job \in [Client -> {Idle} \cup Job]
    /\ rec \in [Part -> {Idle} \cup PassStep]

\* The document of the official interface, with its own parts.
Template(own, nics) == [has |-> [p \in Part |-> p \in own], nics |-> nics]

Init ==
    /\ \E net \in Net : config = Template({}, {net})
    /\ pins = {}
    /\ job = [c \in Client |-> Idle]
    /\ rec = [p \in Part |-> Idle]

Exists == config # Gone

Becomes(c, work)    == job' = [job EXCEPT ![c] = work]
PassBecomes(p, work) == rec' = [rec EXCEPT ![p] = work]

-----------------------------------------------------------------------------
(* The commands.                                                           *)

Answers(ok) == IF ok THEN Exists ELSE ~Exists \/ "virsh" \in Events

Carried(o, can, new) ==
    \/ (Succeeds(o, can) \/ TimesOut(o, can)) /\ config' = new
    \/ Refuses(o, can) /\ UNCHANGED config

\* Mutant: the edit turns the part over.
Toggled(doc, p, on) == [doc EXCEPT !.has[p] = ~@]

Edited(doc, p, on) == [doc EXCEPT !.has[p] = on]

\* virsh refuses to attach what is there and to detach what is not.
CanAttach(p, on) == Exists /\ config.has[p] # on

\* "multiple interfaces matching MAC address" is an error as well.
CanUnplug == Exists /\ Cardinality(config.nics) = 1

\* Mutant: without --security-info libvirt leaves the password out.
Masked(doc, p) == [doc EXCEPT !.has = [q \in Part |-> q = p /\ doc.has[q]]]

\* What dumpxml answers to the editors of p.
Read(doc, p) == doc

DefineStep(p, on) ==
    [step |-> "define", part |-> p, on |-> on, dump |-> Read(config, p), seen |-> config]

-----------------------------------------------------------------------------
(* The tabs of the parts: POST puts the part into the document and pins    *)
(* it, DELETE unpins it and takes it out.                                  *)

\* Mutant: an attachment is dumped and defined as well.
EditByDefine(p, on) == [step |-> "dump", part |-> p, on |-> on]

EditStep(p, on) ==
    [step |-> IF p \in Defined THEN "dump" ELSE "attach", part |-> p, on |-> on]

Post(c, p) ==
    /\ job[c] = Idle
    /\ Becomes(c, EditStep(p, TRUE))
    /\ UNCHANGED <<config, pins, rec>>

Delete(c, p) ==
    /\ job[c] = Idle
    /\ pins' = pins \ {p}
    /\ Becomes(c, EditStep(p, FALSE))
    /\ UNCHANGED <<config, rec>>

Dump(c, ok) ==
    LET j == job[c]
    IN  /\ j.step = "dump"
        /\ Answers(ok)
        /\ Becomes(c, IF ok THEN DefineStep(j.part, j.on) ELSE Idle)
        /\ UNCHANGED <<config, pins, rec>>

After(j, o) == IF o = "ok" /\ j.on THEN [step |-> "pin", part |-> j.part] ELSE Idle

\* define replaces the whole document, or makes a domain that was deleted.
DefineDoc(c, o) ==
    LET j == job[c]
    IN  /\ j.step = "define"
        /\ Carried(o, TRUE, Edited(j.dump, j.part, j.on))
        /\ Becomes(c, After(j, o))
        /\ UNCHANGED <<pins, rec>>

\* Requests change a running domain as well, which may not fit.
Attach(c, o) ==
    LET j == job[c]
    IN  /\ j.step = "attach"
        /\ \E fits \in BOOLEAN :
             Carried(o, CanAttach(j.part, j.on) /\ fits, Edited(config, j.part, j.on))
        /\ Becomes(c, After(j, o))
        /\ UNCHANGED <<pins, rec>>

Pin(c) ==
    /\ job[c].step = "pin"
    /\ pins' = pins \cup {job[c].part}
    /\ Becomes(c, Idle)
    /\ UNCHANGED <<config, rec>>

-----------------------------------------------------------------------------
(* PUT /api/net: the interface is looked up, detached, and attached to the *)
(* other network.                                                          *)

Switch(c, net) ==
    /\ job[c] = Idle
    /\ Becomes(c, [step |-> "look", net |-> net])
    /\ UNCHANGED <<config, pins, rec>>

\* "no NIC with that mac on this VM" is a 404.
Look(c, ok) ==
    /\ job[c].step = "look"
    /\ Answers(ok)
    /\ Becomes(c, IF ok /\ config.nics # {} THEN [job[c] EXCEPT !.step = "unplug"] ELSE Idle)
    /\ UNCHANGED <<config, pins, rec>>

Unplug(c, o) ==
    /\ job[c].step = "unplug"
    /\ Carried(o, CanUnplug, [config EXCEPT !.nics = {}])
    /\ Becomes(c, IF o = "ok" THEN [job[c] EXCEPT !.step = "plug"] ELSE Idle)
    /\ UNCHANGED <<pins, rec>>

Plug(c, o) ==
    /\ job[c].step = "plug"
    /\ Carried(o, Exists, [config EXCEPT !.nics = @ \cup {job[c].net}])
    /\ Becomes(c, Idle)
    /\ UNCHANGED <<pins, rec>>

-----------------------------------------------------------------------------
(* A pass of the reconciler of one part, whose pin it read at the begin.   *)

PassBegin(p) ==
    /\ rec[p] = Idle
    /\ p \in pins
    /\ PassBecomes(p, [step |-> "check", part |-> p])
    /\ UNCHANGED <<config, pins, job>>

\* Mutant: every pass repairs.
AlwaysMissing(p) == TRUE

Missing(p) == ~config.has[p]

PassCheck(p, ok) ==
    /\ rec[p].step = "check"
    /\ Answers(ok)
    /\ PassBecomes(p, IF ok /\ Missing(p) THEN EditStep(p, TRUE) ELSE Idle)
    /\ UNCHANGED <<config, pins, job>>

PassDump(p, ok) ==
    /\ rec[p].step = "dump"
    /\ Answers(ok)
    /\ PassBecomes(p, IF ok THEN DefineStep(p, TRUE) ELSE Idle)
    /\ UNCHANGED <<config, pins, job>>

PassDefine(p, o) ==
    /\ rec[p].step = "define"
    /\ Carried(o, TRUE, Edited(rec[p].dump, p, TRUE))
    /\ PassBecomes(p, Idle)
    /\ UNCHANGED <<pins, job>>

PassAttach(p, o) ==
    /\ rec[p].step = "attach"
    /\ Carried(o, CanAttach(p, TRUE), Edited(config, p, TRUE))
    /\ PassBecomes(p, Idle)
    /\ UNCHANGED <<pins, job>>

-----------------------------------------------------------------------------
(* The rest of the world.                                                  *)

\* Requests and passes do not survive the daemon; the pins do, unless a save
\* failed: the file then has pins of any earlier time.
Restart ==
    /\ "crash" \in Events
    /\ job' = [c \in Client |-> Idle]
    /\ rec' = [p \in Part |-> Idle]
    /\ pins' \in IF "save" \in Events THEN SUBSET Part ELSE {pins}
    /\ UNCHANGED config

\* The official interface saves its template, or deletes or makes the VM.
Resave ==
    /\ "resave" \in Events /\ Exists
    /\ \E own \in SUBSET Official : config' = Template(own, config.nics)
    /\ UNCHANGED <<pins, job, rec>>

Undefine ==
    /\ "undefine" \in Events /\ Exists
    /\ config' = Gone
    /\ UNCHANGED <<pins, job, rec>>

Create ==
    /\ ~Exists
    /\ \E net \in Net : config' = Template({}, {net})
    /\ UNCHANGED <<pins, job, rec>>

Outside == Resave \/ Undefine \/ Create

Begin(c) == \/ \E p \in Part : Post(c, p) \/ Delete(c, p)
            \/ \E net \in Net : Switch(c, net)

Continue(c) ==
    \/ \E ok \in BOOLEAN : Dump(c, ok) \/ Look(c, ok)
    \/ \E o \in Outcome : DefineDoc(c, o) \/ Attach(c, o) \/ Unplug(c, o) \/ Plug(c, o)
    \/ Pin(c)

Pass(p) ==
    \/ PassBegin(p)
    \/ \E ok \in BOOLEAN : PassCheck(p, ok) \/ PassDump(p, ok)
    \/ \E o \in Outcome : PassDefine(p, o) \/ PassAttach(p, o)

Next ==
    \/ \E c \in Client : Begin(c) \/ Continue(c)
    \/ \E p \in Part : Pass(p)
    \/ Restart
    \/ Outside

Spec == Init /\ [][Next]_vars

\* As in VncPins: passes and requests go on, and virsh does not fail for ever.
Fairness ==
    /\ \A c \in Client : WF_vars(Continue(c))
    /\ \A p \in Part :
         /\ WF_vars(Pass(p))
         /\ SF_vars(PassCheck(p, TRUE)) /\ SF_vars(PassDump(p, TRUE))
         /\ SF_vars(PassDefine(p, "ok")) /\ SF_vars(PassAttach(p, "ok"))

FairSpec == Spec /\ Fairness

-----------------------------------------------------------------------------
\* What an actor is about to define was dumped from another document.
Stale(work) == work.step = "define" /\ work.seen # config

Differ(a, b) == {p \in Part : a.has[p] # b.has[p]}

(* The tabs and the reconcilers edit what is theirs: no step of the daemon *)
(* changes two parts of a document, or a part and an interface, unless it  *)
(* defines a document that was dumped before somebody changed it.  (What   *)
(* libvirt masks in a dump, define would drop: virsh/vnc.go:16-22.)        *)
OthersPartsKept ==
    [][/\ Exists /\ config' # Gone
       /\ job' # job \/ rec' # rec
       /\ \A c \in Client : job'[c] # job[c] => ~Stale(job[c])
       /\ \A p \in Part : rec'[p] # rec[p] => ~Stale(rec[p])
       => LET changed == Differ(config, config')
          IN  /\ Cardinality(changed) <= 1
              /\ changed # {} => config'.nics = config.nics]_vars

\* What a DELETE of p is about to do.
Removes(work, p) ==
    work.step \in {"define", "attach"} /\ work.part = p /\ ~work.on

(* No repair and no POST takes a part out of a document, its own or        *)
(* another's: a part that was there is gone after a DELETE of it, a change *)
(* from outside, or the define of a document that was dumped before        *)
(* somebody changed it.  (Defining "a domain that already has one leaves   *)
(* the existing device alone": virsh/tpm.go:70-72.)                        *)
RemovedOnRequest ==
    [][\A p \in Part :
         Exists /\ config' # Gone /\ config.has[p] /\ ~config'.has[p] =>
           \/ UNCHANGED <<job, rec>>
           \/ \E c \in Client :
                /\ job'[c] # job[c]
                /\ Stale(job[c]) \/ Removes(job[c], p)
           \/ \E q \in Part : rec'[q] # rec[q] /\ Stale(rec[q])]_vars

(* "Keep pinned USB and PCI passthroughs alive", "Keep pinned VNC console  *)
(* passwords applied" (main.go:169-175), together: when requests and the   *)
(* official interface leave a VM alone, the reconcilers, which start at    *)
(* the same time and overwrite each other's repairs, nevertheless reach a  *)
(* document with every pinned part, and keep it.                           *)
RepairsConverge ==
    /\ <>[](Exists /\ \A c \in Client : job[c] = Idle)
    /\ <>[][~Resave /\ ~Restart]_vars
    => <>[](Exists /\ \A p \in pins : config.has[p])
=============================================================================
