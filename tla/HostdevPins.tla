----------------------------- MODULE HostdevPins -----------------------------
(***************************************************************************)
(* Pinned USB and PCI passthrough: internal/usb/store.go and               *)
(* internal/pci/store.go (the same program over two kinds of identifier),  *)
(* the POST and DELETE handlers of handlers.go (usbDomain, pciDomain) and  *)
(* the virsh calls they make.                                              *)
(*                                                                         *)
(* Every HTTP request is a goroutine of its own and the reconciler is      *)
(* another; the only lock is the store's mutex.  A step of this module is  *)
(* what one of them does up to and including its next virsh command or     *)
(* store call.                                                             *)
(***************************************************************************)
EXTENDS Libvirt, PinStore

CONSTANTS Client,    \* concurrent HTTP requests
          Spelling,  \* the identifiers a request may carry
          Canon      \* Canon[s]: s in lower case, as HostdevXML writes it

\* strings.ToLower is idempotent.
ASSUME CanonAssumption ==
    /\ Canon \in [Spelling -> Spelling]
    /\ \A s \in Spelling : Canon[Canon[s]] = Canon[s]

VARIABLES job,    \* job[c]: where request c is in its handler
          rec,    \* where the reconciler is in its pass
          acked,  \* history: pins whose POST was answered 201
          gone    \* history: devices whose last answered request is a
                  \* DELETE with status 200

vars  == <<power, config, live, mem, disk, unsaved, job, rec, acked, gone>>

Device == {Canon[s] : s \in Spelling}
Pin    == [vm : VM, id : Spelling]

DeviceOf(p) == <<p.vm, Canon[p.id]>>

Idle == [step |-> "idle"]

PostJob   == [step : {"post state", "post attach", "post pin"}, pin : Pin,
              persistent : BOOLEAN, running : BOOLEAN]
DeleteJob == [step : {"delete state", "delete detach"}, pin : Pin,
              running : BOOLEAN]
PassStep  == [step : {"next"}, todo : SUBSET Pin]
               \cup [step : {"has", "attach"}, todo : SUBSET Pin, pin : Pin]

TypeOK ==
    /\ power \in [VM -> Power]
    /\ config \in [VM -> SUBSET Device]
    /\ live \in [VM -> SUBSET Device]
    /\ mem \subseteq Pin
    /\ disk \subseteq Pin
    /\ unsaved \in BOOLEAN
    /\ job \in [Client -> {Idle} \cup PostJob \cup DeleteJob]
    /\ rec \in {Idle} \cup PassStep
    /\ acked \subseteq Pin
    /\ gone \subseteq (VM \X Device)

Init ==
    /\ power = [v \in VM |-> "shut off"]
    /\ config = [v \in VM |-> {}]
    /\ live = [v \in VM |-> {}]
    /\ StoreInit({})
    /\ job = [c \in Client |-> Idle]
    /\ rec = Idle
    /\ acked = {} /\ gone = {}

-----------------------------------------------------------------------------
(* Pinning and unpinning: Store.data is a set of pins (the Description is  *)
(* left out), keyed by the identifier as it was spelled.                   *)

Add(p, ok) ==
    /\ Save(mem \cup {p}, ok)
    /\ acked' = IF ok THEN acked \cup {p} ELSE acked

\* Mutant: every pin of the VM goes.
RemoveVM(p, ok) ==
    /\ Save({q \in mem : q.vm # p.vm}, ok)
    /\ acked' = acked \ {p}

\* Mutant: the pin stays.
RemoveNothing(p, ok) ==
    /\ Save(mem, ok)
    /\ acked' = acked \ {p}

Remove(p, ok) ==
    /\ Save(mem \ {p}, ok)
    /\ acked' = acked \ {p}

-----------------------------------------------------------------------------
(* virsh attach-device and detach-device.  Without --live and --config     *)
(* virsh takes the legacy call, which changes the live domain only.        *)

\* Mutant: the identifier is not lower-cased.
HostdevAsSpelled(id) == id

\* The device a HostdevXML names.
Hostdev(id) == Canon[id]

Scope(running, persistent) ==
    LET flags == (IF running THEN {"live"} ELSE {})
                   \cup (IF persistent THEN {"config"} ELSE {})
    IN  IF flags = {} THEN {"live"} ELSE flags

CanAttach(v, d, scope) ==
    /\ Exists(v)
    /\ "live" \in scope => Active(v) /\ d \notin live[v]
    /\ "config" \in scope => d \notin config[v]

CanDetach(v, d, scope) ==
    /\ Exists(v)
    /\ "live" \in scope => Active(v) /\ d \in live[v]
    /\ "config" \in scope => d \in config[v]

Attach(v, d, scope) ==
    /\ live' = IF "live" \in scope THEN [live EXCEPT ![v] = @ \cup {d}] ELSE live
    /\ config' = IF "config" \in scope THEN [config EXCEPT ![v] = @ \cup {d}]
                                        ELSE config
    /\ UNCHANGED power

Detach(v, d, scope) ==
    /\ live' = IF "live" \in scope THEN [live EXCEPT ![v] = @ \ {d}] ELSE live
    /\ config' = IF "config" \in scope THEN [config EXCEPT ![v] = @ \ {d}]
                                        ELSE config
    /\ UNCHANGED power

AttachDevice(v, d, scope, o) ==
    LET can == CanAttach(v, d, scope)
    IN  \/ (Succeeds(o, can) \/ TimesOut(o, can)) /\ Attach(v, d, scope)
        \/ Refuses(o, can) /\ UNCHANGED libvirt

DetachDevice(v, d, scope, o) ==
    LET can == CanDetach(v, d, scope)
    IN  \/ (Succeeds(o, can) \/ TimesOut(o, can)) /\ Detach(v, d, scope)
        \/ Refuses(o, can) /\ UNCHANGED libvirt

\* `state, _ := c.State(domain)`: an error reads as "not running".
SeesRunning(v, running) ==
    \/ running = (power[v] = "running")
    \/ running = FALSE /\ "virsh" \in Events

-----------------------------------------------------------------------------
(* POST: attach, and when the request is persistent, pin.                  *)

PostBegin(c) ==
    /\ job[c] = Idle
    /\ \E p \in Pin, persistent \in BOOLEAN :
         job' = [job EXCEPT ![c] = [step |-> "post state", pin |-> p,
                                    persistent |-> persistent, running |-> FALSE]]
    /\ UNCHANGED <<power, config, live, store, rec, acked, gone>>

PostState(c) ==
    /\ job[c].step = "post state"
    /\ \E running \in BOOLEAN :
         /\ SeesRunning(job[c].pin.vm, running)
         /\ job' = [job EXCEPT ![c] = [step |-> "post attach", pin |-> job[c].pin,
                         persistent |-> job[c].persistent, running |-> running]]
    /\ UNCHANGED <<power, config, live, store, rec, acked, gone>>

PostAttach(c) ==
    LET j == job[c]
    IN  /\ j.step = "post attach"
        /\ \E o \in Outcome :
             /\ AttachDevice(j.pin.vm, Hostdev(j.pin.id),
                             Scope(j.running, j.persistent), o)
             /\ job' = [job EXCEPT ![c] =
                          IF o = "ok" /\ j.persistent
                            THEN [step |-> "post pin", pin |-> j.pin,
                                  persistent |-> TRUE, running |-> FALSE]
                            ELSE Idle]
        /\ UNCHANGED <<store, rec, acked, gone>>

PostPin(c) ==
    LET p == job[c].pin
    IN  /\ job[c].step = "post pin"
        /\ \E ok \in BOOLEAN : Add(p, ok)
        /\ gone' = gone \ {DeviceOf(p)}
        /\ job' = [job EXCEPT ![c] = Idle]
        /\ UNCHANGED <<power, config, live, rec>>

-----------------------------------------------------------------------------
(* DELETE: unpin (a failed save is ignored), then detach.                  *)

DeleteUnpin(c) ==
    /\ job[c] = Idle
    /\ \E p \in Pin, ok \in BOOLEAN :
         /\ Remove(p, ok)
         /\ job' = [job EXCEPT ![c] = [step |-> "delete state", pin |-> p,
                                       running |-> FALSE]]
    /\ UNCHANGED <<power, config, live, rec, gone>>

DeleteState(c) ==
    /\ job[c].step = "delete state"
    /\ \E running \in BOOLEAN :
         /\ SeesRunning(job[c].pin.vm, running)
         /\ job' = [job EXCEPT ![c] = [step |-> "delete detach",
                                       pin |-> job[c].pin, running |-> running]]
    /\ UNCHANGED <<power, config, live, store, rec, acked, gone>>

DeleteDetach(c) ==
    LET j == job[c]
    IN  /\ j.step = "delete detach"
        /\ \E o \in Outcome :
             /\ DetachDevice(j.pin.vm, Hostdev(j.pin.id), Scope(j.running, TRUE), o)
             /\ gone' = IF o = "ok" THEN gone \cup {DeviceOf(j.pin)} ELSE gone
        /\ job' = [job EXCEPT ![c] = Idle]
        /\ UNCHANGED <<store, rec, acked>>

-----------------------------------------------------------------------------
(* One pass of the reconciler over the pins it found when it began.        *)

Rest(todo) == IF todo = {} THEN Idle ELSE [step |-> "next", todo |-> todo]

PassBegin ==
    /\ rec = Idle
    /\ mem # {}
    /\ rec' = Rest(mem)
    /\ UNCHANGED <<power, config, live, store, job, acked, gone>>

\* State(p.VM): only its error matters, and it skips this pin alone.
PassState(p, ok) ==
    /\ rec.step = "next"
    /\ p \in rec.todo
    /\ rec' = IF ok THEN [step |-> "has", todo |-> rec.todo \ {p}, pin |-> p]
                    ELSE Rest(rec.todo \ {p})
    /\ IF ok THEN Exists(p.vm) ELSE ~Exists(p.vm) \/ "virsh" \in Events
    /\ UNCHANGED <<power, config, live, store, job, acked, gone>>

\* HasUSBHostdev, HasPCIHostdev: the answer may be stale when it is used.
PassHas(p, ok) ==
    /\ rec.step = "has"
    /\ p = rec.pin
    /\ rec' = IF ok /\ Canon[p.id] \notin config[p.vm]
                THEN [step |-> "attach", todo |-> rec.todo, pin |-> p]
                ELSE Rest(rec.todo)
    /\ IF ok THEN Exists(p.vm) ELSE ~Exists(p.vm) \/ "virsh" \in Events
    /\ UNCHANGED <<power, config, live, store, job, acked, gone>>

\* Mutant: without --config.
PassAttachLive(p, o) ==
    /\ rec.step = "attach"
    /\ p = rec.pin
    /\ AttachDevice(p.vm, Hostdev(p.id), {"live"}, o)
    /\ rec' = Rest(rec.todo)
    /\ UNCHANGED <<store, job, acked, gone>>

PassAttach(p, o) ==
    /\ rec.step = "attach"
    /\ p = rec.pin
    /\ AttachDevice(p.vm, Hostdev(p.id), {"config"}, o)
    /\ rec' = Rest(rec.todo)
    /\ UNCHANGED <<store, job, acked, gone>>

-----------------------------------------------------------------------------
(* The daemon stops and starts again: requests and pass are lost, the map  *)
(* is loaded from the file.                                                *)

Restart ==
    /\ Reload
    /\ job' = [c \in Client |-> Idle]
    /\ rec' = Idle
    /\ UNCHANGED <<power, config, live, acked, gone>>

Environment(v) ==
    /\ \/ Start(v) \/ Shutdown(v, {}) \/ Pause(v) \/ Resume(v)
       \/ Undefine(v, {}) \/ Create(v) \/ Resave(v, {})
    /\ UNCHANGED <<store, job, rec, acked, gone>>

Request(c) ==
    \/ PostBegin(c) \/ PostState(c) \/ PostAttach(c) \/ PostPin(c)
    \/ DeleteUnpin(c) \/ DeleteState(c) \/ DeleteDetach(c)

Pass ==
    \/ PassBegin
    \/ \E p \in Pin, ok \in BOOLEAN : PassState(p, ok) \/ PassHas(p, ok)
    \/ \E p \in Pin, o \in Outcome : PassAttach(p, o)

Next ==
    \/ \E c \in Client : Request(c)
    \/ Pass
    \/ Restart
    \/ \E v \in VM : Environment(v)

Spec == Init /\ [][Next]_vars

(***************************************************************************)
(* RunReconciler keeps a ticker running for the daemon's life, and every   *)
(* virsh call ends (after ten seconds at the latest): weak fairness of the *)
(* pass.  That libvirt, asked again and again about the same pin, does not *)
(* fail every time is an assumption about the host: strong fairness of the *)
(* successful calls.                                                       *)
(***************************************************************************)
Fairness ==
    /\ WF_vars(Pass)
    /\ \A p \in Pin : /\ SF_vars(PassState(p, TRUE))
                      /\ SF_vars(PassHas(p, TRUE))
                      /\ SF_vars(PassAttach(p, "ok"))

FairSpec == Spec /\ Fairness

-----------------------------------------------------------------------------
(* A pin whose POST was answered 201 and that no DELETE has named since is *)
(* in memory and in the file: no other request's save, no failed save and  *)
(* no restart loses it.                                                    *)
AckedPinSurvives == acked \subseteq mem /\ acked \subseteq disk

(* A device whose last answered request is a successful DELETE is not      *)
(* pinned, under any spelling: "Unpin first so the reconciler will not     *)
(* immediately re-add it" (handlers.go:724, 829), for every later pass.    *)
DeletedIsUnpinned == \A p \in mem : DeviceOf(p) \notin gone

(* The same comment, for every pass: the reconciler never puts a device    *)
(* back whose last answered request is a successful DELETE.                *)
DeletedStaysOut ==
    [][\A v \in VM, d \in Device :
         (<<v, d>> \in gone /\ rec' # rec /\ d \in config'[v]) => d \in config[v]]_vars

(***************************************************************************)
(* One device and one VM as DomainEdits sees them, which knows persistent  *)
(* documents only: a request that is not persistent does nothing there.    *)
(***************************************************************************)
Names(p, v, d) == p.vm = v /\ Canon[p.id] = d

DocOf(has, d) == [has |-> [p \in {"device"} |-> d \in has], nics |-> {"net"}]

ConfigOf(v, d) == IF Exists(v) THEN DocOf(config[v], d) ELSE [gone |-> TRUE]

PinsOf(v, d) == IF \E p \in mem : Names(p, v, d) THEN {"device"} ELSE {}

AttachOf(on) == [step |-> "attach", part |-> "device", on |-> on]

RequestOf(v, d, j) ==
    IF j.step = "idle" \/ ~Names(j.pin, v, d) THEN Idle
    ELSE IF j.step \in {"delete state", "delete detach"} THEN AttachOf(FALSE)
    ELSE IF j.step = "post pin" THEN [step |-> "pin", part |-> "device"]
    ELSE IF j.persistent THEN AttachOf(TRUE)
    ELSE Idle

Listed(v, d)        == rec # Idle /\ \E p \in rec.todo : Names(p, v, d)
WorksOn(v, d, step) == rec.step = step /\ Names(rec.pin, v, d)

PassOf(v, d) ==
    IF Listed(v, d) \/ WorksOn(v, d, "has") THEN [step |-> "check", part |-> "device"]
    ELSE IF WorksOn(v, d, "attach") THEN AttachOf(TRUE)
    ELSE Idle

RequestsOf(v, d) == [c \in Client |-> RequestOf(v, d, job[c])]
PassesOf(v, d)   == [p \in {"device"} |-> PassOf(v, d)]

Edits(v, d) == INSTANCE DomainEdits
                 WITH Defined <- {}, Attached <- {"device"}, Official <- {}, Net <- {"net"},
                      config <- ConfigOf(v, d), pins <- PinsOf(v, d),
                      job <- RequestsOf(v, d), rec <- PassesOf(v, d)

(* What DomainEdits says of a part that is attached and detached is what   *)
(* the requests and the reconciler do to each device of each VM, whatever  *)
(* they do to the others in between, as long as a device has one spelling. *)
EditsImplemented ==
    /\ \A v \in VM, d \in Device : Edits(v, d)!Init
    /\ [][\A v \in VM, d \in Device : [Edits(v, d)!Next]_(Edits(v, d)!vars)]_vars

(* A device that stays pinned to a VM that stays defined is in the VM's    *)
(* persistent config again and again, however often the official UI saves  *)
(* the VM without it, and whatever happens to other VMs and their pins.    *)
EveryPinRestored ==
    \A p \in Pin :
        <>[](p \in mem /\ Exists(p.vm)) => []<>(Canon[p.id] \in config[p.vm])
=============================================================================
