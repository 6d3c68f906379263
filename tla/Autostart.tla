------------------------------ MODULE Autostart ------------------------------
(***************************************************************************)
(* Boot orchestration and the keep-alive watchdog: internal/autostart      *)
(* (store.go), the PUT and DELETE handlers of autostartItem and the power  *)
(* handler of handlers.go, and what the host does around them.             *)
(*                                                                         *)
(* Run is started once by every daemon; a marker file on tmpfs says that   *)
(* it has finished in this boot.  RunWatchdog runs beside it and beside    *)
(* the requests.                                                           *)
(***************************************************************************)
EXTENDS Integers, PinStore

CONSTANTS VM,      \* the names of the virtual machines
          Client,  \* concurrent HTTP requests
          Put,     \* the entries a PUT may carry
          Tries    \* how often Run asks libvirt to answer (12 in the code)

Entry   == [enabled : BOOLEAN, order : Int, delay : Int, watchdog : BOOLEAN]
\* Get's answer for a VM without an entry; Run and RunWatchdog skip it.
NoEntry == [enabled |-> FALSE, order |-> 0, delay |-> 0, watchdog |-> FALSE]

\* What Set keeps of an entry.
Stored == [enabled : BOOLEAN, order : Int, delay : Nat, watchdog : BOOLEAN]

ASSUME PutAssumption == Put \subseteq Entry
ASSUME TriesAssumption == Tries \in Nat \ {0}

VARIABLES power,   \* power[v]: what `virsh domstate v` says
          native,  \* native[v]: libvirt's own autostart flag
          up,      \* libvirt answers
          marker,  \* the run marker exists
          run,     \* where Run is
          dog,     \* where RunWatchdog is in its pass
          job,     \* job[c]: where request c is in its handler
          byHand   \* history: the VMs the user has shut down in this boot
                   \* and not started again

host == <<power, native, up>>
vars == <<power, native, up, marker, mem, disk, unsaved, run, dog, job, byHand>>

Power == {"undefined", "shut off", "running", "paused", "crashed"}

Idle == [step |-> "idle"]
Item == [vm : VM, entry : Stored]

RunStep == [step : {"wait"}, tries : 0 .. Tries - 1]
             \cup [step : {"next"}, todo : SUBSET Item]
             \cup [step : {"state", "start", "delay"}, todo : SUBSET Item, vm : VM,
                   delay : Nat]
DogStep == [step : {"next"}, todo : SUBSET Item]
             \cup [step : {"start"}, todo : SUBSET Item, vm : VM]
Job     == [step : {"put sync", "delete"}, vm : VM]

TypeOK ==
    /\ power \in [VM -> Power]
    /\ native \in [VM -> BOOLEAN]
    /\ up \in BOOLEAN /\ marker \in BOOLEAN /\ unsaved \in BOOLEAN
    /\ mem \in [VM -> Stored]
    /\ disk \in [VM -> Stored]
    /\ run \in {Idle} \cup RunStep
    /\ dog \in {Idle} \cup DogStep
    /\ job \in [Client -> {Idle} \cup Job]
    /\ byHand \subseteq VM

\* Mutant: a negative delay is kept.
AsGiven(e) == e

\* Set: a negative delay becomes zero.
Normalised(e) == [e EXCEPT !.delay = IF @ < 0 THEN 0 ELSE @]

Waiting == [step |-> "wait", tries |-> 0]

\* The host has booted, and the daemon with it.
Init ==
    /\ native \in [VM -> BOOLEAN]
    /\ up \in IF "slow libvirt" \in Events THEN BOOLEAN ELSE {TRUE}
    /\ power = [v \in VM |-> IF native[v] /\ up THEN "running" ELSE "shut off"]
    /\ marker = FALSE
    /\ mem \in [VM -> {Normalised(e) : e \in Put} \cup {NoEntry}]
    /\ disk = mem
    /\ unsaved = FALSE
    /\ run = Waiting
    /\ dog = Idle
    /\ job = [c \in Client |-> Idle]
    /\ byHand = {}

-----------------------------------------------------------------------------
(* virsh.  Every call fails while libvirt does not answer.                 *)

Answers(v, ok) ==
    IF ok THEN up /\ power[v] # "undefined"
          ELSE ~up \/ power[v] = "undefined" \/ "virsh" \in Events

\* Mutant: a crashed VM is taken to be up.
ShutOff(v) == power[v] = "shut off"

Off(v) == power[v] \in {"shut off", "crashed"}

\* virsh start: "late" is a start that is reported as failed by the timeout.
StartDomain(v, o) ==
    \/ /\ up /\ Off(v)
       /\ o = "ok" \/ (o = "late" /\ "virsh" \in Events)
       /\ power' = [power EXCEPT ![v] = "running"]
    \/ /\ o = "error"
       /\ ~up \/ ~Off(v) \/ "virsh" \in Events
       /\ UNCHANGED power

\* virsh autostart --disable.
ClearNative(v, ok) ==
    /\ Answers(v, ok)
    /\ native' = IF ok THEN [native EXCEPT ![v] = FALSE] ELSE native

-----------------------------------------------------------------------------
(* Run.                                                                    *)

EntryOf(v) == [vm |-> v, entry |-> mem[v]]

\* Mutant: the wrong flag.
EnabledIfWatched == {EntryOf(v) : v \in {w \in VM : mem[w].watchdog}}

Enabled == {EntryOf(v) : v \in {w \in VM : mem[w].enabled}}
Watched == {EntryOf(v) : v \in {w \in VM : mem[w].watchdog}}

\* All() is sorted by Order; entries of equal order come in any order.
First(todo, i) == i \in todo /\ \A k \in todo : i.entry.order <= k.entry.order

Onward(todo) == [step |-> "next", todo |-> todo]

\* ListDomains, and when it answers All().
RunWait(ok) ==
    /\ run.step = "wait"
    /\ IF ok THEN up ELSE ~up \/ "virsh" \in Events
    /\ run' = IF ok THEN Onward(Enabled)
              ELSE IF run.tries + 1 < Tries THEN [run EXCEPT !.tries = @ + 1]
              ELSE Idle
    /\ UNCHANGED <<host, marker, store, dog, job, byHand>>

\* SetAutostart(e.Name, false), whose error is only logged.
RunNext(i, ok) ==
    /\ run.step = "next"
    /\ First(run.todo, i)
    /\ ClearNative(i.vm, ok)
    /\ run' = [step |-> "state", todo |-> run.todo \ {i}, vm |-> i.vm,
               delay |-> i.entry.delay]
    /\ UNCHANGED <<power, up, marker, store, dog, job, byHand>>

RunState(ok) ==
    /\ run.step = "state"
    /\ Answers(run.vm, ok)
    /\ run' = IF ok /\ power[run.vm] # "running" THEN [run EXCEPT !.step = "start"]
                                                ELSE Onward(run.todo)
    /\ UNCHANGED <<host, marker, store, dog, job, byHand>>

RunStart(o) ==
    /\ run.step = "start"
    /\ StartDomain(run.vm, o)
    /\ run' = IF o = "ok" /\ run.delay > 0 THEN [run EXCEPT !.step = "delay"]
                                           ELSE Onward(run.todo)
    /\ UNCHANGED <<native, up, marker, store, dog, job, byHand>>

RunDelay ==
    /\ run.step = "delay"
    /\ run' = Onward(run.todo)
    /\ UNCHANGED <<host, marker, store, dog, job, byHand>>

RunMark(ok) ==
    /\ run.step = "next"
    /\ run.todo = {}
    /\ ok \/ "save" \in Events
    /\ marker' = ok
    /\ run' = Idle
    /\ UNCHANGED <<host, store, dog, job, byHand>>

-----------------------------------------------------------------------------
(* RunWatchdog: every 30 seconds, unless the marker is missing.            *)

DogRest(todo) == IF todo = {} THEN Idle ELSE Onward(todo)

\* Mutant: a pass that does not wait for Run.
DogBeginAlways ==
    /\ dog = Idle
    /\ dog' = DogRest(Watched)
    /\ UNCHANGED <<host, marker, store, run, job, byHand>>

DogBegin ==
    /\ dog = Idle
    /\ marker
    /\ dog' = DogRest(Watched)
    /\ UNCHANGED <<host, marker, store, run, job, byHand>>

DogState(i, ok) ==
    /\ dog.step = "next"
    /\ First(dog.todo, i)
    /\ Answers(i.vm, ok)
    /\ dog' = IF ok /\ Off(i.vm)
                THEN [step |-> "start", todo |-> dog.todo \ {i}, vm |-> i.vm]
                ELSE DogRest(dog.todo \ {i})
    /\ UNCHANGED <<host, marker, store, run, job, byHand>>

DogStart(v, o) ==
    /\ dog.step = "start"
    /\ v = dog.vm
    /\ StartDomain(v, o)
    /\ dog' = DogRest(dog.todo)
    /\ UNCHANGED <<native, up, marker, store, run, job, byHand>>

-----------------------------------------------------------------------------
(* The requests.                                                           *)

\* PUT: Set, and when that succeeds SetAutostart(name, false).
PutEntry(c, v, e, ok) ==
    /\ job[c] = Idle
    /\ Save([mem EXCEPT ![v] = Normalised(e)], ok)
    /\ job' = IF ok THEN [job EXCEPT ![c] = [step |-> "put sync", vm |-> v]]
                    ELSE job
    /\ UNCHANGED <<host, marker, run, dog, byHand>>

PutSync(c, ok) ==
    /\ job[c].step = "put sync"
    /\ ClearNative(job[c].vm, ok)
    /\ job' = [job EXCEPT ![c] = Idle]
    /\ UNCHANGED <<power, up, marker, store, run, dog, byHand>>

\* DELETE: SetAutostart(name, false), whose error is ignored, and Delete.
DeleteBegin(c, v, ok) ==
    /\ job[c] = Idle
    /\ ClearNative(v, ok)
    /\ job' = [job EXCEPT ![c] = [step |-> "delete", vm |-> v]]
    /\ UNCHANGED <<power, up, marker, store, run, dog, byHand>>

DeleteEntry(c, ok) ==
    /\ job[c].step = "delete"
    /\ Save([mem EXCEPT ![job[c].vm] = NoEntry], ok)
    /\ job' = [job EXCEPT ![c] = Idle]
    /\ UNCHANGED <<host, marker, run, dog, byHand>>

\* POST /api/power: one virsh command.  A polite shutdown ends when the guest
\* ends it; a reboot keeps the domain running.
PowerRequest(v) ==
    /\ up
    /\ \/ /\ "power" \in Events /\ Off(v)
          /\ power' = [power EXCEPT ![v] = "running"]
          /\ byHand' = byHand \ {v}
       \/ /\ "power" \in Events /\ power[v] \in {"running", "paused"}
          /\ power' = [power EXCEPT ![v] = "shut off"]
          /\ byHand' = byHand \cup {v}
       \/ /\ "pause" \in Events /\ power[v] = "running"
          /\ power' = [power EXCEPT ![v] = "paused"]
          /\ UNCHANGED byHand
       \/ /\ "pause" \in Events /\ power[v] = "paused"
          /\ power' = [power EXCEPT ![v] = "running"]
          /\ UNCHANGED byHand
    /\ UNCHANGED <<native, up, marker, store, run, dog, job>>

-----------------------------------------------------------------------------
(* The host.                                                               *)

\* The guest shuts itself down, or crashes.
GuestStops(v) ==
    /\ "guest" \in Events
    /\ power[v] = "running"
    /\ \E s \in {"shut off", "crashed"} : power' = [power EXCEPT ![v] = s]
    /\ UNCHANGED <<native, up, marker, store, run, dog, job, byHand>>

Undefine(v) ==
    /\ "undefine" \in Events
    /\ Off(v)
    /\ power' = [power EXCEPT ![v] = "undefined"]
    /\ UNCHANGED <<native, up, marker, store, run, dog, job, byHand>>

\* libvirt answers, and starts the domains whose native flag is set.
LibvirtUp ==
    /\ ~up
    /\ up' = TRUE
    /\ power' = [v \in VM |-> IF native[v] /\ Off(v) THEN "running" ELSE power[v]]
    /\ UNCHANGED <<native, marker, store, run, dog, job, byHand>>

\* Mutant: Run does not look at the marker.
DaemonStartsAnew(marked) ==
    /\ run' = Waiting
    /\ dog' = Idle
    /\ job' = [c \in Client |-> Idle]

\* A daemon that starts: NewStore, and Run unless the marker is there.
DaemonStarts(marked) ==
    /\ run' = IF marked THEN Idle ELSE Waiting
    /\ dog' = Idle
    /\ job' = [c \in Client |-> Idle]

Restart ==
    /\ Reload
    /\ DaemonStarts(marker)
    /\ UNCHANGED <<host, marker, byHand>>

\* tmpfs is emptied.
HostReboot ==
    /\ "reboot" \in Events
    /\ mem' = disk /\ unsaved' = FALSE /\ UNCHANGED disk
    /\ marker' = FALSE
    /\ DaemonStarts(FALSE)
    /\ up' \in IF "slow libvirt" \in Events THEN BOOLEAN ELSE {TRUE}
    /\ power' = [v \in VM |-> IF power[v] = "undefined" THEN "undefined"
                              ELSE IF native[v] /\ up' THEN "running"
                              ELSE "shut off"]
    /\ byHand' = {}
    /\ UNCHANGED native

Orchestrate ==
    \/ \E ok \in BOOLEAN : RunWait(ok) \/ RunState(ok) \/ RunMark(ok)
    \/ run.step = "next" /\ \E i \in run.todo, ok \in BOOLEAN : RunNext(i, ok)
    \/ \E o \in {"ok", "late", "error"} : RunStart(o)
    \/ RunDelay

Watch ==
    \/ DogBegin
    \/ dog.step = "next" /\ \E i \in dog.todo, ok \in BOOLEAN : DogState(i, ok)
    \/ \E v \in VM, o \in {"ok", "late", "error"} : DogStart(v, o)

Request(c) ==
    \/ \E v \in VM, e \in Put, ok \in BOOLEAN : PutEntry(c, v, e, ok)
    \/ \E v \in VM, ok \in BOOLEAN : DeleteBegin(c, v, ok)
    \/ \E ok \in BOOLEAN : PutSync(c, ok) \/ DeleteEntry(c, ok)

Next ==
    \/ Orchestrate
    \/ Watch
    \/ \E c \in Client : Request(c)
    \/ \E v \in VM : PowerRequest(v) \/ GuestStops(v) \/ Undefine(v)
    \/ LibvirtUp \/ Restart \/ HostReboot

Spec == Init /\ [][Next]_vars

(***************************************************************************)
(* Run and the watchdog's ticker go on for the daemon's life: every virsh  *)
(* call ends within ten seconds and every delay is finite.  libvirt        *)
(* answers in the end, and the watchdog's calls about one VM do not all    *)
(* fail.                                                                   *)
(***************************************************************************)
DogSees(v) == dog.step = "next" /\ \E i \in dog.todo : i.vm = v /\ DogState(i, TRUE)

Fairness ==
    /\ WF_vars(Orchestrate)
    /\ WF_vars(Watch)
    /\ WF_vars(LibvirtUp)
    /\ \A v \in VM : SF_vars(DogSees(v)) /\ SF_vars(DogStart(v, "ok"))

FairSpec == Spec /\ Fairness

-----------------------------------------------------------------------------
(* "Stay dormant until boot orchestration (Run) has finished"              *)
(* (store.go:232-234): the watchdog is never in a pass while Run is, over  *)
(* restarts of the daemon and reboots of the host.                         *)
WatchdogDormant == dog # Idle => run = Idle

(* Once orchestration has finished in this boot no daemon runs it again:   *)
(* the marker is never there beside a Run that can start a VM.             *)
OrchestratedOnce == marker => run = Idle

(* Run starts every VM that is enabled when it begins, unless the VM is    *)
(* disabled, deleted or shut down by hand in the meantime, or is paused.   *)
EnabledVMStarts ==
    \A v \in VM :
        run = Waiting /\ mem[v].enabled
            ~> \/ power[v] \in {"running", "paused", "undefined"}
               \/ ~mem[v].enabled
               \/ v \in byHand

(* "RunWatchdog keeps watchdog-enabled VMs running" (store.go:220-223): a  *)
(* VM that keeps its watchdog and is not deleted is never left stopped.    *)
KeepAlive ==
    \A v \in VM :
        <>[](mem[v].watchdog /\ power[v] # "undefined" /\ up)
            => []<>(power[v] \notin {"shut off", "crashed"})
=============================================================================
