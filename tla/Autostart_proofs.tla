--------------------------- MODULE Autostart_proofs ---------------------------
(***************************************************************************)
(* What is proved about Autostart for every set of VMs, requests, entries, *)
(* events and number of tries.                                             *)
(***************************************************************************)
EXTENDS Autostart, TLAPS

USE DEF store, host

-----------------------------------------------------------------------------
(* Type correctness.                                                       *)

LEMMA NormalisedIsStored ==
    ASSUME NEW e \in Entry
    PROVE  Normalised(e) \in Stored
BY DEF Normalised, Entry, Stored

LEMMA NoEntryIsStored == NoEntry \in Stored
BY DEF NoEntry, Stored

LEMMA ItemsOfStore ==
    ASSUME mem \in [VM -> Stored]
    PROVE  Enabled \subseteq Item /\ Watched \subseteq Item
BY DEF Enabled, Watched, EntryOf, Item

LEMMA OnwardType ==
    ASSUME NEW todo \in SUBSET Item
    PROVE  /\ Onward(todo) \in RunStep
           /\ DogRest(todo) \in {Idle} \cup DogStep
BY DEF Onward, DogRest, RunStep, DogStep

LEMMA RunAt ==
    ASSUME NEW todo \in SUBSET Item, NEW v \in VM, NEW delay \in Nat,
           NEW step \in {"state", "start", "delay"}
    PROVE  [step |-> step, todo |-> todo, vm |-> v, delay |-> delay] \in RunStep
BY DEF RunStep

LEMMA DogAt ==
    ASSUME NEW todo \in SUBSET Item, NEW v \in VM
    PROVE  [step |-> "start", todo |-> todo, vm |-> v] \in DogStep
BY DEF DogStep

\* What a Run that is not idle carries.
LEMMA RunHas ==
    ASSUME TypeOK
    PROVE  /\ run.step = "wait" => run \in [step : {"wait"}, tries : 0 .. Tries - 1]
           /\ run.step = "next" => run.todo \in SUBSET Item
           /\ run.step \in {"state", "start", "delay"}
                => run \in [step : {"state", "start", "delay"}, todo : SUBSET Item,
                            vm : VM, delay : Nat]
<1>1. CASE run = Idle
  BY <1>1 DEF Idle
<1>2. CASE run \in RunStep
  BY <1>2 DEF RunStep
<1> QED
  BY <1>1, <1>2 DEF TypeOK

\* What a pass that is not idle carries.
LEMMA DogHas ==
    ASSUME TypeOK
    PROVE  dog.step \in {"next", "start"} => dog.todo \in SUBSET Item
<1>1. CASE dog = Idle
  BY <1>1 DEF Idle
<1>2. CASE dog \in DogStep
  BY <1>2 DEF DogStep
<1> QED
  BY <1>1, <1>2 DEF TypeOK

LEMMA WaitingType == Waiting \in RunStep
BY TriesAssumption DEF Waiting, RunStep

LEMMA StartTypes ==
    ASSUME TypeOK, NEW v \in VM, NEW o, StartDomain(v, o)
    PROVE  power' \in [VM -> Power]
BY DEF TypeOK, StartDomain, Power

LEMMA ClearTypes ==
    ASSUME TypeOK, NEW v \in VM, NEW ok, ClearNative(v, ok)
    PROVE  native' \in [VM -> BOOLEAN]
BY DEF TypeOK, ClearNative

LEMMA OrchestrateTypes ==
    ASSUME TypeOK, Orchestrate
    PROVE  TypeOK'
<1>1. ASSUME NEW ok \in BOOLEAN, RunWait(ok)
      PROVE  TypeOK'
  <2>1. run \in [step : {"wait"}, tries : 0 .. Tries - 1]
    BY <1>1, RunHas DEF RunWait
  <2>2. Enabled \subseteq Item
    BY ItemsOfStore DEF TypeOK
  <2>3. run.tries + 1 < Tries
          => [run EXCEPT !.tries = @ + 1] \in [step : {"wait"}, tries : 0 .. Tries - 1]
    BY <2>1, TriesAssumption
  <2>4. run' \in {Idle} \cup RunStep
    BY <1>1, <2>2, <2>3, OnwardType DEF RunWait, RunStep
  <2> QED
    BY <1>1, <2>4 DEF RunWait, TypeOK
<1>2. ASSUME NEW i \in run.todo, NEW ok \in BOOLEAN, RunNext(i, ok)
      PROVE  TypeOK'
  <2>1. run.todo \in SUBSET Item
    BY <1>2, RunHas DEF RunNext
  <2>2. i.vm \in VM /\ i.entry.delay \in Nat
    BY <2>1 DEF Item, Stored
  <2>3. run' \in RunStep
    BY <1>2, <2>1, <2>2, RunAt DEF RunNext
  <2>4. native' \in [VM -> BOOLEAN]
    BY <1>2, <2>2, ClearTypes DEF RunNext
  <2> QED
    BY <1>2, <2>3, <2>4 DEF RunNext, TypeOK
<1>3. ASSUME NEW ok \in BOOLEAN, RunState(ok)
      PROVE  TypeOK'
  <2>1. run \in [step : {"state", "start", "delay"}, todo : SUBSET Item,
                 vm : VM, delay : Nat]
    BY <1>3, RunHas DEF RunState
  <2>2. [run EXCEPT !.step = "start"] \in RunStep
    BY <2>1 DEF RunStep
  <2>3. run' \in RunStep
    BY <1>3, <2>1, <2>2, OnwardType DEF RunState
  <2> QED
    BY <1>3, <2>3 DEF RunState, TypeOK
<1>4. ASSUME NEW o, RunStart(o)
      PROVE  TypeOK'
  <2>1. run \in [step : {"state", "start", "delay"}, todo : SUBSET Item,
                 vm : VM, delay : Nat]
    BY <1>4, RunHas DEF RunStart
  <2>2. [run EXCEPT !.step = "delay"] \in RunStep
    BY <2>1 DEF RunStep
  <2>3. run' \in RunStep
    BY <1>4, <2>1, <2>2, OnwardType DEF RunStart
  <2>4. power' \in [VM -> Power]
    BY <1>4, <2>1, StartTypes DEF RunStart
  <2> QED
    BY <1>4, <2>3, <2>4 DEF RunStart, TypeOK
<1>5. CASE RunDelay
  <2>1. run' \in RunStep
    BY <1>5, RunHas, OnwardType DEF RunDelay
  <2> QED
    BY <1>5, <2>1 DEF RunDelay, TypeOK
<1>6. ASSUME NEW ok \in BOOLEAN, RunMark(ok)
      PROVE  TypeOK'
  BY <1>6 DEF RunMark, TypeOK
<1> QED
  BY <1>1, <1>2, <1>3, <1>4, <1>5, <1>6 DEF Orchestrate

LEMMA WatchTypes ==
    ASSUME TypeOK, Watch
    PROVE  TypeOK'
<1>1. CASE DogBegin
  <2>1. dog' \in {Idle} \cup DogStep
    BY <1>1, ItemsOfStore, OnwardType DEF DogBegin, TypeOK
  <2> QED
    BY <1>1, <2>1 DEF DogBegin, TypeOK
<1>2. ASSUME NEW i \in dog.todo, NEW ok \in BOOLEAN, DogState(i, ok)
      PROVE  TypeOK'
  <2>1. dog.todo \in SUBSET Item
    BY <1>2, DogHas DEF DogState
  <2>2. i.vm \in VM
    BY <2>1 DEF Item
  <2>3. dog.todo \ {i} \in SUBSET Item
    BY <2>1
  <2>4. dog' \in {Idle} \cup DogStep
    BY <1>2, <2>2, <2>3, DogAt, OnwardType DEF DogState
  <2> QED
    BY <1>2, <2>4 DEF DogState, TypeOK
<1>3. ASSUME NEW v \in VM, NEW o, DogStart(v, o)
      PROVE  TypeOK'
  <2>1. dog' \in {Idle} \cup DogStep
    BY <1>3, DogHas, OnwardType DEF DogStart
  <2>2. power' \in [VM -> Power]
    BY <1>3, StartTypes DEF DogStart
  <2> QED
    BY <1>3, <2>1, <2>2 DEF DogStart, TypeOK
<1> QED
  BY <1>1, <1>2, <1>3 DEF Watch

LEMMA SaveTypes ==
    ASSUME TypeOK, NEW v \in VM, NEW e \in Stored, NEW ok \in BOOLEAN,
           Save([mem EXCEPT ![v] = e], ok)
    PROVE  /\ mem' \in [VM -> Stored]
           /\ disk' \in [VM -> Stored]
           /\ unsaved' \in BOOLEAN
BY DEF TypeOK, Save

LEMMA JobAt ==
    ASSUME TypeOK, NEW c \in Client, NEW v \in VM, NEW step \in {"put sync", "delete"},
           job' = [job EXCEPT ![c] = [step |-> step, vm |-> v]]
    PROVE  job' \in [Client -> {Idle} \cup Job]
<1>1. [step |-> step, vm |-> v] \in Job
  BY DEF Job
<1> QED
  BY <1>1 DEF TypeOK

LEMMA JobEnds ==
    ASSUME TypeOK, NEW c \in Client, job' = [job EXCEPT ![c] = Idle]
    PROVE  job' \in [Client -> {Idle} \cup Job]
BY DEF TypeOK

LEMMA JobHas ==
    ASSUME TypeOK, NEW c \in Client, job[c].step # "idle"
    PROVE  job[c].vm \in VM
<1>1. job[c] \in {Idle} \cup Job
  BY DEF TypeOK
<1>2. CASE job[c] = Idle
  BY <1>2 DEF Idle
<1>3. CASE job[c] \in Job
  BY <1>3 DEF Job
<1> QED
  BY <1>1, <1>2, <1>3

LEMMA RequestTypes ==
    ASSUME TypeOK, NEW c \in Client, Request(c)
    PROVE  TypeOK'
<1>1. ASSUME NEW v \in VM, NEW e \in Put, NEW ok \in BOOLEAN, PutEntry(c, v, e, ok)
      PROVE  TypeOK'
  <2>1. Normalised(e) \in Stored
    BY PutAssumption, NormalisedIsStored
  <2>2. mem' \in [VM -> Stored] /\ disk' \in [VM -> Stored] /\ unsaved' \in BOOLEAN
    BY <1>1, <2>1, SaveTypes DEF PutEntry
  <2>3. job' \in [Client -> {Idle} \cup Job]
    <3>1. CASE ok
      BY <1>1, <3>1, JobAt DEF PutEntry
    <3>2. CASE ~ok
      BY <1>1, <3>2 DEF PutEntry, TypeOK
    <3> QED
      BY <3>1, <3>2
  <2> QED
    BY <1>1, <2>2, <2>3 DEF PutEntry, TypeOK
<1>2. ASSUME NEW v \in VM, NEW ok \in BOOLEAN, DeleteBegin(c, v, ok)
      PROVE  TypeOK'
  <2>1. native' \in [VM -> BOOLEAN]
    BY <1>2, ClearTypes DEF DeleteBegin
  <2>2. job' \in [Client -> {Idle} \cup Job]
    BY <1>2, JobAt DEF DeleteBegin
  <2> QED
    BY <1>2, <2>1, <2>2 DEF DeleteBegin, TypeOK
<1>3. ASSUME NEW ok \in BOOLEAN, PutSync(c, ok)
      PROVE  TypeOK'
  <2>1. native' \in [VM -> BOOLEAN]
    BY <1>3, JobHas, ClearTypes DEF PutSync
  <2>2. job' \in [Client -> {Idle} \cup Job]
    BY <1>3, JobEnds DEF PutSync
  <2> QED
    BY <1>3, <2>1, <2>2 DEF PutSync, TypeOK
<1>4. ASSUME NEW ok \in BOOLEAN, DeleteEntry(c, ok)
      PROVE  TypeOK'
  <2>1. mem' \in [VM -> Stored] /\ disk' \in [VM -> Stored] /\ unsaved' \in BOOLEAN
    BY <1>4, JobHas, NoEntryIsStored, SaveTypes DEF DeleteEntry
  <2>2. job' \in [Client -> {Idle} \cup Job]
    BY <1>4, JobEnds DEF DeleteEntry
  <2> QED
    BY <1>4, <2>1, <2>2 DEF DeleteEntry, TypeOK
<1> QED
  BY <1>1, <1>2, <1>3, <1>4 DEF Request

LEMMA HostTypes ==
    ASSUME TypeOK,
           \/ \E v \in VM : PowerRequest(v) \/ GuestStops(v) \/ Undefine(v)
           \/ LibvirtUp \/ Restart \/ HostReboot
    PROVE  TypeOK'
<1>1. ASSUME NEW v \in VM, PowerRequest(v)
      PROVE  TypeOK'
  <2>1. power' \in [VM -> Power]
    BY <1>1 DEF PowerRequest, TypeOK, Power
  <2>2. byHand' \subseteq VM
    BY <1>1 DEF PowerRequest, TypeOK
  <2> QED
    BY <1>1, <2>1, <2>2 DEF PowerRequest, TypeOK
<1>2. ASSUME NEW v \in VM, GuestStops(v) \/ Undefine(v)
      PROVE  TypeOK'
  <2>1. power' \in [VM -> Power]
    BY <1>2 DEF GuestStops, Undefine, TypeOK, Power
  <2> QED
    BY <1>2, <2>1 DEF GuestStops, Undefine, TypeOK
<1>3. CASE LibvirtUp
  <2>1. power' \in [VM -> Power]
    BY <1>3 DEF LibvirtUp, TypeOK, Power
  <2> QED
    BY <1>3, <2>1 DEF LibvirtUp, TypeOK
<1>4. CASE Restart
  <2>1. run' \in {Idle} \cup RunStep /\ job' \in [Client -> {Idle} \cup Job]
    BY <1>4, WaitingType DEF Restart, DaemonStarts
  <2>2. dog' \in {Idle} \cup DogStep
    BY <1>4 DEF Restart, DaemonStarts
  <2> QED
    BY <1>4, <2>1, <2>2 DEF Restart, Reload, TypeOK
<1>5. CASE HostReboot
  <2>1. run' \in {Idle} \cup RunStep /\ job' \in [Client -> {Idle} \cup Job]
    BY <1>5, WaitingType DEF HostReboot, DaemonStarts
  <2>2. dog' \in {Idle} \cup DogStep
    BY <1>5 DEF HostReboot, DaemonStarts
  <2>3. power' \in [VM -> Power] /\ up' \in BOOLEAN
    BY <1>5 DEF HostReboot, Power
  <2>4. native' \in [VM -> BOOLEAN] /\ byHand' \subseteq VM
    BY <1>5 DEF HostReboot, TypeOK
  <2>5. mem' \in [VM -> Stored] /\ disk' \in [VM -> Stored]
    BY <1>5 DEF HostReboot, TypeOK
  <2>6. marker' \in BOOLEAN /\ unsaved' \in BOOLEAN
    BY <1>5 DEF HostReboot
  <2> QED
    BY <2>1, <2>2, <2>3, <2>4, <2>5, <2>6 DEF TypeOK
<1> QED
  BY <1>1, <1>2, <1>3, <1>4, <1>5

(* Every variable keeps its type: in particular no delay is ever negative. *)
THEOREM TypeCorrect == Spec => []TypeOK
<1>1. Init => TypeOK
  <2> SUFFICES ASSUME Init PROVE TypeOK
    OBVIOUS
  <2>1. mem \in [VM -> Stored]
    <3> DEFINE Entries == {Normalised(e) : e \in Put} \cup {NoEntry}
    <3>1. Entries \subseteq Stored
      BY PutAssumption, NormalisedIsStored, NoEntryIsStored
    <3>2. mem \in [VM -> Entries]
      BY DEF Init
    <3> HIDE DEF Entries
    <3> QED
      BY <3>1, <3>2
  <2>2. power \in [VM -> Power] /\ native \in [VM -> BOOLEAN] /\ up \in BOOLEAN
    BY DEF Init, Power
  <2> QED
    BY <2>1, <2>2, WaitingType DEF Init, TypeOK
<1>2. TypeOK /\ [Next]_vars => TypeOK'
  <2> SUFFICES ASSUME TypeOK, [Next]_vars
               PROVE  TypeOK'
    OBVIOUS
  <2>1. CASE UNCHANGED vars
    BY <2>1 DEF vars, TypeOK
  <2>2. CASE Next
    BY <2>2, OrchestrateTypes, WatchTypes, RequestTypes, HostTypes DEF Next
  <2> QED
    BY <2>1, <2>2
<1> QED
  BY <1>1, <1>2, PTL DEF Spec

-----------------------------------------------------------------------------
(* Orchestration and the watchdog exclude each other.  Neither property is *)
(* inductive alone: what keeps them apart is the marker.                   *)

MarkerDivides ==
    /\ run # Idle => ~marker
    /\ dog # Idle => marker

LEMMA WaitingIsNotIdle == Waiting # Idle
BY DEF Waiting, Idle

\* Only Run moves, and there is a Run that moves: there is no marker, and so
\* no pass of the watchdog.
LEMMA RunMoves ==
    ASSUME MarkerDivides, run.step # "idle", UNCHANGED <<dog, marker>>
    PROVE  MarkerDivides'
BY DEF MarkerDivides, Idle

\* Only the watchdog moves, and the marker is there.
LEMMA DogMoves ==
    ASSUME MarkerDivides, marker, UNCHANGED <<run, marker>>
    PROVE  MarkerDivides'
BY DEF MarkerDivides

LEMMA OrchestrateDivides ==
    ASSUME MarkerDivides, Orchestrate
    PROVE  MarkerDivides'
<1>1. ASSUME NEW ok \in BOOLEAN, RunWait(ok) \/ RunState(ok)
      PROVE  MarkerDivides'
  BY <1>1, RunMoves DEF RunWait, RunState
<1>2. ASSUME NEW ok \in BOOLEAN, RunMark(ok)
      PROVE  MarkerDivides'
  <2>1. dog = Idle
    BY <1>2 DEF RunMark, MarkerDivides, Idle
  <2> QED
    BY <1>2, <2>1 DEF RunMark, MarkerDivides
<1>3. ASSUME NEW i, NEW ok \in BOOLEAN, RunNext(i, ok)
      PROVE  MarkerDivides'
  BY <1>3, RunMoves DEF RunNext
<1>4. ASSUME NEW o, RunStart(o)
      PROVE  MarkerDivides'
  BY <1>4, RunMoves DEF RunStart
<1>5. CASE RunDelay
  BY <1>5, RunMoves DEF RunDelay
<1> QED
  BY <1>1, <1>2, <1>3, <1>4, <1>5 DEF Orchestrate

LEMMA WatchDivides ==
    ASSUME MarkerDivides, Watch
    PROVE  MarkerDivides'
<1>1. CASE DogBegin
  BY <1>1, DogMoves DEF DogBegin
<1>2. ASSUME NEW i, NEW ok \in BOOLEAN, DogState(i, ok)
      PROVE  MarkerDivides'
  <2>1. marker
    BY <1>2 DEF DogState, MarkerDivides, Idle
  <2> QED
    BY <1>2, <2>1, DogMoves DEF DogState
<1>3. ASSUME NEW v, NEW o, DogStart(v, o)
      PROVE  MarkerDivides'
  <2>1. marker
    BY <1>3 DEF DogStart, MarkerDivides, Idle
  <2> QED
    BY <1>3, <2>1, DogMoves DEF DogStart
<1> QED
  BY <1>1, <1>2, <1>3 DEF Watch

LEMMA MarkerStep ==
    ASSUME MarkerDivides, [Next]_vars
    PROVE  MarkerDivides'
<1>1. CASE UNCHANGED <<run, dog, marker>>
  BY <1>1 DEF MarkerDivides
<1>2. CASE UNCHANGED vars
  BY <1>1, <1>2 DEF vars
<1>3. ASSUME NEW c \in Client, Request(c)
      PROVE  MarkerDivides'
  BY <1>1, <1>3 DEF Request, PutEntry, PutSync, DeleteBegin, DeleteEntry
<1>4. ASSUME NEW v \in VM, PowerRequest(v) \/ GuestStops(v) \/ Undefine(v)
      PROVE  MarkerDivides'
  BY <1>1, <1>4 DEF PowerRequest, GuestStops, Undefine
<1>5. CASE LibvirtUp
  BY <1>1, <1>5 DEF LibvirtUp
<1>6. CASE Restart
  BY <1>6, WaitingIsNotIdle DEF Restart, DaemonStarts, MarkerDivides
<1>7. CASE HostReboot
  BY <1>7, WaitingIsNotIdle DEF HostReboot, DaemonStarts, MarkerDivides
<1> QED
  BY <1>2, <1>3, <1>4, <1>5, <1>6, <1>7, OrchestrateDivides, WatchDivides DEF Next

LEMMA MarkerInvariant == Spec => []MarkerDivides
<1>1. Init => MarkerDivides
  BY DEF Init, MarkerDivides
<1>2. MarkerDivides /\ [Next]_vars => MarkerDivides'
  BY MarkerStep
<1> QED
  BY <1>1, <1>2, PTL DEF Spec

(* The watchdog is never in a pass while Run is, whatever restarts of the  *)
(* daemon and reboots of the host come between.                            *)
THEOREM WatchdogWaitsForRun == Spec => []WatchdogDormant
<1>1. MarkerDivides => WatchdogDormant
  BY DEF MarkerDivides, WatchdogDormant
<1> QED
  BY <1>1, MarkerInvariant, PTL

(* No daemon orchestrates a boot whose orchestration has finished.         *)
THEOREM OneRunPerBoot == Spec => []OrchestratedOnce
<1>1. MarkerDivides => OrchestratedOnce
  BY DEF MarkerDivides, OrchestratedOnce
<1> QED
  BY <1>1, MarkerInvariant, PTL

-----------------------------------------------------------------------------
(* A VM that was shut down by hand.  That libvirt has answered since is    *)
(* part of the invariant: its own autostart comes before the first request.*)

LibvirtAnswered == byHand # {} => up

LEMMA AnsweredInvariant == Spec => []LibvirtAnswered
<1>1. Init => LibvirtAnswered
  BY DEF Init, LibvirtAnswered
<1>2. LibvirtAnswered /\ [Next]_vars => LibvirtAnswered'
  <2> SUFFICES ASSUME LibvirtAnswered, [Next]_vars
               PROVE  LibvirtAnswered'
    OBVIOUS
  <2>1. CASE UNCHANGED <<up, byHand>>
    BY <2>1 DEF LibvirtAnswered
  <2>2. ASSUME NEW v \in VM, PowerRequest(v)
        PROVE  LibvirtAnswered'
    BY <2>2 DEF PowerRequest, LibvirtAnswered
  <2>3. CASE LibvirtUp \/ HostReboot
    BY <2>3 DEF LibvirtUp, HostReboot, LibvirtAnswered
  <2>4. CASE Orchestrate \/ Watch
    BY <2>1, <2>4 DEF Orchestrate, RunWait, RunNext, RunState, RunStart, RunDelay, RunMark,
       Watch, DogBegin, DogState, DogStart
  <2>5. ASSUME NEW c \in Client, Request(c)
        PROVE  LibvirtAnswered'
    BY <2>1, <2>5 DEF Request, PutEntry, PutSync, DeleteBegin, DeleteEntry
  <2>6. ASSUME NEW v \in VM, GuestStops(v) \/ Undefine(v)
        PROVE  LibvirtAnswered'
    BY <2>1, <2>6 DEF GuestStops, Undefine
  <2>7. CASE Restart
    BY <2>1, <2>7 DEF Restart
  <2> QED
    BY <2>1, <2>2, <2>3, <2>4, <2>5, <2>6, <2>7 DEF Next, vars
<1> QED
  BY <1>1, <1>2, PTL DEF Spec

(* "A plain daemon restart must not re-start VMs the user has since shut   *)
(* down by hand" (store.go:142-144): once a boot is orchestrated, a VM     *)
(* that was shut down by hand runs again only when the user starts it,     *)
(* when the watchdog is about to start it, or after a reboot of the host;  *)
(* no restart of the daemon, request or flag of libvirt's brings it back.  *)
HandStopsRespected ==
    [][\A v \in VM :
         marker /\ v \in byHand /\ Off(v) /\ power'[v] = "running" =>
           \/ v \notin byHand'
           \/ dog.step = "start" /\ dog.vm = v]_vars

\* Who starts a VM that is off, when there is a marker.
LEMMA StartedBy ==
    ASSUME TypeOK, MarkerDivides, LibvirtAnswered, [Next]_vars, NEW v \in VM,
           marker, v \in byHand, Off(v), power'[v] = "running"
    PROVE  v \notin byHand' \/ (dog.step = "start" /\ dog.vm = v)
<1>1. power'[v] # power[v]
  BY DEF Off
<1>2. up /\ run = Idle
  BY DEF LibvirtAnswered, MarkerDivides
<1>3. ~Orchestrate
  BY <1>2 DEF Orchestrate, RunWait, RunNext, RunState, RunStart, RunDelay, RunMark, Idle
<1>4. ASSUME NEW w \in VM, NEW o, DogStart(w, o)
      PROVE  dog.step = "start" /\ dog.vm = v
  BY <1>1, <1>4 DEF DogStart, StartDomain, TypeOK
<1>5. CASE DogBegin \/ \E i, ok : DogState(i, ok)
  BY <1>1, <1>5 DEF DogBegin, DogState
<1>6. ASSUME NEW c \in Client, Request(c)
      PROVE  FALSE
  BY <1>1, <1>6 DEF Request, PutEntry, PutSync, DeleteBegin, DeleteEntry
<1>7. ASSUME NEW w \in VM, PowerRequest(w)
      PROVE  v \notin byHand'
  BY <1>1, <1>7 DEF PowerRequest, Off, TypeOK
<1>8. ASSUME NEW w \in VM, GuestStops(w) \/ Undefine(w)
      PROVE  FALSE
  BY <1>1, <1>8 DEF GuestStops, Undefine, TypeOK
<1>9. ~LibvirtUp
  BY <1>2 DEF LibvirtUp
<1>10. CASE Restart \/ HostReboot
  BY <1>1, <1>10 DEF Restart, HostReboot
<1>11. ~UNCHANGED vars
  BY <1>1 DEF vars
<1> QED
  BY <1>3, <1>4, <1>5, <1>6, <1>7, <1>8, <1>9, <1>10, <1>11 DEF Next, Watch

THEOREM HandStops == Spec => HandStopsRespected
<1>1. TypeOK /\ MarkerDivides /\ LibvirtAnswered /\ [Next]_vars =>
        [\A v \in VM :
           marker /\ v \in byHand /\ Off(v) /\ power'[v] = "running" =>
             \/ v \notin byHand'
             \/ dog.step = "start" /\ dog.vm = v]_vars
  BY StartedBy
<1> QED
  BY <1>1, TypeCorrect, MarkerInvariant, AnsweredInvariant, PTL DEF Spec, HandStopsRespected

-----------------------------------------------------------------------------
(* The turns of the VMs in Run.                                            *)

Turn == {"state", "start", "delay"}
Left(r) == {i.vm : i \in r.todo}

OneEntryPerVM ==
    /\ run.step \in Turn \cup {"next"} =>
         \A i, k \in run.todo : i.vm = k.vm => i = k
    /\ run.step \in Turn => run.vm \notin Left(run)

(* Run gives every VM one turn: the VMs that are left only get fewer, and  *)
(* the one whose turn it is is not among them, however often requests      *)
(* change the entries while Run sleeps (store.go:175-202 goes through a    *)
(* copy).  No VM is started twice.                                         *)
EachVMOnce ==
    [][run.step \in Turn \cup {"next"} /\ run'.step \in Turn \cup {"next"} /\ run' # run =>
         /\ Left(run') \subseteq Left(run)
         /\ run.step \in Turn => run.vm \notin Left(run')
         /\ run'.step \in Turn =>
              /\ run'.vm \notin Left(run')
              /\ run.step = "next" => run'.vm \in Left(run)
              /\ run.step \in Turn => run'.vm = run.vm]_vars

LEMMA EntriesOfStore ==
    ASSUME NEW i \in Enabled, NEW k \in Enabled, i.vm = k.vm
    PROVE  i = k
BY DEF Enabled, EntryOf

\* What one step of Run does to what is left.
LEMMA TurnStep ==
    ASSUME TypeOK, OneEntryPerVM, Orchestrate
    PROVE  /\ OneEntryPerVM'
           /\ run.step \in Turn \cup {"next"} /\ run'.step \in Turn \cup {"next"} =>
                /\ Left(run') \subseteq Left(run)
                /\ run.step \in Turn => run.vm \notin Left(run')
                /\ run'.step \in Turn =>
                     /\ run'.vm \notin Left(run')
                     /\ run.step = "next" => run'.vm \in Left(run)
                     /\ run.step \in Turn => run'.vm = run.vm
<1>1. ASSUME NEW ok \in BOOLEAN, RunWait(ok)
      PROVE  OneEntryPerVM' /\ run.step \notin Turn \cup {"next"}
  <2>1. run.step = "wait"
    BY <1>1 DEF RunWait
  <2>2. CASE run' = Onward(Enabled)
    BY <2>1, <2>2, EntriesOfStore DEF Onward, OneEntryPerVM, Turn
  <2>3. CASE run'.step \in {"wait", "idle"}
    BY <2>1, <2>3 DEF OneEntryPerVM, Turn
  <2>4. run \in [step : {"wait"}, tries : 0 .. Tries - 1]
    BY <2>1, RunHas
  <2> QED
    BY <1>1, <2>2, <2>3, <2>4 DEF RunWait, Idle
<1>2. ASSUME NEW i \in run.todo, NEW ok \in BOOLEAN, RunNext(i, ok)
      PROVE  /\ OneEntryPerVM'
             /\ run.step = "next" /\ run'.step = "state"
             /\ Left(run') \subseteq Left(run)
             /\ run'.vm \notin Left(run') /\ run'.vm \in Left(run)
  <2>1. /\ run.step = "next"
        /\ run'.step = "state" /\ run'.todo = run.todo \ {i} /\ run'.vm = i.vm
    BY <1>2 DEF RunNext
  <2>2. \A j, k \in run.todo : j.vm = k.vm => j = k
    BY <2>1 DEF OneEntryPerVM
  <2>3. i.vm \notin Left(run') /\ i.vm \in Left(run) /\ Left(run') \subseteq Left(run)
    BY <2>1, <2>2 DEF Left
  <2> QED
    BY <2>1, <2>2, <2>3 DEF OneEntryPerVM
<1>3. ASSUME (\E ok \in BOOLEAN : RunState(ok)) \/ (\E o : RunStart(o)) \/ RunDelay
      PROVE  /\ OneEntryPerVM'
             /\ run.step \in Turn
             /\ Left(run') = Left(run) /\ run.vm \notin Left(run)
             /\ run'.step \in Turn => run'.vm = run.vm
  <2>1. run.step \in Turn
    BY <1>3 DEF RunState, RunStart, RunDelay, Turn
  <2>2. run \in [step : {"state", "start", "delay"}, todo : SUBSET Item, vm : VM, delay : Nat]
    BY <2>1, RunHas DEF Turn
  <2>3. /\ run'.todo = run.todo
        /\ run'.step = "next" \/ (run'.step \in Turn /\ run'.vm = run.vm)
    BY <1>3, <2>2 DEF RunState, RunStart, RunDelay, Onward, Turn
  <2>4. run.vm \notin Left(run) /\ \A j, k \in run.todo : j.vm = k.vm => j = k
    BY <2>1 DEF OneEntryPerVM
  <2>5. Left(run') = Left(run)
    BY <2>3 DEF Left
  <2> QED
    BY <2>1, <2>3, <2>4, <2>5 DEF OneEntryPerVM, Turn
<1>4. ASSUME NEW ok \in BOOLEAN, RunMark(ok)
      PROVE  OneEntryPerVM' /\ run'.step \notin Turn \cup {"next"}
  BY <1>4 DEF RunMark, OneEntryPerVM, Turn, Idle
<1> QED
  BY <1>1, <1>2, <1>3, <1>4 DEF Orchestrate, Turn

\* Whoever else moves, Run does not, or begins again.
LEMMA TurnOthers ==
    ASSUME [Next]_vars, ~Orchestrate
    PROVE  run' = run \/ run' = Idle \/ run' = Waiting
BY DEF Next, Watch, DogBegin, DogState, DogStart, Request, PutEntry, PutSync, DeleteBegin,
   DeleteEntry, PowerRequest, GuestStops, Undefine, LibvirtUp, Restart, HostReboot,
   DaemonStarts, vars

LEMMA TurnInvariant == Spec => []OneEntryPerVM
<1>1. run = Idle \/ run = Waiting => OneEntryPerVM
  BY DEF OneEntryPerVM, Idle, Waiting, Turn
<1>2. Init => OneEntryPerVM
  BY <1>1 DEF Init
<1>3. TypeOK /\ OneEntryPerVM /\ [Next]_vars => OneEntryPerVM'
  <2> SUFFICES ASSUME TypeOK, OneEntryPerVM, [Next]_vars
               PROVE  OneEntryPerVM'
    OBVIOUS
  <2>1. run' = run => OneEntryPerVM'
    BY DEF OneEntryPerVM
  <2>2. run' = Idle \/ run' = Waiting => OneEntryPerVM'
    BY DEF OneEntryPerVM, Idle, Waiting, Turn
  <2> QED
    BY <2>1, <2>2, TurnStep, TurnOthers
<1> QED
  BY <1>2, <1>3, TypeCorrect, PTL DEF Spec

THEOREM EveryVMHasOneTurn == Spec => EachVMOnce
<1> DEFINE Busy == run.step \in Turn \cup {"next"}
           Once == /\ Left(run') \subseteq Left(run)
                   /\ run.step \in Turn => run.vm \notin Left(run')
                   /\ run'.step \in Turn =>
                        /\ run'.vm \notin Left(run')
                        /\ run.step = "next" => run'.vm \in Left(run)
                        /\ run.step \in Turn => run'.vm = run.vm
<1>1. TypeOK /\ OneEntryPerVM /\ [Next]_vars
        => [Busy /\ run'.step \in Turn \cup {"next"} /\ run' # run => Once]_vars
  <2> SUFFICES ASSUME TypeOK, OneEntryPerVM, [Next]_vars,
                      Busy, run'.step \in Turn \cup {"next"}, run' # run
               PROVE  Once
    OBVIOUS
  <2>1. Orchestrate
    BY TurnOthers DEF Idle, Waiting, Turn
  <2> QED
    BY <2>1, TurnStep
<1> QED
  BY <1>1, TypeCorrect, TurnInvariant, PTL DEF Spec, EachVMOnce

-----------------------------------------------------------------------------
(* The store.                                                              *)

\* The steps that touch the store: a reboot reads the file as a restart does.
LEMMA StoreSteps ==
    ASSUME TypeOK, [Next]_vars
    PROVE  \/ UNCHANGED store
           \/ mem' = disk /\ unsaved' = FALSE /\ UNCHANGED disk
           \/ \E contents \in [VM -> Stored], ok \in BOOLEAN : Save(contents, ok)
<1>1. ASSUME NEW c \in Client, NEW v \in VM, NEW e \in Put, NEW ok \in BOOLEAN,
             PutEntry(c, v, e, ok)
      PROVE  \E contents \in [VM -> Stored] : Save(contents, ok)
  <2>1. Normalised(e) \in Stored
    BY PutAssumption, NormalisedIsStored
  <2>2. [mem EXCEPT ![v] = Normalised(e)] \in [VM -> Stored]
    BY <2>1 DEF TypeOK
  <2> QED
    BY <1>1, <2>2 DEF PutEntry
<1>2. ASSUME NEW c \in Client, NEW ok \in BOOLEAN, DeleteEntry(c, ok)
      PROVE  \E contents \in [VM -> Stored] : Save(contents, ok)
  <2>1. [mem EXCEPT ![job[c].vm] = NoEntry] \in [VM -> Stored]
    BY NoEntryIsStored DEF TypeOK
  <2> QED
    BY <1>2, <2>1 DEF DeleteEntry
<1>3. CASE Orchestrate \/ Watch
  BY <1>3 DEF Orchestrate, RunWait, RunNext, RunState, RunStart, RunDelay, RunMark,
     Watch, DogBegin, DogState, DogStart
<1>4. CASE Restart \/ HostReboot
  BY <1>4 DEF Restart, Reload, HostReboot
<1> QED
  BY <1>1, <1>2, <1>3, <1>4 DEF Next, Request, PutSync, DeleteBegin, PowerRequest,
     GuestStops, Undefine, LibvirtUp, vars

(* Memory and file of the entries differ only after a save that failed, so *)
(* that neither a restart nor a reboot orchestrates other entries than the *)
(* requests left at any other time (store.go: Set, Delete, NewStore).      *)
THEOREM MemoryIsSaved == Spec => []SavedUnlessFailed
<1>1. Init => SavedUnlessFailed
  BY DEF Init, SavedUnlessFailed
<1>2. TypeOK /\ SavedUnlessFailed /\ [Next]_vars => SavedUnlessFailed'
  <2> SUFFICES ASSUME TypeOK, SavedUnlessFailed, [Next]_vars
               PROVE  SavedUnlessFailed'
    OBVIOUS
  <2>1. CASE UNCHANGED store
    BY <2>1 DEF SavedUnlessFailed
  <2>2. ASSUME NEW contents, NEW ok, Save(contents, ok)
        PROVE  SavedUnlessFailed'
    BY <2>2 DEF Save, SavedUnlessFailed
  <2> QED
    BY <2>1, <2>2, StoreSteps DEF SavedUnlessFailed
<1> QED
  BY <1>1, <1>2, TypeCorrect, PTL DEF Spec

(* The store of the entries is the one that StoreFile implements; the host *)
(* that boots starts a daemon as well, so the daemon may always start.     *)
Store == INSTANCE AtomicStore
           WITH Contents <- [VM -> Stored], Events <- Events \cup {"crash"}

THEOREM StoreIsAtomic == Spec => Store!Spec
<1>1. Init => Store!Init
  <2> SUFFICES ASSUME Init PROVE Store!Init
    OBVIOUS
  <2>1. mem \in [VM -> Stored]
    <3> DEFINE Entries == {Normalised(e) : e \in Put} \cup {NoEntry}
    <3>1. Entries \subseteq Stored
      BY PutAssumption, NormalisedIsStored, NoEntryIsStored
    <3>2. mem \in [VM -> Entries]
      BY DEF Init
    <3> HIDE DEF Entries
    <3> QED
      BY <3>1, <3>2
  <2> QED
    BY <2>1 DEF Init, Store!Init, Store!StoreInit
<1>2. TypeOK /\ [Next]_vars => [Store!Next]_(Store!store)
  <2> SUFFICES ASSUME TypeOK, [Next]_vars, ~UNCHANGED store
               PROVE  Store!Next
    BY DEF Store!store
  <2>1. ASSUME NEW contents \in [VM -> Stored], NEW ok \in BOOLEAN, Save(contents, ok)
        PROVE  Store!Next
    BY <2>1 DEF Save, Store!Save, Store!Next
  <2>2. mem' = disk /\ unsaved' = FALSE /\ UNCHANGED disk => Store!Next
    BY DEF Store!Reload, Store!Next
  <2> QED
    BY <2>1, <2>2, StoreSteps
<1> QED
  BY <1>1, <1>2, TypeCorrect, PTL DEF Spec, Store!Spec
=============================================================================
