------------------------------ MODULE Schedule ------------------------------
(***************************************************************************)
(* Periodic snapshots with retention: internal/schedule/schedule.go, the   *)
(* PUT and DELETE handlers of scheduleItem, and the snapshots that libvirt *)
(* keeps, which the user creates and deletes too (snapshotHandler).        *)
(*                                                                         *)
(* tick claims every due schedule under the store's lock, by moving its    *)
(* run clock; the snapshots, and after each the pruning, follow without    *)
(* the lock, on the entries tick copied.  Ticks never overlap: the loop of *)
(* Run calls tick itself.                                                  *)
(***************************************************************************)
EXTENDS Integers, FiniteSets, PinStore

CONSTANTS VM,        \* the names of the virtual machines
          Put,       \* the schedules a PUT may carry
          HandName,  \* the names a user gives to snapshots
          Span,      \* hours that overflow a time.Duration (2562048 in the code)
          Shift,     \* how far the time zone may move the local clock back
          Horizon    \* bound: the clock stops here

Given == [enabled : BOOLEAN, hours : Int, keep : Int, last : Nat]

\* A schedule in the store.  `last` 0 is "never run".
Entry == [enabled : BOOLEAN, hours : Int, keep : Nat, last : Nat]

\* A snapshot's name: either AutoPrefix and a time, which sort as the times
\* do, or anything else, of which only its identity matters.
Name == [auto : BOOLEAN, at : Int]

ASSUME PutAssumption == Put \subseteq Given
ASSUME HandNameAssumption == HandName \subseteq Name
ASSUME TimeAssumption ==
    Shift \in Nat /\ Span \in Nat \ {0} /\ Horizon \in Nat \ {0}

VARIABLES clock,  \* hours since the epoch
          zone,   \* what the local clock adds to it
          snaps,  \* snaps[v]: the snapshots libvirt has of v
          tick,   \* where the scheduler is in its tick
          tried,  \* history: tried[v] is when tick last claimed the schedule
                  \* that v has now; 0 when it has not
          taken   \* history: the times of the ticks that created snapshots of v

vars == <<mem, disk, unsaved, clock, zone, snaps, tick, tried, taken>>

\* History: made by the tick of that time, or, with 0, by the user.
Snapshot == [name : Name, made : 0 .. Horizon]

Idle  == [step |-> "idle"]
Claim == [vm : VM, keep : Nat]
TickStep == [step : {"next"}, todo : SUBSET Claim, now : 1 .. Horizon]
              \cup [step : {"create", "list"}, todo : SUBSET Claim, now : 1 .. Horizon,
                    cur : Claim]
              \cup [step : {"prune"}, todo : SUBSET Claim, now : 1 .. Horizon,
                    cur : Claim, excess : SUBSET Name]

TypeOK ==
    /\ DOMAIN mem \subseteq VM /\ mem \in [DOMAIN mem -> Entry]
    /\ DOMAIN disk \subseteq VM /\ disk \in [DOMAIN disk -> Entry]
    /\ unsaved \in BOOLEAN
    /\ clock \in 1 .. Horizon
    /\ zone \in {0, -Shift}
    /\ snaps \in [VM -> SUBSET Snapshot]
    /\ tick \in {Idle} \cup TickStep
    /\ tried \in [VM -> 0 .. Horizon]
    /\ taken \in [VM -> SUBSET (1 .. Horizon)]

Init ==
    /\ StoreInit([v \in {} |-> Idle])
    /\ clock = 1 /\ zone = 0
    /\ snaps = [v \in VM |-> {}]
    /\ tick = Idle
    /\ tried = [v \in VM |-> 0]
    /\ taken = [v \in VM |-> {}]

-----------------------------------------------------------------------------
(* PUT and DELETE: each is one store call.                                 *)

\* Mutant: a negative keep stays.
UpsertedUnchecked(v, in) ==
    [in EXCEPT !.last = IF v \in DOMAIN mem THEN mem[v].last ELSE @]

\* Mutant: the run clock is the one of the request.
UpsertedAsGiven(v, in) == [in EXCEPT !.keep = IF @ < 0 THEN 0 ELSE @]

\* Upsert: a negative keep is zero, and an edit keeps the run clock.
Upserted(v, in) ==
    [in EXCEPT !.keep = IF @ < 0 THEN 0 ELSE @,
               !.last = IF v \in DOMAIN mem THEN mem[v].last ELSE @]

PutEntry(v, in, ok) ==
    /\ in.enabled => in.hours > 0
    /\ Save([w \in DOMAIN mem \cup {v} |->
               IF w = v THEN Upserted(v, in) ELSE mem[w]], ok)
    /\ UNCHANGED <<clock, zone, snaps, tick, tried, taken>>

DeleteEntry(v, ok) ==
    /\ Save([w \in DOMAIN mem \ {v} |-> mem[w]], ok)
    /\ tried' = [tried EXCEPT ![v] = 0]
    /\ UNCHANGED <<clock, zone, snaps, tick, taken>>

-----------------------------------------------------------------------------
(* tick.                                                                   *)

\* time.Duration(hours) * time.Hour, in 64 bits.
Interval(hours) == ((hours + Span) % (2 * Span)) - Span

Due == {v \in DOMAIN mem :
          /\ mem[v].enabled
          /\ mem[v].hours > 0
          /\ mem[v].last = 0 \/ clock - mem[v].last >= Interval(mem[v].hours)}

\* The next claim, or the end of the tick.
Onward(todo) == IF todo = {} THEN Idle
                ELSE [step |-> "next", todo |-> todo, now |-> tick.now]

\* The error of the save is dropped.
TickBegin(ok) ==
    /\ tick = Idle
    /\ Due # {}
    /\ Save([v \in DOMAIN mem |->
               IF v \in Due THEN [mem[v] EXCEPT !.last = clock] ELSE mem[v]], ok)
    /\ tick' = [step |-> "next",
                todo |-> {[vm |-> v, keep |-> mem[v].keep] : v \in Due},
                now |-> clock]
    /\ tried' = [v \in VM |-> IF v \in Due THEN clock ELSE tried[v]]
    /\ UNCHANGED <<clock, zone, snaps, taken>>

\* snapshot: State(e.VM), and for a running VM the directory.
TickState(c, ok) ==
    /\ tick.step = "next"
    /\ c \in tick.todo
    /\ ok \/ "virsh" \in Events
    /\ tick' = IF ok THEN [step |-> "create", todo |-> tick.todo \ {c},
                           now |-> tick.now, cur |-> c]
                     ELSE Onward(tick.todo \ {c})
    /\ UNCHANGED <<store, clock, zone, snaps, tried, taken>>

Names(v) == {s.name : s \in snaps[v]}

\* AutoPrefix and the tick's time on the local clock.
AutoName == [auto |-> TRUE, at |-> tick.now + zone]

\* CreateSnapshot: libvirt refuses a name that is taken.  Pruning comes only
\* after a success, and only when the schedule limits the number.
TickCreate(o) ==
    LET v   == tick.cur.vm
        can == AutoName \notin Names(v)
    IN  /\ tick.step = "create"
        /\ \/ /\ Succeeds(o, can) \/ TimesOut(o, can)
              /\ snaps' = [snaps EXCEPT ![v] = @ \cup {[name |-> AutoName,
                                                        made |-> tick.now]}]
              /\ taken' = [taken EXCEPT ![v] = @ \cup {tick.now}]
           \/ Refuses(o, can) /\ UNCHANGED <<snaps, taken>>
        /\ tick' = IF o = "ok" /\ tick.cur.keep > 0
                     THEN [tick EXCEPT !.step = "list"] ELSE Onward(tick.todo)
        /\ UNCHANGED <<store, clock, zone, tried>>

Autos(v) == {n \in Names(v) : n.auto}

\* Mutant: newest first.
OldestByReverse(autos, keep) ==
    {n \in autos : Cardinality({m \in autos : m.at < n.at}) >= keep}

\* All but the last `keep` names in the order of sort.Strings.
Excess(autos, keep) ==
    {n \in autos : Cardinality({m \in autos : m.at > n.at}) >= keep}

TickList(ok) ==
    LET excess == Excess(Autos(tick.cur.vm), tick.cur.keep)
    IN  /\ tick.step = "list"
        /\ ok \/ "virsh" \in Events
        /\ tick' = IF ok /\ excess # {}
                     THEN [step |-> "prune", todo |-> tick.todo, now |-> tick.now,
                           cur |-> tick.cur, excess |-> excess]
                     ELSE Onward(tick.todo)
        /\ UNCHANGED <<store, clock, zone, snaps, tried, taken>>

\* DeleteSnapshot of the first name; its error is only logged.
TickPrune(n, o) ==
    LET v   == tick.cur.vm
        can == n \in Names(v)
    IN  /\ tick.step = "prune"
        /\ n \in tick.excess
        /\ \A m \in tick.excess : n.at <= m.at
        /\ \/ /\ Succeeds(o, can) \/ TimesOut(o, can)
              /\ snaps' = [snaps EXCEPT ![v] = {s \in @ : s.name # n}]
           \/ Refuses(o, can) /\ UNCHANGED snaps
        /\ tick' = IF tick.excess = {n} THEN Onward(tick.todo)
                   ELSE [tick EXCEPT !.excess = @ \ {n}]
        /\ UNCHANGED <<store, clock, zone, tried, taken>>

-----------------------------------------------------------------------------
(* The user, time, and the daemon's restart.                               *)

HandCreate(v, n) ==
    /\ n \notin Names(v)
    /\ snaps' = [snaps EXCEPT ![v] = @ \cup {[name |-> n, made |-> 0]}]
    /\ UNCHANGED <<store, clock, zone, tick, tried, taken>>

\* One snapshot, or one with those that libvirt says descend from it.
HandDelete(v, chosen) ==
    /\ chosen # {}
    /\ snaps' = [snaps EXCEPT ![v] = @ \ chosen]
    /\ UNCHANGED <<store, clock, zone, tick, tried, taken>>

Pass ==
    /\ clock < Horizon
    /\ clock' = clock + 1
    /\ UNCHANGED <<store, zone, snaps, tick, tried, taken>>

\* A process reads the time zone when it starts.  After a failed save the run
\* clocks in the file are of earlier ticks, or of none.
Restart ==
    /\ Reload
    /\ tick' = Idle
    /\ zone' \in {zone} \cup IF "zone" \in Events THEN {-Shift} ELSE {}
    /\ tried' = IF unsaved THEN [v \in VM |-> 0] ELSE tried
    /\ UNCHANGED <<clock, snaps, taken>>

Tick ==
    \/ \E ok \in BOOLEAN : TickBegin(ok) \/ TickList(ok)
    \/ tick.step = "next" /\ \E c \in tick.todo, ok \in BOOLEAN : TickState(c, ok)
    \/ \E o \in Outcome : TickCreate(o)
    \/ tick.step = "prune" /\ \E n \in tick.excess, o \in Outcome : TickPrune(n, o)

Request(v) ==
    \/ \E in \in Put, ok \in BOOLEAN : PutEntry(v, in, ok)
    \/ \E ok \in BOOLEAN : DeleteEntry(v, ok)
    \/ \E n \in HandName : HandCreate(v, n)
    \/ \E chosen \in SUBSET snaps[v] : HandDelete(v, chosen)

Next == Tick \/ (\E v \in VM : Request(v)) \/ Pass \/ Restart

Spec == Init /\ [][Next]_vars

-----------------------------------------------------------------------------
\* A tick begins with a claim on v.
Claimed(v) == tick = Idle /\ tick' # Idle /\ \E c \in tick'.todo : c.vm = v

(* "never reset the run clock on edit" (schedule.go:124): however a        *)
(* schedule is edited, and over restarts, the scheduler leaves the         *)
(* interval between two snapshots of a VM, unless the schedule was deleted *)
(* in between, the save of a run clock was lost, or the interval is longer *)
(* than a time.Duration can be.                                            *)
SpacedApart ==
    [][\A v \in VM :
         Claimed(v) /\ tried[v] # 0 /\ mem[v].hours < Span
             => clock - tried[v] >= mem[v].hours]_vars

(* "newest N auto-snapshots kept" (schedule.go:28): while the local clock  *)
(* has not been set back, a scheduled snapshot is pruned only when N       *)
(* later ones have been taken, whatever was created and deleted beside it. *)
NewestSpared ==
    [][\A v \in VM : \A s \in snaps[v] \ snaps'[v] :
         zone = 0 /\ tick # tick'
             => Cardinality({t \in taken[v] : t > s.made}) >= tick.cur.keep]_vars
=============================================================================
