--------------------------- MODULE Schedule_proofs ---------------------------
(***************************************************************************)
(* What is proved about Schedule for every set of VMs, schedules, names    *)
(* and events, and for every horizon.                                      *)
(***************************************************************************)
EXTENDS Schedule, FiniteSetTheorems, FunctionTheorems, TLAPS

USE DEF store

-----------------------------------------------------------------------------
(* Type correctness.                                                       *)

LEMMA SaveTypes ==
    ASSUME TypeOK, NEW S \in SUBSET VM, NEW contents \in [S -> Entry],
           NEW ok \in BOOLEAN, Save(contents, ok)
    PROVE  /\ DOMAIN mem' \subseteq VM /\ mem' \in [DOMAIN mem' -> Entry]
           /\ DOMAIN disk' \subseteq VM /\ disk' \in [DOMAIN disk' -> Entry]
           /\ unsaved' \in BOOLEAN
BY DEF TypeOK, Save

LEMMA UpsertedIsEntry ==
    ASSUME TypeOK, NEW v \in VM, NEW in \in Put
    PROVE  Upserted(v, in) \in Entry
<1>1. in \in Given
  BY PutAssumption
<1>2. v \in DOMAIN mem => mem[v].last \in Nat
  BY DEF TypeOK, Entry
<1> DEFINE keep == IF in.keep < 0 THEN 0 ELSE in.keep
           last == IF v \in DOMAIN mem THEN mem[v].last ELSE in.last
<1>3. keep \in Nat /\ last \in Nat
  BY <1>1, <1>2 DEF Given
<1>4. Upserted(v, in) = [in EXCEPT !.keep = keep, !.last = last]
  BY DEF Upserted
<1> HIDE DEF keep, last
<1> QED
  BY <1>1, <1>3, <1>4 DEF Given, Entry

LEMMA OnwardType ==
    ASSUME NEW todo \in SUBSET Claim, tick.now \in 1 .. Horizon
    PROVE  Onward(todo) \in {Idle} \cup TickStep
BY DEF Onward, TickStep

\* What a tick that is not idle carries.
LEMMA TickHas ==
    ASSUME TypeOK, tick # Idle
    PROVE  /\ tick.todo \in SUBSET Claim /\ tick.now \in 1 .. Horizon
           /\ tick.step \in {"create", "list", "prune"} => tick.cur \in Claim
           /\ tick.step \in {"create", "list"}
                => tick \in [step : {"create", "list"}, todo : SUBSET Claim,
                             now : 1 .. Horizon, cur : Claim]
           /\ tick.step = "prune"
                => tick \in [step : {"prune"}, todo : SUBSET Claim,
                             now : 1 .. Horizon, cur : Claim, excess : SUBSET Name]
<1>1. tick \in TickStep
  BY DEF TypeOK
<1> QED
  BY <1>1 DEF TickStep

LEMMA BusyTick ==
    ASSUME tick.step \in {"next", "create", "list", "prune"}
    PROVE  tick # Idle
BY DEF Idle

LEMMA NamesAreNames ==
    ASSUME TypeOK, NEW v \in VM
    PROVE  Names(v) \subseteq Name
BY DEF TypeOK, Names, Snapshot

LEMMA TickBeginTypes ==
    ASSUME TypeOK, NEW ok \in BOOLEAN, TickBegin(ok)
    PROVE  TypeOK'
<1> DEFINE after == [v \in DOMAIN mem |->
                       IF v \in Due THEN [mem[v] EXCEPT !.last = clock] ELSE mem[v]]
<1>1. after \in [DOMAIN mem -> Entry]
  BY DEF TypeOK, Entry
<1>2. DOMAIN mem \in SUBSET VM /\ Save(after, ok)
  BY DEF TypeOK, TickBegin
<1>3. /\ DOMAIN mem' \subseteq VM /\ mem' \in [DOMAIN mem' -> Entry]
      /\ DOMAIN disk' \subseteq VM /\ disk' \in [DOMAIN disk' -> Entry]
      /\ unsaved' \in BOOLEAN
  BY <1>1, <1>2, SaveTypes
<1>4. Due \subseteq DOMAIN mem
  BY DEF Due
<1>5. {[vm |-> v, keep |-> mem[v].keep] : v \in Due} \subseteq Claim
  BY <1>4 DEF TypeOK, Entry, Claim
<1>6. tick' \in TickStep
  BY <1>5 DEF TickBegin, TypeOK, TickStep
<1>7. tried' \in [VM -> 0 .. Horizon]
  BY TimeAssumption DEF TickBegin, TypeOK
<1> QED
  BY <1>3, <1>6, <1>7 DEF TickBegin, TypeOK

LEMMA TickTypes ==
    ASSUME TypeOK, Tick
    PROVE  TypeOK'
<1>1. ASSUME NEW ok \in BOOLEAN, TickList(ok)
      PROVE  TypeOK'
  <2>1. /\ tick.todo \in SUBSET Claim /\ tick.now \in 1 .. Horizon
        /\ tick.cur \in Claim
    BY <1>1, BusyTick, TickHas DEF TickList
  <2>2. Excess(Autos(tick.cur.vm), tick.cur.keep) \subseteq Name
    BY <2>1, NamesAreNames DEF Excess, Autos, Claim
  <2>3. tick' \in {Idle} \cup TickStep
    BY <1>1, <2>1, <2>2, OnwardType DEF TickList, TickStep
  <2> QED
    BY <1>1, <2>3 DEF TickList, TypeOK
<1>2. ASSUME NEW c \in tick.todo, NEW ok \in BOOLEAN, TickState(c, ok)
      PROVE  TypeOK'
  <2>1. tick.todo \in SUBSET Claim /\ tick.now \in 1 .. Horizon
    BY <1>2, BusyTick, TickHas DEF TickState
  <2>2. tick' \in {Idle} \cup TickStep
    BY <1>2, <2>1, OnwardType DEF TickState, TickStep
  <2> QED
    BY <1>2, <2>2 DEF TickState, TypeOK
<1>3. ASSUME NEW o \in Outcome, TickCreate(o)
      PROVE  TypeOK'
  <2>1. /\ tick.todo \in SUBSET Claim /\ tick.now \in 1 .. Horizon
        /\ tick.cur \in Claim
        /\ tick \in [step : {"create", "list"}, todo : SUBSET Claim,
                     now : 1 .. Horizon, cur : Claim]
    BY <1>3, BusyTick, TickHas DEF TickCreate
  <2>2. [tick EXCEPT !.step = "list"] \in TickStep
    BY <2>1 DEF TickStep
  <2>3. tick' \in {Idle} \cup TickStep
    BY <1>3, <2>1, <2>2, OnwardType DEF TickCreate
  <2>4. tick.cur.vm \in VM
    BY <2>1 DEF Claim
  <2>5. [name |-> AutoName, made |-> tick.now] \in Snapshot
    BY <2>1, TimeAssumption DEF AutoName, Snapshot, Name, TypeOK
  <2>6. /\ snaps' \in [VM -> SUBSET Snapshot]
        /\ taken' \in [VM -> SUBSET (1 .. Horizon)]
    BY <1>3, <2>1, <2>4, <2>5 DEF TickCreate, TypeOK
  <2> QED
    BY <1>3, <2>3, <2>6 DEF TickCreate, TypeOK
<1>4. ASSUME NEW n \in tick.excess, NEW o \in Outcome, TickPrune(n, o)
      PROVE  TypeOK'
  <2>1. /\ tick.todo \in SUBSET Claim /\ tick.now \in 1 .. Horizon
        /\ tick.cur \in Claim
        /\ tick \in [step : {"prune"}, todo : SUBSET Claim,
                     now : 1 .. Horizon, cur : Claim, excess : SUBSET Name]
    BY <1>4, BusyTick, TickHas DEF TickPrune
  <2>2. [tick EXCEPT !.excess = @ \ {n}] \in TickStep
    BY <2>1 DEF TickStep
  <2>3. tick' \in {Idle} \cup TickStep
    BY <1>4, <2>1, <2>2, OnwardType DEF TickPrune
  <2>4. snaps' \in [VM -> SUBSET Snapshot]
    BY <1>4, <2>1 DEF TickPrune, TypeOK, Claim
  <2> QED
    BY <1>4, <2>3, <2>4 DEF TickPrune, TypeOK
<1> QED
  BY <1>1, <1>2, <1>3, <1>4, TickBeginTypes DEF Tick

LEMMA RequestTypes ==
    ASSUME TypeOK, NEW v \in VM, Request(v)
    PROVE  TypeOK'
<1>1. ASSUME NEW in \in Put, NEW ok \in BOOLEAN, PutEntry(v, in, ok)
      PROVE  TypeOK'
  <2> DEFINE after == [w \in DOMAIN mem \cup {v} |->
                         IF w = v THEN Upserted(v, in) ELSE mem[w]]
  <2>1. after \in [DOMAIN mem \cup {v} -> Entry]
    BY UpsertedIsEntry DEF TypeOK
  <2>2. DOMAIN mem \cup {v} \in SUBSET VM /\ Save(after, ok)
    BY <1>1 DEF TypeOK, PutEntry
  <2> HIDE DEF after
  <2>3. /\ DOMAIN mem' \subseteq VM /\ mem' \in [DOMAIN mem' -> Entry]
        /\ DOMAIN disk' \subseteq VM /\ disk' \in [DOMAIN disk' -> Entry]
        /\ unsaved' \in BOOLEAN
    BY <2>1, <2>2, SaveTypes
  <2> QED
    BY <1>1, <2>3 DEF PutEntry, TypeOK
<1>2. ASSUME NEW ok \in BOOLEAN, DeleteEntry(v, ok)
      PROVE  TypeOK'
  <2> DEFINE after == [w \in DOMAIN mem \ {v} |-> mem[w]]
  <2>1. after \in [DOMAIN mem \ {v} -> Entry]
    BY DEF TypeOK
  <2>2. DOMAIN mem \ {v} \in SUBSET VM /\ Save(after, ok)
    BY <1>2 DEF TypeOK, DeleteEntry
  <2> HIDE DEF after
  <2>3. /\ DOMAIN mem' \subseteq VM /\ mem' \in [DOMAIN mem' -> Entry]
        /\ DOMAIN disk' \subseteq VM /\ disk' \in [DOMAIN disk' -> Entry]
        /\ unsaved' \in BOOLEAN
    BY <2>1, <2>2, SaveTypes
  <2>4. tried' \in [VM -> 0 .. Horizon]
    BY <1>2, TimeAssumption DEF DeleteEntry, TypeOK
  <2> QED
    BY <1>2, <2>3, <2>4 DEF DeleteEntry, TypeOK
<1>3. ASSUME NEW n \in HandName, HandCreate(v, n)
      PROVE  TypeOK'
  <2>1. [name |-> n, made |-> 0] \in Snapshot
    BY HandNameAssumption, TimeAssumption DEF Snapshot
  <2> QED
    BY <1>3, <2>1 DEF HandCreate, TypeOK
<1>4. ASSUME NEW chosen \in SUBSET snaps[v], HandDelete(v, chosen)
      PROVE  TypeOK'
  BY <1>4 DEF HandDelete, TypeOK
<1> QED
  BY <1>1, <1>2, <1>3, <1>4 DEF Request

(* The variables keep their types: in particular no stored number of       *)
(* snapshots to keep is negative, so none is passed to the pruning.        *)
THEOREM TypeCorrect == Spec => []TypeOK
<1>1. Init => TypeOK
  <2> SUFFICES ASSUME Init
               PROVE  TypeOK
    OBVIOUS
  <2>1. /\ DOMAIN mem = {} /\ mem \in [{} -> Entry]
        /\ DOMAIN disk = {} /\ disk \in [{} -> Entry]
    BY DEF Init, StoreInit
  <2>2. zone \in {0, -Shift} /\ clock \in 1 .. Horizon /\ 0 \in 0 .. Horizon
    BY TimeAssumption DEF Init
  <2>3. snaps \in [VM -> SUBSET Snapshot] /\ tick \in {Idle} \cup TickStep
    BY DEF Init
  <2>4. tried \in [VM -> 0 .. Horizon] /\ taken \in [VM -> SUBSET (1 .. Horizon)]
    BY <2>2 DEF Init
  <2>5. unsaved \in BOOLEAN
    BY DEF Init, StoreInit
  <2> QED
    BY <2>1, <2>2, <2>3, <2>4, <2>5 DEF TypeOK
<1>2. TypeOK /\ [Next]_vars => TypeOK'
  <2> SUFFICES ASSUME TypeOK, [Next]_vars
               PROVE  TypeOK'
    OBVIOUS
  <2>1. CASE UNCHANGED vars
    BY <2>1 DEF vars, TypeOK
  <2>2. CASE Pass
    BY <2>2, TimeAssumption DEF Pass, TypeOK
  <2>3. CASE Restart
    <3>1. zone' \in {0, -Shift}
      BY <2>3 DEF Restart, TypeOK
    <3>2. tried' \in [VM -> 0 .. Horizon]
      BY <2>3, TimeAssumption DEF Restart, TypeOK
    <3>3. mem' = disk /\ disk' = disk /\ unsaved' = FALSE /\ tick' = Idle
          /\ clock' = clock /\ snaps' = snaps /\ taken' = taken
      BY <2>3 DEF Restart, Reload
    <3> QED
      BY <3>1, <3>2, <3>3 DEF TypeOK
  <2> QED
    BY <2>1, <2>2, <2>3, TickTypes, RequestTypes DEF Next
<1> QED
  BY <1>1, <1>2, PTL DEF Spec

-----------------------------------------------------------------------------
(* The interval between two snapshots.                                     *)

\* The run clock in memory is the time of the last claim; so is the one in
\* the file, unless a save failed.
RunClockKept ==
    /\ SavedUnlessFailed
    /\ \A v \in VM : tried[v] # 0 => v \in DOMAIN mem /\ mem[v].last = tried[v]

LEMMA RunClockStep ==
    ASSUME TypeOK, RunClockKept, [Next]_vars
    PROVE  RunClockKept'
<1>1. CASE UNCHANGED <<mem, disk, unsaved, tried>>
  BY <1>1 DEF RunClockKept, SavedUnlessFailed
<1>2. ASSUME NEW v \in VM, NEW in \in Put, NEW ok \in BOOLEAN, PutEntry(v, in, ok)
      PROVE  RunClockKept'
  <2>1. SavedUnlessFailed'
    BY <1>2 DEF PutEntry, Save, SavedUnlessFailed
  <2>2. tried' = tried /\ DOMAIN mem' = DOMAIN mem \cup {v}
    BY <1>2 DEF PutEntry, Save
  <2>3. ASSUME NEW w \in DOMAIN mem
        PROVE  mem'[w].last = mem[w].last
    <3>1. CASE w = v
      <4>1. mem'[v] = Upserted(v, in)
        BY <1>2 DEF PutEntry, Save
      <4>2. Upserted(v, in).last = mem[v].last
        BY <3>1, <2>3, PutAssumption DEF Upserted, Given
      <4> QED
        BY <3>1, <4>1, <4>2
    <3>2. CASE w # v
      BY <1>2, <3>2 DEF PutEntry, Save
    <3> QED
      BY <3>1, <3>2
  <2> QED
    BY <2>1, <2>2, <2>3 DEF RunClockKept
<1>3. ASSUME NEW v \in VM, NEW ok \in BOOLEAN, DeleteEntry(v, ok)
      PROVE  RunClockKept'
  <2>1. SavedUnlessFailed'
    BY <1>3 DEF DeleteEntry, Save, SavedUnlessFailed
  <2>2. /\ DOMAIN mem' = DOMAIN mem \ {v}
        /\ \A w \in DOMAIN mem \ {v} : mem'[w] = mem[w]
    BY <1>3 DEF DeleteEntry, Save
  <2>3. \A w \in VM : tried'[w] = IF w = v THEN 0 ELSE tried[w]
    BY <1>3 DEF DeleteEntry, TypeOK
  <2> QED
    BY <2>1, <2>2, <2>3 DEF RunClockKept
<1>4. ASSUME NEW ok \in BOOLEAN, TickBegin(ok)
      PROVE  RunClockKept'
  <2>1. SavedUnlessFailed'
    BY <1>4 DEF TickBegin, Save, SavedUnlessFailed
  <2>2. /\ DOMAIN mem' = DOMAIN mem
        /\ \A w \in DOMAIN mem :
             mem'[w] = IF w \in Due THEN [mem[w] EXCEPT !.last = clock] ELSE mem[w]
    BY <1>4 DEF TickBegin, Save
  <2>3. \A w \in VM : tried'[w] = IF w \in Due THEN clock ELSE tried[w]
    BY <1>4 DEF TickBegin
  <2>4. \A w \in Due : w \in DOMAIN mem /\ [mem[w] EXCEPT !.last = clock].last = clock
    BY DEF Due, TypeOK, Entry
  <2> QED
    BY <2>1, <2>2, <2>3, <2>4 DEF RunClockKept
<1>5. CASE Restart
  <2>1. mem' = disk /\ disk' = disk /\ unsaved' = FALSE
    BY <1>5 DEF Restart, Reload
  <2>2. CASE unsaved
    BY <1>5, <2>1, <2>2 DEF Restart, RunClockKept, SavedUnlessFailed
  <2>3. CASE ~unsaved
    BY <1>5, <2>1, <2>3 DEF Restart, RunClockKept, SavedUnlessFailed
  <2> QED
    BY <2>2, <2>3
<1>6. CASE UNCHANGED vars
  BY <1>1, <1>6 DEF vars
<1>7. CASE Pass
  BY <1>1, <1>7 DEF Pass
<1>8. CASE Tick
  BY <1>1, <1>4, <1>8 DEF Tick, TickList, TickState, TickCreate, TickPrune
<1>9. ASSUME NEW v \in VM, Request(v)
      PROVE  RunClockKept'
  BY <1>1, <1>2, <1>3, <1>9 DEF Request, HandCreate, HandDelete
<1> QED
  BY <1>5, <1>6, <1>7, <1>8, <1>9 DEF Next

\* An interval that a time.Duration can hold is not changed by it.
LEMMA IntervalFits ==
    ASSUME NEW h \in Nat, h < Span
    PROVE  Interval(h) = h
<1>1. Span \in Nat /\ h + Span \in 0 .. (2 * Span - 1)
  BY TimeAssumption
<1>2. \A n \in Nat : \A k \in 0 .. (n - 1) : k % n = k
  OBVIOUS
<1>3. 2 * Span \in Nat
  BY <1>1
<1>4. (h + Span) % (2 * Span) = h + Span
  BY <1>1, <1>2, <1>3
<1> QED
  BY <1>1, <1>4 DEF Interval

\* Only TickBegin claims, and only what is due.
LEMMA ClaimIsDue ==
    ASSUME TypeOK, [Next]_vars, NEW v \in VM, Claimed(v)
    PROVE  v \in Due
<1>1. tick = Idle /\ tick' # tick /\ tick' # Idle
  BY DEF Claimed
<1>2. tick.step \notin {"next", "create", "list", "prune"}
  BY <1>1 DEF Idle
<1>3. PICK ok \in BOOLEAN : TickBegin(ok)
  <2>1. ~ Pass /\ ~ Restart /\ ~ UNCHANGED vars
    BY <1>1 DEF Pass, Restart, vars
  <2>2. \A w \in VM : ~ Request(w)
    BY <1>1 DEF Request, PutEntry, DeleteEntry, HandCreate, HandDelete
  <2>3. Tick
    BY <2>1, <2>2 DEF Next
  <2> QED
    BY <1>2, <2>3 DEF Tick, TickList, TickState, TickCreate, TickPrune
<1>4. tick'.todo = {[vm |-> w, keep |-> mem[w].keep] : w \in Due}
  BY <1>3 DEF TickBegin
<1> QED
  BY <1>4 DEF Claimed

(* However schedules are edited and whenever the daemon restarts, the      *)
(* scheduler leaves the interval between two snapshots of a VM, unless the *)
(* schedule was deleted or the save of a run clock was lost.               *)
THEOREM IntervalRespected == Spec => SpacedApart
<1>1. Init => RunClockKept
  BY DEF Init, StoreInit, RunClockKept, SavedUnlessFailed
<1>2. TypeOK /\ RunClockKept /\ [Next]_vars => RunClockKept'
  BY RunClockStep
<1>3. TypeOK /\ RunClockKept /\ [Next]_vars
        => [\A v \in VM : Claimed(v) /\ tried[v] # 0 /\ mem[v].hours < Span
              => clock - tried[v] >= mem[v].hours]_vars
  <2> SUFFICES ASSUME TypeOK, RunClockKept, [Next]_vars, NEW v \in VM,
                      Claimed(v), tried[v] # 0, mem[v].hours < Span
               PROVE  clock - tried[v] >= mem[v].hours
    OBVIOUS
  <2>1. v \in Due
    BY ClaimIsDue
  <2>2. v \in DOMAIN mem /\ mem[v].last = tried[v]
    BY DEF RunClockKept
  <2>3. mem[v].hours \in Nat
    BY <2>1, <2>2 DEF Due, TypeOK, Entry
  <2>4. Interval(mem[v].hours) = mem[v].hours
    BY <2>3, IntervalFits
  <2> QED
    BY <2>1, <2>2, <2>4 DEF Due
<1> QED
  BY <1>1, <1>2, <1>3, TypeCorrect, PTL DEF Spec, SpacedApart

-----------------------------------------------------------------------------
(* Pruning spares the newest.                                              *)

\* No user gives a snapshot a name of the scheduler's.
HandNamesApart == \A n \in HandName : ~n.auto

Later(v, time) == {t \in taken[v] : t > time}

\* While the local clock has not been set back, a name of the scheduler's is
\* the time of a tick that has taken a snapshot, ...
NamesAreTimes ==
    zone = 0 => \A v \in VM : \A s \in snaps[v] :
                  s.name.auto => s.made = s.name.at /\ s.made \in taken[v]

\* ... and enough later ones have been taken for whatever is in excess.
ExcessIsOld ==
    zone = 0 /\ tick.step = "prune"
        => \A n \in tick.excess :
             n.auto /\ Cardinality(Later(tick.cur.vm, n.at)) >= tick.cur.keep

RetentionInv == NamesAreTimes /\ ExcessIsOld

LEMMA HorizonIsFinite == IsFiniteSet(1 .. Horizon)
<1>1. 1 \in Int /\ Horizon \in Int
  BY TimeAssumption
<1> QED
  BY <1>1, FS_Interval

LEMMA LaterIsFinite ==
    ASSUME TypeOK, NEW v \in VM, NEW time
    PROVE  IsFiniteSet(Later(v, time)) /\ Cardinality(Later(v, time)) \in Nat
<1>1. Later(v, time) \in SUBSET (1 .. Horizon)
  BY DEF Later, TypeOK
<1>2. IsFiniteSet(Later(v, time))
  BY <1>1, HorizonIsFinite, FS_Subset
<1> QED
  BY <1>2, FS_CardinalityType

\* A name beyond the newest `keep` has at least `keep` later ticks.
LEMMA ExcessHasLater ==
    ASSUME TypeOK, NamesAreTimes, zone = 0, NEW v \in VM, NEW keep \in Nat,
           NEW n \in Excess(Autos(v), keep)
    PROVE  n.auto /\ Cardinality(Later(v, n.at)) >= keep
<1> DEFINE newer == {m \in Autos(v) : m.at > n.at}
           time  == [m \in newer |-> m.at]
<1>1. n \in Autos(v) /\ Cardinality(newer) >= keep
  BY DEF Excess
<1>2. Autos(v) \subseteq Name /\ \A m \in Autos(v) : m.auto
  BY NamesAreNames DEF Autos
<1>3. \A m \in newer : m.at \in Later(v, n.at)
  <2> SUFFICES ASSUME NEW m \in newer
               PROVE  m.at \in Later(v, n.at)
    OBVIOUS
  <2>1. PICK s \in snaps[v] : s.name = m
    BY DEF Autos, Names
  <2>2. m.at \in taken[v]
    BY <2>1, <1>2 DEF NamesAreTimes
  <2> QED
    BY <2>2 DEF Later
<1>4. \A m, k \in newer : m.at = k.at => m = k
  BY <1>2 DEF Name
<1>5. time \in Injection(newer, Later(v, n.at))
  <2>1. time \in [newer -> Later(v, n.at)]
    BY <1>3
  <2>2. \A m, k \in newer : time[m] = time[k] => m = k
    BY <1>4
  <2> QED
    BY <2>1, <2>2, Fun_IsInj
<1>6. IsFiniteSet(newer) /\ Cardinality(newer) <= Cardinality(Later(v, n.at))
  BY <1>5, LaterIsFinite, FS_Injection
<1>7. Cardinality(newer) \in Nat /\ Cardinality(Later(v, n.at)) \in Nat
  BY <1>6, LaterIsFinite, FS_CardinalityType
<1> HIDE DEF newer
<1> QED
  BY <1>1, <1>2, <1>6, <1>7

LEMMA RetentionStep ==
    ASSUME HandNamesApart, TypeOK, TypeOK', RetentionInv, [Next]_vars
    PROVE  RetentionInv'
<1>1. CASE UNCHANGED <<zone, snaps, taken>> /\ (tick' = tick \/ tick'.step # "prune")
  <2>1. NamesAreTimes'
    BY <1>1 DEF RetentionInv, NamesAreTimes
  <2>2. ExcessIsOld'
    BY <1>1 DEF RetentionInv, ExcessIsOld, Later
  <2> QED
    BY <2>1, <2>2 DEF RetentionInv
<1>2. ASSUME NEW ok \in BOOLEAN, TickList(ok)
      PROVE  RetentionInv'
  <2>1. UNCHANGED <<zone, snaps, taken>>
    BY <1>2 DEF TickList
  <2>2. NamesAreTimes'
    BY <2>1 DEF RetentionInv, NamesAreTimes
  <2>3. tick.cur \in Claim
    BY <1>2, BusyTick, TickHas DEF TickList
  <2>4. ASSUME zone' = 0, tick'.step = "prune"
        PROVE  /\ tick'.cur = tick.cur
               /\ tick'.excess = Excess(Autos(tick.cur.vm), tick.cur.keep)
    BY <1>2, <2>4 DEF TickList, Onward, Idle
  <2>5. ExcessIsOld'
    <3> SUFFICES ASSUME zone' = 0, tick'.step = "prune", NEW n \in tick'.excess
                 PROVE  n.auto /\ Cardinality(Later(tick.cur.vm, n.at)) >= tick.cur.keep
      BY <2>1, <2>4 DEF ExcessIsOld, Later
    <3>1. n \in Excess(Autos(tick.cur.vm), tick.cur.keep)
      BY <2>4
    <3>2. tick.cur.vm \in VM /\ tick.cur.keep \in Nat
      BY <2>3 DEF Claim
    <3> QED
      BY <2>1, <3>1, <3>2, ExcessHasLater DEF RetentionInv
  <2> QED
    BY <2>2, <2>5 DEF RetentionInv
<1>3. ASSUME NEW o \in Outcome, TickCreate(o)
      PROVE  RetentionInv'
  <2>1. tick.cur.vm \in VM /\ tick.now \in 1 .. Horizon
    BY <1>3, BusyTick, TickHas DEF TickCreate, Claim
  <2>2. zone' = zone /\ tick'.step # "prune"
    <3>1. CASE tick' = [tick EXCEPT !.step = "list"]
      <4>1. tick \in [step : {"create", "list"}, todo : SUBSET Claim,
                      now : 1 .. Horizon, cur : Claim]
        BY <1>3, BusyTick, TickHas DEF TickCreate
      <4> QED
        BY <1>3, <3>1, <4>1 DEF TickCreate
    <3>2. CASE tick' = Onward(tick.todo)
      BY <1>3, <3>2 DEF TickCreate, Onward, Idle
    <3> QED
      BY <1>3, <3>1, <3>2 DEF TickCreate
  <2>3. NamesAreTimes'
    <3> SUFFICES ASSUME zone' = 0, NEW v \in VM, NEW s \in snaps'[v], s.name.auto
                 PROVE  s.made = s.name.at /\ s.made \in taken'[v]
      BY DEF NamesAreTimes
    <3>1. CASE s \in snaps[v]
      <4>1. s.made = s.name.at /\ s.made \in taken[v]
        BY <2>2, <3>1 DEF RetentionInv, NamesAreTimes
      <4>2. taken[v] \subseteq taken'[v]
        BY <1>3, <2>1 DEF TickCreate, TypeOK
      <4> QED
        BY <4>1, <4>2
    <3>2. CASE s \notin snaps[v]
      <4>1. /\ v = tick.cur.vm
            /\ s = [name |-> AutoName, made |-> tick.now]
            /\ tick.now \in taken'[v]
        BY <1>3, <2>1, <3>2 DEF TickCreate, TypeOK
      <4> QED
        BY <2>1, <2>2, <4>1 DEF AutoName
    <3> QED
      BY <3>1, <3>2
  <2> QED
    BY <2>2, <2>3 DEF RetentionInv, ExcessIsOld
<1>4. ASSUME NEW n \in tick.excess, NEW o \in Outcome, TickPrune(n, o)
      PROVE  RetentionInv'
  <2>1. /\ tick.cur.vm \in VM
        /\ tick \in [step : {"prune"}, todo : SUBSET Claim,
                     now : 1 .. Horizon, cur : Claim, excess : SUBSET Name]
    BY <1>4, BusyTick, TickHas DEF TickPrune, Claim
  <2>2. UNCHANGED <<zone, taken>> /\ tick.step = "prune"
    BY <1>4 DEF TickPrune
  <2>3. \A v \in VM : snaps'[v] \subseteq snaps[v]
    BY <1>4, <2>1 DEF TickPrune, TypeOK
  <2>4. NamesAreTimes'
    BY <2>2, <2>3 DEF RetentionInv, NamesAreTimes
  <2>5. CASE tick' = Onward(tick.todo)
    BY <2>4, <2>5 DEF RetentionInv, ExcessIsOld, Onward, Idle
  <2>6. CASE tick' = [tick EXCEPT !.excess = @ \ {n}]
    <3>1. tick'.excess \subseteq tick.excess /\ tick'.cur = tick.cur
      BY <2>1, <2>6
    <3>2. ExcessIsOld'
      BY <2>2, <3>1 DEF RetentionInv, ExcessIsOld, Later
    <3> QED
      BY <2>4, <3>2 DEF RetentionInv
  <2> QED
    BY <1>4, <2>5, <2>6 DEF TickPrune
<1>5. ASSUME NEW v \in VM, NEW n \in HandName, HandCreate(v, n)
      PROVE  RetentionInv'
  <2>1. UNCHANGED <<zone, taken, tick>>
    BY <1>5 DEF HandCreate
  <2>2. \A w \in VM : \A s \in snaps'[w] : s.name.auto => s \in snaps[w]
    BY <1>5 DEF HandCreate, TypeOK, HandNamesApart
  <2>3. NamesAreTimes'
    BY <2>1, <2>2 DEF RetentionInv, NamesAreTimes
  <2>4. ExcessIsOld'
    BY <2>1 DEF RetentionInv, ExcessIsOld, Later
  <2> QED
    BY <2>3, <2>4 DEF RetentionInv
<1>6. ASSUME NEW v \in VM, NEW chosen \in SUBSET snaps[v], HandDelete(v, chosen)
      PROVE  RetentionInv'
  <2>1. UNCHANGED <<zone, taken, tick>>
    BY <1>6 DEF HandDelete
  <2>2. \A w \in VM : snaps'[w] \subseteq snaps[w]
    BY <1>6 DEF HandDelete, TypeOK
  <2>3. NamesAreTimes'
    BY <2>1, <2>2 DEF RetentionInv, NamesAreTimes
  <2>4. ExcessIsOld'
    BY <2>1 DEF RetentionInv, ExcessIsOld, Later
  <2> QED
    BY <2>3, <2>4 DEF RetentionInv
<1>7. CASE Restart
  <2>1. UNCHANGED <<snaps, taken>> /\ tick' = Idle
    BY <1>7 DEF Restart
  <2>2. zone' = 0 => zone = 0
    BY <1>7, TimeAssumption DEF Restart, TypeOK
  <2> QED
    BY <2>1, <2>2 DEF RetentionInv, NamesAreTimes, ExcessIsOld, Idle
<1>8. CASE UNCHANGED vars
  BY <1>1, <1>8 DEF vars
<1>9. CASE Pass
  BY <1>1, <1>9 DEF Pass
<1>10. ASSUME NEW ok \in BOOLEAN, TickBegin(ok)
       PROVE  RetentionInv'
  BY <1>1, <1>10 DEF TickBegin
<1>11. ASSUME NEW c \in tick.todo, NEW ok \in BOOLEAN, TickState(c, ok)
       PROVE  RetentionInv'
  BY <1>1, <1>11 DEF TickState, Onward, Idle
<1>12. CASE Tick
  BY <1>2, <1>3, <1>4, <1>10, <1>11, <1>12 DEF Tick
<1>13. ASSUME NEW v \in VM, Request(v)
       PROVE  RetentionInv'
  BY <1>1, <1>5, <1>6, <1>13 DEF Request, PutEntry, DeleteEntry
<1> QED
  BY <1>7, <1>8, <1>9, <1>12, <1>13 DEF Next

(* Where no user gives a snapshot a name that starts with AutoPrefix, and  *)
(* while the local clock has not been set back, pruning deletes a snapshot *)
(* only when as many later ones have been taken as the schedule keeps,     *)
(* whatever the user creates and deletes while the tick is under way.      *)
THEOREM NewestKept ==
    ASSUME HandNamesApart
    PROVE  Spec => NewestSpared
<1>1. Init => RetentionInv
  BY DEF Init, RetentionInv, NamesAreTimes, ExcessIsOld, Idle
<1>2. TypeOK /\ TypeOK' /\ RetentionInv /\ [Next]_vars => RetentionInv'
  BY RetentionStep
<1>3. TypeOK /\ RetentionInv /\ [Next]_vars
        => [\A v \in VM : \A s \in snaps[v] \ snaps'[v] : zone = 0 /\ tick # tick'
              => Cardinality({t \in taken[v] : t > s.made}) >= tick.cur.keep]_vars
  <2> SUFFICES ASSUME TypeOK, RetentionInv, [Next]_vars, NEW v \in VM,
                      NEW s \in snaps[v] \ snaps'[v], zone = 0, tick # tick'
               PROVE  Cardinality({t \in taken[v] : t > s.made}) >= tick.cur.keep
    OBVIOUS
  <2>1. PICK n \in tick.excess, o \in Outcome : TickPrune(n, o)
    <3>1. ~ Pass /\ ~ Restart /\ ~ UNCHANGED vars
      BY DEF Pass, Restart, vars
    <3>2. \A w \in VM : ~ Request(w)
      BY DEF Request, PutEntry, DeleteEntry, HandCreate, HandDelete
    <3>3. \A o \in Outcome : ~ TickCreate(o)
      <4> SUFFICES ASSUME NEW o \in Outcome, TickCreate(o)
                   PROVE  FALSE
        OBVIOUS
      <4>1. tick.cur.vm \in VM
        BY BusyTick, TickHas DEF TickCreate, Claim
      <4> QED
        BY <4>1 DEF TickCreate, TypeOK
    <3> QED
      BY <3>1, <3>2, <3>3 DEF Next, Tick, TickBegin, TickList, TickState
  <2>2. tick.step = "prune" /\ n.auto
        /\ Cardinality(Later(tick.cur.vm, n.at)) >= tick.cur.keep
    BY <2>1 DEF TickPrune, RetentionInv, ExcessIsOld
  <2>3. tick.cur.vm \in VM
    BY <2>2, BusyTick, TickHas DEF Claim
  <2>4. v = tick.cur.vm /\ s.name = n
    BY <2>1, <2>3 DEF TickPrune, TypeOK
  <2>5. s.made = n.at
    BY <2>2, <2>4 DEF RetentionInv, NamesAreTimes
  <2> QED
    BY <2>2, <2>4, <2>5 DEF Later
<1> QED
  BY <1>1, <1>2, <1>3, TypeCorrect, PTL DEF Spec, NewestSpared

-----------------------------------------------------------------------------
(* The snapshots that were made by hand.                                   *)

\* A name of the scheduler's is a snapshot of a tick, and only such a name is
\* ever in excess.
AutoIsOfATick ==
    /\ \A v \in VM : \A s \in snaps[v] : s.name.auto => s.made # 0
    /\ tick.step = "prune" => \A n \in tick.excess : n.auto

(* "Manual snapshots are never touched" (schedule.go:18-20): whatever is   *)
(* created and deleted by hand while a tick prunes, and however the clock  *)
(* and the zone are set, a snapshot that goes in a step of the tick was    *)
(* made by a tick.                                                         *)
ManualUntouched ==
    [][\A v \in VM : \A s \in snaps[v] \ snaps'[v] : tick' # tick => s.made # 0]_vars

\* Which snapshots a step adds and removes.
LEMMA SnapshotSteps ==
    ASSUME TypeOK, [Next]_vars
    PROVE  \/ UNCHANGED snaps
           \/ \E o \in Outcome : TickCreate(o)
           \/ tick.step = "prune" /\ \E n \in tick.excess, o \in Outcome : TickPrune(n, o)
           \/ \E v \in VM, n \in HandName : HandCreate(v, n)
           \/ \E v \in VM : \E chosen \in SUBSET snaps[v] : HandDelete(v, chosen)
BY DEF Next, Tick, TickBegin, TickList, TickState, Request, PutEntry, DeleteEntry, Pass,
   Restart, vars

LEMMA CreateAdds ==
    ASSUME TypeOK, NEW o \in Outcome, TickCreate(o)
    PROVE  /\ tick.cur.vm \in VM /\ tick.now \in 1 .. Horizon
           /\ tick'.step \in {"idle", "next", "list"}
           /\ UNCHANGED snaps \/
                /\ AutoName \notin Names(tick.cur.vm)
                /\ snaps' = [snaps EXCEPT ![tick.cur.vm] =
                               @ \cup {[name |-> AutoName, made |-> tick.now]}]
<1>1. /\ tick.cur.vm \in VM /\ tick.now \in 1 .. Horizon
      /\ tick \in [step : {"create", "list"}, todo : SUBSET Claim,
                   now : 1 .. Horizon, cur : Claim]
  BY BusyTick, TickHas DEF TickCreate, Claim
<1>2. tick'.step \in {"idle", "next", "list"}
  BY <1>1 DEF TickCreate, Onward, Idle
<1> QED
  BY <1>1, <1>2 DEF TickCreate, Succeeds, TimesOut

LEMMA PruneRemoves ==
    ASSUME TypeOK, NEW n \in tick.excess, NEW o \in Outcome, TickPrune(n, o)
    PROVE  /\ tick.cur.vm \in VM
           /\ UNCHANGED snaps \/
                snaps' = [snaps EXCEPT ![tick.cur.vm] = {s \in @ : s.name # n}]
           /\ tick'.step = "prune" => tick'.excess \subseteq tick.excess
<1>1. /\ tick.cur.vm \in VM
      /\ tick \in [step : {"prune"}, todo : SUBSET Claim,
                   now : 1 .. Horizon, cur : Claim, excess : SUBSET Name]
  BY BusyTick, TickHas DEF TickPrune, Claim
<1>2. tick'.step = "prune" => tick'.excess \subseteq tick.excess
  BY <1>1 DEF TickPrune, Onward, Idle
<1> QED
  BY <1>1, <1>2 DEF TickPrune

\* Excess is of the scheduler's names, and of no others.
LEMMA ExcessStep ==
    ASSUME TypeOK, AutoIsOfATick, [Next]_vars, tick'.step = "prune"
    PROVE  \A n \in tick'.excess : n.auto
<1>1. CASE tick' = tick
  BY <1>1 DEF AutoIsOfATick
<1>2. ASSUME NEW ok \in BOOLEAN, TickList(ok)
      PROVE  \A n \in tick'.excess : n.auto
  BY <1>2 DEF TickList, Onward, Idle, Excess, Autos
<1>3. ASSUME NEW n \in tick.excess, NEW o \in Outcome, TickPrune(n, o)
      PROVE  \A m \in tick'.excess : m.auto
  <2>1. tick.step = "prune" /\ tick'.excess \subseteq tick.excess
    BY <1>3, PruneRemoves DEF TickPrune
  <2> QED
    BY <2>1 DEF AutoIsOfATick
<1>4. ASSUME NEW o \in Outcome, TickCreate(o)
      PROVE  FALSE
  BY <1>4, CreateAdds
<1>5. ASSUME (\E ok : TickBegin(ok)) \/ (\E c, ok : TickState(c, ok)) \/ Restart
      PROVE  FALSE
  <2>1. ASSUME NEW ok, TickBegin(ok)
        PROVE  FALSE
    <3>1. tick'.step = "next"
      BY <2>1 DEF TickBegin
    <3> QED
      BY <3>1
  <2>2. ASSUME NEW c, NEW ok, TickState(c, ok)
        PROVE  FALSE
    BY <2>2 DEF TickState, Onward, Idle
  <2>3. CASE Restart
    BY <2>3 DEF Restart, Idle
  <2> QED
    BY <1>5, <2>1, <2>2, <2>3
<1>6. CASE Tick
  BY <1>2, <1>3, <1>4, <1>5, <1>6 DEF Tick
<1> QED
  BY <1>1, <1>5, <1>6 DEF Next, Request, PutEntry, DeleteEntry, HandCreate, HandDelete,
     Pass, vars

LEMMA AutoInvariant ==
    ASSUME HandNamesApart
    PROVE  Spec => []AutoIsOfATick
<1>1. Init => AutoIsOfATick
  BY DEF Init, AutoIsOfATick, Idle
<1>2. TypeOK /\ AutoIsOfATick /\ [Next]_vars => AutoIsOfATick'
  <2> SUFFICES ASSUME TypeOK, AutoIsOfATick, [Next]_vars
               PROVE  AutoIsOfATick'
    OBVIOUS
  <2>1. tick'.step = "prune" => \A n \in tick'.excess : n.auto
    BY ExcessStep
  <2>2. ASSUME NEW v \in VM, NEW s \in snaps'[v], s.name.auto
        PROVE  s.made # 0
    <3>1. CASE s \in snaps[v]
      BY <2>2, <3>1 DEF AutoIsOfATick
    <3>2. ASSUME s \notin snaps[v], NEW o \in Outcome, TickCreate(o)
          PROVE  s.made # 0
      <4>1. s = [name |-> AutoName, made |-> tick.now] /\ tick.now \in 1 .. Horizon
        BY <3>2, CreateAdds DEF TypeOK
      <4> QED
        BY <4>1, TimeAssumption
    <3>3. ASSUME s \notin snaps[v], NEW n \in tick.excess, NEW o \in Outcome, TickPrune(n, o)
          PROVE  FALSE
      BY <3>3, PruneRemoves DEF TypeOK
    <3>4. ASSUME s \notin snaps[v], NEW w \in VM, NEW n \in HandName, HandCreate(w, n)
          PROVE  FALSE
      BY <2>2, <3>4 DEF HandCreate, HandNamesApart, TypeOK
    <3>5. ASSUME s \notin snaps[v], NEW w \in VM, NEW chosen, HandDelete(w, chosen)
          PROVE  FALSE
      BY <3>5 DEF HandDelete, TypeOK
    <3> QED
      BY <3>1, <3>2, <3>3, <3>4, <3>5, SnapshotSteps
  <2> QED
    BY <2>1, <2>2 DEF AutoIsOfATick
<1> QED
  BY <1>1, <1>2, TypeCorrect, PTL DEF Spec

THEOREM ManualSnapshotsStay ==
    ASSUME HandNamesApart
    PROVE  Spec => ManualUntouched
<1>1. TypeOK /\ AutoIsOfATick /\ [Next]_vars =>
        [\A v \in VM : \A s \in snaps[v] \ snaps'[v] : tick' # tick => s.made # 0]_vars
  <2> SUFFICES ASSUME TypeOK, AutoIsOfATick, [Next]_vars, NEW v \in VM,
                      NEW s \in snaps[v] \ snaps'[v], tick' # tick
               PROVE  s.made # 0
    OBVIOUS
  <2>1. ASSUME NEW o \in Outcome, TickCreate(o)
        PROVE  FALSE
    BY <2>1, CreateAdds DEF TypeOK
  <2>2. PICK n \in tick.excess, o \in Outcome : TickPrune(n, o)
    BY <2>1, SnapshotSteps DEF HandCreate, HandDelete
  <2>3. s.name = n
    BY <2>2, PruneRemoves DEF TypeOK
  <2>4. n.auto
    BY <2>2 DEF AutoIsOfATick, TickPrune
  <2> QED
    BY <2>3, <2>4 DEF AutoIsOfATick
<1> QED
  BY <1>1, AutoInvariant, TypeCorrect, PTL DEF Spec, ManualUntouched

-----------------------------------------------------------------------------
(* What a snapshot of the scheduler's stands for.                          *)

\* The VMs a tick has still to snapshot, the one it is at among them.
Busy == IF tick = Idle THEN {}
        ELSE {c.vm : c \in tick.todo}
               \cup (IF tick.step = "next" THEN {} ELSE {tick.cur.vm})

\* What is under way was claimed by this tick, or has been deleted since.
ClaimsAreTried == \A v \in Busy : tried[v] \in {0, tick.now}

(* A snapshot that the scheduler takes is the one of a claim: of the last  *)
(* claim of the VM, unless its schedule was deleted while the tick was     *)
(* under way.  What SpacedApart says of claims is so true of snapshots:    *)
(* a tick that takes its time does not come too near to the next one's     *)
(* (schedule.go:180-199: the clock is moved first, the snapshots follow).  *)
SnapshotsAreClaimed ==
    [][\A v \in VM :
         taken'[v] # taken[v] =>
           /\ tried[v] \in {0, tick.now}
           /\ taken'[v] = taken[v] \cup {tick.now}]_vars

\* A step of the tick after its begin.
LEMMA TickGoesOn ==
    ASSUME TypeOK, Tick, tick # Idle
    PROVE  /\ tried' = tried
           /\ tick' # Idle => Busy' \subseteq Busy /\ tick'.now = tick.now
<1>1. ~ \E ok \in BOOLEAN : TickBegin(ok)
  BY DEF TickBegin
<1>2. ASSUME NEW ok \in BOOLEAN, TickList(ok)
      PROVE  /\ tried' = tried
             /\ tick' # Idle => Busy' \subseteq Busy /\ tick'.now = tick.now
  <2>1. tried' = tried /\ tick.step = "list"
    BY <1>2 DEF TickList
  <2>2. CASE tick' = [step |-> "prune", todo |-> tick.todo, now |-> tick.now, cur |-> tick.cur,
                      excess |-> Excess(Autos(tick.cur.vm), tick.cur.keep)]
    BY <2>1, <2>2 DEF Busy
  <2>3. CASE tick' = Onward(tick.todo)
    BY <2>1, <2>3 DEF Busy, Onward
  <2> QED
    BY <1>2, <2>1, <2>2, <2>3 DEF TickList
<1>3. ASSUME NEW c \in tick.todo, NEW ok \in BOOLEAN, TickState(c, ok)
      PROVE  /\ tried' = tried
             /\ tick' # Idle => Busy' \subseteq Busy /\ tick'.now = tick.now
  BY <1>3 DEF TickState, Busy, Onward
<1>4. ASSUME NEW o \in Outcome, TickCreate(o)
      PROVE  /\ tried' = tried
             /\ tick' # Idle => Busy' \subseteq Busy /\ tick'.now = tick.now
  <2>1. tried' = tried /\ tick.step = "create"
    BY <1>4 DEF TickCreate
  <2>2. CASE tick' = [tick EXCEPT !.step = "list"]
    <3>1. tick \in [step : {"create", "list"}, todo : SUBSET Claim,
                    now : 1 .. Horizon, cur : Claim]
      BY <2>1, TickHas
    <3>2. /\ tick'.todo = tick.todo /\ tick'.cur = tick.cur /\ tick'.now = tick.now
          /\ tick'.step = "list"
      BY <2>2, <3>1
    <3> QED
      BY <2>1, <3>2 DEF Busy
  <2>3. CASE tick' = Onward(tick.todo)
    BY <2>1, <2>3 DEF Busy, Onward
  <2> QED
    BY <1>4, <2>1, <2>2, <2>3 DEF TickCreate
<1>5. ASSUME NEW n \in tick.excess, NEW o \in Outcome, TickPrune(n, o)
      PROVE  /\ tried' = tried
             /\ tick' # Idle => Busy' \subseteq Busy /\ tick'.now = tick.now
  <2>1. tried' = tried /\ tick.step = "prune"
    BY <1>5 DEF TickPrune
  <2>2. CASE tick' = [tick EXCEPT !.excess = @ \ {n}]
    <3>1. tick \in [step : {"prune"}, todo : SUBSET Claim,
                    now : 1 .. Horizon, cur : Claim, excess : SUBSET Name]
      BY <2>1, TickHas
    <3>2. /\ tick'.todo = tick.todo /\ tick'.cur = tick.cur /\ tick'.now = tick.now
          /\ tick'.step = "prune"
      BY <2>2, <3>1
    <3> QED
      BY <2>1, <3>2 DEF Busy
  <2>3. CASE tick' = Onward(tick.todo)
    BY <2>1, <2>3 DEF Busy, Onward
  <2> QED
    BY <1>5, <2>1, <2>2, <2>3 DEF TickPrune
<1> QED
  BY <1>1, <1>2, <1>3, <1>4, <1>5 DEF Tick

LEMMA ClaimsStep ==
    ASSUME TypeOK, ClaimsAreTried, [Next]_vars
    PROVE  ClaimsAreTried'
<1>1. CASE UNCHANGED <<tick, tried>>
  BY <1>1 DEF ClaimsAreTried, Busy
<1>2. tick' = Idle => ClaimsAreTried'
  BY DEF ClaimsAreTried, Busy
<1>3. ASSUME NEW ok \in BOOLEAN, TickBegin(ok)
      PROVE  ClaimsAreTried'
  <2>1. /\ tick' = [step |-> "next",
                    todo |-> {[vm |-> v, keep |-> mem[v].keep] : v \in Due},
                    now |-> clock]
        /\ tried' = [v \in VM |-> IF v \in Due THEN clock ELSE tried[v]]
    BY <1>3 DEF TickBegin
  <2>2. Due \subseteq VM
    BY DEF Due, TypeOK
  <2>3. Busy' \subseteq Due
    BY <2>1 DEF Busy
  <2> QED
    BY <2>1, <2>2, <2>3 DEF ClaimsAreTried
<1>4. CASE Tick
  <2>1. CASE tick = Idle
    BY <1>3, <1>4, <2>1 DEF Tick, TickList, TickState, TickCreate, TickPrune, Idle
  <2>2. CASE tick # Idle
    BY <1>2, <1>4, <2>2, TickGoesOn DEF ClaimsAreTried
  <2> QED
    BY <2>1, <2>2
<1>5. ASSUME NEW v \in VM, Request(v)
      PROVE  ClaimsAreTried'
  <2>1. tick' = tick /\ (tried' = tried \/ tried' = [tried EXCEPT ![v] = 0])
    BY <1>5 DEF Request, PutEntry, DeleteEntry, HandCreate, HandDelete
  <2>2. \A w \in VM : tried'[w] \in {0, tried[w]}
    BY <2>1 DEF TypeOK
  <2>3. Busy \subseteq VM
    <3>1. CASE tick = Idle
      BY <3>1 DEF Busy
    <3>2. CASE tick # Idle
      <4>1. tick.todo \in SUBSET Claim
            /\ (tick.step # "next" => tick.step \in {"create", "list", "prune"})
        BY <3>2, TickHas DEF TypeOK, TickStep
      <4>2. tick.step # "next" => tick.cur \in Claim
        BY <3>2, <4>1, TickHas
      <4> QED
        BY <3>2, <4>1, <4>2 DEF Busy, Claim
    <3> QED
      BY <3>1, <3>2
  <2>4. Busy' = Busy /\ tick'.now = tick.now
    BY <2>1 DEF Busy
  <2> QED
    BY <2>2, <2>3, <2>4 DEF ClaimsAreTried
<1> QED
  BY <1>1, <1>2, <1>4, <1>5 DEF Next, Pass, Restart, vars

THEOREM ScheduledSnapshots == Spec => SnapshotsAreClaimed
<1>1. Init => ClaimsAreTried
  BY DEF Init, ClaimsAreTried, Busy
<1>2. TypeOK /\ ClaimsAreTried /\ [Next]_vars => ClaimsAreTried'
  BY ClaimsStep
<1>3. TypeOK /\ ClaimsAreTried /\ [Next]_vars =>
        [\A v \in VM :
           taken'[v] # taken[v] =>
             /\ tried[v] \in {0, tick.now}
             /\ taken'[v] = taken[v] \cup {tick.now}]_vars
  <2> SUFFICES ASSUME TypeOK, ClaimsAreTried, [Next]_vars, NEW v \in VM, taken'[v] # taken[v]
               PROVE  tried[v] \in {0, tick.now} /\ taken'[v] = taken[v] \cup {tick.now}
    OBVIOUS
  <2>1. PICK o \in Outcome : TickCreate(o)
    BY DEF Next, Tick, TickBegin, TickList, TickState, TickPrune, Request, PutEntry,
       DeleteEntry, HandCreate, HandDelete, Pass, Restart, vars
  <2>2. /\ tick.step = "create"
        /\ taken' = [taken EXCEPT ![tick.cur.vm] = @ \cup {tick.now}]
    BY <2>1 DEF TickCreate
  <2>3. v = tick.cur.vm /\ taken'[v] = taken[v] \cup {tick.now}
    BY <2>2 DEF TypeOK
  <2>4. v \in Busy
    BY <2>2, <2>3 DEF Busy, Idle
  <2> QED
    BY <2>3, <2>4 DEF ClaimsAreTried
<1> QED
  BY <1>1, <1>2, <1>3, TypeCorrect, PTL DEF Spec, SnapshotsAreClaimed

(* A name stands for one snapshot of a VM, so that deleting the oldest     *)
(* name deletes the oldest snapshot and no other: libvirt refuses a name   *)
(* that is there, also when the clock is set back to the time of one.      *)
OnePerName == \A v \in VM : \A s, t \in snaps[v] : s.name = t.name => s = t

THEOREM NamesAreUnique == Spec => []OnePerName
<1>1. Init => OnePerName
  BY DEF Init, OnePerName
<1>2. TypeOK /\ OnePerName /\ [Next]_vars => OnePerName'
  <2> SUFFICES ASSUME TypeOK, OnePerName, [Next]_vars,
                      NEW v \in VM, NEW s \in snaps'[v], NEW t \in snaps'[v],
                      s.name = t.name
               PROVE  s = t
    BY DEF OnePerName
  <2>1. CASE snaps'[v] \subseteq snaps[v]
    BY <2>1 DEF OnePerName
  <2>2. ASSUME NEW n, NEW made, NEW w \in VM, n \notin Names(w),
               snaps' = [snaps EXCEPT ![w] = @ \cup {[name |-> n, made |-> made]}]
        PROVE  s = t
    <3>1. CASE v # w
      BY <2>1, <2>2, <3>1 DEF TypeOK
    <3>2. CASE v = w
      <4>1. snaps'[v] = snaps[v] \cup {[name |-> n, made |-> made]}
        BY <2>2, <3>2 DEF TypeOK
      <4>2. \A r \in snaps[v] : r.name # n
        BY <2>2, <3>2 DEF Names
      <4> QED
        BY <4>1, <4>2 DEF OnePerName
    <3> QED
      BY <3>1, <3>2
  <2>3. ASSUME NEW o \in Outcome, TickCreate(o)
        PROVE  s = t
    BY <2>1, <2>2, <2>3, CreateAdds
  <2>4. ASSUME NEW n \in tick.excess, NEW o \in Outcome, TickPrune(n, o)
        PROVE  s = t
    BY <2>1, <2>4, PruneRemoves DEF TypeOK
  <2>5. ASSUME NEW w \in VM, NEW n \in HandName, HandCreate(w, n)
        PROVE  s = t
    BY <2>2, <2>5 DEF HandCreate
  <2>6. ASSUME NEW w \in VM, NEW chosen, HandDelete(w, chosen)
        PROVE  s = t
    BY <2>1, <2>6 DEF HandDelete, TypeOK
  <2> QED
    BY <2>1, <2>3, <2>4, <2>5, <2>6, SnapshotSteps
<1> QED
  BY <1>1, <1>2, TypeCorrect, PTL DEF Spec

-----------------------------------------------------------------------------
(* The store.                                                              *)

(* Memory and file of the schedules differ only after a save that failed.  *)
(* tick drops the error of its save (schedule.go:180), so this is what a   *)
(* restart may lose: the run clocks of the tick whose save failed.         *)
THEOREM MemoryIsSaved == Spec => []SavedUnlessFailed
<1>1. Init => RunClockKept
  BY DEF Init, StoreInit, RunClockKept, SavedUnlessFailed
<1>2. TypeOK /\ RunClockKept /\ [Next]_vars => RunClockKept'
  BY RunClockStep
<1>3. RunClockKept => SavedUnlessFailed
  BY DEF RunClockKept
<1> QED
  BY <1>1, <1>2, <1>3, TypeCorrect, PTL DEF Spec

Schedules == UNION {[S -> Entry] : S \in SUBSET VM}

(* The store of the schedules, which requests and ticks change, is the one *)
(* that StoreFile implements (schedule.go: Upsert, Delete, tick, NewStore).*)
Store == INSTANCE AtomicStore WITH Contents <- Schedules

LEMMA IsSchedules ==
    ASSUME NEW S \in SUBSET VM, NEW contents \in [S -> Entry]
    PROVE  contents \in Schedules
BY DEF Schedules

LEMMA StoreSteps ==
    ASSUME TypeOK, [Next]_vars
    PROVE  \/ UNCHANGED store
           \/ Reload
           \/ \E contents \in Schedules, ok \in BOOLEAN : Save(contents, ok)
<1>1. ASSUME NEW v \in VM, NEW in \in Put, NEW ok \in BOOLEAN, PutEntry(v, in, ok)
      PROVE  \E contents \in Schedules : Save(contents, ok)
  <2> DEFINE after == [w \in DOMAIN mem \cup {v} |->
                         IF w = v THEN Upserted(v, in) ELSE mem[w]]
  <2>1. after \in [DOMAIN mem \cup {v} -> Entry] /\ DOMAIN mem \cup {v} \in SUBSET VM
    BY UpsertedIsEntry DEF TypeOK
  <2>2. Save(after, ok)
    BY <1>1 DEF PutEntry
  <2> HIDE DEF after
  <2> QED
    BY <2>1, <2>2, IsSchedules
<1>2. ASSUME NEW v \in VM, NEW ok \in BOOLEAN, DeleteEntry(v, ok)
      PROVE  \E contents \in Schedules : Save(contents, ok)
  <2> DEFINE after == [w \in DOMAIN mem \ {v} |-> mem[w]]
  <2>1. after \in [DOMAIN mem \ {v} -> Entry] /\ DOMAIN mem \ {v} \in SUBSET VM
    BY DEF TypeOK
  <2>2. Save(after, ok)
    BY <1>2 DEF DeleteEntry
  <2> HIDE DEF after
  <2> QED
    BY <2>1, <2>2, IsSchedules
<1>3. ASSUME NEW ok \in BOOLEAN, TickBegin(ok)
      PROVE  \E contents \in Schedules : Save(contents, ok)
  <2> DEFINE after == [v \in DOMAIN mem |->
                         IF v \in Due THEN [mem[v] EXCEPT !.last = clock] ELSE mem[v]]
  <2>1. after \in [DOMAIN mem -> Entry] /\ DOMAIN mem \in SUBSET VM
    BY DEF TypeOK, Entry
  <2>2. Save(after, ok)
    BY <1>3 DEF TickBegin
  <2> HIDE DEF after
  <2> QED
    BY <2>1, <2>2, IsSchedules
<1>4. CASE UNCHANGED vars \/ Pass \/ Restart
  BY <1>4 DEF vars, Pass, Restart
<1>5. CASE Tick
  BY <1>3, <1>5 DEF Tick, TickList, TickState, TickCreate, TickPrune
<1>6. ASSUME NEW v \in VM, Request(v)
      PROVE  UNCHANGED store \/ \E contents \in Schedules, ok \in BOOLEAN : Save(contents, ok)
  BY <1>1, <1>2, <1>6 DEF Request, HandCreate, HandDelete
<1> QED
  BY <1>4, <1>5, <1>6 DEF Next

THEOREM StoreIsAtomic == Spec => Store!Spec
<1>1. Init => Store!Init
  <2> SUFFICES ASSUME Init PROVE Store!Init
    OBVIOUS
  <2>1. [v \in {} |-> Idle] \in [{} -> Entry] /\ {} \in SUBSET VM
    OBVIOUS
  <2>2. [v \in {} |-> Idle] \in Schedules
    BY <2>1, IsSchedules
  <2> QED
    BY <2>2 DEF Init, StoreInit, Store!Init, Store!StoreInit
<1>2. TypeOK /\ [Next]_vars => [Store!Next]_(Store!store)
  <2> SUFFICES ASSUME TypeOK, [Next]_vars, ~UNCHANGED store
               PROVE  Store!Next
    BY DEF Store!store
  <2>1. ASSUME NEW contents \in Schedules, NEW ok \in BOOLEAN, Save(contents, ok)
        PROVE  Store!Next
    BY <2>1 DEF Save, Store!Save, Store!Next
  <2>2. Reload => Store!Next
    BY DEF Reload, Store!Reload, Store!Next
  <2> QED
    BY <2>1, <2>2, StoreSteps
<1> QED
  BY <1>1, <1>2, TypeCorrect, PTL DEF Spec, Store!Spec
=============================================================================
