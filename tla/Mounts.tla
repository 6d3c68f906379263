------------------------------- MODULE Mounts --------------------------------
(***************************************************************************)
(* Network mounts: internal/mounts/mounts.go and the handlers of           *)
(* /api/mounts (mountsCollection, mountsItem).  An entry is looked up under *)
(* the mutex, but the mount table is asked and mount or umount is run after *)
(* the mutex is released, on the entry that was found.                     *)
(***************************************************************************)
EXTENDS Naturals, Sequences, FiniteSets, PinStore

CONSTANTS Id,       \* the identifiers of entries
          Share,    \* what can be mounted: type, host, share and options
          Point,    \* mount points
          ReadOnly, \* those that cannot be made ("/mnt is mostly read-only")
          Password, \* passwords of shares
          Form,     \* the entries that requests carry
          Client    \* concurrent HTTP requests

\* The goroutine of main.go that mounts everything when the daemon starts.
Boot  == "automount"
Actor == Client \cup {Boot}

\* "" is no password.
Entry   == [share : Share, point : Point, password : Password \cup {""},
            auto : BOOLEAN]
NoEntry == [share |-> "", point |-> "", password |-> "", auto |-> FALSE]

ASSUME FormAssumption  == Form \subseteq Entry
ASSUME PointAssumption == "" \notin Point
ASSUME ActorAssumption == IsFiniteSet(Client) /\ Boot \notin Client

VARIABLES last,   \* the entries with a last error
          table,  \* the host's mount table: what is on a point, topmost first
          job,    \* job[a]: where a request or the goroutine is
          todo    \* the entries that MountAllAuto has still to mount

vars == <<mem, disk, unsaved, last, table, job, todo>>

Idle == [step |-> "idle"]

\* `op` is what Mount or Unmount was called for, `entry` what it looked up.
Work == [step : {"list"}]
          \cup [step : {"put", "look"}, id : Id, entry : Entry]
          \cup [step : {"find", "delete"}, id : Id]
          \cup [step : {"check", "act"}, op : {"mount", "unmount", "delete"},
                id : Id, entry : Entry]
          \cup [step : {"report"}, id : Id, failed : BOOLEAN]

TypeOK ==
    /\ mem \in [Id -> Entry \cup {NoEntry}]
    /\ disk \in [Id -> Entry \cup {NoEntry}]
    /\ unsaved \in BOOLEAN
    /\ last \in SUBSET Id
    /\ table \in [Point -> Seq(Share)]
    /\ job \in [Actor -> {Idle} \cup Work]
    /\ todo \in SUBSET Id

Starting == [a \in Actor |-> IF a = Boot THEN [step |-> "list"] ELSE Idle]

\* The daemon starts on the file that an earlier one left.
Init ==
    /\ \E entries \in [Id -> Form \cup {NoEntry}] : StoreInit(entries)
    /\ last = {}
    /\ table = [p \in Point |-> <<>>]
    /\ job = Starting
    /\ todo = {}

Becomes(a, work) == job' = [job EXCEPT ![a] = work]

-----------------------------------------------------------------------------
(* The host, modelled from how the code calls mount and umount.            *)

Mounted(p) == table[p] # <<>>

\* A share can be mounted over another one, but not over itself.
CanMount(e) == Mounted(e.point) => Head(table[e.point]) # e.share

Attach(e, o) ==
    \/ /\ Succeeds(o, CanMount(e)) \/ TimesOut(o, CanMount(e))
       /\ table' = [table EXCEPT ![e.point] = <<e.share>> \o @]
    \/ Refuses(o, CanMount(e)) /\ UNCHANGED table

\* umount takes off the topmost.
Detach(p, o) ==
    \/ /\ Succeeds(o, Mounted(p)) \/ TimesOut(o, Mounted(p))
       /\ table' = [table EXCEPT ![p] = Tail(@)]
    \/ Refuses(o, Mounted(p)) /\ UNCHANGED table

-----------------------------------------------------------------------------
(* Upsert, and the requests that call it.                                  *)

\* Mutant: an empty password is taken at its word.
KeepNothing(i, e) == e

\* "password=="" means: keep existing password (if any)"
KeepPassword(i, e) ==
    [e EXCEPT !.password = IF @ = "" THEN mem[i].password ELSE @]

\* POST, with an identifier of the client's or a new one.
Post(c, i, in, ok) ==
    LET e == KeepPassword(i, in)
    IN  /\ job[c] = Idle
        /\ Save([mem EXCEPT ![i] = e], ok)
        /\ Becomes(c, IF ok /\ e.auto THEN [step |-> "look", id |-> i, entry |-> e]
                                      ELSE Idle)
        /\ UNCHANGED <<last, table, todo>>

\* "If AutoMount and not yet mounted, mount immediately."
PostLook(c) ==
    /\ job[c].step = "look"
    /\ Becomes(c, IF Mounted(job[c].entry.point)
                    THEN Idle ELSE [step |-> "find", id |-> job[c].id])
    /\ UNCHANGED <<store, last, table, todo>>

\* PUT looks whether the entry is there, and writes it in a later step.
PutBegin(c, i, in) ==
    /\ job[c] = Idle
    /\ mem[i] # NoEntry
    /\ Becomes(c, [step |-> "put", id |-> i, entry |-> in])
    /\ UNCHANGED <<store, last, table, todo>>

PutWrite(c, ok) ==
    LET j == job[c]
    IN  /\ j.step = "put"
        /\ Save([mem EXCEPT ![j.id] = KeepPassword(j.id, j.entry)], ok)
        /\ Becomes(c, Idle)
        /\ UNCHANGED <<last, table, todo>>

-----------------------------------------------------------------------------
(* Mount and Unmount, and DELETE, which unmounts first and drops the error. *)

\* Mutant: an unknown entry is not noticed.
LookupUnchecked(i, op) ==
    [step |-> "check", op |-> op, id |-> i, entry |-> mem[i]]

\* The lookup under the lock; an unknown entry ends Mount and Unmount.
Lookup(i, op) ==
    IF mem[i] # NoEntry
      THEN [step |-> "check", op |-> op, id |-> i, entry |-> mem[i]]
      ELSE IF op = "delete" THEN [step |-> "delete", id |-> i] ELSE Idle

AfterUnmount(j) ==
    IF j.op = "delete" THEN [step |-> "delete", id |-> j.id] ELSE Idle

Request(c, i, op) ==
    /\ job[c] = Idle
    /\ Becomes(c, Lookup(i, op))
    /\ UNCHANGED <<store, last, table, todo>>

Find(c) ==
    /\ job[c].step = "find"
    /\ Becomes(c, Lookup(job[c].id, "mount"))
    /\ UNCHANGED <<store, last, table, todo>>

\* Mutant: nobody asks whether something is mounted already.
MountAnyway(j) == j.op = "mount" \/ Mounted(j.entry.point)

\* Whether IsMounted leaves something to do.
MustAct(j) == IF j.op = "mount" THEN ~Mounted(j.entry.point)
                                ELSE Mounted(j.entry.point)

Check(a) ==
    LET j == job[a]
    IN  /\ j.step = "check"
        /\ Becomes(a, IF MustAct(j) THEN [j EXCEPT !.step = "act"]
                      ELSE IF j.op = "mount" THEN Idle ELSE AfterUnmount(j))
        /\ UNCHANGED <<store, last, table, todo>>

\* The mount point cannot be made: an error that is returned and not kept.
MkdirFails(a) ==
    /\ job[a].step = "act" /\ job[a].op = "mount"
    /\ job[a].entry.point \in ReadOnly
    /\ Becomes(a, Idle)
    /\ UNCHANGED <<store, last, table, todo>>

DoMount(a, o) ==
    LET j == job[a]
    IN  /\ j.step = "act" /\ j.op = "mount"
        /\ j.entry.point \notin ReadOnly
        /\ Attach(j.entry, o)
        /\ Becomes(a, [step |-> "report", id |-> j.id, failed |-> o # "ok"])
        /\ UNCHANGED <<store, last, todo>>

\* setError, under the lock again.
Report(a) ==
    LET j == job[a]
    IN  /\ j.step = "report"
        /\ last' = IF j.failed THEN last \cup {j.id} ELSE last \ {j.id}
        /\ Becomes(a, Idle)
        /\ UNCHANGED <<store, table, todo>>

DoUnmount(c, o) ==
    LET j == job[c]
    IN  /\ j.step = "act" /\ j.op # "mount"
        /\ Detach(j.entry.point, o)
        /\ Becomes(c, AfterUnmount(j))
        /\ UNCHANGED <<store, last, todo>>

Delete(c, ok) ==
    LET i == job[c].id
    IN  /\ job[c].step = "delete"
        /\ Save([mem EXCEPT ![i] = NoEntry], ok)
        /\ last' = last \ {i}
        /\ Becomes(c, Idle)
        /\ UNCHANGED <<table, todo>>

-----------------------------------------------------------------------------
(* MountAllAuto: the list is made under the lock, then mounted one by one. *)

AutoList ==
    /\ job[Boot].step = "list"
    /\ todo' = {i \in Id : mem[i].auto}
    /\ Becomes(Boot, Idle)
    /\ UNCHANGED <<store, last, table>>

\* Mutant: the first entry that fails ends the iteration.
ListedUnlessFailed(i) == i \in todo /\ last = {}

\* "Errors are logged but don't abort iteration."
Listed(i) == i \in todo

AutoNext(i) ==
    /\ job[Boot] = Idle
    /\ Listed(i)
    /\ todo' = todo \ {i}
    /\ Becomes(Boot, Lookup(i, "mount"))
    /\ UNCHANGED <<store, last, table>>

\* A restart of the daemon leaves the mounts alone, one of the host does not.
Restart(reboot) ==
    /\ Reload
    /\ last' = {}
    /\ reboot => "reboot" \in Events
    /\ table' = IF reboot THEN [p \in Point |-> <<>>] ELSE table
    /\ job' = Starting
    /\ todo' = {}

-----------------------------------------------------------------------------
Begin(c) ==
    \E i \in Id :
        \/ \E in \in Form : PutBegin(c, i, in) \/ \E ok \in BOOLEAN : Post(c, i, in, ok)
        \/ \E op \in {"mount", "unmount", "delete"} : Request(c, i, op)

Continue(a) ==
    \/ PostLook(a) \/ Find(a) \/ Check(a) \/ MkdirFails(a) \/ Report(a)
    \/ \E ok \in BOOLEAN : PutWrite(a, ok) \/ Delete(a, ok)
    \/ \E o \in Outcome : DoMount(a, o) \/ DoUnmount(a, o)

AutoGoesOn == AutoList \/ \E i \in Id : AutoNext(i)

Next ==
    \/ \E c \in Client : Begin(c)
    \/ \E a \in Actor : Continue(a)
    \/ AutoGoesOn
    \/ \E reboot \in BOOLEAN : Restart(reboot)

Spec == Init /\ [][Next]_vars

\* Every command is ended by its timeout of twenty seconds (runCmd).
Fairness ==
    /\ \A a \in Actor : WF_vars(Continue(a))
    /\ WF_vars(AutoGoesOn)

FairSpec == Spec /\ Fairness

-----------------------------------------------------------------------------
(* Check and mount are two steps, so that two callers may both find a point *)
(* free and mount on it one over the other, which one umount does not undo. *)
(* But mounts do not pile up: never more on one point than callers that     *)
(* run at the same time, over any number of requests and restarts.          *)
StackBounded == \A p \in Point : Len(table[p]) <= Cardinality(Actor)

(* "keep existing password (if any)" (mounts.go:147): no edit, in whatever *)
(* order requests come, and no restart after a save leaves an entry without *)
(* the password it had.                                                    *)
PasswordNeverBlanked ==
    [][\A i \in Id : mem[i].password # "" /\ mem'[i] # NoEntry /\ ~unsaved
                       => mem'[i].password # ""]_vars

(* "On daemon start, entries marked AutoMount=true are mounted"            *)
(* (mounts.go:6): whatever fails for another entry, and whatever requests  *)
(* do meanwhile, the mount point of an entry on the list sees a mount, or  *)
(* the entry gets an error to show, is moved or deleted, or the daemon     *)
(* starts again.  (A mount point that cannot be made leaves no error.)     *)
AutoMounted ==
    \A i \in Id, p \in Point \ ReadOnly :
        i \in todo /\ mem[i].point = p
          ~> \/ Mounted(p) \/ i \in last
             \/ mem[i].point # p \/ job[Boot].step = "list"
=============================================================================
