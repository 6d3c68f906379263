------------------------------ MODULE Settings ------------------------------
(***************************************************************************)
(* The remembered directories (internal/settings/store.go) and the three   *)
(* requests that read and change them: PUT /api/settings, the start of a   *)
(* backup and the creation of an external snapshot.  The last two take the *)
(* remembered directory when the client names none, and remember the one   *)
(* that was used by reading the record and writing it in two calls.        *)
(***************************************************************************)
EXTENDS Naturals, StoreFile

CONSTANTS Dir,      \* directories
          Bad,      \* those that validation refuses
          BaseOf,   \* BaseOf[d]: d without the VM's name at its end
          Under,    \* Under[d]: d with the VM's name behind it
          Default,  \* Default[k]: what is used when nothing is remembered
          Asked,    \* Asked[k]: the directories that requests name
          Form,     \* the records that PUT carries
          Client    \* concurrent HTTP requests

Key  == {"backup", "snapshot"}
Data == [Key -> Dir \cup {""}]

ASSUME DirAssumption ==
    /\ Bad \subseteq Dir /\ "" \notin Dir
    /\ Form \subseteq Data /\ Asked \in [Key -> SUBSET Dir]
    /\ BaseOf \in [Dir -> Dir] /\ Under \in [Dir -> Dir]
    /\ Default \in [Key -> Dir]

VARIABLES job,      \* job[c]: where request c is in its handler
          used      \* history: the directories that a request put or used

Idle == [step |-> "idle"]

\* `at` and `disks` are what Start found before it makes a job.
Job == [step : {"set"}, data : Data]
         \cup [step : {"start", "remember"}, key : Key, dir : Dir]
         \cup [step : {"insert"}, dir : Dir, at : Nat, disks : Nat]

SettingsTypeOK ==
    /\ FileTypeOK(Client, Data)
    /\ job \in [Client -> {Idle} \cup Job]
    /\ used \in SUBSET (Key \X Dir)

SettingsInit ==
    /\ FileInit([k \in Key |-> ""])
    /\ job = [c \in Client |-> Idle]
    /\ used = {}

Becomes(c, work) == job' = [job EXCEPT ![c] = work]

\* Mutant: system directories are not refused.
ValidUnchecked(d) == TRUE

\* An absolute path without ".." that is no system directory.
Valid(d) == d \notin Bad

-----------------------------------------------------------------------------
\* PUT: "empty means forget it and use the default again".
Put(c, in) ==
    /\ job[c] = Idle
    /\ \A k \in Key : in[k] = "" \/ Valid(in[k])
    /\ Becomes(c, [step |-> "set", data |-> in])
    /\ used' = used \cup {<<k, in[k]>> : k \in {k \in Key : in[k] # ""}}
    /\ UNCHANGED filevars

\* What the handler offers when the client names no directory.
Offered(k) == IF mem[k] # "" THEN mem[k] ELSE Default[k]

\* An external snapshot goes to a directory of the VM below the offered one.
Target(k) == IF k = "snapshot" THEN Under[Offered(k)] ELSE Offered(k)

Ask(c, k, d) ==
    /\ job[c] = Idle
    /\ Valid(d)
    /\ \/ d \in Asked[k]
       \/ Readable /\ d = Target(k)
    /\ Becomes(c, [step |-> "start", key |-> k, dir |-> d])
    /\ UNCHANGED <<filevars, used>>

\* Mutant: the directory is remembered whether or not the work is taken on.
RefusedRemembers(c) ==
    /\ job[c].step = "start"
    /\ Becomes(c, [step |-> "remember", key |-> job[c].key, dir |-> job[c].dir])
    /\ UNCHANGED <<filevars, used>>

\* The directory cannot be made, virsh fails, or the VM is not shut off.
Refused(c) ==
    /\ job[c].step = "start"
    /\ Becomes(c, Idle)
    /\ UNCHANGED <<filevars, used>>

\* "The stored value is the base without the per-VM subdirectory".
Snapshot(c) ==
    LET base == BaseOf[job[c].dir]
    IN  /\ job[c].step = "start" /\ job[c].key = "snapshot"
        /\ used' = used \cup {<<"snapshot", base>>}
        /\ Becomes(c, [step |-> "remember", key |-> "snapshot", dir |-> base])
        /\ UNCHANGED filevars

\* Get, and Set with the one key changed if it is another directory.
Remember(c) ==
    LET j == job[c]
    IN  /\ j.step = "remember"
        /\ Readable
        /\ Becomes(c, IF mem[j.key] = j.dir THEN Idle
                      ELSE [step |-> "set", data |-> [mem EXCEPT ![j.key] = j.dir]])
        /\ UNCHANGED <<filevars, used>>

\* Set waits for the lock and changes the record in memory.
SetBegins(c) ==
    /\ job[c].step = "set"
    /\ Acquire(c, job[c].data)
    /\ UNCHANGED <<job, used>>

\* Its steps, and the answer when it returns (its error is logged, or a 500).
SetGoesOn(c) ==
    /\ \/ (Truncate(c) \/ Write(c)) /\ UNCHANGED job
       \/ (Rename(c) \/ Fail(c)) /\ Becomes(c, Idle)
    /\ UNCHANGED used
=============================================================================
