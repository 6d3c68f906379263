------------------------------- MODULE Backup -------------------------------
(***************************************************************************)
(* Backups (internal/backup/backup.go and backupItem of handlers.go): a    *)
(* request asks about the VM, makes a job, puts it on the list under the   *)
(* mutex and starts a goroutine that works on the job, listed or not.      *)
(***************************************************************************)
EXTENDS FiniteSets, Settings

CONSTANTS Id,       \* jobs
          MaxJobs,  \* how many are listed (50)
          Disks,    \* how many disks the VM may have
          Second    \* what the host's clock may say

ASSUME IdAssumption   == IsFiniteSet(Id)
ASSUME JobsAssumption == MaxJobs \in Nat \ {0} /\ Disks \subseteq Nat /\ Second \subseteq Nat

VARIABLES list,     \* the jobs of the Manager
          state,    \* state[j]: what a job says
          started,  \* started[j]: StartedUnix
          work,     \* work[j]: where the goroutine of a job is
          pruned    \* history: jobs that this daemon pushed off the list

vars == <<filevars, job, used, list, state, started, work, pruned>>

None == [step |-> "none"]

Work == {None} \cup [step : {"domain", "manifest"}, left : Nat]
               \cup [step : {"disk"}, left : Nat \ {0}]

TypeOK ==
    /\ SettingsTypeOK
    /\ list \in SUBSET Id
    /\ state \in [Id -> {"new", "running", "done", "failed", "lost"}]
    /\ started \in [Id -> Nat]
    /\ work \in [Id -> Work]
    /\ pruned \in SUBSET Id

Init ==
    /\ SettingsInit
    /\ list = {}
    /\ state = [j \in Id |-> "new"]
    /\ started = [j \in Id |-> 0]
    /\ work = [j \in Id |-> None]
    /\ pruned = {}

jobvars == <<list, state, started, work, pruned>>

-----------------------------------------------------------------------------
(* Start.                                                                  *)

\* The VM is shut off, its document and disks are read, the directory is
\* there, and the clock, which may be set back between two jobs, is read: all
\* before the mutex is taken.
Accepted(c, disks, t) ==
    LET j == job[c]
    IN  /\ j.step = "start" /\ j.key = "backup"
        /\ Becomes(c, [step |-> "insert", dir |-> j.dir, at |-> t, disks |-> disks])
        /\ UNCHANGED <<filevars, used, jobvars>>

\* Mutant: the oldest jobs are kept.
KeepsOldest(jobs, at, kept) ==
    /\ kept \subseteq jobs
    /\ Cardinality(kept) = IF Cardinality(jobs) < MaxJobs THEN Cardinality(jobs) ELSE MaxJobs
    /\ \A k \in kept, d \in jobs \ kept : at[k] <= at[d]

\* pruneLocked: a sort by StartedUnix, newest first, cut at MaxJobs.
Keeps(jobs, at, kept) ==
    /\ kept \subseteq jobs
    /\ Cardinality(kept) = IF Cardinality(jobs) < MaxJobs THEN Cardinality(jobs) ELSE MaxJobs
    /\ \A k \in kept, d \in jobs \ kept : at[k] >= at[d]

Insert(c, j) ==
    LET r == job[c]
    IN  /\ r.step = "insert"
        /\ state[j] = "new"
        /\ state' = [state EXCEPT ![j] = "running"]
        /\ started' = [started EXCEPT ![j] = r.at]
        /\ work' = [work EXCEPT ![j] = [step |-> "domain", left |-> r.disks]]
        /\ \E kept \in SUBSET (list \cup {j}) :
              Keeps(list \cup {j}, started', kept) /\ list' = kept
        /\ pruned' = pruned \cup ((list \cup {j}) \ list')
        /\ used' = used \cup {<<"backup", r.dir>>}
        /\ Becomes(c, [step |-> "remember", key |-> "backup", dir |-> r.dir])
        /\ UNCHANGED filevars

-----------------------------------------------------------------------------
(* The goroutine.                                                          *)

GoesOn(j, w, s) ==
    /\ work' = [work EXCEPT ![j] = w]
    /\ state' = [state EXCEPT ![j] = s]
    /\ UNCHANGED <<filevars, job, used, list, started, pruned>>

After(left) == IF left = 0 THEN [step |-> "manifest", left |-> 0]
                           ELSE [step |-> "disk", left |-> left]

\* domain.xml; the job ends when it cannot be written.
WriteDomain(j, ok) ==
    /\ work[j].step = "domain"
    /\ IF ok THEN GoesOn(j, After(work[j].left), "running")
             ELSE GoesOn(j, None, "failed")

\* Mutant: the goroutine returns without an end of the job.
ConvertAndReturn(j, ok) ==
    /\ work[j].step = "disk"
    /\ IF ok THEN GoesOn(j, After(work[j].left - 1), "running")
             ELSE GoesOn(j, None, "running")

\* One disk: qemu-img, which fails or is killed after six hours, or a
\* cdrom that is passed over.
Convert(j, ok) ==
    /\ work[j].step = "disk"
    /\ IF ok THEN GoesOn(j, After(work[j].left - 1), "running")
             ELSE GoesOn(j, None, "failed")

\* The manifest, whose error is dropped, and the end.
Manifest(j) ==
    /\ work[j].step = "manifest"
    /\ GoesOn(j, None, "done")

\* Jobs are kept in memory, and the list is empty in a new daemon.
Restart ==
    /\ Stop
    /\ job' = [c \in Client |-> Idle]
    /\ list' = {}
    /\ work' = [j \in Id |-> None]
    /\ state' = [j \in Id |-> IF state[j] = "new" THEN "new" ELSE "lost"]
    /\ started' = [j \in Id |-> 0]
    /\ pruned' = {}
    /\ UNCHANGED used

-----------------------------------------------------------------------------
Request(c) ==
    /\ \/ \E in \in Form : Put(c, in)
       \/ \E k \in Key, d \in Dir : Ask(c, k, d)
       \/ Refused(c) \/ Snapshot(c) \/ Remember(c) \/ SetBegins(c) \/ SetGoesOn(c)
    /\ UNCHANGED jobvars

StartsBackup(c) ==
    \/ \E disks \in Disks, t \in Second : Accepted(c, disks, t)
    \/ \E j \in Id : Insert(c, j)

Run(j) ==
    \/ \E ok \in BOOLEAN : WriteDomain(j, ok) \/ Convert(j, ok)
    \/ Manifest(j)

Next ==
    \/ \E c \in Client : Request(c) \/ StartsBackup(c)
    \/ \E j \in Id : Run(j)
    \/ Restart

Spec == Init /\ [][Next]_vars

\* No step of the goroutine waits: qemu-img is killed after six hours.
FairSpec == Spec /\ \A j \in Id : WF_vars(Run(j))

-----------------------------------------------------------------------------
(* The settings file never holds half a record, and every store in memory, *)
(* as far as a reader can see it, changes together with its file           *)
(* (settings/store.go:58-70): the steps of a save, failing or cut short    *)
(* anywhere, are one step of an atomic store.                              *)
Atomic == INSTANCE AtomicStore WITH Contents <- Data, mem <- Seen, disk <- file

StoreIsAtomic == Atomic!Spec

(* "Remember the target that actually started a job - a path that failed   *)
(* validation must not become the next default" (handlers.go:1190): what   *)
(* is remembered, in memory or in the file, was put by a user or was used  *)
(* by work that was taken on, however requests interleave.                 *)
RememberedWasUsed ==
    \A k \in Key : {mem[k], file[k]} \subseteq {""} \cup {d \in Dir : <<k, d>> \in used}

(* The remembered directory of backups is one that validation lets pass.   *)
(* (That of snapshots may be the parent of one, which nobody validated.)   *)
BackupDirValid == {mem["backup"], file["backup"]} \cap Bad = {}

(* "pruneLocked keeps only the 50 newest jobs (by StartedUnix)"            *)
(* (backup.go:111): over any number of starts, whose clocks are read       *)
(* before the mutex is taken, no job that was pushed off is newer than one *)
(* on the list, and the list is full when one was.                         *)
NewestListed ==
    /\ \A k \in list, d \in pruned : started[k] >= started[d]
    /\ Cardinality(list) <= MaxJobs
    /\ pruned # {} => Cardinality(list) = MaxJobs

\* What the list shows of each job.
View == [j \in Id |-> IF state[j] = "new" THEN "new"
                      ELSE IF j \in list THEN state[j] ELSE "gone"]

(* Every job that is listed ends once, keeps its end, and, unless it is    *)
(* pushed off or the daemon stops, does end, whichever step of it fails.   *)
JobView == INSTANCE BackupJob WITH view <- View

JobsEnd == JobView!Spec
=============================================================================
