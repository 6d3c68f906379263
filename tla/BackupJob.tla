------------------------------ MODULE BackupJob ------------------------------
(***************************************************************************)
(* What a reader of the list of backups may rely on: a job that is listed  *)
(* runs, ends once and keeps its end; it leaves the list for good; and one *)
(* that stays on the list does end.                                        *)
(***************************************************************************)
CONSTANT Id         \* jobs

VARIABLE view       \* view[j]: what the list shows of job j

Ended == {"done", "failed"}

Init == view = [j \in Id |-> "new"]

\* A new job may push others, or itself, off the list.
Start(j, gone) ==
    /\ view[j] = "new"
    /\ \A k \in gone : k = j \/ view[k] # "new"
    /\ view' = [k \in Id |-> IF k \in gone THEN "gone"
                             ELSE IF k = j THEN "running" ELSE view[k]]

End(j) ==
    /\ view[j] = "running"
    /\ \E end \in Ended : view' = [view EXCEPT ![j] = end]

\* The list does not survive the daemon.
Forget == view' = [j \in Id |-> IF view[j] = "new" THEN "new" ELSE "gone"]

Next ==
    \/ \E j \in Id : End(j) \/ \E gone \in SUBSET Id : Start(j, gone)
    \/ Forget

Spec == Init /\ [][Next]_view /\ \A j \in Id : WF_view(End(j))
=============================================================================
