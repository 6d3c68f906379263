----------------------------- MODULE MCSchedule -----------------------------
(* Small instances of Schedule for TLC.                                    *)
EXTENDS Schedule

S(enabled, hours, keep, last) ==
    [enabled |-> enabled, hours |-> hours, keep |-> keep, last |-> last]

\* Two schedules to change between, the first with the run clock of an older
\* page; one that is switched off and has a negative keep; one whose interval
\* overflows; and one that is refused.
PutMany == {S(TRUE, 1, 2, 1), S(TRUE, 2, 1, 0), S(FALSE, 0, -1, 0),
            S(TRUE, 5, 1, 0), S(TRUE, 0, 1, 0)}

Manual == {[auto |-> FALSE, at |-> 0]}
=============================================================================
