----------------------------- MODULE MCAutostart -----------------------------
(* Small instances of Autostart for TLC.                                   *)
EXTENDS Autostart

E(enabled, order, delay, watchdog) ==
    [enabled |-> enabled, order |-> order, delay |-> delay, watchdog |-> watchdog]

\* An early VM with a delay, a late one that is watched, and one switched off.
\* The first delay is negative: Set makes it zero.
PutBoot  == {E(TRUE, 1, 5, FALSE), E(TRUE, 2, -1, TRUE), E(FALSE, 0, 0, FALSE)}
PutWatch == {E(TRUE, 1, 0, TRUE), E(TRUE, 1, 0, FALSE)}
=============================================================================
