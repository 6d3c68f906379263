------------------------------ MODULE MCMounts -------------------------------
(* Values of the constants of Mounts for TLC.                              *)
EXTENDS Mounts

Given(share, point, password) ==
    [share |-> share, point |-> point, password |-> password, auto |-> TRUE]

\* Two shares that want the same mount point, one with a password, and an
\* edit that leaves the password empty and moves to a point of no use.
FormThree == {Given("s", "p", ""), Given("t", "p", "x"), Given("t", "q", "")}
=============================================================================
