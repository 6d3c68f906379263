---------------------------- MODULE MCHostdevPins ----------------------------
(* Small instances of HostdevPins for TLC.                                 *)
EXTENDS HostdevPins, TLC

\* "ab" has a second spelling, "AB"; one of them is the lower-case one.
CanonTwoSpellings == [s \in Spelling |-> "ab"]

\* Every identifier is already in lower case.
CanonLower == [s \in Spelling |-> s]

\* Requests are alike.
ClientSymmetry == Permutations(Client)
=============================================================================
