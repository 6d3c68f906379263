----------------------------- MODULE AtomicStore -----------------------------
(***************************************************************************)
(* What a store promises, whatever its file goes through: a change and the *)
(* file that holds it appear in one step, a save that fails leaves the old *)
(* file, and a daemon that starts again finds what the last save that      *)
(* succeeded wrote.  PinStore gives the actions; this is the specification *)
(* that StoreFile implements.                                              *)
(***************************************************************************)
EXTENDS PinStore

CONSTANT Contents   \* what a store may hold

Init == \E c \in Contents : StoreInit(c)

Next == Reload \/ \E c \in Contents, ok \in BOOLEAN : Save(c, ok)

Spec == Init /\ [][Next]_store
=============================================================================
