------------------------------ MODULE MCBackup ------------------------------
(***************************************************************************)
(* An instance of Backup: a directory for backups, whose parent validation *)
(* refuses, and one for snapshots, with that of the VM below it.           *)
(***************************************************************************)
EXTENDS Backup

Paths == {"/", "/vm", "/d", "/d/vm"}

Parent == [d \in Paths |-> CASE d = "/vm" -> "/" [] d = "/d/vm" -> "/d" [] OTHER -> d]
Child  == [d \in Paths |-> IF d = "/" THEN "/vm" ELSE "/d/vm"]

BuiltIn == [backup |-> "/vm", snapshot |-> "/d"]
Named   == [backup |-> {"/vm", "/"}, snapshot |-> {"/d/vm"}]
Clear   == {[k \in Key |-> ""]}
=============================================================================
