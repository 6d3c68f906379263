------------------------------ MODULE PinStore ------------------------------
(***************************************************************************)
(* The stores of pinned devices, passwords and autostart entries: a map    *)
(* behind a mutex and a JSON file (internal/usb, pci, vnc, tpm, autostart: *)
(* store.go in each).  A change is made to the map and then the whole map  *)
(* is written to a temporary file that is renamed over the old one, all    *)
(* under the mutex: one step, after which the file is the new map, or the  *)
(* old one when the write failed.  The change in memory stays either way.  *)
(***************************************************************************)
EXTENDS World

VARIABLES mem,      \* the map in memory
          disk,     \* the contents of the file
          unsaved   \* history: the last save failed

store == <<mem, disk, unsaved>>

StoreInit(empty) == mem = empty /\ disk = empty /\ unsaved = FALSE

\* Mutant: the temporary file is never renamed.
SaveWithoutRename(contents, ok) ==
    /\ ok \/ "save" \in Events
    /\ mem' = contents
    /\ disk' = disk
    /\ unsaved' = ~ok

\* The map becomes `contents`; ok says whether it reached the file.
Save(contents, ok) ==
    /\ ok \/ "save" \in Events
    /\ mem' = contents
    /\ disk' = IF ok THEN contents ELSE disk
    /\ unsaved' = ~ok

\* NewStore in a daemon that starts again.
Reload ==
    /\ "crash" \in Events
    /\ mem' = disk
    /\ unsaved' = FALSE
    /\ UNCHANGED disk

(* Memory and file differ only after a save that failed, so that a restart *)
(* at any other time changes nothing.                                      *)
SavedUnlessFailed == ~unsaved => mem = disk
=============================================================================
