------------------------------ MODULE StoreFile ------------------------------
(***************************************************************************)
(* A store as it works: the change is made in memory, and the file is      *)
(* written beside the old one and renamed over it, step by step, under a   *)
(* mutex that readers wait for as well.  The daemon may stop after any     *)
(* step.  The code is saveLocked, load and Set of internal/settings; the   *)
(* stores of usb, pci, vnc, tpm, autostart, schedule and mounts save their *)
(* maps in the same way.                                                   *)
(***************************************************************************)
EXTENDS World

VARIABLES mem,      \* the contents in memory
          file,     \* those of the file
          tmp,      \* those of the temporary file: torn while it is not whole
          lock,     \* who holds the mutex, and how far the save is
          unsaved   \* history: the last save failed

filevars == <<mem, file, tmp, lock, unsaved>>

Torn == [torn |-> TRUE]
Free == [step |-> "free"]

Lock(Writer, Contents) ==
    {Free} \cup [step : {"truncate", "write", "rename"}, by : Writer, before : Contents]

FileTypeOK(Writer, Contents) ==
    /\ mem \in Contents
    /\ file \in Contents
    /\ tmp \in Contents \cup {Torn}
    /\ lock \in Lock(Writer, Contents)
    /\ unsaved \in BOOLEAN

FileInit(c) ==
    mem = c /\ file = c /\ tmp = Torn /\ lock = Free /\ unsaved = FALSE

\* Get waits for a save that is under way, and Set for reads and saves.
Readable == lock = Free

\* Set: the lock, and the change in memory.
Acquire(w, c) ==
    /\ lock = Free
    /\ mem' = c
    /\ lock' = [step |-> "truncate", by |-> w, before |-> mem]
    /\ UNCHANGED <<file, tmp, unsaved>>

\* Mutant: the file itself is written, not one beside it.
TruncateInPlace(w) ==
    /\ lock.step = "truncate" /\ lock.by = w
    /\ tmp' = Torn /\ file' = Torn
    /\ lock' = [lock EXCEPT !.step = "write"]
    /\ UNCHANGED <<mem, unsaved>>

\* os.WriteFile makes or empties the temporary file, and then writes to it.
Truncate(w) ==
    /\ lock.step = "truncate" /\ lock.by = w
    /\ tmp' = Torn
    /\ lock' = [lock EXCEPT !.step = "write"]
    /\ UNCHANGED <<mem, file, unsaved>>

\* Mutant: an error of the write goes unnoticed.
WriteUnchecked(w) ==
    /\ lock.step = "write" /\ lock.by = w
    /\ tmp' = Torn
    /\ lock' = [lock EXCEPT !.step = "rename"]
    /\ UNCHANGED <<mem, file, unsaved>>

Write(w) ==
    /\ lock.step = "write" /\ lock.by = w
    /\ tmp' = mem
    /\ lock' = [lock EXCEPT !.step = "rename"]
    /\ UNCHANGED <<mem, file, unsaved>>

\* The rename, and the mutex is free again.
Rename(w) ==
    /\ lock.step = "rename" /\ lock.by = w
    /\ file' = tmp /\ tmp' = Torn
    /\ lock' = Free
    /\ unsaved' = FALSE
    /\ UNCHANGED mem

\* Any of the three fails.  What is left of the temporary file says nothing:
\* nobody reads it, and the next save empties it first.
Fail(w) ==
    /\ "save" \in Events
    /\ lock # Free /\ lock.by = w
    /\ lock' = Free /\ tmp' = Torn
    /\ unsaved' = TRUE
    /\ UNCHANGED <<mem, file>>

\* The daemon stops, wherever the save is, and reads the file when it starts.
Stop ==
    /\ "crash" \in Events
    /\ mem' = file
    /\ lock' = Free /\ tmp' = Torn
    /\ unsaved' = FALSE
    /\ UNCHANGED file

\* What a reader can know: nobody sees a change before its save has ended.
Seen == IF lock = Free THEN mem ELSE lock.before
=============================================================================
