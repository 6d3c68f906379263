-------------------------------- MODULE World --------------------------------
(***************************************************************************)
(* What every model of the daemon shares: the events outside the daemon    *)
(* that an instance admits, and how a command it runs may end.             *)
(***************************************************************************)
CONSTANT Events     \* what the world outside the daemon may do:
                    \* "power"     VMs are started and shut down by hand
                    \* "pause"     VMs are paused and resumed
                    \* "undefine"  VMs are deleted and created again
                    \* "resave"    the official UI re-saves a VM
                    \* "noconsole" a VM is re-saved without a console
                    \* "virsh"     virsh (mount, umount) fails or is killed
                    \*             by its timeout
                    \* "save"      writing a store's file fails
                    \* "crash"     the daemon stops and starts again
                    \* "reboot"    the host reboots
                    \* "guest"     a guest shuts itself down or crashes
                    \* "slow libvirt"  libvirt may not answer after a boot
                    \* "zone"      the host's time zone changes

-----------------------------------------------------------------------------
(***************************************************************************)
(* The outcome of one virsh command that libvirtd can carry out iff `can`. *)
(* One command is one atomic step of libvirtd, but the daemon may see      *)
(* another outcome than what happened: virsh.go:34-47 kills the command    *)
(* after ten seconds, so one that took effect may be reported as failed.   *)
(***************************************************************************)

Outcome == {"ok", "error", "timeout"}

\* virsh answers in time and libvirtd has carried the command out.
Succeeds(o, can) == o = "ok" /\ can

\* virsh fails and nothing has happened.
Refuses(o, can) == o = "error" /\ (~can \/ "virsh" \in Events)

\* libvirtd has carried the command out after virsh was killed.
TimesOut(o, can) == o = "timeout" /\ can /\ "virsh" \in Events
=============================================================================
