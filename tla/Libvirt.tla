------------------------------- MODULE Libvirt -------------------------------
(***************************************************************************)
(* libvirt as the daemon sees it: the domains of the host, their power     *)
(* state, and for each the persistent ("inactive") document and the live   *)
(* one.  None of this is code of the repository; it is modelled from how   *)
(* internal/virsh calls it.  A document is whatever the extending module   *)
(* keeps of the domain XML; this module only moves documents around.       *)
(***************************************************************************)
EXTENDS World

CONSTANT VM         \* the names of the virtual machines

VARIABLES power,    \* power[v]: what `virsh domstate v` says
          config,   \* config[v]: the persistent document
          live      \* live[v]: the document of the running domain

libvirt == <<power, config, live>>

Power == {"undefined", "shut off", "running", "paused"}

Exists(v) == power[v] # "undefined"
Active(v) == power[v] \in {"running", "paused"}

-----------------------------------------------------------------------------
(* What the user, the guest and the official ZVM interface do to a domain. *)

Start(v) ==
    /\ "power" \in Events
    /\ power[v] = "shut off"
    /\ power' = [power EXCEPT ![v] = "running"]
    /\ live' = [live EXCEPT ![v] = config[v]]
    /\ UNCHANGED config

Shutdown(v, blank) ==
    /\ Active(v)
    /\ power' = [power EXCEPT ![v] = "shut off"]
    /\ live' = [live EXCEPT ![v] = blank]
    /\ UNCHANGED config

Pause(v) ==
    /\ "pause" \in Events
    /\ power[v] = "running"
    /\ power' = [power EXCEPT ![v] = "paused"]
    /\ UNCHANGED <<config, live>>

Resume(v) ==
    /\ power[v] = "paused"
    /\ power' = [power EXCEPT ![v] = "running"]
    /\ UNCHANGED <<config, live>>

\* The VM is deleted; a VM of the same name may be created again later.
Undefine(v, blank) ==
    /\ "undefine" \in Events
    /\ power[v] = "shut off"
    /\ power' = [power EXCEPT ![v] = "undefined"]
    /\ config' = [config EXCEPT ![v] = blank]
    /\ UNCHANGED live

Create(v) ==
    /\ ~Exists(v)
    /\ power' = [power EXCEPT ![v] = "shut off"]
    /\ UNCHANGED <<config, live>>

\* The official UI re-saves the domain from its own template.
Resave(v, template) ==
    /\ "resave" \in Events
    /\ Exists(v)
    /\ config' = [config EXCEPT ![v] = template]
    /\ UNCHANGED <<power, live>>

-----------------------------------------------------------------------------
(* The two commands with which the daemon edits a document.                *)

\* virsh dumpxml --inactive --security-info: fails for a domain that is gone.
DumpAnswers(v, ok) ==
    IF ok THEN Exists(v) ELSE ~Exists(v) \/ "virsh" \in Events

\* virsh define: replaces the document, and creates the domain if it is gone.
Redefine(v, doc, o) ==
    \/ /\ Succeeds(o, TRUE) \/ TimesOut(o, TRUE)
       /\ config' = [config EXCEPT ![v] = doc]
       /\ power' = [power EXCEPT ![v] = IF Exists(v) THEN @ ELSE "shut off"]
       /\ UNCHANGED live
    \/ Refuses(o, TRUE) /\ UNCHANGED libvirt
=============================================================================
