------------------------------- MODULE VncPins -------------------------------
(***************************************************************************)
(* Pinned VNC passwords and listen addresses: internal/vnc/store.go, the   *)
(* POST and DELETE handlers of handlers.go (vncDomain) and the virsh calls *)
(* of internal/virsh/vnc.go.  SetVNCPassword and SetVNCListen read the     *)
(* persistent document, edit the one <graphics> tag and define the result: *)
(* two virsh commands, between which anything may happen.                  *)
(***************************************************************************)
EXTENDS Libvirt, PinStore

CONSTANTS Client,   \* concurrent HTTP requests
          Password, \* the valid passwords
          Port      \* the fixed ports a request may name

Local   == "127.0.0.1"
AllIPv4 == "0.0.0.0"
AllIPv6 == "::"

\* What the store keeps for a VM; "" and 0 mean "not asked for".  The zero
\* Entry is what Get returns for a VM that has none.
Entry   == [pw : Password \cup {""}, listen : {"", Local, AllIPv4},
            port : Port \cup {0}]
NoEntry == [pw |-> "", listen |-> "", port |-> 0]

\* What this module keeps of the domain document; port 0 is autoport.
Document  == [console : BOOLEAN, pw : Password \cup {""},
              listen : {"", Local, AllIPv4, AllIPv6}, port : Port \cup {0}]
NoConsole == [console |-> FALSE, pw |-> "", listen |-> "", port |-> 0]
Template  == [console |-> TRUE, pw |-> "", listen |-> AllIPv6, port |-> 0]

ASSUME PasswordAssumption == "" \notin Password
ASSUME PortAssumption == 0 \notin Port

VARIABLES job,   \* job[c]: where request c is in its handler
          rec    \* where the reconciler is in its pass

vars == <<power, config, live, mem, disk, unsaved, job, rec>>

Idle == [step |-> "idle"]

\* The routes through POST (set, listen only) and DELETE (clear), and the
\* attribute being edited.
Task == [route : {"set", "listen", "clear"}, edit : {"pw", "listen"},
         vm : VM, entry : Entry]

Job  == [step : {"dump", "read pin", "pin"}, task : Task]
          \cup [step : {"define"}, task : Task, doc : Document]

Item == [vm : VM, entry : Entry]

PassStep == [step : {"next"}, todo : SUBSET Item]
              \cup [step : {"check", "dump"}, edit : {"pw", "listen"},
                    todo : SUBSET Item, item : Item]
              \cup [step : {"define"}, edit : {"pw", "listen"},
                    todo : SUBSET Item, item : Item, doc : Document]

TypeOK ==
    /\ power \in [VM -> Power]
    /\ config \in [VM -> Document]
    /\ live \in [VM -> Document]
    /\ mem \in [VM -> Entry]
    /\ disk \in [VM -> Entry]
    /\ unsaved \in BOOLEAN
    /\ job \in [Client -> {Idle} \cup Job]
    /\ rec \in {Idle} \cup PassStep

Init ==
    /\ power = [v \in VM |-> "shut off"]
    /\ config = [v \in VM |-> Template]
    /\ live = [v \in VM |-> NoConsole]
    /\ StoreInit([v \in VM |-> NoEntry])
    /\ job = [c \in Client |-> Idle]
    /\ rec = Idle

-----------------------------------------------------------------------------
(* Editing the document and defining it again.                             *)

\* Mutant: the wrong attribute is written.
SetPasswordAsListen(doc, pw) == [doc EXCEPT !.listen = pw]

SetPassword(doc, pw) == [doc EXCEPT !.pw = pw]

SetListen(doc, e) == [doc EXCEPT !.listen = e.listen, !.port = e.port]

Edited(doc, edit, e) == IF edit = "pw" THEN SetPassword(doc, e.pw)
                                       ELSE SetListen(doc, e)

-----------------------------------------------------------------------------
(* POST and DELETE.                                                        *)

\* Mutant: any address is good enough.
AcceptedWithAddress(e) == e.pw # "" \/ e.listen # ""

\* An empty password is replaced by the pinned one.  A request that still has
\* none may only restrict the console to the host; any other is refused.
Accepted(e) == e.pw # "" \/ e.listen = Local

PostBegin(c, v, in) ==
    LET e == [in EXCEPT !.pw = IF @ = "" THEN mem[v].pw ELSE @]
    IN  /\ job[c] = Idle
        /\ Accepted(e)
        /\ job' = [job EXCEPT ![c] =
                     [step |-> "dump",
                      task |-> [route |-> IF e.pw = "" THEN "listen" ELSE "set",
                                edit |-> IF e.pw = "" THEN "listen" ELSE "pw",
                                vm |-> v, entry |-> e]]]
        /\ UNCHANGED <<power, config, live, store, rec>>

DeleteBegin(c, v, ok) ==
    /\ job[c] = Idle
    /\ Save([mem EXCEPT ![v] = NoEntry], ok)
    /\ job' = [job EXCEPT ![c] =
                 [step |-> "dump", task |-> [route |-> "clear", edit |-> "pw",
                                             vm |-> v, entry |-> NoEntry]]]
    /\ UNCHANGED <<power, config, live, rec>>

\* The first half of SetVNCPassword or SetVNCListen; it ends in an error when
\* the domain has no VNC device.
RequestDump(c, ok) ==
    LET t == job[c].task
    IN  /\ job[c].step = "dump"
        /\ DumpAnswers(t.vm, ok)
        /\ job' = [job EXCEPT ![c] =
                     IF ok /\ config[t.vm].console
                       THEN [step |-> "define", task |-> t,
                             doc |-> Edited(config[t.vm], t.edit, t.entry)]
                       ELSE Idle]
        /\ UNCHANGED <<power, config, live, store, rec>>

\* Where a handler goes after a successful define.
AfterDefine(t) ==
    CASE t.route = "clear" -> Idle
      [] t.route = "listen" -> [step |-> "read pin", task |-> t]
      [] t.route = "set" ->
           IF t.edit = "pw" /\ t.entry.listen # ""
             THEN [step |-> "dump", task |-> [t EXCEPT !.edit = "listen"]]
             ELSE [step |-> "pin", task |-> t]

RequestDefine(c, o) ==
    LET t == job[c].task
    IN  /\ job[c].step = "define"
        /\ Redefine(t.vm, job[c].doc, o)
        /\ job' = [job EXCEPT ![c] = IF o = "ok" THEN AfterDefine(t) ELSE Idle]
        /\ UNCHANGED <<store, rec>>

\* "keep any pinned password": Get, and in a later step Set.
ReadPin(c) ==
    LET t == job[c].task
    IN  /\ job[c].step = "read pin"
        /\ job' = [job EXCEPT ![c] =
                     [step |-> "pin",
                      task |-> [t EXCEPT !.entry.pw = mem[t.vm].pw]]]
        /\ UNCHANGED <<power, config, live, store, rec>>

WritePin(c, ok) ==
    LET t == job[c].task
    IN  /\ job[c].step = "pin"
        /\ Save([mem EXCEPT ![t.vm] = t.entry], ok)
        /\ job' = [job EXCEPT ![c] = Idle]
        /\ UNCHANGED <<power, config, live, rec>>

-----------------------------------------------------------------------------
(* One pass of the reconciler over the entries it found when it began.     *)

Pinned == {[vm |-> v, entry |-> mem[v]] : v \in {w \in VM : mem[w] # NoEntry}}

Rest(todo) == IF todo = {} THEN Idle ELSE [step |-> "next", todo |-> todo]

Check(edit, todo, i) ==
    [step |-> "check", edit |-> edit, todo |-> todo, item |-> i]

\* The listen address is looked at only when the entry asks for one.
AfterPassword(todo, i) ==
    IF i.entry.listen # "" THEN Check("listen", todo, i) ELSE Rest(todo)

\* Mutant: the repair setting an empty password again and again.
AlwaysCheckPassword(todo, i) == Check("pw", todo, i)

\* An entry without a password skips the password repair.
FirstCheck(todo, i) ==
    IF i.entry.pw # "" THEN Check("pw", todo, i) ELSE AfterPassword(todo, i)

\* Mutant: the tag is there, whatever its attributes.
HasGraphics(doc) == doc.console

HasPassword(doc) == ~doc.console \/ doc.pw # ""

\* Mutant: the address is not compared.
HasPort(doc, e) == doc.console /\ doc.port = e.port

\* Without a console VNCListenInfo reports listen "", port 0 and no autoport.
HasListen(doc, e) == doc.console /\ doc.listen = e.listen /\ doc.port = e.port

PassBegin ==
    /\ rec = Idle
    /\ Pinned # {}
    /\ rec' = Rest(Pinned)
    /\ UNCHANGED <<power, config, live, store, job>>

PassState(i, ok) ==
    /\ rec.step = "next"
    /\ i \in rec.todo
    /\ DumpAnswers(i.vm, ok)
    /\ rec' = IF ok THEN FirstCheck(rec.todo \ {i}, i) ELSE Rest(rec.todo \ {i})
    /\ UNCHANGED <<power, config, live, store, job>>

\* VNCHasPassword or VNCListenInfo.
PassCheck(i, ok) ==
    LET doc == config[i.vm]
        has == IF rec.edit = "pw" THEN HasPassword(doc) ELSE HasListen(doc, i.entry)
    IN  /\ rec.step = "check"
        /\ i = rec.item
        /\ DumpAnswers(i.vm, ok)
        /\ rec' = IF ok /\ ~has THEN [rec EXCEPT !.step = "dump"]
                  ELSE IF ok /\ rec.edit = "pw" THEN AfterPassword(rec.todo, i)
                  ELSE Rest(rec.todo)
        /\ UNCHANGED <<power, config, live, store, job>>

PassDump(i, ok) ==
    LET doc == config[i.vm]
    IN  /\ rec.step = "dump"
        /\ i = rec.item
        /\ DumpAnswers(i.vm, ok)
        /\ rec' = IF ok /\ doc.console
                    THEN [step |-> "define", edit |-> rec.edit, todo |-> rec.todo,
                          item |-> i, doc |-> Edited(doc, rec.edit, i.entry)]
                    ELSE Rest(rec.todo)
        /\ UNCHANGED <<power, config, live, store, job>>

PassDefine(i, o) ==
    /\ rec.step = "define"
    /\ i = rec.item
    /\ Redefine(i.vm, rec.doc, o)
    /\ rec' = IF o = "ok" /\ rec.edit = "pw" THEN AfterPassword(rec.todo, i)
                                             ELSE Rest(rec.todo)
    /\ UNCHANGED <<store, job>>

-----------------------------------------------------------------------------
Restart ==
    /\ Reload
    /\ job' = [c \in Client |-> Idle]
    /\ rec' = Idle
    /\ UNCHANGED <<power, config, live>>

\* The user may also take the console out of a VM.  Starting or stopping it
\* changes nothing here: every call is about the persistent document.
Environment(v) ==
    /\ \/ Undefine(v, Template) \/ Create(v)
       \/ Resave(v, Template)
       \/ "noconsole" \in Events /\ Resave(v, NoConsole)
    /\ UNCHANGED <<store, job, rec>>

Begin(c) ==
    \/ \E v \in VM, in \in Entry : PostBegin(c, v, in)
    \/ \E v \in VM, ok \in BOOLEAN : DeleteBegin(c, v, ok)

Continue(c) ==
    \/ \E ok \in BOOLEAN : RequestDump(c, ok)
    \/ \E o \in Outcome : RequestDefine(c, o)
    \/ ReadPin(c)
    \/ \E ok \in BOOLEAN : WritePin(c, ok)

Pass ==
    \/ PassBegin
    \/ \E i \in Item, ok \in BOOLEAN :
         PassState(i, ok) \/ PassCheck(i, ok) \/ PassDump(i, ok)
    \/ \E i \in Item, o \in Outcome : PassDefine(i, o)

Next ==
    \/ \E c \in Client : Begin(c) \/ Continue(c)
    \/ Pass
    \/ Restart
    \/ \E v \in VM : Environment(v)

Spec == Init /\ [][Next]_vars

(***************************************************************************)
(* As in HostdevPins: the ticker and the timeout of virsh make the pass go *)
(* on, a request that has begun ends for the same reason, and virsh is     *)
(* assumed not to fail every time it is asked the same.                    *)
(***************************************************************************)
StateSucceeds(v) == \E i \in Item : i.vm = v /\ PassState(i, TRUE)

RepairSucceeds(v, step, edit) ==
    \E i \in Item :
        /\ i.vm = v
        /\ rec.step = step /\ rec.edit = edit
        /\ PassCheck(i, TRUE) \/ PassDump(i, TRUE) \/ PassDefine(i, "ok")

Fairness ==
    /\ WF_vars(Pass)
    /\ \A c \in Client : WF_vars(Continue(c))
    /\ \A v \in VM :
         /\ SF_vars(StateSucceeds(v))
         /\ \A step \in {"check", "dump", "define"}, edit \in {"pw", "listen"} :
              SF_vars(RepairSucceeds(v, step, edit))

FairSpec == Spec /\ Fairness

-----------------------------------------------------------------------------
Safe(e) == e.listen = AllIPv4 => e.pw # ""

(* "0.0.0.0 can never be selected for an unprotected one"                  *)
(* (handlers.go:1417-1419): no entry in memory, in the file or in the      *)
(* hands of a request exposes a console without a password.                *)
ExposedEntryHasPassword ==
    /\ \A v \in VM : Safe(mem[v]) /\ Safe(disk[v])
    /\ \A c \in Client : job[c] # Idle => Safe(job[c].task.entry)

(* A VM that keeps a console and a pinned password has a password in its   *)
(* persistent config again and again, however often the official UI strips *)
(* it and whatever becomes of the requests under way.                      *)
PinnedConsoleProtected ==
    \A v \in VM :
        <>[](mem[v].pw # "" /\ Exists(v) /\ config[v].console)
            => []<>(config[v].pw # "")

(* The same for the pinned listen address and port.                        *)
PinnedListenRestored ==
    \A v \in VM :
        /\ <>[](mem[v].listen # "" /\ Exists(v) /\ config[v].console)
        /\ <>[][mem'[v] = mem[v]]_vars
        => []<>(config[v].listen = mem[v].listen /\ config[v].port = mem[v].port)

(* "Reading back what we wrote is what makes the reconciler idempotent"    *)
(* (virsh/vnc.go:16-22): when a document stops changing, the reconciler    *)
(* stops defining it.                                                      *)
ReconcilerSettles ==
    \A v \in VM :
        <>[][config'[v] = config[v] /\ mem'[v] = mem[v]]_vars
            => <>[](rec.step = "define" => rec.item.vm # v)

-----------------------------------------------------------------------------
(* What a comment of the code promises and a run of its own refutes:       *)
(* "Keep pinned VNC console passwords applied" (main.go:174-175): a VM     *)
(* whose pinned password stays the same gets that password in its config.  *)
PinnedPasswordApplied ==
    \A v \in VM, p \in Password :
        <>[](mem[v].pw = p /\ Exists(v) /\ config[v].console)
            => []<>(config[v].pw = p)
=============================================================================
