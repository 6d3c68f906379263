------------------------- MODULE DomainEdits_proofs -------------------------
(***************************************************************************)
(* What is proved about DomainEdits for any number of parts, networks and  *)
(* requests.                                                               *)
(***************************************************************************)
EXTENDS DomainEdits, FiniteSetTheorems, TLAPS

\* A pass works on the part of its own reconciler.
OwnPart == \A p \in Part : rec[p] # Idle => rec[p].part = p

\* What is about to be defined is an edit of the document as it was.
DumpIsSeen ==
    /\ \A c \in Client : job[c].step = "define" => job[c].dump = job[c].seen
    /\ \A p \in Part : rec[p].step = "define" => rec[p].dump = rec[p].seen

EditInv == TypeOK /\ OwnPart /\ DumpIsSeen

-----------------------------------------------------------------------------
(* What a request and a pass carry, and what an edit is.                   *)

LEMMA GoneIsNoDoc == Gone \notin Doc
BY DEF Gone, Doc

LEMMA ConfigIsDoc ==
    ASSUME TypeOK, Exists
    PROVE  config \in Doc
BY DEF TypeOK, Exists

LEMMA EditedType ==
    ASSUME NEW doc \in Doc, NEW p \in Part, NEW on \in BOOLEAN
    PROVE  Edited(doc, p, on) \in Doc
BY DEF Edited, Doc

LEMMA TemplateType ==
    ASSUME NEW own, NEW nics \in SUBSET Net
    PROVE  Template(own, nics) \in Doc
BY DEF Template, Doc

LEMMA JobHas ==
    ASSUME TypeOK, NEW c \in Client
    PROVE  LET j == job[c]
           IN  /\ j.step \in {"dump", "define"} => j.part \in Defined /\ j.on \in BOOLEAN
               /\ j.step = "define" => j.dump \in Doc
               /\ j.step = "attach" => j.part \in Attached /\ j.on \in BOOLEAN
               /\ j.step = "pin" => j.part \in Part
               /\ j.step \in {"look", "unplug", "plug"}
                    => j \in [step : {"look", "unplug", "plug"}, net : Net]
<1>1. CASE job[c] = Idle
  BY <1>1 DEF Idle
<1>2. CASE job[c] \in Job
  BY <1>2 DEF Job, Define
<1> QED
  BY <1>1, <1>2 DEF TypeOK

LEMMA PassHas ==
    ASSUME TypeOK, OwnPart, NEW p \in Part
    PROVE  /\ rec[p].step \in {"dump", "define"} => p \in Defined
           /\ rec[p].step = "attach" => p \in Attached
           /\ rec[p].step = "define" => rec[p].dump \in Doc
<1>1. CASE rec[p] = Idle
  BY <1>1 DEF Idle
<1>2. CASE rec[p] \in PassStep
  <2>1. rec[p].step \in {"check", "dump", "define", "attach"}
    BY <1>2 DEF PassStep, Define
  <2>2. rec[p] # Idle
    BY <2>1 DEF Idle
  <2> QED
    BY <1>2, <2>2 DEF PassStep, Define, OwnPart
<1> QED
  BY <1>1, <1>2 DEF TypeOK

\* A step that only moves request c keeps the invariant.
LEMMA JobMoves ==
    ASSUME EditInv, NEW c \in Client, NEW j \in {Idle} \cup Job, Becomes(c, j),
           j.step = "define" => j.dump = j.seen,
           rec' = rec, config' \in Doc \cup {Gone}, pins' \in SUBSET Part
    PROVE  EditInv'
<1>1. job' \in [Client -> {Idle} \cup Job] /\ \A d \in Client \ {c} : job'[d] = job[d]
  BY DEF EditInv, TypeOK, Becomes
<1>2. job'[c] = j
  BY DEF EditInv, TypeOK, Becomes
<1> QED
  BY <1>1, <1>2 DEF EditInv, TypeOK, OwnPart, DumpIsSeen

\* A step that only moves the pass of p keeps it.
LEMMA PassMoves ==
    ASSUME EditInv, NEW p \in Part, NEW w \in {Idle} \cup PassStep, PassBecomes(p, w),
           w.step = "define" => w.dump = w.seen,
           w # Idle => w.part = p,
           job' = job, config' \in Doc \cup {Gone}, pins' = pins
    PROVE  EditInv'
<1>1. rec' \in [Part -> {Idle} \cup PassStep] /\ \A q \in Part \ {p} : rec'[q] = rec[q]
  BY DEF EditInv, TypeOK, PassBecomes
<1>2. rec'[p] = w
  BY DEF EditInv, TypeOK, PassBecomes
<1> QED
  BY <1>1, <1>2 DEF EditInv, TypeOK, OwnPart, DumpIsSeen

LEMMA EditStepType ==
    ASSUME NEW p \in Part, NEW on \in BOOLEAN
    PROVE  /\ EditStep(p, on) \in Job
           /\ on => EditStep(p, on) \in PassStep
           /\ EditStep(p, on).step # "define"
           /\ EditStep(p, on).part = p
BY DEF EditStep, Job, PassStep, Part

LEMMA DefineStepType ==
    ASSUME NEW p \in Defined, NEW on \in BOOLEAN, config \in Doc
    PROVE  /\ DefineStep(p, on) \in Define
           /\ DefineStep(p, on).dump = DefineStep(p, on).seen
           /\ DefineStep(p, on).part = p
           /\ DefineStep(p, on).step = "define"
BY DEF DefineStep, Define, Read

\* A command leaves a document or none.
LEMMA CarriedType ==
    ASSUME TypeOK, NEW o, NEW can, NEW new, can => new \in Doc, Carried(o, can, new)
    PROVE  config' \in Doc \cup {Gone}
BY DEF Carried, Succeeds, TimesOut, Refuses, TypeOK

-----------------------------------------------------------------------------
(* The invariant.                                                          *)

LEMMA InitInv == Init => EditInv
<1> SUFFICES ASSUME Init PROVE EditInv
  OBVIOUS
<1>1. config \in Doc
  BY TemplateType DEF Init
<1>2. TypeOK
  BY <1>1 DEF Init, TypeOK
<1>3. OwnPart /\ DumpIsSeen
  BY DEF Init, OwnPart, DumpIsSeen, Idle
<1> QED
  BY <1>2, <1>3 DEF EditInv

LEMMA BeginInv ==
    ASSUME EditInv, NEW c \in Client, Begin(c)
    PROVE  EditInv'
<1> USE DEF EditInv
<1>1. config \in Doc \cup {Gone}
  BY DEF TypeOK
<1>2. ASSUME NEW p \in Part, Post(c, p) \/ Delete(c, p)
      PROVE  EditInv'
  <2>1. PICK on \in BOOLEAN : Becomes(c, EditStep(p, on))
    BY <1>2 DEF Post, Delete
  <2>2. pins' \in SUBSET Part /\ config' = config /\ rec' = rec
    BY <1>2 DEF Post, Delete, TypeOK
  <2> QED
    BY <1>1, <2>1, <2>2, EditStepType, JobMoves
<1>3. ASSUME NEW net \in Net, Switch(c, net)
      PROVE  EditInv'
  <2>1. [step |-> "look", net |-> net] \in Job
    BY DEF Job
  <2> QED
    BY <1>1, <1>3, <2>1, JobMoves DEF Switch, TypeOK
<1> QED
  BY <1>2, <1>3 DEF Begin

\* A command of a request: what it makes of the document, and where the
\* request goes.
LEMMA CommandInv ==
    ASSUME EditInv, NEW c \in Client, NEW o \in Outcome,
           DefineDoc(c, o) \/ Attach(c, o) \/ Unplug(c, o) \/ Plug(c, o)
    PROVE  EditInv'
<1> DEFINE j == job[c]
<1> USE DEF EditInv
<1>1. CASE DefineDoc(c, o)
  <2>1. j.part \in Defined /\ j.on \in BOOLEAN /\ j.dump \in Doc
    BY <1>1, JobHas DEF DefineDoc
  <2>2. Edited(j.dump, j.part, j.on) \in Doc
    BY <2>1, EditedType DEF Part
  <2>3. config' \in Doc \cup {Gone}
    BY <1>1, <2>2, CarriedType DEF DefineDoc
  <2>4. After(j, o) \in {Idle} \cup Job /\ After(j, o).step # "define"
    BY <2>1 DEF After, Job, Part, Idle
  <2> QED
    BY <1>1, <2>3, <2>4, JobMoves DEF DefineDoc, TypeOK
<1>2. CASE Attach(c, o)
  <2>1. j.part \in Attached /\ j.on \in BOOLEAN
    BY <1>2, JobHas DEF Attach
  <2>2. CanAttach(j.part, j.on) => Edited(config, j.part, j.on) \in Doc
    BY <2>1, ConfigIsDoc, EditedType DEF Part, CanAttach
  <2>3. config' \in Doc \cup {Gone}
    BY <1>2, <2>2, CarriedType DEF Attach
  <2>4. After(j, o) \in {Idle} \cup Job /\ After(j, o).step # "define"
    BY <2>1 DEF After, Job, Part, Idle
  <2> QED
    BY <1>2, <2>3, <2>4, JobMoves DEF Attach, TypeOK
<1>3. CASE Unplug(c, o)
  <2>1. CanUnplug => [config EXCEPT !.nics = {}] \in Doc
    BY ConfigIsDoc DEF CanUnplug, Doc
  <2>2. config' \in Doc \cup {Gone}
    BY <1>3, <2>1, CarriedType DEF Unplug
  <2>3. j \in [step : {"look", "unplug", "plug"}, net : Net]
    BY <1>3, JobHas DEF Unplug
  <2>4. [j EXCEPT !.step = "plug"] \in Job /\ [j EXCEPT !.step = "plug"].step # "define"
    BY <2>3 DEF Job
  <2> QED
    BY <1>3, <2>2, <2>4, JobMoves DEF Unplug, TypeOK, Idle
<1>4. CASE Plug(c, o)
  <2>1. j.net \in Net
    BY <1>4, JobHas DEF Plug
  <2>2. Exists => [config EXCEPT !.nics = @ \cup {j.net}] \in Doc
    BY <2>1, ConfigIsDoc DEF Doc
  <2>3. config' \in Doc \cup {Gone}
    BY <1>4, <2>2, CarriedType DEF Plug
  <2> QED
    BY <1>4, <2>3, JobMoves DEF Plug, TypeOK, Idle
<1> QED
  BY <1>1, <1>2, <1>3, <1>4

LEMMA ContinueInv ==
    ASSUME EditInv, NEW c \in Client, Continue(c)
    PROVE  EditInv'
<1> DEFINE j == job[c]
<1> USE DEF EditInv
<1>1. config \in Doc \cup {Gone}
  BY DEF TypeOK
<1>2. ASSUME NEW ok \in BOOLEAN, Dump(c, ok)
      PROVE  EditInv'
  <2>1. j.part \in Defined /\ j.on \in BOOLEAN
    BY <1>2, JobHas DEF Dump
  <2>2. CASE ok
    <3>1. config \in Doc
      BY <1>2, <2>2, ConfigIsDoc DEF Dump, Answers
    <3>2. DefineStep(j.part, j.on) \in Job
      BY <2>1, <3>1, DefineStepType DEF Job
    <3> QED
      BY <1>1, <1>2, <2>1, <2>2, <3>1, <3>2, DefineStepType, JobMoves DEF Dump, TypeOK
  <2>3. CASE ~ok
    BY <1>1, <1>2, <2>3, JobMoves DEF Dump, TypeOK, Idle
  <2> QED
    BY <2>2, <2>3
<1>3. ASSUME NEW ok \in BOOLEAN, Look(c, ok)
      PROVE  EditInv'
  <2>1. j \in [step : {"look", "unplug", "plug"}, net : Net]
    BY <1>3, JobHas DEF Look
  <2>2. [j EXCEPT !.step = "unplug"] \in Job /\ [j EXCEPT !.step = "unplug"].step # "define"
    BY <2>1 DEF Job
  <2> QED
    BY <1>1, <1>3, <2>2, JobMoves DEF Look, TypeOK, Idle
<1>4. CASE Pin(c)
  <2>1. pins' \in SUBSET Part
    BY <1>4, JobHas DEF Pin, TypeOK
  <2> QED
    BY <1>1, <1>4, <2>1, JobMoves DEF Pin, Idle
<1> QED
  BY <1>2, <1>3, <1>4, CommandInv DEF Continue

LEMMA PassInv ==
    ASSUME EditInv, NEW p \in Part, Pass(p)
    PROVE  EditInv'
<1> USE DEF EditInv
<1>1. config \in Doc \cup {Gone}
  BY DEF TypeOK
<1>2. CASE PassBegin(p)
  <2>1. [step |-> "check", part |-> p] \in PassStep
    BY DEF PassStep
  <2> QED
    BY <1>1, <1>2, <2>1, PassMoves DEF PassBegin
<1>3. ASSUME NEW ok \in BOOLEAN, PassCheck(p, ok)
      PROVE  EditInv'
  BY <1>1, <1>3, EditStepType, PassMoves DEF PassCheck, Idle
<1>4. ASSUME NEW ok \in BOOLEAN, PassDump(p, ok)
      PROVE  EditInv'
  <2>1. p \in Defined
    BY <1>4, PassHas DEF PassDump
  <2>2. CASE ok
    <3>1. config \in Doc
      BY <1>4, <2>2, ConfigIsDoc DEF PassDump, Answers
    <3>2. DefineStep(p, TRUE) \in PassStep
      BY <2>1, <3>1, DefineStepType DEF PassStep
    <3> QED
      BY <1>1, <1>4, <2>1, <2>2, <3>1, <3>2, DefineStepType, PassMoves DEF PassDump
  <2>3. CASE ~ok
    BY <1>1, <1>4, <2>3, PassMoves DEF PassDump, Idle
  <2> QED
    BY <2>2, <2>3
<1>5. ASSUME NEW o \in Outcome, PassDefine(p, o)
      PROVE  EditInv'
  <2>1. Edited(rec[p].dump, p, TRUE) \in Doc
    BY <1>5, PassHas, EditedType DEF PassDefine
  <2>2. config' \in Doc \cup {Gone}
    BY <1>5, <2>1, CarriedType DEF PassDefine
  <2> QED
    BY <1>5, <2>2, PassMoves DEF PassDefine, Idle
<1>6. ASSUME NEW o \in Outcome, PassAttach(p, o)
      PROVE  EditInv'
  <2>1. CanAttach(p, TRUE) => Edited(config, p, TRUE) \in Doc
    BY ConfigIsDoc, EditedType DEF CanAttach
  <2>2. config' \in Doc \cup {Gone}
    BY <1>6, <2>1, CarriedType DEF PassAttach
  <2> QED
    BY <1>6, <2>2, PassMoves DEF PassAttach, Idle
<1> QED
  BY <1>2, <1>3, <1>4, <1>5, <1>6 DEF Pass

LEMMA OutsideInv ==
    ASSUME EditInv, Restart \/ Outside
    PROVE  EditInv'
<1> USE DEF EditInv
<1>1. CASE Restart
  BY <1>1 DEF Restart, TypeOK, OwnPart, DumpIsSeen, Idle
<1>2. CASE Outside
  <2>1. config' \in Doc \cup {Gone}
    <3>1. Resave => config.nics \in SUBSET Net
      BY ConfigIsDoc DEF Resave, Doc
    <3> QED
      BY <1>2, <3>1, TemplateType DEF Outside, Resave, Undefine, Create
  <2> QED
    BY <1>2, <2>1 DEF Outside, Resave, Undefine, Create, TypeOK, OwnPart, DumpIsSeen
<1> QED
  BY <1>1, <1>2

LEMMA StepInv == EditInv /\ [Next]_vars => EditInv'
<1>1. ASSUME EditInv, UNCHANGED vars
      PROVE  EditInv'
  BY <1>1 DEF vars, EditInv, TypeOK, OwnPart, DumpIsSeen
<1> QED
  BY <1>1, BeginInv, ContinueInv, PassInv, OutsideInv DEF Next

LEMMA AlwaysEditInv == Spec => []EditInv
BY InitInv, StepInv, PTL DEF Spec

(* Every variable keeps its type: in particular no pass leaves the part of *)
(* its own reconciler, and what is defined is always a whole document.     *)
THEOREM TypeCorrect == Spec => []TypeOK
<1>1. EditInv => TypeOK
  BY DEF EditInv
<1> QED
  BY <1>1, AlwaysEditInv, PTL

-----------------------------------------------------------------------------
(* One part at a time.                                                     *)

\* What a step may do to a document.
OnePart ==
    LET changed == Differ(config, config')
    IN  /\ Cardinality(changed) <= 1
        /\ changed # {} => config'.nics = config.nics

LEMMA NothingChanges ==
    ASSUME config'.has = config.has
    PROVE  OnePart
<1>1. Differ(config, config') = {}
  BY DEF Differ
<1> QED
  BY <1>1, FS_EmptySet DEF OnePart

LEMMA EditChangesOne ==
    ASSUME NEW doc \in Doc, doc = config, NEW p \in Part, NEW on \in BOOLEAN,
           config' = Edited(doc, p, on)
    PROVE  OnePart
<1>1. config'.nics = config.nics
  BY DEF Edited, Doc
<1>2. \A q \in Part \ {p} : config'.has[q] = config.has[q]
  BY DEF Edited, Doc
<1>3. Differ(config, config') \subseteq {p}
  BY <1>2 DEF Differ
<1>4. Cardinality(Differ(config, config')) <= 1
  <2>1. CASE Differ(config, config') = {}
    BY <2>1, FS_EmptySet
  <2>2. CASE Differ(config, config') = {p}
    BY <2>2, FS_Singleton
  <2> QED
    BY <1>3, <2>1, <2>2
<1> QED
  BY <1>1, <1>4 DEF OnePart

LEMMA RequestChangesOne ==
    ASSUME EditInv, NEW c \in Client, Begin(c) \/ Continue(c), Exists, config' # Gone,
           job'[c] # job[c] => ~Stale(job[c])
    PROVE  OnePart
<1> DEFINE j == job[c]
<1> USE DEF EditInv
<1>1. config \in Doc
  BY ConfigIsDoc
<1>2. CASE config' = config
  BY <1>2, NothingChanges
<1>3. ASSUME NEW o \in Outcome, DefineDoc(c, o), config' # config
      PROVE  OnePart
  <2>1. j.part \in Defined /\ j.on \in BOOLEAN /\ j.dump = j.seen /\ j.step = "define"
    BY <1>3, JobHas DEF DefineDoc, DumpIsSeen
  <2>2. job'[c] # job[c]
    BY <1>3, <2>1 DEF DefineDoc, After, Becomes, Idle, TypeOK
  <2>3. config' = Edited(config, j.part, j.on)
    BY <1>3, <2>1, <2>2 DEF DefineDoc, Carried, Stale
  <2> QED
    BY <1>1, <2>1, <2>3, EditChangesOne DEF Part
<1>4. ASSUME NEW o \in Outcome, Attach(c, o), config' # config
      PROVE  OnePart
  <2>1. j.part \in Attached /\ j.on \in BOOLEAN
    BY <1>4, JobHas DEF Attach
  <2>2. config' = Edited(config, j.part, j.on)
    BY <1>4 DEF Attach, Carried
  <2> QED
    BY <1>1, <2>1, <2>2, EditChangesOne DEF Part
<1>5. ASSUME NEW o \in Outcome, Unplug(c, o) \/ Plug(c, o), config' # config
      PROVE  OnePart
  <2>1. config'.has = config.has
    BY <1>1, <1>5 DEF Unplug, Plug, Carried, Doc
  <2> QED
    BY <2>1, NothingChanges
<1>6. CASE Begin(c)
  BY <1>2, <1>6 DEF Begin, Post, Delete, Switch
<1>7. CASE Continue(c)
  BY <1>2, <1>3, <1>4, <1>5, <1>7 DEF Continue, Dump, Look, Pin
<1> QED
  BY <1>6, <1>7

LEMMA PassChangesOne ==
    ASSUME EditInv, NEW p \in Part, Pass(p), Exists, config' # Gone,
           rec'[p] # rec[p] => ~Stale(rec[p])
    PROVE  OnePart
<1> USE DEF EditInv
<1>1. config \in Doc
  BY ConfigIsDoc
<1>2. CASE config' = config
  BY <1>2, NothingChanges
<1>3. ASSUME NEW o \in Outcome, PassDefine(p, o), config' # config
      PROVE  OnePart
  <2>1. rec[p].dump = rec[p].seen /\ rec[p].step = "define"
    BY <1>3 DEF PassDefine, DumpIsSeen
  <2>2. rec'[p] # rec[p]
    BY <1>3, <2>1 DEF PassDefine, PassBecomes, Idle, TypeOK
  <2>3. config' = Edited(config, p, TRUE)
    BY <1>3, <2>1, <2>2 DEF PassDefine, Carried, Stale
  <2> QED
    BY <1>1, <2>3, EditChangesOne
<1>4. ASSUME NEW o \in Outcome, PassAttach(p, o), config' # config
      PROVE  OnePart
  <2>1. config' = Edited(config, p, TRUE)
    BY <1>4 DEF PassAttach, Carried
  <2> QED
    BY <1>1, <2>1, EditChangesOne
<1> QED
  BY <1>2, <1>3, <1>4 DEF Pass, PassBegin, PassCheck, PassDump

LEMMA StepChangesOne ==
    ASSUME EditInv, Next, Exists, config' # Gone,
           job' # job \/ rec' # rec,
           \A c \in Client : job'[c] # job[c] => ~Stale(job[c]),
           \A p \in Part : rec'[p] # rec[p] => ~Stale(rec[p])
    PROVE  OnePart
<1>1. CASE Restart
  BY <1>1, NothingChanges DEF Restart
<1>2. CASE Outside
  BY <1>2 DEF Outside, Resave, Undefine, Create
<1> QED
  BY <1>1, <1>2, RequestChangesOne, PassChangesOne DEF Next

(* No tab and no reconciler, however many there are and however they       *)
(* interleave, changes a part that is not its own, or an interface along   *)
(* with a part, unless it defines a document that was dumped before        *)
(* somebody changed it.                                                    *)
THEOREM EditorsKeepToTheirPart == Spec => OthersPartsKept
<1>1. EditInv /\ [Next]_vars
        => [/\ Exists /\ config' # Gone
            /\ job' # job \/ rec' # rec
            /\ \A c \in Client : job'[c] # job[c] => ~Stale(job[c])
            /\ \A p \in Part : rec'[p] # rec[p] => ~Stale(rec[p])
            => LET changed == Differ(config, config')
               IN  /\ Cardinality(changed) <= 1
                   /\ changed # {} => config'.nics = config.nics]_vars
  BY StepChangesOne DEF OnePart
<1> QED
  BY <1>1, AlwaysEditInv, PTL DEF Spec, OthersPartsKept
-----------------------------------------------------------------------------
(* What takes a part out, and what brings a domain back.                   *)

\* A step takes part p out of the document.
TakesOut(p) == Exists /\ config' # Gone /\ config.has[p] /\ ~config'.has[p]

LEMMA EditTakesOut ==
    ASSUME NEW doc \in Doc, doc = config, NEW p \in Part, NEW q \in Part,
           NEW on \in BOOLEAN, config' = Edited(doc, q, on), TakesOut(p)
    PROVE  q = p /\ ~on
BY DEF TakesOut, Edited, Doc

LEMMA RequestTakesOut ==
    ASSUME EditInv, NEW c \in Client, Begin(c) \/ Continue(c), NEW p \in Part, TakesOut(p)
    PROVE  job'[c] # job[c] /\ (Stale(job[c]) \/ Removes(job[c], p))
<1> DEFINE j == job[c]
<1> USE DEF EditInv
<1>1. config \in Doc
  BY ConfigIsDoc DEF TakesOut
<1>2. config'.has # config.has
  BY DEF TakesOut
<1>3. ASSUME NEW o \in Outcome, DefineDoc(c, o)
      PROVE  job'[c] # j /\ (Stale(j) \/ Removes(j, p))
  <2>1. j.part \in Defined /\ j.on \in BOOLEAN /\ j.dump = j.seen /\ j.step = "define"
    BY <1>3, JobHas DEF DefineDoc, DumpIsSeen
  <2>2. job'[c] # j
    BY <1>3, <2>1 DEF DefineDoc, After, Becomes, Idle, TypeOK
  <2>3. config' = Edited(j.dump, j.part, j.on)
    BY <1>2, <1>3 DEF DefineDoc, Carried, Refuses
  <2>4. ASSUME ~Stale(j)
        PROVE  Removes(j, p)
    <3>1. j.dump = config
      BY <2>1, <2>4 DEF Stale
    <3>2. j.part = p /\ ~j.on
      BY <1>1, <2>1, <2>3, <3>1, EditTakesOut DEF Part
    <3> QED
      BY <2>1, <3>2 DEF Removes
  <2> QED
    BY <2>2, <2>4
<1>4. ASSUME NEW o \in Outcome, Attach(c, o)
      PROVE  job'[c] # j /\ Removes(j, p)
  <2>1. j.part \in Attached /\ j.on \in BOOLEAN /\ j.step = "attach"
    BY <1>4, JobHas DEF Attach
  <2>2. job'[c] # j
    BY <1>4, <2>1 DEF Attach, After, Becomes, Idle, TypeOK
  <2>3. config' = Edited(config, j.part, j.on)
    BY <1>2, <1>4 DEF Attach, Carried
  <2> QED
    BY <1>1, <2>1, <2>2, <2>3, EditTakesOut DEF Part, Removes
<1>5. ASSUME NEW o \in Outcome, Unplug(c, o) \/ Plug(c, o)
      PROVE  FALSE
  BY <1>1, <1>2, <1>5 DEF Unplug, Plug, Carried, Doc
<1>6. ~Begin(c)
  BY <1>2 DEF Begin, Post, Delete, Switch
<1> QED
  BY <1>2, <1>3, <1>4, <1>5, <1>6 DEF Continue, Dump, Look, Pin

LEMMA PassTakesOut ==
    ASSUME EditInv, NEW q \in Part, Pass(q), NEW p \in Part, TakesOut(p)
    PROVE  rec'[q] # rec[q] /\ Stale(rec[q])
<1> USE DEF EditInv
<1>1. config \in Doc
  BY ConfigIsDoc DEF TakesOut
<1>2. config'.has # config.has
  BY DEF TakesOut
<1>3. ASSUME NEW o \in Outcome, PassDefine(q, o)
      PROVE  rec'[q] # rec[q] /\ Stale(rec[q])
  <2>1. rec[q].dump = rec[q].seen /\ rec[q].step = "define"
    BY <1>3 DEF PassDefine, DumpIsSeen
  <2>2. rec'[q] # rec[q]
    BY <1>3, <2>1 DEF PassDefine, PassBecomes, Idle, TypeOK
  <2>3. config' = Edited(rec[q].dump, q, TRUE)
    BY <1>2, <1>3 DEF PassDefine, Carried
  <2> QED
    BY <1>1, <2>1, <2>2, <2>3, EditTakesOut DEF Stale
<1>4. ASSUME NEW o \in Outcome, PassAttach(q, o)
      PROVE  FALSE
  <2>1. config' = Edited(config, q, TRUE)
    BY <1>2, <1>4 DEF PassAttach, Carried
  <2> QED
    BY <1>1, <2>1, EditTakesOut
<1> QED
  BY <1>2, <1>3, <1>4 DEF Pass, PassBegin, PassCheck, PassDump

(* No POST, no repair and no switch of an interface takes a part out of a  *)
(* document, however they interleave: the part is gone after a DELETE of   *)
(* its own, a change from outside, or the define of a stale dump.          *)
THEOREM OnlyDeleteRemoves == Spec => RemovedOnRequest
<1>1. EditInv /\ [Next]_vars
        => [\A p \in Part :
              Exists /\ config' # Gone /\ config.has[p] /\ ~config'.has[p] =>
                \/ UNCHANGED <<job, rec>>
                \/ \E c \in Client :
                     /\ job'[c] # job[c]
                     /\ Stale(job[c]) \/ Removes(job[c], p)
                \/ \E q \in Part : rec'[q] # rec[q] /\ Stale(rec[q])]_vars
  <2> SUFFICES ASSUME EditInv, Next, NEW p \in Part, TakesOut(p)
               PROVE  \/ UNCHANGED <<job, rec>>
                      \/ \E c \in Client :
                           /\ job'[c] # job[c]
                           /\ Stale(job[c]) \/ Removes(job[c], p)
                      \/ \E q \in Part : rec'[q] # rec[q] /\ Stale(rec[q])
    BY DEF TakesOut
  <2>1. ~Restart
    BY DEF Restart, TakesOut
  <2>2. Outside => UNCHANGED <<job, rec>>
    BY DEF Outside, Resave, Undefine, Create
  <2> QED
    BY <2>1, <2>2, RequestTakesOut, PassTakesOut DEF Next
<1> QED
  BY <1>1, AlwaysEditInv, PTL DEF Spec, RemovedOnRequest

(* A domain that was deleted is defined again from outside, or by a define *)
(* that was on its way when it was deleted: no other request, repair or    *)
(* restart brings it back.                                                 *)
RevivedByDefine ==
    [][~Exists /\ config' # Gone =>
         \/ UNCHANGED <<job, rec>>
         \/ \E c \in Client : job'[c] # job[c] /\ Stale(job[c])
         \/ \E p \in Part : rec'[p] # rec[p] /\ Stale(rec[p])]_vars

LEMMA RequestRevives ==
    ASSUME EditInv, NEW c \in Client, Begin(c) \/ Continue(c), ~Exists, config' # Gone
    PROVE  job'[c] # job[c] /\ Stale(job[c])
<1> DEFINE j == job[c]
<1>1. PICK o \in Outcome : DefineDoc(c, o)
  BY DEF Begin, Post, Delete, Switch, Continue, Dump, Look, Attach, Unplug, Plug, Pin,
     Carried, CanAttach, CanUnplug, Succeeds, TimesOut, Exists
<1>2. j.step = "define" /\ j.seen \in Doc
  BY <1>1, JobHas DEF DefineDoc, EditInv, DumpIsSeen
<1>3. Stale(j)
  BY <1>2, GoneIsNoDoc DEF Stale, Exists
<1>4. job'[c] # j
  BY <1>1, <1>2 DEF DefineDoc, After, Becomes, Idle, EditInv, TypeOK
<1> QED
  BY <1>3, <1>4

LEMMA PassRevives ==
    ASSUME EditInv, NEW p \in Part, Pass(p), ~Exists, config' # Gone
    PROVE  rec'[p] # rec[p] /\ Stale(rec[p])
<1>1. PICK o \in Outcome : PassDefine(p, o)
  BY DEF Pass, PassBegin, PassCheck, PassDump, PassAttach, Carried, CanAttach,
     Succeeds, TimesOut, Exists
<1>2. rec[p].step = "define" /\ rec[p].seen \in Doc
  BY <1>1, PassHas DEF PassDefine, EditInv, DumpIsSeen
<1>3. Stale(rec[p])
  BY <1>2, GoneIsNoDoc DEF Stale, Exists
<1>4. rec'[p] # rec[p]
  BY <1>1, <1>2 DEF PassDefine, PassBecomes, Idle, EditInv, TypeOK
<1> QED
  BY <1>3, <1>4

(* A VM that the official interface deleted stays deleted, unless a define *)
(* was on its way: virsh define makes the domain that it does not find     *)
(* (virsh/vnc.go, virsh/tpm.go), attach-device and detach-device do not.   *)
THEOREM DeletedStaysDeleted == Spec => RevivedByDefine
<1>1. EditInv /\ [Next]_vars
        => [~Exists /\ config' # Gone =>
              \/ UNCHANGED <<job, rec>>
              \/ \E c \in Client : job'[c] # job[c] /\ Stale(job[c])
              \/ \E p \in Part : rec'[p] # rec[p] /\ Stale(rec[p])]_vars
  <2> SUFFICES ASSUME EditInv, Next, ~Exists, config' # Gone
               PROVE  \/ UNCHANGED <<job, rec>>
                      \/ \E c \in Client : job'[c] # job[c] /\ Stale(job[c])
                      \/ \E p \in Part : rec'[p] # rec[p] /\ Stale(rec[p])
    OBVIOUS
  <2>1. ~Restart
    BY DEF Restart, Exists
  <2>2. Outside => UNCHANGED <<job, rec>>
    BY DEF Outside, Resave, Undefine, Create
  <2> QED
    BY <2>1, <2>2, RequestRevives, PassRevives DEF Next
<1> QED
  BY <1>1, AlwaysEditInv, PTL DEF Spec, RevivedByDefine
=============================================================================
