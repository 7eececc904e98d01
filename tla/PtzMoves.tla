------------------------------ MODULE PtzMoves ------------------------------
(***************************************************************************)
(* The commands that move the head and keep its presets, as goroutines     *)
(* that share two mutexes: d.v4l2Mu serialises the moves through v4l2-ctl, *)
(* d.hidMu the reports over HID, and the two nest.  A move over V4L2 takes *)
(* hidMu for a moment to repeat the motor speeds; the uevent branch of the *)
(* event loop takes both; preset push and pull, the mode commands and the  *)
(* tick take hidMu alone.                                                  *)
(*                                                                         *)
(* The head is where it was last sent: how long it travels, and what the   *)
(* panel shows meanwhile, is left out.  Whether the camera is there, and   *)
(* whether the daemon knows, is left open: every command may be refused    *)
(* and every transfer may fail at any time.  A slot of the motor unit      *)
(* answers a query with anything it may hold.  The last step of a command  *)
(* is also its answer and its unlocking.                                   *)
(***************************************************************************)
EXTENDS Naturals, FiniteSets

CONSTANTS
    Client,           \* goroutines that serve commands
    EventLoop,        \* the goroutine of the event loop
    None,             \* nobody, nothing
    Axis, Position,
    Rank,             \* ptzAxisOrder: an axis with a lower rank is sent first
    Home,             \* the centre, and what an axis that is not read yields
    InSlots,          \* the places a hardware slot may answer with
    Name,             \* preset names
    Slots,            \* number of hardware slots, maxHardwarePresetSlots
    Hw,               \* the name preset pull gives to a slot, "hw-%d"
    MaxPresets, MaxFailures

Place == [Axis -> Position]
Slot  == 1 .. Slots
Goroutine == Client \cup {EventLoop}

ASSUME MovesAssumption ==
    /\ EventLoop \notin Client /\ None \notin Goroutine
    /\ None \notin Name /\ None \notin Place
    /\ Axis # {} /\ IsFiniteSet(Axis) /\ Rank \in [Axis -> Nat]
    /\ Home \in Place /\ InSlots \subseteq Place
    /\ IsFiniteSet(Name) /\ Slots \in Nat \ {0} /\ Hw \in [Slot -> Name]
    /\ MaxPresets \in Nat \ {0} /\ MaxFailures \in Nat \ {0}

VARIABLES
    target,           \* where the head was sent, by axis
    presets,          \* d.state.Presets
    saved,            \* the state file holds these presets
    v4l2Mu, hidMu,    \* who holds the mutex
    pc,               \* each goroutine's next step
    op, name,         \* its command and the preset it is about
    goal, todo,       \* where it sends the head, the axes still to send
    slot, fails,      \* the sweep's next slot, and its failures in a row
    changed,          \* the sweep has added a preset
    astray,           \* history: a push or a replug has moved the head since its first send
    excuse            \* history: why the file may be behind the memory

memory  == <<presets, saved, excuse>>
mutexes == <<v4l2Mu, hidMu>>
sweep   == <<slot, fails, changed>>
aim     == <<name, goal, todo, astray>>
locals  == <<pc, op, aim, sweep>>
vars    == <<target, memory, mutexes, locals>>

\* "report" stands for every command and tick that takes hidMu and neither
\* moves the head nor touches the presets.
Op   == {"axis", "center", "load", "save", "push", "pull", "report", "uevent"}
Step == {"idle", "v4l2", "begin", "hid", "speeds", "send", "keep", "store",
         "sweep", "summary", "work"}

\* UsesV4l2 if handlePresetWithLock forgot one of its two subcommands
UsesV4l2ButLoad == {"axis", "center", "save", "uevent"}

\* The commands that run under v4l2Mu, and those that keep hidMu to their end.
UsesV4l2 == {"axis", "center", "load", "save", "uevent"}
KeepsHid == {"push", "pull", "report", "uevent"}

Init ==
    /\ target = Home
    /\ presets = [n \in Name |-> None] /\ saved = TRUE /\ excuse = FALSE
    /\ v4l2Mu = None /\ hidMu = None
    /\ pc = [g \in Goroutine |-> "idle"]
    /\ op = [g \in Goroutine |-> "report"] /\ name = [g \in Goroutine |-> None]
    /\ goal = [g \in Goroutine |-> Home] /\ todo = [g \in Goroutine |-> {}]
    /\ slot = [g \in Goroutine |-> 1] /\ fails = [g \in Goroutine |-> 0]
    /\ changed = [g \in Goroutine |-> FALSE]
    /\ astray = [g \in Goroutine |-> FALSE]
-----------------------------------------------------------------------------
(* Helpers. *)

IsFull == Cardinality({n \in Name : presets[n] # None}) >= MaxPresets

\* saveStateOrLog: all of d.state or, when it fails, nothing.
Save == \E works \in BOOLEAN : saved' = works /\ excuse' = ~works

Goto(g, step) == pc' = [pc EXCEPT ![g] = step]

\* Goroutines that have sent a part of a move and will not know of another one.
Misled == {g \in Goroutine : /\ pc[g] \in {"send", "keep"} /\ todo[g] # Axis
                            /\ op[g] \in {"center", "load", "push"}}

Mislead(others) == astray' = [g \in Goroutine |-> astray[g] \/ g \in others]

\* The command answers, with a result or an error, and unlocks.
Finish(g) ==
    /\ Goto(g, "idle")
    /\ v4l2Mu' = IF op[g] \in UsesV4l2 THEN None ELSE v4l2Mu
    /\ hidMu' = IF op[g] \in KeepsHid THEN None ELSE hidMu
    /\ op' = [op EXCEPT ![g] = "report"] /\ name' = [name EXCEPT ![g] = None]
    /\ goal' = [goal EXCEPT ![g] = Home] /\ todo' = [todo EXCEPT ![g] = {}]
    /\ slot' = [slot EXCEPT ![g] = 1] /\ fails' = [fails EXCEPT ![g] = 0]
    /\ changed' = [changed EXCEPT ![g] = FALSE]

\* It answers and has not moved the head.
FinishStill(g) ==
    Finish(g) /\ astray' = [astray EXCEPT ![g] = FALSE] /\ UNCHANGED target

\* The position is reset on replug.
Replug ==
    /\ target' = Home
    /\ Mislead(Misled)
    /\ UNCHANGED <<memory, mutexes, pc, op, name, goal, todo, sweep>>
-----------------------------------------------------------------------------
(* Dispatch: a command arrives and waits for its mutex. *)

Dispatch(g, o) ==
    /\ pc[g] = "idle"
    /\ op' = [op EXCEPT ![g] = o]
    /\ Goto(g, IF o \in UsesV4l2 THEN "v4l2" ELSE IF o \in KeepsHid THEN "hid" ELSE "begin")
    /\ UNCHANGED <<target, memory, mutexes, sweep, astray>>

StartAxis(c, a, p) ==
    /\ Dispatch(c, "axis")
    /\ goal' = [goal EXCEPT ![c][a] = p] /\ todo' = [todo EXCEPT ![c] = {a}]
    /\ UNCHANGED name

StartOther(g, o) == Dispatch(g, o) /\ UNCHANGED <<name, goal, todo>>

StartNamed(c, o, n) ==
    /\ Dispatch(c, o) /\ name' = [name EXCEPT ![c] = n]
    /\ UNCHANGED <<goal, todo>>

\* handlePresetPush looks the preset up before it waits for hidMu.  A preset
\* that is not there, or beyond the last slot, is refused.
StartPush(c, n) ==
    /\ presets[n] # None
    /\ Dispatch(c, "push")
    /\ goal' = [goal EXCEPT ![c] = presets[n]] /\ todo' = [todo EXCEPT ![c] = Axis]
    /\ UNCHANGED name

LockV4l2(g) ==
    /\ pc[g] = "v4l2" /\ v4l2Mu = None /\ v4l2Mu' = g
    /\ Goto(g, IF op[g] = "uevent" THEN "hid" ELSE "begin")
    /\ UNCHANGED <<target, memory, hidMu, op, aim, sweep>>

LockHid(g) ==
    /\ pc[g] = "hid" /\ hidMu = None /\ hidMu' = g
    /\ Goto(g, CASE op[g] = "push" -> "send" [] op[g] = "pull" -> "sweep"
                 [] op[g] \in {"report", "uevent"} -> "work" [] OTHER -> "speeds")
    /\ UNCHANGED <<target, memory, v4l2Mu, op, aim, sweep>>

\* What these do is in other modules: probe, reconcile, mode reports.
Work(g) == pc[g] = "work" /\ FinishStill(g) /\ UNCHANGED memory
-----------------------------------------------------------------------------
(* Moves. *)

\* The daemon knows no camera, or the preset is not there.
Refuse(g) == pc[g] = "begin" /\ FinishStill(g) /\ UNCHANGED memory

\* Where to send the head.  The speeds are repeated first if there are any.
Aim(g) ==
    /\ pc[g] = "begin" /\ op[g] \in {"axis", "center", "load"}
    /\ op[g] = "load" => presets[name[g]] # None
    /\ goal' = [goal EXCEPT ![g] = IF op[g] = "load" THEN presets[name[g]] ELSE @]
    /\ todo' = [todo EXCEPT ![g] = IF op[g] = "axis" THEN @ ELSE Axis]
    /\ name' = [name EXCEPT ![g] = None]
    /\ Goto(g, "hid") \/ Goto(g, "send")
    /\ UNCHANGED <<target, memory, mutexes, op, sweep, astray>>

\* Speeds if reassertSpeeds returned without unlocking
SpeedsKeepHidMu(g) ==
    /\ pc[g] = "speeds" /\ Goto(g, "send")
    /\ UNCHANGED <<target, memory, mutexes, op, aim, sweep>>

\* reassertSpeeds: failures are logged only.
Speeds(g) ==
    /\ pc[g] = "speeds" /\ Goto(g, "send") /\ hidMu' = None
    /\ UNCHANGED <<target, memory, v4l2Mu, op, aim, sweep>>

\* The next axis: in ptzAxisOrder, but centerCamera ranges over a map.
IsNext(g, a) ==
    /\ pc[g] = "send" /\ a \in todo[g]
    /\ op[g] = "center" \/ \A b \in todo[g] : Rank[a] <= Rank[b]

Reaches(g, a) == target' = [target EXCEPT ![a] = goal[g][a]]

\* The others a report to the motor unit moves the head away from.
Others(g) == IF op[g] = "push" THEN Misled \ {g} ELSE {}

\* One axis: v4l2-ctl, or SetMotorPos for a push.
Send(g, a) ==
    /\ IsNext(g, a) /\ (todo[g] # {a} \/ op[g] = "push")
    /\ Reaches(g, a) /\ Mislead(Others(g))
    /\ todo' = [todo EXCEPT ![g] = @ \ {a}]
    /\ IF todo[g] = {a} THEN Goto(g, "keep") ELSE UNCHANGED pc
    /\ UNCHANGED <<memory, mutexes, op, name, goal, sweep>>

SendLast(g, a) ==
    /\ IsNext(g, a) /\ todo[g] = {a} /\ op[g] # "push"
    /\ Finish(g)
    /\ Reaches(g, a) /\ astray' = [astray EXCEPT ![g] = FALSE]
    /\ UNCHANGED memory

\* The device is gone, or v4l2-ctl is killed before or after it took effect.
SendFails(g, a) ==
    /\ IsNext(g, a) /\ Finish(g)
    /\ \/ UNCHANGED target
       \/ op[g] # "push" /\ Reaches(g, a)
    /\ astray' = [astray EXCEPT ![g] = FALSE]
    /\ UNCHANGED memory

\* SetMotorPresetPos stores where the head is; it may fail.
Keep(g) == pc[g] = "keep" /\ FinishStill(g) /\ UNCHANGED memory
-----------------------------------------------------------------------------
(* Presets. *)

\* parsePTZValues leaves an axis it cannot read at 0.
Read(g) ==
    /\ pc[g] = "begin" /\ op[g] = "save" /\ Goto(g, "store")
    /\ \E unread \in SUBSET Axis :
         goal' = [goal EXCEPT ![g] = [a \in Axis |-> IF a \in unread THEN Home[a] ELSE target[a]]]
    /\ UNCHANGED <<target, memory, mutexes, op, name, todo, sweep, astray>>

Write(n, p) == presets' = [presets EXCEPT ![n] = p]

\* Store if only the sweep respected the limit
StoreUnchecked(g) ==
    /\ pc[g] = "store" /\ FinishStill(g)
    /\ Write(name[g], goal[g]) /\ Save

Store(g) ==
    /\ pc[g] = "store" /\ FinishStill(g)
    /\ IF presets[name[g]] = None /\ IsFull
       THEN UNCHANGED memory
       ELSE Write(name[g], goal[g]) /\ Save

\* A delete takes neither mutex; without the preset it changes nothing.
Delete(c, n) ==
    /\ pc[c] = "idle" /\ presets[n] # None
    /\ Write(n, None) /\ Save
    /\ UNCHANGED <<target, mutexes, locals>>
-----------------------------------------------------------------------------
(* preset pull *)

NextSlot(g) ==
    IF slot[g] < Slots THEN slot' = [slot EXCEPT ![g] = @ + 1] /\ UNCHANGED pc
                       ELSE Goto(g, "summary") /\ UNCHANGED slot

\* The slot is not readable; MaxFailures in a row end the sweep.
SlotFails(g) ==
    /\ pc[g] = "sweep"
    /\ fails' = [fails EXCEPT ![g] = @ + 1]
    /\ IF fails'[g] >= MaxFailures THEN Goto(g, "summary") /\ UNCHANGED slot ELSE NextSlot(g)
    /\ UNCHANGED <<target, memory, mutexes, op, aim, changed>>

\* ErrPIXYNotConnected ends the command at once.
SlotUnreachable(g) ==
    /\ pc[g] = "sweep" /\ FinishStill(g)
    /\ excuse' = (excuse \/ changed[g])
    /\ UNCHANGED <<presets, saved>>

\* Empty, set without a position, already named, or a dry run.
SlotSkipped(g) ==
    /\ pc[g] = "sweep"
    /\ fails' = [fails EXCEPT ![g] = 0]
    /\ NextSlot(g)
    /\ UNCHANGED <<target, memory, mutexes, op, aim, changed>>

\* Admits if the sweep took every "hw-" name for its own
AdmitsOwn(n) == presets[n] # None \/ ~IsFull

\* A name that is free, while there is room.
Admits(n) == presets[n] = None /\ ~IsFull

SlotAdmitted(g, p) ==
    /\ pc[g] = "sweep" /\ Admits(Hw[slot[g]])
    /\ Write(Hw[slot[g]], p) /\ saved' = FALSE
    /\ changed' = [changed EXCEPT ![g] = TRUE] /\ fails' = [fails EXCEPT ![g] = 0]
    /\ NextSlot(g)
    /\ UNCHANGED <<target, excuse, mutexes, op, aim>>

LimitHit(g) ==
    /\ pc[g] = "sweep" /\ presets[Hw[slot[g]]] = None /\ IsFull
    /\ Goto(g, "summary") /\ fails' = [fails EXCEPT ![g] = 0]
    /\ UNCHANGED <<target, memory, mutexes, op, aim, slot, changed>>

\* Summary if a sweep that gave up returned without saving
SummaryOfWhole(g) ==
    /\ pc[g] = "summary" /\ FinishStill(g)
    /\ IF changed[g] /\ fails[g] < MaxFailures THEN Save ELSE UNCHANGED <<saved, excuse>>
    /\ UNCHANGED presets

Summary(g) ==
    /\ pc[g] = "summary" /\ FinishStill(g)
    /\ IF changed[g] THEN Save ELSE UNCHANGED <<saved, excuse>>
    /\ UNCHANGED presets
-----------------------------------------------------------------------------
Start(c) ==
    \/ \E a \in Axis, p \in Position : StartAxis(c, a, p)
    \/ \E o \in {"center", "pull", "report"} : StartOther(c, o)
    \/ \E o \in {"load", "save"}, n \in Name : StartNamed(c, o, n)
    \/ \E n \in Name : StartPush(c, n) \/ Delete(c, n)
StartLoop == \E o \in {"uevent", "report"} : StartOther(EventLoop, o)

Move(g) == \/ Refuse(g) \/ Aim(g) \/ Speeds(g) \/ Keep(g)
           \/ \E a \in Axis : Send(g, a) \/ SendLast(g, a) \/ SendFails(g, a)
Sweep(g) == \/ SlotFails(g) \/ SlotUnreachable(g) \/ SlotSkipped(g) \/ LimitHit(g) \/ Summary(g)
            \/ \E p \in InSlots : SlotAdmitted(g, p)

Next == \/ Replug
        \/ \E c \in Client : Start(c)
        \/ StartLoop
        \/ \E g \in Goroutine : \/ LockV4l2(g) \/ LockHid(g) \/ Work(g) \/ Move(g)
                                \/ Read(g) \/ Store(g) \/ Sweep(g)

Spec == Init /\ [][Next]_vars
-----------------------------------------------------------------------------
(* Properties. *)

\* The collection never outgrows MaxPresets, whether a save or a sweep adds to
\* it (PresetMap.Set, admitReading); the variables keep their types.
TypeOK ==
    /\ target \in Place
    /\ presets \in [Name -> Place \cup {None}]
    /\ Cardinality({n \in Name : presets[n] # None}) <= MaxPresets
    /\ saved \in BOOLEAN /\ excuse \in BOOLEAN
    /\ v4l2Mu \in Goroutine \cup {None} /\ hidMu \in Goroutine \cup {None}
    /\ pc \in [Goroutine -> Step] /\ op \in [Goroutine -> Op]
    /\ name \in [Goroutine -> Name \cup {None}]
    /\ goal \in [Goroutine -> Place] /\ todo \in [Goroutine -> SUBSET Axis]
    /\ slot \in [Goroutine -> Slot] /\ fails \in [Goroutine -> 0 .. MaxFailures]
    /\ changed \in [Goroutine -> BOOLEAN]
    /\ astray \in [Goroutine -> BOOLEAN]

\* The two mutexes never deadlock: who holds hidMu is at work and waits for
\* nothing, who holds v4l2Mu is at work or waits for hidMu alone.  This is the
\* lock order the code states at its nested acquisitions (eventLoop,
\* reassertSpeeds, handleMutatingCommandWithV4L2Lock).
Waits(g) == pc[g] \in {"v4l2", "hid"}
LocksNest ==
    /\ hidMu # None => pc[hidMu] # "idle" /\ ~Waits(hidMu)
    /\ v4l2Mu # None => pc[v4l2Mu] \notin {"idle", "v4l2"}

\* A recall or a centring that answers has sent the head to one place: the axes
\* of other V4L2 moves, saves or loads never mix with its own, whatever waits and
\* whatever fails.  A push goes past v4l2Mu and is excepted, and so is a replug
\* (handleMutatingCommandWithV4L2Lock, handlePresetWithLock).
LoadIsWhole ==
    [][\A c \in Client : \A a \in Axis :
         SendLast(c, a) /\ op[c] \in {"center", "load"} /\ ~astray[c] => target' = goal[c]]_vars

\* A preset that exists changes or goes only by a save or a delete of its own
\* name: a sweep never overwrites or evicts one, even when the user takes a
\* "hw-" name or fills the collection while it runs (admitReading).
OnlyUsersChangePresets ==
    [][\A n \in Name : presets[n] # None /\ presets'[n] # presets[n] =>
         \E c \in Client : \/ name[c] = n /\ pc[c] = "store" /\ pc'[c] = "idle"
                           \/ Delete(c, n)]_vars

\* Unless a save failed or the camera went away during a sweep, the file holds
\* the presets in memory as soon as no sweep is under way (saveStateOrLog's
\* callers).
PresetsSaved == saved \/ excuse \/ \E c \in Client : changed[c]

\* A push that answers has mirrored its preset into the slot (README.md,
\* handlePresetPush).
SlotHoldsPreset ==
    [][\A c \in Client : Keep(c) /\ ~astray[c] => target = goal[c]]_vars
=============================================================================
