--------------------------- MODULE PtzMovesProofs ---------------------------
(* Proofs about PtzMoves, for any number of clients, axes, slots and presets. *)
EXTENDS PtzMoves, FiniteSetTheorems, TLAPS

\* What a goroutine may be doing at each step.
AtStep(g, steps, ops) == pc[g] \in steps => op[g] \in ops
Shape == \A g \in Goroutine :
    /\ AtStep(g, {"v4l2"}, UsesV4l2)
    /\ AtStep(g, {"begin"}, {"axis", "center", "load", "save"})
    /\ AtStep(g, {"hid"}, {"axis", "center", "load", "push", "pull", "report", "uevent"})
    /\ AtStep(g, {"speeds"}, {"axis", "center", "load"})
    /\ AtStep(g, {"send"}, {"axis", "center", "load", "push"})
    /\ AtStep(g, {"keep"}, {"push"})
    /\ AtStep(g, {"store"}, {"save"})
    /\ AtStep(g, {"sweep", "summary"}, {"pull"})
    /\ AtStep(g, {"work"}, {"report", "uevent"})
    /\ g = EventLoop => op[g] \in {"report", "uevent"}

\* What a command is about is there while it needs it.
Locals == \A g \in Goroutine :
    /\ pc[g] \in {"v4l2", "begin", "store"} /\ op[g] \in {"load", "save"} => name[g] \in Name
    /\ pc[g] = "sweep" => fails[g] < MaxFailures
    /\ pc[g] \notin {"sweep", "summary"} => fails[g] = 0 /\ ~changed[g]

\* Who is at a step that needs a mutex has it, and nobody else.
HoldsHid(g) == \/ pc[g] = "speeds"
               \/ op[g] \in KeepsHid /\ pc[g] \in {"send", "keep", "sweep", "summary", "work"}
HoldsV4l2(g) == op[g] \in UsesV4l2 /\ pc[g] \notin {"idle", "v4l2"}
Holders == \A g \in Goroutine :
    /\ hidMu = g <=> HoldsHid(g)
    /\ v4l2Mu = g <=> HoldsV4l2(g)

\* A recall or centring still has all axes to send, or those it has sent are where
\* it sent them.
Whole == \A g \in Goroutine : op[g] \in {"center", "load"} =>
    /\ pc[g] \in {"hid", "speeds"} => todo[g] = Axis
    /\ pc[g] = "send" /\ ~astray[g] => \A a \in Axis \ todo[g] : target[a] = goal[g][a]

Typed ==
    /\ target \in Place
    /\ presets \in [Name -> Place \cup {None}]
    /\ saved \in BOOLEAN /\ excuse \in BOOLEAN
    /\ v4l2Mu \in Goroutine \cup {None} /\ hidMu \in Goroutine \cup {None}
    /\ pc \in [Goroutine -> Step] /\ op \in [Goroutine -> Op]
    /\ name \in [Goroutine -> Name \cup {None}]
    /\ goal \in [Goroutine -> Place] /\ todo \in [Goroutine -> SUBSET Axis]
    /\ slot \in [Goroutine -> Slot] /\ fails \in [Goroutine -> 0 .. MaxFailures]
    /\ changed \in [Goroutine -> BOOLEAN]
    /\ astray \in [Goroutine -> BOOLEAN]

LEMMA ClientsRun == Client \subseteq Goroutine /\ EventLoop \in Goroutine
BY DEF Goroutine

\* A step of the specification is one of these.
LEMMA Steps ==
    ASSUME Next
    PROVE  \/ Replug
           \/ \E c \in Client, a \in Axis, p \in Position : StartAxis(c, a, p)
           \/ \E g \in Client, o \in {"center", "pull", "report"} : StartOther(g, o)
           \/ \E o \in {"uevent", "report"} : StartOther(EventLoop, o)
           \/ \E c \in Client, o \in {"load", "save"}, n \in Name : StartNamed(c, o, n)
           \/ \E c \in Client, n \in Name : StartPush(c, n) \/ Delete(c, n)
           \/ \E g \in Goroutine : \/ LockV4l2(g) \/ LockHid(g)
                                   \/ Work(g) \/ Refuse(g) \/ Keep(g)
                                   \/ Aim(g) \/ Speeds(g)
                                   \/ Read(g) \/ Store(g)
                                   \/ SlotFails(g) \/ SlotUnreachable(g) \/ SlotSkipped(g)
                                   \/ LimitHit(g) \/ Summary(g)
           \/ \E g \in Goroutine, a \in Axis : Send(g, a) \/ SendLast(g, a) \/ SendFails(g, a)
           \/ \E g \in Goroutine, p \in InSlots : SlotAdmitted(g, p)
BY SMT DEF Next, Start, StartLoop, Move, Sweep

LEMMA NextSlotTyped ==
    ASSUME Typed, NEW g \in Goroutine, NextSlot(g)
    PROVE  slot' \in [Goroutine -> Slot] /\ pc' \in [Goroutine -> Step]
<1>1. slot[g] < Slots => slot[g] + 1 \in Slot
  BY MovesAssumption DEF Typed, Slot
<1>2. CASE slot[g] < Slots
  BY <1>1, <1>2 DEF Typed, NextSlot
<1>3. CASE ~(slot[g] < Slots)
  BY <1>3 DEF Typed, NextSlot, Goto, Step
<1> QED
  BY <1>2, <1>3

LEMMA ReachesPlace ==
    ASSUME Typed, NEW g \in Goroutine, NEW a \in Axis, Reaches(g, a)
    PROVE  target' \in Place
BY DEF Typed, Reaches, Place

LEMMA TypedStep ==
    ASSUME Typed, Shape, Locals, [Next]_vars
    PROVE  Typed'
<1> USE MovesAssumption, ClientsRun
<1> USE DEF Typed, memory, mutexes, sweep, aim, locals, vars, Step, Op, UsesV4l2, KeepsHid, Goto
<1>1. CASE UNCHANGED vars
  BY <1>1
<1>2. CASE Replug
  BY <1>2 DEF Replug, Mislead, Place
<1>3. ASSUME NEW c \in Client, NEW a \in Axis, NEW p \in Position, StartAxis(c, a, p) PROVE Typed'
  BY <1>3 DEF StartAxis, Dispatch, Place
<1>4. ASSUME NEW g \in Goroutine, NEW o \in {"center", "pull", "report", "uevent"}, StartOther(g, o)
      PROVE  Typed'
  BY <1>4 DEF StartOther, Dispatch
<1>5. ASSUME NEW c \in Client, NEW o \in {"load", "save"}, NEW n \in Name, StartNamed(c, o, n)
      PROVE  Typed'
  BY <1>5 DEF StartNamed, Dispatch
<1>6. ASSUME NEW c \in Client, NEW n \in Name, StartPush(c, n) PROVE Typed'
  BY <1>6 DEF StartPush, Dispatch
<1>7. ASSUME NEW c \in Client, NEW n \in Name, Delete(c, n) PROVE Typed'
  BY <1>7 DEF Delete, Write, Save
<1>8. ASSUME NEW g \in Goroutine, LockV4l2(g) \/ LockHid(g) PROVE Typed'
  BY <1>8 DEF LockV4l2, LockHid
<1>9. ASSUME NEW g \in Goroutine, FinishStill(g) PROVE Typed' \/ ~(presets' \in [Name -> Place \cup {None}] /\ saved' \in BOOLEAN /\ excuse' \in BOOLEAN)
  BY <1>9 DEF FinishStill, Finish, Slot
<1>10. ASSUME NEW g \in Goroutine, Work(g) \/ Refuse(g) \/ Keep(g) PROVE Typed'
  BY <1>9, <1>10 DEF Work, Refuse, Keep
<1>11. ASSUME NEW g \in Goroutine, Aim(g) PROVE Typed'
  BY <1>11 DEF Aim, Locals
<1>12. ASSUME NEW g \in Goroutine, Speeds(g) PROVE Typed'
  BY <1>12 DEF Speeds
<1>13. ASSUME NEW g \in Goroutine, Read(g) PROVE Typed'
  BY <1>13 DEF Read, Place
<1>14. ASSUME NEW g \in Goroutine, Store(g) PROVE Typed'
  BY <1>9, <1>14 DEF Store, Write, Save
<1>15. ASSUME NEW g \in Goroutine, SlotFails(g) PROVE Typed'
  <2>1. fails' \in [Goroutine -> 0 .. MaxFailures]
    BY <1>15 DEF SlotFails, Locals
  <2>2. slot' \in [Goroutine -> Slot] /\ pc' \in [Goroutine -> Step]
    BY <1>15, NextSlotTyped DEF SlotFails
  <2> QED
    BY <1>15, <2>1, <2>2 DEF SlotFails
<1>16. ASSUME NEW g \in Goroutine, SlotUnreachable(g) \/ Summary(g) PROVE Typed'
  BY <1>9, <1>16 DEF SlotUnreachable, Summary, Save
<1>17. ASSUME NEW g \in Goroutine, SlotSkipped(g) PROVE Typed'
  <2>1. slot' \in [Goroutine -> Slot] /\ pc' \in [Goroutine -> Step]
    BY <1>17, NextSlotTyped DEF SlotSkipped
  <2>2. fails' \in [Goroutine -> 0 .. MaxFailures]
    BY <1>17 DEF SlotSkipped
  <2> QED
    BY <1>17, <2>1, <2>2 DEF SlotSkipped
<1>18. ASSUME NEW g \in Goroutine, LimitHit(g) PROVE Typed'
  BY <1>18 DEF LimitHit
<1>19. ASSUME NEW g \in Goroutine, NEW p \in InSlots, SlotAdmitted(g, p) PROVE Typed'
  <2>1. presets' \in [Name -> Place \cup {None}]
    BY <1>19 DEF SlotAdmitted, Write
  <2>2. slot' \in [Goroutine -> Slot] /\ pc' \in [Goroutine -> Step]
    BY <1>19, NextSlotTyped DEF SlotAdmitted
  <2>3. fails' \in [Goroutine -> 0 .. MaxFailures] /\ changed' \in [Goroutine -> BOOLEAN]
    BY <1>19 DEF SlotAdmitted
  <2> QED
    BY <1>19, <2>1, <2>2, <2>3 DEF SlotAdmitted
<1>20. ASSUME NEW g \in Goroutine, NEW a \in Axis, Send(g, a) PROVE Typed'
  BY <1>20 DEF Send, Reaches, Mislead, Place
<1>21. ASSUME NEW g \in Goroutine, NEW a \in Axis, SendLast(g, a) \/ SendFails(g, a) PROVE Typed'
  <2>1. target' \in Place
    BY <1>21, ReachesPlace DEF SendLast, SendFails
  <2>2. Finish(g) /\ astray' = [astray EXCEPT ![g] = FALSE] /\ UNCHANGED memory
    BY <1>21 DEF SendLast, SendFails
  <2> QED
    BY <2>1, <2>2 DEF Finish, Slot
<1> QED
  BY <1>1, <1>2, <1>3, <1>4, <1>5, <1>6, <1>7, <1>8, <1>10, <1>11, <1>12, <1>13, <1>14, <1>15,
     <1>16, <1>17, <1>18, <1>19, <1>20, <1>21, Steps

LEMMA ShapeStep ==
    ASSUME Typed, Shape, [Next]_vars
    PROVE  Shape'
<1> USE MovesAssumption, ClientsRun
<1> USE DEF Typed, Shape, AtStep, memory, mutexes, sweep, aim, locals, vars, UsesV4l2, KeepsHid, Goto
<1>1. CASE UNCHANGED vars
  BY <1>1
<1>2. CASE Replug
  BY <1>2 DEF Replug
<1>3. ASSUME NEW c \in Client, NEW a \in Axis, NEW p \in Position, StartAxis(c, a, p) PROVE Shape'
  BY <1>3 DEF StartAxis, Dispatch
<1>4. ASSUME NEW g \in Client, NEW o \in {"center", "pull", "report"}, StartOther(g, o) PROVE Shape'
  BY <1>4 DEF StartOther, Dispatch
<1>5. ASSUME NEW o \in {"uevent", "report"}, StartOther(EventLoop, o) PROVE Shape'
  BY <1>5 DEF StartOther, Dispatch
<1>6. ASSUME NEW c \in Client, NEW o \in {"load", "save"}, NEW n \in Name, StartNamed(c, o, n)
      PROVE  Shape'
  BY <1>6 DEF StartNamed, Dispatch
<1>7. ASSUME NEW c \in Client, NEW n \in Name, StartPush(c, n) \/ Delete(c, n) PROVE Shape'
  BY <1>7 DEF StartPush, Dispatch, Delete
<1>8. ASSUME NEW g \in Goroutine, LockV4l2(g) PROVE Shape'
  BY <1>8 DEF LockV4l2
<1>9. ASSUME NEW g \in Goroutine, LockHid(g) PROVE Shape'
  BY <1>9 DEF LockHid
<1>10. ASSUME NEW g \in Goroutine, Finish(g) PROVE Shape'
  BY <1>10 DEF Finish
<1>11. ASSUME NEW g \in Goroutine,
              Work(g) \/ Refuse(g) \/ Keep(g) \/ Store(g) \/ SlotUnreachable(g) \/ Summary(g)
       PROVE  Shape'
  BY <1>10, <1>11 DEF Work, Refuse, Keep, Store, SlotUnreachable, Summary, FinishStill
<1>12. ASSUME NEW g \in Goroutine, Aim(g) \/ Speeds(g) \/ Read(g) PROVE Shape'
  BY <1>12 DEF Aim, Speeds, Read
<1>13. ASSUME NEW g \in Goroutine, SlotFails(g) \/ SlotSkipped(g) \/ LimitHit(g) PROVE Shape'
  BY <1>13 DEF SlotFails, SlotSkipped, LimitHit, NextSlot
<1>14. ASSUME NEW g \in Goroutine, NEW p \in InSlots, SlotAdmitted(g, p) PROVE Shape'
  BY <1>14 DEF SlotAdmitted, NextSlot
<1>15. ASSUME NEW g \in Goroutine, NEW a \in Axis, Send(g, a) PROVE Shape'
  BY <1>15 DEF Send, IsNext
<1>16. ASSUME NEW g \in Goroutine, NEW a \in Axis, SendLast(g, a) \/ SendFails(g, a) PROVE Shape'
  BY <1>10, <1>16 DEF SendLast, SendFails
<1> QED
  BY <1>1, <1>2, <1>3, <1>4, <1>5, <1>6, <1>7, <1>8, <1>9, <1>11, <1>12, <1>13, <1>14, <1>15, <1>16,
     Steps

LEMMA LocalsStep ==
    ASSUME Typed, Shape, Locals, [Next]_vars
    PROVE  Locals'
<1> USE MovesAssumption, ClientsRun
<1> USE DEF Typed, Shape, AtStep, Locals, memory, mutexes, sweep, aim, locals, vars, UsesV4l2, KeepsHid, Goto
<1>1. CASE UNCHANGED vars
  BY <1>1
<1>2. CASE Replug
  BY <1>2 DEF Replug
<1>3. ASSUME NEW c \in Client, NEW a \in Axis, NEW p \in Position, StartAxis(c, a, p) PROVE Locals'
  BY <1>3 DEF StartAxis, Dispatch
<1>4. ASSUME NEW g \in Client, NEW o \in {"center", "pull", "report"}, StartOther(g, o) PROVE Locals'
  BY <1>4 DEF StartOther, Dispatch
<1>5. ASSUME NEW o \in {"uevent", "report"}, StartOther(EventLoop, o) PROVE Locals'
  BY <1>5 DEF StartOther, Dispatch
<1>6. ASSUME NEW c \in Client, NEW o \in {"load", "save"}, NEW n \in Name, StartNamed(c, o, n)
      PROVE  Locals'
  BY <1>6 DEF StartNamed, Dispatch
<1>7. ASSUME NEW c \in Client, NEW n \in Name, StartPush(c, n) \/ Delete(c, n) PROVE Locals'
  BY <1>7 DEF StartPush, Dispatch, Delete
<1>8. ASSUME NEW g \in Goroutine, LockV4l2(g) PROVE Locals'
  BY <1>8 DEF LockV4l2
<1>9. ASSUME NEW g \in Goroutine, LockHid(g) PROVE Locals'
  BY <1>9 DEF LockHid
<1>10. ASSUME NEW g \in Goroutine, Finish(g) PROVE Locals'
  BY <1>10 DEF Finish
<1>11. ASSUME NEW g \in Goroutine,
              Work(g) \/ Refuse(g) \/ Keep(g) \/ Store(g) \/ SlotUnreachable(g) \/ Summary(g)
       PROVE  Locals'
  BY <1>10, <1>11 DEF Work, Refuse, Keep, Store, SlotUnreachable, Summary, FinishStill
<1>12. ASSUME NEW g \in Goroutine, Aim(g) \/ Speeds(g) \/ Read(g) PROVE Locals'
  BY <1>12 DEF Aim, Speeds, Read
<1>13. ASSUME NEW g \in Goroutine, SlotFails(g) \/ SlotSkipped(g) \/ LimitHit(g) PROVE Locals'
  BY <1>13 DEF SlotFails, SlotSkipped, LimitHit, NextSlot
<1>14. ASSUME NEW g \in Goroutine, NEW p \in InSlots, SlotAdmitted(g, p) PROVE Locals'
  BY <1>14 DEF SlotAdmitted, NextSlot
<1>15. ASSUME NEW g \in Goroutine, NEW a \in Axis, Send(g, a) PROVE Locals'
  BY <1>15 DEF Send, IsNext
<1>16. ASSUME NEW g \in Goroutine, NEW a \in Axis, SendLast(g, a) \/ SendFails(g, a) PROVE Locals'
  BY <1>10, <1>16 DEF SendLast, SendFails
<1> QED
  BY <1>1, <1>2, <1>3, <1>4, <1>5, <1>6, <1>7, <1>8, <1>9, <1>11, <1>12, <1>13, <1>14, <1>15, <1>16,
     Steps

LEMMA HoldersStep ==
    ASSUME Typed, Shape, Holders, [Next]_vars
    PROVE  Holders'
<1> USE MovesAssumption, ClientsRun
<1> USE DEF Typed, Shape, AtStep, Holders, HoldsHid, HoldsV4l2, memory, mutexes, sweep, aim, locals, vars, UsesV4l2, KeepsHid, Goto
<1>1. CASE UNCHANGED vars
  BY <1>1
<1>2. CASE Replug
  BY <1>2 DEF Replug
<1>3. ASSUME NEW c \in Client, NEW a \in Axis, NEW p \in Position, StartAxis(c, a, p) PROVE Holders'
  BY <1>3 DEF StartAxis, Dispatch
<1>4. ASSUME NEW g \in Client, NEW o \in {"center", "pull", "report"}, StartOther(g, o) PROVE Holders'
  BY <1>4 DEF StartOther, Dispatch
<1>5. ASSUME NEW o \in {"uevent", "report"}, StartOther(EventLoop, o) PROVE Holders'
  BY <1>5 DEF StartOther, Dispatch
<1>6. ASSUME NEW c \in Client, NEW o \in {"load", "save"}, NEW n \in Name, StartNamed(c, o, n)
      PROVE  Holders'
  BY <1>6 DEF StartNamed, Dispatch
<1>7. ASSUME NEW c \in Client, NEW n \in Name, StartPush(c, n) \/ Delete(c, n) PROVE Holders'
  BY <1>7 DEF StartPush, Dispatch, Delete
<1>8. ASSUME NEW g \in Goroutine, LockV4l2(g) PROVE Holders'
  BY <1>8 DEF LockV4l2
<1>9. ASSUME NEW g \in Goroutine, LockHid(g) PROVE Holders'
  BY <1>9 DEF LockHid
<1>10. ASSUME NEW g \in Goroutine, Finish(g),
              pc[g] \in {"begin", "send", "keep", "store", "sweep", "summary", "work"}
       PROVE  Holders'
  BY <1>10 DEF Finish
<1>11. ASSUME NEW g \in Goroutine,
              Work(g) \/ Refuse(g) \/ Keep(g) \/ Store(g) \/ SlotUnreachable(g) \/ Summary(g)
       PROVE  Holders'
  BY <1>10, <1>11 DEF Work, Refuse, Keep, Store, SlotUnreachable, Summary, FinishStill
<1>12. ASSUME NEW g \in Goroutine, Aim(g) \/ Speeds(g) \/ Read(g) PROVE Holders'
  BY <1>12 DEF Aim, Speeds, Read
<1>13. ASSUME NEW g \in Goroutine, SlotFails(g) \/ SlotSkipped(g) \/ LimitHit(g) PROVE Holders'
  BY <1>13 DEF SlotFails, SlotSkipped, LimitHit, NextSlot
<1>14. ASSUME NEW g \in Goroutine, NEW p \in InSlots, SlotAdmitted(g, p) PROVE Holders'
  BY <1>14 DEF SlotAdmitted, NextSlot
<1>15. ASSUME NEW g \in Goroutine, NEW a \in Axis, Send(g, a) PROVE Holders'
  BY <1>15 DEF Send, IsNext
<1>16. ASSUME NEW g \in Goroutine, NEW a \in Axis, SendLast(g, a) \/ SendFails(g, a) PROVE Holders'
  BY <1>10, <1>16 DEF SendLast, SendFails, IsNext
<1> QED
  BY <1>1, <1>2, <1>3, <1>4, <1>5, <1>6, <1>7, <1>8, <1>9, <1>11, <1>12, <1>13, <1>14, <1>15, <1>16,
     Steps

\* Two goroutines that move the head over V4L2 are one.
LEMMA OneMover ==
    ASSUME Holders, NEW g \in Goroutine, NEW h \in Goroutine, pc[g] = "send", pc[h] = "send",
           op[g] \in UsesV4l2, op[h] \in UsesV4l2
    PROVE  g = h
BY DEF Holders, HoldsV4l2

\* Only the holder of v4l2Mu sends axes of its own, and a push misleads those it
\* moves the head away from.
LEMMA WholeStep ==
    ASSUME Typed, Shape, Holders, Whole, [Next]_vars
    PROVE  Whole'
<1> USE MovesAssumption, ClientsRun
<1>0. UNCHANGED target /\ UNCHANGED <<goal, todo, astray, pc, op>> => Whole'
  BY DEF Whole
<1>1. CASE UNCHANGED vars
  BY <1>0, <1>1 DEF vars, locals, aim
<1>2. CASE Replug
  BY <1>2 DEF Replug, Mislead, Misled, Whole
<1>3. ASSUME NEW g \in Goroutine, NEW o \in Op, Dispatch(g, o),
             \A h \in Goroutine \ {g} : goal'[h] = goal[h] /\ todo'[h] = todo[h]
      PROVE  Whole'
  <2>1. UNCHANGED <<target, astray>> /\ pc'[g] \in {"v4l2", "hid", "begin"}
    BY <1>3 DEF Dispatch, Goto, Typed
  <2>2. o \in {"center", "load"} => pc'[g] = "v4l2"
    BY <1>3 DEF Dispatch, Goto, Typed, UsesV4l2
  <2> QED
    BY <1>3, <2>1, <2>2 DEF Whole, Dispatch, Goto, Typed
<1>4. ASSUME NEW c \in Client, NEW a \in Axis, NEW p \in Position, StartAxis(c, a, p) PROVE Whole'
  BY <1>3, <1>4 DEF StartAxis, Op, Typed
<1>5. ASSUME NEW g \in Goroutine, NEW o \in Op, StartOther(g, o) PROVE Whole'
  BY <1>3, <1>5 DEF StartOther
<1>6. ASSUME NEW c \in Client, NEW o \in {"load", "save"}, NEW n \in Name, StartNamed(c, o, n)
      PROVE  Whole'
  BY <1>3, <1>6 DEF StartNamed, Op
<1>7. ASSUME NEW c \in Client, NEW n \in Name, StartPush(c, n) PROVE Whole'
  BY <1>3, <1>7 DEF StartPush, Op, Typed
<1>8. ASSUME NEW c \in Client, NEW n \in Name, Delete(c, n) PROVE Whole'
  BY <1>0, <1>8 DEF Delete, locals, aim
<1>9. ASSUME NEW g \in Goroutine, LockV4l2(g) \/ LockHid(g) PROVE Whole'
  BY <1>9 DEF LockV4l2, LockHid, Goto, aim, Whole, Typed
<1>10. ASSUME NEW g \in Goroutine, FinishStill(g) PROVE Whole'
  BY <1>10 DEF FinishStill, Finish, Goto, Whole, Typed
<1>11. ASSUME NEW g \in Goroutine,
              Work(g) \/ Refuse(g) \/ Keep(g) \/ Store(g) \/ SlotUnreachable(g) \/ Summary(g)
       PROVE  Whole'
  BY <1>10, <1>11 DEF Work, Refuse, Keep, Store, SlotUnreachable, Summary
<1>12. ASSUME NEW g \in Goroutine, Aim(g) PROVE Whole'
  BY <1>12 DEF Aim, Goto, Whole, Typed
<1>13. ASSUME NEW g \in Goroutine, Speeds(g) \/ Read(g) PROVE Whole'
  BY <1>13 DEF Speeds, Read, Goto, aim, Whole, Typed
<1>14. ASSUME NEW g \in Goroutine, pc[g] = "sweep", NextSlot(g) \/ Goto(g, "summary"),
              UNCHANGED <<target, op, aim>>
       PROVE  Whole'
  BY <1>14 DEF NextSlot, Goto, aim, Whole, Typed
<1>15. ASSUME NEW g \in Goroutine, SlotFails(g) \/ SlotSkipped(g) \/ LimitHit(g) PROVE Whole'
  BY <1>14, <1>15 DEF SlotFails, SlotSkipped, LimitHit, aim
<1>16. ASSUME NEW g \in Goroutine, NEW p \in InSlots, SlotAdmitted(g, p) PROVE Whole'
  BY <1>14, <1>16 DEF SlotAdmitted, aim
<1>17. ASSUME NEW g \in Goroutine, NEW a \in Axis, Send(g, a) PROVE Whole'
  <2>1. pc[g] = "send" /\ a \in todo[g] /\ UNCHANGED <<op, goal>>
    BY <1>17 DEF Send, IsNext
  <2>2. \A h \in Goroutine \ {g} : pc'[h] = pc[h] /\ todo'[h] = todo[h]
    BY <1>17 DEF Send, Goto, Typed
  <2>3. ASSUME NEW h \in Goroutine \ {g}, op[h] \in {"center", "load"}, pc[h] = "send"
        PROVE  astray'[h] \/ todo[h] = Axis
    <3>1. op[g] = "push"
      BY <2>1, <2>3, OneMover DEF UsesV4l2, Shape, AtStep
    <3> QED
      BY <1>17, <2>3, <3>1 DEF Send, Others, Mislead, Misled
  <2>4. op[g] \in {"center", "load"} => pc'[g] = "send" /\ todo'[g] = todo[g] \ {a}
    BY <1>17, <2>1 DEF Send, Typed
  <2>5. \A b \in Axis : target'[b] = IF b = a THEN goal[g][a] ELSE target[b]
    BY <1>17 DEF Send, Reaches, Typed, Place
  <2>6. astray[g] => astray'[g]
    BY <1>17 DEF Send, Mislead
  <2> QED
    BY <2>1, <2>2, <2>3, <2>4, <2>5, <2>6 DEF Whole, Typed
<1>18. ASSUME NEW g \in Goroutine, NEW a \in Axis, SendLast(g, a) \/ SendFails(g, a) PROVE Whole'
  <2>1. pc[g] = "send" /\ Finish(g) /\ astray' = [astray EXCEPT ![g] = FALSE]
    BY <1>18 DEF SendLast, SendFails, IsNext
  <2>2. ASSUME NEW h \in Goroutine \ {g}, op[h] \in {"center", "load"}, pc[h] = "send"
        PROVE  UNCHANGED target
    <3>1. op[g] = "push"
      BY <2>1, <2>2, OneMover DEF UsesV4l2, Shape, AtStep
    <3> QED
      BY <1>18, <3>1 DEF SendLast, SendFails
  <2> QED
    BY <2>1, <2>2 DEF Finish, Goto, Whole, Typed
<1> QED
  BY <1>1, <1>2, <1>4, <1>5, <1>6, <1>7, <1>8, <1>9, <1>11, <1>12, <1>13, <1>15, <1>16, <1>17,
     <1>18, Steps DEF Op

-----------------------------------------------------------------------------
(* The collection *)

Taken == {n \in Name : presets[n] # None}
Room  == Cardinality(Taken) <= MaxPresets

\* Writing a preset that is there, or deleting one, takes no more room; adding
\* one takes one.
LEMMA WriteTakes ==
    ASSUME Typed, NEW n \in Name, NEW p \in Place \cup {None}, Write(n, p),
           Room, presets[n] = None => ~IsFull
    PROVE  Room'
<1>1. IsFiniteSet(Taken) /\ Cardinality(Taken) \in Nat
  BY MovesAssumption, FS_Subset, FS_CardinalityType DEF Taken
<1>2. Taken' \subseteq Taken \cup {n}
  BY DEF Taken, Write, Typed
<1>3. IsFiniteSet(Taken \cup {n}) /\ Cardinality(Taken') <= Cardinality(Taken \cup {n})
      /\ Cardinality(Taken') \in Nat /\ Cardinality(Taken \cup {n}) \in Nat
  BY <1>1, <1>2, FS_AddElement, FS_Subset, FS_CardinalityType
<1>4. Cardinality(Taken \cup {n}) = IF n \in Taken THEN Cardinality(Taken)
                                                 ELSE Cardinality(Taken) + 1
  BY <1>1, FS_AddElement
<1>5. CASE n \in Taken
  BY <1>1, <1>3, <1>4, <1>5, MovesAssumption DEF Room
<1>6. CASE n \notin Taken
  <2>1. Cardinality(Taken) < MaxPresets
    BY <1>1, <1>6, MovesAssumption DEF Taken, IsFull
  <2> QED
    BY <1>1, <1>3, <1>4, <1>6, <2>1, MovesAssumption DEF Room
<1> QED
  BY <1>5, <1>6

\* Which steps change the collection, and how.
Stored(g) ==
    /\ pc[g] = "store" /\ pc'[g] = "idle" /\ name[g] \in Name /\ g \in Client
    /\ Write(name[g], goal[g]) /\ goal[g] \in Place
    /\ presets[name[g]] = None => ~IsFull
Pulled(n) == \E p \in Place : Write(n, p) /\ Admits(n)

LEMMA PresetSteps ==
    ASSUME Typed, Shape, Locals, [Next]_vars
    PROVE  \/ UNCHANGED presets
           \/ \E c \in Client : Stored(c)
           \/ \E c \in Client, n \in Name : Delete(c, n)
           \/ \E n \in Name : Pulled(n)
<1> USE MovesAssumption, ClientsRun DEF memory
<1> DEFINE Claim == \/ UNCHANGED presets
                    \/ \E c \in Client : Stored(c)
                    \/ \E c \in Client, n \in Name : Delete(c, n)
                    \/ \E n \in Name : Pulled(n)
<1>1. CASE UNCHANGED vars
  BY <1>1 DEF vars
<1>2. CASE Replug
  BY <1>2 DEF Replug
<1>3. ASSUME NEW c \in Client, NEW a \in Axis, NEW p \in Position, StartAxis(c, a, p) PROVE Claim
  BY <1>3 DEF StartAxis, Dispatch
<1>4. ASSUME NEW g \in Goroutine, NEW o \in Op, StartOther(g, o) PROVE Claim
  BY <1>4 DEF StartOther, Dispatch
<1>5. ASSUME NEW c \in Client, NEW o \in Op, NEW n \in Name, StartNamed(c, o, n) PROVE Claim
  BY <1>5 DEF StartNamed, Dispatch
<1>6. ASSUME NEW c \in Client, NEW n \in Name, StartPush(c, n) \/ Delete(c, n) PROVE Claim
  BY <1>6 DEF StartPush, Dispatch
<1>7. ASSUME NEW g \in Goroutine,
             \/ LockV4l2(g) \/ LockHid(g) \/ Work(g) \/ Refuse(g) \/ Keep(g) \/ Aim(g) \/ Speeds(g)
             \/ Read(g) \/ SlotFails(g) \/ SlotUnreachable(g) \/ SlotSkipped(g) \/ LimitHit(g)
             \/ Summary(g)
      PROVE  Claim
  BY <1>7 DEF LockV4l2, LockHid, Work, Refuse, Keep, Aim, Speeds, Read, SlotFails, SlotUnreachable,
              SlotSkipped, LimitHit, Summary
<1>8. ASSUME NEW g \in Goroutine, Store(g) PROVE Claim
  <2>1. g \in Client /\ name[g] \in Name /\ goal[g] \in Place
    BY <1>8 DEF Store, Shape, AtStep, Locals, Goroutine, Typed
  <2>2. pc[g] = "store" /\ pc'[g] = "idle"
    BY <1>8 DEF Store, FinishStill, Finish, Goto, Typed
  <2> QED
    BY <1>8, <2>1, <2>2 DEF Store, Stored
<1>9. ASSUME NEW g \in Goroutine, NEW a \in Axis, Send(g, a) \/ SendLast(g, a) \/ SendFails(g, a)
      PROVE  Claim
  BY <1>9 DEF Send, SendLast, SendFails
<1>10. ASSUME NEW g \in Goroutine, NEW p \in InSlots, SlotAdmitted(g, p) PROVE Claim
  BY <1>10 DEF SlotAdmitted, Pulled, Typed
<1> QED
  BY <1>1, <1>2, <1>3, <1>4, <1>5, <1>6, <1>7, <1>8, <1>9, <1>10, Steps DEF Op

LEMMA RoomStep ==
    ASSUME Typed, Shape, Locals, Room, [Next]_vars
    PROVE  Room'
<1>1. CASE UNCHANGED presets
  BY <1>1 DEF Room, Taken
<1>2. ASSUME NEW c \in Client, Stored(c) PROVE Room'
  BY <1>2, WriteTakes DEF Stored
<1>3. ASSUME NEW c \in Client, NEW n \in Name, Delete(c, n) PROVE Room'
  BY <1>3, WriteTakes DEF Delete
<1>4. ASSUME NEW n \in Name, Pulled(n) PROVE Room'
  BY <1>4, WriteTakes DEF Pulled, Admits
<1> QED
  BY <1>1, <1>2, <1>3, <1>4, PresetSteps

LEMMA SavedStep ==
    ASSUME Typed, Shape, Locals, PresetsSaved, [Next]_vars
    PROVE  PresetsSaved'
<1> USE MovesAssumption, ClientsRun DEF memory, sweep, locals, Typed
<1>0. UNCHANGED <<saved, excuse, changed>> => PresetsSaved'
  BY DEF PresetsSaved
<1>1. Save => PresetsSaved'
  BY DEF Save, PresetsSaved
<1>2. CASE UNCHANGED vars
  BY <1>0, <1>2 DEF vars
<1>3. CASE Replug
  BY <1>0, <1>3 DEF Replug
<1>4. ASSUME NEW c \in Client, NEW a \in Axis, NEW p \in Position, StartAxis(c, a, p)
      PROVE  PresetsSaved'
  BY <1>0, <1>4 DEF StartAxis, Dispatch
<1>5. ASSUME NEW g \in Goroutine, NEW o \in Op, StartOther(g, o) PROVE PresetsSaved'
  BY <1>0, <1>5 DEF StartOther, Dispatch
<1>6. ASSUME NEW c \in Client, NEW o \in Op, NEW n \in Name, StartNamed(c, o, n) PROVE PresetsSaved'
  BY <1>0, <1>6 DEF StartNamed, Dispatch
<1>7. ASSUME NEW c \in Client, NEW n \in Name, StartPush(c, n) PROVE PresetsSaved'
  BY <1>0, <1>7 DEF StartPush, Dispatch
<1>8. ASSUME NEW c \in Client, NEW n \in Name, Delete(c, n) PROVE PresetsSaved'
  BY <1>1, <1>8 DEF Delete
<1>9. ASSUME NEW g \in Goroutine,
             LockV4l2(g) \/ LockHid(g) \/ Aim(g) \/ Speeds(g) \/ Read(g) \/ SlotFails(g)
                 \/ SlotSkipped(g) \/ LimitHit(g)
      PROVE  PresetsSaved'
  BY <1>0, <1>9 DEF LockV4l2, LockHid, Aim, Speeds, Read, SlotFails, SlotSkipped, LimitHit
<1>10. ASSUME NEW g \in Goroutine, Finish(g), ~changed[g], UNCHANGED <<saved, excuse>>
       PROVE  PresetsSaved'
  BY <1>0, <1>10 DEF Finish
<1>11. ASSUME NEW g \in Goroutine, Work(g) \/ Refuse(g) \/ Keep(g) PROVE PresetsSaved'
  BY <1>10, <1>11 DEF Work, Refuse, Keep, FinishStill, Locals
<1>12. ASSUME NEW g \in Goroutine, NEW a \in Axis, SendLast(g, a) \/ SendFails(g, a)
       PROVE  PresetsSaved'
  BY <1>10, <1>12 DEF SendLast, SendFails, IsNext, Locals
<1>13. ASSUME NEW g \in Goroutine, NEW a \in Axis, Send(g, a) PROVE PresetsSaved'
  BY <1>0, <1>13 DEF Send
<1>14. ASSUME NEW g \in Goroutine, Store(g) PROVE PresetsSaved'
  BY <1>1, <1>10, <1>14 DEF Store, FinishStill, Locals
<1>15. ASSUME NEW g \in Goroutine, Summary(g) PROVE PresetsSaved'
  BY <1>1, <1>10, <1>15 DEF Summary, FinishStill
<1>16. ASSUME NEW g \in Goroutine, SlotUnreachable(g) PROVE PresetsSaved'
  <2>1. CASE changed[g]
    BY <1>16, <2>1 DEF SlotUnreachable, PresetsSaved
  <2>2. CASE ~changed[g]
    BY <1>10, <1>16, <2>2 DEF SlotUnreachable, FinishStill
  <2> QED
    BY <2>1, <2>2
<1>17. ASSUME NEW g \in Goroutine, NEW p \in InSlots, SlotAdmitted(g, p) PROVE PresetsSaved'
  <2>1. g \in Client
    BY <1>17 DEF SlotAdmitted, Shape, AtStep, Goroutine
  <2> QED
    BY <1>17, <2>1 DEF SlotAdmitted, PresetsSaved
<1> QED
  BY <1>2, <1>3, <1>4, <1>5, <1>6, <1>7, <1>8, <1>9, <1>11, <1>12, <1>13, <1>14, <1>15, <1>16, <1>17,
     Steps DEF Op

-----------------------------------------------------------------------------
(* The inductive invariant *)

IInv == Typed /\ Shape /\ Locals /\ Holders /\ Whole /\ Room /\ PresetsSaved

LEMMA InitInv == Init => IInv
<1> SUFFICES ASSUME Init PROVE IInv
  OBVIOUS
<1> USE MovesAssumption DEF Init
<1>1. Typed
  <2>1. 1 \in Slot /\ 0 \in 0 .. MaxFailures
    BY DEF Slot
  <2>2. pc \in [Goroutine -> Step] /\ op \in [Goroutine -> Op]
    BY DEF Step, Op
  <2> QED
    BY <2>1, <2>2 DEF Typed
<1>2. Shape /\ Locals
  BY DEF Shape, AtStep, Locals
<1>3. Holders
  BY DEF Holders, HoldsHid, HoldsV4l2
<1>4. Whole /\ PresetsSaved
  BY DEF Whole, PresetsSaved
<1>5. Room
  <2>1. Taken = {}
    BY DEF Taken
  <2> QED
    BY <2>1, FS_EmptySet DEF Room
<1> QED
  BY <1>1, <1>2, <1>3, <1>4, <1>5 DEF IInv

LEMMA Invariance == Spec => []IInv
<1>1. IInv /\ [Next]_vars => IInv'
  BY TypedStep, ShapeStep, LocalsStep, HoldersStep, WholeStep, RoomStep, SavedStep DEF IInv
<1> QED
  BY <1>1, InitInv, PTL DEF Spec

\* The collection never outgrows its limit, whether a save or a sweep adds to it
\* (PresetMap.Set, admitReading), and the variables keep their types.
THEOREM TypeCorrect == Spec => []TypeOK
<1>1. IInv => TypeOK
  BY DEF IInv, Typed, Room, Taken, TypeOK
<1> QED
  BY <1>1, Invariance, PTL

\* v4l2Mu and hidMu never deadlock, however many goroutines move the head, push,
\* pull and report (main.go's lock order).
THEOREM MutexesNest == Spec => []LocksNest
<1>1. IInv => LocksNest
  <2> SUFFICES ASSUME Typed, Holders, Shape PROVE LocksNest
    BY DEF IInv
  <2>1. hidMu # None => HoldsHid(hidMu)
    BY MovesAssumption DEF Typed, Holders
  <2>2. v4l2Mu # None => HoldsV4l2(v4l2Mu)
    BY MovesAssumption DEF Typed, Holders
  <2> QED
    BY <2>1, <2>2 DEF HoldsHid, HoldsV4l2, LocksNest, Waits
<1> QED
  BY <1>1, Invariance, PTL

\* Presets reach the state file whatever saves, deletes and sweeps overlap
\* (saveStateOrLog's callers in commands.go).
THEOREM PresetsReachFile == Spec => []PresetsSaved
<1>1. IInv => PresetsSaved
  BY DEF IInv
<1> QED
  BY <1>1, Invariance, PTL

\* A recall or a centring sends the head to one place (handlePresetLoad and
\* centerCamera under v4l2Mu).
THEOREM RecallsAreWhole == Spec => LoadIsWhole
<1> DEFINE Lands == \A c \in Client : \A a \in Axis :
      SendLast(c, a) /\ op[c] \in {"center", "load"} /\ ~astray[c] => target' = goal[c]
<1>1. IInv /\ [Next]_vars => [Lands]_vars
  <2> SUFFICES ASSUME IInv, NEW c \in Client, NEW a \in Axis, SendLast(c, a),
                      op[c] \in {"center", "load"}, ~astray[c]
               PROVE  target' = goal[c]
    OBVIOUS
  <2>1. c \in Goroutine /\ pc[c] = "send" /\ todo[c] = {a}
    BY ClientsRun DEF SendLast, IsNext
  <2>2. \A b \in Axis \ {a} : target[b] = goal[c][b]
    BY <2>1 DEF IInv, Whole
  <2>3. target \in [Axis -> Position] /\ goal[c] \in [Axis -> Position]
    BY <2>1 DEF IInv, Typed, Place
  <2>4. target' = [target EXCEPT ![a] = goal[c][a]]
    BY DEF SendLast, Reaches
  <2> QED
    BY <2>2, <2>3, <2>4
<1> QED
  BY <1>1, Invariance, PTL DEF Spec, LoadIsWhole

\* Nothing but a save or a delete of its own name changes a preset: the sweep
\* adds only (admitReading).
THEOREM PresetsAreTheUsers == Spec => OnlyUsersChangePresets
<1> DEFINE Own == \A n \in Name : presets[n] # None /\ presets'[n] # presets[n] =>
         \E c \in Client : \/ name[c] = n /\ pc[c] = "store" /\ pc'[c] = "idle"
                           \/ Delete(c, n)
<1>1. IInv /\ [Next]_vars => [Own]_vars
  <2> SUFFICES ASSUME IInv, [Next]_vars, NEW n \in Name, presets[n] # None, presets'[n] # presets[n]
               PROVE  \E c \in Client : \/ name[c] = n /\ pc[c] = "store" /\ pc'[c] = "idle"
                                        \/ Delete(c, n)
    OBVIOUS
  <2>1. ASSUME NEW c \in Client, Stored(c)
        PROVE  name[c] = n /\ pc[c] = "store" /\ pc'[c] = "idle"
    BY <2>1 DEF IInv, Typed, Stored, Write
  <2>2. ASSUME NEW c \in Client, NEW m \in Name, Delete(c, m) PROVE m = n
    BY <2>2 DEF IInv, Typed, Delete, Write
  <2>3. ASSUME NEW m \in Name, Pulled(m) PROVE FALSE
    BY <2>3 DEF IInv, Typed, Pulled, Admits, Write
  <2> QED
    BY <2>1, <2>2, <2>3, PresetSteps DEF IInv
<1> QED
  BY <1>1, Invariance, PTL DEF Spec, OnlyUsersChangePresets
=============================================================================
