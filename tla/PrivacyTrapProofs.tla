------------------------- MODULE PrivacyTrapProofs -------------------------
(***************************************************************************)
(* Proofs about PrivacyTrap for any number of re-asserts and any delays    *)
(* that meet TimingAssumption.                                             *)
(*                                                                         *)
(* Why a click lands: a write the firmware drops is either made inside the *)
(* window, and then a re-assert for it is scheduled, or excused.  That the *)
(* window is open whenever the firmware drops writes is WindowCovers; that *)
(* the transition is over when a re-assert writes is TransitionEnds; that  *)
(* the way through idle has cleared the poison is BounceCures; and that a  *)
(* re-assert past its look at the belief writes the current mode is        *)
(* WritersAreCurrent, which rests on what the belief can be (BeliefTrails).*)
(***************************************************************************)
EXTENDS PrivacyTrap, TLAPS

\* The owner of hidMu is in the middle of its writes, and nobody else is.
OwnerWrites == \A r \in Reassert : stage[r] \in {"bounce", "write"} <=> owner = r

\* A re-assert is never for privacy; it bounces for tracking only, and its timer is
\* over when it sleeps no more.
ReassertShape ==
    \A r \in Reassert : /\ goal[r] # "privacy"
                        /\ stage[r] = "bounce" => goal[r] = "tracking"
                        /\ stage[r] # "sleep" => left[r] = 0

\* While the daemon runs its window outlasts the travel and the transition.
WindowCovers ==
    Running /\ ~excused => /\ head = "moving" => armed >= travel + MaxTransition
                           /\ transition > 0 => armed >= transition

\* The transition ends before any pending re-assert looks at the belief.
TransitionEnds == ~excused => \A r \in Pending : transition <= left[r]

\* After the bounce nothing but the transition drops a tracking write.
BounceCures ==
    ~excused => \A r \in Reassert : stage[r] = "write" /\ goal[r] = "tracking" => ~poisoned

\* The belief is the intent, or the idle of a bounce.
BeliefTrails ==
    ~overtaken => belief = intent \/ (intent = "tracking" /\ belief = "idle")

\* A re-assert past its look at the belief is for the belief or for the intent.
WritersAreCurrent ==
    ~overtaken => \A r \in Reassert :
                      stage[r] \in {"checked", "bounce", "write"} => goal[r] \in {belief, intent}

\* The belief differs from the intent only until the re-assert that bounced has
\* written again, unless it fails.
BounceIsBrief ==
    ~overtaken /\ ~excused =>
        \/ belief = intent
        \/ \E r \in Reassert : stage[r] = "write" /\ goal[r] = "tracking" /\ intent = "tracking"

\* Privacy is what the camera runs from the command on, until another command
\* reaches it and reports an error.
PrivacyAtOnce == ~overtaken /\ ~disowned /\ intent = "privacy" => mode = "privacy"

\* A click that did not land has a re-assert on its way.
ClickIsCovered ==
    Running /\ ~overtaken /\ ~excused /\ ~disowned =>
        mode = intent \/ \E r \in Pending : goal[r] = intent

\* Nobody is pending when the process exits, but for what came after the drain,
\* and nobody at all afterwards.
DrainedStays == life = "down" \/ (life = "exiting" /\ ~excused) => Pending = {}

IInv ==
    /\ TypeOK /\ OwnerWrites /\ ReassertShape
    /\ WindowCovers /\ TransitionEnds /\ BounceCures
    /\ BeliefTrails /\ WritersAreCurrent /\ BounceIsBrief
    /\ PrivacyAtOnce /\ ClickIsCovered /\ DrainedStays

(* Receiving a write keeps the firmware's types; privacy is never dropped. *)
LEMMA ReceiveType ==
  ASSUME NEW m \in Mode, mode \in Mode, poisoned \in BOOLEAN, Receive(m)
  PROVE  /\ mode' \in Mode /\ poisoned' \in BOOLEAN
         /\ Dropped(m) => mode' = mode
         /\ ~Dropped(m) => mode' = m
         /\ m = "privacy" => mode' = "privacy"
  BY DEF Receive, Dropped

(* Counting down stays between the bounds. *)
LEMMA MonusType ==
  ASSUME NEW n \in Nat, NEW t \in 0 .. n
  PROVE  Monus(t) \in 0 .. n /\ Monus(t) <= t /\ (t > 0 => Monus(t) = t - 1) /\ Monus(0) = 0
  BY DEF Monus

(* At first the head is away, nothing is armed and nobody is pending. *)
LEMMA InitIInv == Init => IInv
<1> SUFFICES ASSUME Init PROVE IInv
  OBVIOUS
<1> USE TimingAssumption, ReassertAssumption DEF Init, Mode
<1>1. TypeOK
  <2>1. head \in {"away", "moving", "in"} /\ travel \in 0 .. MaxTravel
        /\ transition \in 0 .. MaxTransition /\ armed \in 0 .. Window
    OBVIOUS
  <2>2. poisoned \in BOOLEAN /\ readbacks \in SUBSET (0 .. Readback) /\ life \in Life
        /\ overtaken \in BOOLEAN /\ excused \in BOOLEAN /\ disowned \in BOOLEAN
    BY DEF Life
  <2>3. stage \in [Reassert -> Stage] /\ goal \in [Reassert -> Mode]
        /\ left \in [Reassert -> 0 .. Delay]
    BY DEF Stage
  <2>4. QED
    BY <2>1, <2>2, <2>3 DEF TypeOK
<1>2. OwnerWrites /\ ReassertShape /\ WindowCovers /\ TransitionEnds /\ BounceCures
  BY DEF OwnerWrites, ReassertShape, WindowCovers, TransitionEnds, BounceCures, Pending
<1>3. BeliefTrails /\ WritersAreCurrent /\ BounceIsBrief /\ PrivacyAtOnce /\ ClickIsCovered
      /\ DrainedStays
  BY DEF BeliefTrails, WritersAreCurrent, BounceIsBrief, PrivacyAtOnce, ClickIsCovered,
         DrainedStays, Pending
<1>4. QED
  BY <1>1, <1>2, <1>3 DEF IInv

(* Every step keeps the types: no time is counted past zero, and a head that  *)
(* is sent into the zone arrives within MaxTravel.                            *)
LEMMA TypeStep ==
  ASSUME TypeOK, [Next]_vars
  PROVE  TypeOK'
<1> USE TimingAssumption DEF TypeOK, firmware, timing, locking, reassert, history
<1>1. ASSUME Tick PROVE TypeOK'
  <2>1. travel' \in 0 .. MaxTravel /\ transition' \in 0 .. MaxTransition /\ armed' \in 0 .. Window
    BY <1>1, MonusType DEF Tick
  <2>2. readbacks' \in SUBSET (0 .. Readback)
    BY <1>1, MonusType DEF Tick
  <2>3. left' \in [Reassert -> 0 .. Delay]
    BY <1>1, MonusType DEF Tick
  <2>4. QED
    BY <1>1, <2>1, <2>2, <2>3 DEF Tick
<1>2. ASSUME Arrive PROVE TypeOK'
  BY <1>2 DEF Arrive
<1>3. ASSUME MoveAway PROVE TypeOK'
  <2>1. readbacks' \in SUBSET (0 .. Readback)
    <3>1. Readback \in 0 .. Readback
      OBVIOUS
    <3>2. QED
      BY <1>3, <3>1 DEF MoveAway
  <2>2. head' \in {"away", "moving", "in"} /\ travel' \in 0 .. MaxTravel
        /\ transition' \in 0 .. MaxTransition
    BY <1>3 DEF MoveAway
  <2>3. poisoned' \in BOOLEAN
    BY <1>3, Zenon DEF MoveAway
  <2>4. UNCHANGED <<mode, armed, belief, locking, reassert, life, history>>
    BY <1>3 DEF MoveAway
  <2>5. QED
    BY <2>1, <2>2, <2>3, <2>4
<1>4. ASSUME TiltDown \/ LoadPresetDown \/ ReadBack PROVE TypeOK'
  <2>1. readbacks' \in SUBSET (0 .. Readback)
    <3>1. Readback \in 0 .. Readback
      OBVIOUS
    <3>2. readbacks' \in {readbacks, readbacks \cup {Readback}, readbacks \ {0}}
      BY <1>4, Zenon DEF TiltDown, LoadPresetDown, ReadBack
    <3>3. QED
      BY <3>1, <3>2
  <2>2. head' \in {"away", "moving", "in"} /\ travel' \in 0 .. MaxTravel
    BY <1>4 DEF TiltDown, LoadPresetDown, ReadBack, MoveIn
  <2>3. armed' \in 0 .. Window /\ excused' \in BOOLEAN
    <3>1. armed' \in {armed, Window} /\ Window \in 0 .. Window
      BY <1>4 DEF TiltDown, LoadPresetDown, ReadBack
    <3>2. excused' \in BOOLEAN
      BY <1>4, Zenon DEF TiltDown, LoadPresetDown, ReadBack
    <3>3. QED
      BY <3>1, <3>2
  <2>4. UNCHANGED <<transition, poisoned, mode, belief, locking, reassert, life, intent, overtaken,
                    disowned>>
    BY <1>4 DEF TiltDown, LoadPresetDown, ReadBack
  <2>5. QED
    BY <2>1, <2>2, <2>3, <2>4
<1>5. ASSUME NEW m \in Mode, BeginCommand(m) PROVE TypeOK'
  BY <1>5 DEF BeginCommand
<1>6. ASSUME CommandSucceeds PROVE TypeOK'
  <2>1. mode' \in Mode /\ poisoned' \in BOOLEAN
    BY <1>6, ReceiveType DEF CommandSucceeds
  <2>2. UNCHANGED reassert \/ Schedule(wanted)
    BY <1>6 DEF CommandSucceeds
  <2>3. stage' \in [Reassert -> Stage] /\ goal' \in [Reassert -> Mode]
        /\ left' \in [Reassert -> 0 .. Delay]
    BY <2>2 DEF Schedule, Stage
  <2>4. overtaken' \in BOOLEAN /\ excused' \in BOOLEAN /\ disowned' \in BOOLEAN
    BY <1>6, Zenon DEF CommandSucceeds, Overtakes, Dropped
  <2>5. QED
    BY <1>6, <2>1, <2>3, <2>4 DEF CommandSucceeds, EndCommand, Mode
<1>7. ASSUME CommandFails PROVE TypeOK'
  <2>1. mode' \in Mode /\ poisoned' \in BOOLEAN
    BY <1>7, ReceiveType DEF CommandFails
  <2>2. disowned' \in BOOLEAN
    BY <1>7, Zenon DEF CommandFails
  <2>3. QED
    BY <1>7, <2>1, <2>2 DEF CommandFails, EndCommand, Mode
<1>8. ASSUME NEW r \in Reassert, WakeUp(r) \/ LockHid(r) \/ ReassertFails(r) PROVE TypeOK'
  <2>1. stage' \in [Reassert -> Stage]
    BY <1>8 DEF WakeUp, LockHid, ReassertFails, Finish, Stage
  <2>2. goal' \in [Reassert -> Mode] /\ left' = left
    BY <1>8 DEF WakeUp, LockHid, ReassertFails, Finish, Mode
  <2>3. owner' \in {"none", "command"} \cup Reassert /\ excused' \in BOOLEAN
    BY <1>8 DEF WakeUp, LockHid, ReassertFails
  <2>4. UNCHANGED <<head, travel, transition, timing, belief, wanted, life, intent, overtaken,
                    disowned>>
    BY <1>8 DEF WakeUp, LockHid, ReassertFails
  <2>5. mode' \in Mode /\ poisoned' \in BOOLEAN
    <3>1. (IF stage[r] = "bounce" THEN "idle" ELSE goal[r]) \in Mode
      BY DEF Mode
    <3>2. QED
      BY <1>8, <3>1, ReceiveType DEF WakeUp, LockHid, ReassertFails
  <2>6. QED
    BY <2>1, <2>2, <2>3, <2>4, <2>5
<1>9. ASSUME NEW r \in Reassert, Bounce(r) PROVE TypeOK'
  <2>1. mode' \in Mode /\ poisoned' \in BOOLEAN
    BY <1>9, ReceiveType DEF Bounce, Mode
  <2>2. QED
    BY <1>9, <2>1 DEF Bounce, Stage, Mode
<1>10. ASSUME NEW r \in Reassert, WriteAgain(r) PROVE TypeOK'
  <2>1. mode' \in Mode /\ poisoned' \in BOOLEAN /\ belief' \in Mode
    BY <1>10, ReceiveType DEF WriteAgain
  <2>2. stage' \in [Reassert -> Stage] /\ goal' \in [Reassert -> Mode] /\ left' = left
    BY <1>10 DEF WriteAgain, Finish, Stage, Mode
  <2>3. overtaken' \in BOOLEAN /\ disowned' \in BOOLEAN
    BY <1>10, Zenon DEF WriteAgain, Overtakes
  <2>4. QED
    BY <1>10, <2>1, <2>2, <2>3 DEF WriteAgain
<1>11. ASSUME Stop PROVE TypeOK'
  <2>1. CASE Terminate \/ Drained
    BY <2>1 DEF Terminate, Drained, Life
  <2>2. CASE Exit
    <3>1. stage' \in [Reassert -> Stage] /\ goal' \in [Reassert -> Mode]
          /\ left' \in [Reassert -> 0 .. Delay]
      BY <2>2 DEF Exit, Stage, Mode
    <3>2. armed' \in 0 .. Window /\ readbacks' \in SUBSET (0 .. Readback)
          /\ wanted' \in Mode /\ life' \in Life
      BY <2>2 DEF Exit, Mode, Life
    <3>3. QED
      BY <2>2, <3>1, <3>2 DEF Exit
  <2>3. QED
    BY <1>11, <2>1, <2>2 DEF Stop
<1>12. CASE UNCHANGED vars
  BY <1>12 DEF vars
<1>13. QED
  BY <1>1, <1>2, <1>3, <1>4, <1>5, <1>6, <1>7, <1>8, <1>9, <1>10, <1>11, <1>12
  DEF Next, Move, SetMode, Again

(* hidMu is taken when the writes begin and given back when they end; goals   *)
(* come from commands for tracking or idle.                                   *)
LEMMA ShapeStep ==
  ASSUME TypeOK, OwnerWrites, ReassertShape, [Next]_vars
  PROVE  OwnerWrites' /\ ReassertShape'
<1> USE ReassertAssumption DEF TypeOK, OwnerWrites, ReassertShape, Stage, Mode, reassert, locking
<1>1. ASSUME Tick PROVE OwnerWrites' /\ ReassertShape'
  BY <1>1, MonusType DEF Tick
<1>2. ASSUME Arrive \/ Move PROVE OwnerWrites' /\ ReassertShape'
  BY <1>2 DEF Arrive, Move, MoveAway, TiltDown, LoadPresetDown, ReadBack
<1>3. ASSUME NEW m \in Mode, BeginCommand(m) PROVE OwnerWrites' /\ ReassertShape'
  BY <1>3 DEF BeginCommand
<1>4. ASSUME CommandSucceeds PROVE OwnerWrites' /\ ReassertShape'
  <2>1. owner = "command" /\ owner' = "none"
    BY <1>4 DEF CommandSucceeds, EndCommand
  <2>2. CASE UNCHANGED reassert
    BY <2>1, <2>2
  <2>3. CASE wanted # "privacy" /\ Schedule(wanted)
    <3>1. PICK r \in Reassert :
            /\ stage[r] = "none"
            /\ stage' = [stage EXCEPT ![r] = "sleep"]
            /\ goal' = [goal EXCEPT ![r] = wanted]
            /\ left' = [left EXCEPT ![r] = Delay]
      BY <2>3 DEF Schedule
    <3>2. QED
      BY <2>1, <2>3, <3>1
  <2>4. QED
    BY <1>4, <2>2, <2>3 DEF CommandSucceeds
<1>5. ASSUME CommandFails PROVE OwnerWrites' /\ ReassertShape'
  BY <1>5 DEF CommandFails, EndCommand
<1>6. ASSUME NEW r \in Reassert, WakeUp(r) PROVE OwnerWrites' /\ ReassertShape'
  BY <1>6 DEF WakeUp, Finish
<1>7. ASSUME NEW r \in Reassert, LockHid(r) PROVE OwnerWrites' /\ ReassertShape'
  BY <1>7 DEF LockHid
<1>8. ASSUME NEW r \in Reassert, Bounce(r) PROVE OwnerWrites' /\ ReassertShape'
  BY <1>8 DEF Bounce
<1>9. ASSUME NEW r \in Reassert, WriteAgain(r) \/ ReassertFails(r)
      PROVE  OwnerWrites' /\ ReassertShape'
  BY <1>9 DEF WriteAgain, ReassertFails, Finish
<1>10. ASSUME Terminate \/ Drained PROVE OwnerWrites' /\ ReassertShape'
  BY <1>10 DEF Terminate, Drained
<1>11. ASSUME Exit PROVE OwnerWrites' /\ ReassertShape'
  BY <1>11 DEF Exit
<1>12. CASE UNCHANGED vars
  BY <1>12 DEF vars
<1>13. QED
  BY <1>1, <1>2, <1>3, <1>4, <1>5, <1>6, <1>7, <1>8, <1>9, <1>10, <1>11, <1>12
  DEF Next, SetMode, Again, Stop

(* The travel, the transition, the window and the timers count down together; *)
(* an arrival while a re-assert is pending is excused.                        *)
LEMMA TimingStep ==
  ASSUME TypeOK, TypeOK', ReassertShape, WindowCovers, TransitionEnds, [Next]_vars
  PROVE  WindowCovers' /\ TransitionEnds'
<1> USE TimingAssumption
    DEF TypeOK, ReassertShape, WindowCovers, TransitionEnds, Pending, Running, Stage, Life,
        timing, reassert, firmware, history
<1>1. ASSUME Tick PROVE WindowCovers' /\ TransitionEnds'
  <2>1. MayPass /\ UNCHANGED <<head, stage, life, excused>>
    BY <1>1 DEF Tick
  <2>2. /\ travel' = Monus(travel) /\ transition' = Monus(transition) /\ armed' = Monus(armed)
        /\ \A r \in Reassert : left'[r] = Monus(left[r])
    BY <1>1 DEF Tick
  <2>3. WindowCovers'
    BY <2>1, <2>2 DEF MayPass, Monus
  <2>4. ASSUME ~excused, NEW r \in Reassert, stage[r] # "none" PROVE transition' <= left'[r]
    <3>1. transition <= left[r] /\ transition \in Nat /\ left[r] \in Nat
      BY <2>4
    <3>2. QED
      BY <3>1, <2>2 DEF Monus
  <2>5. QED
    BY <2>1, <2>3, <2>4
<1>2. ASSUME Arrive PROVE WindowCovers' /\ TransitionEnds'
  <2>1. WindowCovers'
    BY <1>2 DEF Arrive
  <2>2. TransitionEnds'
    BY <1>2 DEF Arrive
  <2>3. QED
    BY <2>1, <2>2
<1>3. ASSUME MoveAway PROVE WindowCovers' /\ TransitionEnds'
  BY <1>3 DEF MoveAway
<1>4. ASSUME TiltDown \/ LoadPresetDown PROVE WindowCovers' /\ TransitionEnds'
  <2>1. TransitionEnds'
    BY <1>4 DEF TiltDown, LoadPresetDown
  <2>2. armed' = Window \/ excused'
    BY <1>4 DEF TiltDown, LoadPresetDown
  <2>3. QED
    BY <2>1, <2>2
<1>5. ASSUME ReadBack PROVE WindowCovers' /\ TransitionEnds'
  <2>1. armed' \in {armed, Window} /\ UNCHANGED <<firmware, reassert, life, excused>>
    BY <1>5 DEF ReadBack
  <2>2. QED
    BY <2>1
<1>6. ASSUME (\E m \in Mode : BeginCommand(m)) \/ CommandFails \/ Terminate \/ Drained
      PROVE  WindowCovers' /\ TransitionEnds'
  BY <1>6 DEF BeginCommand, CommandFails, Terminate, Drained
<1>7. ASSUME CommandSucceeds PROVE WindowCovers' /\ TransitionEnds'
  <2>1. UNCHANGED <<head, travel, transition, armed, life>> /\ (~excused' => ~excused)
    BY <1>7 DEF CommandSucceeds
  <2>2. UNCHANGED reassert \/ Schedule(wanted)
    BY <1>7 DEF CommandSucceeds
  <2>3. TransitionEnds'
    BY <2>1, <2>2 DEF Schedule
  <2>4. QED
    BY <2>1, <2>3
<1>8. ASSUME NEW r \in Reassert, Again(r) PROVE WindowCovers' /\ TransitionEnds'
  <2>1. UNCHANGED <<head, travel, transition, armed, left, life>> /\ (~excused' => ~excused)
    BY <1>8 DEF Again, WakeUp, LockHid, Bounce, WriteAgain, ReassertFails, Finish
  <2>2. Pending' \subseteq Pending
    BY <1>8 DEF Again, WakeUp, LockHid, Bounce, WriteAgain, ReassertFails, Finish
  <2>3. QED
    BY <2>1, <2>2
<1>9. ASSUME Exit PROVE WindowCovers' /\ TransitionEnds'
  BY <1>9 DEF Exit
<1>10. CASE UNCHANGED vars
  BY <1>10 DEF vars
<1>11. QED
  BY <1>1, <1>2, <1>3, <1>4, <1>5, <1>6, <1>7, <1>8, <1>9, <1>10
  DEF Next, Move, SetMode, Stop

(* The bounce is received after the transition, so it clears the poison, and  *)
(* while its re-assert holds hidMu nobody else writes.                        *)
LEMMA CuresStep ==
  ASSUME TypeOK, OwnerWrites, ReassertShape, TransitionEnds, BounceCures, [Next]_vars
  PROVE  BounceCures'
<1> USE ReassertAssumption, TimingAssumption
    DEF TypeOK, OwnerWrites, ReassertShape, BounceCures, Stage, Mode, reassert, locking, history
<1>1. ASSUME UNCHANGED <<poisoned, stage, goal>>, ~excused' => ~excused PROVE BounceCures'
  BY <1>1
<1>2. ASSUME Tick \/ Arrive \/ TiltDown \/ LoadPresetDown \/ ReadBack PROVE BounceCures'
  BY <1>1, <1>2 DEF Tick, Arrive, TiltDown, LoadPresetDown, ReadBack, firmware
<1>3. ASSUME MoveAway PROVE BounceCures'
  BY <1>3 DEF MoveAway
<1>4. ASSUME (\E m \in Mode : BeginCommand(m)) \/ CommandFails \/ Terminate \/ Drained
      PROVE  BounceCures'
  <2>1. CASE CommandFails
    <3>1. UNCHANGED reassert /\ \A r \in Reassert : stage[r] # "write"
      BY <2>1 DEF CommandFails
    <3>2. QED
      BY <3>1
  <2>2. CASE (\E m \in Mode : BeginCommand(m)) \/ Terminate \/ Drained
    BY <1>1, <2>2 DEF BeginCommand, Terminate, Drained, firmware
  <2>3. QED
    BY <1>4, <2>1, <2>2
<1>5. ASSUME CommandSucceeds PROVE BounceCures'
  <2>1. UNCHANGED reassert \/ Schedule(wanted)
    BY <1>5 DEF CommandSucceeds
  <2>2. \A r \in Reassert : stage'[r] # "write"
    <3>1. \A r \in Reassert : stage[r] # "write"
      BY <1>5 DEF CommandSucceeds
    <3>2. QED
      BY <2>1, <3>1 DEF Schedule
  <2>3. QED
    BY <2>2
<1>6. ASSUME NEW r \in Reassert, WakeUp(r) PROVE BounceCures'
  BY <1>6 DEF WakeUp, Finish, firmware
<1>7. ASSUME NEW r \in Reassert, LockHid(r) PROVE BounceCures'
  BY <1>7 DEF LockHid, firmware
<1>8. ASSUME NEW r \in Reassert, Bounce(r), ~excused PROVE ~poisoned'
  <2>1. transition <= left[r] /\ left[r] = 0
    BY <1>8 DEF Bounce, TransitionEnds, Pending
  <2>2. ~(transition > 0)
    BY <2>1
  <2>3. QED
    BY <1>8, <2>2, Zenon DEF Bounce, Receive
<1>9. ASSUME NEW r \in Reassert, Bounce(r) PROVE BounceCures'
  BY <1>8, <1>9 DEF Bounce
<1>10. ASSUME NEW r \in Reassert, WriteAgain(r) \/ ReassertFails(r) PROVE BounceCures'
  <2>1. \A q \in Reassert : stage'[q] # "write"
    BY <1>10 DEF WriteAgain, ReassertFails, Finish
  <2>2. QED
    BY <2>1
<1>11. ASSUME Exit PROVE BounceCures'
  BY <1>11 DEF Exit
<1>12. CASE UNCHANGED vars
  BY <1>1, <1>12 DEF vars, firmware
<1>13. QED
  BY <1>2, <1>3, <1>4, <1>5, <1>6, <1>7, <1>9, <1>10, <1>11, <1>12
  DEF Next, Move, SetMode, Again, Stop

\* What the steps keep of the belief.
BeliefParts == BeliefTrails /\ WritersAreCurrent /\ BounceIsBrief /\ PrivacyAtOnce

(* A command that succeeds makes its mode belief and intent at once, and the  *)
(* re-asserts past their look are for that mode or it has overtaken them.     *)
LEMMA CommandKeepsBelief ==
  ASSUME TypeOK, OwnerWrites, ReassertShape, CommandSucceeds
  PROVE  BeliefParts'
<1> USE ReassertAssumption
    DEF TypeOK, OwnerWrites, ReassertShape, Stage, Mode, reassert, locking, history
<1>1. belief' = wanted /\ intent' = wanted /\ (wanted = "privacy" => mode' = "privacy")
  BY ReceiveType DEF CommandSucceeds
<1>2. ASSUME ~overtaken', NEW r \in Reassert, stage'[r] \in {"checked", "bounce", "write"}
      PROVE  goal'[r] = wanted
  <2>1. stage[r] = "checked" => goal[r] = wanted
    BY <1>2 DEF CommandSucceeds, Overtakes
  <2>2. stage[r] \notin {"bounce", "write"}
    BY DEF CommandSucceeds
  <2>3. UNCHANGED reassert \/ Schedule(wanted)
    BY DEF CommandSucceeds
  <2>4. stage'[r] = stage[r] /\ goal'[r] = goal[r]
    BY <1>2, <2>3 DEF Schedule
  <2>5. QED
    BY <1>2, <2>1, <2>2, <2>4
<1>3. QED
  BY <1>1, <1>2 DEF BeliefParts, BeliefTrails, WritersAreCurrent, BounceIsBrief, PrivacyAtOnce

(* A re-assert that bounces is for tracking, and so is the intent.            *)
LEMMA BounceKeepsBelief ==
  ASSUME TypeOK, OwnerWrites, ReassertShape, BeliefParts, NEW r \in Reassert, Bounce(r)
  PROVE  BeliefParts'
<1> USE DEF TypeOK, ReassertShape, Stage, Mode, reassert, locking, history
<1>1. belief' = "idle" /\ goal[r] = "tracking" /\ UNCHANGED <<goal, intent, overtaken, excused>>
  BY DEF Bounce
<1>2. stage'[r] = "write" /\ \A q \in Reassert \ {r} : stage'[q] = stage[q]
  BY DEF Bounce
<1>3. CASE overtaken
  BY <1>1, <1>3 DEF BeliefParts, BeliefTrails, WritersAreCurrent, BounceIsBrief, PrivacyAtOnce
<1>4. CASE ~overtaken
  <2>1. intent = "tracking"
    BY <1>1, <1>4 DEF Bounce, BeliefParts, BeliefTrails, WritersAreCurrent
  <2>2. WritersAreCurrent'
    <3>1. ASSUME NEW q \in Reassert, stage'[q] \in {"checked", "bounce", "write"}
          PROVE  goal[q] \in {"idle", "tracking"}
      BY ReassertShape
    <3>2. QED
      BY <1>1, <2>1, <3>1 DEF WritersAreCurrent
  <2>3. QED
    BY <1>1, <1>2, <2>1, <2>2
    DEF BeliefParts, BeliefTrails, BounceIsBrief, PrivacyAtOnce
<1>5. QED
  BY <1>3, <1>4

(* What a re-assert writes becomes the belief; who still thinks otherwise has *)
(* been overtaken.                                                            *)
LEMMA WriteKeepsBelief ==
  ASSUME TypeOK, OwnerWrites, ReassertShape, BeliefParts, NEW r \in Reassert, WriteAgain(r)
  PROVE  BeliefParts'
<1> USE ReassertAssumption
    DEF TypeOK, OwnerWrites, ReassertShape, Stage, Mode, reassert, locking, history
<1>1. /\ belief' = goal[r] /\ UNCHANGED <<intent, excused>> /\ owner = r /\ stage[r] = "write"
      /\ \A q \in Reassert : stage'[q] = (IF q = r THEN "none" ELSE stage[q])
      /\ \A q \in Reassert \ {r} : goal'[q] = goal[q]
  BY DEF WriteAgain, Finish
<1>2. CASE overtaken'
  BY <1>2 DEF BeliefParts, BeliefTrails, WritersAreCurrent, BounceIsBrief, PrivacyAtOnce
<1>3. CASE ~overtaken'
  <2>1. ~overtaken /\ ~Overtakes(goal[r])
    BY <1>3, Zenon DEF WriteAgain
  <2>2. goal[r] \in {belief, intent} /\ goal[r] # "privacy"
    BY <1>1, <2>1 DEF BeliefParts, WritersAreCurrent
  <2>3. BeliefTrails /\ BounceIsBrief /\ PrivacyAtOnce
    BY DEF BeliefParts
  <2>4. BeliefTrails'
    BY <1>1, <2>1, <2>2, <2>3 DEF BeliefTrails
  <2>5. WritersAreCurrent'
    <3>1. ASSUME NEW q \in Reassert, stage'[q] \in {"checked", "bounce", "write"}
          PROVE  goal'[q] = goal[r]
      <4>1. q # r /\ stage[q] = "checked"
        BY <1>1, <3>1
      <4>2. QED
        BY <1>1, <2>1, <4>1 DEF Overtakes
    <3>2. QED
      BY <1>1, <3>1 DEF WritersAreCurrent
  <2>6. BounceIsBrief'
    <3>1. ASSUME NEW q \in Reassert, stage[q] = "write" PROVE q = r
      BY <1>1, <3>1
    <3>2. QED
      BY <1>1, <2>1, <2>2, <2>3, <3>1 DEF BounceIsBrief
  <2>7. PrivacyAtOnce'
    BY <1>1, <2>1, <2>2, <2>3 DEF PrivacyAtOnce, BeliefTrails
  <2>8. QED
    BY <2>4, <2>5, <2>6, <2>7 DEF BeliefParts
<1>4. QED
  BY <1>2, <1>3

(* The other steps write nothing: a re-assert that looks has the belief as    *)
(* its goal, one that takes hidMu keeps its goal, one that fails is excused,  *)
(* and the exit finds nobody between its two writes.                          *)
LEMMA BeliefStep ==
  ASSUME TypeOK, OwnerWrites, ReassertShape, BeliefParts, DrainedStays, [Next]_vars
  PROVE  BeliefParts'
<1> USE DEF TypeOK, Stage, Mode, reassert, locking, history, firmware
<1>1. ASSUME UNCHANGED <<mode, belief, stage, goal, intent, overtaken, disowned>>,
             ~excused' => ~excused
      PROVE  BeliefParts'
  BY <1>1 DEF BeliefParts, BeliefTrails, WritersAreCurrent, BounceIsBrief, PrivacyAtOnce
<1>2. ASSUME Tick \/ Arrive \/ Move PROVE BeliefParts'
  <2>1. UNCHANGED <<mode, belief, stage, goal, intent, overtaken, disowned>>
    BY <1>2 DEF Tick, Arrive, Move, MoveAway, TiltDown, LoadPresetDown, ReadBack
  <2>2. ~excused' => ~excused
    BY <1>2, Zenon DEF Tick, Arrive, Move, MoveAway, TiltDown, LoadPresetDown, ReadBack, history
  <2>3. QED
    BY <1>1, <2>1, <2>2
<1>3. ASSUME (\E m \in Mode : BeginCommand(m)) \/ CommandFails \/ Terminate \/ Drained
      PROVE  BeliefParts'
  <2>1. CASE CommandFails
    <3>1. UNCHANGED <<belief, stage, goal, intent, overtaken, excused>>
      BY <2>1 DEF CommandFails
    <3>2. ~disowned' => UNCHANGED <<mode, disowned>>
      BY <2>1, Zenon DEF CommandFails
    <3>3. QED
      BY <3>1, <3>2
      DEF BeliefParts, BeliefTrails, WritersAreCurrent, BounceIsBrief, PrivacyAtOnce
  <2>2. CASE (\E m \in Mode : BeginCommand(m)) \/ Terminate \/ Drained
    BY <1>1, <2>2 DEF BeginCommand, Terminate, Drained
  <2>3. QED
    BY <1>3, <2>1, <2>2
<1>4. ASSUME NEW r \in Reassert, WakeUp(r) PROVE BeliefParts'
  <2>1. UNCHANGED <<mode, belief, intent, overtaken, excused, disowned>>
    BY <1>4 DEF WakeUp
  <2>2. \A q \in Reassert : stage'[q] \in {"checked", "bounce", "write"} =>
            \/ stage[q] = stage'[q] /\ goal'[q] = goal[q]
            \/ stage'[q] = "checked" /\ goal'[q] = belief
    BY <1>4 DEF WakeUp, Finish
  <2>3. \A q \in Reassert : stage[q] = "write" => stage'[q] = "write" /\ goal'[q] = goal[q]
    BY <1>4 DEF WakeUp, Finish
  <2>4. QED
    BY <2>1, <2>2, <2>3
    DEF BeliefParts, BeliefTrails, WritersAreCurrent, BounceIsBrief, PrivacyAtOnce
<1>5. ASSUME NEW r \in Reassert, LockHid(r) PROVE BeliefParts'
  BY <1>5
  DEF LockHid, BeliefParts, BeliefTrails, WritersAreCurrent, BounceIsBrief, PrivacyAtOnce
<1>6. ASSUME NEW r \in Reassert, ReassertFails(r) PROVE BeliefParts'
  <2>1. UNCHANGED <<belief, intent, overtaken, disowned>>
    BY <1>6 DEF ReassertFails
  <2>2. excused'
    BY <1>6, Zenon DEF ReassertFails
  <2>3. \A q \in Reassert : stage'[q] # "none" => stage'[q] = stage[q] /\ goal'[q] = goal[q]
    BY <1>6 DEF ReassertFails, Finish
  <2>4. ~overtaken => intent # "privacy"
    BY <1>6 DEF ReassertFails, ReassertShape, BeliefParts, BeliefTrails, WritersAreCurrent
  <2>5. QED
    BY <2>1, <2>2, <2>3, <2>4
    DEF BeliefParts, BeliefTrails, WritersAreCurrent, BounceIsBrief, PrivacyAtOnce
<1>7. ASSUME Exit PROVE BeliefParts'
  BY <1>7
  DEF Exit, BeliefParts, BeliefTrails, WritersAreCurrent, BounceIsBrief, PrivacyAtOnce,
      DrainedStays, Pending
<1>8. CASE UNCHANGED vars
  BY <1>1, <1>8 DEF vars
<1>9. QED
  BY <1>2, <1>3, <1>4, <1>5, <1>6, <1>7, <1>8, CommandKeepsBelief, BounceKeepsBelief,
     WriteKeepsBelief
  DEF Next, SetMode, Again, Stop

(* Only a command schedules, and one that does so after the drain is excused. *)
LEMMA DrainStep ==
  ASSUME TypeOK, DrainedStays, [Next]_vars
  PROVE  DrainedStays'
<1> USE DEF TypeOK, DrainedStays, Pending, Stage, Life, Running, reassert, history
<1>1. ASSUME UNCHANGED <<stage, life>>, ~excused' => ~excused PROVE DrainedStays'
  BY <1>1
<1>2. ASSUME Tick \/ Arrive \/ Move PROVE DrainedStays'
  <2>1. UNCHANGED <<stage, life>>
    BY <1>2 DEF Tick, Arrive, Move, MoveAway, TiltDown, LoadPresetDown, ReadBack
  <2>2. ~excused' => ~excused
    BY <1>2, Zenon DEF Tick, Arrive, Move, MoveAway, TiltDown, LoadPresetDown, ReadBack, history
  <2>3. QED
    BY <1>1, <2>1, <2>2
<1>3. ASSUME (\E m \in Mode : BeginCommand(m)) \/ CommandFails PROVE DrainedStays'
  BY <1>1, <1>3 DEF BeginCommand, CommandFails
<1>4. ASSUME CommandSucceeds PROVE DrainedStays'
  <2>1. CASE wanted # "privacy" /\ armed > 0
    <3>1. life' = life /\ life # "down"
      BY <1>4 DEF CommandSucceeds
    <3>2. excused' = (excused \/ life = "exiting")
      BY <1>4, <2>1 DEF CommandSucceeds
    <3>3. QED
      BY <3>1, <3>2
  <2>2. CASE ~(wanted # "privacy" /\ armed > 0)
    <3>1. UNCHANGED <<stage, life>>
      BY <1>4, <2>2 DEF CommandSucceeds
    <3>2. ~excused' => ~excused
      BY <1>4, <2>2, Zenon DEF CommandSucceeds
    <3>3. QED
      BY <1>1, <3>1, <3>2
  <2>3. QED
    BY <2>1, <2>2
<1>5. ASSUME NEW r \in Reassert, Again(r) PROVE DrainedStays'
  <2>1. life' = life /\ Pending' \subseteq Pending
    BY <1>5 DEF Again, WakeUp, LockHid, Bounce, WriteAgain, ReassertFails, Finish
  <2>2. ~excused' => ~excused
    BY <1>5, Zenon DEF Again, WakeUp, LockHid, Bounce, WriteAgain, ReassertFails, history
  <2>3. QED
    BY <2>1, <2>2
<1>6. ASSUME Stop PROVE DrainedStays'
  BY <1>6 DEF Stop, Terminate, Drained, Exit
<1>7. CASE UNCHANGED vars
  BY <1>1, <1>7 DEF vars
<1>8. QED
  BY <1>2, <1>3, <1>4, <1>5, <1>6, <1>7 DEF Next, SetMode

(* A click lands at once, or inside the window, which schedules its cover; or *)
(* it meets an old poison and is excused.                                     *)
LEMMA CommandIsCovered ==
  ASSUME TypeOK, WindowCovers, CommandSucceeds
  PROVE  ClickIsCovered'
<1> USE TimingAssumption DEF TypeOK, Mode, reassert, locking, history, timing
<1>1. intent' = wanted /\ life' = life /\ life # "down"
  BY DEF CommandSucceeds, Running
<1>2. CASE ~Dropped(wanted)
  BY <1>1, <1>2, ReceiveType DEF CommandSucceeds, ClickIsCovered
<1>3. CASE Dropped(wanted) /\ armed > 0
  <2>1. Schedule(wanted)
    BY <1>3 DEF CommandSucceeds, Dropped
  <2>2. QED
    BY <1>1, <2>1 DEF Schedule, ClickIsCovered, Pending
<1>4. CASE Dropped(wanted) /\ ~(armed > 0) /\ ~excused'
  <2>1. ~excused /\ ~(transition = 0)
    BY <1>4, Zenon DEF CommandSucceeds
  <2>2. armed >= transition
    BY <1>1, <2>1 DEF WindowCovers, Running
  <2>3. QED
    BY <1>4, <2>1, <2>2
<1>5. CASE excused'
  BY <1>5 DEF ClickIsCovered
<1>6. QED
  BY <1>2, <1>3, <1>4, <1>5

(* The second write of a re-assert is not dropped, and it writes the intent.  *)
LEMMA WriteLands ==
  ASSUME TypeOK, OwnerWrites, ReassertShape, TransitionEnds, BounceCures, BeliefParts,
         NEW r \in Reassert, WriteAgain(r)
  PROVE  ClickIsCovered'
<1> USE TimingAssumption DEF TypeOK, OwnerWrites, ReassertShape, Mode, Stage
<1>1. CASE overtaken' \/ excused'
  BY <1>1 DEF ClickIsCovered
<1>2. CASE ~overtaken' /\ ~excused'
  <2>1. ~overtaken /\ ~excused
    BY <1>2, Zenon DEF WriteAgain
  <2>2. stage[r] = "write" /\ owner = r /\ intent' = intent
    BY DEF WriteAgain
  <2>3. transition <= left[r] /\ left[r] = 0 /\ (goal[r] = "tracking" => ~poisoned)
    BY <2>1, <2>2 DEF TransitionEnds, Pending, BounceCures
  <2>4. ~(transition > 0)
    BY <2>3
  <2>5. ~Dropped(goal[r])
    BY <2>3, <2>4, Zenon DEF Dropped
  <2>6. goal[r] = intent
    <3>1. goal[r] \in {belief, intent}
      BY <2>1, <2>2 DEF BeliefParts, WritersAreCurrent
    <3>2. ASSUME belief # intent PROVE goal[r] = "tracking" /\ intent = "tracking"
      <4>1. PICK q \in Reassert :
              stage[q] = "write" /\ goal[q] = "tracking" /\ intent = "tracking"
        BY <2>1, <3>2 DEF BeliefParts, BounceIsBrief
      <4>2. q = r
        BY <2>2, <4>1
      <4>3. QED
        BY <4>1, <4>2
    <3>3. QED
      BY <3>1, <3>2
  <2>7. mode' = intent
    BY <2>5, <2>6, ReceiveType DEF WriteAgain
  <2>8. QED
    BY <2>2, <2>7 DEF ClickIsCovered
<1>3. QED
  BY <1>1, <1>2

(* A cover that finds the belief changed gives up only when the re-assert     *)
(* that bounced is about to write the intent.                                 *)
LEMMA CoverStep ==
  ASSUME TypeOK, OwnerWrites, ReassertShape, WindowCovers, TransitionEnds, BounceCures,
         BeliefParts, ClickIsCovered, [Next]_vars
  PROVE  ClickIsCovered'
<1> USE DEF TypeOK, Stage, Life, Mode, reassert, locking, history, firmware
<1>1. ASSUME UNCHANGED <<mode, stage, goal, intent, overtaken, disowned>>, Running' => Running,
             ~excused' => ~excused
      PROVE  ClickIsCovered'
  BY <1>1 DEF ClickIsCovered, Pending
<1>2. ASSUME Tick \/ Arrive \/ Move PROVE ClickIsCovered'
  <2>1. UNCHANGED <<mode, stage, goal, intent, overtaken, disowned, life>>
    BY <1>2 DEF Tick, Arrive, Move, MoveAway, TiltDown, LoadPresetDown, ReadBack
  <2>2. ~excused' => ~excused
    BY <1>2, Zenon DEF Tick, Arrive, Move, MoveAway, TiltDown, LoadPresetDown, ReadBack, history
  <2>3. QED
    BY <1>1, <2>1, <2>2 DEF Running
<1>3. ASSUME (\E m \in Mode : BeginCommand(m)) \/ CommandFails \/ Terminate \/ Drained
      PROVE  ClickIsCovered'
  <2>1. CASE CommandFails
    <3>1. UNCHANGED <<stage, goal, intent, overtaken, excused, life>>
      BY <2>1 DEF CommandFails
    <3>2. ~disowned' => UNCHANGED <<mode, disowned>>
      BY <2>1, Zenon DEF CommandFails
    <3>3. QED
      BY <3>1, <3>2 DEF ClickIsCovered, Pending, Running
  <2>2. CASE (\E m \in Mode : BeginCommand(m)) \/ Terminate \/ Drained
    BY <1>1, <2>2 DEF BeginCommand, Terminate, Drained, Running
  <2>3. QED
    BY <1>3, <2>1, <2>2
<1>4. ASSUME NEW r \in Reassert, WakeUp(r) PROVE ClickIsCovered'
  <2>1. UNCHANGED <<mode, life, intent, overtaken, excused, disowned>> /\ stage[r] = "sleep"
    BY <1>4 DEF WakeUp
  <2>2. \A q \in Reassert \ {r} : stage'[q] = stage[q] /\ goal'[q] = goal[q]
    BY <1>4 DEF WakeUp, Finish
  <2>3. CASE ~Running \/ overtaken \/ excused \/ disowned \/ mode = intent
    BY <2>1, <2>3 DEF ClickIsCovered, Running
  <2>4. CASE Running /\ ~overtaken /\ ~excused /\ ~disowned /\ mode # intent
    <3>1. PICK q \in Reassert : stage[q] # "none" /\ goal[q] = intent
      BY <2>4 DEF ClickIsCovered, Pending
    <3>2. CASE q # r
      BY <2>1, <2>2, <3>1, <3>2 DEF ClickIsCovered, Pending
    <3>3. CASE q = r /\ belief = goal[r]
      BY <1>4, <2>1, <3>1, <3>3 DEF WakeUp, ClickIsCovered, Pending
    <3>4. CASE q = r /\ belief # goal[r]
      <4>1. PICK w \in Reassert :
              stage[w] = "write" /\ goal[w] = "tracking" /\ intent = "tracking"
        BY <2>4, <3>1, <3>4 DEF BeliefParts, BounceIsBrief
      <4>2. w # r
        BY <2>1, <4>1
      <4>3. QED
        BY <2>1, <2>2, <4>1, <4>2 DEF ClickIsCovered, Pending
    <3>5. QED
      BY <3>2, <3>3, <3>4
  <2>5. QED
    BY <2>3, <2>4
<1>5. ASSUME NEW r \in Reassert, LockHid(r) PROVE ClickIsCovered'
  BY <1>5 DEF LockHid, ClickIsCovered, Pending, Running
<1>6. ASSUME NEW r \in Reassert, Bounce(r) PROVE ClickIsCovered'
  <2>1. /\ stage'[r] = "write" /\ goal'[r] = "tracking"
        /\ UNCHANGED <<intent, overtaken, excused>>
    BY <1>6 DEF Bounce, ReassertShape
  <2>2. ~overtaken => intent = "tracking"
    BY <1>6, <2>1
    DEF Bounce, BeliefParts, BeliefTrails, WritersAreCurrent
  <2>3. QED
    BY <2>1, <2>2 DEF ClickIsCovered, Pending
<1>7. ASSUME NEW r \in Reassert, ReassertFails(r) PROVE ClickIsCovered'
  <2>1. excused'
    BY <1>7, Zenon DEF ReassertFails
  <2>2. QED
    BY <2>1 DEF ClickIsCovered
<1>8. ASSUME Exit PROVE ClickIsCovered'
  BY <1>8 DEF Exit, ClickIsCovered, Running
<1>9. CASE UNCHANGED vars
  BY <1>1, <1>9 DEF vars, Running
<1>10. QED
  BY <1>2, <1>3, <1>4, <1>5, <1>6, <1>7, <1>8, <1>9, CommandIsCovered, WriteLands
  DEF Next, SetMode, Again, Stop

(* The pieces together. *)
LEMMA Invariant == Spec => []IInv
<1>1. IInv /\ [Next]_vars => IInv'
  <2> SUFFICES ASSUME IInv, [Next]_vars PROVE IInv'
    OBVIOUS
  <2>1. TypeOK /\ OwnerWrites /\ ReassertShape /\ WindowCovers /\ TransitionEnds
        /\ BounceCures /\ BeliefParts /\ ClickIsCovered /\ DrainedStays
    BY DEF IInv, BeliefParts
  <2>2. TypeOK'
    BY <2>1, TypeStep
  <2>3. OwnerWrites' /\ ReassertShape'
    BY <2>1, ShapeStep
  <2>4. WindowCovers' /\ TransitionEnds'
    BY <2>1, <2>2, TimingStep
  <2>5. BounceCures' /\ DrainedStays'
    BY <2>1, CuresStep, DrainStep
  <2>6. BeliefParts'
    BY <2>1, BeliefStep
  <2>7. ClickIsCovered'
    BY <2>1, CoverStep
  <2>8. QED
    BY <2>2, <2>3, <2>4, <2>5, <2>6, <2>7 DEF IInv, BeliefParts
<1>2. QED
  BY <1>1, InitIInv, PTL DEF Spec

(* The variables of PrivacyTrap keep their types: no timer is counted past    *)
(* its length, and hidMu has one owner, nobody or a command or a re-assert.   *)
THEOREM TypeCorrect == Spec => []TypeOK
<1>1. IInv => TypeOK
  BY DEF IInv
<1>2. QED
  BY <1>1, Invariant, PTL

(* However clicks, tilts and re-asserts interleave and however many are       *)
(* pending, a click lands in the end, with the exceptions ClickLands names    *)
(* (setTracking, schedulePrivacyTrapReassert).                                *)
THEOREM EveryClickLands == Spec => []ClickLands
<1>1. IInv => ClickLands
  BY DEF IInv, ClickLands, ClickIsCovered, Settled
<1>2. QED
  BY <1>1, Invariant, PTL

(* After a privacy click only an overtaken re-assert, or a command that       *)
(* reaches the camera although it reports an error, opens the lens again      *)
(* (setDeviceState, schedulePrivacyTrapReassert).                             *)
THEOREM PrivacyHolds == Spec => []PrivacyStands
<1>1. IInv => PrivacyStands
  BY DEF IInv, PrivacyStands, PrivacyAtOnce
<1>2. QED
  BY <1>1, Invariant, PTL

(* The process exits with the last mode asked for as the saved belief: the    *)
(* drain of handleShutdown leaves no bounce behind.                           *)
THEOREM ExitIsIntent == Spec => []ExitKeepsIntent
<1>1. IInv => ExitKeepsIntent
  BY DEF IInv, ExitKeepsIntent, BounceIsBrief, DrainedStays, Pending
<1>2. QED
  BY <1>1, Invariant, PTL
=============================================================================
