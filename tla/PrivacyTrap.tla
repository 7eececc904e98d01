---------------------------- MODULE PrivacyTrap ----------------------------
(***************************************************************************)
(* The firmware's privacy trap and the daemon's answer to it.  When the    *)
(* head arrives in the bottom tilt zone the firmware drops, for a while,   *)
(* every tracking or idle write, though it acknowledges it; and from then  *)
(* on it drops tracking writes as long as the head stays.  So a command    *)
(* issued soon after such a move is written again later, by a goroutine    *)
(* of its own that goes through idle.                                      *)
(*                                                                         *)
(* Time passes in Tick, one unit at a time: a re-assert looks at the belief *)
(* within the unit its timer fires in, a readback waits for a subprocess   *)
(* and may be late.  A write that reaches the camera is one step here, its *)
(* two reports and the pause between them are in PixyDaemon.               *)
(***************************************************************************)
EXTENDS Naturals

CONSTANTS
    Reassert,         \* slots for re-assert goroutines
    Delay,            \* privacyTrapReassertDelay
    Window,           \* privacyTrapArmWindow
    Readback,         \* ptzReadbackDelay
    MaxTransition,    \* the firmware's transition lasts 1 .. MaxTransition
    MaxTravel         \* the head moves into the zone in 0 .. MaxTravel

\* Without these the protection cannot work: a re-assert must come after the
\* transition, and the window must outlast the travel and the transition.
ASSUME TimingAssumption ==
    /\ {Delay, Window, Readback, MaxTransition, MaxTravel} \subseteq Nat \ {0}
    /\ MaxTransition <= Delay
    /\ MaxTravel + MaxTransition <= Window

ASSUME ReassertAssumption == Reassert \cap {"none", "command"} = {}

VARIABLES
    head,         \* where the head is: "away" from the zone, "moving" into it, "in" it
    travel,       \* time until a moving head arrives
    transition,   \* time left of the firmware's transition
    poisoned,     \* the firmware drops tracking writes
    mode,         \* the mode the firmware runs
    armed,        \* time left until d.trapArmedUntil
    readbacks,    \* times left of the scheduled PTZ readbacks
    belief,       \* d.state.Camera, saved whenever it is written
    owner,        \* who holds d.hidMu: "none", "command" or a re-assert
    wanted,       \* the mode a command that holds hidMu is to set
    stage,        \* stage[r]: what re-assert r is doing
    goal,         \* goal[r]: the mode it was scheduled for
    left,         \* left[r]: time left of its timer
    life,         \* "up", "draining" re-asserts, "exiting", "down"
    intent,       \* history: the mode of the last command that succeeded
    overtaken,    \* history: another mode was written between a re-assert's look at
                  \* the belief and its locking hidMu
    excused,      \* history: something the protection does not cover happened
    disowned      \* history: a command has reached the camera and reported an error all
                  \* the same, and no command or re-assert has succeeded since

firmware == <<head, travel, transition, poisoned, mode>>
timing   == <<armed, readbacks>>
locking  == <<owner, wanted>>
reassert == <<stage, goal, left>>
history  == <<intent, overtaken, excused, disowned>>
vars     == <<firmware, timing, belief, locking, reassert, life, history>>

Mode  == {"tracking", "idle", "privacy"}
Stage == {"none", "sleep", "checked", "bounce", "write"}
Life  == {"up", "draining", "exiting", "down"}

Running   == life # "down"
Pending   == {r \in Reassert : stage[r] # "none"}
Monus(n)  == IF n = 0 THEN 0 ELSE n - 1

Init ==
    /\ head = "away" /\ travel = 0 /\ transition = 0 /\ poisoned = FALSE
    /\ mode \in Mode /\ belief = mode /\ intent = mode
    /\ armed = 0 /\ readbacks = {}
    /\ owner = "none" /\ wanted = "privacy"
    /\ stage = [r \in Reassert |-> "none"]
    /\ goal = [r \in Reassert |-> "idle"]
    /\ left = [r \in Reassert |-> 0]
    /\ life = "up" /\ overtaken = FALSE /\ excused = FALSE
    /\ disowned = FALSE
-----------------------------------------------------------------------------
(* Time, and the firmware as privacy_trap.go and its hardware test record   *)
(* it.                                                                      *)

MayPass == /\ head = "moving" => travel > 0
           /\ \A r \in Reassert : stage[r] = "sleep" => left[r] > 0

\* Tick if a timer could be due before it was started
TickPastZero ==
    /\ MayPass
    /\ travel' = Monus(travel) /\ transition' = Monus(transition)
    /\ armed' = armed - 1
    /\ readbacks' = {Monus(t) : t \in readbacks}
    /\ left' = [r \in Reassert |-> Monus(left[r])]
    /\ UNCHANGED <<head, poisoned, mode, belief, locking, stage, goal, life, history>>

Tick ==
    /\ MayPass
    /\ travel' = Monus(travel) /\ transition' = Monus(transition)
    /\ armed' = Monus(armed)
    /\ readbacks' = {Monus(t) : t \in readbacks}
    /\ left' = [r \in Reassert |-> Monus(left[r])]
    /\ UNCHANGED <<head, poisoned, mode, belief, locking, stage, goal, life, history>>

\* Arriving in tracking or idle springs the trap.  A re-assert that is pending
\* was scheduled for an earlier arrival: its delay does not cover this one.
Arrive ==
    /\ head = "moving" /\ travel = 0
    /\ head' = "in"
    /\ IF mode = "privacy" THEN UNCHANGED transition
                           ELSE transition' \in 1 .. MaxTransition
    /\ excused' = (excused \/ Pending # {})
    /\ UNCHANGED <<travel, poisoned, mode, timing, belief, locking, reassert, life,
                   intent, overtaken, disowned>>

\* What the firmware makes of a write it acknowledges.
Dropped(m) == m # "privacy" /\ (transition > 0 \/ (m = "tracking" /\ poisoned))
Receive(m) ==
    /\ mode' = IF Dropped(m) THEN mode ELSE m
    /\ poisoned' = IF transition > 0 THEN poisoned \/ m # "privacy"
                                      ELSE poisoned /\ m # "idle"
-----------------------------------------------------------------------------
(* PTZ commands: under v4l2Mu, never under hidMu. *)

\* pan, tilt and zoom, centre, or a preset take the head out of the zone.
MoveAway ==
    /\ Running
    /\ head' = "away" /\ travel' = 0 /\ transition' = 0 /\ poisoned' = FALSE
    /\ readbacks' \in {readbacks, readbacks \cup {Readback}}
    /\ UNCHANGED <<mode, armed, belief, locking, reassert, life, history>>

MoveIn ==
    IF head = "in" THEN UNCHANGED <<head, travel>>
                   ELSE head' = "moving" /\ travel' \in 0 .. MaxTravel

\* tilt to -85 or below: arm first, then set the control, which may fail.
TiltDown ==
    /\ Running
    /\ armed' = Window
    /\ \/ MoveIn /\ readbacks' = readbacks \cup {Readback}
       \/ UNCHANGED <<head, travel, readbacks>>
    /\ UNCHANGED <<transition, poisoned, mode, belief, locking, reassert, life, history>>

\* A preset in the zone sets the control without arming, and when a later axis
\* fails there is no readback either.
LoadPresetDown ==
    /\ Running
    /\ MoveIn
    /\ readbacks' \in {readbacks, readbacks \cup {Readback}}
    /\ excused' = (excused \/ armed < Window)
    /\ UNCHANGED <<transition, poisoned, mode, armed, belief, locking, reassert, life,
                   intent, overtaken, disowned>>

\* The delayed readback arms when it finds the head in the zone; a moving head
\* may already read as being there.
ReadBack ==
    /\ Running /\ 0 \in readbacks
    /\ readbacks' = readbacks \ {0}
    /\ \/ head # "away" /\ armed' = Window
       \/ head # "in" /\ UNCHANGED armed
    /\ UNCHANGED <<firmware, belief, locking, reassert, life, history>>
-----------------------------------------------------------------------------
(* Commands that set the camera mode: users, calls and reconciles. *)

BeginCommand(m) ==
    /\ Running /\ owner = "none"
    /\ owner' = "command" /\ wanted' = m
    /\ UNCHANGED <<firmware, timing, belief, reassert, life, history>>

Overtakes(m) == \E r \in Reassert : stage[r] = "checked" /\ goal[r] # m

EndCommand == owner' = "none" /\ wanted' = "privacy"

\* schedulePrivacyTrapReassert if it waited one unit less
ScheduleSooner(m) ==
    \E r \in Reassert :
        /\ stage[r] = "none"
        /\ stage' = [stage EXCEPT ![r] = "sleep"]
        /\ goal' = [goal EXCEPT ![r] = m]
        /\ left' = [left EXCEPT ![r] = Delay - 1]

\* schedulePrivacyTrapReassert
Schedule(m) ==
    \E r \in Reassert :
        /\ stage[r] = "none"
        /\ stage' = [stage EXCEPT ![r] = "sleep"]
        /\ goal' = [goal EXCEPT ![r] = m]
        /\ left' = [left EXCEPT ![r] = Delay]

\* setTracking: the write, the mutator, and a re-assert while armed.  Nobody
\* waits for a re-assert after the drain, and nothing helps a write that finds
\* an old poison when the window is over.
CommandSucceeds ==
    /\ Running /\ owner = "command"
    /\ Receive(wanted)
    /\ belief' = wanted /\ intent' = wanted
    /\ IF wanted # "privacy" /\ armed > 0
       THEN Schedule(wanted) /\ excused' = (excused \/ life = "exiting")
       ELSE /\ UNCHANGED reassert
            /\ excused' = (excused \/ (transition = 0 /\ Dropped(wanted)))
    /\ overtaken' = (overtaken \/ Overtakes(wanted)) /\ disowned' = FALSE
    /\ EndCommand
    /\ UNCHANGED <<head, travel, transition, timing, life>>

\* Refused, failed before the commit, or failed with a commit that reached the
\* camera and reported an error all the same: then the camera runs the mode and
\* neither the belief nor a re-assert knows.
CommandFails ==
    /\ Running /\ owner = "command"
    /\ \/ UNCHANGED <<mode, poisoned, disowned>>
       \/ Receive(wanted) /\ disowned' = TRUE
    /\ EndCommand
    /\ UNCHANGED <<head, travel, transition, timing, belief, reassert, life,
                   intent, overtaken, excused>>
-----------------------------------------------------------------------------
(* The re-assert goroutine. *)

Finish(r) ==
    /\ stage' = [stage EXCEPT ![r] = "none"]
    /\ goal' = [goal EXCEPT ![r] = "idle"]
    /\ UNCHANGED left

\* WakeUp if the belief were not looked at
WakeUpBlindly(r) ==
    /\ Running /\ stage[r] = "sleep" /\ left[r] = 0
    /\ stage' = [stage EXCEPT ![r] = "checked"] /\ UNCHANGED <<goal, left>>
    /\ UNCHANGED <<firmware, timing, belief, locking, life, history>>

\* The timer fired: compare with the belief under d.mu only.
WakeUp(r) ==
    /\ Running /\ stage[r] = "sleep" /\ left[r] = 0
    /\ IF belief = goal[r]
       THEN stage' = [stage EXCEPT ![r] = "checked"] /\ UNCHANGED <<goal, left>>
       ELSE Finish(r)
    /\ UNCHANGED <<firmware, timing, belief, locking, life, history>>

\* hidMu is free at last; nothing is compared again.
LockHid(r) ==
    /\ Running /\ stage[r] = "checked" /\ owner = "none"
    /\ owner' = r
    /\ stage' = [stage EXCEPT ![r] = IF goal[r] = "tracking" THEN "bounce" ELSE "write"]
    /\ UNCHANGED <<firmware, timing, belief, wanted, goal, left, life, history>>

\* Bounce if the way through idle were left out
NoBounce(r) ==
    /\ Running /\ stage[r] = "bounce"
    /\ stage' = [stage EXCEPT ![r] = "write"]
    /\ UNCHANGED <<firmware, timing, belief, locking, goal, left, life, history>>

Bounce(r) ==
    /\ Running /\ stage[r] = "bounce"
    /\ Receive("idle")
    /\ belief' = "idle"
    /\ stage' = [stage EXCEPT ![r] = "write"]
    /\ UNCHANGED <<head, travel, transition, timing, locking, goal, left, life, history>>

WriteAgain(r) ==
    /\ Running /\ stage[r] = "write"
    /\ Receive(goal[r])
    /\ belief' = goal[r]
    /\ Finish(r)
    /\ owner' = "none"
    /\ overtaken' = (overtaken \/ Overtakes(goal[r])) /\ disowned' = FALSE
    /\ UNCHANGED <<head, travel, transition, timing, wanted, life, intent, excused>>

\* One of its writes fails, or says so.  It is not tried again, and after the
\* bounce the belief that was saved is idle.
ReassertFails(r) ==
    /\ Running /\ stage[r] \in {"bounce", "write"}
    /\ Finish(r)
    /\ owner' = "none"
    /\ \/ UNCHANGED <<mode, poisoned>>
       \/ Receive(IF stage[r] = "bounce" THEN "idle" ELSE goal[r])
    /\ excused' = TRUE
    /\ UNCHANGED <<head, travel, transition, timing, belief, wanted, life,
                   intent, overtaken, disowned>>
-----------------------------------------------------------------------------
(* handleShutdown *)

Terminate ==
    /\ life = "up" /\ life' = "draining"
    /\ UNCHANGED <<firmware, timing, belief, locking, reassert, history>>

\* Drained without waiting for the re-asserts
SaveAtOnce ==
    /\ life = "draining" /\ life' = "exiting"
    /\ UNCHANGED <<firmware, timing, belief, locking, reassert, history>>

\* trapReasserts.Wait returns; the final save and cancel follow.
Drained ==
    /\ life = "draining" /\ Pending = {}
    /\ life' = "exiting"
    /\ UNCHANGED <<firmware, timing, belief, locking, reassert, history>>

Exit ==
    /\ life = "exiting" /\ life' = "down"
    /\ owner' = "none" /\ wanted' = "privacy"
    /\ armed' = 0 /\ readbacks' = {}
    /\ stage' = [r \in Reassert |-> "none"]
    /\ goal' = [r \in Reassert |-> "idle"]
    /\ left' = [r \in Reassert |-> 0]
    /\ UNCHANGED <<firmware, belief, history>>
-----------------------------------------------------------------------------
Move == MoveAway \/ TiltDown \/ LoadPresetDown \/ ReadBack

SetMode == (\E m \in Mode : BeginCommand(m)) \/ CommandSucceeds \/ CommandFails

Again(r) == WakeUp(r) \/ LockHid(r) \/ Bounce(r) \/ WriteAgain(r) \/ ReassertFails(r)

Stop == Terminate \/ Drained \/ Exit

Next == Tick \/ Arrive \/ Move \/ SetMode \/ (\E r \in Reassert : Again(r)) \/ Stop

Spec == Init /\ [][Next]_vars
-----------------------------------------------------------------------------
TypeOK ==
    /\ head \in {"away", "moving", "in"} /\ travel \in 0 .. MaxTravel
    /\ transition \in 0 .. MaxTransition /\ poisoned \in BOOLEAN /\ mode \in Mode
    /\ armed \in 0 .. Window /\ readbacks \in SUBSET (0 .. Readback)
    /\ belief \in Mode /\ owner \in {"none", "command"} \cup Reassert /\ wanted \in Mode
    /\ stage \in [Reassert -> Stage] /\ goal \in [Reassert -> Mode]
    /\ left \in [Reassert -> 0 .. Delay] /\ life \in Life
    /\ intent \in Mode
    /\ overtaken \in BOOLEAN /\ excused \in BOOLEAN /\ disowned \in BOOLEAN

\* The daemon runs, the head is at rest, the trap is over, nobody writes or is going to.
Settled == Running /\ head # "moving" /\ transition = 0 /\ owner = "none" /\ Pending = {}

\* However clicks, tilts and re-asserts interleave, a click lands in the end:
\* the camera runs the mode of the last command that succeeded, unless a preset
\* moved the head in, the head arrived while a re-assert was pending, a re-assert
\* failed, was overtaken or scheduled after the shutdown's drain, the click met a
\* poison some earlier click left when the window was over, or a later command
\* reached the camera and reported an error all the same.
\* (setTracking: "so the user's click always lands")
ClickLands == Settled /\ ~excused /\ ~overtaken /\ ~disowned => mode = intent

\* Privacy is stronger: once asked for, only an overtaken re-assert, or a command
\* that reaches the camera and reports an error all the same, opens the lens
\* again (setTracking, setDeviceState, schedulePrivacyTrapReassert).
PrivacyStands ==
    Settled /\ intent = "privacy" /\ ~overtaken /\ ~disowned => mode = "privacy"

\* The same for every command that reports an error.  TLC refutes it: a commit that
\* is carried out and then fails opens the lens (setDeviceState).
FailureChangesNothing ==
    Settled /\ intent = "privacy" /\ ~overtaken => mode = "privacy"

\* The process does not exit with a re-assert's bounce as the saved intent,
\* when no re-assert failed or was scheduled after the drain (handleShutdown).
ExitKeepsIntent == life = "down" /\ ~excused /\ ~overtaken => belief = intent

\* privacy_trap.go: "only the still-current command is re-asserted".
ReassertIsCurrent ==
    [][\A r \in Reassert : owner # r /\ owner' = r => belief = goal[r]]_vars
=============================================================================
