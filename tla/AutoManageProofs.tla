------------------------- MODULE AutoManageProofs -------------------------
(***************************************************************************)
(* Proofs about AutoManage for any number of programs and any debounce.    *)
(*                                                                         *)
(* None of the three properties is inductive.  They need what a look, the  *)
(* scan of one process after the other, can be trusted for: a program that *)
(* held the camera throughout and could be read has not been passed over,  *)
(* and a program that was found has held it (LookIsHonest).  From that     *)
(* follow what the counters stand for (CountsAreEarned), what a pending    *)
(* transition stands for (VerdictIsEarned), and that the user's privacy    *)
(* outlives every shorter run of looks (VetoHolds).                        *)
(***************************************************************************)
EXTENDS AutoManage, TLAPS

Committed == {"start", "track", "extras", "end", "privacy", "report"}

\* Between ticks the locals are clear, and a dead process has no tick.
Resting ==
    /\ stage = "rest" => ~inUse /\ scanned = {}
    /\ ~up => stage = "rest" /\ veto = {}

LookIsHonest ==
    /\ steady \subseteq users
    /\ users # {} /\ stage = "look" => touched
    /\ stage = "look" => ~inUse /\ steady \cap scanned = {}
    /\ stage = "decide" => IF inUse THEN touched ELSE steady = {}

\* The counters never claim more than the looks have shown.
CountsAreEarned == debounceInUse <= busy /\ debounceIdle <= quiet

\* A transition is pending only after a full run of looks.
VerdictIsEarned ==
    /\ stage = "start" => ~inCall /\ busy = DebounceCount
    /\ stage = "end" => inCall /\ quiet = DebounceCount

\* The program that keeps the user's privacy keeps the looks from ending the call.
VetoHolds ==
    /\ VetoStands
    /\ stage \in {"start", "track", "end"} => veto = {}

\* From its decision on the tick acts on the auto mode in force, unless told since.
ModeIsCurrent ==
    /\ stage \in Committed /\ ~switched => mode = autoMode
    /\ stage = "track" => ActivatesTracking(mode)
    /\ stage = "privacy" => ActivatesPrivacy(mode)

IInv == /\ TypeOK /\ Resting /\ LookIsHonest /\ CountsAreEarned /\ VerdictIsEarned
        /\ VetoHolds /\ ModeIsCurrent

(* At first nothing runs and nobody holds the camera. *)
LEMMA InitIInv == Init => IInv
<1> SUFFICES ASSUME Init PROVE IInv
  OBVIOUS
<1>1. TypeOK
  <2>1. autoMode \in AutoMode /\ camera \in Mode /\ stage \in Stage /\ mode \in AutoMode
    BY DEF Init, AutoMode, Mode, Stage
  <2>2. 0 \in 0 .. DebounceCount
    BY DebounceAssumption
  <2>3. debounceInUse \in 0 .. DebounceCount /\ debounceIdle \in 0 .. DebounceCount
    BY <2>2 DEF Init
  <2>4. quiet \in 0 .. DebounceCount /\ busy \in 0 .. DebounceCount
    BY <2>2 DEF Init
  <2>5. QED
    BY <2>1, <2>3, <2>4 DEF Init, TypeOK
<1>2. Resting /\ LookIsHonest
  BY DEF Init, Resting, LookIsHonest
<1>3. CountsAreEarned /\ VerdictIsEarned
  BY DEF Init, CountsAreEarned, VerdictIsEarned
<1>4. VetoHolds /\ ModeIsCurrent
  BY DEF Init, VetoHolds, VetoStands, ModeIsCurrent, Committed
<1>5. QED
  BY <1>1, <1>2, <1>3, <1>4 DEF IInv

(* A counter is capped at the length of the run it counts to. *)
LEMMA CappedType ==
  ASSUME NEW n \in 0 .. DebounceCount
  PROVE  Capped(n + 1) \in 1 .. DebounceCount /\ (n + 1 >= DebounceCount => Capped(n + 1) = DebounceCount)
  BY DebounceAssumption DEF Capped

(* A longer run stays longer when both are counted up. *)
LEMMA CappedMonotone ==
  ASSUME NEW n \in 0 .. DebounceCount, NEW k \in 0 .. DebounceCount, n <= k
  PROVE  Capped(n + 1) <= Capped(k + 1)
  BY DebounceAssumption DEF Capped

(* Every step keeps the types: the counters stop at DebounceCount. *)
LEMMA TypeStep ==
  ASSUME TypeOK, [Next]_vars
  PROVE  TypeOK'
<1> USE DEF TypeOK, outside, state, counts, locals, look, history
<1>1. CASE Plug \/ Unplug \/ Crash \/ Restart \/ Probe
  <2>1. CASE Plug \/ Probe
    BY <2>1 DEF Plug, Probe
  <2>2. CASE Unplug
    BY <2>2 DEF Unplug
  <2>3. CASE Crash
    <3>1. 0 \in 0 .. DebounceCount
      BY DebounceAssumption
    <3>2. debounceInUse' \in 0 .. DebounceCount /\ debounceIdle' \in 0 .. DebounceCount
      BY <2>3, <3>1 DEF Crash
    <3>3. quiet' \in 0 .. DebounceCount /\ busy' \in 0 .. DebounceCount
      BY <2>3, <3>1 DEF Crash
    <3>4. stage' \in Stage /\ mode' \in AutoMode
      BY <2>3 DEF Crash, AtRest, AutoMode, Stage
    <3>5. QED
      BY <2>3, <3>2, <3>3, <3>4 DEF Crash, AtRest
  <2>4. CASE Restart
    BY <2>4 DEF Restart
  <2>5. QED
    BY <1>1, <2>1, <2>2, <2>3, <2>4
<1>2. ASSUME NEW p \in Program, OpenCamera(p) \/ CloseCamera(p) PROVE TypeOK'
  BY <1>2 DEF OpenCamera, CloseCamera
<1>3. ASSUME NEW m \in AutoMode, AutoCommand(m) PROVE TypeOK'
  BY <1>3 DEF AutoCommand
<1>4. ASSUME NEW m \in Mode, ModeCommand(m) PROVE TypeOK'
  BY <1>4 DEF ModeCommand
<1>5. CASE StartTick
  BY <1>5 DEF StartTick, Stage
<1>6. CASE Look
  <2>1. CASE LookFails
    BY <2>1 DEF LookFails, Stage
  <2>2. ASSUME NEW p \in Program, Scan(p) PROVE TypeOK'
    BY <2>2 DEF Scan, Stage
  <2>3. ASSUME NEW p \in Program, Overlook(p) PROVE TypeOK'
    BY <2>3 DEF Overlook, Stage
  <2>4. QED
    BY <1>6, <2>1, <2>2, <2>3 DEF Look
<1>7. CASE Decide
  <2>1. debounceInUse' \in 0 .. DebounceCount /\ debounceIdle' \in 0 .. DebounceCount
    BY <1>7, CappedType, DebounceAssumption DEF Decide, Count
  <2>2. quiet' \in 0 .. DebounceCount /\ busy' \in 0 .. DebounceCount
    BY <1>7, CappedType, DebounceAssumption DEF Decide
  <2>3. stage' \in Stage /\ mode' \in AutoMode
    BY <1>7 DEF Decide, Verdict, Reread, Stage
  <2>4. QED
    BY <1>7, <2>1, <2>2, <2>3 DEF Decide
<1>8. CASE CallStart \/ Track \/ Extras \/ CallEnd \/ Shut \/ Report
  <2>1. CASE CallStart
    BY <2>1 DEF CallStart, Stage
  <2>2. CASE Track
    BY <2>2 DEF Track, WriteMode, Stage, Mode
  <2>3. CASE Extras
    BY <2>3 DEF Extras, Stage
  <2>4. CASE CallEnd
    <3>1. shut' \in BOOLEAN
      <4>1. shut' = ActivatesPrivacy(mode)
        BY <2>4 DEF CallEnd
      <4>2. ActivatesPrivacy(mode) \in BOOLEAN
        BY DEF ActivatesPrivacy
      <4>3. QED
        BY <4>1, <4>2
    <3>2. stage' \in Stage
      BY <2>4 DEF CallEnd, Stage
    <3>3. QED
      BY <2>4, <3>1, <3>2 DEF CallEnd
  <2>5. CASE Shut
    BY <2>5 DEF Shut, WriteMode, Stage, Mode
  <2>6. CASE Report
    BY <2>6 DEF Report, AtRest, Stage, AutoMode
  <2>7. QED
    BY <1>8, <2>1, <2>2, <2>3, <2>4, <2>5, <2>6
<1>9. CASE UNCHANGED vars
  BY <1>9 DEF vars
<1>10. QED
  BY <1>1, <1>2, <1>3, <1>4, <1>5, <1>6, <1>7, <1>8, <1>9 DEF Next, Programs, Commands, Tick

(* The steps that take no part in a tick leave its locals alone. *)
LEMMA RestingStep ==
  ASSUME IInv, [Next]_vars
  PROVE  Resting'
<1> USE DEF IInv, Resting, VetoHolds, outside, state, counts, locals, look, history
<1>1. CASE Plug \/ Unplug \/ Crash \/ Restart \/ Probe
  BY <1>1 DEF Plug, Unplug, Crash, Restart, Probe, AtRest
<1>2. ASSUME NEW p \in Program, OpenCamera(p) \/ CloseCamera(p) PROVE Resting'
  BY <1>2 DEF OpenCamera, CloseCamera
<1>3. ASSUME NEW m \in AutoMode, AutoCommand(m) PROVE Resting'
  BY <1>3 DEF AutoCommand
<1>4. ASSUME NEW m \in Mode, ModeCommand(m) PROVE Resting'
  BY <1>4 DEF ModeCommand
<1>5. CASE StartTick
  BY <1>5 DEF StartTick
<1>6. CASE Look
  BY <1>6 DEF Look, LookFails, Scan, Overlook
<1>7. CASE Decide
  BY <1>7 DEF Decide, Verdict
<1>8. CASE CallStart \/ Track \/ Extras \/ CallEnd \/ Shut \/ Report
  BY <1>8 DEF CallStart, Track, Extras, CallEnd, Shut, Report, AtRest
<1>9. CASE UNCHANGED vars
  BY <1>9 DEF vars
<1>10. QED
  BY <1>1, <1>2, <1>3, <1>4, <1>5, <1>6, <1>7, <1>8, <1>9 DEF Next, Programs, Commands, Tick

(* A look that passes a program over has seen it without the camera, and one *)
(* that has passed all of them over leaves nobody who held it throughout.    *)
LEMMA LookStep ==
  ASSUME IInv, [Next]_vars
  PROVE  LookIsHonest'
<1> USE DEF IInv, Resting, LookIsHonest, outside, state, counts, locals, look, history
<1>1. CASE Plug \/ Unplug \/ Crash \/ Restart \/ Probe
  BY <1>1 DEF Plug, Unplug, Crash, Restart, Probe, AtRest
<1>2. ASSUME NEW p \in Program, OpenCamera(p) PROVE LookIsHonest'
  BY <1>2 DEF OpenCamera
<1>3. ASSUME NEW p \in Program, CloseCamera(p) PROVE LookIsHonest'
  BY <1>3 DEF CloseCamera
<1>4. ASSUME NEW m \in AutoMode, AutoCommand(m) PROVE LookIsHonest'
  BY <1>4 DEF AutoCommand
<1>5. ASSUME NEW m \in Mode, ModeCommand(m) PROVE LookIsHonest'
  BY <1>5 DEF ModeCommand
<1>6. CASE StartTick
  BY <1>6 DEF StartTick
<1>7. ASSUME NEW p \in Program, Scan(p) \/ Overlook(p) PROVE LookIsHonest'
  <2>1. CASE Scan(p) /\ p \in users
    BY <2>1 DEF Scan
  <2>2. CASE (Scan(p) /\ p \notin users) \/ Overlook(p)
    <3>1. /\ stage = "look" /\ scanned' = scanned \cup {p} /\ ~inUse' /\ touched' = touched
          /\ users' = users /\ steady' \subseteq steady /\ p \notin steady'
          /\ stage' = IF scanned' = Program THEN "decide" ELSE "look"
      BY <2>2 DEF Scan, Overlook
    <3>2. steady' \cap scanned' = {}
      BY <3>1
    <3>3. steady' \subseteq Program
      BY <3>1 DEF TypeOK
    <3>4. scanned' = Program => steady' = {}
      BY <3>2, <3>3
    <3>5. QED
      BY <3>1, <3>2, <3>4
  <2>3. QED
    BY <1>7, <2>1, <2>2
<1>8. CASE Decide \/ LookFails
  BY <1>8 DEF Decide, Verdict, LookFails
<1>9. CASE CallStart \/ Track \/ Extras \/ CallEnd \/ Shut \/ Report
  BY <1>9 DEF CallStart, Track, Extras, CallEnd, Shut, Report, AtRest
<1>10. CASE UNCHANGED vars
  BY <1>10 DEF vars
<1>11. QED
  BY <1>1, <1>2, <1>3, <1>4, <1>5, <1>6, <1>7, <1>8, <1>9, <1>10
  DEF Next, Programs, Commands, Tick, Look

(* Only Decide counts, and it counts a look only for what the look proves. *)
LEMMA CountsStep ==
  ASSUME IInv, [Next]_vars
  PROVE  CountsAreEarned'
<1> USE DEF IInv, CountsAreEarned, outside, state, counts, locals, look, history
<1>1. CASE Plug \/ Unplug \/ Crash \/ Restart \/ Probe \/ StartTick
  BY <1>1 DEF Plug, Unplug, Crash, Restart, Probe, StartTick
<1>2. CASE Programs \/ Look
  BY <1>2 DEF Programs, OpenCamera, CloseCamera, Look, LookFails, Scan, Overlook
<1>3. ASSUME NEW m \in AutoMode, AutoCommand(m) PROVE CountsAreEarned'
  BY <1>3 DEF AutoCommand
<1>4. ASSUME NEW m \in Mode, ModeCommand(m) PROVE CountsAreEarned'
  BY <1>4 DEF ModeCommand
<1>5. CASE Decide
  <2>1. /\ debounceInUse \in 0 .. DebounceCount /\ busy \in 0 .. DebounceCount
        /\ debounceIdle \in 0 .. DebounceCount /\ quiet \in 0 .. DebounceCount
    BY DEF TypeOK
  <2>2. CASE inUse
    <3>1. touched
      BY <1>5, <2>2 DEF Decide, LookIsHonest
    <3>2. debounceInUse' = Capped(debounceInUse + 1) /\ busy' = Capped(busy + 1)
      BY <1>5, <2>2, <3>1 DEF Decide, Count
    <3>3. debounceIdle' = 0 /\ (quiet' = 0 \/ quiet' = Capped(quiet + 1))
      BY <1>5, <2>2 DEF Decide, Count
    <3>4. QED
      BY <2>1, <3>2, <3>3, CappedMonotone, CappedType
  <2>3. CASE ~inUse
    <3>1. steady = {}
      BY <1>5, <2>3 DEF Decide, LookIsHonest
    <3>2. debounceIdle' = Capped(debounceIdle + 1) /\ quiet' = Capped(quiet + 1)
      BY <1>5, <2>3, <3>1 DEF Decide, Count
    <3>3. debounceInUse' = 0 /\ (busy' = 0 \/ busy' = Capped(busy + 1))
      BY <1>5, <2>3 DEF Decide, Count
    <3>4. QED
      BY <2>1, <3>2, <3>3, CappedMonotone, CappedType
  <2>4. QED
    BY <2>2, <2>3
<1>6. CASE CallStart \/ Track \/ Extras \/ CallEnd \/ Shut \/ Report
  BY <1>6 DEF CallStart, Track, Extras, CallEnd, Shut, Report
<1>7. CASE UNCHANGED vars
  BY <1>7 DEF vars
<1>8. QED
  BY <1>1, <1>2, <1>3, <1>4, <1>5, <1>6, <1>7 DEF Next, Programs, Commands, Tick

(* A transition is chosen when its counter is full, and the history with it. *)
LEMMA VerdictStep ==
  ASSUME IInv, CountsAreEarned', TypeOK', [Next]_vars
  PROVE  VerdictIsEarned'
<1> USE DEF IInv, VerdictIsEarned, outside, state, counts, locals, look, history
<1>1. CASE Plug \/ Unplug \/ Crash \/ Restart \/ Probe \/ StartTick
  BY <1>1 DEF Plug, Unplug, Crash, Restart, Probe, StartTick, AtRest
<1>2. CASE Programs \/ Look
  BY <1>2 DEF Programs, OpenCamera, CloseCamera, Look, LookFails, Scan, Overlook
<1>3. ASSUME NEW m \in AutoMode, AutoCommand(m) PROVE VerdictIsEarned'
  BY <1>3 DEF AutoCommand
<1>4. ASSUME NEW m \in Mode, ModeCommand(m) PROVE VerdictIsEarned'
  BY <1>4 DEF ModeCommand
<1>5. CASE Decide
  <2>1. stage' = "start" => ~inCall /\ debounceInUse' >= DebounceCount
    BY <1>5 DEF Decide, Verdict
  <2>2. stage' = "end" => inCall /\ debounceIdle' >= DebounceCount
    BY <1>5 DEF Decide, Verdict
  <2>3. debounceInUse' >= DebounceCount => busy' = DebounceCount
    BY DebounceAssumption DEF TypeOK, CountsAreEarned
  <2>4. debounceIdle' >= DebounceCount => quiet' = DebounceCount
    BY DebounceAssumption DEF TypeOK, CountsAreEarned
  <2>5. UNCHANGED inCall
    BY <1>5 DEF Decide
  <2>6. QED
    BY <2>1, <2>2, <2>3, <2>4, <2>5
<1>6. CASE CallStart \/ Track \/ Extras \/ CallEnd \/ Shut \/ Report
  BY <1>6 DEF CallStart, Track, Extras, CallEnd, Shut, Report, AtRest
<1>7. CASE UNCHANGED vars
  BY <1>7 DEF vars
<1>8. QED
  BY <1>1, <1>2, <1>3, <1>4, <1>5, <1>6, <1>7 DEF Next, Programs, Commands, Tick

(* While the user's privacy stands a call is on, so none starts, and one that *)
(* ends does so after a full run of looks that lifted it.                     *)
LEMMA VetoStep ==
  ASSUME IInv, VerdictIsEarned', [Next]_vars
  PROVE  VetoHolds'
<1> USE DEF IInv, VetoHolds, VetoStands, outside, state, counts, locals, look, history
<1>1. CASE Plug \/ Unplug \/ Crash \/ Probe
  BY <1>1 DEF Plug, Unplug, Crash, Probe, AtRest
<1>2. CASE Restart
  BY <1>2 DEF Restart, Resting
<1>3. ASSUME NEW p \in Program, OpenCamera(p) PROVE VetoHolds'
  BY <1>3 DEF OpenCamera
<1>4. ASSUME NEW p \in Program, CloseCamera(p) PROVE VetoHolds'
  BY <1>4 DEF CloseCamera
<1>5. ASSUME NEW m \in AutoMode, AutoCommand(m) PROVE VetoHolds'
  BY <1>5 DEF AutoCommand
<1>6. ASSUME NEW m \in Mode, ModeCommand(m) PROVE VetoHolds'
  BY <1>6 DEF ModeCommand
<1>7. CASE StartTick
  BY <1>7 DEF StartTick
<1>8. CASE Look
  BY <1>8 DEF Look, LookFails, Scan, Overlook
<1>9. CASE Decide
  <2>1. veto' = {} \/ veto' = veto
    BY <1>9 DEF Decide
  <2>2. stage' \in {"start", "end", "report"} /\ UNCHANGED <<inCall, camera>>
    BY <1>9 DEF Decide, Verdict
  <2>3. stage' = "start" => veto' = {}
    BY <2>1, <2>2 DEF VerdictIsEarned
  <2>4. stage' = "end" => veto' = {}
    BY <1>9 DEF Decide, VerdictIsEarned
  <2>5. QED
    BY <2>1, <2>2, <2>3, <2>4
<1>10. CASE CallStart \/ CallEnd
  BY <1>10 DEF CallStart, CallEnd
<1>11. CASE Track \/ Shut
  BY <1>11 DEF Track, Shut, WriteMode
<1>12. CASE Extras \/ Report
  BY <1>12 DEF Extras, Report, AtRest
<1>13. CASE UNCHANGED vars
  BY <1>13 DEF vars
<1>14. QED
  BY <1>1, <1>2, <1>3, <1>4, <1>5, <1>6, <1>7, <1>8, <1>9, <1>10, <1>11, <1>12, <1>13
  DEF Next, Programs, Commands, Tick

(* Decide reads the auto mode again, and later auto commands leave a trace. *)
LEMMA ModeStep ==
  ASSUME IInv, [Next]_vars
  PROVE  ModeIsCurrent'
<1> USE DEF IInv, ModeIsCurrent, Committed, outside, state, counts, locals, look, history
<1>1. CASE Plug \/ Unplug \/ Crash \/ Probe \/ StartTick
  BY <1>1 DEF Plug, Unplug, Crash, Probe, StartTick, AtRest
<1>2. CASE Restart
  BY <1>2 DEF Restart, Resting
<1>3. CASE Programs \/ Look
  BY <1>3 DEF Programs, OpenCamera, CloseCamera, Look, LookFails, Scan, Overlook
<1>4. ASSUME NEW m \in AutoMode, AutoCommand(m) PROVE ModeIsCurrent'
  <2>1. stage' = stage /\ mode' = mode /\ (stage \in Committed => switched')
    BY <1>4, Zenon DEF AutoCommand
  <2>2. QED
    BY <2>1
<1>5. ASSUME NEW m \in Mode, ModeCommand(m) PROVE ModeIsCurrent'
  BY <1>5 DEF ModeCommand
<1>6. CASE Decide
  BY <1>6 DEF Decide, Verdict, Reread
<1>7. CASE CallStart \/ CallEnd
  BY <1>7 DEF CallStart, CallEnd
<1>8. CASE Track \/ Extras \/ Shut \/ Report
  BY <1>8 DEF Track, Extras, Shut, Report, AtRest
<1>9. CASE UNCHANGED vars
  BY <1>9 DEF vars
<1>10. QED
  BY <1>1, <1>2, <1>3, <1>4, <1>5, <1>6, <1>7, <1>8, <1>9 DEF Next, Programs, Commands, Tick

(* The invariant is inductive. *)
LEMMA StepIInv == IInv /\ [Next]_vars => IInv'
<1> SUFFICES ASSUME IInv, [Next]_vars PROVE IInv'
  OBVIOUS
<1>1. TypeOK' /\ CountsAreEarned'
  BY TypeStep, CountsStep DEF IInv
<1>2. VerdictIsEarned'
  BY <1>1, VerdictStep
<1>3. QED
  BY <1>1, <1>2, RestingStep, LookStep, VetoStep, ModeStep DEF IInv

(* It holds in every reachable state. *)
LEMMA Invariance == Spec => []IInv
  BY InitIInv, StepIInv, PTL DEF Spec

(* The variables keep their types; the debounce counters never leave         *)
(* 0 .. DebounceCount (autoManage).                                          *)
THEOREM TypeCorrect == Spec => []TypeOK
<1>1. IInv => TypeOK
  BY DEF IInv
<1>2. QED
  BY <1>1, Invariance, PTL

(* Privacy chosen in a call stands as long as a program that was in it keeps *)
(* the camera, until a full run of looks has found no program that it could  *)
(* read and that sat through it (handleCallStart, isCameraInUse).            *)
THEOREM PrivacyOutlivesLooks == Spec => []VetoStands
<1>1. IInv => VetoStands
  BY DEF IInv, VetoHolds
<1>2. QED
  BY <1>1, Invariance, PTL

(* Calls begin and end only after DebounceCount looks that speak for it: none *)
(* without a holder of the camera, none with one that it could read and that  *)
(* sat through it (autoManage, handleCallStart, handleCallEnd).               *)
THEOREM OnlyRealCalls == Spec => CallsAreReal
<1>1. ASSUME IInv, [Next]_vars
      PROVE  /\ ~inCall /\ inCall' => busy = DebounceCount
             /\ inCall /\ ~inCall' /\ up' => quiet = DebounceCount
  <2> USE DEF outside, state, counts, locals, look, history
  <2>1. CASE Plug \/ Unplug \/ Crash \/ Restart \/ Probe \/ StartTick \/ Decide
    BY <2>1 DEF Plug, Unplug, Crash, Restart, Probe, StartTick, Decide
  <2>2. CASE Programs
    BY <2>2 DEF Programs, OpenCamera, CloseCamera
  <2>3. CASE Commands
    BY <2>3 DEF Commands, AutoCommand, ModeCommand, Probe
  <2>4. CASE Look
    <3>1. UNCHANGED inCall
      BY <2>4 DEF Look, LookFails, Scan, Overlook
    <3>2. QED
      BY <3>1
  <2>5. CASE CallStart
    BY <1>1, <2>5 DEF IInv, VerdictIsEarned, CallStart
  <2>6. CASE CallEnd
    BY <1>1, <2>6 DEF IInv, VerdictIsEarned, CallEnd
  <2>7. CASE Track \/ Extras \/ Shut \/ Report
    <3>1. UNCHANGED inCall
      BY <2>7 DEF Track, Extras, Shut, Report
    <3>2. QED
      BY <3>1
  <2>8. CASE UNCHANGED vars
    BY <2>8 DEF vars
  <2>9. QED
    BY <1>1, <2>1, <2>2, <2>3, <2>4, <2>5, <2>6, <2>7, <2>8 DEF Next, Tick
<1>2. QED
  BY <1>1, Invariance, PTL DEF Spec, CallsAreReal

(* The tick moves the lens only as the auto mode in force allows             *)
(* (autoManage, applyAutoMode).                                              *)
THEOREM AutoModeIsRespected == Spec => AutoModeRespected
<1>1. ASSUME IInv, [Next]_vars, MovesLens, ~switched
      PROVE  IF camera' = "tracking" THEN ActivatesTracking(autoMode)
                                     ELSE ActivatesPrivacy(autoMode)
  <2> USE DEF outside, state, counts, locals, look, history
  <2>1. up /\ stage \in {"track", "privacy"} /\ camera' # camera
    BY <1>1 DEF IInv, Resting, MovesLens
  <2>2. Track \/ Shut
    <3>1. ~(UNCHANGED vars) /\ ~Plug /\ ~Unplug /\ ~Crash /\ ~Probe
      BY <2>1 DEF vars, Plug, Unplug, Crash, Probe
    <3>2. ~Restart /\ ~StartTick /\ ~Decide
      BY <2>1 DEF Restart, StartTick, Decide
    <3>3. ~Programs /\ ~Commands
      BY <2>1 DEF Programs, OpenCamera, CloseCamera, Commands, AutoCommand, ModeCommand, Probe
    <3>4. ~Look
      BY <2>1 DEF Look, LookFails, Scan, Overlook
    <3>5. ~CallStart /\ ~Extras /\ ~CallEnd /\ ~Report
      BY <2>1 DEF CallStart, Extras, CallEnd, Report
    <3>6. QED
      BY <1>1, <3>1, <3>2, <3>3, <3>4, <3>5 DEF Next, Tick
  <2>3. mode = autoMode
    BY <1>1, <2>1 DEF IInv, ModeIsCurrent, Committed
  <2>4. CASE Track
    <3>1. camera' = "tracking" /\ ActivatesTracking(mode)
      BY <1>1, <2>1, <2>4 DEF Track, WriteMode, IInv, ModeIsCurrent
    <3>2. QED
      BY <2>3, <3>1
  <2>5. CASE Shut
    <3>1. camera' = "privacy" /\ ActivatesPrivacy(mode)
      BY <1>1, <2>1, <2>5 DEF Shut, WriteMode, IInv, ModeIsCurrent
    <3>2. QED
      BY <2>3, <3>1
  <2>6. QED
    BY <2>2, <2>4, <2>5
<1>2. QED
  BY <1>1, Invariance, PTL DEF Spec, AutoModeRespected
=============================================================================
