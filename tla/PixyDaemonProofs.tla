-------------------------- MODULE PixyDaemonProofs --------------------------
(***************************************************************************)
(* Proofs about PixyDaemon for every camera (any secondary interfaces and  *)
(* settings), every breaker threshold and any number of pending events.    *)
(*                                                                         *)
(* The properties are not inductive alone.  IInv adds what the owner of    *)
(* hidMu relies on between its steps: it has a write to do, its guard has  *)
(* seen a closed breaker, what it configured nobody else replaced, and     *)
(* what it read or wrote since power came is what the firmware runs.       *)
(***************************************************************************)
EXTENDS PixyDaemon, SequenceTheorems, TLAPS

JobType ==
    /\ holder \in Holder /\ pc \in Step /\ cont \in Cont
    /\ todo \in Seq(Write) /\ unread \in Seq(Iface)
    /\ seen \in PartialSettings
    /\ fresh \in SUBSET Iface

\* The locals of the owner of hidMu fit its step, and a dead process has none.
JobShape ==
    /\ (holder = "none") <=> (pc = "idle")
    /\ pc \in {"guard", "config", "commit", "apply"} => todo # <<>>
    /\ cont = "secondary" => pc \in {"speeds", "query"}
    /\ pc # "query" => seen = Blank

\* From guard to mutator no failure of others can open the breaker.
GuardStillHolds == pc \in {"config", "commit", "apply"} => strikes < Threshold

DeadKnowsNothing == ~Alive => holder = "none" /\ known = {}

CameraType ==
    /\ powered \in BOOLEAN /\ nodes \in SUBSET Nodes
    /\ fw \in Settings /\ staged \in PartialSettings
    /\ uevents \in 0 .. MaxUevents

DaemonType ==
    /\ status \in Status /\ view \in SUBSET Nodes
    /\ belief \in Settings /\ persisted \in BOOLEAN
    /\ strikes \in 0 .. Threshold /\ startup \in BOOLEAN

RecordType ==
    /\ disk \in Settings \cup {None}
    /\ known \in SUBSET Iface /\ saveFailed \in BOOLEAN

WellFormed ==
    /\ CameraType /\ DaemonType /\ JobType /\ RecordType
    /\ JobShape /\ GuardStillHolds /\ DeadKnowsNothing

(* The queries of a sync ask interfaces. *)
LEMMA SecondaryQueries == Secondary \in Seq(Iface)
<1>1. Secondary \in [1 .. Len(Secondary) -> STRING] /\ Len(Secondary) \in Nat
  BY SecondaryAssumption
<1>2. \A k \in 1 .. Len(Secondary) : Secondary[k] \in Iface
  BY <1>1 DEF Iface, SecondarySet
<1>3. QED
  BY <1>1, <1>2

LEMMA SyncQueries == SyncOrder \in Seq(Iface)
<1>1. <<"tracking">> \in Seq(Iface)
  BY DEF Iface
<1>2. QED
  BY <1>1, SecondaryQueries DEF SyncOrder

LEMMA BlankType == Blank \in PartialSettings
  BY DEF Blank, PartialSettings

LEMMA WriteType == \A w \in Write : w.iface \in Iface /\ w.val \in Setting[w.iface]
                                    /\ w.val \in AllSettings
  BY DEF Write

(* Unlocking hidMu leaves well-formed locals. *)
LEMMA ReleaseShape ==
  ASSUME Release
  PROVE  JobType' /\ JobShape' /\ pc' = "idle"
  BY BlankType DEF Release, JobType, JobShape, Holder, Step, Cont, Blank

(* A broadcast that panics unlocks hidMu or leaves it locked with nothing to do. *)
LEMMA BroadcastPanicsShape ==
  ASSUME JobType, JobShape, BroadcastPanics
  PROVE  /\ JobType' /\ JobShape' /\ pc' \in {"idle", "lost"}
         /\ cont' = "release" /\ seen' = Blank
<1>1. CASE Release
  BY <1>1, ReleaseShape DEF Release
<1>2. CASE ~Release
  <2>1. /\ holder' = "command" /\ pc' = "lost" /\ cont' = "release"
        /\ todo' = <<>> /\ unread' = <<>> /\ seen' = Blank /\ fresh' = {}
    BY <1>2 DEF BroadcastPanics
  <2>2. JobType'
    BY <2>1, BlankType DEF JobType, Holder, Step, Cont
  <2>3. JobShape'
    BY <2>1 DEF JobShape, Blank
  <2>4. QED
    BY <2>1, <2>2, <2>3
<1>3. QED
  BY <1>1, <1>2

(* However a write ends, its owner goes on with well-formed locals. *)
LEMMA WriteReturnsShape ==
  ASSUME JobType, JobShape, pc \in {"guard", "config", "commit", "apply"},
         WriteReturns \/ BroadcastPanics
  PROVE  JobType' /\ JobShape' /\ pc' \in {"idle", "guard", "speeds", "save", "lost"}
<1>0. CASE BroadcastPanics
  BY <1>0, BroadcastPanicsShape
<1> SUFFICES ASSUME WriteReturns
             PROVE  JobType' /\ JobShape' /\ pc' \in {"idle", "guard", "speeds", "save"}
  BY <1>0
<1>1. CASE Tail(todo) # <<>>
  <2>1. Tail(todo) \in Seq(Write)
    BY HeadTailProperties DEF JobType, JobShape
  <2>2. /\ pc' = "guard" /\ todo' = Tail(todo)
        /\ UNCHANGED <<holder, cont, unread, seen, fresh>>
    BY <1>1 DEF WriteReturns
  <2>3. JobType'
    BY <2>1, <2>2 DEF JobType, Step
  <2>4. JobShape'
    BY <1>1, <2>2 DEF JobShape, Blank
  <2>5. QED
    BY <2>2, <2>3, <2>4
<1>2. CASE Tail(todo) = <<>>
  <2>1. CASE cont = "release"
    BY <1>2, <2>1, ReleaseShape DEF WriteReturns
  <2>2. CASE cont = "speeds"
    <3>1. /\ pc' = "speeds" /\ cont' = "secondary" /\ todo' = <<>>
          /\ UNCHANGED <<holder, unread, seen, fresh>>
      BY <1>2, <2>2 DEF WriteReturns
    <3>2. JobType'
      BY <3>1 DEF JobType, Step, Cont
    <3>3. JobShape'
      BY <3>1 DEF JobShape, Blank
    <3>4. QED
      BY <3>1, <3>2, <3>3
  <2>3. CASE cont = "save"
    <3>1. /\ pc' = "save" /\ cont' = "release" /\ todo' = <<>>
          /\ UNCHANGED <<holder, unread, seen, fresh>>
      BY <1>2, <2>3 DEF WriteReturns
    <3>2. JobType'
      BY <3>1 DEF JobType, Step, Cont
    <3>3. JobShape'
      BY <3>1 DEF JobShape, Blank
    <3>4. QED
      BY <3>1, <3>2, <3>3
  <2>4. QED
    BY <1>2, <2>1, <2>2, <2>3 DEF WriteReturns
<1>3. QED
  BY <1>1, <1>2 DEF WriteReturns

(* So does a reconcile, whose tick goes on to auto-manage. *)
LEMMA ReconcileReturnsShape ==
  ASSUME JobType, JobShape, pc # "idle", ReconcileReturns
  PROVE  JobType' /\ JobShape' /\ pc' \in {"idle", "auto"}
<1>1. CASE holder = "tick"
  <2>1. /\ holder' = "tick" /\ pc' = "auto" /\ cont' = "release"
        /\ todo' = <<>> /\ unread' = <<>> /\ seen' = Blank /\ fresh' = {}
    BY <1>1 DEF ReconcileReturns
  <2>2. JobType'
    BY <2>1, BlankType DEF JobType, Holder, Step, Cont
  <2>3. JobShape'
    BY <2>1 DEF JobShape, Blank
  <2>4. QED
    BY <2>1, <2>2, <2>3
<1>2. CASE holder # "tick"
  BY <1>2, ReleaseShape DEF ReconcileReturns
<1>3. QED
  BY <1>1, <1>2

(* And a batch of speed reports, after which a reconcile still has queries to
   make and a preset push positions to send. *)
LEMMA SpeedsReturnShape ==
  ASSUME JobType, JobShape, pc = "speeds", SpeedsReturn \/ BroadcastPanics
  PROVE  JobType' /\ JobShape' /\ pc' \in {"idle", "query", "speeds", "lost"}
<1>0. CASE BroadcastPanics
  BY <1>0, BroadcastPanicsShape
<1> SUFFICES ASSUME SpeedsReturn
             PROVE  JobType' /\ JobShape' /\ pc' \in {"idle", "query", "speeds"}
  BY <1>0
<1>1. CASE cont = "secondary"
  <2>1. /\ pc' = "query" /\ unread' = Secondary
        /\ UNCHANGED <<holder, cont, todo, seen, fresh>>
    BY <1>1 DEF SpeedsReturn
  <2>2. JobType'
    BY <2>1, SecondaryQueries DEF JobType, Step
  <2>3. JobShape'
    BY <2>1 DEF JobShape, Blank
  <2>4. QED
    BY <2>1, <2>2, <2>3
<1>2. CASE cont = "positions"
  <2>1. pc' = "speeds" /\ cont' = "pushed" /\ UNCHANGED <<holder, todo, unread, seen, fresh>>
    BY <1>2 DEF SpeedsReturn
  <2>2. JobType'
    BY <2>1 DEF JobType, Step, Cont
  <2>3. JobShape'
    BY <2>1 DEF JobShape, Blank
  <2>4. QED
    BY <2>1, <2>2, <2>3
<1>3. CASE cont \in {"release", "pushed", "save"}
  BY <1>3, ReleaseShape DEF SpeedsReturn
<1>4. QED
  BY <1>1, <1>2, <1>3 DEF SpeedsReturn

LEMMA SpeedSentShape ==
  ASSUME JobType, JobShape, SendSpeed
  PROVE  JobType' /\ JobShape' /\ pc' \in {"speeds", "save"} /\ UNCHANGED <<seen, fresh>>
<1>1. /\ pc' \in {"speeds", "save"} /\ cont' \in {cont, "release"}
      /\ cont' = "secondary" => pc' = "speeds"
      /\ UNCHANGED <<holder, todo, unread, seen, fresh>>
  BY DEF SendSpeed, history
<1>2. JobType'
  BY <1>1 DEF JobType, Step, Cont
<1>3. JobShape'
  BY <1>1 DEF JobShape, SendSpeed, Blank
<1>4. QED
  BY <1>1, <1>2, <1>3

(* Taking hidMu for writes or queries. *)
LEMMA AcquireShape ==
  ASSUME JobType, JobShape,
         NEW h \in Holder \ {"none"}, NEW step \in Step \ {"idle"},
         NEW writes \in Seq(Write), NEW queries \in Seq(Iface),
         NEW c \in Cont \ {"secondary"},
         step = "guard" => writes # <<>>,
         step \notin {"config", "commit", "apply"},
         Acquire(h, step, c, writes, queries)
  PROVE  JobType' /\ JobShape' /\ pc' = step
<1>1. /\ holder' = h /\ pc' = step /\ cont' = c
      /\ todo' = writes /\ unread' = queries /\ UNCHANGED <<seen, fresh>>
  BY DEF Acquire
<1>2. seen = Blank
  BY DEF Acquire, JobShape
<1>3. JobType'
  BY <1>1 DEF JobType, Cont
<1>4. JobShape'
  BY <1>1, <1>2 DEF JobShape, Blank
<1>5. QED
  BY <1>1, <1>3, <1>4

(* A probe never adds strikes, and no failure exceeds the threshold. *)
LEMMA ProbeType ==
  ASSUME nodes \in SUBSET Nodes, NEW s \in 0 .. Threshold, ApplyProbe(s)
  PROVE  view' \in SUBSET Nodes /\ strikes' \in 0 .. Threshold /\ strikes' <= s
  BY BoundAssumption DEF ApplyProbe

LEMMA FailureType ==
  ASSUME nodes \in SUBSET Nodes, view \in SUBSET Nodes,
         strikes \in 0 .. Threshold, strikes < Threshold, RecordSendFailure
  PROVE  view' \in SUBSET Nodes /\ strikes' \in 0 .. Threshold
<1>1. CASE strikes + 1 < Threshold
  BY <1>1, ProbeType, BoundAssumption, strikes + 1 \in 0 .. Threshold DEF RecordSendFailure
<1>2. CASE ~(strikes + 1 < Threshold)
  BY <1>2, BoundAssumption DEF RecordSendFailure
<1>3. QED
  BY <1>1, <1>2

(* A save writes what it is given or nothing. *)
LEMMA SaveType ==
  ASSUME disk \in Settings \cup {None}, persisted \in BOOLEAN,
         NEW b \in Settings, SaveState(b)
  PROVE  /\ disk' \in Settings \cup {None}
         /\ persisted' \in BOOLEAN /\ saveFailed' \in BOOLEAN
  BY DEF SaveState
-----------------------------------------------------------------------------
(* Well-formedness. *)

LEMMA OwnerIsAlive ==
  ASSUME WellFormed, pc # "idle"
  PROVE  Alive
  BY DEF WellFormed, JobShape, DeadKnowsNothing

(* A step that changes only the locals of hidMu's owner. *)
LEMMA JobOnly ==
  ASSUME WellFormed, Alive, UNCHANGED <<camera, daemon, disk, known, saveFailed>>,
         JobType', JobShape', GuardStillHolds'
  PROVE  WellFormed'
<1>1. CameraType' /\ DaemonType' /\ RecordType'
  BY DEF WellFormed, CameraType, DaemonType, RecordType, camera, hardware, daemon
<1>2. Alive'
  BY DEF Alive, daemon
<1>3. QED
  BY <1>1, <1>2 DEF WellFormed, DeadKnowsNothing

(* Losing the process leaves the initial locals. *)
LEMMA DieWellFormed ==
  ASSUME WellFormed, NEW how \in {"stopped", "panicked"}, Die(how)
  PROVE  WellFormed'
<1>1. CameraType'
  BY BoundAssumption DEF WellFormed, CameraType, Die, hardware
<1>2. DaemonType'
  <2>1. /\ status' = how /\ view' = {} /\ belief' = Default
        /\ persisted' = FALSE /\ strikes' = 0 /\ startup' = FALSE
    BY DEF Die
  <2>2. 0 \in 0 .. Threshold /\ Default \in Settings
    BY BoundAssumption, SettingAssumption
  <2>3. QED
    BY <2>1, <2>2 DEF DaemonType, Status
<1>3. JobType' /\ JobShape'
  BY BlankType DEF Die, JobType, JobShape, Holder, Step, Cont, Blank
<1>4. RecordType'
  BY DEF WellFormed, RecordType, Die
<1>5. GuardStillHolds' /\ DeadKnowsNothing'
  BY DEF Die, GuardStillHolds, DeadKnowsNothing
<1>6. QED
  BY <1>1, <1>2, <1>3, <1>4, <1>5 DEF WellFormed

LEMMA PanicWellFormed ==
  ASSUME WellFormed, pc # "idle", NilHandlePanic
  PROVE  WellFormed'
<1>1. CASE Die("panicked")
  BY <1>1, DieWellFormed
<1>2. CASE Release /\ UNCHANGED <<camera, daemon, disk, known, saveFailed>>
  <2>1. GuardStillHolds'
    BY <1>2, ReleaseShape DEF GuardStillHolds
  <2>2. QED
    BY <1>2, <2>1, ReleaseShape, OwnerIsAlive, JobOnly
<1>3. QED
  BY <1>1, <1>2 DEF NilHandlePanic

LEMMA EnvironmentWellFormed ==
  ASSUME WellFormed, Environment
  PROVE  WellFormed'
<1>1. CameraType'
  <2>1. CASE PowerLoss
    BY <2>1, BlankType, SettingAssumption DEF PowerLoss, WellFormed, CameraType
  <2>2. CASE PowerUp
    BY <2>2 DEF PowerUp, WellFormed, CameraType
  <2>3. ASSUME NEW n \in Nodes, NodeDown(n) \/ NodeUp(n)
        PROVE  CameraType'
    BY <2>3, BoundAssumption DEF NodeDown, NodeUp, NodeEvent, WellFormed, CameraType
  <2>4. QED
    BY <2>1, <2>2, <2>3 DEF Environment
<1>2. /\ UNCHANGED <<daemon, disk, holder, pc, cont, todo, unread, seen, saveFailed>>
      /\ known' \in {known, {}} /\ fresh' \in {fresh, {}}
  BY DEF Environment, PowerLoss, PowerUp, NodeDown, NodeUp, job, history
<1>3. DaemonType' /\ RecordType'
  BY <1>2 DEF WellFormed, DaemonType, RecordType, daemon
<1>4. JobType'
  BY <1>2 DEF WellFormed, JobType
<1>5. JobShape' /\ GuardStillHolds'
  BY <1>2 DEF WellFormed, JobShape, GuardStillHolds, daemon, Blank
<1>6. DeadKnowsNothing'
  BY <1>2 DEF WellFormed, DeadKnowsNothing, Alive, daemon
<1>7. QED
  BY <1>1, <1>3, <1>4, <1>5, <1>6 DEF WellFormed

LEMMA LifecycleWellFormed ==
  ASSUME WellFormed, Lifecycle
  PROVE  WellFormed'
<1>1. CASE Crash
  BY <1>1, DieWellFormed DEF Crash
<1>2. CASE Restart
  <2>1. CameraType' /\ RecordType'
    BY <1>2 DEF Restart, WellFormed, CameraType, RecordType, camera, hardware, history
  <2>2. DaemonType'
    BY <1>2, SettingAssumption, BoundAssumption
    DEF Restart, WellFormed, CameraType, DaemonType, RecordType, Status
  <2>3. JobType' /\ JobShape' /\ UNCHANGED <<holder, pc>> /\ holder = "none"
    BY <1>2 DEF Restart, WellFormed, JobType, JobShape, DeadKnowsNothing, job, history, Blank
  <2>4. GuardStillHolds' /\ DeadKnowsNothing'
    BY <1>2, <2>3 DEF Restart, WellFormed, GuardStillHolds, DeadKnowsNothing, Alive, JobShape
  <2>5. QED
    BY <2>1, <2>2, <2>3, <2>4 DEF WellFormed
<1>3. ASSUME \/ Listen \/ (\E next \in {"running", "stopping"} : Signal(next))
             \/ ProbeCommand \/ SaveCommand
      PROVE  WellFormed'
  <2>1. UNCHANGED <<camera, belief, startup, job, known, fresh>> /\ Alive /\ Alive'
    BY <1>3 DEF Listen, Signal, ProbeCommand, SaveCommand, EventLoopFree, Alive, history
  <2>2. CameraType'
    BY <2>1 DEF WellFormed, CameraType, camera, hardware
  <2>3. /\ view' \in SUBSET Nodes /\ status' \in Status
        /\ strikes' \in 0 .. Threshold /\ strikes' <= strikes
    <3>1. CASE ProbeCommand
      BY <3>1, ProbeType DEF ProbeCommand, WellFormed, CameraType, DaemonType
    <3>2. CASE ~ProbeCommand
      BY <1>3, <3>2 DEF Listen, Signal, SaveCommand, WellFormed, DaemonType, Status
    <3>3. QED
      BY <3>1, <3>2
  <2>4. persisted' \in BOOLEAN /\ saveFailed' \in BOOLEAN /\ disk' \in Settings \cup {None}
    <3>1. CASE (\E next \in {"running", "stopping"} : Signal(next)) \/ SaveCommand
      BY <3>1, SaveType DEF Signal, SaveCommand, WellFormed, DaemonType, RecordType
    <3>2. CASE Listen \/ ProbeCommand
      BY <3>2 DEF Listen, ProbeCommand, WellFormed, DaemonType, RecordType, history
    <3>3. QED
      BY <1>3, <3>1, <3>2
  <2>5. DaemonType' /\ RecordType'
    BY <2>1, <2>3, <2>4 DEF WellFormed, DaemonType, RecordType
  <2>6. JobType' /\ JobShape'
    BY <2>1 DEF WellFormed, JobType, JobShape, job, Blank
  <2>7. GuardStillHolds'
    BY <2>1, <2>3, BoundAssumption DEF WellFormed, DaemonType, GuardStillHolds, job
  <2>8. DeadKnowsNothing'
    BY <2>1 DEF DeadKnowsNothing
  <2>9. QED
    BY <2>2, <2>5, <2>6, <2>7, <2>8 DEF WellFormed
<1>4. QED
  BY <1>1, <1>2, <1>3 DEF Lifecycle, SaveOnHangup, Shutdown

LEMMA TakeHidMuWellFormed ==
  ASSUME WellFormed, TakeHidMu
  PROVE  WellFormed'
<1>0. JobType /\ JobShape /\ <<>> \in Seq(Write) /\ <<>> \in Seq(Iface)
  BY DEF WellFormed
<1>1. ASSUME NEW w \in Write, StartCommand(w)
      PROVE  WellFormed'
  <2>1. <<w>> \in Seq(Write) /\ <<w>> # <<>>
    OBVIOUS
  <2>2. JobType' /\ JobShape' /\ pc' = "guard"
    BY <1>0, <1>1, <2>1, AcquireShape DEF StartCommand, Holder, Step, Cont
  <2>3. QED
    BY <1>1, <2>2, JobOnly DEF StartCommand, GuardStillHolds
<1>2. CASE StartSpeed
  <2>1. JobType' /\ JobShape' /\ pc' = "speeds"
    BY <1>0, <1>2, AcquireShape DEF StartSpeed, Holder, Step, Cont
  <2>2. QED
    BY <1>2, <2>1, JobOnly DEF StartSpeed, GuardStillHolds
<1>3. CASE StartSync
  <2>1. JobType' /\ JobShape' /\ pc' = "query"
    BY <1>0, <1>3, AcquireShape, SyncQueries DEF StartSync, Holder, Step, Cont
  <2>2. QED
    BY <1>3, <2>1, JobOnly DEF StartSync, GuardStillHolds
<1>4. CASE StartStartup
  <2>1. JobType' /\ JobShape' /\ pc' = "reconcile"
    BY <1>0, <1>4, AcquireShape DEF StartStartup, Holder, Step, Cont
  <2>2. CameraType' /\ DaemonType' /\ RecordType'
    BY <1>4 DEF StartStartup, WellFormed, CameraType, DaemonType, RecordType, camera, hardware
  <2>3. GuardStillHolds' /\ DeadKnowsNothing'
    BY <1>4, <2>1 DEF StartStartup, GuardStillHolds, DeadKnowsNothing, Alive
  <2>4. QED
    BY <2>1, <2>2, <2>3 DEF WellFormed
<1>5. ASSUME StartUevent \/ StartTick
      PROVE  WellFormed'
  <2>1. /\ JobType' /\ JobShape' /\ pc' \in {"idle", "reconcile", "auto"}
    <3>1. CASE \E h \in {"uevent", "tick"}, step \in {"reconcile", "auto"} :
                  Acquire(h, step, "release", <<>>, <<>>)
      <4>1. PICK h \in {"uevent", "tick"}, step \in {"reconcile", "auto"} :
               Acquire(h, step, "release", <<>>, <<>>)
        BY <3>1
      <4>2. h \in Holder \ {"none"} /\ step \in Step \ {"idle"}
            /\ step \notin {"guard", "config", "commit", "apply"}
            /\ "release" \in Cont \ {"secondary"}
        BY DEF Holder, Step, Cont
      <4>3. QED
        BY <1>0, <4>1, <4>2, AcquireShape
    <3>2. CASE holder = "none" /\ UNCHANGED <<job, fresh>>
      BY <1>0, <3>2 DEF JobType, JobShape, job, Blank
    <3>3. QED
      BY <1>5, <3>1, <3>2 DEF StartUevent, StartTick
  <2>2. CameraType'
    BY <1>5, BoundAssumption
    DEF StartUevent, StartTick, WellFormed, CameraType, camera, hardware
  <2>3. view' \in SUBSET Nodes /\ strikes' \in 0 .. Threshold
    BY <1>5, ProbeType DEF StartUevent, StartTick, WellFormed, CameraType, DaemonType
  <2>4. DaemonType' /\ RecordType' /\ Alive'
    BY <1>5, <2>3
    DEF StartUevent, StartTick, EventLoopFree, Alive, WellFormed, DaemonType, RecordType
  <2>5. QED
    BY <2>1, <2>2, <2>4 DEF WellFormed, GuardStillHolds, DeadKnowsNothing
<1>6. QED
  BY <1>1, <1>2, <1>3, <1>4, <1>5 DEF TakeHidMu

(* The current write, for the steps of setDeviceState. *)
LEMMA CurrentWrite ==
  ASSUME WellFormed, pc \in {"guard", "config", "commit", "apply"}
  PROVE  Iface0 \in Iface /\ Val0 \in Setting[Iface0] /\ Val0 \in AllSettings
<1>1. todo[1] \in Write
  BY DEF WellFormed, JobType, JobShape
<1>2. QED
  BY <1>1, WriteType DEF Iface0, Val0

LEMMA SettingsUpdate ==
  ASSUME NEW s \in Settings, NEW i \in Iface, NEW v \in Setting[i], v \in AllSettings
  PROVE  [s EXCEPT ![i] = v] \in Settings
  BY DEF Settings

LEMMA PartialUpdate ==
  ASSUME NEW s \in PartialSettings, NEW i \in Iface,
         NEW v, v = None \/ (v \in Setting[i] /\ v \in AllSettings)
  PROVE  [s EXCEPT ![i] = v] \in PartialSettings
  BY DEF PartialSettings

LEMMA PartialValue ==
  ASSUME NEW s \in PartialSettings, NEW i \in Iface, s[i] # None
  PROVE  s[i] \in Setting[i] /\ s[i] \in AllSettings
  BY DEF PartialSettings

LEMMA WriteStepsWellFormed ==
  ASSUME WellFormed,
         GuardWrite \/ SendConfig \/ SendConfigFails \/ CancelBeforeCommit
         \/ SendCommit \/ SendCommitDropped \/ SendCommitFails \/ ApplyMutator
  PROVE  WellFormed'
<1>0. /\ JobType /\ JobShape /\ pc \in {"guard", "config", "commit", "apply"}
      /\ Alive /\ Iface0 \in Iface /\ Val0 \in Setting[Iface0] /\ Val0 \in AllSettings
  <2>1. pc \in {"guard", "config", "commit", "apply"}
    BY DEF GuardWrite, SendConfig, SendConfigFails, CancelBeforeCommit, SendCommit,
           SendCommitDropped, SendCommitFails, ApplyMutator
  <2>2. QED
    BY <2>1, CurrentWrite, OwnerIsAlive DEF WellFormed
<1>1. CASE GuardWrite
  <2>1. CASE SendAllowed
    <3>1. JobType' /\ JobShape' /\ pc' = "config" /\ UNCHANGED strikes
      BY <1>0, <1>1, <2>1 DEF GuardWrite, Goto, JobType, JobShape, Step, Blank, daemon
    <3>2. GuardStillHolds'
      BY <2>1, <3>1 DEF SendAllowed, GuardStillHolds
    <3>3. QED
      BY <1>0, <1>1, <3>1, <3>2, JobOnly DEF GuardWrite
  <2>2. CASE ~SendAllowed
    <3>1. JobType' /\ JobShape' /\ pc' \in {"idle", "guard", "speeds", "save", "lost"}
      BY <1>0, <1>1, <2>2, WriteReturnsShape DEF GuardWrite
    <3>2. QED
      BY <1>0, <1>1, <3>1, JobOnly DEF GuardWrite, GuardStillHolds
  <2>3. QED
    BY <2>1, <2>2
<1>2. CASE SendConfig
  <2>1. CameraType'
    BY <1>0, <1>2, PartialUpdate DEF SendConfig, WellFormed, CameraType
  <2>2. DaemonType' /\ RecordType'
    BY <1>2 DEF SendConfig, WellFormed, DaemonType, RecordType, daemon, history
  <2>3. JobType' /\ JobShape'
    BY <1>0, <1>2 DEF SendConfig, Goto, JobType, JobShape, Step, Blank, history
  <2>4. GuardStillHolds' /\ DeadKnowsNothing'
    BY <1>0, <1>2
    DEF SendConfig, Goto, WellFormed, GuardStillHolds, DeadKnowsNothing, Alive, daemon
  <2>5. QED
    BY <2>1, <2>2, <2>3, <2>4 DEF WellFormed
<1>3. CASE SendConfigFails
  <2>1. JobType' /\ JobShape' /\ pc' \in {"idle", "guard", "speeds", "save", "lost"}
    BY <1>0, <1>3, WriteReturnsShape DEF SendConfigFails
  <2>2. view' \in SUBSET Nodes /\ strikes' \in 0 .. Threshold
    BY <1>3, FailureType
    DEF SendConfigFails, WellFormed, CameraType, DaemonType, GuardStillHolds
  <2>3. CameraType' /\ DaemonType' /\ RecordType'
    <3>1. staged' \in PartialSettings
      BY <1>0, <1>3, PartialUpdate DEF SendConfigFails, WellFormed, CameraType
    <3>2. QED
      BY <1>3, <2>2, <3>1
      DEF SendConfigFails, WellFormed, CameraType, DaemonType, RecordType
  <2>4. GuardStillHolds' /\ DeadKnowsNothing'
    BY <1>0, <1>3, <2>1 DEF SendConfigFails, GuardStillHolds, DeadKnowsNothing, Alive
  <2>5. QED
    BY <2>1, <2>3, <2>4 DEF WellFormed
<1>4. CASE CancelBeforeCommit
  <2>1. JobType' /\ JobShape' /\ pc' \in {"idle", "guard", "speeds", "save", "lost"}
    BY <1>0, <1>4, WriteReturnsShape DEF CancelBeforeCommit
  <2>2. QED
    BY <1>0, <1>4, <2>1, JobOnly DEF CancelBeforeCommit, GuardStillHolds
<1>5. CASE SendCommit
  <2>1. CameraType'
    <3>1. staged[Iface0] \in Setting[Iface0] /\ staged[Iface0] \in AllSettings
      BY <1>0, <1>5, PartialValue DEF SendCommit, WellFormed, CameraType
    <3>2. fw' \in Settings
      BY <1>0, <1>5, <3>1, SettingsUpdate DEF SendCommit, WellFormed, CameraType
    <3>3. staged' \in PartialSettings
      BY <1>0, <1>5, PartialUpdate DEF SendCommit, WellFormed, CameraType
    <3>4. QED
      BY <1>5, <3>2, <3>3 DEF SendCommit, WellFormed, CameraType
  <2>2. DaemonType' /\ RecordType'
    BY <1>5 DEF SendCommit, WellFormed, DaemonType, RecordType, daemon
  <2>3. JobType' /\ JobShape'
    BY <1>0, <1>5 DEF SendCommit, Goto, JobType, JobShape, Step, Blank
  <2>4. GuardStillHolds' /\ DeadKnowsNothing'
    BY <1>0, <1>5
    DEF SendCommit, Goto, WellFormed, GuardStillHolds, DeadKnowsNothing, Alive, daemon
  <2>5. QED
    BY <2>1, <2>2, <2>3, <2>4 DEF WellFormed
<1>6. CASE SendCommitFails
  <2>1. JobType' /\ JobShape' /\ pc' \in {"idle", "guard", "speeds", "save", "lost"}
    BY <1>0, <1>6, WriteReturnsShape DEF SendCommitFails
  <2>2. strikes' \in 0 .. Threshold
    BY <1>6, BoundAssumption DEF SendCommitFails, WellFormed, DaemonType, GuardStillHolds
  <2>3. CameraType'
    <3>1. CASE UNCHANGED <<fw, staged, known>>
      BY <1>6, <3>1 DEF SendCommitFails, WellFormed, CameraType
    <3>2. CASE /\ staged[Iface0] # None
               /\ fw' = [fw EXCEPT ![Iface0] = staged[Iface0]]
               /\ staged' = [staged EXCEPT ![Iface0] = None]
      <4>1. staged[Iface0] \in Setting[Iface0] /\ staged[Iface0] \in AllSettings
        BY <1>0, <3>2, PartialValue DEF WellFormed, CameraType
      <4>2. fw' \in Settings /\ staged' \in PartialSettings
        BY <1>0, <3>2, <4>1, SettingsUpdate, PartialUpdate DEF WellFormed, CameraType
      <4>3. QED
        BY <1>6, <4>2 DEF SendCommitFails, WellFormed, CameraType
    <3>3. QED
      BY <1>6, <3>1, <3>2 DEF SendCommitFails
  <2>4. DaemonType' /\ RecordType'
    BY <1>6, <2>2 DEF SendCommitFails, WellFormed, DaemonType, RecordType
  <2>5. GuardStillHolds' /\ DeadKnowsNothing'
    BY <1>0, <1>6, <2>1 DEF SendCommitFails, GuardStillHolds, DeadKnowsNothing, Alive
  <2>6. QED
    BY <2>1, <2>3, <2>4, <2>5 DEF WellFormed
<1>7. CASE ApplyMutator
  <2>1. JobType' /\ JobShape' /\ pc' \in {"idle", "guard", "speeds", "save", "lost"}
    BY <1>0, <1>7, WriteReturnsShape DEF ApplyMutator
  <2>2. belief' \in Settings
    BY <1>0, <1>7, SettingsUpdate DEF ApplyMutator, WellFormed, DaemonType
  <2>3. /\ disk' \in Settings \cup {None}
        /\ persisted' \in BOOLEAN /\ saveFailed' \in BOOLEAN
    BY <1>7, <2>2, SaveType DEF ApplyMutator, WellFormed, DaemonType, RecordType
  <2>4. CameraType' /\ DaemonType' /\ RecordType'
    BY <1>0, <1>7, <2>2, <2>3, BoundAssumption
    DEF ApplyMutator, WellFormed, CameraType, DaemonType, RecordType, camera, hardware
  <2>5. GuardStillHolds' /\ DeadKnowsNothing'
    BY <1>0, <1>7, <2>1 DEF ApplyMutator, GuardStillHolds, DeadKnowsNothing, Alive
  <2>6. QED
    BY <2>1, <2>4, <2>5 DEF WellFormed
<1>8. CASE SendCommitDropped
  <2>1. CameraType'
    <3>1. staged' \in PartialSettings
      BY <1>0, <1>8, PartialUpdate DEF SendCommitDropped, WellFormed, CameraType
    <3>2. QED
      BY <1>8, <3>1 DEF SendCommitDropped, WellFormed, CameraType
  <2>2. DaemonType' /\ RecordType'
    BY <1>8 DEF SendCommitDropped, WellFormed, DaemonType, RecordType, daemon
  <2>3. JobType' /\ JobShape'
    BY <1>0, <1>8 DEF SendCommitDropped, Goto, JobType, JobShape, Step, Blank
  <2>4. GuardStillHolds' /\ DeadKnowsNothing'
    BY <1>0, <1>8
    DEF SendCommitDropped, Goto, WellFormed, GuardStillHolds, DeadKnowsNothing, Alive, daemon
  <2>5. QED
    BY <2>1, <2>2, <2>3, <2>4 DEF WellFormed
<1>9. QED
  BY <1>1, <1>2, <1>3, <1>4, <1>5, <1>6, <1>7, <1>8

LEMMA AdoptedSettings ==
  ASSUME belief \in Settings, seen \in PartialSettings
  PROVE  [i \in Iface |-> IF seen[i] = None THEN belief[i] ELSE seen[i]] \in Settings
  BY DEF Settings, PartialSettings

LEMMA ReadStepsWellFormed ==
  ASSUME WellFormed,
         \/ EndSpeeds \/ SendSpeed \/ SendSpeedFails
         \/ QueryAnswered \/ QueryFails \/ QueryNilHandle \/ Adopt
  PROVE  WellFormed'
<1>0. JobType /\ JobShape /\ pc \in {"speeds", "query"} /\ Alive
  <2>1. pc \in {"speeds", "query"}
    BY DEF EndSpeeds, SendSpeed, SendSpeedFails, QueryAnswered, QueryFails,
           QueryNilHandle, Adopt
  <2>2. QED
    BY <2>1, OwnerIsAlive DEF WellFormed
<1>1. CASE EndSpeeds
  <2>1. JobType' /\ JobShape' /\ pc' \in {"idle", "query", "speeds", "lost"}
    BY <1>0, <1>1, SpeedsReturnShape DEF EndSpeeds
  <2>2. QED
    BY <1>0, <1>1, <2>1, JobOnly DEF EndSpeeds, GuardStillHolds
<1>2. ASSUME SendSpeed \/ SendSpeedFails
      PROVE  WellFormed'
  <2>1. JobType' /\ JobShape' /\ pc' \in {"idle", "query", "speeds", "save", "lost"}
    BY <1>0, <1>2, SpeedsReturnShape, SpeedSentShape DEF SendSpeedFails
  <2>2. view' \in SUBSET Nodes /\ strikes' \in 0 .. Threshold
    <3>1. CASE SendSpeed
      BY <3>1, BoundAssumption DEF SendSpeed, WellFormed, DaemonType
    <3>2. CASE SendSpeedFails
      BY <3>2, FailureType
      DEF SendSpeedFails, SendAllowed, WellFormed, CameraType, DaemonType
    <3>3. QED
      BY <1>2, <3>1, <3>2
  <2>3. CameraType' /\ DaemonType' /\ RecordType'
    BY <1>2, <2>2
    DEF SendSpeed, SendSpeedFails, WellFormed, CameraType, DaemonType, RecordType,
        camera, hardware, history
  <2>4. GuardStillHolds' /\ DeadKnowsNothing'
    BY <1>0, <1>2, <2>1
    DEF SendSpeed, SendSpeedFails, GuardStillHolds, DeadKnowsNothing, Alive
  <2>5. QED
    BY <2>1, <2>3, <2>4 DEF WellFormed
<1>3. ASSUME QueryAnswered \/ QueryFails
      PROVE  WellFormed'
  <2>1. Head(unread) \in Iface /\ Tail(unread) \in Seq(Iface)
    BY <1>0, <1>3, HeadTailProperties DEF QueryAnswered, QueryFails, JobType
  <2>2. seen' \in PartialSettings
    <3>1. CASE QueryFails
      BY <1>0, <3>1 DEF QueryFails, JobType
    <3>2. CASE QueryAnswered
      <4>1. PICK v \in Answer(Head(unread)) : seen' = [seen EXCEPT ![Head(unread)] = v]
        BY <3>2 DEF QueryAnswered
      <4>2. v \in Setting[Head(unread)] /\ v \in AllSettings
        BY <2>1 DEF Answer, AllSettings
      <4>3. QED
        BY <1>0, <2>1, <4>1, <4>2, PartialUpdate DEF JobType
    <3>3. QED
      BY <1>3, <3>1, <3>2
  <2>3. known' \in SUBSET Iface /\ fresh' \in SUBSET Iface
    BY <1>0, <1>3, <2>1
    DEF QueryAnswered, QueryFails, WellFormed, RecordType, JobType, history
  <2>4. JobType'
    BY <1>0, <1>3, <2>1, <2>2, <2>3 DEF QueryAnswered, QueryFails, JobType
  <2>5. JobShape' /\ GuardStillHolds'
    BY <1>0, <1>3 DEF QueryAnswered, QueryFails, JobShape, GuardStillHolds, Blank
  <2>6. CameraType' /\ DaemonType' /\ RecordType'
    BY <1>3, <2>3
    DEF QueryAnswered, QueryFails, WellFormed, CameraType, DaemonType, RecordType,
        camera, hardware, daemon, history
  <2>7. DeadKnowsNothing'
    BY <1>0, <1>3 DEF QueryAnswered, QueryFails, DeadKnowsNothing, Alive, daemon
  <2>8. QED
    BY <2>4, <2>5, <2>6, <2>7 DEF WellFormed
<1>4. CASE QueryNilHandle
  BY <1>0, <1>4, PanicWellFormed DEF QueryNilHandle
<1>5. CASE Adopt
  <2>1. JobType' /\ JobShape' /\ pc' \in {"idle", "auto"}
    BY <1>0, <1>5, ReconcileReturnsShape DEF Adopt
  <2>2. belief' \in Settings
    BY <1>0, <1>5, AdoptedSettings DEF Adopt, WellFormed, DaemonType, JobType
  <2>3. /\ disk' \in Settings \cup {None}
        /\ persisted' \in BOOLEAN /\ saveFailed' \in BOOLEAN
    BY <1>5, <2>2, SaveType DEF Adopt, WellFormed, DaemonType, RecordType
  <2>4. CameraType' /\ DaemonType' /\ RecordType'
    BY <1>0, <1>5, <2>2, <2>3
    DEF Adopt, WellFormed, CameraType, DaemonType, RecordType, camera, hardware, JobType
  <2>5. GuardStillHolds' /\ DeadKnowsNothing'
    BY <1>0, <1>5, <2>1 DEF Adopt, GuardStillHolds, DeadKnowsNothing, Alive
  <2>6. QED
    BY <2>1, <2>4, <2>5 DEF WellFormed
<1>6. QED
  BY <1>1, <1>2, <1>3, <1>4, <1>5

LEMMA ReconcileStepsWellFormed ==
  ASSUME WellFormed,
         \/ ReconcileGivesUp \/ Reconcile \/ Verify \/ VerifyFails \/ VerifyNilHandle
         \/ AutoQuiet \/ (\E plan \in AutoPlans : AutoTransition(plan)) \/ FinalSave
  PROVE  WellFormed'
<1>0. JobType /\ JobShape /\ pc \in {"reconcile", "verify", "auto", "save"} /\ Alive
  <2>1. pc \in {"reconcile", "verify", "auto", "save"}
    BY DEF ReconcileGivesUp, Reconcile, Verify, VerifyFails, VerifyNilHandle, AutoQuiet,
           AutoTransition, FinalSave
  <2>2. QED
    BY <2>1, OwnerIsAlive DEF WellFormed
<1>1. ASSUME ReconcileGivesUp \/ VerifyFails \/ AutoQuiet
      PROVE  WellFormed'
  <2>1. JobType' /\ JobShape' /\ pc' \in {"idle", "auto"}
    BY <1>0, <1>1, ReconcileReturnsShape, ReleaseShape
    DEF ReconcileGivesUp, VerifyFails, AutoQuiet
  <2>2. QED
    BY <1>0, <1>1, <2>1, JobOnly
    DEF ReconcileGivesUp, VerifyFails, AutoQuiet, GuardStillHolds
<1>2. CASE Reconcile
  <2>1. JobType' /\ JobShape' /\ pc' \in {"verify", "query"}
    BY <1>0, <1>2, SyncQueries DEF Reconcile, JobType, JobShape, Step, Blank, history
  <2>2. QED
    BY <1>0, <1>2, <2>1, JobOnly DEF Reconcile, GuardStillHolds, history
<1>3. CASE Verify
  <2>1. <<[iface |-> "tracking", val |-> belief["tracking"]]>> \in Seq(Write)
    BY DEF WellFormed, DaemonType, Settings, Write, Iface
  <2>2. JobType' /\ JobShape' /\ pc' \in {"speeds", "guard"}
    <3>1. /\ pc' \in {"speeds", "guard"} /\ cont' \in {"speeds", "secondary"}
          /\ cont' = "secondary" => pc' = "speeds"
          /\ todo' \in Seq(Write) /\ (pc' = "guard" => todo' # <<>>)
          /\ UNCHANGED <<holder, unread, seen, fresh>>
      <4>1. UNCHANGED <<holder, unread, seen, fresh>>
        BY <1>3 DEF Verify
      <4>2. CASE pc' = "speeds" /\ cont' = "secondary" /\ UNCHANGED todo
        BY <1>0, <4>1, <4>2 DEF JobType
      <4>3. CASE /\ pc' = "guard" /\ cont' = "speeds"
                 /\ todo' = <<[iface |-> "tracking", val |-> belief["tracking"]]>>
        <5>1. todo' # <<>>
          BY <4>3
        <5>2. QED
          BY <2>1, <4>1, <4>3, <5>1
      <4>4. QED
        BY <1>3, <4>2, <4>3 DEF Verify
    <3>2. JobType'
      BY <1>0, <3>1 DEF JobType, Step, Cont
    <3>3. JobShape'
      BY <1>0, <3>1 DEF JobShape, Blank
    <3>4. QED
      BY <3>1, <3>2, <3>3
  <2>3. CameraType' /\ DaemonType' /\ RecordType'
    BY <1>3
    DEF Verify, WellFormed, CameraType, DaemonType, RecordType, camera, hardware, daemon, Iface
  <2>4. GuardStillHolds' /\ DeadKnowsNothing'
    BY <1>0, <1>3, <2>2 DEF Verify, GuardStillHolds, DeadKnowsNothing, Alive, daemon
  <2>5. QED
    BY <2>2, <2>3, <2>4 DEF WellFormed
<1>4. CASE VerifyNilHandle
  BY <1>0, <1>4, PanicWellFormed DEF VerifyNilHandle
<1>5. ASSUME NEW plan \in AutoPlans, AutoTransition(plan)
      PROVE  WellFormed'
  <2>1. plan \in Seq(Write)
    BY PlanAssumption
  <2>2. /\ pc' \in {"save", "guard"} /\ cont' \in {cont, "save"}
        /\ todo' \in Seq(Write) /\ (pc' = "guard" => todo' # <<>>)
        /\ UNCHANGED <<holder, unread, seen, fresh>>
    BY <1>0, <1>5, <2>1 DEF AutoTransition, JobType, history
  <2>3. JobType'
    BY <1>0, <2>2 DEF JobType, Step, Cont
  <2>4. JobShape'
    BY <1>0, <2>2 DEF JobShape, Blank
  <2>5. QED
    BY <1>0, <1>5, <2>2, <2>3, <2>4, JobOnly DEF AutoTransition, GuardStillHolds, history
<1>6. CASE FinalSave
  <2>1. JobType' /\ JobShape' /\ pc' \in {"idle", "lost"}
    BY <1>0, <1>6, ReleaseShape, BroadcastPanicsShape DEF FinalSave
  <2>2. /\ disk' \in Settings \cup {None}
        /\ persisted' \in BOOLEAN /\ saveFailed' \in BOOLEAN
    BY <1>6, SaveType DEF FinalSave, WellFormed, DaemonType, RecordType
  <2>3. CameraType' /\ DaemonType' /\ RecordType'
    BY <1>6, <2>2
    DEF FinalSave, WellFormed, CameraType, DaemonType, RecordType, camera, hardware
  <2>4. GuardStillHolds' /\ DeadKnowsNothing'
    BY <1>0, <1>6, <2>1 DEF FinalSave, GuardStillHolds, DeadKnowsNothing, Alive
  <2>5. QED
    BY <2>1, <2>3, <2>4 DEF WellFormed
<1>7. QED
  BY <1>1, <1>2, <1>3, <1>4, <1>5, <1>6

LEMMA InitWellFormed == Init => WellFormed
<1> SUFFICES ASSUME Init PROVE WellFormed
  OBVIOUS
<1>1. CameraType
  BY BoundAssumption, SettingAssumption, BlankType DEF Init, CameraType, Nodes
<1>2. DaemonType
  <2>1. 0 \in 0 .. Threshold /\ Default \in Settings
    BY BoundAssumption, SettingAssumption
  <2>2. QED
    BY <2>1 DEF Init, DaemonType, Status
<1>3. JobType /\ JobShape
  BY BlankType DEF Init, JobType, JobShape, Holder, Step, Cont
<1>4. RecordType /\ GuardStillHolds /\ DeadKnowsNothing
  BY DEF Init, RecordType, GuardStillHolds, DeadKnowsNothing
<1>5. QED
  BY <1>1, <1>2, <1>3, <1>4 DEF WellFormed

LEMMA StepWellFormed == WellFormed /\ [Next]_vars => WellFormed'
<1> SUFFICES ASSUME WellFormed, [Next]_vars PROVE WellFormed'
  OBVIOUS
<1>1. CASE Next
  BY <1>1, EnvironmentWellFormed, LifecycleWellFormed, TakeHidMuWellFormed,
     WriteStepsWellFormed, ReadStepsWellFormed, ReconcileStepsWellFormed
  DEF Next, JobStep
<1>2. CASE UNCHANGED vars
  <2>1. CameraType' /\ DaemonType' /\ JobType' /\ RecordType'
    BY <1>2
    DEF vars, camera, hardware, daemon, job, history,
        WellFormed, CameraType, DaemonType, JobType, RecordType
  <2>2. JobShape' /\ GuardStillHolds' /\ DeadKnowsNothing'
    BY <1>2
    DEF vars, daemon, job, history, WellFormed, JobShape, GuardStillHolds,
        DeadKnowsNothing, Alive, Blank
  <2>3. QED
    BY <2>1, <2>2 DEF WellFormed
<1>3. QED
  BY <1>1, <1>2

(* Every variable keeps its type, and the strikes never exceed the threshold:
   the breaker's guard and the accounting of the two kinds of failed reports
   agree under every interleaving of probes, commands and reconciles. *)
THEOREM TypeCorrect == Spec => []TypeOK
<1>1. WellFormed => TypeOK
  BY DEF WellFormed, CameraType, DaemonType, JobType, RecordType, TypeOK
<1>2. QED
  BY <1>1, InitWellFormed, StepWellFormed, PTL DEF Spec
-----------------------------------------------------------------------------
(* What the daemon believes is what the camera runs. *)

\* A commit can only commit the config of the same write: nobody else wrote
\* between, and a power cycle leaves nothing to commit.
CommitsOwnConfig == pc = "commit" => staged[Iface0] \in {Val0, None}

\* Between commit and mutator nobody claims to know the interface, and if the
\* power stayed the firmware runs what the mutator will note.
WrittenIsTrue ==
    pc = "apply" => /\ Iface0 \notin known
                    /\ Iface0 \in fresh => fw[Iface0] = Val0

\* An answer is still true, or power was lost and nothing is known any more.
SeenIsTrue ==
    \A i \in Iface : seen[i] # None =>
        IF i \in fresh THEN seen[i] = fw[i] ELSE i \notin known

Truth ==
    /\ SyncedBeliefAccurate
    /\ CommitsOwnConfig /\ WrittenIsTrue /\ SeenIsTrue

LEMMA InitTruth == Init => Truth
  BY DEF Init, Truth, SyncedBeliefAccurate, CommitsOwnConfig, WrittenIsTrue, SeenIsTrue, Blank

LEMMA BlankIsTrue == ASSUME seen = Blank PROVE SeenIsTrue
  BY DEF SeenIsTrue, Blank

(* A step that touches neither firmware nor belief, and does not claim to know
   more, keeps the truth if it leaves the write and query steps alone. *)
LEMMA QuietStepTrue ==
  ASSUME Truth, WellFormed, WellFormed', UNCHANGED <<fw, belief, known>>,
         pc' \notin {"commit", "apply"},
         pc' = "query" => (seen' = Blank \/ UNCHANGED <<seen, fresh>>)
  PROVE  Truth'
<1>1. SyncedBeliefAccurate'
  BY DEF Truth, SyncedBeliefAccurate
<1>2. CommitsOwnConfig' /\ WrittenIsTrue'
  BY DEF CommitsOwnConfig, WrittenIsTrue
<1>3. SeenIsTrue'
  <2>1. CASE seen' = Blank
    BY <2>1 DEF SeenIsTrue, Blank
  <2>2. CASE seen' # Blank
    <3>1. UNCHANGED <<seen, fresh>>
      BY <2>2 DEF WellFormed, JobShape, Blank
    <3>2. QED
      BY <3>1 DEF Truth, SeenIsTrue
  <2>3. QED
    BY <2>1, <2>2
<1>4. QED
  BY <1>1, <1>2, <1>3 DEF Truth

LEMMA NothingKnownTrue ==
  ASSUME known' = {}, seen' = Blank, pc' = "idle"
  PROVE  Truth'
  BY DEF Truth, SyncedBeliefAccurate, CommitsOwnConfig, WrittenIsTrue, SeenIsTrue, Blank

(* The steps of everybody but the owner of hidMu. *)
LEMMA OutsideStepTrue ==
  ASSUME Truth, WellFormed, WellFormed', Environment \/ Lifecycle
  PROVE  Truth'
<1>1. CASE PowerLoss
  <2>1. known' = {} /\ fresh' = {} /\ UNCHANGED <<pc, todo, seen>> /\ staged' = Blank
    BY <1>1 DEF PowerLoss, job
  <2>2. SyncedBeliefAccurate' /\ SeenIsTrue' /\ WrittenIsTrue'
    BY <2>1 DEF SyncedBeliefAccurate, SeenIsTrue, WrittenIsTrue
  <2>3. CommitsOwnConfig'
    <3>1. CASE pc = "commit"
      BY <2>1, <3>1, CurrentWrite DEF CommitsOwnConfig, Blank, Iface0
    <3>2. QED
      BY <2>1, <3>1 DEF CommitsOwnConfig
  <2>4. QED
    BY <2>2, <2>3 DEF Truth
<1>2. CASE Crash
  BY <1>2, NothingKnownTrue DEF Crash, Die
<1>3. CASE Restart
  BY <1>3, NothingKnownTrue
  DEF Restart, WellFormed, DeadKnowsNothing, JobShape, job, history, Blank
<1>4. ASSUME \/ PowerUp \/ (\E n \in Nodes : NodeDown(n) \/ NodeUp(n))
             \/ Listen \/ SaveOnHangup \/ Shutdown \/ ProbeCommand \/ SaveCommand
      PROVE  Truth'
  <2>1. UNCHANGED <<fw, staged, belief, known, fresh, pc, todo, seen>>
    BY <1>4
    DEF PowerUp, NodeDown, NodeUp, Listen, SaveOnHangup, Shutdown, Signal, ProbeCommand, SaveCommand,
        camera, hardware, daemon, job, history
  <2>2. QED
    BY <2>1
    DEF Truth, SyncedBeliefAccurate, CommitsOwnConfig, WrittenIsTrue, SeenIsTrue, Iface0, Val0
<1>5. QED
  BY <1>1, <1>2, <1>3, <1>4 DEF Environment, Lifecycle

LEMMA AcquireTrue ==
  ASSUME Truth, WellFormed, WellFormed', TakeHidMu
  PROVE  Truth'
<1>1. UNCHANGED <<fw, belief, known, seen, fresh>>
  BY DEF TakeHidMu, StartCommand, StartSpeed, StartSync, StartStartup, StartUevent, StartTick,
         Acquire, camera, hardware, daemon, job
<1>2. pc' \notin {"commit", "apply"}
  BY DEF TakeHidMu, StartCommand, StartSpeed, StartSync, StartStartup, StartUevent, StartTick,
         Acquire, job, WellFormed, JobShape
<1>3. QED
  BY <1>1, <1>2, QuietStepTrue

LEMMA WriteStepTrue ==
  ASSUME Truth, WellFormed, WellFormed',
         GuardWrite \/ SendConfig \/ SendConfigFails \/ CancelBeforeCommit
         \/ SendCommit \/ SendCommitDropped \/ SendCommitFails \/ ApplyMutator
  PROVE  Truth'
<1>0. /\ JobType /\ JobShape /\ pc \in {"guard", "config", "commit", "apply"}
      /\ Iface0 \in Iface /\ Val0 \in AllSettings
  <2>1. pc \in {"guard", "config", "commit", "apply"}
    BY DEF GuardWrite, SendConfig, SendConfigFails, CancelBeforeCommit, SendCommit,
           SendCommitDropped, SendCommitFails, ApplyMutator
  <2>2. QED
    BY <2>1, CurrentWrite DEF WellFormed
<1>a. ASSUME WriteReturns \/ BroadcastPanics
      PROVE  pc' \in {"idle", "guard", "speeds", "save", "lost"}
  BY <1>0, <1>a, WriteReturnsShape
<1>1. CASE GuardWrite \/ SendConfigFails \/ CancelBeforeCommit
  <2>1. pc' \notin {"commit", "apply", "query"} /\ UNCHANGED <<fw, belief, known>>
    BY <1>1, <1>a
    DEF GuardWrite, SendConfigFails, CancelBeforeCommit, Goto, camera, hardware, daemon
  <2>2. QED
    BY <2>1, QuietStepTrue
<1>2. CASE SendConfig
  <2>1. /\ UNCHANGED <<fw, belief, known, fresh, seen, todo>> /\ pc' = "commit"
        /\ staged' = [staged EXCEPT ![Iface0] = Val0]
    BY <1>2 DEF SendConfig, Goto, daemon, history
  <2>2. CommitsOwnConfig'
    BY <1>0, <2>1
    DEF CommitsOwnConfig, Iface0, Val0, WellFormed, CameraType, PartialSettings
  <2>3. QED
    BY <2>1, <2>2 DEF Truth, SyncedBeliefAccurate, WrittenIsTrue, SeenIsTrue
<1>3. CASE SendCommit
  <2>1. /\ UNCHANGED <<belief, seen, todo>> /\ pc' = "apply" /\ pc = "commit"
        /\ fw' = [fw EXCEPT ![Iface0] = staged[Iface0]]
        /\ known' = known \ {Iface0} /\ fresh' = fresh \cup {Iface0}
    BY <1>3 DEF SendCommit, Goto, daemon
  <2>2. staged[Iface0] = Val0
    BY <1>3, <2>1 DEF SendCommit, Truth, CommitsOwnConfig
  <2>3. SyncedBeliefAccurate'
    BY <2>1 DEF Truth, SyncedBeliefAccurate, WellFormed, CameraType, RecordType, Settings
  <2>4. WrittenIsTrue'
    BY <1>0, <2>1, <2>2 DEF WrittenIsTrue, Iface0, Val0, WellFormed, CameraType, Settings
  <2>5. SeenIsTrue'
    BY <1>0, <2>1 DEF SeenIsTrue, JobShape, Blank
  <2>6. CommitsOwnConfig'
    BY <2>1 DEF CommitsOwnConfig
  <2>7. QED
    BY <2>3, <2>4, <2>5, <2>6 DEF Truth
<1>4. CASE SendCommitFails
  <2>1. pc' \notin {"commit", "apply", "query"} /\ UNCHANGED belief
    BY <1>4, <1>a DEF SendCommitFails
  <2>2. SyncedBeliefAccurate'
    BY <1>4, <2>1
    DEF SendCommitFails, Truth, SyncedBeliefAccurate, WellFormed, CameraType, RecordType, Settings
  <2>3. seen' = Blank
    BY <2>1 DEF WellFormed, JobShape, Blank
  <2>4. QED
    BY <2>1, <2>2, <2>3
    DEF Truth, CommitsOwnConfig, WrittenIsTrue, SeenIsTrue, Blank
<1>5. CASE ApplyMutator
  <2>1. /\ pc' \notin {"commit", "apply", "query"} /\ UNCHANGED fw /\ pc = "apply"
        /\ belief' = [belief EXCEPT ![Iface0] = Val0]
        /\ known' = known \cup (fresh \cap {Iface0})
    BY <1>5, <1>a DEF ApplyMutator, camera, hardware
  <2>2. SyncedBeliefAccurate'
    BY <1>0, <2>1
    DEF Truth, SyncedBeliefAccurate, WrittenIsTrue, WellFormed, DaemonType, RecordType, Settings
  <2>3. seen' = Blank
    BY <2>1 DEF WellFormed, JobShape, Blank
  <2>4. QED
    BY <2>1, <2>2, <2>3
    DEF Truth, CommitsOwnConfig, WrittenIsTrue, SeenIsTrue, Blank
<1>6. CASE SendCommitDropped
  <2>1. /\ UNCHANGED <<fw, belief, seen, todo>> /\ pc' = "apply" /\ pc = "commit"
        /\ Iface0 = "tracking"
        /\ known' = known \ {"tracking"} /\ fresh' = fresh \ {"tracking"}
    BY <1>6 DEF SendCommitDropped, Goto, daemon
  <2>2. SyncedBeliefAccurate' /\ CommitsOwnConfig'
    BY <2>1 DEF Truth, SyncedBeliefAccurate, CommitsOwnConfig
  <2>3. WrittenIsTrue'
    BY <2>1 DEF WrittenIsTrue, Iface0
  <2>4. SeenIsTrue'
    BY <1>0, <2>1 DEF SeenIsTrue, JobShape, Blank
  <2>5. QED
    BY <2>2, <2>3, <2>4 DEF Truth
<1>7. QED
  BY <1>1, <1>2, <1>3, <1>4, <1>5, <1>6

LEMMA ReadStepTrue ==
  ASSUME Truth, WellFormed, WellFormed',
         \/ EndSpeeds \/ SendSpeed \/ SendSpeedFails
         \/ QueryAnswered \/ QueryFails \/ QueryNilHandle \/ Adopt
  PROVE  Truth'
<1>1. ASSUME EndSpeeds \/ SendSpeed \/ SendSpeedFails
      PROVE  Truth'
  <2>1. /\ pc = "speeds" /\ (SpeedsReturn \/ BroadcastPanics \/ SendSpeed)
        /\ UNCHANGED <<fw, belief, known>>
    BY <1>1 DEF EndSpeeds, SendSpeed, SendSpeedFails, camera, hardware, daemon, history
  <2>2. pc' \notin {"commit", "apply"}
    BY <2>1, SpeedsReturnShape, SpeedSentShape DEF WellFormed
  <2>3. pc' = "query" => UNCHANGED <<seen, fresh>>
    BY <2>1, SpeedSentShape, BroadcastPanicsShape DEF SpeedsReturn, Release, WellFormed
  <2>4. QED
    BY <2>1, <2>2, <2>3, QuietStepTrue
<1>2. CASE QueryAnswered
  <2> DEFINE i0 == Head(unread)
  <2>1. /\ pc' = "query" /\ UNCHANGED <<fw, belief>>
        /\ \E v \in Answer(i0) :
              /\ seen' = [seen EXCEPT ![i0] = v]
              /\ IF v = fw[i0] THEN fresh' = fresh \cup {i0} /\ UNCHANGED known
                               ELSE fresh' = fresh \ {i0} /\ known' = known \ {i0}
    BY <1>2 DEF QueryAnswered, camera, hardware, daemon
  <2>2. seen \in [Iface -> AllSettings \cup {None}]
    BY DEF WellFormed, JobType, PartialSettings
  <2>3. SeenIsTrue'
    BY <2>1, <2>2 DEF Truth, SeenIsTrue
  <2>4. SyncedBeliefAccurate'
    BY <2>1 DEF Truth, SyncedBeliefAccurate
  <2>5. QED
    BY <2>1, <2>3, <2>4 DEF Truth, CommitsOwnConfig, WrittenIsTrue
<1>3. CASE QueryFails
  <2>1. pc' = "query" /\ UNCHANGED <<fw, belief, known, seen, fresh>>
    BY <1>3 DEF QueryFails, camera, hardware, daemon, history
  <2>2. QED
    BY <2>1, QuietStepTrue
<1>4. CASE QueryNilHandle
  <2>1. CASE Die("panicked")
    BY <2>1, NothingKnownTrue DEF Die
  <2>2. CASE Release /\ UNCHANGED <<camera, daemon, disk, known, saveFailed>>
    BY <2>2, QuietStepTrue DEF Release, camera, hardware, daemon
  <2>3. QED
    BY <1>4, <2>1, <2>2 DEF QueryNilHandle, NilHandlePanic
<1>5. CASE Adopt
  <2>1. /\ UNCHANGED fw
        /\ belief' = [i \in Iface |-> IF seen[i] = None THEN belief[i] ELSE seen[i]]
        /\ known' = known \cup {i \in fresh : seen[i] # None}
        /\ pc = "query" /\ ReconcileReturns
    BY <1>5 DEF Adopt, camera, hardware
  <2>2. pc' \in {"idle", "auto"}
    BY <2>1, ReconcileReturnsShape DEF WellFormed
  <2>3. SyncedBeliefAccurate'
    BY <2>1 DEF Truth, SyncedBeliefAccurate, SeenIsTrue, WellFormed, RecordType, JobType
  <2>4. seen' = Blank
    BY <2>2 DEF WellFormed, JobShape, Blank
  <2>5. QED
    BY <2>2, <2>3, <2>4
    DEF Truth, CommitsOwnConfig, WrittenIsTrue, SeenIsTrue, Blank
<1>6. QED
  BY <1>1, <1>2, <1>3, <1>4, <1>5

LEMMA ReconcileStepTrue ==
  ASSUME Truth, WellFormed, WellFormed',
         \/ ReconcileGivesUp \/ Reconcile \/ Verify \/ VerifyFails \/ VerifyNilHandle
         \/ AutoQuiet \/ (\E plan \in AutoPlans : AutoTransition(plan)) \/ FinalSave
  PROVE  Truth'
<1>1. ASSUME ReconcileGivesUp \/ VerifyFails \/ AutoQuiet \/ FinalSave
      PROVE  Truth'
  <2>1. pc' \notin {"commit", "apply", "query"}
    BY <1>1, ReconcileReturnsShape, ReleaseShape, BroadcastPanicsShape
    DEF ReconcileGivesUp, VerifyFails, AutoQuiet, FinalSave, WellFormed
  <2>2. UNCHANGED <<fw, belief, known>>
    BY <1>1
    DEF ReconcileGivesUp, VerifyFails, AutoQuiet, FinalSave, camera, hardware, daemon
  <2>3. QED
    BY <2>1, <2>2, QuietStepTrue
<1>2. ASSUME Reconcile \/ (\E plan \in AutoPlans : AutoTransition(plan))
      PROVE  Truth'
  <2>1. pc' \notin {"commit", "apply"} /\ UNCHANGED <<fw, belief, known, seen, fresh>>
    BY <1>2 DEF Reconcile, AutoTransition, camera, hardware, daemon, history
  <2>2. QED
    BY <2>1, QuietStepTrue
<1>3. CASE Verify
  <2>1. pc' \in {"speeds", "guard"} /\ UNCHANGED <<fw, belief, seen, fresh>>
    BY <1>3 DEF Verify, camera, hardware, daemon
  <2>2. known' = known \/ known' = known \cup {i \in {"tracking"} : belief[i] = fw[i]}
    BY <1>3 DEF Verify
  <2>3. SyncedBeliefAccurate'
    BY <2>1, <2>2 DEF Truth, SyncedBeliefAccurate
  <2>4. seen' = Blank
    BY <2>1 DEF WellFormed, JobShape, Blank
  <2>5. QED
    BY <2>1, <2>3, <2>4
    DEF Truth, CommitsOwnConfig, WrittenIsTrue, SeenIsTrue, Blank
<1>4. CASE VerifyNilHandle
  <2>1. CASE Die("panicked")
    BY <2>1, NothingKnownTrue DEF Die
  <2>2. CASE Release /\ UNCHANGED <<camera, daemon, disk, known, saveFailed>>
    BY <2>2, QuietStepTrue DEF Release, camera, hardware, daemon
  <2>3. QED
    BY <1>4, <2>1, <2>2 DEF VerifyNilHandle, NilHandlePanic
<1>5. QED
  BY <1>1, <1>2, <1>3, <1>4

LEMMA StepTrue == Truth /\ WellFormed /\ WellFormed' /\ [Next]_vars => Truth'
<1> SUFFICES ASSUME Truth, WellFormed, WellFormed', [Next]_vars PROVE Truth'
  OBVIOUS
<1>1. CASE Next
  BY <1>1, OutsideStepTrue, AcquireTrue, WriteStepTrue, ReadStepTrue, ReconcileStepTrue
  DEF Next, JobStep
<1>2. CASE UNCHANGED vars
  BY <1>2
  DEF vars, camera, hardware, daemon, job, history, Truth, SyncedBeliefAccurate,
      CommitsOwnConfig, WrittenIsTrue, SeenIsTrue, Iface0, Val0
<1>3. QED
  BY <1>1, <1>2

(* Abandoned configs, cancelled requests, lost reports, probes, power cuts and
   crashes never leave the daemon with a confirmed setting that the firmware
   does not run.  A setting is not confirmed by a commit the firmware dropped nor
   by a late report taken for an answer, although the daemon adopts both. *)
THEOREM BeliefIsAccurate == Spec => []SyncedBeliefAccurate
<1>1. Truth => SyncedBeliefAccurate
  BY DEF Truth
<1>2. QED
  BY <1>1, InitWellFormed, StepWellFormed, InitTruth, StepTrue, PTL DEF Spec
-----------------------------------------------------------------------------
(* What a crash leaves behind. *)

LEMMA InitDurable == Init => IntentIsDurable
  BY DEF Init, IntentIsDurable, Alive

LEMMA SaveDurable ==
  ASSUME WellFormed', IntentIsDurable, Alive, SaveState(belief')
  PROVE  IntentIsDurable'
<1>1. persisted = (disk # None)
  BY DEF IntentIsDurable
<1>2. CASE disk' = belief' /\ persisted' = TRUE /\ saveFailed' = FALSE
  <2>1. belief' # None
    BY SettingAssumption DEF WellFormed, DaemonType
  <2>2. QED
    BY <1>2, <2>1 DEF IntentIsDurable
<1>3. CASE saveFailed' = TRUE /\ UNCHANGED <<disk, persisted>>
  BY <1>1, <1>3 DEF IntentIsDurable
<1>4. QED
  BY <1>2, <1>3 DEF SaveState

(* Steps that neither save nor change what would be saved. *)
LEMMA UnsavedDurable ==
  ASSUME IntentIsDurable, Alive' => Alive,
         UNCHANGED <<belief, persisted, disk, saveFailed>>
  PROVE  IntentIsDurable'
  BY DEF IntentIsDurable

LEMMA DieDurable ==
  ASSUME NEW how \in {"stopped", "panicked"}, Die(how)
  PROVE  IntentIsDurable'
  BY DEF Die, IntentIsDurable, Alive

LEMMA StepDurable == IntentIsDurable /\ WellFormed /\ WellFormed' /\ [Next]_vars => IntentIsDurable'
<1> SUFFICES ASSUME IntentIsDurable, WellFormed, WellFormed', [Next]_vars
             PROVE  IntentIsDurable'
  OBVIOUS
<1>1. CASE Environment
  <2>1. UNCHANGED <<belief, persisted, disk, saveFailed, status>>
    BY <1>1 DEF Environment, PowerLoss, PowerUp, NodeDown, NodeUp, daemon, history
  <2>2. QED
    BY <2>1, UnsavedDurable DEF Alive
<1>2. CASE Lifecycle
  <2>1. CASE Crash
    BY <2>1, DieDurable DEF Crash
  <2>2. CASE Restart
    <3>1. belief' = disk \/ disk = None
      BY <2>2 DEF Restart
    <3>2. QED
      BY <2>2, <3>1 DEF Restart, IntentIsDurable
  <2>3. CASE Listen \/ ProbeCommand
    BY <2>3, UnsavedDurable DEF Listen, ProbeCommand, Alive, history
  <2>4. CASE SaveOnHangup \/ Shutdown \/ SaveCommand
    <3>1. Alive /\ belief' = belief /\ SaveState(belief)
      BY <2>4 DEF SaveOnHangup, Shutdown, Signal, SaveCommand, EventLoopFree, Alive
    <3>2. SaveState(belief')
      BY <3>1 DEF SaveState
    <3>3. QED
      BY <3>1, <3>2, SaveDurable
  <2>5. QED
    BY <1>2, <2>1, <2>2, <2>3, <2>4 DEF Lifecycle
<1>3. CASE TakeHidMu
  BY <1>3, UnsavedDurable
  DEF TakeHidMu, StartCommand, StartSpeed, StartSync, StartStartup, StartUevent, StartTick,
      daemon, Alive
<1>4. CASE JobStep
  <2>1. Alive
    <3>1. pc # "idle"
      BY <1>4
      DEF JobStep, GuardWrite, SendConfig, SendConfigFails, CancelBeforeCommit, SendCommit,
          SendCommitDropped, SendCommitFails, ApplyMutator, EndSpeeds, SendSpeed, SendSpeedFails, QueryAnswered,
          QueryFails, QueryNilHandle, Adopt, ReconcileGivesUp, Reconcile, Verify, VerifyFails,
          VerifyNilHandle, AutoQuiet, AutoTransition, FinalSave
    <3>2. QED
      BY <3>1, OwnerIsAlive
  <2>2. ASSUME \/ GuardWrite \/ SendConfig \/ SendConfigFails \/ CancelBeforeCommit
               \/ SendCommit \/ SendCommitDropped \/ SendCommitFails
               \/ EndSpeeds \/ SendSpeed \/ SendSpeedFails \/ QueryAnswered \/ QueryFails
               \/ ReconcileGivesUp \/ Reconcile \/ Verify \/ VerifyFails
               \/ AutoQuiet \/ (\E plan \in AutoPlans : AutoTransition(plan))
        PROVE  IntentIsDurable'
    BY <2>1, <2>2, UnsavedDurable
    DEF GuardWrite, SendConfig, SendConfigFails, CancelBeforeCommit, SendCommit,
        SendCommitDropped, SendCommitFails, EndSpeeds, SendSpeed, SendSpeedFails, QueryAnswered,
        QueryFails, ReconcileGivesUp, Reconcile, Verify, VerifyFails, AutoQuiet,
        AutoTransition, daemon, history
  <2>3. CASE ApplyMutator
    BY <2>1, <2>3, SaveDurable DEF ApplyMutator
  <2>4. CASE FinalSave
    <3>1. belief' = belief /\ SaveState(belief)
      BY <2>4 DEF FinalSave
    <3>2. SaveState(belief')
      BY <3>1 DEF SaveState
    <3>3. QED
      BY <2>1, <3>2, SaveDurable
  <2>5. CASE Adopt
    <3>1. CASE belief' # belief
      BY <2>1, <2>5, <3>1, SaveDurable DEF Adopt
    <3>2. CASE belief' = belief
      BY <2>1, <2>5, <3>2, UnsavedDurable DEF Adopt
    <3>3. QED
      BY <3>1, <3>2
  <2>6. CASE QueryNilHandle \/ VerifyNilHandle
    <3>1. CASE Die("panicked")
      BY <3>1, DieDurable
    <3>2. CASE UNCHANGED <<camera, daemon, disk, known, saveFailed>>
      BY <2>1, <3>2, UnsavedDurable DEF daemon
    <3>3. QED
      BY <2>6, <3>1, <3>2 DEF QueryNilHandle, VerifyNilHandle, NilHandlePanic
  <2>7. QED
    BY <1>4, <2>2, <2>3, <2>4, <2>5, <2>6 DEF JobStep
<1>5. CASE UNCHANGED vars
  BY <1>5, UnsavedDurable DEF vars, daemon, history, Alive
<1>6. QED
  BY <1>1, <1>2, <1>3, <1>4, <1>5 DEF Next

(* Unless the last save failed, a crash at any instant loses nothing the
   daemon believed once anything was saved. *)
THEOREM BeliefSurvivesCrash == Spec => []IntentIsDurable
  BY InitWellFormed, StepWellFormed, InitDurable, StepDurable, PTL DEF Spec
-----------------------------------------------------------------------------
(* What a step may never do. *)

\* A reconcile that found saved intent does not even ask for the camera mode.
SecondaryOnly ==
    /\ cont \in {"speeds", "positions", "pushed", "save"} =>
         pc \in {"guard", "config", "commit", "apply", "speeds"}
    /\ pc = "query" /\ cont = "secondary" =>
         seen["tracking"] = None /\ unread \in Seq(SecondarySet)

LEMMA SecondaryOnlyQueries == Secondary \in Seq(SecondarySet)
<1>1. Secondary \in [1 .. Len(Secondary) -> STRING] /\ Len(Secondary) \in Nat
  BY SecondaryAssumption
<1>2. \A k \in 1 .. Len(Secondary) : Secondary[k] \in SecondarySet
  BY <1>1 DEF SecondarySet
<1>3. QED
  BY <1>1, <1>2

LEMMA NotSecondary ==
  ASSUME \/ cont' = "release" \/ (cont' = "secondary" /\ pc' # "query")
         \/ pc' = "speeds"
  PROVE  SecondaryOnly'
  BY DEF SecondaryOnly

LEMMA WriteReturnsSecondaryOnly ==
  ASSUME SecondaryOnly, WriteReturns \/ BroadcastPanics
  PROVE  SecondaryOnly'
<1>1. CASE BroadcastPanics
  BY <1>1, NotSecondary DEF BroadcastPanics, Release
<1>2. CASE WriteReturns
  BY <1>2 DEF WriteReturns, Release, SecondaryOnly
<1>3. QED
  BY <1>1, <1>2

LEMMA StepSecondaryOnly == SecondaryOnly /\ WellFormed /\ [Next]_vars => SecondaryOnly'
<1> SUFFICES ASSUME SecondaryOnly, WellFormed, [Next]_vars PROVE SecondaryOnly'
  OBVIOUS
<1>1. ASSUME UNCHANGED <<pc, cont, unread, seen>> PROVE SecondaryOnly'
  BY <1>1 DEF SecondaryOnly
<1>2. CASE Environment
  BY <1>1, <1>2 DEF Environment, PowerLoss, PowerUp, NodeDown, NodeUp, job
<1>3. CASE Lifecycle
  BY <1>1, <1>3, NotSecondary
  DEF Lifecycle, Crash, Die, Restart, Listen, SaveOnHangup, Shutdown, Signal, ProbeCommand,
      SaveCommand, job
<1>4. CASE TakeHidMu
  BY <1>1, <1>4, NotSecondary
  DEF TakeHidMu, StartCommand, StartSpeed, StartSync, StartStartup, StartUevent, StartTick,
      Acquire, job
<1>5. CASE JobStep
  <2>1. CASE GuardWrite \/ SendConfigFails \/ CancelBeforeCommit \/ SendCommitFails
             \/ ApplyMutator
    <3>1. CASE WriteReturns \/ BroadcastPanics
      BY <3>1, WriteReturnsSecondaryOnly
    <3>2. CASE pc' = "config" /\ UNCHANGED cont
      BY <3>2 DEF SecondaryOnly
    <3>3. QED
      BY <2>1, <3>1, <3>2
      DEF GuardWrite, SendConfigFails, CancelBeforeCommit, SendCommitFails, ApplyMutator, Goto
  <2>2. CASE SendConfig \/ SendCommit \/ SendCommitDropped
    BY <2>2 DEF SendConfig, SendCommit, SendCommitDropped, Goto, SecondaryOnly
  <2>3. CASE EndSpeeds \/ SendSpeed \/ SendSpeedFails
    <3>1. pc = "speeds" /\ (SpeedsReturn \/ BroadcastPanics \/ SendSpeed)
      BY <2>3 DEF EndSpeeds, SendSpeed, SendSpeedFails
    <3>2. seen = Blank /\ Blank["tracking"] = None
      BY <3>1 DEF WellFormed, JobShape, Blank, Iface
    <3>3. CASE SpeedsReturn /\ cont = "secondary"
      BY <3>1, <3>2, <3>3, SecondaryOnlyQueries DEF SpeedsReturn, SecondaryOnly
    <3>4. CASE SpeedsReturn /\ cont # "secondary"
      BY <3>1, <3>4, NotSecondary DEF SpeedsReturn, Release
    <3>5. CASE SendSpeed
      BY <3>1, <3>5 DEF SendSpeed, SecondaryOnly
    <3>6. CASE BroadcastPanics
      BY <3>6, NotSecondary DEF BroadcastPanics, Release
    <3>7. QED
      BY <3>1, <3>3, <3>4, <3>5, <3>6
  <2>4. CASE QueryAnswered \/ QueryFails
    <3>1. pc' = "query" /\ pc = "query" /\ UNCHANGED cont /\ unread # <<>>
          /\ unread' = Tail(unread)
          /\ (seen' = seen \/ \E v : seen' = [seen EXCEPT ![Head(unread)] = v])
      BY <2>4 DEF QueryAnswered, QueryFails
    <3>2. ASSUME cont = "secondary"
          PROVE  seen'["tracking"] = None /\ unread' \in Seq(SecondarySet)
      <4>1. unread \in Seq(SecondarySet) /\ seen["tracking"] = None
        BY <3>1, <3>2 DEF SecondaryOnly
      <4>2. Head(unread) \in SecondarySet /\ Tail(unread) \in Seq(SecondarySet)
        BY <3>1, <4>1, HeadTailProperties
      <4>3. Head(unread) # "tracking"
        BY <4>2, SecondaryAssumption
      <4>4. seen \in [Iface -> AllSettings \cup {None}] /\ "tracking" \in Iface
        BY DEF WellFormed, JobType, PartialSettings, Iface
      <4>5. seen'["tracking"] = seen["tracking"]
        BY <3>1, <4>3, <4>4
      <4>6. QED
        BY <3>1, <4>1, <4>2, <4>5
    <3>3. QED
      BY <3>1, <3>2 DEF SecondaryOnly
  <2>5. CASE QueryNilHandle \/ VerifyNilHandle
    BY <2>5, NotSecondary DEF QueryNilHandle, VerifyNilHandle, NilHandlePanic, Die, Release
  <2>6. CASE Adopt \/ ReconcileGivesUp \/ VerifyFails \/ AutoQuiet \/ FinalSave
    BY <2>6, NotSecondary
    DEF Adopt, ReconcileGivesUp, VerifyFails, AutoQuiet, FinalSave, ReconcileReturns, Release,
        BroadcastPanics
  <2>7. CASE Reconcile
    BY <2>7 DEF Reconcile, SecondaryOnly, WellFormed, JobShape
  <2>8. CASE Verify
    BY <2>8 DEF Verify, SecondaryOnly
  <2>9. CASE \E plan \in AutoPlans : AutoTransition(plan)
    BY <2>9 DEF AutoTransition, SecondaryOnly
  <2>10. QED
    BY <1>5, <2>1, <2>2, <2>3, <2>4, <2>5, <2>6, <2>7, <2>8, <2>9 DEF JobStep
<1>6. CASE UNCHANGED vars
  BY <1>1, <1>6 DEF vars, job
<1>7. QED
  BY <1>2, <1>3, <1>4, <1>5, <1>6 DEF Next

LEMMA StepKeepsMode == WellFormed /\ SecondaryOnly /\ [Next]_vars => [ModeChanged => ModeMayChange]_vars
<1> SUFFICES ASSUME WellFormed, SecondaryOnly, Next, ModeChanged PROVE ModeMayChange
  OBVIOUS
<1>1. Alive /\ Alive' /\ belief' # belief
  BY DEF ModeChanged
<1>2. ApplyMutator \/ Adopt
  BY <1>1
  DEF Next, Environment, PowerLoss, PowerUp, NodeDown, NodeUp,
      Lifecycle, Crash, Die, Restart, Listen, SaveOnHangup, Shutdown, Signal, ProbeCommand, SaveCommand,
      TakeHidMu, StartCommand, StartSpeed, StartSync, StartStartup, StartUevent, StartTick,
      JobStep, GuardWrite, SendConfig, SendConfigFails, CancelBeforeCommit, SendCommit,
      SendCommitDropped, SendCommitFails, EndSpeeds, SendSpeed, SendSpeedFails, QueryAnswered,
      QueryFails, QueryNilHandle, ReconcileGivesUp, Reconcile, Verify, VerifyFails,
      VerifyNilHandle, AutoQuiet, AutoTransition, FinalSave, NilHandlePanic, daemon, Alive
<1>3. CASE ApplyMutator
  <2>1. pc = "apply" /\ belief' = [belief EXCEPT ![Iface0] = Val0]
    BY <1>3 DEF ApplyMutator
  <2>2. Iface0 = "tracking"
    BY <2>1 DEF ModeChanged, WellFormed, DaemonType, Settings
  <2>3. QED
    BY <2>1, <2>2 DEF ModeMayChange
<1>4. CASE Adopt
  <2>1. pc = "query"
        /\ belief' = [i \in Iface |-> IF seen[i] = None THEN belief[i] ELSE seen[i]]
    BY <1>4 DEF Adopt
  <2>2. seen["tracking"] # None
    BY <2>1 DEF ModeChanged, Iface
  <2>3. cont = "release"
    BY <2>1, <2>2 DEF SecondaryOnly, WellFormed, JobType, Cont
  <2>4. QED
    BY <2>1, <2>3 DEF ModeMayChange
<1>5. QED
  BY <1>2, <1>3, <1>4

(* Replugs, power cycles, probes and reconciles of saved intent leave the
   camera mode the user chose alone. *)
THEOREM ModeIsIntent == Spec => ConnectivityKeepsMode
<1>1. Init => SecondaryOnly
  BY DEF Init, SecondaryOnly
<1>2. QED
  BY <1>1, InitWellFormed, StepWellFormed, StepSecondaryOnly, StepKeepsMode, PTL
  DEF Spec, ConnectivityKeepsMode

LEMMA StepBreaker ==
  WellFormed /\ [Next]_vars =>
    [/\ ReportLanded => strikes < Threshold
     /\ BreakerCloses => view' = Nodes]_vars
<1> SUFFICES ASSUME WellFormed, Next
             PROVE  /\ ReportLanded => strikes < Threshold
                    /\ BreakerCloses => view' = Nodes
  OBVIOUS
<1>1. ASSUME ReportLanded PROVE strikes < Threshold
  <2>1. PowerLoss \/ SendConfig \/ SendConfigFails
        \/ SendCommit \/ SendCommitDropped \/ SendCommitFails
    BY <1>1
    DEF ReportLanded, Next, Environment, PowerUp, NodeDown, NodeUp,
        Lifecycle, Crash, Die, Restart, Listen, SaveOnHangup, Shutdown, Signal, ProbeCommand, SaveCommand,
        TakeHidMu, StartCommand, StartSpeed, StartSync, StartStartup, StartUevent, StartTick,
        JobStep, GuardWrite, CancelBeforeCommit, ApplyMutator,
        EndSpeeds, SendSpeed, SendSpeedFails, QueryAnswered, QueryFails, QueryNilHandle,
        Adopt, ReconcileGivesUp, Reconcile, Verify, VerifyFails, VerifyNilHandle,
        AutoQuiet, AutoTransition, FinalSave, NilHandlePanic, camera, hardware
  <2>2. pc \in {"config", "commit"}
    BY <1>1, <2>1 DEF ReportLanded, PowerLoss, SendConfig, SendConfigFails, SendCommit,
                      SendCommitDropped, SendCommitFails
  <2>3. QED
    BY <2>2 DEF WellFormed, GuardStillHolds
<1>2. ASSUME BreakerCloses PROVE view' = Nodes
  <2>1. /\ Alive /\ Alive' /\ strikes = Threshold /\ strikes' # Threshold
        /\ pc \notin {"config", "commit", "apply"} /\ ~SendAllowed
    BY <1>2, BoundAssumption DEF BreakerCloses, WellFormed, GuardStillHolds, SendAllowed
  <2>2. ProbeCommand \/ StartUevent \/ StartTick
    <3>1. ~(SendConfigFails \/ SendCommitFails \/ ApplyMutator \/ SendSpeed \/ SendSpeedFails)
      BY <2>1 DEF SendConfigFails, SendCommitFails, ApplyMutator, SendSpeed, SendSpeedFails
    <3>2. ~(Crash \/ Restart \/ QueryNilHandle \/ VerifyNilHandle) \/ UNCHANGED strikes
      BY <2>1
      DEF Crash, Die, Restart, QueryNilHandle, VerifyNilHandle, NilHandlePanic, Alive, daemon
    <3>3. QED
      BY <2>1, <3>1, <3>2
      DEF Next, Environment, PowerLoss, PowerUp, NodeDown, NodeUp,
          Lifecycle, Listen, SaveOnHangup, Shutdown, Signal, SaveCommand,
          TakeHidMu, StartCommand, StartSpeed, StartSync, StartStartup,
          JobStep, GuardWrite, SendConfig, CancelBeforeCommit, SendCommit, SendCommitDropped,
          EndSpeeds, QueryAnswered, QueryFails, Adopt, ReconcileGivesUp, Reconcile,
          Verify, VerifyFails, AutoQuiet, AutoTransition, FinalSave, daemon
  <2>3. ApplyProbe(strikes)
    BY <2>1, <2>2 DEF ProbeCommand, StartUevent, StartTick
  <2>4. QED
    BY <2>1, <2>3 DEF ApplyProbe
<1>3. QED
  BY <1>1, <1>2

(* With an open breaker no report reaches the firmware's settings, and only a
   probe that sees the whole camera closes it. *)
THEOREM BreakerIsKept == Spec => BreakerHolds
  BY InitWellFormed, StepWellFormed, StepBreaker, PTL DEF Spec, BreakerHolds

-----------------------------------------------------------------------------
(* PixyDaemon implements CameraIntent for every camera and every bound: each  *)
(* step of the daemon is one step of the intent, or none.  Most steps are     *)
(* none; the few that touch the camera mode are told apart below by what they *)
(* do to the firmware, the belief, the file and `known'.  That what a mutator *)
(* or a query confirmed is what the lens shows comes from Truth, so this      *)
(* proof rests on BeliefIsAccurate's.                                         *)

(* The camera mode is a setting, so it is never taken for "no setting". *)
LEMMA ModeIsSetting ==
  ASSUME NEW s \in Settings
  PROVE  /\ s["tracking"] \in Setting["tracking"]
         /\ s["tracking"] # None /\ s # None
<1>1. "tracking" \in Iface
  BY DEF Iface
<1>2. s["tracking"] \in Setting["tracking"] /\ s["tracking"] \in AllSettings
  BY <1>1 DEF Settings
<1>3. QED
  BY <1>2, SettingAssumption

(* Steps that leave alone what the intent sees. *)
LEMMA Unseen ==
  ASSUME UNCHANGED <<fw, belief, disk, known>>, Alive' = Alive
  PROVE  UNCHANGED Intent!ivars
  BY DEF Intent!ivars

(* A save of the belief stores the memory, or fails. *)
LEMMA SavePersists ==
  ASSUME WellFormed, Alive, Alive', UNCHANGED <<fw, belief, known>>, SaveState(belief)
  PROVE  [Intent!Next]_(Intent!ivars)
<1>1. CASE disk' = belief
  <2>1. disk' # None /\ belief["tracking"] # None
    BY <1>1, ModeIsSetting DEF WellFormed, DaemonType
  <2>2. Intent!Persist
    BY <1>1, <2>1 DEF Intent!Persist
  <2>3. QED
    BY <2>2 DEF Intent!Next
<1>2. CASE UNCHANGED disk
  BY <1>2, Unseen
<1>3. QED
  BY <1>1, <1>2 DEF SaveState

(* Mutators and adopting queries make the daemon remember a mode, saved or
   not.  If it claims to know the mode, the camera runs it. *)
LEMMA BeliefRemembers ==
  ASSUME WellFormed, WellFormed', SyncedBeliefAccurate', Alive, Alive', UNCHANGED fw,
         SaveState(belief') \/ UNCHANGED disk
  PROVE  Intent!Remember(belief'["tracking"])
<1>1. belief["tracking"] # None /\ belief'["tracking"] # None /\ belief' # None
  BY ModeIsSetting DEF WellFormed, DaemonType
<1>2. "tracking" \in known' => fw["tracking"] = belief'["tracking"]
  BY DEF SyncedBeliefAccurate
<1>3. disk' = belief' \/ disk' = disk
  BY DEF SaveState
<1>4. QED
  BY <1>1, <1>2, <1>3 DEF Intent!Remember

(* Losing the process forgets the mode and keeps the file. *)
LEMMA DieStops ==
  ASSUME NEW how \in {"stopped", "panicked"}, Die(how)
  PROVE  Intent!Stop
  BY DEF Die, Alive, hardware, Intent!Stop

(* A new process remembers what is on disk. *)
LEMMA RestartStarts ==
  ASSUME WellFormed, Restart
  PROVE  Intent!Start
<1>1. ~Alive /\ Alive' /\ UNCHANGED <<fw, disk, known>>
  BY DEF Restart, Alive, camera, hardware, history
<1>2. belief' = IF disk = None THEN Default ELSE disk
  BY DEF Restart
<1>3. disk # None => disk["tracking"] # None
  BY ModeIsSetting DEF WellFormed, RecordType
<1>4. QED
  BY <1>1, <1>2, <1>3 DEF Intent!Start

(* Plugging, unplugging and power cuts. *)
LEMMA EnvironmentImplements ==
  ASSUME Environment
  PROVE  [Intent!Next]_(Intent!ivars)
<1>1. CASE PowerLoss
  <2>1. Intent!PowerCut
    BY <1>1 DEF PowerLoss, daemon, Alive, Intent!PowerCut
  <2>2. QED
    BY <2>1 DEF Intent!Next
<1>2. CASE PowerUp \/ (\E n \in Nodes : NodeDown(n) \/ NodeUp(n))
  BY <1>2, Unseen DEF PowerUp, NodeDown, NodeUp, daemon, history, Alive
<1>3. QED
  BY <1>1, <1>2 DEF Environment

LEMMA LifecycleImplements ==
  ASSUME WellFormed, Lifecycle
  PROVE  [Intent!Next]_(Intent!ivars)
<1>1. CASE Crash
  BY <1>1, DieStops DEF Crash, Intent!Next
<1>2. CASE Restart
  BY <1>2, RestartStarts DEF Intent!Next
<1>3. CASE Listen \/ ProbeCommand
  BY <1>3, Unseen DEF Listen, ProbeCommand, camera, hardware, history, Alive
<1>4. CASE SaveOnHangup \/ Shutdown \/ SaveCommand
  BY <1>4, SavePersists
  DEF SaveOnHangup, Shutdown, Signal, SaveCommand, EventLoopFree, Alive, camera, hardware
<1>5. QED
  BY <1>1, <1>2, <1>3, <1>4 DEF Lifecycle

(* Taking hidMu, guards, configs, cancellations, speeds and queries: nothing
   the user would see. *)
LEMMA QuietImplements ==
  ASSUME \/ TakeHidMu
         \/ GuardWrite \/ SendConfig \/ SendConfigFails \/ CancelBeforeCommit
         \/ EndSpeeds \/ SendSpeed \/ SendSpeedFails \/ QueryFails
         \/ ReconcileGivesUp \/ Reconcile \/ VerifyFails
         \/ AutoQuiet \/ (\E plan \in AutoPlans : AutoTransition(plan))
  PROVE  UNCHANGED Intent!ivars
<1>1. UNCHANGED <<fw, belief, disk, known, status>>
  BY DEF TakeHidMu, StartCommand, StartSpeed, StartSync, StartStartup, StartUevent, StartTick,
         GuardWrite, SendConfig, SendConfigFails, CancelBeforeCommit, EndSpeeds, SendSpeed,
         SendSpeedFails, QueryFails, ReconcileGivesUp, Reconcile, VerifyFails,
         AutoQuiet, AutoTransition, camera, hardware, daemon, history
<1>2. QED
  BY <1>1, Unseen DEF Alive

(* A dropped commit and a misread answer only make the agreement doubtful. *)
LEMMA DoubtImplements ==
  ASSUME WellFormed, Alive, SendCommitDropped \/ QueryAnswered
  PROVE  [Intent!Next]_(Intent!ivars)
<1>1. UNCHANGED <<fw, belief, disk, status>>
  BY DEF SendCommitDropped, QueryAnswered, camera, hardware, daemon
<1>2. belief["tracking"] # None
  BY ModeIsSetting DEF WellFormed, DaemonType
<1>3. CASE "tracking" \notin known'
  <2>1. Intent!Doubt
    BY <1>1, <1>2, <1>3 DEF Alive, Intent!Doubt
  <2>2. QED
    BY <2>1 DEF Intent!Next
<1>4. CASE "tracking" \in known'
  <2>1. "tracking" \in known
    BY <1>4 DEF SendCommitDropped, QueryAnswered
  <2>2. QED
    BY <1>1, <1>4, <2>1 DEF Alive, Intent!ivars
<1>5. QED
  BY <1>3, <1>4

(* A commit report, answered or not, moves the lens to what was configured or
   concerns another interface. *)
LEMMA CommitActuates ==
  ASSUME WellFormed, Alive, SendCommit \/ SendCommitFails
  PROVE  [Intent!Next]_(Intent!ivars)
<1>1. UNCHANGED <<belief, disk, status>> /\ pc = "commit"
  BY DEF SendCommit, SendCommitFails, daemon
<1>2. CASE UNCHANGED <<fw, known>>
  BY <1>1, <1>2, Unseen DEF Alive
<1>3. CASE /\ staged[Iface0] # None
           /\ fw' = [fw EXCEPT ![Iface0] = staged[Iface0]]
           /\ known' = known \ {Iface0}
  <2>1. Iface0 \in Iface /\ fw \in [Iface -> AllSettings] /\ "tracking" \in Iface
    BY <1>1, CurrentWrite DEF WellFormed, CameraType, Settings, Iface
  <2>2. CASE Iface0 = "tracking"
    <3>1. staged["tracking"] \in Setting["tracking"]
      BY <1>3, <2>1, <2>2, PartialValue DEF WellFormed, CameraType
    <3>2. fw'["tracking"] = staged["tracking"] /\ "tracking" \notin known'
      BY <1>3, <2>1, <2>2
    <3>3. belief["tracking"] # None
      BY ModeIsSetting DEF WellFormed, DaemonType
    <3>4. Intent!Actuate(staged["tracking"])
      BY <1>1, <3>2, <3>3 DEF Alive, Intent!Actuate
    <3>5. QED
      BY <3>1, <3>4 DEF Intent!Next
  <2>3. CASE Iface0 # "tracking"
    <3>1. fw'["tracking"] = fw["tracking"] /\ ("tracking" \in known') = ("tracking" \in known)
      BY <1>3, <2>1, <2>3
    <3>2. QED
      BY <1>1, <3>1 DEF Alive, Intent!ivars
  <2>4. QED
    BY <2>2, <2>3
<1>4. QED
  BY <1>2, <1>3 DEF SendCommit, SendCommitFails

(* A mutator or an adopting query changes the belief and saves it; one that
   concerns other interfaces remembers the mode as it was. *)
LEMMA BeliefStepImplements ==
  ASSUME WellFormed, WellFormed', SyncedBeliefAccurate', Alive, ApplyMutator \/ Adopt
  PROVE  [Intent!Next]_(Intent!ivars)
<1>1. UNCHANGED fw /\ Alive' /\ (SaveState(belief') \/ UNCHANGED disk)
  BY DEF ApplyMutator, Adopt, camera, hardware, Alive
<1>2. belief'["tracking"] \in Setting["tracking"]
  BY ModeIsSetting DEF WellFormed, DaemonType
<1>3. Intent!Remember(belief'["tracking"])
  BY <1>1, BeliefRemembers
<1>4. QED
  BY <1>2, <1>3 DEF Intent!Next

(* The reconcile's query finds the camera as believed, or starts a write. *)
LEMMA VerifyImplements ==
  ASSUME Alive, Verify
  PROVE  [Intent!Next]_(Intent!ivars)
<1>1. UNCHANGED <<fw, belief, disk, status>>
  BY DEF Verify, camera, hardware, daemon
<1>2. CASE "tracking" \in known' /\ "tracking" \notin known
  <2>1. belief["tracking"] = fw["tracking"]
    BY <1>2 DEF Verify
  <2>2. Intent!Confirm
    BY <1>1, <1>2, <2>1 DEF Alive, Intent!Confirm
  <2>3. QED
    BY <2>2 DEF Intent!Next
<1>3. CASE ("tracking" \in known') = ("tracking" \in known)
  BY <1>1, <1>3 DEF Alive, Intent!ivars
<1>4. QED
  BY <1>2, <1>3 DEF Verify

(* A nil handle ends the process, or only the request that met it. *)
LEMMA PanicImplements ==
  ASSUME NilHandlePanic
  PROVE  [Intent!Next]_(Intent!ivars)
<1>1. CASE Die("panicked")
  BY <1>1, DieStops DEF Intent!Next
<1>2. CASE UNCHANGED <<camera, daemon, disk, known, saveFailed>>
  BY <1>2, Unseen DEF camera, hardware, daemon, Alive
<1>3. QED
  BY <1>1, <1>2 DEF NilHandlePanic

LEMMA InitImplements == Init => Intent!Init
  BY DEF Init, Alive, Intent!Init

LEMMA StepImplements ==
  WellFormed /\ WellFormed' /\ SyncedBeliefAccurate' /\ [Next]_vars => [Intent!Next]_(Intent!ivars)
<1> SUFFICES ASSUME WellFormed, WellFormed', SyncedBeliefAccurate', [Next]_vars
             PROVE  [Intent!Next]_(Intent!ivars)
  OBVIOUS
<1>1. CASE Environment
  BY <1>1, EnvironmentImplements
<1>2. CASE Lifecycle
  BY <1>2, LifecycleImplements
<1>3. CASE \/ TakeHidMu
           \/ GuardWrite \/ SendConfig \/ SendConfigFails \/ CancelBeforeCommit
           \/ EndSpeeds \/ SendSpeed \/ SendSpeedFails \/ QueryFails
           \/ ReconcileGivesUp \/ Reconcile \/ VerifyFails
           \/ AutoQuiet \/ (\E plan \in AutoPlans : AutoTransition(plan))
  BY <1>3, QuietImplements
<1>4. CASE \/ SendCommit \/ SendCommitDropped \/ SendCommitFails \/ ApplyMutator
           \/ QueryAnswered \/ Adopt \/ Verify \/ FinalSave \/ QueryNilHandle \/ VerifyNilHandle
  <2>1. Alive
    <3>1. pc # "idle"
      BY <1>4 DEF SendCommit, SendCommitDropped, SendCommitFails, ApplyMutator,
                  QueryAnswered, Adopt, Verify, FinalSave, QueryNilHandle, VerifyNilHandle
    <3>2. QED
      BY <3>1, OwnerIsAlive
  <2>2. CASE SendCommit \/ SendCommitFails
    BY <2>1, <2>2, CommitActuates
  <2>3. CASE ApplyMutator \/ Adopt
    BY <2>1, <2>3, BeliefStepImplements
  <2>4. CASE Verify
    BY <2>1, <2>4, VerifyImplements
  <2>5. CASE FinalSave
    <3>1. SaveState(belief) /\ UNCHANGED <<fw, belief, known>> /\ Alive'
      BY <2>1, <2>5 DEF FinalSave, camera, hardware, Alive
    <3>2. QED
      BY <2>1, <3>1, SavePersists
  <2>6. CASE QueryNilHandle \/ VerifyNilHandle
    BY <2>6, PanicImplements DEF QueryNilHandle, VerifyNilHandle
  <2>7. CASE SendCommitDropped \/ QueryAnswered
    BY <2>1, <2>7, DoubtImplements
  <2>8. QED
    BY <1>4, <2>2, <2>3, <2>4, <2>5, <2>6, <2>7
<1>5. CASE UNCHANGED vars
  BY <1>5, Unseen DEF vars, camera, hardware, daemon, history, Alive
<1>6. QED
  BY <1>1, <1>2, <1>3, <1>4, <1>5 DEF Next, JobStep

(* Through every interleaving of plugs, crashes, failing reports and saves the
   camera mode is moved by commits, remembered by mutators and adopting
   queries, stored by saves and recovered by new processes, and by nothing
   else; dropped commits and misread answers only cast doubt on whether lens and
   memory agree. *)
THEOREM DaemonImplementsIntent == Spec => ImplementsIntent
<1>1. Truth => SyncedBeliefAccurate
  BY DEF Truth
<1>2. QED
  BY <1>1, InitWellFormed, StepWellFormed, InitTruth, StepTrue, InitImplements, StepImplements, PTL
  DEF Spec, ImplementsIntent, Intent!Spec
=============================================================================
