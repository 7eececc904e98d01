---------------------------- MODULE PixyDaemon ----------------------------
(***************************************************************************)
(* The heart of emeet-pixyd: one daemon that keeps a belief about a camera *)
(* it can only reach through two device nodes, and that must bring belief, *)
(* state file and firmware back together after unplugging, power loss,     *)
(* failing reports and its own crashes.                                    *)
(*                                                                         *)
(* Every sequence of HID reports runs under the mutex d.hidMu, so at most  *)
(* one of them is in progress: `holder' says which kind of goroutine owns  *)
(* the mutex and pc, cont, todo, unread and seen are that goroutine's      *)
(* locals.  Goroutines waiting for the mutex have no state of their own.   *)
(* The `probe' command takes only d.mu, so it runs between any two steps   *)
(* of the holder, and the hardware and the kernel change at any time.      *)
(* Everything the code does without releasing d.mu is one action here.     *)
(***************************************************************************)
EXTENDS Naturals, Sequences

CONSTANTS
    Secondary,    \* the interfaces besides tracking, in the order they are queried
    Setting,      \* Setting[i] is the set of settings of interface i
    Boot,         \* Boot[i]: the setting of i the firmware powers up with
    Default,      \* Default[i]: the setting of i in DefaultState
    AutoPlans,    \* the sequences of writes one autoManage transition may issue
    Threshold,    \* hidCircuitBreakerThreshold
    MaxUevents,   \* bound on kernel events the event loop has not consumed
    Faults,       \* may reports, saves, broadcasts and uevents fail for no visible reason?
    LateAnswers,  \* may a query take the late report of an earlier one for its answer?
    Droppable,    \* modes whose commit the firmware may acknowledge and yet drop
    None          \* no setting

SecondarySet == {Secondary[k] : k \in DOMAIN Secondary}
Iface == {"tracking"} \cup SecondarySet
AllSettings == UNION {Setting[i] : i \in Iface}
Write == {w \in [iface : Iface, val : AllSettings] : w.val \in Setting[w.iface]}
Settings == {s \in [Iface -> AllSettings] : \A i \in Iface : s[i] \in Setting[i]}
PartialSettings == {s \in [Iface -> AllSettings \cup {None}] :
                      \A i \in Iface : s[i] = None \/ s[i] \in Setting[i]}
Nodes == {"video", "hidraw"}

ASSUME SecondaryAssumption ==
    /\ Secondary \in Seq(STRING)
    /\ "tracking" \notin SecondarySet
ASSUME SettingAssumption ==
    /\ Setting \in [Iface -> SUBSET AllSettings]
    /\ Boot \in Settings
    /\ Default \in Settings
    /\ None \notin AllSettings \cup Settings
ASSUME PlanAssumption == AutoPlans \subseteq Seq(Write)
ASSUME BoundAssumption ==
    /\ Threshold \in Nat \ {0}
    /\ MaxUevents \in Nat \ {0}
    /\ Faults \in BOOLEAN /\ LateAnswers \in BOOLEAN
    /\ Droppable \subseteq Setting["tracking"]

VARIABLES
    powered,      \* the camera has power (it is plugged in)
    nodes,        \* the device nodes sysfs shows
    fw,           \* the settings the firmware runs
    staged,       \* settings configured but not yet committed, None if none
    uevents,      \* add/remove events the event loop has not consumed
    status,       \* life of the process, see Status
    view,         \* the nodes the daemon knows: videoDev # "", hidDev # nil
    belief,       \* d.state.Camera, d.state.Audio, d.state.Gesture
    persisted,    \* d.persistedIntent
    strikes,      \* d.hidFailCount
    startup,      \* the startup reconcile goroutine still waits for hidMu
    disk,         \* the state file: Settings, or None when there is no file
    holder,       \* who owns d.hidMu
    pc, cont,     \* its next step, and what follows its writes or speed reports
    todo,         \* the writes it still has to do, the current one first
    unread,       \* the interfaces it still has to query
    seen,         \* what its queries answered
    known,        \* history: interfaces whose belief was confirmed and nothing has
                  \* outdated, no power loss, no dropped commit and no misread answer
    fresh,        \* history: those the holder truly read or wrote since power came
    saveFailed    \* history: the last save failed

hardware == <<powered, nodes, fw, staged>>
camera   == <<hardware, uevents>>
daemon   == <<status, view, belief, persisted, strikes, startup>>
job      == <<holder, pc, cont, todo, unread, seen>>
history  == <<known, fresh, saveFailed>>
vars     == <<camera, daemon, disk, job, history>>

Status == {"starting", "running", "stopping", "stopped", "panicked"}
Holder == {"none", "command", "sync", "uevent", "startup", "tick"}
Step   == {"idle", "guard", "config", "commit", "apply", "reconcile", "verify",
           "speeds", "query", "auto", "save", "lost"}
Cont   == {"release", "speeds", "secondary", "positions", "pushed", "save"}

\* The process exists.  It is "starting" from NewDaemon's probe until the
\* netlink socket is bound, and "stopping" once SIGTERM was handled.
Alive == status \in {"starting", "running", "stopping"}
\* The event loop is in its select: it runs uevents, ticks and signals itself.
EventLoopFree == status = "running" /\ holder \notin {"uevent", "tick"}
Reachable == powered /\ "hidraw" \in nodes
Blank     == [i \in Iface |-> None]
SyncOrder == <<"tracking">> \o Secondary

Init ==
    /\ powered \in BOOLEAN
    /\ nodes = IF powered THEN Nodes ELSE {}
    /\ fw = Boot /\ staged = Blank
    /\ uevents = 0
    /\ status = "stopped" /\ view = {} /\ belief = Default
    /\ persisted = FALSE /\ strikes = 0 /\ startup = FALSE
    /\ disk = None
    /\ holder = "none" /\ pc = "idle" /\ cont = "release"
    /\ todo = <<>> /\ unread = <<>> /\ seen = Blank
    /\ known = {} /\ fresh = {} /\ saveFailed = FALSE
-----------------------------------------------------------------------------
(* The camera and the kernel. *)

\* The camera loses power: settings fall back to the boot defaults and a
\* configured but uncommitted setting is gone.
PowerLoss ==
    /\ powered
    /\ powered' = FALSE
    /\ fw' = Boot /\ staged' = Blank
    /\ known' = {} /\ fresh' = {}
    /\ UNCHANGED <<nodes, uevents, daemon, disk, job, saveFailed>>

PowerUp ==
    /\ ~powered /\ nodes = {}
    /\ powered' = TRUE
    /\ UNCHANGED <<nodes, fw, staged, uevents, daemon, disk, job, history>>

\* A node comes or goes.  The listener forwards the kernel's event with a blocking
\* send, so it holds none back; but it may have failed to open its socket, fail to
\* read, or not take the message for one of the camera's.  Before the netlink socket
\* is bound there is nobody to tell.
NodeEvent ==
    /\ uevents < MaxUevents
    /\ \/ uevents' = IF status = "running" THEN uevents + 1 ELSE uevents
       \/ Faults /\ UNCHANGED uevents

NodeDown(n) ==
    /\ ~powered /\ n \in nodes
    /\ nodes' = nodes \ {n}
    /\ NodeEvent
    /\ UNCHANGED <<powered, fw, staged, daemon, disk, job, history>>

NodeUp(n) ==
    /\ powered /\ n \notin nodes
    /\ nodes' = nodes \cup {n}
    /\ NodeEvent
    /\ UNCHANGED <<powered, fw, staged, daemon, disk, job, history>>
-----------------------------------------------------------------------------
(* Helpers of the daemon. *)

\* probeDevices + applyProbeResultLocked: the view becomes what sysfs shows,
\* and a complete camera forgives the s strikes counted so far.
ApplyProbe(s) ==
    /\ view' = nodes
    /\ strikes' = IF nodes = Nodes THEN 0 ELSE s

\* saveState: temp file and rename, so a failure leaves the old file.
SaveState(b) ==
    \/ disk' = b /\ persisted' = TRUE /\ saveFailed' = FALSE
    \/ Faults /\ saveFailed' = TRUE /\ UNCHANGED <<disk, persisted>>

\* recordHIDSendFailure: one strike and, until the breaker trips, a re-probe.
RecordSendFailure ==
    IF strikes + 1 < Threshold
    THEN ApplyProbe(strikes + 1)
    ELSE strikes' = strikes + 1 /\ UNCHANGED view

\* hidSendGuard with the comparison off by one
SendAllowedOnceMore == "hidraw" \in view /\ strikes <= Threshold

\* hidSendGuard
SendAllowed == "hidraw" \in view /\ strikes < Threshold

\* syncStateLocked's checks before it asks the camera anything
SyncAllowed == SendAllowed /\ "video" \in view

\* The context of the owner's work may end: a web request's at any time,
\* everybody's after SIGTERM.
Cancellable == holder \in {"command", "sync"} \/ status = "stopping"

\* The goroutine unlocks hidMu and is done.
Release ==
    /\ holder' = "none" /\ pc' = "idle" /\ cont' = "release"
    /\ todo' = <<>> /\ unread' = <<>> /\ seen' = Blank /\ fresh' = {}

Acquire(h, step, c, writes, queries) ==
    /\ holder = "none"
    /\ holder' = h /\ pc' = step /\ cont' = c
    /\ todo' = writes /\ unread' = queries
    /\ UNCHANGED <<seen, fresh>>

Goto(step) == pc' = step /\ UNCHANGED <<holder, cont, todo, unread, seen>>

\* setDeviceState returned, with or without an error: every caller goes on
\* with its next write or, after the last one, with what follows them.
WriteReturns ==
    \/ /\ Tail(todo) # <<>>
       /\ pc' = "guard" /\ todo' = Tail(todo)
       /\ UNCHANGED <<holder, cont, unread, seen, fresh>>
    \/ /\ Tail(todo) = <<>> /\ cont = "release"
       /\ Release
    \/ /\ Tail(todo) = <<>> /\ cont = "speeds"
       /\ pc' = "speeds" /\ cont' = "secondary" /\ todo' = <<>>
       /\ UNCHANGED <<holder, unread, seen, fresh>>
    \/ /\ Tail(todo) = <<>> /\ cont = "save"
       /\ pc' = "save" /\ cont' = "release" /\ todo' = <<>>
       /\ UNCHANGED <<holder, unread, seen, fresh>>

\* reconcileOnDeviceAppear returned: autoManage goes on, the others unlock.
ReconcileReturns ==
    IF holder = "tick"
    THEN /\ pc' = "auto" /\ cont' = "release"
         /\ todo' = <<>> /\ unread' = <<>> /\ seen' = Blank /\ fresh' = {}
         /\ UNCHANGED holder
    ELSE Release

\* The process is gone, and with it every goroutine and its memory.
Die(how) ==
    /\ status' = how
    /\ view' = {} /\ belief' = Default /\ persisted' = FALSE
    /\ strikes' = 0 /\ startup' = FALSE
    /\ holder' = "none" /\ pc' = "idle" /\ cont' = "release"
    /\ todo' = <<>> /\ unread' = <<>> /\ seen' = Blank
    /\ uevents' = 0 /\ known' = {} /\ fresh' = {} /\ saveFailed' = FALSE
    /\ UNCHANGED <<hardware, disk>>

\* NilHandlePanic if syncState unlocked hidMu without a defer
PanicKeepsHidMu ==
    \/ Die("panicked")
    \/ /\ holder = "sync"
       /\ Goto("idle")
       /\ UNCHANGED <<camera, daemon, disk, history>>

\* queryHIDState on a nil HIDDevice: net/http recovers the panic of a web
\* request, anywhere else it ends the process.
NilHandlePanic ==
    \/ Die("panicked")
    \/ /\ holder = "sync"
       /\ Release
       /\ UNCHANGED <<camera, daemon, disk, known, saveFailed>>
\* broadcastStateChanged sends to a page that has just closed its channel.  A web
\* command that panics leaves hidMu locked for ever, for handleCommand unlocks it
\* without a defer and net/http recovers; the defer of a preset push unlocks it.
\* In any other goroutine the panic ends the process, as Crash may at any time.
BroadcastPanics ==
    /\ Faults /\ holder = "command"
    /\ \/ cont \in {"positions", "pushed"} /\ Release
       \/ /\ cont \notin {"positions", "pushed"}
          /\ pc' = "lost" /\ cont' = "release"
          /\ todo' = <<>> /\ unread' = <<>> /\ seen' = Blank /\ fresh' = {}
          /\ UNCHANGED holder
-----------------------------------------------------------------------------
(* Life of the process. *)

Crash == Alive /\ Die("stopped")

\* Restart if NewDaemon ignored the state file
RestartForgets ==
    /\ ~Alive
    /\ status' = "starting"
    /\ belief' = Default
    /\ persisted' = (disk # None)
    /\ view' = nodes /\ strikes' = 0
    /\ startup' = ("video" \in nodes)
    /\ UNCHANGED <<camera, disk, job, history>>

\* NewDaemon: load the state file, probe, and have a goroutine reconcile when
\* the camera is there.
Restart ==
    /\ ~Alive
    /\ status' = "starting"
    /\ belief' = IF disk = None THEN Default ELSE disk
    /\ persisted' = (disk # None)
    /\ view' = nodes /\ strikes' = 0
    /\ startup' = ("video" \in nodes)
    /\ UNCHANGED <<camera, disk, job, history>>

\* The event loop begins and the uevent listener binds its socket.
Listen ==
    /\ status = "starting"
    /\ status' = "running"
    /\ UNCHANGED <<camera, view, belief, persisted, strikes, startup, disk, job, history>>

\* SIGHUP saves; SIGTERM saves, cancels the context and leaves the loop while
\* requests that were accepted go on until the process exits (Crash).
Signal(next) ==
    /\ EventLoopFree
    /\ SaveState(belief)
    /\ status' = next
    /\ UNCHANGED <<camera, view, belief, strikes, startup, job, known, fresh>>

SaveOnHangup == Signal("running")
Shutdown     == Signal("stopping")

\* The probe command: d.mu only, whatever the owner of hidMu is doing.
ProbeCommand ==
    /\ Alive
    /\ ApplyProbe(strikes)
    /\ UNCHANGED <<camera, status, belief, persisted, startup, disk, job, history>>

\* auto, and preset save, delete and pull, change what this model leaves out
\* of the settings and save them under d.mu.
SaveCommand ==
    /\ Alive
    /\ SaveState(belief)
    /\ UNCHANGED <<camera, status, view, belief, strikes, startup, job, known, fresh>>
-----------------------------------------------------------------------------
(* Taking hidMu. *)

\* track, idle, privacy, toggle-privacy, audio, gesture-on/off, toggle-gesture:
\* one write.  A toggle reads the belief under hidMu, so some w stands for it.
StartCommand(w) ==
    /\ Alive
    /\ Acquire("command", "guard", "release", <<w>>, <<>>)
    /\ UNCHANGED <<camera, daemon, disk, known, saveFailed>>

\* speed and tracking <variant> send a report and save, a move re-asserts the
\* speeds of its axes, a preset push re-asserts them and sends positions.
StartSpeed ==
    /\ Alive
    /\ \E c \in {"release", "positions", "save"} :
          Acquire("command", "speeds", c, <<>>, <<>>)
    /\ UNCHANGED <<camera, daemon, disk, known, saveFailed>>

\* sync: refused at once without a device or with an open breaker.
StartSync ==
    /\ Alive /\ SyncAllowed
    /\ Acquire("sync", "query", "release", <<>>, SyncOrder)
    /\ UNCHANGED <<camera, daemon, disk, known, saveFailed>>

StartStartup ==
    /\ Alive /\ startup
    /\ startup' = FALSE
    /\ Acquire("startup", "reconcile", "release", <<>>, <<>>)
    /\ UNCHANGED <<camera, status, view, belief, persisted, strikes, disk, known, saveFailed>>

\* The event loop takes one event and re-probes; only a video node that was
\* missing before makes it reconcile.
StartUevent ==
    /\ EventLoopFree /\ uevents > 0
    /\ uevents' = uevents - 1
    /\ ApplyProbe(strikes)
    /\ IF "video" \notin view /\ "video" \in nodes
       THEN Acquire("uevent", "reconcile", "release", <<>>, <<>>)
       ELSE holder = "none" /\ UNCHANGED <<job, fresh>>
    /\ UNCHANGED <<hardware, status, belief, persisted, startup, disk, known, saveFailed>>

\* autoManage if it returned for a missing device without probing
TickWithoutProbe ==
    /\ EventLoopFree
    /\ "video" \in view
    /\ Acquire("tick", "auto", "release", <<>>, <<>>)
    /\ UNCHANGED <<camera, daemon, disk, known, saveFailed>>

\* autoManage: re-probe only while the video node is missing.
StartTick ==
    /\ EventLoopFree
    /\ \/ /\ "video" \in view
          /\ Acquire("tick", "auto", "release", <<>>, <<>>)
          /\ UNCHANGED <<view, strikes>>
       \/ /\ "video" \notin view
          /\ ApplyProbe(strikes)
          /\ IF "video" \in nodes
             THEN Acquire("tick", "reconcile", "release", <<>>, <<>>)
             ELSE holder = "none" /\ UNCHANGED <<job, fresh>>
    /\ UNCHANGED <<camera, status, belief, persisted, startup, disk, known, saveFailed>>
-----------------------------------------------------------------------------
(* setDeviceState: guard, config report, pause, commit report, mutator. *)

Iface0 == todo[1].iface
Val0   == todo[1].val

GuardWrite ==
    /\ pc = "guard"
    /\ IF SendAllowed THEN Goto("config") /\ UNCHANGED fresh ELSE WriteReturns
    /\ UNCHANGED <<camera, daemon, disk, known, saveFailed>>

SendConfig ==
    /\ pc = "config" /\ Reachable
    /\ staged' = [staged EXCEPT ![Iface0] = Val0]
    /\ Goto("commit")
    /\ UNCHANGED <<powered, nodes, fw, uevents, daemon, disk, history>>

\* A failed config is one strike and a re-probe.  The report may have arrived all
\* the same when only the close of the node failed.
SendConfigFails ==
    /\ pc = "config" /\ (Faults \/ ~Reachable)
    /\ \/ UNCHANGED staged
       \/ Reachable /\ staged' = [staged EXCEPT ![Iface0] = Val0]
    /\ RecordSendFailure
    /\ WriteReturns \/ BroadcastPanics
    /\ UNCHANGED <<powered, nodes, fw, uevents, status, belief, persisted, startup, disk, known, saveFailed>>

\* CancelBeforeCommit if the end of the context only cut the pause short
CancelledMeansDone ==
    /\ pc = "commit"
    /\ Cancellable
    /\ Goto("apply")
    /\ UNCHANGED <<camera, daemon, disk, history>>

\* The request's context ends during the pause: the firmware keeps the
\* configured setting without a commit.
CancelBeforeCommit ==
    /\ pc = "commit"
    /\ Cancellable
    /\ WriteReturns
    /\ UNCHANGED <<camera, daemon, disk, known, saveFailed>>

SendCommit ==
    /\ pc = "commit" /\ Reachable /\ staged[Iface0] # None
    /\ fw' = [fw EXCEPT ![Iface0] = staged[Iface0]]
    /\ staged' = [staged EXCEPT ![Iface0] = None]
    /\ fresh' = fresh \cup {Iface0}
    /\ known' = known \ {Iface0}
    /\ Goto("apply")
    /\ UNCHANGED <<powered, nodes, uevents, daemon, disk, saveFailed>>

\* privacy_trap.go: a tracking or idle write may be acknowledged and dropped.
SendCommitDropped ==
    /\ pc = "commit" /\ Reachable
    /\ Iface0 = "tracking" /\ Val0 \in Droppable
    /\ staged' \in {staged, [staged EXCEPT !["tracking"] = None]}
    /\ fresh' = fresh \ {"tracking"}
    /\ known' = known \ {"tracking"}
    /\ Goto("apply")
    /\ UNCHANGED <<powered, nodes, fw, uevents, daemon, disk, saveFailed>>

\* A failed commit is one strike and no re-probe.  The report may have been
\* carried out all the same.
SendCommitFails ==
    /\ pc = "commit" /\ (Faults \/ ~Reachable \/ staged[Iface0] = None)
    /\ \/ UNCHANGED <<fw, staged, known>>
       \/ /\ Reachable /\ staged[Iface0] # None
          /\ fw' = [fw EXCEPT ![Iface0] = staged[Iface0]]
          /\ staged' = [staged EXCEPT ![Iface0] = None]
          /\ known' = known \ {Iface0}
    /\ strikes' = strikes + 1
    /\ WriteReturns \/ BroadcastPanics
    /\ UNCHANGED <<powered, nodes, uevents, status, view, belief, persisted, startup,
                   disk, saveFailed>>

\* ApplyMutator if the save came before the mutator
SaveBeforeMutator ==
    /\ pc = "apply"
    /\ strikes' = 0
    /\ SaveState(belief)
    /\ belief' = [belief EXCEPT ![Iface0] = Val0]
    /\ known' = known \cup (fresh \cap {Iface0})
    /\ WriteReturns \/ BroadcastPanics
    /\ UNCHANGED <<camera, status, view, startup>>

\* resetHIDFailCountLocked, the mutator and the save, in one d.mu section.
ApplyMutator ==
    /\ pc = "apply"
    /\ strikes' = 0
    /\ belief' = [belief EXCEPT ![Iface0] = Val0]
    /\ SaveState(belief')
    /\ known' = known \cup (fresh \cap {Iface0})
    /\ WriteReturns \/ BroadcastPanics
    /\ UNCHANGED <<camera, status, view, startup>>
-----------------------------------------------------------------------------
(* sendV2Set and the queries. *)

\* SpeedsReturn if the reconcile queried, and so adopted, the camera mode too
ReconcileQueriesAll ==
    \/ /\ cont = "secondary"
       /\ pc' = "query" /\ unread' = SyncOrder
       /\ UNCHANGED <<holder, cont, todo, seen, fresh>>
    \/ /\ cont = "positions"
       /\ cont' = "pushed"
       /\ UNCHANGED <<holder, pc, todo, unread, seen, fresh>>
    \/ cont \in {"release", "pushed", "save"} /\ Release

\* The last report of a batch, or the first that failed or was refused.
SpeedsReturn ==
    \/ /\ cont = "secondary"
       /\ pc' = "query" /\ unread' = Secondary
       /\ UNCHANGED <<holder, cont, todo, seen, fresh>>
    \/ /\ cont = "positions"
       /\ cont' = "pushed"
       /\ UNCHANGED <<holder, pc, todo, unread, seen, fresh>>
    \/ cont \in {"release", "pushed", "save"} /\ Release

\* No axis left, no speed configured, or refused by the guard.
EndSpeeds ==
    /\ pc = "speeds"
    /\ cont = "save" => ~SendAllowed
    /\ SpeedsReturn
    /\ UNCHANGED <<camera, daemon, disk, known, saveFailed>>

SendSpeed ==
    /\ pc = "speeds" /\ SendAllowed /\ Reachable
    /\ strikes' = 0
    /\ IF cont = "save" THEN pc' = "save" /\ cont' = "release" ELSE UNCHANGED <<pc, cont>>
    /\ UNCHANGED <<camera, status, view, belief, persisted, startup, disk,
                   holder, todo, unread, seen, history>>

SendSpeedFails ==
    /\ pc = "speeds" /\ SendAllowed /\ (Faults \/ ~Reachable)
    /\ RecordSendFailure
    /\ SpeedsReturn \/ BroadcastPanics
    /\ UNCHANGED <<camera, status, belief, persisted, startup, disk, known, saveFailed>>

\* What a query of i may answer.  SendRecv takes the first report there is: a late
\* one of i gives a setting of before, one of another interface a default
\* (HidExchange has the exchanges).
Answer(i) == {v \in Setting[i] : v = fw[i] \/ LateAnswers}

\* queryTracking, queryAudio, queryGesture ask d.hidDev as it is now.
QueryAnswered ==
    /\ pc = "query" /\ unread # <<>> /\ "hidraw" \in view /\ Reachable
    /\ LET i == Head(unread) IN
       \E v \in Answer(i) :
          /\ seen' = [seen EXCEPT ![i] = v]
          /\ IF v = fw[i] THEN fresh' = fresh \cup {i} /\ UNCHANGED known
                          ELSE fresh' = fresh \ {i} /\ known' = known \ {i}
    /\ unread' = Tail(unread)
    /\ UNCHANGED <<camera, daemon, disk, holder, pc, cont, todo, saveFailed>>

QueryFails ==
    /\ pc = "query" /\ unread # <<>> /\ "hidraw" \in view
    /\ Faults \/ ~Reachable \/ Cancellable
    /\ unread' = Tail(unread)
    /\ UNCHANGED <<camera, daemon, disk, holder, pc, cont, todo, seen, history>>

QueryNilHandle ==
    /\ pc = "query" /\ unread # <<>> /\ "hidraw" \notin view
    /\ NilHandlePanic

\* The answers that came become the belief, saved when they changed it.
Adopt ==
    /\ pc = "query" /\ unread = <<>>
    /\ belief' = [i \in Iface |-> IF seen[i] = None THEN belief[i] ELSE seen[i]]
    /\ IF belief' # belief THEN SaveState(belief')
                           ELSE UNCHANGED <<disk, persisted, saveFailed>>
    /\ known' = known \cup {i \in fresh : seen[i] # None}
    /\ ReconcileReturns
    /\ UNCHANGED <<camera, status, view, strikes, startup>>
-----------------------------------------------------------------------------
(* reconcileOnDeviceAppear, and the rest of autoManage. *)

ReconcileGivesUp ==
    /\ pc = "reconcile"
    /\ "video" \notin view \/ (~persisted /\ ~SyncAllowed)
    /\ ReconcileReturns
    /\ UNCHANGED <<camera, daemon, disk, known, saveFailed>>

\* A fresh install learns from the camera, anyone else checks it.
Reconcile ==
    /\ pc = "reconcile" /\ "video" \in view
    /\ persisted \/ SyncAllowed
    /\ IF persisted
       THEN pc' = "verify" /\ UNCHANGED unread
       ELSE pc' = "query" /\ unread' = SyncOrder
    /\ UNCHANGED <<camera, daemon, disk, holder, cont, todo, seen, history>>

VerifyFails ==
    /\ pc = "verify" /\ "hidraw" \in view
    /\ Faults \/ ~Reachable \/ Cancellable
    /\ ReconcileReturns
    /\ UNCHANGED <<camera, daemon, disk, known, saveFailed>>

VerifyNilHandle ==
    /\ pc = "verify" /\ "hidraw" \notin view
    /\ NilHandlePanic

Verify ==
    /\ pc = "verify" /\ "hidraw" \in view /\ Reachable
    /\ \/ /\ belief["tracking"] \in Answer("tracking")
          /\ pc' = "speeds" /\ cont' = "secondary" /\ UNCHANGED todo
          /\ known' = known \cup {i \in {"tracking"} : belief[i] = fw[i]}
       \/ /\ Answer("tracking") \ {belief["tracking"]} # {}
          /\ pc' = "guard" /\ cont' = "speeds"
          /\ todo' = <<[iface |-> "tracking", val |-> belief["tracking"]]>>
          /\ UNCHANGED known
    /\ UNCHANGED <<camera, daemon, disk, holder, unread, seen, fresh, saveFailed>>

\* autoManage's decision: nothing to do, or the writes of a call start or end.
AutoQuiet ==
    /\ pc = "auto"
    /\ Release
    /\ UNCHANGED <<camera, daemon, disk, known, saveFailed>>

AutoTransition(plan) ==
    /\ pc = "auto"
    /\ IF plan = <<>>
       THEN pc' = "save" /\ UNCHANGED <<cont, todo>>
       ELSE pc' = "guard" /\ cont' = "save" /\ todo' = plan
    /\ UNCHANGED <<camera, daemon, disk, holder, unread, seen, history>>

\* What autoManage, `speed' and `tracking <variant>' end with.
FinalSave ==
    /\ pc = "save"
    /\ SaveState(belief)
    /\ Release \/ BroadcastPanics
    /\ UNCHANGED <<camera, status, view, belief, strikes, startup, known>>
-----------------------------------------------------------------------------
Environment ==
    \/ PowerLoss \/ PowerUp
    \/ \E n \in Nodes : NodeDown(n) \/ NodeUp(n)

Lifecycle ==
    \/ Crash \/ Restart \/ Listen \/ SaveOnHangup \/ Shutdown
    \/ ProbeCommand \/ SaveCommand

TakeHidMu ==
    \/ \E w \in Write : StartCommand(w)
    \/ StartSpeed \/ StartSync \/ StartStartup \/ StartUevent \/ StartTick

JobStep ==
    \/ GuardWrite \/ SendConfig \/ SendConfigFails \/ CancelBeforeCommit
    \/ SendCommit \/ SendCommitDropped \/ SendCommitFails \/ ApplyMutator
    \/ EndSpeeds \/ SendSpeed \/ SendSpeedFails
    \/ QueryAnswered \/ QueryFails \/ QueryNilHandle \/ Adopt
    \/ ReconcileGivesUp \/ Reconcile \/ Verify \/ VerifyFails \/ VerifyNilHandle
    \/ AutoQuiet \/ (\E plan \in AutoPlans : AutoTransition(plan)) \/ FinalSave

Next == Environment \/ Lifecycle \/ TakeHidMu \/ JobStep

Spec == Init /\ [][Next]_vars

\* The owner of hidMu always gets on: a report returns at once, a query has a
\* timeout, saves are local files.  Nodes of a powered camera appear.  A
\* waiter of a sync.Mutex gets it after at most 1 ms of starvation, and the
\* event loop's select chooses among ready cases at random, so the event loop
\* takes events and ticks although commands keep coming.
Fairness ==
    /\ WF_vars(JobStep)
    /\ \A n \in Nodes : WF_vars(NodeUp(n))
    /\ SF_vars(StartUevent) /\ SF_vars(StartTick)

FairSpec == Spec /\ Fairness
-----------------------------------------------------------------------------
(* Properties. *)

\* Every variable has its type, and no failure is counted beyond the breaker's
\* threshold: the guard stops the fourth report (circuitbreaker.go).
TypeOK ==
    /\ powered \in BOOLEAN /\ nodes \in SUBSET Nodes
    /\ fw \in Settings
    /\ staged \in PartialSettings
    /\ uevents \in 0 .. MaxUevents
    /\ status \in Status /\ view \in SUBSET Nodes
    /\ belief \in Settings /\ persisted \in BOOLEAN
    /\ strikes \in 0 .. Threshold /\ startup \in BOOLEAN
    /\ disk \in Settings \cup {None}
    /\ holder \in Holder /\ pc \in Step /\ cont \in Cont
    /\ todo \in Seq(Write) /\ unread \in Seq(Iface)
    /\ seen \in PartialSettings
    /\ known \in SUBSET Iface /\ fresh \in SUBSET Iface
    /\ saveFailed \in BOOLEAN

\* What a commit set or a query truly answered stays true of the firmware until
\* the camera loses power, a later commit is carried out without success being
\* reported, a commit is acknowledged and dropped (privacy_trap.go:17-23), or a
\* query takes a late report for its answer (hid.go:204-237).  Nothing else makes
\* the daemon believe a setting the firmware does not run: not configs abandoned
\* half way, cancelled requests, failed saves, probes or the restarts of other
\* work in between (setDeviceState, syncStateLocked, reconcileOnDeviceAppear).
SyncedBeliefAccurate == \A i \in known : belief[i] = fw[i]

\* Whatever mix of commands, reconciles, signals and failed saves came before,
\* a daemon whose last save worked would come back from a crash with the
\* belief it has now, and "persisted" means there is a file (saveState,
\* persistedIntent).
IntentIsDurable ==
    Alive => /\ persisted = (disk # None)
             /\ persisted /\ ~saveFailed => disk = belief

\* A live daemon changes the camera mode it believes in only where a write was
\* committed, the user asked for a sync, or a fresh install's reconcile reads
\* the camera: replugs, power cycles, probes, and reconciles that found saved
\* intent never do.  (A SIGHUP can save the defaults while a fresh install's
\* reconcile is reading, so the last case cannot say "nothing is persisted".)
\* probe.go: "Camera mode is user intent and is never touched here".
ModeChanged == Alive /\ Alive' /\ belief'["tracking"] # belief["tracking"]
ModeMayChange == \/ pc = "apply" /\ Iface0 = "tracking"
                 \/ pc = "query" /\ (holder = "sync" \/ cont = "release")
ConnectivityKeepsMode == [][ModeChanged => ModeMayChange]_vars

\* With an open breaker no config or commit report reaches the firmware, and
\* only a probe that sees the whole camera closes it in a running process
\* (hidSendGuard, applyProbeResultLocked).
ReportLanded  == powered' /\ <<fw, staged>>' # <<fw, staged>>
BreakerCloses == Alive /\ Alive' /\ strikes = Threshold /\ strikes' # Threshold
BreakerHolds ==
    [][/\ ReportLanded => strikes < Threshold
       /\ BreakerCloses => view' = Nodes]_vars

\* Every command, sync, reconcile and tick gives hidMu back, on every error path,
\* and a sync also when it panics on a nil handle, for syncState defers the unlock;
\* except for a web command whose broadcast panics (handleCommand, commands.go:79).
HidMuReleased == (holder # "none") ~> (holder = "none" \/ pc = "lost")

\* The same without that exception, which TLC refutes: handleCommand unlocks hidMu
\* after handleMutatingCommand and not in a defer.
NobodyKeepsHidMu == (holder # "none") ~> (holder = "none")

\* A running daemon notices a camera that stays powered, even when the events
\* of its nodes were lost or came before the uevent socket was bound: the tick
\* re-probes while there is no video node (autoManage), as long as it gets hidMu.
VideoNoticed ==
    <>[](status = "running" /\ powered /\ pc # "lost") => <>[]("video" \in view)

\* The daemon implements CameraIntent: through every interleaving the camera
\* mode is actuated by commits, remembered by mutators and adopting queries,
\* stored by saves and recovered by new processes, and nothing else happens
\* to it, but for commits that are dropped and answers that are misread, which
\* only make the agreement of lens and memory doubtful (device.go, state.go).
Intent == INSTANCE CameraIntent WITH
    Mode <- Setting["tracking"], BootMode <- Boot["tracking"],
    DefaultMode <- Default["tracking"], NoMode <- None,
    lens <- fw["tracking"],
    memory <- IF Alive THEN belief["tracking"] ELSE None,
    stored <- IF disk = None THEN None ELSE disk["tracking"],
    agree <- "tracking" \in known
ImplementsIntent == Intent!Spec

\* device.go: "Every failure path logs and keeps the current belief; nothing
\* here is fatal."  No reconcile ends the process.
ReconcileNotFatal ==
    [][(holder \in {"startup", "uevent", "tick"}) => status' # "panicked"]_vars

\* README.md: the mode "survives reboots, replugs, and camera power cycles".
\* When the daemon has digested every event, sees the whole camera, and owes
\* no startup reconcile, the camera runs the persisted mode.
Settled == /\ status = "running" /\ holder = "none" /\ ~startup
           /\ uevents = 0 /\ powered /\ nodes = Nodes /\ view = Nodes
ModeReapplied == Settled /\ persisted => fw["tracking"] = belief["tracking"]
=============================================================================
