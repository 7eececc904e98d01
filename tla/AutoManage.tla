----------------------------- MODULE AutoManage -----------------------------
(***************************************************************************)
(* The tick that notices video calls and opens and shuts the lens.  It     *)
(* looks at the processes one after the other, while they open and close   *)
(* the camera, and believes what DebounceCount looks in a row have said.   *)
(* A process it cannot read counts as one that does not hold the camera.   *)
(*                                                                         *)
(* The tick holds d.hidMu from its first to its last step.  Commands that  *)
(* set the camera mode wait for it, so each is one step here that happens  *)
(* between ticks; the auto commands and probes take only d.mu and happen   *)
(* at any time.  How a write reaches the camera and how settings reach the *)
(* state file is in PixyDaemon: here a write succeeds or fails, and a      *)
(* starting process finds some settings.                                   *)
(***************************************************************************)
EXTENDS Naturals

CONSTANTS
    Program,          \* processes other than the daemon and its descendants
    DebounceCount     \* d.config.DebounceCount

ASSUME DebounceAssumption == DebounceCount \in Nat \ {0}

VARIABLES
    present,          \* the video node is there
    users,            \* the programs that hold it open
    up,               \* the process runs
    videoDev,         \* the daemon knows the video node
    autoMode, camera, \* d.state.AutoMode, d.state.Camera
    inCall,           \* d.state.InCall
    debounceInUse,
    debounceIdle,
    autoError,        \* d.autoError # nil
    stage,            \* the tick's next step, "rest" between ticks
    mode,             \* its copy of autoMode
    scanned,          \* the programs its look has found without the camera
    inUse,            \* what the look answered
    errs,             \* a write or source switch of its transition failed
    steady,           \* history: programs that held the camera since the look began
                      \* and that it has not failed to read
    touched,          \* history: somebody has held the camera since the look began
    quiet, busy,      \* history: looks in a row that nobody they could read sat
                      \* through, that somebody held the camera during
    veto,             \* history: programs that hold the camera since the user, during
                      \* their call, chose privacy, until the looks had reason to
                      \* think that the call was over
    switched,         \* history: auto mode was set since the tick decided
    shut              \* history: the last change of the mode was to be the
                      \* shutting of the lens at the end of a call

outside == <<present, users>>
state   == <<autoMode, camera, inCall>>
counts  == <<debounceInUse, debounceIdle>>
locals  == <<stage, mode, scanned, inUse, errs>>
look    == <<steady, touched, quiet, busy>>
history == <<look, veto, switched, shut>>
vars    == <<outside, up, videoDev, state, counts, autoError, locals, history>>

AutoMode == {"off", "full", "tracking-only", "privacy-only"}
Mode     == {"tracking", "idle", "privacy"}
Stage    == {"rest", "look", "decide", "start", "track", "extras", "end", "privacy", "report"}

ActivatesTracking(m) == m \in {"full", "tracking-only"}
ActivatesAudio(m)    == m = "full"
SwitchesSource(m)    == m = "full"
ActivatesPrivacy(m)  == m \in {"full", "tracking-only", "privacy-only"}

\* Capped if the counters were left to grow
Uncapped(n) == n

Capped(n) == IF n > DebounceCount THEN DebounceCount ELSE n

Init ==
    /\ present \in BOOLEAN /\ users = {}
    /\ up = FALSE /\ videoDev = FALSE
    /\ autoMode = "full" /\ camera = "privacy" /\ inCall = FALSE
    /\ debounceInUse = 0 /\ debounceIdle = 0 /\ autoError = FALSE
    /\ stage = "rest" /\ mode = "off" /\ scanned = {} /\ inUse = FALSE /\ errs = FALSE
    /\ steady = {} /\ touched = FALSE /\ quiet = 0 /\ busy = 0
    /\ veto = {} /\ switched = FALSE /\ shut = FALSE
-----------------------------------------------------------------------------
(* The camera and the programs. *)

Plug ==
    /\ ~present /\ present' = TRUE
    /\ UNCHANGED <<users, up, videoDev, state, counts, autoError, locals, history>>

\* What a program holds open is then a deleted node, which no look matches.
Unplug ==
    /\ present /\ present' = FALSE
    /\ users' = {} /\ steady' = {} /\ veto' = {}
    /\ UNCHANGED <<up, videoDev, state, counts, autoError, locals, touched, quiet, busy,
                   switched, shut>>

OpenCamera(p) ==
    /\ present /\ p \notin users
    /\ users' = users \cup {p} /\ touched' = TRUE
    /\ UNCHANGED <<present, up, videoDev, state, counts, autoError, locals,
                   steady, quiet, busy, veto, switched, shut>>

CloseCamera(p) ==
    /\ p \in users
    /\ users' = users \ {p} /\ steady' = steady \ {p} /\ veto' = veto \ {p}
    /\ UNCHANGED <<present, up, videoDev, state, counts, autoError, locals,
                   touched, quiet, busy, switched, shut>>
-----------------------------------------------------------------------------
(* The process and the commands. *)

AtRest ==
    /\ stage' = "rest" /\ mode' = "off" /\ scanned' = {} /\ inUse' = FALSE /\ errs' = FALSE
    /\ switched' = FALSE

Crash ==
    /\ up /\ up' = FALSE
    /\ videoDev' = FALSE /\ inCall' = FALSE /\ autoError' = FALSE
    /\ debounceInUse' = 0 /\ debounceIdle' = 0
    /\ AtRest
    /\ quiet' = 0 /\ busy' = 0 /\ veto' = {} /\ shut' = FALSE
    /\ UNCHANGED <<outside, autoMode, camera, steady, touched>>

\* NewDaemon: settings from the state file, InCall always false.
Restart ==
    /\ ~up /\ up' = TRUE
    /\ videoDev' = present
    /\ autoMode' \in AutoMode /\ camera' \in Mode
    /\ UNCHANGED <<outside, inCall, counts, autoError, locals, history>>

\* A probe command, a uevent, or the re-probe of a write that failed.
Probe ==
    /\ up /\ videoDev' = present
    /\ UNCHANGED <<outside, up, state, counts, autoError, locals, history>>

\* applyAutoMode
AutoCommand(m) ==
    /\ up /\ autoMode' = m
    /\ switched' = (stage \notin {"rest", "look", "decide"})
    /\ UNCHANGED <<outside, up, videoDev, camera, inCall, counts, autoError, locals, look,
                   veto, shut>>

\* track, idle, privacy: one that fails changes nothing.
ModeCommand(m) ==
    /\ up /\ stage = "rest"
    /\ camera' = m
    /\ veto' = IF m = "privacy" /\ inCall THEN users ELSE {}
    /\ shut' = FALSE
    /\ UNCHANGED <<outside, up, videoDev, autoMode, inCall, counts, autoError, locals, look,
                   switched>>
-----------------------------------------------------------------------------
(* autoManage *)

\* Copy the settings, re-probe a missing node, and give up without one or
\* while auto mode is off.  The reconcile keeps the mode the daemon believes in.
StartTick ==
    /\ up /\ stage = "rest"
    /\ videoDev' = (videoDev \/ present)
    /\ IF videoDev' /\ autoMode # "off"
       THEN /\ stage' = "look" /\ mode' = autoMode
            /\ steady' = users /\ touched' = (users # {})
       ELSE UNCHANGED <<stage, mode, steady, touched>>
    /\ UNCHANGED <<outside, up, state, counts, autoError, scanned, inUse, errs,
                   quiet, busy, veto, switched, shut>>

\* isCameraInUse reads the descriptors of one process after the other.
Scan(p) ==
    /\ stage = "look" /\ p \notin scanned
    /\ scanned' = scanned \cup {p}
    /\ IF p \in users
       THEN stage' = "decide" /\ inUse' = TRUE
       ELSE stage' = (IF scanned' = Program THEN "decide" ELSE "look") /\ UNCHANGED inUse
    /\ UNCHANGED <<outside, up, videoDev, state, counts, autoError, mode, errs, history>>

\* procFDsOpenDevice cannot read the descriptors of a program that holds the
\* camera, or not the one: the program passes for one that does not.
Overlook(p) ==
    /\ stage = "look" /\ p \in users \ scanned
    /\ scanned' = scanned \cup {p} /\ steady' = steady \ {p}
    /\ stage' = IF scanned' = Program THEN "decide" ELSE "look"
    /\ UNCHANGED <<outside, up, videoDev, state, counts, autoError, mode, inUse, errs,
                   touched, quiet, busy, veto, switched, shut>>

\* isCameraInUse cannot list the processes.
LookFails ==
    /\ stage = "look" /\ scanned = {}
    /\ stage' = "decide" /\ steady' = {}
    /\ UNCHANGED <<outside, up, videoDev, state, counts, autoError, mode, scanned, inUse, errs,
                   touched, quiet, busy, veto, switched, shut>>

\* Count if a look did not end the run of opposite looks
CountBoth ==
    IF inUse
    THEN debounceInUse' = Capped(debounceInUse + 1) /\ UNCHANGED debounceIdle
    ELSE debounceIdle' = Capped(debounceIdle + 1) /\ UNCHANGED debounceInUse

Count ==
    IF inUse
    THEN debounceIdle' = 0 /\ debounceInUse' = Capped(debounceInUse + 1)
    ELSE debounceInUse' = 0 /\ debounceIdle' = Capped(debounceIdle + 1)

\* Verdict for a camera in use without asking whether a call is on already
VerdictAgain ==
    CASE inUse /\ debounceInUse' >= DebounceCount -> "start"
      [] ~inUse /\ inCall /\ debounceIdle' >= DebounceCount -> "end"
      [] OTHER -> "report"

\* Verdict if the capped counter had to exceed DebounceCount at the start of a call
VerdictNever ==
    CASE inUse /\ ~inCall /\ debounceInUse' > DebounceCount -> "start"
      [] ~inUse /\ inCall /\ debounceIdle' >= DebounceCount -> "end"
      [] OTHER -> "report"

\* Verdict if the capped counter had to exceed DebounceCount at the end of a call
VerdictOpenEnded ==
    CASE inUse /\ ~inCall /\ debounceInUse' >= DebounceCount -> "start"
      [] ~inUse /\ inCall /\ debounceIdle' > DebounceCount -> "end"
      [] OTHER -> "report"

\* What the tick does about a call, from the counters it has just updated.
Verdict ==
    CASE inUse /\ ~inCall /\ debounceInUse' >= DebounceCount -> "start"
      [] ~inUse /\ inCall /\ debounceIdle' >= DebounceCount -> "end"
      [] OTHER -> "report"

\* Reread if the tick trusted the copy it began with
NoReread == mode

Reread == autoMode

\* The section under d.mu: count the look and read the settings once more.
Decide ==
    /\ stage = "decide"
    /\ Count
    /\ mode' = Reread
    /\ stage' = Verdict
    /\ quiet' = IF steady = {} THEN Capped(quiet + 1) ELSE 0
    /\ busy' = IF touched THEN Capped(busy + 1) ELSE 0
    /\ veto' = IF quiet' = DebounceCount THEN {} ELSE veto
    /\ UNCHANGED <<outside, up, videoDev, state, autoError, scanned, inUse, errs,
                   steady, touched, switched, shut>>

\* A write of the camera mode by the tick.
WriteMode(m) ==
    \/ camera' = m /\ UNCHANGED errs
    \/ errs' = TRUE /\ UNCHANGED camera

CallStart ==
    /\ stage = "start"
    /\ inCall' = TRUE /\ shut' = FALSE
    /\ stage' = IF ActivatesTracking(mode) /\ camera # "tracking" THEN "track" ELSE "extras"
    /\ UNCHANGED <<outside, up, videoDev, autoMode, camera, counts, autoError,
                   mode, scanned, inUse, errs, look, veto, switched>>

Track ==
    /\ stage = "track" /\ stage' = "extras"
    /\ WriteMode("tracking")
    /\ UNCHANGED <<outside, up, videoDev, autoMode, inCall, counts, autoError,
                   mode, scanned, inUse, history>>

\* Audio mode and PipeWire source, which may fail too.
Extras ==
    /\ stage = "extras" /\ stage' = "report"
    /\ errs' \in IF ActivatesAudio(mode) \/ SwitchesSource(mode) THEN {errs, TRUE} ELSE {errs}
    /\ UNCHANGED <<outside, up, videoDev, state, counts, autoError,
                   mode, scanned, inUse, history>>

CallEnd ==
    /\ stage = "end"
    /\ inCall' = FALSE /\ shut' = ActivatesPrivacy(mode)
    /\ stage' = IF ActivatesPrivacy(mode) THEN "privacy" ELSE "report"
    /\ UNCHANGED <<outside, up, videoDev, autoMode, camera, counts, autoError,
                   mode, scanned, inUse, errs, look, veto, switched>>

Shut ==
    /\ stage = "privacy" /\ stage' = "report"
    /\ WriteMode("privacy")
    /\ UNCHANGED <<outside, up, videoDev, autoMode, inCall, counts, autoError,
                   mode, scanned, inUse, history>>

\* The errors of the transition, or none after a tick that made none.
Report ==
    /\ stage = "report"
    /\ autoError' = errs
    /\ AtRest
    /\ UNCHANGED <<outside, up, videoDev, state, counts, look, veto, shut>>
-----------------------------------------------------------------------------
Programs == \E p \in Program : OpenCamera(p) \/ CloseCamera(p)
Commands == \/ \E m \in AutoMode : AutoCommand(m)
            \/ \E m \in Mode : ModeCommand(m)
            \/ Probe
Look == LookFails \/ \E p \in Program : Scan(p) \/ Overlook(p)
Tick == \/ StartTick \/ Look \/ Decide
        \/ CallStart \/ Track \/ Extras \/ CallEnd \/ Shut \/ Report

Next == Plug \/ Unplug \/ Programs \/ Crash \/ Restart \/ Commands \/ Tick

Spec == Init /\ [][Next]_vars

\* The poll ticker keeps firing, and a tick that waits for hidMu gets it.
FairSpec == Spec /\ WF_vars(Tick)
-----------------------------------------------------------------------------
(* Properties. *)

TypeOK ==
    /\ present \in BOOLEAN /\ users \in SUBSET Program
    /\ up \in BOOLEAN /\ videoDev \in BOOLEAN
    /\ autoMode \in AutoMode /\ camera \in Mode /\ inCall \in BOOLEAN
    /\ debounceInUse \in 0 .. DebounceCount /\ debounceIdle \in 0 .. DebounceCount
    /\ autoError \in BOOLEAN
    /\ stage \in Stage /\ mode \in AutoMode /\ scanned \in SUBSET Program
    /\ inUse \in BOOLEAN /\ errs \in BOOLEAN
    /\ steady \in SUBSET Program /\ touched \in BOOLEAN
    /\ quiet \in 0 .. DebounceCount /\ busy \in 0 .. DebounceCount
    /\ veto \in SUBSET Program /\ switched \in BOOLEAN /\ shut \in BOOLEAN

\* A call begins only when somebody held the camera during each of the last
\* DebounceCount looks, and ends only when none of them had a program it could
\* read hold the camera throughout, however opening, closing and failing reads
\* interleave with the scan and whatever switching auto mode off, unplugging and
\* restarts did to the run of looks (autoManage, isCameraInUse).  That looks
\* which cannot read do not end a call that goes on is not promised.
CallsAreReal ==
    [][/\ ~inCall /\ inCall' => busy = DebounceCount
       /\ inCall /\ ~inCall' /\ up' => quiet = DebounceCount]_vars

\* Privacy that the user chooses in a call stands for as long as a program that
\* was in the call keeps the camera, until DebounceCount looks in a row have found
\* no program that they could read and that sat through them: other programs that
\* come and go, single looks that fail and auto commands never make the tick open
\* the lens again (autoManage, handleCallStart).
VetoStands == veto # {} => inCall /\ camera = "privacy"

\* The tick moves the lens only as the auto mode in force allows: an auto
\* command that was answered before the tick decided is respected, even when
\* the tick had copied the mode before (autoManage reads it twice).
MovesLens == stage \in {"track", "privacy"} /\ camera' # camera
AutoModeRespected ==
    [][MovesLens /\ ~switched =>
         IF camera' = "tracking" THEN ActivatesTracking(autoMode)
                                 ELSE ActivatesPrivacy(autoMode)]_vars

\* With auto mode on, a program that keeps the camera is noticed in the end if
\* the looks come to read it (a program that they can never read is not), and so is
\* a camera that nobody uses any more: no run of looks that other programs,
\* commands, failures or replugging interrupted keeps the daemon from it.
AutoOn == up /\ present /\ autoMode # "off"
CanRead(p) == <>[][~Overlook(p) /\ ~LookFails]_vars
CallNoticed ==
    \A p \in Program :
        <>[](AutoOn /\ p \in users) /\ CanRead(p) => <>[]inCall
ReleaseNoticed == <>[](AutoOn /\ users = {}) => <>[]~inCall

\* The same without the premise that it can be read.  TLC refutes it: what a look
\* cannot read passes for no call (isCameraInUse, procFDsOpenDevice).
CallNoticedAnyway ==
    \A p \in Program : <>[](AutoOn /\ p \in users) => <>[]inCall

\* README.md promises "a guaranteed physical lens block whenever no call is
\* active": after the end of a call the lens is shut, or the panel shows why not.
LensShutAfterCall == stage = "rest" /\ shut => camera = "privacy" \/ autoError
=============================================================================
