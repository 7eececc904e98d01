------------------------------- MODULE Panel -------------------------------
(***************************************************************************)
(* The update checker and the live panel together.  The checker is one of  *)
(* the publishers of Broadcaster: its verdict lies behind a lock of its    *)
(* own, and it broadcasts only when the verdict has changed.  A page shows *)
(* the verdict that was there when it was last rendered.                   *)
(***************************************************************************)
EXTENDS Broadcaster

CONSTANTS
    Checker,      \* the publisher that checks for updates
    MaxOther,     \* bound on the version up to which the others change the state
    Tag, Numbers, Pre, Build, Commit, History, Follow, None

VARIABLES
    current, latest, checker, release, newer, update, seen,
    notice        \* notice[s]: the update the page of s shows

Feed == INSTANCE Updates

ASSUME CheckerAssumption ==
    /\ Checker \in Publisher \ Web /\ MaxOther \in 0 .. MaxChanges
    /\ Feed!UpdatesAssumption

feedVars == <<current, latest, checker, release, newer, update, seen>>

panelVars == <<vars, feedVars, notice>>

PanelInit == Init /\ Feed!Init /\ notice = [s \in Session |-> None]
-----------------------------------------------------------------------------
(* The checker. *)

\* A verdict that differs is a change of the panel, announced or not.
SetVerdict ==
    /\ up /\ version < MaxChanges /\ Feed!SetVerdict
    /\ version' = IF update' = update THEN version ELSE version + 1
    /\ announced' = IF checker' = "broadcast" THEN version' ELSE announced
    /\ phase' = IF checker' = "broadcast" THEN [phase EXCEPT ![Checker] = "changed"] ELSE phase
    /\ UNCHANGED <<targets, hub, handlers, panicked, up, notice>>

Announce == Feed!Announce /\ Snapshot(Checker) /\ UNCHANGED notice

\* Its requests; the next check comes after the broadcast.
Poll ==
    /\ up
    /\ \/ phase[Checker] = "idle" /\ Feed!Check
       \/ Feed!Fetch
       \/ Feed!CheckFails
       \/ Feed!Compare
    /\ UNCHANGED <<vars, notice>>

\* Releases come and go.
Release == up /\ Feed!Publish /\ UNCHANGED <<vars, notice>>
-----------------------------------------------------------------------------
(* The rest of the daemon and the pages. *)

OtherChange ==
    /\ version < MaxOther
    /\ ChangeSilently \/ \E p \in Publisher \ {Checker} : ChangeState(p)
    /\ UNCHANGED <<feedVars, notice>>

\* The sends are the same whoever broadcasts.
FanOut(p) ==
    /\ \/ p # Checker /\ Snapshot(p)
       \/ Done(p)
       \/ \E s \in Session : SendTo(p, s) \/ SendOnClosed(p, s)
    /\ UNCHANGED <<feedVars, notice>>

\* getWebStatus copies the state and the verdict under d.mu.
Render(s) ==
    /\ RenderFirst(s) \/ Refresh(s)
    /\ notice' = [notice EXCEPT ![s] = update]
    /\ UNCHANGED feedVars

Handle(s) ==
    /\ Subscribe(s) \/ WakeUp(s) \/ Unsubscribe(s)
    /\ UNCHANGED <<feedVars, notice>>

Visit(s) == Connect(s) \/ Disconnect(s)

PanelNext ==
    \/ SetVerdict \/ Announce \/ Poll \/ Release \/ OtherChange
    \/ \E p \in Publisher : FanOut(p)
    \/ \E s \in Session : \/ Render(s) \/ Handle(s)
                          \/ Visit(s) /\ UNCHANGED <<feedVars, notice>>

PanelSpec == PanelInit /\ [][PanelNext]_panelVars

\* The goroutines that can run do; a check is made every day, and requests that
\* are made again and again do not fail for ever.
PanelFairSpec ==
    /\ PanelSpec
    /\ WF_panelVars(SetVerdict \/ Announce \/ Poll)
    /\ SF_panelVars(up /\ Feed!Fetch /\ UNCHANGED <<vars, notice>>)
    /\ SF_panelVars(up /\ Feed!Compare /\ UNCHANGED <<vars, notice>>)
    /\ \A p \in Publisher : WF_panelVars(FanOut(p))
    /\ \A s \in Session : WF_panelVars(Render(s) \/ Handle(s))
-----------------------------------------------------------------------------
\* The variables keep their types; a page shows a release or nothing.
PanelTypeOK ==
    /\ TypeOK /\ Feed!TypeOK
    /\ notice \in [Session -> Tag \cup {None}]

\* An update is offered exactly if the release the last completed check has seen
\* is newer than the build; a check that fails leaves the verdict as it was
\* (checkForUpdate, isNewerRelease).
VerdictIsRight == Feed!VerdictIsRight

\* A page that waits with an empty channel, and whom no broadcast in flight will
\* wake, shows the verdict there is, if it has missed no announcement: that the
\* checker is silent about a verdict it repeats never leaves a page with another
\* one (updateState.set, checkForUpdate, handleEvents).
NoticeIsCurrent ==
    \A s \in Session : Quiet(s) => notice[s] = update \/ missed[s] = announced

\* If releases stop coming and the daemon goes on, a page that stays finally says
\* of the newest release whether it is newer than the build, however many checks
\* fail, unless it has missed the announcement (runUpdateChecker, handleEvents).
NewestIsNoticed ==
    \A s \in Session, t \in Tag :
        /\ Feed!Comparable /\ []up
        /\ <>[](latest = t) /\ <>[](page[s] \in {"waiting", "refresh"})
        => <>[](\/ notice[s] = (IF Feed!Outdated(t) THEN t ELSE None)
                \/ missed[s] = announced)
=============================================================================
