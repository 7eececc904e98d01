---------------------------- MODULE PanelProofs ----------------------------
(***************************************************************************)
(* Proofs about Broadcaster, for any number of pages and publishers, any   *)
(* buffer size and any number of changes, and about Panel, where one of    *)
(* the publishers is the update checker, for any releases and builds.      *)
(*                                                                         *)
(* WaitingIsCurrent is inductive once one adds that a page whose handler   *)
(* is past Subscribe and before Unsubscribe is in the set a snapshot       *)
(* copies, that a publisher that does not send has nothing to send, and    *)
(* that no change is announced before it is made.                          *)
(*                                                                         *)
(* Panel implements Broadcaster: a verdict that has changed is a change of *)
(* the state by the checker, everything else it does is a stutter.  So     *)
(* WaitingIsCurrent holds there as well, and a page that shows the last    *)
(* change that was announced shows the current verdict.                    *)
(***************************************************************************)
EXTENDS Panel, Sequences, TLAPS

\* A handler that serves its page is subscribed, so every snapshot reaches it.
ServedIsSubscribed == \A s \in Session : page[s] \in {"waiting", "refresh"} => s \in subscribers

\* Only a publisher in the middle of its fan-out has channels left to send to.
TargetsOnlyWhileSending == \A p \in Publisher : phase[p] # "sending" => targets[p] = {}

\* What is announced has happened.
AnnouncedHasHappened == announced <= version

IInv ==
    /\ TypeOK /\ ServedIsSubscribed /\ TargetsOnlyWhileSending
    /\ AnnouncedHasHappened /\ WaitingIsCurrent

(* At first nobody has connected and nobody publishes. *)
LEMMA InitIInv == Init => IInv
<1> SUFFICES ASSUME Init PROVE IInv
  OBVIOUS
<1>1. TypeOK
  <2>1. version \in 0 .. MaxChanges /\ announced \in 0 .. MaxChanges /\ buffered \in [Session -> 0 .. Buffer]
    BY BufferAssumption DEF Init
  <2>2. shown \in [Session -> 0 .. MaxChanges] /\ missed \in [Session -> 0 .. MaxChanges]
    BY BufferAssumption DEF Init
  <2>3. phase \in [Publisher -> Phase] /\ targets \in [Publisher -> SUBSET Session]
    BY DEF Init, Phase
  <2>4. page \in [Session -> Page] /\ subscribers \in SUBSET Session /\ closed \in SUBSET Session
    BY DEF Init, Page
  <2>5. panicked \in BOOLEAN /\ up \in BOOLEAN
    BY DEF Init
  <2>6. QED
    BY <2>1, <2>2, <2>3, <2>4, <2>5 DEF TypeOK
<1>2. ServedIsSubscribed /\ WaitingIsCurrent /\ AnnouncedHasHappened
  BY DEF Init, ServedIsSubscribed, WaitingIsCurrent, Quiet, AnnouncedHasHappened
<1>3. TargetsOnlyWhileSending
  BY DEF Init, TargetsOnlyWhileSending
<1>4. QED
  BY <1>1, <1>2, <1>3 DEF IInv

(* Every step keeps the types: a full buffer takes no further wake-up. *)
LEMMA TypeStep ==
  ASSUME TypeOK, [Next]_vars
  PROVE  TypeOK'
<1> USE BufferAssumption, SessionAssumption DEF TypeOK, Phase, Page
<1>1. ASSUME NEW p \in Publisher, ChangeState(p) PROVE TypeOK'
  BY <1>1 DEF ChangeState, hub, handlers
<1>2. ASSUME NEW p \in Publisher, Snapshot(p) PROVE TypeOK'
  BY <1>2 DEF Snapshot, hub, handlers
<1>3. ASSUME NEW p \in Publisher, NEW s \in Session, SendTo(p, s) PROVE TypeOK'
  BY <1>3 DEF SendTo, handlers
<1>4. ASSUME NEW p \in Publisher, NEW s \in Session, SendOnClosed(p, s) PROVE TypeOK'
  BY <1>4 DEF SendOnClosed, hub
<1>5. ASSUME NEW p \in Publisher, Done(p) PROVE TypeOK'
  BY <1>5 DEF Done, hub, handlers
<1>6. ASSUME NEW s \in Session, Connect(s) \/ Disconnect(s) PROVE TypeOK'
  BY <1>6 DEF Connect, Disconnect, publishing, hub
<1>7. ASSUME NEW s \in Session, RenderFirst(s) \/ Refresh(s) PROVE TypeOK'
  BY <1>7 DEF RenderFirst, Refresh, publishing, hub
<1>8. ASSUME NEW s \in Session, Subscribe(s) \/ WakeUp(s) \/ Unsubscribe(s) PROVE TypeOK'
  BY <1>8 DEF Subscribe, WakeUp, Unsubscribe, publishing
<1>9. CASE ChangeSilently
  BY <1>9 DEF ChangeSilently, hub, handlers
<1>10. CASE UNCHANGED vars
  BY <1>10 DEF vars, publishing, hub, handlers
<1>11. QED
  BY <1>1, <1>2, <1>3, <1>4, <1>5, <1>6, <1>7, <1>8, <1>9, <1>10 DEF Next, Publish, Serve

(* Subscribing comes before serving, unsubscribing after it. *)
LEMMA SubscribedStep ==
  ASSUME TypeOK, ServedIsSubscribed, [Next]_vars
  PROVE  ServedIsSubscribed'
<1> USE DEF TypeOK, ServedIsSubscribed, publishing, hub, handlers
<1>1. ASSUME NEW p \in Publisher, ChangeState(p) \/ Snapshot(p) \/ Done(p)
      PROVE  ServedIsSubscribed'
  BY <1>1 DEF ChangeState, Snapshot, Done
<1>2. ASSUME NEW p \in Publisher, NEW s \in Session, SendTo(p, s) \/ SendOnClosed(p, s)
      PROVE  ServedIsSubscribed'
  BY <1>2 DEF SendTo, SendOnClosed
<1>3. ASSUME NEW s \in Session, Connect(s) \/ Disconnect(s) \/ RenderFirst(s) \/ Subscribe(s)
      PROVE  ServedIsSubscribed'
  BY <1>3 DEF Connect, Disconnect, RenderFirst, Subscribe
<1>4. ASSUME NEW s \in Session, WakeUp(s) \/ Refresh(s) \/ Unsubscribe(s)
      PROVE  ServedIsSubscribed'
  BY <1>4 DEF WakeUp, Refresh, Unsubscribe
<1>5. CASE ChangeSilently \/ UNCHANGED vars
  BY <1>5 DEF ChangeSilently, vars
<1>6. QED
  BY <1>1, <1>2, <1>3, <1>4, <1>5 DEF Next, Publish, Serve

(* A publisher leaves "sending" when it has no target left. *)
LEMMA TargetsStep ==
  ASSUME TypeOK, TargetsOnlyWhileSending, [Next]_vars
  PROVE  TargetsOnlyWhileSending'
<1> USE DEF TypeOK, TargetsOnlyWhileSending, publishing
<1>1. ASSUME NEW p \in Publisher, ChangeState(p) \/ Snapshot(p) \/ Done(p)
      PROVE  TargetsOnlyWhileSending'
  BY <1>1 DEF ChangeState, Snapshot, Done
<1>2. ASSUME NEW p \in Publisher, NEW s \in Session, SendTo(p, s) \/ SendOnClosed(p, s)
      PROVE  TargetsOnlyWhileSending'
  BY <1>2 DEF SendTo, SendOnClosed
<1>3. ASSUME NEW s \in Session, Connect(s) \/ Serve(s) \/ Disconnect(s)
      PROVE  TargetsOnlyWhileSending'
  BY <1>3 DEF Connect, Serve, Disconnect, RenderFirst, Subscribe, WakeUp, Refresh, Unsubscribe
<1>4. CASE ChangeSilently \/ UNCHANGED vars
  BY <1>4 DEF ChangeSilently, vars
<1>5. QED
  BY <1>1, <1>2, <1>3, <1>4 DEF Next, Publish

(* A change is made no later than it is announced.                           *)
LEMMA AnnouncedStep ==
  ASSUME TypeOK, AnnouncedHasHappened, [Next]_vars
  PROVE  AnnouncedHasHappened'
<1> USE BufferAssumption DEF TypeOK, AnnouncedHasHappened, publishing
<1>1. ASSUME NEW p \in Publisher, ChangeState(p) \/ Publish(p)
      PROVE  AnnouncedHasHappened'
  BY <1>1 DEF ChangeState, Publish, Snapshot, Done, SendTo, SendOnClosed
<1>2. ASSUME NEW s \in Session, Connect(s) \/ Serve(s) \/ Disconnect(s)
      PROVE  AnnouncedHasHappened'
  BY <1>2 DEF Connect, Serve, Disconnect, RenderFirst, Subscribe, WakeUp, Refresh, Unsubscribe
<1>3. CASE ChangeSilently \/ UNCHANGED vars
  BY <1>3 DEF ChangeSilently, vars
<1>4. QED
  BY <1>1, <1>2, <1>3 DEF Next

(* The heart of it: whoever stops announcing to a page has woken it, and a   *)
(* page goes back to waiting with what is current.                           *)
LEMMA CurrentStep ==
  ASSUME IInv, [Next]_vars
  PROVE  WaitingIsCurrent'
<1> USE BufferAssumption DEF IInv, TypeOK, AnnouncedHasHappened, WaitingIsCurrent, Quiet, HasTheNews, Announcing
<1>1. ASSUME NEW p \in Publisher, ChangeState(p) PROVE WaitingIsCurrent'
  <2>1. \A s \in Session : Announcing(s)'
    BY <1>1 DEF ChangeState
  <2>2. QED
    BY <2>1
<1>2. ASSUME NEW p \in Publisher, Snapshot(p) PROVE WaitingIsCurrent'
  <2>1. phase' = [phase EXCEPT ![p] = "sending"] /\ targets' = [targets EXCEPT ![p] = subscribers]
    BY <1>2 DEF Snapshot
  <2>2. UNCHANGED <<version, announced, hub, handlers>>
    BY <1>2 DEF Snapshot
  <2>3. \A s \in subscribers : s \in Session => Announcing(s)'
    BY <2>1
  <2>4. \A s \in Session : page'[s] = "waiting" => Announcing(s)'
    BY <2>2, <2>3 DEF ServedIsSubscribed, handlers
  <2>5. QED
    BY <2>4
<1>3. ASSUME NEW p \in Publisher, NEW s \in Session, SendTo(p, s) PROVE WaitingIsCurrent'
  <2>1. UNCHANGED <<announced, phase, page, shown, missed>>
    BY <1>3 DEF SendTo, handlers
  <2>2. buffered'[s] # 0
    BY <1>3 DEF SendTo
  <2>3. \A t \in Session \ {s} : buffered'[t] = buffered[t] /\ (Announcing(t) => Announcing(t)')
    BY <1>3 DEF SendTo
  <2>4. QED
    BY <2>1, <2>2, <2>3
<1>4. ASSUME NEW p \in Publisher, NEW s \in Session, SendOnClosed(p, s)
      PROVE  WaitingIsCurrent'
  <2>1. CASE p \in Web
    <3>1. \A t \in targets[p] : t \in Session => missed'[t] = announced'
      BY <1>4, <2>1 DEF SendOnClosed
    <3>2. \A t \in Session \ targets[p] :
            missed'[t] = missed[t] /\ (Announcing(t) => Announcing(t)')
      BY <1>4, <2>1 DEF SendOnClosed
    <3>3. UNCHANGED <<announced, buffered, page, shown>>
      BY <1>4, <2>1 DEF SendOnClosed, hub
    <3>4. QED
      BY <3>1, <3>2, <3>3
  <2>2. CASE p \notin Web
    BY <1>4, <2>2 DEF SendOnClosed
  <2>3. QED
    BY <2>1, <2>2
<1>5. ASSUME NEW p \in Publisher, Done(p) PROVE WaitingIsCurrent'
  <2>1. UNCHANGED <<announced, buffered, page, shown, missed>>
    BY <1>5 DEF Done, hub, handlers
  <2>2. \A s \in Session : Announcing(s) => Announcing(s)'
    BY <1>5 DEF Done
  <2>3. QED
    BY <2>1, <2>2
<1>6. ASSUME NEW s \in Session, Connect(s) \/ Disconnect(s) \/ RenderFirst(s) \/ Unsubscribe(s)
      PROVE  WaitingIsCurrent'
  BY <1>6 DEF Connect, Disconnect, RenderFirst, Unsubscribe, publishing, hub
<1>7. ASSUME NEW s \in Session, Subscribe(s) \/ WakeUp(s) \/ Refresh(s)
      PROVE  WaitingIsCurrent'
  BY <1>7 DEF Subscribe, WakeUp, Refresh, publishing, hub
<1>8. CASE ChangeSilently \/ UNCHANGED vars
  BY <1>8 DEF ChangeSilently, vars, publishing, hub, handlers
<1>9. QED
  BY <1>1, <1>2, <1>3, <1>4, <1>5, <1>6, <1>7, <1>8 DEF Next, Publish, Serve

(* The invariant, and with it types and capacity of every channel hold in    *)
(* every reachable state.                                                    *)
LEMMA Invariant == Spec => []IInv
<1>1. IInv /\ [Next]_vars => IInv'
  BY TypeStep, SubscribedStep, TargetsStep, AnnouncedStep, CurrentStep DEF IInv
<1>2. QED
  BY InitIInv, <1>1, PTL DEF Spec

(* Every variable has its type and no channel ever holds more wake-ups than   *)
(* its buffer, however many publishers send at once (Broadcast's select).     *)
THEOREM TypeCorrect == Spec => []TypeOK
<1>1. IInv => TypeOK
  BY DEF IInv
<1>2. QED
  BY Invariant, <1>1, PTL

(* A page that waits with an empty channel, and whom no broadcast in flight   *)
(* will wake, shows the state of the last change that was broadcast or a      *)
(* later one, unless that broadcast came before it subscribed or panicked:    *)
(* dropping wake-ups for a full channel loses nothing that is announced,      *)
(* however many changes are not (Broadcast, handleEvents).                    *)
THEOREM DroppingLosesNothing == Spec => []WaitingIsCurrent
<1>1. IInv => WaitingIsCurrent
  BY DEF IInv
<1>2. QED
  BY Invariant, <1>1, PTL

-----------------------------------------------------------------------------
(* Comparing versions: the code looks for the first difference, the order of *)
(* versions is lexicographic.                                                *)

LEMMA CoreType ==
  ASSUME CheckerAssumption, NEW t \in Tag \cup (Build \ Commit)
  PROVE  Feed!Core(t) \in [1 .. 3 -> Nat]
<1>1. Numbers[t] \in Seq(Nat)
  BY DEF CheckerAssumption, Feed!UpdatesAssumption
<1>2. Len(Numbers[t]) \in Nat /\ \A i \in 1 .. Len(Numbers[t]) : Numbers[t][i] \in Nat
  BY <1>1
<1>3. \A i \in 1 .. 3 : (IF i <= Len(Numbers[t]) THEN Numbers[t][i] ELSE 0) \in Nat
  BY <1>2
<1>4. QED
  BY <1>3 DEF Feed!Core

LEMMA FirstDifferenceCounts ==
  ASSUME NEW a \in [1 .. 3 -> Nat], NEW b \in [1 .. 3 -> Nat]
  PROVE  /\ Feed!CompareVersionCores(a, b) = 0 <=> a = b
         /\ Feed!CompareVersionCores(a, b) = 1 <=>
              \E i \in 1 .. 3 : a[i] < b[i] /\ \A j \in 1 .. i - 1 : a[j] = b[j]
<1> DEFINE differ == {i \in 1 .. 3 : a[i] # b[i]}
           first  == CHOOSE j \in differ : \A k \in differ : j <= k
<1>1. Feed!CompareVersionCores(a, b) =
        IF differ = {} THEN 0 ELSE IF a[first] < b[first] THEN 1 ELSE 2
  BY DEF Feed!CompareVersionCores
<1>2. CASE differ = {}
  <2>1. \A i \in 1 .. 3 : a[i] = b[i]
    BY <1>2
  <2>2. a = b
    BY <2>1
  <2>3. \A i \in 1 .. 3 : ~(a[i] < b[i])
    BY <2>1
  <2>4. QED
    BY <1>1, <1>2, <2>2, <2>3
<1>3. CASE differ # {}
  <2>1. \E j \in differ : \A k \in differ : j <= k
    <3>1. differ \subseteq {1, 2, 3}
      OBVIOUS
    <3>2. CASE 1 \in differ
      BY <3>1, <3>2
    <3>3. CASE 1 \notin differ /\ 2 \in differ
      BY <3>1, <3>3
    <3>4. CASE 1 \notin differ /\ 2 \notin differ
      BY <1>3, <3>1, <3>4
    <3>5. QED
      BY <3>2, <3>3, <3>4
  <2>2. first \in differ /\ \A k \in differ : first <= k
    BY <2>1
  <2>3. PICK i \in 1 .. 3 : i = first /\ a[i] # b[i] /\ \A k \in 1 .. 3 : a[k] # b[k] => i <= k
    BY <2>2
  <2>4. a # b
    BY <2>3
  <2>5. \A j \in 1 .. i - 1 : a[j] = b[j]
    BY <2>3
  <2>6. ASSUME NEW k \in 1 .. 3, a[k] < b[k], \A j \in 1 .. k - 1 : a[j] = b[j]
        PROVE  k = i
    <3>1. a[k] # b[k]
      BY <2>6
    <3>2. i <= k
      BY <2>3, <3>1
    <3>3. ~(i < k)
      BY <2>3, <2>6
    <3>4. QED
      BY <3>2, <3>3
  <2>7. Feed!CompareVersionCores(a, b) = IF a[i] < b[i] THEN 1 ELSE 2
    BY <1>1, <1>3, <2>3
  <2>8. QED
    BY <2>4, <2>5, <2>6, <2>7
<1>4. QED
  BY <1>2, <1>3

(* newerThanCurrent says newer of exactly the releases that are.             *)
LEMMA NewerIsOutdated ==
  ASSUME CheckerAssumption, NEW t \in Tag, current \in Build
  PROVE  Feed!NewerThanCurrent(t) <=> Feed!Outdated(t)
<1>1. CASE current \in Commit
  BY <1>1 DEF Feed!NewerThanCurrent, Feed!Outdated
<1>2. CASE current \notin Commit
  <2>1. Feed!Core(current) \in [1 .. 3 -> Nat] /\ Feed!Core(t) \in [1 .. 3 -> Nat]
    BY <1>2, CoreType
  <2> DEFINE a == Feed!Core(current)
             b == Feed!Core(t)
  <2>2. /\ Feed!CompareVersionCores(a, b) = 0 <=> a = b
        /\ Feed!CompareVersionCores(a, b) = 1 <=>
             \E i \in 1 .. 3 : a[i] < b[i] /\ \A j \in 1 .. i - 1 : a[j] = b[j]
    BY <2>1, FirstDifferenceCounts
  <2>3. Feed!Older(current, t) <=> 
          \/ \E i \in 1 .. 3 : a[i] < b[i] /\ \A j \in 1 .. i - 1 : a[j] = b[j]
          \/ a = b /\ Pre[current] /\ ~Pre[t]
    BY DEF Feed!Older
  <2>4. Feed!NewerThanCurrent(t) <=>
          /\ Feed!Parses(current) /\ Feed!Parses(t)
          /\ \/ Feed!CompareVersionCores(a, b) = 1
             \/ Feed!CompareVersionCores(a, b) = 0 /\ Pre[current] /\ ~Pre[t]
    BY <1>2 DEF Feed!NewerThanCurrent, Feed!IsNewerRelease
  <2>5. Feed!Outdated(t) <=>
          Feed!Parses(current) /\ Feed!Parses(t) /\ Feed!Older(current, t)
    BY <1>2 DEF Feed!Outdated
  <2> HIDE DEF a, b
  <2>6. QED
    BY <2>2, <2>3, <2>4, <2>5
<1>3. QED
  BY <1>1, <1>2

-----------------------------------------------------------------------------
(* The panel with the checker. *)

\* While the checker decides nothing is announced in its name, and a verdict
\* that has changed waits for its broadcast.
CheckerPhase ==
    /\ checker \in {"fetch", "compare", "set"} => phase[Checker] = "idle"
    /\ checker = "broadcast" => phase[Checker] = "changed"

\* What the checker has in hand: a release, and what it thinks of it.
InHand ==
    /\ checker \in {"compare", "set"} => release \in Tag
    /\ checker = "set" => newer = Feed!NewerThanCurrent(release)

\* No page is ahead of the state, and one that shows the last announced change
\* shows the verdict there is.
NoticeFollows ==
    \A s \in Session :
        /\ shown[s] <= version
        /\ shown[s] >= announced => notice[s] = update

PanelInv == IInv /\ PanelTypeOK /\ CheckerPhase /\ InHand /\ VerdictIsRight /\ NoticeFollows

(* The daemon has been started and nobody has asked for anything.            *)
LEMMA InitPanelInv == PanelInit => PanelInv
<1> SUFFICES ASSUME PanelInit PROVE PanelInv
  OBVIOUS
<1>1. IInv
  BY InitIInv DEF PanelInit
<1>2. PanelTypeOK
  BY <1>1 DEF PanelInit, PanelTypeOK, IInv, Feed!Init, Feed!TypeOK
<1>3. CheckerPhase /\ InHand /\ VerdictIsRight
  BY DEF PanelInit, CheckerPhase, InHand, VerdictIsRight, Feed!Init, Feed!VerdictIsRight
<1>4. NoticeFollows
  BY DEF PanelInit, NoticeFollows, Init, Feed!Init
<1>5. QED
  BY <1>1, <1>2, <1>3, <1>4 DEF PanelInv

(* A verdict that has changed is a change of the state by the checker, one    *)
(* that is repeated is nothing a page could see.                              *)
LEMMA VerdictImplements ==
  ASSUME PanelInv, SetVerdict
  PROVE  IF update' = update THEN UNCHANGED vars ELSE ChangeState(Checker)
<1>1. /\ up /\ version < MaxChanges /\ checker = "set"
      /\ update' = Feed!Verdict
      /\ checker' = IF Feed!Verdict # update THEN "broadcast" ELSE "wait"
  BY DEF SetVerdict, Feed!SetVerdict
<1>2. phase[Checker] = "idle"
  BY <1>1 DEF PanelInv, CheckerPhase
<1>3. CASE update' = update
  <2>1. version' = version /\ announced' = announced /\ phase' = phase
    BY <1>1, <1>3 DEF SetVerdict
  <2>2. QED
    BY <2>1, <1>3 DEF SetVerdict, vars, publishing
<1>4. CASE update' # update
  <2>1. /\ version' = version + 1 /\ announced' = version + 1
        /\ phase' = [phase EXCEPT ![Checker] = "changed"]
    BY <1>1, <1>4 DEF SetVerdict
  <2>2. QED
    BY <1>1, <1>2, <1>4, <2>1 DEF SetVerdict, ChangeState
<1>5. QED
  BY <1>3, <1>4

(* Every step of the panel is one of Broadcaster or a stutter.                *)
LEMMA StepImplements ==
  ASSUME PanelInv, [PanelNext]_panelVars
  PROVE  [Next]_vars
<1> USE CheckerAssumption
<1>1. CASE SetVerdict
  BY <1>1, VerdictImplements DEF Next
<1>2. CASE Announce
  BY <1>2 DEF Announce, Next, Publish
<1>3. CASE Poll \/ Release
  BY <1>3 DEF Poll, Release
<1>4. CASE OtherChange
  BY <1>4 DEF OtherChange, Next
<1>5. ASSUME NEW p \in Publisher, FanOut(p) PROVE [Next]_vars
  BY <1>5 DEF FanOut, Next, Publish
<1>6. ASSUME NEW s \in Session, Render(s) \/ Handle(s) \/ Visit(s) PROVE [Next]_vars
  BY <1>6 DEF Render, Handle, Visit, Next, Serve
<1>7. CASE UNCHANGED panelVars
  BY <1>7 DEF panelVars
<1>8. QED
  BY <1>1, <1>2, <1>3, <1>4, <1>5, <1>6, <1>7 DEF PanelNext

(* What the feed's own steps do to the types.                                 *)
LEMMA FeedTypeStep ==
  ASSUME PanelInv, [PanelNext]_panelVars
  PROVE  Feed!TypeOK'
<1> USE CheckerAssumption DEF PanelInv, PanelTypeOK, Feed!TypeOK, Feed!UpdatesAssumption
<1>1. CASE SetVerdict
  <2>1. Feed!Verdict \in Tag \cup {None}
    BY DEF Feed!Verdict
  <2>2. QED
    BY <1>1, <2>1 DEF SetVerdict, Feed!SetVerdict
<1>2. CASE Announce
  BY <1>2 DEF Announce, Feed!Announce
<1>3. CASE Poll
  <2>1. CASE Feed!Check \/ Feed!Fetch \/ Feed!CheckFails
    BY <2>1 DEF Feed!Check, Feed!Fetch, Feed!CheckFails
  <2>2. CASE Feed!Compare
    <3>1. newer' \in BOOLEAN
      <4>1. release \in Tag /\ newer' = Feed!NewerThanCurrent(release)
        BY <2>2 DEF Feed!Compare, InHand
      <4>2. Feed!NewerThanCurrent(release) \in BOOLEAN
        BY DEF Feed!NewerThanCurrent, Feed!IsNewerRelease
      <4>3. QED
        BY <4>1, <4>2
    <3>2. QED
      BY <2>2, <3>1 DEF Feed!Compare
  <2>3. QED
    BY <1>3, <2>1, <2>2 DEF Poll
<1>4. CASE Release
  BY <1>4 DEF Release, Feed!Publish
<1>5. CASE UNCHANGED feedVars
  BY <1>5 DEF feedVars
<1>6. QED
  BY <1>1, <1>2, <1>3, <1>4, <1>5
     DEF PanelNext, OtherChange, FanOut, Render, Handle, panelVars

(* The checker and its broadcasts go together: nobody else moves its phase    *)
(* while it decides.                                                          *)
LEMMA PhaseStep ==
  ASSUME PanelInv, [PanelNext]_panelVars
  PROVE  CheckerPhase'
<1> USE CheckerAssumption DEF PanelInv, CheckerPhase
<1>. phase \in [Publisher -> Phase]
  BY DEF IInv, TypeOK
<1>1. CASE SetVerdict
  BY <1>1 DEF SetVerdict, Feed!SetVerdict
<1>2. CASE Announce
  BY <1>2 DEF Announce, Feed!Announce
<1>3. CASE Poll
  BY <1>3 DEF Poll, Feed!Check, Feed!Fetch, Feed!CheckFails, Feed!Compare, vars, publishing
<1>4. CASE Release
  BY <1>4 DEF Release, Feed!Publish, vars, publishing
<1>5. CASE OtherChange
  BY <1>5 DEF OtherChange, ChangeState, ChangeSilently, feedVars
<1>6. ASSUME NEW p \in Publisher, FanOut(p) PROVE CheckerPhase'
  <2>1. checker' = checker
    BY <1>6 DEF FanOut, feedVars
  <2>2. CASE p # Checker /\ Snapshot(p)
    BY <2>1, <2>2 DEF Snapshot
  <2>3. CASE Done(p)
    BY <2>1, <2>3 DEF Done
  <2>4. ASSUME NEW s \in Session, SendTo(p, s) \/ SendOnClosed(p, s) PROVE CheckerPhase'
    BY <2>1, <2>4 DEF SendTo, SendOnClosed
  <2>5. QED
    BY <1>6, <2>2, <2>3, <2>4 DEF FanOut
<1>7. ASSUME NEW s \in Session, Render(s) \/ Handle(s) \/ (Visit(s) /\ UNCHANGED <<feedVars, notice>>)
      PROVE  CheckerPhase'
  <2>1. checker' = checker
    BY <1>7 DEF Render, Handle, feedVars
  <2>2. phase' = phase
    BY <1>7 DEF Render, Handle, Visit, RenderFirst, Refresh, Subscribe, WakeUp, Unsubscribe,
                Connect, Disconnect, publishing
  <2>3. QED
    BY <2>1, <2>2
<1>8. CASE UNCHANGED panelVars
  BY <1>8 DEF panelVars, vars, publishing, feedVars
<1>9. QED
  BY <1>1, <1>2, <1>3, <1>4, <1>5, <1>6, <1>7, <1>8 DEF PanelNext

(* What the checker compares is what it has fetched, and what it has compared *)
(* is what the verdict is made of.                                            *)
LEMMA InHandStep ==
  ASSUME PanelInv, [PanelNext]_panelVars
  PROVE  InHand' /\ VerdictIsRight'
<1> USE CheckerAssumption DEF InHand, VerdictIsRight
<1>. PanelTypeOK /\ InHand /\ VerdictIsRight
  BY DEF PanelInv
<1>1. CASE SetVerdict
  <2>1. /\ checker = "set" /\ update' = Feed!Verdict /\ seen' = release
        /\ checker' \in {"broadcast", "wait"} /\ current' = current
    BY <1>1 DEF SetVerdict, Feed!SetVerdict
  <2>2. release \in Tag /\ release # None
    BY <2>1 DEF Feed!UpdatesAssumption, CheckerAssumption
  <2>3. newer = Feed!Outdated(release)
    <3>1. newer = Feed!NewerThanCurrent(release) /\ current \in Build
      BY <2>1 DEF PanelTypeOK, Feed!TypeOK
    <3>2. Feed!NewerThanCurrent(release) = Feed!Outdated(release)
      <4>1. Feed!NewerThanCurrent(release) <=> Feed!Outdated(release)
        BY <2>2, <3>1, NewerIsOutdated
      <4>2. /\ Feed!NewerThanCurrent(release) \in BOOLEAN
            /\ Feed!Outdated(release) \in BOOLEAN
        BY DEF Feed!NewerThanCurrent, Feed!Outdated, Feed!IsNewerRelease
      <4>3. QED
        BY <4>1, <4>2
    <3>3. QED
      BY <3>1, <3>2
  <2>4. Feed!Outdated(seen)' = Feed!Outdated(release)
    BY <2>1 DEF Feed!Outdated
  <2>5. Feed!VerdictIsRight'
    BY <2>1, <2>2, <2>3, <2>4 DEF Feed!VerdictIsRight, Feed!Verdict
  <2>6. QED
    BY <2>1, <2>5
<1>2. CASE Announce \/ Release
  <2>1. UNCHANGED <<current, release, newer, update, seen>>
    BY <1>2 DEF Announce, Feed!Announce, Release, Feed!Publish
  <2>2. checker' = "wait" \/ checker' = checker
    BY <1>2 DEF Announce, Feed!Announce, Release, Feed!Publish
  <2>3. QED
    BY <2>1, <2>2 DEF Feed!VerdictIsRight, Feed!NewerThanCurrent, Feed!Outdated
<1>3. CASE Poll
  <2>1. UNCHANGED <<current, update, seen>>
    BY <1>3 DEF Poll, Feed!Check, Feed!Fetch, Feed!CheckFails, Feed!Compare
  <2>2. Feed!VerdictIsRight'
    BY <2>1 DEF Feed!VerdictIsRight, Feed!Outdated
  <2>3. CASE Feed!Check \/ Feed!CheckFails
    BY <2>2, <2>3 DEF Feed!Check, Feed!CheckFails
  <2>4. CASE Feed!Fetch
    BY <2>2, <2>4 DEF Feed!Fetch, PanelTypeOK, Feed!TypeOK
  <2>5. CASE Feed!Compare
    <3>1. checker = "compare" /\ release' = release /\ newer' = Feed!NewerThanCurrent(release)
      BY <2>5 DEF Feed!Compare
    <3>2. Feed!NewerThanCurrent(release)' = Feed!NewerThanCurrent(release)
      BY <2>1, <3>1 DEF Feed!NewerThanCurrent
    <3>3. QED
      BY <2>2, <3>1, <3>2
  <2>6. QED
    BY <1>3, <2>3, <2>4, <2>5 DEF Poll
<1>4. CASE UNCHANGED feedVars
  BY <1>4 DEF feedVars, Feed!VerdictIsRight, Feed!NewerThanCurrent, Feed!Outdated
<1>5. QED
  BY <1>1, <1>2, <1>3, <1>4 DEF PanelNext, OtherChange, FanOut, Render, Handle, panelVars

(* A verdict changes only together with the version, and a page that takes    *)
(* the version takes the verdict in the same step.                            *)
LEMMA NoticeStep ==
  ASSUME PanelInv, [PanelNext]_panelVars
  PROVE  NoticeFollows' /\ (notice \in [Session -> Tag \cup {None}])'
<1> USE CheckerAssumption DEF NoticeFollows
<1>. /\ NoticeFollows /\ notice \in [Session -> Tag \cup {None}] /\ update \in Tag \cup {None}
     /\ version \in Nat /\ announced \in Nat /\ announced <= version
     /\ shown \in [Session -> Nat]
  BY DEF PanelInv, PanelTypeOK, IInv, TypeOK, AnnouncedHasHappened, Feed!TypeOK
<1>1. CASE SetVerdict
  <2>1. UNCHANGED <<shown, notice>>
    BY <1>1 DEF SetVerdict, handlers
  <2>2. CASE update' = update
    <3>1. version' = version /\ announced' = announced
      BY <1>1, <2>2 DEF SetVerdict, Feed!SetVerdict
    <3>2. QED
      BY <2>1, <2>2, <3>1
  <2>3. CASE update' # update
    <3>1. version' = version + 1 /\ announced' = version + 1
      BY <1>1, <2>3 DEF SetVerdict, Feed!SetVerdict
    <3>2. \A s \in Session : shown[s] < announced'
      BY <3>1
    <3>3. QED
      BY <2>1, <3>1, <3>2
  <2>4. QED
    BY <2>2, <2>3
<1>2. CASE Announce
  BY <1>2 DEF Announce, Feed!Announce, Snapshot, handlers
<1>3. CASE Poll \/ Release
  <2>1. UNCHANGED <<version, announced, shown, notice>>
    BY <1>3 DEF Poll, Release, vars, publishing, handlers
  <2>2. update' = update
    BY <1>3 DEF Poll, Release, Feed!Check, Feed!Fetch, Feed!CheckFails, Feed!Compare, Feed!Publish
  <2>3. QED
    BY <2>1, <2>2
<1>4. CASE OtherChange
  <2>1. version' = version + 1 /\ UNCHANGED <<shown, notice, update>>
    BY <1>4 DEF OtherChange, ChangeState, ChangeSilently, handlers, feedVars
  <2>2. announced' = version + 1 \/ announced' = announced
    BY <1>4 DEF OtherChange, ChangeState, ChangeSilently
  <2>3. \A s \in Session : shown[s] < version'
    BY <2>1
  <2>4. QED
    BY <2>1, <2>2, <2>3
<1>5. ASSUME NEW p \in Publisher, FanOut(p)
      PROVE  NoticeFollows' /\ (notice \in [Session -> Tag \cup {None}])'
  <2>1. UNCHANGED <<version, announced, shown>>
    BY <1>5 DEF FanOut, Snapshot, Done, SendTo, SendOnClosed, handlers
  <2>2. UNCHANGED <<update, notice>>
    BY <1>5 DEF FanOut, feedVars
  <2>3. QED
    BY <2>1, <2>2
<1>6. ASSUME NEW s \in Session, Render(s)
      PROVE  NoticeFollows' /\ (notice \in [Session -> Tag \cup {None}])'
  <2>1. /\ version' = version /\ announced' = announced /\ shown' = [shown EXCEPT ![s] = version]
        /\ update' = update /\ notice' = [notice EXCEPT ![s] = update]
    BY <1>6 DEF Render, RenderFirst, Refresh, publishing, feedVars
  <2>2. QED
    BY <2>1
<1>7. ASSUME NEW s \in Session, Handle(s) \/ (Visit(s) /\ UNCHANGED <<feedVars, notice>>)
      PROVE  NoticeFollows' /\ (notice \in [Session -> Tag \cup {None}])'
  <2>1. UNCHANGED <<version, announced, shown>>
    BY <1>7 DEF Handle, Visit, Subscribe, WakeUp, Unsubscribe, Connect, Disconnect, publishing
  <2>2. UNCHANGED <<update, notice>>
    BY <1>7 DEF Handle, feedVars
  <2>3. QED
    BY <2>1, <2>2
<1>8. CASE UNCHANGED panelVars
  BY <1>8 DEF panelVars, vars, publishing, handlers, feedVars
<1>9. QED
  BY <1>1, <1>2, <1>3, <1>4, <1>5, <1>6, <1>7, <1>8 DEF PanelNext

LEMMA PanelInvariant == PanelSpec => []PanelInv
<1>1. PanelInv /\ [PanelNext]_panelVars => PanelInv'
  <2> SUFFICES ASSUME PanelInv, [PanelNext]_panelVars PROVE PanelInv'
    OBVIOUS
  <2>1. IInv'
    BY StepImplements, TypeStep, SubscribedStep, TargetsStep, AnnouncedStep, CurrentStep
       DEF PanelInv, IInv
  <2>2. PanelTypeOK'
    BY <2>1, FeedTypeStep, NoticeStep DEF PanelTypeOK, IInv
  <2>3. QED
    BY <2>1, <2>2, PhaseStep, InHandStep, NoticeStep DEF PanelInv
<1>2. QED
  BY InitPanelInv, <1>1, PTL DEF PanelSpec

(* With an update checker the panel behaves as Broadcaster says it does: the  *)
(* checker is one more goroutine that changes the state and then broadcasts   *)
(* (checkForUpdate, broadcastStateChanged).                                   *)
THEOREM CheckerIsAPublisher == PanelSpec => Spec
<1>1. PanelInit => Init
  BY DEF PanelInit
<1>2. PanelInv /\ [PanelNext]_panelVars => [Next]_vars
  BY StepImplements
<1>3. QED
  BY <1>1, <1>2, PanelInvariant, PTL DEF PanelSpec, Spec

(* An update is offered exactly if the release the last completed check has   *)
(* seen is newer than the build, by the order of versions, whatever releases  *)
(* come and go and whichever checks fail (checkForUpdate, isNewerRelease).    *)
THEOREM TheVerdictIsRight == PanelSpec => []VerdictIsRight
<1>1. PanelInv => VerdictIsRight
  BY DEF PanelInv
<1>2. QED
  BY PanelInvariant, <1>1, PTL

(* A page that waits with an empty channel, and whom no broadcast in flight   *)
(* will wake, shows the verdict there is, unless it missed the announcement:  *)
(* to be silent about a repeated verdict loses nothing (updateState.set).     *)
THEOREM SilenceLosesNothing == PanelSpec => []NoticeIsCurrent
<1>1. PanelInv => NoticeIsCurrent
  BY DEF PanelInv, IInv, NoticeFollows, WaitingIsCurrent, HasTheNews, NoticeIsCurrent
<1>2. QED
  BY PanelInvariant, <1>1, PTL
=============================================================================
