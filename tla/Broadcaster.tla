---------------------------- MODULE Broadcaster ----------------------------
(***************************************************************************)
(* The live panel: goroutines of the daemon change its state and then call *)
(* Broadcast; every open page has a handler (handleEvents) that renders    *)
(* the panel, subscribes a channel, and renders again for each wake-up.    *)
(* A session is one connection of a page and owns one channel; a page that *)
(* reconnects is another session.                                          *)
(*                                                                         *)
(* Broadcast copies the set of subscribers under the lock and sends after  *)
(* unlocking, while Unsubscribe closes the channel of a page that left.    *)
(*                                                                         *)
(* Not every change is broadcast: a failed tick's error that is cleared, a *)
(* mark of degradation or the time of a reconcile that changed nothing     *)
(* stays unseen until the next announced change.                           *)
(***************************************************************************)
EXTENDS Naturals, FiniteSets

CONSTANTS
    Session,      \* connections of pages
    Publisher,    \* goroutines that change the state and broadcast
    Web,          \* the publishers that serve a web request
    Buffer,       \* sseSubscriberBuffer
    MaxChanges    \* bound on the number of state changes

ASSUME SessionAssumption == Web \subseteq Publisher
ASSUME BufferAssumption == Buffer \in Nat \ {0} /\ MaxChanges \in Nat

VARIABLES
    version,      \* number of state changes so far: what a panel shows
    announced,    \* history: the last of them that somebody broadcasts
    phase,        \* phase[p]: what publisher p is doing
    targets,      \* targets[p]: channels of p's snapshot not yet sent to
    subscribers,  \* b.subscribers
    closed,       \* channels that were closed
    buffered,     \* buffered[s]: wake-ups in the channel of s
    page,         \* page[s]: what the handler of s is doing
    shown,        \* shown[s]: the version its last patch showed
    missed,       \* history: s may have missed the broadcasts up to that change
    panicked,     \* a send on a closed channel panicked
    up            \* the process runs

publishing == <<version, announced, phase, targets>>
hub        == <<subscribers, closed, buffered>>
handlers   == <<page, shown, missed>>
vars       == <<publishing, hub, handlers, panicked, up>>

Phase == {"idle", "changed", "sending"}
Page  == {"away", "connected", "rendered", "waiting", "refresh", "leaving", "gone"}

Init ==
    /\ version = 0 /\ announced = 0
    /\ phase = [p \in Publisher |-> "idle"] /\ targets = [p \in Publisher |-> {}]
    /\ subscribers = {} /\ closed = {} /\ buffered = [s \in Session |-> 0]
    /\ page = [s \in Session |-> "away"]
    /\ shown = [s \in Session |-> 0] /\ missed = [s \in Session |-> 0]
    /\ panicked = FALSE /\ up = TRUE
-----------------------------------------------------------------------------
(* The publishers. *)

\* Some handler changes the state under d.mu; it broadcasts afterwards.
ChangeState(p) ==
    /\ up /\ phase[p] = "idle" /\ version < MaxChanges
    /\ version' = version + 1 /\ announced' = version + 1
    /\ phase' = [phase EXCEPT ![p] = "changed"]
    /\ UNCHANGED <<targets, hub, handlers, panicked, up>>

\* Somebody changes what the panel shows and tells nobody: a quiet tick clears
\* autoError, markDegraded and clearDegraded, and reconcile sets lastSyncedAt
\* although it has changed nothing else.
ChangeSilently ==
    /\ up /\ version < MaxChanges
    /\ version' = version + 1
    /\ UNCHANGED <<announced, phase, targets, hub, handlers, panicked, up>>

\* Broadcast copies the subscribers under the read lock.
Snapshot(p) ==
    /\ up /\ phase[p] = "changed"
    /\ targets' = [targets EXCEPT ![p] = subscribers]
    /\ phase' = [phase EXCEPT ![p] = "sending"]
    /\ UNCHANGED <<version, announced, hub, handlers, panicked, up>>

\* SendTo if a full buffer also ended the fan-out
SendStopsWhenFull(p, s) ==
    /\ up /\ phase[p] = "sending" /\ s \in targets[p] /\ s \notin closed
    /\ IF buffered[s] < Buffer
       THEN /\ buffered' = [buffered EXCEPT ![s] = @ + 1]
            /\ targets' = [targets EXCEPT ![p] = @ \ {s}]
       ELSE targets' = [targets EXCEPT ![p] = {}] /\ UNCHANGED buffered
    /\ UNCHANGED <<version, announced, phase, subscribers, closed, handlers, panicked, up>>

\* SendTo if the send did not look at the buffer
SendOverCapacity(p, s) ==
    /\ up /\ phase[p] = "sending" /\ s \in targets[p] /\ s \notin closed
    /\ buffered' = [buffered EXCEPT ![s] = @ + 1]
    /\ targets' = [targets EXCEPT ![p] = @ \ {s}]
    /\ UNCHANGED <<version, announced, phase, subscribers, closed, handlers, panicked, up>>

\* A wake-up is put into the channel, or dropped when the channel is full.
SendTo(p, s) ==
    /\ up /\ phase[p] = "sending" /\ s \in targets[p] /\ s \notin closed
    /\ buffered' = [buffered EXCEPT ![s] = IF @ < Buffer THEN @ + 1 ELSE @]
    /\ targets' = [targets EXCEPT ![p] = @ \ {s}]
    /\ UNCHANGED <<version, announced, phase, subscribers, closed, handlers, panicked, up>>

\* The channel was closed since the snapshot: the send panics.  net/http
\* recovers a web request, anywhere else the process ends.
SendOnClosed(p, s) ==
    /\ up /\ phase[p] = "sending" /\ s \in targets[p] \cap closed
    /\ panicked' = TRUE
    /\ IF p \in Web
       THEN /\ phase' = [phase EXCEPT ![p] = "idle"]
            /\ targets' = [targets EXCEPT ![p] = {}]
            /\ missed' = [t \in Session |-> IF t \in targets[p] THEN announced ELSE missed[t]]
            /\ UNCHANGED <<up, page>>
       ELSE /\ up' = FALSE
            /\ page' = [t \in Session |-> "gone"]
            /\ UNCHANGED <<phase, targets, missed>>
    /\ UNCHANGED <<version, announced, hub, shown>>

Done(p) ==
    /\ up /\ phase[p] = "sending" /\ targets[p] = {}
    /\ phase' = [phase EXCEPT ![p] = "idle"]
    /\ UNCHANGED <<version, announced, targets, hub, handlers, panicked, up>>
-----------------------------------------------------------------------------
(* The handler of a page. *)

Connect(s) ==
    /\ up /\ page[s] = "away"
    /\ page' = [page EXCEPT ![s] = "connected"]
    /\ UNCHANGED <<publishing, hub, shown, missed, panicked, up>>

\* The initial panel, rendered before the handler subscribes.
RenderFirst(s) ==
    /\ up /\ page[s] = "connected"
    /\ page' = [page EXCEPT ![s] = "rendered"]
    /\ shown' = [shown EXCEPT ![s] = version]
    /\ UNCHANGED <<publishing, hub, missed, panicked, up>>

Subscribe(s) ==
    /\ up /\ page[s] = "rendered"
    /\ subscribers' = subscribers \cup {s}
    /\ page' = [page EXCEPT ![s] = "waiting"]
    /\ missed' = [missed EXCEPT ![s] = announced]
    /\ UNCHANGED <<publishing, closed, buffered, shown, panicked, up>>

WakeUp(s) ==
    /\ up /\ page[s] = "waiting" /\ buffered[s] > 0
    /\ buffered' = [buffered EXCEPT ![s] = @ - 1]
    /\ page' = [page EXCEPT ![s] = "refresh"]
    /\ UNCHANGED <<publishing, subscribers, closed, shown, missed, panicked, up>>

\* Refresh if the wake-ups that came meanwhile were drained afterwards
RefreshThenDrain(s) ==
    \/ /\ up /\ page[s] = "refresh" /\ shown[s] # version
       /\ shown' = [shown EXCEPT ![s] = version]
       /\ UNCHANGED <<publishing, hub, page, missed, panicked, up>>
    \/ /\ up /\ page[s] = "refresh"
       /\ page' = [page EXCEPT ![s] = "waiting"]
       /\ buffered' = [buffered EXCEPT ![s] = 0]
       /\ UNCHANGED <<publishing, subscribers, closed, shown, missed, panicked, up>>

\* getWebStatusWithPTZ reads the state, then the patch is written.
Refresh(s) ==
    /\ up /\ page[s] = "refresh"
    /\ shown' = [shown EXCEPT ![s] = version]
    /\ page' = [page EXCEPT ![s] = "waiting"]
    /\ UNCHANGED <<publishing, hub, missed, panicked, up>>

\* The client goes away, or writing a patch fails: before the subscription
\* that ends the handler, afterwards Unsubscribe is deferred.
Disconnect(s) ==
    /\ up
    /\ \/ /\ page[s] \in {"connected", "rendered"}
          /\ page' = [page EXCEPT ![s] = "gone"]
       \/ /\ page[s] \in {"waiting", "refresh"}
          /\ page' = [page EXCEPT ![s] = "leaving"]
    /\ UNCHANGED <<publishing, hub, shown, missed, panicked, up>>

Unsubscribe(s) ==
    /\ up /\ page[s] = "leaving"
    /\ subscribers' = subscribers \ {s}
    /\ closed' = closed \cup {s}
    /\ page' = [page EXCEPT ![s] = "gone"]
    /\ UNCHANGED <<publishing, buffered, shown, missed, panicked, up>>
-----------------------------------------------------------------------------
Publish(p) ==
    \/ Snapshot(p) \/ Done(p)
    \/ \E s \in Session : SendTo(p, s) \/ SendOnClosed(p, s)

Serve(s) == RenderFirst(s) \/ Subscribe(s) \/ WakeUp(s) \/ Refresh(s) \/ Unsubscribe(s)

Next ==
    \/ ChangeSilently
    \/ \E p \in Publisher : ChangeState(p) \/ Publish(p)
    \/ \E s \in Session : Connect(s) \/ Serve(s) \/ Disconnect(s)

Spec == Init /\ [][Next]_vars

\* Goroutines that can run do.  Nothing makes a state change or a page come.
FairSpec ==
    /\ Spec
    /\ \A p \in Publisher : WF_vars(Publish(p))
    /\ \A s \in Session : WF_vars(Serve(s))
-----------------------------------------------------------------------------
TypeOK ==
    /\ version \in 0 .. MaxChanges /\ announced \in 0 .. MaxChanges
    /\ phase \in [Publisher -> Phase] /\ targets \in [Publisher -> SUBSET Session]
    /\ subscribers \in SUBSET Session /\ closed \in SUBSET Session
    /\ buffered \in [Session -> 0 .. Buffer]
    /\ page \in [Session -> Page]
    /\ shown \in [Session -> 0 .. MaxChanges] /\ missed \in [Session -> 0 .. MaxChanges]
    /\ panicked \in BOOLEAN /\ up \in BOOLEAN

\* Somebody still has to tell s of a change.
Announcing(s) ==
    \E p \in Publisher : phase[p] = "changed" \/ (phase[p] = "sending" /\ s \in targets[p])

\* The page of s has every change that was broadcast, or the broadcast of the
\* last one came before it subscribed or panicked on its way to it.
HasTheNews(s) == shown[s] >= announced \/ missed[s] = announced

\* Nobody will wake the page of s.
Quiet(s) == page[s] = "waiting" /\ buffered[s] = 0 /\ ~Announcing(s)

\* Dropping wake-ups never leaves a page behind: a page that waits with an
\* empty channel, and whom no broadcast in flight will wake, shows the state
\* of the last change that was broadcast or a later one, except for a change made
\* before it subscribed or whose broadcast panicked (Broadcast, handleEvents).
\* Changes that are not broadcast at all are not promised.
WaitingIsCurrent == \A s \in Session : Quiet(s) => HasTheNews(s)

\* Such a page shows the state as it is.  TLC refutes it: autoError is cleared, a
\* degradation marked, a reconcile timed without a broadcast (autoManage,
\* markDegraded, reconcile).
WaitingShowsAll ==
    \A s \in Session : Quiet(s) => shown[s] = version \/ missed[s] = announced

\* A page that stays finally shows the last change that was broadcast, unless it
\* missed its announcement (Broadcast, handleEvents).
PageCatchesUp ==
    \A s \in Session :
        <>[](page[s] \in {"waiting", "refresh"}) => <>[]HasTheNews(s)

\* sse.go: Broadcaster distributes notifications "via thread-safe,
\* non-blocking fan-out".  No broadcast panics.
FanOutIsSafe == ~panicked
=============================================================================
