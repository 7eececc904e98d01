---------------------------- MODULE HidExchange ----------------------------
(***************************************************************************)
(* Questions to the camera over hidraw.  Every exchange opens the node,    *)
(* writes a query and takes the first report that arrives before the       *)
(* response timeout as its answer.  The kernel gives every report to       *)
(* whoever has the node open at that moment, so an answer that comes after *)
(* its query was given up is read by the next one.  The V2 parsers compare *)
(* the head the answer echoes; the parser of the three settings goes by    *)
(* the answer's own interface byte.                                        *)
(*                                                                         *)
(* A payload is a sequence of cells, one for each field; a position is one *)
(* cell.  The reports that set something are in PixyDaemon and PtzMoves;   *)
(* here they only change what the camera answers.  The pause the code      *)
(* leaves before it gives up is unmeasured: a query may time out whenever  *)
(* it has not been answered, and an answer may take any time.  That a      *)
(* probe may take the handle away during a sync is in PixyDaemon.          *)
(***************************************************************************)
EXTENDS Naturals, Sequences, SequencesExt

CONSTANTS
    Client,           \* goroutines that serve commands and pages
    EventLoop,        \* the goroutine of the event loop
    None,             \* nobody, nothing
    Failed,           \* what an exchange without a usable answer yields
    CameraStates,     \* what the settings and the battery of the camera may be
    Replies,          \* Replies[h]: payloads the camera may answer other heads with
    SlotReplies,      \* SlotReplies[s]: the same for a slot of the motor unit
    Slots,            \* maxHardwarePresetSlots
    MaxFailures,      \* presetPullMaxConsecutiveFailures
    MaxLate           \* bound: late answers under way

Goroutine == Client \cup {EventLoop}
Setting   == {"tracking", "audio", "gesture"}
Slot      == 1 .. Slots
Power     == <<"battery", "charge">>
Identity  == <<"sn", "ver", "devver", "func">>
V2        == ToSet(Power) \cup ToSet(Identity) \cup {"slot"}
Heads     == Setting \cup V2

\* The second byte of a report: an interface of the config dialect or, in the
\* same place, a logical device of the V2 heads.  A device that was asked over the
\* motor unit's own interface may echo the logical device.
Iface(h) == CASE h \in {"tracking", "sn", "ver", "devver", "func"} -> 1
              [] h = "audio"                                       -> 5
              [] h = "gesture"                                     -> 4
              [] h \in {"battery", "charge"}                       -> 0
              [] h = "slot"                                        -> 3

ASSUME ExchangeAssumption ==
    /\ EventLoop \notin Client /\ None \notin Client \cup {EventLoop} \cup Heads
    /\ CameraStates \subseteq [Setting \cup {"battery"} -> Nat]
    /\ DOMAIN Replies = V2 \ {"battery", "slot"} /\ DOMAIN SlotReplies = Slot
    /\ \A h \in DOMAIN Replies : Replies[h] \subseteq Seq(Nat)
    /\ \A s \in Slot : SlotReplies[s] \subseteq Seq(Nat)
    /\ {Slots, MaxFailures} \subseteq Nat \ {0} /\ MaxLate \in Nat

VARIABLES
    camera,           \* the camera's settings and battery level, as bytes
    wire,             \* answers under way, in the order of their queries
    belief,           \* d.state.Camera, d.state.Audio, d.state.Gesture, as bytes
    powerCache,       \* None once it is invalid or expired
    presets,          \* presets[s]: the position stored as hw-<s>
    hidMu,            \* who holds d.hidMu
    job,              \* job[g]: what goroutine g is doing
    todo,             \* todo[g]: the queries it has still to make
    asked,            \* asked[g]: the head its open file asks for, None if none is open
    got               \* got[g]: what its queries have yielded, as far as it matters

memory   == <<belief, powerCache, presets>>
work     == <<job, todo, got>>
vars     == <<camera, wire, memory, hidMu, asked, work>>

Job       == {"sync", "reconcile", "power", "identity", "pull"}
Query(h)  == [head |-> h, slot |-> 0]
AllSlots  == [s \in Slot |-> [head |-> "slot", slot |-> s]]

Queries(j) == CASE j = "sync"      -> <<Query("tracking"), Query("audio"), Query("gesture")>>
                [] j = "reconcile" -> <<Query("tracking")>>
                [] j = "power"     -> [i \in 1 .. 2 |-> Query(Power[i])]
                [] j = "identity"  -> [i \in 1 .. 4 |-> Query(Identity[i])]
                [] j = "pull"      -> AllSlots

\* The event loop reconciles; as long as no state was ever saved it syncs instead,
\* like a client's sync.
Jobs(g) == IF g = EventLoop THEN {"reconcile"} ELSE Job \ {"reconcile"}

\* These keep hidMu across all their queries, the others take it for each.
KeepsHidMu == {"sync", "reconcile", "pull"}

Init ==
    /\ camera \in CameraStates
    /\ wire = <<>>
    /\ belief = [tracking |-> 2, audio |-> 1, gesture |-> 0]
    /\ powerCache = None
    /\ presets = [s \in Slot |-> None]
    /\ hidMu = None
    /\ job = [g \in Goroutine |-> "none"]
    /\ todo = [g \in Goroutine |-> <<>>]
    /\ asked = [g \in Goroutine |-> None]
    /\ got = [g \in Goroutine |-> <<>>]

-----------------------------------------------------------------------------
(* What the camera answers.                                                *)

Reply(q) == CASE q.head \in DOMAIN camera -> {<<camera[q.head]>>}
              [] q.head = "slot"          -> SlotReplies[q.slot]
              [] OTHER                    -> Replies[q.head]

\* The user, another program or the camera itself changes a setting; the battery
\* drains.
CameraChanges ==
    /\ camera' \in CameraStates
    /\ \E s \in DOMAIN camera : \A t \in DOMAIN camera \ {s} : camera'[t] = camera[t]
    /\ UNCHANGED <<wire, memory, hidMu, asked, work>>

\* A power cycle loses what was under way, fails the exchange that is open, and
\* the probe that sees it invalidates the power cache.
Replug ==
    /\ camera' \in CameraStates
    /\ wire' = <<>>
    /\ powerCache' = None
    /\ UNCHANGED <<belief, presets, hidMu, asked, work>>

\* A report that arrives while nobody has the node open is never seen.
Drop ==
    /\ wire # <<>> /\ \A g \in Goroutine : asked[g] = None
    /\ wire' = Tail(wire)
    /\ UNCHANGED <<camera, memory, hidMu, asked, work>>

-----------------------------------------------------------------------------
(* Reading an answer.                                                      *)

Byte(a) == a.payload[1]

\* parseHIDResponse: the value of the asked setting in a report, by the report's
\* own interface.  A report of another setting leaves it at its default.
DefaultValue == [tracking |-> 0, audio |-> 1, gesture |-> 0]

Known(a) == CASE Iface(a.head) = 1 -> Byte(a) \in {0, 1, 2}
              [] Iface(a.head) = 5 -> Byte(a) \in {1, 2, 3}
              [] Iface(a.head) = 4 -> TRUE
              [] OTHER             -> FALSE

AnySetting(s, a) ==
    IF Iface(s) = Iface(a.head) THEN Byte(a) ELSE DefaultValue[s]

ParseSetting(s, a) ==
    IF a.payload = <<>> \/ ~Known(a) THEN Failed
    ELSE IF s = "gesture" /\ Iface(a.head) = 4
         THEN IF Last(a.payload) = 1 THEN 1 ELSE 0
         ELSE AnySetting(s, a)

\* EchoMatches if it compared the device byte and not the command.
EchoMatchesDevice(a, h) == Iface(a.head) = Iface(h)

\* v2EchoMatches; the head echoed is the head of the query that was answered.
EchoMatches(a, h) == a.head = h

\* v2Payload: payload bytes each parser needs.
Needed(h) == CASE h \in {"ver", "devver"} -> 2 [] h = "func" -> 4 [] OTHER -> 1

Printable(b) == b >= 32 /\ b # 127

\* What a slot's answer says: whether the slot is set, and where if it says so.
ParseSlot(payload) ==
    IF Len(payload) < 2 THEN [occupied |-> payload[1] = 1, position |-> None]
                        ELSE [occupied |-> payload[2] = 1,
                              position |-> IF payload[2] = 1 /\ Len(payload) >= 3
                                           THEN payload[3] ELSE None]

ParseV2(h, a) ==
    IF \/ ~EchoMatches(a, h) \/ Len(a.payload) < Needed(h)
       \/ h = "charge" /\ Byte(a) > 2
       \/ h = "sn" /\ ~Printable(Byte(a))
    THEN Failed
    ELSE IF h = "slot" THEN ParseSlot(a.payload) ELSE a.payload

Parse(h, a) ==
    IF h \in Setting THEN ParseSetting(h, a) ELSE ParseV2(h, a)

-----------------------------------------------------------------------------
(* An exchange.                                                            *)

Value(g, i) == IF i <= Len(got[g]) THEN got[g][i] ELSE Failed

\* No query is left, or what came so far makes the job give up.
Done(g) ==
    \/ todo[g] = <<>>
    \/ job[g] = "power" /\ got[g] = <<Failed>>
    \/ job[g] = "pull" /\ Len(got[g]) = MaxFailures

\* Lock if v2Read questioned the camera without d.hidMu.
LockOrRead(g) ==
    /\ job[g] # "none" /\ (hidMu = None \/ job[g] \in {"power", "identity"})
    /\ job[g] \in KeepsHidMu \/ ~Done(g)
    /\ hidMu' = g
    /\ UNCHANGED <<camera, wire, memory, asked, work>>

\* d.hidMu.Lock(), for the whole job or for one query.
Lock(g) ==
    /\ job[g] # "none" /\ hidMu = None
    /\ job[g] \in KeepsHidMu \/ ~Done(g)
    /\ hidMu' = g
    /\ UNCHANGED <<camera, wire, memory, asked, work>>

\* v2Read, which unlocks hidMu when it returns; the other jobs keep it.
UnlockAfterQuery(g) == hidMu' = IF job[g] \in KeepsHidMu THEN hidMu ELSE None

Turn(g) == hidMu = g /\ asked[g] = None /\ ~Done(g)

\* hidrawDevice.SendRecv opens the node and writes the query, which the camera may
\* ignore.
Ask(g) ==
    /\ Turn(g)
    /\ LET q == Head(todo[g]) IN
         /\ asked' = [asked EXCEPT ![g] = q.head]
         /\ \/ wire' = wire
            \/ \E p \in Reply(q) :
                 wire' = Append(wire, [head |-> q.head, payload |-> p, of |-> g])
    /\ UNCHANGED <<camera, memory, hidMu, work>>

\* A sweep counts the failures in a row (recordFailure), identityStatus shows what
\* answered and forgets it, the others use their values at the end.
Yields(g, value) ==
    /\ todo' = [todo EXCEPT ![g] = Tail(@)]
    /\ got' = [got EXCEPT ![g] =
                 CASE job[g] = "identity"                  -> <<>>
                   [] job[g] = "pull" /\ value # Failed    -> <<>>
                   [] OTHER                                -> Append(@, value)]

\* hidSendGuard finds no device or an open circuit breaker, or the node cannot be
\* opened or written.
AskFails(g) ==
    /\ Turn(g)
    /\ Yields(g, Failed)
    /\ UnlockAfterQuery(g)
    /\ UNCHANGED <<camera, wire, memory, asked, job>>

\* The node is closed: what is still to come for this query is late.
Close(g, left) ==
    /\ asked' = [asked EXCEPT ![g] = None]
    /\ wire' = [i \in DOMAIN left |->
                  IF left[i].of = g THEN [left[i] EXCEPT !.of = None] ELSE left[i]]

\* presetPullSweep.admitReading: an occupied slot with a position is kept unless
\* its name is taken.  The limit on presets and the dry run are in PtzMoves.
Admit(g, value) ==
    presets' =
        LET s == Head(todo[g]).slot
        IN  IF /\ job[g] = "pull" /\ value # Failed
               /\ value.occupied /\ value.position # None /\ presets[s] = None
            THEN [presets EXCEPT ![s] = value.position]
            ELSE presets

\* The first report that arrives is taken for the answer.
Accept(g) ==
    /\ asked[g] # None /\ wire # <<>>
    /\ LET value == Parse(asked[g], Head(wire))
       IN  Yields(g, value) /\ Admit(g, value)
    /\ Close(g, Tail(wire))
    /\ UnlockAfterQuery(g)
    /\ UNCHANGED <<camera, belief, powerCache, job>>

\* TimeOut if the read had no timer of its own.
TimeOutWithReport(g) ==
    /\ asked[g] # None /\ wire # <<>>
    /\ Yields(g, Failed)
    /\ Close(g, Tail(wire))
    /\ UnlockAfterQuery(g)
    /\ UNCHANGED <<camera, memory, job>>

\* hidResponseTimeout passes, the caller's context ends or the camera goes away; the
\* answer may have come in the same moment and be thrown away.
TimeOut(g) ==
    /\ asked[g] # None
    /\ Yields(g, Failed)
    /\ \/ Len(wire) <= MaxLate /\ Close(g, wire)
       \/ wire # <<>> /\ Close(g, Tail(wire))
    /\ UnlockAfterQuery(g)
    /\ UNCHANGED <<camera, memory, job>>

-----------------------------------------------------------------------------
(* The jobs.                                                               *)

\* Battery and charge are asked only when the cache has no fresh entry.
Start(g, j) ==
    /\ job[g] = "none"
    /\ j = "power" => powerCache = None
    /\ job' = [job EXCEPT ![g] = j]
    /\ todo' = [todo EXCEPT ![g] = Queries(j)]
    /\ UNCHANGED <<camera, wire, memory, hidMu, asked, got>>

\* The job returns: its results are forgotten, hidMu is unlocked.
Ends(g) ==
    /\ job' = [job EXCEPT ![g] = "none"]
    /\ todo' = [todo EXCEPT ![g] = <<>>]
    /\ got' = [got EXCEPT ![g] = <<>>]
    /\ hidMu' = IF hidMu = g THEN None ELSE hidMu

\* A sync, reconcile or pull that finds no device or an open breaker returns.
Refuse(g) ==
    /\ hidMu = g /\ job[g] \in KeepsHidMu
    /\ asked[g] = None /\ ~Done(g)
    /\ job[g] = "pull" \/ got[g] = <<>>
    /\ Ends(g)
    /\ UNCHANGED <<camera, wire, memory, asked>>

Old(i, s, g) == IF Value(g, i) = Failed THEN belief[s] ELSE Value(g, i)

\* syncStateLocked and, without the camera mode, reconcileOnDeviceAppear.
Adopt(g) ==
    /\ hidMu = g /\ job[g] \in {"sync", "reconcile"} /\ Len(got[g]) = 3
    /\ belief' = [tracking |-> IF job[g] = "sync" THEN Old(1, "tracking", g)
                                                  ELSE belief["tracking"],
                  audio    |-> Old(2, "audio", g),
                  gesture  |-> Old(3, "gesture", g)]
    /\ Ends(g)
    /\ UNCHANGED <<camera, wire, powerCache, presets, asked>>

\* reconcileOnDeviceAppear has asked for the camera mode: it gives up, or writes
\* the mode it believes in where the camera's differs, and asks for the rest.
Verify(g) ==
    /\ hidMu = g /\ job[g] = "reconcile" /\ Len(got[g]) = 1 /\ todo[g] = <<>>
    /\ IF Value(g, 1) = Failed
       THEN Ends(g) /\ UNCHANGED camera
       ELSE /\ todo' = [todo EXCEPT ![g] = <<Query("audio"), Query("gesture")>>]
            /\ \/ camera' = camera
               \/ /\ Value(g, 1) # belief["tracking"]
                  /\ camera' = [camera EXCEPT !["tracking"] = belief["tracking"]]
            /\ UNCHANGED <<job, got, hidMu>>
    /\ UNCHANGED <<wire, memory, asked>>

\* powerStatus: a failed charge query still makes a reading, without charging.
StorePower(g) ==
    /\ job[g] = "power" /\ Done(g)
    /\ powerCache' = [available |-> Value(g, 1) # Failed,
                      level     |-> Value(g, 1),
                      charging  |-> Value(g, 2) \in {<<1>>, <<2>>}]
    /\ Ends(g)
    /\ UNCHANGED <<camera, wire, belief, presets, asked>>

\* identityStatus shows what answered; handlePresetPull saves what it added.
Finish(g) ==
    /\ job[g] = "identity" \/ (job[g] = "pull" /\ hidMu = g)
    /\ asked[g] = None /\ Done(g)
    /\ Ends(g)
    /\ UNCHANGED <<camera, wire, memory, asked>>

\* powerCacheTTL or powerFailureCacheTTL passes.
Expire ==
    /\ powerCache # None /\ powerCache' = None
    /\ UNCHANGED <<camera, wire, belief, presets, hidMu, asked, work>>

\* A command sets a setting: camera and belief agree on it.
Command ==
    /\ hidMu = None
    /\ \E s \in Setting, k \in CameraStates :
         /\ camera' = [camera EXCEPT ![s] = k[s]]
         /\ belief' = [belief EXCEPT ![s] = k[s]]
    /\ UNCHANGED <<wire, powerCache, presets, hidMu, asked, work>>

Exchange(g) == Ask(g) \/ AskFails(g) \/ Accept(g) \/ TimeOut(g)
Conclude(g) == Refuse(g) \/ Adopt(g) \/ Verify(g) \/ StorePower(g) \/ Finish(g)

Next ==
    \/ \E g \in Goroutine : \/ \E j \in Jobs(g) : Start(g, j)
                            \/ Lock(g) \/ Exchange(g) \/ Conclude(g)
    \/ Drop \/ CameraChanges \/ Command \/ Replug \/ Expire

Spec == Init /\ [][Next]_vars

\* The goroutines keep going, the timeout needs no answer, and a sync.Mutex that
\* is free again and again is got in the end.  The camera owes nothing.
Fairness ==
    \A g \in Goroutine : /\ SF_vars(Lock(g))
                         /\ WF_vars(Ask(g) \/ AskFails(g)) /\ WF_vars(TimeOut(g))
                         /\ WF_vars(Conclude(g))

FairSpec == Spec /\ Fairness

-----------------------------------------------------------------------------
\* The variables keep their types, and a job never collects more than it asks for.
TypeOK ==
    /\ camera \in [Setting \cup {"battery"} -> Nat]
    /\ Len(wire) <= MaxLate + 1
    /\ \A i \in DOMAIN wire : wire[i].head \in Heads /\ wire[i].of \in Goroutine \cup {None}
    /\ belief \in [Setting -> Nat]
    /\ hidMu \in Goroutine \cup {None}
    /\ job \in [Goroutine -> Job \cup {"none"}]
    /\ \A g \in Goroutine : \/ job[g] = "none" /\ asked[g] = None
                            \/ Len(got[g]) + Len(todo[g]) <= Slots + 4

\* The next report answers the exchange that will read it, or a query that was given
\* up, never one that is still waiting: hidMu keeps two exchanges from pairing their
\* answers with each other's queries (device.go:290-292).
AnswersMatch ==
    \A g \in Goroutine : asked[g] # None /\ wire # <<>> => Head(wire).of \in {g, None}

\* The report a goroutine is about to accept, if it asks for a head of H, answers the
\* same command.
AcceptsOwn(H) ==
    \A g \in Goroutine : asked[g] # None /\ wire # <<>> =>
        LET h == asked[g]
        IN  h \in H /\ Parse(h, Head(wire)) # Failed => Head(wire).head = h

\* The levels the battery may have, as it answers them.
Levels == {<<k["battery"]>> : k \in CameraStates}

\* Whatever came late, a V2 reading was the answer to the same command: a serial
\* number is never shown for a version, and what the power cache keeps for the
\* battery's level is one the battery had, never a charge (v2EchoMatches, powerStatus).
ReadingsAreOwn ==
    /\ AcceptsOwn(V2)
    /\ powerCache # None => powerCache.level \in Levels \cup {Failed}

\* A camera that does not answer keeps no caller and no mutex for ever: every query
\* has its own timeout (hid.go:213-233).
JobsEnd == \A g \in Goroutine : job[g] # "none" ~> job[g] = "none"

\* What a sync or reconcile accepts for a setting is what the camera reported for it.
SettingsAsReported == AcceptsOwn(Setting)

\* A position pulled as hw-<slot> is the position of that slot.
PulledIsOfItsSlot == \A s \in Slot : presets[s] \in {None, s}
=============================================================================
