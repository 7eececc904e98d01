-------------------------- MODULE CliSocketProofs --------------------------
(***************************************************************************)
(* Proofs about CliSocket for any number of connections and any ceiling.   *)
(*                                                                         *)
(* Why no command runs twice: a connection is in one place at a time, with *)
(* its client only, in the backlog, being served, or done with; it comes   *)
(* into the backlog once, and its command runs between its being read and  *)
(* its being answered.                                                     *)
(***************************************************************************)
EXTENDS CliSocket, TLAPS

\* Nobody has seen a connection that was not dialled.
UndialledIsUnseen ==
    \A s \in Session : client[s] = "out" =>
        /\ ran[s] = 0 /\ serving # s
        /\ \A i \in 1 .. Len(backlog) : backlog[i] # s

\* A connection waits once, and none of those that wait was served.
BacklogIsFresh ==
    \A i \in 1 .. Len(backlog) :
        /\ ran[backlog[i]] = 0 /\ backlog[i] # serving
        /\ \A j \in 1 .. Len(backlog) : backlog[i] = backlog[j] => i = j

\* The command of the connection being served has run when it is answered, not before.
ServedRunsOnce ==
    serving # None => ran[serving] = IF loop = "answer" THEN 1 ELSE 0

\* Below the ceiling every failure in a row was counted.
StormIsCounted == streak < Ceiling => failures = streak

\* A process that is down has no loop and counts nothing.
DownIsOver == ~up => loop = "over" /\ streak = 0 /\ failures = 0

IInv ==
    /\ TypeOK /\ UndialledIsUnseen /\ BacklogIsFresh /\ ServedRunsOnce /\ RunsAtMostOnce
    /\ StormIsCounted /\ StormIsReported /\ DownIsOver

(* At first every client is outside and nothing has run. *)
LEMMA InitIInv == Init => IInv
<1> SUFFICES ASSUME Init PROVE IInv
  OBVIOUS
<1> USE SocketAssumption DEF Init
<1>1. TypeOK
  <2>1. {up, stopping} \subseteq BOOLEAN /\ degraded \subseteq Helper \cup {"web-server", "socket-accept"}
    OBVIOUS
  <2>2. backlog \in Seq(Session) /\ failures \in 0 .. Ceiling - 1 /\ streak \in 0 .. 2 * Ceiling
    OBVIOUS
  <2>3. QED
    BY <2>1, <2>2 DEF TypeOK, ClientState, Loop
<1>2. UndialledIsUnseen /\ BacklogIsFresh /\ ServedRunsOnce /\ RunsAtMostOnce
  BY DEF UndialledIsUnseen, BacklogIsFresh, ServedRunsOnce, RunsAtMostOnce
<1>3. StormIsCounted /\ StormIsReported /\ DownIsOver
  BY DEF StormIsCounted, StormIsReported, DownIsOver
<1>4. QED
  BY <1>1, <1>2, <1>3 DEF IInv

(* The types hold; the mark starts the count again before it exceeds the      *)
(* ceiling.                                                                   *)
LEMMA TypeStep ==
  ASSUME TypeOK, DownIsOver, [Next]_vars
  PROVE  TypeOK'
<1> USE SocketAssumption
    DEF TypeOK, ClientState, Loop, wire, daemon, run, Is, MarkDegraded, ClearDegraded
<1>1. ASSUME NEW s \in Session, Dial(s) PROVE TypeOK'
  <2>1. backlog' \in Seq(Session)
    <3>1. backlog' = Append(backlog, s) \/ backlog' = backlog
      BY <1>1, Zenon DEF Dial
    <3>2. Append(backlog, s) \in Seq(Session)
      OBVIOUS
    <3>3. QED
      BY <3>1, <3>2
  <2>2. client' \in [Session -> ClientState]
    BY <1>1 DEF Dial
  <2>3. QED
    BY <1>1, <2>1, <2>2 DEF Dial
<1>2. ASSUME NEW s \in Session, WriteCommand(s) \/ GiveUp(s) PROVE TypeOK'
  BY <1>2 DEF WriteCommand, GiveUp, Present
<1>3. ASSUME Accept PROVE TypeOK'
  <2>1. Head(backlog) \in Session /\ Tail(backlog) \in Seq(Session)
    BY <1>3 DEF Accept
  <2>2. degraded' \subseteq degraded
    BY <1>3 DEF Accept
  <2>3. 0 \in 0 .. Ceiling - 1 /\ 0 \in 0 .. 2 * Ceiling
    OBVIOUS
  <2>4. QED
    BY <1>3, <2>1, <2>2, <2>3 DEF Accept
<1>4. ASSUME AcceptFails PROVE TypeOK'
  <2>1. failures' \in 0 .. Ceiling - 1 /\ streak' \in 0 .. 2 * Ceiling
    BY <1>4 DEF AcceptFails
  <2>2. degraded' \subseteq Helper \cup {"web-server", "socket-accept"}
    BY <1>4 DEF AcceptFails
  <2>3. QED
    BY <1>4, <2>1, <2>2 DEF AcceptFails
<1>5. ASSUME Pause \/ LeaveLoop PROVE TypeOK'
  BY <1>5 DEF Pause, LeaveLoop
<1>6. ASSUME ReadCommand \/ RunCommand PROVE TypeOK'
  BY <1>6 DEF ReadCommand, RunCommand
<1>7. ASSUME Answer \/ ReadFails PROVE TypeOK'
  BY <1>7 DEF Answer, ReadFails, NextConnection
<1>8. ASSUME WebServerDies PROVE TypeOK'
  BY <1>8 DEF WebServerDies
<1>9. ASSUME Cancel \/ Restart PROVE TypeOK'
  <2>1. {up', stopping'} \subseteq BOOLEAN
    BY <1>9, Zenon DEF Cancel, Restart
  <2>2. degraded' \subseteq Helper \cup {"web-server", "socket-accept"}
    BY <1>9 DEF Cancel, Restart
  <2>3. UNCHANGED <<wire, ran, failures, streak>>
    BY <1>9 DEF Cancel, Restart
  <2>4. loop' \in Loop /\ serving' = serving /\ (serving' # None <=> loop' \in {"read", "run", "answer"})
    BY <1>9 DEF Cancel, Restart, DownIsOver
  <2>5. QED
    BY <2>1, <2>2, <2>3, <2>4
<1>10. ASSUME Exit PROVE TypeOK'
  <2>1. {up', stopping'} \subseteq BOOLEAN
    BY <1>10, Zenon DEF Exit
  <2>2. client' \in [Session -> ClientState] /\ backlog' \in Seq(Session)
    BY <1>10 DEF Exit
  <2>3. 0 \in 0 .. Ceiling - 1 /\ 0 \in 0 .. 2 * Ceiling
    OBVIOUS
  <2>4. QED
    BY <1>10, <2>1, <2>2, <2>3 DEF Exit
<1>11. CASE UNCHANGED vars
  BY <1>11 DEF vars
<1>12. QED
  BY <1>1, <1>2, <1>3, <1>4, <1>5, <1>6, <1>7, <1>8, <1>9, <1>10, <1>11 DEF Next, Serve

\* What the steps keep of the connections.
SessionParts == UndialledIsUnseen /\ BacklogIsFresh /\ ServedRunsOnce /\ RunsAtMostOnce

(* A connection is dialled once, and enters the backlog then. *)
LEMMA DialKeepsSessions ==
  ASSUME TypeOK, SessionParts, NEW s \in Session, Dial(s)
  PROVE  SessionParts'
<1> USE SocketAssumption DEF TypeOK, daemon, run, Is
<1>1. /\ client[s] = "out" /\ UNCHANGED <<serving, loop, ran>>
      /\ \A t \in Session \ {s} : client'[t] = client[t]
      /\ client'[s] \in {"open", "failed"}
  BY DEF Dial
<1>2. ran[s] = 0 /\ serving # s /\ \A i \in 1 .. Len(backlog) : backlog[i] # s
  BY <1>1 DEF SessionParts, UndialledIsUnseen
<1>3. backlog' = Append(backlog, s) \/ backlog' = backlog
  BY Zenon DEF Dial
<1>4. \A i \in 1 .. Len(backlog') : /\ i \in 1 .. Len(backlog) => backlog'[i] = backlog[i]
                                    /\ i \notin 1 .. Len(backlog) => backlog'[i] = s
                                                                     /\ i = Len(backlog) + 1
  BY <1>3
<1>5. UndialledIsUnseen'
  BY <1>1, <1>4 DEF SessionParts, UndialledIsUnseen
<1>6. BacklogIsFresh'
  BY <1>1, <1>2, <1>4 DEF SessionParts, BacklogIsFresh
<1>7. ServedRunsOnce' /\ RunsAtMostOnce'
  BY <1>1 DEF SessionParts, ServedRunsOnce, RunsAtMostOnce
<1>8. QED
  BY <1>5, <1>6, <1>7 DEF SessionParts

(* The loop takes the first connection that waits, which has not run. *)
LEMMA AcceptKeepsSessions ==
  ASSUME TypeOK, SessionParts, Accept
  PROVE  SessionParts'
<1> USE SocketAssumption DEF TypeOK
<1>1. /\ backlog # <<>> /\ serving' = backlog[1] /\ backlog' = Tail(backlog)
      /\ loop' = "read" /\ client' = client /\ ran' = ran
  BY DEF Accept
<1>2. /\ Len(backlog) \in Nat \ {0} /\ Len(backlog') = Len(backlog) - 1
      /\ \A i \in 1 .. Len(backlog') : backlog'[i] = backlog[i + 1] /\ i + 1 \in 1 .. Len(backlog)
  BY <1>1
<1>3. ran[backlog[1]] = 0 /\ \A i \in 1 .. Len(backlog) : backlog[i] = backlog[1] => i = 1
  BY <1>2 DEF SessionParts, BacklogIsFresh
<1>4. UndialledIsUnseen'
  BY <1>1, <1>2 DEF SessionParts, UndialledIsUnseen
<1>5. BacklogIsFresh'
  <2>1. ASSUME NEW i \in 1 .. Len(backlog') PROVE ran'[backlog'[i]] = 0 /\ backlog'[i] # serving'
    BY <1>1, <1>2, <1>3 DEF SessionParts, BacklogIsFresh
  <2>2. ASSUME NEW i \in 1 .. Len(backlog'), NEW j \in 1 .. Len(backlog'), backlog'[i] = backlog'[j]
        PROVE  i = j
    <3>1. i + 1 = j + 1
      BY <1>2, <2>2 DEF SessionParts, BacklogIsFresh
    <3>2. QED
      BY <1>2, <3>1
  <2>3. QED
    BY <2>1, <2>2 DEF BacklogIsFresh
<1>6. ServedRunsOnce' /\ RunsAtMostOnce'
  BY <1>1, <1>3 DEF SessionParts, ServedRunsOnce, RunsAtMostOnce
<1>7. QED
  BY <1>4, <1>5, <1>6 DEF SessionParts

(* Nobody who waits is being served, and a client that is answered is the one *)
(* served, whose command has run.                                             *)
LEMMA ServeKeepsSessions ==
  ASSUME TypeOK, SessionParts, Serve
  PROVE  SessionParts'
<1> USE SocketAssumption
    DEF TypeOK, ClientState, Loop, wire, run, Serve, ReadCommand, RunCommand, Answer, ReadFails,
        NextConnection
<1>1. serving \in Session /\ UNCHANGED backlog
  OBVIOUS
<1>2. \A i \in 1 .. Len(backlog) : backlog[i] \in Session /\ backlog[i] # serving
  BY DEF SessionParts, BacklogIsFresh
<1>3. \A s \in Session \ {serving} : ran'[s] = ran[s] /\ client'[s] = client[s]
  <2>1. ran' = ran \/ ran' = [ran EXCEPT ![serving] = @ + 1]
    OBVIOUS
  <2>2. client' = client \/ client' = [client EXCEPT ![serving] = "answered"]
    OBVIOUS
  <2>3. QED
    BY <2>1, <2>2
<1>4. client'[serving] # "out"
  BY <1>1 DEF SessionParts, UndialledIsUnseen
<1>5. serving' \in {serving, None}
  OBVIOUS
<1>6. UndialledIsUnseen'
  BY <1>1, <1>3, <1>4, <1>5 DEF SessionParts, UndialledIsUnseen
<1>7. BacklogIsFresh'
  BY <1>1, <1>2, <1>3, <1>5 DEF SessionParts, BacklogIsFresh
<1>8. ServedRunsOnce' /\ ran'[serving] <= 1 /\ (client'[serving] = "answered" => ran'[serving] = 1)
  BY <1>1 DEF SessionParts, ServedRunsOnce, RunsAtMostOnce
<1>9. RunsAtMostOnce'
  BY <1>3, <1>8 DEF SessionParts, RunsAtMostOnce
<1>10. QED
  BY <1>6, <1>7, <1>8, <1>9 DEF SessionParts

(* The other steps run nothing and answer nobody. *)
LEMMA SessionStep ==
  ASSUME TypeOK, SessionParts, DownIsOver, [Next]_vars
  PROVE  SessionParts'
<1> USE SocketAssumption
    DEF TypeOK, ClientState, Loop, Is, wire, daemon, run, SessionParts, UndialledIsUnseen,
        BacklogIsFresh, ServedRunsOnce, RunsAtMostOnce
<1>1. ASSUME NEW s \in Session, WriteCommand(s) \/ GiveUp(s) PROVE SessionParts'
  <2>1. /\ \A t \in Session \ {s} : client'[t] = client[t]
        /\ client[s] # "out" /\ client'[s] \in {"waiting", "failed"}
        /\ UNCHANGED <<backlog, serving, loop, ran>>
    BY <1>1 DEF WriteCommand, GiveUp, Present
  <2>2. QED
    BY <2>1
<1>2. ASSUME AcceptFails \/ Pause \/ LeaveLoop PROVE SessionParts'
  <2>1. UNCHANGED <<client, backlog, serving, ran>> /\ serving = None
    BY <1>2 DEF AcceptFails, Pause, LeaveLoop
  <2>2. QED
    BY <2>1
<1>3. ASSUME WebServerDies \/ Cancel PROVE SessionParts'
  BY <1>3 DEF WebServerDies, Cancel
<1>4. ASSUME Exit PROVE SessionParts'
  <2>1. /\ \A s \in Session : client'[s] \in {client[s], "failed"}
        /\ backlog' = <<>> /\ serving' = None /\ ran' = ran
    BY <1>4 DEF Exit
  <2>2. QED
    BY <2>1
<1>5. ASSUME Restart PROVE SessionParts'
  <2>1. UNCHANGED <<client, backlog, serving, ran>> /\ serving = None
    BY <1>5 DEF Restart, DownIsOver
  <2>2. QED
    BY <2>1
<1>6. CASE UNCHANGED vars
  BY <1>6 DEF vars
<1>7. QED
  BY <1>1, <1>2, <1>3, <1>4, <1>5, <1>6, DialKeepsSessions, AcceptKeepsSessions,
     ServeKeepsSessions
  DEF Next

(* Failures are counted one by one up to the mark; only an accepted           *)
(* connection takes the mark off, and it ends the storm.                      *)
LEMMA StormStep ==
  ASSUME TypeOK, StormIsCounted, StormIsReported, DownIsOver, [Next]_vars
  PROVE  StormIsCounted' /\ StormIsReported' /\ DownIsOver'
<1> USE SocketAssumption
    DEF TypeOK, wire, daemon, run, StormIsCounted, StormIsReported, DownIsOver,
        MarkDegraded, ClearDegraded
<1>1. ASSUME UNCHANGED <<daemon, up, streak>>, degraded \subseteq degraded'
      PROVE  StormIsCounted' /\ StormIsReported' /\ DownIsOver'
  BY <1>1
<1>2. ASSUME NEW s \in Session, Dial(s) \/ WriteCommand(s) \/ GiveUp(s)
      PROVE  StormIsCounted' /\ StormIsReported' /\ DownIsOver'
  BY <1>1, <1>2 DEF Dial, WriteCommand, GiveUp
<1>3. ASSUME Accept PROVE StormIsCounted' /\ StormIsReported' /\ DownIsOver'
  BY <1>3 DEF Accept
<1>4. ASSUME AcceptFails PROVE StormIsCounted' /\ StormIsReported' /\ DownIsOver'
  <2>1. up' = up /\ up /\ streak' = streak + 1
    BY <1>4 DEF AcceptFails
  <2>2. CASE failures + 1 >= Ceiling
    BY <1>4, <2>1, <2>2 DEF AcceptFails
  <2>3. CASE ~(failures + 1 >= Ceiling)
    BY <1>4, <2>1, <2>3 DEF AcceptFails
  <2>4. QED
    BY <2>2, <2>3
<1>5. ASSUME Pause \/ LeaveLoop \/ Serve
      PROVE  StormIsCounted' /\ StormIsReported' /\ DownIsOver'
  <2>1. UNCHANGED <<failures, degraded, up, streak>> /\ up
    BY <1>5
    DEF Pause, LeaveLoop, Serve, ReadCommand, RunCommand, Answer, ReadFails, NextConnection
  <2>2. QED
    BY <2>1
<1>6. ASSUME WebServerDies PROVE StormIsCounted' /\ StormIsReported' /\ DownIsOver'
  BY <1>1, <1>6 DEF WebServerDies
<1>7. ASSUME Cancel PROVE StormIsCounted' /\ StormIsReported' /\ DownIsOver'
  BY <1>1, <1>7 DEF Cancel
<1>8. ASSUME Exit PROVE StormIsCounted' /\ StormIsReported' /\ DownIsOver'
  BY <1>8 DEF Exit
<1>9. ASSUME Restart PROVE StormIsCounted' /\ StormIsReported' /\ DownIsOver'
  BY <1>9 DEF Restart
<1>10. CASE UNCHANGED vars
  BY <1>1, <1>10 DEF vars
<1>11. QED
  BY <1>2, <1>3, <1>4, <1>5, <1>6, <1>7, <1>8, <1>9, <1>10 DEF Next

(* The pieces together. *)
LEMMA Invariant == Spec => []IInv
<1>1. IInv /\ [Next]_vars => IInv'
  <2> SUFFICES ASSUME IInv, [Next]_vars PROVE IInv'
    OBVIOUS
  <2>1. /\ TypeOK /\ SessionParts /\ StormIsCounted /\ StormIsReported /\ DownIsOver
    BY DEF IInv, SessionParts
  <2>2. TypeOK'
    BY <2>1, TypeStep
  <2>3. SessionParts'
    BY <2>1, SessionStep
  <2>4. StormIsCounted' /\ StormIsReported' /\ DownIsOver'
    BY <2>1, StormStep
  <2>5. QED
    BY <2>2, <2>3, <2>4 DEF IInv, SessionParts
<1>2. QED
  BY <1>1, InitIInv, PTL DEF Spec

(* No command of a connection runs twice, whenever its client gives up or the *)
(* process is restarted, and a client that is answered had its command run    *)
(* (SendCommand, serveUnixConn).                                              *)
THEOREM CommandsRunAtMostOnce == Spec => []RunsAtMostOnce
<1>1. IInv => RunsAtMostOnce
  BY DEF IInv
<1>2. QED
  BY <1>1, Invariant, PTL

(* A storm of accept failures is reported from the ceiling on, however often  *)
(* the count starts again, until a connection is accepted (acceptUnixLoop).   *)
THEOREM StormsAreReported == Spec => []StormIsReported
<1>1. IInv => StormIsReported
  BY DEF IInv
<1>2. QED
  BY <1>1, Invariant, PTL
=============================================================================
