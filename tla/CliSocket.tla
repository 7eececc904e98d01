----------------------------- MODULE CliSocket -----------------------------
(***************************************************************************)
(* The command line talks to the daemon over a Unix socket: a client opens *)
(* a connection, writes one command and waits for one answer, all before   *)
(* one deadline (SendCommand).  A single loop of the daemon accepts the    *)
(* connections one after the other and runs the command of each before it  *)
(* accepts the next (acceptUnixLoop, serveUnixConn).  Accepting may fail   *)
(* for a while, for instance for want of file descriptors; many failures   *)
(* in a row mark the daemon degraded.                                      *)
(*                                                                         *)
(* A session is one connection; a user who tries again is another session. *)
(* What a command does is in the other modules: here it only counts as     *)
(* having run.                                                             *)
(***************************************************************************)
EXTENDS Naturals, Sequences

CONSTANTS
    Session,          \* connections of command line clients
    None,
    Ceiling,          \* acceptFailureCeiling
    Helper            \* optional helper binaries: "extdep:<binary>"

ASSUME SocketAssumption ==
    /\ None \notin Session /\ Ceiling \in Nat \ {0}
    /\ Helper \cap {"web-server", "socket-accept"} = {}

VARIABLES
    client,           \* client[s]: what the client of a session knows
    backlog,          \* connections the loop has not accepted yet
    written,          \* commands in their connection, not read yet
    closed,           \* connections the daemon has closed
    loop, serving,    \* what the accept loop is doing, and for whom
    failures,         \* consecutiveFailures
    degraded,         \* d.degradedReasons
    up, stopping,     \* the process runs, its context is cancelled
    ran,              \* history: how often the command of a session has run
    streak            \* history: accept failures since the last connection

wire     == <<client, backlog, written, closed>>
daemon   == <<loop, serving, failures>>
run      == <<up, stopping>>
vars     == <<wire, daemon, degraded, run, ran, streak>>

ClientState == {"out", "open", "waiting", "answered", "failed"}
Loop        == {"accept", "read", "run", "answer", "pause", "over"}

\* The client has not closed its end.
Present(s) == client[s] \in {"open", "waiting"}

\* checkExternalDeps marks the helpers that are missing at the start.
Init ==
    /\ client = [s \in Session |-> "out"]
    /\ backlog = <<>> /\ written = {} /\ closed = {}
    /\ loop = "accept" /\ serving = None /\ failures = 0
    /\ degraded \in SUBSET Helper
    /\ up = TRUE /\ stopping = FALSE
    /\ ran = [s \in Session |-> 0] /\ streak = 0
-----------------------------------------------------------------------------
(* The client, SendCommand. *)

Is(s, state) == client' = [client EXCEPT ![s] = state]

\* The kernel completes the connection; a shutdown removes the socket, and nobody
\* listens while the process is down.
Dial(s) ==
    /\ client[s] = "out"
    /\ \/ up /\ Is(s, "open") /\ backlog' = Append(backlog, s)
       \/ (~up \/ stopping) /\ Is(s, "failed") /\ UNCHANGED backlog
    /\ UNCHANGED <<written, closed, daemon, degraded, run, ran, streak>>

WriteCommand(s) ==
    /\ client[s] = "open" /\ s \notin closed
    /\ Is(s, "waiting") /\ written' = written \cup {s}
    /\ UNCHANGED <<backlog, closed, daemon, degraded, run, ran, streak>>

\* GiveUp if SendCommand dialled again when no answer came in time
GiveUpAndRetry(s) ==
    /\ up /\ client[s] = "waiting" /\ serving = s
    /\ Is(s, "open") /\ backlog' = Append(backlog, s)
    /\ UNCHANGED <<written, closed, daemon, degraded, run, ran, streak>>

\* The deadline passes, or the daemon has closed the connection without a word.
GiveUp(s) ==
    /\ Present(s) /\ Is(s, "failed")
    /\ UNCHANGED <<backlog, written, closed, daemon, degraded, run, ran, streak>>

-----------------------------------------------------------------------------
(* The accept loop. *)

\* MarkDegraded if only one reason were kept
MarkOnlyReason(reason) == degraded' = IF degraded = {} THEN {reason} ELSE degraded

MarkDegraded(reason) == degraded' = degraded \cup {reason}

ClearDegraded(reason) == degraded' = degraded \ {reason}

\* A healthy accept clears the mark if a failure was counted before it.
Accept ==
    /\ up /\ loop = "accept" /\ backlog # <<>>
    /\ loop' = "read" /\ serving' = Head(backlog) /\ backlog' = Tail(backlog)
    /\ failures' = 0 /\ streak' = 0
    /\ IF failures > 0 THEN ClearDegraded("socket-accept") ELSE UNCHANGED degraded
    /\ UNCHANGED <<client, written, closed, run, ran>>

\* The mark is set at the ceiling, where the count starts again.
AcceptFails ==
    /\ up /\ loop = "accept" /\ ~stopping /\ streak < 2 * Ceiling
    /\ streak' = streak + 1 /\ loop' = "pause"
    /\ IF failures + 1 >= Ceiling
       THEN MarkDegraded("socket-accept") /\ failures' = 0
       ELSE failures' = failures + 1 /\ UNCHANGED degraded
    /\ UNCHANGED <<wire, serving, run, ran>>

\* acceptRetryDelay passes, or the context is cancelled meanwhile.
Pause ==
    /\ up /\ loop = "pause"
    /\ loop' = IF stopping THEN "over" ELSE "accept"
    /\ UNCHANGED <<wire, serving, failures, degraded, run, ran, streak>>

\* An accept that fails after the context was cancelled ends the loop.
LeaveLoop ==
    /\ up /\ loop = "accept" /\ stopping
    /\ loop' = "over"
    /\ UNCHANGED <<wire, serving, failures, degraded, run, ran, streak>>

\* The command is read, also one whose client has given up since.
ReadCommand ==
    /\ up /\ loop = "read" /\ serving \in written
    /\ loop' = "run" /\ written' = written \ {serving}
    /\ UNCHANGED <<client, backlog, closed, serving, failures, degraded, run, ran, streak>>

\* handleCommand.
RunCommand ==
    /\ up /\ loop = "run"
    /\ loop' = "answer" /\ ran' = [ran EXCEPT ![serving] = @ + 1]
    /\ UNCHANGED <<wire, serving, failures, degraded, run, streak>>

\* The connection is closed and the loop goes on.
NextConnection ==
    /\ loop' = "accept" /\ serving' = None /\ closed' = closed \cup {serving}

\* The response reaches a client that still waits; writing to any other fails.
Answer ==
    /\ up /\ loop = "answer" /\ NextConnection
    /\ client' = IF Present(serving) THEN [client EXCEPT ![serving] = "answered"] ELSE client
    /\ UNCHANGED <<backlog, written, failures, degraded, run, ran, streak>>

\* ReadFails if the read had no deadline
ReadFailsOnClose ==
    /\ up /\ loop = "read" /\ serving \notin written /\ ~Present(serving)
    /\ NextConnection
    /\ UNCHANGED <<client, backlog, written, failures, degraded, run, ran, streak>>

\* socketIOTimeout passes, or the client closes without a command.
ReadFails ==
    /\ up /\ loop = "read" /\ serving \notin written
    /\ NextConnection
    /\ UNCHANGED <<client, backlog, written, failures, degraded, run, ran, streak>>

-----------------------------------------------------------------------------
(* The process. *)

\* ListenAndServe returns an error.
WebServerDies ==
    /\ up
    /\ MarkDegraded("web-server")
    /\ UNCHANGED <<wire, daemon, run, ran, streak>>

\* handleShutdown cancels the context and removes the socket.
Cancel ==
    /\ up /\ stopping' = TRUE
    /\ UNCHANGED <<wire, daemon, degraded, up, ran, streak>>

\* The process ends, after a shutdown or by a crash; the kernel closes all.
Exit ==
    /\ up /\ up' = FALSE
    /\ client' = [s \in Session |-> IF Present(s) THEN "failed" ELSE client[s]]
    /\ backlog' = <<>> /\ written' = {} /\ closed' = {}
    /\ loop' = "over" /\ serving' = None /\ failures' = 0 /\ degraded' = {}
    /\ streak' = 0
    /\ UNCHANGED <<stopping, ran>>

\* A new process binds the socket in place of a stale one (newUnixListener).
Restart ==
    /\ ~up /\ up' = TRUE /\ stopping' = FALSE
    /\ loop' = "accept"
    /\ degraded' \in SUBSET Helper
    /\ UNCHANGED <<wire, serving, failures, ran, streak>>

-----------------------------------------------------------------------------
Serve == ReadCommand \/ RunCommand \/ Answer \/ ReadFails

Next ==
    \/ \E s \in Session : Dial(s) \/ WriteCommand(s) \/ GiveUp(s)
    \/ Accept \/ AcceptFails \/ Pause \/ LeaveLoop \/ Serve
    \/ WebServerDies \/ Cancel \/ Exit \/ Restart

Spec == Init /\ [][Next]_vars

\* The loop goes on, commands return, the daemon's own deadlines pass, and accepting
\* does not fail for ever while somebody waits.  A client need do nothing: any
\* program may hold a connection.
FairSpec ==
    /\ Spec
    /\ SF_vars(Accept) /\ WF_vars(Pause) /\ WF_vars(Serve)
-----------------------------------------------------------------------------
\* The variables keep their types; only commands of accepted connections run.
TypeOK ==
    /\ client \in [Session -> ClientState]
    /\ backlog \in Seq(Session) /\ written \subseteq Session /\ closed \subseteq Session
    /\ loop \in Loop /\ serving \in Session \cup {None}
    /\ serving # None <=> loop \in {"read", "run", "answer"}
    /\ failures \in 0 .. Ceiling - 1
    /\ degraded \subseteq Helper \cup {"web-server", "socket-accept"}
    /\ {up, stopping} \subseteq BOOLEAN
    /\ ran \in [Session -> Nat] /\ streak \in 0 .. 2 * Ceiling

\* A client that is answered had its command run, and no command runs twice however
\* late its client gave up (SendCommand, serveUnixConn).  One that is not answered
\* may or may not have run.
RunsAtMostOnce ==
    \A s \in Session : ran[s] <= 1 /\ (client[s] = "answered" => ran[s] = 1)

\* A storm of accept failures is reported from the ceiling on until a connection is
\* accepted (acceptUnixLoop).
StormIsReported == streak >= Ceiling => "socket-accept" \in degraded

\* Clients that say nothing hold up the others for a while only: every connection is
\* accepted, unless the daemon stops (serveUnixConn).
EveryoneIsServed ==
    \A s \in Session :
        client[s] = "waiting" ~> s \in closed \/ stopping \/ ~up

\* socket.go:68-70: "one healthy accept clears the mark again".
HealthyAcceptClears == loop = "read" => "socket-accept" \notin degraded
=============================================================================
