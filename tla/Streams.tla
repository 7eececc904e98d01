------------------------------ MODULE Streams ------------------------------
(***************************************************************************)
(* The live picture: a request for the stream takes the only place there   *)
(* is (streamSema), starts ffmpeg on the camera, throws its first picture  *)
(* away and sends the others on until the client leaves or the pipe ends;  *)
(* each is also kept for /snapshot until a probe finds the camera gone.    *)
(*                                                                         *)
(* The pipe is a sequence of bytes, of which only the marker bytes are     *)
(* told apart.  ffmpeg may write, end or hang at any time; when it ends the *)
(* picture it was writing is cut.                                          *)
(***************************************************************************)
EXTENDS Naturals, Sequences, SequencesExt

CONSTANTS
    Viewer,           \* requests for /stream
    None,             \* nobody, nothing
    Picture,          \* pictures ffmpeg writes
    Noise,            \* what it may write between two pictures
    MaxBuffer,        \* maxStreamBufferSize
    MaxScan,          \* maxIterations of extractJPEGFrame
    MaxUnread         \* bound: bytes in the pipe before ffmpeg writes more

Byte == {"FF", "D8", "D9", "00"}
SOI  == <<"FF", "D8">>
EOI  == <<"FF", "D9">>

\* A picture begins with SOI and ends with EOI, and inside it a byte FF is always
\* followed by 00.
WellFormed(p) ==
    /\ Len(p) >= 4 /\ p \in Seq(Byte)
    /\ SubSeq(p, 1, 2) = SOI /\ SubSeq(p, Len(p) - 1, Len(p)) = EOI
    /\ \A i \in 3 .. Len(p) - 2 : p[i] = "FF" => p[i + 1] = "00"

ASSUME StreamsAssumption ==
    /\ None \notin Viewer \cup Picture /\ None \notin {"runs", "hangs", "dead"}
    /\ \A p \in Picture : WellFormed(p)
    /\ \A n \in Noise : n \in Seq(Byte) /\ ToSet(n) \cap {"D8"} = {}
    /\ {MaxBuffer, MaxScan} \subseteq Nat \ {0} /\ MaxUnread \in Nat

VARIABLES
    plugged,          \* the camera is there
    online,           \* d.videoDev is set
    lastFrame,        \* d.lastFrame, None when it is empty
    streamSema,       \* who holds the place in d.streamSema
    stage,            \* what the handler of a request is doing
    left,             \* its client has gone away, its context is cancelled
    ffmpeg,           \* its process: None once it was waited for
    pipe,             \* what the process has written and nobody has read
    scan,             \* what extractJPEGFrame has made of the bytes it has read
    frame             \* the picture writeFrames has in its hands

cameraVars == <<plugged, online, lastFrame>>
process    == <<ffmpeg, pipe>>
reader     == <<scan, frame>>
vars       == <<cameraVars, streamSema, stage, left, process, reader>>

Stage == {"away", "check", "launch", "first", "loop", "read", "store", "write",
          "cleanup", "wait", "killed", "stuck", "release", "gone"}

Goto(v, s) == stage' = [stage EXCEPT ![v] = s]

-----------------------------------------------------------------------------
(* Reading a picture, byte by byte.                                        *)

\* "half": a marker byte was read and the next one decides.
Scanner == [found |-> FALSE, half |-> FALSE, buf |-> <<>>, turns |-> 1, result |-> "more"]

\* NextTurn if the loop of extractJPEGFrame had no limit
NextTurnForEver(s) == [s EXCEPT !.turns = @ + 1]

\* The loop of extractJPEGFrame ends after MaxScan turns.
NextTurn(s) == IF s.turns = MaxScan THEN [s EXCEPT !.result = "exhausted"]
                                    ELSE [s EXCEPT !.turns = @ + 1]

\* scanForSOI; a second marker byte is unread and looked at again.
Hunt(s, b) ==
    CASE ~s.half /\ b = "FF"     -> [s EXCEPT !.half = TRUE]
      [] s.half /\ b = "FF"      -> NextTurn(s)
      [] s.half /\ b = "D8"      -> NextTurn([s EXCEPT !.half = FALSE, !.found = TRUE, !.buf = SOI])
      [] OTHER                   -> NextTurn([s EXCEPT !.half = FALSE])

\* Inside a picture, up to its EOI.
Collect(s, b) ==
    LET t == [s EXCEPT !.buf = Append(@, b)]
    IN  CASE ~s.half /\ b = "FF" -> [t EXCEPT !.half = TRUE]
          [] s.half /\ b = "D9"  -> [t EXCEPT !.result = "frame"]
          [] OTHER               -> NextTurn([t EXCEPT !.half = FALSE])

\* DropOversized if the scan went on inside the picture that was thrown away
DropOversizedInside(s) ==
    IF ~s.half /\ Len(s.buf) > MaxBuffer THEN [s EXCEPT !.buf = <<>>] ELSE s

\* A picture that outgrows the buffer is dropped and the hunt begins again.
DropOversized(s) ==
    IF ~s.half /\ Len(s.buf) > MaxBuffer THEN [s EXCEPT !.buf = <<>>, !.found = FALSE] ELSE s

ScanByte(s, b) ==
    LET kept == DropOversized(s) IN IF kept.found THEN Collect(kept, b) ELSE Hunt(kept, b)

Init ==
    /\ plugged = TRUE /\ online = TRUE /\ lastFrame = None
    /\ streamSema = None
    /\ stage = [v \in Viewer |-> "away"] /\ left = [v \in Viewer |-> FALSE]
    /\ ffmpeg = [v \in Viewer |-> None] /\ pipe = [v \in Viewer |-> <<>>]
    /\ scan = [v \in Viewer |-> Scanner] /\ frame = [v \in Viewer |-> None]

-----------------------------------------------------------------------------
(* The camera and what the daemon knows of it.                             *)

Plug ==
    /\ plugged' = ~plugged
    /\ UNCHANGED <<online, lastFrame, streamSema, stage, left, process, reader>>

\* applyProbeResultLocked: a camera that is gone takes its last picture along.
Probe ==
    /\ online # plugged
    /\ online' = plugged
    /\ lastFrame' = IF plugged THEN lastFrame ELSE None
    /\ UNCHANGED <<plugged, streamSema, stage, left, process, reader>>

-----------------------------------------------------------------------------
(* ffmpeg, a process of its own.                                           *)

Lives(v) == ffmpeg[v] \in {"runs", "hangs"}

FfmpegWrites(v) ==
    /\ ffmpeg[v] = "runs" /\ plugged /\ Len(pipe[v]) <= MaxUnread
    /\ \E bytes \in Picture \cup Noise : pipe' = [pipe EXCEPT ![v] = @ \o bytes]
    /\ UNCHANGED <<cameraVars, streamSema, stage, left, ffmpeg, reader>>

FfmpegHangs(v) ==
    /\ ffmpeg[v] = "runs"
    /\ ffmpeg' = [ffmpeg EXCEPT ![v] = "hangs"]
    /\ UNCHANGED <<cameraVars, streamSema, stage, left, pipe, reader>>

\* The process is gone; the picture it was writing, if any, is cut.
Dies(v) ==
    /\ ffmpeg' = [ffmpeg EXCEPT ![v] = "dead"]
    /\ \/ pipe' = pipe
       \/ \E p \in Picture : pipe' = [pipe EXCEPT ![v] = @ \o SubSeq(p, 1, Len(p) - 1)]

\* It gives up by itself, for one because the camera is unplugged, or on SIGTERM.
FfmpegEnds(v) ==
    /\ ffmpeg[v] = "runs" /\ Dies(v)
    /\ UNCHANGED <<cameraVars, streamSema, stage, left, reader>>

-----------------------------------------------------------------------------
(* A request.                                                              *)

\* handleStream: the stream is taken, or the request is refused.
Request(v) ==
    /\ stage[v] = "away"
    /\ IF streamSema = None THEN Goto(v, "check") /\ streamSema' = v
                            ELSE Goto(v, "gone") /\ UNCHANGED streamSema
    /\ UNCHANGED <<cameraVars, left, process, reader>>

\* The client closes the connection, which cancels the request's context.
Hangup(v) ==
    /\ stage[v] \notin {"away", "gone"} /\ ~left[v]
    /\ left' = [left EXCEPT ![v] = TRUE]
    /\ UNCHANGED <<cameraVars, streamSema, stage, process, reader>>

\* The context of exec.CommandContext ends: the process is killed.
KillOnCancel(v) ==
    /\ left[v] /\ Lives(v) /\ Dies(v)
    /\ UNCHANGED <<cameraVars, streamSema, stage, left, reader>>

\* CheckDevice if the place were given back by a stream that is served only
CheckDeviceKeepsPlace(v) ==
    /\ stage[v] = "check"
    /\ Goto(v, IF online THEN "launch" ELSE "gone")
    /\ UNCHANGED <<cameraVars, streamSema, left, process, reader>>

\* checkDevice
CheckDevice(v) ==
    /\ stage[v] = "check"
    /\ Goto(v, IF online THEN "launch" ELSE "release")
    /\ UNCHANGED <<cameraVars, streamSema, left, process, reader>>

\* No ffmpeg, no flusher, no pipe, or the process does not start.
SetupFails(v) ==
    /\ stage[v] = "launch" /\ Goto(v, "release")
    /\ UNCHANGED <<cameraVars, streamSema, left, process, reader>>

Launch(v) ==
    /\ stage[v] = "launch" /\ ~left[v] /\ Goto(v, "first")
    /\ ffmpeg' = [ffmpeg EXCEPT ![v] = "runs"]
    /\ UNCHANGED <<cameraVars, streamSema, left, pipe, reader>>

\* FirstFrameKiller if the timer asked ffmpeg to end like cleanupFFmpeg does
FirstFrameTerminator(v) ==
    /\ stage[v] = "first" /\ ffmpeg[v] = "runs" /\ Dies(v)
    /\ UNCHANGED <<cameraVars, streamSema, stage, left, reader>>

\* ffmpegFirstFrameTimeout passes before the timer is stopped.
FirstFrameKiller(v) ==
    /\ stage[v] = "first" /\ Lives(v) /\ Dies(v)
    /\ UNCHANGED <<cameraVars, streamSema, stage, left, reader>>

\* br.ReadByte, and what extractJPEGFrame makes of the byte.
ReadByte(v) ==
    /\ stage[v] \in {"first", "read"} /\ scan[v].result = "more" /\ pipe[v] # <<>>
    /\ scan' = [scan EXCEPT ![v] = ScanByte(@, Head(pipe[v]))]
    /\ pipe' = [pipe EXCEPT ![v] = Tail(@)]
    /\ UNCHANGED <<cameraVars, streamSema, stage, left, ffmpeg, frame>>

\* The first picture proves that ffmpeg works and is thrown away.
FirstFrame(v) ==
    /\ stage[v] = "first" /\ scan[v].result = "frame" /\ Goto(v, "loop")
    /\ scan' = [scan EXCEPT ![v] = Scanner]
    /\ UNCHANGED <<cameraVars, streamSema, left, process, frame>>

\* The pipe ends inside or between two pictures, or the scan is exhausted.
NoFrame(v) ==
    \/ scan[v].result = "exhausted"
    \/ scan[v].result = "more" /\ pipe[v] = <<>> /\ ~Lives(v)

EndOfPictures(v) ==
    /\ stage[v] \in {"first", "read"} /\ NoFrame(v) /\ Goto(v, "cleanup")
    /\ scan' = [scan EXCEPT ![v] = Scanner]
    /\ UNCHANGED <<cameraVars, streamSema, left, process, frame>>

\* The loop of writeFrames looks at the context first.
NextFrame(v) ==
    /\ stage[v] = "loop"
    /\ Goto(v, IF left[v] THEN "cleanup" ELSE "read")
    /\ UNCHANGED <<cameraVars, streamSema, left, process, reader>>

ExtractFrame(v) ==
    /\ stage[v] = "read" /\ scan[v].result = "frame" /\ Goto(v, "store")
    /\ frame' = [frame EXCEPT ![v] = scan[v].buf]
    /\ scan' = [scan EXCEPT ![v] = Scanner]
    /\ UNCHANGED <<cameraVars, streamSema, left, process>>

\* lastFrame.Set
StoreFrame(v) ==
    /\ stage[v] = "store" /\ Goto(v, "write")
    /\ lastFrame' = frame[v]
    /\ UNCHANGED <<plugged, online, streamSema, left, process, reader>>

\* The client takes the picture; one that does not read blocks the handler.
WriteFrame(v) ==
    /\ stage[v] = "write" /\ Goto(v, "loop")
    /\ frame' = [frame EXCEPT ![v] = None]
    /\ UNCHANGED <<cameraVars, streamSema, left, process, scan>>

WriteFails(v) ==
    /\ stage[v] = "write" /\ left[v] /\ Goto(v, "cleanup")
    /\ frame' = [frame EXCEPT ![v] = None]
    /\ UNCHANGED <<cameraVars, streamSema, left, process, scan>>

\* cleanupFFmpeg: SIGTERM, on which the process may end (FfmpegEnds) or not.
Terminate(v) ==
    /\ stage[v] = "cleanup" /\ Goto(v, "wait")
    /\ UNCHANGED <<cameraVars, streamSema, left, process, reader>>

\* ffmpegShutdownTimeout passes: the process is killed and waited for once more,
\* while the goroutine's wait goes on.
KillAfterTimeout(v) ==
    /\ stage[v] = "wait" /\ Goto(v, "killed")
    /\ IF Lives(v) THEN Dies(v) ELSE UNCHANGED process
    /\ UNCHANGED <<cameraVars, streamSema, left, reader>>

\* Reap if the handler did not wait again after the kill
ReapInBackground(v) ==
    /\ stage[v] \in {"wait", "killed"} /\ Goto(v, "release")
    /\ IF ffmpeg[v] = "dead" THEN ffmpeg' = [ffmpeg EXCEPT ![v] = None] ELSE UNCHANGED ffmpeg
    /\ pipe' = [pipe EXCEPT ![v] = <<>>]
    /\ UNCHANGED <<cameraVars, streamSema, left, reader>>

\* A process that has ended is waited for, and its pipe is closed.
Waited(v) ==
    /\ ffmpeg[v] = "dead"
    /\ ffmpeg' = [ffmpeg EXCEPT ![v] = None]
    /\ pipe' = [pipe EXCEPT ![v] = <<>>]
    /\ UNCHANGED <<cameraVars, streamSema, left, reader>>

\* cmd.Wait returns, the goroutine's before the timeout or the handler's after it.
Reap(v) ==
    /\ stage[v] \in {"wait", "killed"} /\ Goto(v, "release")
    /\ Waited(v)

\* Of two waits at a time only one is told that the context's watcher has ended; the
\* other waits for that for ever, and it may be the handler's.
WaitForEver(v) ==
    /\ stage[v] = "killed" /\ Goto(v, "stuck")
    /\ Waited(v)

\* The deferred receive from streamSema, on every way out.
Release(v) ==
    /\ stage[v] = "release" /\ Goto(v, "gone")
    /\ streamSema' = None
    /\ UNCHANGED <<cameraVars, left, process, reader>>

\* The page asks for the stream again.
Again(v) ==
    /\ stage[v] = "gone" /\ Goto(v, "away")
    /\ left' = [left EXCEPT ![v] = FALSE]
    /\ UNCHANGED <<cameraVars, streamSema, process, reader>>

-----------------------------------------------------------------------------
Setup(v)   == CheckDevice(v) \/ SetupFails(v) \/ Launch(v)
Read(v)    == ReadByte(v) \/ FirstFrame(v) \/ EndOfPictures(v) \/ NextFrame(v) \/ ExtractFrame(v) \/ StoreFrame(v)
Cleanup(v) == Terminate(v) \/ Reap(v) \/ WaitForEver(v) \/ Release(v)
Handler(v) == Setup(v) \/ Read(v) \/ WriteFails(v) \/ Cleanup(v)
Timer(v)   == FirstFrameKiller(v) \/ KillAfterTimeout(v) \/ KillOnCancel(v)
Client(v)  == Request(v) \/ Hangup(v) \/ WriteFrame(v) \/ Again(v)
Ffmpeg(v)  == FfmpegWrites(v) \/ FfmpegHangs(v) \/ FfmpegEnds(v)

Next ==
    \/ Plug \/ Probe
    \/ \E v \in Viewer : Handler(v) \/ Timer(v) \/ Client(v) \/ Ffmpeg(v)

Spec == Init /\ [][Next]_vars

\* The handler runs when it can, a timer fires, a killed process dies, and writing
\* to a closed connection fails.  Neither ffmpeg nor the client owes anything.
FairSpec ==
    /\ Spec
    /\ \A v \in Viewer :
         /\ WF_vars(Handler(v))
         /\ WF_vars(FirstFrameKiller(v)) /\ WF_vars(KillAfterTimeout(v))
         /\ WF_vars(KillOnCancel(v))
-----------------------------------------------------------------------------
\* A scan ends after MaxScan bytes and keeps no more than the buffer allows, so that
\* a stream without pictures costs bounded time and memory; the variables keep
\* their types.
TypeOK ==
    /\ {plugged, online} \subseteq BOOLEAN
    /\ streamSema \in Viewer \cup {None}
    /\ stage \in [Viewer -> Stage] /\ left \in [Viewer -> BOOLEAN]
    /\ ffmpeg \in [Viewer -> {None, "runs", "hangs", "dead"}]
    /\ \A v \in Viewer : pipe[v] \in Seq(Byte) /\ (ffmpeg[v] = None => pipe[v] = <<>>)
    /\ \A v \in Viewer : /\ scan[v].turns <= MaxScan
                         /\ Len(scan[v].buf) <= MaxBuffer + 2
                         /\ frame[v] = None <=> stage[v] \notin {"store", "write"}

\* Whatever ffmpeg leaves in the pipe, what is sent on and kept for /snapshot is a
\* whole picture, neither cut nor made of two (extractJPEGFrame).
FramesAreWhole ==
    /\ lastFrame \in Picture \cup {None}
    /\ \A v \in Viewer : frame[v] \in Picture \cup {None}

\* A process of ffmpeg belongs to the request that holds the stream: two never
\* compete for the camera, and none outlives its request (handleStream's deferred
\* calls, setupStream's cleanup when no picture comes).
FfmpegHoldsStream ==
    \A v \in Viewer : ffmpeg[v] # None => streamSema = v

\* A hanging ffmpeg does not keep the stream while its client waits for the first
\* picture (stream.go:228-236).
FirstFrameIsBounded ==
    \A v \in Viewer : stage[v] = "first" ~> stage[v] # "first"

\* When the client has gone the stream is free for others, however stuck ffmpeg is,
\* unless ffmpeg outlived the shutdown timeout and the handler's own wait is the one
\* that never returns (cleanupFFmpeg, handleStream).
LeaverFreesStream ==
    \A v \in Viewer : left[v] ~> streamSema # v \/ stage[v] = "stuck"

\* The same without that exception, which TLC refutes.
PlaceComesFree ==
    \A v \in Viewer : left[v] ~> streamSema # v

\* cache.go:35-36: the last frame is dropped when the camera disappears, "so a
\* snapshot cannot serve a stale image from a device that is no longer there".
NoStaleSnapshot == ~online => lastFrame = None
=============================================================================
