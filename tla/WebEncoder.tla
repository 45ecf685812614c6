----------------------------- MODULE WebEncoder -----------------------------
(***************************************************************************)
(* The page webcodecs/encoder: a click of Start opens a websocket,         *)
(* configures an encoder for the camera (or the microphone) and starts a   *)
(* loop that reads its frames; a click of Stop flushes and closes the      *)
(* encoder.  Everything runs in one thread, but every await lets other     *)
(* callbacks in, and the buttons stay enabled: a second Start configures   *)
(* a second encoder beside the first, and both share the module's          *)
(* pendingOutputs, keepGoing and reader.                                   *)
(*                                                                         *)
(* The two tracks of the page have modules of their own that share         *)
(* nothing; track says which of the two this is.                           *)
(***************************************************************************)
EXTENDS Integers, Sequences, FiniteSets

CONSTANTS
  MaxStarts,  \* bound on the clicks of Start
  MaxStops,   \* bound on the clicks of Stop
  MaxFrames   \* bound on the frames read

ASSUME EncoderAssumption == {MaxStarts, MaxStops, MaxFrames} \subseteq Nat

VARIABLES
  track,  \* "video" or "audio"
  enc     \* the page: clicks, encoders made, loops, stops under way

encVars == <<track, enc>>

NoEncoder == 0

Current == enc.objs[enc.cur]

\* Frames that the encoders have taken and given no chunk for yet: <<k, n>>
\* is the n-th of those that encoder k has.
Waiting(objs) == UNION {{k} \X (1..objs[k].inflight) : k \in DOMAIN objs}

InEncoders(objs) == Cardinality(Waiting(objs))

---------------------------------------------------------------------------
(* Start. *)

\* moth.add is awaited.
StartEncoding ==
  /\ enc.starts < MaxStarts
  /\ enc' = [enc EXCEPT !.starts = @ + 1, !.opening = @ + 1]
  /\ UNCHANGED track

\* onopen: configVideoEncoder asks whether the codec is supported; the stop
\* listener is added to those of earlier starts.
SocketOpen ==
  /\ enc.opening > 0
  /\ enc' = [enc EXCEPT !.opening = @ - 1, !.configs = @ + 1, !.listeners = @ + 1]
  /\ UNCHANGED track

\* The new encoder takes the place of the one before, which stays open.
Configured ==
  /\ enc.configs > 0
  /\ enc' = [enc EXCEPT !.configs = @ - 1, !.pending = 0, !.keepGoing = TRUE,
                        !.objs = Append(@, [state |-> "configured", inflight |-> 0]),
                        !.cur = Len(enc.objs) + 1, !.before = InEncoders(enc.objs),
                        !.loops = IF enc.live THEN @ + 1 ELSE @]
  /\ UNCHANGED track

NotSupported ==
  /\ enc.configs > 0
  /\ enc' = [enc EXCEPT !.configs = @ - 1]
  /\ UNCHANGED track

---------------------------------------------------------------------------
(* readFrame. *)

Able == Current.state = "configured" /\ enc.keepGoing

FrameRead == enc.loops > 0 /\ enc.frames < MaxFrames

Encode(e) == [e EXCEPT !.pending = @ + 1, !.objs[e.cur].inflight = @ + 1, !.skipped = 0]

Skip(e) == [e EXCEPT !.skipped = IF Able THEN @ + 1 ELSE 0]

ReadVideoFrame ==
  /\ track = "video" /\ FrameRead
  /\ LET e == [enc EXCEPT !.frames = @ + 1]
     IN enc' = IF Able /\ enc.pending <= 2 THEN Encode(e) ELSE Skip(e)
  /\ UNCHANGED track

\* Slip: a frame that is not encoded is not counted.
ReadAudioFrameWrong ==
  /\ track = "audio" /\ FrameRead
  /\ LET e == [enc EXCEPT !.frames = @ + 1]
     IN enc' = IF Able /\ enc.pending < 1 THEN Encode(e) ELSE Skip(e)
  /\ UNCHANGED track

\* A frame that is not encoded makes room for the next.
ReadAudioFrame ==
  /\ track = "audio" /\ FrameRead
  /\ LET e == [enc EXCEPT !.frames = @ + 1]
     IN enc' = IF Able /\ enc.pending < 1 THEN Encode(e) ELSE Skip([e EXCEPT !.pending = @ - 1])
  /\ UNCHANGED track

\* The camera is closed: the loops read undefined, and return.
TrackEnds ==
  /\ enc.live
  /\ enc' = [enc EXCEPT !.live = FALSE, !.loops = 0]
  /\ UNCHANGED track

---------------------------------------------------------------------------
(* The callbacks of encoder k, the current one or one before. *)

Output(k) ==
  /\ enc.objs[k].inflight > 0
  /\ enc' = [enc EXCEPT !.objs[k].inflight = @ - 1,
                        !.pending = @ - (IF track = "video" THEN 1 ELSE 5),
                        !.stops = {IF s.obj = k /\ s.rest > 0 THEN [s EXCEPT !.rest = @ - 1] ELSE s :
                                     s \in @}]
  /\ UNCHANGED track

\* A closed encoder drops its frames, and its flushes are rejected.
Close(e, k) == [e EXCEPT !.objs[k] = [state |-> "closed", inflight |-> 0],
                         !.stops = {s \in @ : s.obj # k}]

Error(k) ==
  /\ enc.objs[k].state = "configured"
  /\ enc' = [Close(enc, k) EXCEPT !.keepGoing = FALSE]
  /\ UNCHANGED track

---------------------------------------------------------------------------
(* Stop: every listener that was added flushes the current encoder.  One   *)
(* frame is read and left alone first.  Without an encoder, or with one    *)
(* that is closed, the handler throws.  The flushes of an encoder end with *)
(* the first of them, so those that wait for the same output are one here. *)

StopEncoding ==
  /\ enc.listeners > 0 /\ enc.stopped < MaxStops
  /\ LET flush == IF enc.cur # NoEncoder /\ Current.state = "configured"
                  THEN {[obj |-> enc.cur, rest |-> Current.inflight]}
                  ELSE {}
     IN enc' = [enc EXCEPT !.stopped = @ + 1, !.stops = @ \cup flush]
  /\ UNCHANGED track

\* What was queued when flush was called has been encoded: close.
FlushEnds(s) ==
  /\ s \in enc.stops /\ s.rest = 0
  /\ enc' = Close(enc, s.obj)
  /\ UNCHANGED track

---------------------------------------------------------------------------
EncoderInit ==
  /\ track \in {"video", "audio"}
  /\ enc = [starts |-> 0, opening |-> 0, configs |-> 0, listeners |-> 0, objs |-> <<>>,
            cur |-> NoEncoder, pending |-> 0, keepGoing |-> FALSE, loops |-> 0, live |-> TRUE,
            frames |-> 0, skipped |-> 0, before |-> 0, stopped |-> 0, stops |-> {}]

EncoderNext ==
  \/ StartEncoding \/ SocketOpen \/ Configured \/ NotSupported
  \/ ReadVideoFrame \/ ReadAudioFrame \/ TrackEnds
  \/ \E k \in DOMAIN enc.objs : Output(k) \/ Error(k)
  \/ StopEncoding
  \/ \E s \in enc.stops : FlushEnds(s)

---------------------------------------------------------------------------
(* Properties. *)

\* The types.  The current encoder is one that was made, and every loop has
\* one to give its frames to.
EncoderTypes ==
  /\ track \in {"video", "audio"}
  /\ \A k \in DOMAIN enc.objs : /\ enc.objs[k].state \in {"configured", "closed"}
                                /\ enc.objs[k].inflight \in 0..MaxFrames
  /\ enc.cur = Len(enc.objs) /\ enc.loops \in 0..Len(enc.objs)
  /\ enc.pending \in Int /\ enc.keepGoing \in BOOLEAN
  /\ \A s \in enc.stops : enc.objs[s.obj].state = "configured"

\* What pendingOutputs is for.  Video: over what earlier encoders still had
\* when the current one was configured, no more than three frames wait in
\* encoders, whichever of them the outputs come from.  Audio: while the
\* encoder works, no two frames in a row are left out, though nothing bounds
\* how many wait.
Throttle ==
  /\ track = "video" => InEncoders(enc.objs) <= enc.before + 3
  /\ track = "audio" => enc.skipped <= 1
=============================================================================
