----------------------------- MODULE WebDecoder -----------------------------
(***************************************************************************)
(* The page webcodecs/decoder, one track of it: text messages announce a   *)
(* codec and make a decoder, binary ones are chunks for it.  The answer    *)
(* whether a codec is supported and the bytes of a chunk are both awaited, *)
(* so a chunk may be there before its decoder, and chunks overtake each    *)
(* other.  Decoded frames queue in pendingFrames, from which renderFrame   *)
(* takes one at a time, shows it when its time has come and schedules      *)
(* itself again; the output callback schedules it when the last call found *)
(* the queue empty (underflow).                                            *)
(*                                                                         *)
(* Every chunk is taken for a key frame: type is that of the message       *)
(* event, "message", so isKeyFrameRecv lets all of them pass.              *)
(***************************************************************************)
EXTENDS Integers, Sequences, Functions

CONSTANTS
  MaxChunks,      \* bound on the chunks of the stream
  MaxMimes,       \* bound on the codecs announced
  MaxDecodeStops  \* bound on the clicks of Stop

ASSUME DecoderAssumption == {MaxChunks, MaxMimes, MaxDecodeStops} \subseteq Nat

VARIABLES
  dec,   \* messages on their way, and the decoders
  shown  \* pendingFrames, and the calls of renderFrame under way

decVars == <<dec, shown>>

NoDecoder == 0

Chunks == 1..MaxChunks

HasDecoder == dec.cur # NoDecoder /\ dec.objs[dec.cur].state = "configured"

---------------------------------------------------------------------------
(* Messages: decodeVideoFrame, decodeAudioFrame. *)

\* Start: when its socket has opened, messages are handled and a stop
\* listener is added.
StartDecoding ==
  /\ dec.listeners < 2
  /\ dec' = [dec EXCEPT !.listeners = @ + 1]
  /\ UNCHANGED shown

AnnounceCodec ==
  /\ dec.listeners > 0 /\ dec.mimes < MaxMimes
  /\ dec' = [dec EXCEPT !.mimes = @ + 1, !.configs = @ + 1]
  /\ UNCHANGED shown

\* The answers come in any order.  The decoder before is left as it is.
CreateDecoder ==
  /\ dec.configs > 0
  /\ dec' = [dec EXCEPT !.configs = @ - 1, !.cur = Len(dec.objs) + 1,
                        !.objs = Append(@, [state |-> "configured", queue |-> <<>>])]
  /\ UNCHANGED shown

NotSupportedCodec ==
  /\ dec.configs > 0
  /\ dec' = [dec EXCEPT !.configs = @ - 1]
  /\ UNCHANGED shown

ReceiveChunk ==
  /\ dec.listeners > 0 /\ dec.received < MaxChunks
  /\ dec' = [dec EXCEPT !.received = @ + 1, !.reads = @ \cup {dec.received + 1}]
  /\ UNCHANGED shown

\* The bytes are there: the chunk goes to the decoder of the moment.  With
\* none, or one that is closed, decode throws and the chunk is lost.
DecodeChunk(c) ==
  /\ c \in dec.reads
  /\ dec' = IF HasDecoder
            THEN [dec EXCEPT !.reads = @ \ {c}, !.objs[dec.cur].queue = Append(@, c)]
            ELSE [dec EXCEPT !.reads = @ \ {c}]
  /\ UNCHANGED shown

---------------------------------------------------------------------------
(* The callbacks of decoder k, and Stop. *)

\* handleFrame
HandleFrame(f) ==
  shown' = [shown EXCEPT !.pending = Append(@, f),
                         !.timers = IF shown.underflow THEN @ + 1 ELSE @]

Decoded(k) ==
  /\ dec.objs[k].queue # <<>>
  /\ dec' = [dec EXCEPT !.objs[k].queue = Tail(@),
                        !.stops = {IF s.obj = k /\ s.rest > 0 THEN [s EXCEPT !.rest = @ - 1] ELSE s :
                                     s \in @}]
  /\ HandleFrame(Head(dec.objs[k].queue))

CloseDecoder(d, k) == [d EXCEPT !.objs[k] = [state |-> "closed", queue |-> <<>>],
                                !.stops = {s \in @ : s.obj # k}]

\* A chunk of another codec, or one that is no key frame: the decoder closes.
DecodeError(k) ==
  /\ dec.objs[k].queue # <<>>
  /\ dec' = CloseDecoder(dec, k)
  /\ UNCHANGED shown

\* Each listener that was added flushes the decoder of the moment.
StopDecoding ==
  /\ dec.listeners > 0 /\ dec.stopped < MaxDecodeStops
  /\ LET flush == IF HasDecoder
                  THEN {[by |-> <<dec.stopped + 1, i>>, obj |-> dec.cur,
                         rest |-> Len(dec.objs[dec.cur].queue)] : i \in 1..dec.listeners}
                  ELSE {}
     IN dec' = [dec EXCEPT !.stopped = @ + 1, !.stops = @ \cup flush]
  /\ UNCHANGED shown

\* The flush is over: the decoder of the moment is closed, which may be a
\* newer one than was flushed, or is closed already.
FlushDecoderEnds(s) ==
  /\ s \in dec.stops /\ s.rest = 0
  /\ dec' = CloseDecoder([dec EXCEPT !.stops = @ \ {s}], dec.cur)
  /\ UNCHANGED shown

---------------------------------------------------------------------------
(* publicRenderFrame *)

\* Slip: the frame is looked at and stays in the queue.
RenderFrameWrong ==
  /\ shown.timers > 0
  /\ shown' = IF shown.pending = <<>>
              THEN [shown EXCEPT !.timers = @ - 1, !.underflow = TRUE]
              ELSE [shown EXCEPT !.timers = @ - 1, !.underflow = FALSE,
                                 !.waiting = @ \cup {Head(shown.pending)}]
  /\ UNCHANGED dec

RenderFrame ==
  /\ shown.timers > 0
  /\ shown' = IF shown.pending = <<>>
              THEN [shown EXCEPT !.timers = @ - 1, !.underflow = TRUE]
              ELSE [shown EXCEPT !.timers = @ - 1, !.underflow = FALSE,
                                 !.pending = Tail(@), !.waiting = @ \cup {Head(shown.pending)}]
  /\ UNCHANGED dec

\* The frame's time has come: it is drawn, and written to the track.
DrawFrame(f) ==
  /\ f \in shown.waiting
  /\ shown' = [shown EXCEPT !.waiting = @ \ {f}, !.writing = @ \cup {f}, !.drawn = Append(@, f)]
  /\ UNCHANGED dec

\* Slip: the call is scheduled again only when there is a frame to show.
WrittenWrong(f) ==
  /\ f \in shown.writing
  /\ shown' = [shown EXCEPT !.writing = @ \ {f},
                            !.timers = IF shown.pending = <<>> THEN @ ELSE @ + 1]
  /\ UNCHANGED dec

Written(f) ==
  /\ f \in shown.writing
  /\ shown' = [shown EXCEPT !.writing = @ \ {f}, !.timers = @ + 1]
  /\ UNCHANGED dec

---------------------------------------------------------------------------
DecoderInit ==
  /\ dec = [listeners |-> 0, mimes |-> 0, configs |-> 0, received |-> 0, reads |-> {},
            objs |-> <<>>, cur |-> NoDecoder, stopped |-> 0, stops |-> {}]
  /\ shown = [pending |-> <<>>, underflow |-> TRUE, timers |-> 0, waiting |-> {}, writing |-> {},
              drawn |-> <<>>]

Receive == StartDecoding \/ AnnounceCodec \/ ReceiveChunk \/ \E c \in Chunks : DecodeChunk(c)

Decode == \/ CreateDecoder \/ NotSupportedCodec
          \/ \E k \in DOMAIN dec.objs : Decoded(k) \/ DecodeError(k)

StopDecode == StopDecoding \/ \E s \in dec.stops : FlushDecoderEnds(s)

Render == RenderFrame \/ \E f \in Chunks : DrawFrame(f) \/ Written(f)

DecoderNext == Receive \/ Decode \/ StopDecode \/ Render

---------------------------------------------------------------------------
(* Properties. *)

\* The types.  A frame that was decoded is in one place, and is drawn once.
DecoderTypes ==
  /\ dec.cur = Len(dec.objs) /\ dec.reads \subseteq Chunks
  /\ \A k \in DOMAIN dec.objs : /\ dec.objs[k].state \in {"configured", "closed"}
                                /\ Range(dec.objs[k].queue) \subseteq Chunks
  /\ \A s \in dec.stops : dec.objs[s.obj].state = "configured"
  /\ shown.timers \in Nat /\ shown.underflow \in BOOLEAN
  /\ shown.waiting \cap (Range(shown.pending) \cup Range(shown.drawn)) = {}
  /\ shown.writing \subseteq Range(shown.drawn)
  /\ IsInjective(shown.drawn) /\ Range(shown.drawn) \cap Range(shown.pending) = {}

\* A frame that waits in pendingFrames is shown, however many calls of
\* renderFrame are under way and whichever of them finds the queue empty.
FramesShown == \A f \in Chunks : f \in Range(shown.pending) ~> f \in Range(shown.drawn)
=============================================================================
