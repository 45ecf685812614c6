------------------------------- MODULE FlvIO -------------------------------
(***************************************************************************)
(* How the flv.js player of the server's web pages reads a stream: the     *)
(* IOController (players/flv.js/flv.js) with the loader it owns, over      *)
(* fetch, Firefox's chunked XMLHttpRequest, XMLHttpRequest with ranges, or *)
(* a WebSocket.  Loaders call back the controller, which keeps bytes in a  *)
(* stash, hands them to the demuxer, keeps what the demuxer does not eat,  *)
(* and reconnects when a connection breaks.                                *)
(*                                                                         *)
(* A byte is the number of its place in the file (several real bytes); a   *)
(* chunk is a sequence of bytes with a label, the place the code believes  *)
(* its first byte has.  The demuxer eats whole tags.  A handler runs to    *)
(* its end: JavaScript interleaves handlers only.                          *)
(***************************************************************************)
EXTENDS Integers, Sequences, FiniteSets, FiniteSetsExt

CONSTANTS
  Kinds,        \* loaders a player may have selected
  Size,         \* bytes of the file
  Tags,         \* places where a tag ends
  Keyframes,    \* places a seek may ask for
  MaxChunk,     \* bytes a loader delivers at once, at most
  StashInitial, \* config.stashInitialSize
  StashSizes,   \* sizes the measured speed may give the stash
  InitBuf,      \* 3 MB, the first size of the buffer under the stash
  Slack,        \* 1 MB, what the buffer has more than the stash
  MaxOps,       \* bound on pauses and seeks
  MaxFaults,    \* bound on broken connections
  None

ASSUME KindAssumption == Kinds \subseteq {"fetch", "moz", "range", "ws"}
ASSUME SizeAssumption == Size \in Nat \ {0} /\ Size \in Tags /\ Tags \subseteq 1..Size
ASSUME KeyframeAssumption == Keyframes \subseteq Tags \ {Size}
ASSUME StashAssumption ==
  /\ StashInitial \in 1..InitBuf /\ StashSizes \subseteq Nat \ {0}
  /\ Slack \in Nat \ {0} /\ InitBuf \in Nat /\ MaxChunk \in Nat \ {0}

ASSUME BoundAssumption == MaxOps \in Nat /\ MaxFaults \in Nat

VARIABLES
  kind,  \* the class of the loader and whether the page gave the file size
  io,    \* the fields of the IOController
  ld,    \* the fields of its loader
  cl,    \* what the demuxer has been given
  ops, faults

vars == <<kind, io, ld, cl, ops, faults>>

State == [io |-> io, ld |-> ld, cl |-> cl]

\* (Bound by a quantifier, what a handler leads to is evaluated once.)
Become(s) == \E u \in {s} : io' = u.io /\ ld' = u.ld /\ cl' = u.cl

EnableStash == kind.loader # "range"

Live == kind.loader = "ws"

IsWorking(l) == l.status \in {"connecting", "buffering"}

---------------------------------------------------------------------------
(* Opening and aborting loaders. *)

\* A loader that has asked for the bytes from a place on.
Connecting(from) ==
  [status |-> "connecting", stage |-> "request", abort |-> FALSE,
   from |-> from, received |-> 0, clen |-> None]

OpenFetch(from) == Connecting(from)

OpenMoz(from) == Connecting(from)

\* RangeLoader first asks for the file's length unless the page gave it.
OpenRange(from) ==
  [Connecting(from) EXCEPT !.stage = IF kind.sized THEN "request" ELSE "probe"]

\* A WebSocket knows no ranges.
OpenSocket == Connecting(0)

\* _createLoader, and open of the loader it made.
OpenLoader(from) ==
  CASE kind.loader = "fetch" -> OpenFetch(from)
    [] kind.loader = "moz" -> OpenMoz(from)
    [] kind.loader = "range" -> OpenRange(from)
    [] OTHER -> OpenSocket

\* FetchStreamLoader.abort only sets a flag that its next step reads.
AbortFetch(l) == [l EXCEPT !.abort = TRUE]

\* The other loaders drop their connection and its callbacks at once.
AbortNow(l) == [l EXCEPT !.status = "complete", !.stage = "ended"]

AbortLoader(l) == IF kind.loader = "fetch" THEN AbortFetch(l) ELSE AbortNow(l)

---------------------------------------------------------------------------
(* Stash and dispatch. *)

\* How much of a chunk FLVDemuxer.parseChunks eats: up to the last tag end.
Eaten(chunk) == Max({0} \cup {i \in 1..Len(chunk) : chunk[i] + 1 \in Tags})

\* _dispatchChunks and the consumer behind _onDataArrival.
DispatchChunks(s, chunk, label) ==
  LET n == Eaten(chunk) IN
  [s EXCEPT !.io.to = label + Len(chunk) - 1,
            !.cl.last = [bytes |-> chunk, label |-> label, due |-> s.cl.got],
            !.cl.got = IF n = 0 THEN @ ELSE chunk[n] + 1]

\* _expandBuffer: double the stash size until the bytes fit, and add 1 MB.
ExpandBuffer(i, expected) ==
  LET Fits(k) == i.size * 2^k + Slack >= expected
      k == CHOOSE n \in 0..expected : Fits(n) /\ \A m \in 0..(n - 1) : ~Fits(m)
  IN [i EXCEPT !.buf = i.size * 2^k + Slack]

Room(i, needed) == IF needed > i.buf THEN ExpandBuffer(i, needed) ELSE i

\* _normalizeSpeed and _adjustStashSize: the speed picks one of the sizes.
AdjustStashSize(i, size) == [Room(i, size + Slack) EXCEPT !.size = size]

\* What is left goes into the stash, which grows if it has to.
Keep(s, rest, start) ==
  [s EXCEPT !.io = [Room(s.io, Len(rest)) EXCEPT !.stash = rest, !.start = start]]

\* The stash is empty: the chunk goes straight to the demuxer.  When all of
\* it is eaten and the stash has a start, that start is left behind (stale).
PassOn(s, chunk, label) ==
  LET s1   == DispatchChunks(s, chunk, label)
      n    == Eaten(chunk)
      rest == SubSeq(chunk, n + 1, Len(chunk))
  IN IF rest = <<>> THEN [s1 EXCEPT !.cl.stale = @ \/ (EnableStash /\ s.io.start # 0)]
     ELSE Keep(s1, rest, label + n)

\* Stash disabled, bytes left: the demuxer gets the stash with the chunk.
MergeAndPass(s, chunk) ==
  LET all == s.io.stash \o chunk
      n   == Eaten(all)
      s1  == DispatchChunks([s EXCEPT !.io = Room(@, Len(all))], all, s.io.start)
  IN [s1 EXCEPT !.io.stash = SubSeq(all, n + 1, Len(all)), !.io.start = @ + n]

\* Slip: what is left and the chunk are put into the buffer as it is.
PassAndStashWrong(s, chunk) ==
  LET n  == Eaten(s.io.stash)
      s1 == DispatchChunks(s, s.io.stash, s.io.start)
  IN [s1 EXCEPT !.io.stash = SubSeq(@, n + 1, Len(@)) \o chunk, !.io.start = @ + n]

\* Stash enabled and full: the demuxer gets the stash, the chunk is stashed.
PassAndStash(s, chunk) ==
  LET n  == Eaten(s.io.stash)
      s1 == DispatchChunks(s, s.io.stash, s.io.start)
      rest == SubSeq(s.io.stash, n + 1, Len(s.io.stash)) \o chunk
  IN Keep(s1, rest, s1.io.start + n)

JustStash(s, chunk) == [s EXCEPT !.io.stash = @ \o chunk]

\* The first chunk after a seek sets the start of the stash.
StartStash(s, label) ==
  IF s.io.stash = <<>> /\ s.io.start = 0 THEN [s EXCEPT !.io.start = label] ELSE s

\* The stash rules of _onLoaderChunkArrival.
Stash(s, chunk, label) ==
  CASE ~EnableStash /\ s.io.stash = <<>> -> PassOn(s, chunk, label)
    [] ~EnableStash /\ s.io.stash # <<>> -> MergeAndPass(s, chunk)
    [] OTHER ->
         LET s1 == StartStash(s, label) IN
         IF Len(s.io.stash) + Len(chunk) <= s.io.size THEN JustStash(s1, chunk)
         ELSE IF s.io.stash # <<>> THEN PassAndStash(s1, chunk)
         ELSE PassOn(s1, chunk, label)

\* Slip: the chunk is taken whether the controller is paused or not.
OnLoaderChunkArrivalWrong(s, chunk, label, size) ==
  Stash([s EXCEPT !.io = [AdjustStashSize(s.io, size) EXCEPT !.retry = FALSE]], chunk, label)

\* _onLoaderChunkArrival: a paused controller drops the chunk; data ends a
\* reconnection; the speed may change the stash to the given size.
OnLoaderChunkArrival(s, chunk, label, size) ==
  IF s.io.paused THEN s
  ELSE Stash([s EXCEPT !.io = [AdjustStashSize(s.io, size) EXCEPT !.retry = FALSE]], chunk, label)

\* _flushStashBuffer: give the demuxer the stash, then keep or drop the rest.
FlushStashBuffer(s, dropUnconsumed) ==
  IF s.io.stash = <<>> THEN s
  ELSE LET n  == Eaten(s.io.stash)
           s1 == DispatchChunks(s, s.io.stash, s.io.start)
       IN IF n < Len(s.io.stash) /\ ~dropUnconsumed
          THEN [s1 EXCEPT !.io.stash = SubSeq(@, n + 1, Len(@)), !.io.start = @ + n]
          ELSE [s1 EXCEPT !.io.stash = <<>>, !.io.start = 0]

---------------------------------------------------------------------------
(* Seeking, and the ends of a loader. *)

\* Slip: what the demuxer left is dropped on a reconnection too.
InternalSeekWrong(s, bytes, dropUnconsumed) ==
  LET s1 == FlushStashBuffer(s, TRUE) IN
  [s1 EXCEPT !.io.from = bytes, !.io.to = -1, !.io.size = StashInitial,
             !.ld = OpenLoader(bytes), !.cl.reports = {}]

\* _internalSeek: the loader is destroyed with its callbacks, whatever it
\* still delivers reaches nobody; a new one asks for bytes from there on.
InternalSeek(s, bytes, dropUnconsumed) ==
  LET s1 == FlushStashBuffer(s, dropUnconsumed) IN
  [s1 EXCEPT !.io.from = bytes, !.io.to = -1, !.io.size = StashInitial,
             !.ld = OpenLoader(bytes), !.cl.reports = {}]

\* _onContentLengthKnown: the length of the first whole request is kept.
OnContentLengthKnown(s, length) ==
  IF s.io.full THEN [s EXCEPT !.io.total = length, !.io.full = FALSE] ELSE s

\* _onComplete and _onError of the transmuxing controller hear of it.
Report(s, what) == [s EXCEPT !.cl.reports = @ \cup {what}]

OnLoaderComplete(s) == Report(FlushStashBuffer(s, TRUE), "complete")

\* Slip: a second loss in a row is taken for one already reported.
OnLoaderErrorWrong(s, type) ==
  LET s1   == FlushStashBuffer(s, FALSE)
      next == s1.io.to + 1
  IN IF s1.io.retry THEN [s1 EXCEPT !.io.retry = FALSE]
     ELSE IF type = "earlyEof" /\ ~Live /\ s1.io.total # None /\ next < s1.io.total
     THEN InternalSeek([s1 EXCEPT !.io.retry = TRUE], next, FALSE)
     ELSE Report(s1, "error")

\* _onLoaderError: what came is flushed; a file whose length is known is
\* asked for again behind the last byte handed on, once.
OnLoaderError(s, type) ==
  LET s1   == FlushStashBuffer(s, FALSE)
      next == s1.io.to + 1
  IN IF s1.io.retry THEN Report([s1 EXCEPT !.io.retry = FALSE], "error")
     ELSE IF type = "earlyEof" /\ ~Live /\ s1.io.total # None
     THEN IF next < s1.io.total
          THEN InternalSeek([s1 EXCEPT !.io.retry = TRUE], next, FALSE)
          ELSE s1
     ELSE Report(s1, "error")

---------------------------------------------------------------------------
(* What the network does to the loader. *)

\* Chunks the connection may carry next.
Chunk(n) == LET at == ld.from + ld.received IN [i \in 1..n |-> at + i - 1]

ChunkSizes ==
  {n \in 1..MaxChunk : ld.from + ld.received + n <= Size}

\* The sizes _adjustStashSize may choose at the speed SpeedSampler measured.
Sizes == StashSizes \cup {io.size}

\* The loader's step before the controller's callback.
Loaded(l, n) == [State EXCEPT !.ld = [l EXCEPT !.received = @ + n]]

Deliver(l, n, size) ==
  OnLoaderChunkArrival(Loaded(l, n), Chunk(n), ld.from + ld.received, size)

Quiet == UNCHANGED <<kind, ops, faults>>

Fault == faults < MaxFaults /\ faults' = faults + 1 /\ UNCHANGED <<kind, ops>>

Failed(l) == [l EXCEPT !.status = "error", !.stage = "ended"]

\* fetch(...).then: the response came with a good status.
FetchResponse(known) ==
  LET opened == [ld EXCEPT !.stage = "pump", !.clen = IF known THEN Size - ld.from ELSE None] IN
  /\ kind.loader = "fetch" /\ ld.stage = "request" /\ ld.from < Size /\ Quiet
  /\ IF ld.abort
     THEN Become([State EXCEPT !.ld = [ld EXCEPT !.abort = FALSE, !.status = "idle", !.stage = "ended"]])
     ELSE LET s == [State EXCEPT !.ld = opened] IN
          Become(IF known THEN OnContentLengthKnown(s, Size - ld.from) ELSE s)

\* _pump: the reader gave a chunk.
FetchChunk ==
  /\ kind.loader = "fetch" /\ ld.stage = "pump" /\ Quiet
  /\ IF ld.abort
     THEN /\ ld.received < Size - ld.from
          /\ Become([State EXCEPT !.ld = [ld EXCEPT !.abort = FALSE, !.status = "complete",
                                                    !.stage = "ended"]])
     ELSE \E n \in ChunkSizes, size \in Sizes :
            Become(Deliver([ld EXCEPT !.status = "buffering"], n, size))

\* _pump: the reader is done.  The abort flag is not looked at.
FetchDone ==
  LET whole == ld.from + ld.received = Size IN
  /\ kind.loader = "fetch" /\ ld.stage = "pump"
  /\ IF whole THEN Quiet ELSE Fault
  /\ IF ld.clen # None /\ ld.received < ld.clen
     THEN Become(OnLoaderError([State EXCEPT !.ld = Failed(ld)], "earlyEof"))
     ELSE Become(OnLoaderComplete([State EXCEPT !.ld = [ld EXCEPT !.status = "complete",
                                                                 !.stage = "ended"]]))

\* The catch of fetch and of _pump: the request or the reader failed.
FetchBroken ==
  LET early == ld.stage = "pump" /\ (ld.clen = None \/ ld.received < ld.clen)
      type  == IF early THEN "earlyEof" ELSE "exception"
  IN
  /\ kind.loader = "fetch" /\ ld.stage \in {"request", "pump"} /\ Fault
  /\ Become(OnLoaderError([State EXCEPT !.ld = Failed(ld)], type))

\* MozChunkedLoader._onReadyStateChange and _onProgress.
MozHeaders ==
  /\ kind.loader = "moz" /\ ld.stage = "request" /\ ld.from < Size /\ Quiet
  /\ Become([State EXCEPT !.ld = [ld EXCEPT !.status = "buffering", !.stage = "pump"]])

MozProgress ==
  LET known == [ld EXCEPT !.clen = IF @ = None THEN Size - ld.from ELSE @]
      first == IF ld.clen = None THEN OnContentLengthKnown(State, known.clen) ELSE State
  IN /\ kind.loader = "moz" /\ ld.stage = "pump" /\ Quiet
     /\ \E n \in ChunkSizes, size \in Sizes :
          Become(OnLoaderChunkArrival([first EXCEPT !.ld = Loaded(known, n).ld],
                                      Chunk(n), ld.from + ld.received, size))

MozLoadEnd ==
  /\ kind.loader = "moz" /\ ld.stage = "pump" /\ ld.from + ld.received = Size /\ Quiet
  /\ Become(OnLoaderComplete([State EXCEPT !.ld = AbortNow(ld)]))

MozError ==
  LET type == IF ld.clen # None /\ ld.received < ld.clen THEN "earlyEof" ELSE "exception" IN
  /\ kind.loader = "moz" /\ ld.stage \in {"request", "pump"} /\ Fault
  /\ Become(OnLoaderError([State EXCEPT !.ld = Failed(ld)], type))

\* RangeLoader: the probe gave the length (_onProgress), or the headers of a
\* range came (_onReadyStateChange), with the range's first progress event.
RangeProbe ==
  /\ kind.loader = "range" /\ ld.stage = "probe" /\ Quiet
  /\ Become([State EXCEPT !.ld = [ld EXCEPT !.clen = Size - ld.from, !.stage = "request"]])

RangeHeaders ==
  LET s == [State EXCEPT !.ld = [ld EXCEPT !.status = "buffering", !.stage = "pump",
                                          !.clen = Size - ld.from]]
  IN /\ kind.loader = "range" /\ ld.stage = "request" /\ ld.from < Size /\ Quiet
     /\ Become(IF ld.clen = None THEN OnContentLengthKnown(s, Size - ld.from) ELSE s)

\* RangeLoader._onLoad: the next range is asked for before this one is
\* handed on.
RangeLoad ==
  /\ kind.loader = "range" /\ ld.stage = "pump" /\ Quiet
  /\ \E n \in ChunkSizes :
       LET more == ld.received + n < ld.clen
           s    == Deliver([ld EXCEPT !.stage = IF more THEN "request" ELSE "ended"], n, io.size)
       IN Become(IF more THEN s ELSE OnLoaderComplete([s EXCEPT !.ld.status = "complete"]))

RangeError ==
  LET type == IF ld.clen # None /\ ld.received \in 1..(ld.clen - 1) THEN "earlyEof" ELSE "exception"
  IN /\ kind.loader = "range" /\ ld.stage \in {"probe", "request", "pump"} /\ Fault
     /\ Become(OnLoaderError([State EXCEPT !.ld = Failed(ld)], type))

\* WebSocketLoader: open, message, close, and error before close.
WebSocketOpen ==
  /\ Live /\ ld.stage = "request" /\ Quiet
  /\ Become([State EXCEPT !.ld = [ld EXCEPT !.status = "buffering", !.stage = "pump"]])

WebSocketMessage ==
  /\ Live /\ ld.stage = "pump" /\ Quiet
  /\ \E n \in ChunkSizes, size \in Sizes : Become(Deliver(ld, n, size))

WebSocketError ==
  /\ Live /\ ld.stage \in {"request", "pump"} /\ Fault
  /\ Become(OnLoaderError([State EXCEPT !.ld = [ld EXCEPT !.status = "error", !.stage = "closing"]],
                          "exception"))

WebSocketClose ==
  /\ Live /\ ld.stage \in {"pump", "closing"} /\ Quiet
  /\ Become(OnLoaderComplete([State EXCEPT !.ld = AbortNow(ld)]))

\* The server refuses: always when nothing is left at the place asked for.
HttpError ==
  /\ ~Live /\ ld.stage = "request"
  /\ IF ld.from < Size THEN Fault ELSE Quiet
  /\ IF kind.loader = "fetch" /\ ld.abort
     THEN Become([State EXCEPT !.ld = [ld EXCEPT !.abort = FALSE, !.status = "idle", !.stage = "ended"]])
     ELSE Become(OnLoaderError([State EXCEPT !.ld = Failed(ld)], "httpStatus"))

Network ==
  \/ \E known \in BOOLEAN : FetchResponse(known)
  \/ FetchChunk \/ FetchDone \/ FetchBroken
  \/ MozHeaders \/ MozProgress \/ MozLoadEnd \/ MozError
  \/ RangeProbe \/ RangeHeaders \/ RangeLoad \/ RangeError
  \/ WebSocketOpen \/ WebSocketMessage \/ WebSocketError \/ WebSocketClose
  \/ HttpError

---------------------------------------------------------------------------
(* What the transmuxing controller asks of the IOController. *)

User == ops < MaxOps /\ ops' = ops + 1 /\ UNCHANGED <<kind, faults>>

\* pause: bytes not handed on are dropped, to be asked for again.
Pause ==
  LET at == IF io.stash # <<>> THEN io.start ELSE io.to + 1 IN
  /\ IsWorking(ld) /\ ~io.paused /\ User
  /\ Become([State EXCEPT !.ld = AbortLoader(ld),
                          !.io = [io EXCEPT !.resume = at, !.to = at - 1, !.stash = <<>>,
                                           !.start = 0, !.paused = TRUE]])

Resume ==
  /\ io.paused /\ UNCHANGED <<kind, ops, faults>>
  /\ Become(InternalSeek([State EXCEPT !.io = [io EXCEPT !.paused = FALSE, !.resume = 0]],
                         io.resume, TRUE))

\* seek: the demuxer now expects bytes from there on, whatever it had before.
Seek(bytes) ==
  /\ ~Live /\ User
  /\ Become(InternalSeek([State EXCEPT !.io = [io EXCEPT !.paused = FALSE, !.stash = <<>>, !.start = 0],
                                       !.cl.got = bytes, !.cl.last = None, !.cl.stale = FALSE],
                         bytes, TRUE))

---------------------------------------------------------------------------

\* The constructor; length is the size the page gave.  open sets full.
NewController(length) ==
  [stash |-> <<>>, start |-> 0, size |-> StashInitial, buf |-> InitBuf,
   from |-> 0, to |-> -1, paused |-> FALSE, resume |-> 0, retry |-> FALSE,
   total |-> length, full |-> TRUE]

\* open, from the start.
Init ==
  /\ kind \in [loader : Kinds, sized : BOOLEAN]
  /\ io = NewController(IF kind.sized /\ ~Live THEN Size ELSE None)
  /\ ld = OpenLoader(0)
  /\ cl = [got |-> 0, last |-> None, reports |-> {}, stale |-> FALSE]
  /\ ops = 0 /\ faults = 0

Next ==
  \/ Network
  \/ Pause
  \/ Resume
  \/ \E bytes \in Keyframes : Seek(bytes)

Spec == Init /\ [][Next]_vars

\* The browser delivers what the network brings, and a socket is closed.
FairSpec == Spec /\ WF_vars(Network)

---------------------------------------------------------------------------
(* Properties. *)

Bytes == Seq(0..(Size - 1))

(* The bytes _onLoaderChunkArrival and _flushStashBuffer leave in the stash
   fit the buffer under it, and so does the size the stash may grow to
   without another look at the buffer.                                     *)
Fits == Len(io.stash) <= io.buf /\ io.size <= io.buf

(* The types; the loader stays inside the file, the stash inside its buffer. *)
TypeOK ==
  /\ Fits
  /\ kind \in [loader : Kinds, sized : BOOLEAN]
  /\ io.stash \in Bytes /\ io.start \in 0..Size /\ io.size \in StashSizes \cup {StashInitial}
  /\ io.buf \in Nat /\ io.from \in 0..Size /\ io.to \in -1..(Size - 1)
  /\ io.total \in 1..Size \cup {None} /\ io.resume \in 0..Size
  /\ {io.paused, io.retry, io.full} \subseteq BOOLEAN
  /\ ld.status \in {"idle", "connecting", "buffering", "error", "complete"}
  /\ ld.stage \in {"probe", "request", "pump", "closing", "ended"}
  /\ ld.from \in 0..Size /\ ld.received \in 0..(Size - ld.from)
  /\ ld.clen \in 0..Size \cup {None} /\ ld.abort \in BOOLEAN
  /\ cl.got \in 0..Size /\ cl.reports \subseteq {"complete", "error"} /\ cl.stale \in BOOLEAN
  /\ ops \in 0..MaxOps /\ faults \in 0..MaxFaults

Consecutive(c) == \A i \in 1..(Len(c) - 1) : c[i + 1] = c[i] + 1

(* Whatever the chunks, the sizes the stash takes, pauses, seeks and broken
   connections: what _dispatchChunks gives the demuxer goes on where the
   demuxer stopped eating, without a gap or a byte twice, and carries the
   place its first byte has in the file.  The code may only start the whole
   file again (byteStart 0, which resets the demuxer): a connection that
   broke before its first byte, or a pause then, goes on from 0.  Nothing is
   said from where the stash is passed by until the next seek: what is then
   stashed carries the place of the chunk that was eaten whole, and a
   connection that breaks goes on from before the bytes that were kept.    *)
InOrder ==
  cl.last # None /\ ~cl.stale =>
    /\ Consecutive(cl.last.bytes)
    /\ cl.last.bytes[1] \in {cl.last.due, 0}
    /\ cl.last.label = cl.last.bytes[1]

(* While the controller is paused the demuxer gets nothing, though a fetch
   goes on until its next chunk and may even reconnect.                    *)
PausedStops == [][io.paused /\ io'.paused => cl'.last = cl.last]_vars

\* The length kept for reconnecting is the file's.
Honest == io.total \in {None, Size}

(* A connection that breaks is never passed over: while the controller is
   not paused, it comes to report the end or an error, or the demuxer has
   the whole file.  Not so once _totalLength is wrong: a seek before the
   first answer leaves the length of the rest of the file there, a loss
   behind that place is passed over, and the player waits for ever.        *)
EndReported ==
  (~io.paused /\ Honest) ~> (cl.reports # {} \/ io.paused \/ ~Honest \/ cl.got = Size)
=============================================================================
