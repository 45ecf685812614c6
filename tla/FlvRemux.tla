------------------------------ MODULE FlvRemux ------------------------------
(***************************************************************************)
(* From FLV tags to MP4 segments, in players/flv.js/flv.js: the FLVDemuxer *)
(* parses the tags of a chunk and keeps their samples in a queue for each  *)
(* track; the MP4Remuxer takes the queues, holds each track's last sample  *)
(* back until it knows how long it lasts (the stash), and cuts segments    *)
(* whose times join.  The transmuxing controller moves both over a file in *)
(* several parts: a new demuxer for each part read from its header, seeks  *)
(* to a keyframe, pauses.                                                  *)
(*                                                                         *)
(* A tag is its kind and its time; payloads and codecs are left out.  The  *)
(* file's audio is AAC, the browser neither Edge nor Safari.               *)
(***************************************************************************)
EXTENDS Integers, Sequences, SequencesExt

CONSTANTS
  File,        \* the tags of each part
  PartStart,   \* timestampBase of each part
  Declared,    \* the sets of tracks that headers announce
  Ref,         \* refSampleDuration of each track
  Tolerance,   \* the 3 ms of _remuxAudio and _remuxVideo
  MaxChunk,    \* bound on the tags of a chunk
  MaxSeeks,    \* bound on the seeks
  MaxPauses,   \* bound on the pauses
  None

Tracks == {"audio", "video"}

Parts == DOMAIN File

Kinds == {"script", "audio config", "video config", "audio", "delta", "key"}

ASSUME FileAssumption ==
  /\ File \in Seq(Seq([kind : Kinds, time : Nat])) /\ File # <<>>
  /\ PartStart \in [Parts -> Nat]
ASSUME DeclaredAssumption == Declared \subseteq SUBSET Tracks
ASSUME RefAssumption == Ref \in [Tracks -> Nat \ {0}] /\ Tolerance \in Nat
ASSUME NoneAssumption == None \notin Int \cup [orig : Int, dts : Int, dur : Int]
ASSUME BoundsAssumption == {MaxChunk, MaxSeeks, MaxPauses} \subseteq Nat

VARIABLES
  io,    \* the controller and its loader
  dmx,   \* the demuxer
  base,  \* the remuxer's _dtsBase
  trk    \* each track, in the demuxer and in the remuxer

vars == <<io, dmx, base, trk>>

Samples == [part : Parts, at : Nat, time : Nat, stale : BOOLEAN]

---------------------------------------------------------------------------
(* MediaSegmentInfoList: what is known of the segments of a track. *)

\* _searchNearestSegmentBefore: a binary search; segments are counted from 0.
Middle(bounds) == bounds[1] + (bounds[2] - bounds[1]) \div 2

Ends(list, time, bounds) ==
  LET mid == Middle(bounds)
  IN \/ bounds[1] > bounds[2]
     \/ mid = Len(list) - 1
     \/ list[mid + 1].last.orig < time /\ time < list[mid + 2].begin

Closer(list, time, bounds) ==
  LET mid == Middle(bounds)
  IN IF list[mid + 1].begin < time THEN <<mid + 1, bounds[2]>> ELSE <<bounds[1], mid - 1>>

NearestBefore(list, time) ==
  LET search[bounds \in (0..Len(list)) \X (-1..(Len(list) - 1))] ==
        IF Ends(list, time, bounds)
        THEN IF bounds[1] > bounds[2] THEN 0 ELSE Middle(bounds)
        ELSE search[Closer(list, time, bounds)]
  IN IF list = <<>> THEN -2 ELSE IF time < list[1].begin THEN -1 ELSE search[<<0, Len(list) - 1>>]

\* getLastSampleBefore
LastSample(list, idx) == IF idx >= 0 THEN list[idx + 1].last ELSE None

LastSampleBefore(list, time) == LastSample(list, NearestBefore(list, time))

\* append: after the last place, when the segment goes there.
Place(k, info) ==
  LET cached == k.placed
      seg(i) == k.list[i + 1]
      last   == Len(k.list) - 1
  IN IF /\ cached # -1 /\ cached <= last
        /\ info.begin >= seg(cached).last.orig
        /\ cached = last \/ info.begin < seg(cached + 1).begin
     THEN cached + 1
     ELSE IF k.list # <<>> THEN NearestBefore(k.list, info.begin) + 1 ELSE 0

AppendInfo(k, info) ==
  LET place == Place(k, info) IN
  [k EXCEPT !.list = InsertAt(@, place + 1, info), !.placed = place]

---------------------------------------------------------------------------
(* MP4Remuxer *)

\* The move that joins a sample to the one before it in the list, if any.
Rejoin(first, before) ==
  LET distance == first - (before.orig + before.dur)
  IN IF before = None THEN 0
     ELSE first - (before.dts + before.dur + (IF distance <= Tolerance THEN 0 ELSE distance))

\* How the first sample of a segment is moved to join the segment before.
DtsCorrection(k, first) ==
  CASE k.next # None /\ k.next # 0 -> first - k.next
    [] k.list = <<>> /\ k.next \in {None, 0} -> 0
    [] OTHER -> Rejoin(first, LastSampleBefore(k.list, first))

\* Slip: one silent frame too many when the gap is a multiple of ref.
WithSilenceWrong(frame, ref) ==
  LET count == frame.dur \div ref
      silent(j) == [frame EXCEPT !.dts = frame.dts + j * ref, !.silent = TRUE, !.rejoined = FALSE,
                                 !.dur = IF j < count THEN ref ELSE frame.dur - j * ref]
  IN IF 2 * frame.dur > 3 * ref
     THEN <<[frame EXCEPT !.dur = ref]>> \o [j \in 1..count |-> silent(j)]
     ELSE <<frame>>

\* A sample that lasts too long is followed by silent ones.
WithSilence(frame, ref) ==
  LET count == (frame.dur - 1) \div ref
      silent(j) == [frame EXCEPT !.dts = frame.dts + j * ref, !.silent = TRUE, !.rejoined = FALSE,
                                 !.dur = IF j < count THEN ref ELSE frame.dur - j * ref]
  IN IF 2 * frame.dur > 3 * ref
     THEN <<[frame EXCEPT !.dur = ref]>> \o [j \in 1..count |-> silent(j)]
     ELSE <<frame>>

\* Nothing tells how long the last sample lasts when none is held back.
Guessed(body, held, i) == i = Len(body) /\ held = <<>>

\* How long the i-th sample of body lasts: until the next, or until the one
\* that is held back.
SampleDuration(t, body, held, i) ==
  LET all == body \o held
  IN IF Guessed(body, held, i) THEN Ref[t] ELSE all[i + 1].time - all[i].time

\* The frames of a segment, moved by correction.  Times count from b.
Moved(t, k, body, held, b, correction) ==
  LET frame(i)   == [dts |-> body[i].time - b - correction,
                     dur |-> SampleDuration(t, body, held, i),
                     orig |-> body[i].time - b, moved |-> correction,
                     silent |-> FALSE, stale |-> body[i].stale, guessed |-> Guessed(body, held, i),
                     rejoined |-> i = 1 /\ k.next = None /\ k.list # <<>>]
  IN FlattenSeq([i \in 1..Len(body) |->
       IF t = "audio" THEN WithSilence(frame(i), Ref[t]) ELSE <<frame(i)>>])

Frames(t, k, body, held, b) == Moved(t, k, body, held, b, DtsCorrection(k, body[1].time - b))

Info(first, latest) ==
  [begin |-> first.orig, last |-> [orig |-> latest.orig, dts |-> latest.dts, dur |-> latest.dur]]

\* What is left of _remuxAudio and _remuxVideo: the segment is sent, and its
\* end and its place are noted.
SendFrames(k, body, held, frames) ==
  [AppendInfo(k, Info(frames[1], Last(frames)))
     EXCEPT !.next = Last(frames).dts + Last(frames).dur, !.stash = held,
            !.sent = @ \o body, !.frames = @ \o frames]

Send(t, k, body, held, b) == SendFrames(k, body, held, Frames(t, k, body, held, b))

\* Slip: two samples stay, not one.
ReadyWrong(k) == k.meta /\ Len(k.queue) > 2

\* A lone sample stays in the demuxer's queue.
Ready(k) == k.meta /\ Len(k.queue) >= 2

\* The sample that was held back goes first; the last one is held back.
Body(k) == k.stash \o Front(k.queue)

\* _remuxAudio and _remuxVideo with the queue of the demuxer.
RemuxQueue(t, k, b) ==
  IF Ready(k) THEN [Send(t, k, Body(k), <<Last(k.queue)>>, b) EXCEPT !.queue = <<>>] ELSE k

\* The same for flushStashedSamples.
FlushStash(t, k) == IF k.stash = <<>> THEN k ELSE Send(t, k, k.stash, <<>>, base)

\* insertDiscontinuity
Discontinue(k) == [k EXCEPT !.next = None]

\* Slip: the sample held back survives a seek.
SeekTrackWrong(k) ==
  LET old == [i \in 1..Len(k.queue) |-> [k.queue[i] EXCEPT !.stale = TRUE]]
  IN [Discontinue(k) EXCEPT !.list = <<>>, !.placed = -1,
                            !.queue = old, !.given = old, !.sent = <<>>, !.frames = <<>>]

\* seek, with the discontinuity that follows it.  The demuxer's queue stays.
SeekTrack(k) ==
  LET old == [i \in 1..Len(k.queue) |-> [k.queue[i] EXCEPT !.stale = TRUE]]
  IN [Discontinue(k) EXCEPT !.stash = <<>>, !.list = <<>>, !.placed = -1,
                            !.queue = old, !.given = old, !.sent = <<>>, !.frames = <<>>]

---------------------------------------------------------------------------
(* FLVDemuxer *)

Tags == File[io.part]

\* The constructor; the header announces the tracks of has.
NewDemuxer(has) == [has |-> has, sent |-> {}, script |-> FALSE, dispatch |-> FALSE]

\* _isInitialMetadataDispatched
InitialMetadataDispatched(d) == d.has # {} /\ d.has \subseteq d.sent

\* MediaInfo.isComplete
Complete(d) == d.script /\ d.has \subseteq d.sent

\* _calculateDtsBase: the earlier of the tracks' first samples.
DtsBase ==
  LET first == {trk[t].queue[1].time : t \in {u \in Tracks : trk[u].queue # <<>>}}
  IN IF base # None THEN base ELSE CHOOSE x \in first : \A y \in first : x <= y

\* remux, behind _onDataAvailable.
RemuxParsed ==
  IF \E t \in Tracks : trk[t].queue # <<>>
  THEN base' = DtsBase /\ trk' = [t \in Tracks |-> RemuxQueue(t, trk[t], DtsBase)]
  ELSE UNCHANGED <<base, trk>>

\* A chunk of n tags arrives.  The first chunk of a part, from its header on,
\* makes a new demuxer: what the old one still had goes with it.
Arrive(n) ==
  /\ ~io.parsing /\ ~io.told /\ ~io.done /\ io.pos + n <= Len(Tags)
  /\ io' = [io EXCEPT !.parsing = TRUE, !.left = n, !.header = FALSE]
  /\ IF io.header
     THEN /\ \E has \in Declared :
               dmx' = NewDemuxer(has)
          /\ trk' = [t \in Tracks |->
                       [trk[t] EXCEPT !.queue = <<>>,
                                      !.given = SubSeq(@, 1, Len(@) - Len(trk[t].queue))]]
     ELSE UNCHANGED <<dmx, trk>>
  /\ UNCHANGED base

\* The loop of parseChunks, a tag at a time: what comes next, and the media
\* info that the controller is told of.
Parsing(kind) == io.parsing /\ io.left > 0 /\ Tags[io.pos + 1].kind = kind

NextTag(d) ==
  /\ dmx' = d
  /\ io' = [io EXCEPT !.pos = @ + 1, !.left = @ - 1]

TellMediaInfo(d) ==
  /\ dmx' = d
  /\ io' = [io EXCEPT !.pos = @ + 1, !.left = @ - 1, !.told = @ \/ Complete(d),
                      !.known = IF Complete(d) THEN @ \cup {io.part} ELSE @]

\* _parseScriptData
ParseScript ==
  /\ Parsing("script")
  /\ TellMediaInfo([dmx EXCEPT !.script = TRUE, !.dispatch = FALSE])
  /\ UNCHANGED <<base, trk>>

\* The configuration of a track: what has been parsed under the one before
\* goes to the remuxer first.
ParseConfig(t) ==
  LET d == [dmx EXCEPT !.has = @ \cup {t}] IN
  /\ TellMediaInfo([d EXCEPT !.sent = @ \cup {t}, !.dispatch = FALSE])
  /\ IF InitialMetadataDispatched(d) /\ \E u \in Tracks : trk[u].queue # <<>>
     THEN /\ base' = DtsBase
          /\ trk' = [u \in Tracks |-> [RemuxQueue(u, trk[u], DtsBase) EXCEPT !.meta = @ \/ u = t]]
     ELSE trk' = [trk EXCEPT ![t].meta = TRUE] /\ UNCHANGED base

\* _parseAudioData with a sequence header.
ParseAudioConfig == Parsing("audio config") /\ ParseConfig("audio")

\* _parseAVCDecoderConfigurationRecord
ParseVideoConfig == Parsing("video config") /\ ParseConfig("video")

\* A sample goes to the end of its track's queue.
ParseSample(t) ==
  LET sample == [part |-> io.part, at |-> io.pos + 1,
                 time |-> PartStart[io.part] + Tags[io.pos + 1].time, stale |-> FALSE]
  IN /\ trk' = [trk EXCEPT ![t].queue = Append(@, sample), ![t].given = Append(@, sample)]
     /\ UNCHANGED base

\* _parseAudioData with a raw frame.
ParseAudio ==
  /\ Parsing("audio")
  /\ NextTag([dmx EXCEPT !.has = @ \cup {"audio"}, !.dispatch = TRUE])
  /\ ParseSample("audio")

\* _parseVideoData and _parseAVCVideoPacket: a packet with a picture.
VideoTag == Parsing("delta") \/ Parsing("key")

\* _parseAVCVideoData
ParseVideo ==
  /\ VideoTag
  /\ NextTag([dmx EXCEPT !.dispatch = TRUE])
  /\ ParseSample("video")

---------------------------------------------------------------------------
(* TransmuxingController *)

Keyframes == UNION {{<<p, i>> : i \in {j \in DOMAIN File[p] : File[p][j].kind = "key"}} : p \in Parts}

Load(part, pos, header) ==
  [io EXCEPT !.part = part, !.pos = pos, !.header = header, !.told = FALSE, !.done = FALSE]

\* seek, to a keyframe: the part that is loaded is read from there, unless its
\* metadata has not come; so is another part that is known; one that is not
\* is read from its header, and the seek waits.
SeekTo(k, pend, seeks) ==
  LET part  == k[1]
      known == part \in io.known
  IN IF part = io.part /\ ~known
     THEN io' = [io EXCEPT !.pend = k, !.seeks = seeks] /\ UNCHANGED trk
     ELSE /\ io' = IF known THEN [Load(part, k[2] - 1, FALSE) EXCEPT !.pend = pend, !.seeks = seeks]
                   ELSE [Load(part, 0, TRUE) EXCEPT !.pend = k, !.seeks = seeks]
          /\ trk' = [t \in Tracks |-> SeekTrack(trk[t])]

\* What parseChunks does at its end: samples go to the remuxer, unless the
\* last tag was a script or a configuration and nothing came behind it.
DispatchParsed(tail) ==
  /\ dmx' = [dmx EXCEPT !.dispatch = @ \/ tail]
  /\ IF InitialMetadataDispatched(dmx) /\ dmx'.dispatch THEN RemuxParsed ELSE UNCHANGED <<base, trk>>

\* A chunk may end inside a tag, which is parsed with the next chunk.
Tails == {FALSE} \cup {io.pos < Len(Tags)}

\* Slip: the media info holds the loading up though no seek waits for it.
DispatchWrong ==
  /\ io.parsing /\ io.left = 0
  /\ io' = [io EXCEPT !.parsing = FALSE]
  /\ \E tail \in Tails : DispatchParsed(tail)

\* The end of parseChunks.
Dispatch ==
  /\ io.parsing /\ io.left = 0
  /\ io' = [io EXCEPT !.parsing = FALSE, !.told = @ /\ io.pend # None]
  /\ \E tail \in Tails : DispatchParsed(tail)

\* _onMediaInfo: the seek that waited goes on before anything else.
PendingSeek ==
  /\ ~io.parsing /\ io.told
  /\ SeekTo(io.pend, None, io.seeks)
  /\ UNCHANGED <<dmx, base>>

\* Between chunks.
Idle == ~io.parsing /\ ~io.told

Seek(k) ==
  /\ Idle /\ io.known # {} /\ io.seeks < MaxSeeks
  /\ SeekTo(k, io.pend, io.seeks + 1)
  /\ UNCHANGED <<dmx, base>>

\* Loading pauses and goes on from the same place.
PauseAndResume ==
  /\ Idle /\ ~io.done /\ io.pauses < MaxPauses
  /\ io' = [io EXCEPT !.pauses = @ + 1]
  /\ trk' = [t \in Tracks |-> Discontinue(trk[t])]
  /\ UNCHANGED <<dmx, base>>

\* _onIOComplete
PartComplete ==
  /\ Idle /\ ~io.done /\ ~io.header /\ io.pos = Len(Tags)
  /\ trk' = [t \in Tracks |-> FlushStash(t, trk[t])]
  /\ io' = IF io.part + 1 \in Parts THEN Load(io.part + 1, 0, TRUE) ELSE [io EXCEPT !.done = TRUE]
  /\ UNCHANGED <<dmx, base>>

\* A track in a new remuxer.
NewTrack ==
  [queue |-> <<>>, stash |-> <<>>, next |-> None, list |-> <<>>, placed |-> -1,
   meta |-> FALSE, given |-> <<>>, sent |-> <<>>, frames |-> <<>>]

\* start
Init ==
  /\ io = [part |-> 1, pos |-> 0, left |-> 0, parsing |-> FALSE, header |-> TRUE, told |-> FALSE,
           known |-> {}, pend |-> None, done |-> FALSE, seeks |-> 0, pauses |-> 0]
  /\ dmx = NewDemuxer({})
  /\ base = None
  /\ trk = [t \in Tracks |-> NewTrack]

Next ==
  \/ \E n \in 1..MaxChunk : Arrive(n)
  \/ ParseScript \/ ParseAudioConfig \/ ParseVideoConfig \/ ParseAudio \/ ParseVideo
  \/ Dispatch
  \/ PendingSeek
  \/ \E k \in Keyframes : Seek(k)
  \/ PauseAndResume
  \/ PartComplete

Spec == Init /\ [][Next]_vars

---------------------------------------------------------------------------
(* Properties. *)

Times == Int \cup {None}

\* The types, which tie the variables: the loader never reads past the part
\* it is in, the controller waits for its media info handler only while a
\* seek waits, and no track holds more than one sample back.
TypeOK ==
  /\ io.part \in Parts /\ io.pos \in 0..Len(Tags) /\ io.pos + io.left <= Len(Tags)
  /\ io.known \subseteq Parts /\ io.pend \in Keyframes \cup {None}
  /\ (io.told => io.pend # None \/ io.parsing)
  /\ dmx \in [has : SUBSET Tracks, sent : SUBSET Tracks, script : BOOLEAN, dispatch : BOOLEAN]
  /\ base \in Times
  /\ \A t \in Tracks :
       /\ trk[t].queue \in Seq(Samples) /\ trk[t].stash \in Seq(Samples)
       /\ Len(trk[t].stash) <= 1 /\ trk[t].next \in Times

\* Every sample parsed since the last seek is in a segment, is held back, or
\* waits in the demuxer: none is lost or sent twice, and they leave in the
\* order they were parsed in, whatever the chunks, pauses and seeks.  The
\* samples a replaced demuxer still had are not counted: they do get lost.
EachOnce ==
  \A t \in Tracks : trk[t].sent \o trk[t].stash \o trk[t].queue = trk[t].given

\* What LoneLeft says is so of files each part of which ends with a sample:
\* behind a script or a configuration at the end of a part nothing makes the
\* demuxer give away what is still in its queues.
SamplesLast ==
  \A p \in Parts : File[p] # <<>> /\ Last(File[p]).kind \in {"audio", "delta", "key"}

\* When a part has been read to its end with its configurations sent, at most
\* one sample of each track is left in the demuxer: the rest has been
\* dispatched by then.  (Samples of a track that no header announced and no
\* configuration described wait for one.)
LoneLeft ==
  Idle /\ ~io.header /\ io.pos = Len(Tags) /\ InitialMetadataDispatched(dmx) =>
    \A t \in Tracks : t \in dmx.has \/ trk[t].meta => Len(trk[t].queue) <= 1

\* g follows f: no overlap, and no gap or shift between them, except after a
\* duration that was guessed at the end of a part, and where loading went on
\* after a pause that fell behind a silent frame.
Joins(f, g) ==
  /\ f.dts + f.dur <= g.dts
  /\ f.guessed \/ (f.silent /\ g.rejoined) \/ (f.dts + f.dur = g.dts /\ f.moved = g.moved)
  /\ f.guessed /\ ~g.rejoined => f.dts + f.dur = g.dts

\* Samples of one track, by the kinds of their tags.
SampleKinds(t) == IF t = "audio" THEN {"audio"} ELSE {"delta", "key"}

AbsoluteTime(p, i) == PartStart[p] + File[p][i].time

Earlier(p, i, q, j) == p < q \/ (p = q /\ i < j)

\* What KeepsTime says is so of files whose tracks go on in time, from sample
\* to sample and from part to part.
TimesGrow ==
  \A t \in Tracks, p \in Parts, q \in Parts :
    \A i \in DOMAIN File[p], j \in DOMAIN File[q] :
      /\ Earlier(p, i, q, j)
      /\ File[p][i].kind \in SampleKinds(t) /\ File[q][j].kind \in SampleKinds(t)
      => AbsoluteTime(p, i) < AbsoluteTime(q, j)

\* The frames sent since the last seek start where the file says and join one
\* another, over chunks, configurations, pauses and parts, each of a positive
\* duration.  Two exceptions: the first is a lone sample from before the seek,
\* which the demuxer kept; or it is before the moment that times count from,
\* when the first samples seen were behind a seek: then a segment can end at
\* time 0, which the remuxer takes for unknown.
KeepsTime ==
  \A t \in Tracks :
    LET frames == trk[t].frames
    IN frames # <<>> /\ ~frames[1].stale /\ frames[1].dts >= 0 =>
         \A i \in DOMAIN frames :
           /\ frames[i].dur > 0
           /\ IF i = 1 THEN frames[i].moved = 0 ELSE Joins(frames[i - 1], frames[i])
=============================================================================
