------------------------------- MODULE FlvMse -------------------------------
(***************************************************************************)
(* MSEController of players/flv.js/flv.js: it feeds the segments the       *)
(* transmuxer makes into the browser's MediaSource, one SourceBuffer per   *)
(* track.  A SourceBuffer works on its own and refuses calls while it      *)
(* does; the controller keeps what it cannot append or remove yet, and     *)
(* goes on when an updateend event tells that a buffer is ready.  Between  *)
(* the end of a buffer's work and that event other handlers run.           *)
(*                                                                         *)
(* Media segments are numbered as they arrive, over both tracks; a segment *)
(* stands for its place in time as well.  The browser's part (MediaSource, *)
(* SourceBuffer, the play head) is modelled from the calls made to it.     *)
(***************************************************************************)
EXTENDS Integers, Sequences, FiniteSets, FiniteSetsExt

CONSTANTS
  Defer,       \* config.deferLoadAfterSourceOpen
  AutoCleanup, \* config.autoCleanupSourceBuffer
  MaxBackward, \* config.autoCleanupMaxBackwardDuration, in segments
  MinBackward, \* config.autoCleanupMinBackwardDuration, in segments
  Quota,       \* segments yet to play that a SourceBuffer has room for
  MaxSegments, \* bound on media segments
  MaybeAudio,  \* numbers a segment of the audio track may have
  Changing,    \* tracks that get a second initialization segment
  MaxSeeks,    \* bound on seeks
  NoData

ASSUME CleanupAssumption ==
  /\ {Defer, AutoCleanup} \subseteq BOOLEAN
  /\ MinBackward \in Nat \ {0} /\ MaxBackward \in Nat /\ MinBackward <= MaxBackward
Types == {"video", "audio"}

ASSUME BoundsAssumption ==
  {Quota, MaxSegments} \subseteq Nat \ {0} /\ MaxSeeks \in Nat /\ Changing \subseteq Types

\* An initialization segment.
InitSegment == 0

VARIABLES
  ms,   \* readyState of the MediaSource, "gone" once it is detached
  sb,   \* the SourceBuffers: what they do and what they hold
  ev,   \* updateend events on their way
  ctl,  \* the fields of the MSEController
  feed  \* what the player has asked for, and where it plays

vars == <<ms, sb, ev, ctl, feed>>

State == [ms |-> ms, sb |-> sb, ev |-> ev, ctl |-> ctl, feed |-> feed]

Become(s) == ms' = s.ms /\ sb' = s.sb /\ ev' = s.ev /\ ctl' = s.ctl /\ feed' = s.feed

---------------------------------------------------------------------------
(* SourceBuffers. *)

NoBuffer == [on |-> FALSE, job |-> "none", data |-> NoData, buf |-> {}]

Updating(b) == b.job # "none"

\* Room for one more segment, if need be without those played.
Full(s, t) == Cardinality({n \in s.sb[t].buf : n > s.feed.head}) >= Quota

\* appendBuffer: an ended source is open again; played segments may go.
AppendBuffer(s, t, segment) ==
  LET kept == IF Cardinality(s.sb[t].buf) < Quota THEN s.sb[t].buf
              ELSE {n \in s.sb[t].buf : n > s.feed.head}
  IN [s EXCEPT !.ms = "open",
               !.sb[t].job = "append", !.sb[t].data = segment, !.sb[t].buf = kept]

\* remove
RemoveRange(s, t, range) ==
  [s EXCEPT !.ms = "open", !.sb[t].job = "remove", !.sb[t].data = range]

\* abort ends an append and tells of it; it throws while a range is removed.
Abort(s, t) ==
  IF s.ms = "open" /\ s.sb[t].job = "append"
  THEN [s EXCEPT !.sb[t].job = "none", !.sb[t].data = NoData, !.ev[t] = @ + 1]
  ELSE s

---------------------------------------------------------------------------
(* Operators of the controller. *)

HasPendingSegments(s) == \E t \in Types : s.ctl.segments[t] # <<>>

HasPendingRemoveRanges(s) == \E t \in Types : s.ctl.ranges[t] # <<>>

\* IDRSampleList.appendArray: a segment older than the last starts anew.
AppendIdr(idr, n) == IF idr # {} /\ n < Max(idr) THEN {n} ELSE idr \cup {n}

\* Slip: an initialization segment counts as a keyframe.
AppendHeadInitWrong(s, t) ==
  IF ~s.sb[t].on \/ Updating(s.sb[t]) \/ s.ctl.segments[t] = <<>> \/ Full(s, t) THEN s
  ELSE [AppendBuffer(s, t, Head(s.ctl.segments[t])) EXCEPT
          !.ctl.segments[t] = Tail(@), !.ctl.idr = @ \cup {Head(s.ctl.segments[t])}]

\* Slip: what the full buffer refused is not put back.
AppendHeadFullWrong(s, t) ==
  IF ~s.sb[t].on \/ Updating(s.sb[t]) \/ s.ctl.segments[t] = <<>> THEN s
  ELSE IF Full(s, t)
  THEN [s EXCEPT !.ms = "open", !.ctl.full = TRUE, !.ctl.segments[t] = Tail(@)]
  ELSE [AppendBuffer(s, t, Head(s.ctl.segments[t])) EXCEPT !.ctl.segments[t] = Tail(@)]

\* _doAppendSegments for one track: the head of its queue, put back when the
\* buffer is full; the player hears of a full buffer once.
AppendHead(s, t) ==
  IF ~s.sb[t].on \/ Updating(s.sb[t]) \/ s.ctl.segments[t] = <<>> THEN s
  ELSE IF Full(s, t)
  THEN [s EXCEPT !.ms = "open", !.ctl.full = TRUE, !.feed.suspended = @ \/ ~s.ctl.full]
  ELSE LET segment == Head(s.ctl.segments[t])
           s1 == AppendBuffer(s, t, segment)
       IN [s1 EXCEPT !.ctl.segments[t] = Tail(@), !.ctl.full = FALSE,
                     !.ctl.idr = IF t = "video" /\ segment # InitSegment
                                 THEN AppendIdr(@, segment) ELSE @]

DoAppendSegments(s) == AppendHead(AppendHead(s, "video"), "audio")

\* _doRemoveRanges for one track: a removal makes the buffer busy.
RemoveHead(s, t) ==
  IF ~s.sb[t].on \/ Updating(s.sb[t]) \/ s.ctl.ranges[t] = <<>> THEN s
  ELSE [RemoveRange(s, t, Head(s.ctl.ranges[t])) EXCEPT !.ctl.ranges[t] = Tail(@)]

DoRemoveRanges(s) == RemoveHead(RemoveHead(s, "video"), "audio")

Push(s, t, segment) == [s EXCEPT !.ctl.segments[t] = Append(@, segment)]

\* appendInitSegment: the first makes the buffer and waits for what follows.
AppendInitSegment(s, t) ==
  IF s.ms # "open"
  THEN Push([s EXCEPT !.ctl.inits = Append(@, t)], t, InitSegment)
  ELSE LET s1 == Push([s EXCEPT !.sb[t].on = TRUE], t, InitSegment)
       IN IF ~s.sb[t].on \/ Updating(s.sb[t]) THEN s1 ELSE DoAppendSegments(s1)

\* _onSourceOpen: every init kept makes the buffer of its track; it is in
\* front of its queue already.  (A second one for a track finds the buffer
\* there and appends at once what is appended below in any case.)
OnSourceOpen(s) ==
  LET kept == {s.ctl.inits[i] : i \in DOMAIN s.ctl.inits}
      s1 == [s EXCEPT !.ms = "open", !.ctl.inits = <<>>,
                      !.sb = [t \in Types |-> [s.sb[t] EXCEPT !.on = s.sb[t].on \/ t \in kept]]]
  IN IF HasPendingSegments(s1) THEN DoAppendSegments(s1) ELSE s1

\* _needCleanupSourceBuffer
NeedCleanupSourceBuffer(s) ==
  \E t \in Types : s.sb[t].buf # {} /\ s.feed.head - Min(s.sb[t].buf) >= MaxBackward

\* _doCleanupSourceBuffer for one track: what lies well behind the play head.
CleanupTrack(s, t) ==
  LET old == {n \in s.sb[t].buf : n <= s.feed.head - MinBackward}
      s1  == [s EXCEPT !.ctl.ranges[t] = Append(@, old)]
  IN IF old = {} THEN s ELSE IF Updating(s.sb[t]) THEN s1 ELSE DoRemoveRanges(s1)

DoCleanupSourceBuffer(s) == CleanupTrack(CleanupTrack(s, "video"), "audio")

\* appendMediaSegment
AppendMediaSegment(s, t, segment) ==
  LET s1 == Push(s, t, segment)
      s2 == IF AutoCleanup /\ NeedCleanupSourceBuffer(s1) THEN DoCleanupSourceBuffer(s1) ELSE s1
  IN IF s2.sb[t].on /\ ~Updating(s2.sb[t]) /\ ~HasPendingRemoveRanges(s2)
     THEN DoAppendSegments(s2) ELSE s2

\* What waits is dropped, what the buffer holds is to go.
ClearTrack(s, t) ==
  [s EXCEPT
     !.ctl = [s.ctl EXCEPT !.idr = {}, !.segments[t] = <<>>,
                           !.ranges[t] = IF s.sb[t].buf = {} THEN s.ctl.ranges[t]
                                         ELSE Append(s.ctl.ranges[t], s.sb[t].buf)],
     !.feed = [s.feed EXCEPT !.given[t] = <<>>, !.done[t] = <<>>, !.base[t] = s.feed.next]]

\* seek for one track.
SeekTrack(s, t) ==
  LET s1 == ClearTrack(Abort(s, t), t)
  IN IF ~s.sb[t].on THEN s ELSE IF Updating(s1.sb[t]) THEN s1 ELSE DoRemoveRanges(s1)

\* endOfStream: put off while the source is closed or a buffer works.
EndOfStream(s) ==
  CASE s.ms # "open" ->
         IF s.ms = "closed" /\ HasPendingSegments(s) THEN [s EXCEPT !.ctl.eos = TRUE] ELSE s
    [] s.ms = "open" /\ (\E t \in Types : Updating(s.sb[t])) -> [s EXCEPT !.ctl.eos = TRUE]
    [] OTHER -> [s EXCEPT !.ctl.eos = FALSE, !.ms = "ended"]

\* Slip: segments go first, removals after them.
OnUpdateEndOrderWrong(s) ==
  IF HasPendingSegments(s) THEN DoAppendSegments(s)
  ELSE IF HasPendingRemoveRanges(s) THEN DoRemoveRanges(s)
  ELSE IF s.ctl.eos THEN EndOfStream(s)
  ELSE s

\* Slip: the end put off comes before the segments that wait.
OnUpdateEndEosWrong(s) ==
  IF HasPendingRemoveRanges(s) THEN DoRemoveRanges(s)
  ELSE IF s.ctl.eos THEN EndOfStream(s)
  ELSE IF HasPendingSegments(s) THEN DoAppendSegments(s)
  ELSE s

\* _onSourceBufferUpdateEnd
OnUpdateEnd(s) ==
  IF HasPendingRemoveRanges(s) THEN DoRemoveRanges(s)
  ELSE IF HasPendingSegments(s) THEN DoAppendSegments(s)
  ELSE IF s.ctl.eos THEN EndOfStream(s)
  ELSE s

---------------------------------------------------------------------------
(* What the player asks for. *)

Attached == ms # "gone"

\* Unless the page asks for it the player loads nothing before the source
\* is open, and nothing while a full buffer has it suspended.
MayFeed == Attached /\ (Defer => ms # "closed") /\ ~feed.suspended /\ ~feed.complete

SourceOpen == ms = "closed" /\ Become(OnSourceOpen(State))

MaxInits(t) == IF t \in Changing THEN 2 ELSE 1

\* A track begins with an initialization segment; another may follow when
\* the stream changes.  appendInitSegment does not look at the removals of a
\* seek, as appendMediaSegment does: a change of the stream is taken to come
\* apart from them.
Initialize(t) ==
  /\ MayFeed /\ feed.inits[t] < MaxInits(t)
  /\ feed.inits[t] > 0 => ~HasPendingRemoveRanges(State)
  /\ Become(AppendInitSegment([State EXCEPT !.feed.inits[t] = @ + 1,
                                            !.feed.given[t] = Append(@, InitSegment)], t))

Media(t) ==
  /\ MayFeed /\ feed.inits[t] > 0 /\ feed.next <= MaxSegments
  /\ t = "audio" => feed.next \in MaybeAudio
  /\ Become(AppendMediaSegment([State EXCEPT !.feed.next = @ + 1,
                                             !.feed.given[t] = Append(@, feed.next)], t, feed.next))

\* LOADING_COMPLETE
Complete ==
  /\ Attached /\ (Defer => ms # "closed") /\ ~feed.complete
  /\ \A t \in Types : feed.inits[t] > 0
  /\ Become(EndOfStream([State EXCEPT !.feed.complete = TRUE]))

\* The player seeks to a place that is not buffered and plays from there.
Seek ==
  /\ Attached /\ feed.seeks < MaxSeeks
  /\ Become(SeekTrack(SeekTrack([State EXCEPT !.feed.seeks = @ + 1, !.feed.complete = FALSE,
                                              !.feed.suspended = FALSE, !.feed.head = feed.next - 1],
                                "video"), "audio"))

\* detachMediaElement
Detach ==
  /\ Attached
  /\ ms' = "gone" /\ sb' = [t \in Types |-> NoBuffer] /\ ev' = [t \in Types |-> 0]
  /\ ctl' = [ctl EXCEPT !.segments = [t \in Types |-> <<>>], !.ranges = [t \in Types |-> <<>>],
                        !.inits = <<>>, !.full = FALSE, !.idr = {}]
  /\ feed' = [feed EXCEPT !.given = [t \in Types |-> <<>>], !.done = [t \in Types |-> <<>>]]

---------------------------------------------------------------------------
(* What the browser does. *)

Buffered == sb["video"].buf \cup sb["audio"].buf

\* A buffer ends its work; the event comes later.
Finish(t) ==
  /\ Updating(sb[t])
  /\ LET b == sb[t] IN
     /\ sb' = [sb EXCEPT ![t] =
                 [b EXCEPT !.job = "none", !.data = NoData,
                           !.buf = CASE b.job = "remove" -> b.buf \ b.data
                                     [] b.job = "append" /\ b.data = InitSegment -> b.buf
                                     [] OTHER -> b.buf \cup {b.data}]]
     /\ feed' = IF b.job = "append" THEN [feed EXCEPT !.done[t] = Append(@, b.data)] ELSE feed
  /\ ev' = [ev EXCEPT ![t] = @ + 1]
  /\ UNCHANGED <<ms, ctl>>

UpdateEnd(t) ==
  /\ ev[t] > 0
  /\ Become(OnUpdateEnd([State EXCEPT !.ev[t] = @ - 1]))

\* The play head moves into the next segment.
Play ==
  /\ feed.head + 1 \in Buffered
  /\ feed' = [feed EXCEPT !.head = @ + 1]
  /\ UNCHANGED <<ms, sb, ev, ctl>>

\* The player goes on loading when it has played what it has.
Resume ==
  /\ feed.suspended /\ feed.head + 1 \notin Buffered
  /\ feed' = [feed EXCEPT !.suspended = FALSE]
  /\ UNCHANGED <<ms, sb, ev, ctl>>

\* The constructor.
NewController ==
  [segments |-> [t \in Types |-> <<>>], ranges |-> [t \in Types |-> <<>>],
   inits |-> <<>>, eos |-> FALSE, full |-> FALSE, idr |-> {}]

\* attachMediaElement: the source is not open yet.
Init ==
  /\ ms = "closed"
  /\ sb = [t \in Types |-> NoBuffer]
  /\ ev = [t \in Types |-> 0]
  /\ ctl = NewController
  /\ feed = [next |-> 1, head |-> 0, base |-> [t \in Types |-> 1],
             given |-> [t \in Types |-> <<>>], done |-> [t \in Types |-> <<>>],
             inits |-> [t \in Types |-> 0],
             seeks |-> 0, complete |-> FALSE, suspended |-> FALSE]

Next ==
  \/ SourceOpen
  \/ \E t \in Types : Initialize(t) \/ Media(t) \/ Finish(t) \/ UpdateEnd(t)
  \/ Complete \/ Seek \/ Detach
  \/ Play \/ Resume

Spec == Init /\ [][Next]_vars

---------------------------------------------------------------------------
(* Properties. *)

Segments == 0..MaxSegments

TypeOK ==
  /\ ms \in {"closed", "open", "ended", "gone"}
  /\ \A t \in Types :
       /\ sb[t].on \in BOOLEAN /\ sb[t].buf \subseteq 1..MaxSegments
       /\ sb[t].job \in {"none", "append", "remove"}
       /\ sb[t].job = "append" => sb[t].data \in Segments
       /\ sb[t].job = "remove" => sb[t].data \subseteq 1..MaxSegments
       /\ ~sb[t].on => ~Updating(sb[t]) /\ sb[t].buf = {}
       /\ ev[t] \in Nat
       /\ ctl.segments[t] \in Seq(Segments) /\ ctl.ranges[t] \in Seq(SUBSET (1..MaxSegments))
       /\ {feed.given[t], feed.done[t]} \subseteq Seq(Segments)
       /\ feed.base[t] \in 1..(MaxSegments + 1) /\ feed.inits[t] \in 0..MaxInits(t)
  /\ ctl.inits \in Seq(Types) /\ {ctl.eos, ctl.full} \subseteq BOOLEAN
  /\ ctl.idr \subseteq 1..MaxSegments
  /\ feed.next \in 1..(MaxSegments + 1) /\ feed.head \in 0..MaxSegments
  /\ feed.seeks \in 0..MaxSeeks /\ {feed.complete, feed.suspended} \subseteq BOOLEAN

InWork(t) == IF sb[t].job = "append" THEN <<sb[t].data>> ELSE <<>>

(* What was handed to the controller for a track since the seek that last
   cleared the track is what its buffer took, what it takes now and what
   waits, in that order: whatever is full, busy, closed or put back, no
   segment is lost, doubled or overtaken.                                  *)
NothingLost ==
  \A t \in Types : feed.given[t] = feed.done[t] \o InWork(t) \o ctl.segments[t]

(* After a seek the old and the new do not mix: when a buffer takes or holds
   a segment of after the seek, all it held before is gone, and keyframes to
   seek to are of after the seek.  (A seek that comes before a track has a
   buffer clears nothing of it.)                                           *)
StaleGone ==
  /\ \A t \in Types :
       LET held == sb[t].buf \cup {n \in Segments \ {InitSegment} : InWork(t) = <<n>>} IN
       (\E n \in held : n >= feed.base[t]) => \A n \in held : n >= feed.base[t]
  /\ \A n \in ctl.idr : n >= feed.base["video"]

(* No updateend is missed: while a segment waits for a buffer that is there,
   some buffer works or its event is on the way, and that event's handler
   goes on with what waits; unless a buffer is full.  Only an initialization
   segment may wait for the media behind it.                               *)
Waits(t) == sb[t].on /\ \E i \in DOMAIN ctl.segments[t] : ctl.segments[t][i] # InitSegment

WakeupComing ==
  (\E t \in Types : Waits(t) \/ ctl.ranges[t] # <<>>) =>
    ctl.full \/ \E t \in Types : Updating(sb[t]) \/ ev[t] > 0
=============================================================================
