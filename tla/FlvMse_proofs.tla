--------------------------- MODULE FlvMse_proofs ---------------------------
(***************************************************************************)
(* Proofs about FlvMse: its type invariant, that no segment is lost, that  *)
(* the old and the new do not mix after a seek, and that what waits is     *)
(* woken up, for any number of segments and seeks, buffers of any size and *)
(* any distances of the clean-up.                                          *)
(***************************************************************************)
EXTENDS FlvMse, TLAPS, SequenceTheorems, FiniteSetTheorems

(* Types, of a state as a record.                                          *)

Numbers == 1..MaxSegments

SbType ==
  [on : BOOLEAN, job : {"none", "append", "remove"},
   data : Segments \cup {NoData} \cup SUBSET Numbers, buf : SUBSET Numbers]

CtlType ==
  [segments : [Types -> Seq(Segments)], ranges : [Types -> Seq(SUBSET Numbers)],
   inits : Seq(Types), eos : BOOLEAN, full : BOOLEAN, idr : SUBSET Numbers]

FeedType ==
  [next : 1..(MaxSegments + 1), head : 0..MaxSegments, base : [Types -> 1..(MaxSegments + 1)],
   given : [Types -> Seq(Segments)], done : [Types -> Seq(Segments)], inits : [Types -> 0..2],
   seeks : 0..MaxSeeks, complete : BOOLEAN, suspended : BOOLEAN]

StateType ==
  [ms : {"closed", "open", "ended", "gone"}, sb : [Types -> SbType], ev : [Types -> Nat],
   ctl : CtlType, feed : FeedType]

(* The inductive invariant, track by track.                                *)

Working(b) == IF b.job = "append" THEN <<b.data>> ELSE <<>>

(* Nothing is lost on the way to the buffer.                               *)
Lossless(s, t) ==
  s.feed.given[t] = s.feed.done[t] \o Working(s.sb[t]) \o s.ctl.segments[t]

(* A buffer works only in an open source, and only if it is there.         *)
BufferOk(s, t) ==
  /\ s.sb[t].job = "append" => s.sb[t].data \in Segments
  /\ s.sb[t].job = "remove" => s.sb[t].data \subseteq Numbers
  /\ ~s.sb[t].on => s.sb[t].job = "none" /\ s.sb[t].buf = {} /\ s.ctl.ranges[t] = <<>>
  /\ s.sb[t].job # "none" => s.ms = "open"

(* What the buffer holds of before the last seek is about to go, by a      *)
(* range kept or by the removal at work, and nothing newer comes before    *)
(* it is gone; what waits is of after the seek.                            *)
Old(s, t) == {n \in s.sb[t].buf : n < s.feed.base[t]}

AfterSeek(s, t, n) == n # InitSegment => s.feed.base[t] <= n

Fresh(s, t) ==
  /\ s.feed.base[t] <= s.feed.next
  /\ \A n \in s.sb[t].buf : n < s.feed.next
  /\ \A i \in DOMAIN s.ctl.segments[t] :
       s.ctl.segments[t][i] < s.feed.next /\ AfterSeek(s, t, s.ctl.segments[t][i])
  /\ s.sb[t].job = "append" =>
       s.sb[t].data < s.feed.next /\ AfterSeek(s, t, s.sb[t].data)
  /\ \/ Old(s, t) = {}
     \/ /\ Old(s, t) = s.sb[t].buf
        /\ s.sb[t].job # "append"
        /\ \/ \E i \in DOMAIN s.ctl.ranges[t] : Old(s, t) \subseteq s.ctl.ranges[t][i]
           \/ s.sb[t].job = "remove" /\ Old(s, t) \subseteq s.sb[t].data

(* A track whose first initialization segment came has its buffer once the *)
(* source is open; the end is asked for when both have.                    *)
Opened(s, t) ==
  /\ s.sb[t].on => s.ms \in {"open", "ended"} /\ s.feed.inits[t] > 0
  /\ s.ms \in {"open", "ended"} /\ s.feed.inits[t] > 0 => s.sb[t].on
  /\ s.ms = "closed" =>
       (s.feed.inits[t] > 0 <=> \E i \in DOMAIN s.ctl.inits : s.ctl.inits[i] = t)
  /\ s.ctl.segments[t] # <<>> => s.feed.inits[t] > 0
  /\ s.ms = "ended" \/ s.ctl.eos => s.feed.inits[t] > 0

TrackOk(s, t) == Lossless(s, t) /\ BufferOk(s, t) /\ Fresh(s, t) /\ Opened(s, t)

IdrFresh(s) == \A n \in s.ctl.idr : n >= s.feed.base["video"]

Ok(s) ==
  /\ s \in StateType
  /\ \A t \in Types : TrackOk(s, t) /\ s.feed.inits[t] <= MaxInits(t)
  /\ IdrFresh(s)

(* What waits is woken up.                                                 *)

Stirring(s) == s.ctl.full \/ \E t \in Types : Updating(s.sb[t])

Alert(s) == Stirring(s) \/ \E t \in Types : s.ev[t] > 0

Awaits(s, t) ==
  s.sb[t].on /\ \E i \in DOMAIN s.ctl.segments[t] : s.ctl.segments[t][i] # InitSegment

Awake(s) ==
  (\E t \in Types : Awaits(s, t) \/ s.ctl.ranges[t] # <<>>)
    => Alert(s)

LEMMA StateFields ==
  ASSUME NEW s \in StateType
  PROVE  /\ s.ms \in {"closed", "open", "ended", "gone"}
         /\ s.sb \in [Types -> SbType] /\ s.ev \in [Types -> Nat]
         /\ s.ctl \in CtlType /\ s.feed \in FeedType
         /\ s.ctl.segments \in [Types -> Seq(Segments)]
         /\ s.ctl.ranges \in [Types -> Seq(SUBSET Numbers)]
         /\ s.ctl.inits \in Seq(Types) /\ s.ctl.idr \in SUBSET Numbers
         /\ s.ctl.full \in BOOLEAN /\ s.ctl.eos \in BOOLEAN
         /\ s.feed.next \in 1..(MaxSegments + 1) /\ s.feed.head \in 0..MaxSegments
         /\ s.feed.base \in [Types -> 1..(MaxSegments + 1)]
         /\ s.feed.given \in [Types -> Seq(Segments)]
         /\ s.feed.done \in [Types -> Seq(Segments)]
         /\ s.feed.inits \in [Types -> 0..2]
         /\ s.feed.seeks \in 0..MaxSeeks
         /\ s.feed.complete \in BOOLEAN /\ s.feed.suspended \in BOOLEAN
BY DEF StateType, CtlType, FeedType

LEMMA BufferFields ==
  ASSUME NEW s \in StateType, NEW t \in Types
  PROVE  /\ s.sb[t] \in SbType /\ s.sb[t].on \in BOOLEAN
         /\ s.sb[t].job \in {"none", "append", "remove"}
         /\ s.sb[t].buf \in SUBSET Numbers /\ s.ev[t] \in Nat
         /\ s.ctl.segments[t] \in Seq(Segments) /\ s.ctl.ranges[t] \in Seq(SUBSET Numbers)
         /\ s.feed.base[t] \in 1..(MaxSegments + 1) /\ s.feed.inits[t] \in 0..2
         /\ s.feed.given[t] \in Seq(Segments) /\ s.feed.done[t] \in Seq(Segments)
         /\ s.feed.base[t] \in Nat /\ s.feed.next \in Nat /\ s.sb[t].buf \subseteq Nat
<1>1. s.sb[t] \in SbType
  BY StateFields
<1>2. s.sb[t].on \in BOOLEAN /\ s.sb[t].job \in {"none", "append", "remove"}
      /\ s.sb[t].buf \in SUBSET Numbers
  BY <1>1 DEF SbType
<1>3. s.feed.base[t] \in 1..(MaxSegments + 1) /\ s.feed.next \in 1..(MaxSegments + 1)
  BY StateFields
<1>4. s.feed.base[t] \in Nat /\ s.feed.next \in Nat /\ s.sb[t].buf \subseteq Nat
  BY <1>2, <1>3, BoundsAssumption DEF Numbers
<1>5. QED BY <1>1, <1>2, <1>3, <1>4, StateFields

LEMMA Becomes ==
  ASSUME NEW s \in StateType, Become(s)
  PROVE  State' = s
BY DEF Become, State, StateType

LEMMA EmptyDomain == DOMAIN <<>> = {}
OBVIOUS

LEMMA AppendMembers ==
  ASSUME NEW S, NEW q \in Seq(S), NEW e, NEW x
  PROVE  (\E i \in DOMAIN Append(q, e) : Append(q, e)[i] = x) <=> (x = e \/ \E i \in DOMAIN q : q[i] = x)
<1>1. /\ DOMAIN Append(q, e) = 1..(Len(q) + 1) /\ DOMAIN q = 1..Len(q) /\ Len(q) \in Nat
      /\ Append(q, e)[Len(q) + 1] = e
      /\ \A i \in 1..Len(q) : Append(q, e)[i] = q[i]
  OBVIOUS
<1>2. QED BY <1>1

LEMMA Numbering == MaxSegments \in Nat \ {0} /\ Segments = 0..MaxSegments /\ InitSegment = 0
BY BoundsAssumption DEF Segments, InitSegment

(* How the operators write to the state.                                   *)

LEMMA WithCtl ==
  ASSUME NEW s \in StateType, NEW y \in CtlType
  PROVE  LET x == [s EXCEPT !.ctl = y] IN
         /\ x \in StateType /\ x.ms = s.ms /\ x.sb = s.sb /\ x.ev = s.ev /\ x.feed = s.feed
         /\ x.ctl = y
BY DEF StateType

LEMMA WithFeed ==
  ASSUME NEW s \in StateType, NEW y \in FeedType
  PROVE  LET x == [s EXCEPT !.feed = y] IN
         /\ x \in StateType /\ x.ms = s.ms /\ x.sb = s.sb /\ x.ev = s.ev /\ x.ctl = s.ctl
         /\ x.feed = y
BY DEF StateType

LEMMA AppendBufferFields ==
  ASSUME NEW s \in StateType, NEW t \in Types, NEW segment \in Segments
  PROVE  LET x == AppendBuffer(s, t, segment) IN
         /\ x \in StateType /\ x.ms = "open" /\ x.ev = s.ev /\ x.ctl = s.ctl /\ x.feed = s.feed
         /\ x.sb[t].on = s.sb[t].on /\ x.sb[t].job = "append" /\ x.sb[t].data = segment
         /\ x.sb[t].buf \subseteq s.sb[t].buf
         /\ \A q \in Types \ {t} : x.sb[q] = s.sb[q]
<1> DEFINE kept == IF Cardinality(s.sb[t].buf) < Quota THEN s.sb[t].buf
                   ELSE {n \in s.sb[t].buf : n > s.feed.head}
           x == [s EXCEPT !.ms = "open", !.sb[t].job = "append",
                          !.sb[t].data = segment, !.sb[t].buf = kept]
           b == [s.sb[t] EXCEPT !.job = "append", !.data = segment, !.buf = kept]
<1>1. s.sb[t] \in SbType /\ kept \subseteq s.sb[t].buf /\ s.sb[t].buf \subseteq Numbers
  BY BufferFields
<1> HIDE DEF kept
<1>2. x.ms = "open" /\ x.ev = s.ev /\ x.ctl = s.ctl /\ x.feed = s.feed
  BY DEF StateType
<1>3. x.sb = [s.sb EXCEPT ![t] = b]
  BY StateFields DEF StateType, SbType
<1>4. b \in SbType /\ b.on = s.sb[t].on /\ b.job = "append" /\ b.data = segment /\ b.buf = kept
  BY <1>1 DEF SbType
<1> HIDE DEF b, x
<1>5. x.sb \in [Types -> SbType] /\ x.sb[t] = b /\ \A q \in Types \ {t} : x.sb[q] = s.sb[q]
  BY <1>3, <1>4, StateFields
<1>6. x \in StateType
  BY <1>2, <1>5, StateFields DEF StateType, x
<1>7. AppendBuffer(s, t, segment) = x
  BY DEF AppendBuffer, kept, x
<1>8. QED BY <1>1, <1>2, <1>4, <1>5, <1>6, <1>7



-----------------------------------------------------------------------------
(* What is done for one track leaves the other alone; at most it opens a   *)
(* source that had ended.                                                  *)

SameQueue(s, u, q) ==
  /\ u.sb[q] = s.sb[q] /\ u.ctl.segments[q] = s.ctl.segments[q]
  /\ u.ctl.ranges[q] = s.ctl.ranges[q]
  /\ u.feed.next \in Nat /\ s.feed.next <= u.feed.next /\ u.feed.base[q] = s.feed.base[q]
  /\ u.feed.given[q] = s.feed.given[q] /\ u.feed.done[q] = s.feed.done[q]

SameSource(s, u) == u.ms = s.ms \/ (u.ms = "open" /\ s.ms = "ended")

SameTrack(s, u, q) ==
  /\ SameQueue(s, u, q)
  /\ u.ctl.inits = s.ctl.inits /\ u.ctl.eos = s.ctl.eos
  /\ u.feed.inits[q] = s.feed.inits[q]

LEMMA QueueFrame ==
  ASSUME NEW s, s \in StateType, NEW u, NEW q \in Types,
         Lossless(s, q), BufferOk(s, q), Fresh(s, q), SameQueue(s, u, q), SameSource(s, u)
  PROVE  Lossless(u, q) /\ BufferOk(u, q) /\ Fresh(u, q)
<1>1. Lossless(u, q)
  BY DEF Lossless, SameQueue
<1>2. BufferOk(u, q)
  BY DEF BufferOk, SameQueue, SameSource
<1>3. Fresh(u, q)
  <2>1. /\ s.feed.base[q] \in Nat /\ s.feed.next \in Nat /\ s.sb[q].buf \subseteq Nat
        /\ s.ctl.segments[q] \in Seq(Segments)
    BY BufferFields
  <2> Segments \subseteq Int
    BY Numbering
  <2>2. \A i \in DOMAIN s.ctl.segments[q] : s.ctl.segments[q][i] \in Int
    <3>1. \A i \in DOMAIN s.ctl.segments[q] : s.ctl.segments[q][i] \in Segments
      BY <2>1
    <3>2. QED BY <3>1
  <2>3. s.sb[q].job = "append" => s.sb[q].data \in Int
    BY <2>1 DEF BufferOk
  <2>4. \A i \in Int : i < s.feed.next => i < u.feed.next
    BY <2>1 DEF SameQueue
  <2>5. s.feed.base[q] <= u.feed.next
    BY <2>1 DEF SameQueue, Fresh
  <2>6. Old(u, q) = Old(s, q)
    BY DEF Old, SameQueue
  <2>7. \A n \in u.sb[q].buf : n < u.feed.next
    BY <2>1, <2>4 DEF SameQueue, Fresh
  <2>8. \A i \in DOMAIN u.ctl.segments[q] :
          u.ctl.segments[q][i] < u.feed.next /\ AfterSeek(u, q, u.ctl.segments[q][i])
    BY <2>2, <2>4 DEF SameQueue, Fresh, AfterSeek
  <2>9. u.sb[q].job = "append" => u.sb[q].data < u.feed.next /\ AfterSeek(u, q, u.sb[q].data)
    BY <2>3, <2>4 DEF SameQueue, Fresh, AfterSeek
  <2>10. QED BY <2>5, <2>6, <2>7, <2>8, <2>9 DEF SameQueue, Fresh
<1>4. QED BY <1>1, <1>2, <1>3

LEMMA TrackFrame ==
  ASSUME NEW s, s \in StateType, NEW u, NEW q \in Types,
         TrackOk(s, q), SameTrack(s, u, q), SameSource(s, u)
  PROVE  TrackOk(u, q)
<1>1. Lossless(u, q) /\ BufferOk(u, q) /\ Fresh(u, q)
  BY QueueFrame DEF TrackOk, SameTrack
<1>2. Opened(u, q)
  BY DEF TrackOk, Opened, SameTrack, SameQueue, SameSource
<1>3. QED BY <1>1, <1>2 DEF TrackOk

(* A step that leaves both tracks alone.                                   *)
LEMMA BothFrame ==
  ASSUME NEW s, Ok(s), NEW u, u \in StateType, SameSource(s, u),
         \A q \in Types : SameTrack(s, u, q), u.ctl.idr = s.ctl.idr
  PROVE  Ok(u)
<1>1. \A q \in Types : TrackOk(u, q)
  BY TrackFrame DEF Ok
<1>2. \A q \in Types : u.feed.inits[q] <= MaxInits(q)
  BY DEF Ok, SameTrack
<1>3. IdrFresh(u)
  BY DEF Ok, IdrFresh, SameTrack, SameQueue, Types
<1>4. QED BY <1>1, <1>2, <1>3 DEF Ok

-----------------------------------------------------------------------------
(* _doAppendSegments.                                                      *)

NoRanges(s) == ~HasPendingRemoveRanges(s)

(* The head of a queue goes to work.                                       *)
LEMMA TakenUp ==
  ASSUME NEW s, Ok(s), NoRanges(s), NEW t \in Types,
         s.sb[t].on, ~Updating(s.sb[t]), s.ctl.segments[t] # <<>>,
         NEW u \in StateType, u.ms = "open", u.ctl.eos = s.ctl.eos,
         u.sb[t].on, u.sb[t].job = "append", u.sb[t].data = Head(s.ctl.segments[t]),
         u.sb[t].buf \subseteq s.sb[t].buf,
         u.ctl.segments[t] = Tail(s.ctl.segments[t]),
         u.ctl.ranges[t] = s.ctl.ranges[t], u.feed = s.feed
  PROVE  TrackOk(u, t)
<1> DEFINE h == Head(s.ctl.segments[t])
<1>1. /\ s \in StateType /\ TrackOk(s, t) /\ s.ctl.segments[t] \in Seq(Segments)
      /\ s.feed.done[t] \in Seq(Segments) /\ s.feed.base[t] \in Nat /\ s.feed.next \in Nat
      /\ s.sb[t].buf \subseteq Nat
  BY BufferFields DEF Ok
<1>2. s.sb[t].job = "none" /\ s.ctl.ranges[t] = <<>>
  BY DEF Updating, NoRanges, HasPendingRemoveRanges
<1>3. /\ h \in Segments /\ Tail(s.ctl.segments[t]) \in Seq(Segments)
      /\ h = s.ctl.segments[t][1] /\ 1 \in DOMAIN s.ctl.segments[t]
      /\ s.ctl.segments[t] = <<h>> \o Tail(s.ctl.segments[t])
      /\ \A i \in DOMAIN Tail(s.ctl.segments[t]) :
           i + 1 \in DOMAIN s.ctl.segments[t] /\ Tail(s.ctl.segments[t])[i] = s.ctl.segments[t][i + 1]
  BY <1>1
<1> HIDE DEF h
<1>4. Lossless(u, t)
  <2>1. s.feed.given[t] = s.feed.done[t] \o <<>> \o s.ctl.segments[t]
    BY <1>1, <1>2 DEF TrackOk, Lossless, Working
  <2>2. s.feed.done[t] \o <<>> = s.feed.done[t]
    BY <1>1
  <2>3. <<h>> \in Seq(Segments)
    BY <1>3
  <2>4. s.feed.done[t] \o (<<h>> \o Tail(s.ctl.segments[t]))
          = (s.feed.done[t] \o <<h>>) \o Tail(s.ctl.segments[t])
    <3> DEFINE a == s.feed.done[t]
               c == Tail(s.ctl.segments[t])
               w == <<h>>
    <3>1. a \in Seq(Segments) /\ w \in Seq(Segments) /\ c \in Seq(Segments)
      BY <1>1, <1>3, <2>3
    <3> HIDE DEF a, c, w
    <3>2. (a \o w) \o c = a \o (w \o c)
      BY ONLY <3>1, ConcatAssociative
    <3>3. QED BY <3>2 DEF a, c, w
  <2>5. s.feed.given[t] = s.feed.done[t] \o <<h>> \o Tail(s.ctl.segments[t])
    BY <1>3, <2>1, <2>2, <2>4
  <2>6. u.sb[t].job = "append" /\ u.sb[t].data = h
    BY DEF h
  <2>7. QED BY <2>5, <2>6 DEF Lossless, Working
<1>5. BufferOk(u, t)
  BY <1>3 DEF BufferOk, h
<1>6. Fresh(u, t)
  <2>1. Old(s, t) = {}
    BY <1>1, <1>2 DEF TrackOk, Fresh
  <2>2. Old(u, t) = {}
    BY <2>1 DEF Old
  <2>3. h < s.feed.next /\ AfterSeek(s, t, h)
    BY <1>1, <1>3 DEF TrackOk, Fresh
  <2>4. \A i \in DOMAIN Tail(s.ctl.segments[t]) :
          /\ Tail(s.ctl.segments[t])[i] < s.feed.next
          /\ AfterSeek(s, t, Tail(s.ctl.segments[t])[i])
    BY <1>1, <1>3 DEF TrackOk, Fresh
  <2>5. \A n : AfterSeek(u, t, n) <=> AfterSeek(s, t, n)
    BY DEF AfterSeek
  <2>6. s.feed.base[t] <= s.feed.next /\ \A n \in u.sb[t].buf : n < s.feed.next
    BY <1>1 DEF TrackOk, Fresh
  <2>7. QED BY <2>2, <2>3, <2>4, <2>5, <2>6 DEF Fresh, h
<1>7. Opened(u, t)
  BY <1>1 DEF TrackOk, Opened
<1>8. QED BY <1>4, <1>5, <1>6, <1>7 DEF TrackOk

(* Two tracks in a row: what was done for the one holds for the other.     *)
LEMMA AppendHeadOk ==
  ASSUME NEW s, Ok(s), NoRanges(s), NEW t \in Types
  PROVE  /\ Ok(AppendHead(s, t)) /\ NoRanges(AppendHead(s, t))
         /\ Stirring(s) => Stirring(AppendHead(s, t))
         /\ s.sb[t].on /\ s.ctl.segments[t] # <<>> => Stirring(AppendHead(s, t))
         /\ \A q \in Types \ {t} : /\ AppendHead(s, t).sb[q] = s.sb[q]
                                   /\ AppendHead(s, t).ctl.segments[q] = s.ctl.segments[q]
         /\ AppendHead(s, t).sb[t].on = s.sb[t].on
         /\ s.ctl.segments[t] = <<>> => AppendHead(s, t).ctl.segments[t] = <<>>
         /\ AppendHead(s, t).ev = s.ev
<1> DEFINE u == AppendHead(s, t)
<1>0. s \in StateType /\ TrackOk(s, t)
  BY DEF Ok
<1>1. CASE ~s.sb[t].on \/ Updating(s.sb[t]) \/ s.ctl.segments[t] = <<>>
  <2>1. u = s
    BY <1>1 DEF AppendHead
  <2>2. Updating(s.sb[t]) => Stirring(s)
    BY DEF Stirring
  <2>3. QED BY <1>1, <2>1, <2>2
<1>2. CASE ~(~s.sb[t].on \/ Updating(s.sb[t]) \/ s.ctl.segments[t] = <<>>) /\ Full(s, t)
  <2> DEFINE x == [s EXCEPT !.ms = "open", !.ctl.full = TRUE,
                            !.feed.suspended = @ \/ ~s.ctl.full]
  <2>1. u = x
    BY <1>2 DEF AppendHead
  <2>2. /\ x.ms = "open" /\ x.sb = s.sb /\ x.ev = s.ev
        /\ x.ctl = [s.ctl EXCEPT !.full = TRUE]
        /\ x.feed = [s.feed EXCEPT !.suspended = @ \/ ~s.ctl.full]
    BY <1>0, StateFields DEF StateType
  <2>3. x \in StateType
    BY <1>0, <2>2, StateFields DEF StateType, CtlType, FeedType
  <2> HIDE DEF x
  <2>4. /\ x.ctl.full = TRUE /\ x.ctl.segments = s.ctl.segments /\ x.ctl.ranges = s.ctl.ranges
        /\ x.ctl.inits = s.ctl.inits /\ x.ctl.eos = s.ctl.eos /\ x.ctl.idr = s.ctl.idr
        /\ x.feed.next = s.feed.next /\ x.feed.base = s.feed.base /\ x.feed.given = s.feed.given
        /\ x.feed.done = s.feed.done /\ x.feed.inits = s.feed.inits
    BY <1>0, <2>2, StateFields DEF CtlType, FeedType
  <2>5. SameSource(s, x)
    BY <1>0, <1>2, <2>2 DEF SameSource, TrackOk, Opened
  <2>6. s.feed.next \in Nat
    BY <1>0, BufferFields
  <2>7. \A q \in Types : SameTrack(s, x, q)
    BY <2>2, <2>4, <2>6 DEF SameTrack, SameQueue
  <2>8. Ok(x)
    BY <2>3, <2>4, <2>5, <2>7, BothFrame
  <2>9. NoRanges(x) /\ Stirring(x)
    BY <2>4 DEF NoRanges, HasPendingRemoveRanges, Stirring
  <2>10. QED BY <2>1, <2>2, <2>4, <2>8, <2>9
<1>3. CASE ~(~s.sb[t].on \/ Updating(s.sb[t]) \/ s.ctl.segments[t] = <<>>) /\ ~Full(s, t)
  <2> DEFINE segment == Head(s.ctl.segments[t])
             rest == Tail(s.ctl.segments[t])
             s1 == AppendBuffer(s, t, segment)
             idr == IF t = "video" /\ segment # InitSegment
                    THEN AppendIdr(s.ctl.idr, segment) ELSE s.ctl.idr
             y == [s.ctl EXCEPT !.segments[t] = rest, !.full = FALSE, !.idr = idr]
             x == [s1 EXCEPT !.ctl = y]
  <2>2. /\ s.sb[t] \in SbType /\ s.ctl.segments[t] \in Seq(Segments) /\ s.sb[t].on = TRUE
        /\ s.sb[t].job = "none" /\ s.ctl.segments[t] # <<>>
    BY <1>0, <1>3, BufferFields DEF Updating
  <2>3. segment \in Segments /\ rest \in Seq(Segments)
    BY <2>2
  <2>4. /\ s1 \in StateType /\ s1.ms = "open" /\ s1.ev = s.ev /\ s1.ctl = s.ctl /\ s1.feed = s.feed
        /\ s1.sb[t].on = s.sb[t].on /\ s1.sb[t].job = "append" /\ s1.sb[t].data = segment
        /\ s1.sb[t].buf \subseteq s.sb[t].buf
        /\ \A q \in Types \ {t} : s1.sb[q] = s.sb[q]
    BY <1>0, <2>3, AppendBufferFields
  <2>6. idr \in SUBSET Numbers
        /\ \A n \in idr : n \in s.ctl.idr \/ (n = segment /\ t = "video" /\ segment # InitSegment)
    <3>1. s.ctl.idr \in SUBSET Numbers
      BY <1>0, StateFields
    <3>2. segment # InitSegment => segment \in Numbers
      BY <2>3, Numbering DEF Numbers
    <3>3. AppendIdr(s.ctl.idr, segment) \subseteq s.ctl.idr \cup {segment}
      BY DEF AppendIdr
    <3>4. QED BY <3>1, <3>2, <3>3
  <2>7. u = x
    <3>1. u = [s1 EXCEPT !.ctl.segments[t] = Tail(@), !.ctl.full = FALSE,
                         !.ctl.idr = IF t = "video" /\ segment # InitSegment
                                     THEN AppendIdr(@, segment) ELSE @]
      BY <1>3 DEF AppendHead
    <3> HIDE DEF s1, segment
    <3>2. u = [s1 EXCEPT !.ctl = [s1.ctl EXCEPT !.segments[t] = Tail(@), !.full = FALSE,
                         !.idr = IF t = "video" /\ segment # InitSegment
                                 THEN AppendIdr(@, segment) ELSE @]]
      BY <2>4, <3>1, StateFields DEF StateType
    <3>3. [s1.ctl EXCEPT !.segments[t] = Tail(@), !.full = FALSE,
                         !.idr = IF t = "video" /\ segment # InitSegment
                                 THEN AppendIdr(@, segment) ELSE @] = y
      BY <1>0, <2>4, StateFields DEF CtlType
    <3>4. QED BY <3>2, <3>3
  <2> HIDE DEF s1, segment, rest, idr
  <2>8. /\ y \in CtlType /\ y.segments = [s.ctl.segments EXCEPT ![t] = rest] /\ y.full = FALSE
        /\ y.idr = idr /\ y.eos = s.ctl.eos /\ y.ranges = s.ctl.ranges /\ y.inits = s.ctl.inits
    <3>1. s.ctl \in CtlType
      BY <1>0, StateFields
    <3>2. QED BY <2>3, <2>6, <3>1 DEF CtlType
  <2> HIDE DEF y
  <2>9. /\ x \in StateType /\ x.ms = "open" /\ x.sb = s1.sb /\ x.ev = s.ev /\ x.feed = s.feed
        /\ x.ctl = y
    BY <2>4, <2>8, WithCtl
  <2> HIDE DEF x
  <2>10. /\ x.ctl.segments = [s.ctl.segments EXCEPT ![t] = rest]
         /\ x.ctl.ranges = s.ctl.ranges /\ x.ctl.inits = s.ctl.inits /\ x.ctl.eos = s.ctl.eos
         /\ x.ctl.idr = idr /\ x.ctl.full = FALSE
    BY <2>8, <2>9
  <2>11. x \in StateType
    BY <2>9
  <2>12. /\ x.sb[t].on = TRUE /\ x.sb[t].job = "append" /\ x.sb[t].data = segment
         /\ x.sb[t].buf \subseteq s.sb[t].buf /\ x.ctl.segments[t] = rest
         /\ \A q \in Types \ {t} : x.sb[q] = s.sb[q] /\ x.ctl.segments[q] = s.ctl.segments[q]
    BY <1>0, <2>2, <2>4, <2>9, <2>10, StateFields
  <2>13. TrackOk(x, t)
    BY <2>2, <2>9, <2>10, <2>11, <2>12, TakenUp DEF Updating, segment, rest
  <2>14. SameSource(s, x)
    BY <1>0, <2>2, <2>9 DEF SameSource, TrackOk, Opened
  <2>15. \A q \in Types \ {t} : TrackOk(x, q)
    <3>1. \A q \in Types \ {t} : SameTrack(s, x, q)
      BY <1>0, <2>9, <2>10, <2>12, BufferFields DEF SameTrack, SameQueue
    <3>2. QED BY <1>0, <2>14, <3>1, TrackFrame DEF Ok
  <2>16. IdrFresh(x)
    <3>1. t = "video" /\ segment # InitSegment => segment >= s.feed.base[t]
      <4>1. segment = s.ctl.segments[t][1] /\ 1 \in DOMAIN s.ctl.segments[t]
        BY <2>2 DEF segment
      <4>2. AfterSeek(s, t, segment)
        BY <1>0, <4>1 DEF TrackOk, Fresh
      <4>3. segment \in Int /\ s.feed.base[t] \in Int
        BY <1>0, <2>3, BufferFields, Numbering
      <4>4. QED BY <4>2, <4>3 DEF AfterSeek
    <3>2. QED BY <2>6, <2>9, <2>10, <3>1 DEF Ok, IdrFresh
  <2>17. Ok(x)
    BY <2>9, <2>11, <2>13, <2>15, <2>16 DEF Ok
  <2>18. NoRanges(x) /\ Stirring(x)
    BY <2>10, <2>12 DEF NoRanges, HasPendingRemoveRanges, Stirring, Updating
  <2>19. QED BY <2>2, <2>7, <2>9, <2>12, <2>17, <2>18
<1>4. QED BY <1>1, <1>2, <1>3

(* Afterwards nothing waits for a buffer that is there unless one is       *)
(* stirring.                                                               *)
LEMMA DoAppendSegmentsOk ==
  ASSUME NEW s, Ok(s), NoRanges(s)
  PROVE  Ok(DoAppendSegments(s)) /\ NoRanges(DoAppendSegments(s)) /\ Awake(DoAppendSegments(s))
<1> DEFINE s1 == AppendHead(s, "video")
           s2 == AppendHead(s1, "audio")
<1>0. "video" \in Types /\ "audio" \in Types /\ Types = {"video", "audio"}
  BY DEF Types
<1>1. /\ Ok(s1) /\ NoRanges(s1)
      /\ s.sb["video"].on /\ s.ctl.segments["video"] # <<>> => Stirring(s1)
      /\ s1.sb["video"].on = s.sb["video"].on
      /\ s.ctl.segments["video"] = <<>> => s1.ctl.segments["video"] = <<>>
  BY <1>0, AppendHeadOk
<1> HIDE DEF s1
<1>2. /\ Ok(s2) /\ NoRanges(s2)
      /\ Stirring(s1) => Stirring(s2)
      /\ s1.sb["audio"].on /\ s1.ctl.segments["audio"] # <<>> => Stirring(s2)
      /\ s2.sb["audio"].on = s1.sb["audio"].on
      /\ s1.ctl.segments["audio"] = <<>> => s2.ctl.segments["audio"] = <<>>
      /\ s2.sb["video"] = s1.sb["video"] /\ s2.ctl.segments["video"] = s1.ctl.segments["video"]
  BY <1>0, <1>1, AppendHeadOk
<1>3. DoAppendSegments(s) = s2
  BY DEF DoAppendSegments, s1
<1> HIDE DEF s2
<1>4. ASSUME NEW t \in Types, s2.sb[t].on, s2.ctl.segments[t] # <<>>
      PROVE  Stirring(s2)
  BY <1>0, <1>1, <1>2, <1>4
<1>5. \A t \in Types : Awaits(s2, t) => s2.sb[t].on /\ s2.ctl.segments[t] # <<>>
  BY EmptyDomain DEF Awaits
<1>6. \A t \in Types : s2.ctl.ranges[t] = <<>>
  BY <1>2 DEF NoRanges, HasPendingRemoveRanges
<1>7. Awake(s2)
  BY <1>4, <1>5, <1>6 DEF Awake, Alert
<1>8. QED BY <1>2, <1>3, <1>7

-----------------------------------------------------------------------------
(* _doRemoveRanges.                                                        *)

(* A range that goes to work is still on its way out.                      *)
LEMMA RangeTaken ==
  ASSUME NEW s, Ok(s), NEW t \in Types, ~Updating(s.sb[t]), s.ctl.ranges[t] # <<>>,
         NEW u \in StateType, u.ms = "open", u.ctl.eos = s.ctl.eos,
         u.sb[t].on = s.sb[t].on, u.sb[t].job = "remove",
         u.sb[t].data = Head(s.ctl.ranges[t]), u.sb[t].buf = s.sb[t].buf,
         u.ctl.ranges[t] = Tail(s.ctl.ranges[t]), u.ctl.segments[t] = s.ctl.segments[t],
         u.feed = s.feed
  PROVE  TrackOk(u, t)
<1>1. /\ s \in StateType /\ TrackOk(s, t) /\ s.ctl.ranges[t] \in Seq(SUBSET Numbers)
      /\ s.sb[t].job = "none" /\ s.sb[t].on = TRUE
  <2>1. s \in StateType /\ TrackOk(s, t) /\ s.sb[t].job = "none"
    BY DEF Ok, Updating
  <2>2. s.ctl.ranges[t] \in Seq(SUBSET Numbers) /\ s.sb[t].on \in BOOLEAN
    BY <2>1, BufferFields
  <2>3. QED BY <2>1, <2>2 DEF TrackOk, BufferOk
<1> DEFINE r == s.ctl.ranges[t]
<1>2. /\ Head(r) = r[1] /\ Head(r) \subseteq Numbers
      /\ \A i \in DOMAIN r : i = 1 \/ (i - 1 \in DOMAIN Tail(r) /\ Tail(r)[i - 1] = r[i])
  <2>1. r \in Seq(SUBSET Numbers) /\ r # <<>>
    BY <1>1
  <2> HIDE DEF r
  <2>2. Head(r) = r[1] /\ Head(r) \in SUBSET Numbers
    BY <2>1
  <2>3. ASSUME NEW i \in DOMAIN r, i # 1
        PROVE  i - 1 \in DOMAIN Tail(r) /\ Tail(r)[i - 1] = r[i]
    BY <2>1, <2>3
  <2>4. QED BY <2>2, <2>3
<1> HIDE DEF r
<1>3. Lossless(u, t)
  BY <1>1 DEF TrackOk, Lossless, Working
<1>4. BufferOk(u, t)
  BY <1>1, <1>2 DEF BufferOk, r
<1>5. Fresh(u, t)
  <2>1. Old(u, t) = Old(s, t)
    BY DEF Old
  <2>2. \A n : AfterSeek(u, t, n) <=> AfterSeek(s, t, n)
    BY DEF AfterSeek
  <2>3. \A i \in DOMAIN r : Old(s, t) \subseteq r[i] =>
          \/ \E k \in DOMAIN u.ctl.ranges[t] : Old(u, t) \subseteq u.ctl.ranges[t][k]
          \/ Old(u, t) \subseteq u.sb[t].data
    BY <1>2, <2>1 DEF r
  <2>4. QED BY <1>1, <2>1, <2>2, <2>3 DEF TrackOk, Fresh, r
<1>6. Opened(u, t)
  BY <1>1 DEF TrackOk, Opened
<1>7. QED BY <1>3, <1>4, <1>5, <1>6 DEF TrackOk

LEMMA RemoveRangeFields ==
  ASSUME NEW s \in StateType, NEW t \in Types, NEW range \in SUBSET Numbers
  PROVE  LET x == RemoveRange(s, t, range) IN
         /\ x \in StateType /\ x.ms = "open" /\ x.ev = s.ev /\ x.ctl = s.ctl /\ x.feed = s.feed
         /\ x.sb[t].on = s.sb[t].on /\ x.sb[t].job = "remove" /\ x.sb[t].data = range
         /\ x.sb[t].buf = s.sb[t].buf
         /\ \A q \in Types \ {t} : x.sb[q] = s.sb[q]
<1> DEFINE x == [s EXCEPT !.ms = "open", !.sb[t].job = "remove", !.sb[t].data = range]
           b == [s.sb[t] EXCEPT !.job = "remove", !.data = range]
<1>1. s.sb[t] \in SbType
  BY BufferFields
<1>2. x.ms = "open" /\ x.ev = s.ev /\ x.ctl = s.ctl /\ x.feed = s.feed
  BY DEF StateType
<1>3. x.sb = [s.sb EXCEPT ![t] = b]
  BY StateFields DEF StateType, SbType
<1>4. b \in SbType /\ b.on = s.sb[t].on /\ b.job = "remove" /\ b.data = range
      /\ b.buf = s.sb[t].buf
  BY <1>1 DEF SbType
<1> HIDE DEF b, x
<1>5. x.sb \in [Types -> SbType] /\ x.sb[t] = b /\ \A q \in Types \ {t} : x.sb[q] = s.sb[q]
  BY <1>3, <1>4, StateFields
<1>6. x \in StateType
  BY <1>2, <1>5, StateFields DEF StateType, x
<1>7. RemoveRange(s, t, range) = x
  BY DEF RemoveRange, x
<1>8. QED BY <1>2, <1>4, <1>5, <1>6, <1>7

LEMMA RemoveHeadOk ==
  ASSUME NEW s, Ok(s), NEW t \in Types
  PROVE  /\ Ok(RemoveHead(s, t))
         /\ Stirring(s) => Stirring(RemoveHead(s, t))
         /\ s.ctl.ranges[t] # <<>> => Stirring(RemoveHead(s, t))
         /\ \A q \in Types : /\ RemoveHead(s, t).ctl.segments[q] = s.ctl.segments[q]
                             /\ RemoveHead(s, t).sb[q].on = s.sb[q].on
         /\ \A q \in Types \ {t} : RemoveHead(s, t).ctl.ranges[q] = s.ctl.ranges[q]
         /\ s.ctl.ranges[t] = <<>> => RemoveHead(s, t) = s
         /\ RemoveHead(s, t).ev = s.ev
<1> DEFINE u == RemoveHead(s, t)
<1>0. s \in StateType /\ TrackOk(s, t)
  BY DEF Ok
<1>1. CASE ~s.sb[t].on \/ Updating(s.sb[t]) \/ s.ctl.ranges[t] = <<>>
  <2>1. u = s
    BY <1>1 DEF RemoveHead
  <2>2. Updating(s.sb[t]) => Stirring(s)
    BY DEF Stirring
  <2>3. ~s.sb[t].on => s.ctl.ranges[t] = <<>>
    BY <1>0 DEF TrackOk, BufferOk
  <2>4. QED BY <1>1, <2>1, <2>2, <2>3
<1>2. CASE ~(~s.sb[t].on \/ Updating(s.sb[t]) \/ s.ctl.ranges[t] = <<>>)
  <2> DEFINE range == Head(s.ctl.ranges[t])
             rest == Tail(s.ctl.ranges[t])
             s1 == RemoveRange(s, t, range)
             y == [s.ctl EXCEPT !.ranges[t] = rest]
             x == [s1 EXCEPT !.ctl = y]
  <2>1. s.ctl.ranges[t] \in Seq(SUBSET Numbers) /\ s.ctl.ranges[t] # <<>>
    BY <1>0, <1>2, BufferFields
  <2>2. range \in SUBSET Numbers /\ rest \in Seq(SUBSET Numbers)
    BY <2>1
  <2>3. /\ s1 \in StateType /\ s1.ms = "open" /\ s1.ev = s.ev /\ s1.ctl = s.ctl /\ s1.feed = s.feed
        /\ s1.sb[t].on = s.sb[t].on /\ s1.sb[t].job = "remove" /\ s1.sb[t].data = range
        /\ s1.sb[t].buf = s.sb[t].buf
        /\ \A q \in Types \ {t} : s1.sb[q] = s.sb[q]
    BY <1>0, <2>2, RemoveRangeFields
  <2>4. u = x
    <3>1. u = [s1 EXCEPT !.ctl.ranges[t] = Tail(@)]
      BY <1>2 DEF RemoveHead
    <3> HIDE DEF s1
    <3>2. [s1 EXCEPT !.ctl.ranges[t] = Tail(@)] = [s1 EXCEPT !.ctl = [s1.ctl EXCEPT !.ranges[t] = Tail(@)]]
      BY <2>3 DEF StateType
    <3>3. [s1.ctl EXCEPT !.ranges[t] = Tail(@)] = y
      BY <1>0, <2>3, StateFields DEF CtlType
    <3>4. QED BY <3>1, <3>2, <3>3
  <2> HIDE DEF s1, range, rest
  <2>5. /\ y \in CtlType /\ y.ranges = [s.ctl.ranges EXCEPT ![t] = rest] /\ y.full = s.ctl.full
        /\ y.idr = s.ctl.idr /\ y.eos = s.ctl.eos /\ y.segments = s.ctl.segments /\ y.inits = s.ctl.inits
    <3>1. s.ctl \in CtlType
      BY <1>0, StateFields
    <3>2. QED BY <2>2, <3>1 DEF CtlType
  <2> HIDE DEF y
  <2>6. /\ x \in StateType /\ x.ms = "open" /\ x.sb = s1.sb /\ x.ev = s.ev /\ x.feed = s.feed
        /\ x.ctl = y
    BY <2>3, <2>5, WithCtl
  <2> HIDE DEF x
  <2>7. /\ x.ctl.ranges[t] = rest /\ x.sb[t].on = s.sb[t].on /\ x.sb[t].job = "remove"
        /\ x.sb[t].data = range /\ x.sb[t].buf = s.sb[t].buf /\ x.ctl.segments = s.ctl.segments
        /\ \A q \in Types \ {t} : x.sb[q] = s.sb[q] /\ x.ctl.ranges[q] = s.ctl.ranges[q]
    BY <1>0, <2>3, <2>5, <2>6, StateFields
  <2>8. TrackOk(x, t)
    BY <1>2, <2>5, <2>6, <2>7, RangeTaken DEF range, rest
  <2>9. SameSource(s, x)
    BY <1>0, <1>2, <2>6 DEF SameSource, TrackOk, Opened
  <2>10. \A q \in Types \ {t} : TrackOk(x, q)
    <3>1. \A q \in Types \ {t} : SameTrack(s, x, q)
      BY <1>0, <2>5, <2>6, <2>7, BufferFields DEF SameTrack, SameQueue
    <3>2. QED BY <1>0, <2>9, <3>1, TrackFrame DEF Ok
  <2>11. Ok(x)
    BY <2>5, <2>6, <2>8, <2>10 DEF Ok, IdrFresh
  <2>12. Stirring(x)
    BY <2>7 DEF Stirring, Updating
  <2>13. \A q \in Types : x.sb[q].on = s.sb[q].on
    BY <2>7
  <2>14. QED BY <2>1, <2>4, <2>6, <2>7, <2>11, <2>12, <2>13
<1>3. QED BY <1>1, <1>2

(* What is left alone while ranges are made and taken up; RangesAlert says *)
(* that a range kept is taken up in time.                                  *)
SameWaiting(s, u) ==
  \A q \in Types : u.ctl.segments[q] = s.ctl.segments[q] /\ u.sb[q].on = s.sb[q].on

RangesAlert(s) == HasPendingRemoveRanges(s) => Alert(s)

LEMMA DoRemoveRangesOk ==
  ASSUME NEW s, Ok(s)
  PROVE  /\ Ok(DoRemoveRanges(s)) /\ SameWaiting(s, DoRemoveRanges(s))
         /\ Alert(s) => Alert(DoRemoveRanges(s))
         /\ HasPendingRemoveRanges(s) => Stirring(DoRemoveRanges(s))
         /\ ~HasPendingRemoveRanges(s) => DoRemoveRanges(s) = s
<1> DEFINE s1 == RemoveHead(s, "video")
           s2 == RemoveHead(s1, "audio")
<1>0. "video" \in Types /\ "audio" \in Types /\ Types = {"video", "audio"}
  BY DEF Types
<1>1. /\ Ok(s1) /\ s1.ev = s.ev
      /\ Stirring(s) => Stirring(s1)
      /\ s.ctl.ranges["video"] # <<>> => Stirring(s1)
      /\ SameWaiting(s, s1)
      /\ s1.ctl.ranges["audio"] = s.ctl.ranges["audio"]
  BY <1>0, RemoveHeadOk DEF SameWaiting
<1> HIDE DEF s1
<1>2. /\ Ok(s2) /\ s2.ev = s1.ev
      /\ Stirring(s1) => Stirring(s2)
      /\ s1.ctl.ranges["audio"] # <<>> => Stirring(s2)
      /\ SameWaiting(s1, s2)
  BY <1>0, <1>1, RemoveHeadOk DEF SameWaiting
<1>3. DoRemoveRanges(s) = s2
  BY DEF DoRemoveRanges, s1
<1> HIDE DEF s2
<1>4. SameWaiting(s, s2)
  BY <1>1, <1>2 DEF SameWaiting
<1>5. Alert(s) => Alert(s2)
  BY <1>1, <1>2 DEF Alert
<1>6. HasPendingRemoveRanges(s) => Stirring(s2)
  BY <1>0, <1>1, <1>2 DEF HasPendingRemoveRanges
<1>7. ~HasPendingRemoveRanges(s) => s2 = s
  <2>1. s.ctl.ranges["video"] = <<>> => s1 = s
    BY <1>0, RemoveHeadOk DEF s1
  <2>2. s1.ctl.ranges["audio"] = <<>> => s2 = s1
    BY <1>0, <1>1, RemoveHeadOk DEF s2
  <2>3. QED BY <1>0, <2>1, <2>2 DEF HasPendingRemoveRanges
<1>8. QED BY <1>2, <1>3, <1>4, <1>5, <1>6, <1>7

-----------------------------------------------------------------------------
(* _doCleanupSourceBuffer.                                                 *)

(* A further range to remove.                                              *)
LEMMA RangeAdded ==
  ASSUME NEW s, Ok(s), NEW t \in Types, s.sb[t].on, NEW r \in SUBSET Numbers
  PROVE  LET u == [s EXCEPT !.ctl.ranges[t] = Append(@, r)] IN
         /\ Ok(u) /\ SameWaiting(s, u) /\ u.sb = s.sb /\ u.ev = s.ev /\ u.ctl.full = s.ctl.full
         /\ u.ctl.ranges[t] # <<>>
<1> DEFINE rs == Append(s.ctl.ranges[t], r)
           y == [s.ctl EXCEPT !.ranges[t] = rs]
           u == [s EXCEPT !.ctl = y]
<1>0. s \in StateType /\ TrackOk(s, t)
  BY DEF Ok
<1>1. s.ctl.ranges[t] \in Seq(SUBSET Numbers)
  BY <1>0, BufferFields
<1>2. /\ rs \in Seq(SUBSET Numbers) /\ rs # <<>>
      /\ \A i \in DOMAIN s.ctl.ranges[t] : i \in DOMAIN rs /\ rs[i] = s.ctl.ranges[t][i]
  <2> DEFINE q == s.ctl.ranges[t]
             z == Append(q, r)
  <2>1. q \in Seq(SUBSET Numbers) /\ r \in SUBSET Numbers
    BY <1>1
  <2> HIDE DEF q
  <2>2. z \in Seq(SUBSET Numbers) /\ z # <<>>
    BY ONLY <2>1
  <2>3. \A i \in DOMAIN q : i \in DOMAIN z /\ z[i] = q[i]
    BY ONLY <2>1
  <2>4. QED BY <2>2, <2>3 DEF q
<1> HIDE DEF rs
<1>3. /\ y \in CtlType /\ y.ranges = [s.ctl.ranges EXCEPT ![t] = rs] /\ y.full = s.ctl.full
      /\ y.idr = s.ctl.idr /\ y.eos = s.ctl.eos /\ y.segments = s.ctl.segments /\ y.inits = s.ctl.inits
  <2>1. s.ctl \in CtlType
    BY <1>0, StateFields
  <2>2. QED BY <1>2, <2>1 DEF CtlType
<1>4. [s EXCEPT !.ctl.ranges[t] = Append(@, r)] = u
  <2>1. [s EXCEPT !.ctl.ranges[t] = Append(@, r)] = [s EXCEPT !.ctl = [s.ctl EXCEPT !.ranges[t] = Append(@, r)]]
    BY <1>0 DEF StateType
  <2>2. [s.ctl EXCEPT !.ranges[t] = Append(@, r)] = y
    BY <1>0, StateFields DEF CtlType, rs
  <2>3. QED BY <2>1, <2>2
<1> HIDE DEF y
<1>5. u \in StateType /\ u.ms = s.ms /\ u.sb = s.sb /\ u.ev = s.ev /\ u.feed = s.feed /\ u.ctl = y
  BY <1>0, <1>3, WithCtl
<1> HIDE DEF u
<1>6. /\ u.ctl.ranges[t] = rs /\ u.ctl.segments = s.ctl.segments
      /\ \A q \in Types \ {t} : u.ctl.ranges[q] = s.ctl.ranges[q]
  BY <1>0, <1>3, <1>5, StateFields
<1>7. TrackOk(u, t)
  <2>1. Lossless(u, t)
    BY <1>0, <1>5, <1>6 DEF TrackOk, Lossless
  <2>2. BufferOk(u, t)
    BY <1>0, <1>5 DEF TrackOk, BufferOk
  <2>3. Fresh(u, t)
    <3>1. Old(u, t) = Old(s, t)
      BY <1>5 DEF Old
    <3>2. \A n : AfterSeek(u, t, n) <=> AfterSeek(s, t, n)
      BY <1>5 DEF AfterSeek
    <3>3. (\E i \in DOMAIN s.ctl.ranges[t] : Old(s, t) \subseteq s.ctl.ranges[t][i])
            => \E i \in DOMAIN u.ctl.ranges[t] : Old(u, t) \subseteq u.ctl.ranges[t][i]
      BY <1>2, <1>6, <3>1
    <3>4. QED BY <1>0, <1>5, <1>6, <3>1, <3>2, <3>3 DEF TrackOk, Fresh
  <2>4. Opened(u, t)
    BY <1>0, <1>3, <1>5, <1>6 DEF TrackOk, Opened
  <2>5. QED BY <2>1, <2>2, <2>3, <2>4 DEF TrackOk
<1>8. \A q \in Types \ {t} : TrackOk(u, q)
  <2>1. \A q \in Types \ {t} : SameTrack(s, u, q)
    BY <1>0, <1>3, <1>5, <1>6, BufferFields DEF SameTrack, SameQueue
  <2>2. SameSource(s, u)
    BY <1>5 DEF SameSource
  <2>3. QED BY <1>0, <2>1, <2>2, TrackFrame DEF Ok
<1>9. Ok(u)
  BY <1>3, <1>5, <1>7, <1>8 DEF Ok, IdrFresh
<1>10. QED BY <1>2, <1>3, <1>4, <1>5, <1>6, <1>9 DEF SameWaiting

(* A range is added, and taken up unless the buffer works.                 *)
LEMMA RangeGoes ==
  ASSUME NEW s, Ok(s), NEW t \in Types, s.sb[t].on, NEW r \in SUBSET Numbers,
         NEW s1, s1 = [s EXCEPT !.ctl.ranges[t] = Append(@, r)],
         NEW u, u = IF Updating(s.sb[t]) THEN s1 ELSE DoRemoveRanges(s1)
  PROVE  Ok(u) /\ SameWaiting(s, u) /\ Stirring(u)
<1>1. Ok(s1) /\ SameWaiting(s, s1) /\ s1.sb = s.sb /\ s1.ctl.ranges[t] # <<>>
  BY RangeAdded
<1>2. CASE Updating(s.sb[t])
  BY <1>1, <1>2 DEF Stirring
<1>3. CASE ~Updating(s.sb[t])
  <2>1. HasPendingRemoveRanges(s1)
    BY <1>1 DEF HasPendingRemoveRanges
  <2>2. Ok(u) /\ SameWaiting(s1, u) /\ Stirring(u)
    BY <1>1, <1>3, <2>1, DoRemoveRangesOk
  <2>3. QED BY <1>1, <2>2 DEF SameWaiting
<1>4. QED BY <1>2, <1>3

LEMMA CleanupTrackOk ==
  ASSUME NEW s, Ok(s), NEW t \in Types
  PROVE  /\ Ok(CleanupTrack(s, t)) /\ SameWaiting(s, CleanupTrack(s, t))
         /\ Alert(s) => Alert(CleanupTrack(s, t))
         /\ RangesAlert(s) => RangesAlert(CleanupTrack(s, t))
<1> DEFINE old == {n \in s.sb[t].buf : n <= s.feed.head - MinBackward}
           s1 == [s EXCEPT !.ctl.ranges[t] = Append(@, old)]
           u == CleanupTrack(s, t)
<1>1. CASE old = {}
  <2>1. u = s
    BY <1>1 DEF CleanupTrack
  <2>2. QED BY <2>1 DEF SameWaiting
<1>2. CASE old # {}
  <2>1. s \in StateType /\ TrackOk(s, t)
    BY DEF Ok
  <2>2. old \in SUBSET Numbers /\ s.sb[t].on \in BOOLEAN /\ s.sb[t].buf # {}
    BY <1>2, <2>1, BufferFields
  <2>3. s.sb[t].on
    BY <2>1, <2>2 DEF TrackOk, BufferOk
  <2>4. u = IF Updating(s.sb[t]) THEN s1 ELSE DoRemoveRanges(s1)
    BY <1>2 DEF CleanupTrack
  <2> HIDE DEF u, old
  <2>5. Ok(u) /\ SameWaiting(s, u) /\ Stirring(u)
    BY <2>2, <2>3, <2>4, RangeGoes
  <2>6. QED BY <2>5 DEF u, Alert, RangesAlert
<1>3. QED BY <1>1, <1>2

LEMMA DoCleanupOk ==
  ASSUME NEW s, Ok(s)
  PROVE  /\ Ok(DoCleanupSourceBuffer(s)) /\ SameWaiting(s, DoCleanupSourceBuffer(s))
         /\ Alert(s) => Alert(DoCleanupSourceBuffer(s))
         /\ RangesAlert(s) => RangesAlert(DoCleanupSourceBuffer(s))
<1> DEFINE s1 == CleanupTrack(s, "video")
           s2 == CleanupTrack(s1, "audio")
<1>0. "video" \in Types /\ "audio" \in Types
  BY DEF Types
<1>1. /\ Ok(s1) /\ SameWaiting(s, s1)
      /\ Alert(s) => Alert(s1)
      /\ RangesAlert(s) => RangesAlert(s1)
  BY <1>0, CleanupTrackOk
<1> HIDE DEF s1
<1>2. /\ Ok(s2) /\ SameWaiting(s1, s2)
      /\ Alert(s1) => Alert(s2)
      /\ RangesAlert(s1) => RangesAlert(s2)
  BY <1>0, <1>1, CleanupTrackOk
<1>3. DoCleanupSourceBuffer(s) = s2
  BY DEF DoCleanupSourceBuffer, s1
<1> HIDE DEF s2
<1>4. QED BY <1>1, <1>2, <1>3 DEF SameWaiting

-----------------------------------------------------------------------------
(* appendMediaSegment and appendInitSegment.                               *)

(* A segment is handed over: it waits behind the others.                   *)
LEMMA Handed ==
  ASSUME NEW s \in StateType, NEW t \in Types, Lossless(s, t), BufferOk(s, t), Fresh(s, t),
         NEW n \in Segments, AfterSeek(s, t, n),
         NEW u \in StateType, u.ms = s.ms,
         u.sb[t].job = s.sb[t].job, u.sb[t].data = s.sb[t].data, u.sb[t].buf = s.sb[t].buf,
         s.sb[t].on => u.sb[t].on,
         u.ctl.ranges[t] = s.ctl.ranges[t],
         u.ctl.segments[t] = Append(s.ctl.segments[t], n),
         u.feed.given[t] = Append(s.feed.given[t], n), u.feed.done[t] = s.feed.done[t],
         u.feed.base[t] = s.feed.base[t], s.feed.next <= u.feed.next, n < u.feed.next
  PROVE  Lossless(u, t) /\ BufferOk(u, t) /\ Fresh(u, t)
<1>1. /\ s.ctl.segments[t] \in Seq(Segments) /\ s.feed.done[t] \in Seq(Segments)
      /\ s.feed.base[t] \in Nat /\ s.feed.next \in Nat /\ u.feed.next \in Nat
      /\ s.sb[t].buf \subseteq Nat
  BY BufferFields
<1>2. Lossless(u, t)
  <2> DEFINE a == s.feed.done[t] \o Working(s.sb[t])
             c == s.ctl.segments[t]
  <2>1. Working(s.sb[t]) \in Seq(Segments)
    BY DEF Working, BufferOk
  <2>2. a \in Seq(Segments) /\ c \in Seq(Segments)
    BY <1>1, <2>1
  <2>3. u.feed.given[t] = Append(a \o c, n)
    BY DEF Lossless
  <2>4. Working(u.sb[t]) = Working(s.sb[t])
    BY DEF Working
  <2> HIDE DEF a, c
  <2>5. Append(a \o c, n) = a \o Append(c, n)
    <3> DEFINE w == <<n>>
    <3>1. w \in Seq(Segments) /\ a \o c \in Seq(Segments)
      BY <2>2
    <3>2. Append(a \o c, n) = (a \o c) \o w /\ Append(c, n) = c \o w
      BY <2>2, <3>1, AppendIsConcat
    <3> HIDE DEF w
    <3>3. (a \o c) \o w = a \o (c \o w)
      BY ONLY <2>2, <3>1, ConcatAssociative
    <3>4. QED BY <3>2, <3>3
  <2>6. QED BY <2>3, <2>4, <2>5 DEF Lossless, a, c
<1>3. BufferOk(u, t)
  BY DEF BufferOk
<1>4. Fresh(u, t)
  <2>1. Old(u, t) = Old(s, t)
    BY DEF Old
  <2>2. \A m : AfterSeek(u, t, m) <=> AfterSeek(s, t, m)
    BY DEF AfterSeek
  <2>3. \A m \in Int : m < s.feed.next => m < u.feed.next
    BY <1>1
  <2>4. s.feed.base[t] <= u.feed.next /\ \A m \in u.sb[t].buf : m < u.feed.next
    BY <1>1, <2>3 DEF Fresh
  <2>5. ASSUME NEW i \in DOMAIN u.ctl.segments[t]
        PROVE  u.ctl.segments[t][i] < u.feed.next /\ AfterSeek(u, t, u.ctl.segments[t][i])
    <3>1. \/ u.ctl.segments[t][i] = n
          \/ /\ i \in DOMAIN s.ctl.segments[t]
             /\ u.ctl.segments[t][i] = s.ctl.segments[t][i] /\ s.ctl.segments[t][i] \in Segments
      BY <1>1
    <3>2. Segments \subseteq Int
      BY Numbering
    <3>3. QED BY <2>2, <2>3, <3>1, <3>2 DEF Fresh
  <2>6. u.sb[t].job = "append" => u.sb[t].data < u.feed.next /\ AfterSeek(u, t, u.sb[t].data)
    <3>1. Segments \subseteq Int
      BY Numbering
    <3>2. QED BY <2>2, <2>3, <3>1 DEF Fresh, BufferOk
  <2>7. QED BY <2>1, <2>4, <2>5, <2>6 DEF Fresh
<1>5. QED BY <1>2, <1>3, <1>4

LEMMA PushFields ==
  ASSUME NEW s \in StateType, NEW t \in Types, NEW n \in Segments
  PROVE  LET u == Push(s, t, n) IN
         /\ u \in StateType /\ u.ms = s.ms /\ u.sb = s.sb /\ u.ev = s.ev /\ u.feed = s.feed
         /\ u.ctl.segments[t] = Append(s.ctl.segments[t], n)
         /\ \A q \in Types \ {t} : u.ctl.segments[q] = s.ctl.segments[q]
         /\ u.ctl.ranges = s.ctl.ranges /\ u.ctl.inits = s.ctl.inits /\ u.ctl.eos = s.ctl.eos
         /\ u.ctl.full = s.ctl.full /\ u.ctl.idr = s.ctl.idr
<1> DEFINE k == Append(s.ctl.segments[t], n)
           y == [s.ctl EXCEPT !.segments[t] = k]
           u == [s EXCEPT !.ctl = y]
<1>1. s.ctl \in CtlType /\ k \in Seq(Segments) /\ s.ctl.segments \in [Types -> Seq(Segments)]
  BY BufferFields, StateFields
<1>2. Push(s, t, n) = u
  <2>1. Push(s, t, n) = [s EXCEPT !.ctl = [s.ctl EXCEPT !.segments[t] = Append(@, n)]]
    BY DEF StateType, Push
  <2>2. [s.ctl EXCEPT !.segments[t] = Append(@, n)] = y
    BY <1>1 DEF CtlType
  <2>3. QED BY <2>1, <2>2
<1> HIDE DEF k
<1>3. /\ y \in CtlType /\ y.segments = [s.ctl.segments EXCEPT ![t] = k]
      /\ y.ranges = s.ctl.ranges /\ y.inits = s.ctl.inits /\ y.eos = s.ctl.eos
      /\ y.full = s.ctl.full /\ y.idr = s.ctl.idr
  BY <1>1 DEF CtlType
<1> HIDE DEF y
<1>4. u \in StateType /\ u.ms = s.ms /\ u.sb = s.sb /\ u.ev = s.ev /\ u.feed = s.feed /\ u.ctl = y
  BY <1>3, WithCtl
<1> HIDE DEF u
<1>5. u.ctl.segments[t] = k /\ \A q \in Types \ {t} : u.ctl.segments[q] = s.ctl.segments[q]
  BY <1>1, <1>3, <1>4
<1>6. QED BY <1>2, <1>3, <1>4, <1>5 DEF k

(* What the player notes when it hands over a media segment.               *)
LEMMA MediaGiven ==
  ASSUME NEW s \in StateType, NEW t \in Types, s.feed.next <= MaxSegments
  PROVE  LET u == [s EXCEPT !.feed.next = @ + 1, !.feed.given[t] = Append(@, s.feed.next)] IN
         /\ u \in StateType /\ u.ms = s.ms /\ u.sb = s.sb /\ u.ev = s.ev /\ u.ctl = s.ctl
         /\ u.feed.next = s.feed.next + 1
         /\ u.feed.given[t] = Append(s.feed.given[t], s.feed.next)
         /\ \A q \in Types \ {t} : u.feed.given[q] = s.feed.given[q]
         /\ u.feed.base = s.feed.base /\ u.feed.done = s.feed.done /\ u.feed.inits = s.feed.inits
<1> DEFINE n == s.feed.next
           m == n + 1
           k == Append(s.feed.given[t], n)
           z == [s.feed EXCEPT !.next = m, !.given[t] = k]
           u == [s EXCEPT !.feed = z]
<1>1. /\ s.feed \in FeedType /\ n \in Segments /\ m \in 1..(MaxSegments + 1)
      /\ s.feed.given \in [Types -> Seq(Segments)]
  BY StateFields, Numbering
<1>2. k \in Seq(Segments)
  BY <1>1
<1>3. [s EXCEPT !.feed.next = @ + 1, !.feed.given[t] = Append(@, s.feed.next)] = u
  <2>1. [s EXCEPT !.feed.next = @ + 1, !.feed.given[t] = Append(@, s.feed.next)]
          = [s EXCEPT !.feed = [s.feed EXCEPT !.next = @ + 1, !.given[t] = Append(@, s.feed.next)]]
    BY <1>1 DEF StateType, FeedType
  <2>2. [s.feed EXCEPT !.next = @ + 1, !.given[t] = Append(@, s.feed.next)] = z
    BY <1>1 DEF FeedType
  <2>3. QED BY <2>1, <2>2
<1> HIDE DEF k, m
<1>4. /\ z \in FeedType /\ z.next = m /\ z.given = [s.feed.given EXCEPT ![t] = k]
      /\ z.base = s.feed.base /\ z.done = s.feed.done /\ z.inits = s.feed.inits
  BY <1>1, <1>2 DEF FeedType
<1> HIDE DEF z
<1>5. u \in StateType /\ u.ms = s.ms /\ u.sb = s.sb /\ u.ev = s.ev /\ u.ctl = s.ctl /\ u.feed = z
  BY <1>4, WithFeed
<1> HIDE DEF u
<1>6. u.feed.given[t] = k /\ \A q \in Types \ {t} : u.feed.given[q] = s.feed.given[q]
  BY <1>1, <1>4, <1>5
<1>7. QED BY <1>3, <1>4, <1>5, <1>6 DEF k, m

LEMMA MediaOk ==
  ASSUME NEW s, Ok(s), Awake(s), NEW t \in Types, s.feed.inits[t] > 0, s.feed.next <= MaxSegments,
         NEW n, n = s.feed.next,
         NEW s0 \in StateType, s0.ms = s.ms, s0.sb = s.sb, s0.ev = s.ev, s0.ctl = s.ctl,
         s0.feed.next = n + 1, s0.feed.given[t] = Append(s.feed.given[t], n),
         \A q \in Types \ {t} : s0.feed.given[q] = s.feed.given[q],
         s0.feed.base = s.feed.base, s0.feed.done = s.feed.done, s0.feed.inits = s.feed.inits
  PROVE  Ok(AppendMediaSegment(s0, t, n)) /\ Awake(AppendMediaSegment(s0, t, n))
<1> DEFINE s1 == Push(s0, t, n)
           s2 == IF AutoCleanup /\ NeedCleanupSourceBuffer(s1) THEN DoCleanupSourceBuffer(s1) ELSE s1
           u == AppendMediaSegment(s0, t, n)
<1> SUFFICES Ok(u) /\ Awake(u)
  OBVIOUS
<1>0. s \in StateType /\ \A q \in Types : TrackOk(s, q)
  BY DEF Ok
<1>1. n \in Segments /\ n \in Nat /\ n # InitSegment
  BY <1>0, StateFields, Numbering
<1>2. /\ s1 \in StateType /\ s1.ms = s.ms /\ s1.sb = s.sb /\ s1.ev = s.ev /\ s1.feed = s0.feed
      /\ s1.ctl.segments[t] = Append(s.ctl.segments[t], n)
      /\ \A q \in Types \ {t} : s1.ctl.segments[q] = s.ctl.segments[q]
      /\ s1.ctl.ranges = s.ctl.ranges /\ s1.ctl.inits = s.ctl.inits /\ s1.ctl.eos = s.ctl.eos
      /\ s1.ctl.full = s.ctl.full /\ s1.ctl.idr = s.ctl.idr
  <2>1. /\ s1 \in StateType /\ s1.ms = s0.ms /\ s1.sb = s0.sb /\ s1.ev = s0.ev /\ s1.feed = s0.feed
        /\ s1.ctl.segments[t] = Append(s0.ctl.segments[t], n)
        /\ \A q \in Types \ {t} : s1.ctl.segments[q] = s0.ctl.segments[q]
        /\ s1.ctl.ranges = s0.ctl.ranges /\ s1.ctl.inits = s0.ctl.inits /\ s1.ctl.eos = s0.ctl.eos
        /\ s1.ctl.full = s0.ctl.full /\ s1.ctl.idr = s0.ctl.idr
    BY <1>1, PushFields
  <2> HIDE DEF s1
  <2>2. QED BY <2>1
<1> HIDE DEF s1
<1>3. Ok(s1)
  <2>1. TrackOk(s1, t)
    <3>1. AfterSeek(s, t, n)
      BY <1>0 DEF TrackOk, Fresh, AfterSeek
    <3>2. s.feed.next <= s1.feed.next /\ n < s1.feed.next
      BY <1>1, <1>2
    <3>3. Lossless(s1, t) /\ BufferOk(s1, t) /\ Fresh(s1, t)
      <4>1. Lossless(s, t) /\ BufferOk(s, t) /\ Fresh(s, t)
        BY <1>0 DEF TrackOk
      <4>2. /\ s1.sb[t].job = s.sb[t].job /\ s1.sb[t].data = s.sb[t].data
            /\ s1.sb[t].buf = s.sb[t].buf /\ (s.sb[t].on => s1.sb[t].on)
            /\ s1.ctl.ranges[t] = s.ctl.ranges[t]
            /\ s1.feed.given[t] = Append(s.feed.given[t], n) /\ s1.feed.done[t] = s.feed.done[t]
            /\ s1.feed.base[t] = s.feed.base[t]
        BY <1>2
      <4>3. QED BY <1>0, <1>1, <1>2, <3>1, <3>2, <4>1, <4>2, Handed
    <3>4. Opened(s1, t)
      BY <1>0, <1>2 DEF TrackOk, Opened
    <3>5. QED BY <3>3, <3>4 DEF TrackOk
  <2>2. \A q \in Types \ {t} : TrackOk(s1, q)
    <3>1. s1.feed.next \in Nat /\ s.feed.next <= s1.feed.next
      BY <1>1, <1>2
    <3>2. \A q \in Types \ {t} : SameTrack(s, s1, q)
      BY <1>2, <3>1 DEF SameTrack, SameQueue
    <3>3. SameSource(s, s1)
      BY <1>2 DEF SameSource
    <3>4. QED BY <1>0, <3>2, <3>3, TrackFrame
  <2>3. QED BY <1>2, <2>1, <2>2 DEF Ok, IdrFresh
<1>4. (Alert(s) => Alert(s1)) /\ RangesAlert(s1)
  BY <1>2 DEF Awake, Alert, Stirring, RangesAlert, HasPendingRemoveRanges
<1>5. Ok(s2) /\ SameWaiting(s1, s2) /\ (Alert(s1) => Alert(s2)) /\ RangesAlert(s2)
  BY <1>3, <1>4, DoCleanupOk DEF SameWaiting
<1>6. u = IF s2.sb[t].on /\ ~Updating(s2.sb[t]) /\ ~HasPendingRemoveRanges(s2)
          THEN DoAppendSegments(s2) ELSE s2
  BY DEF AppendMediaSegment, s1
<1> HIDE DEF s2, u
<1>7. CASE s2.sb[t].on /\ ~Updating(s2.sb[t]) /\ ~HasPendingRemoveRanges(s2)
  BY <1>5, <1>6, <1>7, DoAppendSegmentsOk DEF NoRanges
<1>8. CASE ~(s2.sb[t].on /\ ~Updating(s2.sb[t]) /\ ~HasPendingRemoveRanges(s2))
  <2>1. ASSUME NEW q \in Types, Awaits(s2, q) PROVE Alert(s2)
    <3>1. CASE q = t
      BY <1>5, <1>8, <2>1, <3>1 DEF Awaits, RangesAlert, Alert, Stirring
    <3>2. CASE q # t
      <4>1. Awaits(s, q)
        BY <1>2, <1>5, <2>1, <3>2 DEF Awaits, SameWaiting
      <4>2. QED BY <1>4, <1>5, <4>1 DEF Awake
    <3>3. QED BY <3>1, <3>2
  <2>2. QED BY <1>5, <1>6, <1>8, <2>1 DEF Awake, RangesAlert, HasPendingRemoveRanges
<1>9. QED BY <1>7, <1>8 DEF u

(* What the player notes when it hands over an initialization segment.     *)
LEMMA InitGiven ==
  ASSUME NEW s \in StateType, NEW t \in Types, s.feed.inits[t] < MaxInits(t)
  PROVE  LET u == [s EXCEPT !.feed.inits[t] = @ + 1, !.feed.given[t] = Append(@, InitSegment)] IN
         /\ u \in StateType /\ u.ms = s.ms /\ u.sb = s.sb /\ u.ev = s.ev /\ u.ctl = s.ctl
         /\ u.feed.next = s.feed.next
         /\ u.feed.given[t] = Append(s.feed.given[t], InitSegment)
         /\ u.feed.inits[t] = s.feed.inits[t] + 1
         /\ \A q \in Types \ {t} : /\ u.feed.given[q] = s.feed.given[q]
                                   /\ u.feed.inits[q] = s.feed.inits[q]
         /\ u.feed.base = s.feed.base /\ u.feed.done = s.feed.done
<1> DEFINE m == s.feed.inits[t] + 1
           k == Append(s.feed.given[t], InitSegment)
           z == [s.feed EXCEPT !.inits[t] = m, !.given[t] = k]
           u == [s EXCEPT !.feed = z]
<1>1. /\ s.feed \in FeedType /\ s.feed.inits[t] \in 0..2 /\ InitSegment \in Segments
      /\ s.feed.given \in [Types -> Seq(Segments)] /\ s.feed.inits \in [Types -> 0..2]
  BY StateFields, Numbering
<1>2. k \in Seq(Segments) /\ m \in 0..2
  BY <1>1 DEF MaxInits
<1>3. [s EXCEPT !.feed.inits[t] = @ + 1, !.feed.given[t] = Append(@, InitSegment)] = u
  <2>1. [s EXCEPT !.feed.inits[t] = @ + 1, !.feed.given[t] = Append(@, InitSegment)]
          = [s EXCEPT !.feed = [s.feed EXCEPT !.inits[t] = @ + 1, !.given[t] = Append(@, InitSegment)]]
    BY <1>1 DEF StateType, FeedType
  <2>2. [s.feed EXCEPT !.inits[t] = @ + 1, !.given[t] = Append(@, InitSegment)] = z
    BY <1>1 DEF FeedType
  <2>3. QED BY <2>1, <2>2
<1> HIDE DEF k, m
<1>4. /\ z \in FeedType /\ z.inits = [s.feed.inits EXCEPT ![t] = m]
      /\ z.given = [s.feed.given EXCEPT ![t] = k]
      /\ z.base = s.feed.base /\ z.done = s.feed.done /\ z.next = s.feed.next
  BY <1>1, <1>2 DEF FeedType
<1> HIDE DEF z
<1>5. u \in StateType /\ u.ms = s.ms /\ u.sb = s.sb /\ u.ev = s.ev /\ u.ctl = s.ctl /\ u.feed = z
  BY <1>4, WithFeed
<1> HIDE DEF u
<1>6. /\ u.feed.given[t] = k /\ u.feed.inits[t] = m
      /\ \A q \in Types \ {t} : /\ u.feed.given[q] = s.feed.given[q]
                                /\ u.feed.inits[q] = s.feed.inits[q]
  BY <1>1, <1>4, <1>5
<1>7. QED BY <1>3, <1>4, <1>5, <1>6 DEF k, m

(* An initialization segment waits; its track is there or will be.         *)
LEMMA InitHanded ==
  ASSUME NEW s, Ok(s), NEW t \in Types, s.feed.inits[t] < MaxInits(t),
         NEW u \in StateType, u.ms = s.ms,
         u.sb[t].job = s.sb[t].job, u.sb[t].data = s.sb[t].data, u.sb[t].buf = s.sb[t].buf,
         s.sb[t].on => u.sb[t].on,
         u.ctl.segments[t] = Append(s.ctl.segments[t], InitSegment),
         u.ctl.ranges = s.ctl.ranges, u.ctl.idr = s.ctl.idr,
         u.feed.next = s.feed.next, u.feed.inits[t] = s.feed.inits[t] + 1,
         u.feed.given[t] = Append(s.feed.given[t], InitSegment),
         u.feed.base = s.feed.base, u.feed.done = s.feed.done,
         \A q \in Types \ {t} : /\ u.sb[q] = s.sb[q] /\ u.ctl.segments[q] = s.ctl.segments[q]
                                /\ u.feed.given[q] = s.feed.given[q]
                                /\ u.feed.inits[q] = s.feed.inits[q],
         \A q \in Types : Opened(u, q)
  PROVE  Ok(u)
<1>0. s \in StateType /\ \A q \in Types : TrackOk(s, q)
  BY DEF Ok
<1>1. s.feed.next \in Nat /\ s.feed.base[t] \in Nat /\ s.feed.inits[t] \in 0..2 /\ InitSegment \in Segments
  BY <1>0, BufferFields, Numbering
<1>2. Lossless(u, t) /\ BufferOk(u, t) /\ Fresh(u, t)
  <2>1. AfterSeek(s, t, InitSegment)
    BY DEF AfterSeek
  <2>2. s.feed.next \in 1..(MaxSegments + 1)
    BY <1>0, StateFields
  <2>3. s.feed.next <= u.feed.next /\ InitSegment < u.feed.next
    BY <1>1, <2>2, Numbering
  <2>4. QED BY <1>0, <1>1, <2>1, <2>3, Handed DEF TrackOk
<1>3. \A q \in Types \ {t} : Lossless(u, q) /\ BufferOk(u, q) /\ Fresh(u, q)
  <2>1. \A q \in Types \ {t} : SameQueue(s, u, q)
    BY <1>1 DEF SameQueue
  <2>2. SameSource(s, u)
    BY DEF SameSource
  <2>3. QED BY <1>0, <2>1, <2>2, QueueFrame DEF TrackOk
<1>4. \A q \in Types : u.feed.inits[q] <= MaxInits(q)
  <2>1. u.feed.inits[t] <= MaxInits(t)
    BY <1>1 DEF MaxInits
  <2>2. \A q \in Types \ {t} : u.feed.inits[q] <= MaxInits(q)
    BY DEF Ok
  <2>3. QED BY <2>1, <2>2
<1>5. IdrFresh(u)
  BY DEF Ok, IdrFresh
<1>6. QED BY <1>2, <1>3, <1>4, <1>5 DEF Ok, TrackOk

LEMMA InitKept ==
  ASSUME NEW s \in StateType, NEW t \in Types
  PROVE  LET u == [s EXCEPT !.ctl.inits = Append(@, t)] IN
         /\ u \in StateType /\ u.ms = s.ms /\ u.sb = s.sb /\ u.ev = s.ev /\ u.feed = s.feed
         /\ u.ctl.inits = Append(s.ctl.inits, t)
         /\ u.ctl.segments = s.ctl.segments /\ u.ctl.ranges = s.ctl.ranges
         /\ u.ctl.eos = s.ctl.eos /\ u.ctl.full = s.ctl.full /\ u.ctl.idr = s.ctl.idr
<1> DEFINE k == Append(s.ctl.inits, t)
           y == [s.ctl EXCEPT !.inits = k]
           u == [s EXCEPT !.ctl = y]
<1>1. s.ctl \in CtlType /\ k \in Seq(Types)
  BY StateFields
<1>2. [s EXCEPT !.ctl.inits = Append(@, t)] = u
  <2>1. [s EXCEPT !.ctl.inits = Append(@, t)] = [s EXCEPT !.ctl = [s.ctl EXCEPT !.inits = Append(@, t)]]
    BY <1>1 DEF StateType
  <2>2. [s.ctl EXCEPT !.inits = Append(@, t)] = y
    BY <1>1 DEF CtlType
  <2>3. QED BY <2>1, <2>2
<1> HIDE DEF k
<1>3. /\ y \in CtlType /\ y.inits = k /\ y.ranges = s.ctl.ranges /\ y.segments = s.ctl.segments
      /\ y.eos = s.ctl.eos /\ y.full = s.ctl.full /\ y.idr = s.ctl.idr
  BY <1>1 DEF CtlType
<1> HIDE DEF y
<1>4. u \in StateType /\ u.ms = s.ms /\ u.sb = s.sb /\ u.ev = s.ev /\ u.feed = s.feed /\ u.ctl = y
  BY <1>3, WithCtl
<1> HIDE DEF u
<1>5. QED BY <1>2, <1>3, <1>4 DEF k

LEMMA BufferMade ==
  ASSUME NEW s \in StateType, NEW t \in Types
  PROVE  LET u == [s EXCEPT !.sb[t].on = TRUE] IN
         /\ u \in StateType /\ u.ms = s.ms /\ u.ev = s.ev /\ u.ctl = s.ctl /\ u.feed = s.feed
         /\ u.sb[t].on = TRUE /\ u.sb[t].job = s.sb[t].job /\ u.sb[t].data = s.sb[t].data
         /\ u.sb[t].buf = s.sb[t].buf
         /\ \A q \in Types \ {t} : u.sb[q] = s.sb[q]
<1> DEFINE b == [s.sb[t] EXCEPT !.on = TRUE]
           u == [s EXCEPT !.sb[t].on = TRUE]
<1>1. s.sb[t] \in SbType /\ s.sb \in [Types -> SbType]
  BY BufferFields, StateFields
<1>2. u.ms = s.ms /\ u.ev = s.ev /\ u.ctl = s.ctl /\ u.feed = s.feed /\ u.sb = [s.sb EXCEPT ![t] = b]
  BY <1>1 DEF StateType
<1>3. b \in SbType /\ b.on = TRUE /\ b.job = s.sb[t].job /\ b.data = s.sb[t].data
      /\ b.buf = s.sb[t].buf
  BY <1>1 DEF SbType
<1> HIDE DEF b, u
<1>4. u.sb \in [Types -> SbType] /\ u.sb[t] = b /\ \A q \in Types \ {t} : u.sb[q] = s.sb[q]
  BY <1>1, <1>2, <1>3
<1>5. u \in StateType
  BY <1>2, <1>4, StateFields DEF StateType, u
<1>6. QED BY <1>2, <1>3, <1>4, <1>5 DEF u

(* While the source is closed, or has ended, the segment waits with the    *)
(* note that its buffer is to be made.                                     *)
LEMMA InitDeferred ==
  ASSUME NEW s, Ok(s), Awake(s), NEW t \in Types, s.feed.inits[t] < MaxInits(t),
         s.ms \in {"closed", "ended"},
         NEW s0 \in StateType, s0.ms = s.ms, s0.sb = s.sb, s0.ev = s.ev, s0.ctl = s.ctl,
         s0.feed.next = s.feed.next, s0.feed.inits[t] = s.feed.inits[t] + 1,
         s0.feed.given[t] = Append(s.feed.given[t], InitSegment),
         \A q \in Types \ {t} : /\ s0.feed.given[q] = s.feed.given[q]
                                /\ s0.feed.inits[q] = s.feed.inits[q],
         s0.feed.base = s.feed.base, s0.feed.done = s.feed.done
  PROVE  Ok(AppendInitSegment(s0, t)) /\ Awake(AppendInitSegment(s0, t))
<1> DEFINE x == [s0 EXCEPT !.ctl.inits = Append(@, t)]
           u == Push(x, t, InitSegment)
<1>0. s \in StateType /\ (\A q \in Types : TrackOk(s, q)) /\ InitSegment \in Segments
  BY Numbering DEF Ok
<1>1. AppendInitSegment(s0, t) = u
  BY DEF AppendInitSegment
<1>2. /\ x \in StateType /\ x.ms = s0.ms /\ x.sb = s0.sb /\ x.ev = s0.ev /\ x.feed = s0.feed
      /\ x.ctl.inits = Append(s0.ctl.inits, t)
      /\ x.ctl.segments = s0.ctl.segments /\ x.ctl.ranges = s0.ctl.ranges
      /\ x.ctl.eos = s0.ctl.eos /\ x.ctl.full = s0.ctl.full /\ x.ctl.idr = s0.ctl.idr
  BY InitKept
<1> HIDE DEF x
<1>3. /\ u \in StateType /\ u.ms = x.ms /\ u.sb = x.sb /\ u.ev = x.ev /\ u.feed = x.feed
      /\ u.ctl.segments[t] = Append(x.ctl.segments[t], InitSegment)
      /\ \A q \in Types \ {t} : u.ctl.segments[q] = x.ctl.segments[q]
      /\ u.ctl.ranges = x.ctl.ranges /\ u.ctl.inits = x.ctl.inits /\ u.ctl.eos = x.ctl.eos
      /\ u.ctl.full = x.ctl.full /\ u.ctl.idr = x.ctl.idr
  <2>1. x \in StateType /\ InitSegment \in Segments
    BY <1>0, <1>2
  <2>2. QED BY <2>1, PushFields
<1> HIDE DEF u
<1>4. /\ u.ms = s.ms /\ u.sb = s.sb /\ u.ev = s.ev /\ u.feed = s0.feed
      /\ u.ctl.segments[t] = Append(s.ctl.segments[t], InitSegment)
      /\ \A q \in Types \ {t} : u.ctl.segments[q] = s.ctl.segments[q]
      /\ u.ctl.ranges = s.ctl.ranges /\ u.ctl.inits = Append(s.ctl.inits, t)
      /\ u.ctl.eos = s.ctl.eos /\ u.ctl.full = s.ctl.full /\ u.ctl.idr = s.ctl.idr
  BY <1>2, <1>3
<1>5. /\ s.feed.inits[t] \in 0..2 /\ s.ctl.inits \in Seq(Types)
      /\ s.ctl.segments[t] \in Seq(Segments)
  BY <1>0, BufferFields, StateFields
<1>6. \A q \in Types : (\E i \in DOMAIN u.ctl.inits : u.ctl.inits[i] = q)
                         <=> (q = t \/ \E i \in DOMAIN s.ctl.inits : s.ctl.inits[i] = q)
  <2> DEFINE l == s.ctl.inits
  <2>1. l \in Seq(Types) /\ u.ctl.inits = Append(l, t)
    BY <1>4, <1>5
  <2> HIDE DEF l
  <2>2. \A q : (\E i \in DOMAIN Append(l, t) : Append(l, t)[i] = q)
                  <=> (q = t \/ \E i \in DOMAIN l : l[i] = q)
    BY <2>1, AppendMembers
  <2>3. \A q : (\E i \in DOMAIN u.ctl.inits : u.ctl.inits[i] = q)
                  <=> (q = t \/ \E i \in DOMAIN l : l[i] = q)
    BY <2>1, <2>2
  <2>4. QED BY <2>3 DEF l
<1>7. ASSUME NEW q \in Types PROVE Opened(u, q)
  <2>1. Opened(s, q)
    BY <1>0 DEF TrackOk
  <2>2. CASE q = t
    <3>1. u.feed.inits[t] > 0
      BY <1>4, <1>5
    <3>2. u.ms = "ended" => s.sb[t].on
      BY <1>4, <2>1, <2>2 DEF Opened
    <3>3. \E i \in DOMAIN u.ctl.inits : u.ctl.inits[i] = q
      BY <1>6, <2>2
    <3>4. QED BY <1>4, <2>1, <2>2, <3>1, <3>2, <3>3 DEF Opened
  <2>3. CASE q # t
    <3>1. (\E i \in DOMAIN u.ctl.inits : u.ctl.inits[i] = q)
            <=> \E i \in DOMAIN s.ctl.inits : s.ctl.inits[i] = q
      BY <1>6, <2>3
    <3>2. QED BY <1>4, <2>1, <2>3, <3>1 DEF Opened
  <2>4. QED BY <2>2, <2>3
<1>8. Ok(u)
  <2>1. /\ u.sb[t].job = s.sb[t].job /\ u.sb[t].data = s.sb[t].data
        /\ u.sb[t].buf = s.sb[t].buf /\ (s.sb[t].on => u.sb[t].on)
        /\ u.feed.next = s.feed.next /\ u.feed.inits[t] = s.feed.inits[t] + 1
        /\ u.feed.given[t] = Append(s.feed.given[t], InitSegment)
        /\ u.feed.base = s.feed.base /\ u.feed.done = s.feed.done
        /\ \A q \in Types \ {t} : /\ u.sb[q] = s.sb[q] /\ u.ctl.segments[q] = s.ctl.segments[q]
                                  /\ u.feed.given[q] = s.feed.given[q]
                                  /\ u.feed.inits[q] = s.feed.inits[q]
        /\ u \in StateType /\ u.ms = s.ms /\ u.ctl.ranges = s.ctl.ranges /\ u.ctl.idr = s.ctl.idr
        /\ u.ctl.segments[t] = Append(s.ctl.segments[t], InitSegment)
        /\ Ok(s) /\ t \in Types /\ s.feed.inits[t] < MaxInits(t)
    BY <1>3, <1>4
  <2>2. \A q \in Types : Opened(u, q)
    BY <1>7
  <2>3. QED BY ONLY <2>1, <2>2, InitHanded
<1>9. Awake(u)
  <2>1. \A q \in Types : Awaits(u, q) => Awaits(s, q)
    <3>1. ASSUME NEW i \in DOMAIN u.ctl.segments[t], u.ctl.segments[t][i] # InitSegment
          PROVE  \E k \in DOMAIN s.ctl.segments[t] : s.ctl.segments[t][k] # InitSegment
      <4> DEFINE l == s.ctl.segments[t]
      <4>1. l \in Seq(Segments) /\ u.ctl.segments[t] = Append(l, InitSegment)
        BY <1>4, <1>5
      <4> HIDE DEF l
      <4>2. \E k \in DOMAIN Append(l, InitSegment) : Append(l, InitSegment)[k] = u.ctl.segments[t][i]
        BY <3>1, <4>1
      <4>3. \E k \in DOMAIN l : l[k] = u.ctl.segments[t][i]
        BY <3>1, <4>1, <4>2, AppendMembers
      <4>4. QED BY <3>1, <4>3 DEF l
    <3>2. Awaits(u, t) => Awaits(s, t)
      <4>1. u.sb[t].on = s.sb[t].on
        BY <1>4
      <4>2. QED BY ONLY <3>1, <4>1 DEF Awaits
    <3>3. \A q \in Types \ {t} : Awaits(u, q) => Awaits(s, q)
      BY <1>4 DEF Awaits
    <3>4. QED BY <3>2, <3>3
  <2>2. Alert(s) => Alert(u)
    BY <1>4 DEF Alert, Stirring
  <2>3. QED BY <1>4, <2>1, <2>2 DEF Awake
<1>10. QED BY <1>1, <1>8, <1>9

(* In an open source the buffer is there, and takes up what waits unless   *)
(* it is new or works.                                                     *)
LEMMA InitTaken ==
  ASSUME NEW s, Ok(s), Awake(s), NEW t \in Types, s.feed.inits[t] < MaxInits(t), s.ms = "open",
         s.feed.inits[t] > 0 => NoRanges(s),
         NEW s0 \in StateType, s0.ms = s.ms, s0.sb = s.sb, s0.ev = s.ev, s0.ctl = s.ctl,
         s0.feed.next = s.feed.next, s0.feed.inits[t] = s.feed.inits[t] + 1,
         s0.feed.given[t] = Append(s.feed.given[t], InitSegment),
         \A q \in Types \ {t} : /\ s0.feed.given[q] = s.feed.given[q]
                                /\ s0.feed.inits[q] = s.feed.inits[q],
         s0.feed.base = s.feed.base, s0.feed.done = s.feed.done
  PROVE  Ok(AppendInitSegment(s0, t)) /\ Awake(AppendInitSegment(s0, t))
<1> DEFINE x == [s0 EXCEPT !.sb[t].on = TRUE]
           u == Push(x, t, InitSegment)
<1>0. s \in StateType /\ (\A q \in Types : TrackOk(s, q)) /\ InitSegment \in Segments
  BY Numbering DEF Ok
<1>1. AppendInitSegment(s0, t)
        = IF ~s.sb[t].on \/ Updating(s.sb[t]) THEN u ELSE DoAppendSegments(u)
  BY DEF AppendInitSegment
<1>2. /\ x \in StateType /\ x.ms = s0.ms /\ x.ev = s0.ev /\ x.ctl = s0.ctl /\ x.feed = s0.feed
      /\ x.sb[t].on = TRUE /\ x.sb[t].job = s0.sb[t].job /\ x.sb[t].data = s0.sb[t].data
      /\ x.sb[t].buf = s0.sb[t].buf
      /\ \A q \in Types \ {t} : x.sb[q] = s0.sb[q]
  BY BufferMade
<1> HIDE DEF x
<1>3. /\ u \in StateType /\ u.ms = x.ms /\ u.sb = x.sb /\ u.ev = x.ev /\ u.feed = x.feed
      /\ u.ctl.segments[t] = Append(x.ctl.segments[t], InitSegment)
      /\ \A q \in Types \ {t} : u.ctl.segments[q] = x.ctl.segments[q]
      /\ u.ctl.ranges = x.ctl.ranges /\ u.ctl.inits = x.ctl.inits /\ u.ctl.eos = x.ctl.eos
      /\ u.ctl.full = x.ctl.full /\ u.ctl.idr = x.ctl.idr
  <2>1. x \in StateType /\ InitSegment \in Segments
    BY <1>0, <1>2
  <2>2. QED BY <2>1, PushFields
<1> HIDE DEF u
<1>4. /\ u.ms = s.ms /\ u.ev = s.ev /\ u.feed = s0.feed
      /\ u.sb[t].on = TRUE /\ u.sb[t].job = s.sb[t].job /\ u.sb[t].data = s.sb[t].data
      /\ u.sb[t].buf = s.sb[t].buf
      /\ u.ctl.segments[t] = Append(s.ctl.segments[t], InitSegment)
      /\ \A q \in Types \ {t} : u.sb[q] = s.sb[q] /\ u.ctl.segments[q] = s.ctl.segments[q]
      /\ u.ctl.ranges = s.ctl.ranges /\ u.ctl.inits = s.ctl.inits
      /\ u.ctl.eos = s.ctl.eos /\ u.ctl.full = s.ctl.full /\ u.ctl.idr = s.ctl.idr
  BY <1>2, <1>3
<1>5. s.feed.inits[t] \in 0..2 /\ s.ctl.segments[t] \in Seq(Segments)
  BY <1>0, BufferFields
<1>6. ASSUME NEW q \in Types PROVE Opened(u, q)
  <2>1. Opened(s, q)
    BY <1>0 DEF TrackOk
  <2>2. CASE q = t
    <3>1. u.feed.inits[t] > 0
      BY <1>4, <1>5
    <3>2. QED BY <1>4, <2>1, <2>2, <3>1 DEF Opened
  <2>3. CASE q # t
    BY <1>4, <2>1, <2>3 DEF Opened
  <2>4. QED BY <2>2, <2>3
<1>7. Ok(u)
  <2>1. /\ (s.sb[t].on => u.sb[t].on)
        /\ u.feed.next = s.feed.next /\ u.feed.inits[t] = s.feed.inits[t] + 1
        /\ u.feed.given[t] = Append(s.feed.given[t], InitSegment)
        /\ u.feed.base = s.feed.base /\ u.feed.done = s.feed.done
        /\ \A q \in Types \ {t} : /\ u.sb[q] = s.sb[q] /\ u.ctl.segments[q] = s.ctl.segments[q]
                                  /\ u.feed.given[q] = s.feed.given[q]
                                  /\ u.feed.inits[q] = s.feed.inits[q]
        /\ u.sb[t].job = s.sb[t].job /\ u.sb[t].data = s.sb[t].data /\ u.sb[t].buf = s.sb[t].buf
        /\ u \in StateType /\ u.ms = s.ms /\ u.ctl.ranges = s.ctl.ranges /\ u.ctl.idr = s.ctl.idr
        /\ u.ctl.segments[t] = Append(s.ctl.segments[t], InitSegment)
        /\ Ok(s) /\ t \in Types /\ s.feed.inits[t] < MaxInits(t)
    BY <1>3, <1>4
  <2>2. \A q \in Types : Opened(u, q)
    BY <1>6
  <2>3. QED BY ONLY <2>1, <2>2, InitHanded
<1>8. CASE s.sb[t].on /\ ~Updating(s.sb[t])
  <2>1. s.feed.inits[t] > 0
    BY <1>0, <1>8 DEF TrackOk, Opened
  <2>2. NoRanges(u)
    BY <1>4, <2>1 DEF NoRanges, HasPendingRemoveRanges
  <2>3. QED BY <1>1, <1>7, <1>8, <2>2, DoAppendSegmentsOk
<1>9. CASE ~(s.sb[t].on /\ ~Updating(s.sb[t]))
  <2>1. \A q \in Types \ {t} : Awaits(u, q) => Awaits(s, q)
    BY <1>4 DEF Awaits
  <2>2. Alert(s) => Alert(u)
    BY <1>4 DEF Alert, Stirring, Updating
  <2>3. Awaits(u, t) => Alert(u)
    <3>1. CASE ~s.sb[t].on
      <4>1. s.ctl.segments[t] = <<>>
        BY <1>0, <3>1 DEF TrackOk, Opened
      <4>2. u.ctl.segments[t] = <<InitSegment>>
        BY <1>4, <4>1
      <4>3. QED BY <4>2 DEF Awaits
    <3>2. CASE s.sb[t].on /\ Updating(s.sb[t])
      BY <1>4, <3>2 DEF Alert, Stirring, Updating
    <3>3. QED BY <1>9, <3>1, <3>2
  <2>4. Awake(u)
    BY <1>4, <2>1, <2>2, <2>3 DEF Awake
  <2>5. QED BY <1>1, <1>7, <1>9, <2>4
<1>10. QED BY <1>8, <1>9

-----------------------------------------------------------------------------
(* _onSourceOpen: no buffer was there before, so nothing is to be removed. *)

LEMMA OnSourceOpenOk ==
  ASSUME NEW s, Ok(s), s.ms = "closed"
  PROVE  Ok(OnSourceOpen(s)) /\ Awake(OnSourceOpen(s))
<1> DEFINE kept == {s.ctl.inits[i] : i \in DOMAIN s.ctl.inits}
           bs == [t \in Types |-> [s.sb[t] EXCEPT !.on = s.sb[t].on \/ t \in kept]]
           y == [s.ctl EXCEPT !.inits = <<>>]
           s1 == [s EXCEPT !.ms = "open", !.ctl.inits = <<>>, !.sb = bs]
<1>0. s \in StateType /\ \A q \in Types : TrackOk(s, q)
  BY DEF Ok
<1>1. \A t \in Types : t \in kept <=> \E i \in DOMAIN s.ctl.inits : s.ctl.inits[i] = t
  OBVIOUS
<1> HIDE DEF kept
<1>2. /\ bs \in [Types -> SbType]
      /\ \A t \in Types : /\ bs[t].on = (s.sb[t].on \/ t \in kept) /\ bs[t].job = s.sb[t].job
                          /\ bs[t].data = s.sb[t].data /\ bs[t].buf = s.sb[t].buf
  <2>1. \A t \in Types : s.sb[t] \in SbType
    BY <1>0, BufferFields
  <2>2. ASSUME NEW t \in Types
        PROVE  LET b == [s.sb[t] EXCEPT !.on = s.sb[t].on \/ t \in kept] IN
               /\ b \in SbType /\ b.on = (s.sb[t].on \/ t \in kept) /\ b.job = s.sb[t].job
               /\ b.data = s.sb[t].data /\ b.buf = s.sb[t].buf
    BY <2>1 DEF SbType
  <2>3. QED BY <2>2
<1> HIDE DEF bs
<1>3. /\ y \in CtlType /\ y.inits = <<>> /\ y.ranges = s.ctl.ranges /\ y.segments = s.ctl.segments
      /\ y.eos = s.ctl.eos /\ y.full = s.ctl.full /\ y.idr = s.ctl.idr
  <2>1. s.ctl \in CtlType /\ <<>> \in Seq(Types)
    BY <1>0, StateFields
  <2>2. QED BY <2>1 DEF CtlType
<1>4. /\ s1 \in StateType /\ s1.ms = "open" /\ s1.sb = bs /\ s1.ev = s.ev /\ s1.feed = s.feed
      /\ s1.ctl = y
  <2>1. s1.ms = "open" /\ s1.sb = bs /\ s1.ev = s.ev /\ s1.feed = s.feed /\ s1.ctl = y
    BY <1>0 DEF StateType
  <2> HIDE DEF y
  <2>2. s1 \in StateType
    BY <1>0, <1>2, <1>3, <2>1, StateFields DEF StateType
  <2>3. QED BY <2>1, <2>2 DEF y
<1>5. OnSourceOpen(s) = IF HasPendingSegments(s1) THEN DoAppendSegments(s1) ELSE s1
  BY DEF OnSourceOpen, bs, kept
<1> HIDE DEF s1, y
<1>6. \A t \in Types : ~s.sb[t].on /\ s.ctl.ranges[t] = <<>> /\ s.sb[t].job = "none"
  BY <1>0 DEF TrackOk, Opened, BufferOk
<1>7. \A t \in Types : /\ s1.sb[t].on = (t \in kept) /\ s1.sb[t].job = s.sb[t].job
                       /\ s1.sb[t].data = s.sb[t].data /\ s1.sb[t].buf = s.sb[t].buf
  BY <1>2, <1>4, <1>6
<1>8. ASSUME NEW t \in Types PROVE TrackOk(s1, t)
  <2>1. Lossless(s, t) /\ BufferOk(s, t) /\ Fresh(s, t) /\ Opened(s, t)
    BY <1>0 DEF TrackOk
  <2>2. Lossless(s1, t)
    BY <1>3, <1>4, <1>7, <2>1 DEF Lossless, Working
  <2>3. BufferOk(s1, t)
    BY <1>3, <1>4, <1>6, <1>7, <2>1 DEF BufferOk
  <2>4. Fresh(s1, t)
    <3>1. Old(s1, t) = Old(s, t)
      BY <1>4, <1>7 DEF Old
    <3>2. \A n : AfterSeek(s1, t, n) <=> AfterSeek(s, t, n)
      BY <1>4 DEF AfterSeek
    <3>3. /\ s1.sb[t].buf = s.sb[t].buf /\ s1.sb[t].job = s.sb[t].job
          /\ s1.sb[t].data = s.sb[t].data /\ s1.ctl.segments[t] = s.ctl.segments[t]
          /\ s1.ctl.ranges[t] = s.ctl.ranges[t] /\ s1.feed = s.feed
      BY <1>3, <1>4, <1>7
    <3>4. QED BY <2>1, <3>1, <3>2, <3>3 DEF Fresh
  <2>5. Opened(s1, t)
    BY <1>1, <1>3, <1>4, <1>7, <2>1 DEF Opened
  <2>6. QED BY <2>2, <2>3, <2>4, <2>5 DEF TrackOk
<1>9. Ok(s1) /\ NoRanges(s1)
  BY <1>3, <1>4, <1>6, <1>8 DEF Ok, IdrFresh, NoRanges, HasPendingRemoveRanges
<1>10. CASE HasPendingSegments(s1)
  BY <1>5, <1>9, <1>10, DoAppendSegmentsOk
<1>11. CASE ~HasPendingSegments(s1)
  <2>1. Awake(s1)
    BY <1>9, <1>11, EmptyDomain DEF Awake, Awaits, NoRanges, HasPendingRemoveRanges, HasPendingSegments
  <2>2. QED BY <1>5, <1>9, <1>11, <2>1
<1>12. QED BY <1>10, <1>11

-----------------------------------------------------------------------------
(* seek.                                                                   *)

LEMMA AbortFields ==
  ASSUME NEW s \in StateType, NEW t \in Types
  PROVE  /\ Abort(s, t) \in StateType
         /\ Abort(s, t).ms = s.ms /\ Abort(s, t).ctl = s.ctl /\ Abort(s, t).feed = s.feed
         /\ Abort(s, t).sb[t].on = s.sb[t].on /\ Abort(s, t).sb[t].buf = s.sb[t].buf
         /\ \A q \in Types \ {t} : Abort(s, t).sb[q] = s.sb[q]
         /\ IF s.ms = "open" /\ s.sb[t].job = "append"
            THEN Abort(s, t).sb[t].job = "none" /\ Abort(s, t).ev[t] > 0
            ELSE Abort(s, t) = s
         /\ \A q \in Types : Abort(s, t).ev[q] >= s.ev[q]
<1>1. CASE ~(s.ms = "open" /\ s.sb[t].job = "append")
  <2>1. Abort(s, t) = s /\ \A q \in Types : s.ev[q] \in Nat
    BY <1>1, BufferFields DEF Abort
  <2>2. QED BY <1>1, <2>1
<1>2. CASE s.ms = "open" /\ s.sb[t].job = "append"
  <2> DEFINE b == [s.sb[t] EXCEPT !.job = "none", !.data = NoData]
             e == s.ev[t] + 1
             u == [s EXCEPT !.sb[t].job = "none", !.sb[t].data = NoData, !.ev[t] = @ + 1]
  <2>1. Abort(s, t) = u
    BY <1>2 DEF Abort
  <2>2. s.sb[t] \in SbType /\ s.sb \in [Types -> SbType] /\ s.ev \in [Types -> Nat] /\ e \in Nat /\ e > 0
        /\ \A q \in Types : s.ev[q] \in Nat
    BY BufferFields, StateFields
  <2>3. /\ u.ms = s.ms /\ u.ctl = s.ctl /\ u.feed = s.feed
        /\ u.sb = [s.sb EXCEPT ![t] = b] /\ u.ev = [s.ev EXCEPT ![t] = e]
    BY <2>2 DEF StateType, SbType
  <2>4. b \in SbType /\ b.on = s.sb[t].on /\ b.buf = s.sb[t].buf /\ b.job = "none"
    BY <2>2 DEF SbType
  <2> HIDE DEF b, u
  <2>5. /\ u.sb \in [Types -> SbType] /\ u.ev \in [Types -> Nat] /\ u.sb[t] = b /\ u.ev[t] = e
        /\ \A q \in Types \ {t} : u.sb[q] = s.sb[q] /\ u.ev[q] = s.ev[q]
    BY <2>2, <2>3, <2>4
  <2>6. u \in StateType
    BY <2>3, <2>5, StateFields DEF StateType, u
  <2>7. \A q \in Types : u.ev[q] >= s.ev[q]
    BY <2>2, <2>5
  <2>8. QED BY <1>2, <2>1, <2>2, <2>3, <2>4, <2>5, <2>6, <2>7
<1>3. QED BY <1>1, <1>2

(* A track is cleared: what its buffer holds is to go.                     *)
LEMMA ClearedFields ==
  ASSUME NEW s \in StateType, NEW t \in Types
  PROVE  LET u == ClearTrack(s, t)
             rs == IF s.sb[t].buf = {} THEN s.ctl.ranges[t]
                   ELSE Append(s.ctl.ranges[t], s.sb[t].buf)
         IN
         /\ u \in StateType /\ u.ms = s.ms /\ u.sb = s.sb /\ u.ev = s.ev
         /\ u.ctl.idr = {} /\ u.ctl.segments[t] = <<>> /\ u.ctl.ranges[t] = rs
         /\ u.ctl.inits = s.ctl.inits /\ u.ctl.eos = s.ctl.eos /\ u.ctl.full = s.ctl.full
         /\ u.feed.given[t] = <<>> /\ u.feed.done[t] = <<>> /\ u.feed.base[t] = s.feed.next
         /\ u.feed.next = s.feed.next /\ u.feed.inits = s.feed.inits
         /\ \A q \in Types \ {t} :
              /\ u.ctl.segments[q] = s.ctl.segments[q] /\ u.ctl.ranges[q] = s.ctl.ranges[q]
              /\ u.feed.given[q] = s.feed.given[q] /\ u.feed.done[q] = s.feed.done[q]
              /\ u.feed.base[q] = s.feed.base[q]
<1> DEFINE rs == IF s.sb[t].buf = {} THEN s.ctl.ranges[t]
                 ELSE Append(s.ctl.ranges[t], s.sb[t].buf)
           base == s.feed.next
           y == [s.ctl EXCEPT !.idr = {}, !.segments[t] = <<>>, !.ranges[t] = rs]
           z == [s.feed EXCEPT !.given[t] = <<>>, !.done[t] = <<>>, !.base[t] = base]
           u == ClearTrack(s, t)
<1>1. /\ s.ctl \in CtlType /\ s.feed \in FeedType /\ <<>> \in Seq(Segments)
      /\ s.ctl.segments \in [Types -> Seq(Segments)] /\ s.ctl.ranges \in [Types -> Seq(SUBSET Numbers)]
      /\ s.feed.given \in [Types -> Seq(Segments)] /\ s.feed.done \in [Types -> Seq(Segments)]
      /\ s.feed.base \in [Types -> 1..(MaxSegments + 1)] /\ base \in 1..(MaxSegments + 1)
      /\ t \in Types
  <2>1. <<>> \in Seq(Segments)
    OBVIOUS
  <2>2. QED BY <2>1, StateFields
<1>2. rs \in Seq(SUBSET Numbers)
  <2>1. s.ctl.ranges[t] \in Seq(SUBSET Numbers) /\ s.sb[t].buf \in SUBSET Numbers
    BY BufferFields
  <2>2. QED BY <2>1
<1>3. u = [s EXCEPT !.ctl = y, !.feed = z]
  BY DEF ClearTrack
<1>4. u.ms = s.ms /\ u.sb = s.sb /\ u.ev = s.ev /\ u.ctl = y /\ u.feed = z
  <2> HIDE DEF y, z, u
  <2>1. QED BY <1>3 DEF StateType
<1> HIDE DEF rs, base
<1>5. /\ y \in CtlType /\ y.idr = {} /\ y.segments = [s.ctl.segments EXCEPT ![t] = <<>>]
      /\ y.ranges = [s.ctl.ranges EXCEPT ![t] = rs]
      /\ y.inits = s.ctl.inits /\ y.eos = s.ctl.eos /\ y.full = s.ctl.full
  BY <1>1, <1>2 DEF CtlType
<1>6. /\ z \in FeedType /\ z.given = [s.feed.given EXCEPT ![t] = <<>>]
      /\ z.done = [s.feed.done EXCEPT ![t] = <<>>] /\ z.base = [s.feed.base EXCEPT ![t] = base]
      /\ z.next = s.feed.next /\ z.inits = s.feed.inits
  BY <1>1 DEF FeedType
<1> HIDE DEF y, z, u
<1>7. u \in StateType
  BY <1>3, <1>5, <1>6, StateFields DEF StateType
<1>8. /\ u.ctl.segments[t] = <<>> /\ u.ctl.ranges[t] = rs
      /\ \A q \in Types \ {t} :
           u.ctl.segments[q] = s.ctl.segments[q] /\ u.ctl.ranges[q] = s.ctl.ranges[q]
  BY ONLY <1>1, <1>4, <1>5
<1>9. /\ u.feed.given[t] = <<>> /\ u.feed.done[t] = <<>> /\ u.feed.base[t] = base
      /\ \A q \in Types \ {t} :
           /\ u.feed.given[q] = s.feed.given[q] /\ u.feed.done[q] = s.feed.done[q]
           /\ u.feed.base[q] = s.feed.base[q]
  BY ONLY <1>1, <1>4, <1>6
<1>10. QED BY <1>4, <1>5, <1>6, <1>7, <1>8, <1>9 DEF u, rs, base

(* What a seek writes for a track whose buffer is there: s1 is the state    *)
(* after the abort, s2 the one after the track is cleared, rs its ranges.  *)
Aborted(s, t, s1) ==
  /\ s.sb[t].on /\ s1 \in StateType /\ s1.ms = s.ms /\ s1.ctl = s.ctl /\ s1.feed = s.feed
  /\ s1.sb[t].on = s.sb[t].on /\ s1.sb[t].buf = s.sb[t].buf
  /\ \A q \in Types \ {t} : s1.sb[q] = s.sb[q]
  /\ \/ s1.sb[t].job = "none" /\ s1.ev[t] > 0
     \/ s1 = s /\ ~(s.ms = "open" /\ s.sb[t].job = "append")

Cleared(s1, t, s2, rs) ==
  /\ s1.sb[t].buf = {} \/ \E i \in DOMAIN rs : rs[i] = s1.sb[t].buf
  /\ s2 \in StateType /\ s2.ms = s1.ms /\ s2.sb = s1.sb /\ s2.ev = s1.ev
  /\ s2.ctl.idr = {} /\ s2.ctl.segments[t] = <<>> /\ s2.ctl.ranges[t] = rs
  /\ s2.ctl.inits = s1.ctl.inits /\ s2.ctl.eos = s1.ctl.eos /\ s2.ctl.full = s1.ctl.full
  /\ s2.feed.given[t] = <<>> /\ s2.feed.done[t] = <<>> /\ s2.feed.base[t] = s1.feed.next
  /\ s2.feed.next = s1.feed.next /\ s2.feed.inits = s1.feed.inits
  /\ \A q \in Types \ {t} :
       /\ s2.ctl.segments[q] = s1.ctl.segments[q] /\ s2.ctl.ranges[q] = s1.ctl.ranges[q]
       /\ s2.feed.given[q] = s1.feed.given[q] /\ s2.feed.done[q] = s1.feed.done[q]
       /\ s2.feed.base[q] = s1.feed.base[q]

LEMMA SeekCleared ==
  ASSUME NEW s, Ok(s), Awake(s), NEW t \in Types, NEW s1, NEW s2, NEW rs,
         Aborted(s, t, s1), Cleared(s1, t, s2, rs)
  PROVE  Ok(s2) /\ \A q \in Types : Awaits(s2, q) => Alert(s2)
<1> USE DEF Aborted, Cleared
<1>1. /\ s \in StateType /\ (\A q \in Types : TrackOk(s, q))
      /\ s.feed.next \in Nat /\ s.sb[t].buf \subseteq Nat
  BY BufferFields DEF Ok
<1>2. s2.sb[t].job # "append"
  BY <1>1 DEF TrackOk, BufferOk
<1>3. TrackOk(s2, t)
  <2>1. Lossless(s2, t)
    BY <1>2 DEF Lossless, Working
  <2>2. BufferOk(s2, t)
    <3>1. BufferOk(s, t) /\ s2.sb[t].on
      BY <1>1 DEF TrackOk
    <3>2. s2.sb[t].job = "none" \/ (s2.sb[t] = s.sb[t] /\ s2.ms = s.ms)
      OBVIOUS
    <3>3. QED BY <1>2, <3>1, <3>2 DEF BufferOk
  <2>3. Fresh(s2, t)
    <3>1. s2.sb[t].buf = s.sb[t].buf /\ s2.feed.base[t] = s.feed.next /\ s2.feed.next = s.feed.next
      OBVIOUS
    <3>2. \A n \in s.sb[t].buf : n < s.feed.next
      BY <1>1 DEF TrackOk, Fresh
    <3>3. Old(s2, t) = s2.sb[t].buf
      BY <3>1, <3>2 DEF Old
    <3>4. Old(s2, t) = {} \/ \E i \in DOMAIN s2.ctl.ranges[t] : Old(s2, t) \subseteq s2.ctl.ranges[t][i]
      BY <3>1, <3>3
    <3>5. s2.feed.base[t] <= s2.feed.next
      BY <1>1, <3>1
    <3>6. DOMAIN s2.ctl.segments[t] = {}
      BY EmptyDomain
    <3>7. QED BY <1>2, <3>1, <3>2, <3>3, <3>4, <3>5, <3>6 DEF Fresh
  <2>4. Opened(s2, t)
    <3>1. Opened(s, t)
      BY <1>1 DEF TrackOk
    <3>2. /\ s2.ms = s.ms /\ s2.sb[t].on = s.sb[t].on /\ s2.feed.inits = s.feed.inits
          /\ s2.ctl.inits = s.ctl.inits /\ s2.ctl.eos = s.ctl.eos /\ s2.ctl.segments[t] = <<>>
      OBVIOUS
    <3>3. QED BY ONLY <3>1, <3>2 DEF Opened
  <2>5. QED BY <2>1, <2>2, <2>3, <2>4 DEF TrackOk
<1>4. \A q \in Types \ {t} : TrackOk(s2, q)
  <2>1. \A q \in Types \ {t} : SameTrack(s, s2, q)
    BY <1>1 DEF SameTrack, SameQueue
  <2>2. SameSource(s, s2)
    BY DEF SameSource
  <2>3. QED BY <1>1, <2>1, <2>2, TrackFrame
<1>5. Ok(s2)
  BY <1>3, <1>4 DEF Ok, IdrFresh
<1>6. Alert(s) => Alert(s2)
  BY DEF Alert, Stirring
<1>7. \A q \in Types : Awaits(s2, q) => Alert(s2)
  <2>1. ~Awaits(s2, t)
    BY EmptyDomain DEF Awaits
  <2>2. \A q \in Types \ {t} : Awaits(s2, q) => Awaits(s, q)
    BY DEF Awaits
  <2>3. QED BY <1>6, <2>1, <2>2 DEF Awake
<1>8. QED BY <1>5, <1>7

LEMMA SeekTrackOk ==
  ASSUME NEW s, Ok(s), Awake(s), NEW t \in Types
  PROVE  Ok(SeekTrack(s, t)) /\ Awake(SeekTrack(s, t))
<1>0. s \in StateType
  BY DEF Ok
<1>1. CASE ~s.sb[t].on
  BY <1>1 DEF SeekTrack
<1>2. CASE s.sb[t].on
  <2> DEFINE s1 == Abort(s, t)
             rs == IF s1.sb[t].buf = {} THEN s1.ctl.ranges[t]
                   ELSE Append(s1.ctl.ranges[t], s1.sb[t].buf)
             s2 == ClearTrack(s1, t)
             u == IF Updating(s2.sb[t]) THEN s2 ELSE DoRemoveRanges(s2)
  <2>1. /\ s1 \in StateType /\ s1.ms = s.ms /\ s1.ctl = s.ctl /\ s1.feed = s.feed
        /\ s1.sb[t].on = s.sb[t].on /\ s1.sb[t].buf = s.sb[t].buf
        /\ \A q \in Types \ {t} : s1.sb[q] = s.sb[q]
        /\ \/ s1.sb[t].job = "none" /\ s1.ev[t] > 0
           \/ s1 = s /\ ~(s.ms = "open" /\ s.sb[t].job = "append")
    BY <1>0, AbortFields
  <2>2. SeekTrack(s, t) = u
    BY <1>2 DEF SeekTrack
  <2> HIDE DEF s1
  <2>3. s.ctl.ranges[t] \in Seq(SUBSET Numbers) /\ s.sb[t].buf \in SUBSET Numbers
    BY <1>0, BufferFields
  <2>4. s.sb[t].buf = {} \/ \E i \in DOMAIN rs : rs[i] = s.sb[t].buf
    <3>1. CASE s.sb[t].buf # {}
      <4> DEFINE l == s.ctl.ranges[t]
      <4>1. l \in Seq(SUBSET Numbers) /\ rs = Append(l, s.sb[t].buf)
        BY <2>1, <2>3, <3>1
      <4> HIDE DEF l, rs
      <4>2. QED BY <4>1, AppendMembers
    <3>2. QED BY <3>1
  <2>5. /\ s2 \in StateType /\ s2.ms = s1.ms /\ s2.sb = s1.sb /\ s2.ev = s1.ev
        /\ s2.ctl.idr = {} /\ s2.ctl.segments[t] = <<>> /\ s2.ctl.ranges[t] = rs
        /\ s2.ctl.inits = s1.ctl.inits /\ s2.ctl.eos = s1.ctl.eos /\ s2.ctl.full = s1.ctl.full
        /\ s2.feed.given[t] = <<>> /\ s2.feed.done[t] = <<>> /\ s2.feed.base[t] = s1.feed.next
        /\ s2.feed.next = s1.feed.next /\ s2.feed.inits = s1.feed.inits
        /\ \A q \in Types \ {t} :
             /\ s2.ctl.segments[q] = s1.ctl.segments[q] /\ s2.ctl.ranges[q] = s1.ctl.ranges[q]
             /\ s2.feed.given[q] = s1.feed.given[q] /\ s2.feed.done[q] = s1.feed.done[q]
             /\ s2.feed.base[q] = s1.feed.base[q]
    BY <2>1, ClearedFields
  <2> HIDE DEF rs, s2
  <2>6. Aborted(s, t, s1) /\ Cleared(s1, t, s2, rs)
    <3>1. Aborted(s, t, s1)
      BY ONLY <1>2, <2>1 DEF Aborted
    <3>2. Cleared(s1, t, s2, rs)
      BY ONLY <2>1, <2>4, <2>5 DEF Cleared
    <3>3. QED BY <3>1, <3>2
  <2>7. Ok(s2) /\ \A q \in Types : Awaits(s2, q) => Alert(s2)
    BY <2>6, SeekCleared
  <2>8. Ok(u) /\ Awake(u)
    <3>1. CASE Updating(s2.sb[t])
      BY <2>7, <3>1 DEF Awake, Alert, Stirring
    <3>2. CASE ~Updating(s2.sb[t]) /\ HasPendingRemoveRanges(s2)
      BY <2>7, <3>2, DoRemoveRangesOk DEF Awake, Alert
    <3>3. CASE ~Updating(s2.sb[t]) /\ ~HasPendingRemoveRanges(s2)
      BY <2>7, <3>3, DoRemoveRangesOk DEF Awake, HasPendingRemoveRanges
    <3>4. QED BY <3>1, <3>2, <3>3
  <2>9. QED BY <2>2, <2>8
<1>3. QED BY <1>1, <1>2

-----------------------------------------------------------------------------
(* endOfStream and _onSourceBufferUpdateEnd.                               *)

LEMMA EndOfStreamOk ==
  ASSUME NEW s, Ok(s), Awake(s), \A t \in Types : s.feed.inits[t] > 0
  PROVE  Ok(EndOfStream(s)) /\ Awake(EndOfStream(s))
<1> DEFINE u == EndOfStream(s)
<1>0. s \in StateType /\ s.ctl \in CtlType /\ \A q \in Types : TrackOk(s, q)
  BY StateFields DEF Ok
<1>1. \/ u = s
      \/ u = [s EXCEPT !.ctl.eos = TRUE]
      \/ /\ s.ms = "open" /\ \A t \in Types : ~Updating(s.sb[t])
         /\ u = [s EXCEPT !.ctl.eos = FALSE, !.ms = "ended"]
  BY DEF EndOfStream
<1>3. ASSUME NEW x \in StateType, x.sb = s.sb, x.ev = s.ev, x.feed = s.feed,
             x.ctl.segments = s.ctl.segments, x.ctl.ranges = s.ctl.ranges,
             x.ctl.inits = s.ctl.inits, x.ctl.full = s.ctl.full, x.ctl.idr = s.ctl.idr,
             x.ms = s.ms \/ (x.ms = "ended" /\ s.ms = "open" /\ \A t \in Types : ~Updating(s.sb[t]))
      PROVE  Ok(x) /\ Awake(x)
  <2>1. ASSUME NEW t \in Types PROVE TrackOk(x, t)
    <3>1. Lossless(s, t) /\ BufferOk(s, t) /\ Fresh(s, t) /\ Opened(s, t)
      BY <1>0 DEF TrackOk
    <3>2. Lossless(x, t)
      BY <1>3, <3>1 DEF Lossless
    <3>3. BufferOk(x, t)
      BY <1>3, <3>1 DEF BufferOk, Updating
    <3>4. Fresh(x, t)
      BY <1>3, <3>1 DEF Fresh, Old, AfterSeek
    <3>5. Opened(x, t)
      BY <1>3, <3>1 DEF Opened
    <3>6. QED BY <3>2, <3>3, <3>4, <3>5 DEF TrackOk
  <2>2. Ok(x)
    BY <1>3, <2>1 DEF Ok, IdrFresh
  <2>3. Awake(x)
    BY <1>3 DEF Awake, Awaits, Alert, Stirring
  <2>4. QED BY <2>2, <2>3
<1>4. CASE u = s
  BY <1>4
<1>5. CASE u = [s EXCEPT !.ctl.eos = TRUE]
  <2> DEFINE y == [s.ctl EXCEPT !.eos = TRUE]
  <2>1. /\ y \in CtlType /\ y.segments = s.ctl.segments /\ y.ranges = s.ctl.ranges
        /\ y.inits = s.ctl.inits /\ y.full = s.ctl.full /\ y.idr = s.ctl.idr
    BY <1>0 DEF CtlType
  <2>a. u = [s EXCEPT !.ctl = y]
    BY <1>5
  <2> HIDE DEF u, y
  <2>2. /\ u \in StateType /\ u.ms = s.ms /\ u.sb = s.sb /\ u.ev = s.ev /\ u.feed = s.feed
        /\ u.ctl = y
    BY <1>0, <2>1, <2>a, WithCtl
  <2>3. Ok(u) /\ Awake(u)
    BY <1>3, <2>1, <2>2
  <2>4. QED BY <2>3 DEF u
<1>6. CASE /\ s.ms = "open" /\ \A t \in Types : ~Updating(s.sb[t])
           /\ u = [s EXCEPT !.ctl.eos = FALSE, !.ms = "ended"]
  <2> DEFINE y == [s.ctl EXCEPT !.eos = FALSE]
  <2>1. /\ y \in CtlType /\ y.segments = s.ctl.segments /\ y.ranges = s.ctl.ranges
        /\ y.inits = s.ctl.inits /\ y.full = s.ctl.full /\ y.idr = s.ctl.idr
    BY <1>0 DEF CtlType
  <2>2. u.ms = "ended" /\ u.sb = s.sb /\ u.ev = s.ev /\ u.feed = s.feed /\ u.ctl = y
    BY <1>0, <1>6 DEF StateType
  <2>3. u = [s EXCEPT !.ctl = y, !.ms = "ended"]
    BY <1>6
  <2> HIDE DEF u, y
  <2>4. u \in StateType
    BY <1>0, <2>1, <2>2, <2>3, StateFields DEF StateType
  <2>5. Ok(u) /\ Awake(u)
    BY <1>3, <1>6, <2>1, <2>2, <2>4
  <2>6. QED BY <2>5 DEF u
<1>7. QED BY <1>1, <1>4, <1>5, <1>6

LEMMA OnUpdateEndOk ==
  ASSUME NEW s, Ok(s)
  PROVE  Ok(OnUpdateEnd(s)) /\ Awake(OnUpdateEnd(s))
<1>1. CASE HasPendingRemoveRanges(s)
  BY <1>1, DoRemoveRangesOk DEF OnUpdateEnd, Awake, Alert
<1>2. CASE ~HasPendingRemoveRanges(s) /\ HasPendingSegments(s)
  BY <1>2, DoAppendSegmentsOk DEF OnUpdateEnd, NoRanges
<1>3. CASE ~HasPendingRemoveRanges(s) /\ ~HasPendingSegments(s)
  <2>1. Awake(s)
    BY <1>3, EmptyDomain DEF Awake, Awaits, HasPendingRemoveRanges, HasPendingSegments
  <2>2. s.ctl.eos => \A t \in Types : s.feed.inits[t] > 0
    BY DEF Ok, TrackOk, Opened
  <2>3. QED BY <1>3, <2>1, <2>2, EndOfStreamOk DEF OnUpdateEnd
<1>4. QED BY <1>1, <1>2, <1>3

-----------------------------------------------------------------------------
(* The steps.                                                              *)

MseInv == Ok(State) /\ Awake(State)

LEMMA OkNext ==
  ASSUME NEW s, Ok(s), Awake(s), Become(s)
  PROVE  MseInv'
<1>1. State' = s
  BY Becomes DEF Ok
<1>2. (State \in StateType)'
  BY <1>1 DEF Ok
<1>3. ASSUME NEW t \in Types PROVE TrackOk(State, t)'
  <2>1. TrackOk(s, t)
    BY DEF Ok
  <2>2. Lossless(State, t)' /\ BufferOk(State, t)'
    BY <1>1, <2>1 DEF TrackOk, Lossless, Working, BufferOk
  <2>3. Fresh(State, t)'
    BY <1>1, <2>1 DEF TrackOk, Fresh, Old, AfterSeek
  <2>4. Opened(State, t)'
    BY <1>1, <2>1 DEF TrackOk, Opened
  <2>5. QED BY <2>2, <2>3, <2>4 DEF TrackOk
<1>4. (\A t \in Types : State.feed.inits[t] <= MaxInits(t))' /\ IdrFresh(State)'
  BY <1>1 DEF Ok, IdrFresh, MaxInits
<1>5. Ok(State)'
  BY <1>2, <1>3, <1>4 DEF Ok
<1>6. Awake(State)'
  BY <1>1 DEF Awake, Awaits, Alert, Stirring, Updating
<1>7. QED BY <1>5, <1>6 DEF MseInv

LEMMA Now ==
  /\ State.ms = ms /\ State.sb = sb /\ State.ev = ev /\ State.ctl = ctl /\ State.feed = feed
  /\ MseInv => /\ Ok(State) /\ Awake(State) /\ State \in StateType
               /\ \A t \in Types : TrackOk(State, t)
BY DEF State, MseInv, Ok

LEMMA SourceOpenKeeps ==
  ASSUME MseInv, SourceOpen PROVE MseInv'
<1>1. Ok(State) /\ State.ms = "closed" /\ Become(OnSourceOpen(State))
  BY Now DEF SourceOpen
<1>2. QED BY <1>1, OnSourceOpenOk, OkNext

LEMMA InitializeKeeps ==
  ASSUME MseInv, NEW t \in Types, Initialize(t) PROVE MseInv'
<1> DEFINE s0 == [State EXCEPT !.feed.inits[t] = @ + 1, !.feed.given[t] = Append(@, InitSegment)]
<1>1. /\ Ok(State) /\ Awake(State) /\ State \in StateType
      /\ State.ms \in {"closed", "open", "ended"} /\ State.feed.inits[t] < MaxInits(t)
      /\ State.feed.inits[t] > 0 => NoRanges(State)
  <2>1. ms \in {"closed", "open", "ended", "gone"}
    BY Now, StateFields
  <2>2. QED BY <2>1, Now DEF Initialize, MayFeed, Attached, NoRanges
<1>2. Become(AppendInitSegment(s0, t))
  BY Zenon DEF Initialize
<1>3. /\ s0 \in StateType /\ s0.ms = State.ms /\ s0.sb = State.sb /\ s0.ev = State.ev
      /\ s0.ctl = State.ctl /\ s0.feed.next = State.feed.next
      /\ s0.feed.given[t] = Append(State.feed.given[t], InitSegment)
      /\ s0.feed.inits[t] = State.feed.inits[t] + 1
      /\ \A q \in Types \ {t} : /\ s0.feed.given[q] = State.feed.given[q]
                                /\ s0.feed.inits[q] = State.feed.inits[q]
      /\ s0.feed.base = State.feed.base /\ s0.feed.done = State.feed.done
  BY <1>1, InitGiven
<1> HIDE DEF s0
<1>4. t \in Types
  OBVIOUS
<1>5. Ok(AppendInitSegment(s0, t)) /\ Awake(AppendInitSegment(s0, t))
  <2>1. CASE State.ms = "open"
    BY ONLY <1>1, <1>3, <1>4, <2>1, InitTaken
  <2>2. CASE State.ms \in {"closed", "ended"}
    BY ONLY <1>1, <1>3, <1>4, <2>2, InitDeferred
  <2>3. QED BY <1>1, <2>1, <2>2
<1>6. QED BY <1>2, <1>5, OkNext

LEMMA MediaKeeps ==
  ASSUME MseInv, NEW t \in Types, Media(t) PROVE MseInv'
<1> DEFINE n == feed.next
           s0 == [State EXCEPT !.feed.next = @ + 1, !.feed.given[t] = Append(@, feed.next)]
           s1 == [State EXCEPT !.feed.next = @ + 1, !.feed.given[t] = Append(@, State.feed.next)]
<1>1. /\ Ok(State) /\ Awake(State) /\ State \in StateType
      /\ State.feed.inits[t] > 0 /\ State.feed.next <= MaxSegments /\ n = State.feed.next
  BY Now DEF Media
<1>2. Become(AppendMediaSegment(s0, t, n))
  BY Zenon DEF Media
<1>3. s0 = s1
  BY Now
<1>a. /\ s1 \in StateType /\ s1.ms = State.ms /\ s1.sb = State.sb /\ s1.ev = State.ev
      /\ s1.ctl = State.ctl /\ s1.feed.next = State.feed.next + 1
      /\ s1.feed.given[t] = Append(State.feed.given[t], State.feed.next)
      /\ \A q \in Types \ {t} : s1.feed.given[q] = State.feed.given[q]
      /\ s1.feed.base = State.feed.base /\ s1.feed.done = State.feed.done
      /\ s1.feed.inits = State.feed.inits
  BY <1>1, MediaGiven
<1> HIDE DEF s0, s1, n
<1>4. /\ s0 \in StateType /\ s0.ms = State.ms /\ s0.sb = State.sb /\ s0.ev = State.ev
      /\ s0.ctl = State.ctl /\ s0.feed.next = n + 1
      /\ s0.feed.given[t] = Append(State.feed.given[t], n)
      /\ \A q \in Types \ {t} : s0.feed.given[q] = State.feed.given[q]
      /\ s0.feed.base = State.feed.base /\ s0.feed.done = State.feed.done
      /\ s0.feed.inits = State.feed.inits
  BY <1>1, <1>3, <1>a
<1>5. t \in Types
  OBVIOUS
<1>6. Ok(AppendMediaSegment(s0, t, n)) /\ Awake(AppendMediaSegment(s0, t, n))
  BY ONLY <1>1, <1>4, <1>5, MediaOk
<1>7. QED BY <1>2, <1>6, OkNext

(* A step of the player that touches only its own fields, or takes an      *)
(* event.                                                                  *)
LEMMA OnlyFeed ==
  ASSUME NEW s, Ok(s), NEW u \in StateType, u.ms = s.ms, u.sb = s.sb, u.ctl = s.ctl,
         u.feed.next = s.feed.next, u.feed.base = s.feed.base, u.feed.given = s.feed.given,
         u.feed.done = s.feed.done, u.feed.inits = s.feed.inits
  PROVE  Ok(u) /\ (u.ev = s.ev /\ Awake(s) => Awake(u))
<1>1. SameSource(s, u)
  BY DEF SameSource
<1>2. s.feed.next \in Nat
  BY BufferFields DEF Ok, Types
<1>3. \A q \in Types : SameTrack(s, u, q)
  BY <1>2 DEF SameTrack, SameQueue
<1>4. Ok(u)
  BY <1>1, <1>3, BothFrame
<1>5. u.ev = s.ev /\ Awake(s) => Awake(u)
  BY DEF Awake, Awaits, Alert, Stirring
<1>6. QED BY <1>4, <1>5

LEMMA CompleteKeeps ==
  ASSUME MseInv, Complete PROVE MseInv'
<1> DEFINE s0 == [State EXCEPT !.feed.complete = TRUE]
           y == [State.feed EXCEPT !.complete = TRUE]
<1>1. Ok(State) /\ Awake(State) /\ State \in StateType /\ \A t \in Types : State.feed.inits[t] > 0
  BY Now DEF Complete
<1>2. Become(EndOfStream(s0))
  BY Zenon DEF Complete
<1>3. s0 = [State EXCEPT !.feed = y]
  OBVIOUS
<1>4. State.feed \in FeedType
  BY <1>1, StateFields
<1>5. /\ y \in FeedType /\ y.next = State.feed.next /\ y.base = State.feed.base
      /\ y.given = State.feed.given /\ y.done = State.feed.done /\ y.inits = State.feed.inits
  BY <1>4 DEF FeedType
<1> HIDE DEF y, s0
<1>6. /\ s0 \in StateType /\ s0.ms = State.ms /\ s0.sb = State.sb /\ s0.ev = State.ev
      /\ s0.ctl = State.ctl /\ s0.feed = y
  BY <1>1, <1>3, <1>5, WithFeed
<1>7. Ok(s0) /\ Awake(s0)
  BY <1>1, <1>5, <1>6, OnlyFeed
<1>8. QED BY <1>1, <1>2, <1>5, <1>6, <1>7, EndOfStreamOk, OkNext

LEMMA SeekKeeps ==
  ASSUME MseInv, Seek PROVE MseInv'
<1> DEFINE s0 == [State EXCEPT !.feed.seeks = @ + 1, !.feed.complete = FALSE,
                               !.feed.suspended = FALSE, !.feed.head = feed.next - 1]
           y == [State.feed EXCEPT !.seeks = @ + 1, !.complete = FALSE,
                                   !.suspended = FALSE, !.head = feed.next - 1]
<1>1. Ok(State) /\ Awake(State) /\ State \in StateType /\ State.feed.seeks < MaxSeeks
  BY Now DEF Seek
<1>2. Become(SeekTrack(SeekTrack(s0, "video"), "audio"))
  BY Zenon DEF Seek
<1>3. /\ State.feed \in FeedType /\ State.feed.seeks \in 0..MaxSeeks
      /\ State.feed.next \in 1..(MaxSegments + 1) /\ State.feed = feed
  BY <1>1, Now, StateFields
<1>4. State.feed.seeks + 1 \in 0..MaxSeeks /\ feed.next - 1 \in 0..MaxSegments
  BY <1>1, <1>3, BoundsAssumption
<1>5. s0 = [State EXCEPT !.feed = y]
  BY <1>1, <1>3 DEF StateType, FeedType
<1>6. /\ y \in FeedType /\ y.next = State.feed.next /\ y.base = State.feed.base
      /\ y.given = State.feed.given /\ y.done = State.feed.done /\ y.inits = State.feed.inits
  BY <1>3, <1>4 DEF FeedType
<1> HIDE DEF y, s0
<1>7. /\ s0 \in StateType /\ s0.ms = State.ms /\ s0.sb = State.sb /\ s0.ev = State.ev
      /\ s0.ctl = State.ctl /\ s0.feed = y
  BY <1>1, <1>5, <1>6, WithFeed
<1>8. Ok(s0) /\ Awake(s0)
  BY <1>1, <1>6, <1>7, OnlyFeed
<1>9. QED BY <1>2, <1>8, SeekTrackOk, OkNext DEF Types

LEMMA UpdateEndKeeps ==
  ASSUME MseInv, NEW t \in Types, UpdateEnd(t) PROVE MseInv'
<1> DEFINE s0 == [State EXCEPT !.ev[t] = @ - 1]
           e == [State.ev EXCEPT ![t] = @ - 1]
<1>1. Ok(State) /\ State \in StateType /\ State.ev[t] \in Nat /\ State.ev[t] > 0
  BY Now, BufferFields DEF UpdateEnd
<1>2. Become(OnUpdateEnd(s0))
  BY Zenon DEF UpdateEnd
<1>3. e \in [Types -> Nat]
  BY <1>1, StateFields
<1>4. s0 = [State EXCEPT !.ev = e]
  OBVIOUS
<1> HIDE DEF e, s0
<1>5. /\ s0 \in StateType /\ s0.ms = State.ms /\ s0.sb = State.sb /\ s0.ctl = State.ctl
      /\ s0.feed = State.feed
  BY <1>1, <1>3, <1>4 DEF StateType
<1>6. Ok(s0)
  BY <1>1, <1>5, OnlyFeed
<1>7. QED BY <1>2, <1>6, OnUpdateEndOk, OkNext

(* Nothing is left of what the controller had.                             *)
LEMMA DetachKeeps ==
  ASSUME MseInv, Detach PROVE MseInv'
<1> DEFINE y == [ctl EXCEPT !.segments = [t \in Types |-> <<>>], !.ranges = [t \in Types |-> <<>>],
                            !.inits = <<>>, !.full = FALSE, !.idr = {}]
           z == [feed EXCEPT !.given = [t \in Types |-> <<>>], !.done = [t \in Types |-> <<>>]]
           u == [ms |-> "gone", sb |-> [t \in Types |-> NoBuffer], ev |-> [t \in Types |-> 0],
                 ctl |-> y, feed |-> z]
<1>1. Ok(State) /\ State \in StateType /\ (\A t \in Types : TrackOk(State, t))
      /\ ctl \in CtlType /\ feed \in FeedType
  BY Now, StateFields
<1>2. Become(u)
  BY DEF Detach, Become
<1>3. NoBuffer \in SbType /\ ~NoBuffer.on /\ NoBuffer.job = "none" /\ NoBuffer.buf = {}
  BY DEF NoBuffer, SbType
<1>4. /\ y \in CtlType /\ y.idr = {} /\ y.full = FALSE /\ y.eos = ctl.eos
      /\ \A t \in Types : y.segments[t] = <<>> /\ y.ranges[t] = <<>>
  <2>1. <<>> \in Seq(Types) /\ <<>> \in Seq(Segments) /\ <<>> \in Seq(SUBSET Numbers)
    OBVIOUS
  <2>2. QED BY <1>1, <2>1 DEF CtlType
<1>5. /\ z \in FeedType /\ z.base = feed.base /\ z.next = feed.next /\ z.inits = feed.inits
      /\ \A t \in Types : z.given[t] = <<>> /\ z.done[t] = <<>>
  <2>1. <<>> \in Seq(Segments)
    OBVIOUS
  <2>2. QED BY <1>1, <2>1 DEF FeedType
<1> HIDE DEF y, z
<1>6. /\ u.ms = "gone" /\ u.ctl = y /\ u.feed = z /\ u \in StateType
      /\ \A t \in Types : u.sb[t] = NoBuffer /\ u.ev[t] = 0
  BY <1>3, <1>4, <1>5 DEF StateType
<1> HIDE DEF u
<1>7. ASSUME NEW t \in Types PROVE TrackOk(u, t)
  <2>1. Lossless(u, t)
    <3>1. <<>> \o <<>> = <<>>
      OBVIOUS
    <3>2. /\ u.feed.given[t] = <<>> /\ u.feed.done[t] = <<>> /\ u.ctl.segments[t] = <<>>
          /\ Working(u.sb[t]) = <<>>
      BY <1>3, <1>4, <1>5, <1>6 DEF Working
    <3>3. QED BY ONLY <3>1, <3>2 DEF Lossless
  <2>2. BufferOk(u, t)
    BY <1>3, <1>4, <1>6 DEF BufferOk
  <2>3. Fresh(u, t)
    <3>1. Fresh(State, t)
      BY <1>1 DEF TrackOk
    <3>2. u.feed.base[t] <= u.feed.next
      BY <1>5, <1>6, <3>1, Now DEF Fresh
    <3>3. u.sb[t].buf = {} /\ u.sb[t].job = "none" /\ DOMAIN u.ctl.segments[t] = {}
      BY <1>3, <1>4, <1>6, EmptyDomain
    <3>4. QED BY <3>2, <3>3 DEF Fresh, Old
  <2>4. Opened(u, t)
    BY <1>1, <1>3, <1>4, <1>5, <1>6, Now DEF TrackOk, Opened
  <2>5. QED BY <2>1, <2>2, <2>3, <2>4 DEF TrackOk
<1>8. Ok(u)
  BY <1>1, <1>4, <1>5, <1>6, <1>7, Now DEF Ok, IdrFresh
<1>9. Awake(u)
  BY <1>3, <1>4, <1>6 DEF Awake, Awaits
<1>10. QED BY <1>2, <1>8, <1>9, OkNext

(* What a buffer holds once it has done its work.                          *)
LEMMA WorkDone ==
  ASSUME NEW s \in StateType, NEW t \in Types, TrackOk(s, t), Updating(s.sb[t]),
         NEW u, u.ms = s.ms, u.ctl = s.ctl, u.sb[t].on = s.sb[t].on, u.sb[t].job = "none",
         s.sb[t].job = "remove" => u.sb[t].buf = s.sb[t].buf \ s.sb[t].data,
         s.sb[t].job = "append" =>
           u.sb[t].buf = IF s.sb[t].data = InitSegment THEN s.sb[t].buf
                         ELSE s.sb[t].buf \cup {s.sb[t].data},
         u.feed.next = s.feed.next, u.feed.base = s.feed.base, u.feed.given = s.feed.given,
         u.feed.inits = s.feed.inits,
         u.feed.done[t] = IF s.sb[t].job = "append" THEN Append(s.feed.done[t], s.sb[t].data)
                          ELSE s.feed.done[t]
  PROVE  TrackOk(u, t)
<1>1. /\ Lossless(s, t) /\ BufferOk(s, t) /\ Fresh(s, t) /\ Opened(s, t)
      /\ s.sb[t].job \in {"append", "remove"} /\ s.sb[t].on
      /\ s.feed.base[t] \in Nat /\ s.feed.next \in Nat /\ s.sb[t].buf \subseteq Nat
      /\ s.ctl.segments[t] \in Seq(Segments) /\ s.feed.done[t] \in Seq(Segments)
  BY BufferFields DEF TrackOk, Updating, BufferOk
<1>2. Lossless(u, t)
  <2>1. CASE s.sb[t].job = "append"
    <3>1. s.sb[t].data \in Segments
      BY <1>1, <2>1 DEF BufferOk
    <3> DEFINE done == s.feed.done[t]
               d == s.sb[t].data
    <3>2. done \in Seq(Segments) /\ d \in Segments
      BY <1>1, <3>1
    <3>3. u.feed.done[t] = Append(done, d) /\ s.feed.given[t] = done \o <<d>> \o s.ctl.segments[t]
      BY <1>1, <2>1 DEF Lossless, Working
    <3> HIDE DEF done, d
    <3>4. Append(done, d) = done \o <<d>> /\ Append(done, d) \o <<>> = Append(done, d)
      BY ONLY <3>2
    <3>5. QED BY <3>3, <3>4 DEF Lossless, Working
  <2>2. CASE s.sb[t].job = "remove"
    BY <1>1, <2>2 DEF Lossless, Working
  <2>3. QED BY <1>1, <2>1, <2>2
<1>3. BufferOk(u, t)
  BY <1>1 DEF BufferOk
<1>4. Fresh(u, t)
  <2>1. Old(u, t) = {n \in u.sb[t].buf : n < s.feed.base[t]}
    BY DEF Old
  <2>2. /\ u.feed.base[t] <= u.feed.next
        /\ \A i \in DOMAIN u.ctl.segments[t] :
             u.ctl.segments[t][i] < u.feed.next /\ AfterSeek(u, t, u.ctl.segments[t][i])
    BY <1>1 DEF Fresh, AfterSeek
  <2>3. CASE s.sb[t].job = "append"
    <3>1. /\ s.sb[t].data \in Segments /\ s.sb[t].data < s.feed.next
          /\ s.sb[t].data # InitSegment => s.feed.base[t] <= s.sb[t].data
          /\ Old(s, t) = {}
      BY <1>1, <2>3 DEF BufferOk, Fresh, AfterSeek
    <3>2. s.sb[t].data \in Nat
      BY <3>1, Numbering
    <3>3. u.sb[t].buf = IF s.sb[t].data = InitSegment THEN s.sb[t].buf
                        ELSE s.sb[t].buf \cup {s.sb[t].data}
      BY <2>3
    <3>4. Old(u, t) = {}
      BY <1>1, <2>1, <3>1, <3>2, <3>3 DEF Old
    <3>5. \A n \in u.sb[t].buf : n < u.feed.next
      BY <1>1, <3>1, <3>3 DEF Fresh
    <3>6. QED BY <2>2, <3>4, <3>5 DEF Fresh
  <2>4. CASE s.sb[t].job = "remove"
    <3>1. u.sb[t].buf = s.sb[t].buf \ s.sb[t].data
      BY <2>4
    <3>2. Old(u, t) = Old(s, t) \ s.sb[t].data
      BY <2>1, <3>1 DEF Old
    <3>3. \A n \in u.sb[t].buf : n < u.feed.next
      BY <1>1, <3>1 DEF Fresh
    <3>4. \/ Old(u, t) = {}
          \/ /\ Old(u, t) = u.sb[t].buf
             /\ \E i \in DOMAIN u.ctl.ranges[t] : Old(u, t) \subseteq u.ctl.ranges[t][i]
      <4>1. CASE Old(s, t) = {}
        BY <3>2, <4>1
      <4>2. CASE Old(s, t) = s.sb[t].buf /\ Old(s, t) \subseteq s.sb[t].data
        BY <3>2, <4>2
      <4>3. CASE /\ Old(s, t) = s.sb[t].buf
                 /\ \E i \in DOMAIN s.ctl.ranges[t] : Old(s, t) \subseteq s.ctl.ranges[t][i]
        BY <3>1, <3>2, <4>3
      <4>4. QED BY <1>1, <4>1, <4>2, <4>3 DEF Fresh
    <3>5. QED BY <2>2, <3>3, <3>4 DEF Fresh
  <2>5. QED BY <1>1, <2>3, <2>4
<1>5. Opened(u, t)
  BY <1>1 DEF Opened
<1>6. QED BY <1>2, <1>3, <1>4, <1>5 DEF TrackOk

LEMMA FinishKeeps ==
  ASSUME MseInv, NEW t \in Types, Finish(t) PROVE MseInv'
<1> DEFINE b == sb[t]
           done == IF b.job = "append" THEN Append(feed.done[t], b.data) ELSE feed.done[t]
           held == CASE b.job = "remove" -> b.buf \ b.data
                     [] b.job = "append" /\ b.data = InitSegment -> b.buf
                     [] OTHER -> b.buf \cup {b.data}
           c == [b EXCEPT !.job = "none", !.data = NoData, !.buf = held]
           z == [feed EXCEPT !.done[t] = done]
           u == [ms |-> ms, sb |-> [sb EXCEPT ![t] = c], ev |-> [ev EXCEPT ![t] = @ + 1],
                 ctl |-> ctl, feed |-> z]
<1>1. /\ Ok(State) /\ State \in StateType /\ (\A q \in Types : TrackOk(State, q))
      /\ Updating(b) /\ ms \in {"closed", "open", "ended", "gone"}
      /\ sb \in [Types -> SbType] /\ b \in SbType /\ ev \in [Types -> Nat] /\ ev[t] \in Nat
      /\ ctl \in CtlType /\ feed \in FeedType /\ feed.done[t] \in Seq(Segments)
      /\ feed.done \in [Types -> Seq(Segments)] /\ b.buf \in SUBSET Numbers
  BY Now, StateFields, BufferFields DEF Finish
<1>2. /\ b.job = "remove" => held = b.buf \ b.data
      /\ b.job = "append" => held = IF b.data = InitSegment THEN b.buf ELSE b.buf \cup {b.data}
  OBVIOUS
<1>3. b.job \in {"append", "remove"} /\ (b.job = "append" => b.data \in Segments)
  BY <1>1, Now DEF Updating, SbType, TrackOk, BufferOk
<1>4. sb' = [sb EXCEPT ![t] = c] /\ ev' = [ev EXCEPT ![t] = @ + 1] /\ ms' = ms /\ ctl' = ctl
  BY DEF Finish
<1>5. feed' = z
  <2>1. feed' = IF b.job = "append" THEN [feed EXCEPT !.done[t] = Append(@, b.data)] ELSE feed
    BY DEF Finish
  <2>2. CASE b.job = "append"
    BY <2>1, <2>2
  <2>3. CASE b.job # "append"
    <3>1. done = feed.done[t]
      BY <2>3
    <3> HIDE DEF done
    <3>2. z = feed
      BY <1>1, <3>1 DEF FeedType
    <3>3. QED BY <2>1, <2>3, <3>2
  <2>4. QED BY <2>2, <2>3
<1>6. held \in SUBSET Numbers
  BY <1>1, <1>2, <1>3, Numbering DEF Numbers
<1>7. done \in Seq(Segments)
  BY <1>1, <1>3
<1>8. done = IF b.job = "append" THEN Append(feed.done[t], b.data) ELSE feed.done[t]
  OBVIOUS
<1> HIDE DEF held, done
<1>9. c \in SbType /\ c.on = b.on /\ c.job = "none" /\ c.buf = held
  BY <1>1, <1>6 DEF SbType
<1>10. /\ z \in FeedType /\ z.next = feed.next /\ z.base = feed.base /\ z.given = feed.given
       /\ z.inits = feed.inits /\ z.done = [feed.done EXCEPT ![t] = done]
  BY <1>1, <1>7 DEF FeedType
<1>11. z.done[t] = done /\ \A q \in Types \ {t} : z.done[q] = feed.done[q]
  BY <1>1, <1>10
<1>12. Become(u)
  BY <1>4, <1>5 DEF Become
<1> HIDE DEF c, z, b
<1>13. /\ u.ms = ms /\ u.ctl = ctl /\ u.feed = z /\ u.sb = [sb EXCEPT ![t] = c]
       /\ u.ev = [ev EXCEPT ![t] = @ + 1]
  OBVIOUS
<1>14. u \in StateType
  BY <1>1, <1>9, <1>10 DEF StateType
<1> HIDE DEF u
<1>15. /\ u.sb[t] = c /\ u.ev[t] > 0 /\ \A q \in Types \ {t} : u.sb[q] = sb[q]
  BY <1>1, <1>13
<1>16. TrackOk(u, t)
  <2>1. /\ State.ms = ms /\ State.ctl = ctl /\ State.feed = feed /\ State.sb[t] = b
    BY Now DEF b
  <2>2. /\ State \in StateType /\ TrackOk(State, t) /\ Updating(State.sb[t]) /\ t \in Types
        /\ u.ms = State.ms /\ u.ctl = State.ctl /\ u.sb[t].on = State.sb[t].on
        /\ u.sb[t].job = "none"
    BY <1>1, <1>9, <1>13, <1>15, <2>1
  <2>3. /\ State.sb[t].job = "remove" => u.sb[t].buf = State.sb[t].buf \ State.sb[t].data
        /\ State.sb[t].job = "append" =>
             u.sb[t].buf = IF State.sb[t].data = InitSegment THEN State.sb[t].buf
                           ELSE State.sb[t].buf \cup {State.sb[t].data}
    BY <1>2, <1>9, <1>15, <2>1
  <2>4. /\ u.feed.next = State.feed.next /\ u.feed.base = State.feed.base
        /\ u.feed.given = State.feed.given /\ u.feed.inits = State.feed.inits
        /\ u.feed.done[t] = IF State.sb[t].job = "append"
                            THEN Append(State.feed.done[t], State.sb[t].data)
                            ELSE State.feed.done[t]
    BY <1>8, <1>10, <1>11, <1>13, <2>1
  <2>5. QED BY ONLY <2>2, <2>3, <2>4, WorkDone
<1>17. \A q \in Types \ {t} : TrackOk(u, q)
  <2>1. feed.next \in Nat
    BY <1>1, Now, BufferFields
  <2>2. ASSUME NEW q \in Types \ {t} PROVE SameTrack(State, u, q)
    <3>1. /\ u.sb[q] = State.sb[q] /\ u.ctl = State.ctl /\ u.feed.next = State.feed.next
          /\ u.feed.base = State.feed.base /\ u.feed.given = State.feed.given
          /\ u.feed.done[q] = State.feed.done[q] /\ u.feed.inits = State.feed.inits
      BY <1>10, <1>11, <1>13, <1>15, Now
    <3>2. State.feed.next \in Nat
      BY <2>1, Now
    <3>3. State.feed.next <= u.feed.next
      BY <3>1, <3>2
    <3>4. QED BY ONLY <3>1, <3>2, <3>3 DEF SameTrack, SameQueue
  <2>3. SameSource(State, u)
    BY <1>13, Now DEF SameSource
  <2>4. QED BY <1>1, <2>2, <2>3, TrackFrame
<1>18. Ok(u)
  <2>1. IdrFresh(u) /\ \A q \in Types : u.feed.inits[q] <= MaxInits(q)
    BY <1>1, <1>10, <1>13, Now DEF Ok, IdrFresh
  <2>2. QED BY <1>14, <1>16, <1>17, <2>1 DEF Ok
<1>19. Awake(u)
  BY <1>15 DEF Awake, Alert
<1>20. QED BY <1>12, <1>18, <1>19, OkNext

LEMMA PlayKeeps ==
  ASSUME MseInv, Play \/ Resume PROVE MseInv'
<1> DEFINE y == feed'
           u == [State EXCEPT !.feed = y]
<1>1. /\ Ok(State) /\ Awake(State) /\ State \in StateType /\ feed \in FeedType
      /\ sb["video"].buf \subseteq Numbers /\ sb["audio"].buf \subseteq Numbers
  BY Now, StateFields, BufferFields DEF Types
<1>2. \/ feed.head + 1 \in 0..MaxSegments /\ y = [feed EXCEPT !.head = @ + 1]
      \/ y = [feed EXCEPT !.suspended = FALSE]
  <2>1. CASE Play
    BY <1>1, <2>1 DEF Play, Buffered, Numbers
  <2>2. CASE Resume
    BY <2>2 DEF Resume
  <2>3. QED BY <2>1, <2>2
<1>3. ms' = ms /\ sb' = sb /\ ev' = ev /\ ctl' = ctl
  BY DEF Play, Resume
<1>4. /\ y \in FeedType /\ y.next = feed.next /\ y.base = feed.base /\ y.given = feed.given
      /\ y.done = feed.done /\ y.inits = feed.inits
  BY <1>1, <1>2 DEF FeedType
<1> HIDE DEF y
<1>5. /\ u \in StateType /\ u.ms = State.ms /\ u.sb = State.sb /\ u.ev = State.ev
      /\ u.ctl = State.ctl /\ u.feed = y
  BY <1>1, <1>4, WithFeed
<1> HIDE DEF u
<1>6. Ok(u) /\ Awake(u)
  BY <1>1, <1>4, <1>5, Now, OnlyFeed
<1>7. Become(u)
  BY <1>3, <1>5, Now DEF Become, y
<1>8. QED BY <1>6, <1>7, OkNext

LEMMA MseInvInit == Init => MseInv
<1> SUFFICES ASSUME Init PROVE MseInv
  OBVIOUS
<1>1. /\ NewController.segments \in [Types -> Seq(Segments)]
      /\ NewController.ranges \in [Types -> Seq(SUBSET Numbers)]
      /\ NewController.inits = <<>> /\ NewController.eos = FALSE /\ NewController.full = FALSE
      /\ NewController.idr = {} /\ NewController \in CtlType
      /\ \A t \in Types : NewController.segments[t] = <<>> /\ NewController.ranges[t] = <<>>
  <2>1. <<>> \in Seq(Types) /\ <<>> \in Seq(Segments) /\ <<>> \in Seq(SUBSET Numbers)
    OBVIOUS
  <2>2. QED BY <2>1 DEF NewController, CtlType
<1>2. /\ feed \in FeedType /\ feed.next = 1
      /\ \A t \in Types : /\ feed.base[t] = 1 /\ feed.given[t] = <<>> /\ feed.done[t] = <<>>
                          /\ feed.inits[t] = 0
  <2>1. <<>> \in Seq(Segments) /\ 1 \in 1..(MaxSegments + 1) /\ 0 \in 0..MaxSegments /\ 0 \in 0..MaxSeeks
    BY BoundsAssumption
  <2>2. QED BY <2>1 DEF Init, FeedType
<1>3. NoBuffer \in SbType /\ ~NoBuffer.on /\ NoBuffer.job = "none" /\ NoBuffer.buf = {}
  BY DEF NoBuffer, SbType
<1>4. /\ State.ms = "closed" /\ State.ctl = NewController /\ State.feed = feed
      /\ \A t \in Types : State.sb[t] = NoBuffer /\ State.ev[t] = 0
  BY Now DEF Init
<1>5. State \in StateType
  BY <1>1, <1>2, <1>3 DEF Init, State, StateType
<1> HIDE DEF Init
<1>6. ASSUME NEW t \in Types PROVE TrackOk(State, t)
  <2>1. Lossless(State, t)
    <3>1. <<>> \o <<>> = <<>>
      OBVIOUS
    <3>2. /\ State.feed.given[t] = <<>> /\ State.feed.done[t] = <<>>
          /\ State.ctl.segments[t] = <<>> /\ Working(State.sb[t]) = <<>>
      BY <1>1, <1>2, <1>3, <1>4 DEF Working
    <3>3. QED BY ONLY <3>1, <3>2 DEF Lossless
  <2>2. BufferOk(State, t)
    BY <1>1, <1>3, <1>4 DEF BufferOk
  <2>3. Fresh(State, t)
    BY <1>1, <1>2, <1>3, <1>4, EmptyDomain DEF Fresh, Old
  <2>4. Opened(State, t)
    BY <1>1, <1>2, <1>3, <1>4, EmptyDomain DEF Opened
  <2>5. QED BY <2>1, <2>2, <2>3, <2>4 DEF TrackOk
<1>7. Ok(State)
  <2>1. \A t \in Types : 0 <= MaxInits(t)
    BY DEF MaxInits
  <2>2. QED BY <1>1, <1>2, <1>4, <1>5, <1>6, <2>1 DEF Ok, IdrFresh
<1>8. Awake(State)
  BY <1>1, <1>3, <1>4 DEF Awake, Awaits
<1>9. QED BY <1>7, <1>8 DEF MseInv

LEMMA MseInvStep ==
  ASSUME MseInv, [Next]_vars PROVE MseInv'
<1>1. CASE UNCHANGED vars
  <2>1. Ok(State) /\ Awake(State) /\ Become(State)
    BY <1>1, Now DEF vars, Become
  <2>2. QED BY <2>1, OkNext
<1>2. CASE SourceOpen
  BY <1>2, SourceOpenKeeps
<1>3. ASSUME NEW t \in Types, Initialize(t) \/ Media(t) \/ Finish(t) \/ UpdateEnd(t)
      PROVE  MseInv'
  BY <1>3, InitializeKeeps, MediaKeeps, FinishKeeps, UpdateEndKeeps
<1>4. CASE Complete \/ Seek \/ Detach
  BY <1>4, CompleteKeeps, SeekKeeps, DetachKeeps
<1>5. CASE Play \/ Resume
  BY <1>5, PlayKeeps
<1>6. QED BY <1>1, <1>2, <1>3, <1>4, <1>5 DEF Next

LEMMA MseInvAlways == Spec => []MseInv
BY MseInvInit, MseInvStep, PTL DEF Spec

-----------------------------------------------------------------------------
(* Results.                                                                *)

(* What the source, its buffers, the controller's queues and the player's  *)
(* accounts may hold: in particular a buffer works only while it is there  *)
(* and on a segment or a range, and no track is given more initialization  *)
(* segments than the stream has.                                           *)
THEOREM TypeCorrect == Spec => []TypeOK
<1>1. MseInv => TypeOK
  <2> SUFFICES ASSUME MseInv PROVE TypeOK
    OBVIOUS
  <2>1. /\ ms \in {"closed", "open", "ended", "gone"} /\ ctl.inits \in Seq(Types)
        /\ {ctl.eos, ctl.full} \subseteq BOOLEAN /\ ctl.idr \subseteq 1..MaxSegments
        /\ feed.next \in 1..(MaxSegments + 1) /\ feed.head \in 0..MaxSegments
        /\ feed.seeks \in 0..MaxSeeks /\ {feed.complete, feed.suspended} \subseteq BOOLEAN
    BY Now, StateFields DEF Numbers
  <2>2. ASSUME NEW t \in Types
        PROVE  /\ sb[t].on \in BOOLEAN /\ sb[t].buf \subseteq 1..MaxSegments
               /\ sb[t].job \in {"none", "append", "remove"}
               /\ sb[t].job = "append" => sb[t].data \in Segments
               /\ sb[t].job = "remove" => sb[t].data \subseteq 1..MaxSegments
               /\ ~sb[t].on => ~Updating(sb[t]) /\ sb[t].buf = {}
               /\ ev[t] \in Nat
               /\ ctl.segments[t] \in Seq(Segments)
               /\ ctl.ranges[t] \in Seq(SUBSET (1..MaxSegments))
               /\ {feed.given[t], feed.done[t]} \subseteq Seq(Segments)
               /\ feed.base[t] \in 1..(MaxSegments + 1) /\ feed.inits[t] \in 0..MaxInits(t)
    <3>1. BufferOk(State, t) /\ feed.inits[t] <= MaxInits(t)
      BY Now DEF TrackOk, Ok
    <3>2. feed.inits[t] \in 0..2 /\ MaxInits(t) \in Nat
      BY Now, BufferFields DEF MaxInits
    <3>3. feed.inits[t] \in 0..MaxInits(t)
      BY <3>1, <3>2
    <3>4. QED BY <3>1, <3>3, Now, BufferFields DEF BufferOk, Updating, Numbers
  <2>3. QED BY <2>1, <2>2 DEF TypeOK
<1>2. QED BY <1>1, MseInvAlways, PTL

(* What the controller was handed for a track since the seek that last     *)
(* cleared it is what the buffer took, takes and has waiting, in order: no *)
(* segment is lost, doubled or overtaken, whatever buffers are full, busy  *)
(* or not there yet, for any number of segments and seeks.                 *)
THEOREM NothingIsLost == Spec => []NothingLost
<1>1. MseInv => NothingLost
  BY Now DEF NothingLost, InWork, TrackOk, Lossless, Working
<1>2. QED BY <1>1, MseInvAlways, PTL

(* After a seek the old and the new do not mix in a buffer, and keyframes  *)
(* to seek to are of after the seek.                                       *)
THEOREM StaleIsGone == Spec => []StaleGone
<1>1. MseInv => StaleGone
  <2> SUFFICES ASSUME MseInv PROVE StaleGone
    OBVIOUS
  <2>1. ASSUME NEW t \in Types,
               NEW m \in sb[t].buf \cup {k \in Segments \ {InitSegment} : InWork(t) = <<k>>},
               m >= feed.base[t],
               NEW n \in sb[t].buf \cup {k \in Segments \ {InitSegment} : InWork(t) = <<k>>}
        PROVE  n >= feed.base[t]
    <3>1. Fresh(State, t) /\ BufferOk(State, t) /\ sb[t].buf \subseteq Nat /\ feed.base[t] \in Nat
      BY Now, BufferFields DEF TrackOk
    <3>2. ASSUME NEW k \in Segments \ {InitSegment}, InWork(t) = <<k>>
          PROVE  sb[t].job = "append" /\ k >= feed.base[t]
      <4>1. sb[t].job = "append" /\ sb[t].data = k
        BY <3>2 DEF InWork
      <4>2. QED BY <3>1, <4>1, Now DEF Fresh, AfterSeek
    <3>3. Old(State, t) = {} => \A k \in sb[t].buf : k >= feed.base[t]
      BY <3>1, Now DEF Old
    <3>4. Old(State, t) # {} => sb[t].job # "append" /\ \A k \in sb[t].buf : k < feed.base[t]
      BY <3>1, Now DEF Fresh, Old
    <3>5. QED BY <2>1, <3>1, <3>2, <3>3, <3>4
  <2>2. \A n \in ctl.idr : n >= feed.base["video"]
    BY Now DEF Ok, IdrFresh
  <2>3. QED BY <2>1, <2>2 DEF StaleGone
<1>2. QED BY <1>1, MseInvAlways, PTL

(* No updateend is missed: while a segment or a range waits for a buffer   *)
(* that is there, some buffer works or its event is on the way, unless a   *)
(* buffer is full.                                                         *)
THEOREM WakeupIsComing == Spec => []WakeupComing
<1>1. MseInv => WakeupComing
  BY Now DEF WakeupComing, Waits, Awake, Awaits, Alert, Stirring
<1>2. QED BY <1>1, MseInvAlways, PTL
=============================================================================
