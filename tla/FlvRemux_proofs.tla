-------------------------- MODULE FlvRemux_proofs --------------------------
(***************************************************************************)
(* Proofs about FlvRemux, for every file, every cutting of it into chunks  *)
(* and any number of seeks and pauses: no sample is lost, sent twice or    *)
(* out of order on its way from the tags to the segments; the segments of  *)
(* a track join; a part that was read leaves one sample at most behind.    *)
(* The folds of the model (the silence put behind frames, the search in    *)
(* the list of segments) are unfolded by induction over the naturals,      *)
(* which is derived here from their well-foundedness.                      *)
(***************************************************************************)
EXTENDS FlvRemux, TLAPS, SequenceTheorems, WellFoundedInduction

-----------------------------------------------------------------------------
(* Types.  Of a track only what EachOnce speaks of is typed here; KnownInv *)
(* types the rest.                                                         *)

IoType ==
  [part : Parts, pos : Nat, left : Nat, parsing : BOOLEAN, header : BOOLEAN, told : BOOLEAN,
   known : SUBSET Parts, pend : Keyframes \cup {None}, done : BOOLEAN, seeks : Nat, pauses : Nat]

IsTrack(k) ==
  k \in [queue : Seq(Samples), stash : Seq(Samples), next : {k.next}, list : {k.list},
         placed : {k.placed}, meta : {k.meta}, given : Seq(Samples), sent : Seq(Samples),
         frames : {k.frames}]

\* A sequence and the one behind it, as a name that the provers leave folded.
Cat(a, b) == a \o b

Once(k) == Cat(Cat(k.sent, k.stash), k.queue) = k.given

TrackInv(k) == IsTrack(k) /\ Once(k)

(* The loader stays inside the part it reads; a chunk is parsed to its end *)
(* before the controller does anything else; it waits only for a seek.     *)
IoInv(i) ==
  /\ i \in IoType /\ i.pos + i.left <= Len(File[i.part])
  /\ ~i.parsing => i.left = 0
  /\ i.told => i.pend # None \/ i.parsing

TracksInv(f) == f = [t \in Tracks |-> f[t]] /\ \A t \in Tracks : TrackInv(f[t])

RemuxInv == IoInv(io) /\ TracksInv(trk)

-----------------------------------------------------------------------------
(* Sequences.                                                              *)

LEMMA CatTyped ==
  ASSUME NEW S, NEW a \in Seq(S), NEW b \in Seq(S)
  PROVE  Cat(a, b) \in Seq(S)
BY DEF Cat

LEMMA CatAssociative ==
  ASSUME NEW S, NEW a \in Seq(S), NEW b \in Seq(S), NEW c \in Seq(S)
  PROVE  Cat(Cat(a, b), c) = Cat(a, Cat(b, c))
BY ConcatAssociative DEF Cat

LEMMA CatEmpty ==
  ASSUME NEW S, NEW a \in Seq(S)
  PROVE  Cat(a, <<>>) = a /\ Cat(<<>>, a) = a
BY ConcatEmptySeq DEF Cat

LEMMA Regroup ==
  ASSUME NEW S, NEW a \in Seq(S), NEW b \in Seq(S), NEW c \in Seq(S), NEW d \in Seq(S)
  PROVE  Cat(Cat(a, Cat(b, c)), d) = Cat(Cat(a, b), Cat(c, d))
<1>1. Cat(a, Cat(b, c)) = Cat(Cat(a, b), c)
  BY CatAssociative
<1>2. Cat(a, b) \in Seq(S)
  BY CatTyped
<1>3. Cat(Cat(Cat(a, b), c), d) = Cat(Cat(a, b), Cat(c, d))
  BY <1>2, CatAssociative
<1>4. QED BY <1>1, <1>3

LEMMA AppendBehind ==
  ASSUME NEW S, NEW a \in Seq(S), NEW l \in Seq(S), NEW x \in S
  PROVE  Cat(a, Append(l, x)) = Append(Cat(a, l), x)
<1> DEFINE w == <<x>>
<1>1. w \in Seq(S)
  OBVIOUS
<1>2. Append(l, x) = Cat(l, w)
  BY AppendIsConcat DEF Cat
<1>3. Cat(a, l) \in Seq(S)
  BY CatTyped
<1>4. Append(Cat(a, l), x) = Cat(Cat(a, l), w)
  <2>1. \A m \in Seq(S) : Append(m, x) = Cat(m, w)
    BY AppendIsConcat DEF Cat
  <2>2. QED BY ONLY <1>3, <2>1
<1> HIDE DEF w
<1>5. QED BY ONLY <1>1, <1>2, <1>4, CatAssociative

LEMMA FrontLast ==
  ASSUME NEW S, NEW q \in Seq(S), Len(q) >= 1
  PROVE  /\ Front(q) \in Seq(S) /\ Last(q) \in S /\ <<Last(q)>> \in Seq(S)
         /\ Cat(Front(q), <<Last(q)>>) = q
<1>1. Len(q) \in Nat /\ 1 \in 1..Len(q) /\ Len(q) \in 1..Len(q)
  BY LenProperties
<1>2. \A i \in 1..Len(q) : q[i] \in S
  BY ElementOfSeq
<1>3. Last(q) \in S
  BY <1>1, <1>2 DEF Last
<1>4. Front(q) \in Seq(S)
  <2>1. \A i \in 1..(Len(q) - 1) : q[i] \in S
    BY <1>1, <1>2
  <2>2. Len(q) - 1 \in Int
    BY <1>1
  <2>3. QED BY <2>1, <2>2, SubSeqProperties DEF Front
<1>5. SubSeq(q, 1, Len(q)) = SubSeq(q, 1, Len(q) - 1) \o <<q[Len(q)]>>
  <2>1. Len(q) \in 1..Len(q)
    BY <1>1
  <2>2. QED BY <1>1, <2>1, SubSeqRecursiveSecond
<1>6. SubSeq(q, 1, Len(q)) = q
  BY SubSeqFull
<1>7. <<Last(q)>> \in Seq(S)
  BY <1>3
<1>8. Cat(Front(q), <<Last(q)>>) = q
  BY <1>5, <1>6 DEF Front, Last, Cat
<1>9. QED BY <1>3, <1>4, <1>7, <1>8

LEMMA DropEnd ==
  ASSUME NEW S, NEW a \in Seq(S), NEW b \in Seq(S)
  PROVE  SubSeq(Cat(a, b), 1, Len(Cat(a, b)) - Len(b)) = a
<1>1. /\ a \o b \in Seq(S) /\ Len(a \o b) = Len(a) + Len(b) /\ Len(a) \in Nat /\ Len(b) \in Nat
      /\ \A i \in 1..Len(a) : (a \o b)[i] = a[i] /\ a[i] \in S
  OBVIOUS
<1>2. Len(a \o b) - Len(b) = Len(a)
  BY <1>1
<1>3. \A i \in 1..Len(a) : (a \o b)[i] \in S
  BY <1>1
<1>4. /\ SubSeq(a \o b, 1, Len(a)) \in Seq(S)
      /\ Len(SubSeq(a \o b, 1, Len(a))) = IF 1 <= Len(a) THEN Len(a) - 1 + 1 ELSE 0
      /\ \A i \in 1..(Len(a) - 1 + 1) : SubSeq(a \o b, 1, Len(a))[i] = (a \o b)[1 + i - 1]
  <2>1. Len(a) \in Int /\ 1 \in Int
    BY <1>1
  <2>2. QED BY ONLY <1>3, <2>1, SubSeqProperties
<1>5. Len(SubSeq(a \o b, 1, Len(a))) = Len(a)
  BY <1>1, <1>4
<1>6. \A i \in 1..Len(a) : SubSeq(a \o b, 1, Len(a))[i] = a[i]
  BY <1>1, <1>4
<1>7. SubSeq(a \o b, 1, Len(a)) = a
  BY <1>4, <1>5, <1>6, SeqEqual
<1>8. QED BY <1>2, <1>7 DEF Cat

-----------------------------------------------------------------------------
(* What the operators do to a track.                                       *)

LEMMA SentKeeps ==
  ASSUME NEW k, TrackInv(k), NEW t, NEW b, NEW body \in Seq(Samples), NEW held \in Seq(Samples)
  PROVE  LET u == Send(t, k, body, held, b) IN
         /\ IsTrack(u) /\ u.queue = k.queue /\ u.given = k.given /\ u.meta = k.meta
         /\ u.stash = held /\ u.sent = Cat(k.sent, body)
<1> DEFINE frames == Frames(t, k, body, held, b)
           info == Info(frames[1], Last(frames))
           place == Place(k, info)
           l == InsertAt(k.list, place + 1, info)
           n == Last(frames).dts + Last(frames).dur
           k1 == [k EXCEPT !.list = l, !.placed = place]
<1>1. IsTrack(k)
  BY DEF TrackInv
<1>2. AppendInfo(k, info) = k1
  BY DEF AppendInfo
<1>3. Send(t, k, body, held, b)
        = [AppendInfo(k, info) EXCEPT !.next = n, !.stash = held, !.sent = @ \o body, !.frames = @ \o frames]
  BY DEF Send, SendFrames
<1> HIDE DEF info, place, l, n, frames
<1>4. /\ IsTrack(k1) /\ k1.queue = k.queue /\ k1.given = k.given /\ k1.meta = k.meta
      /\ k1.sent = k.sent
  BY <1>1 DEF IsTrack
<1> HIDE DEF k1
<1>5. Cat(k1.sent, body) \in Seq(Samples)
  BY <1>4, CatTyped DEF IsTrack
<1> DEFINE m == Cat(k1.sent, body)
           f == k1.frames \o frames
           u == [k1 EXCEPT !.next = n, !.stash = held, !.sent = m, !.frames = f]
<1>6. Send(t, k, body, held, b) = u
  BY <1>2, <1>3 DEF Cat
<1> HIDE DEF m, f
<1>7. /\ IsTrack(u) /\ u.queue = k1.queue /\ u.given = k1.given /\ u.meta = k1.meta
      /\ u.stash = held /\ u.sent = m
  BY <1>4, <1>5 DEF IsTrack, m
<1>8. QED BY <1>4, <1>6, <1>7 DEF m

LEMMA FieldKept ==
  ASSUME NEW k, TrackInv(k), NEW x
  PROVE  /\ TrackInv([k EXCEPT !.meta = x]) /\ TrackInv([k EXCEPT !.next = x])
<1>1. IsTrack(k) /\ Cat(Cat(k.sent, k.stash), k.queue) = k.given
  BY DEF TrackInv, Once
<1>2. ASSUME NEW u, u = [k EXCEPT !.meta = x] \/ u = [k EXCEPT !.next = x] PROVE TrackInv(u)
  <2>1. /\ IsTrack(u) /\ u.queue = k.queue /\ u.stash = k.stash /\ u.sent = k.sent
        /\ u.given = k.given
    BY <1>1, <1>2 DEF IsTrack
  <2>2. QED BY <1>1, <2>1 DEF TrackInv, Once
<1>3. QED BY <1>2

LEMMA RemuxQueueKeeps ==
  ASSUME NEW k, TrackInv(k), NEW t, NEW b
  PROVE  TrackInv(RemuxQueue(t, k, b))
<1>0. /\ IsTrack(k) /\ Cat(Cat(k.sent, k.stash), k.queue) = k.given
      /\ k.queue \in Seq(Samples) /\ k.stash \in Seq(Samples) /\ k.sent \in Seq(Samples)
      /\ k.given \in Seq(Samples)
  BY DEF TrackInv, Once, IsTrack
<1>1. CASE ~Ready(k)
  BY <1>1 DEF RemuxQueue
<1>2. CASE Ready(k)
  <2> DEFINE body == Cat(k.stash, Front(k.queue))
             held == <<Last(k.queue)>>
             s == Send(t, k, body, held, b)
             u == [s EXCEPT !.queue = <<>>]
  <2>1. RemuxQueue(t, k, b) = u
    BY <1>2 DEF RemuxQueue, Body, Cat
  <2>2. Front(k.queue) \in Seq(Samples) /\ held \in Seq(Samples) /\ Cat(Front(k.queue), held) = k.queue
    <3>1. Len(k.queue) >= 2 /\ Len(k.queue) \in Nat
      BY <1>0, <1>2 DEF Ready
    <3>2. Len(k.queue) >= 1 /\ k.queue \in Seq(Samples)
      BY <1>0, <3>1
    <3>3. QED BY ONLY <3>2, FrontLast
  <2>3. body \in Seq(Samples)
    BY <1>0, <2>2, CatTyped
  <2> HIDE DEF held
  <2>4. Cat(Cat(k.sent, body), held) = Cat(Cat(k.sent, k.stash), k.queue)
    <3> DEFINE a == k.sent
               c == k.stash
               d == Front(k.queue)
    <3>1. /\ a \in Seq(Samples) /\ c \in Seq(Samples) /\ d \in Seq(Samples) /\ held \in Seq(Samples)
          /\ Cat(d, held) = k.queue /\ body = Cat(c, d)
      BY <1>0, <2>2
    <3> HIDE DEF a, c, d
    <3>2. Cat(Cat(a, Cat(c, d)), held) = Cat(Cat(a, c), Cat(d, held))
      BY ONLY <3>1, Regroup
    <3>3. QED BY <3>1, <3>2 DEF a, c
  <2> HIDE DEF body
  <2>5. IsTrack(s) /\ s.given = k.given /\ s.stash = held /\ s.sent = Cat(k.sent, body)
    <3>1. TrackInv(k)
      OBVIOUS
    <3>2. QED BY ONLY <2>2, <2>3, <3>1, SentKeeps
  <2> HIDE DEF s
  <2>0. <<>> \in Seq(Samples)
    OBVIOUS
  <2>6. /\ IsTrack(u) /\ u.given = s.given /\ u.stash = s.stash /\ u.sent = s.sent /\ u.queue = <<>>
    BY <2>0, <2>5 DEF IsTrack
  <2>7. Cat(Cat(u.sent, u.stash), u.queue) = Cat(u.sent, u.stash)
    BY <2>6, CatTyped, CatEmpty DEF IsTrack
  <2>8. Once(u)
    BY <1>0, <2>4, <2>5, <2>6, <2>7 DEF Once
  <2>9. QED BY <2>1, <2>6, <2>8 DEF TrackInv
<1>3. QED BY <1>1, <1>2

LEMMA FlushStashKeeps ==
  ASSUME NEW k, TrackInv(k), NEW t
  PROVE  TrackInv(FlushStash(t, k))
<1>0. /\ IsTrack(k) /\ Cat(Cat(k.sent, k.stash), k.queue) = k.given
      /\ k.queue \in Seq(Samples) /\ k.stash \in Seq(Samples) /\ k.sent \in Seq(Samples)
  BY DEF TrackInv, Once, IsTrack
<1>1. CASE k.stash = <<>>
  BY <1>1 DEF FlushStash
<1>2. CASE k.stash # <<>>
  <2> DEFINE e == <<>>
             u == Send(t, k, k.stash, e, base)
  <2>1. FlushStash(t, k) = u
    BY <1>2 DEF FlushStash
  <2>2. e \in Seq(Samples)
    OBVIOUS
  <2> HIDE DEF e
  <2>3. IsTrack(u) /\ u.queue = k.queue /\ u.given = k.given /\ u.stash = e /\ u.sent = Cat(k.sent, k.stash)
    <3>1. TrackInv(k) /\ k.stash \in Seq(Samples)
      BY <1>0
    <3>2. QED BY ONLY <2>2, <3>1, SentKeeps
  <2> HIDE DEF u
  <2>4. Cat(u.sent, u.stash) = u.sent
    BY <2>3, CatEmpty DEF IsTrack, e
  <2>5. QED BY <1>0, <2>1, <2>3, <2>4 DEF TrackInv, Once
<1>3. QED BY <1>1, <1>2

(* A seek forgets what was sent and held back, and keeps the queue.        *)
LEMMA SeekTrackKeeps ==
  ASSUME NEW k, TrackInv(k)
  PROVE  TrackInv(SeekTrack(k))
<1> DEFINE old == [i \in 1..Len(k.queue) |-> [k.queue[i] EXCEPT !.stale = TRUE]]
           d == Discontinue(k)
           u == [d EXCEPT !.stash = <<>>, !.list = <<>>, !.placed = -1,
                          !.queue = old, !.given = old, !.sent = <<>>, !.frames = <<>>]
<1>1. SeekTrack(k) = u
  BY DEF SeekTrack
<1>2. k.queue \in Seq(Samples) /\ IsTrack(d)
  BY FieldKept DEF TrackInv, IsTrack, Discontinue
<1>3. old \in Seq(Samples)
  <2>1. \A i \in 1..Len(k.queue) : [k.queue[i] EXCEPT !.stale = TRUE] \in Samples
    <3>1. \A i \in 1..Len(k.queue) : k.queue[i] \in Samples
      BY <1>2, ElementOfSeq
    <3>2. QED BY <3>1 DEF Samples
  <2>2. Len(k.queue) \in Nat
    BY <1>2
  <2>3. QED BY <2>1, <2>2
<1> HIDE DEF old, d
<1>4. /\ IsTrack(u) /\ u.queue = old /\ u.given = old /\ u.sent = <<>> /\ u.stash = <<>>
  <2>1. <<>> \in Seq(Samples)
    OBVIOUS
  <2>2. QED BY <1>2, <1>3, <2>1 DEF IsTrack
<1>5. Cat(Cat(<<>>, <<>>), old) = old
  <2>1. Cat(<<>>, old) = old
    BY <1>3, CatEmpty
  <2>2. Cat(<<>>, <<>>) = <<>>
    <3> DEFINE e == <<>>
    <3>1. e \in Seq(Samples)
      OBVIOUS
    <3>2. QED BY <3>1, CatEmpty
  <2>3. QED BY <2>1, <2>2
<1>6. QED BY <1>1, <1>4, <1>5 DEF TrackInv, Once

(* The queue of a demuxer that is replaced is no longer counted.           *)
LEMMA ReplacedKeeps ==
  ASSUME NEW k, TrackInv(k)
  PROVE  TrackInv([k EXCEPT !.queue = <<>>, !.given = SubSeq(@, 1, Len(@) - Len(k.queue))])
<1> DEFINE g == SubSeq(k.given, 1, Len(k.given) - Len(k.queue))
           u == [k EXCEPT !.queue = <<>>, !.given = g]
           a == Cat(k.sent, k.stash)
<1>1. /\ IsTrack(k) /\ Cat(a, k.queue) = k.given /\ k.queue \in Seq(Samples) /\ a \in Seq(Samples)
  BY CatTyped DEF TrackInv, Once, IsTrack
<1>2. g = a
  <2> HIDE DEF a
  <2>1. SubSeq(Cat(a, k.queue), 1, Len(Cat(a, k.queue)) - Len(k.queue)) = a
    BY <1>1, DropEnd
  <2>2. QED BY <1>1, <2>1
<1> HIDE DEF g
<1>3. /\ IsTrack(u) /\ u.queue = <<>> /\ u.given = g /\ u.sent = k.sent /\ u.stash = k.stash
  <2>1. <<>> \in Seq(Samples) /\ g \in Seq(Samples)
    BY <1>1, <1>2
  <2> HIDE DEF a
  <2>2. QED BY <1>1, <2>1 DEF IsTrack
<1>4. Cat(a, <<>>) = a
  BY <1>1, CatEmpty
<1>5. QED BY <1>2, <1>3, <1>4 DEF TrackInv, Once, g

LEMMA SampleKeeps ==
  ASSUME NEW k, TrackInv(k), NEW x \in Samples
  PROVE  TrackInv([k EXCEPT !.queue = Append(@, x), !.given = Append(@, x)])
<1> DEFINE q == Append(k.queue, x)
           g == Append(k.given, x)
           u == [k EXCEPT !.queue = q, !.given = g]
           a == Cat(k.sent, k.stash)
           l == k.queue
<1>1. /\ IsTrack(k) /\ Cat(a, l) = k.given /\ l \in Seq(Samples) /\ a \in Seq(Samples)
      /\ k.given \in Seq(Samples)
  BY CatTyped DEF TrackInv, Once, IsTrack
<1>2. q \in Seq(Samples) /\ g \in Seq(Samples)
  BY <1>1
<1>3. Cat(a, q) = g
  <2>0. a \in Seq(Samples) /\ l \in Seq(Samples) /\ x \in Samples
    BY <1>1
  <2>1. q = Append(l, x) /\ g = Append(Cat(a, l), x)
    BY <1>1
  <2> HIDE DEF a, l, q, g
  <2>2. Cat(a, Append(l, x)) = Append(Cat(a, l), x)
    BY ONLY <2>0, AppendBehind
  <2>3. QED BY <2>1, <2>2
<1> HIDE DEF q, g
<1>4. /\ IsTrack(u) /\ u.queue = q /\ u.given = g /\ u.sent = k.sent /\ u.stash = k.stash
  BY <1>1, <1>2 DEF IsTrack
<1>5. TrackInv(u)
  BY <1>3, <1>4 DEF TrackInv, Once
<1>6. QED BY <1>5 DEF q, g
-----------------------------------------------------------------------------
(* What the actions do to the loader.                                      *)

LEMMA FileTyped ==
  /\ \A p \in Parts : Len(File[p]) \in Nat /\ PartStart[p] \in Nat
  /\ \A p \in Parts : \A i \in 1..Len(File[p]) : File[p][i].time \in Nat
  /\ 1 \in Parts
<1> DEFINE Tag == [kind : Kinds, time : Nat]
<1>1. File \in Seq(Seq(Tag)) /\ File # <<>> /\ PartStart \in [Parts -> Nat]
  BY FileAssumption
<1> HIDE DEF Tag
<1>2. \A p \in Parts : File[p] \in Seq(Tag)
  BY <1>1, ElementOfSeq, LenProperties DEF Parts
<1>3. \A p \in Parts : \A i \in 1..Len(File[p]) : File[p][i] \in Tag
  BY <1>2, ElementOfSeq
<1>4. 1 \in Parts
  BY <1>1, EmptySeq, LenProperties DEF Parts
<1>5. \A p \in Parts : Len(File[p]) \in Nat
  BY <1>2, LenProperties
<1>6. QED BY <1>1, <1>3, <1>4, <1>5 DEF Tag

LEMMA KeyframeInside ==
  ASSUME NEW k \in Keyframes
  PROVE  k[1] \in Parts /\ k[2] - 1 \in Nat /\ k[2] - 1 <= Len(File[k[1]])
<1>1. PICK p \in Parts : k \in {<<p, i>> : i \in {j \in DOMAIN File[p] : File[p][j].kind = "key"}}
  BY DEF Keyframes
<1>2. PICK i \in DOMAIN File[p] : k = <<p, i>>
  BY <1>1
<1>3. File[p] \in Seq([kind : Kinds, time : Nat])
  BY FileAssumption, ElementOfSeq, LenProperties DEF Parts
<1>4. i \in 1..Len(File[p]) /\ Len(File[p]) \in Nat
  BY <1>3, LenProperties
<1>5. k[1] = p /\ k[2] = i
  BY <1>2
<1>6. QED BY <1>4, <1>5

\* A place the loader can be moved to.
Loadable(part, pos, pend, seeks) ==
  /\ IoInv(io) /\ ~io.parsing /\ part \in Parts /\ pos \in Nat /\ pos <= Len(File[part])
  /\ pend \in Keyframes \cup {None} /\ seeks \in Nat

Loaded(part, pos, header, pend, seeks) ==
  [Load(part, pos, header) EXCEPT !.pend = pend, !.seeks = seeks]

LEMMA LoadKeeps ==
  ASSUME NEW part, NEW pos, NEW pend, NEW seeks, Loadable(part, pos, pend, seeks),
         NEW header \in BOOLEAN
  PROVE  /\ IoInv(Loaded(part, pos, header, pend, seeks))
         /\ IoInv(Load(part, pos, header))
<1>1. /\ io \in IoType /\ io.left = 0 /\ ~io.parsing /\ part \in Parts /\ pos \in Nat
      /\ pos <= Len(File[part]) /\ pend \in Keyframes \cup {None} /\ seeks \in Nat
  BY DEF IoInv, Loadable
<1> DEFINE u == [io EXCEPT !.part = part, !.pos = pos, !.header = header, !.told = FALSE, !.done = FALSE]
           v == [u EXCEPT !.pend = pend, !.seeks = seeks]
<1>2. u \in IoType /\ u.left = 0 /\ ~u.parsing /\ u.part = part /\ u.pos = pos /\ ~u.told
  BY <1>1 DEF IoType
<1> HIDE DEF u
<1>3. v \in IoType /\ v.left = 0 /\ ~v.parsing /\ v.part = part /\ v.pos = pos /\ ~v.told
  BY <1>1, <1>2 DEF IoType
<1> HIDE DEF v
<1>4. pos + 0 <= Len(File[part])
  BY <1>1
<1>5. IoInv(u) /\ IoInv(v)
  BY <1>2, <1>3, <1>4 DEF IoInv
<1>6. QED BY <1>5 DEF u, v, Load, Loaded

(* The next tag: a track's configuration and its samples leave the loader  *)
(* as inside the part as it was.                                           *)
LEMMA TagKeeps ==
  ASSUME IoInv(io), NEW kind, Parsing(kind), NEW told \in BOOLEAN, NEW known \in SUBSET Parts
  PROVE  /\ IoInv([io EXCEPT !.pos = @ + 1, !.left = @ - 1])
         /\ IoInv([io EXCEPT !.pos = @ + 1, !.left = @ - 1, !.told = told, !.known = known])
         /\ io.part \in Parts /\ io.pos + 1 \in 1..Len(Tags)
<1>1. io \in IoType /\ io.parsing /\ io.left > 0 /\ io.pos + io.left <= Len(File[io.part])
  BY DEF IoInv, Parsing
<1>2. Len(File[io.part]) \in Nat
  BY <1>1, FileTyped DEF IoType
<1> DEFINE p == io.pos + 1
           l == io.left - 1
           u == [io EXCEPT !.pos = p, !.left = l]
           v == [u EXCEPT !.told = told, !.known = known]
<1>3. io.part \in Parts /\ io.pos \in Nat /\ io.left \in Nat
  BY <1>1 DEF IoType
<1>4. p \in Nat /\ l \in Nat /\ p + l <= Len(File[io.part])
  BY <1>1, <1>2, <1>3
<1> HIDE DEF p, l
<1>5. u \in IoType /\ u.part = io.part /\ u.pos = p /\ u.left = l /\ u.parsing
  BY <1>1, <1>4 DEF IoType
<1> HIDE DEF u
<1>6. v \in IoType /\ v.part = u.part /\ v.pos = u.pos /\ v.left = u.left /\ v.parsing
  BY <1>5 DEF IoType
<1> HIDE DEF v
<1>7. IoInv(u) /\ IoInv(v)
  BY <1>4, <1>5, <1>6 DEF IoInv
<1>8. io.pos + 1 \in 1..Len(Tags)
  BY <1>1, <1>2, <1>3 DEF Tags
<1>9. QED BY <1>3, <1>7, <1>8 DEF u, v, p, l

LEMMA TellKeeps ==
  ASSUME IoInv(io), NEW kind, Parsing(kind), NEW d, TellMediaInfo(d)
  PROVE  IoInv(io')
<1> DEFINE told == io.told \/ Complete(d)
           known == IF Complete(d) THEN io.known \cup {io.part} ELSE io.known
<1>1. io' = [io EXCEPT !.pos = @ + 1, !.left = @ - 1, !.told = told, !.known = known]
  BY DEF TellMediaInfo
<1>2. told \in BOOLEAN
  OBVIOUS
<1>3. io.part \in Parts /\ io.known \in SUBSET Parts
  BY DEF IoInv, IoType
<1>4. known \in SUBSET Parts
  BY <1>3
<1> HIDE DEF told, known
<1>5. QED BY <1>1, <1>2, <1>4, TagKeeps

-----------------------------------------------------------------------------
(* What the actions do to the tracks.                                      *)

LEMMA ParsedKeeps ==
  ASSUME TracksInv(trk), RemuxParsed
  PROVE  TracksInv(trk')
<1>1. CASE UNCHANGED trk
  BY <1>1
<1>2. CASE trk' = [t \in Tracks |-> RemuxQueue(t, trk[t], DtsBase)]
  <2> DEFINE b == DtsBase
  <2>1. trk' = [t \in Tracks |-> RemuxQueue(t, trk[t], b)]
    BY <1>2
  <2> HIDE DEF b
  <2>2. \A t \in Tracks : TrackInv(RemuxQueue(t, trk[t], b))
    BY RemuxQueueKeeps DEF TracksInv
  <2>3. QED BY <2>1, <2>2 DEF TracksInv
<1>3. QED BY <1>1, <1>2 DEF RemuxParsed

LEMMA ConfigKeeps ==
  ASSUME RemuxInv, NEW t \in Tracks, NEW kind, Parsing(kind), ParseConfig(t)
  PROVE  RemuxInv'
<1>1. IoInv(io')
  <2>1. PICK d : TellMediaInfo(d)
    BY DEF ParseConfig
  <2>2. QED BY <2>1, TellKeeps DEF RemuxInv
<1>2. TracksInv(trk) /\ \A u \in Tracks : TrackInv(trk[u])
  BY DEF RemuxInv, TracksInv
<1>3. CASE trk' = [trk EXCEPT ![t].meta = TRUE]
  <2>1. TrackInv([trk[t] EXCEPT !.meta = TRUE])
    BY <1>2, FieldKept
  <2>2. trk' = [trk EXCEPT ![t] = [trk[t] EXCEPT !.meta = TRUE]]
    BY <1>3
  <2>3. TracksInv(trk')
    BY <1>2, <2>1, <2>2 DEF TracksInv
  <2>4. QED BY <1>1, <2>3 DEF RemuxInv
<1>4. CASE trk' = [u \in Tracks |-> [RemuxQueue(u, trk[u], DtsBase) EXCEPT !.meta = @ \/ u = t]]
  <2> DEFINE b == DtsBase
             k(u) == RemuxQueue(u, trk[u], b)
             new(u) == [k(u) EXCEPT !.meta = k(u).meta \/ u = t]
  <2>1. trk' = [u \in Tracks |-> new(u)]
    BY <1>4
  <2> HIDE DEF b
  <2>2. \A u \in Tracks : TrackInv(k(u))
    BY <1>2, RemuxQueueKeeps
  <2> HIDE DEF k
  <2>3. \A u \in Tracks : TrackInv(new(u))
    BY <2>2, FieldKept
  <2> HIDE DEF new
  <2>4. TracksInv(trk')
    BY <2>1, <2>3 DEF TracksInv
  <2>5. QED BY <1>1, <2>4 DEF RemuxInv
<1>5. QED BY <1>3, <1>4 DEF ParseConfig

LEMMA SampleTagKeeps ==
  ASSUME RemuxInv, NEW t \in Tracks, NEW kind, Parsing(kind), NEW d, NextTag(d), ParseSample(t)
  PROVE  RemuxInv'
<1>1. IoInv(io') /\ io.part \in Parts /\ io.pos + 1 \in 1..Len(Tags)
  BY TagKeeps DEF NextTag, RemuxInv
<1> DEFINE x == [part |-> io.part, at |-> io.pos + 1,
                 time |-> PartStart[io.part] + Tags[io.pos + 1].time, stale |-> FALSE]
<1>2. x \in Samples
  <2>1. PartStart[io.part] \in Nat /\ Tags[io.pos + 1].time \in Nat
    BY <1>1, FileTyped DEF Tags
  <2>2. QED BY <1>1, <2>1 DEF Samples
<1>3. trk' = [trk EXCEPT ![t].queue = Append(@, x), ![t].given = Append(@, x)]
  BY DEF ParseSample
<1> HIDE DEF x
<1>4. TracksInv(trk) /\ TrackInv(trk[t])
  BY DEF RemuxInv, TracksInv
<1>5. TrackInv([trk[t] EXCEPT !.queue = Append(@, x), !.given = Append(@, x)])
  BY <1>2, <1>4, SampleKeeps
<1>6. trk' = [trk EXCEPT ![t] = [trk[t] EXCEPT !.queue = Append(@, x), !.given = Append(@, x)]]
  BY <1>3, <1>4 DEF TracksInv
<1>7. TracksInv(trk')
  BY <1>4, <1>5, <1>6 DEF TracksInv
<1>8. QED BY <1>1, <1>7 DEF RemuxInv

LEMMA SeekToKeeps ==
  ASSUME RemuxInv, ~io.parsing, NEW k \in Keyframes, k # None \/ ~io.told,
         NEW pend \in Keyframes \cup {None}, NEW seeks \in Nat, SeekTo(k, pend, seeks)
  PROVE  RemuxInv'
<1>1. IoInv(io) /\ TracksInv(trk)
  BY DEF RemuxInv
<1>2. k[1] \in Parts /\ k[2] - 1 \in Nat /\ k[2] - 1 <= Len(File[k[1]]) /\ 0 <= Len(File[k[1]])
  BY KeyframeInside, FileTyped
<1>3. CASE io' = [io EXCEPT !.pend = k, !.seeks = seeks] /\ UNCHANGED trk
  <2>1. IoInv(io')
    BY <1>1, <1>3 DEF IoInv, IoType
  <2>2. QED BY <1>1, <1>3, <2>1 DEF RemuxInv
<1>4. CASE /\ \/ io' = [Load(k[1], k[2] - 1, FALSE) EXCEPT !.pend = pend, !.seeks = seeks]
              \/ io' = [Load(k[1], 0, TRUE) EXCEPT !.pend = k, !.seeks = seeks]
           /\ trk' = [t \in Tracks |-> SeekTrack(trk[t])]
  <2>1. ASSUME io' = [Load(k[1], k[2] - 1, FALSE) EXCEPT !.pend = pend, !.seeks = seeks]
        PROVE  IoInv(io')
    <3> DEFINE part == k[1]
               pos == k[2] - 1
    <3>1. Loadable(part, pos, pend, seeks)
      BY <1>1, <1>2 DEF Loadable
    <3> HIDE DEF part, pos
    <3>2. IoInv(Loaded(part, pos, FALSE, pend, seeks))
      BY <3>1, LoadKeeps
    <3>3. QED BY <2>1, <3>2 DEF part, pos, Loaded
  <2>2. ASSUME io' = [Load(k[1], 0, TRUE) EXCEPT !.pend = k, !.seeks = seeks]
        PROVE  IoInv(io')
    <3> DEFINE part == k[1]
               pend1 == k
    <3>1. Loadable(part, 0, pend1, seeks)
      BY <1>1, <1>2 DEF Loadable
    <3> HIDE DEF part, pend1
    <3>2. IoInv(Loaded(part, 0, TRUE, pend1, seeks))
      BY <3>1, LoadKeeps
    <3>3. QED BY <2>2, <3>2 DEF part, pend1, Loaded
  <2>3. \A t \in Tracks : TrackInv(SeekTrack(trk[t]))
    BY <1>1, SeekTrackKeeps DEF TracksInv
  <2>4. TracksInv(trk')
    BY <1>4, <2>3 DEF TracksInv
  <2>5. QED BY <1>4, <2>1, <2>2, <2>4 DEF RemuxInv
<1>5. QED BY <1>3, <1>4 DEF SeekTo

-----------------------------------------------------------------------------
(* Every sample once.                                                      *)

LEMMA RemuxInvInit == Init => RemuxInv
<1> SUFFICES ASSUME Init PROVE RemuxInv
  OBVIOUS
<1>1. 1 \in Parts /\ Len(File[1]) \in Nat
  BY FileTyped
<1>2. IoInv(io)
  <2>1. io.pos + io.left = 0 /\ io.part = 1 /\ io.left = 0 /\ ~io.told
    BY DEF Init
  <2>2. io \in IoType
    BY <1>1 DEF Init, IoType
  <2>3. QED BY <1>1, <2>1, <2>2 DEF IoInv
<1>3. TrackInv(NewTrack)
  <2> DEFINE e == <<>>
  <2>1. e \in Seq(Samples)
    OBVIOUS
  <2> DEFINE k == [queue |-> e, stash |-> e, next |-> None, list |-> e, placed |-> -1,
                   meta |-> FALSE, given |-> e, sent |-> e, frames |-> e]
  <2>2. NewTrack = k
    BY DEF NewTrack
  <2> HIDE DEF e
  <2>3. IsTrack(k) /\ k.sent = e /\ k.stash = e /\ k.queue = e /\ k.given = e
    BY <2>1 DEF IsTrack
  <2>4. Cat(e, e) = e
    BY <2>1, CatEmpty DEF e
  <2>5. QED BY <2>2, <2>3, <2>4 DEF TrackInv, Once
<1>4. TracksInv(trk)
  BY <1>3 DEF TracksInv, Init
<1>5. QED BY <1>2, <1>4 DEF RemuxInv

LEMMA ArriveKeeps ==
  ASSUME RemuxInv, NEW n \in 1..MaxChunk, Arrive(n)
  PROVE  RemuxInv'
<1>1. IoInv(io) /\ TracksInv(trk) /\ n \in Nat
  BY BoundsAssumption DEF RemuxInv
<1>2. io \in IoType /\ io.part \in Parts /\ io.pos + n <= Len(File[io.part]) /\ ~io.told
  BY <1>1 DEF IoInv, IoType, Arrive, Tags
<1>3. IoInv(io')
  <2>1. /\ io' \in IoType /\ io'.pos = io.pos /\ io'.left = n /\ io'.part = io.part
        /\ io'.parsing /\ ~io'.told
    BY <1>1, <1>2 DEF IoType, Arrive
  <2>2. QED BY <1>2, <2>1 DEF IoInv
<1>4. CASE UNCHANGED trk
  BY <1>1, <1>3, <1>4 DEF RemuxInv
<1>5. CASE trk' = [t \in Tracks |->
                     [trk[t] EXCEPT !.queue = <<>>,
                                    !.given = SubSeq(@, 1, Len(@) - Len(trk[t].queue))]]
  <2>1. \A t \in Tracks :
          TrackInv([trk[t] EXCEPT !.queue = <<>>,
                                  !.given = SubSeq(@, 1, Len(@) - Len(trk[t].queue))])
    BY <1>1, ReplacedKeeps DEF TracksInv
  <2>2. TracksInv(trk')
    BY <1>5, <2>1 DEF TracksInv
  <2>3. QED BY <1>3, <2>2 DEF RemuxInv
<1>6. QED BY <1>4, <1>5 DEF Arrive

LEMMA DispatchKeeps ==
  ASSUME RemuxInv, Dispatch
  PROVE  RemuxInv'
<1>1. IoInv(io) /\ TracksInv(trk)
  BY DEF RemuxInv
<1>2. IoInv(io')
  <2>1. /\ io' \in IoType /\ io'.pos = io.pos /\ io'.left = io.left /\ io'.part = io.part
        /\ ~io'.parsing /\ io'.pend = io.pend /\ (io'.told => io.pend # None) /\ io.left = 0
    BY <1>1 DEF IoInv, IoType, Dispatch
  <2>2. QED BY <1>1, <2>1 DEF IoInv
<1>3. TracksInv(trk')
  <2>1. CASE UNCHANGED trk
    BY <1>1, <2>1
  <2>2. CASE RemuxParsed
    BY <1>1, <2>2, ParsedKeeps
  <2>3. QED BY <2>1, <2>2 DEF Dispatch, DispatchParsed
<1>4. QED BY <1>2, <1>3 DEF RemuxInv

LEMMA PauseKeeps ==
  ASSUME RemuxInv, PauseAndResume
  PROVE  RemuxInv'
<1>1. IoInv(io) /\ TracksInv(trk)
  BY DEF RemuxInv
<1>2. IoInv(io')
  BY <1>1 DEF IoInv, IoType, PauseAndResume
<1>3. \A t \in Tracks : TrackInv(Discontinue(trk[t]))
  BY <1>1, FieldKept DEF TracksInv, Discontinue
<1>4. TracksInv(trk')
  BY <1>3 DEF TracksInv, PauseAndResume
<1>5. QED BY <1>2, <1>4 DEF RemuxInv

LEMMA PartCompleteKeeps ==
  ASSUME RemuxInv, PartComplete
  PROVE  RemuxInv'
<1>1. IoInv(io) /\ TracksInv(trk) /\ ~io.parsing
  BY DEF RemuxInv, PartComplete, Idle
<1>2. IoInv(io')
  <2>1. CASE io.part + 1 \in Parts /\ io' = Load(io.part + 1, 0, TRUE)
    <3> DEFINE part == io.part + 1
    <3>1. Loadable(part, 0, io.pend, io.seeks)
      BY <1>1, <2>1, FileTyped DEF Loadable, IoInv, IoType
    <3> HIDE DEF part
    <3>2. IoInv(Load(part, 0, TRUE))
      BY <3>1, LoadKeeps
    <3>3. QED BY <2>1, <3>2 DEF part
  <2>2. CASE io' = [io EXCEPT !.done = TRUE]
    BY <1>1, <2>2 DEF IoInv, IoType
  <2>3. QED BY <2>1, <2>2 DEF PartComplete
<1>3. \A t \in Tracks : TrackInv(FlushStash(t, trk[t]))
  BY <1>1, FlushStashKeeps DEF TracksInv
<1>4. TracksInv(trk')
  BY <1>3 DEF TracksInv, PartComplete
<1>5. QED BY <1>2, <1>4 DEF RemuxInv

LEMMA RemuxInvStep == RemuxInv /\ [Next]_vars => RemuxInv'
<1> SUFFICES ASSUME RemuxInv, [Next]_vars PROVE RemuxInv'
  OBVIOUS
<1>1. ASSUME NEW n \in 1..MaxChunk, Arrive(n) PROVE RemuxInv'
  BY <1>1, ArriveKeeps
<1>2. CASE ParseScript
  <2>1. IoInv(io')
    BY <1>2, TellKeeps DEF ParseScript, RemuxInv
  <2>2. QED BY <1>2, <2>1 DEF ParseScript, RemuxInv
<1>3. CASE ParseAudioConfig
  BY <1>3, ConfigKeeps DEF ParseAudioConfig, Tracks
<1>4. CASE ParseVideoConfig
  BY <1>4, ConfigKeeps DEF ParseVideoConfig, Tracks
<1>5. CASE ParseAudio
  BY <1>5, SampleTagKeeps DEF ParseAudio, Tracks
<1>6. CASE ParseVideo
  BY <1>6, SampleTagKeeps DEF ParseVideo, VideoTag, Tracks
<1>7. CASE Dispatch
  BY <1>7, DispatchKeeps
<1>8. CASE PendingSeek
  <2>1. /\ ~io.parsing /\ io.told /\ io.pend \in Keyframes \cup {None} /\ io.pend # None
        /\ io.seeks \in Nat /\ None \in Keyframes \cup {None}
    BY <1>8 DEF PendingSeek, RemuxInv, IoInv, IoType
  <2>2. SeekTo(io.pend, None, io.seeks)
    BY <1>8 DEF PendingSeek
  <2>3. QED BY <2>1, <2>2, SeekToKeeps
<1>9. ASSUME NEW k \in Keyframes, Seek(k) PROVE RemuxInv'
  <2>1. /\ ~io.parsing /\ ~io.told /\ io.pend \in Keyframes \cup {None}
        /\ io.seeks + 1 \in Nat
    BY <1>9 DEF Seek, Idle, RemuxInv, IoInv, IoType
  <2>2. SeekTo(k, io.pend, io.seeks + 1)
    BY <1>9 DEF Seek
  <2>3. QED BY <2>1, <2>2, SeekToKeeps
<1>10. CASE PauseAndResume
  BY <1>10, PauseKeeps
<1>11. CASE PartComplete
  BY <1>11, PartCompleteKeeps
<1>12. CASE UNCHANGED vars
  BY <1>12 DEF vars, RemuxInv
<1>13. QED BY <1>1, <1>2, <1>3, <1>4, <1>5, <1>6, <1>7, <1>8, <1>9, <1>10, <1>11, <1>12 DEF Next

LEMMA RemuxInvAlways == Spec => []RemuxInv
BY RemuxInvInit, RemuxInvStep, PTL DEF Spec

(* Every sample parsed since the last seek is in a segment, is held back,  *)
(* or waits in the demuxer, in the order of the tags: _remuxAudio and      *)
(* _remuxVideo lose none and send none twice (EachOnce).                   *)
THEOREM EachOnceHolds == Spec => []EachOnce
<1>1. RemuxInv => EachOnce
  <2> SUFFICES ASSUME RemuxInv, NEW t \in Tracks
               PROVE  trk[t].sent \o trk[t].stash \o trk[t].queue = trk[t].given
    BY DEF EachOnce
  <2>1. Cat(Cat(trk[t].sent, trk[t].stash), trk[t].queue) = trk[t].given
    BY DEF RemuxInv, TracksInv, TrackInv, Once
  <2>2. QED BY <2>1 DEF Cat
<1>2. QED BY <1>1, RemuxInvAlways, PTL
-----------------------------------------------------------------------------
(* Induction over the naturals: a set of them has a least element, from    *)
(* which a set that holds 0 and with n also n + 1 holds all of them.       *)

Below == {ss \in Nat \X Nat : ss[1] < ss[2]}

LEMMA LeastNatural ==
  ASSUME NEW S \in SUBSET Nat, S # {}
  PROVE  \E x \in S : \A y \in S : x <= y
<1>1. IsWellFoundedOn(Below, Nat)
  BY NatLessThanWellFounded DEF OpToRel, Below
<1>2. PICK x \in S : \A y \in S : ~ (<<y, x>> \in Below)
  BY <1>1, WFMin
<1>3. \A y \in S : ~(y < x)
  BY <1>2 DEF Below
<1>4. QED BY <1>3

LEMMA EveryNatural ==
  ASSUME NEW S, 0 \in S, \A n \in Nat : n \in S => n + 1 \in S
  PROVE  Nat \subseteq S
<1> SUFFICES ASSUME ~(Nat \subseteq S) PROVE FALSE
  OBVIOUS
<1> DEFINE T == Nat \ S
<1>1. PICK x \in T : \A y \in T : x <= y
  BY LeastNatural
<1>2. x # 0 /\ x - 1 \in Nat /\ x - 1 \notin T
  BY <1>1
<1>3. QED BY <1>1, <1>2

-----------------------------------------------------------------------------
(* FlattenSeq is defined by a recursive function: it has a value, the      *)
(* concatenation so far.                                                   *)

FlatAt(seqs, f, i) == f[i] = IF i = 1 THEN seqs[i] ELSE f[i - 1] \o seqs[i]

Flat(seqs, f, n) == f = [i \in 1..Len(seqs) |-> f[i]] /\ \A i \in 1..Len(seqs) : i <= n => FlatAt(seqs, f, i)

LEMMA FlatGoesOn ==
  ASSUME NEW seqs, Len(seqs) \in Nat, NEW n \in Nat, NEW f, Flat(seqs, f, n)
  PROVE  \E g : Flat(seqs, g, n + 1)
<1> DEFINE D == 1..Len(seqs)
           v == IF n + 1 = 1 THEN seqs[n + 1] ELSE f[n] \o seqs[n + 1]
           g == [i \in D |-> IF i = n + 1 THEN v ELSE f[i]]
<1>1. g = [i \in D |-> g[i]]
  OBVIOUS
<1>2. ASSUME NEW i \in D, i <= n + 1 PROVE FlatAt(seqs, g, i)
  <2>1. CASE i = n + 1
    <3>1. g[i] = v
      BY <2>1
    <3>2. i # 1 => i - 1 \in D /\ g[i - 1] = f[n]
      BY <2>1
    <3>3. QED BY <3>1, <3>2, <2>1 DEF FlatAt
  <2>2. CASE i <= n
    <3>1. g[i] = f[i]
      BY <2>2
    <3>2. i # 1 => i - 1 \in D /\ g[i - 1] = f[i - 1]
      BY <2>2
    <3>3. QED BY <3>1, <3>2, <2>2 DEF FlatAt, Flat
  <2>3. QED BY <2>1, <2>2, <1>2
<1> HIDE DEF g
<1>3. QED BY <1>1, <1>2 DEF Flat

LEMMA FlattenUnfolds ==
  ASSUME NEW seqs, Len(seqs) \in Nat, Len(seqs) # 0
  PROVE  \E f : (\A i \in 1..Len(seqs) : FlatAt(seqs, f, i)) /\ FlattenSeq(seqs) = f[Len(seqs)]
<1> DEFINE N == Len(seqs)
           IsFlat(f) == f = [i \in 1..N |-> IF i = 1 THEN seqs[i] ELSE f[i - 1] \o seqs[i]]
           S == {n \in Nat : \E f : Flat(seqs, f, n)}
<1>1. 0 \in S
  <2> DEFINE f == [i \in 1..N |-> seqs]
  <2>1. f = [i \in 1..N |-> f[i]] /\ \A i \in 1..N : ~(i <= 0)
    OBVIOUS
  <2> HIDE DEF f
  <2>2. Flat(seqs, f, 0)
    BY <2>1 DEF Flat
  <2>3. QED BY <2>2
<1>2. ASSUME NEW n \in Nat, n \in S PROVE n + 1 \in S
  BY <1>2, FlatGoesOn
<1>3. N \in S
  <2> HIDE DEF S
  <2>1. Nat \subseteq S
    BY <1>1, <1>2, EveryNatural
  <2>2. QED BY <2>1
<1>4. PICK f : Flat(seqs, f, N)
  BY <1>3
<1>5. f = [i \in 1..N |-> f[i]] /\ \A i \in 1..N : FlatAt(seqs, f, i)
  BY <1>4 DEF Flat
<1>6. IsFlat(f)
  BY <1>5 DEF FlatAt
<1> DEFINE h == CHOOSE f0 : IsFlat(f0)
<1>7. IsFlat(h)
  BY <1>6
<1>8. FlattenSeq(seqs) = h[N]
  BY DEF FlattenSeq
<1> HIDE DEF h
<1>9. \A i \in 1..N : FlatAt(seqs, h, i)
  BY <1>7 DEF FlatAt
<1>10. QED BY <1>8, <1>9

(* Pieces that are chained by R and go on from one another by R make a     *)
(* chain.                                                                  *)
Chained(s, R) == \A i \in 1..(Len(s) - 1) : <<s[i], s[i + 1]>> \in R

LEMMA ChainGoesOn ==
  ASSUME NEW S, NEW R, NEW a \in Seq(S), NEW b \in Seq(S), a # <<>>, b # <<>>,
         Chained(a, R), Chained(b, R), <<Last(a), b[1]>> \in R
  PROVE  /\ a \o b \in Seq(S) /\ a \o b # <<>> /\ (a \o b)[1] = a[1] /\ Last(a \o b) = Last(b)
         /\ Chained(a \o b, R)
<1> DEFINE c == a \o b
<1>1. /\ c \in Seq(S) /\ Len(c) = Len(a) + Len(b) /\ Len(a) \in Nat \ {0} /\ Len(b) \in Nat \ {0}
      /\ \A i \in 1..Len(a) : c[i] = a[i]
      /\ \A i \in (Len(a) + 1)..(Len(a) + Len(b)) : c[i] = b[i - Len(a)]
  OBVIOUS
<1> HIDE DEF c
<1>2. c # <<>> /\ c[1] = a[1]
  BY <1>1
<1>3. Last(c) = Last(b)
  <2>1. Len(c) \in (Len(a) + 1)..(Len(a) + Len(b)) /\ Len(c) - Len(a) = Len(b)
    BY <1>1
  <2>2. c[Len(c)] = b[Len(b)]
    BY <1>1, <2>1
  <2>3. QED BY <2>2 DEF Last
<1>4. ASSUME NEW i \in 1..(Len(c) - 1) PROVE <<c[i], c[i + 1]>> \in R
  <2>1. CASE i < Len(a)
    <3>1. i \in 1..(Len(a) - 1) /\ c[i] = a[i] /\ c[i + 1] = a[i + 1]
      BY <1>1, <2>1
    <3>2. QED BY <3>1 DEF Chained
  <2>2. CASE i = Len(a)
    <3>1. /\ i \in 1..Len(a) /\ i + 1 \in (Len(a) + 1)..(Len(a) + Len(b))
          /\ i + 1 - Len(a) = 1
      BY <1>1, <2>2
    <3>2. c[i] = a[i] /\ c[i + 1] = b[i + 1 - Len(a)]
      BY <1>1, <3>1
    <3>3. c[i] = a[Len(a)] /\ c[i + 1] = b[1]
      BY <2>2, <3>1, <3>2
    <3>4. QED BY <3>3 DEF Last
  <2>3. CASE i > Len(a)
    <3>1. /\ i - Len(a) \in 1..(Len(b) - 1) /\ c[i] = b[i - Len(a)]
          /\ c[i + 1] = b[i - Len(a) + 1]
      BY <1>1, <2>3
    <3>2. QED BY <3>1 DEF Chained
  <2>4. QED BY <1>1, <2>1, <2>2, <2>3
<1>5. QED BY <1>1, <1>2, <1>3, <1>4 DEF Chained, c

LEMMA FlattenChain ==
  ASSUME NEW S, NEW R, NEW seqs, Len(seqs) \in Nat, Len(seqs) # 0,
         \A i \in 1..Len(seqs) : seqs[i] \in Seq(S) /\ seqs[i] # <<>> /\ Chained(seqs[i], R),
         \A i \in 1..(Len(seqs) - 1) : <<Last(seqs[i]), seqs[i + 1][1]>> \in R
  PROVE  /\ FlattenSeq(seqs) \in Seq(S) /\ FlattenSeq(seqs) # <<>>
         /\ FlattenSeq(seqs)[1] = seqs[1][1]
         /\ Last(FlattenSeq(seqs)) = Last(seqs[Len(seqs)])
         /\ Chained(FlattenSeq(seqs), R)
<1> DEFINE N == Len(seqs)
           Good(s, i) == s \in Seq(S) /\ s # <<>> /\ s[1] = seqs[1][1] /\ Last(s) = Last(seqs[i])
                           /\ Chained(s, R)
<1>1. PICK f : (\A i \in 1..N : FlatAt(seqs, f, i)) /\ FlattenSeq(seqs) = f[N]
  BY FlattenUnfolds
<1> DEFINE T == {n \in Nat : n + 1 \in 1..N => Good(f[n + 1], n + 1)}
<1>2. 0 \in T
  BY <1>1 DEF FlatAt
<1>3. ASSUME NEW n \in Nat, n \in T PROVE n + 1 \in T
  <2> SUFFICES ASSUME n + 2 \in 1..N PROVE Good(f[n + 2], n + 2)
    OBVIOUS
  <2>1. /\ n + 1 \in 1..N /\ n + 1 \in 1..(N - 1) /\ n + 2 \in 1..N
        /\ n + 2 # 1 /\ (n + 2) - 1 = n + 1 /\ (n + 1) + 1 = n + 2
    OBVIOUS
  <2>2. f[n + 2] = f[n + 1] \o seqs[n + 2]
    BY <1>1, <2>1 DEF FlatAt
  <2>3. Good(f[n + 1], n + 1)
    BY <1>3, <2>1
  <2>4. <<Last(seqs[n + 1]), seqs[n + 2][1]>> \in R
    BY <2>1
  <2>5. seqs[n + 2] \in Seq(S) /\ seqs[n + 2] # <<>> /\ Chained(seqs[n + 2], R)
    BY <2>1
  <2> DEFINE a == f[n + 1]
             b == seqs[n + 2]
  <2>6. a \in Seq(S) /\ a # <<>> /\ Chained(a, R) /\ a[1] = seqs[1][1] /\ <<Last(a), b[1]>> \in R
    BY <2>3, <2>4
  <2>7. b \in Seq(S) /\ b # <<>> /\ Chained(b, R) /\ f[n + 2] = a \o b
    BY <2>2, <2>5
  <2> HIDE DEF a, b
  <2>8. /\ a \o b \in Seq(S) /\ a \o b # <<>> /\ (a \o b)[1] = a[1] /\ Last(a \o b) = Last(b)
        /\ Chained(a \o b, R)
    BY <2>6, <2>7, ChainGoesOn
  <2>9. QED BY <2>6, <2>7, <2>8 DEF b
<1>4. N - 1 \in T
  <2> HIDE DEF T
  <2>1. Nat \subseteq T
    BY <1>2, <1>3, EveryNatural
  <2>2. QED BY <2>1
<1>5. Good(f[N], N)
  BY <1>4
<1>6. QED BY <1>1, <1>5

-----------------------------------------------------------------------------
(* Frames, and the frames of a segment.                                    *)

Frame ==
  [dts : Int, dur : Int, orig : Int, moved : Int, silent : BOOLEAN, stale : BOOLEAN,
   guessed : BOOLEAN, rejoined : BOOLEAN]

Lasting == {f \in Frame : f.dur > 0}

\* The second of a pair follows the first at once.
Follows == {p \in Frame \X Frame : p[1].dts + p[1].dur = p[2].dts /\ p[1].moved = p[2].moved}

LEMMA WholeParts ==
  ASSUME NEW d \in Int, NEW r \in Nat \ {0}, 2 * d > 3 * r
  PROVE  LET c == (d - 1) \div r IN c \in Nat \ {0} /\ c * r < d
OBVIOUS

LEMMA OneMore ==
  ASSUME NEW j \in Int, NEW r \in Int
  PROVE  (j + 1) * r = j * r + r /\ j * r \in Int
OBVIOUS

LEMMA PutFirst ==
  ASSUME NEW S, NEW a \in Seq(S), NEW b \in Seq(S), Len(a) = 1
  PROVE  /\ a \o b \in Seq(S) /\ Len(a \o b) = Len(b) + 1 /\ (a \o b)[1] = a[1]
         /\ \A j \in 1..Len(b) : (a \o b)[j + 1] = b[j]
<1> DEFINE c == a \o b
<1>1. /\ c \in Seq(S) /\ Len(c) = Len(a) + Len(b) /\ Len(b) \in Nat
      /\ \A i \in 1..(Len(a) + Len(b)) : c[i] = IF i <= Len(a) THEN a[i] ELSE b[i - Len(a)]
  BY ConcatProperties, LenProperties
<1> HIDE DEF c
<1>2. \A j \in 1..Len(b) : j + 1 \in 1..(Len(a) + Len(b)) /\ ~(j + 1 <= Len(a)) /\ j + 1 - Len(a) = j
  BY <1>1
<1>3. QED BY <1>1, <1>2 DEF c

\* What became of the frame f: f itself, or f cut short and the silence behind.
Silenced(w, f) ==
  /\ w \in Seq(Frame) /\ w # <<>> /\ Chained(w, Follows)
  /\ (f.dur > 0 => w \in Seq(Lasting))
  /\ w[1].dts = f.dts /\ w[1].orig = f.orig /\ w[1].moved = f.moved /\ w[1].stale = f.stale
  /\ w[1].rejoined = f.rejoined
  /\ Last(w).dts + Last(w).dur = f.dts + f.dur /\ Last(w).orig = f.orig /\ Last(w).moved = f.moved
  /\ Last(w).guessed = f.guessed
  /\ ~Last(w).silent => Last(w).dts = f.dts

LEMMA LoneFrame ==
  ASSUME NEW f \in Frame
  PROVE  Silenced(<<f>>, f)
<1> DEFINE w == <<f>>
<1>1. w \in Seq(Frame) /\ Len(w) = 1 /\ w[1] = f /\ w # <<>> /\ (f \in Lasting => w \in Seq(Lasting))
  OBVIOUS
<1>2. f.dur > 0 => f \in Lasting
  BY DEF Lasting
<1> HIDE DEF w
<1>3. Chained(w, Follows)
  BY <1>1 DEF Chained
<1>4. Last(w) = f
  BY <1>1 DEF Last
<1>5. Silenced(w, f)
  BY <1>1, <1>2, <1>3, <1>4 DEF Silenced
<1>6. QED BY <1>5 DEF w

LEMMA SilenceSound ==
  ASSUME NEW f \in Frame, NEW r \in Nat \ {0}
  PROVE  Silenced(WithSilence(f, r), f)
<1>1. CASE ~(2 * f.dur > 3 * r)
  <2>1. WithSilence(f, r) = <<f>>
    BY <1>1 DEF WithSilence
  <2>2. QED BY <2>1, LoneFrame
<1>2. CASE 2 * f.dur > 3 * r
  <2> DEFINE count == (f.dur - 1) \div r
             silent(j) == [f EXCEPT !.dts = f.dts + j * r, !.silent = TRUE, !.rejoined = FALSE,
                                    !.dur = IF j < count THEN r ELSE f.dur - j * r]
             short == [f EXCEPT !.dur = r]
             tail == [j \in 1..count |-> silent(j)]
             w == <<short>> \o tail
  <2>1. WithSilence(f, r) = w
    BY <1>2 DEF WithSilence
  <2>2. f.dur \in Int /\ f.dts \in Int
    BY DEF Frame
  <2>3. count \in Nat \ {0} /\ count * r < f.dur
    BY <1>2, <2>2, WholeParts
  <2> HIDE DEF count
  <2>4. short \in Lasting /\ short.dts = f.dts /\ short.dur = r /\ short.moved = f.moved
        /\ short.orig = f.orig /\ short.stale = f.stale /\ short.rejoined = f.rejoined
    BY DEF Frame, Lasting
  <2>5. ASSUME NEW j \in 1..count
        PROVE  /\ silent(j) \in Lasting /\ silent(j).dts = f.dts + j * r
               /\ silent(j).dur = (IF j < count THEN r ELSE f.dur - j * r)
               /\ silent(j).moved = f.moved /\ silent(j).orig = f.orig /\ silent(j).silent
               /\ silent(j).guessed = f.guessed
    <3> DEFINE at == f.dts + j * r
               for == IF j < count THEN r ELSE f.dur - j * r
    <3>1. at \in Int /\ for \in Int /\ for > 0
      <4>1. j \in Int /\ j * r \in Int
        BY <2>3, OneMore
      <4>2. j < count \/ j = count
        BY <2>3
      <4>3. QED BY <2>2, <2>3, <4>1, <4>2
    <3> HIDE DEF at, for
    <3>2. [f EXCEPT !.dts = at, !.silent = TRUE, !.rejoined = FALSE, !.dur = for] \in Lasting
      BY <3>1 DEF Frame, Lasting
    <3>3. silent(j) = [f EXCEPT !.dts = at, !.silent = TRUE, !.rejoined = FALSE, !.dur = for]
      BY DEF at, for
    <3>4. QED BY <3>2, <3>3 DEF at, for, Frame
  <2> HIDE DEF silent, short
  <2>6. tail \in Seq(Lasting) /\ Len(tail) = count
    BY <2>3, <2>5
  <2>7. /\ w \in Seq(Lasting) /\ Len(w) = count + 1 /\ w[1] = short
        /\ \A j \in 1..count : w[j + 1] = silent(j)
    <3> DEFINE a == <<short>>
    <3>1. a \in Seq(Lasting) /\ Len(a) = 1 /\ a[1] = short
      BY <2>4
    <3> HIDE DEF a
    <3>2. \A j \in 1..count : tail[j] = silent(j)
      BY <2>3
    <3> HIDE DEF tail
    <3>3. a \o tail \in Seq(Lasting) /\ Len(a \o tail) = count + 1 /\ (a \o tail)[1] = short
      BY ONLY <2>3, <2>6, <3>1, PutFirst
    <3>4. \A j \in 1..count : (a \o tail)[j + 1] = tail[j]
      BY ONLY <2>3, <2>6, <3>1, PutFirst
    <3>5. QED BY <3>2, <3>3, <3>4 DEF a
  <2> HIDE DEF w, tail
  <2>8. w \in Seq(Frame) /\ w # <<>>
    <3>1. Lasting \subseteq Frame
      BY DEF Lasting
    <3>2. QED BY <2>3, <2>7, <3>1
  <2>9. Last(w) = silent(count)
    BY <2>3, <2>7 DEF Last
  <2>10. Last(w).dts + Last(w).dur = f.dts + f.dur
    <3>1. count * r \in Int /\ count \in 1..count /\ ~(count < count)
      BY <2>3, OneMore
    <3>2. silent(count).dts = f.dts + count * r /\ silent(count).dur = f.dur - count * r
      BY <2>5, <3>1
    <3>3. QED BY <2>2, <2>9, <3>1, <3>2
  <2>11. ASSUME NEW i \in 1..(Len(w) - 1) PROVE <<w[i], w[i + 1]>> \in Follows
    <3>1. i \in 1..count /\ w[i + 1] = silent(i)
      BY <2>3, <2>7
    <3>2. w[i + 1] \in Frame /\ w[i + 1].dts = f.dts + i * r /\ w[i + 1].moved = f.moved
      BY <2>5, <3>1 DEF Lasting
    <3>3. w[i] \in Frame /\ w[i].dts + w[i].dur = f.dts + i * r /\ w[i].moved = f.moved
      <4>1. CASE i = 1
        BY <2>2, <2>4, <2>7, <4>1 DEF Lasting
      <4>2. CASE i # 1
        <5> DEFINE j == i - 1
        <5>1. j \in 1..count /\ j < count /\ i = j + 1 /\ j \in Int
          BY <2>3, <3>1, <4>2
        <5> HIDE DEF j
        <5>2. w[i] = silent(j) /\ silent(j).dts = f.dts + j * r /\ silent(j).dur = r
              /\ silent(j).moved = f.moved /\ silent(j) \in Lasting
          BY <2>5, <2>7, <5>1
        <5>3. i * r = j * r + r /\ j * r \in Int
          BY <5>1, OneMore
        <5>4. w[i] \in Frame /\ w[i].dts + w[i].dur = f.dts + (j * r + r)
          BY <2>2, <5>2, <5>3 DEF Lasting
        <5>5. QED BY <5>2, <5>3, <5>4
      <4>3. QED BY <4>1, <4>2
    <3>4. QED BY <3>2, <3>3 DEF Follows
  <2>12. Silenced(w, f)
    <3>1. Chained(w, Follows)
      BY <2>11 DEF Chained
    <3>2. silent(count).orig = f.orig /\ silent(count).moved = f.moved /\ silent(count).silent
          /\ silent(count).guessed = f.guessed
      BY <2>3, <2>5
    <3>3. QED BY <2>4, <2>7, <2>8, <2>9, <2>10, <3>1, <3>2 DEF Silenced
  <2>13. QED BY <2>1, <2>12 DEF w
<1>3. QED BY <1>1, <1>2

LEMMA RefTyped == \A t \in Tracks : Ref[t] \in Nat \ {0}
BY RefAssumption

\* The i-th frame, before silence is put behind it.
FrameOf(t, k, body, held, b, c, i) ==
  [dts |-> body[i].time - b - c, dur |-> SampleDuration(t, body, held, i),
   orig |-> body[i].time - b, moved |-> c, silent |-> FALSE, stale |-> body[i].stale,
   guessed |-> Guessed(body, held, i), rejoined |-> i = 1 /\ k.next = None /\ k.list # <<>>]

PieceOf(t, k, body, held, b, c, i) ==
  IF t = "audio" THEN WithSilence(FrameOf(t, k, body, held, b, c, i), Ref[t])
                 ELSE <<FrameOf(t, k, body, held, b, c, i)>>

\* Samples that can be sent, the one that is held back behind them.
Sendable(body, held) ==
  body \in Seq(Samples) /\ body # <<>> /\ held \in Seq(Samples) /\ Len(held) <= 1

LEMMA SampleTimes ==
  ASSUME NEW s \in Seq(Samples)
  PROVE  Len(s) \in Nat /\ \A i \in 1..Len(s) : s[i].time \in Nat /\ s[i].stale \in BOOLEAN
<1>1. \A i \in 1..Len(s) : s[i] \in Samples
  BY ElementOfSeq
<1>2. QED BY <1>1 DEF Samples

LEMMA Durations ==
  ASSUME NEW t \in Tracks, NEW body, NEW held, Sendable(body, held)
  PROVE  /\ Len(body) \in Nat \ {0}
         /\ \A i \in 1..(Len(body) - 1) :
              /\ SampleDuration(t, body, held, i) = body[i + 1].time - body[i].time
              /\ ~Guessed(body, held, i)
         /\ Guessed(body, held, Len(body)) = (held = <<>>)
         /\ SampleDuration(t, body, held, Len(body))
              = IF held = <<>> THEN Ref[t] ELSE held[1].time - body[Len(body)].time
<1> DEFINE all == body \o held
<1>0. body \in Seq(Samples) /\ held \in Seq(Samples) /\ body # <<>> /\ Len(held) <= 1
  BY DEF Sendable
<1>1. /\ body \in Seq(Samples) /\ held \in Seq(Samples) /\ Len(body) \in Nat \ {0}
      /\ held # <<>> => Len(held) = 1
  <2>1. Len(held) \in Nat /\ (held # <<>> => Len(held) # 0)
    BY <1>0, EmptySeq, LenProperties
  <2>2. Len(body) \in Nat /\ Len(body) # 0
    BY <1>0, EmptySeq, LenProperties
  <2>3. ASSUME held # <<>> PROVE Len(held) = 1
    <3> DEFINE m == Len(held)
    <3>1. m \in Nat /\ m # 0 /\ m <= 1
      BY <1>0, <2>1, <2>3
    <3> HIDE DEF m
    <3>2. m = 1
      BY <3>1
    <3>3. QED BY <3>2 DEF m
  <2>4. QED BY <1>0, <2>2, <2>3
<1>2. /\ \A i \in 1..Len(body) : all[i] = body[i]
      /\ held # <<>> => all[Len(body) + 1] = held[1]
  BY <1>1
<1> HIDE DEF all
<1>3. \A i \in 1..(Len(body) - 1) : ~Guessed(body, held, i)
  BY <1>1 DEF Guessed
<1>4. Guessed(body, held, Len(body)) = (held = <<>>)
  BY DEF Guessed
<1>5. \A i : SampleDuration(t, body, held, i)
               = IF Guessed(body, held, i) THEN Ref[t] ELSE all[i + 1].time - all[i].time
  BY DEF SampleDuration, all
<1>6. \A i \in 1..(Len(body) - 1) : all[i + 1] = body[i + 1] /\ all[i] = body[i]
  BY <1>1, <1>2
<1>7. all[Len(body)] = body[Len(body)]
  BY <1>1, <1>2
<1>8. \A i \in 1..(Len(body) - 1) : SampleDuration(t, body, held, i) = body[i + 1].time - body[i].time
  BY <1>3, <1>5, <1>6
<1>9. SampleDuration(t, body, held, Len(body))
        = IF held = <<>> THEN Ref[t] ELSE held[1].time - body[Len(body)].time
  BY <1>2, <1>4, <1>5, <1>7
<1>10. QED BY <1>1, <1>3, <1>4, <1>8, <1>9

LEMMA PieceSound ==
  ASSUME NEW t \in Tracks, NEW k, NEW body, NEW held, Sendable(body, held), NEW b \in Int,
         NEW c \in Int, NEW i \in 1..Len(body)
  PROVE  /\ FrameOf(t, k, body, held, b, c, i) \in Frame
         /\ Silenced(PieceOf(t, k, body, held, b, c, i), FrameOf(t, k, body, held, b, c, i))
<1> DEFINE f == FrameOf(t, k, body, held, b, c, i)
<1>0. body \in Seq(Samples) /\ held \in Seq(Samples)
  BY DEF Sendable
<1>1. body[i].time \in Nat /\ body[i].stale \in BOOLEAN
  BY <1>0, SampleTimes
<1>2. SampleDuration(t, body, held, i) \in Int
  <2>1. CASE i = Len(body)
    <3>1. held # <<>> => held[1].time \in Nat
      <4>1. held # <<>> => 1 \in 1..Len(held)
        BY <1>0
      <4>2. QED BY <1>0, <4>1, SampleTimes
    <3>2. QED BY <1>1, <2>1, <3>1, Durations, RefTyped
  <2>2. CASE i # Len(body)
    <3>1. i \in 1..(Len(body) - 1) /\ i + 1 \in 1..Len(body)
      BY <1>0, <2>2
    <3>2. body[i + 1].time \in Nat
      BY <1>0, <3>1, SampleTimes
    <3>3. QED BY <1>1, <3>1, <3>2, Durations
  <2>3. QED BY <2>1, <2>2
<1>3. f \in Frame
  BY <1>1, <1>2 DEF FrameOf, Frame, Guessed
<1> HIDE DEF f
<1>4. Silenced(WithSilence(f, Ref[t]), f) /\ Silenced(<<f>>, f)
  BY <1>3, RefTyped, SilenceSound, LoneFrame
<1>5. QED BY <1>3, <1>4 DEF f, PieceOf

(* What a segment is like: it starts where its first sample says, moved by *)
(* the correction; each frame follows the one before; and it ends where    *)
(* the sample that is held back will start.                                *)
SegmentOf(fr, t, k, body, held, b, c) ==
  /\ fr \in Seq(Frame) /\ fr # <<>> /\ Chained(fr, Follows)
  /\ fr[1].dts = body[1].time - b - c /\ fr[1].orig = body[1].time - b /\ fr[1].moved = c
  /\ fr[1].stale = body[1].stale /\ fr[1].rejoined = (k.next = None /\ k.list # <<>>)
  /\ Last(fr).orig = body[Len(body)].time - b /\ Last(fr).moved = c
  /\ Last(fr).guessed = (held = <<>>)
  /\ Last(fr).dts + Last(fr).dur
       = (IF held = <<>> THEN body[Len(body)].time + Ref[t] ELSE held[1].time) - b - c
  /\ ~Last(fr).silent => Last(fr).dts = Last(fr).orig - c
  /\ (\A i \in 1..Len(body) : SampleDuration(t, body, held, i) > 0) => fr \in Seq(Lasting)

LEMMA MovedSound ==
  ASSUME NEW t \in Tracks, NEW k, NEW body, NEW held, Sendable(body, held), NEW b \in Int,
         NEW c \in Int
  PROVE  SegmentOf(Moved(t, k, body, held, b, c), t, k, body, held, b, c)
<1> DEFINE n == Len(body)
           frame(i) == FrameOf(t, k, body, held, b, c, i)
           piece(i) == PieceOf(t, k, body, held, b, c, i)
           seqs == [i \in 1..n |-> piece(i)]
           fr == Moved(t, k, body, held, b, c)
<1>1. fr = FlattenSeq(seqs)
  BY DEF Moved, PieceOf, FrameOf
<1>2. n \in Nat \ {0} /\ body \in Seq(Samples) /\ held \in Seq(Samples)
  BY DEF Sendable
<1>3. Len(seqs) = n /\ \A i \in 1..n : seqs[i] = piece(i)
  BY <1>2
<1>4. \A i \in 1..n : frame(i) \in Frame /\ Silenced(piece(i), frame(i))
  BY PieceSound
<1>5. \A i \in 1..n : /\ frame(i).dts = body[i].time - b - c /\ frame(i).orig = body[i].time - b
                      /\ frame(i).dur = SampleDuration(t, body, held, i) /\ frame(i).moved = c
                      /\ frame(i).stale = body[i].stale /\ frame(i).guessed = Guessed(body, held, i)
                      /\ frame(i).rejoined = (i = 1 /\ k.next = None /\ k.list # <<>>)
  BY DEF FrameOf
<1>6. \A i \in 1..n : body[i].time \in Nat
  BY <1>2, SampleTimes
<1> HIDE DEF seqs, frame, piece, fr
<1>7. ASSUME NEW i \in 1..(n - 1) PROVE <<Last(seqs[i]), seqs[i + 1][1]>> \in Follows
  <2>1. i \in 1..n /\ i + 1 \in 1..n
    BY <1>2
  <2> DEFINE p == piece(i)
             q == piece(i + 1)
  <2>2. Silenced(p, frame(i)) /\ Silenced(q, frame(i + 1))
    BY <1>4, <2>1
  <2> HIDE DEF p, q
  <2>3. Last(p).dts + Last(p).dur = frame(i).dts + frame(i).dur /\ Last(p).moved = c
        /\ q[1].dts = frame(i + 1).dts /\ q[1].moved = c
    BY <1>5, <2>1, <2>2 DEF Silenced
  <2>4. frame(i).dts + frame(i).dur = frame(i + 1).dts
    <3>1. frame(i).dur = body[i + 1].time - body[i].time
      BY <1>5, <2>1, Durations
    <3>2. body[i].time \in Nat /\ body[i + 1].time \in Nat
      BY <1>6, <2>1
    <3>3. frame(i).dts = body[i].time - b - c /\ frame(i + 1).dts = body[i + 1].time - b - c
      BY <1>5, <2>1
    <3>4. QED BY <3>1, <3>2, <3>3
  <2>5. Last(p) \in Frame /\ q[1] \in Frame
    <3>1. p \in Seq(Frame) /\ p # <<>> /\ q \in Seq(Frame) /\ q # <<>>
      BY <2>2 DEF Silenced
    <3>2. QED BY <3>1 DEF Last
  <2>6. <<Last(p), q[1]>> \in Follows
    BY <2>3, <2>4, <2>5 DEF Follows
  <2>7. QED BY <1>3, <2>1, <2>6 DEF p, q
<1>8. \A i \in 1..n : seqs[i] \in Seq(Frame) /\ seqs[i] # <<>> /\ Chained(seqs[i], Follows)
  BY <1>3, <1>4 DEF Silenced
<1>9. /\ fr \in Seq(Frame) /\ fr # <<>> /\ fr[1] = seqs[1][1] /\ Last(fr) = Last(seqs[n])
      /\ Chained(fr, Follows)
  <2>1. /\ Len(seqs) \in Nat /\ Len(seqs) # 0
        /\ \A i \in 1..Len(seqs) : seqs[i] \in Seq(Frame) /\ seqs[i] # <<>> /\ Chained(seqs[i], Follows)
        /\ \A i \in 1..(Len(seqs) - 1) : <<Last(seqs[i]), seqs[i + 1][1]>> \in Follows
    BY <1>2, <1>3, <1>7, <1>8
  <2> DEFINE f == FlattenSeq(seqs)
  <2>2. /\ f \in Seq(Frame) /\ f # <<>> /\ f[1] = seqs[1][1] /\ Last(f) = Last(seqs[Len(seqs)])
        /\ Chained(f, Follows)
    BY ONLY <2>1, FlattenChain
  <2>3. f = fr /\ Len(seqs) = n
    BY <1>1, <1>3
  <2> HIDE DEF f
  <2>4. QED BY <2>2, <2>3
<1>10. (\A i \in 1..n : SampleDuration(t, body, held, i) > 0) => fr \in Seq(Lasting)
  <2> SUFFICES ASSUME \A i \in 1..n : SampleDuration(t, body, held, i) > 0 PROVE fr \in Seq(Lasting)
    OBVIOUS
  <2>1. \A i \in 1..n : seqs[i] \in Seq(Lasting)
    BY <1>3, <1>4, <1>5 DEF Silenced
  <2>2. \A i \in 1..n : seqs[i] \in Seq(Lasting) /\ seqs[i] # <<>> /\ Chained(seqs[i], Follows)
    BY <2>1, <1>8
  <2>3. QED BY <1>1, <1>2, <1>3, <1>7, <2>2, FlattenChain
<1>11. 1 \in 1..n /\ n \in 1..n
  BY <1>2
<1> DEFINE p == piece(1)
           q == piece(n)
<1>12. p = seqs[1] /\ q = seqs[n] /\ Silenced(p, frame(1)) /\ Silenced(q, frame(n))
  BY <1>3, <1>4, <1>11
<1> HIDE DEF p, q
<1>13. /\ fr[1].dts = body[1].time - b - c /\ fr[1].orig = body[1].time - b /\ fr[1].moved = c
       /\ fr[1].stale = body[1].stale /\ fr[1].rejoined = (k.next = None /\ k.list # <<>>)
  BY <1>5, <1>9, <1>11, <1>12 DEF Silenced
<1>14. /\ Last(fr).orig = body[n].time - b /\ Last(fr).moved = c
       /\ Last(fr).guessed = (held = <<>>)
       /\ Last(fr).dts + Last(fr).dur = frame(n).dts + frame(n).dur
       /\ (~Last(fr).silent => Last(fr).dts = frame(n).dts)
  BY <1>5, <1>9, <1>11, <1>12, Durations DEF Silenced
<1>15. frame(n).dts + frame(n).dur
         = (IF held = <<>> THEN body[n].time + Ref[t] ELSE held[1].time) - b - c
  <2>1. frame(n).dur = IF held = <<>> THEN Ref[t] ELSE held[1].time - body[n].time
    BY <1>5, <1>11, Durations
  <2>2. frame(n).dts = body[n].time - b - c /\ body[n].time \in Nat /\ Ref[t] \in Nat
    BY <1>5, <1>6, <1>11, RefTyped
  <2>3. held # <<>> => held[1].time \in Nat
    <3>1. held # <<>> => 1 \in 1..Len(held)
      BY <1>2
    <3>2. QED BY <1>2, <3>1, SampleTimes
  <2>4. QED BY <2>1, <2>2, <2>3
<1>16. ~Last(fr).silent => Last(fr).dts = Last(fr).orig - c
  BY <1>5, <1>6, <1>11, <1>14
<1>17. QED BY <1>9, <1>10, <1>13, <1>14, <1>15, <1>16 DEF SegmentOf, fr

-----------------------------------------------------------------------------
(* The search for the nearest segment: it ends, inside the list, and with  *)
(* the last segment when all of them begin before the time looked for.     *)

SegmentInfo == [begin : Int, last : [orig : Int, dts : Int, dur : Int]]

\* The bounds of the search, of a list of n segments.
Bounds(n) == (0..n) \X (-1..(n - 1))

Found(w) == IF w[1] > w[2] THEN 0 ELSE Middle(w)

SearchStep(list, time, f, w) ==
  IF Ends(list, time, w) THEN Found(w) ELSE f[Closer(list, time, w)]

\* How far the bounds are apart, as a natural number.
Apart(n, w) == w[2] - w[1] + n + 1

LEMMA MiddleInside ==
  ASSUME NEW n \in Nat, NEW w \in Bounds(n), w[1] <= w[2]
  PROVE  /\ Middle(w) \in 0..(n - 1) /\ w[1] <= Middle(w) /\ Middle(w) <= w[2]
         /\ w[1] \in 0..n /\ w[2] \in -1..(n - 1)
<1> DEFINE l == w[1]
           u == w[2]
<1>1. l \in 0..n /\ u \in -1..(n - 1)
  BY DEF Bounds
<1> HIDE DEF l, u
<1>2. l <= u
  BY DEF l, u
<1>3. l + (u - l) \div 2 \in Int /\ l <= l + (u - l) \div 2 /\ l + (u - l) \div 2 <= u
  BY <1>1, <1>2
<1>4. Middle(w) = l + (u - l) \div 2
  BY DEF Middle, l, u
<1>5. QED BY <1>1, <1>3, <1>4 DEF l, u

LEMMA GetsCloser ==
  ASSUME NEW list, Len(list) \in Nat, NEW time, NEW w \in Bounds(Len(list)), w[1] <= w[2]
  PROVE  /\ Closer(list, time, w) \in Bounds(Len(list))
         /\ Apart(Len(list), Closer(list, time, w)) < Apart(Len(list), w)
<1> DEFINE n == Len(list)
           m == Middle(w)
           l == w[1]
           u == w[2]
<1>1. m \in 0..(n - 1) /\ l <= m /\ m <= u /\ l \in 0..n /\ u \in -1..(n - 1)
  BY MiddleInside
<1>2. Closer(list, time, w) \in {<<m + 1, u>>, <<l, m - 1>>}
  BY DEF Closer
<1>3. Apart(n, w) = u - l + n + 1
  BY DEF Apart
<1> HIDE DEF m, l, u
<1>4. <<m + 1, u>> \in Bounds(n) /\ <<l, m - 1>> \in Bounds(n)
  BY <1>1 DEF Bounds
<1>5. Apart(n, <<m + 1, u>>) < u - l + n + 1 /\ Apart(n, <<l, m - 1>>) < u - l + n + 1
  BY <1>1 DEF Apart
<1>6. QED BY <1>2, <1>3, <1>4, <1>5

\* f is what the search finds between bounds that are less than d apart.
Searched(list, time, f, d) ==
  /\ f = [w \in Bounds(Len(list)) |-> f[w]]
  /\ \A w \in Bounds(Len(list)) : Apart(Len(list), w) < d => f[w] = SearchStep(list, time, f, w)

LEMMA SearchGoesOn ==
  ASSUME NEW list, Len(list) \in Nat, NEW time, NEW d \in Nat, NEW f, Searched(list, time, f, d)
  PROVE  \E g : Searched(list, time, g, d + 1)
<1> DEFINE n == Len(list)
           g == [w \in Bounds(n) |-> SearchStep(list, time, f, w)]
<1>1. \A w \in Bounds(n) : g[w] = SearchStep(list, time, f, w)
  OBVIOUS
<1>2. g = [w \in Bounds(n) |-> g[w]]
  OBVIOUS
<1> HIDE DEF g
<1>3. ASSUME NEW w \in Bounds(n), Apart(n, w) < d + 1
      PROVE  g[w] = SearchStep(list, time, g, w)
  <2>1. CASE Ends(list, time, w)
    BY <1>1, <2>1 DEF SearchStep
  <2>2. CASE ~Ends(list, time, w)
    <3> DEFINE c == Closer(list, time, w)
    <3>1. w[1] <= w[2]
      <4>1. w[1] \in Int /\ w[2] \in Int /\ ~(w[1] > w[2])
        BY <2>2 DEF Ends, Bounds
      <4>2. QED BY <4>1
    <3>2. c \in Bounds(n) /\ Apart(n, c) < Apart(n, w)
      BY <3>1, GetsCloser
    <3> HIDE DEF c
    <3>3. Apart(n, c) < d
      <4>1. Apart(n, c) \in Int /\ Apart(n, w) \in Int
        BY <3>2 DEF Apart, Bounds
      <4>2. QED BY <1>3, <3>2, <4>1
    <3>4. f[c] = g[c]
      BY <1>1, <3>2, <3>3 DEF Searched
    <3>5. QED BY <1>1, <2>2, <3>4 DEF SearchStep, c
  <2>3. QED BY <2>1, <2>2
<1>4. QED BY <1>2, <1>3 DEF Searched

LEMMA SearchEnds ==
  ASSUME NEW list, Len(list) \in Nat, list # <<>>, NEW time
  PROVE  \E f : /\ \A w \in Bounds(Len(list)) : f[w] = SearchStep(list, time, f, w)
                /\ NearestBefore(list, time)
                     = IF time < list[1].begin THEN -1 ELSE f[<<0, Len(list) - 1>>]
<1> DEFINE n == Len(list)
           N == 2 * n + 1
           Is(f) == f = [w \in Bounds(n) |-> SearchStep(list, time, f, w)]
           S == {d \in Nat : \E f : Searched(list, time, f, d)}
<1>1. 0 \in S
  <2> DEFINE f == [w \in Bounds(n) |-> 0]
  <2>1. f = [w \in Bounds(n) |-> f[w]]
    OBVIOUS
  <2> HIDE DEF f
  <2>2. \A w \in Bounds(n) : ~(Apart(n, w) < 0)
    BY DEF Bounds, Apart
  <2>3. Searched(list, time, f, 0)
    BY <2>1, <2>2 DEF Searched
  <2>4. QED BY <2>3
<1>2. ASSUME NEW d \in Nat, d \in S PROVE d + 1 \in S
  BY <1>2, SearchGoesOn
<1>3. N \in S
  <2> HIDE DEF S
  <2>1. Nat \subseteq S
    BY <1>1, <1>2, EveryNatural
  <2>2. QED BY <2>1
<1>4. PICK f : Searched(list, time, f, N)
  BY <1>3
<1>5. \A w \in Bounds(n) : Apart(n, w) < N
  BY DEF Bounds, Apart
<1>6. f = [w \in Bounds(n) |-> f[w]] /\ \A w \in Bounds(n) : f[w] = SearchStep(list, time, f, w)
  BY <1>4, <1>5 DEF Searched
<1>7. Is(f)
  BY <1>6
<1> DEFINE h == CHOOSE f0 : Is(f0)
<1>8. Is(h)
  BY <1>7
<1>9. NearestBefore(list, time) = IF time < list[1].begin THEN -1 ELSE h[<<0, n - 1>>]
  BY DEF NearestBefore, SearchStep, Found, Bounds
<1> HIDE DEF h
<1>10. \A w \in Bounds(n) : h[w] = SearchStep(list, time, h, w)
  BY <1>8
<1>11. QED BY <1>9, <1>10

LEMMA NearestInside ==
  ASSUME NEW list \in Seq(SegmentInfo), list # <<>>, NEW time \in Int
  PROVE  NearestBefore(list, time) \in -1..(Len(list) - 1)
<1> DEFINE n == Len(list)
<1>1. n \in Nat /\ n # 0
  BY EmptySeq, LenProperties
<1>2. PICK f : /\ \A w \in Bounds(n) : f[w] = SearchStep(list, time, f, w)
               /\ NearestBefore(list, time) = IF time < list[1].begin THEN -1 ELSE f[<<0, n - 1>>]
  BY <1>1, SearchEnds
<1> HIDE DEF n
<1> DEFINE T == {d \in Nat : \A w \in Bounds(n) : Apart(n, w) < d => f[w] \in 0..(n - 1)}
<1>3. 0 \in T
  <2>1. \A w \in Bounds(n) : ~(Apart(n, w) < 0)
    BY <1>1 DEF Bounds, Apart
  <2>2. QED BY <2>1
<1>4. ASSUME NEW d \in Nat, d \in T PROVE d + 1 \in T
  <2> SUFFICES ASSUME NEW w \in Bounds(n), Apart(n, w) < d + 1 PROVE f[w] \in 0..(n - 1)
    OBVIOUS
  <2>1. w[1] \in Int /\ w[2] \in Int /\ Apart(n, w) \in Int
    BY <1>1 DEF Bounds, Apart
  <2>2. f[w] = SearchStep(list, time, f, w)
    BY <1>2
  <2>3. CASE w[1] > w[2]
    BY <1>1, <2>2, <2>3 DEF SearchStep, Ends, Found
  <2>4. CASE w[1] <= w[2]
    <3> DEFINE c == Closer(list, time, w)
    <3>1. Middle(w) \in 0..(n - 1)
      BY <1>1, <2>4, MiddleInside
    <3>2. c \in Bounds(n) /\ Apart(n, c) < Apart(n, w)
      BY <1>1, <2>4, GetsCloser DEF n
    <3>3. f[w] = Middle(w) \/ f[w] = f[c]
      BY <2>1, <2>2, <2>4 DEF SearchStep, Found
    <3> HIDE DEF c
    <3>4. f[c] \in 0..(n - 1)
      <4>1. Apart(n, c) \in Int
        BY <1>1, <3>2 DEF Bounds, Apart
      <4>2. Apart(n, c) < d
        BY <2>1, <3>2, <4>1
      <4>3. QED BY <1>4, <3>2, <4>2
    <3>5. QED BY <3>1, <3>3, <3>4
  <2>5. QED BY <2>1, <2>3, <2>4
<1>5. f[<<0, n - 1>>] \in 0..(n - 1)
  <2> DEFINE w == <<0, n - 1>>
  <2>1. w \in Bounds(n) /\ Apart(n, w) < 2 * n + 1 /\ 2 * n + 1 \in Nat
    BY <1>1 DEF Bounds, Apart
  <2> HIDE DEF T, w
  <2>2. Nat \subseteq T
    BY <1>3, <1>4, EveryNatural
  <2>3. 2 * n + 1 \in T
    BY <2>1, <2>2
  <2>4. f[w] \in 0..(n - 1)
    BY <2>1, <2>3 DEF T
  <2>5. QED BY <2>4 DEF w
<1>6. QED BY <1>1, <1>2, <1>5 DEF n

LEMMA NearestIsLast ==
  ASSUME NEW list \in Seq(SegmentInfo), list # <<>>, NEW time \in Int,
         \A i \in 1..Len(list) : list[i].begin < time
  PROVE  NearestBefore(list, time) = Len(list) - 1
<1> DEFINE n == Len(list)
<1>1. n \in Nat /\ n # 0
  BY EmptySeq, LenProperties
<1>2. PICK f : /\ \A w \in Bounds(n) : f[w] = SearchStep(list, time, f, w)
               /\ NearestBefore(list, time) = IF time < list[1].begin THEN -1 ELSE f[<<0, n - 1>>]
  BY <1>1, SearchEnds
<1>3. \A i \in 1..n : list[i].begin < time /\ ~(time < list[i].begin)
  <2>1. \A i \in 1..n : list[i] \in SegmentInfo
    BY ElementOfSeq
  <2>2. QED BY <2>1 DEF SegmentInfo
<1> HIDE DEF n
<1> DEFINE T == {d \in Nat : \A l \in 0..(n - 1) : n - l < d => f[<<l, n - 1>>] = n - 1}
<1>4. 0 \in T
  BY <1>1
<1>5. ASSUME NEW d \in Nat, d \in T PROVE d + 1 \in T
  <2> SUFFICES ASSUME NEW l \in 0..(n - 1), n - l < d + 1 PROVE f[<<l, n - 1>>] = n - 1
    OBVIOUS
  <2> DEFINE w == <<l, n - 1>>
             m == Middle(w)
  <2>1. w \in Bounds(n) /\ w[1] = l /\ w[2] = n - 1 /\ l <= n - 1 /\ ~(l > n - 1)
    BY <1>1 DEF Bounds
  <2>2. f[w] = SearchStep(list, time, f, w)
    BY <1>2, <2>1
  <2> HIDE DEF w
  <2>3. m \in 0..(n - 1) /\ l <= m
    BY <1>1, <2>1, MiddleInside
  <2>4. CASE m = n - 1
    <3>1. Ends(list, time, w) /\ Found(w) = n - 1
      BY <2>1, <2>4 DEF Ends, Found, n
    <3>2. QED BY <2>2, <3>1 DEF SearchStep, w
  <2>5. CASE m # n - 1
    <3>1. /\ m + 1 \in 1..n /\ m + 2 \in 1..n /\ m + 1 \in 0..(n - 1) /\ n - (m + 1) < d
      BY <1>1, <2>3, <2>5
    <3>2. list[m + 1].begin < time /\ ~(time < list[m + 2].begin)
      BY <1>3, <3>1
    <3>3. ~Ends(list, time, w)
      BY <2>1, <2>5, <3>2 DEF Ends, n
    <3>4. Closer(list, time, w) = <<m + 1, n - 1>>
      BY <2>1, <3>2 DEF Closer
    <3>5. f[w] = f[<<m + 1, n - 1>>]
      BY <2>2, <3>3, <3>4 DEF SearchStep
    <3> HIDE DEF m
    <3>6. f[<<m + 1, n - 1>>] = n - 1
      BY <1>5, <3>1
    <3>7. QED BY <3>5, <3>6 DEF w
  <2>6. QED BY <2>4, <2>5
<1>6. f[<<0, n - 1>>] = n - 1
  <2>1. 0 \in 0..(n - 1) /\ n + 1 \in Nat /\ n - 0 < n + 1
    BY <1>1
  <2> HIDE DEF T
  <2>2. Nat \subseteq T
    BY <1>4, <1>5, EveryNatural
  <2>3. n + 1 \in T
    BY <2>1, <2>2
  <2>4. QED BY <2>1, <2>3 DEF T
<1>7. 1 \in 1..n
  BY <1>1
<1>8. QED BY <1>2, <1>3, <1>6, <1>7 DEF n

-----------------------------------------------------------------------------
(* The remuxer's part of a track: its types, and what goes with what.      *)

SegmentEnd == [orig : Int, dts : Int, dur : Int]

\* Nothing is known of a track before its first segment.
Fresh(k) == k.next = None /\ k.list = <<>> /\ k.placed = -1 /\ k.stash = <<>> /\ k.sent = <<>>

KnownInv(k, b) ==
  /\ k.next \in Times /\ k.list \in Seq(SegmentInfo) /\ k.placed \in Nat \cup {-1}
  /\ k.frames \in Seq(Frame) /\ Len(k.stash) <= 1
  /\ k.frames = <<>> => Fresh(k)
  /\ k.frames # <<>> => b \in Nat /\ k.list # <<>> /\ k.sent # <<>>

LEMMA NoneApart == None \notin Int /\ None \notin SegmentEnd
BY NoneAssumption DEF SegmentEnd

LEMMA SegmentTyped ==
  ASSUME NEW list \in Seq(SegmentInfo), NEW i \in 1..Len(list)
  PROVE  list[i].begin \in Int /\ list[i].last \in SegmentEnd
<1>1. list[i] \in SegmentInfo
  BY ElementOfSeq
<1>2. QED BY <1>1 DEF SegmentInfo, SegmentEnd

LEMMA RejoinTyped ==
  ASSUME NEW first \in Int, NEW before \in SegmentEnd \cup {None}
  PROVE  Rejoin(first, before) \in Int
<1>1. CASE before = None
  BY <1>1 DEF Rejoin
<1>2. CASE before # None
  <2>1. before.orig \in Int /\ before.dts \in Int /\ before.dur \in Int
    BY <1>2 DEF SegmentEnd
  <2>2. QED BY <1>2, <2>1 DEF Rejoin
<1>3. QED BY <1>1, <1>2

LEMMA CorrectionTyped ==
  ASSUME NEW k, k.next \in Times, k.list \in Seq(SegmentInfo), NEW first \in Int
  PROVE  DtsCorrection(k, first) \in Int
<1>1. CASE k.next # None /\ k.next # 0
  <2>1. k.next \in Int
    BY <1>1 DEF Times
  <2>2. DtsCorrection(k, first) = first - k.next
    BY <1>1 DEF DtsCorrection
  <2>3. QED BY <2>1, <2>2
<1>2. CASE k.next \in {None, 0} /\ k.list = <<>>
  BY <1>2 DEF DtsCorrection
<1>3. CASE k.next \in {None, 0} /\ k.list # <<>>
  <2> DEFINE idx == NearestBefore(k.list, first)
             before == LastSampleBefore(k.list, first)
  <2>1. DtsCorrection(k, first) = Rejoin(first, before)
    BY <1>3 DEF DtsCorrection
  <2>2. idx \in -1..(Len(k.list) - 1)
    BY <1>3, NearestInside
  <2>3. before = IF idx >= 0 THEN k.list[idx + 1].last ELSE None
    BY DEF LastSampleBefore, LastSample
  <2> HIDE DEF idx, before
  <2>4. before \in SegmentEnd \cup {None}
    <3>1. idx >= 0 => idx + 1 \in 1..Len(k.list)
      BY <2>2
    <3>2. QED BY <2>3, <3>1, SegmentTyped
  <2>5. QED BY <2>1, <2>4, RejoinTyped
<1>4. QED BY <1>1, <1>2, <1>3

(* A segment is put into the list, not beyond its end.                     *)
LEMMA InsertTyped ==
  ASSUME NEW S, NEW s \in Seq(S), NEW x \in S, NEW p \in 0..Len(s)
  PROVE  InsertAt(s, p + 1, x) \in Seq(S) /\ InsertAt(s, p + 1, x) # <<>>
<1>1. Len(s) \in Nat /\ \A i \in 1..Len(s) : s[i] \in S
  BY LenProperties, ElementOfSeq
<1> DEFINE a == SubSeq(s, 1, p)
           c == SubSeq(s, p + 1, Len(s))
           w == <<x>>
<1>2. a \in Seq(S)
  <2>1. \A i \in 1..p : s[i] \in S
    BY <1>1
  <2>2. QED BY <1>1, <2>1, SubSeqProperties
<1>3. c \in Seq(S)
  <2>1. \A i \in (p + 1)..Len(s) : s[i] \in S
    BY <1>1
  <2>2. QED BY <1>1, <2>1, SubSeqProperties
<1>4. w \in Seq(S) /\ Len(w) = 1
  OBVIOUS
<1>5. InsertAt(s, p + 1, x) = a \o w \o c
  <2>1. InsertAt(s, p + 1, x) = SubSeq(s, 1, (p + 1) - 1) \o w \o c
    BY DEF InsertAt
  <2>2. (p + 1) - 1 = p
    BY <1>1
  <2> HIDE DEF w, c
  <2>3. QED BY <2>1, <2>2
<1> HIDE DEF a, c, w
<1>6. a \o w \in Seq(S) /\ Len(a \o w) = Len(a) + Len(w)
  BY <1>2, <1>4, ConcatProperties
<1>7. a \o w \o c \in Seq(S) /\ Len(a \o w \o c) = Len(a \o w) + Len(c)
  BY <1>3, <1>6, ConcatProperties
<1>8. Len(a) \in Nat /\ Len(c) \in Nat
  BY <1>2, <1>3, LenProperties
<1>9. Len(a \o w \o c) # 0
  BY <1>4, <1>6, <1>7, <1>8
<1>10. a \o w \o c # <<>>
  BY <1>7, <1>9, EmptySeq
<1>11. QED BY <1>5, <1>7, <1>10

LEMMA InsertBehind ==
  ASSUME NEW S, NEW s \in Seq(S), NEW x \in S
  PROVE  InsertAt(s, Len(s) + 1, x) = s \o <<x>>
<1>1. Len(s) \in Nat /\ \A i \in 1..Len(s) : s[i] \in S
  BY LenProperties, ElementOfSeq
<1>2. SubSeq(s, 1, Len(s)) = s
  BY SubSeqFull
<1>3. SubSeq(s, Len(s) + 1, Len(s)) = <<>>
  BY <1>1, SubSeqEmpty
<1>4. s \o <<x>> \in Seq(S)
  BY ConcatProperties
<1>5. s \o <<x>> \o <<>> = s \o <<x>>
  BY <1>4, ConcatEmptySeq
<1>6. InsertAt(s, Len(s) + 1, x) = s \o <<x>> \o <<>>
  <2> DEFINE n == Len(s)
             w == <<x>>
  <2>1. InsertAt(s, n + 1, x) = SubSeq(s, 1, (n + 1) - 1) \o w \o SubSeq(s, n + 1, n)
    BY DEF InsertAt
  <2>2. (n + 1) - 1 = n
    BY <1>1
  <2> HIDE DEF w
  <2>3. InsertAt(s, n + 1, x) = s \o w \o <<>>
    BY <1>2, <1>3, <2>1, <2>2
  <2>4. QED BY <2>3 DEF w
<1>7. QED BY <1>5, <1>6

LEMMA PlaceInside ==
  ASSUME NEW k, k.list \in Seq(SegmentInfo), k.placed \in Nat \cup {-1}, NEW info \in SegmentInfo
  PROVE  Place(k, info) \in 0..Len(k.list)
<1>1. Len(k.list) \in Nat /\ info.begin \in Int
  BY DEF SegmentInfo
<1>2. CASE Place(k, info) = k.placed + 1 /\ k.placed # -1 /\ k.placed <= Len(k.list) - 1
  BY <1>1, <1>2
<1>3. CASE Place(k, info) = IF k.list # <<>> THEN NearestBefore(k.list, info.begin) + 1 ELSE 0
  <2>1. CASE k.list = <<>>
    BY <1>1, <1>3, <2>1
  <2>2. CASE k.list # <<>>
    <3> DEFINE n == Len(k.list)
               m == NearestBefore(k.list, info.begin)
    <3>1. m \in -1..(n - 1) /\ Place(k, info) = m + 1 /\ n \in Nat
      BY <1>1, <1>3, <2>2, NearestInside
    <3> HIDE DEF n, m
    <3>2. m + 1 \in 0..n
      BY <3>1
    <3>3. QED BY <3>1, <3>2 DEF n
  <2>3. QED BY <2>1, <2>2
<1>4. \/ Place(k, info) = k.placed + 1 /\ k.placed # -1 /\ k.placed <= Len(k.list) - 1
      \/ Place(k, info) = IF k.list # <<>> THEN NearestBefore(k.list, info.begin) + 1 ELSE 0
  BY DEF Place
<1>5. QED BY <1>2, <1>3, <1>4

(* What sending a segment does to the remuxer's part of a track.           *)
LEMMA SentFields ==
  ASSUME NEW k, IsTrack(k), NEW t, NEW body, NEW held, NEW b, NEW fr,
         fr = Frames(t, k, body, held, b), NEW info, info = Info(fr[1], Last(fr)),
         NEW place, place = Place(k, info)
  PROVE  /\ Send(t, k, body, held, b).list = InsertAt(k.list, place + 1, info)
         /\ Send(t, k, body, held, b).placed = place
         /\ Send(t, k, body, held, b).next = Last(fr).dts + Last(fr).dur
         /\ Send(t, k, body, held, b).frames = k.frames \o fr
         /\ Send(t, k, body, held, b).stash = held
         /\ Send(t, k, body, held, b).sent = k.sent \o body
<1> DEFINE l == InsertAt(k.list, place + 1, info)
           n == Last(fr).dts + Last(fr).dur
           k1 == [k EXCEPT !.list = l, !.placed = place]
           m == k.sent \o body
           f == k.frames \o fr
           u == [k1 EXCEPT !.next = n, !.stash = held, !.sent = m, !.frames = f]
<1>1. AppendInfo(k, info) = k1
  BY DEF AppendInfo
<1>2. Send(t, k, body, held, b)
        = [AppendInfo(k, info) EXCEPT !.next = n, !.stash = held, !.sent = @ \o body, !.frames = @ \o fr]
  BY DEF Send, SendFrames
<1>3. k1.sent = k.sent /\ k1.frames = k.frames
  BY DEF IsTrack
<1>4. Send(t, k, body, held, b) = u
  BY <1>1, <1>2, <1>3
<1> HIDE DEF l, n, m, f
<1>5. u.list = l /\ u.placed = place /\ u.next = n /\ u.frames = f /\ u.stash = held /\ u.sent = m
  BY DEF IsTrack
<1>6. QED BY <1>4, <1>5 DEF l, n, m, f

LEMMA FramesSegment ==
  ASSUME NEW t \in Tracks, NEW k, NEW b \in Nat, KnownInv(k, b),
         NEW body, NEW held, Sendable(body, held)
  PROVE  /\ body[1].time \in Nat /\ DtsCorrection(k, body[1].time - b) \in Int
         /\ SegmentOf(Frames(t, k, body, held, b), t, k, body, held, b,
                      DtsCorrection(k, body[1].time - b))
<1>1. 1 \in 1..Len(body) /\ body \in Seq(Samples)
  BY Durations DEF Sendable
<1>2. body[1].time \in Nat
  BY <1>1, SampleTimes
<1>3. body[1].time - b \in Int
  BY <1>2
<1> DEFINE c == DtsCorrection(k, body[1].time - b)
<1>4. c \in Int
  BY <1>3, CorrectionTyped DEF KnownInv
<1>5. Frames(t, k, body, held, b) = Moved(t, k, body, held, b, c)
  BY DEF Frames
<1> HIDE DEF c
<1>6. SegmentOf(Moved(t, k, body, held, b, c), t, k, body, held, b, c)
  BY <1>4, MovedSound
<1>7. QED BY <1>2, <1>4, <1>5, <1>6 DEF c

LEMMA EndsTyped ==
  ASSUME NEW fr \in Seq(Frame), fr # <<>>
  PROVE  /\ fr[1] \in Frame /\ Last(fr) \in Frame
         /\ Last(fr).dts + Last(fr).dur \in Int
         /\ Info(fr[1], Last(fr)) \in SegmentInfo
<1>1. Len(fr) \in Nat /\ Len(fr) # 0
  BY LenProperties, EmptySeq
<1>2. 1 \in 1..Len(fr) /\ Len(fr) \in 1..Len(fr)
  BY <1>1
<1>3. fr[1] \in Frame /\ Last(fr) \in Frame
  BY <1>2, ElementOfSeq DEF Last
<1> DEFINE f == fr[1]
           g == Last(fr)
<1>4. f \in Frame /\ g \in Frame
  BY <1>3
<1> HIDE DEF f, g
<1>5. g.dts + g.dur \in Int /\ Info(f, g) \in SegmentInfo
  BY <1>4 DEF Frame, Info, SegmentInfo
<1>6. QED BY <1>3, <1>5 DEF f, g

LEMMA SomeBehind ==
  ASSUME NEW S, NEW a \in Seq(S), NEW b \in Seq(S), b # <<>>
  PROVE  a \o b \in Seq(S) /\ a \o b # <<>>
<1>1. /\ a \o b \in Seq(S) /\ Len(a \o b) = Len(a) + Len(b)
      /\ Len(a) \in Nat /\ Len(b) \in Nat /\ Len(b) # 0
  BY ConcatProperties, LenProperties, EmptySeq
<1>2. Len(a \o b) # 0
  BY <1>1
<1>3. QED BY <1>1, <1>2, EmptySeq

LEMMA SentKnown ==
  ASSUME NEW t \in Tracks, NEW k, IsTrack(k), NEW b \in Nat, KnownInv(k, b),
         NEW body, NEW held, Sendable(body, held)
  PROVE  KnownInv(Send(t, k, body, held, b), b)
<1> DEFINE c == DtsCorrection(k, body[1].time - b)
           fr == Frames(t, k, body, held, b)
           info == Info(fr[1], Last(fr))
           place == Place(k, info)
           u == Send(t, k, body, held, b)
<1>1. SegmentOf(fr, t, k, body, held, b, c)
  BY FramesSegment
<1>2. fr \in Seq(Frame) /\ fr # <<>>
  BY <1>1 DEF SegmentOf
<1>3. info \in SegmentInfo /\ Last(fr).dts + Last(fr).dur \in Int
  BY <1>2, EndsTyped
<1>4. place \in 0..Len(k.list)
  BY <1>3, PlaceInside DEF KnownInv
<1>5. /\ u.list = InsertAt(k.list, place + 1, info) /\ u.placed = place
      /\ u.next = Last(fr).dts + Last(fr).dur /\ u.frames = k.frames \o fr
      /\ u.stash = held /\ u.sent = k.sent \o body
  BY SentFields
<1> HIDE DEF fr, info, place, u
<1>6. u.list \in Seq(SegmentInfo) /\ u.list # <<>>
  BY <1>3, <1>4, <1>5, InsertTyped DEF KnownInv
<1>7. u.placed \in Nat
  <2>1. Len(k.list) \in Nat
    BY LenProperties DEF KnownInv
  <2>2. QED BY <1>4, <1>5, <2>1
<1>8. u.frames \in Seq(Frame) /\ u.frames # <<>>
  BY <1>2, <1>5, SomeBehind DEF KnownInv
<1>9. u.sent # <<>>
  BY <1>5, SomeBehind DEF IsTrack, Sendable
<1>10. u.next \in Times /\ Len(u.stash) <= 1
  BY <1>3, <1>5 DEF Times, Sendable
<1>11. KnownInv(u, b)
  BY <1>6, <1>7, <1>8, <1>9, <1>10 DEF KnownInv
<1>12. QED BY <1>11 DEF u

-----------------------------------------------------------------------------
(* What a step may do to a track, whatever the action.                     *)

BaseInv(b) == b \in Nat \cup {None}

Replaced(k) == [k EXCEPT !.queue = <<>>, !.given = SubSeq(@, 1, Len(@) - Len(k.queue))]

Sampled(k, x) == [k EXCEPT !.queue = Append(@, x), !.given = Append(@, x)]

\* x is the sample of the next tag, which goes into the queue of t.
NextSample(t, x) ==
  /\ io.part \in Parts /\ io.pos + 1 \in 1..Len(Tags) /\ io'.part = io.part /\ io'.pos = io.pos + 1
  /\ Tags[io.pos + 1].kind \in SampleKinds(t)
  /\ x \in Samples /\ ~x.stale /\ x.time = AbsoluteTime(io.part, io.pos + 1)

Turned(t, k, u) ==
  \/ u = k
  \/ \E m : u = [k EXCEPT !.meta = m]
  \/ base' \in Nat /\ u = RemuxQueue(t, k, base')
  \/ base' \in Nat /\ \E m : u = [RemuxQueue(t, k, base') EXCEPT !.meta = m]
  \/ u = Discontinue(k)
  \/ base' = base /\ u = FlushStash(t, k)
  \/ u = Replaced(k)
  \/ \E x : NextSample(t, x) /\ u = Sampled(k, x)

\* The loader does not go back.
Onward ==
  \A q \in Parts : \A j \in Nat : Earlier(q, j, io.part, io.pos + 1) => Earlier(q, j, io'.part, io'.pos + 1)

Sought == \A t \in Tracks : trk'[t] = SeekTrack(trk[t])

TracksTurn == Onward /\ \A t \in Tracks : Turned(t, trk[t], trk'[t])

BaseTurns == base' = base \/ (base = None /\ base' \in Nat)

LEMMA DtsBaseTyped ==
  ASSUME RemuxInv, BaseInv(base), NEW u0 \in Tracks, trk[u0].queue # <<>>
  PROVE  DtsBase \in Nat /\ (base # None => DtsBase = base)
<1> DEFINE S == {trk[t].queue[1].time : t \in {u \in Tracks : trk[u].queue # <<>>}}
<1>1. CASE base # None
  BY <1>1 DEF DtsBase, BaseInv
<1>2. CASE base = None
  <2>1. DtsBase = CHOOSE x \in S : \A y \in S : x <= y
    BY <1>2 DEF DtsBase
  <2>2. ASSUME NEW t \in Tracks, trk[t].queue # <<>> PROVE trk[t].queue[1].time \in Nat
    <3>1. trk[t].queue \in Seq(Samples)
      BY DEF RemuxInv, TracksInv, TrackInv, IsTrack
    <3>2. 1 \in 1..Len(trk[t].queue)
      BY <2>2, <3>1
    <3>3. QED BY <3>1, <3>2, SampleTimes
  <2>3. S \in SUBSET Nat
    BY <2>2
  <2>4. trk[u0].queue[1].time \in S
    OBVIOUS
  <2> HIDE DEF S
  <2>5. \E x \in S : \A y \in S : x <= y
    BY <2>3, <2>4, LeastNatural
  <2>6. QED BY <1>2, <2>1, <2>3, <2>5
<1>3. QED BY <1>1, <1>2

LEMMA RemuxParsedTurns ==
  ASSUME RemuxInv, BaseInv(base), RemuxParsed
  PROVE  BaseTurns /\ \A t \in Tracks : Turned(t, trk[t], trk'[t])
<1>1. CASE UNCHANGED <<base, trk>>
  BY <1>1 DEF BaseTurns, Turned
<1>2. CASE \E t \in Tracks : trk[t].queue # <<>>
  <2>1. base' = DtsBase /\ trk' = [t \in Tracks |-> RemuxQueue(t, trk[t], base')]
    BY <1>2 DEF RemuxParsed
  <2>2. base' \in Nat /\ (base # None => base' = base)
    BY <1>2, <2>1, DtsBaseTyped
  <2>3. QED BY <2>1, <2>2 DEF BaseTurns, Turned
<1>3. QED BY <1>1, <1>2 DEF RemuxParsed

LEMMA StandsOrGoesOn ==
  ASSUME io'.part = io.part, io'.pos = io.pos \/ io'.pos = io.pos + 1, io.pos \in Nat
  PROVE  Onward
BY DEF Onward, Earlier

LEMMA ConfigTurns ==
  ASSUME RemuxInv, BaseInv(base), NEW t \in Tracks, ParseConfig(t)
  PROVE  BaseTurns /\ TracksTurn
<1>1. Onward
  <2>1. io'.part = io.part /\ io'.pos = io.pos + 1 /\ io.pos \in Nat
    BY DEF ParseConfig, TellMediaInfo, RemuxInv, IoInv, IoType
  <2>2. QED BY <2>1, StandsOrGoesOn
<1>2. CASE trk' = [trk EXCEPT ![t].meta = TRUE] /\ UNCHANGED base
  <2>1. \A u \in Tracks : trk'[u] = trk[u] \/ trk'[u] = [trk[u] EXCEPT !.meta = TRUE]
    BY <1>2 DEF RemuxInv, TracksInv
  <2>2. QED BY <1>1, <1>2, <2>1 DEF TracksTurn, Turned, BaseTurns
<1>3. CASE /\ \E u \in Tracks : trk[u].queue # <<>>
           /\ base' = DtsBase
           /\ trk' = [u \in Tracks |-> [RemuxQueue(u, trk[u], DtsBase) EXCEPT !.meta = @ \/ u = t]]
  <2>1. base' \in Nat /\ (base # None => base' = base)
    BY <1>3, DtsBaseTyped
  <2>2. trk' = [u \in Tracks |-> [RemuxQueue(u, trk[u], base') EXCEPT !.meta = @ \/ u = t]]
    BY <1>3
  <2>3. \A u \in Tracks :
          trk'[u] = [RemuxQueue(u, trk[u], base') EXCEPT !.meta = RemuxQueue(u, trk[u], base').meta \/ u = t]
    BY <2>2
  <2>4. \A u \in Tracks : \E m : trk'[u] = [RemuxQueue(u, trk[u], base') EXCEPT !.meta = m]
    BY <2>3
  <2>5. QED BY <1>1, <2>1, <2>4 DEF TracksTurn, Turned, BaseTurns
<1>4. QED BY <1>2, <1>3 DEF ParseConfig

LEMMA SampleTurns ==
  ASSUME RemuxInv, NEW t \in Tracks, NEW kind \in SampleKinds(t), Parsing(kind), NEW d, NextTag(d),
         ParseSample(t)
  PROVE  BaseTurns /\ TracksTurn
<1>1. io.part \in Parts /\ io.pos + 1 \in 1..Len(Tags)
  BY TagKeeps DEF RemuxInv
<1>2. io'.part = io.part /\ io'.pos = io.pos + 1 /\ io.pos \in Nat
  BY DEF NextTag, RemuxInv, IoInv, IoType
<1> DEFINE x == [part |-> io.part, at |-> io.pos + 1,
                 time |-> PartStart[io.part] + Tags[io.pos + 1].time, stale |-> FALSE]
<1>3. NextSample(t, x)
  <2>1. PartStart[io.part] \in Nat /\ Tags[io.pos + 1].time \in Nat
    BY <1>1, FileTyped DEF Tags
  <2>2. x \in Samples
    BY <1>1, <2>1 DEF Samples
  <2>3. x.time = AbsoluteTime(io.part, io.pos + 1)
    BY DEF AbsoluteTime, Tags
  <2>4. QED BY <1>1, <1>2, <2>2, <2>3 DEF NextSample, Parsing
<1>4. \A u \in Tracks : trk'[u] = trk[u] \/ (u = t /\ trk'[u] = Sampled(trk[u], x))
  BY DEF ParseSample, RemuxInv, TracksInv, Sampled
<1> HIDE DEF x
<1>5. \A u \in Tracks : Turned(u, trk[u], trk'[u])
  BY <1>3, <1>4 DEF Turned
<1>6. QED BY <1>2, <1>5, StandsOrGoesOn DEF TracksTurn, BaseTurns, ParseSample

LEMMA PartsNumbered == Parts \subseteq Nat
<1> DEFINE Tag == [kind : Kinds, time : Nat]
<1>1. File \in Seq(Seq(Tag))
  BY FileAssumption
<1> HIDE DEF Tag
<1>2. Parts = 1..Len(File) /\ Len(File) \in Nat
  BY <1>1, LenProperties DEF Parts
<1>3. QED BY <1>2

LEMMA StepTurns ==
  ASSUME RemuxInv, BaseInv(base), [Next]_vars
  PROVE  BaseTurns /\ (Sought \/ TracksTurn)
<1>0. io.pos \in Nat /\ io.part \in Nat
  BY PartsNumbered DEF RemuxInv, IoInv, IoType
<1>1. ASSUME NEW n \in 1..MaxChunk, Arrive(n) PROVE BaseTurns /\ TracksTurn
  <2>1. Onward
    BY <1>0, <1>1, StandsOrGoesOn DEF Arrive, RemuxInv, IoInv, IoType
  <2>2. \A t \in Tracks : trk'[t] = trk[t] \/ trk'[t] = Replaced(trk[t])
    BY <1>1 DEF Arrive, Replaced
  <2>3. QED BY <1>1, <2>1, <2>2 DEF Arrive, TracksTurn, Turned, BaseTurns
<1>2. CASE ParseScript
  <2>1. Onward
    BY <1>0, <1>2, StandsOrGoesOn DEF ParseScript, TellMediaInfo, RemuxInv, IoInv, IoType
  <2>2. QED BY <1>2, <2>1 DEF ParseScript, TracksTurn, Turned, BaseTurns
<1>3. CASE ParseAudioConfig
  BY <1>3, ConfigTurns DEF ParseAudioConfig, Tracks
<1>4. CASE ParseVideoConfig
  BY <1>4, ConfigTurns DEF ParseVideoConfig, Tracks
<1>5. CASE ParseAudio
  BY <1>5, SampleTurns DEF ParseAudio, Tracks, SampleKinds
<1>6. CASE ParseVideo
  BY <1>6, SampleTurns DEF ParseVideo, VideoTag, Tracks, SampleKinds
<1>7. CASE Dispatch
  <2>1. Onward
    BY <1>0, <1>7, StandsOrGoesOn DEF Dispatch, RemuxInv, IoInv, IoType
  <2>2. RemuxParsed \/ UNCHANGED <<base, trk>>
    BY <1>7 DEF Dispatch, DispatchParsed
  <2>3. BaseTurns /\ \A t \in Tracks : Turned(t, trk[t], trk'[t])
    BY <2>2, RemuxParsedTurns DEF BaseTurns, Turned
  <2>4. QED BY <2>1, <2>3 DEF TracksTurn
<1>8. ASSUME NEW k, NEW pend, NEW seeks, SeekTo(k, pend, seeks), UNCHANGED base
      PROVE  BaseTurns /\ (Sought \/ TracksTurn)
  <2>1. CASE io' = [io EXCEPT !.pend = k, !.seeks = seeks] /\ UNCHANGED trk
    <3>1. Onward
      BY <1>0, <2>1, StandsOrGoesOn DEF RemuxInv, IoInv, IoType
    <3>2. QED BY <1>8, <2>1, <3>1 DEF TracksTurn, Turned, BaseTurns
  <2>2. CASE trk' = [t \in Tracks |-> SeekTrack(trk[t])]
    BY <1>8, <2>2 DEF Sought, BaseTurns
  <2>3. QED BY <1>8, <2>1, <2>2 DEF SeekTo
<1>9. CASE PendingSeek
  BY <1>8, <1>9 DEF PendingSeek
<1>10. ASSUME NEW k \in Keyframes, Seek(k) PROVE BaseTurns /\ (Sought \/ TracksTurn)
  BY <1>8, <1>10 DEF Seek
<1>11. CASE PauseAndResume
  <2>1. Onward
    BY <1>0, <1>11, StandsOrGoesOn DEF PauseAndResume, RemuxInv, IoInv, IoType
  <2>2. QED BY <1>11, <2>1 DEF PauseAndResume, TracksTurn, Turned, BaseTurns
<1>12. CASE PartComplete
  <2>1. Onward
    <3>1. CASE io' = Load(io.part + 1, 0, TRUE)
      <4>1. io'.part = io.part + 1 /\ io'.pos = 0
        BY <3>1 DEF Load, RemuxInv, IoInv, IoType
      <4>2. QED BY <1>0, <4>1, PartsNumbered DEF Onward, Earlier
    <3>2. CASE io' = [io EXCEPT !.done = TRUE]
      BY <1>0, <3>2, StandsOrGoesOn DEF RemuxInv, IoInv, IoType
    <3>3. QED BY <1>12, <3>1, <3>2 DEF PartComplete
  <2>2. QED BY <1>12, <2>1 DEF PartComplete, TracksTurn, Turned, BaseTurns
<1>13. CASE UNCHANGED vars
  BY <1>0, <1>13, StandsOrGoesOn DEF vars, TracksTurn, Turned, BaseTurns
<1>14. QED BY <1>1, <1>2, <1>3, <1>4, <1>5, <1>6, <1>7, <1>9, <1>10, <1>11, <1>12, <1>13 DEF Next

\* u is k for the remuxer.
Alike(k, u) ==
  /\ u.next = k.next /\ u.list = k.list /\ u.placed = k.placed /\ u.frames = k.frames
  /\ u.stash = k.stash /\ u.sent = k.sent

LEMMA OthersAlike ==
  ASSUME NEW k, IsTrack(k), NEW x, NEW y
  PROVE  /\ Alike(k, [k EXCEPT !.meta = x]) /\ [k EXCEPT !.meta = x].given = k.given
         /\ Alike(k, [k EXCEPT !.queue = x]) /\ [k EXCEPT !.queue = x].given = k.given
         /\ Alike(k, [k EXCEPT !.queue = x, !.given = y])
         /\ [k EXCEPT !.queue = x, !.given = y].given = y
BY DEF IsTrack, Alike

LEMMA DiscontinueFields ==
  ASSUME NEW k, IsTrack(k)
  PROVE  /\ Discontinue(k).next = None /\ Discontinue(k).list = k.list
         /\ Discontinue(k).placed = k.placed /\ Discontinue(k).frames = k.frames
         /\ Discontinue(k).stash = k.stash /\ Discontinue(k).sent = k.sent
         /\ Discontinue(k).given = k.given
BY DEF IsTrack, Discontinue

LEMMA SeekTrackFields ==
  ASSUME NEW k, IsTrack(k)
  PROVE  /\ Fresh(SeekTrack(k)) /\ SeekTrack(k).frames = <<>>
         /\ SeekTrack(k).given = [i \in 1..Len(k.queue) |-> [k.queue[i] EXCEPT !.stale = TRUE]]
<1> DEFINE old == [i \in 1..Len(k.queue) |-> [k.queue[i] EXCEPT !.stale = TRUE]]
           d == Discontinue(k)
           u == [d EXCEPT !.stash = <<>>, !.list = <<>>, !.placed = -1,
                          !.queue = old, !.given = old, !.sent = <<>>, !.frames = <<>>]
<1>1. SeekTrack(k) = u
  BY DEF SeekTrack
<1>2. d.next = None /\ IsTrack(d)
  BY DEF IsTrack, Discontinue
<1> HIDE DEF old, d
<1>3. /\ u.next = None /\ u.stash = <<>> /\ u.list = <<>> /\ u.placed = -1 /\ u.given = old
      /\ u.sent = <<>> /\ u.frames = <<>>
  BY <1>2 DEF IsTrack
<1>4. QED BY <1>1, <1>3 DEF Fresh, old

LEMMA QueueSendable ==
  ASSUME NEW k, TrackInv(k), Len(k.stash) <= 1, Ready(k)
  PROVE  /\ Sendable(Body(k), <<Last(k.queue)>>)
         /\ Cat(Cat(k.sent, Body(k)), <<Last(k.queue)>>) = k.given
         /\ k.stash # <<>> => Body(k)[1] = k.stash[1]
<1> DEFINE a == k.sent
           s == k.stash
           q == k.queue
           f == Front(q)
           h == <<Last(q)>>
<1>1. a \in Seq(Samples) /\ s \in Seq(Samples) /\ q \in Seq(Samples) /\ Cat(Cat(a, s), q) = k.given
  BY DEF TrackInv, Once, IsTrack
<1>2. Len(q) >= 2 /\ Len(q) \in Nat
  BY <1>1, LenProperties DEF Ready
<1>3. f \in Seq(Samples) /\ h \in Seq(Samples) /\ Cat(f, h) = q /\ Last(q) \in Samples
  <2>1. q \in Seq(Samples) /\ Len(q) >= 1
    BY <1>1, <1>2
  <2> HIDE DEF q
  <2>2. QED BY ONLY <2>1, FrontLast
<1>4. f # <<>>
  <2>1. SubSeq(q, 1, Len(q) - 1) \in Seq(Samples) /\ Len(SubSeq(q, 1, Len(q) - 1)) = Len(q) - 1
    <3>1. \A i \in 1..(Len(q) - 1) : q[i] \in Samples
      BY <1>1, <1>2, ElementOfSeq
    <3>2. Len(q) - 1 \in Int /\ 1 <= Len(q) - 1
      BY <1>2
    <3>3. QED BY <3>1, <3>2, SubSeqProperties
  <2>2. Len(f) # 0 /\ f \in Seq(Samples)
    <3>1. f = SubSeq(q, 1, Len(q) - 1)
      BY DEF Front
    <3> HIDE DEF f, q
    <3>2. QED BY <1>2, <2>1, <3>1
  <2>3. QED BY <2>2, EmptySeq
<1>5. Len(h) <= 1
  OBVIOUS
<1>6. Body(k) = Cat(s, f)
  BY DEF Body, Cat
<1> HIDE DEF a, s, q, f, h
<1>7. Cat(s, f) \in Seq(Samples) /\ Cat(s, f) # <<>>
  BY <1>1, <1>3, <1>4, SomeBehind DEF Cat
<1>8. Cat(Cat(a, Cat(s, f)), h) = Cat(Cat(a, s), Cat(f, h))
  BY ONLY <1>1, <1>3, Regroup
<1>9. s # <<>> => Cat(s, f)[1] = s[1]
  <2> SUFFICES ASSUME s # <<>> PROVE (s \o f)[1] = s[1]
    BY DEF Cat
  <2>1. Len(s) \in Nat /\ Len(s) # 0 /\ Len(f) \in Nat
    BY <1>1, <1>3, EmptySeq, LenProperties
  <2>2. 1 \in 1..(Len(s) + Len(f)) /\ 1 <= Len(s)
    BY <2>1
  <2>3. QED BY <1>1, <1>3, <2>2, ConcatProperties
<1>10. QED BY <1>1, <1>3, <1>5, <1>6, <1>7, <1>8, <1>9 DEF Sendable, a, s, q, f, h

LEMMA StashSendable ==
  ASSUME NEW k, TrackInv(k), Len(k.stash) <= 1, k.stash # <<>>
  PROVE  Sendable(k.stash, <<>>)
<1>1. k.stash \in Seq(Samples)
  BY DEF TrackInv, IsTrack
<1> DEFINE e == <<>>
<1>2. e \in Seq(Samples) /\ Len(e) <= 1
  OBVIOUS
<1> HIDE DEF e
<1>3. Sendable(k.stash, e)
  BY <1>1, <1>2 DEF Sendable
<1>4. QED BY <1>3 DEF e

LEMMA RemuxQueueIs ==
  ASSUME NEW k, TrackInv(k), Len(k.stash) <= 1, NEW t, NEW b
  PROVE  \/ RemuxQueue(t, k, b) = k
         \/ /\ Ready(k)
            /\ Alike(Send(t, k, Body(k), <<Last(k.queue)>>, b), RemuxQueue(t, k, b))
            /\ RemuxQueue(t, k, b).given = k.given
<1>1. CASE ~Ready(k)
  BY <1>1 DEF RemuxQueue
<1>2. CASE Ready(k)
  <2> DEFINE s == Send(t, k, Body(k), <<Last(k.queue)>>, b)
  <2>1. RemuxQueue(t, k, b) = [s EXCEPT !.queue = <<>>]
    BY <1>2 DEF RemuxQueue
  <2>2. IsTrack(s) /\ s.given = k.given
    <3> DEFINE body == Body(k)
               held == <<Last(k.queue)>>
    <3>1. body \in Seq(Samples) /\ held \in Seq(Samples)
      BY <1>2, QueueSendable DEF Sendable
    <3> HIDE DEF body, held
    <3>2. IsTrack(Send(t, k, body, held, b)) /\ Send(t, k, body, held, b).given = k.given
      BY <3>1, SentKeeps
    <3>3. QED BY <3>2 DEF body, held
  <2> HIDE DEF s
  <2>3. Alike(s, [s EXCEPT !.queue = <<>>]) /\ [s EXCEPT !.queue = <<>>].given = s.given
    BY <2>2, OthersAlike
  <2>4. QED BY <1>2, <2>1, <2>2, <2>3 DEF s
<1>3. QED BY <1>1, <1>2

LEMMA KnownAlike ==
  ASSUME NEW k, NEW u, Alike(k, u), NEW b, KnownInv(k, b)
  PROVE  KnownInv(u, b)
BY DEF Alike, KnownInv, Fresh

LEMMA KnownBase ==
  ASSUME NEW k, KnownInv(k, base), BaseTurns
  PROVE  KnownInv(k, base')
BY NoneApart DEF BaseTurns, KnownInv

LEMMA RemuxQueueKnown ==
  ASSUME NEW t \in Tracks, NEW k, TrackInv(k), NEW b \in Nat, KnownInv(k, b)
  PROVE  KnownInv(RemuxQueue(t, k, b), b)
<1>1. CASE RemuxQueue(t, k, b) = k
  BY <1>1
<1>2. CASE /\ Ready(k)
           /\ Alike(Send(t, k, Body(k), <<Last(k.queue)>>, b), RemuxQueue(t, k, b))
  <2>1. Sendable(Body(k), <<Last(k.queue)>>) /\ IsTrack(k)
    BY <1>2, QueueSendable DEF KnownInv, TrackInv
  <2>2. KnownInv(Send(t, k, Body(k), <<Last(k.queue)>>, b), b)
    BY <2>1, SentKnown
  <2>3. QED BY <1>2, <2>2, KnownAlike
<1>3. QED BY <1>1, <1>2, RemuxQueueIs DEF KnownInv

LEMMA QueueAlike ==
  ASSUME NEW k, IsTrack(k), NEW x
  PROVE  /\ Alike(k, Replaced(k)) /\ Alike(k, Sampled(k, x))
         /\ Replaced(k).given = SubSeq(k.given, 1, Len(k.given) - Len(k.queue))
         /\ Sampled(k, x).given = Append(k.given, x)
<1> DEFINE e == <<>>
           g == SubSeq(k.given, 1, Len(k.given) - Len(k.queue))
           q == Append(k.queue, x)
           h == Append(k.given, x)
           r == [k EXCEPT !.queue = e, !.given = g]
           s == [k EXCEPT !.queue = q, !.given = h]
<1>1. Replaced(k) = r
  BY DEF Replaced
<1>2. Sampled(k, x) = s
  BY DEF Sampled
<1> HIDE DEF e, g, q, h
<1>3. Alike(k, r) /\ r.given = g
  BY DEF IsTrack, Alike
<1>4. Alike(k, s) /\ s.given = h
  BY DEF IsTrack, Alike
<1>5. QED BY <1>1, <1>2, <1>3, <1>4 DEF g, h

LEMMA TurnKnown ==
  ASSUME NEW t \in Tracks, NEW k, TrackInv(k), KnownInv(k, base), BaseTurns,
         NEW u, Turned(t, k, u)
  PROVE  KnownInv(u, base')
<1>0. IsTrack(k) /\ KnownInv(k, base')
  BY KnownBase DEF TrackInv
<1>1. CASE u = k
  BY <1>0, <1>1
<1>2. ASSUME NEW m, u = [k EXCEPT !.meta = m] PROVE KnownInv(u, base')
  BY <1>0, <1>2, OthersAlike, KnownAlike
<1>3. ASSUME base' \in Nat PROVE KnownInv(RemuxQueue(t, k, base'), base')
  BY <1>0, <1>3, RemuxQueueKnown
<1>4. ASSUME base' \in Nat, NEW m, u = [RemuxQueue(t, k, base') EXCEPT !.meta = m]
      PROVE  KnownInv(u, base')
  <2> DEFINE r == RemuxQueue(t, k, base')
  <2>1. KnownInv(r, base') /\ IsTrack(r)
    BY <1>3, <1>4, RemuxQueueKeeps DEF TrackInv
  <2> HIDE DEF r
  <2>2. KnownInv([r EXCEPT !.meta = m], base')
    BY <2>1, OthersAlike, KnownAlike
  <2>3. QED BY <1>4, <2>2 DEF r
<1>5. CASE u = Discontinue(k)
  BY <1>0, <1>5, DiscontinueFields DEF KnownInv, Fresh, Times
<1>6. CASE base' = base /\ u = FlushStash(t, k)
  <2>1. CASE k.stash = <<>>
    BY <1>0, <1>6, <2>1 DEF FlushStash
  <2>2. CASE k.stash # <<>>
    <3>1. base \in Nat /\ Len(k.stash) <= 1
      BY <2>2 DEF KnownInv, Fresh
    <3>2. Sendable(k.stash, <<>>)
      BY <2>2, <3>1, StashSendable
    <3>3. KnownInv(Send(t, k, k.stash, <<>>, base), base)
      BY <1>0, <3>1, <3>2, SentKnown
    <3>4. QED BY <1>6, <2>2, <3>3 DEF FlushStash
  <2>3. QED BY <2>1, <2>2
<1>7. CASE u = Replaced(k)
  BY <1>0, <1>7, QueueAlike, KnownAlike
<1>8. ASSUME NEW x, u = Sampled(k, x) PROVE KnownInv(u, base')
  BY <1>0, <1>8, QueueAlike, KnownAlike
<1>9. QED BY <1>1, <1>2, <1>3, <1>4, <1>5, <1>6, <1>7, <1>8 DEF Turned

-----------------------------------------------------------------------------
(* Types.                                                                  *)

DmxType == [has : SUBSET Tracks, sent : SUBSET Tracks, script : BOOLEAN, dispatch : BOOLEAN]

TypeInv ==
  /\ RemuxInv /\ BaseInv(base) /\ dmx \in DmxType
  /\ \A t \in Tracks : KnownInv(trk[t], base)

LEMMA DmxTyped ==
  ASSUME dmx \in DmxType, [Next]_vars
  PROVE  dmx' \in DmxType
<1>1. ASSUME NEW has \in Declared PROVE NewDemuxer(has) \in DmxType
  BY DeclaredAssumption DEF NewDemuxer, DmxType
<1>2. ASSUME NEW t \in Tracks, NEW s \in BOOLEAN
      PROVE  /\ [dmx EXCEPT !.has = @ \cup {t}] \in DmxType
             /\ [dmx EXCEPT !.has = @ \cup {t}, !.dispatch = s] \in DmxType
             /\ [[dmx EXCEPT !.has = @ \cup {t}] EXCEPT !.sent = @ \cup {t}, !.dispatch = s] \in DmxType
             /\ [dmx EXCEPT !.dispatch = s] \in DmxType
             /\ [dmx EXCEPT !.script = TRUE, !.dispatch = s] \in DmxType
  BY DEF DmxType
<1>3. "audio" \in Tracks /\ "video" \in Tracks
  BY DEF Tracks
<1>4. ASSUME NEW n \in 1..MaxChunk, Arrive(n) PROVE dmx' \in DmxType
  BY <1>1, <1>4 DEF Arrive
<1>5. CASE ParseScript
  BY <1>2, <1>3, <1>5 DEF ParseScript, TellMediaInfo
<1>6. CASE ParseAudioConfig \/ ParseVideoConfig
  BY <1>2, <1>3, <1>6 DEF ParseAudioConfig, ParseVideoConfig, ParseConfig, TellMediaInfo
<1>7. CASE ParseAudio \/ ParseVideo
  BY <1>2, <1>3, <1>7 DEF ParseAudio, ParseVideo, NextTag
<1>8. CASE Dispatch
  <2>1. PICK tail \in Tails : DispatchParsed(tail)
    BY <1>8 DEF Dispatch
  <2> DEFINE s == dmx.dispatch \/ tail
  <2>2. s \in BOOLEAN
    OBVIOUS
  <2>3. dmx' = [dmx EXCEPT !.dispatch = s]
    BY <2>1 DEF DispatchParsed
  <2> HIDE DEF s
  <2>4. QED BY <1>2, <1>3, <2>2, <2>3
<1>9. CASE UNCHANGED dmx
  BY <1>9
<1>10. QED BY <1>4, <1>5, <1>6, <1>7, <1>8, <1>9
         DEF Next, vars, PendingSeek, Seek, PauseAndResume, PartComplete

LEMMA NewKnown == KnownInv(NewTrack, None)
<1> DEFINE e == <<>>
           k == [queue |-> e, stash |-> e, next |-> None, list |-> e, placed |-> -1,
                 meta |-> FALSE, given |-> e, sent |-> e, frames |-> e]
<1>1. NewTrack = k
  BY DEF NewTrack
<1>2. e \in Seq(SegmentInfo) /\ e \in Seq(Frame) /\ Len(e) <= 1
  OBVIOUS
<1>3. k.next = None /\ k.list = e /\ k.placed = -1 /\ k.frames = e /\ k.stash = e /\ k.sent = e
  OBVIOUS
<1> HIDE DEF k
<1>4. Fresh(k)
  BY <1>3 DEF Fresh
<1> HIDE DEF e
<1>5. KnownInv(k, None)
  BY <1>2, <1>3, <1>4 DEF KnownInv, Times, e
<1>6. QED BY <1>1, <1>5

LEMMA TypeInvInit == Init => TypeInv
<1> SUFFICES ASSUME Init PROVE TypeInv
  OBVIOUS
<1>1. RemuxInv
  BY RemuxInvInit
<1>2. dmx \in DmxType
  BY DEF Init, NewDemuxer, DmxType
<1>3. BaseInv(base) /\ \A t \in Tracks : KnownInv(trk[t], base)
  BY NewKnown DEF Init, BaseInv
<1>4. QED BY <1>1, <1>2, <1>3 DEF TypeInv

LEMMA TypeInvStep == TypeInv /\ [Next]_vars => TypeInv'
<1> SUFFICES ASSUME TypeInv, [Next]_vars PROVE TypeInv'
  OBVIOUS
<1>1. RemuxInv /\ RemuxInv' /\ BaseInv(base) /\ dmx' \in DmxType
  BY RemuxInvStep, DmxTyped DEF TypeInv
<1>2. BaseTurns /\ (Sought \/ TracksTurn)
  BY <1>1, StepTurns
<1>3. BaseInv(base')
  BY <1>1, <1>2 DEF BaseTurns, BaseInv
<1>4. ASSUME NEW t \in Tracks PROVE KnownInv(trk'[t], base')
  <2>1. TrackInv(trk[t]) /\ KnownInv(trk[t], base)
    BY <1>1 DEF TypeInv, RemuxInv, TracksInv
  <2>2. CASE Sought
    <3> DEFINE k == trk[t]
               e == <<>>
    <3>1. trk'[t] = SeekTrack(k)
      BY <2>2 DEF Sought
    <3>2. IsTrack(k)
      BY <2>1 DEF TrackInv
    <3> HIDE DEF k
    <3>3. Fresh(SeekTrack(k)) /\ SeekTrack(k).frames = <<>>
      BY <3>2, SeekTrackFields
    <3>4. e \in Seq(SegmentInfo) /\ e \in Seq(Frame) /\ Len(e) <= 1
      OBVIOUS
    <3> HIDE DEF e
    <3>5. QED BY <3>1, <3>3, <3>4 DEF KnownInv, Fresh, Times, e
  <2>3. CASE TracksTurn
    BY <1>2, <2>1, <2>3, TurnKnown DEF TracksTurn
  <2>4. QED BY <1>2, <2>2, <2>3
<1>5. QED BY <1>1, <1>3, <1>4 DEF TypeInv

LEMMA TypeInvAlways == Spec => []TypeInv
BY TypeInvInit, TypeInvStep, PTL DEF Spec

(* The loader never reads past the part it is in, the controller waits in  *)
(* its handler only for a seek, times are whole numbers or unknown, and no *)
(* track holds back more than one sample (TypeOK).                         *)
THEOREM TypeCorrect == Spec => []TypeOK
<1>1. TypeInv => TypeOK
  <2> SUFFICES ASSUME TypeInv PROVE TypeOK
    OBVIOUS
  <2>1. /\ io.part \in Parts /\ io.pos \in Nat /\ io.left \in Nat /\ io.known \subseteq Parts
        /\ io.pend \in Keyframes \cup {None} /\ io.pos + io.left <= Len(Tags)
        /\ (io.told => io.pend # None \/ io.parsing)
    BY DEF TypeInv, RemuxInv, IoInv, IoType, Tags
  <2>2. Len(Tags) \in Nat
    BY <2>1, FileTyped DEF Tags
  <2>3. io.pos \in 0..Len(Tags)
    BY <2>1, <2>2
  <2>4. base \in Times
    BY DEF TypeInv, BaseInv, Times
  <2>5. ASSUME NEW t \in Tracks
        PROVE  /\ trk[t].queue \in Seq(Samples) /\ trk[t].stash \in Seq(Samples)
               /\ Len(trk[t].stash) <= 1 /\ trk[t].next \in Times
    BY DEF TypeInv, RemuxInv, TracksInv, TrackInv, IsTrack, KnownInv
  <2>6. QED BY <2>1, <2>3, <2>4, <2>5 DEF TypeOK, TypeInv, DmxType
<1>2. QED BY <1>1, TypeInvAlways, PTL

-----------------------------------------------------------------------------
(* Order: since the last seek the samples of a track go on in time.        *)

\* No sample that is not stale is followed by an earlier or a stale one.
Rising(s) ==
  \A m \in 1..Len(s) : \A n \in 1..Len(s) :
    m < n /\ ~s[m].stale => ~s[n].stale /\ s[m].time < s[n].time

\* Every sample of the track that the loader i still comes to is later.
Passed(t, time, i) ==
  \A q \in Parts : \A j \in 1..Len(File[q]) :
    File[q][j].kind \in SampleKinds(t) /\ ~Earlier(q, j, i.part, i.pos + 1) => time < AbsoluteTime(q, j)

OrderInv(t, s, i) ==
  Rising(s) /\ \A n \in 1..Len(s) : ~s[n].stale => Passed(t, s[n].time, i)

LEMMA CatElements ==
  ASSUME NEW S, NEW a \in Seq(S), NEW b \in Seq(S)
  PROVE  /\ Len(a) \in Nat /\ Len(b) \in Nat /\ Len(Cat(a, b)) = Len(a) + Len(b)
         /\ \A i \in 1..Len(a) : i \in 1..Len(Cat(a, b)) /\ Cat(a, b)[i] = a[i]
         /\ \A j \in 1..Len(b) : Len(a) + j \in 1..Len(Cat(a, b)) /\ Cat(a, b)[Len(a) + j] = b[j]
<1> DEFINE c == a \o b
           m == Len(a)
           n == Len(b)
<1>1. /\ Len(c) = m + n /\ m \in Nat /\ n \in Nat
      /\ \A i \in 1..(m + n) : c[i] = IF i <= m THEN a[i] ELSE b[i - m]
  BY ConcatProperties, LenProperties
<1> HIDE DEF c, m, n
<1>2. \A i \in 1..m : i \in 1..(m + n) /\ c[i] = a[i]
  BY <1>1
<1>3. ASSUME NEW j \in 1..n PROVE m + j \in 1..(m + n) /\ c[m + j] = b[j]
  <2>1. m + j \in 1..(m + n) /\ ~(m + j <= m) /\ (m + j) - m = j
    BY <1>1
  <2>2. QED BY <1>1, <2>1
<1>4. QED BY <1>1, <1>2, <1>3 DEF Cat, c, m, n

LEMMA RisingSplit ==
  ASSUME NEW a \in Seq(Samples), NEW b \in Seq(Samples), Rising(Cat(a, b))
  PROVE  /\ Rising(a) /\ Rising(b)
         /\ \A i \in 1..Len(a) : \A j \in 1..Len(b) :
              ~a[i].stale => ~b[j].stale /\ a[i].time < b[j].time
<1> DEFINE c == Cat(a, b)
           m == Len(a)
           n == Len(b)
<1>1. /\ m \in Nat /\ n \in Nat
      /\ \A i \in 1..m : i \in 1..Len(c) /\ c[i] = a[i]
      /\ \A j \in 1..n : m + j \in 1..Len(c) /\ c[m + j] = b[j]
  BY CatElements
<1>2. Rising(c)
  OBVIOUS
<1> HIDE DEF c
<1>3. Rising(a)
  BY <1>1, <1>2 DEF Rising
<1>4. Rising(b)
  <2> SUFFICES ASSUME NEW i \in 1..n, NEW j \in 1..n, i < j, ~b[i].stale
               PROVE  ~b[j].stale /\ b[i].time < b[j].time
    BY DEF Rising
  <2>1. m + i < m + j
    BY <1>1
  <2>2. QED BY <1>1, <1>2, <2>1 DEF Rising
<1>5. ASSUME NEW i \in 1..m, NEW j \in 1..n, ~a[i].stale
      PROVE  ~b[j].stale /\ a[i].time < b[j].time
  <2>1. i < m + j
    BY <1>1
  <2>2. QED BY <1>1, <1>2, <1>5, <2>1 DEF Rising
<1>6. QED BY <1>3, <1>4, <1>5

LEMMA FileAt ==
  ASSUME NEW p \in Parts
  PROVE  DOMAIN File[p] = 1..Len(File[p]) /\ Len(File[p]) \in Nat
         /\ \A i \in 1..Len(File[p]) : AbsoluteTime(p, i) \in Nat
<1> DEFINE Tag == [kind : Kinds, time : Nat]
<1>1. File \in Seq(Seq(Tag))
  BY FileAssumption
<1> HIDE DEF Tag
<1>2. File[p] \in Seq(Tag)
  BY <1>1, ElementOfSeq, LenProperties DEF Parts
<1>3. DOMAIN File[p] = 1..Len(File[p]) /\ Len(File[p]) \in Nat
  BY <1>2, LenProperties
<1>4. \A i \in 1..Len(File[p]) : AbsoluteTime(p, i) \in Nat
  BY FileTyped DEF AbsoluteTime
<1>5. QED BY <1>3, <1>4

LEMMA OrderOnward ==
  ASSUME Onward, NEW t, NEW s, OrderInv(t, s, io)
  PROVE  OrderInv(t, s, io')
<1>1. ASSUME NEW time, Passed(t, time, io) PROVE Passed(t, time, io')
  <2> SUFFICES ASSUME NEW q \in Parts, NEW j \in 1..Len(File[q]), File[q][j].kind \in SampleKinds(t),
                      ~Earlier(q, j, io'.part, io'.pos + 1)
               PROVE  time < AbsoluteTime(q, j)
    BY DEF Passed
  <2>1. j \in Nat
    BY FileAt
  <2>2. ~Earlier(q, j, io.part, io.pos + 1)
    BY <2>1 DEF Onward
  <2>3. QED BY <1>1, <2>2 DEF Passed
<1>2. QED BY <1>1 DEF OrderInv

LEMMA OrderPrefix ==
  ASSUME NEW t, NEW i, NEW a \in Seq(Samples), NEW b \in Seq(Samples), OrderInv(t, Cat(a, b), i)
  PROVE  OrderInv(t, a, i)
<1>1. Rising(a)
  BY RisingSplit DEF OrderInv
<1>2. \A n \in 1..Len(a) : n \in 1..Len(Cat(a, b)) /\ Cat(a, b)[n] = a[n]
  BY CatElements
<1>3. QED BY <1>1, <1>2 DEF OrderInv

LEMMA AppendAt ==
  ASSUME NEW S, NEW s \in Seq(S), NEW x \in S
  PROVE  /\ Append(s, x) \in Seq(S) /\ Len(Append(s, x)) = Len(s) + 1 /\ Len(s) \in Nat
         /\ Append(s, x)[Len(s) + 1] = x /\ \A i \in 1..Len(s) : Append(s, x)[i] = s[i]
BY AppendProperties, LenProperties

LEMMA OrderSample ==
  ASSUME TimesGrow, Onward, NEW t \in Tracks, NEW s \in Seq(Samples), OrderInv(t, s, io),
         NEW x, NextSample(t, x)
  PROVE  OrderInv(t, Append(s, x), io')
<1> DEFINE n == Len(s)
           u == Append(s, x)
           p == io.part
           a == io.pos + 1
<1>1. /\ Len(u) = n + 1 /\ n \in Nat /\ u[n + 1] = x /\ \A i \in 1..n : u[i] = s[i]
  BY AppendAt DEF NextSample
<1>2. /\ p \in Parts /\ a \in 1..Len(File[p]) /\ io'.part = p /\ io'.pos = a
      /\ File[p][a].kind \in SampleKinds(t) /\ ~x.stale /\ x.time = AbsoluteTime(p, a)
  BY DEF NextSample, Tags
<1>3. p \in Nat /\ a \in Nat
  <2> HIDE DEF p, a
  <2>1. p \in Nat /\ Len(File[p]) \in Nat
    BY <1>2, PartsNumbered, FileAt
  <2>2. QED BY <1>2, <2>1
<1>4. ~Earlier(p, a, io.part, io.pos + 1)
  BY <1>3 DEF Earlier
<1>5. \A i \in 1..n : ~s[i].stale => s[i].time < x.time
  BY <1>2, <1>4 DEF OrderInv, Passed
<1>6. OrderInv(t, s, io')
  BY OrderOnward
<1> HIDE DEF n, u, p, a
<1>7. Passed(t, x.time, io')
  <2> SUFFICES ASSUME NEW q \in Parts, NEW j \in 1..Len(File[q]), File[q][j].kind \in SampleKinds(t),
                      ~Earlier(q, j, p, a + 1)
               PROVE  x.time < AbsoluteTime(q, j)
    BY <1>2 DEF Passed
  <2>1. q \in Nat /\ j \in Nat
    BY PartsNumbered, FileAt
  <2>2. Earlier(p, a, q, j)
    BY <1>3, <2>1 DEF Earlier
  <2>3. a \in DOMAIN File[p] /\ j \in DOMAIN File[q]
    BY <1>2, FileAt
  <2>4. AbsoluteTime(p, a) < AbsoluteTime(q, j)
    BY <1>2, <2>2, <2>3 DEF TimesGrow
  <2>5. QED BY <1>2, <2>4
<1>8. Rising(u)
  <2> SUFFICES ASSUME NEW i \in 1..(n + 1), NEW j \in 1..(n + 1), i < j, ~u[i].stale
               PROVE  ~u[j].stale /\ u[i].time < u[j].time
    BY <1>1 DEF Rising
  <2>1. i \in 1..n /\ u[i] = s[i]
    BY <1>1
  <2>2. CASE j = n + 1
    BY <1>1, <1>2, <1>5, <2>1, <2>2
  <2>3. CASE j # n + 1
    <3>1. j \in 1..n /\ u[j] = s[j]
      BY <1>1, <2>3
    <3>2. Rising(s)
      BY DEF OrderInv
    <3>3. QED BY <2>1, <3>1, <3>2 DEF Rising, n
  <2>4. QED BY <2>2, <2>3
<1>9. ASSUME NEW i \in 1..Len(u), ~u[i].stale PROVE Passed(t, u[i].time, io')
  <2>1. CASE i = n + 1
    BY <1>1, <1>7, <2>1
  <2>2. CASE i # n + 1
    <3>1. i \in 1..n /\ u[i] = s[i]
      BY <1>1, <2>2
    <3>2. QED BY <1>6, <1>9, <3>1 DEF OrderInv, n
  <2>3. QED BY <2>1, <2>2
<1>10. OrderInv(t, u, io')
  BY <1>8, <1>9 DEF OrderInv
<1>11. QED BY <1>10 DEF u

LEMMA TurnOrder ==
  ASSUME TimesGrow, Onward, NEW t \in Tracks, NEW k, TrackInv(k), KnownInv(k, base),
         OrderInv(t, k.given, io), NEW u, Turned(t, k, u)
  PROVE  OrderInv(t, u.given, io')
<1>0. IsTrack(k) /\ OrderInv(t, k.given, io') /\ k.given \in Seq(Samples) /\ Len(k.stash) <= 1
  BY OrderOnward DEF TrackInv, IsTrack, KnownInv
<1>1. ASSUME NEW b PROVE RemuxQueue(t, k, b).given = k.given /\ IsTrack(RemuxQueue(t, k, b))
  BY <1>0, RemuxQueueIs, RemuxQueueKeeps DEF TrackInv
<1>2. CASE u.given = k.given
  BY <1>0, <1>2
<1>3. CASE u = Replaced(k)
  <2> DEFINE a == Cat(k.sent, k.stash)
  <2>1. a \in Seq(Samples) /\ k.queue \in Seq(Samples) /\ Cat(a, k.queue) = k.given
    BY CatTyped DEF TrackInv, Once, IsTrack
  <2> HIDE DEF a
  <2>2. SubSeq(k.given, 1, Len(k.given) - Len(k.queue)) = a
    BY <2>1, DropEnd
  <2>3. u.given = a
    BY <1>0, <1>3, <2>2, QueueAlike
  <2>4. QED BY <1>0, <2>1, <2>3, OrderPrefix
<1>4. ASSUME NEW x, NextSample(t, x), u = Sampled(k, x) PROVE OrderInv(t, u.given, io')
  BY <1>0, <1>4, QueueAlike, OrderSample
<1>5. ASSUME NEW m, u = [k EXCEPT !.meta = m] PROVE u.given = k.given
  BY <1>0, <1>5, OthersAlike
<1>6. ASSUME NEW m, u = [RemuxQueue(t, k, base') EXCEPT !.meta = m] PROVE u.given = k.given
  <2> DEFINE r == RemuxQueue(t, k, base')
  <2>1. IsTrack(r) /\ r.given = k.given
    BY <1>1
  <2> HIDE DEF r
  <2>2. [r EXCEPT !.meta = m].given = r.given
    BY <2>1, OthersAlike
  <2>3. QED BY <1>6, <2>1, <2>2 DEF r
<1>7. CASE u = Discontinue(k)
  BY <1>0, <1>2, <1>7, DiscontinueFields
<1>8. CASE u = FlushStash(t, k)
  <2>1. CASE k.stash = <<>>
    BY <1>0, <1>8, <2>1 DEF FlushStash
  <2>2. CASE k.stash # <<>>
    <3> DEFINE e == <<>>
    <3>1. e \in Seq(Samples) /\ k.stash \in Seq(Samples)
      BY <1>0 DEF IsTrack
    <3> HIDE DEF e
    <3>2. Send(t, k, k.stash, e, base).given = k.given
      BY <3>1, SentKeeps
    <3>3. QED BY <1>2, <1>8, <2>2, <3>2 DEF FlushStash, e
  <2>3. QED BY <2>1, <2>2
<1>9. QED BY <1>0, <1>1, <1>2, <1>3, <1>4, <1>5, <1>6, <1>7, <1>8 DEF Turned

LEMMA SoughtOrder ==
  ASSUME NEW t, NEW k, TrackInv(k)
  PROVE  OrderInv(t, SeekTrack(k).given, io')
<1> DEFINE old == [i \in 1..Len(k.queue) |-> [k.queue[i] EXCEPT !.stale = TRUE]]
<1>1. IsTrack(k) /\ k.queue \in Seq(Samples)
  BY DEF TrackInv, IsTrack
<1>2. \A i \in 1..Len(k.queue) : k.queue[i] \in Samples /\ Len(k.queue) \in Nat
  BY <1>1, ElementOfSeq
<1>3. Len(old) = Len(k.queue) /\ \A i \in 1..Len(k.queue) : old[i].stale
  BY <1>1, <1>2 DEF Samples
<1>4. SeekTrack(k).given = old
  BY <1>1, SeekTrackFields
<1> HIDE DEF old
<1>5. QED BY <1>3, <1>4 DEF OrderInv, Rising

-----------------------------------------------------------------------------
(* Time: the frames of a track join one another.                           *)

OnTime(k) == k.frames # <<>> /\ ~k.frames[1].stale /\ k.frames[1].dts >= 0

Joining == {p \in Frame \X Frame : Joins(p[1], p[2])}

\* What is noted of the last frame l of a track, where the next one joins.
AtEnd(k, l, b) ==
  /\ l.guessed = (k.stash = <<>>)
  /\ k.next \in {None, l.dts + l.dur} /\ l.dts + l.dur > 0
  /\ k.stash # <<>> => l.dts + l.dur + l.moved = k.stash[1].time - b
  /\ ~l.silent => l.dts = l.orig - l.moved
  /\ l.orig = Last(k.sent).time - b
  /\ k.placed = Len(k.list) - 1
  /\ Last(k.list).last.orig = l.orig /\ Last(k.list).last.dts = l.dts /\ Last(k.list).last.dur = l.dur
  /\ \A i \in 1..Len(k.list) : k.list[i].begin <= l.orig

KeptInv(k, b) ==
  /\ k.frames # <<>> => k.frames[1].stale = k.sent[1].stale
  /\ OnTime(k) => /\ k.frames \in Seq(Lasting) /\ k.frames[1].moved = 0 /\ Chained(k.frames, Joining)
                  /\ AtEnd(k, Last(k.frames), b)

LEMMA FollowsJoins == Follows \subseteq Joining
BY DEF Follows, Joining, Joins, Frame

\* When the samples of a segment end, not counted from the base.
EndOf(t, body, held) == IF held = <<>> THEN body[Len(body)].time + Ref[t] ELSE held[1].time

(* Samples in order last for a while each.                                 *)
LEMMA SendableLasts ==
  ASSUME NEW t \in Tracks, NEW body, NEW held, Sendable(body, held), Rising(Cat(body, held)),
         ~body[1].stale
  PROVE  /\ \A i \in 1..Len(body) : SampleDuration(t, body, held, i) > 0
         /\ body[1].time <= body[Len(body)].time /\ body[Len(body)].time \in Nat
         /\ EndOf(t, body, held) \in Nat /\ EndOf(t, body, held) > body[1].time
<1> DEFINE n == Len(body)
<1>1. body \in Seq(Samples) /\ held \in Seq(Samples) /\ n \in Nat \ {0}
  BY Durations DEF Sendable
<1>2. /\ Rising(body)
      /\ \A i \in 1..n : \A j \in 1..Len(held) : ~body[i].stale => body[i].time < held[j].time
  BY <1>1, RisingSplit
<1>3. \A i \in 1..n : body[i].time \in Nat
  BY <1>1, SampleTimes
<1>4. held # <<>> => 1 \in 1..Len(held) /\ held[1].time \in Nat
  <2>1. held # <<>> => 1 \in 1..Len(held)
    BY <1>1
  <2>2. QED BY <1>1, <2>1, SampleTimes
<1>5. Ref[t] \in Nat \ {0}
  BY RefTyped
<1>6. /\ \A i \in 1..(n - 1) : SampleDuration(t, body, held, i) = body[i + 1].time - body[i].time
      /\ SampleDuration(t, body, held, n) = IF held = <<>> THEN Ref[t] ELSE held[1].time - body[n].time
  BY Durations
<1> HIDE DEF n
<1>7. \A i \in 1..n : ~body[i].stale
  <2> SUFFICES ASSUME NEW i \in 1..n, i # 1 PROVE ~body[i].stale
    OBVIOUS
  <2>1. 1 \in 1..n /\ 1 < i
    BY <1>1
  <2>2. QED BY <1>2, <2>1 DEF Rising, n
<1>8. \A i \in 1..(n - 1) : SampleDuration(t, body, held, i) > 0
  <2> SUFFICES ASSUME NEW i \in 1..(n - 1) PROVE SampleDuration(t, body, held, i) > 0
    OBVIOUS
  <2>1. i \in 1..n /\ i + 1 \in 1..n /\ i < i + 1
    BY <1>1
  <2>2. body[i].time < body[i + 1].time
    BY <1>2, <1>7, <2>1 DEF Rising, n
  <2>3. body[i].time \in Nat /\ body[i + 1].time \in Nat
    BY <1>3, <2>1
  <2>4. QED BY <1>6, <2>2, <2>3
<1>9. n \in 1..n /\ 1 \in 1..n
  BY <1>1
<1>10. held # <<>> => body[n].time < held[1].time
  BY <1>2, <1>4, <1>7, <1>9
<1>11. SampleDuration(t, body, held, n) > 0
  BY <1>3, <1>4, <1>5, <1>6, <1>9, <1>10
<1>12. \A i \in 1..n : SampleDuration(t, body, held, i) > 0
  BY <1>1, <1>8, <1>11
<1>13. body[1].time <= body[n].time
  <2>1. CASE n = 1
    BY <1>3, <1>9, <2>1
  <2>2. CASE n # 1
    <3>1. 1 < n
      BY <1>1, <2>2
    <3>2. body[1].time < body[n].time
      BY <1>2, <1>7, <1>9, <3>1 DEF Rising, n
    <3>3. QED BY <1>3, <1>9, <3>2
  <2>3. QED BY <2>1, <2>2
<1>14. body[n].time < EndOf(t, body, held) /\ EndOf(t, body, held) \in Nat
  BY <1>3, <1>4, <1>5, <1>9, <1>10 DEF EndOf, n
<1>15. EndOf(t, body, held) > body[1].time
  BY <1>3, <1>9, <1>13, <1>14
<1>16. QED BY <1>3, <1>9, <1>12, <1>13, <1>14, <1>15 DEF n

(* The first frame g of a segment joins the last frame l before it.        *)
LEMMA JoinsOn ==
  ASSUME NEW k, NEW b \in Nat, KnownInv(k, b), NEW l \in Lasting, AtEnd(k, l, b), k.list # <<>>,
         NEW first \in Int, l.orig < first, k.stash # <<>> => first = k.stash[1].time - b,
         NEW g \in Frame, g.moved = DtsCorrection(k, first), g.dts = first - g.moved,
         g.rejoined = (k.next = None /\ k.list # <<>>)
  PROVE  Joins(l, g) /\ g.dts >= 0
<1> DEFINE e == l.dts + l.dur
<1>1. /\ l.dts \in Int /\ l.dur \in Int /\ l.orig \in Int /\ l.moved \in Int /\ l.dur > 0
      /\ g.dts \in Int /\ g.moved \in Int /\ e \in Int /\ e > 0
  BY DEF Lasting, Frame, AtEnd
<1>2. l.guessed \in BOOLEAN /\ l.silent \in BOOLEAN
  BY DEF Lasting, Frame
<1>3. ~l.guessed => e + l.moved = first
  BY DEF AtEnd
<1>4. CASE k.next = e
  <2>1. k.next # None /\ k.next # 0
    BY <1>1, <1>4, NoneApart
  <2>2. g.moved = first - e
    BY <1>4, <2>1 DEF DtsCorrection
  <2>3. g.dts = e
    BY <1>1, <2>2
  <2>4. ~l.guessed => g.moved = l.moved
    BY <1>1, <1>3, <2>2
  <2>5. QED BY <1>1, <1>2, <2>3, <2>4 DEF Joins
<1>5. CASE k.next = None
  <2> DEFINE before == LastSampleBefore(k.list, first)
             n == Len(k.list)
             distance == first - (l.orig + l.dur)
  <2>1. n \in Nat /\ n # 0 /\ k.list \in Seq(SegmentInfo)
    BY LenProperties, EmptySeq DEF KnownInv
  <2>2. \A i \in 1..n : k.list[i].begin < first
    <3>1. \A i \in 1..n : k.list[i].begin \in Int /\ k.list[i].begin <= l.orig
      BY <2>1, SegmentTyped DEF AtEnd
    <3>2. QED BY <1>1, <3>1
  <2>3. NearestBefore(k.list, first) = n - 1
    BY <2>1, <2>2, NearestIsLast
  <2>4. before = Last(k.list).last
    <3>1. n - 1 >= 0 /\ (n - 1) + 1 = n
      BY <2>1
    <3>2. before = k.list[(n - 1) + 1].last
      BY <2>3, <3>1 DEF LastSampleBefore, LastSample
    <3>3. QED BY <3>1, <3>2 DEF Last
  <2>5. before.orig = l.orig /\ before.dts = l.dts /\ before.dur = l.dur
    BY <2>4 DEF AtEnd
  <2>6. before # None
    <3>1. n \in 1..n
      BY <2>1
    <3>2. before \in SegmentEnd
      BY <2>1, <2>4, <3>1, SegmentTyped DEF Last
    <3>3. QED BY <3>2, NoneApart
  <2>7. g.moved = Rejoin(first, before) /\ g.rejoined
    BY <1>1, <1>5, NoneApart DEF DtsCorrection
  <2> HIDE DEF before
  <2>8. g.moved = first - (e + (IF distance <= Tolerance THEN 0 ELSE distance))
    BY <2>5, <2>6, <2>7 DEF Rejoin
  <2>9. distance \in Int /\ Tolerance \in Nat
    BY <1>1, RefAssumption
  <2>10. g.dts = e + (IF distance <= Tolerance THEN 0 ELSE distance)
    BY <1>1, <2>8, <2>9
  <2>11. g.dts >= e
    BY <1>1, <2>9, <2>10
  <2>12. CASE l.guessed \/ l.silent
    BY <1>1, <1>2, <2>7, <2>11, <2>12 DEF Joins
  <2>13. CASE ~l.guessed /\ ~l.silent
    <3>1. l.dts = l.orig - l.moved
      BY <2>13 DEF AtEnd
    <3>2. distance = 0
      <4>1. first = l.dts + l.dur + l.moved
        BY <1>3, <2>13
      <4>2. \A x, y, z, f, d \in Int : f = d + z + y /\ d = x - y => f - (x + z) = 0
        OBVIOUS
      <4>3. QED BY ONLY <1>1, <3>1, <4>1, <4>2, first \in Int
    <3>3. g.dts = e /\ g.moved = l.moved
      BY <1>1, <1>3, <2>8, <2>9, <2>10, <2>13, <3>2
    <3>4. QED BY <1>1, <1>2, <2>13, <3>3 DEF Joins
  <2>14. QED BY <1>1, <1>2, <2>11, <2>12, <2>13
<1>6. k.next \in {None, e}
  BY DEF AtEnd
<1>7. QED BY <1>4, <1>5, <1>6

\* What goes into the next segment goes on from what was sent.
Coming(k, body, held) ==
  /\ Sendable(body, held) /\ Rising(Cat(Cat(k.sent, body), held))
  /\ k.stash # <<>> => body[1] = k.stash[1]

LEMMA LastBehind ==
  ASSUME NEW S, NEW a \in Seq(S), NEW b \in Seq(S), b # <<>>
  PROVE  /\ Last(a \o b) = Last(b) /\ Last(b) \in S
         /\ (a \o b)[1] = IF a = <<>> THEN b[1] ELSE a[1]
<1> DEFINE m == Len(a)
           n == Len(b)
           c == a \o b
<1>1. /\ m \in Nat /\ n \in Nat /\ n # 0 /\ Len(c) = m + n /\ (a # <<>> => m # 0)
      /\ (a = <<>> => m = 0)
      /\ \A i \in 1..(m + n) : c[i] = IF i <= m THEN a[i] ELSE b[i - m]
      /\ \A i \in 1..n : b[i] \in S
  BY ConcatProperties, LenProperties, EmptySeq, ElementOfSeq
<1> HIDE DEF m, n, c
<1>2. m + n \in 1..(m + n) /\ ~(m + n <= m) /\ (m + n) - m = n /\ 1 \in 1..(m + n) /\ n \in 1..n
  BY <1>1
<1>3. c[Len(c)] = b[n]
  BY <1>1, <1>2
<1>4. c[1] = IF a = <<>> THEN b[1] ELSE a[1]
  <2>1. CASE a = <<>>
    <3>1. ~(1 <= m) /\ 1 - m = 1
      BY <1>1, <2>1
    <3>2. QED BY <1>1, <1>2, <2>1, <3>1
  <2>2. CASE a # <<>>
    <3>1. 1 <= m
      BY <1>1, <2>2
    <3>2. QED BY <1>1, <1>2, <2>2, <3>1
  <2>3. QED BY <2>1, <2>2
<1>5. QED BY <1>1, <1>2, <1>3, <1>4 DEF Last, n, c

LEMMA ComingOrder ==
  ASSUME NEW k, IsTrack(k), NEW body, NEW held, Coming(k, body, held)
  PROVE  /\ Rising(Cat(body, held))
         /\ k.sent # <<>> /\ ~k.sent[1].stale => ~body[1].stale /\ Last(k.sent).time < body[1].time
<1> DEFINE a == k.sent
           n == Len(a)
<1>1. a \in Seq(Samples) /\ body \in Seq(Samples) /\ held \in Seq(Samples) /\ body # <<>>
  BY DEF IsTrack, Coming, Sendable
<1> HIDE DEF a
<1>2. Cat(body, held) \in Seq(Samples) /\ Cat(body, held) # <<>>
      /\ 1 \in 1..Len(Cat(body, held)) /\ Cat(body, held)[1] = body[1]
  <2>1. /\ Cat(body, held) \in Seq(Samples) /\ Len(body) \in Nat /\ Len(body) # 0
        /\ \A i \in 1..Len(body) : i \in 1..Len(Cat(body, held)) /\ Cat(body, held)[i] = body[i]
    BY <1>1, CatElements, CatTyped, EmptySeq
  <2>2. 1 \in 1..Len(body)
    BY <2>1
  <2>3. 1 \in 1..Len(Cat(body, held)) /\ Cat(body, held)[1] = body[1]
    BY <2>1, <2>2
  <2>4. QED BY <2>1, <2>3
<1>3. Rising(Cat(a, Cat(body, held)))
  <2>1. Cat(Cat(a, body), held) = Cat(a, Cat(body, held))
    BY <1>1, CatAssociative
  <2>2. QED BY <2>1 DEF Coming, a
<1>4. /\ Rising(a) /\ Rising(Cat(body, held))
      /\ \A i \in 1..n : ~a[i].stale => ~body[1].stale /\ a[i].time < body[1].time
  <2>1. /\ Rising(a) /\ Rising(Cat(body, held))
        /\ \A i \in 1..Len(a) : \A j \in 1..Len(Cat(body, held)) :
             ~a[i].stale => ~Cat(body, held)[j].stale /\ a[i].time < Cat(body, held)[j].time
    BY <1>1, <1>2, <1>3, RisingSplit
  <2>2. QED BY <1>2, <2>1
<1>5. ASSUME a # <<>>, ~a[1].stale PROVE ~body[1].stale /\ Last(a).time < body[1].time
  <2>1. n \in Nat /\ n # 0
    BY <1>1, <1>5, EmptySeq, LenProperties
  <2>2. 1 \in 1..n /\ n \in 1..n /\ (n # 1 => 1 < n)
    <3> HIDE DEF n
    <3>1. QED BY <2>1
  <2>3. ~a[n].stale
    BY <1>4, <1>5, <2>2 DEF Rising
  <2>4. QED BY <1>4, <2>2, <2>3 DEF Last
<1>6. QED BY <1>4, <1>5 DEF a

(* A segment that joins goes to the end of the list.                       *)
LEMMA PlaceIsEnd ==
  ASSUME NEW k, k.list \in Seq(SegmentInfo), NEW info,
         \/ k.list = <<>> /\ k.placed = -1
         \/ /\ k.list # <<>> /\ k.placed = Len(k.list) - 1
            /\ Last(k.list).last.orig < info.begin /\ info.begin \in Int
  PROVE  Place(k, info) = Len(k.list)
<1> DEFINE n == Len(k.list)
<1>1. n \in Nat /\ (k.list = <<>> => n = 0) /\ (k.list # <<>> => n # 0)
  BY LenProperties, EmptySeq
<1>2. CASE k.list = <<>> /\ k.placed = -1
  BY <1>1, <1>2 DEF Place
<1>3. CASE /\ k.list # <<>> /\ k.placed = Len(k.list) - 1
           /\ Last(k.list).last.orig < info.begin /\ info.begin \in Int
  <2>1. n \in 1..n
    BY <1>1, <1>3
  <2>2. Last(k.list).last.orig \in Int
    BY <2>1, SegmentTyped DEF Last, SegmentEnd
  <2>3. info.begin >= Last(k.list).last.orig
    BY <1>3, <2>2
  <2>4. k.placed = n - 1 /\ k.list[(n - 1) + 1].last.orig = Last(k.list).last.orig
    BY <1>1, <1>3 DEF Last
  <2> HIDE DEF n
  <2>5. n - 1 # -1 /\ n - 1 <= n - 1 /\ (n - 1) + 1 = n
    BY <1>1, <1>3
  <2>6. Place(k, info) = (n - 1) + 1
    BY <2>3, <2>4, <2>5 DEF Place, n
  <2>7. QED BY <2>5, <2>6 DEF n
<1>4. QED BY <1>2, <1>3

LEMMA SentKept ==
  ASSUME NEW t \in Tracks, NEW k, IsTrack(k), NEW b \in Nat, KnownInv(k, b), KeptInv(k, b),
         NEW body, NEW held, Coming(k, body, held)
  PROVE  KeptInv(Send(t, k, body, held, b), b)
<1> DEFINE first == body[1].time - b
           c == DtsCorrection(k, first)
           fr == Frames(t, k, body, held, b)
           info == Info(fr[1], Last(fr))
           place == Place(k, info)
           u == Send(t, k, body, held, b)
           l == Last(k.frames)
           z == Last(fr)
           end == EndOf(t, body, held)
<1>1. Sendable(body, held) /\ body \in Seq(Samples) /\ body # <<>>
  BY DEF Coming, Sendable
<1>2. body[1].time \in Nat /\ c \in Int /\ SegmentOf(fr, t, k, body, held, b, c)
  BY <1>1, FramesSegment
<1>3. /\ u.list = InsertAt(k.list, place + 1, info) /\ u.placed = place
      /\ u.next = z.dts + z.dur /\ u.frames = k.frames \o fr
      /\ u.stash = held /\ u.sent = k.sent \o body
  BY SentFields
<1>4. /\ fr \in Seq(Frame) /\ fr # <<>> /\ Chained(fr, Follows)
      /\ fr[1].dts = first - c /\ fr[1].orig = first /\ fr[1].moved = c
      /\ fr[1].stale = body[1].stale /\ fr[1].rejoined = (k.next = None /\ k.list # <<>>)
      /\ z.orig = body[Len(body)].time - b /\ z.moved = c /\ z.guessed = (held = <<>>)
      /\ z.dts + z.dur = end - b - c
      /\ (~z.silent => z.dts = z.orig - c)
      /\ (\A i \in 1..Len(body) : SampleDuration(t, body, held, i) > 0) => fr \in Seq(Lasting)
  BY <1>2 DEF SegmentOf, EndOf
<1>5. fr[1] \in Frame /\ z \in Frame /\ info \in SegmentInfo /\ first \in Int
  BY <1>2, <1>4, EndsTyped
<1>6. info.begin = first /\ info.last.orig = z.orig /\ info.last.dts = z.dts /\ info.last.dur = z.dur
  BY <1>4 DEF Info
<1> HIDE DEF fr, info, place, u, z, end
<1>7. /\ k.list \in Seq(SegmentInfo) /\ k.frames \in Seq(Frame) /\ k.sent \in Seq(Samples)
      /\ (k.frames = <<>> => Fresh(k)) /\ (k.frames # <<>> => k.list # <<>> /\ k.sent # <<>>)
  BY DEF KnownInv, IsTrack
<1>8. /\ Last(u.sent) = Last(body)
      /\ u.sent[1] = IF k.sent = <<>> THEN body[1] ELSE k.sent[1]
      /\ u.frames[1] = IF k.frames = <<>> THEN fr[1] ELSE k.frames[1]
      /\ Last(u.frames) = z
  <2> DEFINE s == k.sent
             f == k.frames
  <2>1. s \in Seq(Samples) /\ f \in Seq(Frame)
    BY <1>7
  <2>2. u.sent = s \o body /\ u.frames = f \o fr
    BY <1>3
  <2> HIDE DEF s, f
  <2>3. Last(s \o body) = Last(body) /\ (s \o body)[1] = IF s = <<>> THEN body[1] ELSE s[1]
    BY <1>1, <2>1, LastBehind
  <2>4. Last(f \o fr) = Last(fr) /\ (f \o fr)[1] = IF f = <<>> THEN fr[1] ELSE f[1]
    BY <1>4, <2>1, LastBehind
  <2>5. QED BY <2>2, <2>3, <2>4 DEF z, s, f
<1>9. u.frames[1].stale = u.sent[1].stale
  BY <1>4, <1>7, <1>8 DEF KeptInv, Fresh
<1>10. ASSUME OnTime(u)
       PROVE  /\ u.frames \in Seq(Lasting) /\ u.frames[1].moved = 0 /\ Chained(u.frames, Joining)
              /\ AtEnd(u, z, b)
  <2>1. k.frames # <<>> =>
          /\ OnTime(k) /\ l \in Lasting /\ k.frames \in Seq(Lasting) /\ k.frames[1].moved = 0
          /\ Chained(k.frames, Joining) /\ AtEnd(k, l, b)
    <3> SUFFICES ASSUME k.frames # <<>> PROVE l \in Lasting /\ OnTime(k)
      BY DEF KeptInv
    <3>1. OnTime(k)
      BY <1>8, <1>10 DEF OnTime
    <3>2. k.frames \in Seq(Lasting)
      BY <3>1 DEF KeptInv
    <3>3. Len(k.frames) \in 1..Len(k.frames)
      <4>1. Len(k.frames) \in Nat /\ Len(k.frames) # 0
        BY <1>7, EmptySeq, LenProperties
      <4>2. QED BY <4>1
    <3>4. QED BY <3>1, <3>2, <3>3, ElementOfSeq DEF Last
  <2>2. ~body[1].stale /\ Rising(Cat(body, held)) /\ (k.frames # <<>> => l.orig < first)
    <3>1. CASE k.frames = <<>>
      BY <1>4, <1>8, <1>10, <3>1, ComingOrder DEF OnTime
    <3>2. CASE k.frames # <<>>
      <4>1. k.sent # <<>> /\ ~k.sent[1].stale
        BY <1>7, <2>1, <3>2 DEF KeptInv, OnTime
      <4>2. ~body[1].stale /\ Last(k.sent).time < body[1].time /\ Rising(Cat(body, held))
        BY <4>1, ComingOrder
      <4>3. l.orig = Last(k.sent).time - b
        BY <2>1, <3>2 DEF AtEnd
      <4>4. Last(k.sent).time \in Nat
        <5>1. Len(k.sent) \in Nat /\ Len(k.sent) # 0
          BY <1>7, <4>1, EmptySeq, LenProperties
        <5>2. Len(k.sent) \in 1..Len(k.sent)
          BY <5>1
        <5>3. QED BY <1>7, <5>2, SampleTimes DEF Last
      <4>5. QED BY <1>2, <4>2, <4>3, <4>4
    <3>3. QED BY <3>1, <3>2
  <2>3. /\ fr \in Seq(Lasting) /\ body[1].time <= body[Len(body)].time
        /\ body[Len(body)].time \in Nat /\ end \in Nat /\ end > body[1].time
    BY <1>1, <1>4, <2>2, SendableLasts DEF end
  <2>4. fr[1].dts >= 0 /\ (k.frames = <<>> => c = 0) /\ (k.frames # <<>> => Joins(l, fr[1]))
    <3>1. CASE k.frames = <<>>
      <4>1. c = 0
        BY <1>7, <3>1, NoneApart DEF Fresh, DtsCorrection
      <4>2. QED BY <1>8, <1>10, <3>1, <4>1 DEF OnTime
    <3>2. CASE k.frames # <<>>
      <4>1. k.stash # <<>> => first = k.stash[1].time - b
        BY DEF Coming
      <4> DEFINE g == fr[1]
      <4>2. /\ l \in Lasting /\ AtEnd(k, l, b) /\ k.list # <<>> /\ first \in Int /\ l.orig < first
            /\ g \in Frame /\ g.moved = DtsCorrection(k, first)
            /\ g.dts = first - g.moved /\ g.rejoined = (k.next = None /\ k.list # <<>>)
        BY <1>4, <1>5, <1>7, <2>1, <2>2, <3>2
      <4> HIDE DEF g, l, first
      <4>3. Joins(l, g) /\ g.dts >= 0
        BY <4>1, <4>2, JoinsOn
      <4>4. QED BY <3>2, <4>3 DEF g
    <3>3. QED BY <3>1, <3>2
  <2>5. Chained(fr, Joining)
    BY <1>4, FollowsJoins DEF Chained
  <2>6. u.frames \in Seq(Lasting) /\ u.frames[1].moved = 0 /\ Chained(u.frames, Joining)
    <3>1. CASE k.frames = <<>>
      <4>1. u.frames = fr
        <5>1. <<>> \o fr = fr
          BY <2>3, ConcatEmptySeq
        <5>2. QED BY <1>3, <3>1, <5>1
      <4>2. QED BY <1>4, <2>3, <2>4, <2>5, <3>1, <4>1
    <3>2. CASE k.frames # <<>>
      <4>1. <<l, fr[1]>> \in Joining
        BY <1>5, <2>1, <2>4, <3>2 DEF Joining, Lasting
      <4>2. QED BY <1>3, <1>4, <1>8, <2>1, <2>3, <2>5, <3>2, <4>1, ChainGoesOn
    <3>3. QED BY <3>1, <3>2
  <2>7. z.dts + z.dur > 0
    <3>1. fr[1].dts = first - c /\ fr[1].dts >= 0
      BY <1>4, <2>4
    <3>2. z.dts + z.dur = end - b - c
      BY <1>4
    <3>3. QED BY <1>2, <2>3, <3>1, <3>2
  <2>8. place = Len(k.list) /\ u.list = k.list \o <<info>>
    <3>1. ASSUME k.frames = <<>> PROVE place = Len(k.list)
      BY <1>7, <3>1, PlaceIsEnd DEF Fresh, place
    <3>2. ASSUME k.frames # <<>> PROVE place = Len(k.list)
      <4>1. k.list # <<>> /\ k.placed = Len(k.list) - 1 /\ Last(k.list).last.orig < info.begin
            /\ info.begin \in Int
        BY <1>5, <1>6, <1>7, <2>1, <2>2, <3>2 DEF AtEnd
      <4>2. QED BY <1>7, <4>1, PlaceIsEnd DEF place
    <3>3. place = Len(k.list)
      BY <3>1, <3>2
    <3>4. QED BY <1>3, <1>5, <1>7, <3>3, InsertBehind
  <2> DEFINE n == Len(k.list)
             w == <<info>>
  <2>9. w \in Seq(SegmentInfo) /\ Len(w) = 1 /\ w[1] = info /\ w # <<>> /\ Last(w) = info
    BY <1>5 DEF Last
  <2> HIDE DEF w
  <2>10. /\ Len(u.list) = n + 1 /\ Last(u.list) = info /\ n \in Nat
         /\ \A i \in 1..n : u.list[i] = k.list[i]
         /\ u.list[n + 1] = info
    <3>1. /\ Len(k.list \o w) = n + 1 /\ n \in Nat /\ Last(k.list \o w) = info
      <4>1. Len(k.list \o w) = n + Len(w) /\ n \in Nat
        BY <1>7, <2>9, ConcatProperties, LenProperties
      <4>2. Last(k.list \o w) = Last(w)
        BY <1>7, <2>9, LastBehind
      <4>3. QED BY <2>9, <4>1, <4>2
    <3>2. /\ \A i \in 1..n : (k.list \o w)[i] = k.list[i]
          /\ (k.list \o w)[n + 1] = info
      BY <1>7, <2>9, <3>1, CatElements DEF Cat
    <3>3. QED BY <2>8, <3>1, <3>2 DEF w
  <2>11. \A i \in 1..Len(u.list) : u.list[i].begin <= z.orig
    <3>1. first <= z.orig /\ z.orig \in Int
      BY <1>2, <1>4, <2>3
    <3>2. \A i \in 1..n : k.list[i].begin <= z.orig
      <4>1. CASE k.frames = <<>>
        BY <1>7, <4>1 DEF Fresh, n
      <4>2. CASE k.frames # <<>>
        <5>1. l.orig \in Int
          BY <2>1, <4>2 DEF Lasting, Frame
        <5>2. \A i \in 1..n : k.list[i].begin <= l.orig /\ k.list[i].begin \in Int
          BY <1>7, <2>1, <4>2, SegmentTyped DEF AtEnd
        <5>3. QED BY <1>5, <2>2, <3>1, <4>2, <5>1, <5>2
      <4>3. QED BY <4>1, <4>2
    <3>3. info.begin <= z.orig
      BY <1>6, <3>1
    <3> HIDE DEF n
    <3>4. \A i \in 1..(n + 1) : i \in 1..n \/ i = n + 1
      BY <2>10
    <3>5. QED BY <2>10, <3>2, <3>3, <3>4
  <2>12. u.placed = Len(u.list) - 1
    <3> HIDE DEF n
    <3>1. u.placed = n
      BY <1>3, <2>8 DEF n
    <3>2. QED BY <2>10, <3>1
  <2>13. u.stash # <<>> => z.dts + z.dur + z.moved = u.stash[1].time - b
    <3> SUFFICES ASSUME held # <<>> PROVE z.dts + z.dur + z.moved = held[1].time - b
      BY <1>3
    <3>1. end = held[1].time
      BY DEF end, EndOf
    <3>2. z.dts + z.dur = end - b - c /\ z.moved = c
      BY <1>4
    <3>3. QED BY <1>2, <2>3, <3>1, <3>2
  <2>14. z.orig = Last(u.sent).time - b
    BY <1>4, <1>8 DEF Last
  <2>15. AtEnd(u, z, b)
    BY <1>3, <1>4, <1>6, <2>7, <2>10, <2>11, <2>12, <2>13, <2>14 DEF AtEnd
  <2>16. QED BY <2>6, <2>15
<1>11. KeptInv(u, b)
  BY <1>8, <1>9, <1>10 DEF KeptInv
<1>12. QED BY <1>11 DEF u

LEMMA KeptAlike ==
  ASSUME NEW k, NEW u, Alike(k, u), NEW b, KeptInv(k, b)
  PROVE  KeptInv(u, b)
<1>1. OnTime(u) => OnTime(k)
  BY DEF Alike, OnTime
<1>2. \A l : AtEnd(k, l, b) => AtEnd(u, l, b)
  BY DEF Alike, AtEnd
<1>3. u.frames = k.frames /\ u.sent = k.sent
  BY DEF Alike
<1>4. QED BY <1>1, <1>2, <1>3 DEF KeptInv

LEMMA DiscontinueKept ==
  ASSUME NEW k, IsTrack(k), NEW b, KeptInv(k, b)
  PROVE  KeptInv(Discontinue(k), b)
<1> DEFINE u == Discontinue(k)
<1>1. /\ u.next = None /\ u.list = k.list /\ u.placed = k.placed /\ u.frames = k.frames
      /\ u.stash = k.stash /\ u.sent = k.sent
  BY DiscontinueFields
<1> HIDE DEF u
<1>2. OnTime(u) => OnTime(k)
  BY <1>1 DEF OnTime
<1>3. \A l : AtEnd(k, l, b) => AtEnd(u, l, b)
  BY <1>1 DEF AtEnd
<1>4. KeptInv(u, b)
  BY <1>1, <1>2, <1>3 DEF KeptInv
<1>5. QED BY <1>4 DEF u

LEMMA KeptBase ==
  ASSUME NEW k, KnownInv(k, base), KeptInv(k, base), BaseTurns
  PROVE  KeptInv(k, base')
<1>1. CASE base' = base
  BY <1>1
<1>2. CASE k.frames = <<>>
  BY <1>2 DEF KeptInv, OnTime
<1>3. QED BY <1>1, <1>2, NoneApart DEF BaseTurns, KnownInv

LEMMA RemuxQueueKept ==
  ASSUME NEW t \in Tracks, NEW k, TrackInv(k), NEW b \in Nat, KnownInv(k, b), KeptInv(k, b),
         Rising(k.given)
  PROVE  KeptInv(RemuxQueue(t, k, b), b)
<1>1. CASE RemuxQueue(t, k, b) = k
  BY <1>1
<1>2. CASE /\ Ready(k)
           /\ Alike(Send(t, k, Body(k), <<Last(k.queue)>>, b), RemuxQueue(t, k, b))
  <2> DEFINE body == Body(k)
             held == <<Last(k.queue)>>
  <2>1. Sendable(body, held) /\ Cat(Cat(k.sent, body), held) = k.given
        /\ (k.stash # <<>> => body[1] = k.stash[1])
    BY <1>2, QueueSendable DEF KnownInv
  <2> HIDE DEF body, held
  <2>2. Coming(k, body, held)
    BY <2>1 DEF Coming
  <2>3. KeptInv(Send(t, k, body, held, b), b)
    BY <2>2, SentKept DEF TrackInv
  <2>4. QED BY <1>2, <2>3, KeptAlike DEF body, held
<1>3. QED BY <1>1, <1>2, RemuxQueueIs DEF KnownInv

LEMMA FlushStashKept ==
  ASSUME NEW t \in Tracks, NEW k, TrackInv(k), KnownInv(k, base), KeptInv(k, base),
         Rising(k.given)
  PROVE  KeptInv(FlushStash(t, k), base)
<1>1. CASE k.stash = <<>>
  BY <1>1 DEF FlushStash
<1>2. CASE k.stash # <<>>
  <2> DEFINE a == Cat(k.sent, k.stash)
             e == <<>>
  <2>1. a \in Seq(Samples) /\ k.queue \in Seq(Samples) /\ Cat(a, k.queue) = k.given
    BY CatTyped DEF TrackInv, Once, IsTrack
  <2>2. Cat(a, e) = a
    BY <2>1, CatEmpty
  <2>3. Sendable(k.stash, e) /\ base \in Nat
    BY <1>2, StashSendable DEF KnownInv, Fresh
  <2> HIDE DEF a, e
  <2>4. Rising(a)
    <3>1. Rising(Cat(a, k.queue))
      BY <2>1
    <3>2. QED BY <2>1, <3>1, RisingSplit
  <2>5. Coming(k, k.stash, e)
    BY <2>2, <2>3, <2>4 DEF Coming, a
  <2>6. KeptInv(Send(t, k, k.stash, e, base), base)
    BY <2>3, <2>5, SentKept DEF TrackInv
  <2>7. QED BY <1>2, <2>6 DEF FlushStash, e
<1>3. QED BY <1>1, <1>2

LEMMA TurnKept ==
  ASSUME NEW t \in Tracks, NEW k, TrackInv(k), KnownInv(k, base), KeptInv(k, base),
         Rising(k.given), BaseTurns, NEW u, Turned(t, k, u)
  PROVE  KeptInv(u, base')
<1>0. IsTrack(k) /\ KnownInv(k, base') /\ KeptInv(k, base')
  BY KnownBase, KeptBase DEF TrackInv
<1>1. CASE u = k
  BY <1>0, <1>1
<1>2. ASSUME NEW m, u = [k EXCEPT !.meta = m] PROVE KeptInv(u, base')
  BY <1>0, <1>2, OthersAlike, KeptAlike
<1>3. ASSUME base' \in Nat PROVE KeptInv(RemuxQueue(t, k, base'), base')
  BY <1>0, <1>3, RemuxQueueKept
<1>4. ASSUME base' \in Nat, NEW m, u = [RemuxQueue(t, k, base') EXCEPT !.meta = m]
      PROVE  KeptInv(u, base')
  <2> DEFINE r == RemuxQueue(t, k, base')
  <2>1. KeptInv(r, base') /\ IsTrack(r)
    BY <1>3, <1>4, RemuxQueueKeeps DEF TrackInv
  <2> HIDE DEF r
  <2>2. KeptInv([r EXCEPT !.meta = m], base')
    BY <2>1, OthersAlike, KeptAlike
  <2>3. QED BY <1>4, <2>2 DEF r
<1>5. CASE u = Discontinue(k)
  BY <1>0, <1>5, DiscontinueKept
<1>6. CASE base' = base /\ u = FlushStash(t, k)
  BY <1>6, FlushStashKept
<1>7. CASE u = Replaced(k)
  BY <1>0, <1>7, QueueAlike, KeptAlike
<1>8. ASSUME NEW x, u = Sampled(k, x) PROVE KeptInv(u, base')
  BY <1>0, <1>8, QueueAlike, KeptAlike
<1>9. QED BY <1>1, <1>2, <1>3, <1>4, <1>5, <1>6, <1>7, <1>8 DEF Turned

TimesInv ==
  /\ TypeInv
  /\ \A t \in Tracks : OrderInv(t, trk[t].given, io) /\ KeptInv(trk[t], base)

LEMMA TimesInvInit == Init => TimesInv
<1> SUFFICES ASSUME Init PROVE TimesInv
  OBVIOUS
<1>1. TypeInv
  BY TypeInvInit
<1>2. NewTrack.given = <<>> /\ NewTrack.frames = <<>>
  BY DEF NewTrack
<1>3. \A t \in Tracks : trk[t].given = <<>> /\ trk[t].frames = <<>>
  BY <1>2 DEF Init
<1>4. \A t \in Tracks : Len(trk[t].given) = 0
  BY <1>3
<1>5. \A t \in Tracks : OrderInv(t, trk[t].given, io)
  BY <1>4 DEF OrderInv, Rising
<1>6. \A t \in Tracks : KeptInv(trk[t], base)
  BY <1>3 DEF KeptInv, OnTime
<1>7. QED BY <1>1, <1>5, <1>6 DEF TimesInv

LEMMA TimesInvStep ==
  ASSUME TimesGrow
  PROVE  TimesInv /\ [Next]_vars => TimesInv'
<1> SUFFICES ASSUME TimesInv, [Next]_vars PROVE TimesInv'
  OBVIOUS
<1>1. TypeInv /\ TypeInv' /\ RemuxInv /\ BaseInv(base)
  BY TypeInvStep DEF TimesInv, TypeInv
<1>2. BaseTurns /\ (Sought \/ TracksTurn)
  BY <1>1, StepTurns
<1>3. ASSUME NEW t \in Tracks PROVE OrderInv(t, trk'[t].given, io') /\ KeptInv(trk'[t], base')
  <2>1. /\ TrackInv(trk[t]) /\ KnownInv(trk[t], base) /\ KeptInv(trk[t], base)
        /\ OrderInv(t, trk[t].given, io) /\ Rising(trk[t].given) /\ IsTrack(trk[t])
    BY <1>1 DEF TimesInv, TypeInv, RemuxInv, TracksInv, TrackInv, OrderInv
  <2>2. CASE Sought
    <3>1. trk'[t] = SeekTrack(trk[t])
      BY <2>2 DEF Sought
    <3>2. SeekTrack(trk[t]).frames = <<>>
      BY <2>1, SeekTrackFields
    <3>3. KeptInv(trk'[t], base')
      BY <3>1, <3>2 DEF KeptInv, OnTime
    <3>4. QED BY <2>1, <3>1, <3>3, SoughtOrder
  <2>3. CASE TracksTurn
    <3>1. Onward /\ Turned(t, trk[t], trk'[t])
      BY <2>3 DEF TracksTurn
    <3>2. OrderInv(t, trk'[t].given, io')
      BY <2>1, <3>1, TurnOrder
    <3>3. KeptInv(trk'[t], base')
      BY <1>2, <2>1, <3>1, TurnKept
    <3>4. QED BY <3>2, <3>3
  <2>4. QED BY <1>2, <2>2, <2>3
<1>4. QED BY <1>1, <1>3 DEF TimesInv

(* When the tracks of a file go on in time, the frames sent since the last *)
(* seek start where the file says, last a while each, and join one another *)
(* over chunks, configurations, pauses and parts (KeepsTime).              *)
THEOREM KeepsTimeHolds ==
  ASSUME TimesGrow
  PROVE  Spec => []KeepsTime
<1>1. TimesInv => KeepsTime
  <2> SUFFICES ASSUME TimesInv, NEW t \in Tracks, OnTime(trk[t])
               PROVE  \A i \in DOMAIN trk[t].frames :
                        /\ trk[t].frames[i].dur > 0
                        /\ IF i = 1 THEN trk[t].frames[i].moved = 0
                                    ELSE Joins(trk[t].frames[i - 1], trk[t].frames[i])
    BY DEF KeepsTime, OnTime
  <2> DEFINE f == trk[t].frames
  <2>1. f \in Seq(Lasting) /\ f[1].moved = 0 /\ Chained(f, Joining)
    BY DEF TimesInv, KeptInv
  <2> HIDE DEF f
  <2>2. DOMAIN f = 1..Len(f) /\ Len(f) \in Nat /\ \A i \in 1..Len(f) : f[i] \in Lasting
    BY <2>1, LenProperties, ElementOfSeq
  <2>3. ASSUME NEW i \in 1..Len(f)
        PROVE  f[i].dur > 0 /\ IF i = 1 THEN f[i].moved = 0 ELSE Joins(f[i - 1], f[i])
    <3>1. f[i].dur > 0
      BY <2>2 DEF Lasting
    <3>2. ASSUME i # 1 PROVE Joins(f[i - 1], f[i])
      <4>1. i - 1 \in 1..(Len(f) - 1) /\ (i - 1) + 1 = i
        BY <2>2, <3>2
      <4>2. <<f[i - 1], f[(i - 1) + 1]>> \in Joining
        BY <2>1, <4>1 DEF Chained
      <4>3. QED BY <4>1, <4>2 DEF Joining
    <3>3. QED BY <2>1, <3>1, <3>2
  <2>4. QED BY <2>2, <2>3 DEF f
<1>2. TimesInv /\ [Next]_vars => TimesInv'
  BY TimesInvStep
<1>3. QED BY <1>1, <1>2, TimesInvInit, PTL DEF Spec

-----------------------------------------------------------------------------
(* What is left in the demuxer at the end of a part.                       *)

SampleTag(kind) == kind \in {"audio", "delta", "key"}

LoneInv ==
  /\ \A t \in dmx.sent : trk[t].meta
  /\ io.parsing /\ io.left = 0 /\ io.pos = Len(Tags) => dmx.dispatch
  /\ ~io.parsing /\ ~io.header /\ io.pos = Len(Tags) /\ InitialMetadataDispatched(dmx) =>
       \A t \in Tracks : trk[t].meta => Len(trk[t].queue) <= 1

LEMMA LastIsSample ==
  ASSUME SamplesLast, NEW p \in Parts
  PROVE  Len(File[p]) \in Nat \ {0} /\ SampleTag(File[p][Len(File[p])].kind)
<1>1. File[p] # <<>> /\ Last(File[p]).kind \in {"audio", "delta", "key"}
  BY DEF SamplesLast
<1> DEFINE Tag == [kind : Kinds, time : Nat]
<1>2. File \in Seq(Seq(Tag))
  BY FileAssumption
<1> HIDE DEF Tag
<1>3. File[p] \in Seq(Tag)
  BY <1>2, ElementOfSeq, LenProperties DEF Parts
<1>4. Len(File[p]) \in Nat /\ Len(File[p]) # 0
  BY <1>1, <1>3, EmptySeq, LenProperties
<1>5. QED BY <1>1, <1>4 DEF Last, SampleTag

LEMMA SeekTrackMeta ==
  ASSUME NEW k, IsTrack(k)
  PROVE  SeekTrack(k).meta = k.meta
<1> DEFINE old == [i \in 1..Len(k.queue) |-> [k.queue[i] EXCEPT !.stale = TRUE]]
           d == Discontinue(k)
           u == [d EXCEPT !.stash = <<>>, !.list = <<>>, !.placed = -1,
                          !.queue = old, !.given = old, !.sent = <<>>, !.frames = <<>>]
<1>1. SeekTrack(k) = u
  BY DEF SeekTrack
<1>2. d.meta = k.meta /\ IsTrack(d)
  BY DEF IsTrack, Discontinue
<1> HIDE DEF old, d
<1>3. u.meta = d.meta
  BY <1>2 DEF IsTrack
<1>4. QED BY <1>1, <1>2, <1>3

LEMMA QueueMeta ==
  ASSUME NEW k, IsTrack(k), NEW x
  PROVE  Replaced(k).meta = k.meta /\ Sampled(k, x).meta = k.meta
<1> DEFINE e == <<>>
           g == SubSeq(k.given, 1, Len(k.given) - Len(k.queue))
           q == Append(k.queue, x)
           h == Append(k.given, x)
           r == [k EXCEPT !.queue = e, !.given = g]
           s == [k EXCEPT !.queue = q, !.given = h]
<1>1. Replaced(k) = r /\ Sampled(k, x) = s
  BY DEF Replaced, Sampled
<1> HIDE DEF e, g, q, h
<1>2. r.meta = k.meta /\ s.meta = k.meta
  BY DEF IsTrack
<1>3. QED BY <1>1, <1>2

(* A configured track keeps at most one sample in the demuxer.             *)
LEMMA RemuxQueueLeaves ==
  ASSUME NEW k, TrackInv(k), Len(k.stash) <= 1, NEW t, NEW b
  PROVE  /\ RemuxQueue(t, k, b).meta = k.meta
         /\ k.meta => Len(RemuxQueue(t, k, b).queue) <= 1
<1>1. CASE ~Ready(k)
  <2>1. RemuxQueue(t, k, b) = k
    BY <1>1 DEF RemuxQueue
  <2>2. Len(k.queue) \in Nat
    BY LenProperties DEF TrackInv, IsTrack
  <2>3. k.meta => Len(k.queue) <= 1
    BY <1>1, <2>2 DEF Ready
  <2>4. QED BY <2>1, <2>3
<1>2. CASE Ready(k)
  <2> DEFINE body == Body(k)
             held == <<Last(k.queue)>>
             s == Send(t, k, body, held, b)
             e == <<>>
  <2>1. RemuxQueue(t, k, b) = [s EXCEPT !.queue = e]
    BY <1>2 DEF RemuxQueue
  <2>2. body \in Seq(Samples) /\ held \in Seq(Samples)
    BY <1>2, QueueSendable DEF Sendable
  <2> HIDE DEF body, held
  <2>3. IsTrack(s) /\ s.meta = k.meta
    BY <2>2, SentKeeps
  <2> HIDE DEF s
  <2>4. Len(e) <= 1
    OBVIOUS
  <2> HIDE DEF e
  <2>5. [s EXCEPT !.queue = e].queue = e /\ [s EXCEPT !.queue = e].meta = s.meta
    BY <2>3 DEF IsTrack
  <2>6. QED BY <2>1, <2>3, <2>4, <2>5
<1>3. QED BY <1>1, <1>2

LEMMA FlushStashLeaves ==
  ASSUME NEW k, TrackInv(k), NEW t
  PROVE  FlushStash(t, k).meta = k.meta /\ FlushStash(t, k).queue = k.queue
<1>1. CASE k.stash = <<>>
  BY <1>1 DEF FlushStash
<1>2. CASE k.stash # <<>>
  <2> DEFINE e == <<>>
  <2>1. e \in Seq(Samples) /\ k.stash \in Seq(Samples)
    BY DEF TrackInv, IsTrack
  <2> HIDE DEF e
  <2>2. Send(t, k, k.stash, e, base).meta = k.meta /\ Send(t, k, k.stash, e, base).queue = k.queue
    BY <2>1, SentKeeps
  <2>3. QED BY <1>2, <2>2 DEF FlushStash, e
<1>3. QED BY <1>1, <1>2

LEMMA DiscontinueLeaves ==
  ASSUME NEW k, IsTrack(k)
  PROVE  Discontinue(k).meta = k.meta /\ Discontinue(k).queue = k.queue
BY DEF IsTrack, Discontinue

LEMMA TypedTracks ==
  ASSUME TypeInv, NEW t \in Tracks
  PROVE  TrackInv(trk[t]) /\ IsTrack(trk[t]) /\ Len(trk[t].stash) <= 1
BY DEF TypeInv, RemuxInv, TracksInv, TrackInv, KnownInv

LEMMA TypedIo ==
  ASSUME TypeInv
  PROVE  /\ io \in IoType /\ io.part \in Parts /\ io.pos \in Nat /\ io.left \in Nat
         /\ io.pos + io.left <= Len(Tags) /\ Len(Tags) \in Nat
<1>1. io \in IoType /\ io.part \in Parts /\ io.pos \in Nat /\ io.left \in Nat
      /\ io.pos + io.left <= Len(Tags)
  BY DEF TypeInv, RemuxInv, IoInv, IoType, Tags
<1>2. QED BY <1>1, FileTyped DEF Tags

LEMMA ArriveLone ==
  ASSUME TypeInv, LoneInv, NEW n \in 1..MaxChunk, Arrive(n)
  PROVE  LoneInv'
<1>1. io'.parsing /\ io'.left = n /\ n # 0
  <2>1. io' = [io EXCEPT !.parsing = TRUE, !.left = n, !.header = FALSE] /\ io \in IoType
    BY TypedIo DEF Arrive
  <2>2. io'.parsing /\ io'.left = n
    BY <2>1 DEF IoType
  <2>3. MaxChunk \in Nat
    BY BoundsAssumption
  <2>4. QED BY <2>2, <2>3
<1>2. CASE UNCHANGED <<dmx, trk>>
  BY <1>1, <1>2 DEF LoneInv
<1>3. CASE \E has \in Declared : dmx' = NewDemuxer(has)
  BY <1>1, <1>3 DEF LoneInv, NewDemuxer
<1>4. QED BY <1>2, <1>3 DEF Arrive

LEMMA TagLone ==
  ASSUME TypeInv, SamplesLast, NEW kind, Parsing(kind),
         io'.pos = io.pos + 1, io'.left = io.left - 1, io'.part = io.part, io'.parsing = io.parsing,
         SampleTag(kind) => dmx'.dispatch, \A t \in dmx'.sent : trk'[t].meta
  PROVE  LoneInv'
<1>1. /\ io.pos \in Nat /\ io.left \in Nat /\ io.pos + io.left <= Len(Tags) /\ Len(Tags) \in Nat
      /\ io.part \in Parts
  BY TypedIo
<1>2. io'.parsing /\ Tags' = Tags
  BY DEF Parsing, Tags
<1>3. ASSUME io'.left = 0, io'.pos = Len(Tags) PROVE dmx'.dispatch
  <2>1. io.pos + 1 = Len(Tags)
    BY <1>3
  <2>2. kind = Tags[Len(Tags)].kind
    BY <2>1 DEF Parsing
  <2>3. SampleTag(kind)
    BY <1>1, <2>2, LastIsSample DEF Tags
  <2>4. QED BY <2>3
<1>4. QED BY <1>2, <1>3 DEF LoneInv

LEMMA TellIo ==
  ASSUME TypeInv, NEW d, TellMediaInfo(d)
  PROVE  /\ io'.pos = io.pos + 1 /\ io'.left = io.left - 1 /\ io'.part = io.part
         /\ io'.parsing = io.parsing /\ dmx' = d
BY TypedIo DEF TellMediaInfo, IoType

LEMMA ConfigLone ==
  ASSUME TypeInv, LoneInv, SamplesLast, NEW t \in Tracks, NEW kind, ~SampleTag(kind), Parsing(kind),
         ParseConfig(t)
  PROVE  LoneInv'
<1> DEFINE d0 == [dmx EXCEPT !.has = @ \cup {t}]
           d == [d0 EXCEPT !.sent = @ \cup {t}, !.dispatch = FALSE]
<1>1. TellMediaInfo(d)
  BY DEF ParseConfig
<1>2. d.sent = dmx.sent \cup {t} /\ dmx.sent \subseteq Tracks
  BY DEF TypeInv, DmxType
<1> HIDE DEF d
<1>3. dmx' = d /\ io'.pos = io.pos + 1 /\ io'.left = io.left - 1 /\ io'.part = io.part
      /\ io'.parsing = io.parsing
  BY <1>1, TellIo
<1>4. \A u \in Tracks : trk[u].meta \/ u = t => trk'[u].meta
  <2>1. CASE trk' = [trk EXCEPT ![t].meta = TRUE]
    <3>1. \A u \in Tracks : IsTrack(trk[u])
      BY TypedTracks
    <3>2. trk = [u \in Tracks |-> trk[u]]
      BY DEF TypeInv, RemuxInv, TracksInv
    <3>3. trk'[t] = [trk[t] EXCEPT !.meta = TRUE] /\ \A u \in Tracks : u # t => trk'[u] = trk[u]
      BY <2>1, <3>2
    <3>4. [trk[t] EXCEPT !.meta = TRUE].meta
      BY <3>1 DEF IsTrack
    <3>5. QED BY <3>3, <3>4
  <2>2. CASE trk' = [u \in Tracks |-> [RemuxQueue(u, trk[u], DtsBase) EXCEPT !.meta = @ \/ u = t]]
    <3> SUFFICES ASSUME NEW u \in Tracks, trk[u].meta \/ u = t PROVE trk'[u].meta
      OBVIOUS
    <3> DEFINE r == RemuxQueue(u, trk[u], DtsBase)
               m == r.meta \/ u = t
    <3>1. trk'[u] = [r EXCEPT !.meta = m]
      BY <2>2
    <3>2. IsTrack(r) /\ m
      BY TypedTracks, RemuxQueueLeaves, RemuxQueueKeeps DEF TrackInv
    <3> HIDE DEF r, m
    <3>3. [r EXCEPT !.meta = m].meta = m
      BY <3>2 DEF IsTrack
    <3>4. QED BY <3>1, <3>2, <3>3
  <2>3. QED BY <2>1, <2>2 DEF ParseConfig
<1>5. \A u \in dmx'.sent : trk'[u].meta
  BY <1>2, <1>3, <1>4 DEF LoneInv
<1>6. QED BY <1>3, <1>5, TagLone

LEMMA SampleLone ==
  ASSUME TypeInv, LoneInv, SamplesLast, NEW t \in Tracks, NEW kind, Parsing(kind), NEW d, NextTag(d),
         d.dispatch, d.sent = dmx.sent, ParseSample(t)
  PROVE  LoneInv'
<1>1. /\ io'.pos = io.pos + 1 /\ io'.left = io.left - 1 /\ io'.part = io.part
      /\ io'.parsing = io.parsing /\ dmx' = d
  BY TypedIo DEF NextTag, IoType
<1>2. \A u \in Tracks : trk'[u].meta = trk[u].meta
  <2>1. PICK x : trk' = [trk EXCEPT ![t].queue = Append(@, x), ![t].given = Append(@, x)]
    BY DEF ParseSample
  <2>2. \A u \in Tracks : trk'[u] = trk[u] \/ trk'[u] = Sampled(trk[u], x)
    BY <2>1 DEF TypeInv, RemuxInv, TracksInv, Sampled
  <2>3. QED BY <2>2, TypedTracks, QueueMeta
<1>3. dmx.sent \subseteq Tracks
  BY DEF TypeInv, DmxType
<1>4. \A u \in dmx'.sent : trk'[u].meta
  BY <1>1, <1>2, <1>3 DEF LoneInv
<1>5. QED BY <1>1, <1>4, TagLone

LEMMA DispatchLone ==
  ASSUME TypeInv, LoneInv, Dispatch
  PROVE  LoneInv'
<1>1. PICK tail \in Tails : DispatchParsed(tail)
  BY DEF Dispatch
<1>2. io.parsing /\ io.left = 0 /\ ~io'.parsing /\ io'.pos = io.pos /\ io'.part = io.part
  BY TypedIo DEF Dispatch, IoType
<1>3. /\ dmx'.has = dmx.has /\ dmx'.sent = dmx.sent /\ (dmx.dispatch => dmx'.dispatch)
      /\ dmx.sent \subseteq Tracks
  <2> DEFINE s == dmx.dispatch \/ tail
  <2>1. dmx' = [dmx EXCEPT !.dispatch = s]
    BY <1>1 DEF DispatchParsed
  <2>2. dmx.dispatch => s
    OBVIOUS
  <2> HIDE DEF s
  <2>3. dmx'.has = dmx.has /\ dmx'.sent = dmx.sent /\ dmx'.dispatch = s /\ dmx.sent \subseteq Tracks
    BY <2>1 DEF TypeInv, DmxType
  <2>4. QED BY <2>2, <2>3
<1>4. ASSUME NEW t \in Tracks
      PROVE  /\ trk'[t].meta = trk[t].meta
             /\ RemuxParsed /\ trk[t].meta => Len(trk'[t].queue) <= 1
  <2>1. CASE UNCHANGED trk
    <3>1. RemuxParsed => trk[t].queue = <<>> \/ trk'[t] = RemuxQueue(t, trk[t], DtsBase)
      BY DEF RemuxParsed
    <3>2. Len(<<>>) <= 1
      OBVIOUS
    <3>3. QED BY <2>1, <3>1, <3>2, TypedTracks, RemuxQueueLeaves
  <2>2. CASE trk' = [u \in Tracks |-> RemuxQueue(u, trk[u], DtsBase)]
    BY <2>2, TypedTracks, RemuxQueueLeaves
  <2>3. QED BY <1>1, <2>1, <2>2 DEF DispatchParsed, RemuxParsed
<1>5. ASSUME io'.pos = Len(Tags'), InitialMetadataDispatched(dmx')
      PROVE  \A t \in Tracks : trk'[t].meta => Len(trk'[t].queue) <= 1
  <2>1. dmx.dispatch
    BY <1>2, <1>5 DEF LoneInv, Tags
  <2>2. InitialMetadataDispatched(dmx)
    BY <1>3, <1>5 DEF InitialMetadataDispatched
  <2>3. RemuxParsed
    BY <1>1, <1>3, <2>1, <2>2 DEF DispatchParsed
  <2>4. QED BY <1>4, <2>3
<1>6. \A t \in dmx'.sent : trk'[t].meta
  BY <1>3, <1>4 DEF LoneInv
<1>7. QED BY <1>2, <1>5, <1>6 DEF LoneInv

LEMMA LoadedAt ==
  ASSUME TypeInv, NEW part, NEW pos, NEW header, NEW x, NEW y
  PROVE  /\ Load(part, pos, header).header = header
         /\ Load(part, pos, header).parsing = io.parsing
         /\ Loaded(part, pos, header, x, y).part = part
         /\ Loaded(part, pos, header, x, y).pos = pos
         /\ Loaded(part, pos, header, x, y).header = header
         /\ Loaded(part, pos, header, x, y).parsing = io.parsing
BY TypedIo DEF Load, Loaded, IoType

LEMMA SeekLone ==
  ASSUME TypeInv, LoneInv, SamplesLast, ~io.parsing, NEW k \in Keyframes, NEW pend, NEW seeks,
         SeekTo(k, pend, seeks), UNCHANGED dmx
  PROVE  LoneInv'
<1>1. dmx.sent \subseteq Tracks
  BY DEF TypeInv, DmxType
<1>2. CASE io' = [io EXCEPT !.pend = k, !.seeks = seeks] /\ UNCHANGED trk
  <2>1. io'.parsing = io.parsing /\ io'.header = io.header /\ io'.pos = io.pos /\ Tags' = Tags
    BY <1>2, TypedIo DEF IoType, Tags
  <2>2. QED BY <1>2, <2>1 DEF LoneInv
<1>3. CASE /\ \/ io' = [Load(k[1], k[2] - 1, FALSE) EXCEPT !.pend = pend, !.seeks = seeks]
              \/ io' = [Load(k[1], 0, TRUE) EXCEPT !.pend = k, !.seeks = seeks]
           /\ trk' = [t \in Tracks |-> SeekTrack(trk[t])]
  <2>1. \A t \in Tracks : trk'[t].meta = trk[t].meta
    BY <1>3, TypedTracks, SeekTrackMeta
  <2>2. k[1] \in Parts /\ k[2] - 1 # Len(File[k[1]])
    <3>1. PICK p \in Parts : k \in {<<p, i>> : i \in {j \in DOMAIN File[p] : File[p][j].kind = "key"}}
      BY DEF Keyframes
    <3>2. PICK i \in DOMAIN File[p] : k = <<p, i>>
      BY <3>1
    <3>3. i \in 1..Len(File[p]) /\ Len(File[p]) \in Nat
      BY <3>2, FileAt
    <3>4. QED BY <3>2, <3>3
  <2>3. ~io'.parsing /\ (io'.header \/ io'.pos # Len(Tags'))
    <3>1. CASE io' = [Load(k[1], k[2] - 1, FALSE) EXCEPT !.pend = pend, !.seeks = seeks]
      <4>1. io'.part = k[1] /\ io'.pos = k[2] - 1 /\ ~io'.parsing
        <5> DEFINE p == k[1]
                   q == k[2] - 1
                   h == FALSE
        <5>1. io' = Loaded(p, q, h, pend, seeks)
          BY <3>1 DEF Loaded
        <5> HIDE DEF p, q, h
        <5>2. io'.part = p /\ io'.pos = q /\ io'.parsing = io.parsing
          BY <5>1, LoadedAt
        <5>3. QED BY <5>2 DEF p, q
      <4>2. QED BY <2>2, <4>1 DEF Tags
    <3>2. CASE io' = [Load(k[1], 0, TRUE) EXCEPT !.pend = k, !.seeks = seeks]
      <4> DEFINE p == k[1]
                 h == TRUE
      <4>1. io' = Loaded(p, 0, h, k, seeks)
        BY <3>2 DEF Loaded
      <4> HIDE DEF p, h
      <4>2. io'.header = h /\ io'.parsing = io.parsing
        BY <4>1, LoadedAt
      <4>3. QED BY <4>2 DEF h
    <3>3. QED BY <1>3, <3>1, <3>2
  <2>4. QED BY <1>1, <2>1, <2>3 DEF LoneInv
<1>4. QED BY <1>2, <1>3 DEF SeekTo

LEMMA PartCompleteLone ==
  ASSUME TypeInv, LoneInv, PartComplete
  PROVE  LoneInv'
<1>1. \A t \in Tracks : trk'[t].meta = trk[t].meta /\ trk'[t].queue = trk[t].queue
  BY TypedTracks, FlushStashLeaves DEF PartComplete
<1>2. dmx' = dmx /\ dmx.sent \subseteq Tracks /\ ~io.parsing
  BY DEF PartComplete, TypeInv, DmxType, Idle
<1>3. CASE io' = Load(io.part + 1, 0, TRUE)
  <2>1. io'.header /\ ~io'.parsing
    <3> DEFINE p == io.part + 1
               h == TRUE
    <3>1. io' = Load(p, 0, h)
      BY <1>3
    <3> HIDE DEF p, h
    <3>2. io'.header = h /\ io'.parsing = io.parsing
      BY <3>1, LoadedAt
    <3>3. QED BY <1>2, <3>2 DEF h
  <2>2. QED BY <1>1, <1>2, <2>1 DEF LoneInv
<1>4. CASE io' = [io EXCEPT !.done = TRUE]
  <2>1. io'.parsing = io.parsing /\ io'.header = io.header /\ io'.pos = io.pos /\ Tags' = Tags
    BY <1>4, TypedIo DEF IoType, Tags
  <2>2. QED BY <1>1, <1>2, <2>1 DEF LoneInv
<1>5. QED BY <1>3, <1>4 DEF PartComplete

LEMMA LoneInvStep ==
  ASSUME SamplesLast
  PROVE  TypeInv /\ LoneInv /\ [Next]_vars => LoneInv'
<1> SUFFICES ASSUME TypeInv, LoneInv, [Next]_vars PROVE LoneInv'
  OBVIOUS
<1>1. ASSUME NEW n \in 1..MaxChunk, Arrive(n) PROVE LoneInv'
  BY <1>1, ArriveLone
<1>2. CASE ParseScript
  <2> DEFINE d == [dmx EXCEPT !.script = TRUE, !.dispatch = FALSE]
  <2>1. TellMediaInfo(d) /\ Parsing("script") /\ trk' = trk
    BY <1>2 DEF ParseScript
  <2>2. d.sent = dmx.sent
    BY DEF TypeInv, DmxType
  <2> HIDE DEF d
  <2>3. \A t \in dmx'.sent : trk'[t].meta
    BY <2>1, <2>2, TellIo DEF LoneInv
  <2>4. ~SampleTag("script")
    BY DEF SampleTag
  <2>5. QED BY <2>1, <2>3, <2>4, TellIo, TagLone
<1>3. CASE ParseAudioConfig
  BY <1>3, ConfigLone DEF ParseAudioConfig, Tracks, SampleTag
<1>4. CASE ParseVideoConfig
  BY <1>4, ConfigLone DEF ParseVideoConfig, Tracks, SampleTag
<1>5. CASE ParseAudio
  <2> DEFINE d == [dmx EXCEPT !.has = @ \cup {"audio"}, !.dispatch = TRUE]
  <2>1. d.dispatch /\ d.sent = dmx.sent
    BY DEF TypeInv, DmxType
  <2>2. NextTag(d) /\ Parsing("audio") /\ ParseSample("audio")
    BY <1>5 DEF ParseAudio
  <2> HIDE DEF d
  <2>3. QED BY <2>1, <2>2, SampleLone DEF Tracks
<1>6. CASE ParseVideo
  <2> DEFINE d == [dmx EXCEPT !.dispatch = TRUE]
  <2>1. d.dispatch /\ d.sent = dmx.sent
    BY DEF TypeInv, DmxType
  <2>2. NextTag(d) /\ (Parsing("delta") \/ Parsing("key")) /\ ParseSample("video")
    BY <1>6 DEF ParseVideo, VideoTag
  <2> HIDE DEF d
  <2>3. QED BY <2>1, <2>2, SampleLone DEF Tracks
<1>7. CASE Dispatch
  BY <1>7, DispatchLone
<1>8. CASE PendingSeek
  <2>1. io.pend \in Keyframes
    BY <1>8 DEF PendingSeek, TypeInv, RemuxInv, IoInv, IoType
  <2>2. QED BY <1>8, <2>1, SeekLone DEF PendingSeek
<1>9. ASSUME NEW k \in Keyframes, Seek(k) PROVE LoneInv'
  BY <1>9, SeekLone DEF Seek, Idle
<1>10. CASE PauseAndResume
  <2>1. \A t \in Tracks : trk'[t].meta = trk[t].meta /\ trk'[t].queue = trk[t].queue
    BY <1>10, TypedTracks, DiscontinueLeaves DEF PauseAndResume
  <2>2. /\ io'.parsing = io.parsing /\ io'.header = io.header /\ io'.pos = io.pos /\ Tags' = Tags
        /\ io'.left = io.left
    BY <1>10, TypedIo DEF IoType, Tags, PauseAndResume
  <2>3. dmx' = dmx /\ dmx.sent \subseteq Tracks
    BY <1>10 DEF PauseAndResume, TypeInv, DmxType
  <2>4. QED BY <2>1, <2>2, <2>3 DEF LoneInv
<1>11. CASE PartComplete
  BY <1>11, PartCompleteLone
<1>12. CASE UNCHANGED vars
  <2>1. Tags' = Tags
    BY <1>12 DEF vars, Tags
  <2>2. QED BY <1>12, <2>1 DEF vars, LoneInv
<1>13. QED BY <1>1, <1>2, <1>3, <1>4, <1>5, <1>6, <1>7, <1>8, <1>9, <1>10, <1>11, <1>12 DEF Next

LEMMA LoneInvInit == Init => LoneInv
BY DEF Init, LoneInv, NewDemuxer

(* When each part of the file ends with a sample, a part that has been     *)
(* read to its end with its configurations sent leaves at most one sample  *)
(* of each track in the demuxer's queues (LoneLeft).                       *)
THEOREM LoneLeftHolds ==
  ASSUME SamplesLast
  PROVE  Spec => []LoneLeft
<1>1. TypeInv /\ LoneInv => LoneLeft
  <2> SUFFICES ASSUME TypeInv, LoneInv, ~io.parsing, ~io.header, io.pos = Len(Tags),
                      InitialMetadataDispatched(dmx), NEW t \in Tracks,
                      t \in dmx.has \/ trk[t].meta
               PROVE  Len(trk[t].queue) <= 1
    BY DEF LoneLeft, Idle
  <2>1. trk[t].meta
    BY DEF InitialMetadataDispatched, LoneInv
  <2>2. QED BY <2>1 DEF LoneInv
<1>2. TypeInv /\ LoneInv /\ [Next]_vars => LoneInv'
  BY LoneInvStep
<1>3. QED BY <1>1, <1>2, LoneInvInit, TypeInvAlways, PTL DEF Spec
=============================================================================
