---------------------------- MODULE FlvIO_proofs ----------------------------
(***************************************************************************)
(* Proofs about FlvIO: the demuxer is given the bytes in order, and none   *)
(* while the controller is paused, for every file, every size of chunks    *)
(* and of the stash, and any number of pauses, seeks and faults; and every *)
(* field keeps its type, the stash fitting the buffer under it.            *)
(***************************************************************************)
EXTENDS FlvIO, TLAPS, SequenceTheorems, FiniteSetTheorems, WellFoundedInduction

-----------------------------------------------------------------------------
(* Numbers and sequences.                                                  *)

LEMMA MinExists ==
  ASSUME NEW S, S \subseteq Nat, S # {}
  PROVE  \E x \in S : \A y \in S : x =< y
<1>1. PICK x \in S : \A y \in S : ~(<<y, x>> \in OpToRel(<, Nat))
  BY NatLessThanWellFounded, WFMin
<1>2. \A y \in S : ~(y < x)
  BY <1>1 DEF OpToRel
<1>3. QED BY <1>2

LEMMA MaxProp ==
  ASSUME NEW b \in Nat, NEW S, S \subseteq 0..b, S # {}
  PROVE  Max(S) \in S
<1> DEFINE T == {b - y : y \in S}
<1>1. T \subseteq Nat /\ T # {}
  <2>1. PICK y \in S : TRUE
    OBVIOUS
  <2>2. b - y \in T
    BY <2>1
  <2>3. QED BY <2>2
<1>2. PICK m \in T : \A y \in T : m =< y
  BY <1>1, MinExists
<1>3. PICK x \in S : m = b - x
  OBVIOUS
<1>4. \A y \in S : x >= y
  BY <1>2, <1>3
<1>5. QED BY <1>4 DEF Max

(* The demuxer eats from the start of what it is given.                    *)
LEMMA EatenInside ==
  ASSUME NEW c \in Seq(Int)
  PROVE  Eaten(c) \in 0..Len(c) /\ Len(c) \in Nat /\ \A i \in 1..Len(c) : c[i] \in Int
<1>1. Len(c) \in Nat /\ \A i \in 1..Len(c) : c[i] \in Int
  BY ElementOfSeq
<1> DEFINE S == {0} \cup {i \in 1..Len(c) : c[i] + 1 \in Tags}
<1>2. S \subseteq 0..Len(c) /\ S # {}
  BY <1>1
<1>3. Max(S) \in S
  BY <1>1, <1>2, MaxProp
<1>4. QED BY <1>1, <1>2, <1>3 DEF Eaten

\* Bytes that follow one another in the file.
Run(c) == \A i \in 1..Len(c) : c[i] = c[1] + i - 1

\* A place where the bytes may go on: where the demuxer stopped, or the start.
At(x, got) == x \in {got, 0}

\* Where the demuxer is when it has eaten n bytes of c.
Now(c, n, got) == IF n = 0 THEN got ELSE c[n] + 1

Rest(c, n) == SubSeq(c, n + 1, Len(c))

Cat(a, b) == a \o b

LEMMA RestTyped ==
  ASSUME NEW c \in Seq(Int), NEW n \in 0..Len(c)
  PROVE  /\ Rest(c, n) \in Seq(Int) /\ Len(Rest(c, n)) = Len(c) - n
         /\ (n < Len(c) <=> Rest(c, n) # <<>>)
         /\ \A i \in 1..(Len(c) - n) : Rest(c, n)[i] = c[n + i]
<1>1. Len(c) \in Nat /\ \A i \in (n + 1)..Len(c) : c[i] \in Int
  BY ElementOfSeq
<1>2. n + 1 \in Int /\ Len(c) \in Int
  BY <1>1
<1>3. /\ Rest(c, n) \in Seq(Int)
      /\ Len(Rest(c, n)) = IF n + 1 <= Len(c) THEN Len(c) - (n + 1) + 1 ELSE 0
      /\ \A i \in 1..(Len(c) - (n + 1) + 1) : Rest(c, n)[i] = c[n + 1 + i - 1]
  BY <1>1, <1>2, SubSeqProperties DEF Rest
<1>4. Len(Rest(c, n)) = Len(c) - n
  BY <1>1, <1>3
<1>5. Rest(c, n) # <<>> <=> Len(Rest(c, n)) # 0
  BY <1>3, EmptySeq, LenProperties
<1>6. \A i \in 1..(Len(c) - n) : Rest(c, n)[i] = c[n + i]
  BY <1>1, <1>3
<1>7. QED BY <1>1, <1>3, <1>4, <1>5, <1>6

(* What is left of a run that goes on where the demuxer is, goes on there. *)
LEMMA RestGoesOn ==
  ASSUME NEW c \in Seq(Int), c # <<>>, Run(c), NEW n \in 0..Len(c), NEW got \in Int, At(c[1], got)
  PROVE  /\ n = Len(c) => Now(c, n, got) = c[1] + Len(c)
         /\ n < Len(c) => /\ Run(Rest(c, n)) /\ Rest(c, n)[1] = c[1] + n
                          /\ At(c[1] + n, Now(c, n, got))
<1>1. Len(c) \in Nat /\ Len(c) # 0 /\ c[1] \in Int
  BY ElementOfSeq, EmptySeq, LenProperties
<1>2. \A i \in 1..Len(c) : c[i] = c[1] + i - 1
  BY DEF Run
<1>3. n # 0 => Now(c, n, got) = c[1] + n
  BY <1>1, <1>2 DEF Now
<1>4. ASSUME n < Len(c)
      PROVE  Run(Rest(c, n)) /\ Rest(c, n)[1] = c[1] + n
  <2>1. /\ Len(Rest(c, n)) = Len(c) - n
        /\ \A i \in 1..(Len(c) - n) : Rest(c, n)[i] = c[n + i]
    BY RestTyped
  <2>2. Rest(c, n)[1] = c[1] + n
    BY <1>1, <1>2, <1>4, <2>1
  <2>3. \A i \in 1..(Len(c) - n) : Rest(c, n)[i] = c[1] + n + i - 1
    BY <1>1, <1>2, <2>1
  <2>4. QED BY <1>1, <2>1, <2>2, <2>3 DEF Run
<1>5. n = 0 => c[1] + n = c[1] /\ Now(c, n, got) = got
  BY <1>1 DEF Now
<1>6. At(c[1] + n, Now(c, n, got))
  BY <1>3, <1>5 DEF At
<1>7. QED BY <1>1, <1>3, <1>4, <1>6

(* A run and the run that begins where it ends are one.                    *)
LEMMA CatRuns ==
  ASSUME NEW a \in Seq(Int), NEW b \in Seq(Int)
  PROVE  /\ Cat(a, b) \in Seq(Int) /\ Len(Cat(a, b)) = Len(a) + Len(b)
         /\ (b # <<>> => Cat(a, b) # <<>>)
         /\ (a = <<>> => Cat(a, b) = b)
         /\ a # <<>> /\ Run(a) /\ Run(b) /\ b[1] = a[1] + Len(a)
              => Run(Cat(a, b)) /\ Cat(a, b)[1] = a[1]
<1>1. /\ Cat(a, b) \in Seq(Int) /\ Len(Cat(a, b)) = Len(a) + Len(b) /\ Len(a) \in Nat /\ Len(b) \in Nat
      /\ \A i \in 1..Len(a) : Cat(a, b)[i] = a[i] /\ a[i] \in Int
      /\ \A i \in (Len(a) + 1)..(Len(a) + Len(b)) : Cat(a, b)[i] = b[i - Len(a)]
  BY DEF Cat
<1>2. (a # <<>> => Len(a) # 0) /\ (b # <<>> => Len(b) # 0)
  BY EmptySeq, LenProperties
<1>3. b # <<>> => Cat(a, b) # <<>>
  <2>1. b # <<>> => Len(Cat(a, b)) # 0
    BY <1>1, <1>2
  <2>2. QED BY <2>1, EmptySeq
<1>4. a = <<>> => Cat(a, b) = b
  BY ConcatEmptySeq DEF Cat
<1>5. ASSUME a # <<>>, Run(a), Run(b), b[1] = a[1] + Len(a)
      PROVE  Run(Cat(a, b)) /\ Cat(a, b)[1] = a[1]
  <2>1. Cat(a, b)[1] = a[1] /\ a[1] \in Int
    BY <1>1, <1>2, <1>5
  <2>2. \A i \in 1..Len(a) : Cat(a, b)[i] = a[1] + i - 1
    BY <1>1, <1>5 DEF Run
  <2>3. \A i \in (Len(a) + 1)..(Len(a) + Len(b)) : Cat(a, b)[i] = a[1] + i - 1
    <3> SUFFICES ASSUME NEW i \in (Len(a) + 1)..(Len(a) + Len(b)) PROVE Cat(a, b)[i] = a[1] + i - 1
      OBVIOUS
    <3> DEFINE k == i - Len(a)
    <3>1. k \in 1..Len(b) /\ Cat(a, b)[i] = b[k] /\ i = k + Len(a) /\ k \in Int
      BY <1>1
    <3> HIDE DEF k
    <3>2. b[k] = b[1] + k - 1
      BY <1>5, <3>1 DEF Run
    <3> DEFINE x == a[1]
               l == Len(a)
               y == b[1]
               z == Cat(a, b)[i]
    <3>3. z = y + k - 1 /\ y = x + l /\ i = k + l /\ x \in Int /\ l \in Int /\ k \in Int
      BY <1>1, <1>5, <2>1, <3>1, <3>2
    <3> HIDE DEF x, l, y, z
    <3>4. z = x + i - 1
      BY ONLY <3>3
    <3>5. QED BY <3>4 DEF x, z
  <2> DEFINE w == Cat(a, b)
  <2>4. /\ Len(w) = Len(a) + Len(b) /\ w[1] = a[1] /\ Len(a) \in Nat /\ Len(b) \in Nat
        /\ \A i \in 1..Len(a) : w[i] = a[1] + i - 1
        /\ \A i \in (Len(a) + 1)..(Len(a) + Len(b)) : w[i] = a[1] + i - 1
    BY <1>1, <2>1, <2>2, <2>3
  <2> DEFINE x == a[1]
             l == Len(a)
             m == Len(b)
             k == Len(w)
  <2>5. /\ k = l + m /\ w[1] = x /\ l \in Nat /\ m \in Nat
        /\ \A i \in 1..l : w[i] = x + i - 1
        /\ \A i \in (l + 1)..(l + m) : w[i] = x + i - 1
    BY <2>4
  <2> HIDE DEF w, x, l, m, k
  <2>6. \A i \in 1..k : i \in 1..l \/ i \in (l + 1)..(l + m)
    BY ONLY <2>5
  <2>7. \A i \in 1..k : w[i] = x + i - 1
    BY ONLY <2>5, <2>6
  <2>8. Run(w) /\ w[1] = a[1]
    BY <2>5, <2>7 DEF Run, x, k
  <2>9. QED BY <2>8 DEF w
<1>6. QED BY <1>1, <1>3, <1>4, <1>5

-----------------------------------------------------------------------------
(* A state as a record.  Sizes, counters and reports are left untyped.     *)

IsIo(i) ==
  i \in [stash : Seq(Int), start : Int, size : {i.size}, buf : {i.buf}, from : {i.from}, to : Int,
         paused : BOOLEAN, resume : Int, retry : {i.retry}, total : {i.total}, full : {i.full}]

IsLd(l) ==
  l \in [status : {l.status}, stage : {l.stage}, abort : {l.abort}, from : Int, received : Int,
         clen : {l.clen}]

IsCl(c) == c \in [got : Int, last : {c.last}, reports : {c.reports}, stale : BOOLEAN]

IsState(s) ==
  s \in [io : {s.io}, ld : {s.ld}, cl : {s.cl}] /\ IsIo(s.io) /\ IsLd(s.ld) /\ IsCl(s.cl)

\* What the demuxer was given last was in order.
LastOk(c) ==
  c.last # None /\ ~c.stale =>
    /\ c.last.bytes \in Seq(Int) /\ Run(c.last.bytes) /\ At(c.last.bytes[1], c.last.due)
    /\ c.last.label = c.last.bytes[1]

\* What is in the stash, and the bytes that come next, from p on, go on where
\* the demuxer stopped.
Ahead(i, got, p) ==
  /\ i.stash # <<>> => /\ Run(i.stash) /\ i.start = i.stash[1] /\ At(i.start, got)
                       /\ p = i.start + Len(i.stash)
  /\ i.stash = <<>> => At(p, got) /\ (EnableStash => i.start = 0)

\* With nothing in the stash, the last byte handed on is the one before p, or
\* none was handed on since the loader was opened.
Handed(i, p) == i.stash = <<>> => i.to + 1 \in {0, p}

Settled(s) ==
  /\ IsState(s) /\ LastOk(s.cl)
  /\ s.io.paused => s.io.stash = <<>> /\ s.io.start = 0
  /\ s.io.paused /\ ~s.cl.stale => At(s.io.resume, s.cl.got)

\* The controller goes on from p.
Ready(s, p) ==
  /\ Settled(s) /\ p \in Int
  /\ ~s.io.paused /\ ~s.cl.stale => Ahead(s.io, s.cl.got, p) /\ Handed(s.io, p)

Place(l) == l.from + l.received

Sound(s) ==
  /\ Settled(s)
  /\ IsWorking(s.ld) => s.ld.stage # "ended"
  /\ s.ld.stage # "ended" => Ready(s, Place(s.ld))

-----------------------------------------------------------------------------
(* What is given to the demuxer.                                           *)

\* A piece that the demuxer may be given next.
MayGive(s, c, label) ==
  /\ IsState(s) /\ LastOk(s.cl) /\ c \in Seq(Int) /\ c # <<>> /\ label \in Int
  /\ ~s.cl.stale => Run(c) /\ label = c[1] /\ At(label, s.cl.got)

LEMMA DispatchInOrder ==
  ASSUME NEW s, NEW c, NEW label, MayGive(s, c, label)
  PROVE  LET u == DispatchChunks(s, c, label) IN
         /\ IsState(u) /\ LastOk(u.cl) /\ u.ld = s.ld /\ u.cl.stale = s.cl.stale
         /\ u.io = [s.io EXCEPT !.to = label + Len(c) - 1]
         /\ u.cl.got = Now(c, Eaten(c), s.cl.got)
<1> DEFINE n == Eaten(c)
           b == [bytes |-> c, label |-> label, due |-> s.cl.got]
           g == Now(c, n, s.cl.got)
           to == label + Len(c) - 1
           u == [s EXCEPT !.io.to = to, !.cl.last = b, !.cl.got = g]
<1>1. IsState(s) /\ LastOk(s.cl) /\ c \in Seq(Int) /\ label \in Int
  BY DEF MayGive
<1>2. n \in 0..Len(c) /\ Len(c) \in Nat /\ \A i \in 1..Len(c) : c[i] \in Int
  BY <1>1, EatenInside
<1>3. g \in Int /\ to \in Int
  BY <1>1, <1>2 DEF Now, IsState, IsCl
<1>4. DispatchChunks(s, c, label) = u
  BY DEF DispatchChunks, Now
<1>5. b.bytes = c /\ b.label = label /\ b.due = s.cl.got
  OBVIOUS
<1> HIDE DEF n, b, g, to
<1>6. /\ IsState(u) /\ u.ld = s.ld /\ u.cl.stale = s.cl.stale /\ u.io = [s.io EXCEPT !.to = to]
      /\ u.cl.got = g /\ u.cl.last = b
  BY <1>1, <1>3 DEF IsState, IsIo, IsCl
<1> HIDE DEF u
<1>7. LastOk(u.cl)
  BY <1>1, <1>5, <1>6 DEF LastOk, MayGive
<1>8. QED BY <1>4, <1>6, <1>7 DEF g, n, to

(* _flushStashBuffer: what is left is dropped, or kept with its place.     *)
LEMMA FlushKeeps ==
  ASSUME NEW s, NEW p, Ready(s, p), NEW drop \in BOOLEAN
  PROVE  LET u == FlushStashBuffer(s, drop) IN
         /\ Settled(u) /\ u.ld = s.ld /\ u.io.paused = s.io.paused /\ u.cl.stale = s.cl.stale
         /\ (s.io.stash = <<>> => u = s)
         /\ (~drop => Ready(u, p))
         /\ (~drop /\ ~s.io.paused /\ ~s.cl.stale /\ u.io.stash # <<>> => u.io.to + 1 = p)
<1>1. Settled(s) /\ IsState(s) /\ LastOk(s.cl) /\ IsIo(s.io) /\ p \in Int
  BY DEF Ready, Settled, IsState
<1>2. CASE s.io.stash = <<>>
  <2>1. FlushStashBuffer(s, drop) = s
    BY <1>2 DEF FlushStashBuffer
  <2>2. QED BY <1>1, <1>2, <2>1
<1>3. CASE s.io.stash # <<>>
  <2> DEFINE c == s.io.stash
             n == Eaten(c)
             d == DispatchChunks(s, c, s.io.start)
             kept == [d EXCEPT !.io.stash = Rest(c, n), !.io.start = @ + n]
             gone == [d EXCEPT !.io.stash = <<>>, !.io.start = 0]
             got == Now(c, n, s.cl.got)
             to == s.io.start + Len(c) - 1
  <2>1. c \in Seq(Int) /\ c # <<>> /\ s.io.start \in Int /\ s.cl.got \in Int /\ ~s.io.paused
    BY <1>1, <1>3 DEF Settled, IsState, IsIo, IsCl
  <2>2. ~s.cl.stale => /\ Run(c) /\ s.io.start = c[1] /\ At(s.io.start, s.cl.got)
                       /\ p = s.io.start + Len(c)
    BY <1>3, <2>1 DEF Ready, Ahead
  <2>3. n \in 0..Len(c) /\ Len(c) \in Nat
    BY <2>1, EatenInside
  <2>4. MayGive(s, c, s.io.start)
    BY <1>1, <2>1, <2>2 DEF MayGive
  <2>5. /\ IsState(d) /\ LastOk(d.cl) /\ d.ld = s.ld /\ d.cl.stale = s.cl.stale
        /\ d.io = [s.io EXCEPT !.to = to] /\ d.cl.got = got
    BY <2>4, DispatchInOrder
  <2> HIDE DEF d
  <2>6. d.io.stash = c /\ d.io.start = s.io.start /\ d.io.to = to
        /\ d.io.paused = s.io.paused
    BY <1>1, <2>1, <2>5 DEF IsIo
  <2>7. Rest(c, n) \in Seq(Int) /\ (n < Len(c) <=> Rest(c, n) # <<>>) /\ Len(Rest(c, n)) = Len(c) - n
    BY <2>1, <2>3, RestTyped
  <2>8. FlushStashBuffer(s, drop) = IF n < Len(c) /\ ~drop THEN kept ELSE gone
    BY <1>3, <2>6 DEF FlushStashBuffer, d, Rest
  <2>9. ~s.cl.stale => /\ n = Len(c) => got = c[1] + Len(c)
                       /\ n < Len(c) => /\ Run(Rest(c, n)) /\ Rest(c, n)[1] = c[1] + n
                                        /\ At(c[1] + n, got)
    BY <2>1, <2>2, <2>3, RestGoesOn
  <2> DEFINE rest == Rest(c, n)
             e == <<>>
             start == s.io.start + n
  <2>10. e \in Seq(Int) /\ start \in Int /\ to \in Int
    BY <2>1, <2>3
  <2> HIDE DEF got, n, c, to
  <2>11. CASE n < Len(c) /\ ~drop
    <3> DEFINE u == [d EXCEPT !.io.stash = rest, !.io.start = start]
    <3>1. FlushStashBuffer(s, drop) = u
      BY <2>6, <2>8, <2>11
    <3> HIDE DEF rest, start
    <3>2. /\ IsState(u) /\ u.ld = d.ld /\ u.cl = d.cl /\ u.io.stash = rest /\ u.io.start = start
          /\ u.io.to = d.io.to /\ u.io.paused = d.io.paused
      BY <2>5, <2>6, <2>7, <2>10 DEF IsState, IsIo, rest
    <3> HIDE DEF u
    <3>3. Settled(u)
      BY <2>1, <2>5, <2>6, <3>2 DEF Settled
    <3>4. ~s.cl.stale => /\ Ahead(u.io, u.cl.got, p) /\ Handed(u.io, p) /\ u.io.to + 1 = p
      <4> SUFFICES ASSUME ~s.cl.stale PROVE Ahead(u.io, u.cl.got, p) /\ Handed(u.io, p) /\ u.io.to + 1 = p
        OBVIOUS
      <4>1. /\ Run(rest) /\ start = rest[1] /\ At(start, got) /\ rest # <<>>
            /\ p = s.io.start + Len(c) /\ Len(rest) = Len(c) - n
        BY <2>2, <2>7, <2>9, <2>11 DEF rest, start
      <4>2. p = start + Len(rest) /\ to + 1 = p
        <5> DEFINE b == s.io.start
                   l == Len(c)
                   k == Len(rest)
        <5>1. /\ p = b + l /\ k = l - n /\ start = b + n /\ to = b + l - 1
              /\ b \in Int /\ l \in Int /\ n \in Int
          BY <2>1, <2>3, <4>1 DEF start, to
        <5> HIDE DEF b, l, k
        <5>2. p = start + k /\ to + 1 = p
          BY ONLY <5>1
        <5>3. QED BY <5>2 DEF k
      <4>3. QED BY <2>5, <2>6, <3>2, <4>1, <4>2 DEF Ahead, Handed
    <3>5. Ready(u, p)
      BY <1>1, <2>5, <3>2, <3>3, <3>4 DEF Ready
    <3>6. /\ Settled(u) /\ u.ld = s.ld /\ u.io.paused = s.io.paused /\ u.cl.stale = s.cl.stale
          /\ (~s.cl.stale => u.io.to + 1 = p)
      BY <2>1, <2>5, <2>6, <3>2, <3>3, <3>4
    <3>7. QED BY ONLY <1>3, <3>1, <3>5, <3>6
  <2>12. CASE ~(n < Len(c) /\ ~drop)
    <3> DEFINE zero == 0
               u == [d EXCEPT !.io.stash = e, !.io.start = zero]
    <3>1. FlushStashBuffer(s, drop) = u
      BY <2>8, <2>12
    <3>0. zero \in Int
      OBVIOUS
    <3> HIDE DEF e, zero
    <3>2. /\ IsState(u) /\ u.ld = d.ld /\ u.cl = d.cl /\ u.io.stash = e /\ u.io.start = zero
          /\ u.io.to = d.io.to /\ u.io.paused = d.io.paused
      BY <2>5, <2>6, <2>10, <3>0 DEF IsState, IsIo
    <3> HIDE DEF u
    <3>3. Settled(u)
      BY <2>1, <2>5, <2>6, <3>2 DEF Settled
    <3>4. ASSUME ~s.cl.stale, ~drop PROVE Ahead(u.io, u.cl.got, p) /\ Handed(u.io, p)
      <4>1. n = Len(c)
        BY <2>3, <2>12, <3>4
      <4>2. got = p /\ to + 1 = p
        <5> DEFINE b == s.io.start
                   l == Len(c)
                   x == c[1]
        <5>1. got = x + l /\ p = b + l /\ b = x /\ to = b + l - 1 /\ b \in Int /\ l \in Int
          BY <2>1, <2>2, <2>3, <2>9, <3>4, <4>1 DEF to
        <5> HIDE DEF b, l, x
        <5>2. QED BY ONLY <5>1
      <4>3. QED BY <2>5, <2>6, <3>2, <4>2 DEF Ahead, Handed, At, e, zero
    <3>5. ~drop => Ready(u, p)
      BY <1>1, <2>5, <3>2, <3>3, <3>4 DEF Ready
    <3>6. /\ Settled(u) /\ u.ld = s.ld /\ u.io.paused = s.io.paused /\ u.cl.stale = s.cl.stale
          /\ u.io.stash = <<>>
      BY <2>1, <2>5, <2>6, <3>2, <3>3 DEF e
    <3>7. QED BY ONLY <1>3, <3>1, <3>5, <3>6
  <2>13. QED BY <2>11, <2>12
<1>4. QED BY <1>2, <1>3

-----------------------------------------------------------------------------
(* A chunk that arrives.                                                   *)

SameBytes(i, j) ==
  /\ j.stash = i.stash /\ j.start = i.start /\ j.to = i.to /\ j.paused = i.paused
  /\ j.resume = i.resume

LEMMA RoomSame ==
  ASSUME NEW i, IsIo(i), NEW needed
  PROVE  IsIo(Room(i, needed)) /\ SameBytes(i, Room(i, needed))
<1>1. CASE Room(i, needed) = i
  BY <1>1 DEF SameBytes
<1>2. CASE Room(i, needed) = ExpandBuffer(i, needed)
  <2>1. PICK b : ExpandBuffer(i, needed) = [i EXCEPT !.buf = b]
    BY DEF ExpandBuffer
  <2>2. IsIo([i EXCEPT !.buf = b]) /\ SameBytes(i, [i EXCEPT !.buf = b])
    BY DEF IsIo, SameBytes
  <2>3. QED BY <1>2, <2>1, <2>2
<1>3. QED BY <1>1, <1>2 DEF Room

LEMMA AdjustSame ==
  ASSUME NEW i, IsIo(i), NEW size, NEW retry
  PROVE  LET j == [AdjustStashSize(i, size) EXCEPT !.retry = retry] IN IsIo(j) /\ SameBytes(i, j)
<1> DEFINE r == Room(i, size + Slack)
           j == [[r EXCEPT !.size = size] EXCEPT !.retry = retry]
<1>1. IsIo(r) /\ SameBytes(i, r)
  BY RoomSame
<1>2. [AdjustStashSize(i, size) EXCEPT !.retry = retry] = j
  BY DEF AdjustStashSize
<1> HIDE DEF r
<1>3. IsIo(j) /\ SameBytes(r, j)
  BY <1>1 DEF IsIo, SameBytes
<1>4. QED BY <1>1, <1>2, <1>3 DEF SameBytes

LEMMA SameReady ==
  ASSUME NEW s, NEW p, Ready(s, p), NEW i, IsIo(i), SameBytes(s.io, i)
  PROVE  LET u == [s EXCEPT !.io = i] IN
         /\ Ready(u, p) /\ u.io = i /\ u.ld = s.ld /\ u.cl = s.cl /\ IsState(u) /\ LastOk(u.cl)
<1> DEFINE u == [s EXCEPT !.io = i]
<1>1. IsState(s) /\ LastOk(s.cl)
  BY DEF Ready, Settled
<1>2. IsState(u) /\ u.io = i /\ u.ld = s.ld /\ u.cl = s.cl
  BY <1>1 DEF IsState
<1> HIDE DEF u
<1>3. Settled(u)
  BY <1>1, <1>2 DEF Ready, Settled, SameBytes
<1>4. Ready(u, p)
  BY <1>2, <1>3 DEF Ready, SameBytes, Ahead, Handed
<1>5. QED BY <1>1, <1>2, <1>4 DEF u

LEMMA KeepKeeps ==
  ASSUME NEW s, IsState(s), NEW r \in Seq(Int), NEW b \in Int
  PROVE  LET u == Keep(s, r, b) IN
         /\ IsState(u) /\ u.ld = s.ld /\ u.cl = s.cl /\ u.io.stash = r /\ u.io.start = b
         /\ u.io.to = s.io.to /\ u.io.paused = s.io.paused
<1> DEFINE i == Room(s.io, Len(r))
           j == [i EXCEPT !.stash = r, !.start = b]
           u == [s EXCEPT !.io = j]
<1>1. IsIo(i) /\ SameBytes(s.io, i)
  BY RoomSame DEF IsState
<1> HIDE DEF i
<1>2. IsIo(j) /\ j.stash = r /\ j.start = b /\ j.to = i.to /\ j.paused = i.paused
  BY <1>1 DEF IsIo
<1> HIDE DEF j
<1>3. IsState(u) /\ u.io = j /\ u.ld = s.ld /\ u.cl = s.cl
  BY <1>2 DEF IsState
<1> HIDE DEF u
<1>4. QED BY <1>1, <1>2, <1>3 DEF u, j, i, SameBytes, Keep

\* A chunk whose first byte has the place p.
Arrives(s, c, p) ==
  Ready(s, p) /\ ~s.io.paused /\ c \in Seq(Int) /\ c # <<>> /\ Run(c) /\ c[1] = p /\ p \in Int

LEMMA ArrivesFacts ==
  ASSUME NEW s, NEW c, NEW p, Arrives(s, c, p)
  PROVE  /\ IsState(s) /\ LastOk(s.cl) /\ Len(c) \in Nat /\ c \in Seq(Int) /\ c # <<>> /\ p \in Int
         /\ p + Len(c) \in Int /\ s.io.stash \in Seq(Int) /\ s.io.start \in Int /\ s.cl.got \in Int
         /\ s.cl.stale \in BOOLEAN /\ Settled(s) /\ ~s.io.paused /\ Run(c) /\ c[1] = p
         /\ (~s.cl.stale => Ahead(s.io, s.cl.got, p))
BY LenProperties DEF Arrives, Ready, Settled, IsState, IsIo, IsCl

LEMMA ReadyIf ==
  ASSUME NEW u, NEW q \in Int, IsState(u), LastOk(u.cl), ~u.io.paused,
         ~u.cl.stale => Ahead(u.io, u.cl.got, q) /\ Handed(u.io, q)
  PROVE  Ready(u, q)
BY DEF Ready, Settled

(* The stash is empty; whatever its start, the chunk has its own place.    *)
LEMMA PassOnKeeps ==
  ASSUME NEW s, NEW c, MayGive(s, c, c[1]), Run(c), ~s.io.paused, s.io.stash = <<>>
  PROVE  LET u == PassOn(s, c, c[1]) IN
         Ready(u, c[1] + Len(c)) /\ u.ld = s.ld /\ u.io.paused = s.io.paused
<1> DEFINE label == c[1]
           n == Eaten(c)
           d == DispatchChunks(s, c, label)
           rest == Rest(c, n)
           q == label + Len(c)
           to == q - 1
           got == Now(c, n, s.cl.got)
<1>1. /\ IsState(s) /\ c \in Seq(Int) /\ c # <<>> /\ label \in Int /\ s.cl.got \in Int /\ IsIo(s.io)
      /\ (~s.cl.stale => At(label, s.cl.got))
  BY DEF MayGive, IsState, IsCl
<1>2. n \in 0..Len(c) /\ Len(c) \in Nat /\ q \in Int
  BY <1>1, EatenInside
<1>3. /\ IsState(d) /\ LastOk(d.cl) /\ d.ld = s.ld /\ d.cl.stale = s.cl.stale
      /\ d.io = [s.io EXCEPT !.to = label + Len(c) - 1] /\ d.cl.got = got
  BY DispatchInOrder
<1> HIDE DEF d
<1>4. d.io.stash = <<>> /\ d.io.start = s.io.start /\ d.io.to = to /\ d.io.paused = s.io.paused
  BY <1>1, <1>3 DEF IsIo
<1>5. rest \in Seq(Int) /\ (n < Len(c) <=> rest # <<>>) /\ Len(rest) = Len(c) - n
  BY <1>1, <1>2, RestTyped
<1>6. ~s.cl.stale => /\ n = Len(c) => got = q
                     /\ n < Len(c) => Run(rest) /\ rest[1] = label + n /\ At(label + n, got)
  BY <1>1, <1>2, RestGoesOn
<1>7. CASE rest = <<>>
  <2> DEFINE stale == d.cl.stale \/ (EnableStash /\ s.io.start # 0)
             u == [d EXCEPT !.cl.stale = stale]
  <2>1. PassOn(s, c, label) = u
    BY <1>7 DEF PassOn, d, Rest
  <2>2. stale \in BOOLEAN /\ (~stale => ~s.cl.stale /\ (EnableStash => s.io.start = 0))
    BY <1>3
  <2> HIDE DEF stale
  <2>3. IsState(u) /\ u.ld = d.ld /\ u.io = d.io /\ u.cl.got = d.cl.got /\ u.cl.stale = stale
        /\ u.cl.last = d.cl.last
    BY <1>3, <2>2 DEF IsState, IsCl
  <2> HIDE DEF u
  <2>4. LastOk(u.cl)
    BY <1>3, <2>2, <2>3 DEF LastOk
  <2>5. ~u.cl.stale => Ahead(u.io, u.cl.got, q) /\ Handed(u.io, q)
    <3>1. n = Len(c) /\ to + 1 = q
      BY <1>2, <1>5, <1>7
    <3>2. QED BY <1>3, <1>4, <1>6, <2>2, <2>3, <3>1 DEF Ahead, Handed, At
  <2>6. Ready(u, q)
    BY <1>2, <1>4, <2>3, <2>4, <2>5, ReadyIf
  <2>7. QED BY <1>3, <1>4, <2>1, <2>3, <2>6
<1>8. CASE rest # <<>>
  <2> DEFINE start == label + n
             u == Keep(d, rest, start)
  <2>1. PassOn(s, c, label) = u
    BY <1>8 DEF PassOn, d, Rest
  <2>2. start \in Int /\ n < Len(c)
    BY <1>1, <1>2, <1>5, <1>8
  <2>3. ~s.cl.stale => q = start + Len(rest)
    BY <1>1, <1>2, <1>5
  <2> HIDE DEF rest, start, got, q
  <2>4. /\ IsState(u) /\ u.ld = d.ld /\ u.cl = d.cl /\ u.io.stash = rest /\ u.io.start = start
        /\ u.io.to = d.io.to /\ u.io.paused = d.io.paused
    <3>1. IsState(d) /\ rest \in Seq(Int) /\ start \in Int
      BY <1>3, <1>5, <2>2
    <3>2. QED BY ONLY <3>1, KeepKeeps
  <2> HIDE DEF u
  <2>5. ~u.cl.stale => Ahead(u.io, u.cl.got, q) /\ Handed(u.io, q)
    BY <1>3, <1>6, <1>8, <2>2, <2>3, <2>4 DEF Ahead, Handed, start
  <2>6. Ready(u, q)
    BY <1>2, <1>3, <1>4, <2>4, <2>5, ReadyIf
  <2>7. QED BY <1>3, <1>4, <2>1, <2>4, <2>6 DEF q
<1>9. QED BY <1>7, <1>8

(* The bytes of the chunk are put behind those of the stash.               *)
LEMMA JustStashKeeps ==
  ASSUME NEW s, NEW c, NEW p, Arrives(s, c, p), EnableStash
  PROVE  LET u == JustStash(StartStash(s, p), c) IN
         Ready(u, p + Len(c)) /\ u.ld = s.ld /\ u.io.paused = s.io.paused
<1> DEFINE a == s.io.stash
           f == StartStash(s, p)
           b == f.io.start
           q == p + Len(c)
           all == Cat(a, c)
           u == [f EXCEPT !.io.stash = all]
<1>1. /\ IsState(s) /\ LastOk(s.cl) /\ Len(c) \in Nat /\ c \in Seq(Int) /\ c # <<>> /\ p \in Int
      /\ q \in Int /\ a \in Seq(Int) /\ s.io.start \in Int /\ ~s.io.paused /\ Run(c) /\ c[1] = p
      /\ (~s.cl.stale => Ahead(s.io, s.cl.got, p))
  BY ArrivesFacts
<1>2. /\ all \in Seq(Int) /\ Len(all) = Len(a) + Len(c) /\ all # <<>> /\ (a = <<>> => all = c)
      /\ (a # <<>> /\ Run(a) /\ Run(c) /\ c[1] = a[1] + Len(a) => Run(all) /\ all[1] = a[1])
  BY <1>1, CatRuns
<1>3. /\ IsState(f) /\ f.ld = s.ld /\ f.cl = s.cl /\ f.io.stash = a /\ f.io.paused = s.io.paused
      /\ b = IF a = <<>> /\ s.io.start = 0 THEN p ELSE s.io.start
  <2>1. CASE a = <<>> /\ s.io.start = 0
    <3> DEFINE e == [s EXCEPT !.io.start = p]
    <3>1. f = e
      BY <2>1 DEF StartStash
    <3>2. /\ IsState(e) /\ e.ld = s.ld /\ e.cl = s.cl /\ e.io.stash = s.io.stash
          /\ e.io.paused = s.io.paused /\ e.io.start = p
      BY <1>1 DEF IsState, IsIo
    <3> HIDE DEF e, f
    <3>3. QED BY <2>1, <3>1, <3>2
  <2>2. CASE ~(a = <<>> /\ s.io.start = 0)
    <3>1. f = s
      BY <2>2 DEF StartStash
    <3>2. QED BY <1>1, <2>2, <3>1
  <2>3. QED BY <2>1, <2>2
<1>4. JustStash(f, c) = u
  BY <1>3 DEF JustStash, Cat
<1> HIDE DEF f, all
<1>5. /\ IsState(u) /\ u.ld = f.ld /\ u.cl = f.cl /\ u.io.stash = all /\ u.io.start = b
      /\ u.io.paused = f.io.paused
  BY <1>2, <1>3 DEF IsState, IsIo
<1> HIDE DEF u, b
<1>6. ASSUME ~s.cl.stale
      PROVE  Run(all) /\ b = all[1] /\ At(b, s.cl.got) /\ q = b + Len(all)
  <2>1. CASE a = <<>>
    <3>1. s.io.start = 0 /\ At(p, s.cl.got)
      BY <1>1, <1>6, <2>1 DEF Ahead
    <3>2. QED BY <1>1, <1>2, <1>3, <2>1, <3>1
  <2>2. CASE a # <<>>
    <3>1. /\ Run(a) /\ s.io.start = a[1] /\ At(s.io.start, s.cl.got) /\ p = s.io.start + Len(a)
          /\ b = s.io.start
      BY <1>1, <1>3, <1>6, <2>2 DEF Ahead
    <3>2. Len(a) \in Nat
      BY <1>1, LenProperties
    <3>3. Run(all) /\ all[1] = a[1]
      BY <1>1, <1>2, <2>2, <3>1
    <3> DEFINE la == Len(a)
               lc == Len(c)
               lall == Len(all)
    <3>4. /\ p = b + la /\ lall = la + lc /\ q = p + lc
          /\ p \in Int /\ b \in Int /\ la \in Int /\ lc \in Int
      BY <1>1, <1>2, <3>1, <3>2
    <3> HIDE DEF la, lc, lall, q
    <3>5. q = b + lall
      BY ONLY <3>4
    <3>6. QED BY <3>1, <3>3, <3>5 DEF lall
  <2>3. QED BY <2>1, <2>2
<1>7. ~u.cl.stale => Ahead(u.io, u.cl.got, q) /\ Handed(u.io, q)
  BY <1>2, <1>3, <1>5, <1>6 DEF Ahead, Handed
<1>8. Ready(u, q)
  BY <1>1, <1>3, <1>5, <1>7, ReadyIf
<1>9. QED BY <1>3, <1>4, <1>5, <1>8 DEF f

(* The demuxer gets the stash; the chunk goes behind what it leaves.       *)
LEMMA PassAndStashKeeps ==
  ASSUME NEW s, NEW c, NEW p, Arrives(s, c, p), s.io.stash # <<>>
  PROVE  LET u == PassAndStash(s, c) IN
         Ready(u, p + Len(c)) /\ u.ld = s.ld /\ u.io.paused = s.io.paused
<1> DEFINE a == s.io.stash
           b == s.io.start
           n == Eaten(a)
           d == DispatchChunks(s, a, b)
           left == Rest(a, n)
           rest == Cat(left, c)
           got == Now(a, n, s.cl.got)
           start == b + n
           q == p + Len(c)
           u == Keep(d, rest, start)
<1>1. /\ IsState(s) /\ LastOk(s.cl) /\ Len(c) \in Nat /\ c \in Seq(Int) /\ c # <<>> /\ p \in Int
      /\ q \in Int /\ a \in Seq(Int) /\ b \in Int /\ ~s.io.paused /\ Run(c) /\ c[1] = p
      /\ s.cl.got \in Int /\ IsIo(s.io) /\ a # <<>>
      /\ (~s.cl.stale => Ahead(s.io, s.cl.got, p))
  BY ArrivesFacts DEF IsState
<1>2. n \in 0..Len(a) /\ Len(a) \in Nat /\ start \in Int
  BY <1>1, EatenInside
<1>3. ~s.cl.stale => Run(a) /\ b = a[1] /\ At(b, s.cl.got) /\ p = b + Len(a)
  BY <1>1 DEF Ahead
<1>4. MayGive(s, a, b)
  BY <1>1, <1>3 DEF MayGive
<1>5. /\ IsState(d) /\ LastOk(d.cl) /\ d.ld = s.ld /\ d.cl.stale = s.cl.stale
      /\ d.io = [s.io EXCEPT !.to = b + Len(a) - 1] /\ d.cl.got = got
  BY <1>4, DispatchInOrder
<1> HIDE DEF d
<1>6. d.io.start = b /\ d.io.paused = s.io.paused
  BY <1>1, <1>5 DEF IsIo
<1>7. left \in Seq(Int) /\ (n < Len(a) <=> left # <<>>) /\ Len(left) = Len(a) - n
  BY <1>1, <1>2, RestTyped
<1>8. PassAndStash(s, c) = u
  BY <1>6 DEF PassAndStash, d, Rest, Cat
<1>9. /\ rest \in Seq(Int) /\ Len(rest) = Len(left) + Len(c) /\ rest # <<>>
      /\ (left = <<>> => rest = c)
      /\ (left # <<>> /\ Run(left) /\ Run(c) /\ c[1] = left[1] + Len(left)
            => Run(rest) /\ rest[1] = left[1])
  BY <1>1, <1>7, CatRuns
<1>10. ASSUME ~s.cl.stale
       PROVE  Run(rest) /\ start = rest[1] /\ At(start, got) /\ q = start + Len(rest)
  <2>1. /\ n = Len(a) => got = a[1] + Len(a)
        /\ n < Len(a) => Run(left) /\ left[1] = a[1] + n /\ At(a[1] + n, got)
    BY <1>1, <1>2, <1>3, <1>10, RestGoesOn
  <2>2. CASE n = Len(a)
    <3>1. left = <<>> /\ rest = c /\ start = p /\ got = p
      BY <1>2, <1>3, <1>7, <1>9, <1>10, <2>1, <2>2
    <3>2. QED BY <1>1, <3>1 DEF At
  <2>3. CASE n < Len(a)
    <3> DEFINE la == Len(a)
               ll == Len(left)
               lr == Len(rest)
               lc == Len(c)
               x == left[1]
               y == a[1]
               z == c[1]
    <3>1. /\ x = y + n /\ b = y /\ z = p /\ p = b + la /\ start = b + n /\ q = p + lc
          /\ ll = la - n /\ lr = ll + lc /\ b \in Int /\ n \in Int /\ p \in Int
          /\ la \in Int /\ lc \in Int
      BY <1>1, <1>2, <1>3, <1>7, <1>9, <1>10, <2>1, <2>3
    <3>2. left # <<>>
      BY <1>7, <2>3
    <3> HIDE DEF la, ll, lr, lc, x, y, z, start, q, b, n
    <3>3. start = x /\ z = x + ll /\ q = start + lr /\ y + n = start
      BY ONLY <3>1
    <3> HIDE DEF rest, left
    <3>4. Run(rest) /\ rest[1] = left[1]
      BY <1>1, <1>9, <2>1, <2>3, <3>2, <3>3 DEF x, z, ll
    <3>5. QED BY <2>1, <2>3, <3>3, <3>4 DEF x, y, lr
  <2>4. QED BY <1>2, <2>2, <2>3
<1> HIDE DEF rest, left, start, got
<1>11. /\ IsState(u) /\ u.ld = d.ld /\ u.cl = d.cl /\ u.io.stash = rest /\ u.io.start = start
       /\ u.io.to = d.io.to /\ u.io.paused = d.io.paused
  <2>1. IsState(d) /\ rest \in Seq(Int) /\ start \in Int
    BY <1>2, <1>5, <1>9
  <2>2. QED BY ONLY <2>1, KeepKeeps
<1> HIDE DEF u
<1>12. ~u.cl.stale => Ahead(u.io, u.cl.got, q) /\ Handed(u.io, q)
  BY <1>5, <1>9, <1>10, <1>11 DEF Ahead, Handed
<1>13. Ready(u, q)
  BY <1>1, <1>5, <1>6, <1>11, <1>12, ReadyIf
<1>14. QED BY <1>5, <1>6, <1>8, <1>11, <1>13

(* Without a stash to fill, the demuxer gets what it left and the chunk.   *)
LEMMA MergeAndPassKeeps ==
  ASSUME NEW s, NEW c, NEW p, Arrives(s, c, p), s.io.stash # <<>>, ~EnableStash
  PROVE  LET u == MergeAndPass(s, c) IN
         Ready(u, p + Len(c)) /\ u.ld = s.ld /\ u.io.paused = s.io.paused
<1> DEFINE a == s.io.stash
           b == s.io.start
           all == Cat(a, c)
           r == Room(s.io, Len(all))
           f == [s EXCEPT !.io = r]
           n == Eaten(all)
           d == DispatchChunks(f, all, b)
           rest == Rest(all, n)
           got == Now(all, n, s.cl.got)
           start == b + n
           to == b + Len(all) - 1
           q == p + Len(c)
           u == [d EXCEPT !.io.stash = rest, !.io.start = start]
<1>1. /\ IsState(s) /\ LastOk(s.cl) /\ Len(c) \in Nat /\ c \in Seq(Int) /\ c # <<>> /\ p \in Int
      /\ q \in Int /\ a \in Seq(Int) /\ b \in Int /\ ~s.io.paused /\ Run(c) /\ c[1] = p
      /\ s.cl.got \in Int /\ IsIo(s.io) /\ a # <<>> /\ Len(a) \in Nat
      /\ (~s.cl.stale => Ahead(s.io, s.cl.got, p))
  BY ArrivesFacts, LenProperties DEF IsState
<1>2. /\ all \in Seq(Int) /\ Len(all) = Len(a) + Len(c) /\ all # <<>>
      /\ (Run(a) /\ c[1] = a[1] + Len(a) => Run(all) /\ all[1] = a[1])
  BY <1>1, CatRuns
<1> HIDE DEF all
<1>3. IsIo(r) /\ SameBytes(s.io, r)
  BY <1>1, RoomSame
<1> HIDE DEF r
<1>4. IsState(f) /\ f.io = r /\ f.ld = s.ld /\ f.cl = s.cl /\ LastOk(f.cl)
  BY <1>1, <1>3 DEF IsState
<1> HIDE DEF f
<1>5. ASSUME ~s.cl.stale
      PROVE  Run(all) /\ b = all[1] /\ At(b, s.cl.got) /\ q = b + Len(all)
  <2>1. Run(a) /\ b = a[1] /\ At(b, s.cl.got) /\ p = b + Len(a)
    BY <1>1, <1>5 DEF Ahead
  <2>2. Run(all) /\ all[1] = a[1]
    BY <1>1, <1>2, <2>1
  <2> DEFINE la == Len(a)
             lc == Len(c)
             lall == Len(all)
  <2>3. p = b + la /\ lall = la + lc /\ q = p + lc /\ b \in Int /\ la \in Int /\ lc \in Int
    BY <1>1, <1>2, <2>1
  <2> HIDE DEF la, lc, lall, q, b
  <2>4. q = b + lall
    BY ONLY <2>3
  <2>5. QED BY <2>1, <2>2, <2>4 DEF lall
<1>6. MayGive(f, all, b)
  <2>1. IsState(f) /\ LastOk(f.cl) /\ f.cl = s.cl /\ all \in Seq(Int) /\ all # <<>> /\ b \in Int
    BY <1>1, <1>2, <1>4
  <2> HIDE DEF b
  <2>2. ~f.cl.stale => Run(all) /\ b = all[1] /\ At(b, f.cl.got)
    BY <1>5, <2>1
  <2>3. QED BY ONLY <2>1, <2>2 DEF MayGive
<1>7. n \in 0..Len(all) /\ Len(all) \in Nat /\ start \in Int /\ to \in Int
  <2>1. n \in 0..Len(all) /\ Len(all) \in Nat
    BY <1>2, EatenInside
  <2>2. b \in Int
    BY <1>1
  <2> HIDE DEF n, b
  <2>3. QED BY <2>1, <2>2
<1>8. /\ IsState(d) /\ LastOk(d.cl) /\ d.ld = f.ld /\ d.cl.stale = f.cl.stale
      /\ d.io = [f.io EXCEPT !.to = to] /\ d.cl.got = got
  BY <1>4, <1>6, DispatchInOrder
<1>9. MergeAndPass(s, c) = [d EXCEPT !.io.stash = rest, !.io.start = d.io.start + n]
  BY DEF MergeAndPass, d, f, r, all, Rest, Cat
<1> HIDE DEF d
<1>10. d.io.start = b /\ d.io.paused = s.io.paused /\ d.io.to = to
  BY <1>3, <1>4, <1>7, <1>8 DEF IsIo, SameBytes
<1>11. rest \in Seq(Int) /\ (n < Len(all) <=> rest # <<>>) /\ Len(rest) = Len(all) - n
  BY <1>2, <1>7, RestTyped
<1>12. ASSUME ~s.cl.stale
       PROVE  /\ n = Len(all) => got = q
              /\ n < Len(all) => /\ Run(rest) /\ rest[1] = start /\ At(start, got)
  <2>1. /\ n = Len(all) => got = all[1] + Len(all)
        /\ n < Len(all) => /\ Run(rest) /\ rest[1] = all[1] + n /\ At(all[1] + n, got)
    BY <1>1, <1>2, <1>5, <1>7, <1>12, RestGoesOn
  <2>2. all[1] = b /\ q = b + Len(all)
    BY <1>5, <1>12
  <2> HIDE DEF got, q, rest, b
  <2>3. QED BY <2>1, <2>2
<1>13. ASSUME ~s.cl.stale
       PROVE  q = start + Len(rest) /\ to + 1 = q
  <2> DEFINE lr == Len(rest)
             l == Len(all)
  <2>1. /\ q = b + l /\ lr = l - n /\ start = b + n /\ to = b + l - 1
        /\ b \in Int /\ l \in Int /\ n \in Int
    BY <1>1, <1>5, <1>7, <1>11, <1>13
  <2> HIDE DEF lr, l, q, start, to, b, n
  <2>2. q = start + lr /\ to + 1 = q
    BY ONLY <2>1
  <2>3. QED BY <2>2 DEF lr
<1> HIDE DEF rest, start, got, n, to, q
<1>14. /\ IsState(u) /\ u.ld = d.ld /\ u.cl = d.cl /\ u.io.stash = rest /\ u.io.start = start
       /\ u.io.to = d.io.to /\ u.io.paused = d.io.paused
  BY <1>7, <1>8, <1>11 DEF IsState, IsIo
<1>15. MergeAndPass(s, c) = u
  BY <1>9, <1>10 DEF start
<1> HIDE DEF u
<1>16. ~u.cl.stale => Ahead(u.io, u.cl.got, q) /\ Handed(u.io, q)
  <2> SUFFICES ASSUME ~s.cl.stale PROVE Ahead(u.io, u.cl.got, q) /\ Handed(u.io, q)
    BY <1>4, <1>8, <1>14
  <2>1. CASE n < Len(all)
    BY <1>8, <1>11, <1>12, <1>13, <1>14, <2>1 DEF Ahead, Handed
  <2>2. CASE n = Len(all)
    BY <1>7, <1>8, <1>10, <1>11, <1>12, <1>13, <1>14, <2>2 DEF Ahead, Handed, At
  <2>3. QED BY <1>7, <2>1, <2>2
<1>17. Ready(u, q)
  BY <1>1, <1>8, <1>10, <1>14, <1>16, ReadyIf
<1>18. QED BY <1>4, <1>8, <1>10, <1>14, <1>15, <1>17 DEF q

(* Only the start of an empty stash may change.                            *)
LEMMA StartStashKeeps ==
  ASSUME NEW s, IsState(s), NEW p \in Int
  PROVE  LET f == StartStash(s, p) IN
         /\ IsState(f) /\ f.ld = s.ld /\ f.cl = s.cl /\ f.io.stash = s.io.stash
         /\ f.io.paused = s.io.paused
         /\ (s.io.stash # <<>> => f = s)
<1>1. CASE s.io.stash = <<>> /\ s.io.start = 0
  <2> DEFINE e == [s EXCEPT !.io.start = p]
  <2>1. StartStash(s, p) = e
    BY <1>1 DEF StartStash
  <2>2. /\ IsState(e) /\ e.ld = s.ld /\ e.cl = s.cl /\ e.io.stash = s.io.stash
        /\ e.io.paused = s.io.paused
    BY DEF IsState, IsIo
  <2> HIDE DEF e
  <2>3. QED BY <1>1, <2>1, <2>2
<1>2. CASE ~(s.io.stash = <<>> /\ s.io.start = 0)
  <2>1. StartStash(s, p) = s
    BY <1>2 DEF StartStash
  <2>2. QED BY <2>1
<1>3. QED BY <1>1, <1>2

LEMMA StashKeeps ==
  ASSUME NEW s, NEW c, NEW p, Arrives(s, c, p)
  PROVE  LET u == Stash(s, c, p) IN
         Ready(u, p + Len(c)) /\ u.ld = s.ld /\ u.io.paused = s.io.paused
<1> DEFINE u == Stash(s, c, p)
           f == StartStash(s, p)
           Good(x) == Ready(x, p + Len(c)) /\ x.ld = s.ld /\ x.io.paused = s.io.paused
<1>1. /\ IsState(s) /\ LastOk(s.cl) /\ c \in Seq(Int) /\ c # <<>> /\ p \in Int
      /\ ~s.io.paused /\ Run(c) /\ c[1] = p /\ (~s.cl.stale => Ahead(s.io, s.cl.got, p))
  BY ArrivesFacts
<1>2. /\ IsState(f) /\ f.ld = s.ld /\ f.cl = s.cl /\ f.io.stash = s.io.stash
      /\ f.io.paused = s.io.paused /\ (s.io.stash # <<>> => f = s)
  BY <1>1, StartStashKeeps
<1> HIDE DEF f
<1>3. ASSUME s.io.stash = <<>>, NEW x, x \in {s, f}
      PROVE  Good(PassOn(x, c, p))
  <2>1. ~s.cl.stale => At(p, s.cl.got)
    BY <1>1, <1>3 DEF Ahead
  <2>2. IsState(x) /\ x.cl = s.cl /\ x.io.stash = <<>> /\ ~x.io.paused /\ x.ld = s.ld
        /\ x.io.paused = s.io.paused
    BY <1>1, <1>2, <1>3
  <2>3. MayGive(x, c, c[1])
    BY <1>1, <2>1, <2>2 DEF MayGive
  <2>4. LET v == PassOn(x, c, c[1]) IN
        Ready(v, c[1] + Len(c)) /\ v.ld = x.ld /\ v.io.paused = x.io.paused
    BY <1>1, <2>2, <2>3, PassOnKeeps
  <2>5. QED BY <1>1, <2>2, <2>4
<1>4. CASE ~EnableStash /\ s.io.stash = <<>>
  <2>1. u = PassOn(s, c, p)
    BY <1>4 DEF Stash
  <2>2. QED BY <1>3, <1>4, <2>1
<1>5. CASE ~EnableStash /\ s.io.stash # <<>>
  <2>1. u = MergeAndPass(s, c)
    BY <1>5 DEF Stash
  <2>2. QED BY <1>5, <2>1, MergeAndPassKeeps
<1>6. CASE EnableStash
  <2>1. u = IF Len(s.io.stash) + Len(c) <= s.io.size THEN JustStash(f, c)
            ELSE IF s.io.stash # <<>> THEN PassAndStash(f, c)
            ELSE PassOn(f, c, p)
    BY <1>6 DEF Stash, f
  <2>2. Good(JustStash(f, c))
    BY <1>6, JustStashKeeps DEF f
  <2>3. s.io.stash # <<>> => Good(PassAndStash(f, c))
    BY <1>2, PassAndStashKeeps
  <2>4. s.io.stash = <<>> => Good(PassOn(f, c, p))
    BY <1>3
  <2> HIDE DEF u, Good
  <2>5. Good(u)
    BY <2>1, <2>2, <2>3, <2>4
  <2>6. QED BY <2>5 DEF Good, u
<1>7. QED BY <1>4, <1>5, <1>6

\* A chunk that continues at p, whether the controller is paused or not.
Comes(c, p) == c \in Seq(Int) /\ c # <<>> /\ Run(c) /\ c[1] = p

LEMMA ArrivalKeeps ==
  ASSUME NEW s, NEW c, NEW p, Ready(s, p), Comes(c, p), NEW size
  PROVE  LET u == OnLoaderChunkArrival(s, c, p, size) IN
         /\ Ready(u, p + Len(c)) /\ u.ld = s.ld /\ u.io.paused = s.io.paused
         /\ (s.io.paused => u = s)
<1>1. CASE s.io.paused
  <2>1. OnLoaderChunkArrival(s, c, p, size) = s
    BY <1>1 DEF OnLoaderChunkArrival
  <2>2. p + Len(c) \in Int
    BY LenProperties DEF Comes, Ready
  <2>3. Ready(s, p + Len(c))
    BY <1>1, <2>2 DEF Ready
  <2>4. QED BY <2>1, <2>3
<1>2. CASE ~s.io.paused
  <2> DEFINE i == [AdjustStashSize(s.io, size) EXCEPT !.retry = FALSE]
             f == [s EXCEPT !.io = i]
  <2>1. OnLoaderChunkArrival(s, c, p, size) = Stash(f, c, p)
    BY <1>2 DEF OnLoaderChunkArrival
  <2>2. IsIo(i) /\ SameBytes(s.io, i)
    BY AdjustSame DEF Ready, Settled, IsState
  <2> HIDE DEF i
  <2>3. Ready(f, p) /\ f.io = i /\ f.ld = s.ld
    BY <2>2, SameReady
  <2> HIDE DEF f
  <2>4. f.io.paused = s.io.paused
    BY <2>2, <2>3 DEF SameBytes
  <2>5. Arrives(f, c, p)
    BY <1>2, <2>3, <2>4 DEF Arrives, Comes, Ready
  <2>6. LET u == Stash(f, c, p) IN
        Ready(u, p + Len(c)) /\ u.ld = f.ld /\ u.io.paused = f.io.paused
    BY <2>5, StashKeeps
  <2>7. QED BY <1>2, <2>1, <2>3, <2>4, <2>6
<1>3. QED BY <1>1, <1>2

-----------------------------------------------------------------------------
(* Seeking, and the ends of a loader.                                      *)

\* A paused controller gives the demuxer nothing.
Silent(s, u) == s.io.paused => u.cl.last = s.cl.last

\* The loader is one of the four.
KindOk == kind.loader \in {"fetch", "moz", "range", "ws"}

LEMMA OpenLoaderAt ==
  ASSUME KindOk, NEW from \in Int
  PROVE  LET l == OpenLoader(from) IN
         /\ IsLd(l) /\ l.stage # "ended" /\ Place(l) = IF Live THEN 0 ELSE from
<1> DEFINE Good(l, at) == IsLd(l) /\ l.stage # "ended" /\ Place(l) = at
           stage == IF kind.sized THEN "request" ELSE "probe"
           range == [Connecting(from) EXCEPT !.stage = stage]
           l == OpenLoader(from)
<1>1. ASSUME NEW at \in Int
      PROVE  Good(Connecting(at), at)
  <2> DEFINE c == Connecting(at)
             zero == 0
  <2>1. IsLd(c) /\ c.stage # "ended" /\ c.from = at /\ c.received = zero
    BY DEF Connecting, IsLd
  <2> HIDE DEF c
  <2>2. Place(c) = at
    BY <2>1 DEF Place
  <2>3. QED BY <2>1, <2>2 DEF c
<1>2. Good(range, from)
  <2> DEFINE zero == 0
  <2>1. stage # "ended"
    OBVIOUS
  <2> HIDE DEF stage
  <2> DEFINE c == Connecting(from)
  <2>0. IsLd(c) /\ c.from = from /\ c.received = zero
    BY DEF Connecting, IsLd
  <2> HIDE DEF c
  <2>2. IsLd(range) /\ range.stage # "ended" /\ range.from = from /\ range.received = zero
    <3> DEFINE r == [c EXCEPT !.stage = stage]
    <3>1. IsLd(r) /\ r.stage # "ended" /\ r.from = from /\ r.received = zero
      BY <2>0, <2>1 DEF IsLd
    <3> HIDE DEF r
    <3>2. QED BY <3>1 DEF r, c
  <2> HIDE DEF range
  <2>3. Place(range) = from
    BY <2>2 DEF Place
  <2>4. QED BY <2>2, <2>3
<1>3. 0 \in Int
  OBVIOUS
<1> HIDE DEF Good
<1>4. CASE kind.loader = "fetch"
  <2>1. l = Connecting(from) /\ ~Live
    BY <1>4 DEF OpenLoader, OpenFetch, Live
  <2>2. QED BY <1>1, <2>1 DEF Good
<1>5. CASE kind.loader = "moz"
  <2>1. l = Connecting(from) /\ ~Live
    BY <1>5 DEF OpenLoader, OpenMoz, Live
  <2>2. QED BY <1>1, <2>1 DEF Good
<1>6. CASE kind.loader = "range"
  <2>1. l = OpenRange(from) /\ ~Live
    BY <1>6 DEF OpenLoader, Live
  <2>2. QED BY <1>2, <2>1 DEF Good, OpenRange
<1>7. CASE kind.loader = "ws"
  <2>1. l = Connecting(0)
    BY <1>7 DEF OpenLoader, OpenSocket
  <2>2. Good(Connecting(0), 0) /\ Live
    BY <1>1, <1>3, <1>7 DEF Live
  <2>3. QED BY <2>1, <2>2 DEF Good
<1>8. QED BY <1>4, <1>5, <1>6, <1>7 DEF KindOk

\* The loader may change where it stands; what is ready stays ready.
LEMMA LoaderReady ==
  ASSUME NEW s, NEW p, Ready(s, p), NEW l, IsLd(l)
  PROVE  LET u == [s EXCEPT !.ld = l] IN
         Ready(u, p) /\ u.ld = l /\ u.io = s.io /\ u.cl = s.cl
<1> DEFINE u == [s EXCEPT !.ld = l]
<1>1. IsState(u) /\ u.ld = l /\ u.io = s.io /\ u.cl = s.cl
  BY DEF Ready, Settled, IsState
<1> HIDE DEF u
<1>2. Settled(u)
  BY <1>1 DEF Ready, Settled
<1>3. QED BY <1>1, <1>2 DEF Ready, u

LEMMA SoundIf ==
  ASSUME NEW u, NEW p, Ready(u, p), IsWorking(u.ld) => u.ld.stage # "ended",
         u.ld.stage # "ended" => p = Place(u.ld)
  PROVE  Sound(u)
BY DEF Sound, Ready

LEMMA ReportKeeps ==
  ASSUME NEW s, Settled(s), NEW what
  PROVE  LET u == Report(s, what) IN
         /\ Settled(u) /\ u.ld = s.ld /\ u.io = s.io /\ u.cl.last = s.cl.last
         /\ \A p : Ready(s, p) => Ready(u, p)
<1> DEFINE r == s.cl.reports \cup {what}
           u == [s EXCEPT !.cl.reports = r]
<1>1. IsState(s)
  BY DEF Settled
<1>2. Report(s, what) = u
  BY DEF Report
<1> HIDE DEF r
<1>3. /\ IsState(u) /\ u.ld = s.ld /\ u.io = s.io /\ u.cl.last = s.cl.last /\ u.cl.got = s.cl.got
      /\ u.cl.stale = s.cl.stale
  BY <1>1 DEF IsState, IsCl
<1> HIDE DEF u
<1>4. Settled(u)
  BY <1>3 DEF Settled, LastOk
<1>5. \A p : Ready(s, p) => Ready(u, p)
  BY <1>3, <1>4 DEF Ready
<1>6. QED BY <1>2, <1>3, <1>4, <1>5

LEMMA LengthKeeps ==
  ASSUME NEW s, NEW p, Ready(s, p), NEW length
  PROVE  LET u == OnContentLengthKnown(s, length) IN
         Ready(u, p) /\ u.ld = s.ld /\ u.cl = s.cl /\ u.io.paused = s.io.paused
<1>1. CASE s.io.full
  <2> DEFINE i == [s.io EXCEPT !.total = length, !.full = FALSE]
             u == [s EXCEPT !.io = i]
  <2>1. IsIo(i) /\ SameBytes(s.io, i)
    BY DEF Ready, Settled, IsState, IsIo, SameBytes
  <2>2. OnContentLengthKnown(s, length) = u
    BY <1>1 DEF OnContentLengthKnown
  <2> HIDE DEF i
  <2>3. Ready(u, p) /\ u.io = i /\ u.ld = s.ld /\ u.cl = s.cl
    BY <2>1, SameReady
  <2>4. QED BY <2>1, <2>2, <2>3 DEF SameBytes
<1>2. CASE ~s.io.full
  BY <1>2 DEF OnContentLengthKnown
<1>3. QED BY <1>1, <1>2

(* A new loader asks for the place where the bytes go on.                  *)
LEMMA InternalSeekKeeps ==
  ASSUME KindOk, NEW s, NEW bytes \in Int, NEW drop \in BOOLEAN, Settled(s),
         ~s.io.paused /\ ~s.cl.stale => Ahead(s.io, s.cl.got, bytes),
         s.io.stash # <<>> => ~drop /\ ~Live
  PROVE  LET u == InternalSeek(s, bytes, drop) IN
         Sound(u) /\ Silent(s, u) /\ u.io.paused = s.io.paused
<1> DEFINE f == FlushStashBuffer(s, drop)
           l == OpenLoader(bytes)
           none == {}
           back == -1
           u == [f EXCEPT !.io.from = bytes, !.io.to = back, !.io.size = StashInitial,
                          !.ld = l, !.cl.reports = none]
<1>1. InternalSeek(s, bytes, drop) = u
  BY DEF InternalSeek
<1>2. /\ Settled(f) /\ f.io.paused = s.io.paused /\ (s.io.stash = <<>> => f = s)
      /\ (f.io.stash # <<>> => ~Live)
      /\ (~f.io.paused /\ ~f.cl.stale => Ahead(f.io, f.cl.got, bytes))
  <2>1. CASE s.io.stash = <<>>
    <3>1. f = s
      BY <2>1 DEF FlushStashBuffer
    <3>2. QED BY <2>1, <3>1
  <2>2. CASE s.io.stash # <<>>
    <3>1. Ready(s, bytes)
      BY <2>2 DEF Ready, Handed
    <3>2. /\ Settled(f) /\ f.io.paused = s.io.paused /\ f.cl.stale = s.cl.stale
          /\ Ready(f, bytes)
      BY <2>2, <3>1, FlushKeeps
    <3> HIDE DEF f
    <3>3. QED BY <2>2, <3>2 DEF Ready
  <2>3. QED BY <2>1, <2>2
<1>3. Silent(s, f)
  BY <1>2 DEF Settled, Silent
<1>4. IsLd(l) /\ l.stage # "ended" /\ Place(l) = IF Live THEN 0 ELSE bytes
  BY OpenLoaderAt
<1>5. back \in Int /\ back + 1 = 0
  OBVIOUS
<1> HIDE DEF f, l, none, back
<1>6. /\ IsState(u) /\ u.ld = l /\ u.cl.got = f.cl.got /\ u.cl.last = f.cl.last
      /\ u.cl.stale = f.cl.stale /\ u.io.stash = f.io.stash /\ u.io.start = f.io.start
      /\ u.io.to = back /\ u.io.paused = f.io.paused /\ u.io.resume = f.io.resume
  BY <1>2, <1>4, <1>5 DEF Settled, IsState, IsIo, IsCl
<1> HIDE DEF u
<1>7. Settled(u)
  BY <1>2, <1>6 DEF Settled, LastOk
<1> DEFINE p == Place(l)
<1>8. p \in Int /\ (p = bytes \/ (p = 0 /\ Live))
  BY <1>4
<1> HIDE DEF p
<1>9. ~u.io.paused /\ ~u.cl.stale => Ahead(u.io, u.cl.got, p) /\ Handed(u.io, p)
  BY <1>2, <1>5, <1>6, <1>8 DEF Ahead, Handed, At
<1>10. Ready(u, p)
  BY <1>7, <1>8, <1>9 DEF Ready
<1>11. Sound(u)
  BY <1>4, <1>6, <1>10, SoundIf DEF p
<1>12. QED BY <1>1, <1>2, <1>3, <1>6, <1>11 DEF Silent

LEMMA CompleteKeeps ==
  ASSUME NEW s, NEW p, Ready(s, p), ~IsWorking(s.ld), s.ld.stage = "ended"
  PROVE  LET u == OnLoaderComplete(s) IN Sound(u) /\ Silent(s, u)
<1> DEFINE f == FlushStashBuffer(s, TRUE)
           u == Report(f, "complete")
<1>1. Settled(f) /\ f.ld = s.ld /\ (s.io.stash = <<>> => f = s)
  BY FlushKeeps
<1>2. s.io.paused => s.io.stash = <<>>
  BY DEF Ready, Settled
<1> HIDE DEF f
<1>3. Settled(u) /\ u.ld = f.ld /\ u.cl.last = f.cl.last
  BY <1>1, ReportKeeps
<1>4. Silent(s, u)
  BY <1>1, <1>2, <1>3 DEF Silent
<1> HIDE DEF u
<1>5. Sound(u)
  BY <1>1, <1>3 DEF Sound
<1>6. QED BY <1>4, <1>5 DEF OnLoaderComplete, u, f

LEMMA RetryKeeps ==
  ASSUME NEW s, NEW p, Ready(s, p), NEW retry
  PROVE  LET u == [s EXCEPT !.io.retry = retry] IN
         /\ Ready(u, p) /\ u.ld = s.ld /\ u.cl = s.cl /\ u.io.paused = s.io.paused
         /\ u.io.stash = s.io.stash /\ u.io.to = s.io.to
<1> DEFINE i == [s.io EXCEPT !.retry = retry]
           u == [s EXCEPT !.io = i]
<1>1. IsIo(i) /\ SameBytes(s.io, i)
  BY DEF Ready, Settled, IsState, IsIo, SameBytes
<1> HIDE DEF i
<1>2. Ready(u, p) /\ u.io = i /\ u.ld = s.ld /\ u.cl = s.cl
  BY <1>1, SameReady
<1> HIDE DEF u
<1>3. /\ Ready(u, p) /\ u.ld = s.ld /\ u.cl = s.cl /\ u.io.paused = s.io.paused
      /\ u.io.stash = s.io.stash /\ u.io.to = s.io.to
  BY <1>1, <1>2 DEF SameBytes
<1>4. QED BY <1>3 DEF u, i

(* The place asked for again is the one behind the last byte handed on, and
   so behind the bytes of the stash.                                       *)
LEMMA ErrorKeeps ==
  ASSUME KindOk, NEW s, NEW p, Ready(s, p), NEW type, ~IsWorking(s.ld),
         s.ld.stage # "ended" => p = Place(s.ld)
  PROVE  LET u == OnLoaderError(s, type) IN Sound(u) /\ Silent(s, u)
<1> DEFINE f == FlushStashBuffer(s, FALSE)
           next == f.io.to + 1
           again == [f EXCEPT !.io.retry = TRUE]
           tired == [f EXCEPT !.io.retry = FALSE]
           Good(u) == Sound(u) /\ Silent(s, u)
           Asks == type = "earlyEof" /\ ~Live /\ f.io.total # None
           Least == next < f.io.total
           sought == InternalSeek(again, next, FALSE)
<1>1. OnLoaderError(s, type) =
        IF f.io.retry THEN Report(tired, "error")
        ELSE IF Asks THEN IF Least THEN sought ELSE f
        ELSE Report(f, "error")
  BY DEF OnLoaderError
<1>2. /\ Settled(f) /\ f.ld = s.ld /\ f.io.paused = s.io.paused /\ f.cl.stale = s.cl.stale
      /\ (s.io.stash = <<>> => f = s) /\ Ready(f, p)
      /\ (~s.io.paused /\ ~s.cl.stale /\ f.io.stash # <<>> => f.io.to + 1 = p)
  BY FlushKeeps
<1>3. s.io.paused => s.io.stash = <<>>
  BY DEF Ready, Settled
<1> HIDE DEF f
<1>4. s.io.paused => f.cl.last = s.cl.last
  BY <1>2, <1>3
<1>5. next \in Int
  BY <1>2 DEF Settled, IsState, IsIo
<1>6. Good(f)
  BY <1>2, <1>4, SoundIf DEF Silent
<1>7. Good(Report(f, "error"))
  <2> DEFINE u == Report(f, "error")
  <2>1. Ready(u, p) /\ u.ld = f.ld /\ u.cl.last = f.cl.last
    BY <1>2, ReportKeeps
  <2> HIDE DEF u
  <2>2. QED BY <1>2, <1>4, <2>1, SoundIf DEF Silent, u
<1>8. Good(Report(tired, "error"))
  <2> DEFINE u == Report(tired, "error")
  <2>1. Ready(tired, p) /\ tired.ld = f.ld /\ tired.cl = f.cl
    BY <1>2, RetryKeeps
  <2> HIDE DEF tired
  <2>2. Ready(u, p) /\ u.ld = tired.ld /\ u.cl.last = tired.cl.last
    BY <2>1, ReportKeeps DEF Ready
  <2> HIDE DEF u
  <2>3. QED BY <1>2, <1>4, <2>1, <2>2, SoundIf DEF Silent, u
<1>9. ASSUME ~Live
      PROVE  Good(sought)
  <2>1. /\ Ready(again, p) /\ again.ld = f.ld /\ again.cl = f.cl /\ again.io.paused = f.io.paused
        /\ again.io.stash = f.io.stash /\ again.io.to = f.io.to
    BY <1>2, RetryKeeps
  <2> HIDE DEF again
  <2>2. ASSUME ~again.io.paused, ~again.cl.stale
        PROVE  Ahead(again.io, again.cl.got, next)
    <3>1. Ahead(again.io, again.cl.got, p) /\ Handed(again.io, p)
      BY <2>1, <2>2 DEF Ready
    <3>2. CASE again.io.stash # <<>>
      <4>1. next = p
        BY <1>2, <2>1, <2>2, <3>2
      <4>2. QED BY <3>1, <4>1
    <3>3. CASE again.io.stash = <<>>
      <4>1. next \in {0, p}
        BY <2>1, <3>1, <3>3 DEF Handed
      <4>2. QED BY <3>1, <3>3, <4>1 DEF Ahead, At
    <3>4. QED BY <3>2, <3>3
  <2> HIDE DEF next
  <2>3. Sound(sought) /\ Silent(again, sought)
    BY <1>5, <1>9, <2>1, <2>2, InternalSeekKeeps DEF Ready
  <2> HIDE DEF sought
  <2>4. Silent(s, sought)
    BY <1>2, <1>4, <2>1, <2>3 DEF Silent
  <2>5. QED BY <2>3, <2>4
<1> HIDE DEF sought, again, tired, next, Least, Good
<1>10. Good(OnLoaderError(s, type))
  BY <1>1, <1>6, <1>7, <1>8, <1>9
<1>11. QED BY <1>10 DEF Good

-----------------------------------------------------------------------------
(* The steps.                                                              *)

Inv == KindOk /\ Sound(State)

LEMMA StateFields == State.io = io /\ State.ld = ld /\ State.cl = cl
BY DEF State

\* What an action has to show of the state it leads to.
Good(u) == Sound(u) /\ Silent(State, u)

\* What every step keeps, and what it does not do while paused.
Stepped == Inv' /\ (io.paused /\ io'.paused => cl'.last = cl.last)

LEMMA BecomeSound ==
  ASSUME KindOk, NEW u, Sound(u), Become(u), kind' = kind
  PROVE  Inv'
<1>1. u = [io |-> io', ld |-> ld', cl |-> cl']
  <2>1. u \in [io : {u.io}, ld : {u.ld}, cl : {u.cl}]
    BY DEF Sound, Settled, IsState
  <2>2. QED BY <2>1 DEF Become
<1>2. Sound([io |-> io', ld |-> ld', cl |-> cl'])
  BY <1>1
<1>3. EnableStash' = EnableStash
  BY DEF EnableStash
<1>4. Sound(State)'
  BY <1>2, <1>3 DEF Sound, State, Settled, IsState, IsIo, IsLd, IsCl, LastOk, Ready, Ahead, Handed, At,
     Run, Place, IsWorking
<1>5. QED BY <1>4 DEF Inv, KindOk

LEMMA BecomeGood ==
  ASSUME KindOk, NEW u, Good(u), Become(u), kind' = kind
  PROVE  Stepped
<1>1. io.paused => cl'.last = cl.last
  BY StateFields DEF Good, Silent, Become
<1>2. QED BY <1>1, BecomeSound DEF Good, Stepped

\* A loader that still works: what it brings next has the place it stands at.
Open == KindOk /\ Ready(State, Place(ld)) /\ IsLd(ld) /\ Place(ld) \in Int

LEMMA IsOpen ==
  ASSUME Inv, ld.stage # "ended"
  PROVE  Open
BY StateFields DEF Inv, Sound, Ready, Settled, IsState, Open

LEMMA ChunkComes ==
  ASSUME Place(ld) \in Int, NEW n \in 1..MaxChunk
  PROVE  Comes(Chunk(n), Place(ld)) /\ Len(Chunk(n)) = n
<1> DEFINE at == Place(ld)
           c == [i \in 1..n |-> at + i - 1]
<1>1. Chunk(n) = c
  BY DEF Chunk, Place
<1>2. n \in Nat /\ n # 0 /\ at \in Int
  BY StashAssumption
<1> HIDE DEF at
<1>3. c \in Seq(Int) /\ Len(c) = n /\ c # <<>> /\ c[1] = at /\ \A i \in 1..n : c[i] = at + i - 1
  BY <1>2
<1> HIDE DEF c
<1>4. Run(c)
  BY <1>3 DEF Run
<1>5. QED BY <1>1, <1>3, <1>4 DEF Comes, at

LEMMA DeliverKeeps ==
  ASSUME Open, NEW s, Ready(s, Place(ld)), NEW n \in 1..MaxChunk, NEW size, NEW l,
         IsLd(l), l.from = ld.from, l.received = ld.received
  PROVE  LET m == [l EXCEPT !.received = @ + n]
             u == OnLoaderChunkArrival([s EXCEPT !.ld = m], Chunk(n), ld.from + ld.received, size)
         IN /\ Ready(u, Place(m)) /\ u.ld = m /\ IsLd(m) /\ m.stage = l.stage /\ m.status = l.status
            /\ Silent(s, u) /\ u.io.paused = s.io.paused
<1> DEFINE k == l.received + n
           m == [l EXCEPT !.received = k]
           f == [s EXCEPT !.ld = m]
           p == Place(ld)
           c == Chunk(n)
           u == OnLoaderChunkArrival(f, c, p, size)
<1>1. n \in Int /\ k \in Int /\ p \in Int
  BY StashAssumption DEF IsLd, Open
<1>2. p + n = l.from + k
  BY <1>1 DEF Open, IsLd, Place
<1> HIDE DEF k
<1>3. IsLd(m) /\ m.stage = l.stage /\ m.status = l.status /\ Place(m) = p + n
  BY <1>1, <1>2 DEF IsLd, Place
<1> HIDE DEF m
<1>4. Ready(f, p) /\ f.ld = m /\ f.io = s.io /\ f.cl = s.cl
  BY <1>3, LoaderReady
<1>5. Comes(c, p) /\ Len(c) = n
  BY <1>1, ChunkComes
<1> HIDE DEF f, c, p
<1>6. /\ Ready(u, p + n) /\ u.ld = f.ld /\ u.io.paused = f.io.paused
      /\ (f.io.paused => u = f)
  BY <1>4, <1>5, ArrivalKeeps
<1> HIDE DEF u
<1>7. Silent(s, u)
  BY <1>4, <1>6 DEF Silent
<1>8. /\ Ready(u, Place(m)) /\ u.ld = m /\ IsLd(m) /\ m.stage = l.stage /\ m.status = l.status
      /\ Silent(s, u) /\ u.io.paused = s.io.paused
  BY <1>3, <1>4, <1>6, <1>7
<1>9. QED BY <1>8 DEF u, f, c, p, m, k, Place

(* The loader gets on, or ends, without a word to the controller.          *)
LEMMA MovedGood ==
  ASSUME Open, NEW l, IsLd(l), IsWorking(l) => l.stage # "ended",
         l.stage # "ended" => Place(l) = Place(ld)
  PROVE  LET u == [State EXCEPT !.ld = l] IN
         /\ Good(u) /\ Ready(u, Place(ld)) /\ u.ld = l /\ u.io = io /\ u.cl = cl
<1> DEFINE u == [State EXCEPT !.ld = l]
<1>1. Ready(u, Place(ld)) /\ u.ld = l /\ u.io = State.io /\ u.cl = State.cl
  BY LoaderReady DEF Open
<1> HIDE DEF u
<1>2. Sound(u)
  BY <1>1, SoundIf
<1>3. Silent(State, u)
  BY <1>1 DEF Silent
<1>4. Good(u) /\ Ready(u, Place(ld)) /\ u.ld = l /\ u.io = io /\ u.cl = cl
  BY <1>1, <1>2, <1>3, StateFields DEF Good
<1>5. QED BY <1>4 DEF u

(* The loader has failed, and tells the controller.                        *)
LEMMA FailedGood ==
  ASSUME Open, NEW l, IsLd(l), ~IsWorking(l), l.stage # "ended" => Place(l) = Place(ld), NEW type
  PROVE  Good(OnLoaderError([State EXCEPT !.ld = l], type))
<1> DEFINE f == [State EXCEPT !.ld = l]
<1>1. Ready(f, Place(ld)) /\ f.ld = l /\ f.io = io /\ f.cl = cl
  BY MovedGood
<1> HIDE DEF f
<1> DEFINE u == OnLoaderError(f, type)
<1>2. Sound(u) /\ Silent(f, u)
  BY <1>1, ErrorKeeps DEF Open
<1> HIDE DEF u
<1>3. Good(u)
  BY <1>1, <1>2, StateFields DEF Good, Silent
<1>4. QED BY <1>3 DEF u, f

(* The loader has come to its end, and tells the controller.               *)
LEMMA EndedGood ==
  ASSUME Open, NEW l, IsLd(l), ~IsWorking(l), l.stage = "ended"
  PROVE  Good(OnLoaderComplete([State EXCEPT !.ld = l]))
<1> DEFINE f == [State EXCEPT !.ld = l]
<1>1. Ready(f, Place(ld)) /\ f.ld = l /\ f.io = io /\ f.cl = cl
  BY MovedGood
<1> HIDE DEF f
<1> DEFINE u == OnLoaderComplete(f)
<1>2. Sound(u) /\ Silent(f, u)
  BY <1>1, CompleteKeeps
<1> HIDE DEF u
<1>3. Good(u)
  BY <1>1, <1>2, StateFields DEF Good, Silent
<1>4. QED BY <1>3 DEF u, f

(* The loader gets on and says how long the file is.                       *)
LEMMA LengthGood ==
  ASSUME Open, NEW l, IsLd(l), l.stage # "ended", Place(l) = Place(ld), NEW length
  PROVE  Good(OnContentLengthKnown([State EXCEPT !.ld = l], length))
<1> DEFINE f == [State EXCEPT !.ld = l]
<1>1. Ready(f, Place(ld)) /\ f.ld = l /\ f.io = io /\ f.cl = cl
  BY MovedGood
<1> HIDE DEF f
<1> DEFINE u == OnContentLengthKnown(f, length)
<1>2. Ready(u, Place(ld)) /\ u.ld = f.ld /\ u.cl = f.cl
  BY <1>1, LengthKeeps
<1> HIDE DEF u
<1>3. Good(u)
  BY <1>1, <1>2, StateFields, SoundIf DEF Good, Silent
<1>4. QED BY <1>3 DEF u, f

LEMMA DeliverGood ==
  ASSUME Open, NEW n \in 1..MaxChunk, NEW size, NEW l, IsLd(l), l.from = ld.from,
         l.received = ld.received, l.stage # "ended"
  PROVE  Good(Deliver(l, n, size))
<1> DEFINE m == [l EXCEPT !.received = @ + n]
           u == OnLoaderChunkArrival([State EXCEPT !.ld = m], Chunk(n), ld.from + ld.received, size)
<1>1. /\ Ready(u, Place(m)) /\ u.ld = m /\ m.stage = l.stage /\ Silent(State, u)
  BY DeliverKeeps DEF Open
<1>2. Deliver(l, n, size) = u
  BY DEF Deliver, Loaded
<1> HIDE DEF u, m
<1>3. Good(u)
  BY <1>1, SoundIf DEF Good
<1>4. QED BY <1>2, <1>3

LEMMA ChunkSizesAre == ChunkSizes \subseteq 1..MaxChunk
BY DEF ChunkSizes

LEMMA FetchResponseKeeps ==
  ASSUME Inv, NEW known \in BOOLEAN, FetchResponse(known)
  PROVE  Stepped
<1> DEFINE opened == [ld EXCEPT !.stage = "pump", !.clen = IF known THEN Size - ld.from ELSE None]
           idle == [ld EXCEPT !.abort = FALSE, !.status = "idle", !.stage = "ended"]
           f == [State EXCEPT !.ld = opened]
<1>1. Open /\ kind' = kind
  BY IsOpen DEF FetchResponse, Quiet
<1>2. IsLd(opened) /\ opened.stage # "ended" /\ Place(opened) = Place(ld)
  BY <1>1 DEF Open, IsLd, Place
<1>3. IsLd(idle) /\ idle.stage = "ended" /\ ~IsWorking(idle)
  BY <1>1 DEF Open, IsLd, IsWorking
<1>4. PICK u \in {[State EXCEPT !.ld = idle], f, OnContentLengthKnown(f, Size - ld.from)} : Become(u)
  BY DEF FetchResponse
<1> HIDE DEF opened, idle
<1>5. Good(u)
  BY <1>1, <1>2, <1>3, <1>4, MovedGood, LengthGood
<1>6. QED BY <1>1, <1>4, <1>5, BecomeGood DEF Inv, Stepped

LEMMA FetchChunkKeeps ==
  ASSUME Inv, FetchChunk
  PROVE  Stepped
<1> DEFINE done == [ld EXCEPT !.abort = FALSE, !.status = "complete", !.stage = "ended"]
           l == [ld EXCEPT !.status = "buffering"]
<1>1. Open /\ kind' = kind /\ ld.stage = "pump"
  BY IsOpen DEF FetchChunk, Quiet
<1>2. IsLd(done) /\ done.stage = "ended" /\ ~IsWorking(done)
  BY <1>1 DEF Open, IsLd, IsWorking
<1>3. IsLd(l) /\ l.stage # "ended" /\ l.from = ld.from /\ l.received = ld.received
  BY <1>1 DEF Open, IsLd
<1>4. Become([State EXCEPT !.ld = done]) \/ \E n \in ChunkSizes, size \in Sizes : Become(Deliver(l, n, size))
  BY DEF FetchChunk
<1> HIDE DEF done, l
<1>5. PICK u : Good(u) /\ Become(u)
  <2>1. CASE Become([State EXCEPT !.ld = done])
    BY <1>1, <1>2, <2>1, MovedGood
  <2>2. CASE \E n \in ChunkSizes, size \in Sizes : Become(Deliver(l, n, size))
    <3>1. PICK n \in ChunkSizes, size \in Sizes : Become(Deliver(l, n, size))
      BY <2>2
    <3>2. Good(Deliver(l, n, size))
      BY <1>1, <1>3, ChunkSizesAre, DeliverGood
    <3>3. QED BY <3>1, <3>2
  <2>3. QED BY <1>4, <2>1, <2>2
<1>6. QED BY <1>1, <1>5, BecomeGood DEF Inv, Stepped

LEMMA FailedIs ==
  ASSUME IsLd(ld)
  PROVE  IsLd(Failed(ld)) /\ ~IsWorking(Failed(ld)) /\ Failed(ld).stage = "ended"
BY DEF IsLd, Failed, IsWorking

LEMMA AbortNowIs ==
  ASSUME IsLd(ld)
  PROVE  IsLd(AbortNow(ld)) /\ ~IsWorking(AbortNow(ld)) /\ AbortNow(ld).stage = "ended"
BY DEF IsLd, AbortNow, IsWorking

LEMMA FetchDoneKeeps ==
  ASSUME Inv, FetchDone
  PROVE  Stepped
<1> DEFINE done == [ld EXCEPT !.status = "complete", !.stage = "ended"]
<1>1. Open /\ kind' = kind
  BY IsOpen DEF FetchDone, Quiet, Fault
<1>2. IsLd(done) /\ done.stage = "ended" /\ ~IsWorking(done)
  BY <1>1 DEF Open, IsLd, IsWorking
<1>3. PICK u \in {OnLoaderError([State EXCEPT !.ld = Failed(ld)], "earlyEof"),
                  OnLoaderComplete([State EXCEPT !.ld = done])} : Become(u)
  BY DEF FetchDone
<1> HIDE DEF done
<1>4. Good(u)
  BY <1>1, <1>2, <1>3, FailedIs, FailedGood, EndedGood DEF Open
<1>5. QED BY <1>1, <1>3, <1>4, BecomeGood DEF Inv, Stepped

LEMMA BrokenKeeps ==
  ASSUME Inv, FetchBroken \/ MozError \/ RangeError
  PROVE  Stepped
<1>1. Open /\ kind' = kind
  BY IsOpen DEF FetchBroken, MozError, RangeError, Fault
<1>2. PICK type : Become(OnLoaderError([State EXCEPT !.ld = Failed(ld)], type))
  BY DEF FetchBroken, MozError, RangeError
<1>3. Good(OnLoaderError([State EXCEPT !.ld = Failed(ld)], type))
  BY <1>1, FailedIs, FailedGood DEF Open
<1>4. QED BY <1>1, <1>2, <1>3, BecomeGood DEF Inv, Stepped

\* The steps of a loader that only changes how far it is.
LEMMA HeadersKeep ==
  ASSUME Inv, MozHeaders \/ RangeProbe \/ WebSocketOpen
  PROVE  Stepped
<1> DEFINE l == [ld EXCEPT !.status = "buffering", !.stage = "pump"]
           m == [ld EXCEPT !.clen = Size - ld.from, !.stage = "request"]
<1>1. Open /\ kind' = kind
  BY IsOpen DEF MozHeaders, RangeProbe, WebSocketOpen, Quiet
<1>2. IsLd(l) /\ l.stage # "ended" /\ Place(l) = Place(ld)
  BY <1>1 DEF Open, IsLd, Place
<1>3. IsLd(m) /\ m.stage # "ended" /\ Place(m) = Place(ld)
  BY <1>1 DEF Open, IsLd, Place
<1>4. PICK u \in {[State EXCEPT !.ld = l], [State EXCEPT !.ld = m]} : Become(u)
  BY DEF MozHeaders, RangeProbe, WebSocketOpen
<1> HIDE DEF l, m
<1>5. Good(u)
  BY <1>1, <1>2, <1>3, <1>4, MovedGood
<1>6. QED BY <1>1, <1>4, <1>5, BecomeGood DEF Inv, Stepped

LEMMA MozProgressKeeps ==
  ASSUME Inv, MozProgress
  PROVE  Stepped
<1> DEFINE clen == IF ld.clen = None THEN Size - ld.from ELSE ld.clen
           known == [ld EXCEPT !.clen = clen]
           first == IF ld.clen = None THEN OnContentLengthKnown(State, known.clen) ELSE State
           Next2(n, size) == OnLoaderChunkArrival(
                               [first EXCEPT !.ld = [known EXCEPT !.received = @ + n]],
                               Chunk(n), ld.from + ld.received, size)
<1>1. Open /\ kind' = kind /\ ld.stage = "pump"
  BY IsOpen DEF MozProgress, Quiet
<1>2. IsLd(known) /\ known.stage # "ended" /\ known.from = ld.from /\ known.received = ld.received
  <2> HIDE DEF clen
  <2>1. QED BY <1>1 DEF Open, IsLd
<1>3. Ready(first, Place(ld)) /\ first.cl = cl /\ first.io.paused = io.paused
  BY <1>1, LengthKeeps, StateFields DEF Open
<1>4. PICK n \in ChunkSizes, size \in Sizes :
        Become(OnLoaderChunkArrival([first EXCEPT !.ld = Loaded(known, n).ld],
                                    Chunk(n), ld.from + ld.received, size))
  BY DEF MozProgress
<1>5. n \in 1..MaxChunk
  BY ChunkSizesAre
<1>6. Loaded(known, n).ld = [known EXCEPT !.received = @ + n]
  BY DEF Loaded, State
<1> HIDE DEF first, known
<1>7. Become(Next2(n, size))
  BY <1>4, <1>6
<1> DEFINE m == [known EXCEPT !.received = @ + n]
           u == OnLoaderChunkArrival([first EXCEPT !.ld = m], Chunk(n), ld.from + ld.received, size)
<1>8. Ready(u, Place(m)) /\ u.ld = m /\ m.stage = known.stage /\ Silent(first, u)
  BY <1>1, <1>2, <1>3, <1>5, DeliverKeeps
<1>9. Next2(n, size) = u
  OBVIOUS
<1> HIDE DEF m, u, Next2
<1>10. Sound(u)
  BY <1>2, <1>8, SoundIf
<1>11. Good(u)
  BY <1>3, <1>8, <1>10, StateFields DEF Good, Silent
<1>12. QED BY <1>1, <1>7, <1>9, <1>11, BecomeGood DEF Inv, Stepped

LEMMA CloseKeeps ==
  ASSUME Inv, MozLoadEnd \/ WebSocketClose
  PROVE  Stepped
<1>1. Open /\ kind' = kind
  BY IsOpen DEF MozLoadEnd, WebSocketClose, Quiet
<1>2. Become(OnLoaderComplete([State EXCEPT !.ld = AbortNow(ld)]))
  BY DEF MozLoadEnd, WebSocketClose
<1>3. Good(OnLoaderComplete([State EXCEPT !.ld = AbortNow(ld)]))
  BY <1>1, AbortNowIs, EndedGood DEF Open
<1>4. QED BY <1>1, <1>2, <1>3, BecomeGood DEF Inv, Stepped

LEMMA RangeHeadersKeep ==
  ASSUME Inv, RangeHeaders
  PROVE  Stepped
<1> DEFINE clen == Size - ld.from
           l == [ld EXCEPT !.status = "buffering", !.stage = "pump", !.clen = clen]
           s == [State EXCEPT !.ld = l]
<1>1. Open /\ kind' = kind
  BY IsOpen DEF RangeHeaders, Quiet
<1>2. IsLd(l) /\ l.stage # "ended" /\ Place(l) = Place(ld)
  <2> HIDE DEF clen
  <2>1. QED BY <1>1 DEF Open, IsLd, Place
<1>3. Become(IF ld.clen = None THEN OnContentLengthKnown(s, clen) ELSE s)
  BY DEF RangeHeaders
<1> HIDE DEF l, clen
<1>4. Good(s) /\ Good(OnContentLengthKnown(s, clen))
  BY <1>1, <1>2, MovedGood, LengthGood
<1>5. QED BY <1>1, <1>3, <1>4, BecomeGood DEF Inv, Stepped

LEMMA RangeLoadKeeps ==
  ASSUME Inv, RangeLoad
  PROVE  Stepped
<1>1. Open /\ kind' = kind
  BY IsOpen DEF RangeLoad, Quiet
<1>2. PICK n \in ChunkSizes :
        LET more == ld.received + n < ld.clen
            s    == Deliver([ld EXCEPT !.stage = IF more THEN "request" ELSE "ended"], n, io.size)
        IN Become(IF more THEN s ELSE OnLoaderComplete([s EXCEPT !.ld.status = "complete"]))
  BY DEF RangeLoad
<1>3. n \in 1..MaxChunk
  BY ChunkSizesAre
<1>4. CASE ld.received + n < ld.clen
  <2> DEFINE l == [ld EXCEPT !.stage = "request"]
  <2>1. Become(Deliver(l, n, io.size))
    BY <1>2, <1>4
  <2>2. IsLd(l) /\ l.stage # "ended" /\ l.from = ld.from /\ l.received = ld.received
    BY <1>1 DEF Open, IsLd
  <2> HIDE DEF l
  <2>3. Good(Deliver(l, n, io.size))
    BY <1>1, <1>3, <2>2, DeliverGood
  <2>4. QED BY <1>1, <2>1, <2>3, BecomeGood DEF Inv, Stepped
<1>5. CASE ~(ld.received + n < ld.clen)
  <2> DEFINE l == [ld EXCEPT !.stage = "ended"]
             m == [l EXCEPT !.received = @ + n]
             s == OnLoaderChunkArrival([State EXCEPT !.ld = m], Chunk(n), ld.from + ld.received, io.size)
             done == [m EXCEPT !.status = "complete"]
             f == [s EXCEPT !.ld = done]
             u == OnLoaderComplete(f)
  <2>1. Become(OnLoaderComplete([Deliver(l, n, io.size) EXCEPT !.ld.status = "complete"]))
    BY <1>2, <1>5
  <2>2. Deliver(l, n, io.size) = s
    BY DEF Deliver, Loaded
  <2>3. IsLd(l) /\ l.stage = "ended" /\ l.from = ld.from /\ l.received = ld.received
    BY <1>1 DEF Open, IsLd
  <2> HIDE DEF l
  <2>4. /\ Ready(s, Place(m)) /\ s.ld = m /\ IsLd(m) /\ m.stage = l.stage /\ Silent(State, s)
        /\ s.io.paused = State.io.paused
    BY <1>1, <1>3, <2>3, DeliverKeeps DEF Open
  <2> HIDE DEF m, s
  <2>5. IsLd(done) /\ done.stage = "ended" /\ ~IsWorking(done)
    BY <2>3, <2>4 DEF IsLd, IsWorking
  <2>6. [s EXCEPT !.ld.status = "complete"] = f
    BY <2>4
  <2> HIDE DEF done
  <2>7. Ready(f, Place(m)) /\ f.ld = done /\ f.io = s.io /\ f.cl = s.cl
    BY <2>4, <2>5, LoaderReady
  <2>8. Become(u)
    BY <2>1, <2>2, <2>6
  <2> HIDE DEF f
  <2>9. Sound(u) /\ Silent(f, u)
    BY <2>5, <2>7, CompleteKeeps
  <2> HIDE DEF u
  <2>10. Good(u)
    BY <2>4, <2>7, <2>9 DEF Good, Silent
  <2>11. QED BY <1>1, <2>8, <2>10, BecomeGood DEF Inv, Stepped
<1>6. QED BY <1>4, <1>5

LEMMA WebSocketMessageKeeps ==
  ASSUME Inv, WebSocketMessage
  PROVE  Stepped
<1>1. Open /\ kind' = kind /\ ld.stage # "ended"
  BY IsOpen DEF WebSocketMessage, Quiet
<1>2. PICK n \in ChunkSizes, size \in Sizes : Become(Deliver(ld, n, size))
  BY DEF WebSocketMessage
<1>3. Good(Deliver(ld, n, size))
  BY <1>1, ChunkSizesAre, DeliverGood DEF Open
<1>4. QED BY <1>1, <1>2, <1>3, BecomeGood DEF Inv, Stepped

LEMMA WebSocketErrorKeeps ==
  ASSUME Inv, WebSocketError
  PROVE  Stepped
<1> DEFINE l == [ld EXCEPT !.status = "error", !.stage = "closing"]
<1>1. Open /\ kind' = kind
  BY IsOpen DEF WebSocketError, Fault
<1>2. IsLd(l) /\ ~IsWorking(l) /\ Place(l) = Place(ld)
  BY <1>1 DEF Open, IsLd, IsWorking, Place
<1>3. Become(OnLoaderError([State EXCEPT !.ld = l], "exception"))
  BY DEF WebSocketError
<1> HIDE DEF l
<1>4. Good(OnLoaderError([State EXCEPT !.ld = l], "exception"))
  BY <1>1, <1>2, FailedGood
<1>5. QED BY <1>1, <1>3, <1>4, BecomeGood DEF Inv, Stepped

LEMMA HttpErrorKeeps ==
  ASSUME Inv, HttpError
  PROVE  Stepped
<1> DEFINE idle == [ld EXCEPT !.abort = FALSE, !.status = "idle", !.stage = "ended"]
<1>1. Open /\ kind' = kind
  BY IsOpen DEF HttpError, Quiet, Fault
<1>2. IsLd(idle) /\ idle.stage = "ended" /\ ~IsWorking(idle)
  BY <1>1 DEF Open, IsLd, IsWorking
<1>3. PICK u \in {[State EXCEPT !.ld = idle],
                  OnLoaderError([State EXCEPT !.ld = Failed(ld)], "httpStatus")} : Become(u)
  BY DEF HttpError
<1> HIDE DEF idle
<1>4. Good(u)
  BY <1>1, <1>2, <1>3, MovedGood, FailedIs, FailedGood DEF Open
<1>5. QED BY <1>1, <1>3, <1>4, BecomeGood DEF Inv, Stepped

(* The bytes in the stash are dropped; the first of them, or else the one
   behind the last byte handed on, is asked for when the player resumes.   *)
LEMMA PauseKeeps ==
  ASSUME Inv, Pause
  PROVE  Stepped
<1> DEFINE at == IF io.stash # <<>> THEN io.start ELSE io.to + 1
           to == at - 1
           e == <<>>
           zero == 0
           l == AbortLoader(ld)
           i == [io EXCEPT !.resume = at, !.to = to, !.stash = e, !.start = zero, !.paused = TRUE]
           u == [State EXCEPT !.ld = l, !.io = i]
           p == Place(ld)
<1>1. IsWorking(ld) /\ ~io.paused /\ kind' = kind /\ Become(u)
  BY DEF Pause, User
<1>2. ld.stage # "ended"
  BY <1>1, StateFields DEF Inv, Sound
<1>3. Open
  BY <1>2, IsOpen
<1>4. /\ IsState(State) /\ LastOk(cl) /\ IsIo(io) /\ p \in Int
      /\ (~cl.stale => Ahead(io, cl.got, p) /\ Handed(io, p))
  BY <1>1, <1>3, StateFields DEF Open, Ready, Settled, IsState
<1>5. ~cl.stale => At(at, cl.got)
  <2>1. CASE io.stash # <<>>
    BY <1>4, <2>1 DEF Ahead
  <2>2. CASE io.stash = <<>>
    BY <1>4, <2>2 DEF Ahead, Handed, At
  <2>3. QED BY <2>1, <2>2
<1>6. at \in Int /\ to \in Int /\ e \in Seq(Int) /\ zero \in Int /\ e = <<>> /\ zero = 0
  BY <1>4 DEF IsIo
<1>7. IsLd(l) /\ (l.stage # "ended" => Place(l) = p) /\ (IsWorking(l) => l.stage # "ended")
  BY <1>2, <1>3 DEF AbortLoader, AbortFetch, AbortNow, Open, IsLd, Place, IsWorking
<1> HIDE DEF at, to, e, zero, l, p
<1>8. IsIo(i) /\ i.stash = e /\ i.start = zero /\ i.paused /\ i.resume = at
  BY <1>4, <1>6 DEF IsIo
<1> HIDE DEF i
<1>9. IsState(u) /\ u.io = i /\ u.ld = l /\ u.cl = cl
  BY <1>4, <1>7, <1>8, StateFields DEF IsState
<1> HIDE DEF u
<1>10. Settled(u)
  BY <1>4, <1>5, <1>6, <1>8, <1>9 DEF Settled
<1>11. Ready(u, p)
  BY <1>4, <1>8, <1>9, <1>10 DEF Ready
<1>12. Sound(u)
  BY <1>7, <1>9, <1>11, SoundIf
<1>13. QED BY <1>1, <1>12, BecomeSound DEF Inv, Stepped

LEMMA SoughtKeeps ==
  ASSUME KindOk, NEW s, NEW bytes \in Int, Settled(s), ~s.io.paused, s.io.stash = <<>>, s.io.start = 0,
         ~s.cl.stale => At(bytes, s.cl.got), Become(InternalSeek(s, bytes, TRUE)), kind' = kind
  PROVE  Stepped
<1> DEFINE u == InternalSeek(s, bytes, TRUE)
<1>1. ~s.cl.stale => Ahead(s.io, s.cl.got, bytes)
  BY DEF Ahead
<1>2. Sound(u) /\ u.io.paused = s.io.paused
  BY <1>1, InternalSeekKeeps
<1> HIDE DEF u
<1>3. Become(u)
  BY DEF u
<1>4. ~io'.paused
  BY <1>2, <1>3 DEF Become
<1>5. QED BY <1>2, <1>3, <1>4, BecomeSound DEF Stepped

LEMMA ResumeKeeps ==
  ASSUME Inv, Resume
  PROVE  Stepped
<1> DEFINE zero == 0
           i == [io EXCEPT !.paused = FALSE, !.resume = zero]
           s == [State EXCEPT !.io = i]
           at == io.resume
<1>1. io.paused /\ kind' = kind /\ Become(InternalSeek(s, at, TRUE))
  BY DEF Resume
<1>2. /\ IsState(State) /\ LastOk(cl) /\ IsIo(io) /\ io.stash = <<>> /\ io.start = 0
      /\ (~cl.stale => At(at, cl.got)) /\ at \in Int /\ zero \in Int
  BY <1>1, StateFields DEF Inv, Sound, Settled, IsState, IsIo
<1> HIDE DEF zero, at
<1>3. IsIo(i) /\ i.stash = io.stash /\ i.start = io.start /\ ~i.paused
  BY <1>2 DEF IsIo
<1> HIDE DEF i
<1>4. IsState(s) /\ s.io = i /\ s.cl = cl
  BY <1>2, <1>3, StateFields DEF IsState
<1> HIDE DEF s
<1>5. Settled(s)
  BY <1>2, <1>3, <1>4 DEF Settled
<1>6. QED BY <1>1, <1>2, <1>3, <1>4, <1>5, SoughtKeeps DEF Inv

LEMMA SeekKeeps ==
  ASSUME Inv, NEW bytes \in Keyframes, Seek(bytes)
  PROVE  Stepped
<1> DEFINE e == <<>>
           zero == 0
           i == [io EXCEPT !.paused = FALSE, !.stash = e, !.start = zero]
           no == FALSE
           s == [State EXCEPT !.io = i, !.cl.got = bytes, !.cl.last = None, !.cl.stale = no]
<1>1. kind' = kind /\ Become(InternalSeek(s, bytes, TRUE))
  BY DEF Seek, User
<1>2. /\ IsState(State) /\ LastOk(cl) /\ IsIo(io) /\ IsCl(cl) /\ bytes \in Int
      /\ e \in Seq(Int) /\ e = <<>> /\ zero \in Int /\ zero = 0 /\ no \in BOOLEAN
  BY StateFields, SizeAssumption, KeyframeAssumption DEF Inv, Sound, Settled, IsState
<1> HIDE DEF zero, e, no
<1>3. IsIo(i) /\ i.stash = e /\ i.start = zero /\ ~i.paused
  BY <1>2 DEF IsIo
<1> HIDE DEF i
<1>4. /\ IsState(s) /\ s.io = i /\ s.cl.got = bytes /\ s.cl.last = None
  BY <1>2, <1>3, StateFields DEF IsState, IsCl
<1> HIDE DEF s
<1>5. Settled(s)
  BY <1>2, <1>3, <1>4 DEF Settled, LastOk
<1>6. At(bytes, s.cl.got)
  BY <1>4 DEF At
<1>7. QED BY <1>1, <1>2, <1>3, <1>4, <1>5, <1>6, SoughtKeeps DEF Inv

LEMMA InvInit == Init => Inv
<1> SUFFICES ASSUME Init PROVE Inv
  OBVIOUS
<1> DEFINE zero == 0
           total == IF kind.sized /\ ~Live THEN Size ELSE None
           p == Place(ld)
<1>1. KindOk
  BY KindAssumption DEF Init, KindOk
<1>2. io = NewController(total) /\ ld = OpenLoader(zero)
      /\ cl = [got |-> zero, last |-> None, reports |-> {}, stale |-> FALSE]
  BY DEF Init
<1>3. IsLd(ld) /\ ld.stage # "ended" /\ p = zero
  BY <1>1, <1>2, OpenLoaderAt
<1>4. IsCl(cl) /\ ~cl.stale /\ cl.got = zero /\ cl.last = None
  BY <1>2 DEF IsCl
<1> HIDE DEF total
<1>5. IsIo(io) /\ io.stash = <<>> /\ io.start = zero /\ ~io.paused /\ io.to + 1 = zero
  BY <1>2 DEF IsIo, NewController
<1>6. IsState(State)
  BY <1>3, <1>4, <1>5 DEF IsState, State
<1>7. Settled(State)
  BY <1>4, <1>5, <1>6, StateFields DEF Settled, LastOk
<1>8. Ahead(io, cl.got, p) /\ Handed(io, p)
  BY <1>3, <1>4, <1>5 DEF Ahead, Handed, At
<1>9. Ready(State, p)
  BY <1>3, <1>7, <1>8, StateFields DEF Ready
<1>10. Sound(State)
  BY <1>3, <1>9, StateFields, SoundIf
<1>11. QED BY <1>1, <1>10 DEF Inv

LEMMA InvStep == Inv /\ [Next]_vars => Stepped
<1> SUFFICES ASSUME Inv, [Next]_vars PROVE Stepped
  OBVIOUS
<1>1. CASE Network
  BY <1>1, FetchResponseKeeps, FetchChunkKeeps, FetchDoneKeeps, BrokenKeeps, HeadersKeep,
     MozProgressKeeps, CloseKeeps, RangeHeadersKeep, RangeLoadKeeps, WebSocketMessageKeeps,
     WebSocketErrorKeeps, HttpErrorKeeps DEF Network
<1>2. CASE Pause
  BY <1>2, PauseKeeps
<1>3. CASE Resume
  BY <1>3, ResumeKeeps
<1>4. CASE \E bytes \in Keyframes : Seek(bytes)
  BY <1>4, SeekKeeps
<1>5. CASE UNCHANGED vars
  <2>1. Become(State) /\ kind' = kind
    BY <1>5, StateFields DEF vars, Become
  <2>2. Good(State)
    BY DEF Inv, Good, Silent
  <2>3. QED BY <2>1, <2>2, BecomeGood DEF Inv
<1>6. QED BY <1>1, <1>2, <1>3, <1>4, <1>5 DEF Next

LEMMA InvHolds == Spec => []Inv
<1>1. Inv /\ [Next]_vars => Inv'
  BY InvStep DEF Stepped
<1>2. QED BY <1>1, InvInit, PTL DEF Spec

(* What the demuxer is given goes on where it stopped eating, without a gap
   or a byte twice, and carries its place in the file (_dispatchChunks).   *)
THEOREM InOrderHolds == Spec => []InOrder
<1>1. Inv => InOrder
  <2> SUFFICES ASSUME Inv, cl.last # None, ~cl.stale
               PROVE  /\ Consecutive(cl.last.bytes)
                      /\ cl.last.bytes[1] \in {cl.last.due, 0}
                      /\ cl.last.label = cl.last.bytes[1]
    BY DEF InOrder
  <2> DEFINE c == cl.last.bytes
  <2>1. LastOk(cl)
    BY StateFields DEF Inv, Sound, Settled
  <2>2. c \in Seq(Int) /\ Run(c) /\ At(c[1], cl.last.due) /\ cl.last.label = c[1]
    BY <2>1 DEF LastOk
  <2>3. Len(c) \in Nat /\ \A i \in 1..Len(c) : c[i] \in Int
    BY <2>2, ElementOfSeq
  <2> HIDE DEF c
  <2>4. Consecutive(c)
    <3> SUFFICES ASSUME NEW i \in 1..(Len(c) - 1) PROVE c[i + 1] = c[i] + 1
      BY DEF Consecutive
    <3> DEFINE x == c[1]
               j == i + 1
    <3>1. i \in 1..Len(c) /\ j \in 1..Len(c) /\ 1 \in 1..Len(c) /\ i \in Int
      BY <2>3
    <3>2. c[i] = x + i - 1 /\ c[j] = x + j - 1 /\ x \in Int
      BY <2>2, <2>3, <3>1 DEF Run
    <3> HIDE DEF x
    <3>3. c[j] = c[i] + 1
      BY <3>1, <3>2
    <3>4. QED BY <3>3
  <2>5. QED BY <2>2, <2>4 DEF At, c
<1>2. QED BY <1>1, InvHolds, PTL

(* While the controller is paused the demuxer gets nothing, though a loader
   may go on (_onLoaderChunkArrival, _onLoaderError).                      *)
THEOREM PausedStopsHolds == Spec => PausedStops
<1>1. Inv /\ [Next]_vars => [io.paused /\ io'.paused => cl'.last = cl.last]_vars
  BY InvStep DEF Stepped
<1>2. QED BY <1>1, InvHolds, PTL DEF Spec, PausedStops
-----------------------------------------------------------------------------
(* The buffer under the stash: doubling its size makes it fit.             *)

LEMMA TwoToThe ==
  ASSUME NEW n \in Nat
  PROVE  2^n \in Nat /\ n <= 2^n
<1> DEFINE S == 1..n
           T == SUBSET S
           f == [x \in S |-> {x}]
<1>1. IsFiniteSet(S) /\ Cardinality(S) = n
  BY FS_Interval
<1>2. IsFiniteSet(T) /\ Cardinality(T) = 2^n
  BY <1>1, FS_SUBSET
<1>3. f \in Injection(S, T)
  <2>1. f \in [S -> T]
    OBVIOUS
  <2>2. ASSUME NEW a \in S, NEW b \in S, f[a] = f[b] PROVE a = b
    <3>1. {a} = {b}
      BY <2>2
    <3>2. QED BY <3>1
  <2> HIDE DEF f
  <2>3. QED BY <2>1, <2>2 DEF Injection, IsInjective
<1>4. Cardinality(S) <= Cardinality(T)
  BY <1>2, <1>3, FS_Injection
<1>5. Cardinality(T) \in Nat
  BY <1>2, FS_CardinalityType
<1>6. QED BY <1>1, <1>2, <1>4, <1>5

LEMMA ExpandFits ==
  ASSUME NEW i, i.size \in Nat \ {0}, NEW expected \in Nat
  PROVE  \E b \in Nat : expected <= b /\ ExpandBuffer(i, expected) = [i EXCEPT !.buf = b]
<1> DEFINE B(n) == i.size * 2^n + Slack
           Fits0(n) == B(n) >= expected
           S == {n \in 0..expected : Fits0(n)}
           Least(n) == Fits0(n) /\ \A m \in 0..(n - 1) : ~Fits0(m)
           k == CHOOSE n \in 0..expected : Least(n)
<1>0. Slack \in Nat
  BY StashAssumption
<1>1. \A n \in Nat : B(n) \in Nat /\ n <= B(n)
  <2> SUFFICES ASSUME NEW n \in Nat PROVE B(n) \in Nat /\ n <= B(n)
    OBVIOUS
  <2> DEFINE p == 2^n
             z == i.size
  <2>1. p \in Nat /\ n <= p /\ z \in Nat /\ z >= 1
    BY TwoToThe
  <2> HIDE DEF p, z
  <2>2. z * p \in Nat /\ p <= z * p
    BY <2>1
  <2> DEFINE q == z * p
  <2>3. q \in Nat /\ n <= q
    BY <2>1, <2>2
  <2> HIDE DEF q
  <2>4. q + Slack \in Nat /\ n <= q + Slack
    BY <1>0, <2>3
  <2>5. QED BY <2>4 DEF q, p, z
<1> HIDE DEF B
<1>2. expected \in S
  BY <1>1
<1>3. PICK x \in S : \A y \in S : x =< y
  <2>1. S \subseteq Nat /\ S # {}
    BY <1>2
  <2> HIDE DEF S
  <2>2. QED BY <2>1, MinExists
<1>4. x \in 0..expected /\ Least(x)
  <2>1. ASSUME NEW m \in 0..(x - 1), Fits0(m) PROVE FALSE
    <3>1. m \in S /\ m < x
      BY <1>3, <2>1
    <3>2. QED BY <1>3, <3>1
  <2>2. QED BY <1>3, <2>1
<1> HIDE DEF Least
<1>5. k \in 0..expected /\ Least(k)
  BY <1>4
<1>6. ExpandBuffer(i, expected) = [i EXCEPT !.buf = B(k)]
  BY DEF ExpandBuffer, B, Least
<1> HIDE DEF k
<1>7. B(k) \in Nat /\ expected <= B(k)
  BY <1>1, <1>5 DEF Least
<1>8. QED BY <1>6, <1>7

-----------------------------------------------------------------------------
(* The types.  Beside them: the stash ends inside the file and fits its    *)
(* buffer, which never gets smaller; and what is stashed or was handed on  *)
(* ends where the loader is.                                               *)

StashSize == StashSizes \cup {StashInitial}

Statuses == {"idle", "connecting", "buffering", "error", "complete"}

Stages == {"probe", "request", "pump", "closing", "ended"}

IoFields(i) ==
  i \in [stash : Bytes, start : 0..Size, size : StashSize, buf : Nat, from : 0..Size,
         to : -1..(Size - 1), paused : BOOLEAN, resume : 0..Size, retry : BOOLEAN,
         total : 1..Size \cup {None}, full : BOOLEAN]

IoOk(i) ==
  /\ IoFields(i)
  /\ i.start + Len(i.stash) <= Size
  /\ StashInitial <= i.buf /\ i.size <= i.buf /\ Len(i.stash) <= i.buf
  /\ i.paused => i.stash = <<>> /\ i.start = 0
  /\ Live => ~i.retry

LdOk(l) ==
  /\ l \in [status : Statuses, stage : Stages, abort : BOOLEAN, from : 0..Size, received : Nat,
            clen : 0..Size \cup {None}]
  /\ Place(l) \in 0..Size

ClOk(c) ==
  c \in [got : 0..Size, last : {c.last}, reports : SUBSET {"complete", "error"}, stale : BOOLEAN]

StateOk(s) ==
  s \in [io : {s.io}, ld : {s.ld}, cl : {s.cl}] /\ IoOk(s.io) /\ LdOk(s.ld) /\ ClOk(s.cl)

\* A start left behind is not after the last byte handed on, unless the loader
\* was just opened anew, and then the next fault is the end.
Near(i, p) ==
  i.start + Len(i.stash) <= p /\ (i.stash = <<>> /\ ~i.retry => i.start <= i.to + 1)

Fine(s) == StateOk(s) /\ (s.ld.stage # "ended" => Near(s.io, Place(s.ld)))

LEMMA SizeNat ==
  Size \in Nat /\ Size # 0 /\ StashInitial \in Nat \ {0} /\ StashSize \subseteq Nat \ {0} /\ Slack \in Nat
BY SizeAssumption, StashAssumption DEF StashSize

LEMMA StashFacts ==
  ASSUME NEW c \in Bytes
  PROVE  /\ c \in Seq(Int) /\ Len(c) \in Nat /\ (c = <<>> <=> Len(c) = 0)
         /\ \A i \in 1..Len(c) : c[i] \in 0..(Size - 1)
<1> DEFINE S == 0..(Size - 1)
<1>1. c \in Seq(S) /\ S \subseteq Int
  BY DEF Bytes
<1> HIDE DEF S
<1>2. Len(c) \in Nat /\ (c = <<>> <=> Len(c) = 0) /\ \A i \in 1..Len(c) : c[i] \in S
  BY <1>1, EmptySeq, LenProperties, ElementOfSeq
<1>3. c \in Seq(Int)
  BY <1>1, SeqMonotonic
<1>4. QED BY <1>2, <1>3 DEF S

LEMMA RestBytes ==
  ASSUME NEW c \in Bytes, NEW n \in 0..Len(c)
  PROVE  /\ Rest(c, n) \in Bytes /\ Len(Rest(c, n)) = Len(c) - n
         /\ (n < Len(c) <=> Rest(c, n) # <<>>)
<1> DEFINE S == 0..(Size - 1)
           m == n + 1
           k == Len(c)
<1>1. c \in Seq(S) /\ k \in Nat /\ m \in Int /\ n \in 0..k
  BY StashFacts DEF Bytes
<1> HIDE DEF S
<1>2. \A i \in m..k : c[i] \in S
  BY <1>1, ElementOfSeq
<1> HIDE DEF m, k
<1>3. SubSeq(c, m, k) \in Seq(S)
  BY <1>1, <1>2, SubSeqProperties
<1>4. Rest(c, n) \in Bytes
  BY <1>3 DEF Rest, Bytes, S, m, k
<1>5. c \in Seq(Int)
  BY StashFacts
<1>6. QED BY <1>4, <1>5, RestTyped

LEMMA CatBytes ==
  ASSUME NEW a \in Bytes, NEW b \in Bytes
  PROVE  /\ a \o b \in Bytes /\ Len(a \o b) = Len(a) + Len(b)
         /\ (a \o b = <<>> <=> a = <<>> /\ b = <<>>)
<1> DEFINE c == a \o b
           S == 0..(Size - 1)
<1>1. a \in Seq(S) /\ b \in Seq(S)
  BY DEF Bytes
<1> HIDE DEF S
<1>2. c \in Seq(S) /\ Len(c) = Len(a) + Len(b)
  BY <1>1, ConcatProperties
<1> HIDE DEF c
<1>3. c \in Bytes
  BY <1>2 DEF Bytes, S
<1>4. c = <<>> <=> a = <<>> /\ b = <<>>
  BY <1>2, <1>3, StashFacts
<1>5. QED BY <1>2, <1>3, <1>4 DEF c

(* The buffer only grows.                                                  *)
LEMMA RoomOk ==
  ASSUME NEW i, IoOk(i), NEW needed \in Nat
  PROVE  LET j == Room(i, needed) IN
         IoOk(j) /\ needed <= j.buf /\ (\E b \in Nat : j = [i EXCEPT !.buf = b])
<1>1. PICK b \in Nat : Room(i, needed) = [i EXCEPT !.buf = b] /\ i.buf <= b /\ needed <= b
  <2>1. CASE needed > i.buf
    <3>1. i.size \in Nat \ {0} /\ i.buf \in Nat
      BY SizeNat DEF IoOk, IoFields
    <3>2. PICK b \in Nat : needed <= b /\ ExpandBuffer(i, needed) = [i EXCEPT !.buf = b]
      BY <3>1, ExpandFits
    <3>3. i.buf <= b
      BY <2>1, <3>1, <3>2
    <3>4. QED BY <2>1, <3>2, <3>3 DEF Room
  <2>2. CASE ~(needed > i.buf)
    <3>1. i.buf \in Nat /\ i = [i EXCEPT !.buf = i.buf]
      BY DEF IoOk, IoFields
    <3>2. needed <= i.buf /\ i.buf <= i.buf
      BY <2>2, <3>1
    <3>3. QED BY <2>2, <3>1, <3>2 DEF Room
  <2>3. QED BY <2>1, <2>2
<1> DEFINE j == [i EXCEPT !.buf = b]
<1>2. /\ IoFields(j) /\ j.buf = b /\ j.stash = i.stash /\ j.start = i.start /\ j.size = i.size
      /\ j.paused = i.paused /\ j.retry = i.retry
  BY DEF IoOk, IoFields
<1> HIDE DEF j
<1>3. /\ StashInitial \in Nat /\ i.size \in Nat /\ Len(i.stash) \in Nat /\ i.buf \in Nat
  BY SizeNat, StashFacts DEF IoOk, IoFields
<1>4. StashInitial <= b /\ i.size <= b /\ Len(i.stash) <= b
  BY <1>1, <1>3 DEF IoOk
<1>5. IoOk(j)
  BY <1>2, <1>4 DEF IoOk
<1>6. QED BY <1>1, <1>2, <1>5 DEF j

LEMMA AdjustOk ==
  ASSUME NEW i, IoOk(i), NEW size \in StashSize
  PROVE  LET j == [AdjustStashSize(i, size) EXCEPT !.retry = FALSE] IN
         IoOk(j) /\ SameBytes(i, j) /\ j.size = size /\ ~j.retry
<1> DEFINE r == Room(i, size + Slack)
           no == FALSE
           j == [[r EXCEPT !.size = size] EXCEPT !.retry = no]
<1>0. size \in Nat /\ size + Slack \in Nat /\ size <= size + Slack
  BY SizeNat
<1>1. IoOk(r) /\ size + Slack <= r.buf /\ \E b \in Nat : r = [i EXCEPT !.buf = b]
  BY <1>0, RoomOk
<1>2. SameBytes(i, r)
  BY <1>1 DEF SameBytes, IoOk, IoFields
<1>3. [AdjustStashSize(i, size) EXCEPT !.retry = FALSE] = j
  BY DEF AdjustStashSize
<1>4. no \in BOOLEAN /\ no = FALSE
  OBVIOUS
<1> HIDE DEF r, no
<1>5. /\ IoFields(j) /\ j.size = size /\ j.retry = no /\ j.buf = r.buf /\ SameBytes(r, j)
  BY <1>1, <1>4 DEF IoOk, IoFields, SameBytes
<1> HIDE DEF j
<1>6. size <= r.buf
  <2>1. r.buf \in Nat
    BY <1>1 DEF IoOk, IoFields
  <2>2. QED BY <1>0, <1>1, <2>1, SizeNat
<1>7. IoOk(j)
  BY <1>1, <1>4, <1>5, <1>6 DEF IoOk, SameBytes
<1>8. QED BY <1>2, <1>3, <1>4, <1>5, <1>7 DEF SameBytes

(* What is given to the demuxer.                                           *)
LEMMA DispatchOk ==
  ASSUME NEW s, StateOk(s), NEW c \in Bytes, c # <<>>, NEW label \in Nat, label + Len(c) <= Size
  PROVE  LET u == DispatchChunks(s, c, label) IN
         /\ StateOk(u) /\ u.ld = s.ld /\ u.cl.stale = s.cl.stale
         /\ u.io = [s.io EXCEPT !.to = label + Len(c) - 1]
<1> DEFINE n == Eaten(c)
           b == [bytes |-> c, label |-> label, due |-> s.cl.got]
           got == IF n = 0 THEN s.cl.got ELSE c[n] + 1
           to == label + Len(c) - 1
           i == [s.io EXCEPT !.to = to]
           k == [s.cl EXCEPT !.last = b, !.got = got]
           u == [s EXCEPT !.io = i, !.cl = k]
<1>1. c \in Seq(Int) /\ Len(c) \in Nat /\ Len(c) # 0 /\ \A j \in 1..Len(c) : c[j] \in 0..(Size - 1)
  BY StashFacts
<1>2. n \in 0..Len(c)
  BY <1>1, EatenInside
<1> HIDE DEF n
<1>3. got \in 0..Size
  <2>1. CASE n = 0
    BY <2>1 DEF StateOk, ClOk
  <2>2. CASE n # 0
    <3>1. c[n] \in 0..(Size - 1)
      BY <1>1, <1>2, <2>2
    <3>2. QED BY <2>2, <3>1, SizeNat
  <2>3. QED BY <2>1, <2>2
<1>4. to \in -1..(Size - 1)
  BY <1>1, SizeNat
<1>5. DispatchChunks(s, c, label) = u
  BY DEF DispatchChunks, n, StateOk
<1> HIDE DEF got, to, b
<1>6. IoOk(i)
  <2>1. /\ IoFields(i) /\ i.stash = s.io.stash /\ i.start = s.io.start /\ i.size = s.io.size
        /\ i.buf = s.io.buf /\ i.paused = s.io.paused /\ i.retry = s.io.retry
    BY <1>4 DEF StateOk, IoOk, IoFields
  <2> HIDE DEF i
  <2>2. QED BY <2>1 DEF StateOk, IoOk
<1>7. ClOk(k) /\ k.stale = s.cl.stale
  BY <1>3 DEF StateOk, ClOk
<1> HIDE DEF i, k
<1>8. StateOk(u) /\ u.ld = s.ld /\ u.io = i /\ u.cl = k
  BY <1>6, <1>7 DEF StateOk
<1> HIDE DEF u
<1>9. QED BY <1>5, <1>7, <1>8 DEF i, to

\* The stash of s is replaced.
Stashed(s, r, b) == [s EXCEPT !.io.stash = r, !.io.start = b]

LEMMA StashedOk ==
  ASSUME NEW s, StateOk(s), NEW r \in Bytes, NEW b \in Nat, b + Len(r) <= Size, Len(r) <= s.io.buf,
         ~s.io.paused \/ (r = <<>> /\ b = 0)
  PROVE  LET u == Stashed(s, r, b) IN
         /\ StateOk(u) /\ u.ld = s.ld /\ u.cl = s.cl /\ u.io.stash = r /\ u.io.start = b
         /\ u.io.to = s.io.to /\ u.io.retry = s.io.retry /\ u.io.paused = s.io.paused
         /\ u.io.total = s.io.total /\ u.io.buf = s.io.buf /\ u.io.size = s.io.size
<1> DEFINE i == [s.io EXCEPT !.stash = r, !.start = b]
           u == [s EXCEPT !.io = i]
<1>1. b \in 0..Size
  BY StashFacts, SizeNat
<1>2. /\ IoFields(i) /\ i.stash = r /\ i.start = b /\ i.size = s.io.size /\ i.buf = s.io.buf
      /\ i.paused = s.io.paused /\ i.retry = s.io.retry /\ i.to = s.io.to /\ i.total = s.io.total
  BY <1>1 DEF StateOk, IoOk, IoFields
<1>3. Stashed(s, r, b) = u
  BY DEF Stashed, StateOk
<1> HIDE DEF i
<1>4. IoOk(i)
  BY <1>2 DEF StateOk, IoOk
<1>5. StateOk(u) /\ u.io = i /\ u.ld = s.ld /\ u.cl = s.cl
  BY <1>4 DEF StateOk
<1> HIDE DEF u
<1>6. QED BY <1>2, <1>3, <1>5

(* _flushStashBuffer.                                                      *)
LEMMA FlushOk ==
  ASSUME NEW s, StateOk(s), NEW drop \in BOOLEAN
  PROVE  LET u == FlushStashBuffer(s, drop) IN
         /\ StateOk(u) /\ u.ld = s.ld /\ u.io.retry = s.io.retry /\ u.io.paused = s.io.paused
         /\ u.io.total = s.io.total
         /\ (s.io.stash = <<>> => u = s)
         /\ (s.io.stash # <<>> => u.io.start + Len(u.io.stash) <= u.io.to + 1)
         /\ u.io.start + Len(u.io.stash) <= s.io.start + Len(s.io.stash)
<1> DEFINE c == s.io.stash
           b == s.io.start
<1>1. c \in Bytes /\ b \in Nat /\ b + Len(c) <= Size /\ Len(c) <= s.io.buf /\ Len(c) \in Nat
  BY StashFacts DEF StateOk, IoOk, IoFields
<1>2. CASE c = <<>>
  <2>1. FlushStashBuffer(s, drop) = s
    BY <1>2 DEF FlushStashBuffer
  <2>2. b + Len(c) <= b + Len(c)
    BY <1>1
  <2>3. QED BY <1>2, <2>1, <2>2
<1>3. CASE c # <<>>
  <2> DEFINE n == Eaten(c)
             d == DispatchChunks(s, c, b)
             to == b + Len(c) - 1
             r == Rest(c, n)
             e == <<>>
             zero == 0
  <2>1. n \in 0..Len(c)
    BY <1>1, StashFacts, EatenInside
  <2>2. /\ StateOk(d) /\ d.ld = s.ld /\ d.io = [s.io EXCEPT !.to = to]
    BY <1>1, <1>3, DispatchOk
  <2> HIDE DEF n, d, to
  <2>3. /\ d.io.to = to /\ d.io.stash = c /\ d.io.start = b /\ d.io.buf = s.io.buf
        /\ d.io.paused = s.io.paused /\ d.io.retry = s.io.retry /\ d.io.total = s.io.total
        /\ ~d.io.paused
    BY <1>3, <2>2 DEF StateOk, IoOk, IoFields
  <2>4. PICK x \in Bytes, y \in Nat :
          /\ FlushStashBuffer(s, drop) = Stashed(d, x, y)
          /\ y + Len(x) <= b + Len(c) /\ Len(x) <= Len(c) /\ Len(x) \in Nat
    <3>1. CASE n < Len(c) /\ ~drop
      <4>1. FlushStashBuffer(s, drop) = [d EXCEPT !.io.stash = SubSeq(@, n + 1, Len(@)), !.io.start = @ + n]
        BY <1>3, <3>1 DEF FlushStashBuffer, n, d
      <4>2. FlushStashBuffer(s, drop) = Stashed(d, r, b + n)
        BY <2>3, <4>1 DEF Stashed, Rest
      <4>3. r \in Bytes /\ Len(r) = Len(c) - n
        BY <1>1, <2>1, RestBytes
      <4> HIDE DEF r
      <4>4. /\ b + n \in Nat /\ b + n + Len(r) <= b + Len(c) /\ Len(r) <= Len(c) /\ Len(r) \in Nat
        <5> DEFINE k == Len(c)
                   l == Len(r)
        <5>1. k \in Nat /\ b \in Nat /\ n \in 0..k /\ l = k - n
          BY <1>1, <2>1, <4>3
        <5> HIDE DEF k, l, b
        <5>2. b + n \in Nat /\ b + n + l <= b + k /\ l <= k /\ l \in Nat
          BY <5>1
        <5>3. QED BY <5>2 DEF k, l
      <4>5. QED BY <4>2, <4>3, <4>4
    <3>2. CASE ~(n < Len(c) /\ ~drop)
      <4>1. FlushStashBuffer(s, drop) = Stashed(d, e, zero)
        BY <1>3, <3>2 DEF FlushStashBuffer, n, d, Stashed
      <4>2. e \in Bytes /\ Len(e) = 0
        BY EmptySeq DEF Bytes
      <4>3. zero + 0 <= b + Len(c) /\ 0 <= Len(c) /\ zero \in Nat /\ 0 \in Nat
        BY <1>1
      <4>4. QED BY <4>1, <4>2, <4>3
    <3>3. QED BY <3>1, <3>2
  <2> DEFINE u == Stashed(d, x, y)
  <2>5. y + Len(x) <= Size /\ Len(x) <= d.io.buf
    <3>1. Size \in Nat /\ d.io.buf \in Nat
      BY <2>2, SizeNat DEF StateOk, IoOk, IoFields
    <3>2. QED BY <1>1, <2>3, <2>4, <3>1
  <2>6. /\ StateOk(u) /\ u.ld = d.ld /\ u.io.stash = x /\ u.io.start = y /\ u.io.to = d.io.to
        /\ u.io.retry = d.io.retry /\ u.io.paused = d.io.paused /\ u.io.total = d.io.total
    <3>1. /\ StateOk(d) /\ x \in Bytes /\ y \in Nat /\ y + Len(x) <= Size /\ Len(x) <= d.io.buf
          /\ ~d.io.paused
      BY <2>2, <2>3, <2>4, <2>5
    <3>2. QED BY ONLY <3>1, StashedOk
  <2> HIDE DEF u
  <2>7. y + Len(x) <= to + 1
    BY <1>1, <2>4 DEF to
  <2>8. FlushStashBuffer(s, drop) = u
    BY <2>4 DEF u
  <2>9. QED BY <1>3, <2>2, <2>3, <2>4, <2>6, <2>7, <2>8
<1>4. QED BY <1>2, <1>3

LEMMA KeepOk ==
  ASSUME NEW s, StateOk(s), NEW r \in Bytes, NEW b \in Nat, b + Len(r) <= Size, ~s.io.paused
  PROVE  LET u == Keep(s, r, b) IN
         /\ StateOk(u) /\ u.ld = s.ld /\ u.io.stash = r /\ u.io.start = b
<1> DEFINE i == Room(s.io, Len(r))
           m == [s EXCEPT !.io = i]
           u == Stashed(m, r, b)
<1>1. Len(r) \in Nat
  BY StashFacts
<1>2. IoOk(i) /\ Len(r) <= i.buf /\ \E x \in Nat : i = [s.io EXCEPT !.buf = x]
  BY <1>1, RoomOk DEF StateOk
<1>3. i.paused = s.io.paused
  BY <1>2 DEF StateOk, IoOk, IoFields
<1>4. Keep(s, r, b) = u
  BY DEF Keep, Stashed, StateOk
<1> HIDE DEF i
<1>5. StateOk(m) /\ m.io = i /\ m.ld = s.ld
  BY <1>2 DEF StateOk
<1> HIDE DEF m
<1>6. StateOk(u) /\ u.ld = m.ld /\ u.io.stash = r /\ u.io.start = b
  <2>1. /\ StateOk(m) /\ r \in Bytes /\ b \in Nat /\ b + Len(r) <= Size /\ Len(r) <= m.io.buf
        /\ ~m.io.paused
    BY <1>2, <1>3, <1>5
  <2>2. QED BY ONLY <2>1, StashedOk
<1>7. QED BY <1>4, <1>5, <1>6

\* A chunk that ends inside the file; what is stashed ends where it begins.
Fitting(s, c, p) ==
  /\ StateOk(s) /\ ~s.io.paused /\ c \in Bytes /\ c # <<>> /\ p \in Nat /\ p + Len(c) <= Size
  /\ s.io.start + Len(s.io.stash) <= p

\* It was taken, and ends at q.
Taken(s, u, q) == StateOk(u) /\ u.ld = s.ld /\ Near(u.io, q)

LEMMA FittingFacts ==
  ASSUME NEW s, NEW c, NEW p, Fitting(s, c, p)
  PROVE  /\ StateOk(s) /\ ~s.io.paused /\ c \in Bytes /\ c # <<>> /\ p \in Nat /\ p + Len(c) <= Size
         /\ s.io.start + Len(s.io.stash) <= p /\ Len(c) \in Nat \ {0} /\ s.io.stash \in Bytes
         /\ s.io.start \in Nat /\ Len(s.io.stash) \in Nat /\ c \in Seq(Int) /\ s.io.stash \in Seq(Int)
         /\ s.io.buf \in Nat /\ s.io.size \in Nat
         /\ (s.io.stash = <<>> <=> Len(s.io.stash) = 0)
<1>1. StateOk(s) /\ c \in Bytes /\ c # <<>>
  BY DEF Fitting
<1>2. s.io.stash \in Bytes /\ s.io.start \in Nat /\ s.io.buf \in Nat /\ s.io.size \in Nat
  BY <1>1, SizeNat DEF StateOk, IoOk, IoFields
<1>3. Len(c) \in Nat \ {0} /\ c \in Seq(Int)
  BY <1>1, StashFacts
<1>4. /\ Len(s.io.stash) \in Nat /\ s.io.stash \in Seq(Int)
      /\ (s.io.stash = <<>> <=> Len(s.io.stash) = 0)
  BY <1>2, StashFacts
<1>5. QED BY <1>1, <1>2, <1>3, <1>4 DEF Fitting

LEMMA NearIf ==
  ASSUME NEW i, NEW q, i.start + Len(i.stash) <= q, i.stash # <<>> \/ i.start <= i.to + 1
  PROVE  Near(i, q)
BY DEF Near

LEMMA PassOnOk ==
  ASSUME NEW s, NEW c, NEW p, Fitting(s, c, p), s.io.stash = <<>>
  PROVE  Taken(s, PassOn(s, c, p), p + Len(c))
<1> DEFINE n == Eaten(c)
           d == DispatchChunks(s, c, p)
           r == Rest(c, n)
           k == Len(c)
           q == p + k
           to == q - 1
<1>1. /\ StateOk(s) /\ ~s.io.paused /\ c \in Bytes /\ c # <<>> /\ p \in Nat /\ q <= Size
      /\ s.io.start + 0 <= p /\ k \in Nat \ {0} /\ s.io.start \in Nat /\ c \in Seq(Int)
  BY FittingFacts
<1>2. n \in 0..k
  BY <1>1, EatenInside
<1>3. StateOk(d) /\ d.ld = s.ld /\ d.io = [s.io EXCEPT !.to = to] /\ d.cl.stale = s.cl.stale
  BY <1>1, DispatchOk
<1>4. r \in Bytes /\ Len(r) = k - n
  BY <1>1, <1>2, RestBytes
<1>5. PassOn(s, c, p) = IF r = <<>> THEN [d EXCEPT !.cl.stale = @ \/ (EnableStash /\ s.io.start # 0)]
                        ELSE Keep(d, r, p + n)
  BY DEF PassOn, d, r, n, Rest
<1> HIDE DEF n, d, r, k
<1>6. d.io.stash = <<>> /\ d.io.start = s.io.start /\ d.io.to = to /\ d.io.paused = s.io.paused
  BY <1>1, <1>3 DEF StateOk, IoOk, IoFields
<1>7. CASE r = <<>>
  <2> DEFINE stale == d.cl.stale \/ (EnableStash /\ s.io.start # 0)
             m == [d.cl EXCEPT !.stale = stale]
             u == [d EXCEPT !.cl = m]
  <2>1. PassOn(s, c, p) = u
    BY <1>3, <1>5, <1>7 DEF StateOk
  <2>2. stale \in BOOLEAN
    BY <1>3 DEF StateOk, ClOk
  <2> HIDE DEF stale
  <2>3. ClOk(m)
    BY <1>3, <2>2 DEF StateOk, ClOk
  <2> HIDE DEF m
  <2>4. StateOk(u) /\ u.ld = d.ld /\ u.io = d.io
    BY <1>3, <2>3 DEF StateOk
  <2> HIDE DEF u
  <2> DEFINE b == s.io.start
  <2>5. b + 0 <= q /\ b <= to + 1
    <3>1. b \in Nat /\ b + 0 <= p /\ p \in Nat /\ k \in Nat
      BY <1>1
    <3> HIDE DEF b
    <3>2. QED BY <3>1
  <2>6. Len(<<>>) = 0
    OBVIOUS
  <2>7. Near(u.io, q)
    BY <1>6, <2>4, <2>5, <2>6, NearIf
  <2>8. QED BY <1>3, <2>1, <2>4, <2>7 DEF Taken, k
<1>8. CASE r # <<>>
  <2> DEFINE b == p + n
             l == Len(r)
             u == Keep(d, r, b)
  <2>1. b \in Nat /\ b + l <= q /\ b + l <= Size
    <3>1. b + l = q /\ b \in Nat /\ q \in Nat
      BY <1>1, <1>2, <1>4
    <3>2. QED BY <1>1, <3>1
  <2> HIDE DEF b
  <2>2. StateOk(u) /\ u.ld = d.ld /\ u.io.stash = r /\ u.io.start = b
    <3>1. StateOk(d) /\ r \in Bytes /\ b \in Nat /\ b + Len(r) <= Size /\ ~d.io.paused
      BY <1>1, <1>3, <1>4, <1>6, <2>1
    <3>2. QED BY ONLY <3>1, KeepOk
  <2> HIDE DEF u
  <2>3. Near(u.io, q)
    BY <1>8, <2>1, <2>2, NearIf
  <2>4. PassOn(s, c, p) = u
    BY <1>5, <1>8 DEF u, b
  <2>5. QED BY <1>3, <2>2, <2>3, <2>4 DEF Taken, k
<1>9. QED BY <1>7, <1>8

LEMMA StartStashOk ==
  ASSUME NEW s, NEW c, NEW p, Fitting(s, c, p)
  PROVE  LET f == StartStash(s, p) IN
         Fitting(f, c, p) /\ f.ld = s.ld /\ f.io.stash = s.io.stash /\ f.io.size = s.io.size
<1>1. CASE ~(s.io.stash = <<>> /\ s.io.start = 0)
  BY <1>1 DEF StartStash
<1>2. CASE s.io.stash = <<>> /\ s.io.start = 0
  <2> DEFINE e == s.io.stash
             f == Stashed(s, e, p)
  <2>1. StartStash(s, p) = f
    <3>1. StartStash(s, p) = [s EXCEPT !.io.start = p]
      BY <1>2 DEF StartStash
    <3>2. [s EXCEPT !.io.start = p] = f
      BY FittingFacts DEF Stashed, StateOk, IoOk, IoFields
    <3>3. QED BY <3>1, <3>2
  <2>2. /\ StateOk(s) /\ e \in Bytes /\ p \in Nat /\ p + 0 <= Size /\ Len(e) = 0 /\ 0 <= s.io.buf
        /\ ~s.io.paused
    <3>1. /\ StateOk(s) /\ e \in Bytes /\ p \in Nat /\ s.io.buf \in Nat /\ ~s.io.paused
          /\ p + Len(c) <= Size /\ Len(c) \in Nat
      BY FittingFacts
    <3>2. QED BY <1>2, <3>1, SizeNat
  <2>3. /\ StateOk(f) /\ f.ld = s.ld /\ f.io.stash = e /\ f.io.start = p /\ f.io.paused = s.io.paused
        /\ f.io.size = s.io.size
    BY ONLY <2>2, StashedOk
  <2> HIDE DEF f
  <2>4. p + Len(f.io.stash) <= p
    BY <2>2, <2>3
  <2>5. QED BY <2>1, <2>3, <2>4 DEF Fitting
<1>3. QED BY <1>1, <1>2

LEMMA JustStashOk ==
  ASSUME NEW s, NEW c, NEW p, Fitting(s, c, p), Len(s.io.stash) + Len(c) <= s.io.size
  PROVE  Taken(s, JustStash(s, c), p + Len(c))
<1> DEFINE a == s.io.stash
           all == a \o c
           b == s.io.start
           u == Stashed(s, all, b)
<1>1. /\ StateOk(s) /\ ~s.io.paused /\ c \in Bytes /\ c # <<>> /\ p \in Nat /\ p + Len(c) <= Size
      /\ b + Len(a) <= p /\ Len(c) \in Nat /\ Len(a) \in Nat /\ b \in Nat /\ a \in Bytes
      /\ s.io.buf \in Nat /\ s.io.size \in Nat /\ s.io.size <= s.io.buf
  BY FittingFacts DEF StateOk, IoOk
<1>2. all \in Bytes /\ Len(all) = Len(a) + Len(c) /\ all # <<>>
  BY <1>1, CatBytes
<1>3. JustStash(s, c) = u
  BY <1>1 DEF JustStash, Stashed, StateOk, IoOk, IoFields
<1> HIDE DEF all, a, b
<1>4. b + Len(all) <= p + Len(c) /\ b + Len(all) <= Size
  BY <1>1, <1>2, SizeNat
<1>5. Len(all) <= s.io.buf
  BY <1>1, <1>2 DEF a
<1>6. StateOk(u) /\ u.ld = s.ld /\ u.io.stash = all /\ u.io.start = b
  <2>1. /\ StateOk(s) /\ all \in Bytes /\ b \in Nat /\ b + Len(all) <= Size /\ Len(all) <= s.io.buf
        /\ ~s.io.paused
    BY <1>1, <1>2, <1>4, <1>5
  <2>2. QED BY ONLY <2>1, StashedOk
<1> HIDE DEF u
<1>7. Near(u.io, p + Len(c))
  BY <1>2, <1>4, <1>6, NearIf
<1>8. QED BY <1>3, <1>6, <1>7 DEF Taken

LEMMA PassAndStashOk ==
  ASSUME NEW s, NEW c, NEW p, Fitting(s, c, p), s.io.stash # <<>>
  PROVE  Taken(s, PassAndStash(s, c), p + Len(c))
<1> DEFINE a == s.io.stash
           b == s.io.start
           n == Eaten(a)
           d == DispatchChunks(s, a, b)
           r == Rest(a, n)
           all == r \o c
           u == Keep(d, all, b + n)
<1>1. /\ StateOk(s) /\ ~s.io.paused /\ c \in Bytes /\ c # <<>> /\ p \in Nat /\ p + Len(c) <= Size
      /\ b + Len(a) <= p /\ Len(c) \in Nat /\ Len(a) \in Nat /\ b \in Nat /\ a \in Bytes
      /\ a \in Seq(Int)
  BY FittingFacts
<1>2. n \in 0..Len(a)
  BY <1>1, EatenInside
<1>3. b + Len(a) <= Size
  BY <1>1, SizeNat
<1>4. StateOk(d) /\ d.ld = s.ld /\ d.io = [s.io EXCEPT !.to = b + Len(a) - 1]
  BY <1>1, <1>3, DispatchOk
<1>5. PassAndStash(s, c) = Keep(d, all, d.io.start + n)
  BY DEF PassAndStash, Rest
<1> HIDE DEF n, d
<1>6. d.io.start = b /\ d.io.paused = s.io.paused
  BY <1>4 DEF StateOk, IoOk, IoFields
<1>7. r \in Bytes /\ Len(r) = Len(a) - n
  BY <1>1, <1>2, RestBytes
<1> HIDE DEF r, a, b
<1>8. all \in Bytes /\ Len(all) = Len(r) + Len(c) /\ all # <<>>
  BY <1>1, <1>7, CatBytes
<1> HIDE DEF all
<1>9. b + n \in Nat /\ b + n + Len(all) <= p + Len(c) /\ b + n + Len(all) <= Size
  <2>1. b + n \in Nat /\ b + n + Len(all) = b + Len(a) + Len(c)
    BY <1>1, <1>2, <1>7, <1>8
  <2>2. QED BY <1>1, <2>1, SizeNat
<1> DEFINE x == b + n
<1>10. StateOk(d) /\ all \in Bytes /\ x \in Nat /\ x + Len(all) <= Size /\ ~d.io.paused
  BY <1>1, <1>4, <1>6, <1>8, <1>9
<1> HIDE DEF x
<1> DEFINE v == Keep(d, all, x)
<1>11. StateOk(v) /\ v.ld = d.ld /\ v.io.stash = all /\ v.io.start = x
  BY ONLY <1>10, KeepOk
<1> HIDE DEF v
<1>12. Near(v.io, p + Len(c))
  BY <1>8, <1>9, <1>11, NearIf DEF x
<1>13. PassAndStash(s, c) = v
  BY <1>5, <1>6 DEF v, x
<1>14. QED BY <1>4, <1>11, <1>12, <1>13 DEF Taken

LEMMA MergeAndPassOk ==
  ASSUME NEW s, NEW c, NEW p, Fitting(s, c, p)
  PROVE  Taken(s, MergeAndPass(s, c), p + Len(c))
<1> DEFINE a == s.io.stash
           b == s.io.start
           all == a \o c
           n == Eaten(all)
           i == Room(s.io, Len(all))
           m == [s EXCEPT !.io = i]
           to == b + Len(all) - 1
           d == DispatchChunks(m, all, b)
           r == Rest(all, n)
<1>1. /\ StateOk(s) /\ ~s.io.paused /\ c \in Bytes /\ c # <<>> /\ p \in Nat /\ p + Len(c) <= Size
      /\ b + Len(a) <= p /\ Len(c) \in Nat /\ Len(a) \in Nat /\ b \in Nat /\ a \in Bytes
  BY FittingFacts
<1>2. all \in Bytes /\ Len(all) = Len(a) + Len(c) /\ all # <<>>
  BY <1>1, CatBytes
<1>3. MergeAndPass(s, c) = [d EXCEPT !.io.stash = SubSeq(all, n + 1, Len(all)), !.io.start = @ + n]
  BY DEF MergeAndPass
<1> HIDE DEF all
<1>4. n \in 0..Len(all) /\ Len(all) \in Nat
  BY <1>2, StashFacts, EatenInside
<1>5. IoOk(i) /\ Len(all) <= i.buf /\ \E x \in Nat : i = [s.io EXCEPT !.buf = x]
  BY <1>1, <1>4, RoomOk DEF StateOk
<1>6. i.start = b /\ i.paused = s.io.paused
  BY <1>1, <1>5 DEF StateOk, IoOk, IoFields
<1> HIDE DEF i
<1>7. StateOk(m) /\ m.io = i /\ m.ld = s.ld
  BY <1>1, <1>5 DEF StateOk
<1> HIDE DEF m
<1>8. b + Len(all) <= p + Len(c) /\ b + Len(all) <= Size
  <2> DEFINE x == Len(a)
             y == Len(c)
  <2>1. x \in Nat /\ y \in Nat /\ b \in Nat /\ p \in Nat /\ Len(all) = x + y /\ b + x <= p /\ p + y <= Size
    BY <1>1, <1>2
  <2> HIDE DEF x, y, b
  <2>2. b + (x + y) <= p + y /\ b + (x + y) <= Size
    BY <2>1, SizeNat
  <2>3. QED BY <2>1, <2>2 DEF y
<1>9. StateOk(d) /\ d.ld = m.ld /\ d.io = [m.io EXCEPT !.to = to]
  <2>1. StateOk(m) /\ all \in Bytes /\ all # <<>> /\ b \in Nat /\ b + Len(all) <= Size
    BY <1>1, <1>2, <1>7, <1>8
  <2>2. QED BY ONLY <2>1, DispatchOk
<1>10. r \in Bytes /\ Len(r) = Len(all) - n
  BY <1>2, <1>4, RestBytes
<1> HIDE DEF d, to
<1>11. d.io.start = b /\ d.io.paused = s.io.paused /\ d.io.buf = i.buf /\ d.io.to = to
  BY <1>5, <1>6, <1>7, <1>9 DEF StateOk, IoOk, IoFields
<1> DEFINE x == b + n
           v == Stashed(d, r, x)
<1>12. MergeAndPass(s, c) = v
  BY <1>3, <1>11 DEF Stashed, Rest
<1> HIDE DEF r, n
<1>13. x \in Nat /\ x + Len(r) = b + Len(all) /\ Len(r) <= Len(all) /\ Len(r) \in Nat /\ x <= to + 1
  <2> DEFINE y == Len(all)
  <2>1. y \in Nat /\ n \in 0..y /\ b \in Nat /\ Len(r) = y - n
    BY <1>1, <1>4, <1>10
  <2>2. to + 1 = b + y
    BY <2>1 DEF to
  <2> HIDE DEF y, b
  <2>3. x \in Nat /\ x + (y - n) = b + y /\ y - n <= y /\ y - n \in Nat /\ x <= b + y
    BY <2>1
  <2>4. QED BY <2>1, <2>2, <2>3 DEF y
<1> HIDE DEF x
<1>14. Len(r) <= d.io.buf
  <2>1. i.buf \in Nat
    BY <1>5 DEF IoOk, IoFields
  <2>2. QED BY <1>4, <1>5, <1>11, <1>13, <2>1
<1>15. StateOk(d) /\ r \in Bytes /\ x \in Nat /\ x + Len(r) <= Size /\ Len(r) <= d.io.buf /\ ~d.io.paused
  BY <1>1, <1>8, <1>9, <1>10, <1>11, <1>13, <1>14
<1>16. StateOk(v) /\ v.ld = d.ld /\ v.io.stash = r /\ v.io.start = x /\ v.io.to = d.io.to
  BY ONLY <1>15, StashedOk
<1> HIDE DEF v
<1>17. Near(v.io, p + Len(c))
  BY <1>8, <1>11, <1>13, <1>16, NearIf
<1>18. QED BY <1>7, <1>9, <1>12, <1>16, <1>17 DEF Taken

LEMMA StashOk ==
  ASSUME NEW s, NEW c, NEW p, Fitting(s, c, p)
  PROVE  Taken(s, Stash(s, c, p), p + Len(c))
<1> DEFINE f == StartStash(s, p)
<1>1. Fitting(f, c, p) /\ f.ld = s.ld /\ f.io.stash = s.io.stash /\ f.io.size = s.io.size
  BY StartStashOk
<1>2. CASE ~EnableStash /\ s.io.stash = <<>>
  <2>1. Stash(s, c, p) = PassOn(s, c, p)
    BY <1>2 DEF Stash
  <2>2. QED BY <1>2, <2>1, PassOnOk
<1>3. CASE ~EnableStash /\ s.io.stash # <<>>
  <2>1. Stash(s, c, p) = MergeAndPass(s, c)
    BY <1>3 DEF Stash
  <2>2. QED BY <2>1, MergeAndPassOk
<1>4. CASE EnableStash
  <2>1. Stash(s, c, p) = IF Len(s.io.stash) + Len(c) <= s.io.size THEN JustStash(f, c)
                         ELSE IF s.io.stash # <<>> THEN PassAndStash(f, c) ELSE PassOn(f, c, p)
    BY <1>4 DEF Stash
  <2> HIDE DEF f
  <2>2. Taken(f, Stash(s, c, p), p + Len(c))
    BY <1>1, <2>1, JustStashOk, PassAndStashOk, PassOnOk
  <2>3. QED BY <1>1, <2>2 DEF Taken
<1>5. QED BY <1>2, <1>3, <1>4

(* _onLoaderChunkArrival.                                                  *)
LEMMA ArrivalOk ==
  ASSUME NEW s, StateOk(s), NEW p \in Nat, Near(s.io, p), NEW c \in Bytes, c # <<>>, p + Len(c) <= Size,
         NEW size \in StashSize
  PROVE  Taken(s, OnLoaderChunkArrival(s, c, p, size), p + Len(c))
<1>1. CASE s.io.paused
  <2> DEFINE k == Len(c)
             e == s.io.start + Len(s.io.stash)
  <2>1. OnLoaderChunkArrival(s, c, p, size) = s
    BY <1>1 DEF OnLoaderChunkArrival
  <2>2. k \in Nat /\ e \in Int /\ e <= p
    <3>1. s.io.stash \in Bytes /\ s.io.start \in Nat
      BY DEF StateOk, IoOk, IoFields
    <3>2. QED BY <3>1, StashFacts DEF Near
  <2> HIDE DEF k
  <2>3. e <= p + k
    <3> HIDE DEF e
    <3>1. QED BY <2>2
  <2>4. QED BY <2>1, <2>3 DEF Taken, Near, k
<1>2. CASE ~s.io.paused
  <2> DEFINE j == [AdjustStashSize(s.io, size) EXCEPT !.retry = FALSE]
             f == [s EXCEPT !.io = j]
  <2>1. OnLoaderChunkArrival(s, c, p, size) = Stash(f, c, p)
    BY <1>2 DEF OnLoaderChunkArrival
  <2>2. IoOk(j) /\ SameBytes(s.io, j)
    BY AdjustOk DEF StateOk
  <2> HIDE DEF j
  <2>3. StateOk(f) /\ f.io = j /\ f.ld = s.ld
    BY <2>2 DEF StateOk
  <2> HIDE DEF f
  <2>4. Fitting(f, c, p)
    BY <1>2, <2>2, <2>3 DEF Fitting, SameBytes, Near
  <2>5. Taken(f, Stash(f, c, p), p + Len(c))
    BY <2>4, StashOk
  <2>6. QED BY <2>1, <2>3, <2>5 DEF Taken
<1>3. QED BY <1>1, <1>2

-----------------------------------------------------------------------------
(* Loaders that open, and that come to an end.                             *)

LEMMA OpenLoaderOk ==
  ASSUME KindOk, NEW from \in 0..Size
  PROVE  LET l == OpenLoader(from) IN
         LdOk(l) /\ l.stage # "ended" /\ Place(l) = IF Live THEN 0 ELSE from
<1> DEFINE l == OpenLoader(from)
           stage == IF kind.sized THEN "request" ELSE "probe"
           zero == 0
           none == None
           c(a) == Connecting(a)
           r == [c(from) EXCEPT !.stage = stage]
           S == [status : Statuses, stage : Stages, abort : BOOLEAN, from : 0..Size, received : Nat,
                 clen : 0..Size \cup {None}]
<1>1. stage \in Stages /\ zero \in Nat /\ zero \in 0..Size /\ none \in 0..Size \cup {None}
  BY SizeNat DEF Stages
<1>2. l \in {c(from), r, c(zero)}
  BY DEF OpenLoader, OpenFetch, OpenMoz, OpenRange, OpenSocket, KindOk
<1> HIDE DEF stage
<1>3. ASSUME NEW a \in 0..Size PROVE c(a) \in S
  <2> DEFINE k == [status |-> "connecting", stage |-> "request", abort |-> FALSE, from |-> a,
                   received |-> zero, clen |-> none]
  <2>1. c(a) = k
    BY DEF Connecting
  <2> HIDE DEF zero, none, c
  <2>2. k \in S
    BY <1>1 DEF Statuses, Stages
  <2>3. QED BY <2>1, <2>2
<1> HIDE DEF c
<1>4. l \in S
  <2>1. c(from) \in S /\ c(zero) \in S
    BY <1>1, <1>3
  <2>2. r \in S
    BY <1>1, <2>1
  <2> HIDE DEF S, r, l
  <2>3. QED BY <1>2, <2>1, <2>2
<1> HIDE DEF l
<1>5. l.stage # "ended" /\ Place(l) = IF Live THEN 0 ELSE from
  BY SizeNat, OpenLoaderAt DEF l
<1>6. Place(l) \in 0..Size
  BY <1>5, SizeNat
<1>7. QED BY <1>4, <1>5, <1>6 DEF LdOk, l

LEMMA ReportOk ==
  ASSUME NEW s, StateOk(s), NEW what \in {"complete", "error"}
  PROVE  LET u == Report(s, what) IN StateOk(u) /\ u.ld = s.ld /\ u.io = s.io
<1> DEFINE r == s.cl.reports \cup {what}
           k == [s.cl EXCEPT !.reports = r]
           u == [s EXCEPT !.cl = k]
<1>1. r \in SUBSET {"complete", "error"}
  BY DEF StateOk, ClOk
<1>2. Report(s, what) = u
  BY DEF Report, StateOk
<1> HIDE DEF r
<1>3. ClOk(k)
  BY <1>1 DEF StateOk, ClOk
<1> HIDE DEF k
<1>4. StateOk(u) /\ u.ld = s.ld /\ u.io = s.io
  BY <1>3 DEF StateOk
<1>5. QED BY <1>2, <1>4

LEMMA LengthOk ==
  ASSUME NEW s, StateOk(s), NEW length \in 1..Size
  PROVE  LET u == OnContentLengthKnown(s, length) IN
         /\ StateOk(u) /\ u.ld = s.ld
         /\ \A p \in Nat : Near(s.io, p) => Near(u.io, p)
<1>1. CASE ~s.io.full
  BY <1>1 DEF OnContentLengthKnown
<1>2. CASE s.io.full
  <2> DEFINE no == FALSE
             i == [s.io EXCEPT !.total = length, !.full = no]
             u == [s EXCEPT !.io = i]
  <2>1. OnContentLengthKnown(s, length) = u
    BY <1>2 DEF OnContentLengthKnown, StateOk
  <2>2. no \in BOOLEAN
    OBVIOUS
  <2> HIDE DEF no
  <2>3. /\ IoFields(i) /\ i.stash = s.io.stash /\ i.start = s.io.start /\ i.size = s.io.size
        /\ i.buf = s.io.buf /\ i.paused = s.io.paused /\ i.retry = s.io.retry /\ i.to = s.io.to
    BY <2>2 DEF StateOk, IoOk, IoFields
  <2> HIDE DEF i
  <2>4. IoOk(i) /\ \A p \in Nat : Near(s.io, p) => Near(i, p)
    BY <2>3 DEF StateOk, IoOk, Near
  <2>5. StateOk(u) /\ u.io = i /\ u.ld = s.ld
    BY <2>4 DEF StateOk
  <2> HIDE DEF u
  <2>6. QED BY <2>1, <2>4, <2>5
<1>3. QED BY <1>1, <1>2

(* _internalSeek.                                                          *)
LEMMA InternalSeekOk ==
  ASSUME KindOk, NEW s, StateOk(s), NEW bytes \in 0..Size, NEW drop \in BOOLEAN,
         \/ s.io.retry /\ s.io.start + Len(s.io.stash) <= bytes
         \/ s.io.stash = <<>> /\ s.io.start = 0
  PROVE  Fine(InternalSeek(s, bytes, drop))
<1> DEFINE f == FlushStashBuffer(s, drop)
           l == OpenLoader(bytes)
           to == -1
           e == {}
           i == [f.io EXCEPT !.from = bytes, !.to = to, !.size = StashInitial]
           k == [f.cl EXCEPT !.reports = e]
           u == [f EXCEPT !.io = i, !.ld = l, !.cl = k]
           at == Place(l)
<1>1. /\ StateOk(f) /\ f.io.retry = s.io.retry /\ (s.io.stash = <<>> => f = s)
      /\ f.io.start + Len(f.io.stash) <= s.io.start + Len(s.io.stash)
  BY FlushOk
<1>2. InternalSeek(s, bytes, drop) = u
  BY <1>1 DEF InternalSeek, StateOk
<1> HIDE DEF f
<1>3. LdOk(l) /\ l.stage # "ended" /\ at = IF Live THEN 0 ELSE bytes
  BY OpenLoaderOk
<1>4. to \in -1..(Size - 1) /\ to = -1 /\ StashInitial \in StashSize /\ e \in SUBSET {"complete", "error"}
  BY SizeNat DEF StashSize
<1> HIDE DEF l, to, e, at
<1>5. /\ IoFields(i) /\ i.stash = f.io.stash /\ i.start = f.io.start /\ i.size = StashInitial
      /\ i.buf = f.io.buf /\ i.paused = f.io.paused /\ i.retry = f.io.retry /\ i.to = to
  BY <1>1, <1>4 DEF StateOk, IoOk, IoFields
<1> HIDE DEF i
<1>6. IoOk(i)
  BY <1>1, <1>5 DEF StateOk, IoOk
<1>7. ClOk(k)
  BY <1>1, <1>4 DEF StateOk, ClOk
<1> HIDE DEF k
<1>8. StateOk(u) /\ u.io = i /\ u.ld = l
  BY <1>1, <1>3, <1>6, <1>7 DEF StateOk
<1> HIDE DEF u
<1>9. Near(i, at)
  <2>1. CASE s.io.retry /\ s.io.start + Len(s.io.stash) <= bytes
    <3>1. ~Live /\ at = bytes
      BY <1>3, <2>1 DEF StateOk, IoOk
    <3>2. /\ s.io.stash \in Bytes /\ s.io.start \in Int /\ f.io.stash \in Bytes /\ f.io.start \in Int
      BY <1>1 DEF StateOk, IoOk, IoFields
    <3>3. Len(s.io.stash) \in Nat /\ Len(f.io.stash) \in Nat
      BY <3>2, StashFacts
    <3>4. f.io.start + Len(f.io.stash) <= bytes
      <4> DEFINE x == f.io.start + Len(f.io.stash)
                 y == s.io.start + Len(s.io.stash)
      <4>1. x \in Int /\ y \in Int /\ x <= y /\ y <= bytes /\ bytes \in Int
        BY <1>1, <2>1, <3>2, <3>3, SizeNat
      <4> HIDE DEF x, y
      <4>2. x <= bytes
        BY <4>1
      <4>3. QED BY <4>2 DEF x
    <3>5. QED BY <1>1, <1>5, <2>1, <3>1, <3>4 DEF Near
  <2>2. CASE s.io.stash = <<>> /\ s.io.start = 0
    <3>1. i.stash = <<>> /\ i.start = 0 /\ 0 <= to + 1 /\ 0 + 0 <= at /\ Len(<<>>) = 0
      BY <1>1, <1>3, <1>4, <1>5, <2>2
    <3>2. QED BY <1>5, <3>1 DEF Near
  <2>3. QED BY <2>1, <2>2
<1>10. QED BY <1>2, <1>8, <1>9 DEF Fine, at

LEMMA FlushNear ==
  ASSUME NEW s, StateOk(s), NEW p \in Nat, Near(s.io, p), NEW drop \in BOOLEAN
  PROVE  LET u == FlushStashBuffer(s, drop) IN
         Near(u.io, p) /\ (~s.io.retry => u.io.start + Len(u.io.stash) <= u.io.to + 1)
<1> DEFINE u == FlushStashBuffer(s, drop)
<1>1. /\ StateOk(u) /\ u.io.retry = s.io.retry /\ (s.io.stash = <<>> => u = s)
      /\ (s.io.stash # <<>> => u.io.start + Len(u.io.stash) <= u.io.to + 1)
      /\ u.io.start + Len(u.io.stash) <= s.io.start + Len(s.io.stash)
  BY FlushOk
<1> HIDE DEF u
<1>2. /\ s.io.stash \in Bytes /\ s.io.start \in Int /\ u.io.stash \in Bytes /\ u.io.start \in Int
      /\ u.io.to \in Int
  BY <1>1 DEF StateOk, IoOk, IoFields
<1>3. /\ Len(s.io.stash) \in Nat /\ Len(u.io.stash) \in Nat
      /\ (s.io.stash = <<>> <=> Len(s.io.stash) = 0) /\ (u.io.stash = <<>> <=> Len(u.io.stash) = 0)
  BY <1>2, StashFacts
<1>4. u.io.start + Len(u.io.stash) <= p
  <2> DEFINE x == u.io.start + Len(u.io.stash)
             y == s.io.start + Len(s.io.stash)
  <2>1. x \in Int /\ y \in Int /\ x <= y /\ y <= p
    BY <1>1, <1>2, <1>3 DEF Near
  <2> HIDE DEF x, y
  <2>2. x <= p
    BY <2>1
  <2>3. QED BY <2>2 DEF x
<1>5. ~s.io.retry => u.io.start + Len(u.io.stash) <= u.io.to + 1
  BY <1>1, <1>2, <1>3 DEF Near
<1>6. Near(u.io, p)
  BY <1>1, <1>2, <1>3, <1>4, <1>5 DEF Near
<1>7. QED BY <1>5, <1>6 DEF u

LEMMA CompleteOk ==
  ASSUME NEW s, StateOk(s), s.ld.stage = "ended"
  PROVE  Fine(OnLoaderComplete(s))
<1> DEFINE f == FlushStashBuffer(s, TRUE)
           u == Report(f, "complete")
<1>1. StateOk(f) /\ f.ld = s.ld
  BY FlushOk
<1> HIDE DEF f
<1>2. StateOk(u) /\ u.ld = f.ld
  BY <1>1, ReportOk
<1> HIDE DEF u
<1>3. OnLoaderComplete(s) = u
  BY DEF OnLoaderComplete, u, f
<1>4. QED BY <1>1, <1>2, <1>3 DEF Fine

\* The flag of a reconnection under way is set or cleared.
Retried(s, b) == [s EXCEPT !.io.retry = b]

LEMMA RetriedOk ==
  ASSUME NEW s, StateOk(s), NEW b \in BOOLEAN, Live => ~b
  PROVE  LET u == Retried(s, b) IN
         /\ StateOk(u) /\ u.ld = s.ld /\ u.io.retry = b /\ u.io.stash = s.io.stash
         /\ u.io.start = s.io.start /\ u.io.paused = s.io.paused
<1> DEFINE i == [s.io EXCEPT !.retry = b]
           u == [s EXCEPT !.io = i]
<1>1. /\ IoFields(i) /\ i.stash = s.io.stash /\ i.start = s.io.start /\ i.size = s.io.size
      /\ i.buf = s.io.buf /\ i.paused = s.io.paused /\ i.retry = b
  BY DEF StateOk, IoOk, IoFields
<1>2. Retried(s, b) = u
  BY DEF Retried, StateOk
<1> HIDE DEF i
<1>3. IoOk(i)
  BY <1>1 DEF StateOk, IoOk
<1>4. StateOk(u) /\ u.io = i /\ u.ld = s.ld
  BY <1>3 DEF StateOk
<1> HIDE DEF u
<1>5. QED BY <1>1, <1>2, <1>4

(* _onLoaderError.                                                         *)
LEMMA ErrorOk ==
  ASSUME KindOk, NEW s, StateOk(s), Near(s.io, Place(s.ld)), s.ld.stage # "ended" => ~s.io.retry, NEW type
  PROVE  Fine(OnLoaderError(s, type))
<1> DEFINE p == Place(s.ld)
           f == FlushStashBuffer(s, FALSE)
           next == f.io.to + 1
           u == OnLoaderError(s, type)
<1>1. p \in Nat /\ Near(s.io, p)
  BY DEF StateOk, LdOk
<1>2. StateOk(f) /\ f.ld = s.ld /\ f.io.retry = s.io.retry /\ f.io.total = s.io.total
  BY FlushOk
<1>3. Near(f.io, p) /\ (~s.io.retry => f.io.start + Len(f.io.stash) <= next)
  BY <1>1, FlushNear
<1>4. next \in 0..Size
  <2>1. f.io.to \in -1..(Size - 1)
    BY <1>2 DEF StateOk, IoOk, IoFields
  <2> HIDE DEF f
  <2>2. QED BY <2>1, SizeNat
<1>5. CASE f.io.retry
  <2> DEFINE g == Retried(f, FALSE)
             v == Report(g, "error")
  <2>1. u = v
    BY <1>5 DEF OnLoaderError, Retried
  <2>2. StateOk(g) /\ g.ld = f.ld
    BY <1>2, RetriedOk
  <2> HIDE DEF g
  <2>3. StateOk(v) /\ v.ld = g.ld
    BY <2>2, ReportOk
  <2> HIDE DEF v, u, f
  <2>4. v.ld.stage = "ended"
    BY <1>2, <1>5, <2>2, <2>3
  <2>5. QED BY <2>1, <2>3, <2>4 DEF Fine, u
<1>6. CASE ~f.io.retry
  <2>0. Fine(f)
    BY <1>2, <1>3 DEF Fine
  <2> DEFINE early == type = "earlyEof" /\ ~Live /\ f.io.total # None
  <2>1. CASE early /\ next < f.io.total
    <3> DEFINE g == Retried(f, TRUE)
    <3>1. u = InternalSeek(g, next, FALSE)
      BY <1>6, <2>1 DEF OnLoaderError, Retried
    <3>2. StateOk(g) /\ g.io.retry /\ g.io.stash = f.io.stash /\ g.io.start = f.io.start
      BY <1>2, <2>1, RetriedOk
    <3>3. g.io.start + Len(g.io.stash) <= next
      BY <1>2, <1>3, <1>6, <3>2
    <3> HIDE DEF g, f, next
    <3>4. Fine(InternalSeek(g, next, FALSE))
      BY <1>4, <3>2, <3>3, InternalSeekOk
    <3>5. QED BY <3>1, <3>4
  <2>2. CASE early /\ ~(next < f.io.total)
    <3>1. u = f
      BY <1>6, <2>2 DEF OnLoaderError
    <3>2. QED BY <2>0, <3>1
  <2>3. CASE ~early
    <3> DEFINE v == Report(f, "error")
    <3>1. u = v
      BY <1>6, <2>3 DEF OnLoaderError
    <3>2. StateOk(v) /\ v.ld = f.ld /\ v.io = f.io
      BY <1>2, ReportOk
    <3> HIDE DEF v, u, f
    <3>3. QED BY <2>0, <3>1, <3>2 DEF Fine, u
  <2>4. QED BY <2>1, <2>2, <2>3
<1>7. QED BY <1>5, <1>6

-----------------------------------------------------------------------------
(* The steps.                                                              *)

Running == KindOk /\ Fine(State) /\ ld.stage # "ended"

LEMMA RunningFacts ==
  ASSUME Running
  PROVE  /\ StateOk(State) /\ State.io = io /\ State.ld = ld /\ State.cl = cl
         /\ IoOk(io) /\ LdOk(ld) /\ ClOk(cl) /\ Place(ld) \in 0..Size /\ Place(ld) \in Nat
         /\ Near(io, Place(ld)) /\ ld.from \in 0..Size /\ ld.received \in Nat
<1>1. StateOk(State) /\ Near(io, Place(ld))
  BY StateFields DEF Running, Fine
<1>2. IoOk(io) /\ LdOk(ld) /\ ClOk(cl)
  BY <1>1, StateFields DEF StateOk
<1>3. Place(ld) \in 0..Size /\ ld.from \in 0..Size /\ ld.received \in Nat
  BY <1>2 DEF LdOk
<1>4. Place(ld) \in Nat
  BY <1>3, SizeNat
<1>5. QED BY <1>1, <1>2, <1>3, <1>4, StateFields

LEMMA LoaderOk ==
  ASSUME NEW s, StateOk(s), NEW l, LdOk(l)
  PROVE  LET u == [s EXCEPT !.ld = l] IN StateOk(u) /\ u.ld = l /\ u.io = s.io /\ u.cl = s.cl
BY DEF StateOk

LEMMA MovedFine ==
  ASSUME Running, NEW l, LdOk(l), l.stage # "ended" => Place(l) = Place(ld)
  PROVE  LET u == [State EXCEPT !.ld = l] IN Fine(u) /\ StateOk(u) /\ u.ld = l /\ u.io = io
<1> DEFINE u == [State EXCEPT !.ld = l]
<1>1. StateOk(u) /\ u.ld = l /\ u.io = State.io
  BY RunningFacts, LoaderOk
<1> HIDE DEF u
<1>2. u.io = io /\ (l.stage # "ended" => Near(u.io, Place(l)))
  BY <1>1, RunningFacts
<1>3. Fine(u)
  BY <1>1, <1>2 DEF Fine
<1>4. QED BY <1>1, <1>2, <1>3 DEF u

LEMMA FailedFine ==
  ASSUME Running, NEW l, LdOk(l), Place(l) = Place(ld), l.stage # "ended" => ~io.retry, NEW type
  PROVE  Fine(OnLoaderError([State EXCEPT !.ld = l], type))
<1> DEFINE u == [State EXCEPT !.ld = l]
<1>1. StateOk(u) /\ u.ld = l /\ u.io = io
  BY MovedFine
<1> HIDE DEF u
<1>2. Near(u.io, Place(u.ld)) /\ (u.ld.stage # "ended" => ~u.io.retry) /\ KindOk
  BY <1>1, RunningFacts DEF Running
<1>3. Fine(OnLoaderError(u, type))
  BY <1>1, <1>2, ErrorOk
<1>4. QED BY <1>3 DEF u

LEMMA EndedFine ==
  ASSUME Running, NEW l, LdOk(l), l.stage = "ended"
  PROVE  Fine(OnLoaderComplete([State EXCEPT !.ld = l]))
<1> DEFINE u == [State EXCEPT !.ld = l]
<1>1. StateOk(u) /\ u.ld = l
  BY MovedFine
<1> HIDE DEF u
<1>2. Fine(OnLoaderComplete(u))
  BY <1>1, CompleteOk
<1>3. QED BY <1>2 DEF u

LEMMA LengthFine ==
  ASSUME Running, NEW l, LdOk(l), l.stage # "ended", Place(l) = Place(ld), NEW length \in 1..Size
  PROVE  Fine(OnContentLengthKnown([State EXCEPT !.ld = l], length))
<1> DEFINE f == [State EXCEPT !.ld = l]
           u == OnContentLengthKnown(f, length)
<1>1. StateOk(f) /\ f.ld = l /\ f.io = io
  BY MovedFine
<1> HIDE DEF f
<1>2. StateOk(u) /\ u.ld = f.ld /\ \A p \in Nat : Near(f.io, p) => Near(u.io, p)
  BY <1>1, LengthOk
<1> HIDE DEF u
<1>3. Near(u.io, Place(ld))
  BY <1>1, <1>2, RunningFacts
<1>4. Fine(u)
  BY <1>1, <1>2, <1>3 DEF Fine
<1>5. QED BY <1>4 DEF u, f

LEMMA ChunkFits ==
  ASSUME Running, NEW n \in ChunkSizes
  PROVE  /\ n \in Nat \ {0} /\ Place(ld) + n <= Size /\ ld.from < Size
         /\ Chunk(n) \in Bytes /\ Chunk(n) # <<>> /\ Len(Chunk(n)) = n
<1> DEFINE at == Place(ld)
           c == [i \in 1..n |-> at + i - 1]
           S == 0..(Size - 1)
<1>1. at \in Nat /\ ld.from \in Nat /\ ld.received \in Nat /\ at = ld.from + ld.received
  BY RunningFacts, SizeNat DEF Place
<1>2. n \in Nat \ {0} /\ at + n <= Size
  BY <1>1, StashAssumption DEF ChunkSizes
<1>3. ld.from < Size
  BY <1>1, <1>2, SizeNat
<1>4. Chunk(n) = c
  BY DEF Chunk, Place
<1> HIDE DEF at
<1>5. \A i \in 1..n : at + i - 1 \in S
  BY <1>1, <1>2, SizeNat
<1> HIDE DEF S
<1>6. c \in Seq(S) /\ Len(c) = n /\ c # <<>>
  BY <1>2, <1>5
<1> HIDE DEF c
<1>7. QED BY <1>2, <1>3, <1>4, <1>6 DEF Bytes, S, at

(* The loader has received n bytes more, which arrive.                     *)
LEMMA DeliverOk ==
  ASSUME Running, NEW s, StateOk(s), Near(s.io, Place(ld)), NEW n \in ChunkSizes, NEW size \in StashSize,
         NEW l, LdOk(l), l.from = ld.from, l.received = ld.received
  PROVE  LET m == [l EXCEPT !.received = @ + n]
             u == OnLoaderChunkArrival([s EXCEPT !.ld = m], Chunk(n), ld.from + ld.received, size)
         IN LdOk(m) /\ m.stage = l.stage /\ StateOk(u) /\ u.ld = m /\ Near(u.io, Place(m))
<1> DEFINE p == Place(ld)
           r == l.received + n
           m == [l EXCEPT !.received = r]
           f == [s EXCEPT !.ld = m]
           c == Chunk(n)
           u == OnLoaderChunkArrival(f, c, p, size)
<1>1. p \in Nat /\ n \in Nat /\ p + n <= Size /\ c \in Bytes /\ c # <<>> /\ Len(c) = n
  BY RunningFacts, ChunkFits
<1> HIDE DEF c
<1>2. r \in Nat /\ l.from + r = p + n /\ l.from \in Nat
  BY <1>1, RunningFacts, SizeNat DEF Place
<1> HIDE DEF r, p
<1>3. LdOk(m) /\ m.stage = l.stage /\ Place(m) = p + n
  <2>1. /\ m \in [status : Statuses, stage : Stages, abort : BOOLEAN, from : 0..Size, received : Nat,
                  clen : 0..Size \cup {None}]
        /\ m.stage = l.stage /\ m.from = l.from /\ m.received = r
    BY <1>2 DEF LdOk
  <2> HIDE DEF m
  <2>2. Place(m) = p + n /\ p + n \in 0..Size
    BY <1>1, <1>2, <2>1, SizeNat DEF Place
  <2>3. QED BY <2>1, <2>2 DEF LdOk
<1> HIDE DEF m
<1>4. StateOk(f) /\ f.ld = m /\ f.io = s.io
  BY <1>3, LoaderOk
<1> HIDE DEF f
<1>5. Near(f.io, p) /\ p + Len(c) <= Size
  BY <1>1, <1>4 DEF p
<1>6. Taken(f, u, p + Len(c))
  BY <1>1, <1>4, <1>5, ArrivalOk
<1> HIDE DEF u
<1>7. StateOk(u) /\ u.ld = m /\ Near(u.io, Place(m))
  BY <1>1, <1>3, <1>4, <1>6 DEF Taken
<1>8. QED BY <1>3, <1>7 DEF u, f, m, r, c, p, Place

LEMMA SizesAre ==
  ASSUME IoOk(io)
  PROVE  Sizes \subseteq StashSize /\ io.size \in StashSize
BY DEF IoOk, IoFields, Sizes, StashSize

LEMMA DeliverFine ==
  ASSUME Running, NEW n \in ChunkSizes, NEW size \in StashSize, NEW l, LdOk(l), l.from = ld.from,
         l.received = ld.received
  PROVE  Fine(Deliver(l, n, size))
<1> DEFINE m == [l EXCEPT !.received = @ + n]
           u == OnLoaderChunkArrival([State EXCEPT !.ld = m], Chunk(n), ld.from + ld.received, size)
<1>1. StateOk(u) /\ u.ld = m /\ Near(u.io, Place(m))
  <2>1. StateOk(State) /\ Near(State.io, Place(ld))
    BY RunningFacts
  <2>2. QED BY <2>1, DeliverOk
<1>2. Deliver(l, n, size) = u
  BY DEF Deliver, Loaded
<1> HIDE DEF u, m
<1>3. QED BY <1>1, <1>2 DEF Fine

\* What holds of every state.
TypesInv ==
  /\ kind \in [loader : Kinds, sized : BOOLEAN] /\ Fine(State)
  /\ ops \in 0..MaxOps /\ faults \in 0..MaxFaults

LEMMA KindIsOk ==
  ASSUME TypesInv
  PROVE  KindOk
BY KindAssumption DEF TypesInv, KindOk

LEMMA IsRunning ==
  ASSUME TypesInv, ld.stage # "ended"
  PROVE  Running
BY KindIsOk DEF TypesInv, Running

LEMMA BecomeFine ==
  ASSUME NEW u, Fine(u), Become(u), kind' = kind
  PROVE  Fine(State)'
<1>1. u = [io |-> io', ld |-> ld', cl |-> cl']
  <2>1. u \in [io : {u.io}, ld : {u.ld}, cl : {u.cl}]
    BY DEF Fine, StateOk
  <2>2. QED BY <2>1 DEF Become
<1>2. Fine([io |-> io', ld |-> ld', cl |-> cl'])
  BY <1>1
<1>3. Live' = Live
  BY DEF Live
<1>4. QED BY <1>2, <1>3 DEF Fine, State, StateOk, IoOk, IoFields, LdOk, ClOk, Near, Place

\* The counters of a step of the network or of the user.
Counted == kind' = kind /\ ops' \in 0..MaxOps /\ faults' \in 0..MaxFaults

LEMMA CountedSteps ==
  ASSUME TypesInv, Quiet \/ Fault \/ User \/ UNCHANGED <<kind, ops, faults>>
  PROVE  Counted
BY BoundAssumption DEF TypesInv, Quiet, Fault, User, Counted

LEMMA TypesStep ==
  ASSUME TypesInv, Counted, NEW u, Fine(u), Become(u)
  PROVE  TypesInv'
<1>1. Fine(State)'
  BY BecomeFine DEF Counted
<1>2. QED BY <1>1 DEF TypesInv, Counted

LEMMA FetchResponseTypes ==
  ASSUME TypesInv, NEW known \in BOOLEAN, FetchResponse(known)
  PROVE  TypesInv'
<1> DEFINE length == Size - ld.from
           clen == IF known THEN length ELSE None
           opened == [ld EXCEPT !.stage = "pump", !.clen = clen]
           idle == [ld EXCEPT !.abort = FALSE, !.status = "idle", !.stage = "ended"]
           f == [State EXCEPT !.ld = opened]
<1>1. Running /\ Counted
  BY IsRunning, CountedSteps DEF FetchResponse
<1>2. length \in 1..Size /\ clen \in 0..Size \cup {None}
  BY <1>1, RunningFacts, SizeNat DEF FetchResponse
<1>3. PICK u \in {[State EXCEPT !.ld = idle], f, OnContentLengthKnown(f, length)} : Become(u)
  BY DEF FetchResponse
<1> HIDE DEF clen, length
<1>4. LdOk(opened) /\ opened.stage # "ended" /\ Place(opened) = Place(ld)
  BY <1>1, <1>2, RunningFacts DEF LdOk, Stages, Place
<1>5. LdOk(idle) /\ idle.stage = "ended"
  BY <1>1, RunningFacts DEF LdOk, Stages, Statuses, Place
<1> HIDE DEF opened, idle
<1>6. Fine(u)
  BY <1>1, <1>2, <1>3, <1>4, <1>5, MovedFine, LengthFine
<1>7. QED BY <1>1, <1>3, <1>6, TypesStep

LEMMA FetchChunkTypes ==
  ASSUME TypesInv, FetchChunk
  PROVE  TypesInv'
<1> DEFINE done == [ld EXCEPT !.abort = FALSE, !.status = "complete", !.stage = "ended"]
           l == [ld EXCEPT !.status = "buffering"]
<1>1. Running /\ Counted
  BY IsRunning, CountedSteps DEF FetchChunk
<1>2. LdOk(done) /\ done.stage = "ended"
  BY <1>1, RunningFacts DEF LdOk, Stages, Statuses, Place
<1>3. LdOk(l) /\ l.from = ld.from /\ l.received = ld.received
  BY <1>1, RunningFacts DEF LdOk, Statuses, Place
<1>4. Become([State EXCEPT !.ld = done]) \/ \E n \in ChunkSizes, size \in Sizes : Become(Deliver(l, n, size))
  BY DEF FetchChunk
<1> HIDE DEF done, l
<1>5. PICK u : Fine(u) /\ Become(u)
  <2>1. CASE Become([State EXCEPT !.ld = done])
    BY <1>1, <1>2, <2>1, MovedFine
  <2>2. CASE \E n \in ChunkSizes, size \in Sizes : Become(Deliver(l, n, size))
    <3>1. PICK n \in ChunkSizes, size \in Sizes : Become(Deliver(l, n, size))
      BY <2>2
    <3>2. size \in StashSize
      BY <1>1, RunningFacts, SizesAre
    <3>3. Fine(Deliver(l, n, size))
      BY <1>1, <1>3, <3>2, DeliverFine
    <3>4. QED BY <3>1, <3>3
  <2>3. QED BY <1>4, <2>1, <2>2
<1>6. QED BY <1>1, <1>5, TypesStep

LEMMA FailedOk ==
  ASSUME Running
  PROVE  /\ LdOk(Failed(ld)) /\ Failed(ld).stage = "ended" /\ Place(Failed(ld)) = Place(ld)
         /\ LdOk(AbortNow(ld)) /\ AbortNow(ld).stage = "ended"
<1>1. LdOk(ld)
  BY RunningFacts
<1>2. LdOk(Failed(ld)) /\ Failed(ld).stage = "ended" /\ Place(Failed(ld)) = Place(ld)
  BY <1>1 DEF LdOk, Stages, Statuses, Place, Failed
<1>3. LdOk(AbortNow(ld)) /\ AbortNow(ld).stage = "ended"
  BY <1>1 DEF LdOk, Stages, Statuses, Place, AbortNow
<1>4. QED BY <1>2, <1>3

LEMMA FetchDoneTypes ==
  ASSUME TypesInv, FetchDone
  PROVE  TypesInv'
<1> DEFINE done == [ld EXCEPT !.status = "complete", !.stage = "ended"]
<1>1. Running /\ Counted
  BY IsRunning, CountedSteps DEF FetchDone
<1>2. LdOk(done) /\ done.stage = "ended"
  BY <1>1, RunningFacts DEF LdOk, Stages, Statuses, Place
<1>3. PICK u \in {OnLoaderError([State EXCEPT !.ld = Failed(ld)], "earlyEof"),
                  OnLoaderComplete([State EXCEPT !.ld = done])} : Become(u)
  BY DEF FetchDone
<1> HIDE DEF done
<1>4. Fine(u)
  BY <1>1, <1>2, <1>3, FailedOk, FailedFine, EndedFine
<1>5. QED BY <1>1, <1>3, <1>4, TypesStep

LEMMA BrokenTypes ==
  ASSUME TypesInv, FetchBroken \/ MozError \/ RangeError
  PROVE  TypesInv'
<1>1. Running /\ Counted
  BY IsRunning, CountedSteps DEF FetchBroken, MozError, RangeError
<1>2. PICK type : Become(OnLoaderError([State EXCEPT !.ld = Failed(ld)], type))
  BY DEF FetchBroken, MozError, RangeError
<1>3. Fine(OnLoaderError([State EXCEPT !.ld = Failed(ld)], type))
  BY <1>1, FailedOk, FailedFine
<1>4. QED BY <1>1, <1>2, <1>3, TypesStep

LEMMA HeadersTypes ==
  ASSUME TypesInv, MozHeaders \/ RangeProbe \/ WebSocketOpen
  PROVE  TypesInv'
<1> DEFINE clen == Size - ld.from
           l == [ld EXCEPT !.status = "buffering", !.stage = "pump"]
           m == [ld EXCEPT !.clen = clen, !.stage = "request"]
<1>1. Running /\ Counted
  BY IsRunning, CountedSteps DEF MozHeaders, RangeProbe, WebSocketOpen
<1>2. clen \in 0..Size
  BY <1>1, RunningFacts, SizeNat
<1>3. PICK u \in {[State EXCEPT !.ld = l], [State EXCEPT !.ld = m]} : Become(u)
  BY DEF MozHeaders, RangeProbe, WebSocketOpen
<1> HIDE DEF clen
<1>4. LdOk(l) /\ l.stage # "ended" /\ Place(l) = Place(ld)
  BY <1>1, RunningFacts DEF LdOk, Stages, Statuses, Place
<1>5. LdOk(m) /\ m.stage # "ended" /\ Place(m) = Place(ld)
  BY <1>1, <1>2, RunningFacts DEF LdOk, Stages, Place
<1> HIDE DEF l, m
<1>6. Fine(u)
  BY <1>1, <1>3, <1>4, <1>5, MovedFine
<1>7. QED BY <1>1, <1>3, <1>6, TypesStep

LEMMA MozProgressTypes ==
  ASSUME TypesInv, MozProgress
  PROVE  TypesInv'
<1> DEFINE length == Size - ld.from
           clen == IF ld.clen = None THEN length ELSE ld.clen
           known == [ld EXCEPT !.clen = clen]
           first == IF ld.clen = None THEN OnContentLengthKnown(State, known.clen) ELSE State
<1>1. Running /\ Counted
  BY IsRunning, CountedSteps DEF MozProgress
<1>2. PICK n \in ChunkSizes, size \in Sizes :
        Become(OnLoaderChunkArrival([first EXCEPT !.ld = Loaded(known, n).ld],
                                    Chunk(n), ld.from + ld.received, size))
  BY DEF MozProgress
<1>3. size \in StashSize /\ length \in 1..Size
  BY <1>1, RunningFacts, SizesAre, ChunkFits, SizeNat
<1> HIDE DEF length
<1>4. clen \in 0..Size \cup {None} /\ (ld.clen = None => clen = length)
  BY <1>1, <1>3, RunningFacts, SizeNat DEF LdOk
<1> HIDE DEF clen
<1>5. LdOk(known) /\ known.from = ld.from /\ known.received = ld.received /\ known.clen = clen
  BY <1>1, <1>4, RunningFacts DEF LdOk, Place
<1> HIDE DEF known
<1>6. StateOk(first) /\ Near(first.io, Place(ld))
  <2>1. CASE ld.clen = None
    <3>1. first = OnContentLengthKnown(State, length)
      BY <1>4, <1>5, <2>1
    <3>2. StateOk(State) /\ Near(State.io, Place(ld)) /\ Place(ld) \in Nat
      BY <1>1, RunningFacts
    <3>3. QED BY <1>3, <3>1, <3>2, LengthOk
  <2>2. CASE ld.clen # None
    BY <1>1, <2>2, RunningFacts
  <2>3. QED BY <2>1, <2>2
<1> HIDE DEF first
<1> DEFINE m == [known EXCEPT !.received = @ + n]
           u == OnLoaderChunkArrival([first EXCEPT !.ld = m], Chunk(n), ld.from + ld.received, size)
<1>7. StateOk(u) /\ u.ld = m /\ Near(u.io, Place(m))
  <2>1. /\ Running /\ StateOk(first) /\ Near(first.io, Place(ld)) /\ size \in StashSize
        /\ LdOk(known) /\ known.from = ld.from /\ known.received = ld.received /\ n \in ChunkSizes
    BY <1>1, <1>3, <1>5, <1>6
  <2>2. QED BY ONLY <2>1, DeliverOk
<1>8. Become(u)
  BY <1>2 DEF Loaded, State
<1> HIDE DEF u, m
<1>9. Fine(u)
  BY <1>7 DEF Fine
<1>10. QED BY <1>1, <1>8, <1>9, TypesStep

LEMMA CloseTypes ==
  ASSUME TypesInv, MozLoadEnd \/ WebSocketClose
  PROVE  TypesInv'
<1>1. Running /\ Counted
  BY IsRunning, CountedSteps DEF MozLoadEnd, WebSocketClose
<1>2. Become(OnLoaderComplete([State EXCEPT !.ld = AbortNow(ld)]))
  BY DEF MozLoadEnd, WebSocketClose
<1>3. Fine(OnLoaderComplete([State EXCEPT !.ld = AbortNow(ld)]))
  BY <1>1, FailedOk, EndedFine
<1>4. QED BY <1>1, <1>2, <1>3, TypesStep

LEMMA RangeHeadersTypes ==
  ASSUME TypesInv, RangeHeaders
  PROVE  TypesInv'
<1> DEFINE clen == Size - ld.from
           l == [ld EXCEPT !.status = "buffering", !.stage = "pump", !.clen = clen]
           s == [State EXCEPT !.ld = l]
<1>1. Running /\ Counted
  BY IsRunning, CountedSteps DEF RangeHeaders
<1>2. clen \in 1..Size /\ clen \in 0..Size
  BY <1>1, RunningFacts, SizeNat DEF RangeHeaders
<1>3. Become(IF ld.clen = None THEN OnContentLengthKnown(s, clen) ELSE s)
  BY DEF RangeHeaders
<1> HIDE DEF clen
<1>4. LdOk(l) /\ l.stage # "ended" /\ Place(l) = Place(ld)
  BY <1>1, <1>2, RunningFacts DEF LdOk, Stages, Statuses, Place
<1> HIDE DEF l
<1>5. Fine(s) /\ Fine(OnContentLengthKnown(s, clen))
  BY <1>1, <1>2, <1>4, MovedFine, LengthFine
<1>6. QED BY <1>1, <1>3, <1>5, TypesStep

LEMMA RangeLoadTypes ==
  ASSUME TypesInv, RangeLoad
  PROVE  TypesInv'
<1>1. Running /\ Counted
  BY IsRunning, CountedSteps DEF RangeLoad
<1>2. PICK n \in ChunkSizes :
        LET more == ld.received + n < ld.clen
            s    == Deliver([ld EXCEPT !.stage = IF more THEN "request" ELSE "ended"], n, io.size)
        IN Become(IF more THEN s ELSE OnLoaderComplete([s EXCEPT !.ld.status = "complete"]))
  BY DEF RangeLoad
<1>3. io.size \in StashSize
  BY <1>1, RunningFacts, SizesAre
<1>4. CASE ld.received + n < ld.clen
  <2> DEFINE l == [ld EXCEPT !.stage = "request"]
  <2>1. Become(Deliver(l, n, io.size))
    BY <1>2, <1>4
  <2>2. LdOk(l) /\ l.from = ld.from /\ l.received = ld.received
    BY <1>1, RunningFacts DEF LdOk, Stages, Place
  <2> HIDE DEF l
  <2>3. Fine(Deliver(l, n, io.size))
    BY <1>1, <1>3, <2>2, DeliverFine
  <2>4. QED BY <1>1, <2>1, <2>3, TypesStep
<1>5. CASE ~(ld.received + n < ld.clen)
  <2> DEFINE l == [ld EXCEPT !.stage = "ended"]
             m == [l EXCEPT !.received = @ + n]
             s == OnLoaderChunkArrival([State EXCEPT !.ld = m], Chunk(n), ld.from + ld.received, io.size)
             done == [m EXCEPT !.status = "complete"]
             f == [s EXCEPT !.ld = done]
             u == OnLoaderComplete(f)
  <2>1. Become(OnLoaderComplete([Deliver(l, n, io.size) EXCEPT !.ld.status = "complete"]))
    BY <1>2, <1>5
  <2>2. Deliver(l, n, io.size) = s
    BY DEF Deliver, Loaded
  <2>3. LdOk(l) /\ l.stage = "ended" /\ l.from = ld.from /\ l.received = ld.received
    BY <1>1, RunningFacts DEF LdOk, Stages, Place
  <2> HIDE DEF l
  <2>4. LdOk(m) /\ m.stage = l.stage /\ StateOk(s) /\ s.ld = m
    <3>1. StateOk(State) /\ Near(State.io, Place(ld))
      BY <1>1, RunningFacts
    <3>2. QED BY <1>1, <1>3, <2>3, <3>1, DeliverOk
  <2> HIDE DEF m, s
  <2>5. LdOk(done) /\ done.stage = "ended"
    BY <2>3, <2>4 DEF LdOk, Statuses, Place
  <2>6. [s EXCEPT !.ld.status = "complete"] = f
    BY <2>4
  <2> HIDE DEF done
  <2>7. StateOk(f) /\ f.ld = done
    BY <2>4, <2>5, LoaderOk
  <2>8. Become(u)
    BY <2>1, <2>2, <2>6
  <2> HIDE DEF f
  <2>9. Fine(u)
    BY <2>5, <2>7, CompleteOk
  <2>10. QED BY <1>1, <2>8, <2>9, TypesStep
<1>6. QED BY <1>4, <1>5

LEMMA WebSocketMessageTypes ==
  ASSUME TypesInv, WebSocketMessage
  PROVE  TypesInv'
<1>1. Running /\ Counted
  BY IsRunning, CountedSteps DEF WebSocketMessage
<1>2. PICK n \in ChunkSizes, size \in Sizes : Become(Deliver(ld, n, size))
  BY DEF WebSocketMessage
<1>3. size \in StashSize /\ LdOk(ld)
  BY <1>1, RunningFacts, SizesAre
<1>4. Fine(Deliver(ld, n, size))
  BY <1>1, <1>3, DeliverFine
<1>5. QED BY <1>1, <1>2, <1>4, TypesStep

LEMMA WebSocketErrorTypes ==
  ASSUME TypesInv, WebSocketError
  PROVE  TypesInv'
<1> DEFINE l == [ld EXCEPT !.status = "error", !.stage = "closing"]
<1>1. Running /\ Counted /\ Live
  BY IsRunning, CountedSteps DEF WebSocketError
<1>2. LdOk(l) /\ Place(l) = Place(ld)
  BY <1>1, RunningFacts DEF LdOk, Stages, Statuses, Place
<1>3. Become(OnLoaderError([State EXCEPT !.ld = l], "exception")) /\ ~io.retry
  BY <1>1, RunningFacts DEF WebSocketError, IoOk
<1> HIDE DEF l
<1>4. Fine(OnLoaderError([State EXCEPT !.ld = l], "exception"))
  BY <1>1, <1>2, <1>3, FailedFine
<1>5. QED BY <1>1, <1>3, <1>4, TypesStep

LEMMA HttpErrorTypes ==
  ASSUME TypesInv, HttpError
  PROVE  TypesInv'
<1> DEFINE idle == [ld EXCEPT !.abort = FALSE, !.status = "idle", !.stage = "ended"]
<1>1. Running /\ Counted
  BY IsRunning, CountedSteps DEF HttpError
<1>2. LdOk(idle) /\ idle.stage = "ended"
  BY <1>1, RunningFacts DEF LdOk, Stages, Statuses, Place
<1>3. PICK u \in {[State EXCEPT !.ld = idle],
                  OnLoaderError([State EXCEPT !.ld = Failed(ld)], "httpStatus")} : Become(u)
  BY DEF HttpError
<1> HIDE DEF idle
<1>4. Fine(u)
  BY <1>1, <1>2, <1>3, MovedFine, FailedOk, FailedFine
<1>5. QED BY <1>1, <1>3, <1>4, TypesStep

LEMMA PauseTypes ==
  ASSUME TypesInv, Pause
  PROVE  TypesInv'
<1> DEFINE at == IF io.stash # <<>> THEN io.start ELSE io.to + 1
           to == at - 1
           e == <<>>
           zero == 0
           yes == TRUE
           l == AbortLoader(ld)
           i == [io EXCEPT !.resume = at, !.to = to, !.stash = e, !.start = zero, !.paused = yes]
           m == [State EXCEPT !.io = i]
           u == [m EXCEPT !.ld = l]
           p == Place(l)
<1>1. Counted
  BY CountedSteps DEF Pause
<1>2. StateOk(State) /\ IoOk(io) /\ LdOk(ld)
  BY StateFields DEF TypesInv, Fine, StateOk
<1>3. at \in 0..Size /\ to \in -1..(Size - 1)
  <2>1. io.start \in 0..Size /\ io.to \in -1..(Size - 1)
    BY <1>2 DEF IoOk, IoFields
  <2>2. at \in 0..Size
    BY <2>1, SizeNat
  <2> HIDE DEF at
  <2>3. QED BY <2>2, SizeNat
<1>4. e \in Bytes /\ e = <<>> /\ Len(e) = 0 /\ zero \in 0..Size /\ zero = 0 /\ yes \in BOOLEAN
  BY SizeNat, EmptySeq DEF Bytes
<1>5. LdOk(l) /\ p \in Nat
  <2>1. LdOk(l)
    BY <1>2 DEF AbortLoader, AbortFetch, AbortNow, LdOk, Stages, Statuses, Place
  <2> HIDE DEF l
  <2>2. QED BY <2>1, SizeNat DEF LdOk
<1>6. Become(u)
  <2>1. [State EXCEPT !.ld = AbortLoader(ld),
                      !.io = [io EXCEPT !.resume = at, !.to = at - 1, !.stash = <<>>,
                                        !.start = 0, !.paused = TRUE]] = u
    BY <1>2 DEF StateOk
  <2>2. QED BY <2>1 DEF Pause
<1> HIDE DEF at, to, e, zero, yes, l, p
<1>7. /\ IoFields(i) /\ i.stash = e /\ i.start = zero /\ i.size = io.size /\ i.buf = io.buf
      /\ i.retry = io.retry /\ i.to = to
  BY <1>2, <1>3, <1>4 DEF IoOk, IoFields
<1> HIDE DEF i
<1>8. StashInitial <= i.buf /\ i.size <= i.buf /\ i.buf \in Nat /\ (Live => ~i.retry)
  BY <1>2, <1>7 DEF IoOk, IoFields
<1>9. i.start + Len(i.stash) <= Size /\ Len(i.stash) <= i.buf /\ i.start + Len(i.stash) = 0
  BY <1>4, <1>7, <1>8, SizeNat
<1>10. IoOk(i)
  BY <1>4, <1>7, <1>8, <1>9 DEF IoOk
<1>11. StateOk(m) /\ m.io = i
  BY <1>2, <1>10 DEF StateOk
<1> HIDE DEF m
<1>12. StateOk(u) /\ u.io = i /\ u.ld = l
  BY <1>5, <1>11, LoaderOk
<1> HIDE DEF u
<1>13. Near(i, p)
  BY <1>3, <1>4, <1>5, <1>7, <1>9 DEF Near
<1>14. Fine(u)
  BY <1>12, <1>13 DEF Fine, p
<1>15. QED BY <1>1, <1>6, <1>14, TypesStep

LEMMA SoughtTypes ==
  ASSUME TypesInv, Counted, NEW s, StateOk(s), s.io.stash = <<>>, s.io.start = 0, NEW bytes \in 0..Size,
         Become(InternalSeek(s, bytes, TRUE))
  PROVE  TypesInv'
<1>1. Fine(InternalSeek(s, bytes, TRUE))
  BY KindIsOk, InternalSeekOk
<1>2. QED BY <1>1, TypesStep

LEMMA ResumeTypes ==
  ASSUME TypesInv, Resume
  PROVE  TypesInv'
<1> DEFINE zero == 0
           no == FALSE
           i == [io EXCEPT !.paused = no, !.resume = zero]
           s == [State EXCEPT !.io = i]
           at == io.resume
<1>1. Counted /\ io.paused /\ Become(InternalSeek(s, at, TRUE))
  BY CountedSteps DEF Resume
<1>2. StateOk(State) /\ IoOk(io)
  BY StateFields DEF TypesInv, Fine, StateOk
<1>3. at \in 0..Size /\ zero \in 0..Size /\ io.stash = <<>> /\ io.start = 0 /\ no \in BOOLEAN /\ ~no
  BY <1>1, <1>2, SizeNat DEF IoOk, IoFields
<1> HIDE DEF zero, at, no
<1>4. /\ IoFields(i) /\ i.stash = io.stash /\ i.start = io.start /\ i.size = io.size /\ i.buf = io.buf
      /\ i.retry = io.retry /\ i.paused = no
  BY <1>2, <1>3 DEF IoOk, IoFields
<1> HIDE DEF i
<1>5. IoOk(i)
  BY <1>2, <1>3, <1>4 DEF IoOk
<1>6. StateOk(s) /\ s.io = i
  BY <1>2, <1>5 DEF StateOk
<1> HIDE DEF s
<1>7. QED BY <1>1, <1>3, <1>4, <1>6, SoughtTypes

LEMMA SeekTypes ==
  ASSUME TypesInv, NEW bytes \in Keyframes, Seek(bytes)
  PROVE  TypesInv'
<1> DEFINE e == <<>>
           zero == 0
           no == FALSE
           none == None
           i == [io EXCEPT !.paused = no, !.stash = e, !.start = zero]
           k == [cl EXCEPT !.got = bytes, !.last = none, !.stale = no]
           m == [State EXCEPT !.io = i]
           s == [m EXCEPT !.cl = k]
<1>1. Counted
  BY CountedSteps DEF Seek
<1>2. StateOk(State) /\ IoOk(io) /\ ClOk(cl) /\ State.cl = cl
  BY StateFields DEF TypesInv, Fine, StateOk
<1>3. /\ bytes \in 0..Size /\ e \in Bytes /\ e = <<>> /\ Len(e) = 0 /\ zero \in 0..Size /\ zero = 0
      /\ no \in BOOLEAN /\ ~no
  BY SizeAssumption, KeyframeAssumption, EmptySeq, SizeNat DEF Bytes
<1>4. Become(InternalSeek(s, bytes, TRUE))
  <2>1. [State EXCEPT !.io = [io EXCEPT !.paused = FALSE, !.stash = <<>>, !.start = 0],
                      !.cl.got = bytes, !.cl.last = None, !.cl.stale = FALSE] = s
    BY <1>2 DEF StateOk
  <2>2. QED BY <2>1 DEF Seek
<1> HIDE DEF zero, e, no, none
<1>5. /\ IoFields(i) /\ i.stash = e /\ i.start = zero /\ i.size = io.size /\ i.buf = io.buf
      /\ i.retry = io.retry /\ i.paused = no
  BY <1>2, <1>3 DEF IoOk, IoFields
<1> HIDE DEF i
<1>6. StashInitial <= i.buf /\ i.size <= i.buf /\ i.buf \in Nat /\ (Live => ~i.retry)
  BY <1>2, <1>5 DEF IoOk, IoFields
<1>7. i.start + Len(i.stash) <= Size /\ Len(i.stash) <= i.buf
  BY <1>3, <1>5, <1>6, SizeNat
<1>8. IoOk(i)
  BY <1>3, <1>5, <1>6, <1>7 DEF IoOk
<1>9. ClOk(k)
  BY <1>2, <1>3 DEF ClOk
<1> HIDE DEF k
<1>10. StateOk(m) /\ m.io = i
  BY <1>2, <1>8 DEF StateOk
<1> HIDE DEF m
<1>11. StateOk(s) /\ s.io = i
  BY <1>9, <1>10 DEF StateOk
<1> HIDE DEF s
<1>12. QED BY <1>1, <1>3, <1>4, <1>5, <1>11, SoughtTypes

LEMMA TypesInit == Init => TypesInv
<1> SUFFICES ASSUME Init PROVE TypesInv
  OBVIOUS
<1> DEFINE zero == 0
           e == <<>>
           no == FALSE
           yes == TRUE
           to == -1
           none == {}
           last == None
           total == IF kind.sized /\ ~Live THEN Size ELSE None
           p == Place(ld)
           i == [stash |-> e, start |-> zero, size |-> StashInitial, buf |-> InitBuf,
                 from |-> zero, to |-> to, paused |-> no, resume |-> zero, retry |-> no,
                 total |-> total, full |-> yes]
           k == [got |-> zero, last |-> last, reports |-> none, stale |-> no]
<1>1. kind \in [loader : Kinds, sized : BOOLEAN] /\ io = NewController(total) /\ ld = OpenLoader(zero) /\ cl = k
  BY DEF Init
<1>2. KindOk
  BY <1>1, KindAssumption DEF KindOk
<1>3. /\ e \in Bytes /\ e = <<>> /\ Len(e) = 0 /\ zero \in 0..Size /\ zero = 0 /\ to \in -1..(Size - 1)
      /\ to = -1 /\ no \in BOOLEAN /\ yes \in BOOLEAN /\ ~no /\ total \in 1..Size \cup {None}
      /\ InitBuf \in Nat /\ StashInitial \in StashSize /\ StashInitial <= InitBuf
      /\ none \in SUBSET {"complete", "error"}
  BY SizeNat, StashAssumption, EmptySeq DEF Bytes, StashSize
<1>4. io = i
  BY <1>1 DEF NewController
<1> HIDE DEF zero, e, no, yes, to, total, none, last
<1>5. LdOk(ld) /\ p = zero
  <2>1. LdOk(OpenLoader(zero)) /\ Place(OpenLoader(zero)) = IF Live THEN 0 ELSE zero
    BY <1>2, <1>3, OpenLoaderOk
  <2>2. QED BY <1>1, <1>3, <2>1
<1>6. /\ IoFields(i) /\ i.stash = e /\ i.start = zero /\ i.size = StashInitial /\ i.buf = InitBuf
      /\ i.retry = no /\ i.paused = no /\ i.to = to
  BY <1>3 DEF IoFields
<1> HIDE DEF i
<1>7. i.start + Len(i.stash) <= Size /\ Len(i.stash) <= i.buf /\ i.size <= i.buf
  BY <1>3, <1>6, SizeNat
<1>8. IoOk(i)
  BY <1>3, <1>6, <1>7 DEF IoOk
<1>9. ClOk(k)
  BY <1>3 DEF ClOk
<1> HIDE DEF k
<1>10. StateOk(State)
  BY <1>1, <1>4, <1>5, <1>8, <1>9 DEF StateOk, State
<1>11. Near(io, p)
  BY <1>3, <1>4, <1>5, <1>6 DEF Near
<1>12. Fine(State)
  BY <1>10, <1>11, StateFields DEF Fine
<1>13. QED BY <1>1, <1>12, BoundAssumption DEF TypesInv, Init

LEMMA TypesNext == TypesInv /\ [Next]_vars => TypesInv'
<1> SUFFICES ASSUME TypesInv, [Next]_vars PROVE TypesInv'
  OBVIOUS
<1>1. CASE Network
  BY <1>1, FetchResponseTypes, FetchChunkTypes, FetchDoneTypes, BrokenTypes, HeadersTypes,
     MozProgressTypes, CloseTypes, RangeHeadersTypes, RangeLoadTypes, WebSocketMessageTypes,
     WebSocketErrorTypes, HttpErrorTypes DEF Network
<1>2. CASE Pause
  BY <1>2, PauseTypes
<1>3. CASE Resume
  BY <1>3, ResumeTypes
<1>4. CASE \E bytes \in Keyframes : Seek(bytes)
  BY <1>4, SeekTypes
<1>5. CASE UNCHANGED vars
  <2>1. Become(State) /\ Counted /\ Fine(State)
    BY <1>5, StateFields, CountedSteps DEF vars, Become, TypesInv
  <2>2. QED BY <2>1, TypesStep
<1>6. QED BY <1>1, <1>2, <1>3, <1>4, <1>5 DEF Next

(* Every field keeps its type; the loader stays inside the file, what was
   handed on too, and the stash inside its buffer, which _expandBuffer has
   doubled often enough, for every size of file, chunks and stash.         *)
THEOREM TypeCorrect == Spec => []TypeOK
<1>1. TypesInv => TypeOK
  <2> SUFFICES ASSUME TypesInv PROVE TypeOK
    OBVIOUS
  <2>1. IoOk(io) /\ LdOk(ld) /\ ClOk(cl)
    BY StateFields DEF TypesInv, Fine, StateOk
  <2>2. Fits
    BY <2>1 DEF IoOk, Fits
  <2>3. /\ io.stash \in Bytes /\ io.start \in 0..Size /\ io.size \in StashSizes \cup {StashInitial}
        /\ io.buf \in Nat /\ io.from \in 0..Size /\ io.to \in -1..(Size - 1)
        /\ io.total \in 1..Size \cup {None} /\ io.resume \in 0..Size
        /\ {io.paused, io.retry, io.full} \subseteq BOOLEAN
    BY <2>1 DEF IoOk, IoFields, StashSize
  <2>4. /\ ld.status \in Statuses /\ ld.stage \in Stages /\ ld.from \in 0..Size /\ ld.received \in Nat
        /\ ld.clen \in 0..Size \cup {None} /\ ld.abort \in BOOLEAN /\ ld.from + ld.received \in 0..Size
    BY <2>1 DEF LdOk, Place
  <2>5. ld.received \in 0..(Size - ld.from)
    BY <2>4, SizeNat
  <2>6. cl.got \in 0..Size /\ cl.reports \subseteq {"complete", "error"} /\ cl.stale \in BOOLEAN
    BY <2>1 DEF ClOk
  <2>7. QED BY <2>2, <2>3, <2>4, <2>5, <2>6 DEF TypesInv, TypeOK, Statuses, Stages
<1>2. Spec => []TypesInv
  BY TypesInit, TypesNext, PTL DEF Spec
<1>3. QED BY <1>1, <1>2, PTL
=============================================================================
