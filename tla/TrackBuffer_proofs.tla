------------------------- MODULE TrackBuffer_proofs -------------------------
(***************************************************************************)
(* Proofs about TrackBuffer: its types, and that no sender ever takes the  *)
(* session id from a slot nobody has written, for every number of          *)
(* sessions, every ring size and every interleaving.                       *)
(***************************************************************************)
EXTENDS TrackBuffer, TLAPS

(* A position reduced modulo the ring's length is a slot of the ring.      *)
LEMMA ModInRange ==
  ASSUME NEW a \in Nat, NEW L \in Nat \ {0}
  PROVE  a % L \in 0..L-1
OBVIOUS

(* A position below the ring's length is its own slot.                     *)
LEMMA ModBelow ==
  ASSUME NEW a \in Nat, NEW L \in Nat \ {0}, a < L
  PROVE  a % L = a
OBVIOUS

(* Every variable keeps its type.                                          *)
LEMMA TypeInvariant == Spec => []TypeOK
<1> USE BufferAssumption DEF TypeOK, Slot, ring, receiver, sender
<1>1. Init => TypeOK
  BY DEF Init, Unwritten, Sessions
<1>2. TypeOK /\ [Next]_vars => TypeOK'
  <2> SUFFICES ASSUME TypeOK, [Next]_vars PROVE TypeOK'
    OBVIOUS
  <2>1. ASSUME NEW s \in Sessions, Start(s) PROVE TypeOK'
    <3> DEFINE joined == [Head |-> NoOne, num |-> advanced, whole |-> TRUE]
    <3>1. joined \in Slot
      OBVIOUS
    <3>2. bs' \in [Sessions -> Slot]
      <4> HIDE DEF joined, Slot
      <4>1. bs' = [bs EXCEPT ![s] = joined]
        BY <2>1 DEF Start, joined
      <4>2. QED BY <4>1, <3>1
    <3>3. /\ recv' \in [Sessions ->
              {"loop", "read", "write", "store", "advance", "done"}]
          /\ send' \in [Sessions -> {"poll", "copy", "write", "chase", "done"}]
      BY <2>1 DEF Start
    <3>4. QED BY <2>1, <3>2, <3>3 DEF Start
  <2>2. ASSUME NEW s \in Sessions, Close(s) PROVE TypeOK'
    BY <2>2 DEF Close
  <2>3. ASSUME NEW n \in BufLens, Resize(n) PROVE TypeOK'
    BY <2>3 DEF Resize
  <2>4. ASSUME NEW w \in Writers, Receive(w) PROVE TypeOK'
    <3> w \in Sessions BY DEF Sessions
    <3>1. CASE RecvLoop(w) BY <3>1 DEF RecvLoop, RecvStep
    <3>2. CASE ReadMessage(w) BY <3>2 DEF ReadMessage, RecvStep
    <3>3. CASE ReadFails(w) BY <3>3 DEF ReadFails, RecvStep
    <3>4. CASE BeginStore(w)
      <4>1. PICK h \in {w, Slots[PosWrite].Head} :
              Slots' = [Slots EXCEPT ![PosWrite] =
                          [Head |-> h, num |-> stored + 1, whole |-> FALSE]]
        BY <3>4 DEF BeginStore
      <4>2. [Head |-> h, num |-> stored + 1, whole |-> FALSE] \in Slot
        OBVIOUS
      <4>3. Slots' \in [0..SizeCap-1 -> Slot]
        BY <4>1, <4>2
      <4>4. QED BY <3>4, <4>3 DEF BeginStore, RecvStep
    <3>5. CASE EndStore(w)
      <4> DEFINE msg == [Head |-> w, num |-> Slots[wpos[w]].num, whole |-> TRUE]
      <4>1. msg \in Slot
        OBVIOUS
      <4>2. Slots' \in [0..SizeCap-1 -> Slot]
        BY <3>5, <4>1 DEF EndStore
      <4>3. QED BY <3>5, <4>2 DEF EndStore, RecvStep
    <3>6. CASE Advance(w)
      <4>1. wpos[w] + 1 \in Nat /\ SizeLen \in Nat \ {0}
        OBVIOUS
      <4>2. PICK p \in 0..SizeLen-1 : p = (wpos[w] + 1) % SizeLen
        BY ONLY <4>1, ModInRange
      <4>3. PosWrite' = p
        BY <3>6, <4>2 DEF Advance
      <4>4. PosWrite' \in 0..SizeCap-1
        BY <4>3
      <4>5. recv' \in [Sessions -> {"loop", "read", "write", "store", "advance", "done"}]
        BY <3>6 DEF Advance, RecvStep
      <4>6. lock' \in Writers \cup {NoOne} /\ advanced' \in Nat
        BY <3>6 DEF Advance
      <4>7. UNCHANGED <<Slots, SizeLen, State, wpos, send, lpos, bs, stored, overtaken>>
        BY <3>6 DEF Advance, RecvStep
      <4>8. QED BY <4>4, <4>5, <4>6, <4>7
    <3>7. QED BY <2>4, <3>1, <3>2, <3>3, <3>4, <3>5, <3>6 DEF Receive
  <2>5. ASSUME NEW r \in Readers, Forward(r) PROVE TypeOK'
    <3> r \in Sessions BY DEF Sessions
    <3>1. CASE Stop(r) BY <3>1 DEF Stop, SendStep
    <3>2. CASE Timeout(r) BY <3>2 DEF Timeout, SendStep
    <3>3. CASE Poll(r) BY <3>3 DEF Poll, SendStep
    <3>4. CASE Copy(r) BY <3>4 DEF Copy, SendStep
    <3>5. CASE WriteMessage(r) BY <3>5 DEF WriteMessage, SendStep
    <3>6. CASE WriteFails(r) BY <3>6 DEF WriteFails, SendStep
    <3>7. CASE Chase(r)
      <4>1. lpos[r] + 1 \in Nat /\ SizeLen \in Nat \ {0}
        OBVIOUS
      <4>2. (lpos[r] + 1) % SizeLen \in 0..SizeLen-1
        BY ONLY <4>1, ModInRange
      <4>3. setReadPos(lpos[r]) \in 0..SizeCap-1
        BY <4>2 DEF setReadPos
      <4>4. lpos' \in [Sessions -> 0..SizeCap-1]
        BY <3>7, <4>3 DEF Chase
      <4>5. QED BY <3>7, <4>4 DEF Chase, SendStep
    <3>8. QED BY <2>5, <3>1, <3>2, <3>3, <3>4, <3>5, <3>6, <3>7 DEF Forward
  <2>6. CASE UNCHANGED vars
    BY <2>6 DEF vars
  <2>7. QED BY <2>1, <2>2, <2>3, <2>4, <2>5, <2>6 DEF Next
<1>3. QED BY <1>1, <1>2, PTL DEF Spec

-----------------------------------------------------------------------------
(* The slot after position x, for a position below the ring's length.      *)
LEMMA ModNext ==
  ASSUME NEW x \in Nat, NEW L \in Nat \ {0}, x < L
  PROVE  (x + 1) % L = IF x + 1 = L THEN 0 ELSE x + 1
<1>1. CASE x + 1 = L
  <2>1. L % L = 0
    OBVIOUS
  <2>2. QED BY <1>1, <2>1
<1>2. CASE x + 1 # L
  <2>1. x + 1 \in Nat /\ x + 1 < L
    BY <1>2
  <2>2. QED BY <1>2, <2>1, ModBelow
<1>3. QED BY <1>1, <1>2

(* A resize never lengthens the ring when publishers agree on buf_len.     *)
LEMMA ResizeShrinks ==
  ASSUME UniformLens, SizeLen = InitLen \/ SizeLen \in BufLens,
         NEW n \in BufLens
  PROVE  n <= SizeLen
<1>1. PICK m \in 2..InitLen : BufLens \subseteq {m}
  BY DEF UniformLens
<1>2. n = m
  BY <1>1
<1>3. m <= InitLen /\ m <= m
  BY BufferAssumption
<1>4. QED BY <1>1, <1>2, <1>3

LEMMA FillInit == Init => FillInv
<1> SUFFICES ASSUME Init PROVE FillInv
  OBVIOUS
<1> USE BufferAssumption DEF Init, Sessions
<1>1. WritersExclude /\ WriterAlone
  BY DEF WritersExclude, WriterAlone
<1>2. FirstLap
  BY DEF FirstLap
<1>3. SendersBehind /\ NoNilHead
  BY DEF SendersBehind, NoNilHead
<1>4. QED BY <1>1, <1>2, <1>3 DEF FillInv

(* The steps of a sender other than its copy and its move leave the ring   *)
(* and every position alone, and start a copy only behind PosWrite.        *)
LEMMA FillSenderStep ==
  ASSUME TypeOK, FillInv, NEW r \in Readers, NEW to \in {"done", "copy", "chase"},
         UNCHANGED <<ring, recv, wpos, lpos, bs>>,
         send' = [send EXCEPT ![r] = to],
         to = "copy" => lpos[r] # PosWrite,
         to = "chase" => send[r] = "write"
  PROVE  FillInv'
<1> USE DEF FillInv, TypeOK, ring, Sessions, Written
<1>1. (WritersExclude /\ WriterAlone)'
  BY DEF WritersExclude, WriterAlone
<1>2. Filled => Filled'
  BY DEF Filled
<1>3. FirstLap => FirstLap'
  BY DEF FirstLap
<1>4. (SendersBehind /\ NoNilHead)'
  BY DEF SendersBehind, NoNilHead
<1>5. QED BY <1>1, <1>2, <1>3, <1>4
LEMMA FillCopy ==
  ASSUME TypeOK, FillInv, NEW r \in Readers, Copy(r)
  PROVE  FillInv'
<1> USE DEF FillInv, TypeOK, Copy, SendStep, ring, receiver, Sessions, Written
<1>1. (WritersExclude /\ WriterAlone)'
  BY DEF WritersExclude, WriterAlone
<1>2. Filled => Filled'
  BY DEF Filled
<1>3. FirstLap => FirstLap'
  BY DEF FirstLap
<1>4. SendersBehind'
  BY DEF SendersBehind
<1>5. NoNilHead'
  BY DEF NoNilHead, SendersBehind
<1>6. QED BY <1>1, <1>2, <1>3, <1>4, <1>5

(* A sender moves to PosWrite, or to the next slot, which is written or    *)
(* the one at PosWrite.                                                    *)
LEMMA FillChase ==
  ASSUME TypeOK, FillInv, NEW r \in Readers, Chase(r)
  PROVE  FillInv'
<1> DEFINE pos == lpos'[r]
<1> USE DEF FillInv, TypeOK, Sessions, Written
<1>0. /\ UNCHANGED <<ring, receiver, bs>>
      /\ send[r] = "chase" /\ send' = [send EXCEPT ![r] = "poll"]
      /\ lpos' = [lpos EXCEPT ![r] = pos]
      /\ pos = PosWrite \/ pos = (lpos[r] + 1) % SizeLen
  BY DEF Chase, SendStep, setReadPos
<1>1. (WritersExclude /\ WriterAlone)'
  BY <1>0 DEF WritersExclude, WriterAlone, ring, receiver
<1>2. CASE Filled
  <2>1. Filled'
    BY <1>0, <1>2 DEF Filled, ring
  <2>2. Written(pos) \/ pos = PosWrite
    <3>1. lpos[r] + 1 \in Nat /\ SizeLen \in Nat \ {0}
      OBVIOUS
    <3>2. (lpos[r] + 1) % SizeLen \in 0..SizeLen-1
      BY ONLY <3>1, ModInRange
    <3>3. QED BY <1>0, <1>2, <3>2 DEF Filled
  <2>3. (SendersBehind /\ NoNilHead)'
    BY <1>0, <2>2 DEF SendersBehind, NoNilHead, ring
  <2>4. QED BY <1>0, <1>1, <2>1, <2>3 DEF ring
<1>3. CASE FirstLap
  <2>1. lpos[r] < PosWrite /\ PosWrite < SizeLen
    BY <1>0, <1>3 DEF FirstLap
  <2>2. lpos[r] \in Nat /\ SizeLen \in Nat \ {0} /\ lpos[r] < SizeLen
    BY <2>1
  <2>3. (lpos[r] + 1) % SizeLen = lpos[r] + 1
    BY <2>1, <2>2, ModNext
  <2>4. pos \in 0..PosWrite
    BY <1>0, <2>1, <2>3
  <2>5. FirstLap'
    BY <1>0, <1>3, <2>4 DEF FirstLap, ring
  <2>6. Written(pos) \/ pos = PosWrite
    BY <1>3, <2>4 DEF FirstLap
  <2>7. (SendersBehind /\ NoNilHead)'
    BY <1>0, <2>6 DEF SendersBehind, NoNilHead, ring
  <2>8. QED BY <1>0, <1>1, <2>5, <2>7 DEF ring
<1>4. QED BY <1>2, <1>3

(* A receiver outside writeSlot.                                           *)
LEMMA FillReceiverStep ==
  ASSUME TypeOK, FillInv, NEW w \in Writers, NEW to \in {"read", "write", "done"},
         recv[w] \notin {"store", "advance"},
         UNCHANGED <<ring, wpos, send, lpos, bs>>,
         recv' = [recv EXCEPT ![w] = to]
  PROVE  FillInv'
<1> USE DEF FillInv, TypeOK, ring, Sessions, Written
<1>1. (WritersExclude /\ WriterAlone)'
  BY DEF WritersExclude, WriterAlone
<1>2. Filled => Filled'
  BY DEF Filled
<1>3. FirstLap => FirstLap'
  BY DEF FirstLap
<1>4. (SendersBehind /\ NoNilHead)'
  BY DEF SendersBehind, NoNilHead
<1>5. QED BY <1>1, <1>2, <1>3, <1>4
LEMMA FillStart ==
  ASSUME TypeOK, FillInv, NEW s \in Sessions, Start(s)
  PROVE  FillInv'
<1> USE DEF FillInv, TypeOK, ring, Sessions, Written
<1>1. (WritersExclude /\ WriterAlone)'
  BY DEF Start, WritersExclude, WriterAlone
<1>2. Filled => Filled'
  BY DEF Start, Filled
<1>3. FirstLap => FirstLap'
  BY DEF Start, FirstLap
<1>4. (SendersBehind /\ NoNilHead)'
  BY DEF Start, SendersBehind, NoNilHead
<1>5. QED BY <1>1, <1>2, <1>3, <1>4 DEF Start

(* A shorter ring is filled if the writers have passed its end.            *)
LEMMA FillResize ==
  ASSUME UniformLens, TypeOK, FillInv, NEW n \in BufLens, Resize(n)
  PROVE  FillInv'
<1> USE DEF FillInv, TypeOK, Resize, receiver, sender, Sessions, Written
<1>1. (WritersExclude /\ WriterAlone)'
  BY DEF WritersExclude, WriterAlone
<1>2. n \in 2..SizeLen
  BY BufferAssumption, ResizeShrinks
<1>3. Filled => Filled'
  BY <1>2 DEF Filled
<1>4. FirstLap /\ PosWrite < n => FirstLap'
  BY DEF FirstLap
<1>5. FirstLap /\ ~(PosWrite < n) => Filled'
  BY <1>2 DEF FirstLap, Filled
<1>6. (SendersBehind /\ NoNilHead)'
  BY DEF SendersBehind, NoNilHead
<1>7. QED BY <1>1, <1>3, <1>4, <1>5, <1>6

(* A store, begun or ended, never leaves a written slot unwritten.         *)
LEMMA FillBeginStore ==
  ASSUME ExclusiveWriters, TypeOK, FillInv, NEW w \in Writers, BeginStore(w)
  PROVE  FillInv'
<1> USE BufferAssumption DEF FillInv, TypeOK, Sessions
<1>0. PICK h \in {w, Slots[PosWrite].Head} :
        Slots' = [Slots EXCEPT ![PosWrite] =
                    [Head |-> h, num |-> stored + 1, whole |-> FALSE]]
  BY DEF BeginStore
<1>1. \A i \in 0..SizeCap-1 : Written(i) => Written(i)'
  BY <1>0 DEF Written
<1>2. /\ UNCHANGED <<PosWrite, SizeLen, send, lpos, bs>>
      /\ recv[w] = "write" /\ recv' = [recv EXCEPT ![w] = "store"]
      /\ wpos' = [wpos EXCEPT ![w] = PosWrite]
      /\ Flock => lock = NoOne /\ lock' = w
      /\ ~Flock => lock' = lock
  BY DEF BeginStore, RecvStep, sender
<1>3. \A v \in Writers : recv[v] \in {"store", "advance"} => v = w
  BY <1>2 DEF WriterAlone, ExclusiveWriters
<1>4. WritersExclude'
  BY <1>2, <1>3 DEF WritersExclude
<1>5. WriterAlone'
  BY <1>2, <1>3 DEF WriterAlone
<1>6. Filled => Filled'
  BY <1>1, <1>2 DEF Filled, Written
<1>7. FirstLap => FirstLap'
  BY <1>1, <1>2 DEF FirstLap, Written
<1>8. (SendersBehind /\ NoNilHead)'
  BY <1>1, <1>2 DEF SendersBehind, NoNilHead, Written
<1>9. QED BY <1>2, <1>4, <1>5, <1>6, <1>7, <1>8

LEMMA FillEndStore ==
  ASSUME TypeOK, FillInv, NEW w \in Writers, EndStore(w)
  PROVE  FillInv'
<1> USE BufferAssumption DEF FillInv, TypeOK, Sessions
<1>0. /\ recv[w] = "store" /\ recv' = [recv EXCEPT ![w] = "advance"]
      /\ wpos[w] = PosWrite /\ wpos' = [wpos EXCEPT ![w] = PosWrite]
      /\ UNCHANGED <<PosWrite, SizeLen, lock, send, lpos, bs>>
  BY DEF EndStore, RecvStep, sender, WriterAlone
<1>1. Slots' = [Slots EXCEPT ![PosWrite] =
                  [Head |-> w, num |-> Slots[PosWrite].num, whole |-> TRUE]]
  BY <1>0 DEF EndStore
<1>2. /\ \A i \in 0..SizeCap-1 : Written(i) => Written(i)'
      /\ Written(PosWrite)'
  BY <1>0, <1>1 DEF Written
<1>3. WritersExclude'
  BY <1>0 DEF WritersExclude
<1>4. WriterAlone'
  BY <1>0, <1>2 DEF WriterAlone, WritersExclude, Written
<1>5. Filled => Filled'
  BY <1>0, <1>2 DEF Filled, Written
<1>6. FirstLap => FirstLap'
  BY <1>0, <1>2 DEF FirstLap, Written
<1>7. (SendersBehind /\ NoNilHead)'
  BY <1>0, <1>2 DEF SendersBehind, NoNilHead, Written
<1>8. QED BY <1>0, <1>3, <1>4, <1>5, <1>6, <1>7

(* PosWrite leaves a written slot behind; when it wraps, all are written.  *)
LEMMA FillAdvance ==
  ASSUME TypeOK, FillInv, NEW w \in Writers, Advance(w)
  PROVE  FillInv'
<1> USE BufferAssumption DEF FillInv, TypeOK, Sessions
<1>0. /\ recv[w] = "advance" /\ recv' = [recv EXCEPT ![w] = "loop"]
      /\ wpos[w] = PosWrite /\ Written(PosWrite)
      /\ PosWrite' = (PosWrite + 1) % SizeLen
      /\ UNCHANGED <<Slots, SizeLen, wpos, send, lpos, bs>>
  BY DEF Advance, RecvStep, sender, WriterAlone
<1>1. \A i : Written(i)' = Written(i)
  BY <1>0 DEF Written
<1>2. \A v \in Writers : recv'[v] \notin {"store", "advance"}
  BY <1>0 DEF WritersExclude
<1>3. (WritersExclude /\ WriterAlone)'
  BY <1>2 DEF WritersExclude, WriterAlone
<1>4. (SendersBehind /\ NoNilHead)'
  BY <1>0, <1>1 DEF SendersBehind, NoNilHead, Written
<1>5. Filled => Filled'
  BY <1>0, <1>1 DEF Filled, Written
<1>6. ASSUME FirstLap PROVE (Filled \/ FirstLap)'
  <2>1. PosWrite \in Nat /\ SizeLen \in Nat \ {0} /\ PosWrite < SizeLen
    BY <1>6 DEF FirstLap, Written
  <2>2. (PosWrite + 1) % SizeLen
          = IF PosWrite + 1 = SizeLen THEN 0 ELSE PosWrite + 1
    BY ONLY <2>1, ModNext
  <2>3. CASE PosWrite + 1 = SizeLen
    <3>1. Filled
      BY <1>0, <1>6, <2>3 DEF FirstLap, Filled, Written
    <3>2. QED BY <1>5, <3>1
  <2>4. CASE PosWrite + 1 # SizeLen
    <3>1. PosWrite' = PosWrite + 1
      BY <1>0, <2>2, <2>4
    <3>2. \A i \in 0..PosWrite : Written(i)
      BY <1>0, <1>6, <2>1 DEF FirstLap
    <3>3. \A i \in 0..PosWrite'-1 : Written(i)'
      BY <1>1, <2>1, <3>1, <3>2
    <3>4. PosWrite' < SizeLen'
      BY <1>0, <2>1, <2>4, <3>1
    <3>5. ASSUME NEW r \in Readers
          PROVE  /\ lpos'[r] <= PosWrite'
                 /\ send'[r] \in {"copy", "write", "chase"} => lpos'[r] < PosWrite'
      <4>1. /\ lpos[r] \in Int /\ lpos[r] <= PosWrite
            /\ send[r] \in {"copy", "write", "chase"} => lpos[r] < PosWrite
        BY <1>6 DEF FirstLap
      <4>2. lpos' = lpos /\ send' = send
        BY <1>0
      <4>3. QED BY <2>1, <3>1, <4>1, <4>2
    <3>6. FirstLap'
      BY <3>3, <3>4, <3>5 DEF FirstLap
    <3>7. QED BY <3>6
  <2>5. QED BY <2>3, <2>4
<1>7. QED BY <1>0, <1>3, <1>4, <1>5, <1>6

LEMMA FillReceive ==
  ASSUME ExclusiveWriters, TypeOK, FillInv, NEW w \in Writers, Receive(w)
  PROVE  FillInv'
<1> USE DEF RecvStep, sender
<1>1. CASE RecvLoop(w)
  <2> DEFINE to == IF State[w] = "using" THEN "read" ELSE "done"
  <2>1. recv[w] = "loop" /\ recv' = [recv EXCEPT ![w] = to]
    BY <1>1 DEF RecvLoop
  <2>2. QED BY <1>1, <2>1, FillReceiverStep DEF RecvLoop
<1>2. CASE ReadMessage(w)
  BY <1>2, FillReceiverStep DEF ReadMessage
<1>3. CASE ReadFails(w)
  BY <1>3, FillReceiverStep DEF ReadFails
<1>4. CASE BeginStore(w)
  BY <1>4, FillBeginStore
<1>5. CASE EndStore(w)
  BY <1>5, FillEndStore
<1>6. CASE Advance(w)
  BY <1>6, FillAdvance
<1>7. QED BY <1>1, <1>2, <1>3, <1>4, <1>5, <1>6 DEF Receive

LEMMA FillForward ==
  ASSUME TypeOK, FillInv, NEW r \in Readers, Forward(r)
  PROVE  FillInv'
<1> USE DEF SendStep, receiver
<1>1. CASE Stop(r)
  BY <1>1, FillSenderStep DEF Stop
<1>2. CASE Timeout(r)
  BY <1>2, FillSenderStep DEF Timeout
<1>3. CASE Poll(r)
  BY <1>3, FillSenderStep DEF Poll
<1>4. CASE Copy(r)
  BY <1>4, FillCopy
<1>5. CASE WriteMessage(r)
  BY <1>5, FillSenderStep DEF WriteMessage
<1>6. CASE WriteFails(r)
  BY <1>6, FillSenderStep DEF WriteFails
<1>7. CASE Chase(r)
  BY <1>7, FillChase
<1>8. QED BY <1>1, <1>2, <1>3, <1>4, <1>5, <1>6, <1>7 DEF Forward

(* A step that leaves the ring and every goroutine where it is: Close, and *)
(* stuttering.                                                             *)
LEMMA FillFrame ==
  ASSUME FillInv, UNCHANGED <<ring, receiver, send, lpos, bs>>
  PROVE  FillInv'
BY DEF FillInv, WritersExclude, WriterAlone, Filled, FirstLap, SendersBehind,
       NoNilHead, Written, ring, receiver

LEMMA FillInvariant ==
  ASSUME ExclusiveWriters, UniformLens
  PROVE  Spec => []FillInv
<1>1. TypeOK /\ FillInv /\ [Next]_vars => FillInv'
  <2> SUFFICES ASSUME TypeOK, FillInv, [Next]_vars PROVE FillInv'
    OBVIOUS
  <2>1. ASSUME NEW s \in Sessions, Start(s) PROVE FillInv'
    BY <2>1, FillStart
  <2>2. ASSUME NEW s \in Sessions, Close(s) PROVE FillInv'
    BY <2>2, FillFrame DEF Close, sender
  <2>3. ASSUME NEW n \in BufLens, Resize(n) PROVE FillInv'
    BY <2>3, FillResize
  <2>4. ASSUME NEW w \in Writers, Receive(w) PROVE FillInv'
    BY <2>4, FillReceive
  <2>5. ASSUME NEW r \in Readers, Forward(r) PROVE FillInv'
    BY <2>5, FillForward
  <2>6. CASE UNCHANGED vars
    BY <2>6, FillFrame DEF vars, sender
  <2>7. QED BY <2>1, <2>2, <2>3, <2>4, <2>5, <2>6 DEF Next
<1>2. QED BY <1>1, FillInit, TypeInvariant, PTL DEF Spec

(* Where receivers that share the ring lock it and publishers agree on     *)
(* buf_len, no sender meets a slot nobody has written, for any number of   *)
(* sessions joining, leaving, stalling and lapping each other.             *)
THEOREM NoNilHeadHolds ==
  ASSUME ExclusiveWriters, UniformLens
  PROVE  Spec => []NoNilHead
<1>1. FillInv => NoNilHead
  BY DEF FillInv
<1>2. QED BY <1>1, FillInvariant, PTL

-----------------------------------------------------------------------------
(* What the ring holds, for a length that does not change.  The store of   *)
(* message n goes to slot (n-1) % SizeLen, and PosWrite is where the next  *)
(* one goes.                                                               *)

FixedLen == BufLens \subseteq {InitLen}

Storing == \E w \in Writers : recv[w] \in {"store", "advance"}

(* Slot a % SizeLen holds message a + 1 or a later one that came there.    *)
HoldsSince(a) ==
  LET slot == Slots[a % SizeLen] IN
  /\ slot.num \in a+1..advanced /\ slot.whole
  /\ (slot.num - 1) % SizeLen = a % SizeLen

RingInv ==
  /\ SizeLen = InitLen
  /\ PosWrite = advanced % SizeLen
  /\ stored = IF Storing THEN advanced + 1 ELSE advanced
  /\ \A w \in Writers : recv[w] \in {"store", "advance"} =>
       /\ Slots[PosWrite].num = stored
       /\ recv[w] = "advance" => Slots[PosWrite].whole
  /\ \A a \in 0..advanced-1 : ~Storing \/ a % SizeLen # PosWrite => HoldsSince(a)
  /\ \A i \in 0..SizeCap-1 : ~Slots[i].whole => Storing /\ i = PosWrite

(* Positions of the same slot are a whole ring apart.                      *)
LEMMA ModParts ==
  ASSUME NEW a \in Nat, NEW L \in Nat \ {0}
  PROVE  \E q \in Nat : a = q * L + (a % L)
<1>1. a = (a \div L) * L + (a % L)
  OBVIOUS
<1>2. a \div L \in Nat
  OBVIOUS
<1>3. QED BY <1>1, <1>2

LEMMA ModOf ==
  ASSUME NEW q \in Nat, NEW L \in Nat \ {0}, NEW x \in 0..L-1
  PROVE  (q * L + x) % L = x
OBVIOUS

LEMMA ModApart ==
  ASSUME NEW a \in Nat, NEW b \in Nat, NEW L \in Nat \ {0}, a < b, a % L = b % L
  PROVE  b - a >= L
<1> DEFINE x == a % L
<1>1. x \in Nat
  OBVIOUS
<1>2. PICK p \in Nat : a = p * L + x
  BY ModParts
<1>3. PICK q \in Nat : b = q * L + x
  BY ModParts
<1> HIDE DEF x
<1>4. b - a = (q - p) * L
  BY <1>1, <1>2, <1>3
<1>5. q - p >= 1
  <2> SUFFICES ASSUME q <= p PROVE FALSE
    OBVIOUS
  <2>1. q * L <= p * L
    OBVIOUS
  <2>2. QED BY <1>1, <1>2, <1>3, <2>1
<1>6. (q - p) * L >= 1 * L
  BY <1>5
<1>7. QED BY <1>4, <1>6

(* The slot after that of position a is that of position a + 1.            *)
LEMMA ModSucc ==
  ASSUME NEW a \in Nat, NEW L \in Nat \ {0}
  PROVE  ((a % L) + 1) % L = (a + 1) % L
<1> DEFINE x == a % L
<1>1. x \in 0..L-1
  OBVIOUS
<1>2. PICK q \in Nat : a = q * L + x
  BY ModParts
<1> HIDE DEF x
<1>3. CASE x + 1 = L
  <2>1. a + 1 = (q + 1) * L + 0
    BY <1>1, <1>2, <1>3
  <2>2. (a + 1) % L = 0
    <3>1. q + 1 \in Nat /\ 0 \in 0..L-1
      OBVIOUS
    <3>2. ((q + 1) * L + 0) % L = 0
      BY ONLY <3>1, L \in Nat \ {0}, ModOf
    <3>3. QED BY <2>1, <3>2
  <2>3. L % L = 0
    OBVIOUS
  <2>4. QED BY <1>3, <2>2, <2>3 DEF x
<1>4. CASE x + 1 # L
  <2>1. a + 1 = q * L + (x + 1) /\ x + 1 \in 0..L-1
    BY <1>1, <1>2, <1>4
  <2>2. (a + 1) % L = x + 1
    BY <2>1, ModOf
  <2>3. (x + 1) % L = x + 1
    BY <2>1, ModBelow
  <2>4. QED BY <2>2, <2>3 DEF x
<1>5. QED BY <1>3, <1>4

(* A session that has not started has no goroutine.                        *)
Unstarted == \A s \in Sessions : State[s] = "new" => recv[s] = "done" /\ send[s] = "done"

LEMMA UnstartedStep ==
  ASSUME TypeOK, Unstarted, [Next]_vars
  PROVE  Unstarted'
<1> USE DEF TypeOK, Unstarted, RecvStep, SendStep, Sessions, ring, receiver, sender
<1>1. ASSUME NEW s \in Sessions, Start(s) \/ Close(s) PROVE Unstarted'
  BY <1>1 DEF Start, Close
<1>2. ASSUME NEW n \in BufLens, Resize(n) PROVE Unstarted'
  BY <1>2 DEF Resize
<1>3. ASSUME NEW w \in Writers, Receive(w) PROVE Unstarted'
  BY <1>3 DEF Receive, RecvLoop, ReadMessage, ReadFails, BeginStore, EndStore, Advance
<1>4. ASSUME NEW r \in Readers, Forward(r) PROVE Unstarted'
  BY <1>4 DEF Forward, Stop, Timeout, Poll, Copy, WriteMessage, WriteFails, Chase
<1>5. CASE UNCHANGED vars
  BY <1>5 DEF vars
<1>6. QED BY <1>1, <1>2, <1>3, <1>4, <1>5 DEF Next

LEMMA RingInit == Init => RingInv /\ Unstarted
<1> SUFFICES ASSUME Init PROVE RingInv /\ Unstarted
  OBVIOUS
<1>1. ~Storing /\ Unstarted
  BY DEF Init, Storing, Sessions, Unstarted
<1>2. 0 % InitLen = 0
  BY BufferAssumption, ModBelow
<1>3. QED BY <1>1, <1>2, BufferAssumption DEF Init, RingInv, Unwritten, Storing

(* Steps that leave the slots, the counts and those inside writeSlot alone.*)
LEMMA RingFrame ==
  ASSUME RingInv, UNCHANGED <<Slots, PosWrite, SizeLen, stored, advanced>>,
         \A v \in Writers : recv[v] \in {"store", "advance"} \/ recv'[v] \in {"store", "advance"}
                              => recv'[v] = recv[v]
  PROVE  RingInv'
<1>1. Storing' = Storing
  BY DEF Storing
<1>2. QED BY <1>1 DEF RingInv, HoldsSince

LEMMA RingTypes ==
  ASSUME TypeOK
  PROVE  /\ advanced \in Nat /\ stored \in Nat /\ PosWrite \in 0..SizeCap-1
         /\ SizeCap \in Nat /\ SizeLen \in Nat \ {0}
         /\ \A a \in Nat : a % SizeLen \in 0..SizeCap-1
<1>1. /\ SizeLen \in Nat \ {0} /\ SizeLen <= SizeCap /\ SizeCap \in Nat
      /\ advanced \in Nat /\ stored \in Nat /\ PosWrite \in 0..SizeCap-1
  BY BufferAssumption DEF TypeOK
<1>2. \A a \in Nat : a % SizeLen \in 0..SizeLen-1
  BY ONLY <1>1, ModInRange
<1>3. QED BY <1>1, <1>2

(* A step that touches no slot but the one at PosWrite.                    *)
LEMMA HoldsElsewhere ==
  ASSUME TypeOK, UNCHANGED <<SizeLen, advanced>>,
         \A i \in 0..SizeCap-1 : i # PosWrite => Slots'[i] = Slots[i],
         NEW a \in 0..advanced-1, a % SizeLen # PosWrite, HoldsSince(a)
  PROVE  HoldsSince(a)'
<1>1. a \in Nat
  BY RingTypes
<1>2. QED BY <1>1, RingTypes DEF HoldsSince

(* No store is under way when one begins, and none after one has ended.    *)
LEMMA RingBeginStore ==
  ASSUME TypeOK, WritersExclude', RingInv, NEW w \in Writers, BeginStore(w)
  PROVE  RingInv'
<1>0. PICK h \in {w, Slots[PosWrite].Head} :
        Slots' = [Slots EXCEPT ![PosWrite] =
                    [Head |-> h, num |-> stored + 1, whole |-> FALSE]]
  BY DEF BeginStore
<1>1. /\ recv[w] = "write" /\ recv' = [recv EXCEPT ![w] = "store"]
      /\ UNCHANGED <<PosWrite, SizeLen, advanced>> /\ stored' = stored + 1
  BY DEF BeginStore, RecvStep
<1>2. \A v \in Writers : recv'[v] \in {"store", "advance"} => v = w
  BY <1>1 DEF WritersExclude, TypeOK, Sessions
<1>3. ~Storing /\ Storing' /\ recv'[w] = "store"
  BY <1>1, <1>2 DEF Storing, TypeOK, Sessions
<1>4. /\ Slots'[PosWrite].num = stored + 1
      /\ \A i \in 0..SizeCap-1 : i # PosWrite => Slots'[i] = Slots[i]
  BY <1>0 DEF TypeOK
<1>5. stored' = advanced' + 1
  BY <1>1, <1>3 DEF RingInv
<1>6. ASSUME NEW a \in 0..advanced-1, a % SizeLen # PosWrite PROVE HoldsSince(a)'
  BY <1>1, <1>3, <1>4, <1>6, HoldsElsewhere DEF RingInv
<1>7. \A i \in 0..SizeCap-1 : ~Slots'[i].whole => i = PosWrite
  BY <1>3, <1>4 DEF RingInv
<1>8. QED BY <1>1, <1>2, <1>3, <1>4, <1>5, <1>6, <1>7 DEF RingInv

LEMMA RingEndStore ==
  ASSUME TypeOK, FillInv, RingInv, NEW w \in Writers, EndStore(w)
  PROVE  RingInv'
<1>1. /\ recv[w] = "store" /\ recv' = [recv EXCEPT ![w] = "advance"]
      /\ wpos[w] = PosWrite
      /\ UNCHANGED <<PosWrite, SizeLen, stored, advanced>>
  BY DEF EndStore, RecvStep, FillInv, WriterAlone
<1>2. Slots' = [Slots EXCEPT ![PosWrite] =
                  [Head |-> w, num |-> Slots[PosWrite].num, whole |-> TRUE]]
  BY <1>1 DEF EndStore
<1>3. /\ Slots'[PosWrite].num = Slots[PosWrite].num /\ Slots'[PosWrite].whole
      /\ \A i \in 0..SizeCap-1 : i # PosWrite => Slots'[i] = Slots[i]
  BY <1>2 DEF TypeOK
<1>4. Storing /\ Storing'
  BY <1>1 DEF Storing, TypeOK, Sessions
<1>5. ASSUME NEW a \in 0..advanced-1, a % SizeLen # PosWrite PROVE HoldsSince(a)'
  BY <1>1, <1>3, <1>5, HoldsElsewhere DEF RingInv
<1>6. Slots'[PosWrite].num = stored
  BY <1>1, <1>3 DEF RingInv
<1>7. \A i \in 0..SizeCap-1 : ~Slots'[i].whole => i = PosWrite
  BY <1>3 DEF RingInv
<1>8. QED BY <1>1, <1>3, <1>4, <1>5, <1>6, <1>7 DEF RingInv

LEMMA RingAdvance ==
  ASSUME TypeOK, FillInv, RingInv, NEW w \in Writers, Advance(w)
  PROVE  RingInv'
<1>1. /\ recv[w] = "advance" /\ recv' = [recv EXCEPT ![w] = "loop"]
      /\ PosWrite' = (PosWrite + 1) % SizeLen
      /\ UNCHANGED <<Slots, SizeLen, stored>> /\ advanced' = advanced + 1
  BY DEF Advance, RecvStep, FillInv, WriterAlone
<1>2. Storing /\ ~Storing'
  BY <1>1 DEF Storing, FillInv, WritersExclude, TypeOK, Sessions
<1>3. Slots[PosWrite].num = advanced + 1 /\ Slots[PosWrite].whole
  BY <1>1, <1>2 DEF RingInv
<1>4. advanced \in Nat /\ SizeLen \in Nat \ {0} /\ PosWrite = advanced % SizeLen
  BY RingTypes DEF RingInv
<1>5. PosWrite' = advanced' % SizeLen'
  <2>1. ((advanced % SizeLen) + 1) % SizeLen = (advanced + 1) % SizeLen
    BY ONLY <1>4, ModSucc
  <2>2. QED BY <1>1, <1>4, <2>1
<1>6. ASSUME NEW a \in 0..advanced PROVE HoldsSince(a)'
  <2>1. CASE a % SizeLen = PosWrite
    <3>1. Slots'[a % SizeLen'].num = advanced + 1 /\ Slots'[a % SizeLen'].whole
      BY <1>1, <1>3, <2>1
    <3>2. advanced + 1 - 1 = advanced /\ advanced + 1 \in a+1..advanced+1
      BY <1>4
    <3>3. QED BY <1>1, <1>4, <2>1, <3>1, <3>2 DEF HoldsSince
  <2>2. CASE a % SizeLen # PosWrite
    <3>1. a \in 0..advanced-1
      BY <1>4, <2>2
    <3>2. HoldsSince(a)
      BY <2>2, <3>1 DEF RingInv
    <3>3. \A m \in a+1..advanced : m \in a+1..advanced+1
      BY <1>4
    <3>4. QED BY <1>1, <3>2, <3>3 DEF HoldsSince
  <2>3. QED BY <2>1, <2>2
<1>7. \A i \in 0..SizeCap-1 : Slots[i].whole
  BY <1>3 DEF RingInv
<1>8. \A v \in Writers : recv'[v] \notin {"store", "advance"}
  BY <1>2 DEF Storing
<1>9. stored' = advanced' /\ SizeLen' = InitLen /\ advanced' - 1 = advanced
  BY <1>1, <1>2, <1>4 DEF RingInv
<1>10. QED BY <1>1, <1>2, <1>5, <1>6, <1>7, <1>8, <1>9 DEF RingInv

LEMMA RingStep ==
  ASSUME FixedLen, TypeOK, Unstarted, FillInv, WritersExclude', RingInv, [Next]_vars
  PROVE  RingInv'
<1> USE DEF RecvStep, SendStep, ring, receiver, sender
<1>1. ASSUME NEW s \in Sessions, Start(s) PROVE RingInv'
  <2>1. \A v \in Writers : recv[v] \in {"store", "advance"} \/ recv'[v] \in {"store", "advance"}
                             => recv'[v] = recv[v]
    BY <1>1 DEF Start, Unstarted, TypeOK, Sessions
  <2>2. QED BY <1>1, <2>1, RingFrame DEF Start
<1>2. ASSUME NEW s \in Sessions, Close(s) PROVE RingInv'
  BY <1>2, RingFrame DEF Close
<1>3. ASSUME NEW n \in BufLens, Resize(n) PROVE RingInv'
  <2>1. SizeLen' = SizeLen
    BY <1>3 DEF Resize, FixedLen, RingInv
  <2>2. QED BY <1>3, <2>1, RingFrame DEF Resize
<1>4. ASSUME NEW w \in Writers, Receive(w) PROVE RingInv'
  <2>1. CASE RecvLoop(w) \/ ReadMessage(w) \/ ReadFails(w)
    <3>1. \A v \in Writers : recv[v] \in {"store", "advance"} \/ recv'[v] \in {"store", "advance"}
                               => recv'[v] = recv[v]
      BY <2>1 DEF RecvLoop, ReadMessage, ReadFails, TypeOK, Sessions
    <3>2. UNCHANGED <<Slots, PosWrite, SizeLen, stored, advanced>>
      BY <2>1 DEF RecvLoop, ReadMessage, ReadFails
    <3>3. QED BY <3>1, <3>2, RingFrame
  <2>2. QED BY <1>4, <2>1, RingBeginStore, RingEndStore, RingAdvance DEF Receive
<1>5. ASSUME NEW r \in Readers, Forward(r) PROVE RingInv'
  <2>1. UNCHANGED <<Slots, PosWrite, SizeLen, stored, advanced, recv>>
    BY <1>5 DEF Forward, Stop, Timeout, Poll, Copy, WriteMessage, WriteFails, Chase
  <2>2. QED BY <2>1, RingFrame
<1>6. CASE UNCHANGED vars
  BY <1>6, RingFrame DEF vars
<1>7. QED BY <1>1, <1>2, <1>3, <1>4, <1>5, <1>6 DEF Next

LEMMA RingHolds ==
  ASSUME TypeOK, RingInv
  PROVE  HoldsLastMessages
<1> SUFFICES ASSUME NEW n \in 1..stored, n > stored - SizeLen
             PROVE  LET slot == Slots[(n - 1) % SizeLen]
                    IN  slot.num = n /\ (n <= advanced => slot.whole)
  BY DEF HoldsLastMessages
<1> DEFINE a == n - 1
           slot == Slots[a % SizeLen]
<1>1. /\ n \in Nat \ {0} /\ advanced \in Nat /\ stored \in Nat /\ SizeLen \in Nat \ {0}
      /\ stored \in {advanced, advanced + 1} /\ n <= stored /\ n > stored - SizeLen
  BY RingTypes DEF RingInv
<1>2. CASE n = advanced + 1
  <2>1. stored = n /\ a = advanced
    BY <1>1, <1>2
  <2>2. Storing
    BY <1>1, <2>1 DEF RingInv
  <2>3. slot.num = n
    BY <2>1, <2>2 DEF RingInv, Storing
  <2>4. QED BY <1>1, <1>2, <2>3
<1>3. CASE n # advanced + 1
  <2>1. a \in 0..advanced-1 /\ a \in Nat /\ a < advanced
    BY <1>1, <1>3
  <2>2. ~Storing \/ a % SizeLen # PosWrite
    <3>1. SUFFICES ASSUME a % SizeLen = advanced % SizeLen PROVE stored = advanced
      BY <1>1 DEF RingInv
    <3>2. advanced - a >= SizeLen
      BY ONLY <1>1, <2>1, <3>1, ModApart
    <3>3. QED BY <1>1, <3>2
  <2>3. HoldsSince(a)
    BY <2>1, <2>2 DEF RingInv
  <2> DEFINE m == slot.num
  <2>4. m \in a+1..advanced /\ (m - 1) % SizeLen = a % SizeLen /\ slot.whole
    BY <2>3 DEF HoldsSince
  <2>5. m = n
    <3> HIDE DEF m
    <3>1. SUFFICES ASSUME m # n PROVE FALSE
      OBVIOUS
    <3>2. m - 1 \in Nat /\ a < m - 1 /\ m - 1 < stored
      BY <1>1, <2>1, <2>4, <3>1
    <3>3. (m - 1) - a >= SizeLen
      BY ONLY <1>1, <2>1, <2>4, <3>2, ModApart
    <3>4. QED BY <1>1, <3>2, <3>3
  <2>6. QED BY <2>4, <2>5
<1>4. QED BY <1>2, <1>3

(* Where receivers that share the ring lock it and its length stays, the   *)
(* ring holds the last SizeLen messages, each in its slot, and those       *)
(* behind PosWrite are whole.                                              *)
THEOREM HoldsLastMessagesHolds ==
  ASSUME ExclusiveWriters, FixedLen
  PROVE  Spec => []HoldsLastMessages
<1>1. UniformLens
  BY BufferAssumption DEF FixedLen, UniformLens
<1>2. Spec => []FillInv
  BY <1>1, FillInvariant
<1>3. TypeOK /\ Unstarted /\ FillInv /\ FillInv' /\ RingInv /\ [Next]_vars => RingInv'
  BY RingStep DEF FillInv
<1>4. TypeOK /\ Unstarted /\ [Next]_vars => Unstarted'
  BY UnstartedStep
<1>5. TypeOK /\ RingInv => HoldsLastMessages
  BY RingHolds
<1>6. QED BY <1>2, <1>3, <1>4, <1>5, RingInit, TypeInvariant, PTL DEF Spec

-----------------------------------------------------------------------------
(* Where a sender is, for a ring whose length stays.  It stands before     *)
(* message a + 1, for some a no older than the message it copied last;     *)
(* once it has seen that there is a new message, a + 1 has been stored;    *)
(* after the copy it stands on the message it copied.  So what it copies   *)
(* next is younger, and a store that overruns its slot is a whole ring     *)
(* ahead of it.                                                            *)

StandsBefore(r, last) == \E a \in bs[r].num..last : lpos[r] = a % SizeLen

SenderAt(r) ==
  /\ State[r] = "new" => ~overtaken[r] /\ bs[r] = Unwritten
  /\ ~bs[r].whole => overtaken[r]
  /\ ~overtaken[r] =>
       /\ bs[r].num <= advanced
       /\ send[r] = "poll" => StandsBefore(r, advanced)
       /\ send[r] = "copy" => StandsBefore(r, advanced - 1)
       /\ send[r] \in {"write", "chase"} =>
            bs[r].num > 0 /\ lpos[r] = (bs[r].num - 1) % SizeLen

SenderInv == \A r \in Readers : SenderAt(r)

LEMMA SenderTypes ==
  ASSUME TypeOK, NEW r \in Readers
  PROVE  /\ r \in Sessions /\ bs[r].num \in Nat /\ bs[r] \in Slot
         /\ lpos[r] \in 0..SizeCap-1 /\ overtaken[r] \in BOOLEAN
BY DEF TypeOK, Slot, Sessions

(* What the others do leaves a sender where it is.                         *)
LEMMA SenderFrame ==
  ASSUME TypeOK, NEW r \in Readers, SenderAt(r),
         SizeLen' = SizeLen, advanced' \in {advanced, advanced + 1},
         bs'[r] = bs[r], lpos'[r] = lpos[r], overtaken'[r] = overtaken[r],
         send'[r] \in {send[r], "done"}, State'[r] = "new" => State[r] = "new"
  PROVE  SenderAt(r)'
<1>1. bs[r].num \in Nat /\ advanced \in Nat
  BY SenderTypes, RingTypes
<1>2. StandsBefore(r, advanced) => StandsBefore(r, advanced)'
  BY <1>1 DEF StandsBefore
<1>3. ASSUME StandsBefore(r, advanced - 1) PROVE StandsBefore(r, advanced - 1)'
  <2>1. PICK a \in bs[r].num..advanced-1 : lpos[r] = a % SizeLen
    BY <1>3 DEF StandsBefore
  <2>2. a \in bs[r].num..advanced'-1
    <3> DEFINE k == bs[r].num
               m == advanced
               n == advanced'
    <3>1. k \in Nat /\ m \in Nat /\ n \in {m, m + 1} /\ a \in k..m-1
      BY <1>1, <2>1
    <3> HIDE DEF k, m, n
    <3>2. a \in k..n-1
      BY ONLY <3>1
    <3>3. QED BY <3>2 DEF k, n
  <2>3. (a % SizeLen)' = a % SizeLen
    OBVIOUS
  <2>4. QED BY <2>1, <2>2, <2>3 DEF StandsBefore
<1>4. QED BY <1>1, <1>2, <1>3 DEF SenderAt

LEMMA SenderStart ==
  ASSUME TypeOK, RingInv, NEW r \in Readers, SenderAt(r), Start(r)
  PROVE  SenderAt(r)'
<1>1. /\ State[r] = "new" /\ State'[r] = "using" /\ send'[r] = "poll"
      /\ bs'[r] = [Head |-> NoOne, num |-> advanced, whole |-> TRUE]
      /\ lpos'[r] = PosWrite /\ UNCHANGED <<SizeLen, advanced, overtaken>>
  BY SenderTypes DEF Start, TypeOK, ring
<1>2. ~overtaken'[r] /\ bs'[r].num = advanced /\ bs'[r].whole
  BY <1>1 DEF SenderAt
<1>3. StandsBefore(r, advanced)'
  BY <1>1, <1>2, RingTypes DEF StandsBefore, RingInv
<1>4. QED BY <1>1, <1>2, <1>3, RingTypes DEF SenderAt

(* It has seen that a message is there.                                    *)
LEMMA SenderPoll ==
  ASSUME TypeOK, RingInv, NEW r \in Readers, SenderAt(r), Poll(r)
  PROVE  SenderAt(r)'
<1>1. /\ lpos[r] # PosWrite /\ send[r] = "poll" /\ send'[r] = "copy"
      /\ UNCHANGED <<SizeLen, advanced, State, bs, lpos, overtaken>>
  BY SenderTypes DEF Poll, SendStep, TypeOK, ring, receiver
<1>2. ASSUME ~overtaken[r] PROVE StandsBefore(r, advanced - 1)
  <2>1. PICK a \in bs[r].num..advanced : lpos[r] = a % SizeLen
    BY <1>1, <1>2 DEF SenderAt, StandsBefore
  <2>2. a # advanced
    BY <1>1, <2>1 DEF RingInv
  <2>3. a \in bs[r].num..advanced-1
    BY <2>1, <2>2, SenderTypes, RingTypes
  <2>4. QED BY <2>1, <2>3 DEF StandsBefore
<1>3. StandsBefore(r, advanced - 1) => StandsBefore(r, advanced - 1)'
  BY <1>1 DEF StandsBefore
<1>4. QED BY <1>1, <1>2, <1>3 DEF SenderAt

(* The copy: of a younger message, whole, or from under a store.           *)
LEMMA CopyFinds ==
  ASSUME TypeOK, RingInv, NEW r \in Readers, SenderAt(r), send[r] = "copy", ~overtaken[r]
  PROVE  \/ /\ lpos[r] # PosWrite
            /\ Slots[lpos[r]].whole /\ Slots[lpos[r]].num \in bs[r].num+1..advanced
            /\ lpos[r] = (Slots[lpos[r]].num - 1) % SizeLen
         \/ /\ lpos[r] = PosWrite
            /\ advanced - bs[r].num >= SizeLen
<1>1. PICK a \in bs[r].num..advanced-1 : lpos[r] = a % SizeLen
  BY DEF SenderAt, StandsBefore
<1>2. /\ bs[r].num \in Nat /\ a \in Nat /\ advanced \in Nat /\ SizeLen \in Nat \ {0}
      /\ a < advanced /\ bs[r].num <= a
  BY <1>1, SenderTypes, RingTypes
<1>3. CASE lpos[r] = PosWrite
  <2>1. a % SizeLen = advanced % SizeLen
    BY <1>1, <1>3 DEF RingInv
  <2>2. advanced - a >= SizeLen
    BY ONLY <1>2, <2>1, ModApart
  <2>3. QED BY <1>2, <1>3, <2>2
<1>4. CASE lpos[r] # PosWrite
  <2>1. a \in 0..advanced-1 /\ a % SizeLen # PosWrite
    BY <1>1, <1>2, <1>4
  <2>2. HoldsSince(a)
    BY <2>1 DEF RingInv
  <2>3. /\ Slots[lpos[r]].num \in a+1..advanced /\ Slots[lpos[r]].whole
        /\ (Slots[lpos[r]].num - 1) % SizeLen = lpos[r]
    BY <1>1, <2>2 DEF HoldsSince
  <2>4. \A m \in a+1..advanced : m \in bs[r].num+1..advanced
    BY <1>2
  <2>5. QED BY <1>4, <2>3, <2>4
<1>5. QED BY <1>3, <1>4

LEMMA SenderCopy ==
  ASSUME TypeOK, RingInv, NEW r \in Readers, SenderAt(r), Copy(r), State[r] # "new"
  PROVE  SenderAt(r)'
<1>1. /\ send[r] = "copy" /\ send'[r] = "write"
      /\ bs'[r] = Slots[lpos[r]] /\ overtaken'[r] = (overtaken[r] \/ lpos[r] = PosWrite)
      /\ UNCHANGED <<SizeLen, advanced, State, lpos>>
  BY SenderTypes DEF Copy, SendStep, TypeOK, ring, receiver
<1>2. ~bs'[r].whole => overtaken'[r]
  BY <1>1, SenderTypes DEF RingInv
<1>3. ASSUME ~overtaken'[r]
      PROVE  /\ bs'[r].num <= advanced' /\ bs'[r].num > 0
             /\ lpos'[r] = (bs'[r].num - 1) % SizeLen'
  <2>1. /\ Slots[lpos[r]].num \in bs[r].num+1..advanced
        /\ lpos[r] = (Slots[lpos[r]].num - 1) % SizeLen
    BY <1>1, <1>3, CopyFinds
  <2>2. QED BY <1>1, <2>1, SenderTypes, RingTypes
<1>4. QED BY <1>1, <1>2, <1>3 DEF SenderAt

(* It moves behind the message it copied, or to the last one.              *)
LEMMA SenderChase ==
  ASSUME TypeOK, RingInv, NEW r \in Readers, SenderAt(r), Chase(r)
  PROVE  SenderAt(r)'
<1>1. /\ send[r] = "chase" /\ send'[r] = "poll"
      /\ lpos'[r] \in {PosWrite, (lpos[r] + 1) % SizeLen}
      /\ UNCHANGED <<SizeLen, advanced, State, bs, overtaken>>
  BY SenderTypes DEF Chase, SendStep, setReadPos, TypeOK, ring, receiver
<1>2. ASSUME ~overtaken[r] PROVE StandsBefore(r, advanced)'
  <2>1. /\ bs[r].num \in Nat \ {0} /\ bs[r].num <= advanced /\ advanced \in Nat
        /\ SizeLen \in Nat \ {0} /\ lpos[r] = (bs[r].num - 1) % SizeLen
    BY <1>1, <1>2, SenderTypes, RingTypes DEF SenderAt
  <2>2. CASE lpos'[r] = PosWrite
    BY <1>1, <2>1, <2>2 DEF StandsBefore, RingInv
  <2>3. CASE lpos'[r] = (lpos[r] + 1) % SizeLen
    <3>1. bs[r].num - 1 \in Nat /\ (bs[r].num - 1) + 1 = bs[r].num
      BY <2>1
    <3>2. (((bs[r].num - 1) % SizeLen) + 1) % SizeLen = ((bs[r].num - 1) + 1) % SizeLen
      BY ONLY <2>1, <3>1, ModSucc
    <3>3. lpos'[r] = bs[r].num % SizeLen
      BY <2>1, <2>3, <3>1, <3>2
    <3>4. QED BY <1>1, <2>1, <3>3 DEF StandsBefore
  <2>4. QED BY <1>1, <2>2, <2>3
<1>3. QED BY <1>1, <1>2 DEF SenderAt

(* WriteMessage is the one other step that moves a sender.                 *)
LEMMA SenderForward ==
  ASSUME TypeOK, Unstarted, RingInv, NEW r \in Readers, SenderAt(r), Forward(r)
  PROVE  SenderAt(r)'
<1> State[r] # "new"
  BY SenderTypes DEF Forward, Stop, Timeout, Poll, Copy, WriteMessage, WriteFails, Chase,
     SendStep, Unstarted
<1>1. CASE Stop(r) \/ Timeout(r) \/ WriteFails(r)
  <2>1. /\ send'[r] = "done" /\ State'[r] # "new"
        /\ UNCHANGED <<SizeLen, advanced, bs, lpos, overtaken>>
    BY <1>1, SenderTypes DEF Stop, Timeout, WriteFails, SendStep, TypeOK, ring
  <2>2. QED BY <2>1, SenderFrame
<1>2. CASE WriteMessage(r)
  <2>1. /\ send[r] = "write" /\ send'[r] = "chase"
        /\ UNCHANGED <<SizeLen, advanced, State, bs, lpos, overtaken>>
    BY <1>2, SenderTypes DEF WriteMessage, SendStep, TypeOK, ring
  <2>2. QED BY <2>1 DEF SenderAt
<1>3. QED BY <1>1, <1>2, SenderPoll, SenderCopy, SenderChase DEF Forward

LEMMA SenderStep ==
  ASSUME FixedLen, TypeOK, Unstarted, RingInv, SenderInv, [Next]_vars
  PROVE  SenderInv'
<1> SUFFICES ASSUME NEW q \in Readers PROVE SenderAt(q)'
  BY DEF SenderInv
<1> SenderAt(q) /\ q \in Sessions
  BY SenderTypes DEF SenderInv
<1>1. ASSUME NEW s \in Sessions, Start(s) PROVE SenderAt(q)'
  <2>1. CASE s = q
    BY <1>1, <2>1, SenderStart
  <2>2. CASE s # q
    <3>1. /\ UNCHANGED <<SizeLen, advanced, overtaken>>
          /\ bs'[q] = bs[q] /\ lpos'[q] = lpos[q] /\ send'[q] = send[q] /\ State'[q] = State[q]
      BY <1>1, <2>2 DEF Start, TypeOK, ring
    <3>2. QED BY <3>1, SenderFrame
  <2>3. QED BY <2>1, <2>2
<1>2. ASSUME NEW s \in Sessions, Close(s) PROVE SenderAt(q)'
  <2>1. /\ UNCHANGED <<SizeLen, advanced, bs, lpos, overtaken, send>>
        /\ State'[q] = "new" => State[q] = "new"
    BY <1>2 DEF Close, TypeOK, ring, sender
  <2>2. QED BY <1>2, <2>1, SenderFrame DEF Close, ring, sender
<1>3. ASSUME NEW n \in BufLens, Resize(n) PROVE SenderAt(q)'
  <2>1. SizeLen' = SizeLen
    BY <1>3 DEF Resize, FixedLen, RingInv
  <2>2. QED BY <1>3, <2>1, SenderFrame DEF Resize, sender
<1>4. ASSUME NEW w \in Writers, Receive(w) PROVE SenderAt(q)'
  <2>1. /\ SizeLen' = SizeLen /\ advanced' \in {advanced, advanced + 1}
        /\ UNCHANGED <<bs, lpos, overtaken, send>>
        /\ State'[q] = "new" => State[q] = "new"
    BY <1>4 DEF Receive, RecvLoop, ReadMessage, ReadFails, BeginStore, EndStore, Advance,
       RecvStep, TypeOK, ring, sender, Sessions
  <2>2. QED BY <2>1, SenderFrame
<1>5. ASSUME NEW r \in Readers, Forward(r) PROVE SenderAt(q)'
  <2>1. CASE r = q
    BY <1>5, <2>1, SenderForward
  <2>2. CASE r # q
    <3>1. /\ UNCHANGED <<SizeLen, advanced>>
          /\ bs'[q] = bs[q] /\ lpos'[q] = lpos[q] /\ send'[q] = send[q]
          /\ State'[q] = State[q] /\ overtaken'[q] = overtaken[q]
      BY <1>5, <2>2, SenderTypes DEF Forward, Stop, Timeout, Poll, Copy, WriteMessage, WriteFails,
         Chase, SendStep, TypeOK, ring
    <3>2. QED BY <3>1, SenderFrame
  <2>3. QED BY <2>1, <2>2
<1>6. CASE UNCHANGED vars
  BY <1>6, SenderFrame DEF vars, ring, sender
<1>7. QED BY <1>1, <1>2, <1>3, <1>4, <1>5, <1>6 DEF Next

-----------------------------------------------------------------------------
(* The feed.  Contract's joined and cursor, under names of their own.      *)

Cursor(r) == IF overtaken[r] \/ ~bs[r].whole THEN NoOne ELSE bs[r].num

Cursors == [r \in Readers |-> Cursor(r)]

Joined == {r \in Readers : State[r] # "new"}

LEMMA FeedMapping ==
  /\ UNCHANGED Contract!fvars <=> UNCHANGED <<advanced, Joined, Cursors>>
  /\ Contract!Publish <=> advanced' = advanced + 1 /\ UNCHANGED <<Joined, Cursors>>
  /\ \A r : Contract!Join(r) <=>
       /\ r \notin Joined /\ Joined' = Joined \cup {r}
       /\ Cursors' = [Cursors EXCEPT ![r] = advanced] /\ UNCHANGED advanced
  /\ \A r : Contract!Deliver(r) <=>
       /\ r \in Joined /\ Cursors[r] # NoOne
       /\ \E n \in Cursors[r]+1 .. advanced : Cursors' = [Cursors EXCEPT ![r] = n]
       /\ UNCHANGED <<advanced, Joined>>
  /\ \A r : Contract!Break(r) <=>
       /\ r \in Joined /\ Cursors[r] # NoOne
       /\ advanced - Cursors[r] >= InitLen
       /\ Cursors' = [Cursors EXCEPT ![r] = NoOne]
       /\ UNCHANGED <<advanced, Joined>>
<1> USE DEF Joined, Cursors, Cursor
<1>1. UNCHANGED Contract!fvars <=> UNCHANGED <<advanced, Joined, Cursors>>
  BY DEF Contract!fvars
<1>2. Contract!Publish <=> advanced' = advanced + 1 /\ UNCHANGED <<Joined, Cursors>>
  BY DEF Contract!Publish
<1>3. \A r : Contract!Join(r) <=>
        /\ r \notin Joined /\ Joined' = Joined \cup {r}
        /\ Cursors' = [Cursors EXCEPT ![r] = advanced] /\ UNCHANGED advanced
  BY DEF Contract!Join
<1>4. \A r : Contract!Deliver(r) <=>
        /\ r \in Joined /\ Cursors[r] # NoOne
        /\ \E n \in Cursors[r]+1 .. advanced : Cursors' = [Cursors EXCEPT ![r] = n]
        /\ UNCHANGED <<advanced, Joined>>
  BY DEF Contract!Deliver
<1>5. \A r : Contract!Break(r) <=>
        /\ r \in Joined /\ Cursors[r] # NoOne
        /\ advanced - Cursors[r] >= InitLen
        /\ Cursors' = [Cursors EXCEPT ![r] = NoOne]
        /\ UNCHANGED <<advanced, Joined>>
  BY DEF Contract!Break
<1>6. QED BY <1>1, <1>2, <1>3, <1>4, <1>5

(* Steps the subscribers do not see.                                       *)
LEMMA FeedFrame ==
  ASSUME \A r \in Readers : /\ State'[r] = "new" <=> State[r] = "new"
                            /\ bs'[r] = bs[r] /\ overtaken'[r] = overtaken[r]
  PROVE  UNCHANGED <<Joined, Cursors>>
BY DEF Joined, Cursors, Cursor

LEMMA CursorIs ==
  ASSUME TypeOK, NEW r \in Readers, SenderAt(r)
  PROVE  /\ Cursors[r] = IF overtaken[r] THEN NoOne ELSE bs[r].num
         /\ Cursors[r] # NoOne <=> ~overtaken[r]
<1>1. Cursors[r] = IF overtaken[r] THEN NoOne ELSE bs[r].num
  BY DEF Cursors, Cursor, SenderAt
<1>2. bs[r].num # NoOne
  BY SenderTypes, BufferAssumption
<1>3. QED BY <1>1, <1>2

LEMMA FeedStart ==
  ASSUME TypeOK, NEW r \in Readers, SenderAt(r), Start(r)
  PROVE  Contract!Join(r)
<1>1. /\ State[r] = "new" /\ State' = [State EXCEPT ![r] = "using"]
      /\ bs' = [bs EXCEPT ![r] = [Head |-> NoOne, num |-> advanced, whole |-> TRUE]]
      /\ UNCHANGED <<overtaken, advanced>>
  BY DEF Start
<1>2. r \in Sessions /\ ~overtaken[r]
  BY <1>1, SenderTypes DEF SenderAt
<1>3. r \notin Joined /\ Joined' = Joined \cup {r}
  BY <1>1, <1>2 DEF Joined, TypeOK, Sessions
<1>4. bs'[r].num = advanced /\ bs'[r].whole /\ \A q \in Readers \ {r} : bs'[q] = bs[q]
  BY <1>1, <1>2 DEF TypeOK, Sessions
<1>5. Cursors' = [Cursors EXCEPT ![r] = advanced]
  <2>1. Cursor(r)' = advanced
    BY <1>1, <1>2, <1>4 DEF Cursor
  <2>2. \A q \in Readers \ {r} : Cursor(q)' = Cursor(q)
    BY <1>1, <1>4 DEF Cursor
  <2>3. QED BY <2>1, <2>2 DEF Cursors
<1>6. QED BY <1>1, <1>3, <1>5, FeedMapping

LEMMA FeedCopy ==
  ASSUME TypeOK, RingInv, NEW r \in Readers, SenderAt(r), SenderAt(r)', Copy(r),
         State[r] # "new"
  PROVE  Contract!Deliver(r) \/ Contract!Break(r) \/ UNCHANGED Contract!fvars
<1>1. /\ send[r] = "copy" /\ bs' = [bs EXCEPT ![r] = Slots[lpos[r]]]
      /\ overtaken' = [overtaken EXCEPT ![r] = @ \/ lpos[r] = PosWrite]
      /\ UNCHANGED <<advanced, State>> /\ r \in Joined /\ UNCHANGED Joined
  BY DEF Copy, SendStep, Joined
<1>2. /\ bs'[r] = Slots[lpos[r]] /\ overtaken'[r] = (overtaken[r] \/ lpos[r] = PosWrite)
      /\ \A q \in Readers \ {r} : bs'[q] = bs[q] /\ overtaken'[q] = overtaken[q]
  BY <1>1 DEF TypeOK, Sessions
<1>3. Cursors' = [Cursors EXCEPT ![r] = IF overtaken'[r] THEN NoOne ELSE bs'[r].num]
  BY <1>2 DEF Cursors, Cursor, SenderAt
<1>4. CASE overtaken[r]
  <2>1. Cursors' = Cursors
    BY <1>2, <1>3, <1>4, CursorIs DEF Cursors
  <2>2. QED BY <1>1, <2>1, FeedMapping
<1>5. CASE ~overtaken[r] /\ lpos[r] = PosWrite
  <2>1. advanced - bs[r].num >= InitLen
    BY <1>1, <1>5, CopyFinds DEF RingInv
  <2>2. Contract!Break(r)
    BY <1>1, <1>2, <1>3, <1>5, <2>1, CursorIs, FeedMapping
  <2>3. QED BY <2>2
<1>6. CASE ~overtaken[r] /\ lpos[r] # PosWrite
  <2>1. bs'[r].num \in bs[r].num+1..advanced
    BY <1>1, <1>2, <1>6, CopyFinds
  <2>2. Cursors' = [Cursors EXCEPT ![r] = bs'[r].num]
    BY <1>2, <1>3, <1>6
  <2>3. Contract!Deliver(r)
    BY <1>1, <1>6, <2>1, <2>2, CursorIs, FeedMapping
  <2>4. QED BY <2>3
<1>7. QED BY <1>4, <1>5, <1>6

(* Every step of the ring is a step of the feed, or none.                  *)
LEMMA FeedStep ==
  ASSUME TypeOK, Unstarted, RingInv, SenderInv, SenderInv', [Next]_vars
  PROVE  [Contract!Next]_(Contract!fvars)
<1> SUFFICES Contract!Next \/ UNCHANGED <<advanced, Joined, Cursors>>
  BY FeedMapping
<1>1. ASSUME NEW s \in Sessions, Start(s)
      PROVE  Contract!Next \/ UNCHANGED <<advanced, Joined, Cursors>>
  <2>1. CASE s \in Readers
    <3>1. Contract!Join(s)
      BY <1>1, <2>1, FeedStart DEF SenderInv
    <3>2. QED BY <2>1, <3>1 DEF Contract!Next
  <2>2. CASE s \notin Readers
    <3>1. UNCHANGED advanced /\ \A r \in Readers :
            State'[r] = State[r] /\ bs'[r] = bs[r] /\ overtaken'[r] = overtaken[r]
      BY <1>1, <2>2 DEF Start, TypeOK, Sessions
    <3>2. QED BY <3>1, FeedFrame
  <2>3. QED BY <2>1, <2>2
<1>2. ASSUME NEW s \in Sessions, Close(s) PROVE UNCHANGED <<advanced, Joined, Cursors>>
  <2>1. UNCHANGED <<advanced, bs, overtaken>> /\ \A r \in Readers :
          State'[r] = "new" <=> State[r] = "new"
    BY <1>2 DEF Close, sender, TypeOK, Sessions
  <2>2. QED BY <2>1, FeedFrame
<1>3. ASSUME NEW n \in BufLens, Resize(n) PROVE UNCHANGED <<advanced, Joined, Cursors>>
  BY <1>3, FeedFrame DEF Resize, sender
<1>4. ASSUME NEW w \in Writers, Receive(w)
      PROVE  Contract!Next \/ UNCHANGED <<advanced, Joined, Cursors>>
  <2>1. UNCHANGED <<Joined, Cursors>>
    <3>1. UNCHANGED <<bs, overtaken>> /\ \A r \in Readers :
            State'[r] = "new" <=> State[r] = "new"
      BY <1>4 DEF Receive, RecvLoop, ReadMessage, ReadFails, BeginStore, EndStore, Advance,
         RecvStep, sender, TypeOK, Unstarted, Sessions
    <3>2. QED BY <3>1, FeedFrame
  <2>2. CASE Advance(w)
    <3>1. Contract!Publish
      BY <2>1, <2>2, FeedMapping DEF Advance
    <3>2. QED BY <3>1 DEF Contract!Next
  <2>3. CASE ~Advance(w)
    <3>1. UNCHANGED advanced
      BY <1>4, <2>3 DEF Receive, RecvLoop, ReadMessage, ReadFails, BeginStore, EndStore
    <3>2. QED BY <2>1, <3>1
  <2>4. QED BY <2>2, <2>3
<1>5. ASSUME NEW r \in Readers, Forward(r)
      PROVE  Contract!Next \/ UNCHANGED <<advanced, Joined, Cursors>>
  <2>1. State[r] # "new"
    BY <1>5, SenderTypes DEF Forward, Stop, Timeout, Poll, Copy, WriteMessage, WriteFails,
       Chase, SendStep, Unstarted
  <2>2. CASE Copy(r)
    <3>1. Contract!Deliver(r) \/ Contract!Break(r) \/ UNCHANGED Contract!fvars
      BY <2>1, <2>2, FeedCopy DEF SenderInv
    <3>2. QED BY <3>1, FeedMapping DEF Contract!Next
  <2>3. CASE ~Copy(r)
    <3>1. UNCHANGED <<advanced, bs, overtaken>> /\ \A q \in Readers :
            State'[q] = "new" <=> State[q] = "new"
      BY <1>5, <2>1, <2>3 DEF Forward, Stop, Timeout, Poll, WriteMessage, WriteFails, Chase,
         SendStep, TypeOK, Sessions
    <3>2. QED BY <3>1, FeedFrame
  <2>4. QED BY <2>2, <2>3
<1>6. CASE UNCHANGED vars
  BY <1>6, FeedFrame DEF vars, sender
<1>7. QED BY <1>1, <1>2, <1>3, <1>4, <1>5, <1>6 DEF Next

LEMMA FeedInit ==
  ASSUME Init
  PROVE  Contract!Init /\ SenderInv
<1>1. \A r \in Readers : r \in Sessions
  BY DEF Sessions
<1>2. Contract!Init
  BY <1>1 DEF Init, Contract!Init, Unwritten
<1>3. SenderInv
  BY <1>1 DEF Init, SenderInv, SenderAt, Unwritten
<1>4. QED BY <1>2, <1>3

(* Where receivers that share the ring lock it and its length stays, the   *)
(* ring implements the live feed: what the subscribers are sent is, in     *)
(* order and none twice, some of what the publishers sent after they       *)
(* joined, whole, until a sender is a whole ring behind.                   *)
THEOREM FeedImplemented ==
  ASSUME ExclusiveWriters, FixedLen
  PROVE  Spec => ImplementsFeed
<1>1. UniformLens
  BY BufferAssumption DEF FixedLen, UniformLens
<1>2. Spec => []FillInv
  BY <1>1, FillInvariant
<1>3. Init => Unstarted /\ RingInv
  BY RingInit
<1>4. TypeOK /\ Unstarted /\ FillInv /\ FillInv' /\ RingInv /\ [Next]_vars => RingInv'
  BY RingStep DEF FillInv
<1>5. TypeOK /\ Unstarted /\ [Next]_vars => Unstarted'
  BY UnstartedStep
<1>6. TypeOK /\ Unstarted /\ RingInv /\ SenderInv /\ [Next]_vars => SenderInv'
  BY SenderStep
<1>7. /\ TypeOK /\ Unstarted /\ RingInv /\ SenderInv /\ SenderInv' /\ [Next]_vars
         => [Contract!Next]_(Contract!fvars)
  BY FeedStep
<1>8. Init => Contract!Init /\ SenderInv
  BY FeedInit
<1>9. QED BY <1>2, <1>3, <1>4, <1>5, <1>6, <1>7, <1>8, TypeInvariant, PTL
          DEF Spec, ImplementsFeed, Contract!Spec
=============================================================================
