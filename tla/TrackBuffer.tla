---------------------------- MODULE TrackBuffer ----------------------------
(***************************************************************************)
(* One ring buffer of a track (src/server/data-buffer.go) and the          *)
(* goroutines that share it: receivers, which copy the messages of a       *)
(* publishing peer into the ring (recvTrackBufferIn...), and senders,      *)
(* which copy the ring to a subscribing peer (sendTrackBufferIn...).  A    *)
(* /meb session runs one goroutine of each kind on the same ring.          *)
(*                                                                         *)
(* No lock covers a read of the ring, and a write is covered only when the *)
(* receiver was started with flock.  Every access that another goroutine   *)
(* can come in between is therefore a step of its own: a receiver reads    *)
(* the socket, begins and ends the store into the slot, then advances      *)
(* PosWrite; a sender tests for a new message, copies the slot, writes it  *)
(* to the socket, then moves its own position.                             *)
(***************************************************************************)
EXTENDS Integers

CONSTANTS
  Writers,     \* sessions with a receiver goroutine on this ring
  Readers,     \* sessions with a sender goroutine on this ring
  TimeoutOut,  \* the readers whose sender was started with fout = true
  Stalled,     \* the readers whose peer may stop reading its socket
  SizeCap,     \* BUFFER_CAP_SLOTS: slots allocated
  InitLen,     \* BUFFER_LEN_SLOTS: slots used by a new track
  BufLens,     \* the buf_len values publishers ask for
  Gap,         \* BUFFER_GAP_SLOTS
  Flock,       \* do the receivers take the buffer lock?
  MaxMsgs,     \* bound: no message is read from a peer once so many are stored
  NoOne        \* the nil Head of a slot never written, and the free lock

Sessions == Writers \cup Readers

ASSUME BufferAssumption ==
  /\ SizeCap \in Nat /\ InitLen \in 2..SizeCap
  /\ BufLens \subseteq 2..SizeCap           \* setTrackBufferSize, setBufferSizeLen
  /\ Gap \in Nat /\ MaxMsgs \in Nat
  /\ Flock \in BOOLEAN
  /\ TimeoutOut \subseteq Readers /\ Stalled \subseteq Readers
  /\ NoOne \notin Sessions \cup Nat

VARIABLES
  Slots,      \* Buffer.Slots: sender id, message number, and is the store whole?
  PosWrite,   \* Buffer.PosWrite
  SizeLen,    \* Buffer.SizeLen
  lock,       \* holder of the buffer's mutex
  State,      \* "new", then Session.State: "using" or "idle"
  recv,       \* where each receiver goroutine is
  wpos,       \* PosWrite as each receiver last loaded it
  send,       \* where each sender goroutine is
  lpos,       \* the local read position of each sender
  bs,         \* the slot each sender copied last
  stored,     \* history: stores begun; message n is the n-th of them
  advanced,   \* history: advances of PosWrite
  overtaken   \* history: did a store run over a slot while the sender copied it?

ring     == <<Slots, PosWrite, SizeLen, lock>>
receiver == <<recv, wpos>>
sender   == <<send, lpos, bs, overtaken>>
vars     == <<ring, State, receiver, sender, stored, advanced>>

Slot == [Head : Sessions \cup {NoOne}, num : Nat, whole : BOOLEAN]

Unwritten == [Head |-> NoOne, num |-> 0, whole |-> TRUE]

Abs(x) == IF x < 0 THEN -x ELSE x

(* Operators named ...Wrong are plausible slips in the definition that      *)
(* follows them.  No specification uses them: they show that the           *)
(* properties below can tell the code from its slips.                      *)

(* The position is never wrapped.                                          *)
setReadPosWrapWrong(pos) ==
  IF Abs(PosWrite - pos) > Gap THEN PosWrite ELSE pos + 1

(* Buffer.setReadPos, for a sender at position pos.                        *)
setReadPos(pos) ==
  IF Abs(PosWrite - pos) > Gap THEN PosWrite ELSE (pos + 1) % SizeLen

-----------------------------------------------------------------------------
(* Sessions.                                                               *)

(* A sender starts at the first slot of the ring.                          *)
StartWrong(s) ==
  /\ State[s] = "new"
  /\ State' = [State EXCEPT ![s] = "using"]
  /\ recv' = [recv EXCEPT ![s] = IF s \in Writers THEN "loop" ELSE @]
  /\ send' = [send EXCEPT ![s] = IF s \in Readers THEN "poll" ELSE @]
  /\ bs'   = [bs EXCEPT ![s] = [Head |-> NoOne, num |-> advanced, whole |-> TRUE]]
  /\ UNCHANGED <<ring, wpos, lpos, overtaken, stored, advanced>>

(* A peer connects; the handler starts the session's goroutines.  A sender *)
(* first loads its position.                                               *)
Start(s) ==
  /\ State[s] = "new"
  /\ State' = [State EXCEPT ![s] = "using"]
  /\ recv' = [recv EXCEPT ![s] = IF s \in Writers THEN "loop" ELSE @]
  /\ send' = [send EXCEPT ![s] = IF s \in Readers THEN "poll" ELSE @]
  /\ lpos' = [lpos EXCEPT ![s] = PosWrite]
  /\ bs'   = [bs EXCEPT ![s] = [Head |-> NoOne, num |-> advanced, whole |-> TRUE]]
  /\ UNCHANGED <<ring, wpos, overtaken, stored, advanced>>

(* The session, or its channel, is closed under the goroutines' feet.      *)
Close(s) ==
  /\ State[s] = "using"
  /\ State' = [State EXCEPT ![s] = "idle"]
  /\ UNCHANGED <<ring, receiver, sender, stored, advanced>>

(* A publisher sets the number of slots in use (setTrackBufferSize).       *)
Resize(n) ==
  /\ n \in BufLens
  /\ SizeLen' = n
  /\ UNCHANGED <<Slots, PosWrite, lock, State, receiver, sender, stored, advanced>>

-----------------------------------------------------------------------------
(* The receiver goroutine of session w.                                    *)

RecvStep(w, from, to) ==
  /\ recv[w] = from
  /\ recv' = [recv EXCEPT ![w] = to]

RecvLoop(w) ==
  /\ RecvStep(w, "loop", IF State[w] = "using" THEN "read" ELSE "done")
  /\ UNCHANGED <<ring, State, wpos, sender, stored, advanced>>

ReadMessage(w) ==
  /\ stored < MaxMsgs
  /\ RecvStep(w, "read", "write")
  /\ UNCHANGED <<ring, State, wpos, sender, stored, advanced>>

(* The peer leaves or its read deadline passes: defer s.setState(Idle).    *)
ReadFails(w) ==
  /\ RecvStep(w, "read", "done")
  /\ State' = [State EXCEPT ![w] = "idle"]
  /\ UNCHANGED <<ring, wpos, sender, stored, advanced>>

(* writeSlot: take the lock if asked to and begin to store into the slot   *)
(* at PosWrite.  Until the store ends a reader may see the old or the new  *)
(* Head with either body.                                                  *)
BeginStore(w) ==
  /\ RecvStep(w, "write", "store")
  /\ Flock => lock = NoOne
  /\ lock' = IF Flock THEN w ELSE lock
  /\ wpos' = [wpos EXCEPT ![w] = PosWrite]
  /\ \E h \in {w, Slots[PosWrite].Head} :
       Slots' = [Slots EXCEPT ![PosWrite] =
                   [Head |-> h, num |-> stored + 1, whole |-> FALSE]]
  /\ stored' = stored + 1
  /\ UNCHANGED <<PosWrite, SizeLen, State, sender, advanced>>

(* The store ends; PosWrite is loaded to be advanced.                      *)
EndStore(w) ==
  /\ RecvStep(w, "store", "advance")
  /\ Slots' = [Slots EXCEPT ![wpos[w]] = 
                         [Head |-> w, num |-> Slots[wpos[w]].num, whole |-> TRUE]]
  /\ wpos' = [wpos EXCEPT ![w] = PosWrite]
  /\ UNCHANGED <<PosWrite, SizeLen, lock, State, sender, stored, advanced>>

(* PosWrite wraps one slot early.                                          *)
AdvanceWrong(w) ==
  /\ RecvStep(w, "advance", "loop")
  /\ PosWrite' = (wpos[w] + 1) % (SizeLen - 1)
  /\ lock' = IF Flock THEN NoOne ELSE lock
  /\ advanced' = advanced + 1
  /\ UNCHANGED <<Slots, SizeLen, State, wpos, sender, stored>>

Advance(w) ==
  /\ RecvStep(w, "advance", "loop")
  /\ PosWrite' = (wpos[w] + 1) % SizeLen
  /\ lock' = IF Flock THEN NoOne ELSE lock
  /\ advanced' = advanced + 1
  /\ UNCHANGED <<Slots, SizeLen, State, wpos, sender, stored>>

-----------------------------------------------------------------------------
(* The sender goroutine of session r.                                      *)

SendStep(r, from, to) ==
  /\ send[r] = from
  /\ send' = [send EXCEPT ![r] = to]

(* The loop waits for a message before it looks at the states.             *)
StopWrong(r) ==
  /\ State[r] = "idle" /\ lpos[r] # PosWrite
  /\ SendStep(r, "poll", "done")
  /\ UNCHANGED <<ring, State, receiver, lpos, bs, overtaken, stored, advanced>>

(* The loop's condition fails.                                             *)
Stop(r) ==
  /\ State[r] = "idle"
  /\ SendStep(r, "poll", "done")
  /\ UNCHANGED <<ring, State, receiver, lpos, bs, overtaken, stored, advanced>>

(* No message for TimeOver: a sender with fout returns.                    *)
Timeout(r) ==
  /\ r \in TimeoutOut /\ State[r] = "using" /\ lpos[r] = PosWrite
  /\ SendStep(r, "poll", "done")
  /\ State' = [State EXCEPT ![r] = "idle"]
  /\ UNCHANGED <<ring, receiver, lpos, bs, overtaken, stored, advanced>>

(* The slot is read whether there is a new message or not.                 *)
PollWrong(r) ==
  /\ State[r] = "using"
  /\ SendStep(r, "poll", "copy")
  /\ UNCHANGED <<ring, State, receiver, lpos, bs, overtaken, stored, advanced>>

(* A position is behind another when it is smaller.                        *)
PollOrderWrong(r) ==
  /\ State[r] = "using" /\ lpos[r] < PosWrite
  /\ SendStep(r, "poll", "copy")
  /\ UNCHANGED <<ring, State, receiver, lpos, bs, overtaken, stored, advanced>>

Poll(r) ==
  /\ State[r] = "using" /\ lpos[r] # PosWrite
  /\ SendStep(r, "poll", "copy")
  /\ UNCHANGED <<ring, State, receiver, lpos, bs, overtaken, stored, advanced>>

(* readSlotByPos: the copy is not atomic with the test before it.          *)
Copy(r) ==
  /\ SendStep(r, "copy", "write")
  /\ bs' = [bs EXCEPT ![r] = Slots[lpos[r]]]
  /\ overtaken' = [overtaken EXCEPT ![r] = @ \/ lpos[r] = PosWrite]
  /\ UNCHANGED <<ring, State, receiver, lpos, stored, advanced>>

(* The message goes to the peer, unless the peer sent it.  The session id  *)
(* is taken from Head by a type assertion, which a nil Head fails.         *)
WriteMessage(r) ==
  /\ bs[r].Head # NoOne
  /\ SendStep(r, "write", "chase")
  /\ UNCHANGED <<ring, State, receiver, lpos, bs, overtaken, stored, advanced>>

(* The write, or the type assertion, fails: defer s.setState(Idle).        *)
WriteFails(r) ==
  /\ bs[r].Head # r
  /\ SendStep(r, "write", "done")
  /\ State' = [State EXCEPT ![r] = "idle"]
  /\ UNCHANGED <<ring, receiver, lpos, bs, overtaken, stored, advanced>>

Chase(r) ==
  /\ SendStep(r, "chase", "poll")
  /\ lpos' = [lpos EXCEPT ![r] = setReadPos(@)]
  /\ UNCHANGED <<ring, State, receiver, bs, overtaken, stored, advanced>>

-----------------------------------------------------------------------------
Init ==
  /\ Slots = [i \in 0..SizeCap-1 |-> Unwritten]
  /\ PosWrite = 0
  /\ SizeLen = InitLen
  /\ lock = NoOne
  /\ State = [s \in Sessions |-> "new"]
  /\ recv = [s \in Sessions |-> "done"]
  /\ wpos = [s \in Sessions |-> 0]
  /\ send = [s \in Sessions |-> "done"]
  /\ lpos = [s \in Sessions |-> 0]
  /\ bs = [s \in Sessions |-> Unwritten]
  /\ stored = 0
  /\ advanced = 0
  /\ overtaken = [s \in Sessions |-> FALSE]

Receive(w) == \/ RecvLoop(w) \/ ReadMessage(w) \/ ReadFails(w)
              \/ BeginStore(w) \/ EndStore(w) \/ Advance(w)

Forward(r) == \/ Stop(r) \/ Timeout(r) \/ Poll(r) \/ Copy(r)
              \/ WriteMessage(r) \/ WriteFails(r) \/ Chase(r)

Next ==
  \/ \E s \in Sessions : Start(s) \/ Close(s)
  \/ \E n \in BufLens : Resize(n)
  \/ \E w \in Writers : Receive(w)
  \/ \E r \in Readers : Forward(r)

Spec == Init /\ [][Next]_vars

(* Goroutines are scheduled; a peer's read deadline makes ReadMessage end, *)
(* with a message or without; the timer of a sender runs out.  A write to  *)
(* a peer has no deadline: it ends only for a peer that keeps reading.     *)
FairSpec ==
  /\ Spec
  /\ \A w \in Writers : /\ WF_vars(RecvLoop(w))
                        /\ WF_vars(ReadMessage(w) \/ ReadFails(w))
                        /\ SF_vars(BeginStore(w))
                        /\ WF_vars(EndStore(w) \/ Advance(w))
  /\ \A r \in Readers : /\ WF_vars(Stop(r)) /\ WF_vars(Poll(r))
                        /\ WF_vars(Timeout(r))
                        /\ WF_vars(Copy(r) \/ Chase(r))
  /\ \A r \in Readers \ Stalled : WF_vars(WriteMessage(r) \/ WriteFails(r))

-----------------------------------------------------------------------------
(* Properties.                                                             *)

TypeOK ==
  /\ Slots \in [0..SizeCap-1 -> Slot]
  /\ PosWrite \in 0..SizeCap-1
  /\ SizeLen \in 2..SizeCap
  /\ lock \in Writers \cup {NoOne}
  /\ State \in [Sessions -> {"new", "using", "idle"}]
  /\ recv \in [Sessions -> {"loop", "read", "write", "store", "advance", "done"}]
  /\ wpos \in [Sessions -> 0..SizeCap-1]
  /\ send \in [Sessions -> {"poll", "copy", "write", "chase", "done"}]
  /\ lpos \in [Sessions -> 0..SizeCap-1]
  /\ bs \in [Sessions -> Slot]
  /\ stored \in Nat /\ advanced \in Nat
  /\ overtaken \in [Sessions -> BOOLEAN]

(* A sender never takes the session id from a slot nobody has written: the *)
(* assertion bs.Head.(string) in sendTrackBufferInWSMessage holds.         *)
NoNilHead == \A r \in Readers : send[r] = "write" => bs[r].Head # NoOne

(* The ring holds the last SizeLen messages, message n in slot             *)
(* (n-1) % SizeLen, and those behind PosWrite are whole.                   *)
HoldsLastMessages ==
  \A n \in 1..stored : n > stored - SizeLen =>
    LET slot == Slots[(n - 1) % SizeLen]
    IN  slot.num = n /\ (n <= advanced => slot.whole)

(* The ring implements the live feed: even a sender that was lapped copies *)
(* messages whole, in the order they were stored, none twice and none      *)
(* older than its session.  Only a store into the slot between the test    *)
(* for a new message and the copy of it breaks a feed, and that takes a    *)
(* sender a whole ring behind.                                             *)
Contract == INSTANCE Feed WITH
  Window    <- InitLen,
  Broken    <- NoOne,
  published <- advanced,
  joined    <- {r \in Readers : State[r] # "new"},
  cursor    <- [r \in Readers |->
                  IF overtaken[r] \/ ~bs[r].whole THEN NoOne ELSE bs[r].num]

ImplementsFeed == Contract!Spec

(* No two receivers are inside writeSlot on a ring they share.             *)
WritersExclude ==
  \A v, w \in Writers :
    recv[v] \in {"store", "advance"} /\ recv[w] \in {"store", "advance"} => v = w

(* What the code relies on but does not enforce: receivers that share the  *)
(* ring lock it, and publishers agree on a buf_len no larger than the      *)
(* default.                                                                *)
ExclusiveWriters == Flock \/ \A v, w \in Writers : v = w
UniformLens      == \E n \in 2..InitLen : BufLens \subseteq {n}

(* Why NoNilHead holds then (the inductive invariant).  One receiver at a  *)
(* time is inside writeSlot, at PosWrite.  Either the writers have been    *)
(* round the ring and every slot is written, or PosWrite and every sender  *)
(* are still on the first lap, in the written part or at its end.          *)
Written(i) == Slots[i].Head # NoOne

WriterAlone ==
  \A w \in Writers : recv[w] \in {"store", "advance"} =>
    /\ Flock => lock = w
    /\ wpos[w] = PosWrite
    /\ recv[w] = "advance" => Written(PosWrite)

FirstLap ==
  /\ PosWrite < SizeLen
  /\ \A i \in 0..PosWrite-1 : Written(i)
  /\ \A r \in Readers :
       /\ lpos[r] <= PosWrite
       /\ send[r] \in {"copy", "write", "chase"} => lpos[r] < PosWrite

Filled == \A i \in 0..SizeLen-1 : Written(i)

SendersBehind ==
  \A r \in Readers : /\ Written(lpos[r]) \/ lpos[r] = PosWrite
                     /\ send[r] = "copy" => Written(lpos[r])

FillInv ==
  /\ SizeLen = InitLen \/ SizeLen \in BufLens
  /\ WritersExclude /\ WriterAlone
  /\ Filled \/ FirstLap
  /\ SendersBehind /\ NoNilHead

(* A sender whose peer keeps reading catches up with the writers or ends,  *)
(* whatever the other peers do.                                            *)
LiveReadersCatchUp ==
  \A r \in Readers \ Stalled :
    send[r] = "poll" ~> (send[r] = "done" \/ lpos[r] = PosWrite)

(* When a session is closed, or one of its goroutines ends, both of them   *)
(* end; only a sender whose own peer has stalled may stay.                 *)
LiveSessionsEnd ==
  \A s \in Sessions :
    State[s] = "idle" ~> (recv[s] = "done" /\ (send[s] = "done" \/ s \in Stalled))

=============================================================================
