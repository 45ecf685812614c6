------------------------ MODULE ChannelEvents_proofs ------------------------
(***************************************************************************)
(* Theorems about the brokers of ChannelEvents, for every number of        *)
(* listeners, of sessions and of places in the channel: one is there when  *)
(* EventState says so, and together they send no listener an event twice.  *)
(***************************************************************************)
EXTENDS ChannelEvents, TLAPS

(* The part of TypeOK that the proof needs.                                *)
Brokers == [Listeners -> {"none", "start", "poll", "check", "range", "write", "end", "done"}]

ReadyInv == broker \in Brokers /\ ReadyMeansBroker

(* A step of a broker that is running and goes on running, or is not       *)
(* started yet, keeps every broker that runs running.                      *)
LEMMA KeepsRunning ==
  ASSUME ReadyInv, NEW b \in Listeners, NEW from, NEW to, BrokerGoto(b, from, to),
         EventState' = EventState,
         to \in {"start", "poll", "check", "range", "write", "end"},
         to = "start" => from = "none"
  PROVE  ReadyInv'
<1>1. broker' \in Brokers
  BY DEF ReadyInv, Brokers, BrokerGoto
<1>2. ASSUME NEW c \in Listeners, Running(c) PROVE broker'[c] \in
        {"poll", "check", "range", "write", "end"}
  BY <1>2 DEF ReadyInv, Brokers, BrokerGoto, Running
<1>3. ReadyMeansBroker'
  BY <1>2 DEF ReadyInv, ReadyMeansBroker, Running
<1> QED BY <1>1, <1>3 DEF ReadyInv

LEMMA NothingStarts ==
  ASSUME ReadyInv, UNCHANGED <<broker, EventState>>
  PROVE  ReadyInv'
BY DEF ReadyInv, ReadyMeansBroker, Running, Brokers

LEMMA ReadyLook ==
  ASSUME ReadyInv, NEW e \in Listeners, LookForBroker(e)
  PROVE  ReadyInv'
<1>1. /\ EventState' = EventState
      /\ broker' = [broker EXCEPT ![e] = IF EventState = "idle" THEN "start" ELSE @]
  BY DEF LookForBroker, channel
<1>2. CASE EventState = "idle"
  BY <1>1, <1>2 DEF ReadyInv, ReadyMeansBroker, Brokers
<1>3. CASE EventState # "idle"
  <2>1. broker' = broker
    BY <1>1, <1>3 DEF ReadyInv, Brokers
  <2> QED BY <2>1, <1>1, NothingStarts
<1> QED BY <1>2, <1>3

(* Every step of the brokers keeps the invariant: one that starts is there *)
(* when EventState says so, and the one that ends takes EventState back.   *)
LEMMA ReadyBroke ==
  ASSUME ReadyInv, NEW b \in Listeners, Broke(b)
  PROVE  ReadyInv'
<1>1. CASE BrokerStart(b)
  <2>1. broker' \in Brokers /\ broker'[b] = "poll"
    BY <1>1 DEF ReadyInv, Brokers, BrokerStart, BrokerGoto
  <2> QED BY <2>1 DEF ReadyInv, ReadyMeansBroker, Running
<1>2. CASE Take(b)
  BY <1>2, KeepsRunning DEF Take
<1>3. CASE FindEmpty(b)
  BY <1>3, KeepsRunning DEF FindEmpty, channel
<1>4. CASE CheckNeeded(b)
  BY <1>4, KeepsRunning DEF CheckNeeded, channel
<1>5. CASE BeginWrite(b)
  BY <1>5, KeepsRunning DEF BeginWrite, channel
<1>6. CASE EndWrite(b)
  BY <1>6, KeepsRunning DEF EndWrite, channel
<1>7. CASE WriteFails(b)
  BY <1>7, KeepsRunning DEF WriteFails, channel
<1>8. CASE RangeEnds(b)
  BY <1>8, KeepsRunning DEF RangeEnds, channel
<1>9. CASE BrokerEnd(b)
  BY <1>9 DEF ReadyInv, ReadyMeansBroker, Brokers, BrokerEnd, BrokerGoto
<1> QED BY <1>1, <1>2, <1>3, <1>4, <1>5, <1>6, <1>7, <1>8, <1>9 DEF Broke

LEMMA ReadyStep == ReadyInv /\ [Next]_vars => ReadyInv'
<1> SUFFICES ASSUME ReadyInv, [Next]_vars PROVE ReadyInv'
  OBVIOUS
<1>1. ASSUME NEW s \in Sessions, Push(s) \/ Leave(s) PROVE UNCHANGED <<broker, EventState>>
  BY <1>1 DEF Push, PushEvent, Send, SendPanics, Leave, channel, brokers
<1>2. ASSUME NEW e \in Listeners, Listen(e), ~LookForBroker(e)
      PROVE  UNCHANGED <<broker, EventState>>
  BY <1>2 DEF Listen, AddEventer, WaitForBroker, Ping, PingEnds, PingFails, DeleteEventer,
              channel, brokers
<1>3. DeleteChannel \/ UNCHANGED vars => UNCHANGED <<broker, EventState>>
  BY DEF DeleteChannel, vars, channel, brokers
<1> QED BY <1>1, <1>2, <1>3, NothingStarts, ReadyLook, ReadyBroke DEF Next

(* While EventState tells sessions to send events, a broker is there to    *)
(* take them, however many were started and whichever ends first.          *)
THEOREM ReadyMeansBrokerHolds == Spec => []ReadyMeansBroker
<1>1. Init => ReadyInv
  BY DEF Init, ReadyInv, ReadyMeansBroker, Brokers
<1>2. ReadyInv => ReadyMeansBroker
  BY DEF ReadyInv
<1> QED BY <1>1, <1>2, ReadyStep, PTL DEF Spec
-----------------------------------------------------------------------------
(* The types.                                                              *)

LEMMA GotoTypes ==
  ASSUME TypeOK, NEW s \in Sessions, NEW from,
         NEW to \in {"new", "look", "wait", "in", "stream", "ping", "out", "delete",
                     "send-in", "send-out", "done"},
         Goto(s, from, to)
  PROVE  pc' \in [Sessions -> {"new", "look", "wait", "in", "stream", "ping", "out", "delete",
                               "send-in", "send-out", "done"}]
BY DEF TypeOK, Goto

LEMMA BrokerGotoTypes ==
  ASSUME TypeOK, NEW b \in Listeners, NEW from,
         NEW to \in {"none", "start", "poll", "check", "range", "write", "end", "done"},
         BrokerGoto(b, from, to)
  PROVE  broker' \in [Listeners -> {"none", "start", "poll", "check", "range", "write", "end",
                                    "done"}]
BY DEF TypeOK, BrokerGoto

LEMMA TypePush ==
  ASSUME TypeOK, NEW s \in Sessions, Push(s) \/ Leave(s)
  PROVE  TypeOK'
<1>1. ASSUME NEW way \in {"in", "out"}, PushEvent(s, way) \/ SendPanics(s, way) PROVE TypeOK'
  <2>1. UNCHANGED <<failed, channel, brokers, heard>>
    BY <1>1 DEF PushEvent, SendPanics
  <2>2. \E from : \E to \in {"stream", "delete", "done", "send-in", "send-out"} : Goto(s, from, to)
    BY <1>1 DEF PushEvent, SendPanics, Sending, Leaving
  <2> QED BY <2>1, <2>2, GotoTypes DEF TypeOK, channel, brokers, heard
<1>2. ASSUME NEW way \in {"in", "out"}, Send(s, way) PROVE TypeOK'
  <2>1. \E from : \E to \in {"stream", "delete", "done"} : Goto(s, from, to)
    BY <1>2 DEF Send, Leaving
  <2>2. <<s, way>> \in Events
    BY DEF Events
  <2>3. eventChan' \in Seq(Events) /\ Len(eventChan') <= Cap
    BY <1>2, <2>2, EventAssumption DEF Send, TypeOK
  <2> QED BY <1>2, <2>1, <2>3, GotoTypes DEF TypeOK, Send, brokers, heard
<1>3. CASE Leave(s)
  BY <1>3, GotoTypes DEF TypeOK, Leave, channel, brokers, heard
<1> QED BY <1>1, <1>2, <1>3 DEF Push

LEMMA TypeListen ==
  ASSUME TypeOK, NEW e \in Listeners, Listen(e)
  PROVE  TypeOK'
<1> e \in Sessions
  BY DEF Sessions
<1>1. CASE AddEventer(e)
  <2>1. todo' \in [Listeners -> SUBSET Listeners] /\ Eventers' \subseteq Listeners
    BY <1>1 DEF AddEventer, TypeOK
  <2> QED BY <1>1, <2>1, GotoTypes DEF TypeOK, AddEventer, heard
<1>2. CASE LookForBroker(e)
  <2>1. \E to \in {"wait", "in"} : Goto(e, "look", to)
    BY <1>2 DEF LookForBroker
  <2>2. broker' \in [Listeners -> {"none", "start", "poll", "check", "range", "write", "end",
                                   "done"}]
    BY <1>2 DEF LookForBroker, TypeOK
  <2> QED BY <1>2, <2>1, <2>2, GotoTypes DEF TypeOK, LookForBroker, channel, heard
<1>3. CASE WaitForBroker(e) \/ Ping(e)
  BY <1>3, GotoTypes DEF TypeOK, WaitForBroker, Ping, channel, brokers, heard
<1>4. CASE PingEnds(e)
  <2>1. \E to \in {"out", "stream"} : Goto(e, "ping", to)
    BY <1>4 DEF PingEnds
  <2> QED BY <1>4, <2>1, GotoTypes DEF TypeOK, PingEnds, channel, brokers, heard
<1>5. CASE PingFails(e)
  BY <1>5, GotoTypes DEF TypeOK, PingFails, channel, brokers, heard
<1>6. CASE DeleteEventer(e)
  BY <1>6, GotoTypes DEF TypeOK, DeleteEventer, brokers, heard
<1> QED BY <1>1, <1>2, <1>3, <1>4, <1>5, <1>6 DEF Listen

LEMMA TypeBroke ==
  ASSUME TypeOK, NEW b \in Listeners, Broke(b)
  PROVE  TypeOK'
<1>0. Zero \in Events
  BY DEF Events
<1>1. CASE BrokerStart(b) \/ BrokerEnd(b)
  BY <1>1, BrokerGotoTypes DEF TypeOK, BrokerStart, BrokerEnd, handler, heard
<1>2. CASE Take(b)
  <2>1. eventChan' \in Seq(Events) /\ Len(eventChan') <= Cap
    <3>1. CASE eventChan = <<>>
      BY <1>2, <3>1 DEF Take, TypeOK
    <3>2. CASE eventChan # <<>>
      <4>1. eventChan \in Seq(Events) /\ Len(eventChan) <= Cap /\ Cap \in Nat
        BY EventAssumption DEF TypeOK
      <4>2. eventChan' = Tail(eventChan)
        BY <1>2, <3>2 DEF Take
      <4> QED BY <4>1, <4>2, <3>2
    <3> QED BY <3>1, <3>2
  <2>2. evt' \in [Listeners -> Events]
    <3>1. eventChan # <<>> => Head(eventChan) \in Events
      BY DEF TypeOK
    <3> QED BY <1>0, <1>2, <3>1 DEF Take, TypeOK
  <2>3. todo' \in [Listeners -> SUBSET Listeners]
    BY <1>2 DEF Take, TypeOK
  <2> QED BY <1>2, <2>1, <2>2, <2>3, BrokerGotoTypes DEF TypeOK, Take, handler, heard
<1>3. CASE FindEmpty(b)
  BY <1>3, BrokerGotoTypes DEF TypeOK, FindEmpty, handler, channel, heard
<1>4. CASE CheckNeeded(b)
  <2>1. \E to \in {"end", "poll"} : BrokerGoto(b, "check", to)
    BY <1>4 DEF CheckNeeded
  <2> QED BY <1>4, <2>1, BrokerGotoTypes DEF TypeOK, CheckNeeded, handler, channel, heard
<1>5. CASE BeginWrite(b)
  BY <1>5, BrokerGotoTypes DEF TypeOK, BeginWrite, handler, channel, heard
<1>6. CASE EndWrite(b)
  <2>1. /\ target' = [target EXCEPT ![b] = None]
        /\ got' = [got EXCEPT ![target[b]] = @ \cup {evt[b]}]
        /\ again' = (again \/ evt[b] \in got[target[b]] \ {Zero})
        /\ UNCHANGED <<handler, channel, evt, todo>>
    BY <1>6 DEF EndWrite
  <2>2. target' \in [Listeners -> Listeners \cup {None}] /\ got' \in [Listeners -> SUBSET Events]
    <3>1. evt[b] \in Events /\ got \in [Listeners -> SUBSET Events]
      BY DEF TypeOK
    <3>2. got' = [e \in Listeners |-> IF e = target[b] THEN got[e] \cup {evt[b]} ELSE got[e]]
      BY <2>1, <3>1
    <3>3. got' \in [Listeners -> SUBSET Events]
      BY <3>1, <3>2
    <3> QED BY <2>1, <3>3 DEF TypeOK
  <2>3. again' \in BOOLEAN
    BY <2>1
  <2>4. BrokerGoto(b, "write", "range")
    BY <1>6 DEF EndWrite
  <2> QED BY <2>1, <2>2, <2>3, <2>4, BrokerGotoTypes DEF TypeOK, handler, channel
<1>7. CASE WriteFails(b)
  BY <1>7, BrokerGotoTypes DEF TypeOK, WriteFails, channel, heard
<1>8. CASE RangeEnds(b)
  BY <1>0, <1>8, BrokerGotoTypes DEF TypeOK, RangeEnds, handler, channel, heard
<1> QED BY <1>1, <1>2, <1>3, <1>4, <1>5, <1>6, <1>7, <1>8 DEF Broke

LEMMA TypeStep == TypeOK /\ [Next]_vars => TypeOK'
<1> SUFFICES ASSUME TypeOK, [Next]_vars PROVE TypeOK'
  OBVIOUS
<1>1. CASE DeleteChannel
  BY <1>1 DEF TypeOK, DeleteChannel, handler, brokers, heard
<1>2. CASE UNCHANGED vars
  BY <1>2 DEF TypeOK, vars, handler, channel, brokers, heard
<1> QED BY <1>1, <1>2, TypePush, TypeListen, TypeBroke DEF Next

LEMMA TypeInit == Init => TypeOK
<1> SUFFICES ASSUME Init PROVE TypeOK
  OBVIOUS
<1>1. eventChan \in Seq(Events) /\ Len(eventChan) <= Cap
  BY EventAssumption DEF Init
<1>2. Zero \in Events
  BY DEF Events
<1>3. pc \in [Sessions -> {"new", "look", "wait", "in", "stream", "ping", "out", "delete",
                           "send-in", "send-out", "done"}]
  BY DEF Init
<1>4. /\ evt \in [Listeners -> Events] /\ todo \in [Listeners -> SUBSET Listeners]
      /\ target \in [Listeners -> Listeners \cup {None}] /\ got \in [Listeners -> SUBSET Events]
  BY <1>2 DEF Init
<1> QED BY <1>1, <1>3, <1>4 DEF Init, TypeOK

(* The variables keep their types, and the channel never holds more events *)
(* than it has places.                                                     *)
THEOREM EventTypes == Spec => []TypeOK
BY TypeInit, TypeStep, PTL DEF Spec

-----------------------------------------------------------------------------
(* Nothing is sent twice.  Every session tells of its coming and going     *)
(* once, an event is in one place at a time, and a broker's range visits a *)
(* listener once.                                                          *)

Told == Sessions \X {"in", "out"}

(* Is the session still to tell of its coming, or of its going?            *)
ToCome(s, way) ==
  \/ pc[s] \in {"new", "look", "wait", "in", "send-in"}
  \/ way = "out" /\ pc[s] \in {"stream", "ping", "out", "send-out"}

Queued == {eventChan[i] : i \in 1..Len(eventChan)}

QueuedOnce == \A i, j \in 1..Len(eventChan) : eventChan[i] = eventChan[j] => i = j

QueuedFirst ==
  /\ Queued \subseteq Told
  /\ \A b \in Listeners : evt[b] \notin Queued
  /\ \A e \in Listeners : got[e] \cap Queued = {}

HeldOnce == \A b, c \in Listeners : evt[b] = evt[c] /\ evt[b] # Zero => b = c

Visiting(b) == broker[b] \in {"range", "write"}

VisitsOnce ==
  \A b \in Listeners : evt[b] # Zero =>
    /\ Visiting(b) => \A e \in todo[b] : evt[b] \notin got[e]
    /\ broker[b] = "write" => target[b] \in Listeners \ todo[b] /\ evt[b] \notin got[target[b]]

Untold ==
  \A s \in Sessions : \A way \in {"in", "out"} : ToCome(s, way) =>
    /\ <<s, way>> \notin Queued
    /\ \A b \in Listeners : evt[b] # <<s, way>>
    /\ \A e \in Listeners : <<s, way>> \notin got[e]

NewUnknown ==
  \A e \in Listeners : pc[e] = "new" =>
    /\ got[e] = {} /\ e \notin Eventers
    /\ \A b \in Listeners : e \notin todo[b] /\ target[b] # e

SentInv ==
  /\ QueuedOnce /\ QueuedFirst /\ HeldOnce /\ VisitsOnce /\ Untold /\ NewUnknown
  /\ again = FALSE

LEMMA ZeroUntold == Zero \notin Told
BY EventAssumption DEF Zero, Told, Sessions

(* A session moves on, a broker does not start to visit: nothing changes.  *)
LEMMA SentFrame ==
  ASSUME TypeOK, SentInv, UNCHANGED <<eventChan, evt, todo, target, got, again>>,
         Eventers' \subseteq Eventers,
         \A s \in Sessions : \A way \in {"in", "out"} : ToCome(s, way)' => ToCome(s, way),
         \A e \in Listeners : pc'[e] = "new" => pc[e] = "new",
         \A b \in Listeners : broker'[b] \in {"range", "write"} => broker'[b] = broker[b]
  PROVE  SentInv'
<1>1. Queued' = Queued
  BY DEF Queued
<1>2. QueuedOnce' /\ QueuedFirst' /\ HeldOnce'
  BY <1>1 DEF SentInv, QueuedOnce, QueuedFirst, HeldOnce
<1>3. VisitsOnce'
  BY DEF SentInv, VisitsOnce, Visiting
<1>4. Untold'
  BY <1>1 DEF SentInv, Untold
<1>5. NewUnknown'
  BY DEF SentInv, NewUnknown
<1> QED BY <1>2, <1>3, <1>4, <1>5 DEF SentInv

(* Going from one step to a later one, a session has no more to tell.      *)
LEMMA Onwards ==
  ASSUME TypeOK, NEW s \in Sessions, NEW from, NEW to, Goto(s, from, to), to # "new",
         to \in {"look", "wait", "in", "send-in"} => from \in {"new", "look", "wait", "in"},
         to \in {"stream", "ping", "out", "send-out"} => from \notin {"delete", "done"}
  PROVE  /\ \A r \in Sessions : \A way \in {"in", "out"} : ToCome(r, way)' => ToCome(r, way)
         /\ \A e \in Listeners : pc'[e] = "new" => pc[e] = "new"
<1>1. pc' = [pc EXCEPT ![s] = to] /\ pc[s] = from
  BY DEF Goto
<1>2. \A r \in Sessions : r # s => pc'[r] = pc[r]
  BY <1>1 DEF TypeOK
<1>3. pc'[s] = to
  BY <1>1 DEF TypeOK
<1>4. ASSUME NEW way \in {"in", "out"}, ToCome(s, way)' PROVE ToCome(s, way)
  <2>1. pc[s] \in {"new", "look", "wait", "in", "stream", "ping", "out", "delete",
                   "send-in", "send-out", "done"}
    BY DEF TypeOK
  <2> QED BY <1>1, <1>3, <1>4, <2>1 DEF ToCome
<1>5. ASSUME NEW r \in Sessions, NEW way \in {"in", "out"}, r # s, ToCome(r, way)'
      PROVE  ToCome(r, way)
  BY <1>2, <1>5 DEF ToCome
<1>6. \A e \in Listeners : pc'[e] = "new" => pc[e] = "new"
  BY <1>2, <1>3 DEF Sessions
<1> QED BY <1>4, <1>5, <1>6

LEMMA SentPush ==
  ASSUME TypeOK, SentInv, NEW s \in Sessions, Push(s) \/ Leave(s)
  PROVE  SentInv'
<1>1. ASSUME NEW way \in {"in", "out"}, PushEvent(s, way) \/ SendPanics(s, way) PROVE SentInv'
  <2>1. UNCHANGED <<Eventers, eventChan, broker, evt, todo, target, got, again>>
    BY <1>1 DEF PushEvent, SendPanics, channel, brokers, heard
  <2>2. \/ \E to \in {"send-in", "stream"} : Goto(s, "in", to)
        \/ \E to \in {"delete", "done"} : Goto(s, "send-in", to) \/ Goto(s, "send-out", to)
        \/ \E to \in {"send-out", "delete", "done"} : Goto(s, "out", to)
    BY <1>1 DEF PushEvent, SendPanics, Sending, Leaving
  <2> QED BY <2>1, <2>2, Onwards, SentFrame
<1>2. ASSUME NEW way \in {"in", "out"}, Send(s, way) PROVE SentInv'
  <2>1. /\ eventChan' = Append(eventChan, <<s, way>>)
        /\ UNCHANGED <<Eventers, broker, evt, todo, target, got, again>>
    BY <1>2 DEF Send, brokers, heard
  <2>2. /\ ToCome(s, way) /\ ~ToCome(s, way)'
        /\ \A r \in Sessions : \A w \in {"in", "out"} : ToCome(r, w)' => ToCome(r, w)
        /\ \A e \in Listeners : pc'[e] = "new" => pc[e] = "new"
    <3>1. CASE way = "in"
      <4>1. Goto(s, "send-in", "stream")
        BY <1>2, <3>1 DEF Send, Sending
      <4>2. pc[s] = "send-in" /\ pc'[s] = "stream"
        BY <4>1 DEF Goto, TypeOK
      <4> QED BY <3>1, <4>1, <4>2, Onwards DEF ToCome
    <3>2. CASE way = "out"
      <4>1. \E to \in {"delete", "done"} : Goto(s, "send-out", to)
        BY <1>2, <3>2 DEF Send, Sending, Leaving
      <4>2. pc[s] = "send-out" /\ pc'[s] \in {"delete", "done"}
        BY <4>1 DEF Goto, TypeOK
      <4> QED BY <3>2, <4>1, <4>2, Onwards DEF ToCome
    <3> QED BY <3>1, <3>2
  <2>3. /\ <<s, way>> \notin Queued
        /\ \A b \in Listeners : evt[b] # <<s, way>>
        /\ \A e \in Listeners : <<s, way>> \notin got[e]
    BY <2>2 DEF SentInv, Untold
  <2>4. /\ Len(eventChan') = Len(eventChan) + 1 /\ Len(eventChan) \in Nat
        /\ \A i \in 1..Len(eventChan) : eventChan'[i] = eventChan[i]
        /\ eventChan'[Len(eventChan) + 1] = <<s, way>>
    BY <2>1 DEF TypeOK
  <2>5. Queued' = Queued \cup {<<s, way>>}
    <3>1. 1..Len(eventChan') = (1..Len(eventChan)) \cup {Len(eventChan) + 1}
      BY <2>4
    <3>2. Queued' = {eventChan'[i] : i \in (1..Len(eventChan)) \cup {Len(eventChan) + 1}}
      BY <3>1 DEF Queued
    <3>3. Queued = {eventChan'[i] : i \in 1..Len(eventChan)}
      BY <2>4 DEF Queued
    <3> QED BY <2>4, <3>2, <3>3
  <2>6. QueuedOnce'
    <3>1. \A i \in 1..Len(eventChan) : eventChan[i] # <<s, way>>
      BY <2>3 DEF Queued
    <3> QED BY <2>4, <3>1 DEF SentInv, QueuedOnce
  <2>7. QueuedFirst'
    BY <2>1, <2>3, <2>5 DEF SentInv, QueuedFirst, Told
  <2>8. HeldOnce' /\ VisitsOnce' /\ NewUnknown'
    BY <2>1, <2>2 DEF SentInv, HeldOnce, VisitsOnce, Visiting, NewUnknown
  <2>9. Untold'
    BY <2>1, <2>2, <2>5 DEF SentInv, Untold
  <2> QED BY <2>1, <2>6, <2>7, <2>8, <2>9 DEF SentInv
<1>3. CASE Leave(s)
  <2>1. Goto(s, "stream", "out")
    BY <1>3 DEF Leave
  <2>2. UNCHANGED <<Eventers, eventChan, broker, evt, todo, target, got, again>>
    BY <1>3 DEF Leave, channel, brokers, heard
  <2> QED BY <2>1, <2>2, Onwards, SentFrame
<1> QED BY <1>1, <1>2, <1>3 DEF Push

LEMMA SentListen ==
  ASSUME TypeOK, SentInv, NEW e \in Listeners, Listen(e)
  PROVE  SentInv'
<1> e \in Sessions
  BY DEF Sessions
<1>1. CASE AddEventer(e)
  <2>1. /\ Goto(e, "new", "look")
        /\ Eventers' = Eventers \cup {e}
        /\ UNCHANGED <<eventChan, broker, evt, target, got, again>>
        /\ \A b \in Listeners : todo'[b] \subseteq todo[b] \cup {e}
    BY <1>1 DEF AddEventer, heard
  <2>2. /\ \A r \in Sessions : \A way \in {"in", "out"} : ToCome(r, way)' => ToCome(r, way)
        /\ \A d \in Listeners : pc'[d] = "new" => pc[d] = "new"
    BY <2>1, Onwards
  <2>3. pc[e] = "new" /\ pc'[e] = "look"
    BY <2>1 DEF Goto, TypeOK
  <2>4. got[e] = {} /\ \A b \in Listeners : target[b] # e
    BY <2>3 DEF SentInv, NewUnknown
  <2>5. Queued' = Queued
    BY <2>1 DEF Queued
  <2>6. QueuedOnce' /\ QueuedFirst' /\ HeldOnce' /\ Untold'
    BY <2>1, <2>2, <2>5 DEF SentInv, QueuedOnce, QueuedFirst, HeldOnce, Untold
  <2>7. VisitsOnce'
    BY <2>1, <2>4 DEF SentInv, VisitsOnce, Visiting
  <2>8. NewUnknown'
    BY <2>1, <2>2, <2>3 DEF SentInv, NewUnknown
  <2> QED BY <2>1, <2>6, <2>7, <2>8 DEF SentInv
<1>2. CASE LookForBroker(e)
  <2>1. /\ \E to \in {"wait", "in"} : Goto(e, "look", to)
        /\ UNCHANGED <<Eventers, eventChan, evt, todo, target, got, again>>
    BY <1>2 DEF LookForBroker, channel, heard
  <2>2. \A b \in Listeners : broker'[b] \in {"range", "write"} => broker'[b] = broker[b]
    BY <1>2 DEF LookForBroker, TypeOK
  <2> QED BY <2>1, <2>2, Onwards, SentFrame
<1>3. CASE WaitForBroker(e) \/ Ping(e) \/ PingEnds(e) \/ PingFails(e) \/ DeleteEventer(e)
  <2>1. /\ \/ Goto(e, "wait", "in") \/ Goto(e, "stream", "ping") \/ Goto(e, "delete", "done")
           \/ \E to \in {"out", "stream"} : Goto(e, "ping", to)
        /\ Eventers' \subseteq Eventers
        /\ UNCHANGED <<eventChan, broker, evt, todo, target, got, again>>
    BY <1>3 DEF WaitForBroker, Ping, PingEnds, PingFails, DeleteEventer, channel, brokers, heard
  <2> QED BY <2>1, Onwards, SentFrame
<1> QED BY <1>1, <1>2, <1>3 DEF Listen

LEMMA SentTake ==
  ASSUME TypeOK, SentInv, NEW b \in Listeners, Take(b)
  PROVE  SentInv'
<1>1. /\ BrokerGoto(b, "poll", "range")
      /\ todo' = [todo EXCEPT ![b] = Eventers]
      /\ UNCHANGED <<pc, Eventers, target, got, again>>
  BY DEF Take, handler, heard
<1>2. /\ \A c \in Listeners : c # b => broker'[c] = broker[c] /\ todo'[c] = todo[c]
      /\ broker'[b] = "range" /\ todo'[b] = Eventers
  BY <1>1 DEF BrokerGoto, TypeOK
<1>3. \A r \in Sessions : \A way \in {"in", "out"} : ToCome(r, way)' => ToCome(r, way)
  BY <1>1 DEF ToCome
<1>4. NewUnknown'
  <2>1. \A c \in Listeners : todo'[c] \subseteq todo[c] \cup Eventers
    BY <1>2
  <2> QED BY <1>1, <2>1 DEF SentInv, NewUnknown
<1>5. CASE eventChan = <<>>
  <2>1. evt' = [evt EXCEPT ![b] = Zero] /\ eventChan' = eventChan
    BY <1>5 DEF Take
  <2>2. evt'[b] = Zero /\ \A c \in Listeners : c # b => evt'[c] = evt[c]
    BY <2>1 DEF TypeOK
  <2>3. Queued' = Queued
    BY <2>1 DEF Queued
  <2>4. QueuedOnce' /\ QueuedFirst'
    BY <1>1, <2>1, <2>2, <2>3, ZeroUntold DEF SentInv, QueuedOnce, QueuedFirst, Told
  <2>5. HeldOnce'
    BY <2>2 DEF SentInv, HeldOnce
  <2>6. VisitsOnce'
    BY <1>1, <1>2, <2>2 DEF SentInv, VisitsOnce, Visiting
  <2>7. Untold'
    <3>1. \A s \in Sessions : \A way \in {"in", "out"} : <<s, way>> # Zero
      BY ZeroUntold DEF Told
    <3> QED BY <1>1, <1>3, <2>2, <2>3, <3>1 DEF SentInv, Untold
  <2> QED BY <1>1, <1>4, <2>4, <2>5, <2>6, <2>7 DEF SentInv
<1>6. CASE eventChan # <<>>
  <2>1. evt' = [evt EXCEPT ![b] = Head(eventChan)] /\ eventChan' = Tail(eventChan)
    BY <1>6 DEF Take
  <2>2. evt'[b] = Head(eventChan) /\ \A c \in Listeners : c # b => evt'[c] = evt[c]
    BY <2>1 DEF TypeOK
  <2>3. /\ Len(eventChan) \in Nat \ {0} /\ Len(eventChan') = Len(eventChan) - 1
        /\ \A i \in 1..Len(eventChan') : eventChan'[i] = eventChan[i + 1]
        /\ Head(eventChan) = eventChan[1]
    BY <1>6, <2>1 DEF TypeOK
  <2>4. Head(eventChan) \in Queued
    BY <2>3 DEF Queued
  <2>5. /\ \A c \in Listeners : evt[c] # Head(eventChan)
        /\ \A e \in Listeners : Head(eventChan) \notin got[e]
    BY <2>4 DEF SentInv, QueuedFirst
  <2>6. Queued' \subseteq Queued /\ Head(eventChan) \notin Queued'
    <3>1. ASSUME NEW i \in 1..Len(eventChan')
          PROVE  eventChan'[i] \in Queued /\ eventChan'[i] # Head(eventChan)
      <4>1. i + 1 \in 1..Len(eventChan) /\ 1 \in 1..Len(eventChan) /\ i + 1 # 1
        BY <2>3
      <4> QED BY <2>3, <4>1 DEF SentInv, QueuedOnce, Queued
    <3> QED BY <3>1 DEF Queued
  <2>7. QueuedOnce'
    <3>1. \A i \in 1..Len(eventChan') : i + 1 \in 1..Len(eventChan)
      BY <2>3
    <3> QED BY <2>3, <3>1 DEF SentInv, QueuedOnce
  <2>8. QueuedFirst'
    BY <1>1, <2>2, <2>6 DEF SentInv, QueuedFirst
  <2>9. HeldOnce'
    BY <2>2, <2>5 DEF SentInv, HeldOnce
  <2>10. VisitsOnce'
    <3>1. Eventers \subseteq Listeners
      BY DEF TypeOK
    <3> QED BY <1>1, <1>2, <2>2, <2>5, <3>1 DEF SentInv, VisitsOnce, Visiting
  <2>11. Untold'
    BY <1>1, <1>3, <2>2, <2>4, <2>6 DEF SentInv, Untold
  <2> QED BY <1>1, <1>4, <2>7, <2>8, <2>9, <2>10, <2>11 DEF SentInv
<1> QED BY <1>5, <1>6

LEMMA SentWrite ==
  ASSUME TypeOK, SentInv, NEW b \in Listeners, BeginWrite(b) \/ EndWrite(b) \/ WriteFails(b)
  PROVE  SentInv'
<1>1. UNCHANGED <<pc, Eventers, eventChan, evt>>
  BY DEF BeginWrite, EndWrite, WriteFails, handler, channel
<1>2. /\ Queued' = Queued
      /\ \A r \in Sessions : \A way \in {"in", "out"} : ToCome(r, way)' => ToCome(r, way)
  BY <1>1 DEF Queued, ToCome
<1>3. CASE BeginWrite(b)
  <2>1. /\ BrokerGoto(b, "range", "write")
        /\ UNCHANGED <<got, again>>
    BY <1>3 DEF BeginWrite, heard
  <2>2. PICK e \in todo[b] \cap Eventers :
          target' = [target EXCEPT ![b] = e] /\ todo' = [todo EXCEPT ![b] = @ \ {e}]
    BY <1>3 DEF BeginWrite
  <2>3. /\ broker[b] = "range" /\ broker'[b] = "write" /\ target'[b] = e /\ todo'[b] = todo[b] \ {e}
        /\ \A c \in Listeners : c # b => /\ broker'[c] = broker[c]
                                         /\ target'[c] = target[c] /\ todo'[c] = todo[c]
        /\ e \in Listeners
    BY <2>1, <2>2 DEF BrokerGoto, TypeOK
  <2>4. QueuedOnce' /\ QueuedFirst' /\ HeldOnce' /\ Untold'
    BY <1>1, <1>2, <2>1 DEF SentInv, QueuedOnce, QueuedFirst, HeldOnce, Untold
  <2>5. VisitsOnce'
    BY <1>1, <2>1, <2>2, <2>3 DEF SentInv, VisitsOnce, Visiting
  <2>6. NewUnknown'
    <3>1. \A c \in Listeners : todo'[c] \subseteq todo[c] /\ target'[c] \in {target[c], e}
      BY <2>3
    <3>2. pc[e] # "new"
      BY <2>2, <2>3 DEF SentInv, NewUnknown
    <3> QED BY <1>1, <2>1, <3>1, <3>2 DEF SentInv, NewUnknown
  <2> QED BY <2>1, <2>4, <2>5, <2>6 DEF SentInv
<1>4. CASE EndWrite(b)
  <2> DEFINE e == target[b]
  <2>1. /\ BrokerGoto(b, "write", "range")
        /\ target' = [target EXCEPT ![b] = None]
        /\ got' = [got EXCEPT ![e] = @ \cup {evt[b]}]
        /\ again' = (again \/ evt[b] \in got[e] \ {Zero})
        /\ todo' = todo
    BY <1>4 DEF EndWrite
  <2>2. /\ broker[b] = "write" /\ broker'[b] = "range" /\ target'[b] = None
        /\ \A c \in Listeners : c # b => broker'[c] = broker[c] /\ target'[c] = target[c]
    BY <2>1 DEF BrokerGoto, TypeOK
  <2>3. \A d \in Listeners : /\ got'[d] \subseteq got[d] \cup {evt[b]}
                             /\ d # e => got'[d] = got[d]
    BY <2>1 DEF TypeOK
  <2>4. evt[b] # Zero => e \in Listeners \ todo[b] /\ evt[b] \notin got[e]
    BY <2>2 DEF SentInv, VisitsOnce
  <2>5. again' = FALSE
    BY <2>1, <2>4 DEF SentInv
  <2>6. evt[b] \notin Queued /\ QueuedFirst'
    BY <1>1, <1>2, <2>3 DEF SentInv, QueuedFirst
  <2>7. QueuedOnce' /\ HeldOnce'
    BY <1>1 DEF SentInv, QueuedOnce, HeldOnce
  <2>8. VisitsOnce'
    <3>1. ASSUME NEW c \in Listeners, evt[c] # Zero, c # b PROVE evt[c] # evt[b]
      BY <3>1 DEF SentInv, HeldOnce
    <3>2. ASSUME NEW c \in Listeners, evt'[c] # Zero, c # b
          PROVE  /\ Visiting(c)' => \A d \in todo'[c] : evt'[c] \notin got'[d]
                 /\ broker'[c] = "write" =>
                      target'[c] \in Listeners \ todo'[c] /\ evt'[c] \notin got'[target'[c]]
      <4>1. todo[c] \subseteq Listeners
        BY DEF TypeOK
      <4> QED BY <1>1, <2>1, <2>2, <2>3, <3>1, <3>2, <4>1 DEF SentInv, VisitsOnce, Visiting
    <3>3. ASSUME evt'[b] # Zero PROVE \A d \in todo'[b] : evt'[b] \notin got'[d]
      <4>1. todo[b] \subseteq Listeners
        BY DEF TypeOK
      <4> QED BY <1>1, <2>1, <2>2, <2>3, <2>4, <3>3, <4>1 DEF SentInv, VisitsOnce, Visiting
    <3> QED BY <2>2, <3>2, <3>3 DEF VisitsOnce
  <2>9. Untold'
    <3>1. ASSUME NEW s \in Sessions, NEW way \in {"in", "out"}, ToCome(s, way)'
          PROVE  /\ <<s, way>> \notin Queued' /\ \A c \in Listeners : evt'[c] # <<s, way>>
                 /\ \A d \in Listeners : <<s, way>> \notin got'[d]
      <4>1. ToCome(s, way)
        BY <1>2, <3>1
      <4> QED BY <1>1, <1>2, <2>3, <4>1 DEF SentInv, Untold
    <3> QED BY <3>1 DEF Untold
  <2>10. NewUnknown'
    <3>1. ASSUME NEW d \in Listeners, pc'[d] = "new"
          PROVE  /\ got'[d] = {} /\ d \notin Eventers'
                 /\ \A c \in Listeners : d \notin todo'[c] /\ target'[c] # d
      <4>1. /\ got[d] = {} /\ d \notin Eventers
            /\ \A c \in Listeners : d \notin todo[c] /\ target[c] # d
        BY <1>1, <3>1 DEF SentInv, NewUnknown
      <4>2. None # d
        BY EventAssumption
      <4> QED BY <1>1, <2>1, <2>2, <2>3, <4>1, <4>2
    <3> QED BY <3>1 DEF NewUnknown
  <2> QED BY <2>5, <2>6, <2>7, <2>8, <2>9, <2>10 DEF SentInv
<1>5. CASE WriteFails(b)
  <2>1. /\ BrokerGoto(b, "write", "end")
        /\ target' = [target EXCEPT ![b] = None]
        /\ UNCHANGED <<todo, got, again>>
    BY <1>5 DEF WriteFails, heard
  <2>2. /\ broker'[b] = "end" /\ target'[b] = None
        /\ \A c \in Listeners : c # b => broker'[c] = broker[c] /\ target'[c] = target[c]
    BY <2>1 DEF BrokerGoto, TypeOK
  <2>3. QueuedOnce' /\ QueuedFirst' /\ HeldOnce' /\ Untold'
    BY <1>1, <1>2, <2>1 DEF SentInv, QueuedOnce, QueuedFirst, HeldOnce, Untold
  <2>4. VisitsOnce'
    BY <1>1, <2>1, <2>2 DEF SentInv, VisitsOnce, Visiting
  <2>5. NewUnknown'
    <3>1. \A c \in Listeners : target'[c] \in {target[c], None}
      BY <2>2
    <3> QED BY <1>1, <2>1, <3>1, EventAssumption DEF SentInv, NewUnknown
  <2> QED BY <2>1, <2>3, <2>4, <2>5 DEF SentInv
<1> QED BY <1>3, <1>4, <1>5

LEMMA SentRangeEnds ==
  ASSUME TypeOK, SentInv, NEW b \in Listeners, RangeEnds(b)
  PROVE  SentInv'
<1>1. /\ BrokerGoto(b, "range", "poll")
      /\ evt' = [evt EXCEPT ![b] = Zero] /\ todo' = [todo EXCEPT ![b] = {}]
      /\ UNCHANGED <<pc, Eventers, eventChan, target, got, again>>
  BY DEF RangeEnds, handler, channel, heard
<1>2. /\ broker'[b] = "poll" /\ evt'[b] = Zero /\ todo'[b] = {}
      /\ \A c \in Listeners : c # b => /\ broker'[c] = broker[c]
                                       /\ evt'[c] = evt[c] /\ todo'[c] = todo[c]
  BY <1>1 DEF BrokerGoto, TypeOK
<1>3. /\ Queued' = Queued
      /\ \A r \in Sessions : \A way \in {"in", "out"} : ToCome(r, way)' => ToCome(r, way)
  BY <1>1 DEF Queued, ToCome
<1>4. QueuedOnce' /\ QueuedFirst'
  BY <1>1, <1>2, <1>3, ZeroUntold DEF SentInv, QueuedOnce, QueuedFirst
<1>5. HeldOnce'
  BY <1>2 DEF SentInv, HeldOnce
<1>6. VisitsOnce'
  BY <1>1, <1>2 DEF SentInv, VisitsOnce, Visiting
<1>7. Untold'
  <2>1. \A s \in Sessions : \A way \in {"in", "out"} : <<s, way>> # Zero
    BY ZeroUntold DEF Told
  <2> QED BY <1>1, <1>2, <1>3, <2>1 DEF SentInv, Untold
<1>8. NewUnknown'
  <2>1. \A c \in Listeners : todo'[c] \subseteq todo[c]
    BY <1>2
  <2> QED BY <1>1, <2>1 DEF SentInv, NewUnknown
<1> QED BY <1>1, <1>4, <1>5, <1>6, <1>7, <1>8 DEF SentInv

LEMMA SentStep == TypeOK /\ SentInv /\ [Next]_vars => SentInv'
<1> SUFFICES ASSUME TypeOK, SentInv, [Next]_vars PROVE SentInv'
  OBVIOUS
<1>1. ASSUME NEW b \in Listeners, Broke(b) PROVE SentInv'
  <2>1. CASE BrokerStart(b) \/ FindEmpty(b) \/ CheckNeeded(b) \/ BrokerEnd(b)
    <3>1. /\ \E from : \E to \in {"poll", "check", "end", "done"} : BrokerGoto(b, from, to)
          /\ UNCHANGED <<pc, Eventers, eventChan, evt, todo, target, got, again>>
      BY <2>1 DEF BrokerStart, FindEmpty, CheckNeeded, BrokerEnd, handler, channel, heard
    <3>2. \A c \in Listeners : broker'[c] \in {"range", "write"} => broker'[c] = broker[c]
      BY <3>1 DEF BrokerGoto, TypeOK
    <3>3. \A r \in Sessions : \A way \in {"in", "out"} : ToCome(r, way)' => ToCome(r, way)
      BY <3>1 DEF ToCome
    <3> QED BY <3>1, <3>2, <3>3, SentFrame
  <2> QED BY <1>1, <2>1, SentTake, SentWrite, SentRangeEnds DEF Broke
<1>2. CASE DeleteChannel \/ UNCHANGED vars
  <2>1. UNCHANGED <<pc, Eventers, eventChan, broker, evt, todo, target, got, again>>
    BY <1>2 DEF DeleteChannel, vars, handler, channel, brokers, heard
  <2>2. \A r \in Sessions : \A way \in {"in", "out"} : ToCome(r, way)' => ToCome(r, way)
    BY <2>1 DEF ToCome
  <2> QED BY <2>1, <2>2, SentFrame
<1> QED BY <1>1, <1>2, SentPush, SentListen DEF Next

LEMMA SentInit == Init => SentInv
<1> SUFFICES ASSUME Init PROVE SentInv
  OBVIOUS
<1>1. Queued = {} /\ \A b \in Listeners : evt[b] = Zero /\ target[b] = None
  BY DEF Init, Queued
<1>2. QueuedOnce /\ QueuedFirst /\ HeldOnce /\ VisitsOnce
  BY <1>1 DEF Init, QueuedOnce, QueuedFirst, HeldOnce, VisitsOnce
<1>3. Untold
  <2>1. \A s \in Sessions : \A way \in {"in", "out"} : <<s, way>> # Zero
    BY ZeroUntold DEF Told
  <2> QED BY <1>1, <2>1 DEF Init, Untold
<1>4. NewUnknown
  BY <1>1, EventAssumption DEF Init, NewUnknown
<1> QED BY <1>2, <1>3, <1>4 DEF Init, SentInv

(* Brokers that share a channel send no listener the same event twice,     *)
(* however many listeners found no broker and started one.                 *)
THEOREM SentOnceHolds == Spec => []SentOnce
<1>1. SentInv => SentOnce
  BY DEF SentInv, SentOnce
<1> QED BY <1>1, TypeInit, TypeStep, SentInit, SentStep, PTL DEF Spec
=============================================================================
