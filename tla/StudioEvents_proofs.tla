------------------------ MODULE StudioEvents_proofs ------------------------
(***************************************************************************)
(* Theorems about StudioEvents, for every number of sessions of each kind  *)
(* and of places in the channel.                                           *)
(***************************************************************************)
EXTENDS StudioEvents, TLAPS

(* TypeOK is inductive by itself: one step per action.                     *)
LEMMA TypeInit == Init => TypeOK
BY StudioEventAssumption DEF Init, TypeOK, NoEvent

LEMMA TypeStep == TypeOK /\ [Next]_vars => TypeOK'
<1> SUFFICES ASSUME TypeOK, [Next]_vars PROVE TypeOK'
  OBVIOUS
<1> USE StudioEventAssumption DEF TypeOK, Goto, BrokerGoto, handler, studio, hand, heard, NoEvent
<1>1. ASSUME NEW s \in Sessions, PushEvent(s) PROVE TypeOK'
  <2>1. AfterPush(s) \in {"serve", "delete", "done"}
    BY DEF AfterPush
  <2>2. [by |-> s, n |-> sent + 1] \in Event
    BY DEF Event
  <2>3. eventChan' \in Seq(Event) /\ Len(eventChan') <= Cap
    BY <1>1, <2>2 DEF PushEvent
  <2> QED BY <1>1, <2>1, <2>3 DEF PushEvent
<1>2. ASSUME NEW s \in Sessions, Publish(s) PROVE TypeOK'
  BY <1>2 DEF Publish
<1>3. ASSUME NEW s \in Sessions, Admit(s) PROVE TypeOK'
  BY <1>3 DEF Admit
<1>4. ASSUME NEW s \in Sessions, Leave(s) PROVE TypeOK'
  BY <1>4 DEF Leave
<1>5. ASSUME NEW e \in Listeners, Listen(e) PROVE TypeOK'
  <2>1. CASE AddEventer(e)      BY <2>1 DEF AddEventer
  <2>2. CASE LoseConnection(e)  BY <2>2 DEF LoseConnection
  <2>3. CASE PingFails(e)       BY <2>3 DEF PingFails
  <2>4. CASE DeleteEventer(e)   BY <2>4 DEF DeleteEventer
  <2> QED BY <1>5, <2>1, <2>2, <2>3, <2>4 DEF Listen
<1>6. ASSUME NEW o \in Monitors, Monitor(o) PROVE TypeOK'
  <2>1. CASE Watch(o)     BY <2>1 DEF Watch
  <2>2. CASE Drop(o)      BY <2>2 DEF Drop
  <2>3. CASE EndWatch(o)  BY <2>3 DEF EndWatch
  <2> QED BY <1>6, <2>1, <2>2, <2>3 DEF Monitor
<1>7. CASE Broke
  <2>1. CASE BrokerStart   BY <2>1 DEF BrokerStart
  <2>2. CASE Take          BY <2>2 DEF Take
  <2>3. CASE BeginWrite    BY <2>3 DEF BeginWrite
  <2>4. CASE EndWrite
    <3>1. evt.n \in Nat
      BY DEF Event
    <3> QED BY <2>4, <3>1 DEF EndWrite
  <2>5. CASE WriteFails    BY <2>5 DEF WriteFails
  <2>6. CASE RangeEnds     BY <2>6 DEF RangeEnds
  <2>7. CASE CheckBridges  BY <2>7 DEF CheckBridges
  <2>8. CASE BrokerEnd     BY <2>8 DEF BrokerEnd
  <2> QED BY <1>7, <2>1, <2>2, <2>3, <2>4, <2>5, <2>6, <2>7, <2>8 DEF Broke
<1>8. CASE UNCHANGED vars
  BY <1>8 DEF vars
<1> QED BY <1>1, <1>2, <1>3, <1>4, <1>5, <1>6, <1>7, <1>8 DEF Next

(* Every variable of the studio's events keeps its type, and the channel   *)
(* never holds more than its places.                                       *)
THEOREM EventTypes == Spec => []TypeOK
BY TypeInit, TypeStep, PTL DEF Spec

-----------------------------------------------------------------------------
(* Why events reach a listener in order.  The channel holds ever younger   *)
(* events, all younger than the one the broker holds and than those that   *)
(* anybody was sent; and the range visits a listener once for an event.    *)

Younger(n) == \A i \in 1..Len(eventChan) : n < eventChan[i].n

QueueOrdered ==
  /\ \A i, j \in 1..Len(eventChan) : i < j => eventChan[i].n < eventChan[j].n
  /\ \A i \in 1..Len(eventChan) : eventChan[i].n <= sent

HandBefore == evt.n <= sent /\ Younger(evt.n)

GotBefore == \A e \in Listeners : \A n \in got[e] : n <= sent /\ Younger(n)

Unserved(e) == e \in todo \/ (broker = "write" /\ e = target)

ServedOnce ==
  broker \in {"range", "write"} =>
    \A e \in Listeners : \A n \in got[e] : n <= evt.n /\ (Unserved(e) => n < evt.n)

NewSilent ==
  \A e \in Listeners : pc[e] = "new" =>
    got[e] = {} /\ e \notin Eventers /\ e \notin todo /\ target # e

OrderInv ==
  /\ QueueOrdered /\ HandBefore /\ GotBefore
  /\ ServedOnce /\ NewSilent
  /\ broker = "write" => target \notin todo

LEMMA OrderInit == Init => OrderInv
BY StudioEventAssumption DEF Sessions, Init, OrderInv, QueueOrdered, HandBefore, GotBefore, ServedOnce, NewSilent, Younger,
       NoEvent

(* No session becomes new.                                                 *)
LEMMA HandlerMoves ==
  ASSUME TypeOK, NEW s \in Sessions, NEW from, NEW to, to # "new", Goto(s, from, to)
  PROVE  \A e \in Listeners : pc'[e] = "new" => pc[e] = "new"
BY DEF TypeOK, Goto, Sessions

(* A step of a handler that only moves on disturbs nothing.                *)
LEMMA OrderFrame ==
  ASSUME OrderInv, UNCHANGED <<Eventers, eventChan, broker, hand, heard>>,
         \A e \in Listeners : pc'[e] = "new" => pc[e] = "new"
  PROVE  OrderInv'
BY DEF OrderInv, QueueOrdered, HandBefore, GotBefore, ServedOnce, Unserved, NewSilent, Younger,
       hand, heard

(* The event that enters the channel is the youngest.                      *)
LEMMA OrderPush ==
  ASSUME TypeOK, OrderInv, NEW s \in Sessions, PushEvent(s)
  PROVE  OrderInv'
<1>1. /\ eventChan' = Append(eventChan, [by |-> s, n |-> sent + 1])
      /\ sent' = sent + 1
      /\ UNCHANGED <<Eventers, broker, evt, todo, target, got>>
      /\ eventChan \in Seq(Event) /\ sent \in Nat /\ evt.n \in Nat
      /\ got \in [Listeners -> SUBSET Nat]
  BY DEF PushEvent, TypeOK, hand, Event, NoEvent
<1>2. Len(eventChan') = Len(eventChan) + 1 /\ Len(eventChan) \in Nat
  BY <1>1
<1>3. \A i \in 1..Len(eventChan') :
        eventChan'[i].n = IF i <= Len(eventChan) THEN eventChan[i].n ELSE sent + 1
  BY <1>1, <1>2
<1>4. \A i \in 1..Len(eventChan) : eventChan[i].n \in Nat
  <2>1. \A i \in 1..Len(eventChan) : eventChan[i] \in Event
    BY <1>1
  <2> QED BY <2>1 DEF Event
<1>5. ASSUME NEW n \in Nat, n <= sent, Younger(n) PROVE n <= sent' /\ Younger(n)'
  BY <1>1, <1>2, <1>3, <1>5 DEF Younger
<1>6. QueueOrdered'
  <2>1. ASSUME NEW i \in 1..Len(eventChan'), NEW j \in 1..Len(eventChan'), i < j
        PROVE  eventChan'[i].n < eventChan'[j].n
    <3>1. i \in 1..Len(eventChan) /\ eventChan'[i].n = eventChan[i].n
      BY <1>2, <1>3, <2>1
    <3>2. CASE j <= Len(eventChan)
      BY <1>2, <1>3, <2>1, <3>1, <3>2 DEF QueueOrdered, OrderInv
    <3>3. CASE j > Len(eventChan)
      <4>1. eventChan'[j].n = sent + 1
        BY <1>3, <3>3
      <4>2. eventChan[i].n \in Nat /\ eventChan[i].n <= sent
        BY <1>4, <3>1 DEF QueueOrdered, OrderInv
      <4> QED BY <1>1, <3>1, <4>1, <4>2
    <3> QED BY <1>2, <3>2, <3>3
  <2>2. ASSUME NEW i \in 1..Len(eventChan') PROVE eventChan'[i].n <= sent'
    BY <1>1, <1>2, <1>3, <1>4 DEF QueueOrdered, OrderInv
  <2> QED BY <2>1, <2>2 DEF QueueOrdered
<1>7. HandBefore'
  BY <1>1, <1>5 DEF HandBefore, OrderInv
<1>8. GotBefore'
  BY <1>1, <1>5 DEF GotBefore, OrderInv
<1>9. \A e \in Listeners : pc'[e] = "new" => pc[e] = "new"
  BY DEF PushEvent, AfterPush, TypeOK
<1>10. ServedOnce' /\ NewSilent'
  BY <1>1, <1>9 DEF ServedOnce, Unserved, NewSilent, OrderInv
<1> QED BY <1>1, <1>6, <1>7, <1>8, <1>10 DEF OrderInv

(* What is left of the channel when its head is taken is still in order.   *)
LEMMA OrderTail ==
  ASSUME TypeOK, QueueOrdered, eventChan # <<>>, eventChan' = Tail(eventChan), sent' = sent
  PROVE  /\ QueueOrdered'
         /\ Head(eventChan).n \in Nat /\ Head(eventChan).n <= sent
         /\ \A i \in 1..Len(eventChan') : Head(eventChan).n < eventChan'[i].n
         /\ \A n : Younger(n) => Younger(n)' /\ n < Head(eventChan).n
<1>1. /\ eventChan \in Seq(Event) /\ Len(eventChan) \in Nat \ {0}
      /\ Len(eventChan') = Len(eventChan) - 1
      /\ Head(eventChan) = eventChan[1]
  BY DEF TypeOK
<1>2. \A i \in 1..Len(eventChan') : i + 1 \in 1..Len(eventChan) /\ eventChan'[i] = eventChan[i + 1]
  BY <1>1
<1>3. QueueOrdered'
  <2>1. ASSUME NEW i \in 1..Len(eventChan'), NEW j \in 1..Len(eventChan'), i < j
        PROVE  eventChan'[i].n < eventChan'[j].n
    BY <1>1, <1>2, <2>1 DEF QueueOrdered
  <2>2. ASSUME NEW i \in 1..Len(eventChan') PROVE eventChan'[i].n <= sent'
    BY <1>1, <1>2 DEF QueueOrdered
  <2> QED BY <2>1, <2>2 DEF QueueOrdered
<1>4. Head(eventChan).n \in Nat /\ Head(eventChan).n <= sent
  <2>1. eventChan[1] \in Event
    BY <1>1
  <2> QED BY <1>1, <2>1 DEF QueueOrdered, Event
<1>5. ASSUME NEW i \in 1..Len(eventChan') PROVE Head(eventChan).n < eventChan'[i].n
  BY <1>1, <1>2 DEF QueueOrdered
<1>6. ASSUME NEW n, Younger(n) PROVE Younger(n)' /\ n < Head(eventChan).n
  BY <1>1, <1>2, <1>6 DEF Younger
<1> QED BY <1>3, <1>4, <1>5, <1>6

(* Events taken by monitors only leave gaps.                               *)
LEMMA OrderDrop ==
  ASSUME TypeOK, OrderInv, NEW o \in Monitors, Drop(o)
  PROVE  OrderInv'
<1>1. /\ eventChan # <<>> /\ eventChan' = Tail(eventChan)
      /\ UNCHANGED <<pc, Eventers, broker, evt, todo, target, sent, got>>
  BY DEF Drop, handler, hand, heard
<1>2. QueueOrdered' /\ \A n : Younger(n) => Younger(n)'
  BY <1>1, OrderTail DEF OrderInv
<1>3. HandBefore' /\ GotBefore'
  BY <1>1, <1>2 DEF HandBefore, GotBefore, OrderInv
<1>4. ServedOnce' /\ NewSilent'
  BY <1>1 DEF ServedOnce, Unserved, NewSilent, OrderInv
<1> QED BY <1>1, <1>2, <1>3, <1>4 DEF OrderInv

LEMMA OrderListen ==
  ASSUME TypeOK, OrderInv, NEW e \in Listeners, Listen(e)
  PROVE  OrderInv'
<1>1. CASE AddEventer(e)
  <2>1. /\ pc[e] = "new" /\ pc' = [pc EXCEPT ![e] = "in"] /\ Eventers' = Eventers \cup {e}
        /\ todo' \subseteq todo \cup {e}
        /\ UNCHANGED <<eventChan, broker, evt, target, sent, got>>
    BY <1>1 DEF AddEventer, Goto, heard
  <2>2. got[e] = {} /\ target # e
    BY <2>1 DEF OrderInv, NewSilent
  <2>3. QueueOrdered' /\ HandBefore' /\ GotBefore'
    BY <2>1 DEF OrderInv, QueueOrdered, HandBefore, GotBefore, Younger
  <2>4. ServedOnce'
    BY <2>1, <2>2 DEF OrderInv, ServedOnce, Unserved
  <2>5. \A d \in Listeners : pc'[d] = "new" => d # e /\ pc[d] = "new"
    BY <2>1 DEF TypeOK, Sessions
  <2>6. NewSilent'
    BY <2>1, <2>5 DEF OrderInv, NewSilent
  <2> QED BY <2>1, <2>2, <2>3, <2>4, <2>6 DEF OrderInv
<1>2. CASE LoseConnection(e)
  BY <1>2, OrderFrame DEF LoseConnection, studio
<1>3. CASE PingFails(e)
  BY <1>3, OrderFrame DEF PingFails, Goto, TypeOK, studio
<1>4. CASE DeleteEventer(e)
  <2>1. /\ Eventers' \subseteq Eventers /\ \A d \in Listeners : pc'[d] = "new" => pc[d] = "new"
        /\ UNCHANGED <<eventChan, broker, evt, todo, target, sent, got>>
    BY <1>4 DEF DeleteEventer, Goto, TypeOK, hand, heard
  <2> QED BY <2>1 DEF OrderInv, QueueOrdered, HandBefore, GotBefore, ServedOnce, Unserved,
                      NewSilent, Younger
<1> QED BY <1>1, <1>2, <1>3, <1>4 DEF Listen

LEMMA OrderBroke ==
  ASSUME TypeOK, OrderInv, Broke
  PROVE  OrderInv'
<1>1. CASE BrokerStart \/ CheckBridges \/ BrokerEnd
  <2>1. /\ broker' \in {"receive", "done"}
        /\ UNCHANGED <<pc, Eventers, eventChan, evt, todo, target, sent, got>>
    BY <1>1 DEF BrokerStart, CheckBridges, BrokerEnd, BrokerGoto, handler, studio, hand, heard
  <2> QED BY <2>1 DEF OrderInv, QueueOrdered, HandBefore, GotBefore, ServedOnce, NewSilent, Younger
<1>2. CASE Take
  <2>1. /\ eventChan # <<>> /\ eventChan' = Tail(eventChan)
        /\ broker' = "range" /\ evt' = Head(eventChan) /\ todo' = Eventers
        /\ UNCHANGED <<pc, Eventers, target, sent, got>>
    BY <1>2 DEF Take, BrokerGoto, handler, heard
  <2>2. /\ QueueOrdered' /\ HandBefore'
        /\ \A n : Younger(n) => Younger(n)' /\ n < evt'.n
    <3>1. /\ QueueOrdered' /\ evt'.n <= sent'
          /\ \A i \in 1..Len(eventChan') : evt'.n < eventChan'[i].n
          /\ \A n : Younger(n) => Younger(n)' /\ n < evt'.n
      BY <2>1, OrderTail DEF OrderInv
    <3> QED BY <3>1 DEF HandBefore, Younger
  <2>3. \A e \in Listeners : \A n \in got[e] : n < evt'.n
    BY <2>2 DEF OrderInv, GotBefore
  <2>4. evt'.n \in Nat /\ got \in [Listeners -> SUBSET Nat]
    BY <2>1, OrderTail DEF TypeOK, OrderInv
  <2>5. ServedOnce'
    BY <2>1, <2>3, <2>4 DEF ServedOnce
  <2>6. GotBefore'
    BY <2>1, <2>2 DEF OrderInv, GotBefore
  <2>7. NewSilent'
    BY <2>1 DEF OrderInv, NewSilent
  <2> QED BY <2>1, <2>2, <2>5, <2>6, <2>7 DEF OrderInv
<1>3. CASE BeginWrite
  <2>1. PICK e \in todo \cap Eventers : target' = e /\ todo' = todo \ {e}
    BY <1>3 DEF BeginWrite
  <2>2. /\ broker = "range" /\ broker' = "write"
        /\ UNCHANGED <<pc, Eventers, eventChan, evt, sent, got>>
    BY <1>3 DEF BeginWrite, BrokerGoto, handler, studio, heard
  <2> QED BY <2>1, <2>2 DEF OrderInv, QueueOrdered, HandBefore, GotBefore, ServedOnce, Unserved,
                            NewSilent, Younger
<1>4. CASE EndWrite
  <2>1. /\ broker = "write" /\ broker' = "range" /\ target' = None
        /\ got' = [got EXCEPT ![target] = @ \cup {evt.n}]
        /\ UNCHANGED <<pc, Eventers, eventChan, evt, todo, sent>>
    BY <1>4 DEF EndWrite, BrokerGoto, handler, studio
  <2>2. /\ target \in Listeners /\ target \notin todo /\ pc[target] # "new"
        /\ None \notin Listeners
    BY <2>1, StudioEventAssumption DEF TypeOK, OrderInv, NewSilent, Sessions
  <2>3. \A e \in Listeners : got'[e] = IF e = target THEN got[e] \cup {evt.n} ELSE got[e]
    BY <2>1 DEF TypeOK
  <2>4. QueueOrdered' /\ HandBefore'
    BY <2>1 DEF OrderInv, QueueOrdered, HandBefore, Younger
  <2>5. GotBefore'
    BY <2>1, <2>3 DEF OrderInv, GotBefore, HandBefore, Younger
  <2>6. evt.n \in Nat
    BY DEF TypeOK, Event, NoEvent
  <2>7. ServedOnce'
    BY <2>1, <2>2, <2>3, <2>6 DEF OrderInv, ServedOnce, Unserved
  <2>8. NewSilent'
    BY <2>1, <2>2, <2>3 DEF OrderInv, NewSilent
  <2> QED BY <2>1, <2>4, <2>5, <2>7, <2>8 DEF OrderInv
<1>5. CASE WriteFails
  <2>1. /\ broker' = "end" /\ target' = None
        /\ UNCHANGED <<pc, Eventers, eventChan, evt, todo, sent, got>>
    BY <1>5 DEF WriteFails, BrokerGoto, handler, studio, heard
  <2> QED BY <2>1, StudioEventAssumption
          DEF OrderInv, QueueOrdered, HandBefore, GotBefore, ServedOnce, NewSilent, Younger, Sessions
<1>6. CASE RangeEnds
  <2>1. /\ broker' \in {"bridges", "receive"} /\ evt' = NoEvent /\ todo' = {}
        /\ UNCHANGED <<pc, Eventers, eventChan, target, sent, got>>
    BY <1>6 DEF RangeEnds, BrokerGoto, handler, studio, heard
  <2>2. evt.n \in Nat /\ evt'.n = 0 /\ sent \in Nat
    BY <2>1 DEF TypeOK, Event, NoEvent
  <2>3. eventChan \in Seq(Event) /\ \A i \in 1..Len(eventChan) : eventChan[i].n \in Nat
    <3>1. eventChan \in Seq(Event) /\ \A i \in 1..Len(eventChan) : eventChan[i] \in Event
      BY DEF TypeOK
    <3> QED BY <3>1 DEF Event
  <2>4. HandBefore'
    BY <2>1, <2>2, <2>3 DEF OrderInv, HandBefore, Younger
  <2>5. QueueOrdered' /\ GotBefore' /\ ServedOnce' /\ NewSilent'
    BY <2>1 DEF OrderInv, QueueOrdered, GotBefore, ServedOnce, NewSilent, Younger
  <2> QED BY <2>1, <2>4, <2>5 DEF OrderInv
<1> QED BY <1>1, <1>2, <1>3, <1>4, <1>5, <1>6 DEF Broke

LEMMA OrderStep == TypeOK /\ OrderInv /\ [Next]_vars => OrderInv'
<1> SUFFICES ASSUME TypeOK, OrderInv, [Next]_vars PROVE OrderInv'
  OBVIOUS
<1>1. ASSUME NEW s \in Sessions, Publish(s) \/ Admit(s) \/ Leave(s) PROVE OrderInv'
  <2>1. /\ \E from, to : to # "new" /\ Goto(s, from, to)
        /\ UNCHANGED <<Eventers, eventChan, broker, hand, heard>>
    BY <1>1 DEF Publish, Admit, Leave, studio
  <2> QED BY <2>1, HandlerMoves, OrderFrame
<1>2. ASSUME NEW o \in Monitors, Monitor(o) PROVE OrderInv'
  <2>1. CASE Watch(o) \/ EndWatch(o)
    <3>1. /\ \E from, to : to # "new" /\ Goto(o, from, to)
          /\ UNCHANGED <<Eventers, eventChan, broker, hand, heard>>
      BY <2>1 DEF Watch, EndWatch, studio
    <3> QED BY <3>1, HandlerMoves, OrderFrame DEF Sessions
  <2> QED BY <1>2, <2>1, OrderDrop DEF Monitor
<1>3. CASE UNCHANGED vars
  BY <1>3, OrderFrame DEF vars, handler, studio
<1> QED BY <1>1, <1>2, <1>3, OrderPush, OrderListen, OrderBroke DEF Next

(* Events reach every listener in the order in which they were pushed, and *)
(* none twice, however the map of listeners changes under the broker's     *)
(* range and whoever takes events beside it.                               *)
THEOREM InOrderHolds == Spec => InOrder
<1>1. TypeOK /\ OrderInv /\ [Next]_vars => [EndWrite => \A n \in got[target] : n < evt.n]_vars
  <2> SUFFICES ASSUME TypeOK, OrderInv, EndWrite PROVE \A n \in got[target] : n < evt.n
    OBVIOUS
  <2>1. broker = "write" /\ target \in Listeners
    BY DEF EndWrite, BrokerGoto, TypeOK
  <2> QED BY <2>1 DEF OrderInv, ServedOnce, Unserved
<1> QED BY <1>1, TypeInit, TypeStep, OrderInit, OrderStep, PTL DEF Spec, InOrder
=============================================================================
