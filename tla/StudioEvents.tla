---------------------------- MODULE StudioEvents ----------------------------
(***************************************************************************)
(* The events of the studio: manager sessions (ProcManagerWsCommand) and   *)
(* listeners (ProcManagerWsEvent), which tell of their coming and going,   *)
(* publishers, whose coming Channel.pushEvent passes on, the one goroutine *)
(* that hands the events to the listeners (StudioEventBroker), and monitor *)
(* sessions (ProcMonitorWSEvent), which take events and drop them.         *)
(*                                                                         *)
(* All share a Go channel of two places.  A manager or a listener sends    *)
(* whether the broker is ready or not, and waits while the channel is      *)
(* full; a publisher looks at EventState first.  The broker ends with the  *)
(* first write that fails, and nothing starts another.                     *)
(***************************************************************************)
EXTENDS Naturals, Sequences, FiniteSets

CONSTANTS
  Managers,    \* sessions of /manager/ws/cmd
  Listeners,   \* sessions of /manager/ws/evt
  Publishers,  \* sessions that publish on some channel
  Monitors,    \* sessions of /monitor/ws/evt
  Cap,         \* places in eventChan
  None

Sessions == Managers \cup Listeners \cup Publishers \cup Monitors

ASSUME StudioEventAssumption ==
  /\ Cap \in Nat \ {0}
  /\ Managers \cap (Listeners \cup Publishers \cup Monitors) = {}
  /\ Listeners \cap (Publishers \cup Monitors) = {}
  /\ Publishers \cap Monitors = {}
  /\ None \notin Sessions

(* Events are numbered in the order in which they enter the channel.       *)
Event   == [by : Sessions, n : Nat]
NoEvent == [by |-> None, n |-> 0]

VARIABLES
  pc,          \* the next step of each session's handler
  gone,        \* listeners whose connection is broken or closed
  Eventers,    \* Studio.Eventers
  EventState,  \* Studio.EventState
  eventChan,   \* Studio.eventChan
  broker,      \* the next step of the broker
  evt,         \* the event that it holds
  todo,        \* listeners that its range has still to visit
  target,      \* the listener it is writing to
  sent,        \* history: number of the last event that entered the channel
  got          \* history: numbers of the events each listener was sent

handler == <<pc, gone>>
studio  == <<Eventers, EventState, eventChan>>
hand    == <<evt, todo, target>>
heard   == <<sent, got>>
vars    == <<handler, studio, broker, hand, heard>>

Goto(s, from, to) ==
  /\ pc[s] = from
  /\ pc' = [pc EXCEPT ![s] = to]

BrokerGoto(from, to) ==
  /\ broker = from
  /\ broker' = to

-----------------------------------------------------------------------------
(* Studio.pushEvent, and the toss at the end of Channel.pushEvent.         *)

Sending(s) == pc[s] \in {"in", "denied", "out", "toss"}

AfterPush(s) ==
  CASE pc[s] = "in"                        -> "serve"
    [] pc[s] = "out" /\ s \in Listeners    -> "delete"
    [] OTHER                               -> "done"

(* The event is queued behind as many as there are.                        *)
PushEventWrong(s) ==
  /\ Sending(s)
  /\ pc' = [pc EXCEPT ![s] = AfterPush(s)]
  /\ eventChan' = Append(eventChan, [by |-> s, n |-> sent + 1])
  /\ sent' = sent + 1
  /\ UNCHANGED <<gone, Eventers, EventState, broker, hand, got>>

PushEvent(s) ==
  /\ Sending(s) /\ Len(eventChan) < Cap
  /\ pc' = [pc EXCEPT ![s] = AfterPush(s)]
  /\ eventChan' = Append(eventChan, [by |-> s, n |-> sent + 1])
  /\ sent' = sent + 1
  /\ UNCHANGED <<gone, Eventers, EventState, broker, hand, got>>

(* A publisher tosses its event only when the studio's broker is ready.    *)
Publish(p) ==
  /\ p \in Publishers
  /\ Goto(p, "new", IF EventState = "using" THEN "toss" ELSE "done")
  /\ UNCHANGED <<gone, studio, broker, hand, heard>>

-----------------------------------------------------------------------------
(* Manager sessions.                                                       *)

(* The key or the address of a manager may be refused, which is told too.  *)
Admit(m) ==
  /\ m \in Managers
  /\ Goto(m, "new", "in") \/ Goto(m, "new", "denied")
  /\ UNCHANGED <<gone, studio, broker, hand, heard>>

(* The peer leaves, or a manager closes the session.                       *)
Leave(s) ==
  /\ Goto(s, "serve", "out")
  /\ UNCHANGED <<gone, studio, broker, hand, heard>>

-----------------------------------------------------------------------------
(* Listeners.                                                              *)

(* A range over the map under way may visit the new entry or miss it.      *)
AddEventer(e) ==
  /\ e \in Listeners
  /\ Goto(e, "new", "in")
  /\ Eventers' = Eventers \cup {e}
  /\ todo' \in IF broker \in {"range", "write"} THEN {todo, todo \cup {e}} ELSE {todo}
  /\ UNCHANGED <<gone, EventState, eventChan, broker, evt, target, heard>>

(* The peer of a listener goes away.                                       *)
LoseConnection(e) ==
  /\ e \in Eventers \ gone
  /\ gone' = gone \cup {e}
  /\ UNCHANGED <<pc, studio, broker, hand, heard>>

PingFails(e) ==
  /\ e \in gone
  /\ Goto(e, "serve", "out")
  /\ UNCHANGED <<gone, studio, broker, hand, heard>>

(* What was deferred: the listener is forgotten, its connection closed.    *)
DeleteEventer(e) ==
  /\ Goto(e, "delete", "done")
  /\ Eventers' = Eventers \ {e}
  /\ gone' = gone \cup {e}
  /\ UNCHANGED <<EventState, eventChan, broker, hand, heard>>

-----------------------------------------------------------------------------
(* Monitors: they wait for nothing but to be closed by a manager.          *)

Watch(o) ==
  /\ o \in Monitors
  /\ Goto(o, "new", "watch")
  /\ UNCHANGED <<gone, studio, broker, hand, heard>>

(* The monitor takes events only while the broker is ready.                *)
DropWrong(o) ==
  /\ pc[o] = "watch" /\ eventChan # <<>> /\ EventState = "using"
  /\ eventChan' = Tail(eventChan)
  /\ UNCHANGED <<handler, Eventers, EventState, broker, hand, heard>>

Drop(o) ==
  /\ pc[o] = "watch" /\ eventChan # <<>>
  /\ eventChan' = Tail(eventChan)
  /\ UNCHANGED <<handler, Eventers, EventState, broker, hand, heard>>

EndWatch(o) ==
  /\ Goto(o, "watch", "done")
  /\ UNCHANGED <<gone, studio, broker, hand, heard>>

-----------------------------------------------------------------------------
(* StudioEventBroker.                                                      *)

BrokerStart ==
  /\ BrokerGoto("start", "receive")
  /\ EventState' = "using"
  /\ UNCHANGED <<handler, Eventers, eventChan, hand, heard>>

(* The broker looks at an event and leaves it in the channel.              *)
TakeWrong ==
  /\ eventChan # <<>>
  /\ BrokerGoto("receive", "range")
  /\ evt' = Head(eventChan)
  /\ todo' = Eventers
  /\ UNCHANGED <<handler, studio, target, heard>>

Take ==
  /\ eventChan # <<>>
  /\ BrokerGoto("receive", "range")
  /\ evt' = Head(eventChan)
  /\ eventChan' = Tail(eventChan)
  /\ todo' = Eventers
  /\ UNCHANGED <<handler, Eventers, EventState, target, heard>>

BeginWrite ==
  /\ BrokerGoto("range", "write")
  /\ \E e \in todo \cap Eventers : target' = e /\ todo' = todo \ {e}
  /\ UNCHANGED <<handler, studio, evt, heard>>

EndWrite ==
  /\ BrokerGoto("write", "range")
  /\ target' = None
  /\ got' = [got EXCEPT ![target] = @ \cup {evt.n}]
  /\ UNCHANGED <<handler, studio, evt, todo, sent>>

WriteFails ==
  /\ target \in gone
  /\ BrokerGoto("write", "end")
  /\ target' = None
  /\ UNCHANGED <<handler, studio, evt, todo, heard>>

(* The range is left before every listener is sent the event.              *)
RangeEndsWrong ==
  /\ BrokerGoto("range", IF evt.by \in Publishers THEN "bridges" ELSE "receive")
  /\ evt' = NoEvent
  /\ todo' = {}
  /\ UNCHANGED <<handler, studio, target, heard>>

RangeEnds ==
  /\ todo \cap Eventers = {}
  /\ BrokerGoto("range", IF evt.by \in Publishers THEN "bridges" ELSE "receive")
  /\ evt' = NoEvent
  /\ todo' = {}
  /\ UNCHANGED <<handler, studio, target, heard>>

(* A publisher came: a nap and checkBridges, which asks other servers.     *)
CheckBridges ==
  /\ BrokerGoto("bridges", "receive")
  /\ UNCHANGED <<handler, studio, hand, heard>>

BrokerEnd ==
  /\ BrokerGoto("end", "done")
  /\ EventState' = "idle"
  /\ UNCHANGED <<handler, Eventers, eventChan, hand, heard>>

-----------------------------------------------------------------------------
Init ==
  /\ pc = [s \in Sessions |-> "new"]
  /\ gone = {}
  /\ Eventers = {}
  /\ EventState = "idle"
  /\ eventChan = <<>>
  /\ broker = "start"
  /\ evt = NoEvent
  /\ todo = {}
  /\ target = None
  /\ sent = 0
  /\ got = [e \in Listeners |-> {}]

Listen(e) == AddEventer(e) \/ LoseConnection(e) \/ PingFails(e) \/ DeleteEventer(e)

Monitor(o) == Watch(o) \/ Drop(o) \/ EndWatch(o)

Broke == \/ BrokerStart \/ Take \/ BeginWrite \/ EndWrite \/ WriteFails
         \/ RangeEnds \/ CheckBridges \/ BrokerEnd

Next ==
  \/ \E s \in Sessions : PushEvent(s) \/ Publish(s) \/ Admit(s) \/ Leave(s)
  \/ \E e \in Listeners : Listen(e)
  \/ \E o \in Monitors : Monitor(o)
  \/ Broke

Spec == Init /\ [][Next]_vars

(* Goroutines run, and Go serves those that wait to send in the order in   *)
(* which they came.  Nothing makes a write end, nor the http requests of   *)
(* checkBridges: neither has a deadline.                                   *)
FairSpec ==
  /\ Spec
  /\ \A s \in Sessions : SF_vars(PushEvent(s))
  /\ \A e \in Listeners : WF_vars(PingFails(e) \/ DeleteEventer(e))
  /\ \A o \in Monitors : WF_vars(Drop(o))
  /\ WF_vars(BrokerStart \/ Take \/ BeginWrite \/ RangeEnds \/ BrokerEnd)

-----------------------------------------------------------------------------
(* Properties.                                                             *)

TypeOK ==
  /\ pc \in [Sessions -> {"new", "in", "denied", "serve", "out", "toss", "delete", "watch",
                          "done"}]
  /\ gone \subseteq Listeners
  /\ Eventers \subseteq Listeners
  /\ EventState \in {"idle", "using"}
  /\ eventChan \in Seq(Event) /\ Len(eventChan) <= Cap
  /\ broker \in {"start", "receive", "range", "write", "bridges", "end", "done"}
  /\ evt \in Event \cup {NoEvent}
  /\ todo \subseteq Listeners
  /\ target \in Listeners \cup {None}
  /\ broker = "write" => target \in Listeners
  /\ sent \in Nat
  /\ got \in [Listeners -> SUBSET Nat]

(* A listener is sent events in the order in which they entered the        *)
(* channel, and none twice, whoever takes events from it.                  *)
InOrder == [][EndWrite => \A n \in got[target] : n < evt.n]_vars

(* A write to a peer that has stopped reading, and a server that does not  *)
(* answer, hold the broker: what follows is promised if that never lasts.  *)
PeersAnswer == []<>(broker \notin {"write", "bridges"})

(* While no listener's connection breaks, or a monitor watches, whoever    *)
(* sends an event gets on.                                                 *)
SendersGetOn ==
  PeersAnswer =>
    \A s \in Sessions :
      Sending(s) ~> (~Sending(s) \/ (gone # {} /\ \A o \in Monitors : pc[o] # "watch"))

Queued(n) == \E i \in 1..Len(eventChan) : eventChan[i].n = n

(* An event in the channel is sent to each listener that stays, as long as *)
(* no connection breaks and no monitor takes it away.                      *)
EventsArrive ==
  PeersAnswer =>
    \A e \in Listeners : \A n \in 1..2 * Cardinality(Sessions) :
      (pc[e] = "serve" /\ Queued(n))
        ~> (n \in got[e] \/ pc[e] # "serve" \/ gone # {} \/ \E o \in Monitors : pc[o] # "new")
=============================================================================
