--------------------------- MODULE ChannelEvents ---------------------------
(***************************************************************************)
(* The events of one channel: sessions of /pang/ws/evt (PangWSEventer),    *)
(* which register to hear of the sessions that come and go, the broker     *)
(* goroutine that the first of them starts (ChannelEventBroker), and every *)
(* session's deferred and direct calls of Channel.pushEvent, which send on *)
(* a Go channel of two places when a broker is ready.                      *)
(*                                                                         *)
(* The channel's mutex covers single reads and writes of EventState and of *)
(* the map Eventers.  Testing EventState and acting on it are two steps,   *)
(* and the broker ranges over Eventers with no lock at all.                *)
(***************************************************************************)
EXTENDS Naturals, Sequences, Functions

CONSTANTS
  Listeners,  \* sessions of /pang/ws/evt
  Peers,      \* sessions of other kinds on the channel
  Cap,        \* places in eventChan
  Managed,    \* may a manager delete the channel?
  None

ASSUME EventAssumption ==
  /\ Cap \in Nat \ {0} /\ Managed \in BOOLEAN
  /\ Listeners \cap Peers = {} /\ None \notin Listeners \cup Peers

Sessions == Listeners \cup Peers

(* A session tells of its coming and of its going.  A closed Go channel    *)
(* hands out Zero for ever.                                                *)
Zero   == <<None, "zero">>
Events == (Sessions \X {"in", "out"}) \cup {Zero}

VARIABLES
  pc,          \* the next step of each session's handler
  failed,      \* history: has a write to a listener failed?
  Eventers,    \* Channel.Eventers
  EventState,  \* Channel.EventState
  eventChan,   \* Channel.eventChan
  closed,      \* is eventChan closed?
  broker,      \* the next step of the broker each listener started
  evt,         \* the event each broker holds
  todo,        \* listeners the broker's range has still to visit
  target,      \* the listener each broker is writing to
  got,         \* history: events each listener was sent
  again        \* history: was a listener sent an event twice?

handler == <<pc, failed>>
channel == <<Eventers, EventState, eventChan, closed>>
brokers == <<broker, evt, todo, target>>
heard   == <<got, again>>
vars    == <<handler, channel, brokers, heard>>

Goto(s, from, to) ==
  /\ pc[s] = from
  /\ pc' = [pc EXCEPT ![s] = to]

BrokerGoto(b, from, to) ==
  /\ broker[b] = from
  /\ broker' = [broker EXCEPT ![b] = to]

Sending(way) == IF way = "in" THEN "send-in" ELSE "send-out"

Leaving(s) == IF s \in Listeners THEN "delete" ELSE "done"

-----------------------------------------------------------------------------
(* Channel.pushEvent, called on the way in and, deferred, on the way out.  *)

PushEvent(s, way) ==
  /\ Goto(s, way, IF EventState = "using" THEN Sending(way)
                  ELSE IF way = "in" THEN "stream" ELSE Leaving(s))
  /\ UNCHANGED <<failed, channel, brokers, heard>>

(* The event is queued behind as many as there are.                        *)
SendWrong(s, way) ==
  /\ Goto(s, Sending(way), IF way = "in" THEN "stream" ELSE Leaving(s))
  /\ ~closed
  /\ eventChan' = Append(eventChan, <<s, way>>)
  /\ UNCHANGED <<failed, Eventers, EventState, closed, brokers, heard>>

Send(s, way) ==
  /\ Goto(s, Sending(way), IF way = "in" THEN "stream" ELSE Leaving(s))
  /\ ~closed /\ Len(eventChan) < Cap
  /\ eventChan' = Append(eventChan, <<s, way>>)
  /\ UNCHANGED <<failed, Eventers, EventState, closed, brokers, heard>>

(* A send on a closed channel panics; the deferred calls still run.        *)
SendPanics(s, way) ==
  /\ closed
  /\ Goto(s, Sending(way), Leaving(s))
  /\ UNCHANGED <<failed, channel, brokers, heard>>

(* A session ends: its peer leaves or a manager closes it.                 *)
Leave(s) ==
  /\ Goto(s, "stream", "out")
  /\ UNCHANGED <<failed, channel, brokers, heard>>

-----------------------------------------------------------------------------
(* PangWSEventer.                                                          *)

(* A range over the map under way may visit the new entry or miss it.      *)
AddEventer(e) ==
  /\ ~closed
  /\ Goto(e, "new", "look")
  /\ Eventers' = Eventers \cup {e}
  /\ \E B \in SUBSET {b \in Listeners : broker[b] \in {"range", "write"}} :
       todo' = [b \in Listeners |-> IF b \in B THEN todo[b] \cup {e} ELSE todo[b]]
  /\ UNCHANGED <<failed, EventState, eventChan, closed, broker, evt, target, heard>>

LookForBroker(e) ==
  /\ Goto(e, "look", IF EventState = "idle" THEN "wait" ELSE "in")
  /\ broker' = [broker EXCEPT ![e] = IF EventState = "idle" THEN "start" ELSE @]
  /\ UNCHANGED <<failed, channel, evt, todo, target, heard>>

(* Up to 30 naps of 100 ms, or until the broker is ready.                  *)
WaitForBroker(e) ==
  /\ Goto(e, "wait", "in")
  /\ UNCHANGED <<failed, channel, brokers, heard>>

Ping(e) ==
  /\ Goto(e, "stream", "ping")
  /\ UNCHANGED <<failed, channel, brokers, heard>>

(* A listener whose broker has ended leaves.                               *)
PingEnds(e) ==
  /\ Goto(e, "ping", IF EventState = "idle" THEN "out" ELSE "stream")
  /\ UNCHANGED <<failed, channel, brokers, heard>>

PingFails(e) ==
  /\ Goto(e, "ping", "out")
  /\ failed' = TRUE
  /\ UNCHANGED <<channel, brokers, heard>>

DeleteEventer(e) ==
  /\ Goto(e, "delete", "done")
  /\ Eventers' = Eventers \ {e}
  /\ UNCHANGED <<failed, EventState, eventChan, closed, brokers, heard>>

-----------------------------------------------------------------------------
(* ChannelEventBroker, as started by listener b.                           *)

BrokerStart(b) ==
  /\ BrokerGoto(b, "start", "poll")
  /\ EventState' = "using"
  /\ UNCHANGED <<handler, Eventers, eventChan, closed, evt, todo, target, heard>>

(* The broker looks at an event and leaves it in the channel.              *)
TakeWrong(b) ==
  /\ Len(eventChan) > 0
  /\ BrokerGoto(b, "poll", "range")
  /\ evt' = [evt EXCEPT ![b] = Head(eventChan)]
  /\ todo' = [todo EXCEPT ![b] = Eventers]
  /\ UNCHANGED <<handler, channel, target, heard>>

Take(b) ==
  /\ closed \/ Len(eventChan) > 0
  /\ BrokerGoto(b, "poll", "range")
  /\ IF eventChan = <<>>
     THEN evt' = [evt EXCEPT ![b] = Zero] /\ UNCHANGED eventChan
     ELSE evt' = [evt EXCEPT ![b] = Head(eventChan)] /\ eventChan' = Tail(eventChan)
  /\ todo' = [todo EXCEPT ![b] = Eventers]
  /\ UNCHANGED <<handler, Eventers, EventState, closed, target, heard>>

(* No event; after 100 ms the broker looks whether it is still needed.     *)
FindEmpty(b) ==
  /\ eventChan = <<>> /\ ~closed
  /\ BrokerGoto(b, "poll", "check")
  /\ UNCHANGED <<handler, channel, evt, todo, target, heard>>

(* The broker outlives its listeners.                                      *)
CheckNeededWrong(b) ==
  /\ BrokerGoto(b, "check", IF EventState = "idle" THEN "end" ELSE "poll")
  /\ UNCHANGED <<handler, channel, evt, todo, target, heard>>

CheckNeeded(b) ==
  /\ BrokerGoto(b, "check", IF Eventers = {} \/ EventState = "idle" THEN "end" ELSE "poll")
  /\ UNCHANGED <<handler, channel, evt, todo, target, heard>>

BeginWrite(b) ==
  /\ BrokerGoto(b, "range", "write")
  /\ \E e \in todo[b] \cap Eventers :
       /\ target' = [target EXCEPT ![b] = e]
       /\ todo' = [todo EXCEPT ![b] = @ \ {e}]
  /\ UNCHANGED <<handler, channel, evt, heard>>

EndWrite(b) ==
  LET e == target[b]
  IN  /\ BrokerGoto(b, "write", "range")
      /\ target' = [target EXCEPT ![b] = None]
      /\ got' = [got EXCEPT ![e] = @ \cup {evt[b]}]
      /\ again' = (again \/ evt[b] \in got[e] \ {Zero})
      /\ UNCHANGED <<handler, channel, evt, todo>>

WriteFails(b) ==
  /\ BrokerGoto(b, "write", "end")
  /\ target' = [target EXCEPT ![b] = None]
  /\ failed' = TRUE
  /\ UNCHANGED <<pc, channel, evt, todo, heard>>

(* The range is left before every listener is sent the event.              *)
RangeEndsWrong(b) ==
  /\ BrokerGoto(b, "range", "poll")
  /\ evt' = [evt EXCEPT ![b] = Zero]
  /\ todo' = [todo EXCEPT ![b] = {}]
  /\ UNCHANGED <<handler, channel, target, heard>>

RangeEnds(b) ==
  /\ todo[b] \cap Eventers = {}
  /\ BrokerGoto(b, "range", "poll")
  /\ evt' = [evt EXCEPT ![b] = Zero]
  /\ todo' = [todo EXCEPT ![b] = {}]
  /\ UNCHANGED <<handler, channel, target, heard>>

(* A broker that fails to write leaves EventState as it is.                *)
BrokerEndWrong(b) ==
  /\ BrokerGoto(b, "end", "done")
  /\ EventState' = IF Eventers = {} THEN "idle" ELSE EventState
  /\ UNCHANGED <<handler, Eventers, eventChan, closed, evt, todo, target, heard>>

BrokerEnd(b) ==
  /\ BrokerGoto(b, "end", "done")
  /\ EventState' = "idle"
  /\ UNCHANGED <<handler, Eventers, eventChan, closed, evt, todo, target, heard>>

-----------------------------------------------------------------------------
(* A manager.  (The broker's worker is a system worker, which setWorker    *)
(* refuses to close.)                                                      *)

(* The channel, which no other session uses, is deleted: Channel.close.    *)
DeleteChannel ==
  /\ Managed /\ ~closed
  /\ \A p \in Peers : pc[p] = "done"
  /\ closed' = TRUE
  /\ UNCHANGED <<handler, Eventers, EventState, eventChan, brokers, heard>>

-----------------------------------------------------------------------------
Init ==
  /\ pc = [s \in Sessions |-> IF s \in Listeners THEN "new" ELSE "in"]
  /\ failed = FALSE
  /\ Eventers = {}
  /\ EventState = "idle"
  /\ eventChan = <<>>
  /\ closed = FALSE
  /\ broker = [b \in Listeners |-> "none"]
  /\ evt = [b \in Listeners |-> Zero]
  /\ todo = [b \in Listeners |-> {}]
  /\ target = [b \in Listeners |-> None]
  /\ got = [e \in Listeners |-> {}]
  /\ again = FALSE

Push(s) == \E way \in {"in", "out"} : PushEvent(s, way) \/ Send(s, way) \/ SendPanics(s, way)

Listen(e) == \/ AddEventer(e) \/ LookForBroker(e) \/ WaitForBroker(e)
             \/ Ping(e) \/ PingEnds(e) \/ PingFails(e) \/ DeleteEventer(e)

Broke(b) == \/ BrokerStart(b) \/ Take(b) \/ FindEmpty(b) \/ CheckNeeded(b)
            \/ BeginWrite(b) \/ EndWrite(b) \/ WriteFails(b) \/ RangeEnds(b) \/ BrokerEnd(b)

Next ==
  \/ \E s \in Sessions : Push(s) \/ Leave(s)
  \/ \E e \in Listeners : Listen(e) \/ Broke(e)
  \/ DeleteChannel

Spec == Init /\ [][Next]_vars

(* Goroutines run.  Sessions need not come, or leave.                      *)
FairSpec ==
  /\ Spec
  /\ \A s \in Sessions : WF_vars(Push(s))
  /\ \A e \in Listeners : WF_vars(pc[e] # "new" /\ Listen(e)) /\ WF_vars(Broke(e))

-----------------------------------------------------------------------------
(* Properties.                                                             *)

Running(b) == broker[b] \in {"poll", "check", "range", "write", "end"}

TypeOK ==
  /\ pc \in [Sessions -> {"new", "look", "wait", "in", "stream", "ping", "out", "delete",
                          "send-in", "send-out", "done"}]
  /\ failed \in BOOLEAN
  /\ Eventers \subseteq Listeners
  /\ EventState \in {"idle", "using"}
  /\ eventChan \in Seq(Events) /\ Len(eventChan) <= Cap
  /\ closed \in BOOLEAN
  /\ broker \in [Listeners -> {"none", "start", "poll", "check", "range", "write", "end",
                               "done"}]
  /\ evt \in [Listeners -> Events]
  /\ todo \in [Listeners -> SUBSET Listeners]
  /\ target \in [Listeners -> Listeners \cup {None}]
  /\ got \in [Listeners -> SUBSET Events]
  /\ again \in BOOLEAN

(* While EventState says that a broker is ready there is one, however many *)
(* were started and whichever of them ends: listeners that find none leave *)
(* instead of waiting for ever.                                            *)
ReadyMeansBroker == EventState = "using" => \E b \in Listeners : Running(b)

(* Brokers that share the channel never send a listener the same event     *)
(* twice.                                                                  *)
SentOnce == ~again

(* An event that has entered the channel reaches each listener that stays, *)
(* unless a connection breaks (the broker ends with the first write that   *)
(* fails) or the channel is deleted (a closed channel hands out Zero       *)
(* without end).                                                           *)
EventsArrive ==
  \A e \in Listeners : \A ev \in Events \ {Zero} :
    (pc[e] = "stream" /\ ev \in Range(eventChan))
      ~> (ev \in got[e] \/ pc[e] \notin {"stream", "ping"} \/ failed \/ closed)

(* When the last listener has left, every broker ends.  A broker of a      *)
(* deleted channel may be handed Zero for ever instead.                    *)
BrokersEnd ==
  (\A e \in Listeners : pc[e] = "done")
    ~> (closed \/ (EventState = "idle" /\ \A b \in Listeners : ~Running(b)))

(* A listener's websocket has one writer at a time: its own ping or the    *)
(* broker's event.                                                         *)
OneWriter ==
  \A e, b \in Listeners : broker[b] = "write" /\ target[b] = e => pc[e] # "ping"
=============================================================================
