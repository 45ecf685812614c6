------------------------------- MODULE Studio -------------------------------
(***************************************************************************)
(* The life of a streaming session on a channel of the studio: the         *)
(* handlers of /pang/ws/pub, sub, meb and ctl (api-pang-ws.go) and their   *)
(* TCP twins (api-pang-tcp.go), with the tables of sessions and channels   *)
(* they share (data-studio.go, data-base.go, data-media.go).               *)
(*                                                                         *)
(* Each handler is a goroutine.  SessionGate and ChannelGate make single   *)
(* look-ups and updates of the tables atomic; nothing covers two of them,  *)
(* so every table operation of a handler is a step of its own.  On leaving *)
(* a handler unwinds its defers: it unregisters the session, counts the    *)
(* sessions left on the channel and, if there are none, sets it Idle.      *)
(* The manager and the 30 second self-checker work on the same tables.     *)
(***************************************************************************)
EXTENDS Integers, FiniteSets

CONSTANTS
  Sessions,   \* requests, each of which becomes a session
  Channels,   \* channels registered at the start
  Tracks,     \* source and track labels
  Kind,       \* Kind[s]: "pub", "sub", "meb" or "ctl", the handler s asked for
  Chn,        \* Chn[s]: the channel id in the query of s
  Trk,        \* Trk[s]: the source and track labels in the query of s
  Multi,      \* publishers that ask for style=multi
  Static,     \* channels of style "static"; the others expire
  NumPubs,    \* license: channels that publishers may use
  NumSubs,    \* license: sessions in use that let a subscriber in
  Managed,    \* do managers close and delete sessions and channels?
  None

ASSUME StudioAssumption ==
  /\ Kind \in [Sessions -> {"pub", "sub", "meb", "ctl"}]
  /\ Chn \in [Sessions -> Channels]
  /\ Trk \in [Sessions -> Tracks]
  /\ Multi \subseteq Sessions /\ Static \subseteq Channels
  /\ NumPubs \in Nat /\ NumSubs \in Nat
  /\ Managed \in BOOLEAN
  /\ IsFiniteSet(Channels)
  /\ None \notin Sessions \cup Channels

VARIABLES
  pc,        \* the next step of each handler
  table,     \* Studio.Sessions: the sessions registered
  sstate,    \* Session.State
  ChannelID, \* Session.ChannelID, None while empty
  named,     \* sessions whose SourceID and TrackID are set
  trk,       \* Session.trk: a track is named for the session that created it
  chans,     \* Studio.Channels: the channels registered
  cstate,    \* Channel.State
  tracks,    \* Channel.Sources: the track each label stands for, or None
  old,       \* channels whose AtUsed or AtExpired lies far enough back
  deleting,  \* channels a manager has found Idle and is about to delete
  dropped    \* history: channels set Idle while a session was using them

handler == <<pc, table, sstate, ChannelID, named, trk>>
channel == <<chans, cstate, tracks, old>>
vars    == <<handler, channel, deleting, dropped>>

PubSub == {"pub", "sub"}

(* Sessions that count on their channel: from setting it Using to leaving. *)
Using(s) == pc[s] \in {"claim", "license", "admit", "name", "stream"}

(* Sessions whose handler will look whether the channel is to be set Idle. *)
Owes(s) == Using(s) \/ pc[s] \in {"leave", "count", "idle"}

Drop(c, who) ==
  dropped' = IF \E s \in Sessions \ who : Chn[s] = c /\ Using(s)
             THEN dropped \cup {c} ELSE dropped

-----------------------------------------------------------------------------
(* The tables' operations.                                                 *)

(* findPublisherByResource, checkResourceAvailable                         *)
Available(s) ==
  \/ s \in Multi
  \/ \A p \in table : ~ /\ Kind[p] \in {"pub", "meb"}
                        /\ ChannelID[p] = Chn[s]
                        /\ p \in named /\ Trk[p] = Trk[s]

(* Operators named ...Wrong are plausible slips in the definition that      *)
(* follows them.  No specification uses them: they show that the           *)
(* properties below can tell the code from its slips.                      *)

(* Only channels with a publisher that is set up are counted.              *)
countChannelsUsingWrong ==
  Cardinality({c \in chans : \E s \in table : ChannelID[s] = c /\ s \in named})

countChannelsUsing == Cardinality({c \in chans : cstate[c] = "using"})

countSessionsUsing == Cardinality({s \in table : sstate[s] = "using"})

countSessionsByChannelID(c) == Cardinality({s \in table : ChannelID[s] = c})

-----------------------------------------------------------------------------
(* The handler of session s.                                               *)

Goto(s, from, to) ==
  /\ pc[s] = from
  /\ pc' = [pc EXCEPT ![s] = to]

(* Only a publisher looks whether its resource is free; it is turned away  *)
(* before anything is registered for it.                                   *)
Arrive(s) ==
  /\ Goto(s, "new", IF Kind[s] = "pub" /\ ~Available(s) THEN "done" ELSE "register")
  /\ UNCHANGED <<table, sstate, ChannelID, named, trk, channel, deleting, dropped>>

Register(s) ==
  /\ Goto(s, "register", "use")
  /\ table' = table \cup {s}
  /\ sstate' = [sstate EXCEPT ![s] = "using"]
  /\ UNCHANGED <<ChannelID, named, trk, channel, deleting, dropped>>

(* setChannelByIDState(Using); the session keeps the pointer it returns.   *)
UseChannel(s) ==
  /\ Goto(s, "use", IF Chn[s] \notin chans THEN "leave"
                    ELSE IF Kind[s] \in PubSub THEN "claim" ELSE "admit")
  /\ cstate' = IF Chn[s] \in chans THEN [cstate EXCEPT ![Chn[s]] = "using"] ELSE cstate
  /\ UNCHANGED <<table, sstate, ChannelID, named, trk, chans, tracks, old,
                 deleting, dropped>>

(* s.ChannelID is set; addPublisher or addSubscriber, which sets AtUsed.   *)
ClaimChannel(s) ==
  /\ Goto(s, "claim", "license")
  /\ ChannelID' = [ChannelID EXCEPT ![s] = Chn[s]]
  /\ old' = IF Kind[s] = "sub" THEN old \ ({Chn[s]} \cap Static) ELSE old
  /\ UNCHANGED <<table, sstate, named, trk, chans, cstate, tracks, deleting, dropped>>

License(s) ==
  /\ Goto(s, "license", IF \/ Kind[s] = "pub" /\ countChannelsUsing > NumPubs
                           \/ Kind[s] = "sub" /\ countSessionsUsing > NumSubs
                        THEN "leave" ELSE "admit")
  /\ UNCHANGED <<table, sstate, ChannelID, named, trk, channel, deleting, dropped>>

(* The channel is blocked or the stream key is wrong.                      *)
Refuse(s) ==
  /\ Goto(s, "admit", "leave")
  /\ UNCHANGED <<table, sstate, ChannelID, named, trk, channel, deleting, dropped>>

(* addSourceTrackByLabel: the track of that label, made if there is none.  *)
AddTrack(s) ==
  /\ Goto(s, "admit", "name")
  /\ IF Kind[s] = "ctl"
     THEN UNCHANGED <<trk, tracks>>
     ELSE LET t == IF tracks[Chn[s]][Trk[s]] = None THEN s ELSE tracks[Chn[s]][Trk[s]]
          IN  /\ trk' = [trk EXCEPT ![s] = t]
              /\ tracks' = [tracks EXCEPT ![Chn[s]][Trk[s]] = t]
  /\ UNCHANGED <<table, sstate, ChannelID, named, chans, cstate, old, deleting, dropped>>

(* SourceID, TrackID (and ChannelID, for a meb or ctl session) and AtUsed  *)
(* are set, and the goroutines of TrackBuffer start.                       *)
Name(s) ==
  /\ Goto(s, "name", "stream")
  /\ ChannelID' = [ChannelID EXCEPT ![s] = Chn[s]]
  /\ named' = IF Kind[s] = "ctl" THEN named ELSE named \cup {s}
  /\ old' = old \ ({Chn[s]} \cap Static)
  /\ UNCHANGED <<table, sstate, trk, chans, cstate, tracks, deleting, dropped>>

(* The peer leaves, or is silent for too long.                             *)
Disconnect(s) ==
  /\ Goto(s, "stream", "leave")
  /\ sstate' = [sstate EXCEPT ![s] = "idle"]
  /\ UNCHANGED <<table, ChannelID, named, trk, channel, deleting, dropped>>

(* The loops look at the channel only.                                     *)
StopWrong(s) ==
  /\ cstate[Chn[s]] = "idle"
  /\ Goto(s, "stream", "leave")
  /\ sstate' = [sstate EXCEPT ![s] = "idle"]
  /\ UNCHANGED <<table, ChannelID, named, trk, channel, deleting, dropped>>

(* The loops find the session or its channel no longer Using.              *)
Stop(s) ==
  /\ sstate[s] = "idle" \/ cstate[Chn[s]] = "idle"
  /\ Goto(s, "stream", "leave")
  /\ sstate' = [sstate EXCEPT ![s] = "idle"]
  /\ UNCHANGED <<table, ChannelID, named, trk, channel, deleting, dropped>>

(* defer deleteSessionWithClose                                            *)
Unregister(s) ==
  /\ Goto(s, "leave", "count")
  /\ table' = table \ {s}
  /\ sstate' = [sstate EXCEPT ![s] = "idle"]
  /\ UNCHANGED <<ChannelID, named, trk, channel, deleting, dropped>>

(* The deferred calls run in the other order: the session counts itself.   *)
CountLeftWrong(s) ==
  /\ Goto(s, "count", IF \E t \in table \cup {s} : ChannelID[t] = Chn[s]
                      THEN "done" ELSE "idle")
  /\ UNCHANGED <<table, sstate, ChannelID, named, trk, channel, deleting, dropped>>

(* defer afterSetChannelIdleByID: first the count, under SessionGate ...   *)
CountLeft(s) ==
  /\ Goto(s, "count", IF countSessionsByChannelID(Chn[s]) = 0 THEN "idle" ELSE "done")
  /\ UNCHANGED <<table, sstate, ChannelID, named, trk, channel, deleting, dropped>>

(* ... then setChannelByIDState(Idle), under ChannelGate.                  *)
SetIdle(s) ==
  /\ Goto(s, "idle", "done")
  /\ IF Chn[s] \in chans
     THEN cstate' = [cstate EXCEPT ![Chn[s]] = "idle"] /\ Drop(Chn[s], {})
     ELSE UNCHANGED <<cstate, dropped>>
  /\ UNCHANGED <<table, sstate, ChannelID, named, trk, chans, tracks, old, deleting>>

-----------------------------------------------------------------------------
(* Managers (manager-cmd.go, and data-message.go for a ctl session).       *)

CloseSession(s) ==
  /\ Managed /\ s \in table /\ sstate[s] = "using"
  /\ sstate' = [sstate EXCEPT ![s] = "idle"]
  /\ UNCHANGED <<pc, table, ChannelID, named, trk, channel, deleting, dropped>>

CloseChannel(c) ==
  /\ Managed /\ c \in chans /\ cstate[c] = "using"
  /\ cstate' = [cstate EXCEPT ![c] = "idle"]
  /\ Drop(c, {})
  /\ UNCHANGED <<handler, chans, tracks, old, deleting>>

(* deleteChannel looks at the state without a lock, then deletes.          *)
FindIdleChannel(c) ==
  /\ Managed /\ c \in chans \ deleting /\ cstate[c] = "idle"
  /\ deleting' = deleting \cup {c}
  /\ UNCHANGED <<handler, channel, dropped>>

(* The sources are purged whatever the channel's state.                    *)
PurgeWrong(c) == [tracks EXCEPT ![c] = [l \in Tracks |-> None]]

(* The map of the sources is dropped with them.                            *)
PurgeMapWrong(c) == IF cstate[c] = "idle" THEN [tracks EXCEPT ![c] = None] ELSE tracks

(* Channel.close purges the sources only of an Idle channel.               *)
Purge(c) ==
  IF cstate[c] = "idle" THEN [tracks EXCEPT ![c] = [l \in Tracks |-> None]] ELSE tracks

DeleteChannel(c) ==
  /\ c \in deleting
  /\ deleting' = deleting \ {c}
  /\ tracks' = Purge(c)
  /\ chans' = chans \ {c}
  /\ UNCHANGED <<handler, cstate, old, dropped>>

(* An old channel is cleaned whatever its state.                           *)
CleanChannelWrong(c) ==
  /\ c \in chans \cap old
  /\ IF c \in Static
     THEN tracks' = Purge(c) /\ UNCHANGED chans
     ELSE chans' = chans \ {c} /\ UNCHANGED tracks
  /\ UNCHANGED <<handler, cstate, old, deleting, dropped>>

(* cleanChannels, under ChannelGate: an Idle channel that is old loses its *)
(* tracks if it is static and is unregistered if it is not.                *)
CleanChannel(c) ==
  /\ c \in chans \cap old /\ cstate[c] = "idle"
  /\ IF c \in Static
     THEN tracks' = Purge(c) /\ UNCHANGED chans
     ELSE chans' = chans \ {c} /\ UNCHANGED tracks
  /\ UNCHANGED <<handler, cstate, old, deleting, dropped>>

Age(c) ==
  /\ c \notin old
  /\ old' = old \cup {c}
  /\ UNCHANGED <<handler, chans, cstate, tracks, deleting, dropped>>

-----------------------------------------------------------------------------
Init ==
  /\ pc = [s \in Sessions |-> "new"]
  /\ table = {}
  /\ sstate = [s \in Sessions |-> "idle"]
  /\ ChannelID = [s \in Sessions |-> None]
  /\ named = {}
  /\ trk = [s \in Sessions |-> None]
  /\ chans = Channels
  /\ cstate = [c \in Channels |-> "idle"]
  /\ tracks = [c \in Channels |-> [l \in Tracks |-> None]]
  /\ old = {}
  /\ deleting = {}
  /\ dropped = {}

Handle(s) ==
  \/ Arrive(s) \/ Register(s) \/ UseChannel(s) \/ ClaimChannel(s) \/ License(s)
  \/ Refuse(s) \/ AddTrack(s) \/ Name(s)
  \/ Unregister(s) \/ CountLeft(s) \/ SetIdle(s)

Serve(s) == Handle(s) \/ Stop(s)

Next ==
  \/ \E s \in Sessions : Serve(s) \/ Disconnect(s) \/ CloseSession(s)
  \/ \E c \in Channels : \/ CloseChannel(c) \/ FindIdleChannel(c) \/ DeleteChannel(c)
                         \/ CleanChannel(c) \/ Age(c)

Spec == Init /\ [][Next]_vars

(* Handlers run; a peer may stay for ever.  The loops of a ctl session     *)
(* wait for the peer with no deadline, the others come round: a receiver   *)
(* has a read deadline, a sender polls (and its peer is taken to read).    *)
FairSpec ==
  /\ Spec
  /\ \A s \in Sessions : WF_vars(IF Kind[s] = "ctl" THEN Handle(s) ELSE Serve(s))

-----------------------------------------------------------------------------
(* Properties.                                                             *)

TypeOK ==
  /\ pc \in [Sessions -> {"new", "register", "use", "claim", "license", "admit", "name",
                          "stream", "leave", "count", "idle", "done"}]
  /\ table \subseteq Sessions
  /\ sstate \in [Sessions -> {"idle", "using"}]
  /\ ChannelID \in [Sessions -> Channels \cup {None}]
  /\ named \subseteq Sessions
  /\ trk \in [Sessions -> Sessions \cup {None}]
  /\ chans \subseteq Channels
  /\ cstate \in [Channels -> {"idle", "using"}]
  /\ tracks \in [Channels -> [Tracks -> Sessions \cup {None}]]
  /\ old \subseteq Channels /\ deleting \subseteq Channels /\ dropped \subseteq Channels

(* A channel in use always has a session that will look, when it leaves,   *)
(* whether to set it Idle again: no order of leaving strands a channel.    *)
UsingHasOwner ==
  \A c \in chans : cstate[c] = "using" => \E s \in Sessions : Chn[s] = c /\ Owes(s)

Admitted(s) == pc[s] \in {"admit", "name", "stream"}

(* However many subscribers are let in at the same time, those in use past *)
(* the license test of PangWSSubscriber are no more than NumSubs.          *)
SubLicense ==
  Cardinality({s \in Sessions : Kind[s] = "sub" /\ Admitted(s) /\ sstate[s] = "using"})
    <= NumSubs

(* Unless a channel was set Idle under its sessions, publishers past the   *)
(* license test of PangWSPublisher use no more than NumPubs channels.      *)
PubLicense ==
  dropped = {} =>
    Cardinality({c \in chans : \E s \in Sessions :
                   Chn[s] = c /\ Kind[s] = "pub" /\ Admitted(s)}) <= NumPubs

(* Both limits hold, whatever order sessions are counted in.               *)
Licenses == SubLicense /\ PubLicense

(* Unless their channel was set Idle under them, the sessions that stream  *)
(* the same labels meet in one track, the one a newcomer will find; no     *)
(* purge has taken it away from the channel.                               *)
OneTrack ==
  \A s \in Sessions :
    pc[s] \in {"name", "stream"} /\ Kind[s] # "ctl" /\ Chn[s] \notin dropped
      => trk[s] = tracks[Chn[s]][Trk[s]]

(* Unless their channel was set Idle under them, or a manager deleted it,  *)
(* the sessions that use a channel use one that newcomers can find: the    *)
(* self-checker never expires it.                                          *)
OnKnownChannel ==
  \A s \in Sessions : Using(s) /\ Chn[s] \notin dropped => Chn[s] \in chans

(* A streaming session that a manager closes, whatever becomes of its      *)
(* channel, leaves its handler and the tables.                             *)
ClosedSessionsLeave ==
  \A s \in Sessions :
    Kind[s] # "ctl" /\ pc[s] = "stream" /\ sstate[s] = "idle"
      ~> pc[s] = "done" /\ s \notin table

(* When every session on a channel has come and gone, in whatever order,   *)
(* the channel comes to rest.                                              *)
ChannelsRest ==
  \A c \in Channels :
    (\A s \in Sessions : Chn[s] = c => pc[s] \notin {"new", "register", "use"} /\ ~Using(s))
      ~> (cstate[c] = "idle" \/ c \notin chans)
=============================================================================
