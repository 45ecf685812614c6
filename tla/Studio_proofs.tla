--------------------------- MODULE Studio_proofs ---------------------------
(***************************************************************************)
(* Theorems about Studio, for every set of sessions and channels, every    *)
(* license and every request.                                              *)
(***************************************************************************)
EXTENDS Studio, FiniteSetTheorems, TLAPS

(* TypeOK is inductive by itself: one step per action.                     *)
LEMMA TypeInit == Init => TypeOK
BY StudioAssumption DEF Init, TypeOK

LEMMA TypeServe ==
  ASSUME TypeOK, NEW s \in Sessions, Serve(s)
  PROVE  TypeOK'
<1> USE StudioAssumption DEF TypeOK, handler, channel, Goto
<1>1. CASE Arrive(s)        BY <1>1 DEF Arrive
<1>2. CASE Register(s)      BY <1>2 DEF Register
<1>3. CASE UseChannel(s)    BY <1>3 DEF UseChannel
<1>4. CASE ClaimChannel(s)  BY <1>4 DEF ClaimChannel
<1>5. CASE License(s)       BY <1>5 DEF License
<1>6. CASE Refuse(s)        BY <1>6 DEF Refuse
<1>7. CASE AddTrack(s)
  <2>1. CASE Kind[s] = "ctl"  BY <1>7, <2>1 DEF AddTrack
  <2>2. CASE Kind[s] # "ctl"
    <3> DEFINE t == IF tracks[Chn[s]][Trk[s]] = None THEN s ELSE tracks[Chn[s]][Trk[s]]
    <3>1. /\ trk' = [trk EXCEPT ![s] = t]
          /\ tracks' = [tracks EXCEPT ![Chn[s]][Trk[s]] = t]
          /\ pc' = [pc EXCEPT ![s] = "name"]
          /\ UNCHANGED <<table, sstate, ChannelID, named, chans, cstate, old, deleting, dropped>>
      BY <1>7, <2>2 DEF AddTrack
    <3>2. t \in Sessions
      OBVIOUS
    <3> HIDE DEF t
    <3> QED BY <3>1, <3>2
  <2> QED BY <2>1, <2>2
<1>8. CASE Name(s)          BY <1>8 DEF Name
<1>9. CASE Stop(s)          BY <1>9 DEF Stop
<1>10. CASE Unregister(s)   BY <1>10 DEF Unregister
<1>11. CASE CountLeft(s)    BY <1>11 DEF CountLeft
<1>12. CASE SetIdle(s)      BY <1>12 DEF SetIdle, Drop
<1> QED BY <1>1, <1>2, <1>3, <1>4, <1>5, <1>6, <1>7, <1>8, <1>9, <1>10, <1>11, <1>12
        DEF Serve, Handle

LEMMA TypeManage ==
  ASSUME TypeOK, NEW c \in Channels,
         CloseChannel(c) \/ FindIdleChannel(c) \/ DeleteChannel(c) \/ CleanChannel(c) \/ Age(c)
  PROVE  TypeOK'
<1> USE StudioAssumption DEF TypeOK, handler, channel
<1>1. Purge(c) \in [Channels -> [Tracks -> Sessions \cup {None}]]
  BY DEF Purge
<1>2. CASE CloseChannel(c)     BY <1>2 DEF CloseChannel, Drop
<1>3. CASE FindIdleChannel(c)  BY <1>3 DEF FindIdleChannel
<1>4. CASE DeleteChannel(c)    BY <1>1, <1>4 DEF DeleteChannel
<1>5. CASE CleanChannel(c)     BY <1>1, <1>5 DEF CleanChannel
<1>6. CASE Age(c)              BY <1>6 DEF Age
<1> QED BY <1>2, <1>3, <1>4, <1>5, <1>6

LEMMA TypeStep == TypeOK /\ [Next]_vars => TypeOK'
<1> SUFFICES ASSUME TypeOK, [Next]_vars PROVE TypeOK'
  OBVIOUS
<1>1. ASSUME NEW s \in Sessions, Disconnect(s) \/ CloseSession(s) PROVE TypeOK'
  <2>1. CASE Disconnect(s)
    BY <2>1 DEF TypeOK, Disconnect, Goto, channel
  <2>2. CASE CloseSession(s)
    BY <2>2 DEF TypeOK, CloseSession, channel
  <2> QED BY <1>1, <2>1, <2>2
<1>2. CASE UNCHANGED vars
  BY <1>2 DEF TypeOK, vars, handler, channel
<1> QED BY <1>1, <1>2, TypeServe, TypeManage DEF Next

(* Every variable of the studio keeps its type.                            *)
THEOREM StudioTypes == Spec => []TypeOK
BY TypeInit, TypeStep, PTL DEF Spec

-----------------------------------------------------------------------------
(* UsingHasOwner: why the last session to leave finds that it is the last. *)
(* A session that is registered and has a channel id counts in the others' *)
(* countSessionsByChannelID.  Such a session is between setting the        *)
(* channel Using and its own count, so it owes the channel a look.         *)

Counted ==
  /\ \A s \in table : pc[s] \notin {"new", "register", "count", "idle", "done"}
  /\ \A s \in Sessions : ChannelID[s] # None =>
       ChannelID[s] = Chn[s] /\ pc[s] \notin {"new", "register", "use"}

OwnerInv == TypeOK /\ Counted /\ UsingHasOwner

LEMMA CountedOwes ==
  ASSUME TypeOK, Counted, NEW s \in Sessions, countSessionsByChannelID(Chn[s]) # 0
  PROVE  \E t \in table : Chn[t] = Chn[s] /\ Owes(t)
<1>1. PICK t \in table : ChannelID[t] = Chn[s]
  <2> SUFFICES ASSUME {t \in table : ChannelID[t] = Chn[s]} = {} PROVE FALSE
    OBVIOUS
  <2> QED BY FS_EmptySet DEF countSessionsByChannelID
<1>2. t \in Sessions /\ Chn[s] # None
  BY StudioAssumption DEF TypeOK
<1>3. Chn[t] = Chn[s] /\ Owes(t)
  BY <1>1, <1>2 DEF TypeOK, Counted, Owes, Using
<1> QED BY <1>1, <1>3

(* What keeps the owners: no new channel is Using, no session that owes    *)
(* its channel a look forgets it.                                          *)
LEMMA OwnersStay ==
  ASSUME UsingHasOwner,
         \A c \in chans' : cstate'[c] = "using" => c \in chans /\ cstate[c] = "using",
         \A t \in Sessions : Owes(t) => Owes(t)'
  PROVE  UsingHasOwner'
BY DEF UsingHasOwner

(* A step of the handler of s that moves it on while it owes its channel a *)
(* look, and that sets no channel Using.                                   *)
LEMMA OwnersMove ==
  ASSUME TypeOK, UsingHasOwner, NEW s \in Sessions, NEW from, NEW to,
         Goto(s, from, to), UNCHANGED <<chans, cstate>>,
         from \in {"new", "register", "use"} \/
           to \in {"claim", "license", "admit", "name", "stream", "leave", "count", "idle"}
  PROVE  UsingHasOwner'
<1>1. \A t \in Sessions : Owes(t) => Owes(t)'
  BY DEF TypeOK, Goto, Owes, Using
<1> QED BY <1>1, OwnersStay

LEMMA CountedServe ==
  ASSUME TypeOK, Counted, NEW s \in Sessions, Serve(s)
  PROVE  Counted'
<1> USE StudioAssumption DEF TypeOK, Counted, handler, channel, Goto
<1>1. CASE Arrive(s)        BY <1>1 DEF Arrive
<1>2. CASE Register(s)      BY <1>2 DEF Register
<1>3. CASE UseChannel(s)    BY <1>3 DEF UseChannel
<1>4. CASE ClaimChannel(s)  BY <1>4 DEF ClaimChannel
<1>5. CASE License(s)       BY <1>5 DEF License
<1>6. CASE Refuse(s)        BY <1>6 DEF Refuse
<1>7. CASE AddTrack(s)      BY <1>7 DEF AddTrack
<1>8. CASE Name(s)          BY <1>8 DEF Name
<1>9. CASE Stop(s)          BY <1>9 DEF Stop
<1>10. CASE Unregister(s)   BY <1>10 DEF Unregister
<1>11. CASE CountLeft(s)    BY <1>11 DEF CountLeft
<1>12. CASE SetIdle(s)      BY <1>12 DEF SetIdle
<1> QED BY <1>1, <1>2, <1>3, <1>4, <1>5, <1>6, <1>7, <1>8, <1>9, <1>10, <1>11, <1>12
        DEF Serve, Handle

(* UseChannel makes its session an owner.  CountLeft lets go of the        *)
(* channel only when it has counted another owner.  SetIdle leaves nothing *)
(* to own.                                                                 *)
LEMMA OwnersServe ==
  ASSUME TypeOK, Counted, UsingHasOwner, NEW s \in Sessions, Serve(s)
  PROVE  UsingHasOwner'
<1> USE DEF channel
<1>1. CASE Arrive(s)        BY <1>1, OwnersMove DEF Arrive
<1>2. CASE Register(s)      BY <1>2, OwnersMove DEF Register
<1>3. CASE UseChannel(s)
  <2>1. CASE Chn[s] \notin chans  BY <1>3, <2>1, OwnersMove DEF UseChannel
  <2>2. CASE Chn[s] \in chans
    <3>1. Chn[s] \in Channels
      BY StudioAssumption
    <3>2. \A c \in chans : c # Chn[s] => cstate'[c] = cstate[c]
      BY <1>3, <2>2, <3>1 DEF UseChannel, TypeOK
    <3>3. Owes(s)'
      BY <1>3, <2>2 DEF UseChannel, Goto, TypeOK, Owes, Using
    <3>4. \A t \in Sessions : Owes(t) => Owes(t)'
      BY <1>3, <3>3 DEF UseChannel, Goto, TypeOK, Owes, Using
    <3>5. chans' = chans
      BY <1>3 DEF UseChannel
    <3> QED BY <3>2, <3>3, <3>4, <3>5 DEF UsingHasOwner
  <2> QED BY <2>1, <2>2
<1>4. CASE ClaimChannel(s)  BY <1>4, OwnersMove DEF ClaimChannel
<1>5. CASE License(s)       BY <1>5, OwnersMove DEF License
<1>6. CASE Refuse(s)        BY <1>6, OwnersMove DEF Refuse
<1>7. CASE AddTrack(s)
  <2>1. Goto(s, "admit", "name") /\ UNCHANGED <<chans, cstate>>
    BY <1>7 DEF AddTrack
  <2> QED BY <2>1, OwnersMove
<1>8. CASE Name(s)          BY <1>8, OwnersMove DEF Name
<1>9. CASE Stop(s)          BY <1>9, OwnersMove DEF Stop
<1>10. CASE Unregister(s)   BY <1>10, OwnersMove DEF Unregister
<1>11. CASE CountLeft(s)
  <2>1. CASE countSessionsByChannelID(Chn[s]) = 0
    <3>1. Goto(s, "count", "idle") /\ UNCHANGED <<chans, cstate>>
      BY <1>11, <2>1 DEF CountLeft
    <3> QED BY <3>1, OwnersMove
  <2>2. CASE countSessionsByChannelID(Chn[s]) # 0
    <3>1. PICK t \in table : Chn[t] = Chn[s] /\ Owes(t)
      BY <2>2, CountedOwes
    <3>2. t \in Sessions /\ t # s
      BY <1>11, <3>1 DEF TypeOK, Counted, CountLeft, Goto
    <3>3. \A r \in Sessions \ {s} : Owes(r) => Owes(r)'
      BY <1>11 DEF CountLeft, Goto, TypeOK, Owes, Using
    <3>4. chans' = chans /\ cstate' = cstate
      BY <1>11 DEF CountLeft
    <3> QED BY <3>1, <3>2, <3>3, <3>4 DEF UsingHasOwner
  <2> QED BY <2>1, <2>2
<1>12. CASE SetIdle(s)
  <2>1. \A r \in Sessions \ {s} : Owes(r) => Owes(r)'
    BY <1>12 DEF SetIdle, Goto, TypeOK, Owes, Using
  <2>2. \A c \in chans' : cstate'[c] = "using" =>
          c # Chn[s] /\ c \in chans /\ cstate[c] = "using"
    BY <1>12, StudioAssumption DEF SetIdle, TypeOK
  <2> QED BY <2>1, <2>2 DEF UsingHasOwner
<1> QED BY <1>1, <1>2, <1>3, <1>4, <1>5, <1>6, <1>7, <1>8, <1>9, <1>10, <1>11, <1>12
        DEF Serve, Handle

LEMMA OwnerStep == OwnerInv /\ [Next]_vars => OwnerInv'
<1> SUFFICES ASSUME OwnerInv, [Next]_vars PROVE Counted' /\ UsingHasOwner'
  BY TypeStep DEF OwnerInv
<1> USE DEF OwnerInv
<1>1. ASSUME NEW s \in Sessions, Serve(s) PROVE Counted' /\ UsingHasOwner'
  BY <1>1, CountedServe, OwnersServe
<1>2. ASSUME NEW s \in Sessions, Disconnect(s) PROVE Counted' /\ UsingHasOwner'
  <2>1. Counted'
    BY <1>2 DEF Disconnect, Goto, TypeOK, Counted
  <2>2. UsingHasOwner'
    BY <1>2, OwnersMove DEF Disconnect, channel
  <2> QED BY <2>1, <2>2
<1>3. ASSUME NEW s \in Sessions, CloseSession(s) PROVE Counted' /\ UsingHasOwner'
  BY <1>3 DEF CloseSession, channel, Counted, UsingHasOwner, Owes, Using
<1>4. ASSUME NEW c \in Channels,
             CloseChannel(c) \/ FindIdleChannel(c) \/ DeleteChannel(c) \/ CleanChannel(c) \/ Age(c)
      PROVE  Counted' /\ UsingHasOwner'
  <2>1. UNCHANGED handler
    BY <1>4 DEF CloseChannel, FindIdleChannel, DeleteChannel, CleanChannel, Age
  <2>2. chans' \subseteq chans
    BY <1>4 DEF CloseChannel, FindIdleChannel, DeleteChannel, CleanChannel, Age, channel
  <2>3. \A d \in chans : cstate'[d] = "using" => cstate[d] = "using"
    BY <1>4 DEF CloseChannel, FindIdleChannel, DeleteChannel, CleanChannel, Age, channel, TypeOK
  <2> QED BY <2>1, <2>2, <2>3 DEF handler, Counted, UsingHasOwner, Owes, Using
<1>5. CASE UNCHANGED vars
  BY <1>5 DEF vars, handler, channel, Counted, UsingHasOwner, Owes, Using
<1> QED BY <1>1, <1>2, <1>3, <1>4, <1>5 DEF Next

(* Whatever the order in which sessions come and go, a channel in use has  *)
(* a session that will look, when it leaves, whether to set it Idle.       *)
THEOREM UsingHasOwnerHolds == Spec => []UsingHasOwner
<1>1. Init => OwnerInv
  BY TypeInit DEF Init, OwnerInv, Counted, UsingHasOwner
<1>2. OwnerInv => UsingHasOwner
  BY DEF OwnerInv
<1> QED BY <1>1, <1>2, OwnerStep, PTL DEF Spec

-----------------------------------------------------------------------------
(* What a channel in use keeps.  A channel is set Idle only by SetIdle and *)
(* CloseChannel, which put it into dropped when a session uses it: as long *)
(* as it is not there, the sessions that use it find it Using, and nobody  *)
(* who looks for Idle channels touches it.                                 *)

ChannelKept ==
  \A s \in Sessions : Using(s) /\ Chn[s] \notin dropped => cstate[Chn[s]] = "using"

(* A session uses its channel after a step of its handler only if it did   *)
(* before, or has just set it Using.                                       *)
LEMMA UsingBefore ==
  ASSUME TypeOK, NEW s \in Sessions, Serve(s) \/ Disconnect(s), NEW t \in Sessions, Using(t)'
  PROVE  Using(t) \/ (t = s /\ UseChannel(s) /\ Chn[s] \in chans)
<1> USE DEF TypeOK, Using, Goto
<1>1. CASE t # s
  BY <1>1 DEF Serve, Handle, Disconnect, Stop, Arrive, Register, UseChannel, ClaimChannel,
     License, Refuse, AddTrack, Name, Unregister, CountLeft, SetIdle
<1>2. CASE t = s /\ UseChannel(s)
  BY <1>2 DEF UseChannel
<1>3. CASE t = s /\ ~UseChannel(s)
  BY <1>3 DEF Serve, Handle, Disconnect, Stop, Arrive, Register, ClaimChannel,
     License, Refuse, AddTrack, Name, Unregister, CountLeft, SetIdle
<1> QED BY <1>1, <1>2, <1>3

(* Only these steps change the state of a channel or what was dropped.     *)
LEMMA KeptServe ==
  ASSUME TypeOK, ChannelKept, NEW s \in Sessions, Serve(s) \/ Disconnect(s)
  PROVE  ChannelKept'
<1> SUFFICES ASSUME NEW t \in Sessions, Using(t)', Chn[t] \notin dropped'
             PROVE  cstate'[Chn[t]] = "using"
  BY DEF ChannelKept
<1> Chn[s] \in Channels /\ Chn[t] \in Channels
  BY StudioAssumption
<1>1. CASE UseChannel(s)
  <2>1. CASE Chn[t] = Chn[s] /\ Chn[s] \in chans
    BY <1>1, <2>1 DEF UseChannel, TypeOK
  <2>2. CASE ~(Chn[t] = Chn[s] /\ Chn[s] \in chans)
    <3>1. Using(t)
      BY <2>2, UsingBefore
    <3>2. cstate[Chn[t]] = "using"
      BY <1>1, <3>1 DEF ChannelKept, UseChannel
    <3> QED BY <1>1, <2>2, <3>2 DEF UseChannel, TypeOK
  <2> QED BY <2>1, <2>2
<1>2. CASE SetIdle(s)
  <2>1. Using(t)
    BY <1>2, UsingBefore DEF SetIdle, UseChannel, Goto, Serve, Handle
  <2>2. CASE Chn[s] \in chans
    <3>1. /\ cstate' = [cstate EXCEPT ![Chn[s]] = "idle"]
          /\ Drop(Chn[s], {})
      BY <1>2, <2>2 DEF SetIdle
    <3>2. Chn[t] # Chn[s] /\ Chn[t] \notin dropped
      BY <2>1, <3>1 DEF Drop
    <3> QED BY <2>1, <3>1, <3>2 DEF ChannelKept, TypeOK
  <2>3. CASE Chn[s] \notin chans
    BY <1>2, <2>1, <2>3 DEF SetIdle, ChannelKept
  <2> QED BY <2>2, <2>3
<1>3. CASE ~UseChannel(s) /\ ~SetIdle(s)
  <2>1. UNCHANGED <<cstate, dropped>>
    BY <1>3 DEF Serve, Handle, Disconnect, Stop, Arrive, Register, ClaimChannel,
       License, Refuse, AddTrack, Name, Unregister, CountLeft, channel
  <2> QED BY <1>3, <2>1, UsingBefore DEF ChannelKept
<1> QED BY <1>1, <1>2, <1>3

LEMMA KeptManage ==
  ASSUME TypeOK, ChannelKept, NEW c \in Channels,
         CloseChannel(c) \/ FindIdleChannel(c) \/ DeleteChannel(c) \/ CleanChannel(c) \/ Age(c)
  PROVE  ChannelKept'
<1> SUFFICES ASSUME NEW t \in Sessions, Using(t)', Chn[t] \notin dropped'
             PROVE  cstate'[Chn[t]] = "using"
  BY DEF ChannelKept
<1>1. Using(t)
  BY DEF CloseChannel, FindIdleChannel, DeleteChannel, CleanChannel, Age, handler, Using
<1>2. CASE CloseChannel(c)
  <2>1. Chn[t] # c /\ Chn[t] \notin dropped
    BY <1>1, <1>2 DEF CloseChannel, Drop
  <2> QED BY <1>1, <1>2, <2>1 DEF CloseChannel, ChannelKept, TypeOK
<1>3. CASE ~CloseChannel(c)
  <2>1. UNCHANGED <<cstate, dropped>>
    BY <1>3 DEF FindIdleChannel, DeleteChannel, CleanChannel, Age, channel
  <2> QED BY <1>1, <2>1 DEF ChannelKept
<1> QED BY <1>2, <1>3

LEMMA KeptStep == TypeOK /\ ChannelKept /\ [Next]_vars => ChannelKept'
<1> SUFFICES ASSUME TypeOK, ChannelKept, [Next]_vars PROVE ChannelKept'
  OBVIOUS
<1>1. ASSUME NEW s \in Sessions, CloseSession(s) PROVE ChannelKept'
  BY <1>1 DEF CloseSession, channel, ChannelKept, Using
<1>2. CASE UNCHANGED vars
  BY <1>2 DEF vars, handler, channel, ChannelKept, Using
<1> QED BY <1>1, <1>2, KeptServe, KeptManage DEF Next

LEMMA KeptInit == Init => ChannelKept
BY DEF Init, ChannelKept, Using

(* Without managers nobody deletes a channel, and the self-checker removes *)
(* Idle ones only.                                                         *)
KnownInv == deleting = {} /\ OnKnownChannel

LEMMA KnownStep ==
  ASSUME ~Managed, TypeOK, ChannelKept, KnownInv, [Next]_vars
  PROVE  KnownInv'
<1> SUFFICES deleting' = {} /\ OnKnownChannel'
  BY DEF KnownInv
<1> deleting = {} /\ OnKnownChannel
  BY DEF KnownInv
<1>1. ASSUME NEW s \in Sessions, Serve(s) \/ Disconnect(s)
      PROVE  deleting' = {} /\ OnKnownChannel'
  <2>1. /\ chans' = chans /\ deleting' = deleting
        /\ dropped \subseteq dropped'
    BY <1>1 DEF Serve, Handle, Disconnect, Stop, Arrive, Register, UseChannel, ClaimChannel,
       License, Refuse, AddTrack, Name, Unregister, CountLeft, SetIdle, Drop, channel
  <2> QED BY <1>1, <2>1, UsingBefore DEF OnKnownChannel
<1>2. ASSUME NEW s \in Sessions, CloseSession(s) PROVE FALSE
  BY <1>2 DEF CloseSession
<1>3. ASSUME NEW c \in Channels,
             CloseChannel(c) \/ FindIdleChannel(c) \/ DeleteChannel(c) \/ CleanChannel(c) \/ Age(c)
      PROVE  deleting' = {} /\ OnKnownChannel'
  <2>1. CASE CleanChannel(c)
    <3>1. /\ cstate[c] = "idle" /\ chans \ {c} \subseteq chans'
          /\ UNCHANGED <<pc, deleting, dropped>>
      BY <2>1 DEF CleanChannel, handler
    <3>2. \A t \in Sessions : Using(t) /\ Chn[t] \notin dropped => Chn[t] # c
      BY <3>1 DEF ChannelKept
    <3> QED BY <3>1, <3>2 DEF OnKnownChannel, Using
  <2>2. CASE Age(c)
    BY <2>2 DEF Age, handler, OnKnownChannel, Using
  <2>3. CASE CloseChannel(c) \/ FindIdleChannel(c) \/ DeleteChannel(c)
    BY <2>3 DEF CloseChannel, FindIdleChannel, DeleteChannel
  <2> QED BY <1>3, <2>1, <2>2, <2>3
<1>4. CASE UNCHANGED vars
  BY <1>4 DEF vars, handler, channel, OnKnownChannel, Using
<1> QED BY <1>1, <1>2, <1>3, <1>4 DEF Next

(* The self-checker expires no channel that sessions use, however long     *)
(* they stay and whoever comes and goes beside them.                       *)
THEOREM OnKnownChannelHolds ==
  ASSUME ~Managed
  PROVE  Spec => []OnKnownChannel
<1>1. Init => KnownInv
  BY DEF Init, KnownInv, OnKnownChannel, Using
<1>2. TypeOK /\ ChannelKept /\ KnownInv /\ [Next]_vars => KnownInv'
  BY KnownStep
<1>3. KnownInv => OnKnownChannel
  BY DEF KnownInv
<1> QED BY <1>1, <1>2, <1>3, TypeInit, TypeStep, KeptInit, KeptStep, PTL DEF Spec

-----------------------------------------------------------------------------
(* OneTrack.  The track a session got is the one under its labels as long  *)
(* as the channel's tracks are not purged, which needs an Idle channel; and*)
(* a newcomer never replaces a track that is there.                        *)

HasTrack ==
  \A s \in Sessions : pc[s] \in {"name", "stream"} /\ Kind[s] # "ctl" => trk[s] # None

LEMMA TrackServe ==
  ASSUME TypeOK, ChannelKept, HasTrack, OneTrack, NEW s \in Sessions, Serve(s) \/ Disconnect(s)
  PROVE  HasTrack' /\ OneTrack'
<1> USE StudioAssumption
<1>1. CASE AddTrack(s) /\ Kind[s] # "ctl"
  <2> DEFINE c == Chn[s]
             l == Trk[s]
             t == IF tracks[c][l] = None THEN s ELSE tracks[c][l]
  <2>1. /\ pc' = [pc EXCEPT ![s] = "name"]
        /\ trk' = [trk EXCEPT ![s] = t]
        /\ tracks' = [tracks EXCEPT ![c][l] = t]
        /\ dropped' = dropped
    BY <1>1 DEF AddTrack, Goto
  <2>2. c \in Channels /\ l \in Tracks /\ t \in Sessions
    BY DEF TypeOK
  <2>3. HasTrack'
    BY <2>1, <2>2 DEF HasTrack, TypeOK
  <2>4. ASSUME NEW r \in Sessions, pc'[r] \in {"name", "stream"}, Kind[r] # "ctl",
               Chn[r] \notin dropped'
        PROVE  trk'[r] = tracks'[Chn[r]][Trk[r]]
    <3>1. Chn[r] \in Channels /\ Trk[r] \in Tracks
      OBVIOUS
    <3>2. CASE r = s
      BY <2>1, <2>2, <3>2 DEF TypeOK
    <3>3. CASE r # s
      <4>1. trk[r] = tracks[Chn[r]][Trk[r]] /\ trk[r] # None
        BY <2>1, <2>4, <3>3 DEF HasTrack, OneTrack, TypeOK
      <4>2. trk'[r] = trk[r]
        BY <2>1, <3>3 DEF TypeOK
      <4>3. CASE Chn[r] = c /\ Trk[r] = l
        <5>1. tracks'[c][l] = t
          BY <2>1, <2>2 DEF TypeOK
        <5> QED BY <4>1, <4>2, <4>3, <5>1
      <4>4. CASE Chn[r] = c /\ Trk[r] # l
        BY <2>1, <2>2, <3>1, <4>1, <4>2, <4>4 DEF TypeOK
      <4>5. CASE Chn[r] # c
        BY <2>1, <2>2, <3>1, <4>1, <4>2, <4>5 DEF TypeOK
      <4> QED BY <4>3, <4>4, <4>5
    <3> QED BY <3>2, <3>3
  <2> QED BY <2>3, <2>4 DEF OneTrack
<1>2. CASE ~(AddTrack(s) /\ Kind[s] # "ctl")
  <2>1. UNCHANGED <<trk, tracks>> /\ dropped \subseteq dropped'
    BY <1>2 DEF Serve, Handle, Disconnect, Stop, Arrive, Register, UseChannel, ClaimChannel,
       License, Refuse, AddTrack, Name, Unregister, CountLeft, SetIdle, Drop, channel
  <2>2. \A r \in Sessions : Kind[r] # "ctl" /\ pc'[r] \in {"name", "stream"}
                              => pc[r] \in {"name", "stream"}
    BY <1>2 DEF Serve, Handle, Disconnect, Stop, Arrive, Register, UseChannel, ClaimChannel,
       License, Refuse, AddTrack, Name, Unregister, CountLeft, SetIdle, Goto, TypeOK
  <2> QED BY <2>1, <2>2 DEF HasTrack, OneTrack
<1> QED BY <1>1, <1>2

LEMMA TrackManage ==
  ASSUME TypeOK, ChannelKept, HasTrack, OneTrack, NEW c \in Channels,
         CloseChannel(c) \/ FindIdleChannel(c) \/ DeleteChannel(c) \/ CleanChannel(c) \/ Age(c)
  PROVE  HasTrack' /\ OneTrack'
<1>1. UNCHANGED <<pc, trk>>
  BY DEF CloseChannel, FindIdleChannel, DeleteChannel, CleanChannel, Age, handler
<1>2. dropped \subseteq dropped'
  BY DEF CloseChannel, FindIdleChannel, DeleteChannel, CleanChannel, Age, Drop
<1>3. tracks' = tracks \/ tracks' = Purge(c)
  BY DEF CloseChannel, FindIdleChannel, DeleteChannel, CleanChannel, Age, channel
<1>4. ASSUME NEW r \in Sessions, pc[r] \in {"name", "stream"}, Chn[r] \notin dropped
      PROVE  tracks'[Chn[r]] = tracks[Chn[r]]
  <2>1. Chn[r] \in Channels /\ cstate[Chn[r]] = "using"
    BY <1>4, StudioAssumption DEF ChannelKept, Using
  <2>2. CASE Chn[r] = c
    BY <1>3, <2>1, <2>2 DEF Purge
  <2>3. CASE Chn[r] # c
    BY <1>3, <2>1, <2>3 DEF Purge, TypeOK
  <2> QED BY <2>2, <2>3
<1> QED BY <1>1, <1>2, <1>4 DEF HasTrack, OneTrack

LEMMA TrackStep ==
  TypeOK /\ ChannelKept /\ HasTrack /\ OneTrack /\ [Next]_vars => HasTrack' /\ OneTrack'
<1> SUFFICES ASSUME TypeOK, ChannelKept, HasTrack, OneTrack, [Next]_vars
             PROVE  HasTrack' /\ OneTrack'
  OBVIOUS
<1>1. ASSUME NEW s \in Sessions, CloseSession(s) PROVE HasTrack' /\ OneTrack'
  BY <1>1 DEF CloseSession, channel, HasTrack, OneTrack
<1>2. CASE UNCHANGED vars
  BY <1>2 DEF vars, handler, channel, HasTrack, OneTrack
<1> QED BY <1>1, <1>2, TrackServe, TrackManage DEF Next

(* Sessions that stream the same labels of a channel meet in one track,    *)
(* whoever deletes, cleans or purges channels meanwhile.                   *)
THEOREM OneTrackHolds == Spec => []OneTrack
<1>1. Init => HasTrack /\ OneTrack
  BY DEF Init, HasTrack, OneTrack
<1> QED BY <1>1, TypeInit, TypeStep, KeptInit, KeptStep, TrackStep, PTL DEF Spec

-----------------------------------------------------------------------------
(* The licenses.  Whom a limit counts is a subset of what the handler that *)
(* lets somebody in has just counted, and only that handler adds to it.    *)

UsingRegistered ==
  /\ IsFiniteSet(table)
  /\ \A s \in Sessions : sstate[s] = "using" => s \in table

SubsIn == {s \in Sessions : Kind[s] = "sub" /\ Admitted(s) /\ sstate[s] = "using"}

PubChannels == {c \in chans : \E s \in Sessions : Chn[s] = c /\ Kind[s] = "pub" /\ Admitted(s)}

LEMMA RegisteredStep == TypeOK /\ UsingRegistered /\ [Next]_vars => UsingRegistered'
<1> SUFFICES ASSUME TypeOK, UsingRegistered, [Next]_vars PROVE UsingRegistered'
  OBVIOUS
<1> USE DEF UsingRegistered, TypeOK
<1>1. ASSUME NEW s \in Sessions, Serve(s) \/ Disconnect(s) \/ CloseSession(s)
      PROVE  UsingRegistered'
  <2>1. CASE Register(s)
    BY <2>1, FS_AddElement DEF Register
  <2>2. CASE Unregister(s)
    BY <2>2, FS_RemoveElement DEF Unregister
  <2>3. CASE ~Register(s) /\ ~Unregister(s)
    BY <1>1, <2>3 DEF Serve, Handle, Disconnect, CloseSession, Stop, Arrive, UseChannel,
       ClaimChannel, License, Refuse, AddTrack, Name, CountLeft, SetIdle
  <2> QED BY <2>1, <2>2, <2>3
<1>2. ASSUME NEW c \in Channels,
             CloseChannel(c) \/ FindIdleChannel(c) \/ DeleteChannel(c) \/ CleanChannel(c) \/ Age(c)
      PROVE  UsingRegistered'
  BY <1>2 DEF CloseChannel, FindIdleChannel, DeleteChannel, CleanChannel, Age, handler
<1>3. CASE UNCHANGED vars
  BY <1>3 DEF vars, handler
<1> QED BY <1>1, <1>2, <1>3 DEF Next

(* A session is let in by License, or by UseChannel if it is neither       *)
(* publisher nor subscriber, and comes to no state Using later.            *)
LEMMA AdmittedBefore ==
  ASSUME TypeOK, [Next]_vars, NEW t \in Sessions, Kind[t] \in PubSub, Admitted(t)'
  PROVE  \/ Admitted(t) /\ (sstate'[t] = "using" => sstate[t] = "using")
         \/ /\ License(t)
            /\ Kind[t] = "pub" => ~(countChannelsUsing > NumPubs)
            /\ Kind[t] = "sub" => ~(countSessionsUsing > NumSubs)
<1> USE DEF TypeOK, Admitted, Goto, PubSub
<1>1. CASE License(t)
  BY <1>1 DEF License
<1>2. CASE ~License(t)
  <2>1. ASSUME NEW s \in Sessions, Serve(s) \/ Disconnect(s) \/ CloseSession(s)
        PROVE  Admitted(t) /\ (sstate'[t] = "using" => sstate[t] = "using")
    <3>1. CASE s = t
      BY <1>2, <2>1, <3>1 DEF Serve, Handle, Disconnect, CloseSession, Stop, Arrive, Register,
         UseChannel, ClaimChannel, Refuse, AddTrack, Name, Unregister, CountLeft, SetIdle
    <3>2. CASE s # t
      BY <2>1, <3>2 DEF Serve, Handle, Disconnect, CloseSession, Stop, Arrive, Register,
         UseChannel, ClaimChannel, License, Refuse, AddTrack, Name, Unregister, CountLeft, SetIdle
    <3> QED BY <3>1, <3>2
  <2>2. ASSUME NEW c \in Channels,
               CloseChannel(c) \/ FindIdleChannel(c) \/ DeleteChannel(c) \/ CleanChannel(c) \/ Age(c)
        PROVE  Admitted(t) /\ sstate' = sstate
    BY <2>2 DEF CloseChannel, FindIdleChannel, DeleteChannel, CleanChannel, Age, handler
  <2>3. CASE UNCHANGED vars
    BY <2>3 DEF vars, handler
  <2> QED BY <2>1, <2>2, <2>3 DEF Next
<1> QED BY <1>1, <1>2

(* Channels are only removed, and what was dropped stays so.               *)
LEMMA ChansShrink ==
  ASSUME [Next]_vars
  PROVE  chans' \subseteq chans /\ dropped \subseteq dropped'
<1>1. ASSUME NEW s \in Sessions, Serve(s) \/ Disconnect(s) \/ CloseSession(s)
      PROVE  chans' \subseteq chans /\ dropped \subseteq dropped'
  BY <1>1 DEF Serve, Handle, Disconnect, CloseSession, Stop, Arrive, Register, UseChannel,
     ClaimChannel, License, Refuse, AddTrack, Name, Unregister, CountLeft, SetIdle, Drop, channel
<1>2. ASSUME NEW c \in Channels,
             CloseChannel(c) \/ FindIdleChannel(c) \/ DeleteChannel(c) \/ CleanChannel(c) \/ Age(c)
      PROVE  chans' \subseteq chans /\ dropped \subseteq dropped'
  BY <1>2 DEF CloseChannel, FindIdleChannel, DeleteChannel, CleanChannel, Age, Drop, channel
<1> QED BY <1>1, <1>2 DEF Next, vars, channel

LEMMA SubLicenseStep ==
  ASSUME TypeOK, UsingRegistered, SubLicense, [Next]_vars
  PROVE  SubLicense'
<1> DEFINE InUse == {s \in table : sstate[s] = "using"}
<1>1. IsFiniteSet(InUse) /\ IsFiniteSet(SubsIn) /\ SubsIn \subseteq InUse
  BY FS_Subset DEF UsingRegistered, SubsIn
<1>2. CASE SubsIn' \subseteq SubsIn
  <2>1. Cardinality(SubsIn') <= Cardinality(SubsIn)
    BY <1>1, <1>2, FS_Subset
  <2>2. Cardinality(SubsIn) \in Nat /\ Cardinality(SubsIn') \in Nat
    BY <1>1, <1>2, FS_Subset, FS_CardinalityType
  <2> QED BY <2>1, <2>2, StudioAssumption DEF SubLicense, SubsIn
<1>3. CASE ~(SubsIn' \subseteq SubsIn)
  <2>1. PICK t \in SubsIn' : t \notin SubsIn
    BY <1>3
  <2>2. t \in Sessions /\ License(t) /\ ~(countSessionsUsing > NumSubs)
    BY <2>1, AdmittedBefore DEF SubsIn, PubSub
  <2>3. SubsIn' \subseteq InUse
    BY <1>1, <2>2, AdmittedBefore DEF SubsIn, PubSub, License, UsingRegistered, Admitted, Goto, TypeOK
  <2>4. Cardinality(SubsIn') <= Cardinality(InUse)
    BY <1>1, <2>3, FS_Subset
  <2>5. Cardinality(InUse) \in Nat /\ Cardinality(SubsIn') \in Nat
    BY <1>1, <2>3, FS_Subset, FS_CardinalityType
  <2> QED BY <2>2, <2>4, <2>5, StudioAssumption DEF SubLicense, SubsIn, countSessionsUsing
<1> QED BY <1>2, <1>3

LEMMA PubLicenseStep ==
  ASSUME TypeOK, ChannelKept, PubLicense, [Next]_vars
  PROVE  PubLicense'
<1> SUFFICES ASSUME dropped' = {} PROVE Cardinality(PubChannels') <= NumPubs
  BY DEF PubLicense, PubChannels
<1> DEFINE InUse == {c \in chans : cstate[c] = "using"}
<1>1. dropped = {} /\ chans' \subseteq chans
  BY ChansShrink
<1>2. /\ IsFiniteSet(InUse) /\ IsFiniteSet(PubChannels)
      /\ PubChannels \subseteq InUse
  <2>1. IsFiniteSet(chans)
    BY FS_Subset, StudioAssumption DEF TypeOK
  <2>2. PubChannels \subseteq InUse
    BY <1>1 DEF PubChannels, ChannelKept, Using, Admitted
  <2> QED BY <2>1, <2>2, FS_Subset
<1>3. CASE PubChannels' \subseteq PubChannels
  <2>1. Cardinality(PubChannels') <= Cardinality(PubChannels)
    BY <1>2, <1>3, FS_Subset
  <2>2. Cardinality(PubChannels) \in Nat /\ Cardinality(PubChannels') \in Nat
    BY <1>2, <1>3, FS_Subset, FS_CardinalityType
  <2> QED BY <1>1, <2>1, <2>2, StudioAssumption DEF PubLicense, PubChannels
<1>4. CASE ~(PubChannels' \subseteq PubChannels)
  <2>1. PICK c \in PubChannels' : c \notin PubChannels
    BY <1>4
  <2>2. PICK t \in Sessions : Chn[t] = c /\ Kind[t] = "pub" /\ Admitted(t)'
    BY <2>1 DEF PubChannels
  <2>3. License(t) /\ ~(countChannelsUsing > NumPubs)
    BY <1>1, <2>1, <2>2, AdmittedBefore DEF PubChannels, PubSub
  <2>4. PubChannels' \subseteq InUse
    <3>1. ASSUME NEW d \in PubChannels' PROVE d \in InUse
      <4>1. PICK r \in Sessions : Chn[r] = d /\ Kind[r] = "pub" /\ Admitted(r)'
        BY <3>1 DEF PubChannels
      <4>2. Using(r)
        BY <4>1, AdmittedBefore DEF PubSub, License, Goto, Using, Admitted
      <4>3. cstate[d] = "using"
        BY <1>1, <4>1, <4>2 DEF ChannelKept
      <4> QED BY <1>1, <3>1, <4>3 DEF PubChannels
    <3> QED BY <3>1
  <2>5. Cardinality(PubChannels') <= Cardinality(InUse)
    BY <1>2, <2>4, FS_Subset
  <2>6. Cardinality(InUse) \in Nat /\ Cardinality(PubChannels') \in Nat
    BY <1>2, <2>4, FS_Subset, FS_CardinalityType
  <2> QED BY <2>3, <2>5, <2>6, StudioAssumption DEF countChannelsUsing
<1> QED BY <1>3, <1>4

(* However many sessions arrive, are let in and leave at the same time,    *)
(* the limits of the license hold.                                         *)
THEOREM LicensesHold == Spec => []Licenses
<1>1. Init => UsingRegistered /\ SubLicense /\ PubLicense
  <2> SUFFICES ASSUME Init PROVE UsingRegistered /\ SubLicense /\ PubLicense
    OBVIOUS
  <2>1. SubsIn = {} /\ PubChannels = {}
    BY DEF Init, SubsIn, PubChannels, Admitted
  <2>2. Cardinality(SubsIn) <= NumSubs /\ Cardinality(PubChannels) <= NumPubs
    BY <2>1, FS_EmptySet, StudioAssumption
  <2>3. UsingRegistered
    BY FS_EmptySet DEF Init, UsingRegistered
  <2> QED BY <2>2, <2>3 DEF SubLicense, PubLicense, SubsIn, PubChannels
<1>2. TypeOK /\ UsingRegistered /\ SubLicense /\ [Next]_vars => SubLicense'
  BY SubLicenseStep
<1>3. TypeOK /\ ChannelKept /\ PubLicense /\ [Next]_vars => PubLicense'
  BY PubLicenseStep
<1>4. SubLicense /\ PubLicense => Licenses
  BY DEF Licenses
<1> QED BY <1>1, <1>2, <1>3, <1>4, TypeInit, TypeStep, KeptInit, KeptStep, RegisteredStep, PTL
        DEF Spec
=============================================================================
