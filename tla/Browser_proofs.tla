--------------------------- MODULE Browser_proofs ---------------------------
(***************************************************************************)
(* Theorems about what runs in the browser: the player of flv.js           *)
(* (FlvPlayer), for a video of any length and any parts, and the encoder's *)
(* and the decoder's page (WebPages), for any number of frames, chunks and *)
(* clicks.  The two programs share neither state nor names.                *)
(***************************************************************************)
EXTENDS FlvPlayer, WebPages, TLAPS, SequenceTheorems, FiniteSetTheorems, WellFoundedInduction

-----------------------------------------------------------------------------
(* The player: its types, and that a suspended loader is watched.          *)

(* The largest and the smallest of some numbers in a range.                *)
LEMMA MinExists ==
  ASSUME NEW S, S \subseteq Nat, S # {}
  PROVE  \E x \in S : \A y \in S : x =< y
<1>1. IsWellFoundedOn(OpToRel(<, Nat), Nat)
  BY NatLessThanWellFounded
<1>2. PICK x \in S : \A y \in S : ~(<<y, x>> \in OpToRel(<, Nat))
  BY <1>1, WFMin
<1>3. \A y \in S : ~(y < x)
  BY <1>2 DEF OpToRel
<1>4. QED BY <1>3

LEMMA MinProp ==
  ASSUME NEW S, S \subseteq Nat, S # {}
  PROVE  Min(S) \in S /\ \A y \in S : Min(S) =< y
BY MinExists DEF Min

LEMMA MaxProp ==
  ASSUME NEW b \in Nat, NEW S, S \subseteq 0..b, S # {}
  PROVE  Max(S) \in S /\ \A y \in S : Max(S) >= y
<1> DEFINE T == {b - y : y \in S}
<1>1. T \subseteq Nat /\ T # {}
  <2>1. PICK y \in S : TRUE
    OBVIOUS
  <2>2. b - y \in T
    BY <2>1
  <2>3. QED BY <2>2
<1>2. PICK m \in T : \A y \in T : m =< y
  BY <1>1, MinExists
<1>3. PICK x \in S : m = b - x
  OBVIOUS
<1>4. \A y \in S : x >= y
  BY <1>2, <1>3
<1>5. QED BY <1>4 DEF Max

-----------------------------------------------------------------------------
(* Types, of a state as a record.                                          *)

PlType ==
  [cur : 0..End, buf : SUBSET Times, queue : Seq(Times), seeking : Nat, seeks : 0..MaxSeeks,
   requested : BOOLEAN, record : BOOLEAN, checker : BOOLEAN, gone : BOOLEAN]

Commands == [op : {"pause", "resume", "seek", "stop", "destroy"}, to : 0..End \cup {None}]

Events == [msg : {"media", "recommend", "destroyed"}, at : Times]

CtlType ==
  [part : Parts, at : 0..End, header : BOOLEAN, on : BOOLEAN, paused : BOOLEAN,
   info : SUBSET Parts, pendSeek : 0..End \cup {None}, resolve : Times \cup {None}]

StateType == [pl : PlType, down : Seq(Commands), up : Seq(Events), ctl : CtlType]

InPart(c) == c.at \in PartStart[c.part]..PartEnd(c.part)

Typed(s) == s \in StateType /\ InPart(s.ctl)

(* Why a suspended loader is watched (the inductive invariant), while the  *)
(* page has the player.  A pause is posted, or obeyed, only when a part's  *)
(* metadata has come, so that no seek is passed over after it; and unless  *)
(* the interval runs, a command that resumes or loads anew is behind it.   *)
(* Once the page has destroyed the player the last command says so.        *)

Lifts == {"resume", "seek"}

LiftedAfter(d, i) == \E j \in DOMAIN d : j > i /\ d[j].op \in Lifts

PausePosted(d) == \E i \in DOMAIN d : d[i].op = "pause"

Alive(s) ==
  /\ \A i \in DOMAIN s.down : s.down[i].op \in Lifts \cup {"pause"}
  /\ s.up # <<>> \/ s.pl.queue # <<>> \/ s.ctl.paused \/ PausePosted(s.down)
       => s.ctl.info # {}
  /\ ~s.pl.checker =>
       /\ \A i \in DOMAIN s.down : s.down[i].op = "pause" => LiftedAfter(s.down, i)
       /\ s.ctl.paused /\ s.ctl.pendSeek = None => LiftedAfter(s.down, 0)

Ended(s) ==
  IF s.down = <<>> THEN ~s.ctl.on /\ ~s.ctl.paused ELSE s.down[Len(s.down)] = DestroyCmd

SeeksPlaced(d) == \A i \in DOMAIN d : d[i].op = "seek" => d[i].to \in 0..End

LoadsKnown(c) == c.on /\ ~c.header => c.info # {}

WatchInv(s) ==
  /\ ~worker => s.down = <<>>
  /\ SeeksPlaced(s.down)
  /\ LoadsKnown(s.ctl)
  /\ IF s.pl.gone THEN Ended(s) ELSE Alive(s)

LEMMA Typing == TypeOK <=> worker \in BOOLEAN /\ Typed(State)
BY DEF TypeOK, Typed, State, StateType, PlType, Commands, Events, CtlType, InPart

LEMMA Becomes ==
  ASSUME NEW s \in StateType, Become(s)
  PROVE  State' = s /\ worker' = worker
BY DEF Become, State, StateType

-----------------------------------------------------------------------------
(* The parts of the file and the keyframes in them.                        *)

LEMMA PartFacts ==
  /\ End \in Nat \ {0} /\ Parts = 1..Len(PartStart) /\ Len(PartStart) \in Nat \ {0}
  /\ PartStart[1] = 0
  /\ \A i \in Parts : PartStart[i] \in Times /\ PartEnd(i) \in 0..End /\ PartStart[i] < PartEnd(i)
  /\ \A t \in Times : t \in 0..End
<1>1. /\ End \in Nat \ {0} /\ Parts = 1..Len(PartStart) /\ Len(PartStart) \in Nat \ {0}
      /\ \A i \in Parts : PartStart[i] \in Times
  BY TimesAssumption, EmptySeq DEF Parts
<1>2. \A t \in Times : t \in 0..End
  BY <1>1 DEF Times
<1>3. ASSUME NEW i \in Parts PROVE PartEnd(i) \in 0..End /\ PartStart[i] < PartEnd(i)
  <2>1. CASE i = Len(PartStart)
    BY <1>1, <2>1 DEF PartEnd, Times
  <2>2. CASE i # Len(PartStart)
    <3>1. i + 1 \in Parts /\ i < i + 1
      BY <1>1, <2>2
    <3>2. PartEnd(i) = PartStart[i + 1] /\ PartStart[i] < PartStart[i + 1]
      BY <2>2, <3>1, TimesAssumption DEF PartEnd
    <3>3. QED BY <1>1, <1>2, <3>1, <3>2
  <2>3. QED BY <2>1, <2>2
<1>4. QED BY <1>1, <1>2, <1>3, TimesAssumption

(* A time is in the part _searchSegmentIndexContains finds.                *)
LEMMA PartOfProp ==
  ASSUME NEW t \in 0..End
  PROVE  PartOf(t) \in Parts /\ PartStart[PartOf(t)] <= t /\ t <= PartEnd(PartOf(t))
<1> DEFINE S == {i \in Parts : PartStart[i] <= t}
           m == PartOf(t)
<1>1. Len(PartStart) \in Nat /\ S \subseteq 0..Len(PartStart) /\ 1 \in S
  BY PartFacts
<1>2. m \in S /\ \A i \in S : m >= i
  BY <1>1, MaxProp DEF PartOf
<1>3. m \in Parts /\ PartStart[m] <= t
  BY <1>2
<1>4. t <= PartEnd(m)
  <2>1. CASE m = Len(PartStart)
    BY <2>1 DEF PartEnd
  <2>2. CASE m # Len(PartStart)
    <3>1. m + 1 \in Parts /\ m + 1 \notin S
      <4> HIDE DEF m, S
      <4>1. QED BY <1>2, <1>3, <2>2, PartFacts
    <3>2. PartEnd(m) = PartStart[m + 1] /\ ~(PartStart[m + 1] <= t)
      BY <2>2, <3>1 DEF PartEnd
    <3>3. PartStart[m + 1] \in Nat
      BY <3>1, PartFacts DEF Times
    <3>4. QED BY <3>2, <3>3
  <2>3. QED BY <2>1, <2>2
<1>5. QED BY <1>3, <1>4

LEMMA KeyframeProp ==
  ASSUME NEW t \in 0..End
  PROVE  NearestKeyframe(t) \in Times /\ NearestKeyframe(t) \in PartStart[PartOf(t)]..PartEnd(PartOf(t))
<1> DEFINE S == {k \in Keyframes : k <= t}
           first == PartStart[PartOf(t)]
<1>1. PartOf(t) \in Parts /\ first <= t /\ t <= PartEnd(PartOf(t)) /\ PartEnd(PartOf(t)) \in Nat
  BY PartOfProp, PartFacts
<1>2. S \subseteq Times /\ first \in S /\ S \subseteq 0..End
  BY <1>1, KeyframesAssumption, PartFacts
<1>3. Max(S) \in S /\ Max(S) >= first
  BY <1>2, MaxProp, PartFacts
<1>4. Max(S) \in Times /\ Max(S) <= t /\ Max(S) \in Nat
  BY <1>2, <1>3
<1>5. first \in Nat
  BY <1>2
<1>6. NearestKeyframe(t) = Max(S)
  BY DEF NearestKeyframe
<1>7. Max(S) <= PartEnd(PartOf(t))
  <2> HIDE DEF S
  <2>1. QED BY <1>1, <1>4
<1>8. QED
  <2> HIDE DEF S, first
  <2>1. Max(S) \in first..PartEnd(PartOf(t))
    BY <1>1, <1>3, <1>4, <1>5, <1>7
  <2>2. QED BY <1>4, <1>6, <2>1 DEF first

-----------------------------------------------------------------------------
(* What the commands make of the controller.                               *)

CtlOk(c) == c \in CtlType /\ InPart(c)

LEMMA LoadPartProp ==
  ASSUME NEW c, CtlOk(c), NEW i \in Parts, NEW t \in PartStart[i]..PartEnd(i), NEW h \in BOOLEAN
  PROVE  /\ CtlOk(LoadPart(c, i, t, h))
         /\ LoadPart(c, i, t, h) = [c EXCEPT !.part = i, !.at = t, !.header = h, !.on = TRUE, !.paused = FALSE]
<1>1. t \in 0..End
  BY PartFacts DEF Times
<1>2. QED BY <1>1 DEF LoadPart, CtlOk, CtlType, InPart

LEMMA SeekProp ==
  ASSUME NEW c, CtlOk(c), LoadsKnown(c), NEW t \in 0..End
  PROVE  /\ CtlOk(CtlSeek(c, t)) /\ LoadsKnown(CtlSeek(c, t))
         /\ CtlSeek(c, t).info = c.info
         /\ CtlSeek(c, t).paused => c.paused
         /\ CtlSeek(c, t).paused /\ c.info # {} => CtlSeek(c, t).pendSeek # None
<1> DEFINE target == PartOf(t)
           key == NearestKeyframe(t)
<1>1. target \in Parts /\ key \in PartStart[target]..PartEnd(target) /\ key \in Times
  BY PartOfProp, KeyframeProp
<1>2. t \in 0..End \cup {None} /\ t # None
  BY NoneAssumption, PartFacts
<1>3. PartStart[target] \in PartStart[target]..PartEnd(target)
  BY <1>1, PartFacts DEF Times
<1> HIDE DEF target, key
<1>4. CASE c.info = {}
  BY <1>4 DEF CtlSeek
<1>5. CASE c.info # {} /\ target \in c.info
  <2>1. CtlSeek(c, t) = [LoadPart(c, target, key, FALSE) EXCEPT !.resolve = key]
    BY <1>5 DEF CtlSeek, target, key
  <2>2. CtlOk(LoadPart(c, target, key, FALSE))
    BY <1>1, LoadPartProp
  <2>3. /\ LoadPart(c, target, key, FALSE).info = c.info
        /\ LoadPart(c, target, key, FALSE).paused = FALSE
    BY DEF LoadPart, CtlOk, CtlType
  <2>4. QED BY <1>1, <1>5, <2>1, <2>2, <2>3 DEF CtlOk, CtlType, InPart, LoadsKnown
<1>6. CASE c.info # {} /\ target \notin c.info /\ target = c.part
  <2>1. CtlSeek(c, t) = [c EXCEPT !.pendSeek = t]
    BY <1>6 DEF CtlSeek, target
  <2>2. QED BY <1>2, <1>6, <2>1 DEF CtlOk, CtlType, InPart, LoadsKnown
<1>7. CASE c.info # {} /\ target \notin c.info /\ target # c.part
  <2>1. CtlSeek(c, t) = [LoadPart(c, target, PartStart[target], TRUE) EXCEPT !.pendSeek = t]
    BY <1>7 DEF CtlSeek, LoadWholePart, target
  <2>2. CtlOk(LoadPart(c, target, PartStart[target], TRUE))
    BY <1>1, <1>3, LoadPartProp
  <2>3. /\ LoadPart(c, target, PartStart[target], TRUE).info = c.info
        /\ LoadPart(c, target, PartStart[target], TRUE).paused = FALSE
    BY DEF LoadPart, CtlOk, CtlType
  <2>4. QED BY <1>2, <1>7, <2>1, <2>2, <2>3 DEF CtlOk, CtlType, InPart, LoadsKnown
<1>8. QED BY <1>4, <1>5, <1>6, <1>7

LEMMA NewControllerOk ==
  /\ CtlOk(NewController) /\ NewController.on /\ NewController.header /\ ~NewController.paused
  /\ CtlOk(CtlDestroy) /\ ~CtlDestroy.on /\ ~CtlDestroy.paused
<1>1. 1 \in Parts /\ 0 \in PartStart[1]..PartEnd(1) /\ 0 \in 0..End
  BY PartFacts
<1>2. QED BY <1>1 DEF NewController, CtlDestroy, CtlStop, CtlOk, CtlType, InPart

LEMMA ObeyedProp ==
  ASSUME NEW c, CtlOk(c), LoadsKnown(c), NEW cmd \in Commands,
         cmd.op = "seek" => cmd.to \in 0..End
  PROVE  /\ CtlOk(Obeyed(c, cmd)) /\ LoadsKnown(Obeyed(c, cmd))
         /\ cmd.op \in Lifts \cup {"pause"} => Obeyed(c, cmd).info = c.info
         /\ cmd.op \in Lifts =>
              /\ Obeyed(c, cmd).paused => c.paused
              /\ Obeyed(c, cmd).paused /\ c.info # {} => Obeyed(c, cmd).pendSeek # None
         /\ cmd.op = "destroy" => ~Obeyed(c, cmd).on /\ ~Obeyed(c, cmd).paused
<1>1. CASE cmd.op = "pause"
  BY <1>1 DEF Obeyed, CtlPause, CtlOk, CtlType, InPart, LoadsKnown, Lifts
<1>2. CASE cmd.op = "resume"
  BY <1>2 DEF Obeyed, CtlResume, CtlOk, CtlType, InPart, LoadsKnown, Lifts
<1>3. CASE cmd.op = "seek"
  BY <1>3, SeekProp DEF Obeyed, Lifts
<1>4. CASE cmd.op = "stop"
  BY <1>4 DEF Obeyed, CtlStop, CtlOk, CtlType, InPart, LoadsKnown, Lifts
<1>5. CASE cmd.op = "destroy"
  BY <1>5, NewControllerOk DEF Obeyed, LoadsKnown, Lifts
<1>6. QED BY <1>1, <1>2, <1>3, <1>4, <1>5 DEF Commands

-----------------------------------------------------------------------------
(* What the handlers of the player make of a state it is in.               *)

Live(s) == Typed(s) /\ WatchInv(s) /\ ~s.pl.gone

(* A change that leaves the commands and the interval alone.               *)
LEMMA LiveFrame ==
  ASSUME NEW s, Live(s), NEW u \in StateType,
         u.down = s.down, u.ctl = s.ctl, u.pl.checker = s.pl.checker, ~u.pl.gone,
         u.up # <<>> => s.ctl.info # {}, u.pl.queue # <<>> => s.ctl.info # {}
  PROVE  Live(u)
BY DEF Live, Typed, WatchInv, Alive

LEMMA Posted ==
  ASSUME NEW d \in Seq(Commands), NEW cmd \in Commands
  PROVE  /\ Append(d, cmd) \in Seq(Commands)
         /\ DOMAIN d = 1..Len(d) /\ Len(d) \in Nat
         /\ DOMAIN Append(d, cmd) = 1..(Len(d) + 1)
         /\ \A i \in 1..Len(d) : Append(d, cmd)[i] = d[i]
         /\ Append(d, cmd)[Len(d) + 1] = cmd
BY AppendProperties, LenProperties

(* A command is posted or obeyed and the interval set or cleared with it.  *)
LEMMA CommandLive ==
  ASSUME NEW s, Live(s), NEW cmd \in Commands, NEW b \in BOOLEAN,
         \/ cmd.op = "pause" /\ b /\ s.ctl.info # {}
         \/ cmd.op \in Lifts /\ ~b,
         cmd.op = "seek" => cmd.to \in 0..End
  PROVE  /\ Live([Command(s, cmd) EXCEPT !.pl.checker = b])
         /\ Command(s, cmd) \in StateType /\ Command(s, cmd).pl = s.pl
         /\ Command(s, cmd).up = s.up /\ Command(s, cmd).ctl.info = s.ctl.info
<1> DEFINE v == Command(s, cmd)
           u == [v EXCEPT !.pl.checker = b]
<1>1. /\ s \in StateType /\ s.pl \in PlType /\ s.down \in Seq(Commands) /\ CtlOk(s.ctl)
      /\ LoadsKnown(s.ctl) /\ ~s.pl.gone /\ Alive(s) /\ SeeksPlaced(s.down)
      /\ cmd.op \in Lifts \cup {"pause"}
  BY DEF Live, Typed, WatchInv, StateType, CtlOk
<1>2. CASE worker
  <2>1. v = [s EXCEPT !.down = Append(@, cmd)]
    BY <1>2 DEF Command
  <2>2. /\ v \in StateType /\ v.pl = s.pl /\ v.up = s.up /\ v.ctl = s.ctl
        /\ v.down = Append(s.down, cmd)
    <3> HIDE DEF v
    <3>1. Append(s.down, cmd) \in Seq(Commands)
      BY <1>1, Posted
    <3>2. QED BY <1>1, <2>1, <3>1 DEF StateType
  <2>3. /\ u \in StateType /\ u.pl.checker = b /\ ~u.pl.gone /\ u.up = s.up /\ u.ctl = s.ctl
        /\ u.down = Append(s.down, cmd) /\ u.pl.queue = s.pl.queue
    <3> HIDE DEF v
    <3>1. QED BY <1>1, <2>2 DEF StateType, PlType
  <2> HIDE DEF u, v
  <2>4. \A i \in DOMAIN u.down : u.down[i].op \in Lifts \cup {"pause"}
    BY <1>1, <2>3, Posted DEF Alive
  <2>5. SeeksPlaced(u.down)
    BY <1>1, <2>3, Posted DEF SeeksPlaced
  <2>6. PausePosted(u.down) => PausePosted(s.down) \/ cmd.op = "pause"
    BY <1>1, <2>3, Posted DEF PausePosted
  <2>7. u.up # <<>> \/ u.pl.queue # <<>> \/ u.ctl.paused \/ PausePosted(u.down) => u.ctl.info # {}
    BY <1>1, <2>3, <2>6 DEF Alive, Lifts
  <2>8. ASSUME ~b, NEW i \in 0..Len(s.down) PROVE LiftedAfter(u.down, i)
    <3>1. Len(s.down) + 1 \in DOMAIN u.down /\ Len(s.down) + 1 > i /\ u.down[Len(s.down) + 1] = cmd
      BY <1>1, <2>3, Posted
    <3>2. cmd.op \in Lifts
      BY <2>8 DEF Lifts
    <3>3. QED BY <3>1, <3>2 DEF LiftedAfter
  <2>9. ASSUME ~b, NEW i \in DOMAIN u.down, u.down[i].op = "pause" PROVE i \in 0..Len(s.down)
    <3>1. DOMAIN u.down = 1..(Len(s.down) + 1) /\ Len(s.down) \in Nat
      BY <1>1, <2>3, Posted
    <3>2. i # Len(s.down) + 1
      BY <1>1, <2>3, <2>9, Posted DEF Lifts
    <3>3. QED BY <3>1, <3>2
  <2>10. 0 \in 0..Len(s.down)
    BY <1>1, Posted
  <2>11. Alive(u)
    BY <2>3, <2>4, <2>7, <2>8, <2>9, <2>10 DEF Alive
  <2>12. Live(u)
    BY <1>1, <1>2, <2>3, <2>5, <2>11 DEF Live, Typed, WatchInv, CtlOk
  <2>13. QED BY <2>2, <2>12 DEF u, v
<1>3. CASE ~worker
  <2>1. v = [s EXCEPT !.ctl = Obeyed(@, cmd)]
    BY <1>3 DEF Command
  <2>2. /\ CtlOk(Obeyed(s.ctl, cmd)) /\ LoadsKnown(Obeyed(s.ctl, cmd))
        /\ Obeyed(s.ctl, cmd).info = s.ctl.info
    BY <1>1, ObeyedProp
  <2>3. /\ v \in StateType /\ v.pl = s.pl /\ v.up = s.up /\ v.ctl = Obeyed(s.ctl, cmd)
        /\ v.down = s.down
    BY <1>1, <2>1, <2>2 DEF StateType, CtlOk
  <2>4. /\ u \in StateType /\ u.pl.checker = b /\ ~u.pl.gone /\ u.up = s.up
        /\ u.ctl = Obeyed(s.ctl, cmd) /\ u.down = s.down /\ u.pl.queue = s.pl.queue
    <3> HIDE DEF v
    <3>1. QED BY <1>1, <2>3 DEF StateType, PlType
  <2> HIDE DEF u, v
  <2>5. s.down = <<>>
    BY <1>3 DEF Live, WatchInv
  <2>6. ~b => /\ u.ctl.paused => s.ctl.paused
              /\ u.ctl.paused /\ s.ctl.info # {} => u.ctl.pendSeek # None
    BY <1>1, <2>4, ObeyedProp DEF Lifts
  <2>7. u.up # <<>> \/ u.pl.queue # <<>> \/ u.ctl.paused \/ PausePosted(u.down) => u.ctl.info # {}
    BY <1>1, <2>2, <2>4, <2>6 DEF Alive
  <2>8. ~b => ~(u.ctl.paused /\ u.ctl.pendSeek = None)
    BY <1>1, <2>6 DEF Alive
  <2>9. Alive(u)
    BY <1>1, <2>4, <2>5, <2>7, <2>8 DEF Alive
  <2>10. Live(u)
    BY <1>1, <1>3, <2>2, <2>4, <2>5, <2>9 DEF Live, Typed, WatchInv, CtlOk
  <2>11. QED BY <2>2, <2>3, <2>10 DEF u, v
<1>4. QED BY <1>2, <1>3

LEMMA SuspendLive ==
  ASSUME NEW s, Live(s), s.ctl.info # {}
  PROVE  Live(SuspendTransmuxer(s))
<1>1. PauseCmd \in Commands /\ PauseCmd.op = "pause" /\ PauseCmd.op # "seek"
  BY DEF PauseCmd, Commands
<1>2. QED BY <1>1, CommandLive DEF SuspendTransmuxer

LEMMA CheckLive ==
  ASSUME NEW s, Live(s)
  PROVE  Live(CheckProgressAndResume(s))
<1>1. ResumeCmd \in Commands /\ ResumeCmd.op \in Lifts /\ ResumeCmd.op # "seek"
  BY DEF ResumeCmd, Commands, Lifts
<1>2. Live([Command(s, ResumeCmd) EXCEPT !.pl.checker = FALSE])
  BY <1>1, CommandLive
<1>3. QED BY <1>2 DEF CheckProgressAndResume

LEMMA SeekLive ==
  ASSUME NEW s, Live(s), NEW t \in 0..End
  PROVE  Live(SeekUnbuffered(s, t))
<1> DEFINE v == Command(s, SeekCmd(t))
           u == [v EXCEPT !.pl.checker = FALSE]
           w == SeekUnbuffered(s, t)
<1>1. /\ SeekCmd(t) \in Commands /\ SeekCmd(t).op \in Lifts
      /\ SeekCmd(t).op = "seek" => SeekCmd(t).to \in 0..End
  BY DEF SeekCmd, Commands, Lifts
<1>2. Live(u) /\ v \in StateType
  BY <1>1, CommandLive
<1>3. w = [v EXCEPT !.pl.checker = FALSE, !.pl.buf = {}, !.pl.queue = <<>>]
  BY DEF SeekUnbuffered
<1> HIDE DEF v, w
<1>4. <<>> \in Seq(Times)
  OBVIOUS
<1>5. /\ w \in StateType /\ w.down = u.down /\ w.ctl = u.ctl /\ w.up = u.up
      /\ w.pl.checker = u.pl.checker /\ w.pl.gone = u.pl.gone /\ w.pl.queue = <<>>
  BY <1>2, <1>3, <1>4 DEF StateType, PlType
<1>6. ~u.pl.gone /\ u.up # <<>> => u.ctl.info # {}
  BY <1>2 DEF Live, WatchInv, Alive
<1>7. Live(w)
  <2> HIDE DEF u
  <2>1. QED BY <1>2, <1>5, <1>6, LiveFrame DEF Live
<1>8. QED BY <1>7 DEF w

LEMMA SetTimeLive ==
  ASSUME NEW s, Live(s), NEW t \in 0..End
  PROVE  Live(SetTime(s, t)) /\ Live(RequestSetTime(s, t))
<1>1. s \in StateType /\ Alive(s) /\ ~s.pl.gone
  BY DEF Live, Typed, WatchInv
<1> DEFINE u == SetTime(s, t)
           v == RequestSetTime(s, t)
           p == [s.pl EXCEPT !.cur = t, !.seeking = @ + 1]
<1>2. /\ u \in StateType /\ u.down = s.down /\ u.ctl = s.ctl /\ u.up = s.up
      /\ u.pl.checker = s.pl.checker /\ ~u.pl.gone /\ u.pl.queue = s.pl.queue
  <2>1. p \in PlType /\ p.checker = s.pl.checker /\ ~p.gone /\ p.queue = s.pl.queue
    <3>1. s.pl \in PlType
      BY <1>1 DEF StateType
    <3>2. s.pl.seeking + 1 \in Nat
      BY <3>1 DEF PlType
    <3>3. QED BY <1>1, <3>1, <3>2 DEF PlType
  <2>2. u = [s EXCEPT !.pl = p]
    BY <1>1 DEF SetTime, StateType, PlType
  <2> HIDE DEF u, p
  <2>3. QED BY <1>1, <2>1, <2>2 DEF StateType
<1>3. v = [u EXCEPT !.pl.requested = TRUE]
  BY DEF RequestSetTime
<1> HIDE DEF u, v
<1>4. /\ v \in StateType /\ v.down = s.down /\ v.ctl = s.ctl /\ v.up = s.up
      /\ v.pl.checker = s.pl.checker /\ ~v.pl.gone /\ v.pl.queue = s.pl.queue
  BY <1>2, <1>3 DEF StateType, PlType
<1>5. s.up # <<>> \/ s.pl.queue # <<>> => s.ctl.info # {}
  BY <1>1 DEF Alive
<1>6. Live(u)
  BY <1>2, <1>5, LiveFrame
<1>7. Live(v)
  BY <1>4, <1>5, LiveFrame
<1>8. QED BY <1>6, <1>7 DEF u, v

LEMMA InternalSeekLive ==
  ASSUME NEW s, Live(s), NEW t \in 0..End
  PROVE  Live(InternalSeek(s, t))
<1>1. Live(RequestSetTime(s, t)) /\ Live(SeekUnbuffered(s, t))
  BY SetTimeLive, SeekLive
<1>2. Live(CheckProgressAndResume(RequestSetTime(s, t)))
  BY <1>1, CheckLive
<1>3. QED BY <1>1, <1>2 DEF InternalSeek

LEMMA MediaLive ==
  ASSUME NEW s, Live(s), s.ctl.info # {}, NEW t \in Times
  PROVE  Live(OnMediaSegment(s, t))
<1> DEFINE u == [s EXCEPT !.pl.queue = Append(@, t)]
<1>1. s \in StateType /\ ~s.pl.gone
  BY DEF Live, Typed, WatchInv
<1>2. Append(s.pl.queue, t) \in Seq(Times)
  BY <1>1, AppendProperties DEF StateType, PlType
<1>3. /\ u \in StateType /\ u.down = s.down /\ u.ctl = s.ctl
      /\ u.pl.checker = s.pl.checker /\ u.pl.gone = s.pl.gone
  BY <1>1, <1>2 DEF StateType, PlType
<1> HIDE DEF u
<1>4. Live(u)
  BY <1>1, <1>3, LiveFrame
<1>5. Live(SuspendTransmuxer(u))
  BY <1>3, <1>4, SuspendLive
<1>6. QED BY <1>4, <1>5 DEF OnMediaSegment, u

-----------------------------------------------------------------------------
(* Every step.                                                             *)

Good(s) == Typed(s) /\ WatchInv(s)

LEMMA GoodNext ==
  ASSUME NEW s, Good(s), Become(s)
  PROVE  Good(State)'
<1>1. State' = s /\ worker' = worker
  BY Becomes DEF Good, Typed
<1>2. QED BY <1>1 DEF Good, Typed, WatchInv, SeeksPlaced, LoadsKnown, Alive, Ended, InPart,
     PausePosted, LiftedAfter

LEMMA StateFields ==
  /\ State.pl = pl /\ State.down = down /\ State.up = up /\ State.ctl = ctl
  /\ Good(State) => /\ pl \in PlType /\ down \in Seq(Commands) /\ up \in Seq(Events) /\ CtlOk(ctl)
                    /\ SeeksPlaced(down) /\ LoadsKnown(ctl) /\ State \in StateType
BY DEF State, Good, Typed, StateType, CtlOk, WatchInv

(* The controller works on.                                                *)
LEMMA CtlGood ==
  ASSUME Good(State), ctl.on, ~ctl.paused,
         NEW c, CtlOk(c), LoadsKnown(c), ~c.paused, ctl.info # {} => c.info # {},
         NEW q \in Seq(Events), q # <<>> => c.info # {},
         NEW s \in StateType, s.pl = pl, s.down = down, s.up = q, s.ctl = c
  PROVE  Good(s)
<1>1. s.pl = pl /\ s.down = down /\ s.up = q /\ s.ctl = c
  OBVIOUS
<1>2. SeeksPlaced(down) /\ (~worker => down = <<>>)
  BY StateFields DEF Good, WatchInv
<1>3. CASE pl.gone
  <2>1. Ended(State)
    BY <1>3, StateFields DEF Good, WatchInv
  <2>2. down # <<>> /\ down[Len(down)] = DestroyCmd
    BY <2>1, StateFields DEF Ended
  <2>3. QED BY <1>1, <1>2, <1>3, <2>2 DEF Good, Typed, WatchInv, Ended, CtlOk
<1>4. CASE ~pl.gone
  <2>1. Alive(State)
    BY <1>4, StateFields DEF Good, WatchInv
  <2>2. Alive(s)
    BY <1>1, <2>1, StateFields DEF Alive
  <2>3. QED BY <1>1, <1>2, <1>4, <2>2 DEF Good, Typed, WatchInv, CtlOk
<1>5. QED BY <1>3, <1>4

LEMMA MetadataGood ==
  ASSUME Good(State), Metadata
  PROVE  Good(State)'
<1> DEFINE c == [ctl EXCEPT !.info = @ \cup {ctl.part}, !.header = FALSE, !.pendSeek = None]
           d == IF ctl.pendSeek = None THEN c ELSE CtlSeek(c, ctl.pendSeek)
           s == [State EXCEPT !.ctl = d]
<1>1. CtlOk(ctl) /\ up \in Seq(Events) /\ ctl.on /\ ~ctl.paused
  BY StateFields DEF Metadata, Loading
<1>2. CtlOk(c) /\ ~c.paused /\ c.info # {}
  BY <1>1 DEF CtlOk, CtlType, InPart
<1>3. LoadsKnown(c)
  BY <1>2 DEF LoadsKnown
<1>4. ctl.pendSeek # None => ctl.pendSeek \in 0..End
  BY <1>1 DEF CtlOk, CtlType
<1>5. CtlOk(d) /\ LoadsKnown(d) /\ ~d.paused /\ d.info # {}
  <2> HIDE DEF c
  <2>1. QED BY <1>2, <1>3, <1>4, SeekProp
<1>6. s \in StateType /\ s.pl = pl /\ s.down = down /\ s.up = up /\ s.ctl = d
  <2> HIDE DEF d
  <2>1. QED BY <1>5, StateFields DEF StateType, CtlOk
<1>7. Become(s)
  BY DEF Metadata
<1> HIDE DEF d, s
<1>8. Good(s)
  BY <1>1, <1>5, <1>6, CtlGood
<1>9. QED BY <1>7, <1>8, GoodNext

LEMMA SegmentGood ==
  ASSUME Good(State), Segment
  PROVE  Good(State)'
<1> DEFINE dropped == ctl.pendSeek # None
           resolved == ~dropped /\ ctl.resolve # None
           media == [msg |-> "media", at |-> ctl.at]
           recommend == [msg |-> "recommend", at |-> ctl.resolve]
           c == [ctl EXCEPT !.at = @ + 1, !.resolve = IF resolved THEN None ELSE @]
           q == IF dropped THEN up ELSE up \o <<media>> \o IF resolved THEN <<recommend>> ELSE <<>>
           s == [State EXCEPT !.ctl.at = @ + 1,
                              !.ctl.resolve = IF resolved THEN None ELSE @,
                              !.up = IF dropped THEN @
                                     ELSE @ \o <<media>> \o IF resolved THEN <<recommend>> ELSE <<>>]
<1>1. /\ CtlOk(ctl) /\ LoadsKnown(ctl) /\ up \in Seq(Events)
      /\ ctl.on /\ ~ctl.paused /\ ~ctl.header /\ ctl.at < PartEnd(ctl.part)
  BY StateFields DEF Segment, Loading
<1>2. ctl.info # {}
  BY <1>1 DEF LoadsKnown
<1>3. ctl.part \in Parts /\ ctl.at \in PartStart[ctl.part]..PartEnd(ctl.part)
  BY <1>1 DEF CtlOk, CtlType, InPart
<1>4. PartStart[ctl.part] \in Nat /\ PartEnd(ctl.part) \in 0..End /\ End \in Nat
  BY <1>3, PartFacts DEF Times
<1>5. /\ ctl.at \in Times /\ ctl.at + 1 \in 0..End
      /\ ctl.at + 1 \in PartStart[ctl.part]..PartEnd(ctl.part)
  BY <1>1, <1>3, <1>4 DEF Times
<1>6. CtlOk(c) /\ ~c.paused /\ c.on /\ ~c.header /\ c.info = ctl.info
  BY <1>1, <1>5 DEF CtlOk, CtlType, InPart
<1>7. q \in Seq(Events)
  <2>1. media \in Events
    BY <1>5 DEF Events
  <2>2. resolved => recommend \in Events
    BY <1>1 DEF Events, CtlOk, CtlType
  <2>3. up \o <<media>> \in Seq(Events)
    <3> HIDE DEF media
    <3>1. QED BY <1>1, <2>1
  <2>4. resolved => (up \o <<media>>) \o <<recommend>> \in Seq(Events)
    <3> HIDE DEF media, recommend, resolved
    <3>1. QED BY <2>2, <2>3
  <2>5. (up \o <<media>>) \o <<>> \in Seq(Events)
    <3> HIDE DEF media
    <3>1. QED BY <2>3
  <2>6. QED BY <1>1, <2>4, <2>5
<1>8. s \in StateType /\ s.pl = pl /\ s.down = down /\ s.up = q /\ s.ctl = c
  <2>1. s = [State EXCEPT !.ctl = c, !.up = q]
    BY StateFields DEF StateType
  <2> HIDE DEF c, q, s
  <2>2. QED BY <1>6, <1>7, <2>1, StateFields DEF StateType, CtlOk
<1>9. Become(s)
  BY Zenon DEF Segment
<1> HIDE DEF s, c, q
<1>10. LoadsKnown(c)
  BY <1>2, <1>6 DEF LoadsKnown
<1>11. Good(s)
  BY <1>1, <1>2, <1>6, <1>7, <1>8, <1>10, CtlGood
<1>12. QED BY <1>9, <1>11, GoodNext

LEMMA PartCompleteGood ==
  ASSUME Good(State), PartComplete
  PROVE  Good(State)'
<1>1. /\ CtlOk(ctl) /\ LoadsKnown(ctl) /\ up \in Seq(Events)
      /\ ctl.on /\ ~ctl.paused /\ ~ctl.header
  BY StateFields DEF PartComplete, Loading
<1>2. ctl.info # {} /\ ctl.part \in Parts
  BY <1>1 DEF LoadsKnown, CtlOk, CtlType
<1>3. CASE ctl.part < Len(PartStart)
  <2> DEFINE c == LoadWholePart(ctl, ctl.part + 1)
             s == [State EXCEPT !.ctl = LoadWholePart(@, ctl.part + 1)]
  <2>1. ctl.part + 1 \in Parts
    BY <1>2, <1>3, PartFacts
  <2>2. PartStart[ctl.part + 1] \in PartStart[ctl.part + 1]..PartEnd(ctl.part + 1)
    BY <2>1, PartFacts DEF Times
  <2>3. CtlOk(c)
    BY <1>1, <2>1, <2>2, LoadPartProp DEF LoadWholePart
  <2>4. c.header /\ c.on /\ ~c.paused /\ c.info = ctl.info
    BY <1>1 DEF LoadWholePart, LoadPart, CtlOk, CtlType
  <2>5. s \in StateType /\ s.pl = pl /\ s.down = down /\ s.up = up /\ s.ctl = c
    <3>1. s = [State EXCEPT !.ctl = c]
      BY StateFields DEF StateType
    <3> HIDE DEF c, s
    <3>2. QED BY <2>3, <3>1, StateFields DEF StateType, CtlOk
  <2>6. Become(s)
    BY <1>3 DEF PartComplete
  <2> HIDE DEF s, c
  <2>7. Good(s)
    BY <1>1, <1>2, <2>3, <2>4, <2>5, CtlGood DEF LoadsKnown
  <2>8. QED BY <2>6, <2>7, GoodNext
<1>4. CASE ~(ctl.part < Len(PartStart))
  <2> DEFINE c == [ctl EXCEPT !.on = FALSE]
             s == [State EXCEPT !.ctl.on = FALSE]
  <2>1. CtlOk(c) /\ ~c.on /\ ~c.paused /\ c.info = ctl.info
    BY <1>1 DEF CtlOk, CtlType, InPart
  <2>2. s \in StateType /\ s.pl = pl /\ s.down = down /\ s.up = up /\ s.ctl = c
    <3>1. s = [State EXCEPT !.ctl = c]
      BY StateFields DEF StateType
    <3> HIDE DEF c, s
    <3>2. QED BY <2>1, <3>1, StateFields DEF StateType, CtlOk
  <2>3. Become(s)
    BY <1>4 DEF PartComplete
  <2> HIDE DEF s, c
  <2>4. Good(s)
    BY <1>1, <1>2, <2>1, <2>2, CtlGood DEF LoadsKnown
  <2>5. QED BY <2>3, <2>4, GoodNext
<1>5. QED BY <1>3, <1>4

(* The worker takes a command.                                             *)
LEMMA Taken ==
  ASSUME NEW d \in Seq(Commands), d # <<>>
  PROVE  /\ Head(d) = d[1] /\ Head(d) \in Commands /\ Tail(d) \in Seq(Commands)
         /\ Len(d) \in Nat \ {0} /\ DOMAIN d = 1..Len(d) /\ DOMAIN Tail(d) = 1..(Len(d) - 1)
         /\ Len(Tail(d)) = Len(d) - 1
         /\ \A i \in 1..(Len(d) - 1) : Tail(d)[i] = d[i + 1]
BY HeadTailProperties, LenProperties, EmptySeq

LEMMA LiftedTail ==
  ASSUME NEW d \in Seq(Commands), d # <<>>, NEW i \in Nat, LiftedAfter(d, i + 1)
  PROVE  LiftedAfter(Tail(d), i)
<1>1. PICK j \in 1..Len(d) : j > i + 1 /\ d[j].op \in Lifts
  BY Taken DEF LiftedAfter
<1>2. /\ j - 1 \in 1..(Len(d) - 1) /\ j - 1 > i /\ (j - 1) + 1 = j
  BY <1>1, Taken
<1>3. Tail(d)[j - 1] = d[j]
  BY <1>2, Taken
<1>4. QED BY <1>1, <1>2, <1>3, Taken DEF LiftedAfter

LEMMA ObeyGood ==
  ASSUME Good(State), Obey
  PROVE  Good(State)'
<1> DEFINE h == Head(down)
           d == Tail(down)
           c == Obeyed(ctl, h)
           q == IF h = DestroyCmd THEN Append(up, [msg |-> "destroyed", at |-> 0]) ELSE up
           s == [State EXCEPT !.down = Tail(@), !.ctl = Obeyed(@, Head(down)),
                              !.up = IF Head(down) = DestroyCmd
                                     THEN Append(@, [msg |-> "destroyed", at |-> 0]) ELSE @]
<1>1. /\ CtlOk(ctl) /\ LoadsKnown(ctl) /\ up \in Seq(Events) /\ down \in Seq(Commands)
      /\ SeeksPlaced(down) /\ State \in StateType /\ pl \in PlType
  BY StateFields
<1>2. down # <<>> /\ Become(s)
  BY Zenon DEF Obey
<1>3. /\ h = down[1] /\ h \in Commands /\ d \in Seq(Commands)
      /\ h.op = "seek" => h.to \in 0..End
  BY <1>1, <1>2, Taken DEF SeeksPlaced
<1>4. CtlOk(c) /\ LoadsKnown(c)
  BY <1>1, <1>3, ObeyedProp
<1>5. q \in Seq(Events)
  <2>1. 0 \in Times
    BY PartFacts DEF Times
  <2>2. [msg |-> "destroyed", at |-> 0] \in Events
    BY <2>1 DEF Events
  <2>3. Append(up, [msg |-> "destroyed", at |-> 0]) \in Seq(Events)
    BY <1>1, <2>2, AppendProperties
  <2>4. QED BY <1>1, <2>3
<1>6. s \in StateType /\ s.pl = pl /\ s.down = d /\ s.ctl = c /\ s.up = q
  <2>1. s = [State EXCEPT !.down = d, !.ctl = c, !.up = q]
    BY <1>1, StateFields DEF StateType
  <2> HIDE DEF c, q, d, s
  <2>2. QED BY <1>1, <1>3, <1>4, <1>5, <2>1, StateFields DEF StateType, CtlOk
<1>7. SeeksPlaced(d)
  <2>1. \A i \in DOMAIN d : i + 1 \in DOMAIN down /\ d[i] = down[i + 1]
    BY <1>1, <1>2, Taken
  <2>2. QED BY <1>1, <2>1 DEF SeeksPlaced
<1>8. worker
  BY <1>2, StateFields DEF Good, WatchInv
<1>9. CASE pl.gone
  <2>1. down[Len(down)] = DestroyCmd
    BY <1>2, <1>9, StateFields DEF Good, WatchInv, Ended
  <2>2. CASE d = <<>>
    <3>1. Len(down) = 1
      <4>1. Len(Tail(down)) = 0
        <5>1. <<>> = Tail(down)
          BY <2>2
        <5>2. Len(<<>>) = 0
          BY EmptySeq
        <5>3. QED BY <5>1, <5>2
      <4>2. Len(down) \in Nat /\ Len(Tail(down)) = Len(down) - 1
        BY <1>1, <1>2, Taken
      <4>3. QED BY <4>1, <4>2
    <3>2. h.op = "destroy"
      BY <1>3, <2>1, <3>1 DEF DestroyCmd
    <3>3. ~c.on /\ ~c.paused
      BY <1>1, <1>3, <3>2, ObeyedProp
    <3> HIDE DEF c, q, d, s
    <3>4. Ended(s)
      BY <1>6, <2>2, <3>3 DEF Ended
    <3>5. QED BY <1>4, <1>6, <1>7, <1>8, <1>9, <1>2, <3>4, GoodNext
              DEF Good, Typed, WatchInv, CtlOk
  <2>3. CASE d # <<>>
    <3>1. Len(d) \in Nat \ {0} /\ Len(d) = Len(down) - 1
      BY <1>1, <1>2, <1>3, <2>3, Taken, EmptySeq
    <3>2. d[Len(d)] = DestroyCmd
      <4>1. Len(down) - 1 \in 1..(Len(down) - 1) /\ (Len(down) - 1) + 1 = Len(down)
        BY <1>1, <1>2, <3>1, Taken
      <4>2. d[Len(down) - 1] = down[Len(down)]
        BY <1>1, <1>2, <4>1, Taken
      <4>3. QED BY <2>1, <3>1, <4>2
    <3> HIDE DEF c, q, d, s
    <3>3. Ended(s)
      BY <1>6, <2>3, <3>2 DEF Ended
    <3>4. QED BY <1>4, <1>6, <1>7, <1>8, <1>9, <1>2, <3>3, GoodNext
              DEF Good, Typed, WatchInv, CtlOk
  <2>4. QED BY <2>2, <2>3
<1>10. CASE ~pl.gone
  <2>1. Alive(State)
    BY <1>10, StateFields DEF Good, WatchInv
  <2>2. /\ \A i \in DOMAIN down : down[i].op \in Lifts \cup {"pause"}
        /\ up # <<>> \/ pl.queue # <<>> \/ ctl.paused \/ PausePosted(down) => ctl.info # {}
        /\ ~pl.checker =>
             /\ \A i \in DOMAIN down : down[i].op = "pause" => LiftedAfter(down, i)
             /\ ctl.paused /\ ctl.pendSeek = None => LiftedAfter(down, 0)
    BY <2>1, StateFields DEF Alive
  <2>3. /\ 1 \in DOMAIN down /\ h.op \in Lifts \cup {"pause"}
        /\ \A i \in DOMAIN d : i \in Nat /\ i + 1 \in DOMAIN down /\ d[i] = down[i + 1]
    BY <1>1, <1>2, <1>3, <2>2, Taken
  <2>4. q = up
    BY <2>3 DEF DestroyCmd, Lifts
  <2>5. c.info = ctl.info
    BY <1>1, <1>3, <2>3, ObeyedProp
  <2>6. h.op = "pause" => PausePosted(down)
    BY <1>3, <2>3 DEF PausePosted
  <2>7. PausePosted(d) => PausePosted(down)
    BY <2>3 DEF PausePosted
  <2>8. h.op \in Lifts => /\ c.paused => ctl.paused
                          /\ c.paused /\ ctl.info # {} => c.pendSeek # None
    BY <1>1, <1>3, ObeyedProp
  <2>9. c.paused => ctl.info # {}
    BY <2>2, <2>3, <2>6, <2>8
  <2>10. ASSUME ~pl.checker, NEW i \in DOMAIN d, d[i].op = "pause" PROVE LiftedAfter(d, i)
    <3>1. LiftedAfter(down, i + 1)
      BY <2>2, <2>3, <2>10
    <3>2. QED BY <1>1, <1>2, <2>3, <3>1, LiftedTail
  <2>11. ASSUME ~pl.checker, c.paused, c.pendSeek = None PROVE LiftedAfter(d, 0)
    <3>1. h.op = "pause"
      BY <2>3, <2>8, <2>9, <2>11
    <3>2. LiftedAfter(down, 0 + 1)
      BY <1>3, <2>2, <2>3, <2>11, <3>1
    <3>3. QED BY <1>1, <1>2, <3>2, LiftedTail
  <2> HIDE DEF c, q, d, s, h
  <2>12. Alive(s)
    BY <1>6, <2>2, <2>3, <2>4, <2>5, <2>7, <2>9, <2>10, <2>11 DEF Alive
  <2>13. QED BY <1>4, <1>6, <1>7, <1>8, <1>10, <1>2, <2>12, GoodNext
             DEF Good, Typed, WatchInv, CtlOk
<1>11. QED BY <1>9, <1>10

LEMMA DeliverGood ==
  ASSUME Good(State), Deliver
  PROVE  Good(State)'
<1> DEFINE s == [State EXCEPT !.up = Tail(@)]
           u == IF Head(up).msg = "media" THEN OnMediaSegment(s, Head(up).at)
                ELSE RequestSetTime(s, Head(up).at)
<1>1. /\ up \in Seq(Events) /\ up # <<>> /\ State \in StateType /\ ~pl.gone
  BY StateFields DEF Deliver
<1>2. Tail(up) \in Seq(Events) /\ Head(up).at \in Times /\ Head(up).at \in 0..End
  <2>1. Tail(up) \in Seq(Events) /\ Head(up) \in Events
    BY <1>1, HeadTailProperties
  <2>2. QED BY <2>1, PartFacts DEF Events
<1>3. Live(State) /\ Alive(State)
  BY <1>1, StateFields DEF Live, Good, WatchInv
<1>4. ctl.info # {} /\ (pl.queue # <<>> => ctl.info # {})
  BY <1>1, <1>3, StateFields DEF Alive
<1>5. /\ s \in StateType /\ s.down = down /\ s.ctl = ctl /\ s.pl = pl
  BY <1>1, <1>2, StateFields DEF StateType
<1>6. Become(u)
  BY Zenon DEF Deliver
<1> HIDE DEF s
<1>7. Live(s)
  BY <1>1, <1>3, <1>4, <1>5, StateFields, LiveFrame
<1>8. Live(u)
  BY <1>2, <1>4, <1>5, <1>7, MediaLive, SetTimeLive
<1>9. QED BY <1>6, <1>8, GoodNext DEF Good, Live

(* While the page has the player, its handlers go from a state like this   *)
(* one, in which nothing but what the page sees has changed.               *)
LEMMA HandlerStart ==
  ASSUME Good(State), Ready
  PROVE  /\ Live(State) /\ State \in StateType /\ pl \in PlType /\ ~pl.gone
         /\ pl.queue # <<>> => ctl.info # {}
         /\ \A p \in PlType : p.checker = pl.checker /\ ~p.gone /\ p.queue = pl.queue
              => Live([State EXCEPT !.pl = p])
<1>1. /\ State \in StateType /\ pl \in PlType /\ ~pl.gone
  BY StateFields DEF Ready
<1>2. Live(State) /\ Alive(State)
  BY <1>1, StateFields DEF Live, Good, WatchInv
<1>3. up # <<>> \/ pl.queue # <<>> => ctl.info # {}
  BY <1>2, StateFields DEF Alive
<1>4. ASSUME NEW p \in PlType, p.checker = pl.checker, ~p.gone, p.queue = pl.queue
      PROVE  Live([State EXCEPT !.pl = p])
  <2> DEFINE u == [State EXCEPT !.pl = p]
  <2>1. u \in StateType /\ u.pl = p /\ u.down = down /\ u.up = up /\ u.ctl = ctl
    BY <1>1, StateFields DEF StateType
  <2> HIDE DEF u
  <2>2. Live(u)
    BY <1>2, <1>3, <1>4, <2>1, StateFields, LiveFrame
  <2>3. QED BY <2>2 DEF u
<1>5. QED BY <1>1, <1>2, <1>3, <1>4

LEMMA UpdateEndGood ==
  ASSUME Good(State), UpdateEnd
  PROVE  Good(State)'
<1> DEFINE p == [pl EXCEPT !.queue = Tail(@), !.buf = @ \cup {Head(pl.queue)}]
           s == [State EXCEPT !.pl.queue = Tail(@), !.pl.buf = @ \cup {Head(pl.queue)}]
           u == IF Buffered(s, pl.cur) /\ RangeEnd(s) >= pl.cur + LazyMax /\ ~pl.checker
                THEN SuspendTransmuxer(s) ELSE s
<1>1. /\ Ready /\ pl.queue # <<>> /\ Become(u)
  BY Zenon DEF UpdateEnd
<1>2. /\ Live(State) /\ State \in StateType /\ pl \in PlType /\ ~pl.gone /\ ctl.info # {}
  BY <1>1, HandlerStart
<1>3. pl.queue \in Seq(Times) /\ pl.buf \subseteq Times
  BY <1>2 DEF PlType
<1>4. Tail(pl.queue) \in Seq(Times) /\ Head(pl.queue) \in Times
  BY <1>1, <1>3, HeadTailProperties
<1>5. p \in PlType /\ p.checker = pl.checker /\ ~p.gone
  BY <1>2, <1>3, <1>4 DEF PlType
<1>6. s \in StateType /\ s.pl = p /\ s.down = down /\ s.ctl = ctl
  <2>1. s = [State EXCEPT !.pl = p]
    BY <1>2, StateFields DEF StateType, PlType
  <2> HIDE DEF s, p
  <2>2. QED BY <1>2, <1>5, <2>1, StateFields DEF StateType
<1> HIDE DEF s, p
<1>7. Live(s)
  BY <1>2, <1>5, <1>6, StateFields, LiveFrame
<1>8. Live(u)
  BY <1>2, <1>6, <1>7, SuspendLive
<1>9. QED BY <1>1, <1>8, GoodNext DEF Good, Live

LEMMA TickGood ==
  ASSUME Good(State), Tick
  PROVE  Good(State)'
<1>1. Ready /\ Become(CheckProgressAndResume(State))
  BY DEF Tick
<1>2. Live(CheckProgressAndResume(State))
  BY <1>1, HandlerStart, CheckLive
<1>3. QED BY <1>1, <1>2, GoodNext DEF Good, Live

LEMMA SeekingGood ==
  ASSUME Good(State), Seeking
  PROVE  Good(State)'
<1> DEFINE p == [pl EXCEPT !.seeking = @ - 1]
           s == [State EXCEPT !.pl.seeking = @ - 1]
           s1 == [s EXCEPT !.pl.requested = FALSE]
           s2 == [s EXCEPT !.pl.record = TRUE]
           u == IF pl.requested THEN s1
                ELSE IF Buffered(s, pl.cur)
                THEN IF pl.checker THEN CheckProgressAndResume(s) ELSE s
                ELSE s2
<1>1. Ready /\ pl.seeking > 0 /\ Become(u)
  BY Zenon DEF Seeking
<1>2. State \in StateType /\ pl \in PlType /\ ~pl.gone
  BY <1>1, HandlerStart
<1>3. pl.seeking - 1 \in Nat
  BY <1>1, <1>2 DEF PlType
<1>4. p \in PlType /\ p.checker = pl.checker /\ ~p.gone /\ p.queue = pl.queue
  BY <1>2, <1>3 DEF PlType
<1>5. /\ s = [State EXCEPT !.pl = p]
      /\ s1 = [State EXCEPT !.pl = [p EXCEPT !.requested = FALSE]]
      /\ s2 = [State EXCEPT !.pl = [p EXCEPT !.record = TRUE]]
  BY <1>2, StateFields DEF StateType, PlType
<1> HIDE DEF p, s, s1, s2
<1>6. \A r \in {p, [p EXCEPT !.requested = FALSE], [p EXCEPT !.record = TRUE]} :
        r \in PlType /\ r.checker = pl.checker /\ ~r.gone /\ r.queue = pl.queue
  BY <1>4 DEF PlType
<1>7. Live(s) /\ Live(s1) /\ Live(s2)
  BY <1>1, <1>5, <1>6, HandlerStart
<1>8. Live(u)
  BY <1>7, CheckLive
<1>9. QED BY <1>1, <1>8, GoodNext DEF Good, Live

LEMMA ApplySeekpointGood ==
  ASSUME Good(State), ApplySeekpoint
  PROVE  Good(State)'
<1> DEFINE p == [pl EXCEPT !.record = FALSE]
           s == [State EXCEPT !.pl.record = FALSE]
           u == IF Buffered(s, pl.cur) THEN s ELSE SeekUnbuffered(s, pl.cur)
<1>1. Ready /\ Become(u)
  BY Zenon DEF ApplySeekpoint
<1>2. State \in StateType /\ pl \in PlType /\ ~pl.gone
  BY <1>1, HandlerStart
<1>3. p \in PlType /\ p.checker = pl.checker /\ ~p.gone /\ p.queue = pl.queue /\ pl.cur \in 0..End
  BY <1>2 DEF PlType
<1>4. s = [State EXCEPT !.pl = p]
  BY <1>2, StateFields DEF StateType, PlType
<1> HIDE DEF p, s
<1>5. Live(s)
  BY <1>1, <1>3, <1>4, HandlerStart
<1>6. Live(u)
  BY <1>3, <1>5, SeekLive
<1>7. QED BY <1>1, <1>6, GoodNext DEF Good, Live

LEMMA UserSeekGood ==
  ASSUME Good(State), NEW t \in Times, UserSeek(t)
  PROVE  Good(State)'
<1> DEFINE p == [pl EXCEPT !.seeks = @ + 1]
           s == [State EXCEPT !.pl.seeks = @ + 1]
<1>1. Ready /\ pl.seeks < MaxSeeks /\ (Become(SetTime(s, t)) \/ Become(InternalSeek(s, t)))
  BY Zenon DEF UserSeek
<1>2. State \in StateType /\ pl \in PlType /\ ~pl.gone
  BY <1>1, HandlerStart
<1>3. pl.seeks + 1 \in 0..MaxSeeks /\ t \in 0..End
  BY <1>1, <1>2, LazyAssumption, PartFacts DEF PlType
<1>4. p \in PlType /\ p.checker = pl.checker /\ ~p.gone /\ p.queue = pl.queue
  BY <1>2, <1>3 DEF PlType
<1>5. s = [State EXCEPT !.pl = p]
  BY <1>2, StateFields DEF StateType, PlType
<1> HIDE DEF p, s
<1>6. Live(s)
  BY <1>1, <1>4, <1>5, HandlerStart
<1>7. Live(SetTime(s, t)) /\ Live(InternalSeek(s, t))
  BY <1>3, <1>6, SetTimeLive, InternalSeekLive
<1>8. QED BY <1>1, <1>7, GoodNext DEF Good, Live

LEMMA PlayGood ==
  ASSUME Good(State), Play
  PROVE  Good(State)'
<1> DEFINE p == [pl EXCEPT !.cur = @ + 1]
           s == [State EXCEPT !.pl.cur = @ + 1]
<1>1. Ready /\ pl.cur + 1 \in pl.buf \cup {End} /\ Become(s)
  BY Zenon DEF Play
<1>2. State \in StateType /\ pl \in PlType /\ ~pl.gone
  BY <1>1, HandlerStart
<1>3. pl.cur + 1 \in 0..End
  BY <1>1, <1>2, PartFacts DEF PlType
<1>4. p \in PlType /\ p.checker = pl.checker /\ ~p.gone /\ p.queue = pl.queue
  BY <1>2, <1>3 DEF PlType
<1>5. s = [State EXCEPT !.pl = p]
  BY <1>2, StateFields DEF StateType, PlType
<1> HIDE DEF p, s
<1>6. Live(s)
  BY <1>1, <1>4, <1>5, HandlerStart
<1>7. QED BY <1>1, <1>6, GoodNext DEF Good, Live

LEMMA ResumeStuckGood ==
  ASSUME Good(State), ResumeStuckPlayback
  PROVE  Good(State)'
<1>1. Ready /\ pl.buf # {} /\ Become(RequestSetTime(State, Min(pl.buf)))
  BY DEF ResumeStuckPlayback
<1>2. Live(State) /\ pl.buf \subseteq Times
  BY <1>1, HandlerStart DEF PlType
<1>3. Min(pl.buf) \in 0..End
  <2>1. pl.buf \subseteq Nat
    BY <1>2, PartFacts
  <2>2. Min(pl.buf) \in pl.buf
    BY <1>1, <2>1, MinProp
  <2>3. QED BY <1>2, <2>2, PartFacts
<1>4. Live(RequestSetTime(State, Min(pl.buf)))
  BY <1>2, <1>3, SetTimeLive
<1>5. QED BY <1>1, <1>4, GoodNext DEF Good, Live

(* The page destroys the player: the last command posted says so.          *)
LEMMA DestroyGood ==
  ASSUME Good(State), Destroy
  PROVE  Good(State)'
<1> DEFINE v == Unload(State)
           u == DetachMediaElement(v)
           p == [NewPlayer EXCEPT !.gone = TRUE]
<1>1. Ready /\ Become(u)
  BY DEF Destroy
<1>2. /\ CtlOk(ctl) /\ LoadsKnown(ctl) /\ down \in Seq(Commands) /\ SeeksPlaced(down)
      /\ State \in StateType /\ State.up = up /\ (~worker => down = <<>>)
  BY StateFields DEF Good, WatchInv
<1>3. StopCmd \in Commands /\ DestroyCmd \in Commands /\ StopCmd.op = "stop" /\ DestroyCmd.op = "destroy"
  BY DEF StopCmd, DestroyCmd, Commands
<1>4. p \in PlType /\ p.gone
  <2>1. 0 \in 0..End /\ 0 \in 0..MaxSeeks /\ <<>> \in Seq(Times)
    BY PartFacts, LazyAssumption
  <2>2. QED BY <2>1 DEF NewPlayer, PlType
<1>5. CASE worker
  <2> DEFINE a == Append(down, StopCmd)
             d == Append(a, DestroyCmd)
  <2>1. v = [[State EXCEPT !.down = Append(@, StopCmd)] EXCEPT !.down = Append(@, DestroyCmd)]
    BY <1>5 DEF Unload, Command
  <2>2. a \in Seq(Commands)
    BY <1>2, <1>3, Posted
  <2>3. /\ d \in Seq(Commands) /\ Len(a) \in Nat /\ DOMAIN d = 1..(Len(a) + 1)
        /\ \A i \in 1..Len(a) : d[i] = a[i]
        /\ d[Len(a) + 1] = DestroyCmd
    <3> HIDE DEF a
    <3>1. QED BY <1>3, <2>2, Posted
  <2>4. SeeksPlaced(a)
    BY <1>2, <1>3, Posted DEF SeeksPlaced
  <2>5. DOMAIN a = 1..Len(a)
    BY <2>2, LenProperties
  <2>6. SeeksPlaced(d)
    <3> HIDE DEF a, d
    <3>1. QED BY <1>3, <2>3, <2>4, <2>5 DEF SeeksPlaced
  <2>7. /\ v \in StateType /\ v.down = d /\ v.ctl = ctl
    <3> DEFINE w == [State EXCEPT !.down = Append(@, StopCmd)]
    <3>1. w \in StateType /\ w.down = a /\ w.ctl = ctl
      <4>1. w = [State EXCEPT !.down = a]
        BY StateFields DEF StateType
      <4> HIDE DEF a, w
      <4>2. QED BY <1>2, <2>2, <4>1, StateFields DEF StateType
    <3>2. v = [w EXCEPT !.down = d]
      <4>1. v = [w EXCEPT !.down = Append(@, DestroyCmd)]
        BY <2>1
      <4> HIDE DEF a, w, v
      <4>2. QED BY <3>1, <4>1 DEF StateType
    <3> HIDE DEF a, d, w, v
    <3>3. QED BY <2>3, <3>1, <3>2 DEF StateType
  <2>8. u = [v EXCEPT !.pl = p]
    BY DEF DetachMediaElement
  <2> HIDE DEF a, d, v, u, p
  <2>9. u \in StateType /\ u.down = d /\ u.ctl = ctl /\ u.pl = p
    BY <1>4, <2>7, <2>8 DEF StateType
  <2>10. d # <<>> /\ d[Len(d)] = DestroyCmd
    <3>1. Len(d) = Len(a) + 1
      BY <2>3, LenProperties
    <3>2. d # <<>>
      BY <2>3, <3>1, EmptySeq
    <3>3. QED BY <2>3, <3>1, <3>2
  <2>11. Ended(u)
    BY <2>9, <2>10 DEF Ended
  <2>12. Good(u)
    BY <1>2, <1>4, <1>5, <2>6, <2>9, <2>11 DEF Good, Typed, WatchInv, CtlOk
  <2>13. QED BY <1>1, <2>12, GoodNext DEF u
<1>6. CASE ~worker
  <2>1. v = [[State EXCEPT !.ctl = Obeyed(@, StopCmd)] EXCEPT !.ctl = Obeyed(@, DestroyCmd)]
    BY <1>6 DEF Unload, Command
  <2>2. \A c : Obeyed(c, DestroyCmd) = CtlDestroy
    BY DEF Obeyed, DestroyCmd
  <2>3. CtlOk(Obeyed(ctl, StopCmd))
    BY <1>2, <1>3, ObeyedProp
  <2>4. v \in StateType /\ v.ctl = CtlDestroy /\ v.down = down
    <3> DEFINE w == [State EXCEPT !.ctl = Obeyed(@, StopCmd)]
    <3>1. w \in StateType /\ w.down = down
      BY <1>2, <2>3, StateFields DEF StateType, CtlOk
    <3>2. v = [w EXCEPT !.ctl = Obeyed(@, DestroyCmd)]
      BY <2>1
    <3> HIDE DEF w, v
    <3>3. v = [w EXCEPT !.ctl = CtlDestroy]
      BY <2>2, <3>1, <3>2 DEF StateType
    <3>4. QED BY <3>1, <3>3, NewControllerOk DEF StateType, CtlOk
  <2>5. u = [v EXCEPT !.pl = p]
    BY DEF DetachMediaElement
  <2> HIDE DEF v, u, p
  <2>6. u \in StateType /\ u.down = down /\ u.ctl = CtlDestroy /\ u.pl = p
    BY <1>4, <2>4, <2>5 DEF StateType
  <2>7. Ended(u) /\ LoadsKnown(u.ctl)
    BY <1>2, <1>6, <2>6, NewControllerOk DEF Ended, LoadsKnown
  <2>8. Good(u)
    BY <1>2, <1>4, <1>6, <2>6, <2>7, NewControllerOk DEF Good, Typed, WatchInv, CtlOk
  <2>9. QED BY <1>1, <2>8, GoodNext DEF u
<1>7. QED BY <1>5, <1>6

LEMMA TerminateWorkerGood ==
  ASSUME Good(State), TerminateWorker
  PROVE  Good(State)'
<1> DEFINE s == [State EXCEPT !.up = <<>>, !.down = <<>>, !.ctl = CtlDestroy]
<1>1. pl.gone /\ Become(s) /\ State \in StateType
  BY StateFields DEF TerminateWorker
<1>2. <<>> \in Seq(Commands) /\ <<>> \in Seq(Events) /\ DOMAIN <<>> = {}
  OBVIOUS
<1>3. s \in StateType /\ s.down = <<>> /\ s.ctl = CtlDestroy /\ s.pl = pl
  BY <1>1, <1>2, NewControllerOk, StateFields DEF StateType, CtlOk
<1> HIDE DEF s
<1>4. Ended(s) /\ LoadsKnown(s.ctl)
  BY <1>3, NewControllerOk DEF Ended, LoadsKnown
<1>5. SeeksPlaced(s.down)
  BY <1>2, <1>3 DEF SeeksPlaced
<1>6. Good(s)
  BY <1>1, <1>3, <1>4, <1>5, NewControllerOk DEF Good, Typed, WatchInv, CtlOk
<1>7. QED BY <1>1, <1>6, GoodNext

PlayerInv == worker \in BOOLEAN /\ Good(State)

LEMMA PlayerInvInit == Init => PlayerInv
<1> SUFFICES ASSUME Init PROVE worker \in BOOLEAN /\ Good(State)
  BY DEF PlayerInv
<1>1. /\ pl = NewPlayer /\ worker \in BOOLEAN /\ ctl = NewController /\ down = <<>> /\ up = <<>>
  BY LazyAssumption DEF Init, NewTransmuxer
<1>2. /\ 0 \in 0..End /\ 0 \in 0..MaxSeeks /\ <<>> \in Seq(Times)
      /\ <<>> \in Seq(Commands) /\ <<>> \in Seq(Events) /\ DOMAIN <<>> = {}
  BY PartFacts, LazyAssumption
<1>3. NewPlayer \in PlType /\ ~NewPlayer.gone /\ NewPlayer.queue = <<>>
  BY <1>2 DEF NewPlayer, PlType
<1>4. CtlOk(ctl) /\ LoadsKnown(ctl) /\ ~ctl.paused
  BY <1>1, NewControllerOk DEF LoadsKnown
<1>5. State \in StateType
  BY <1>1, <1>2, <1>3, <1>4 DEF State, StateType, CtlOk
<1>6. SeeksPlaced(State.down) /\ ~PausePosted(State.down)
  BY <1>1, <1>2, StateFields DEF SeeksPlaced, PausePosted
<1>7. Alive(State)
  BY <1>1, <1>2, <1>3, <1>4, <1>6, StateFields DEF Alive
<1>8. QED BY <1>1, <1>3, <1>4, <1>5, <1>6, <1>7, StateFields DEF Good, Typed, WatchInv, CtlOk

LEMMA PlayerInvStep ==
  ASSUME PlayerInv, [Next]_vars
  PROVE  PlayerInv'
<1> Good(State) /\ worker \in BOOLEAN
  BY DEF PlayerInv
<1>1. worker' = worker
  BY DEF Next, vars, Obey, Load, Metadata, Segment, PartComplete, Message, Deliver,
     TerminateWorker, UpdateEnd, Tick, Seeking, ApplySeekpoint, UserSeek, Play,
     ResumeStuckPlayback, Destroy, Become
<1>2. CASE UNCHANGED vars
  <2>1. Become(State)
    BY <1>2, StateFields DEF vars, Become
  <2>2. QED BY <1>1, <2>1, GoodNext DEF PlayerInv
<1>3. CASE Obey
  BY <1>1, <1>3, ObeyGood DEF PlayerInv
<1>4. CASE Load
  BY <1>1, <1>4, MetadataGood, SegmentGood, PartCompleteGood DEF PlayerInv, Load
<1>5. CASE Message
  BY <1>1, <1>5, DeliverGood, TerminateWorkerGood DEF PlayerInv, Message
<1>6. CASE UpdateEnd \/ Tick \/ Seeking \/ ApplySeekpoint
  BY <1>1, <1>6, UpdateEndGood, TickGood, SeekingGood, ApplySeekpointGood DEF PlayerInv
<1>7. ASSUME NEW t \in Times, UserSeek(t) PROVE PlayerInv'
  BY <1>1, <1>7, UserSeekGood DEF PlayerInv
<1>8. CASE Play \/ ResumeStuckPlayback \/ Destroy
  BY <1>1, <1>8, PlayGood, ResumeStuckGood, DestroyGood DEF PlayerInv
<1>9. QED BY <1>2, <1>3, <1>4, <1>5, <1>6, <1>7, <1>8 DEF Next

LEMMA GoodWatches ==
  ASSUME Good(State)
  PROVE  SuspendedIsWatched
<1> SUFFICES ASSUME ctl.paused, down = <<>>, ctl.pendSeek = None, ~pl.checker PROVE FALSE
  BY StateFields DEF SuspendedIsWatched, SeekForgotten, PlType
<1>1. ~pl.gone
  BY StateFields DEF Good, WatchInv, Ended
<1>2. LiftedAfter(down, 0)
  BY <1>1, StateFields DEF Good, WatchInv, Alive
<1>3. DOMAIN <<>> = {}
  OBVIOUS
<1>4. QED BY <1>2, <1>3 DEF LiftedAfter

(* What the player, the commands and events on their way and the           *)
(* controller may hold: in particular the loader reads inside the part it  *)
(* is at, after any seeks, and no seek posted lacks its place.             *)
THEOREM TypeCorrect == Spec => []TypeOK
<1>1. PlayerInv => TypeOK
  BY Typing DEF Good, PlayerInv
<1>2. QED BY <1>1, PlayerInvStep, PlayerInvInit, PTL DEF Spec

(* A loader that lazy loading has suspended has the player's interval      *)
(* watching it, in place or in a worker, unless a seek waits for a part's  *)
(* header: for any video, any parts and keyframes, any thresholds and any  *)
(* number of seeks and of messages on their way.                           *)
THEOREM SuspendedWatched == Spec => []SuspendedIsWatched
<1>1. PlayerInv => SuspendedIsWatched
  BY GoodWatches DEF PlayerInv
<1>2. QED BY <1>1, PlayerInvStep, PlayerInvInit, PTL DEF Spec
-----------------------------------------------------------------------------
(* The encoder's page: its types, and what pendingOutputs bounds.          *)

EncoderObj == [state : {"configured", "closed"}, inflight : Nat]

EncFields ==
  [starts : Nat, opening : Nat, configs : Nat, listeners : Nat, objs : Seq(EncoderObj),
   cur : Nat, pending : Int, keepGoing : BOOLEAN, loops : Nat, live : BOOLEAN,
   frames : 0..MaxFrames, skipped : Nat, before : Nat, stopped : Nat,
   stops : SUBSET [obj : Nat, rest : Nat]]

\* What an encoder has was read; a flush is one of an encoder that works.
EncSound(e) ==
  /\ e \in EncFields
  /\ \A k \in DOMAIN e.objs : e.objs[k].inflight <= e.frames
  /\ e.cur = Len(e.objs) /\ e.loops <= Len(e.objs)
  /\ \A s \in e.stops : s.obj \in DOMAIN e.objs /\ e.objs[s.obj].state = "configured"

\* Video: pendingOutputs falls with every output, so over what was there
\* before it is never less than what waits.  Audio: after a frame that was
\* left out the counter has room.
Counted(e) ==
  /\ IsFiniteSet(Waiting(e.objs))
  /\ track = "video" => InEncoders(e.objs) <= e.before + e.pending /\ e.pending <= 3
  /\ track = "audio" => e.pending <= 1 /\ e.skipped <= 1 /\ (e.skipped = 1 => e.pending <= 0)

EncInv == track \in {"video", "audio"} /\ EncSound(enc) /\ Counted(enc)

LEMMA WaitingHas ==
  ASSUME NEW objs, NEW p
  PROVE  p \in Waiting(objs) <=> \E k \in DOMAIN objs : \E n \in 1..objs[k].inflight : p = <<k, n>>
BY DEF Waiting

LEMMA ObjAt ==
  ASSUME NEW objs \in Seq(EncoderObj), NEW k \in DOMAIN objs
  PROVE  objs[k] \in EncoderObj /\ objs[k].inflight \in Nat
<1>1. objs[k] \in EncoderObj
  OBVIOUS
<1>2. QED BY <1>1 DEF EncoderObj

\* A frame that encoder k takes is one more that waits.
LEMMA WaitsMore ==
  ASSUME NEW objs \in Seq(EncoderObj), NEW k \in DOMAIN objs, IsFiniteSet(Waiting(objs)),
         NEW new, DOMAIN new = DOMAIN objs, new[k].inflight = objs[k].inflight + 1,
         \A j \in DOMAIN objs : j # k => new[j].inflight = objs[j].inflight
  PROVE  IsFiniteSet(Waiting(new)) /\ InEncoders(new) = InEncoders(objs) + 1
<1> DEFINE p == <<k, objs[k].inflight + 1>>
<1>1. objs[k].inflight \in Nat
  BY ObjAt
<1>2. DOMAIN new = DOMAIN objs /\ new[k].inflight = objs[k].inflight + 1
      /\ \A j \in DOMAIN objs : j # k => new[j].inflight = objs[j].inflight
  OBVIOUS
<1>3. \A j \in DOMAIN objs : objs[j].inflight \in Nat
  BY ObjAt
<1>4. p \notin Waiting(objs)
  <2>1. \A j, n : p = <<j, n>> => j = k /\ n = objs[k].inflight + 1
    OBVIOUS
  <2>2. objs[k].inflight + 1 \notin 1..objs[k].inflight
    BY <1>1
  <2>3. QED BY <2>1, <2>2, WaitingHas
<1>5. \A q : q \in Waiting(new) <=> q \in Waiting(objs) \cup {p}
  <2> SUFFICES ASSUME NEW q PROVE q \in Waiting(new) <=> q \in Waiting(objs) \cup {p}
    OBVIOUS
  <2>1. ASSUME q \in Waiting(new) PROVE q \in Waiting(objs) \cup {p}
    <3>0. PICK j \in DOMAIN new : \E n \in 1..new[j].inflight : q = <<j, n>>
      BY ONLY <2>1, WaitingHas
    <3>1. j \in DOMAIN objs
      BY <1>2
    <3>2. PICK n \in 1..new[j].inflight : q = <<j, n>>
      BY <3>0
    <3>3. CASE n \in 1..objs[j].inflight
      BY <3>1, <3>2, <3>3, WaitingHas
    <3>4. CASE n \notin 1..objs[j].inflight
      <4>1. j = k
        BY <3>1, <3>4, <1>2
      <4>2. n = objs[k].inflight + 1
        BY <3>4, <4>1, <1>1, <1>2
      <4>3. QED BY <3>2, <4>1, <4>2
    <3>5. QED BY <3>3, <3>4
  <2>2. ASSUME q \in Waiting(objs) PROVE q \in Waiting(new)
    <3>1. PICK j \in DOMAIN objs : \E n \in 1..objs[j].inflight : q = <<j, n>>
      BY <2>2, WaitingHas
    <3>2. PICK n \in 1..objs[j].inflight : q = <<j, n>>
      BY <3>1
    <3>3. n \in 1..new[j].inflight
      BY <1>1, <1>2, <1>3
    <3>4. QED BY <3>2, <3>3, <1>2, WaitingHas
  <2>3. p \in Waiting(new)
    <3>1. objs[k].inflight + 1 \in 1..new[k].inflight
      BY <1>1, <1>2
    <3>2. QED BY <3>1, <1>2, WaitingHas
  <2>4. QED BY <2>1, <2>2, <2>3
<1>6. Waiting(new) = Waiting(objs) \cup {p}
  BY <1>5
<1>7. QED BY <1>4, <1>6, FS_AddElement DEF InEncoders

\* A chunk that encoder k gives is for one that waits.
LEMMA WaitsLess ==
  ASSUME NEW objs \in Seq(EncoderObj), NEW k \in DOMAIN objs, IsFiniteSet(Waiting(objs)),
         objs[k].inflight > 0, NEW new, new = [objs EXCEPT ![k].inflight = @ - 1]
  PROVE  IsFiniteSet(Waiting(new)) /\ InEncoders(new) = InEncoders(objs) - 1
<1>1. objs[k].inflight \in Nat \ {0}
  BY ObjAt
<1>2. DOMAIN new = DOMAIN objs /\ new[k].inflight = objs[k].inflight - 1
      /\ \A j \in DOMAIN objs : j # k => new[j].inflight = objs[j].inflight
  BY ObjAt DEF EncoderObj
<1>3. new \in Seq(EncoderObj)
  <2>1. [objs[k] EXCEPT !.inflight = @ - 1] \in EncoderObj
    <3>1. objs[k] \in EncoderObj
      BY ObjAt
    <3>2. QED BY <1>1, <3>1 DEF EncoderObj
  <2>2. QED BY <2>1
<1>4. IsFiniteSet(Waiting(new))
  <2>1. \A j \in DOMAIN objs : 1..new[j].inflight \subseteq 1..objs[j].inflight
    BY <1>1, <1>2
  <2>2. Waiting(new) \subseteq Waiting(objs)
    BY <2>1, <1>2 DEF Waiting
  <2>3. QED BY <2>2, FS_Subset
<1>5. objs[k].inflight = new[k].inflight + 1
  BY <1>1, <1>2
<1>6. InEncoders(objs) = InEncoders(new) + 1
  BY <1>2, <1>3, <1>4, <1>5, WaitsMore
<1>7. InEncoders(new) \in Nat
  BY <1>4, FS_CardinalityType DEF InEncoders
<1>8. QED BY <1>4, <1>6, <1>7

\* What a closed encoder had does not wait any more; a new one has nothing.
LEMMA WaitsNoMore ==
  ASSUME NEW objs \in Seq(EncoderObj), NEW k \in DOMAIN objs, IsFiniteSet(Waiting(objs)),
         NEW new, new = [objs EXCEPT ![k] = [state |-> "closed", inflight |-> 0]]
  PROVE  IsFiniteSet(Waiting(new)) /\ InEncoders(new) <= InEncoders(objs)
<1>1. DOMAIN new = DOMAIN objs /\ new[k].inflight = 0
      /\ \A j \in DOMAIN objs : j # k => new[j].inflight = objs[j].inflight
  OBVIOUS
<1>2. \A j \in DOMAIN objs : 1..new[j].inflight \subseteq 1..objs[j].inflight
  BY <1>1
<1>3. Waiting(new) \subseteq Waiting(objs)
  BY <1>1, <1>2 DEF Waiting
<1>4. QED BY <1>3, FS_Subset DEF InEncoders

LEMMA WaitsNew ==
  ASSUME NEW objs \in Seq(EncoderObj), IsFiniteSet(Waiting(objs)),
         NEW new, new = Append(objs, [state |-> "configured", inflight |-> 0])
  PROVE  IsFiniteSet(Waiting(new)) /\ InEncoders(new) = InEncoders(objs)
<1> DEFINE l == Len(objs)
<1>1. l \in Nat /\ DOMAIN objs = 1..l /\ DOMAIN new = 1..(l + 1) /\ new[l + 1].inflight = 0
      /\ \A j \in 1..l : new[j] = objs[j]
  OBVIOUS
<1> HIDE DEF l
<1>2. \A q : q \in Waiting(new) <=> q \in Waiting(objs)
  <2> SUFFICES ASSUME NEW q PROVE q \in Waiting(new) <=> q \in Waiting(objs)
    OBVIOUS
  <2>1. ASSUME q \in Waiting(new) PROVE q \in Waiting(objs)
    <3>1. PICK j \in DOMAIN new : \E n \in 1..new[j].inflight : q = <<j, n>>
      BY ONLY <2>1, WaitingHas
    <3>2. j \in 1..l
      BY <1>1, <3>1
    <3>3. QED BY <1>1, <3>1, <3>2, WaitingHas
  <2>2. ASSUME q \in Waiting(objs) PROVE q \in Waiting(new)
    <3>1. PICK j \in DOMAIN objs : \E n \in 1..objs[j].inflight : q = <<j, n>>
      BY <2>2, WaitingHas
    <3>2. j \in DOMAIN new /\ new[j] = objs[j]
      BY <1>1, <3>1
    <3>3. QED BY <3>1, <3>2, WaitingHas
  <2>3. QED BY <2>1, <2>2
<1>3. Waiting(new) = Waiting(objs)
  BY <1>2
<1>4. QED BY <1>3 DEF InEncoders

LEMMA EncFacts ==
  ASSUME EncInv
  PROVE  /\ enc \in EncFields /\ enc.objs \in Seq(EncoderObj) /\ DOMAIN enc.objs = 1..Len(enc.objs)
         /\ enc.starts \in Nat /\ enc.opening \in Nat /\ enc.configs \in Nat /\ enc.listeners \in Nat
         /\ enc.cur \in Nat /\ enc.pending \in Int /\ enc.loops \in Nat /\ enc.frames \in 0..MaxFrames
         /\ enc.skipped \in Nat /\ enc.before \in Nat /\ enc.stopped \in Nat
         /\ enc.stops \in SUBSET [obj : Nat, rest : Nat]
         /\ enc.keepGoing \in BOOLEAN /\ enc.live \in BOOLEAN
         /\ enc.frames \in Nat /\ MaxFrames \in Nat /\ InEncoders(enc.objs) \in Nat /\ Len(enc.objs) \in Nat
<1>1. EncSound(enc) /\ IsFiniteSet(Waiting(enc.objs))
  BY DEF EncInv, Counted
<1>2. InEncoders(enc.objs) \in Nat
  BY <1>1, FS_CardinalityType DEF InEncoders
<1>3. enc \in EncFields
  BY <1>1 DEF EncSound
<1>4. enc.objs \in Seq(EncoderObj)
  BY <1>3 DEF EncFields
<1>5. MaxFrames \in Nat
  BY EncoderAssumption
<1>6. QED BY <1>2, <1>3, <1>4, <1>5 DEF EncFields

\* The steps that touch no encoder, no flush and neither counter.
LEMMA ClicksAndAnswers ==
  ASSUME EncInv, StartEncoding \/ SocketOpen \/ NotSupported \/ TrackEnds
  PROVE  EncInv'
<1>1. track' = track
  BY DEF StartEncoding, SocketOpen, NotSupported, TrackEnds
<1>2. enc' \in EncFields
  <2> DEFINE s1 == enc.starts + 1
             o1 == enc.opening + 1
             o0 == enc.opening - 1
             c1 == enc.configs + 1
             c0 == enc.configs - 1
             n1 == enc.listeners + 1
  <2>0. /\ enc \in EncFields /\ s1 \in Nat /\ o1 \in Nat /\ c1 \in Nat /\ n1 \in Nat
        /\ (enc.opening > 0 => o0 \in Nat) /\ (enc.configs > 0 => c0 \in Nat)
    <3>1. enc \in EncFields
      BY EncFacts
    <3>2. enc.starts \in Nat /\ enc.opening \in Nat /\ enc.configs \in Nat /\ enc.listeners \in Nat
      BY EncFacts
    <3>3. QED BY ONLY <3>1, <3>2
  <2>1. CASE StartEncoding
    <3>1. enc' = [enc EXCEPT !.starts = s1, !.opening = o1]
      BY <2>1 DEF StartEncoding
    <3> HIDE DEF s1, o1
    <3>2. QED BY ONLY <2>0, <3>1 DEF EncFields
  <2>2. CASE SocketOpen
    <3>1. enc' = [enc EXCEPT !.opening = o0, !.configs = c1, !.listeners = n1] /\ o0 \in Nat
      BY <2>0, <2>2 DEF SocketOpen
    <3> HIDE DEF o0, c1, n1
    <3>2. QED BY ONLY <2>0, <3>1 DEF EncFields
  <2>3. CASE NotSupported
    <3>1. enc' = [enc EXCEPT !.configs = c0] /\ c0 \in Nat
      BY <2>0, <2>3 DEF NotSupported
    <3> HIDE DEF c0
    <3>2. QED BY ONLY <2>0, <3>1 DEF EncFields
  <2>4. CASE TrackEnds
    BY ONLY <2>0, <2>4 DEF EncFields, TrackEnds
  <2>5. QED BY <2>1, <2>2, <2>3, <2>4
<1>3. /\ enc'.objs = enc.objs /\ enc'.cur = enc.cur /\ enc'.stops = enc.stops
      /\ enc'.pending = enc.pending /\ enc'.skipped = enc.skipped /\ enc'.before = enc.before
      /\ enc'.frames = enc.frames /\ (enc'.loops = enc.loops \/ enc'.loops = 0)
  BY EncFacts DEF EncFields, StartEncoding, SocketOpen, NotSupported, TrackEnds
<1>4. EncSound(enc')
  BY <1>2, <1>3, EncFacts DEF EncInv, EncSound
<1>5. Counted(enc)'
  BY <1>1, <1>3 DEF EncInv, Counted
<1>6. QED BY <1>1, <1>4, <1>5 DEF EncInv, EncSound

LEMMA NewEncoder ==
  ASSUME EncInv, Configured
  PROVE  EncInv'
<1> DEFINE o == [state |-> "configured", inflight |-> 0]
           l == Len(enc.objs)
<1>1. o \in EncoderObj
  BY DEF EncoderObj
<1>2. /\ enc'.objs = Append(enc.objs, o) /\ enc'.cur = l + 1 /\ enc'.stops = enc.stops
      /\ enc'.pending = 0 /\ enc'.skipped = enc.skipped /\ enc'.before = InEncoders(enc.objs)
      /\ enc'.frames = enc.frames /\ (enc'.loops = enc.loops \/ enc'.loops = enc.loops + 1)
      /\ track' = track
  BY EncFacts DEF EncFields, Configured
<1>3. enc'.objs \in Seq(EncoderObj) /\ Len(enc'.objs) = l + 1 /\ DOMAIN enc'.objs = 1..(l + 1)
      /\ enc'.objs[l + 1] = o /\ \A k \in 1..l : enc'.objs[k] = enc.objs[k]
  BY <1>1, <1>2, EncFacts
<1>4. enc' \in EncFields
  <2> DEFINE objs == Append(enc.objs, o)
             b == InEncoders(enc.objs)
             m == IF enc.live THEN enc.loops + 1 ELSE enc.loops
             c == l + 1
             a == enc.configs - 1
             z == 0
  <2>1. objs \in Seq(EncoderObj) /\ b \in Nat /\ c \in Nat /\ m \in Nat
    <3>1. objs \in Seq(EncoderObj)
      BY <1>2, <1>3
    <3>2. b \in Nat /\ l \in Nat /\ enc.loops \in Nat
      BY EncFacts
    <3> HIDE DEF objs, b, l
    <3>3. QED BY ONLY <3>1, <3>2
  <2>2. enc' = [enc EXCEPT !.configs = a, !.pending = z, !.keepGoing = TRUE, !.objs = objs,
                           !.cur = c, !.before = b, !.loops = m]
    BY DEF Configured
  <2>3. a \in Nat /\ z \in Int
    BY EncFacts DEF Configured
  <2> HIDE DEF objs, a, b, c, m, o, l, z
  <2>4. enc \in EncFields
    BY EncFacts
  <2>5. QED BY ONLY <2>1, <2>2, <2>3, <2>4 DEF EncFields
<1>5. EncSound(enc)
  BY DEF EncInv
<1>6. EncSound(enc')
  <2>1. o.inflight = 0
    OBVIOUS
  <2> HIDE DEF o
  <2>2. \A k \in 1..(l + 1) : enc'.objs[k].inflight <= enc'.frames
    <3> SUFFICES ASSUME NEW k \in 1..(l + 1) PROVE enc'.objs[k].inflight <= enc'.frames
      OBVIOUS
    <3>1. CASE k \in 1..l
      BY <3>1, <1>2, <1>3, <1>5, EncFacts DEF EncSound
    <3>2. CASE k = l + 1
      BY <3>2, <2>1, <1>2, <1>3, EncFacts
    <3>3. QED BY <3>1, <3>2, EncFacts
  <2>3. \A s \in enc.stops : s.obj \in 1..(l + 1) /\ enc'.objs[s.obj].state = "configured"
    <3>1. \A s \in enc.stops : s.obj \in 1..l /\ enc.objs[s.obj].state = "configured"
      BY <1>5, EncFacts DEF EncSound
    <3> HIDE DEF l
    <3>2. l \in Nat
      BY EncFacts DEF l
    <3>3. QED BY <3>1, <3>2, <1>3
  <2>4. enc'.loops <= l + 1
    BY <1>2, <1>5, EncFacts DEF EncSound
  <2>5. QED BY <1>2, <1>3, <1>4, <2>2, <2>3, <2>4 DEF EncSound
<1>7. IsFiniteSet(Waiting(enc'.objs)) /\ InEncoders(enc'.objs) = InEncoders(enc.objs)
  BY <1>2, EncFacts, WaitsNew DEF EncInv, Counted
<1>8. Counted(enc)'
  <2> HIDE DEF o, l
  <2>1. enc'.pending = 0 /\ (track = "audio" => enc'.skipped <= 1)
    BY <1>2 DEF EncInv, Counted
  <2>2. enc'.before + enc'.pending = InEncoders(enc'.objs)
    BY <1>2, <1>7, EncFacts
  <2>3. QED BY <1>2, <1>7, <2>1, <2>2, EncFacts DEF Counted
<1>9. QED BY <1>2, <1>6, <1>8 DEF EncInv, EncSound

\* A frame that was read and is left out.
LEMMA FrameSkipped ==
  ASSUME EncInv, NEW p \in Int, NEW n \in Nat, FrameRead, track' = track,
         enc' = [enc EXCEPT !.frames = @ + 1, !.pending = p, !.skipped = n],
         track = "video" => p = enc.pending,
         track = "audio" => p <= 1 /\ n <= 1 /\ (n = 1 => p <= 0)
  PROVE  EncInv'
<1>1. enc.frames + 1 \in 0..MaxFrames
  <2>1. enc.frames \in Nat /\ MaxFrames \in Nat
    BY EncFacts
  <2>2. enc.frames < MaxFrames
    BY DEF FrameRead
  <2>3. QED BY ONLY <2>1, <2>2
<1>2. enc' \in EncFields
  BY <1>1, EncFacts DEF EncFields
<1>3. /\ enc'.objs = enc.objs /\ enc'.cur = enc.cur /\ enc'.stops = enc.stops /\ enc'.pending = p
      /\ enc'.skipped = n /\ enc'.before = enc.before /\ enc'.frames = enc.frames + 1 /\ enc'.loops = enc.loops
  BY EncFacts DEF EncFields
<1>4. \A k \in DOMAIN enc.objs : enc.objs[k].inflight \in Nat
  BY ObjAt, EncFacts
<1>5. EncSound(enc')
  <2>1. \A k \in DOMAIN enc.objs : enc.objs[k].inflight <= enc.frames + 1
    <3>1. enc.frames \in Nat /\ \A k \in DOMAIN enc.objs : enc.objs[k].inflight <= enc.frames
      BY EncFacts DEF EncInv, EncSound
    <3>2. QED BY ONLY <3>1, <1>4
  <2>2. QED BY <1>2, <1>3, <2>1, EncFacts DEF EncInv, EncSound
<1>6. Counted(enc)'
  BY <1>3 DEF EncInv, Counted
<1>7. QED BY <1>5, <1>6 DEF EncInv, EncSound

LEMMA FrameEncoded ==
  ASSUME EncInv, FrameRead, Able, track' = track,
         enc' = Encode([enc EXCEPT !.frames = @ + 1]),
         track = "video" => enc.pending <= 2, track = "audio" => enc.pending < 1
  PROVE  EncInv'
<1> DEFINE c == enc.cur
           o == [enc.objs[c] EXCEPT !.inflight = @ + 1]
           objs == [enc.objs EXCEPT ![c] = o]
<1>1. c \in DOMAIN enc.objs
  BY EncFacts DEF FrameRead, EncInv, EncSound
<1>2. enc.objs[c].inflight \in Nat /\ o \in EncoderObj /\ o.inflight = enc.objs[c].inflight + 1
      /\ o.state = enc.objs[c].state
  <2> DEFINE b == enc.objs[c]
  <2>1. b \in EncoderObj /\ b.inflight \in Nat
    BY <1>1, EncFacts, ObjAt
  <2> HIDE DEF b
  <2>2. QED BY <2>1 DEF EncoderObj, b
<1>3. enc' = [enc EXCEPT !.frames = @ + 1, !.pending = @ + 1, !.objs = objs, !.skipped = 0]
  BY DEF Encode
<1>4. objs \in Seq(EncoderObj) /\ DOMAIN objs = DOMAIN enc.objs /\ Len(objs) = Len(enc.objs)
      /\ objs[c] = o /\ \A j \in DOMAIN enc.objs : j # c => objs[j] = enc.objs[j]
  <2>1. enc.objs \in Seq(EncoderObj)
    BY EncFacts
  <2> HIDE DEF o, c
  <2>2. QED BY ONLY <2>1, <1>1, <1>2 DEF objs
<1>5. \A j \in DOMAIN enc.objs : j # c => objs[j].inflight = enc.objs[j].inflight
  BY <1>4
<1>6. \A j \in DOMAIN enc.objs : enc.objs[j].inflight \in Nat
  BY ObjAt, EncFacts
<1> HIDE DEF o, objs
<1>7. IsFiniteSet(Waiting(objs)) /\ InEncoders(objs) = InEncoders(enc.objs) + 1
  BY <1>1, <1>2, <1>4, <1>5, EncFacts, WaitsMore DEF EncInv, Counted
<1>8. enc.frames + 1 \in 0..MaxFrames
  <2>1. enc.frames \in Nat /\ MaxFrames \in Nat
    BY EncFacts
  <2>2. enc.frames < MaxFrames
    BY DEF FrameRead
  <2>3. QED BY ONLY <2>1, <2>2
<1>9. enc' \in EncFields
  <2>1. enc \in EncFields /\ enc.pending + 1 \in Int
    BY EncFacts
  <2>2. QED BY ONLY <1>3, <1>4, <1>8, <2>1 DEF EncFields
<1>10. /\ enc'.objs = objs /\ enc'.cur = c /\ enc'.stops = enc.stops /\ enc'.pending = enc.pending + 1
       /\ enc'.skipped = 0 /\ enc'.before = enc.before /\ enc'.frames = enc.frames + 1 /\ enc'.loops = enc.loops
  BY <1>3, EncFacts DEF EncFields
<1>11. EncSound(enc')
  <2>1. \A k \in DOMAIN objs : objs[k].inflight <= enc.frames + 1
    <3>1. enc.frames \in Nat /\ \A k \in DOMAIN enc.objs : enc.objs[k].inflight <= enc.frames
      BY EncFacts DEF EncInv, EncSound
    <3>2. objs[c].inflight = enc.objs[c].inflight + 1
      BY <1>2, <1>4
    <3> HIDE DEF c
    <3>3. QED BY ONLY <3>1, <3>2, <1>1, <1>4, <1>5, <1>6
  <2>2. \A s \in enc.stops : s.obj \in DOMAIN objs /\ objs[s.obj].state = "configured"
    BY <1>1, <1>2, <1>4 DEF EncInv, EncSound
  <2>3. enc.cur = Len(objs) /\ enc.loops <= Len(objs)
    BY <1>4 DEF EncInv, EncSound
  <2>4. QED BY <1>9, <1>10, <2>1, <2>2, <2>3 DEF EncSound
<1>12. Counted(enc)'
  <2> DEFINE i == InEncoders(enc.objs)
             j == InEncoders(objs)
             p == enc.pending
             b == enc.before
  <2>1. i \in Nat /\ p \in Int /\ b \in Nat
    BY EncFacts
  <2>2. track = "video" => i <= b + p /\ p <= 2
    BY DEF EncInv, Counted
  <2>3. IsFiniteSet(Waiting(enc'.objs)) /\ InEncoders(enc'.objs) = j /\ enc'.pending = p + 1
        /\ enc'.before = b /\ enc'.skipped = 0 /\ j = i + 1
    BY <1>7, <1>10
  <2>4. track = "audio" => p < 1
    OBVIOUS
  <2> HIDE DEF i, j, p, b
  <2>5. (track = "video" => j <= b + (p + 1) /\ p + 1 <= 3) /\ (track = "audio" => p + 1 <= 1)
    BY <2>1, <2>2, <2>3, <2>4
  <2>6. QED BY <2>3, <2>5 DEF Counted
<1>13. QED BY <1>11, <1>12 DEF EncInv, EncSound

LEMMA FrameReadStep ==
  ASSUME EncInv, ReadVideoFrame \/ ReadAudioFrame
  PROVE  EncInv'
<1> DEFINE f == [enc EXCEPT !.frames = @ + 1]
           g == [f EXCEPT !.pending = @ - 1]
           n == IF Able THEN enc.skipped + 1 ELSE 0
<1>1. track' = track /\ FrameRead
  BY DEF ReadVideoFrame, ReadAudioFrame
<1>2. n \in Nat /\ enc.pending \in Int /\ enc.pending - 1 \in Int
  <2>1. enc.skipped \in Nat /\ enc.pending \in Int
    BY EncFacts
  <2>2. QED BY <2>1
<1>3. enc \in EncFields
  BY EncFacts
<1>4. Skip(f) = [enc EXCEPT !.frames = @ + 1, !.pending = enc.pending, !.skipped = n]
  BY <1>3 DEF Skip, EncFields
<1>5. Skip(g) = [enc EXCEPT !.frames = @ + 1, !.pending = enc.pending - 1, !.skipped = n]
  BY <1>3 DEF Skip, EncFields
<1>6. CASE ReadVideoFrame
  <2>1. track = "video" /\ enc' = IF Able /\ enc.pending <= 2 THEN Encode(f) ELSE Skip(f)
    BY <1>6 DEF ReadVideoFrame
  <2> HIDE DEF n
  <2>2. CASE Able /\ enc.pending <= 2
    BY <1>1, <2>1, <2>2, FrameEncoded
  <2>3. CASE ~(Able /\ enc.pending <= 2)
    <3> DEFINE p == enc.pending
    <3>1. /\ p \in Int /\ FrameRead /\ track' = track
          /\ enc' = [enc EXCEPT !.frames = @ + 1, !.pending = p, !.skipped = n]
          /\ track = "video" => p = enc.pending
          /\ track = "audio" => p <= 1 /\ n <= 1 /\ (n = 1 => p <= 0)
      BY <1>1, <1>2, <1>4, <2>1, <2>3
    <3> HIDE DEF p
    <3>2. QED BY <1>2, <3>1, FrameSkipped
  <2>4. QED BY <2>2, <2>3
<1>7. CASE ReadAudioFrame
  <2>1. track = "audio" /\ enc' = IF Able /\ enc.pending < 1 THEN Encode(f) ELSE Skip(g)
    BY <1>7 DEF ReadAudioFrame
  <2>2. CASE Able /\ enc.pending < 1
    BY <1>1, <2>1, <2>2, FrameEncoded
  <2>3. CASE ~(Able /\ enc.pending < 1)
    <3> DEFINE p == enc.pending - 1
    <3>1. enc.pending <= 1 /\ enc.skipped <= 1 /\ (enc.skipped = 1 => enc.pending <= 0)
      BY <2>1 DEF EncInv, Counted
    <3>2. enc.skipped \in Nat /\ enc.pending \in Int
      BY EncFacts
    <3>3. p <= 1 /\ n <= 1 /\ (n = 1 => p <= 0)
      BY <2>3, <3>1, <3>2
    <3>4. /\ p \in Int /\ FrameRead /\ track' = track
          /\ enc' = [enc EXCEPT !.frames = @ + 1, !.pending = p, !.skipped = n]
          /\ track = "video" => p = enc.pending
      BY <1>1, <1>2, <1>5, <2>1, <2>3
    <3> HIDE DEF p, n
    <3>5. QED BY <1>2, <3>3, <3>4, FrameSkipped
  <2>4. QED BY <2>2, <2>3
<1>8. QED BY <1>6, <1>7

\* An output of encoder k: its flushes have one less to wait for.
LEMMA OutputStep ==
  ASSUME EncInv, NEW k \in DOMAIN enc.objs, Output(k)
  PROVE  EncInv'
<1> DEFINE b == enc.objs[k]
           o == [b EXCEPT !.inflight = @ - 1]
           objs == [enc.objs EXCEPT ![k] = o]
           p == enc.pending - (IF track = "video" THEN 1 ELSE 5)
           Less(s) == IF s.obj = k /\ s.rest > 0 THEN [s EXCEPT !.rest = @ - 1] ELSE s
           stops == {Less(s) : s \in enc.stops}
<1>1. b \in EncoderObj /\ b.inflight \in Nat \ {0}
  BY EncFacts, ObjAt DEF Output
<1>2. o \in EncoderObj /\ o.inflight = b.inflight - 1 /\ o.state = b.state
  <2> HIDE DEF b
  <2>1. QED BY <1>1 DEF EncoderObj
<1>3. enc' = [enc EXCEPT !.objs = objs, !.pending = p, !.stops = stops] /\ track' = track
  BY DEF Output
<1>4. objs \in Seq(EncoderObj) /\ DOMAIN objs = DOMAIN enc.objs /\ Len(objs) = Len(enc.objs)
      /\ objs[k] = o /\ \A j \in DOMAIN enc.objs : j # k => objs[j] = enc.objs[j]
  <2>1. enc.objs \in Seq(EncoderObj)
    BY EncFacts
  <2> HIDE DEF o, b
  <2>2. QED BY ONLY <2>1, <1>2 DEF objs
<1>5. IsFiniteSet(Waiting(objs)) /\ InEncoders(objs) = InEncoders(enc.objs) - 1
  <2>1. enc.objs \in Seq(EncoderObj) /\ IsFiniteSet(Waiting(enc.objs)) /\ enc.objs[k].inflight > 0
    BY <1>1, EncFacts DEF EncInv, Counted
  <2>2. objs = [enc.objs EXCEPT ![k].inflight = @ - 1]
    OBVIOUS
  <2> HIDE DEF objs
  <2>3. QED BY ONLY <2>1, <2>2, k \in DOMAIN enc.objs, WaitsLess
<1>6. \A s \in enc.stops : Less(s) \in [obj : Nat, rest : Nat] /\ Less(s).obj = s.obj
  <2> SUFFICES ASSUME NEW s \in enc.stops
               PROVE  Less(s) \in [obj : Nat, rest : Nat] /\ Less(s).obj = s.obj
    OBVIOUS
  <2>1. s \in [obj : Nat, rest : Nat]
    BY EncFacts
  <2>2. QED BY ONLY <2>1
<1>7. p \in Int
  BY EncFacts
<1> HIDE DEF o, objs, p, Less
<1>8. enc' \in EncFields
  <2>1. stops \in SUBSET [obj : Nat, rest : Nat]
    BY <1>6
  <2>2. enc \in EncFields
    BY EncFacts
  <2> HIDE DEF stops
  <2>3. QED BY ONLY <1>3, <1>4, <1>7, <2>1, <2>2 DEF EncFields
<1>9. /\ enc'.objs = objs /\ enc'.cur = enc.cur /\ enc'.stops = stops /\ enc'.pending = p
      /\ enc'.skipped = enc.skipped /\ enc'.before = enc.before /\ enc'.frames = enc.frames
      /\ enc'.loops = enc.loops
  BY <1>3, EncFacts DEF EncFields
<1>10. EncSound(enc')
  <2>1. \A j \in DOMAIN objs : objs[j].inflight <= enc.frames
    <3>1. enc.frames \in Nat /\ \A j \in DOMAIN enc.objs : enc.objs[j].inflight <= enc.frames
      BY EncFacts DEF EncInv, EncSound
    <3>2. QED BY <3>1, <1>1, <1>2, <1>4
  <2>2. \A s \in stops : s.obj \in DOMAIN objs /\ objs[s.obj].state = "configured"
    <3>1. \A s \in enc.stops : s.obj \in DOMAIN objs /\ objs[s.obj].state = "configured"
      BY <1>2, <1>4 DEF EncInv, EncSound
    <3>2. QED BY <3>1, <1>6
  <2>3. enc.cur = Len(objs) /\ enc.loops <= Len(objs)
    BY <1>4 DEF EncInv, EncSound
  <2>4. QED BY <1>8, <1>9, <2>1, <2>2, <2>3 DEF EncSound
<1>11. Counted(enc)'
  <2> DEFINE i == InEncoders(enc.objs)
             j == InEncoders(objs)
             q == enc.pending
             c == enc.before
  <2>1. i \in Nat /\ q \in Int /\ c \in Nat
    BY EncFacts
  <2>2. /\ track = "video" => i <= c + q /\ q <= 3
        /\ track = "audio" => q <= 1 /\ enc.skipped <= 1 /\ (enc.skipped = 1 => q <= 0)
    BY DEF EncInv, Counted
  <2>3. p = q - (IF track = "video" THEN 1 ELSE 5)
    BY DEF p
  <2>4. IsFiniteSet(Waiting(enc'.objs)) /\ InEncoders(enc'.objs) = j /\ enc'.pending = p
        /\ enc'.before = c /\ enc'.skipped = enc.skipped /\ j = i - 1
    BY <1>5, <1>9
  <2> HIDE DEF i, j, q, c
  <2>5. /\ track = "video" => j <= c + p /\ p <= 3
        /\ track = "audio" => p <= 1 /\ (enc.skipped = 1 => p <= 0)
    BY <2>1, <2>2, <2>3, <2>4
  <2>6. QED BY <1>3, <2>2, <2>4, <2>5 DEF Counted
<1>12. QED BY <1>3, <1>10, <1>11 DEF EncInv, EncSound

LEMMA Closes ==
  ASSUME EncInv, NEW k \in DOMAIN enc.objs
  PROVE  EncSound(Close(enc, k)) /\ Counted(Close(enc, k))
<1> DEFINE o == [state |-> "closed", inflight |-> 0]
           objs == [enc.objs EXCEPT ![k] = o]
           stops == {s \in enc.stops : s.obj # k}
           e == Close(enc, k)
<1>1. e = [enc EXCEPT !.objs = objs, !.stops = stops]
  BY DEF Close
<1>2. o \in EncoderObj /\ o.inflight = 0
  BY DEF EncoderObj
<1>3. enc.objs \in Seq(EncoderObj) /\ enc \in EncFields /\ IsFiniteSet(Waiting(enc.objs))
  BY EncFacts DEF EncInv, Counted
<1>4. IsFiniteSet(Waiting(objs)) /\ InEncoders(objs) <= InEncoders(enc.objs)
  <2>1. objs = [enc.objs EXCEPT ![k] = [state |-> "closed", inflight |-> 0]]
    OBVIOUS
  <2> HIDE DEF objs, o
  <2>2. QED BY ONLY <1>3, <2>1, k \in DOMAIN enc.objs, WaitsNoMore
<1> HIDE DEF o
<1>5. objs \in Seq(EncoderObj) /\ DOMAIN objs = DOMAIN enc.objs /\ Len(objs) = Len(enc.objs)
      /\ objs[k] = o /\ \A j \in DOMAIN enc.objs : j # k => objs[j] = enc.objs[j]
  BY ONLY <1>2, <1>3
<1>6. stops \in SUBSET [obj : Nat, rest : Nat]
  BY EncFacts
<1>7. /\ e.objs = objs /\ e.cur = enc.cur /\ e.stops = stops /\ e.pending = enc.pending
      /\ e.skipped = enc.skipped /\ e.before = enc.before /\ e.frames = enc.frames /\ e.loops = enc.loops
  BY <1>1, <1>3 DEF EncFields
<1>8. \A s \in stops : s.obj \in DOMAIN objs /\ objs[s.obj].state = "configured"
  BY <1>5 DEF EncInv, EncSound
<1> HIDE DEF objs, stops, e
<1>9. e \in EncFields
  BY ONLY <1>1, <1>3, <1>5, <1>6 DEF EncFields
<1>10. \A j \in DOMAIN objs : objs[j].inflight <= enc.frames
  <2>1. enc.frames \in Nat /\ \A j \in DOMAIN enc.objs : enc.objs[j].inflight <= enc.frames
    BY EncFacts DEF EncInv, EncSound
  <2>2. QED BY <2>1, <1>2, <1>5
<1>11. enc.cur = Len(objs) /\ enc.loops <= Len(objs)
  BY <1>5 DEF EncInv, EncSound
<1>12. EncSound(e)
  BY <1>7, <1>8, <1>9, <1>10, <1>11 DEF EncSound
<1>13. Counted(e)
  <2> DEFINE i == InEncoders(enc.objs)
             j == InEncoders(objs)
  <2>1. i \in Nat /\ enc.pending \in Int /\ enc.before \in Nat
    BY EncFacts
  <2>2. j \in Nat /\ j <= i
    BY <1>4, FS_CardinalityType DEF InEncoders
  <2>3. track = "video" => i <= enc.before + enc.pending
    BY DEF EncInv, Counted
  <2> HIDE DEF i, j
  <2>4. track = "video" => j <= enc.before + enc.pending
    BY <2>1, <2>2, <2>3
  <2>5. QED BY <1>4, <1>7, <2>4 DEF j, EncInv, Counted
<1>14. QED BY <1>12, <1>13 DEF e

LEMMA ErrorStep ==
  ASSUME EncInv, NEW k \in DOMAIN enc.objs, Error(k)
  PROVE  EncInv'
<1> DEFINE e == Close(enc, k)
<1>1. EncSound(e) /\ Counted(e)
  BY Closes
<1>2. enc' = [e EXCEPT !.keepGoing = FALSE] /\ track' = track
  BY DEF Error
<1> HIDE DEF e
<1>3. e \in EncFields
  BY <1>1 DEF EncSound
<1>4. enc' \in EncFields
  BY <1>2, <1>3 DEF EncFields
<1>5. /\ enc'.objs = e.objs /\ enc'.cur = e.cur /\ enc'.stops = e.stops /\ enc'.pending = e.pending
      /\ enc'.skipped = e.skipped /\ enc'.before = e.before /\ enc'.frames = e.frames /\ enc'.loops = e.loops
  BY <1>2, <1>3 DEF EncFields
<1>6. EncSound(enc')
  BY <1>1, <1>4, <1>5 DEF EncSound
<1>7. Counted(enc)'
  BY <1>1, <1>2, <1>5 DEF Counted
<1>8. QED BY <1>2, <1>6, <1>7 DEF EncInv, EncSound

LEMMA FlushStep ==
  ASSUME EncInv, NEW s, FlushEnds(s)
  PROVE  EncInv'
<1>1. s.obj \in DOMAIN enc.objs
  BY DEF FlushEnds, EncInv, EncSound
<1>2. EncSound(Close(enc, s.obj)) /\ Counted(Close(enc, s.obj))
  BY <1>1, Closes
<1>3. enc' = Close(enc, s.obj) /\ track' = track
  BY DEF FlushEnds
<1>4. Counted(enc)'
  BY <1>2, <1>3 DEF Counted
<1>5. QED BY <1>2, <1>3, <1>4 DEF EncInv

LEMMA StopStep ==
  ASSUME EncInv, StopEncoding
  PROVE  EncInv'
<1> DEFINE c == enc.cur
           works == c # NoEncoder /\ Current.state = "configured"
           flush == IF works THEN {[obj |-> c, rest |-> Current.inflight]} ELSE {}
           stops == enc.stops \cup flush
           n == enc.stopped + 1
<1>1. enc' = [enc EXCEPT !.stopped = n, !.stops = stops] /\ track' = track
  BY DEF StopEncoding
<1>2. enc \in EncFields /\ n \in Nat /\ c \in Nat /\ enc.stops \in SUBSET [obj : Nat, rest : Nat]
  <2>1. enc.stopped \in Nat
    BY EncFacts
  <2>2. QED BY <2>1, EncFacts
<1>3. works => c \in DOMAIN enc.objs
  BY EncFacts DEF EncInv, EncSound, NoEncoder
<1>4. \A s \in flush : s \in [obj : Nat, rest : Nat] /\ s.obj \in DOMAIN enc.objs
                       /\ enc.objs[s.obj].state = "configured"
  <2>1. CASE works
    <3>1. enc.objs[c].inflight \in Nat
      BY <1>3, <2>1, EncFacts, ObjAt
    <3>2. QED BY <1>2, <1>3, <2>1, <3>1 DEF Current
  <2>2. CASE ~works
    BY <2>2
  <2>3. QED BY <2>1, <2>2
<1> HIDE DEF flush, n
<1>5. stops \in SUBSET [obj : Nat, rest : Nat]
  BY <1>2, <1>4
<1>6. \A s \in stops : s.obj \in DOMAIN enc.objs /\ enc.objs[s.obj].state = "configured"
  BY <1>4 DEF EncInv, EncSound
<1> HIDE DEF stops
<1>7. enc' \in EncFields
  BY ONLY <1>1, <1>2, <1>5 DEF EncFields
<1>8. /\ enc'.objs = enc.objs /\ enc'.cur = c /\ enc'.stops = stops /\ enc'.pending = enc.pending
      /\ enc'.skipped = enc.skipped /\ enc'.before = enc.before /\ enc'.frames = enc.frames
      /\ enc'.loops = enc.loops
  BY <1>1, <1>2 DEF EncFields
<1>9. EncSound(enc')
  BY <1>6, <1>7, <1>8 DEF EncInv, EncSound
<1>10. Counted(enc)'
  BY <1>1, <1>8 DEF EncInv, Counted
<1>11. QED BY <1>1, <1>9, <1>10 DEF EncInv, EncSound

LEMMA EncoderStart == EncoderInit => EncInv
<1> SUFFICES ASSUME EncoderInit PROVE EncInv
  OBVIOUS
<1>1. MaxFrames \in Nat
  BY EncoderAssumption
<1>2. enc \in EncFields
  <2>1. <<>> \in Seq(EncoderObj)
    OBVIOUS
  <2>2. {} \in SUBSET [obj : Nat, rest : Nat]
    OBVIOUS
  <2>3. 0 \in 0..MaxFrames
    BY <1>1
  <2>4. QED BY <2>1, <2>2, <2>3 DEF EncFields, EncoderInit, NoEncoder
<1>3. /\ enc.objs = <<>> /\ enc.cur = 0 /\ enc.stops = {} /\ enc.pending = 0 /\ enc.skipped = 0
      /\ enc.before = 0 /\ enc.loops = 0 /\ track \in {"video", "audio"}
  BY DEF EncoderInit, NoEncoder
<1>4. EncSound(enc)
  BY <1>2, <1>3 DEF EncSound
<1>5. Waiting(enc.objs) = {}
  BY <1>3 DEF Waiting
<1>6. IsFiniteSet(Waiting(enc.objs)) /\ InEncoders(enc.objs) = 0
  BY <1>5, FS_EmptySet DEF InEncoders
<1>7. Counted(enc)
  BY <1>3, <1>6 DEF Counted
<1>8. QED BY <1>3, <1>4, <1>7 DEF EncInv

LEMMA EncoderStep ==
  ASSUME EncInv, [EncoderNext]_encVars
  PROVE  EncInv'
<1>1. CASE StartEncoding \/ SocketOpen \/ NotSupported \/ TrackEnds
  BY <1>1, ClicksAndAnswers
<1>2. CASE Configured
  BY <1>2, NewEncoder
<1>3. CASE ReadVideoFrame \/ ReadAudioFrame
  BY <1>3, FrameReadStep
<1>4. ASSUME NEW k \in DOMAIN enc.objs, Output(k) PROVE EncInv'
  BY <1>4, OutputStep
<1>5. ASSUME NEW k \in DOMAIN enc.objs, Error(k) PROVE EncInv'
  BY <1>5, ErrorStep
<1>6. CASE StopEncoding
  BY <1>6, StopStep
<1>7. ASSUME NEW s, FlushEnds(s) PROVE EncInv'
  BY <1>7, FlushStep
<1>8. CASE UNCHANGED encVars
  BY <1>8 DEF encVars, EncInv, EncSound, Counted
<1>9. QED BY <1>1, <1>2, <1>3, <1>4, <1>5, <1>6, <1>7, <1>8 DEF EncoderNext

LEMMA EncImplies ==
  ASSUME EncInv
  PROVE  EncoderTypes /\ Throttle
<1>1. EncSound(enc) /\ Counted(enc) /\ track \in {"video", "audio"}
  BY DEF EncInv
<1>2. \A k \in DOMAIN enc.objs : /\ enc.objs[k].state \in {"configured", "closed"}
                                 /\ enc.objs[k].inflight \in 0..MaxFrames
  <2> SUFFICES ASSUME NEW k \in DOMAIN enc.objs
               PROVE  /\ enc.objs[k].state \in {"configured", "closed"}
                      /\ enc.objs[k].inflight \in 0..MaxFrames
    OBVIOUS
  <2>1. enc.objs[k] \in EncoderObj /\ enc.objs[k].inflight \in Nat
    BY EncFacts, ObjAt
  <2>2. enc.objs[k].inflight <= enc.frames /\ enc.frames \in 0..MaxFrames /\ MaxFrames \in Nat
    BY <1>1, EncFacts DEF EncSound
  <2>3. enc.objs[k].inflight \in 0..MaxFrames
    BY ONLY <2>1, <2>2
  <2>4. QED BY <2>1, <2>3 DEF EncoderObj
<1>3. enc.loops \in 0..Len(enc.objs) /\ enc.pending \in Int /\ enc.keepGoing \in BOOLEAN
  BY <1>1, EncFacts DEF EncSound
<1>4. EncoderTypes
  BY <1>1, <1>2, <1>3 DEF EncoderTypes, EncSound
<1>5. track = "video" => InEncoders(enc.objs) <= enc.before + 3
  BY <1>1, EncFacts DEF Counted
<1>6. QED BY <1>1, <1>4, <1>5 DEF Throttle, Counted

-----------------------------------------------------------------------------
(* The decoder's page: a chunk is in one place on its way to the screen.   *)

DecoderObj == [state : {"configured", "closed"}, queue : Seq(Chunks)]

DecFields ==
  [listeners : Nat, mimes : Nat, configs : Nat, received : 0..MaxChunks, reads : SUBSET Chunks,
   objs : Seq(DecoderObj), cur : Nat, stopped : Nat,
   stops : SUBSET [by : Nat \X Nat, obj : Nat, rest : Nat]]

ShownFields ==
  [pending : Seq(Chunks), underflow : BOOLEAN, timers : Nat, waiting : SUBSET Chunks,
   writing : SUBSET Chunks, drawn : Seq(Chunks)]

DecSound(d) ==
  /\ d \in DecFields /\ d.cur = Len(d.objs)
  /\ \A s \in d.stops : s.obj \in DOMAIN d.objs /\ d.objs[s.obj].state = "configured"

ShownSound(h) ==
  /\ h \in ShownFields /\ IsInjective(h.pending) /\ IsInjective(h.drawn)
  /\ h.waiting \cap (Range(h.pending) \cup Range(h.drawn)) = {}
  /\ Range(h.pending) \cap Range(h.drawn) = {} /\ h.writing \subseteq Range(h.drawn)

\* The frames that a decoder gave.
Passed(h) == Range(h.pending) \cup h.waiting \cup Range(h.drawn)

\* Of n chunks, each is read, is in one queue, once, has passed, or is lost.
Apart(n, reads, objs, passed) ==
  /\ passed \cup reads \subseteq 1..n /\ passed \cap reads = {}
  /\ \A k \in DOMAIN objs :
       /\ Range(objs[k].queue) \subseteq (1..n) \ (reads \cup passed)
       /\ IsInjective(objs[k].queue)
       /\ \A j \in DOMAIN objs \ {k} : Range(objs[j].queue) \cap Range(objs[k].queue) = {}

DecInv ==
  DecSound(dec) /\ ShownSound(shown) /\ Apart(dec.received, dec.reads, dec.objs, Passed(shown))

LEMMA AppendHas ==
  ASSUME NEW S, NEW s \in Seq(S), NEW e \in S
  PROVE  /\ Append(s, e) \in Seq(S) /\ Range(Append(s, e)) = Range(s) \cup {e}
         /\ (IsInjective(s) /\ e \notin Range(s) => IsInjective(Append(s, e)))
<1> DEFINE l == Len(s)
           t == Append(s, e)
<1>1. l \in Nat /\ DOMAIN s = 1..l /\ DOMAIN t = 1..(l + 1) /\ t[l + 1] = e
      /\ (\A i \in 1..l : t[i] = s[i]) /\ t \in Seq(S)
  OBVIOUS
<1> HIDE DEF l, t
<1>2. Range(t) = Range(s) \cup {e}
  <2>1. \A x \in Range(t) : x \in Range(s) \cup {e}
    BY <1>1 DEF Range
  <2>2. \A x \in Range(s) : x \in Range(t)
    BY <1>1 DEF Range
  <2>3. e \in Range(t)
    BY <1>1 DEF Range
  <2>4. QED BY <2>1, <2>2, <2>3
<1>3. ASSUME IsInjective(s), e \notin Range(s), NEW a \in DOMAIN t, NEW b \in DOMAIN t, t[a] = t[b]
      PROVE  a = b
  <2>1. \A i \in 1..l : t[i] # e
    BY <1>1, <1>3 DEF Range
  <2>2. CASE a \in 1..l /\ b \in 1..l
    BY <1>1, <1>3, <2>2 DEF IsInjective
  <2>3. CASE a \notin 1..l \/ b \notin 1..l
    BY <1>1, <1>3, <2>1, <2>3
  <2>4. QED BY <2>2, <2>3
<1>4. QED BY <1>1, <1>2, <1>3 DEF IsInjective, t

LEMMA TailHas ==
  ASSUME NEW S, NEW s \in Seq(S), s # <<>>, IsInjective(s)
  PROVE  /\ Head(s) \in Range(s) /\ Head(s) \in S /\ Tail(s) \in Seq(S)
         /\ Range(Tail(s)) = Range(s) \ {Head(s)} /\ IsInjective(Tail(s))
<1> DEFINE l == Len(s)
           t == Tail(s)
           e == Head(s)
<1>1. l \in Nat \ {0} /\ DOMAIN s = 1..l /\ DOMAIN t = 1..(l - 1) /\ e = s[1]
      /\ (\A i \in 1..(l - 1) : t[i] = s[i + 1]) /\ t \in Seq(S) /\ e \in S
  BY EmptySeq, HeadTailProperties
<1> HIDE DEF l, t, e
<1>2. e \in Range(s)
  BY <1>1 DEF Range
<1>3. \A i \in 1..(l - 1) : t[i] \in Range(s) /\ t[i] # e
  <2> SUFFICES ASSUME NEW i \in 1..(l - 1) PROVE t[i] \in Range(s) /\ t[i] # e
    OBVIOUS
  <2>1. i + 1 \in 1..l /\ i + 1 # 1 /\ 1 \in 1..l
    BY <1>1
  <2>2. QED BY <1>1, <2>1 DEF Range, IsInjective
<1>4. \A x \in Range(s) \ {e} : x \in Range(t)
  <2> SUFFICES ASSUME NEW x \in Range(s), x # e PROVE x \in Range(t)
    OBVIOUS
  <2>1. PICK i \in 1..l : x = s[i]
    BY <1>1 DEF Range
  <2>2. i # 1
    BY <1>1, <2>1
  <2>3. i - 1 \in 1..(l - 1) /\ (i - 1) + 1 = i
    BY <1>1, <2>2
  <2>4. t[i - 1] = x
    BY <1>1, <2>1, <2>3
  <2>5. QED BY <1>1, <2>3, <2>4 DEF Range
<1>5. Range(t) = Range(s) \ {e}
  <2>1. \A x \in Range(t) : x \in Range(s) \ {e}
    BY <1>1, <1>3 DEF Range
  <2>2. QED BY <1>4, <2>1
<1>6. ASSUME NEW a \in 1..(l - 1), NEW b \in 1..(l - 1), t[a] = t[b] PROVE a = b
  <2>1. a + 1 \in 1..l /\ b + 1 \in 1..l /\ s[a + 1] = s[b + 1]
    BY <1>1, <1>6
  <2>2. a + 1 = b + 1
    BY <1>1, <2>1 DEF IsInjective
  <2>3. QED BY <2>2
<1>7. QED BY <1>1, <1>2, <1>5, <1>6 DEF IsInjective, t, e

LEMMA DecFacts ==
  ASSUME DecInv
  PROVE  /\ dec \in DecFields /\ dec.objs \in Seq(DecoderObj) /\ DOMAIN dec.objs = 1..Len(dec.objs)
         /\ dec.listeners \in Nat /\ dec.mimes \in Nat /\ dec.configs \in Nat
         /\ dec.received \in Nat /\ dec.received \in 0..MaxChunks /\ MaxChunks \in Nat
         /\ dec.reads \subseteq Chunks /\ dec.cur \in Nat /\ dec.stopped \in Nat
         /\ dec.stops \in SUBSET [by : Nat \X Nat, obj : Nat, rest : Nat] /\ Len(dec.objs) \in Nat
<1>1. dec \in DecFields
  BY DEF DecInv, DecSound
<1>2. dec.objs \in Seq(DecoderObj)
  BY <1>1 DEF DecFields
<1>3. MaxChunks \in Nat
  BY DecoderAssumption
<1>4. QED BY <1>1, <1>2, <1>3 DEF DecFields

LEMMA ShownFacts ==
  ASSUME DecInv
  PROVE  /\ shown \in ShownFields /\ shown.pending \in Seq(Chunks) /\ shown.drawn \in Seq(Chunks)
         /\ shown.underflow \in BOOLEAN /\ shown.timers \in Nat
         /\ shown.waiting \subseteq Chunks /\ shown.writing \subseteq Chunks
<1>1. shown \in ShownFields
  BY DEF DecInv, ShownSound
<1>2. QED BY <1>1 DEF ShownFields

LEMMA QueueAt ==
  ASSUME NEW objs \in Seq(DecoderObj), NEW k \in DOMAIN objs
  PROVE  objs[k] \in DecoderObj /\ objs[k].queue \in Seq(Chunks)
<1>1. objs[k] \in DecoderObj
  OBVIOUS
<1>2. QED BY <1>1 DEF DecoderObj

LEMMA ApartReceive ==
  ASSUME NEW n \in Nat, NEW reads, NEW objs, NEW passed, Apart(n, reads, objs, passed)
  PROVE  Apart(n + 1, reads \cup {n + 1}, objs, passed)
<1>1. 1..n \subseteq 1..(n + 1) /\ n + 1 \notin 1..n /\ n + 1 \in 1..(n + 1)
  OBVIOUS
<1> DEFINE m == n + 1
<1> HIDE DEF m
<1>2. 1..n \subseteq 1..m /\ m \notin 1..n /\ m \in 1..m
  BY <1>1 DEF m
<1>3. passed \cup reads \subseteq 1..n /\ passed \cap reads = {}
  BY DEF Apart
<1>4. \A k \in DOMAIN objs :
        /\ Range(objs[k].queue) \subseteq (1..n) \ (reads \cup passed) /\ IsInjective(objs[k].queue)
        /\ \A j \in DOMAIN objs \ {k} : Range(objs[j].queue) \cap Range(objs[k].queue) = {}
  BY DEF Apart
<1>5. \A k \in DOMAIN objs : Range(objs[k].queue) \subseteq (1..m) \ ((reads \cup {m}) \cup passed)
  BY ONLY <1>2, <1>4
<1>6. passed \cup (reads \cup {m}) \subseteq 1..m /\ passed \cap (reads \cup {m}) = {}
  BY ONLY <1>2, <1>3
<1>7. Apart(m, reads \cup {m}, objs, passed)
  BY ONLY <1>4, <1>5, <1>6 DEF Apart
<1>8. QED BY <1>7 DEF m

LEMMA ApartNew ==
  ASSUME NEW n, NEW reads, NEW objs \in Seq(DecoderObj), NEW passed, Apart(n, reads, objs, passed),
         NEW o, o.queue = <<>>
  PROVE  Apart(n, reads, Append(objs, o), passed)
<1> DEFINE l == Len(objs)
           new == Append(objs, o)
           Q(k) == Range(new[k].queue)
<1>1. l \in Nat /\ DOMAIN objs = 1..l /\ DOMAIN new = 1..(l + 1) /\ new[l + 1] = o
      /\ \A k \in 1..l : new[k] = objs[k]
  OBVIOUS
<1>2. Range(<<>>) = {} /\ IsInjective(<<>>)
  BY DEF Range, IsInjective
<1> HIDE DEF l, new
<1>3. \A k \in 1..(l + 1) : k \in 1..l \/ (Q(k) = {} /\ IsInjective(new[k].queue))
  <2>1. \A k \in 1..(l + 1) : k \in 1..l \/ k = l + 1
    BY <1>1
  <2>2. QED BY <1>1, <1>2, <2>1
<1>4. \A k \in 1..l : Q(k) \subseteq (1..n) \ (reads \cup passed) /\ IsInjective(new[k].queue)
                      /\ \A j \in 1..l \ {k} : Q(j) \cap Q(k) = {}
  BY <1>1 DEF Apart
<1> HIDE DEF Q
<1>5. \A k \in 1..(l + 1) : Q(k) \subseteq (1..n) \ (reads \cup passed) /\ IsInjective(new[k].queue)
                            /\ \A j \in 1..(l + 1) \ {k} : Q(j) \cap Q(k) = {}
  BY ONLY <1>3, <1>4
<1>6. passed \cup reads \subseteq 1..n /\ passed \cap reads = {}
  BY DEF Apart
<1>7. Apart(n, reads, new, passed)
  BY <1>1, <1>5, <1>6 DEF Apart, Q
<1>8. QED BY <1>7 DEF new

\* A queue that changes keeps apart from what stays where it is.
LEMMA ApartChange ==
  ASSUME NEW n, NEW reads, NEW objs \in Seq(DecoderObj), NEW passed, Apart(n, reads, objs, passed),
         NEW k \in DOMAIN objs, NEW o, NEW more, NEW fewer, IsInjective(o.queue),
         fewer \subseteq reads, more \cap reads = {}, more \subseteq 1..n,
         \A j \in DOMAIN objs \ {k} : more \cap Range(objs[j].queue) = {},
         Range(o.queue) \subseteq Range(objs[k].queue) \cup (reads \ fewer),
         Range(o.queue) \cap more = {}
  PROVE  Apart(n, fewer, [objs EXCEPT ![k] = o], passed \cup more)
<1> DEFINE new == [objs EXCEPT ![k] = o]
           Q(j) == Range(objs[j].queue)
           N(j) == Range(new[j].queue)
<1>1. DOMAIN new = DOMAIN objs /\ new[k] = o /\ \A j \in DOMAIN objs \ {k} : new[j] = objs[j]
  OBVIOUS
<1>2. passed \cup reads \subseteq 1..n /\ passed \cap reads = {}
  BY DEF Apart
<1>3. \A j \in DOMAIN objs : Q(j) \subseteq (1..n) \ (reads \cup passed) /\ IsInjective(objs[j].queue)
                             /\ \A i \in DOMAIN objs \ {j} : Q(i) \cap Q(j) = {}
  BY DEF Apart
<1>4. N(k) \subseteq Q(k) \cup (reads \ fewer) /\ N(k) \cap more = {} /\ IsInjective(new[k].queue)
  BY <1>1
<1>5. \A j \in DOMAIN objs \ {k} : N(j) = Q(j) /\ N(j) \cap more = {} /\ IsInjective(new[j].queue)
  BY <1>1, <1>3
<1> HIDE DEF new, Q, N
<1>6. \A j \in DOMAIN objs : N(j) \subseteq (1..n) \ (fewer \cup (passed \cup more)) /\ IsInjective(new[j].queue)
  <2> SUFFICES ASSUME NEW j \in DOMAIN objs
               PROVE  N(j) \subseteq (1..n) \ (fewer \cup (passed \cup more)) /\ IsInjective(new[j].queue)
    OBVIOUS
  <2>1. CASE j = k
    BY <2>1, <1>2, <1>3, <1>4
  <2>2. CASE j # k
    BY <2>2, <1>2, <1>3, <1>5
  <2>3. QED BY <2>1, <2>2
<1>7. \A j \in DOMAIN objs : \A i \in DOMAIN objs \ {j} : N(i) \cap N(j) = {}
  <2> SUFFICES ASSUME NEW j \in DOMAIN objs, NEW i \in DOMAIN objs \ {j} PROVE N(i) \cap N(j) = {}
    OBVIOUS
  <2>1. CASE j = k
    BY <2>1, <1>3, <1>4, <1>5
  <2>2. CASE i = k
    BY <2>2, <1>3, <1>4, <1>5
  <2>3. CASE i # k /\ j # k
    BY <2>3, <1>3, <1>5
  <2>4. QED BY <2>1, <2>2, <2>3
<1>8. (passed \cup more) \cup fewer \subseteq 1..n /\ (passed \cup more) \cap fewer = {}
  BY <1>2
<1>9. Apart(n, fewer, new, passed \cup more)
  BY <1>1, <1>6, <1>7, <1>8 DEF Apart, N
<1>10. QED BY <1>9 DEF new

LEMMA ApartLost ==
  ASSUME NEW n, NEW reads, NEW objs, NEW passed, Apart(n, reads, objs, passed), NEW c
  PROVE  Apart(n, reads \ {c}, objs, passed)
BY DEF Apart

LEMMA ApartDecode ==
  ASSUME NEW n, NEW reads, NEW objs \in Seq(DecoderObj), NEW passed, Apart(n, reads, objs, passed),
         NEW k \in DOMAIN objs, NEW c \in reads, c \in Chunks, NEW o,
         o.queue = Append(objs[k].queue, c)
  PROVE  Apart(n, reads \ {c}, [objs EXCEPT ![k] = o], passed)
<1> DEFINE q == objs[k].queue
<1>1. q \in Seq(Chunks)
  BY QueueAt
<1>2. IsInjective(q) /\ c \notin Range(q)
  BY DEF Apart
<1>3. IsInjective(o.queue) /\ Range(o.queue) = Range(q) \cup {c}
  BY <1>1, <1>2, AppendHas
<1>4. Apart(n, reads \ {c}, [objs EXCEPT ![k] = o], passed \cup {})
  BY <1>3, ApartChange
<1>5. QED BY <1>4

LEMMA ApartGive ==
  ASSUME NEW n, NEW reads, NEW objs \in Seq(DecoderObj), NEW passed, Apart(n, reads, objs, passed),
         NEW k \in DOMAIN objs, objs[k].queue # <<>>, NEW o, o.queue = Tail(objs[k].queue),
         NEW f, f = Head(objs[k].queue)
  PROVE  Apart(n, reads, [objs EXCEPT ![k] = o], passed \cup {f}) /\ f \notin passed /\ f \in Chunks
<1> DEFINE q == objs[k].queue
<1>1. q \in Seq(Chunks)
  BY QueueAt
<1>2. IsInjective(q) /\ Range(q) \subseteq (1..n) \ (reads \cup passed)
      /\ \A j \in DOMAIN objs \ {k} : Range(objs[j].queue) \cap Range(q) = {}
  BY DEF Apart
<1>3. f \in Range(q) /\ f \in Chunks /\ IsInjective(o.queue) /\ Range(o.queue) = Range(q) \ {f}
  BY <1>1, <1>2, TailHas
<1>4. f \in 1..n /\ f \notin reads /\ f \notin passed
      /\ \A j \in DOMAIN objs \ {k} : {f} \cap Range(objs[j].queue) = {}
  BY <1>2, <1>3
<1> HIDE DEF q
<1>5. Range(o.queue) \subseteq Range(objs[k].queue) \cup (reads \ reads) /\ Range(o.queue) \cap {f} = {}
  BY <1>3 DEF q
<1> DEFINE more == {f}
<1>6. /\ more \cap reads = {} /\ more \subseteq 1..n /\ reads \subseteq reads
      /\ \A j \in DOMAIN objs \ {k} : more \cap Range(objs[j].queue) = {}
      /\ Range(o.queue) \subseteq Range(objs[k].queue) \cup (reads \ reads)
      /\ Range(o.queue) \cap more = {} /\ IsInjective(o.queue)
  BY <1>3, <1>4, <1>5
<1> HIDE DEF more
<1>7. Apart(n, reads, [objs EXCEPT ![k] = o], passed \cup more)
  BY <1>6, ApartChange
<1>8. QED BY <1>3, <1>4, <1>7 DEF more

LEMMA ApartClose ==
  ASSUME NEW n, NEW reads, NEW objs \in Seq(DecoderObj), NEW passed, Apart(n, reads, objs, passed),
         NEW k \in DOMAIN objs, NEW o, o.queue = <<>>
  PROVE  Apart(n, reads, [objs EXCEPT ![k] = o], passed)
<1>1. Range(o.queue) = {} /\ IsInjective(o.queue)
  BY DEF Range, IsInjective
<1>2. Apart(n, reads, [objs EXCEPT ![k] = o], passed \cup {})
  BY <1>1, ApartChange
<1>3. QED BY <1>2

LEMMA DecAgain ==
  ASSUME DecInv, shown' = shown, DecSound(dec'),
         Apart(dec'.received, dec'.reads, dec'.objs, Passed(shown))
  PROVE  DecInv'
BY DEF DecInv, DecSound, ShownSound, Apart, Passed

LEMMA Announced ==
  ASSUME DecInv, StartDecoding \/ AnnounceCodec \/ NotSupportedCodec
  PROVE  DecInv'
<1> DEFINE l1 == dec.listeners + 1
           m1 == dec.mimes + 1
           c1 == dec.configs + 1
           c0 == dec.configs - 1
<1>1. /\ dec \in DecFields /\ l1 \in Nat /\ m1 \in Nat /\ c1 \in Nat
      /\ (dec.configs > 0 => c0 \in Nat)
  <2>1. dec.listeners \in Nat /\ dec.mimes \in Nat /\ dec.configs \in Nat
    BY DecFacts
  <2>2. dec \in DecFields
    BY DecFacts
  <2>3. QED BY ONLY <2>1, <2>2
<1>2. /\ dec' \in DecFields /\ dec'.objs = dec.objs /\ dec'.cur = dec.cur /\ dec'.stops = dec.stops
      /\ dec'.received = dec.received /\ dec'.reads = dec.reads
  <2>1. CASE StartDecoding
    <3>1. dec' = [dec EXCEPT !.listeners = l1]
      BY <2>1 DEF StartDecoding
    <3> HIDE DEF l1
    <3>2. QED BY ONLY <1>1, <3>1 DEF DecFields
  <2>2. CASE AnnounceCodec
    <3>1. dec' = [dec EXCEPT !.mimes = m1, !.configs = c1]
      BY <2>2 DEF AnnounceCodec
    <3> HIDE DEF m1, c1
    <3>2. QED BY ONLY <1>1, <3>1 DEF DecFields
  <2>3. CASE NotSupportedCodec
    <3>1. dec' = [dec EXCEPT !.configs = c0] /\ c0 \in Nat
      BY <1>1, <2>3 DEF NotSupportedCodec
    <3> HIDE DEF c0
    <3>2. QED BY ONLY <1>1, <3>1 DEF DecFields
  <2>4. QED BY <2>1, <2>2, <2>3
<1>3. shown' = shown
  BY DEF StartDecoding, AnnounceCodec, NotSupportedCodec
<1>4. DecSound(dec')
  BY <1>2 DEF DecInv, DecSound
<1>5. QED BY <1>2, <1>3, <1>4, DecAgain DEF DecInv

LEMMA CreateStep ==
  ASSUME DecInv, CreateDecoder
  PROVE  DecInv'
<1> DEFINE o == [state |-> "configured", queue |-> <<>>]
           l == Len(dec.objs)
           objs == Append(dec.objs, o)
           c == l + 1
           a == dec.configs - 1
<1>1. o \in DecoderObj /\ o.queue = <<>>
  <2>1. <<>> \in Seq(Chunks)
    OBVIOUS
  <2>2. QED BY <2>1 DEF DecoderObj
<1>2. dec' = [dec EXCEPT !.configs = a, !.cur = c, !.objs = objs] /\ shown' = shown
  BY DEF CreateDecoder
<1>3. dec \in DecFields /\ dec.objs \in Seq(DecoderObj) /\ l \in Nat /\ DOMAIN dec.objs = 1..l
  BY DecFacts
<1> HIDE DEF o
<1>4. objs \in Seq(DecoderObj) /\ Len(objs) = c /\ DOMAIN objs = 1..c
      /\ \A k \in 1..l : k \in 1..c /\ objs[k] = dec.objs[k]
  BY ONLY <1>1, <1>3
<1>5. a \in Nat /\ c \in Nat
  <2>1. dec.configs \in Nat /\ dec.configs > 0
    BY DecFacts DEF CreateDecoder
  <2>2. QED BY ONLY <2>1, <1>3
<1>6. Apart(dec.received, dec.reads, objs, Passed(shown))
  <2>1. Apart(dec.received, dec.reads, dec.objs, Passed(shown))
    BY DEF DecInv
  <2>2. QED BY ONLY <2>1, <1>1, <1>3, ApartNew
<1> HIDE DEF objs, c, a
<1>7. dec' \in DecFields
  BY ONLY <1>2, <1>3, <1>4, <1>5 DEF DecFields
<1>8. /\ dec'.objs = objs /\ dec'.cur = c /\ dec'.stops = dec.stops
      /\ dec'.received = dec.received /\ dec'.reads = dec.reads
  BY ONLY <1>2, <1>3 DEF DecFields
<1>9. DecSound(dec')
  <2>1. \A s \in dec.stops : s.obj \in 1..l /\ dec.objs[s.obj].state = "configured"
    BY <1>3 DEF DecInv, DecSound
  <2>2. QED BY ONLY <1>4, <1>7, <1>8, <2>1 DEF DecSound
<1>10. QED BY <1>2, <1>6, <1>8, <1>9, DecAgain

LEMMA ReceiveStep ==
  ASSUME DecInv, ReceiveChunk
  PROVE  DecInv'
<1> DEFINE n == dec.received + 1
           reads == dec.reads \cup {n}
<1>1. dec' = [dec EXCEPT !.received = n, !.reads = reads] /\ shown' = shown
  BY DEF ReceiveChunk
<1>2. n \in 0..MaxChunks /\ n \in Chunks
  <2>1. dec.received \in Nat /\ MaxChunks \in Nat
    BY DecFacts
  <2>2. dec.received < MaxChunks
    BY DEF ReceiveChunk
  <2>3. QED BY ONLY <2>1, <2>2 DEF Chunks
<1>3. dec \in DecFields /\ reads \subseteq Chunks
  BY <1>2, DecFacts
<1>4. Apart(n, reads, dec.objs, Passed(shown))
  <2>1. dec.received \in Nat
    BY DecFacts
  <2>2. QED BY <2>1, ApartReceive DEF DecInv
<1> HIDE DEF n, reads
<1>5. dec' \in DecFields
  BY ONLY <1>1, <1>2, <1>3 DEF DecFields
<1>6. /\ dec'.objs = dec.objs /\ dec'.cur = dec.cur /\ dec'.stops = dec.stops
      /\ dec'.received = n /\ dec'.reads = reads
  BY ONLY <1>1, <1>3 DEF DecFields
<1>7. DecSound(dec')
  BY <1>5, <1>6 DEF DecInv, DecSound
<1>8. QED BY <1>1, <1>4, <1>6, <1>7, DecAgain

LEMMA DecodeChunkStep ==
  ASSUME DecInv, NEW c \in Chunks, DecodeChunk(c)
  PROVE  DecInv'
<1> DEFINE reads == dec.reads \ {c}
           k == dec.cur
           o == [dec.objs[k] EXCEPT !.queue = Append(@, c)]
           objs == [dec.objs EXCEPT ![k] = o]
<1>1. shown' = shown /\ c \in dec.reads
  BY DEF DecodeChunk
<1>2. dec \in DecFields /\ dec.objs \in Seq(DecoderObj) /\ reads \subseteq Chunks
  BY DecFacts
<1>3. Apart(dec.received, dec.reads, dec.objs, Passed(shown))
  BY DEF DecInv
<1>4. CASE HasDecoder
  <2>1. dec' = [dec EXCEPT !.reads = reads, !.objs = objs]
    BY <1>4 DEF DecodeChunk
  <2>2. k \in DOMAIN dec.objs
    <3>1. k # 0 /\ k = Len(dec.objs) /\ DOMAIN dec.objs = 1..Len(dec.objs) /\ Len(dec.objs) \in Nat
      BY <1>4, DecFacts DEF HasDecoder, NoDecoder, DecInv, DecSound
    <3>2. QED BY ONLY <3>1
  <2>3. o \in DecoderObj /\ o.queue = Append(dec.objs[k].queue, c) /\ o.state = dec.objs[k].state
    <3> DEFINE b == dec.objs[k]
               q == Append(b.queue, c)
    <3>1. b \in DecoderObj /\ q \in Seq(Chunks)
      BY <2>2, <1>2, QueueAt, AppendHas
    <3>2. o = [b EXCEPT !.queue = q]
      OBVIOUS
    <3> HIDE DEF b, q, o
    <3>3. o \in DecoderObj /\ o.queue = q /\ o.state = b.state
      BY ONLY <3>1, <3>2 DEF DecoderObj
    <3>4. QED BY <3>3 DEF b, q
  <2> HIDE DEF o
  <2>4. objs \in Seq(DecoderObj) /\ DOMAIN objs = DOMAIN dec.objs /\ Len(objs) = Len(dec.objs)
        /\ objs[k] = o /\ \A j \in DOMAIN dec.objs : j # k => objs[j] = dec.objs[j]
    <3> HIDE DEF k
    <3>1. QED BY ONLY <1>2, <2>2, <2>3
  <2>5. Apart(dec.received, reads, objs, Passed(shown))
    <3> HIDE DEF k
    <3>1. QED BY ONLY <1>1, <1>2, <1>3, <2>2, <2>3, c \in Chunks, ApartDecode
  <2> HIDE DEF objs, reads
  <2>6. dec' \in DecFields
    BY ONLY <1>2, <2>1, <2>4 DEF DecFields
  <2>7. /\ dec'.objs = objs /\ dec'.cur = dec.cur /\ dec'.stops = dec.stops
        /\ dec'.received = dec.received /\ dec'.reads = reads
    BY ONLY <1>2, <2>1 DEF DecFields
  <2>8. DecSound(dec')
    BY <2>3, <2>4, <2>6, <2>7 DEF DecInv, DecSound
  <2>9. QED BY <1>1, <2>5, <2>7, <2>8, DecAgain
<1>5. CASE ~HasDecoder
  <2>1. dec' = [dec EXCEPT !.reads = reads]
    BY <1>5 DEF DecodeChunk
  <2>2. Apart(dec.received, reads, dec.objs, Passed(shown))
    BY <1>3, ApartLost
  <2> HIDE DEF reads
  <2>3. dec' \in DecFields
    BY ONLY <1>2, <2>1 DEF DecFields
  <2>4. /\ dec'.objs = dec.objs /\ dec'.cur = dec.cur /\ dec'.stops = dec.stops
        /\ dec'.received = dec.received /\ dec'.reads = reads
    BY ONLY <1>2, <2>1 DEF DecFields
  <2>5. DecSound(dec')
    BY <2>3, <2>4 DEF DecInv, DecSound
  <2>6. QED BY <1>1, <2>2, <2>4, <2>5, DecAgain
<1>6. QED BY <1>4, <1>5

\* The decoder gives its oldest frame, which goes behind those that wait.
LEMMA DecodedStep ==
  ASSUME DecInv, NEW k \in DOMAIN dec.objs, Decoded(k)
  PROVE  DecInv'
<1> DEFINE b == dec.objs[k]
           f == Head(b.queue)
           q == Tail(b.queue)
           o == [b EXCEPT !.queue = q]
           objs == [dec.objs EXCEPT ![k] = o]
           Less(s) == IF s.obj = k /\ s.rest > 0 THEN [s EXCEPT !.rest = @ - 1] ELSE s
           stops == {Less(s) : s \in dec.stops}
           pending == Append(shown.pending, f)
           t == IF shown.underflow THEN shown.timers + 1 ELSE shown.timers
<1>1. dec' = [dec EXCEPT !.objs = objs, !.stops = stops] /\ b.queue # <<>>
      /\ shown' = [shown EXCEPT !.pending = pending, !.timers = t]
  BY DEF Decoded, HandleFrame
<1>2. dec \in DecFields /\ dec.objs \in Seq(DecoderObj)
  BY DecFacts
<1>3. Apart(dec.received, dec.reads, dec.objs, Passed(shown))
  BY DEF DecInv
<1>4. b \in DecoderObj /\ b.queue \in Seq(Chunks)
  BY <1>2, QueueAt
<1>5. f \in Chunks /\ q \in Seq(Chunks)
  BY <1>1, <1>3, <1>4, TailHas DEF Apart
<1>6. o \in DecoderObj /\ o.queue = q /\ o.state = b.state
  <2> HIDE DEF b, q
  <2>1. QED BY ONLY <1>4, <1>5 DEF DecoderObj, o
<1>7. objs \in Seq(DecoderObj) /\ DOMAIN objs = DOMAIN dec.objs /\ Len(objs) = Len(dec.objs)
      /\ objs[k] = o /\ \A j \in DOMAIN dec.objs : j # k => objs[j] = dec.objs[j]
  <2> HIDE DEF o
  <2>1. QED BY ONLY <1>2, <1>6
<1>8. Apart(dec.received, dec.reads, objs, Passed(shown) \cup {f}) /\ f \notin Passed(shown)
  <2>1. /\ dec.objs[k].queue # <<>> /\ o.queue = Tail(dec.objs[k].queue)
        /\ f = Head(dec.objs[k].queue) /\ objs = [dec.objs EXCEPT ![k] = o]
    BY <1>1, <1>6
  <2> HIDE DEF o, f, objs
  <2>2. QED BY ONLY <1>2, <1>3, <2>1, k \in DOMAIN dec.objs, ApartGive
<1>9. \A s \in dec.stops : /\ Less(s) \in [by : Nat \X Nat, obj : Nat, rest : Nat]
                           /\ Less(s).obj = s.obj
  <2> SUFFICES ASSUME NEW s \in dec.stops
               PROVE  Less(s) \in [by : Nat \X Nat, obj : Nat, rest : Nat] /\ Less(s).obj = s.obj
    OBVIOUS
  <2>1. s \in [by : Nat \X Nat, obj : Nat, rest : Nat]
    BY DecFacts
  <2>2. QED BY ONLY <2>1
<1> HIDE DEF Less
<1>10. stops \in SUBSET [by : Nat \X Nat, obj : Nat, rest : Nat]
  BY <1>9
<1>11. \A s \in stops : s.obj \in DOMAIN objs /\ objs[s.obj].state = "configured"
  <2>1. \A s \in dec.stops : s.obj \in DOMAIN objs /\ objs[s.obj].state = "configured"
    BY <1>6, <1>7 DEF DecInv, DecSound
  <2>2. QED BY <2>1, <1>9
<1>12. shown \in ShownFields /\ shown.pending \in Seq(Chunks) /\ t \in Nat
  <2>1. shown.timers \in Nat
    BY ShownFacts
  <2>2. QED BY <2>1, ShownFacts
<1>13. /\ pending \in Seq(Chunks) /\ Range(pending) = Range(shown.pending) \cup {f}
       /\ IsInjective(pending)
  <2>1. f \notin Range(shown.pending) /\ IsInjective(shown.pending)
    BY <1>8 DEF Passed, DecInv, ShownSound
  <2> HIDE DEF f
  <2>2. QED BY ONLY <1>5, <1>12, <2>1, AppendHas
<1> HIDE DEF objs, stops, pending, t, f, b, o
<1>14. dec' \in DecFields /\ shown' \in ShownFields
  <2>1. dec' \in DecFields
    BY ONLY <1>1, <1>2, <1>7, <1>10 DEF DecFields
  <2>2. shown' \in ShownFields
    BY ONLY <1>1, <1>12, <1>13 DEF ShownFields
  <2>3. QED BY <2>1, <2>2
<1>15. /\ dec'.objs = objs /\ dec'.cur = dec.cur /\ dec'.stops = stops
       /\ dec'.received = dec.received /\ dec'.reads = dec.reads
  BY ONLY <1>1, <1>2 DEF DecFields
<1>16. /\ shown'.pending = pending /\ shown'.waiting = shown.waiting /\ shown'.drawn = shown.drawn
       /\ shown'.writing = shown.writing
  BY ONLY <1>1, <1>12 DEF ShownFields
<1>17. DecSound(dec')
  BY <1>7, <1>11, <1>14, <1>15 DEF DecInv, DecSound
<1>18. ShownSound(shown')
  <2>1. f \notin shown.waiting /\ f \notin Range(shown.drawn)
    BY <1>8 DEF Passed
  <2>2. ShownSound(shown)
    BY DEF DecInv
  <2>3. QED BY ONLY <1>13, <1>14, <1>16, <2>1, <2>2 DEF ShownSound
<1>19. Passed(shown') = Passed(shown) \cup {f}
  BY <1>13, <1>16 DEF Passed
<1>20. Apart(dec'.received, dec'.reads, dec'.objs, Passed(shown'))
  BY <1>8, <1>15, <1>19
<1>21. Apart(dec.received, dec.reads, dec.objs, Passed(shown))'
  BY <1>20 DEF Apart, Passed
<1>22. QED BY <1>17, <1>18, <1>21 DEF DecInv, DecSound, ShownSound

\* Decoder k is closed: what it had queued is lost.
LEMMA DecoderCloses ==
  ASSUME NEW d, DecSound(d), NEW k \in DOMAIN d.objs, NEW passed,
         Apart(d.received, d.reads, d.objs, passed), NEW e, e = CloseDecoder(d, k)
  PROVE  DecSound(e) /\ Apart(e.received, e.reads, e.objs, passed)
<1> DEFINE o == [state |-> "closed", queue |-> <<>>]
           objs == [d.objs EXCEPT ![k] = o]
           stops == {s \in d.stops : s.obj # k}
<1>1. e = [d EXCEPT !.objs = objs, !.stops = stops]
  BY DEF CloseDecoder
<1>2. o \in DecoderObj /\ o.queue = <<>>
  <2>1. <<>> \in Seq(Chunks)
    OBVIOUS
  <2>2. QED BY <2>1 DEF DecoderObj
<1>3. d \in DecFields /\ d.objs \in Seq(DecoderObj)
      /\ d.stops \in SUBSET [by : Nat \X Nat, obj : Nat, rest : Nat]
  BY DEF DecSound, DecFields
<1> HIDE DEF o
<1>4. objs \in Seq(DecoderObj) /\ DOMAIN objs = DOMAIN d.objs /\ Len(objs) = Len(d.objs)
      /\ objs[k] = o /\ \A j \in DOMAIN d.objs : j # k => objs[j] = d.objs[j]
  BY ONLY <1>2, <1>3
<1>5. Apart(d.received, d.reads, objs, passed)
  BY <1>2, <1>3, ApartClose
<1>6. stops \in SUBSET [by : Nat \X Nat, obj : Nat, rest : Nat]
      /\ \A s \in stops : s.obj \in DOMAIN objs /\ objs[s.obj].state = "configured"
  BY <1>3, <1>4 DEF DecSound
<1> HIDE DEF objs, stops
<1>7. e \in DecFields
  BY ONLY <1>1, <1>3, <1>4, <1>6 DEF DecFields
<1>8. /\ e.objs = objs /\ e.cur = d.cur /\ e.stops = stops /\ e.received = d.received /\ e.reads = d.reads
  BY ONLY <1>1, <1>3 DEF DecFields
<1>9. DecSound(e)
  BY <1>4, <1>6, <1>7, <1>8 DEF DecSound
<1>10. QED BY <1>5, <1>8, <1>9

LEMMA DecodeErrorStep ==
  ASSUME DecInv, NEW k \in DOMAIN dec.objs, DecodeError(k)
  PROVE  DecInv'
<1>1. dec' = CloseDecoder(dec, k) /\ shown' = shown
  BY DEF DecodeError
<1>2. DecSound(dec) /\ Apart(dec.received, dec.reads, dec.objs, Passed(shown))
  BY DEF DecInv
<1>3. DecSound(dec') /\ Apart(dec'.received, dec'.reads, dec'.objs, Passed(shown))
  BY ONLY <1>1, <1>2, k \in DOMAIN dec.objs, DecoderCloses
<1>4. QED BY <1>1, <1>3, DecAgain

LEMMA StopDecodingStep ==
  ASSUME DecInv, StopDecoding
  PROVE  DecInv'
<1> DEFINE c == dec.cur
           m == dec.stopped + 1
           r == Len(dec.objs[c].queue)
           flush == IF HasDecoder THEN {[by |-> <<m, i>>, obj |-> c, rest |-> r] : i \in 1..dec.listeners}
                    ELSE {}
           stops == dec.stops \cup flush
<1>1. dec' = [dec EXCEPT !.stopped = m, !.stops = stops] /\ shown' = shown
  BY DEF StopDecoding
<1>2. dec \in DecFields /\ dec.objs \in Seq(DecoderObj) /\ c \in Nat /\ dec.listeners \in Nat
      /\ dec.stops \in SUBSET [by : Nat \X Nat, obj : Nat, rest : Nat]
  BY DecFacts
<1>3. m \in Nat
  <2>1. dec.stopped \in Nat
    BY DecFacts
  <2>2. QED BY <2>1
<1>4. ASSUME HasDecoder PROVE c \in DOMAIN dec.objs /\ dec.objs[c].state = "configured" /\ r \in Nat
  <2>1. c # 0 /\ c = Len(dec.objs) /\ DOMAIN dec.objs = 1..Len(dec.objs) /\ Len(dec.objs) \in Nat
    BY <1>4, DecFacts DEF HasDecoder, NoDecoder, DecInv, DecSound
  <2>2. c \in DOMAIN dec.objs
    BY ONLY <2>1
  <2>3. dec.objs[c].queue \in Seq(Chunks)
    BY <1>2, <2>2, QueueAt
  <2>4. QED BY <1>4, <2>2, <2>3 DEF HasDecoder
<1> HIDE DEF c, m, r
<1>5. \A s \in flush : s \in [by : Nat \X Nat, obj : Nat, rest : Nat] /\ s.obj \in DOMAIN dec.objs
                       /\ dec.objs[s.obj].state = "configured"
  BY <1>2, <1>3, <1>4
<1> HIDE DEF flush
<1>6. stops \in SUBSET [by : Nat \X Nat, obj : Nat, rest : Nat]
      /\ \A s \in stops : s.obj \in DOMAIN dec.objs /\ dec.objs[s.obj].state = "configured"
  BY <1>2, <1>5 DEF DecInv, DecSound
<1> HIDE DEF stops
<1>7. dec' \in DecFields
  BY ONLY <1>1, <1>2, <1>3, <1>6 DEF DecFields
<1>8. /\ dec'.objs = dec.objs /\ dec'.cur = dec.cur /\ dec'.stops = stops
      /\ dec'.received = dec.received /\ dec'.reads = dec.reads
  BY ONLY <1>1, <1>2 DEF DecFields
<1>9. DecSound(dec')
  BY <1>6, <1>7, <1>8 DEF DecInv, DecSound
<1>10. QED BY <1>1, <1>8, <1>9, DecAgain DEF DecInv

LEMMA FlushDecoderStep ==
  ASSUME DecInv, NEW s, FlushDecoderEnds(s)
  PROVE  DecInv'
<1> DEFINE stops == dec.stops \ {s}
           d == [dec EXCEPT !.stops = stops]
<1>1. s \in dec.stops /\ dec' = CloseDecoder(d, dec.cur) /\ shown' = shown
  BY DEF FlushDecoderEnds
<1>2. dec \in DecFields /\ stops \in SUBSET [by : Nat \X Nat, obj : Nat, rest : Nat]
  BY DecFacts
<1>3. \A r \in stops : r \in dec.stops
  OBVIOUS
<1> HIDE DEF stops
<1>4. d \in DecFields /\ d.objs = dec.objs /\ d.cur = dec.cur /\ d.stops = stops
      /\ d.received = dec.received /\ d.reads = dec.reads
  BY ONLY <1>2 DEF DecFields
<1>5. DecSound(d)
  BY <1>3, <1>4 DEF DecInv, DecSound
<1>6. dec.cur \in DOMAIN d.objs
  <2>1. s.obj \in 1..Len(dec.objs) /\ dec.cur = Len(dec.objs) /\ Len(dec.objs) \in Nat
        /\ DOMAIN dec.objs = 1..Len(dec.objs)
    BY <1>1, DecFacts DEF DecInv, DecSound
  <2>2. dec.cur \in DOMAIN dec.objs
    BY ONLY <2>1
  <2>3. QED BY <1>4, <2>2
<1>7. Apart(d.received, d.reads, d.objs, Passed(shown))
  BY <1>4 DEF DecInv
<1> HIDE DEF d
<1>8. DecSound(dec') /\ Apart(dec'.received, dec'.reads, dec'.objs, Passed(shown))
  BY ONLY <1>1, <1>5, <1>6, <1>7, DecoderCloses
<1>9. QED BY <1>1, <1>8, DecAgain

LEMMA ShownAgain ==
  ASSUME DecInv, dec' = dec, ShownSound(shown'), Passed(shown') = Passed(shown)
  PROVE  DecInv'
<1>1. Apart(dec.received, dec.reads, dec.objs, Passed(shown'))
  BY DEF DecInv
<1>2. Apart(dec.received, dec.reads, dec.objs, Passed(shown))'
  BY <1>1 DEF Apart, Passed
<1>3. QED BY <1>2 DEF DecInv, DecSound, ShownSound

LEMMA RenderStep ==
  ASSUME DecInv, RenderFrame
  PROVE  DecInv'
<1> DEFINE f == Head(shown.pending)
           pending == Tail(shown.pending)
           t == shown.timers - 1
           waiting == shown.waiting \cup {f}
<1>1. dec' = dec
  BY DEF RenderFrame
<1>2. shown \in ShownFields /\ t \in Nat /\ shown.pending \in Seq(Chunks)
  <2>1. shown.timers \in Nat /\ shown.timers > 0
    BY ShownFacts DEF RenderFrame
  <2>2. QED BY <2>1, ShownFacts
<1>3. ShownSound(shown)
  BY DEF DecInv
<1>4. CASE shown.pending = <<>>
  <2>1. shown' = [shown EXCEPT !.timers = t, !.underflow = TRUE]
    BY <1>4 DEF RenderFrame
  <2> HIDE DEF t
  <2>2. /\ shown' \in ShownFields /\ shown'.pending = shown.pending /\ shown'.waiting = shown.waiting
        /\ shown'.drawn = shown.drawn /\ shown'.writing = shown.writing
    BY ONLY <1>2, <2>1 DEF ShownFields
  <2>3. ShownSound(shown') /\ Passed(shown') = Passed(shown)
    BY ONLY <1>3, <2>2 DEF ShownSound, Passed
  <2>4. QED BY <1>1, <2>3, ShownAgain
<1>5. CASE shown.pending # <<>>
  <2>1. shown' = [shown EXCEPT !.timers = t, !.underflow = FALSE, !.pending = pending, !.waiting = waiting]
    BY <1>5 DEF RenderFrame
  <2>2. /\ f \in Range(shown.pending) /\ f \in Chunks /\ pending \in Seq(Chunks)
        /\ Range(pending) = Range(shown.pending) \ {f} /\ IsInjective(pending)
    BY <1>2, <1>3, <1>5, TailHas DEF ShownSound
  <2>3. waiting \subseteq Chunks
    BY <2>2, ShownFacts
  <2>4. waiting = shown.waiting \cup {f}
    OBVIOUS
  <2> HIDE DEF f, pending, t, waiting
  <2>5. /\ shown' \in ShownFields /\ shown'.pending = pending /\ shown'.waiting = waiting
        /\ shown'.drawn = shown.drawn /\ shown'.writing = shown.writing
    BY ONLY <1>2, <2>1, <2>2, <2>3 DEF ShownFields
  <2>6. ShownSound(shown') /\ Passed(shown') = Passed(shown)
    BY ONLY <1>3, <2>2, <2>4, <2>5 DEF ShownSound, Passed
  <2>7. QED BY <1>1, <2>6, ShownAgain
<1>6. QED BY <1>4, <1>5

LEMMA DrawStep ==
  ASSUME DecInv, NEW f \in Chunks, DrawFrame(f)
  PROVE  DecInv'
<1> DEFINE waiting == shown.waiting \ {f}
           writing == shown.writing \cup {f}
           drawn == Append(shown.drawn, f)
<1>1. dec' = dec /\ f \in shown.waiting
      /\ shown' = [shown EXCEPT !.waiting = waiting, !.writing = writing, !.drawn = drawn]
  BY DEF DrawFrame
<1>2. shown \in ShownFields /\ waiting \subseteq Chunks /\ writing \subseteq Chunks
      /\ shown.drawn \in Seq(Chunks)
  BY ShownFacts
<1>3. ShownSound(shown)
  BY DEF DecInv
<1>4. drawn \in Seq(Chunks) /\ Range(drawn) = Range(shown.drawn) \cup {f} /\ IsInjective(drawn)
  <2>1. f \notin Range(shown.drawn) /\ IsInjective(shown.drawn)
    BY <1>1, <1>3 DEF ShownSound
  <2>2. QED BY <1>2, <2>1, AppendHas
<1> HIDE DEF drawn
<1>5. /\ shown' \in ShownFields /\ shown'.pending = shown.pending /\ shown'.waiting = waiting
      /\ shown'.drawn = drawn /\ shown'.writing = writing
  BY ONLY <1>1, <1>2, <1>4 DEF ShownFields
<1>6. ShownSound(shown') /\ Passed(shown') = Passed(shown)
  BY ONLY <1>1, <1>3, <1>4, <1>5 DEF ShownSound, Passed
<1>7. QED BY <1>1, <1>6, ShownAgain

LEMMA WrittenStep ==
  ASSUME DecInv, NEW f \in Chunks, Written(f)
  PROVE  DecInv'
<1> DEFINE writing == shown.writing \ {f}
           t == shown.timers + 1
<1>1. dec' = dec /\ shown' = [shown EXCEPT !.writing = writing, !.timers = t]
  BY DEF Written
<1>2. shown \in ShownFields /\ writing \subseteq Chunks /\ writing \subseteq shown.writing /\ t \in Nat
  <2>1. shown.timers \in Nat
    BY ShownFacts
  <2>2. QED BY <2>1, ShownFacts
<1> HIDE DEF writing, t
<1>3. /\ shown' \in ShownFields /\ shown'.pending = shown.pending /\ shown'.waiting = shown.waiting
      /\ shown'.drawn = shown.drawn /\ shown'.writing = writing
  BY ONLY <1>1, <1>2 DEF ShownFields
<1>4. ShownSound(shown') /\ Passed(shown') = Passed(shown)
  BY <1>2, <1>3 DEF DecInv, ShownSound, Passed
<1>5. QED BY <1>1, <1>4, ShownAgain

LEMMA DecoderStart == DecoderInit => DecInv
<1> SUFFICES ASSUME DecoderInit PROVE DecInv
  OBVIOUS
<1>1. Range(<<>>) = {} /\ IsInjective(<<>>) /\ <<>> \in Seq(Chunks) /\ <<>> \in Seq(DecoderObj)
  BY DEF Range, IsInjective
<1>2. 0 \in 0..MaxChunks
  BY DecoderAssumption
<1>3. {} \in SUBSET [by : Nat \X Nat, obj : Nat, rest : Nat]
  OBVIOUS
<1>4. dec \in DecFields
  BY <1>1, <1>2, <1>3 DEF DecFields, DecoderInit, NoDecoder
<1>5. shown \in ShownFields
  BY <1>1 DEF ShownFields, DecoderInit
<1>6. DecSound(dec)
  BY <1>4 DEF DecSound, DecoderInit, NoDecoder
<1>7. ShownSound(shown)
  BY <1>1, <1>5 DEF ShownSound, DecoderInit
<1>8. Apart(dec.received, dec.reads, dec.objs, Passed(shown))
  BY <1>1 DEF Apart, Passed, DecoderInit
<1>9. QED BY <1>6, <1>7, <1>8 DEF DecInv

LEMMA DecoderStep ==
  ASSUME DecInv, [DecoderNext]_decVars
  PROVE  DecInv'
<1>1. CASE Receive
  <2>1. CASE StartDecoding \/ AnnounceCodec
    BY <2>1, Announced
  <2>2. CASE ReceiveChunk
    BY <2>2, ReceiveStep
  <2>3. ASSUME NEW c \in Chunks, DecodeChunk(c) PROVE DecInv'
    BY <2>3, DecodeChunkStep
  <2>4. QED BY <1>1, <2>1, <2>2, <2>3 DEF Receive
<1>2. CASE Decode
  <2>1. CASE CreateDecoder
    BY <2>1, CreateStep
  <2>2. CASE NotSupportedCodec
    BY <2>2, Announced
  <2>3. ASSUME NEW k \in DOMAIN dec.objs, Decoded(k) PROVE DecInv'
    BY <2>3, DecodedStep
  <2>4. ASSUME NEW k \in DOMAIN dec.objs, DecodeError(k) PROVE DecInv'
    BY <2>4, DecodeErrorStep
  <2>5. QED BY <1>2, <2>1, <2>2, <2>3, <2>4 DEF Decode
<1>3. CASE StopDecode
  <2>1. CASE StopDecoding
    BY <2>1, StopDecodingStep
  <2>2. ASSUME NEW s, FlushDecoderEnds(s) PROVE DecInv'
    BY <2>2, FlushDecoderStep
  <2>3. QED BY <1>3, <2>1, <2>2 DEF StopDecode
<1>4. CASE Render
  <2>1. CASE RenderFrame
    BY <2>1, RenderStep
  <2>2. ASSUME NEW f \in Chunks, DrawFrame(f) PROVE DecInv'
    BY <2>2, DrawStep
  <2>3. ASSUME NEW f \in Chunks, Written(f) PROVE DecInv'
    BY <2>3, WrittenStep
  <2>4. QED BY <1>4, <2>1, <2>2, <2>3 DEF Render
<1>5. CASE UNCHANGED decVars
  BY <1>5 DEF decVars, DecInv, DecSound, ShownSound, Apart, Passed
<1>6. QED BY <1>1, <1>2, <1>3, <1>4, <1>5 DEF DecoderNext

LEMMA DecImplies ==
  ASSUME DecInv
  PROVE  DecoderTypes
<1>1. DecSound(dec) /\ ShownSound(shown)
  BY DEF DecInv
<1>2. \A k \in DOMAIN dec.objs : /\ dec.objs[k].state \in {"configured", "closed"}
                                 /\ Range(dec.objs[k].queue) \subseteq Chunks
  <2> SUFFICES ASSUME NEW k \in DOMAIN dec.objs
               PROVE  /\ dec.objs[k].state \in {"configured", "closed"}
                      /\ Range(dec.objs[k].queue) \subseteq Chunks
    OBVIOUS
  <2>1. dec.objs[k] \in DecoderObj /\ dec.objs[k].queue \in Seq(Chunks)
    BY DecFacts, QueueAt
  <2>2. QED BY <2>1 DEF DecoderObj, Range
<1>3. dec.reads \subseteq Chunks /\ shown.timers \in Nat /\ shown.underflow \in BOOLEAN
  BY DecFacts, ShownFacts
<1>4. QED BY <1>1, <1>2, <1>3 DEF DecoderTypes, DecSound, ShownSound

-----------------------------------------------------------------------------
(* The two pages.                                                          *)

WebInv == EncInv /\ DecInv

LEMMA WebStep ==
  ASSUME WebInv, [WebNext]_webVars
  PROVE  WebInv'
<1>1. [EncoderNext]_encVars /\ [DecoderNext]_decVars
  BY DEF WebNext, webVars
<1>2. QED BY <1>1, EncoderStep, DecoderStep DEF WebInv

LEMMA WebInvHolds == WebSpec => []WebInv
<1>1. WebInit => WebInv
  BY EncoderStart, DecoderStart DEF WebInit, WebInv
<1>2. QED BY <1>1, WebStep, PTL DEF WebSpec

(* Both pages keep their types: the current encoder or decoder is one that *)
(* was made, a flush is one of a codec that works, and a frame that was    *)
(* decoded is in one place, and is drawn once, in whatever order answers,  *)
(* chunks and clicks come.                                                 *)
THEOREM WebTypesHold == WebSpec => []WebTypes
<1>1. WebInv => WebTypes
  BY EncImplies, DecImplies DEF WebInv, WebTypes
<1>2. QED BY <1>1, WebInvHolds, PTL

(* No more than three frames wait in encoders over those that were there   *)
(* when the current one was made; and of the microphone's frames no two in *)
(* a row are left out.                                                     *)
THEOREM ThrottleHolds == WebSpec => []Throttle
<1>1. WebInv => Throttle
  BY EncImplies DEF WebInv
<1>2. QED BY <1>1, WebInvHolds, PTL
=============================================================================
