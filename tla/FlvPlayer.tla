----------------------------- MODULE FlvPlayer -----------------------------
(***************************************************************************)
(* The FlvPlayer of players/flv.js/flv.js with its transmuxer: the player  *)
(* reacts to the browser's media element and to the user, the transmuxing  *)
(* controller loads and cuts the parts of a file.  Between them stands the *)
(* Transmuxer, which calls the controller in place, or posts messages to a *)
(* web worker that holds it.  The player stops loading when enough is      *)
(* buffered (lazyLoad) and goes on when little is left; seeks come from    *)
(* the page (the currentTime property) and from the progress bar (the      *)
(* browser's seeking event).                                               *)
(*                                                                         *)
(* Time is a number of units; a unit is one media segment of the video.    *)
(* The loader and the MediaSource are reduced to what the player sees of   *)
(* them; FlvIO and FlvMse are about them.                                  *)
(***************************************************************************)
EXTENDS Integers, Sequences, FiniteSets, FiniteSetsExt

CONSTANTS
  Workers,    \* values of config.enableWorker
  End,        \* length of the video
  PartStart,  \* where each part of the file begins
  Keyframes,  \* units that begin with a keyframe
  LazyMax,    \* config.lazyLoadMaxDuration
  Recover,    \* config.lazyLoadRecoverDuration
  MaxSeeks,   \* bound on the user's seeks
  MaxLag,     \* bound on how far a worker is ahead with events, and behind with
              \* commands when the user seeks
  None

Parts == DOMAIN PartStart

Times == 0..(End - 1)

ASSUME TimesAssumption ==
  /\ End \in Nat \ {0} /\ PartStart \in Seq(Times) /\ PartStart # <<>>
  /\ PartStart[1] = 0 /\ \A i, j \in Parts : i < j => PartStart[i] < PartStart[j]
ASSUME KeyframesAssumption == Keyframes \subseteq Times /\ \A i \in Parts : PartStart[i] \in Keyframes
ASSUME LazyAssumption ==
  Workers \subseteq BOOLEAN /\ {LazyMax, Recover, MaxSeeks} \subseteq Nat /\ MaxLag \in Nat \ {0} /\ 0 < Recover /\ Recover < LazyMax
ASSUME NoneAssumption == None \notin Nat

VARIABLES
  worker, \* does the transmuxer use a worker
  pl,     \* the player and its media element
  down,   \* commands posted to the worker
  up,     \* events on their way to the player
  ctl     \* the transmuxing controller and its loader

vars == <<worker, pl, down, up, ctl>>

State == [pl |-> pl, down |-> down, up |-> up, ctl |-> ctl]

Become(s) ==
  pl' = s.pl /\ down' = s.down /\ up' = s.up /\ ctl' = s.ctl /\ UNCHANGED worker

---------------------------------------------------------------------------
(* The transmuxing controller. *)

PartEnd(i) == IF i = Len(PartStart) THEN End ELSE PartStart[i + 1]

\* _searchSegmentIndexContains
PartOf(t) == Max({i \in Parts : PartStart[i] <= t})

\* MediaInfo.getNearestKeyframe, in the part of the time.
NearestKeyframe(t) == Max({k \in Keyframes : k <= t})

\* _loadSegment: a part read as a whole begins with its header.
LoadPart(c, i, from, header) ==
  [c EXCEPT !.part = i, !.at = from, !.header = header, !.on = TRUE, !.paused = FALSE]

\* No metadata is known, no seek waits; start loads the first part.
NewController ==
  [part |-> 1, at |-> 0, header |-> TRUE, on |-> TRUE, paused |-> FALSE,
   info |-> {}, pendSeek |-> None, resolve |-> None]

LoadWholePart(c, i) == LoadPart(c, i, PartStart[i], TRUE)

CtlPause(c) == IF c.on /\ ~c.paused THEN [c EXCEPT !.paused = TRUE] ELSE c

CtlResume(c) == [c EXCEPT !.paused = FALSE]

CtlStop(c) == [c EXCEPT !.on = FALSE, !.paused = FALSE]

\* Nothing is left of a destroyed controller.
CtlDestroy == CtlStop(NewController)

\* Slip: the index of the part is not moved along.
CtlSeekWrong(c, t) ==
  LET target == PartOf(t)
      key    == NearestKeyframe(t)
  IN CASE c.info = {} -> c
       [] c.info # {} /\ target \in c.info ->
            [LoadPart(c, c.part, key, FALSE) EXCEPT !.resolve = key]
       [] c.info # {} /\ target \notin c.info /\ target = c.part -> [c EXCEPT !.pendSeek = t]
       [] OTHER -> [LoadWholePart(c, target) EXCEPT !.pendSeek = t]

\* seek: nothing before the first metadata; else within the part that is
\* loaded, or over to another; a part whose metadata has not come is loaded
\* until it has.
CtlSeek(c, t) ==
  LET target == PartOf(t)
      key    == NearestKeyframe(t)
  IN CASE c.info = {} -> c
       [] c.info # {} /\ target \in c.info ->
            [LoadPart(c, target, key, FALSE) EXCEPT !.resolve = key]
       [] c.info # {} /\ target \notin c.info /\ target = c.part -> [c EXCEPT !.pendSeek = t]
       [] OTHER -> [LoadWholePart(c, target) EXCEPT !.pendSeek = t]

Obeyed(c, cmd) ==
  CASE cmd.op = "pause"  -> CtlPause(c)
    [] cmd.op = "resume" -> CtlResume(c)
    [] cmd.op = "seek"   -> CtlSeek(c, cmd.to)
    [] cmd.op = "stop"   -> CtlStop(c)
    [] cmd.op = "destroy" -> CtlDestroy

\* Transmuxer: a call of the controller, or a message to the worker.
Command(s, cmd) ==
  IF worker THEN [s EXCEPT !.down = Append(@, cmd)] ELSE [s EXCEPT !.ctl = Obeyed(@, cmd)]

PauseCmd == [op |-> "pause", to |-> None]
ResumeCmd == [op |-> "resume", to |-> None]
SeekCmd(t) == [op |-> "seek", to |-> t]
StopCmd == [op |-> "stop", to |-> None]
DestroyCmd == [op |-> "destroy", to |-> None]

\* With the controller in place its events reach the player before anything
\* else happens; a worker's come later.
Free == worker \/ up = <<>>

\* The worker takes a command; it confirms the last one.
Obey ==
  /\ down # <<>>
  /\ Become([State EXCEPT !.down = Tail(@), !.ctl = Obeyed(@, Head(down)),
                          !.up = IF Head(down) = DestroyCmd
                                 THEN Append(@, [msg |-> "destroyed", at |-> 0]) ELSE @])

Loading == ctl.on /\ ~ctl.paused /\ Free /\ Len(up) < MaxLag

\* _onInitChunkArrival and _onMediaInfo: the part's metadata is known, and a
\* seek that waited for it goes on.
Metadata ==
  LET c == [ctl EXCEPT !.info = @ \cup {ctl.part}, !.header = FALSE, !.pendSeek = None] IN
  /\ Loading /\ ctl.header
  /\ Become([State EXCEPT !.ctl = IF ctl.pendSeek = None THEN c ELSE CtlSeek(c, ctl.pendSeek)])

\* _onRemuxerMediaSegmentArrival: while a seek waits for a part's metadata
\* the segments are dropped; the first one after a seek tells the player
\* where the keyframe was.
Segment ==
  LET media     == [msg |-> "media", at |-> ctl.at]
      recommend == [msg |-> "recommend", at |-> ctl.resolve]
      dropped   == ctl.pendSeek # None
      resolved  == ~dropped /\ ctl.resolve # None
  IN /\ Loading /\ ~ctl.header /\ ctl.at < PartEnd(ctl.part)
     /\ Become([State EXCEPT !.ctl.at = @ + 1,
                             !.ctl.resolve = IF resolved THEN None ELSE @,
                             !.up = IF dropped THEN @
                                    ELSE @ \o <<media>> \o IF resolved THEN <<recommend>> ELSE <<>>])

\* _onIOComplete: on to the next part, or all is loaded.
PartComplete ==
  /\ Loading /\ ~ctl.header /\ ctl.at = PartEnd(ctl.part)
  /\ Become(IF ctl.part < Len(PartStart)
            THEN [State EXCEPT !.ctl = LoadWholePart(@, ctl.part + 1)]
            ELSE [State EXCEPT !.ctl.on = FALSE])

---------------------------------------------------------------------------
(* The player. *)

Buffered(s, t) == t \in s.pl.buf

\* The end of the buffered range the play head is in.
RangeEnd(s) == Min({t \in s.pl.cur..End : t \notin s.pl.buf})

\* Setting currentTime makes the browser fire a seeking event.
SetTime(s, t) == [s EXCEPT !.pl.cur = t, !.pl.seeking = @ + 1]

\* The player's own changes are marked, for its handler to pass over.
RequestSetTime(s, t) == [SetTime(s, t) EXCEPT !.pl.requested = TRUE]

\* gone is set when the page has destroyed the player.
NewPlayer ==
  [cur |-> 0, buf |-> {}, queue |-> <<>>, seeking |-> 0, requested |-> FALSE,
   record |-> FALSE, checker |-> FALSE, seeks |-> 0, gone |-> FALSE]

\* _suspendTransmuxer
SuspendTransmuxer(s) == [Command(s, PauseCmd) EXCEPT !.pl.checker = TRUE]

\* Slip: the last unit that is buffered does not count as little.
CheckProgressAndResumeWrong(s) ==
  IF Buffered(s, s.pl.cur) /\ s.pl.cur > RangeEnd(s) - Recover
  THEN [Command(s, ResumeCmd) EXCEPT !.pl.checker = FALSE]
  ELSE s

\* _checkProgressAndResume
CheckProgressAndResume(s) ==
  IF Buffered(s, s.pl.cur) /\ s.pl.cur >= RangeEnd(s) - Recover
  THEN [Command(s, ResumeCmd) EXCEPT !.pl.checker = FALSE]
  ELSE s

\* A place that is not buffered: all is dropped and loaded from there.
SeekUnbuffered(s, t) ==
  [Command(s, SeekCmd(t)) EXCEPT !.pl.checker = FALSE, !.pl.buf = {}, !.pl.queue = <<>>]

\* Slip: the interval is cleared before the place is looked up.
InternalSeekWrong(s, t) ==
  IF Buffered(s, t) THEN [RequestSetTime(s, t) EXCEPT !.pl.checker = FALSE] ELSE SeekUnbuffered(s, t)

\* _internalSeek, behind the currentTime property.  The play head follows a
\* seek that is not buffered when the controller recommends a place.
InternalSeek(s, t) ==
  IF Buffered(s, t)
  THEN LET s1 == RequestSetTime(s, t) IN IF s.pl.checker THEN CheckProgressAndResume(s1) ELSE s1
  ELSE SeekUnbuffered(s, t)

\* The handlers of load: what the transmuxer tells the player.
OnMediaSegment(s, t) ==
  LET s1 == [s EXCEPT !.pl.queue = Append(@, t)] IN
  IF t + 1 >= s.pl.cur + LazyMax /\ ~s.pl.checker THEN SuspendTransmuxer(s1) ELSE s1

Deliver ==
  /\ up # <<>> /\ ~pl.gone
  /\ LET s == [State EXCEPT !.up = Tail(@)] IN
     Become(IF Head(up).msg = "media" THEN OnMediaSegment(s, Head(up).at)
            ELSE RequestSetTime(s, Head(up).at))

\* The player is there, and no event comes before what happens to it.
Ready == Free /\ ~pl.gone

Unload(s) == Command(Command(s, StopCmd), DestroyCmd)

\* detachMediaElement: no event of it is heard any more.
DetachMediaElement(s) == [s EXCEPT !.pl = [NewPlayer EXCEPT !.gone = TRUE]]

\* destroy, which ends the interval too.
Destroy == Ready /\ Become(DetachMediaElement(Unload(State)))

\* Whatever a worker that is being destroyed says first, it is terminated.
TerminateWorker ==
  /\ up # <<>> /\ pl.gone
  /\ Become([State EXCEPT !.up = <<>>, !.down = <<>>, !.ctl = CtlDestroy])

\* The MediaSource takes a segment, and _onmseUpdateEnd looks at how much is
\* buffered.
UpdateEnd ==
  LET s == [State EXCEPT !.pl.queue = Tail(@), !.pl.buf = @ \cup {Head(pl.queue)}] IN
  /\ Ready /\ pl.queue # <<>>
  /\ Become(IF Buffered(s, pl.cur) /\ RangeEnd(s) >= pl.cur + LazyMax /\ ~pl.checker
            THEN SuspendTransmuxer(s) ELSE s)

\* The interval that _suspendTransmuxer set.
Tick == Ready /\ pl.checker /\ Become(CheckProgressAndResume(State))

\* _onvSeeking
Seeking ==
  LET s == [State EXCEPT !.pl.seeking = @ - 1] IN
  /\ Ready /\ pl.seeking > 0
  /\ Become(IF pl.requested THEN [s EXCEPT !.pl.requested = FALSE]
            ELSE IF Buffered(s, pl.cur)
            THEN IF pl.checker THEN CheckProgressAndResume(s) ELSE s
            ELSE [s EXCEPT !.pl.record = TRUE])

\* _checkAndApplyUnbufferedSeekpoint, when the timer finds the record old.
ApplySeekpoint ==
  LET s == [State EXCEPT !.pl.record = FALSE] IN
  /\ Ready /\ pl.record
  /\ Become(IF Buffered(s, pl.cur) THEN s ELSE SeekUnbuffered(s, pl.cur))

\* The user moves the progress bar, or the page sets currentTime.
UserSeek(t) ==
  LET s == [State EXCEPT !.pl.seeks = @ + 1] IN
  /\ Ready /\ pl.seeks < MaxSeeks /\ Len(down) <= MaxLag
  /\ Become(SetTime(s, t)) \/ Become(InternalSeek(s, t))

\* The media element plays what is buffered.
Play ==
  /\ Ready /\ pl.cur \in pl.buf /\ pl.cur + 1 \in pl.buf \cup {End}
  /\ Become([State EXCEPT !.pl.cur = @ + 1])

\* _checkAndResumeStuckPlayback, when the browser says it is stalled before
\* all that is buffered; it tells of seeks first.
ResumeStuckPlayback ==
  /\ Ready /\ pl.seeking = 0 /\ pl.buf # {} /\ pl.cur < Min(pl.buf)
  /\ Become(RequestSetTime(State, Min(pl.buf)))

\* The Transmuxer, with its controller or a worker that has one.
NewTransmuxer == worker \in Workers /\ ctl = NewController /\ down = <<>> /\ up = <<>>

\* load
Init == pl = NewPlayer /\ NewTransmuxer

Load == Metadata \/ Segment \/ PartComplete

Message == Deliver \/ TerminateWorker

Next ==
  \/ Obey \/ Load \/ Message
  \/ UpdateEnd \/ Tick \/ Seeking \/ ApplySeekpoint
  \/ \E t \in Times : UserSeek(t)
  \/ Play \/ ResumeStuckPlayback
  \/ Destroy

Spec == Init /\ [][Next]_vars

\* The network delivers, timers and events fire, and the media element plays.
FairSpec ==
  /\ Spec
  /\ WF_vars(Obey) /\ WF_vars(Load) /\ WF_vars(Message)
  /\ WF_vars(UpdateEnd) /\ WF_vars(Tick) /\ WF_vars(Seeking) /\ WF_vars(ApplySeekpoint) /\ WF_vars(Play)

---------------------------------------------------------------------------
(* Properties. *)

\* Types of the state; the loader reads inside the part it is at.
TypeOK ==
  /\ worker \in BOOLEAN
  /\ pl \in [cur : 0..End, buf : SUBSET Times, queue : Seq(Times), seeking : Nat, seeks : 0..MaxSeeks,
             requested : BOOLEAN, record : BOOLEAN, checker : BOOLEAN, gone : BOOLEAN]
  /\ down \in Seq([op : {"pause", "resume", "seek", "stop", "destroy"}, to : 0..End \cup {None}])
  /\ up \in Seq([msg : {"media", "recommend", "destroyed"}, at : Times])
  /\ ctl \in [part : Parts, at : 0..End, header : BOOLEAN, on : BOOLEAN, paused : BOOLEAN,
              info : SUBSET Parts, pendSeek : 0..End \cup {None}, resolve : Times \cup {None}]
  /\ ctl.at \in PartStart[ctl.part]..PartEnd(ctl.part)

\* The code's own exception: a seek into the part whose header is being
\* loaded is only noted (_pendingSeekTime), so when the loading had been
\* suspended nothing resumes it, and the player has cleared its interval.
SeekForgotten == ctl.paused /\ ctl.pendSeek # None

\* A suspended loader has the player's interval watching it, whatever the
\* order of buffering, seeks of both kinds and, with a worker, of commands on
\* their way: nothing else would ever resume it.
SuspendedIsWatched == ctl.paused /\ down = <<>> /\ ~SeekForgotten => pl.checker

Terminated == pl.gone /\ ~ctl.on /\ down = <<>> /\ up = <<>>

\* Playback comes to the end of the video, or the page destroys the player and
\* with it everything that loads, the worker too: lazy loading, the seeks and the
\* change of parts never leave the play head before data nobody loads.  With
\* a worker that is so without seeks only: a segment cut before a seek can
\* reach the player after it.
PlaysOn == <>[](pl.cur = End \/ Terminated \/ SeekForgotten \/ (worker /\ pl.seeks > 0))
=============================================================================
