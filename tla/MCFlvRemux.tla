---------------------------- MODULE MCFlvRemux -----------------------------
(* FlvRemux with a file of two parts. *)
EXTENDS FlvRemux

Tag(kind, time) == [kind |-> kind, time |-> time]

TwoParts ==
  << <<Tag("script", 0), Tag("video config", 0), Tag("audio config", 0),
       Tag("key", 0), Tag("audio", 1), Tag("delta", 4), Tag("audio", 4), Tag("key", 8),
       Tag("audio", 13), Tag("delta", 13)>>,
     <<Tag("script", 0), Tag("audio config", 0), Tag("video config", 0),
       Tag("audio", 0), Tag("key", 1), Tag("audio", 3), Tag("delta", 5)>> >>

TwoStarts == <<0, 20>>

Reference == [t \in Tracks |-> IF t = "audio" THEN 3 ELSE 4]

\* The theorems about times and about what is left speak of files like this.
ASSUME OrderedAssumption == TimesGrow /\ SamplesLast
=============================================================================
