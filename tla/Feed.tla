------------------------------- MODULE Feed -------------------------------
(***************************************************************************)
(* What a ring buffer promises the sessions that read it, whatever its     *)
(* positions and locks do: a live feed.  Each reader gets, in order and    *)
(* none twice, some of the messages published after it joined.  It is the  *)
(* abstract specification of TrackBuffer.                                  *)
(*                                                                         *)
(* The promise ends for a reader that falls Window messages behind: from   *)
(* then on its feed may be broken, and nothing is said of what it gets.    *)
(***************************************************************************)
EXTENDS Integers

CONSTANTS Readers, Window, Broken

VARIABLES
  published,  \* messages published so far, numbered from 1
  joined,     \* readers that have joined
  cursor      \* the last message each reader was given, or Broken

fvars == <<published, joined, cursor>>

Publish ==
  /\ published' = published + 1
  /\ UNCHANGED <<joined, cursor>>

Join(r) ==
  /\ r \notin joined
  /\ joined' = joined \cup {r}
  /\ cursor' = [cursor EXCEPT ![r] = published]
  /\ UNCHANGED published

Deliver(r) ==
  /\ r \in joined /\ cursor[r] # Broken
  /\ \E n \in cursor[r]+1 .. published : cursor' = [cursor EXCEPT ![r] = n]
  /\ UNCHANGED <<published, joined>>

Break(r) ==
  /\ r \in joined /\ cursor[r] # Broken
  /\ published - cursor[r] >= Window
  /\ cursor' = [cursor EXCEPT ![r] = Broken]
  /\ UNCHANGED <<published, joined>>

Init ==
  /\ published = 0
  /\ joined = {}
  /\ cursor = [r \in Readers |-> 0]

Next == Publish \/ \E r \in Readers : Join(r) \/ Deliver(r) \/ Break(r)

Spec == Init /\ [][Next]_fvars
=============================================================================
