------------------------------ MODULE MCStudio ------------------------------
(* Instances of Studio for TLC: what each session of a run asks for.       *)
EXTENDS Studio, TLC

CONSTANTS p1, p2, s1, s2, m1, k1, c1, c2, t1

(* Publishers on two channels, each with a subscriber.                     *)
TwoKind == p1 :> "pub" @@ p2 :> "pub" @@ s1 :> "sub" @@ s2 :> "sub"
TwoChn == p1 :> c1 @@ p2 :> c2 @@ s1 :> c1 @@ s2 :> c2
TwoTrk == [s \in DOMAIN TwoKind |-> t1]

(* A publisher and a meb session on one label, and a controller.           *)
PairKind == p1 :> "pub" @@ m1 :> "meb" @@ k1 :> "ctl"
PairChn == [s \in DOMAIN PairKind |-> c1]
PairTrk == [s \in DOMAIN PairKind |-> t1]
=============================================================================
