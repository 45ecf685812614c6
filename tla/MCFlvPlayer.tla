---------------------------- MODULE MCFlvPlayer ----------------------------
(* FlvPlayer with a video of two parts, the second of one unit. *)
EXTENDS FlvPlayer

TwoParts == <<0, 2>>
=============================================================================
