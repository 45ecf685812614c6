------------------------------ MODULE WebPages ------------------------------
(***************************************************************************)
(* The webcodecs clients: a browser opens one page, the encoder's or the   *)
(* decoder's.  Pages of two browsers share nothing but the server.         *)
(***************************************************************************)
EXTENDS WebEncoder, WebDecoder

VARIABLE page  \* "encoder" or "decoder"

webVars == <<page, encVars, decVars>>

WebInit == page \in {"encoder", "decoder"} /\ EncoderInit /\ DecoderInit

WebNext ==
  /\ UNCHANGED page
  /\ \/ page = "encoder" /\ EncoderNext /\ UNCHANGED decVars
     \/ page = "decoder" /\ DecoderNext /\ UNCHANGED encVars

\* Timers fire and writes to the track end; users and the network do what
\* they like.
WebSpec ==
  /\ WebInit /\ [][WebNext]_webVars
  /\ WF_webVars(RenderFrame /\ UNCHANGED <<page, encVars>>)
  /\ \A f \in Chunks : /\ WF_webVars(DrawFrame(f) /\ UNCHANGED <<page, encVars>>)
                       /\ WF_webVars(Written(f) /\ UNCHANGED <<page, encVars>>)

\* Both pages keep their types.
WebTypes == EncoderTypes /\ DecoderTypes
=============================================================================
