--------------------------- MODULE MCRtapiTiming ---------------------------
(* Model-checking instance of RtapiTiming: a second of 4 units, so that   *)
(* periods of 1 to 3 units cross second boundaries in every way.          *)
EXTENDS RtapiTiming
=============================================================================
