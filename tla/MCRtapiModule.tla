--------------------------- MODULE MCRtapiModule ---------------------------
(* Model-checking instance of RtapiModule: two clients, two module slots. *)
EXTENDS RtapiModule

CONSTANTS c1, c2, c3

MCCallers == {c1, c2}

MCCallersThree == {c1, c2, c3}
=============================================================================
