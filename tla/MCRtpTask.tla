----------------------------- MODULE MCRtpTask -----------------------------
EXTENDS RtpTask

CONSTANTS c1

MCCallers == {c1}
=============================================================================
