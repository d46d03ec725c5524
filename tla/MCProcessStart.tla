--------------------------- MODULE MCProcessStart ---------------------------
(* Instances of ProcessStart for TLC.                                        *)
EXTENDS ProcessStart
=============================================================================
