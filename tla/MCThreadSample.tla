--------------------------- MODULE MCThreadSample ---------------------------
(* ThreadSample for TLC: two jobs write a message each.                    *)
EXTENDS ThreadSample, TLC

CONSTANTS info, debug

MCMessage == {info, debug}

MCType == (info :> 3) @@ (debug :> 5)
=============================================================================
