------------------------------ MODULE MCLogger ------------------------------
(* Logger for TLC: two writers, two loud messages and a quiet one.         *)
EXTENDS Logger, TLC

CONSTANTS error, info, debug

MCMessage == {error, info, debug}

MCType == (error :> 2) @@ (info :> 3) @@ (debug :> 5)
=============================================================================
