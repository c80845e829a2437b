------------------------------- MODULE MCText -------------------------------
(* TextFunctions for TLC: every command line of five arguments or less, and  *)
(* every source of six characters or less with every token of two or less    *)
(* and targets that are empty, or the token twice.                           *)
EXTENDS TextFunctions

CONSTANTS MaxArguments, MaxSource, MaxToken

MCInit ==
  /\ index = 1 /\ result = <<>>
  /\ \/ /\ arguments \in BoundedSeq(Argument, MaxArguments)
        /\ source = <<>> /\ token = <<Comma>> /\ target = <<>>
     \/ /\ arguments = <<>>
        /\ source \in BoundedSeq(Character, MaxSource)
        /\ token \in BoundedSeq(Character, MaxToken) \ {<<>>}
        /\ target \in {<<>>, token \o token}

MCSpec == MCInit /\ [][TextNext]_textVars
=============================================================================
