------------------------------- MODULE MCParser -------------------------------
(***************************************************************************)
(* The parser with the endings its contract is checked with.  A text that  *)
(* leaves at most three containers open and can be completed at all, can   *)
(* be by one value, where a key or nothing has been read for it, and the   *)
(* closings of those containers.                                           *)
(***************************************************************************)
EXTENDS DefaultParser

MCEndings ==
    {value \o [i \in 1..n |-> Token("end")] :
        value \in {<<>>, <<[kind |-> "integer", val |-> 7]>>}, n \in 0..3}

==============================================================================
