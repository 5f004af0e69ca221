---------------------------- MODULE ParseContract ----------------------------
(***************************************************************************)
(* What a call of Bencode::parse promises its caller, without a stack or a *)
(* loop.  The call reads some text and returns once: it leaves either the  *)
(* tree that text denotes or the document as it was.  What a text denotes  *)
(* is defined by recursive descent.                                        *)
(*                                                                         *)
(* The two halves of the parser count depth differently: recursive descent *)
(* tests it for scalars too.  So the promise has a margin of one level: a  *)
(* text recursion takes within the limit must be accepted, and nothing     *)
(* recursion refuses one level further down may be.                        *)
(*                                                                         *)
(* A call that fails has usually not read its source to the end, and what  *)
(* it has read is no complete text while a container is open.  So it may   *)
(* fail only where no text that goes on from there is one that recursion   *)
(* takes: whatever had followed, the source could not have been accepted.  *)
(***************************************************************************)
EXTENDS RecursiveParser

CONSTANT Endings  \* what may follow the text a call has looked at

VARIABLES
    busy,     \* a call is running
    text,     \* the lexemes it has looked at
    ended,    \* it has looked at the end of the source as well
    root,     \* the document
    outcome,  \* how the last call ended, "none" while one runs
    lim       \* the limits in force

vars == <<busy, text, ended, root, outcome, lim>>

Deeper(l) == [l EXCEPT !.depth = @ + 1]

ReadsOn ==
    /\ Len(text) <= Len(text') /\ SubSeq(text', 1, Len(text)) = text
    /\ ended => ended' /\ text' = text

\* The sources that show what the call has looked at when it returns.
Sources == {text'} \cup (IF ended' THEN {} ELSE {text' \o ending : ending \in Endings})

Init == ~busy /\ text = <<>> /\ outcome = "none"

Call ==
    /\ ~busy /\ busy'
    /\ Len(text') <= 1
    /\ outcome' = "none"
    /\ UNCHANGED <<root, lim>>

Read ==
    /\ busy /\ busy'
    /\ ReadsOn
    /\ UNCHANGED <<root, outcome, lim>>

Accept ==
    LET result == ParseText(text', Deeper(lim))
    IN /\ result.ok
       /\ outcome' = IF result.next > Len(text') THEN "ok" ELSE "trailing"
       /\ root' = result.node

Reject ==
    /\ \A whole \in Sources : ~ParseText(whole, lim).ok
    /\ outcome' \notin {"none", "ok", "trailing"}
    /\ UNCHANGED root

Return ==
    /\ busy /\ ~busy'
    /\ ReadsOn
    /\ Accept \/ Reject
    /\ UNCHANGED lim

SetLimits == ~busy /\ UNCHANGED <<busy, text, ended, root, outcome>>

Next == Call \/ Read \/ Return \/ SetLimits
Spec == Init /\ [][Next]_vars

==============================================================================
