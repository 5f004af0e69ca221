------------------------------- MODULE Source --------------------------------
(***************************************************************************)
(* ISource as the parsers use it: the bytes of an input one at a time, the *)
(* next one visible before it is consumed.  This is BufferSource, whose    *)
(* whole state is a position.  A source that reads from a device may also  *)
(* end early, until it is reset, and may be closed.                        *)
(***************************************************************************)
EXTENDS Integers, Sequences

CONSTANT CanFail    \* the device may fail to deliver bytes that are there

VARIABLES
    bytes,      \* the input
    position,   \* how many bytes were consumed
    ended,      \* no more is delivered before the next reset
    closed,
    answer      \* the last call and what it returned

vars == <<bytes, position, ended, closed, answer>>

EOF == -1

\* A byte above 127 is a negative char, and the highest one equals EOF.
AsChar(byte) == IF byte > 127 THEN byte - 256 ELSE byte

Init == position = 0 /\ ended = FALSE /\ closed \in BOOLEAN /\ answer = <<"none", 0>>

\* Every call that looks at the input may find that the device has failed.
Looked == /\ ended' \in {ended} \cup (IF CanFail THEN {TRUE} ELSE {})
          /\ UNCHANGED <<bytes, closed>>

Left == ~ended' /\ ~closed /\ position < Len(bytes)

current == /\ Looked /\ UNCHANGED position
           /\ answer' = <<"current", IF Left THEN AsChar(bytes[position + 1]) ELSE EOF>>

more == /\ Looked /\ UNCHANGED position
        /\ answer' = <<"more", Left>>

next == /\ Looked
        /\ position' = IF Left THEN position + 1 ELSE position
        /\ answer' = <<"next", IF Left THEN "ok" ELSE "Error">>

reset == /\ position' = IF closed THEN position ELSE 0
         /\ ended' = FALSE
         /\ answer' = <<"reset", "ok">>
         /\ UNCHANGED <<bytes, closed>>

close == /\ closed' = TRUE
         /\ position' = 0 /\ ended' = FALSE
         /\ answer' = <<"close", "ok">>
         /\ UNCHANGED bytes

\* A source is made for an input when the one before is closed.
construct == /\ closed /\ closed' = FALSE
             /\ answer' = <<"none", 0>>
             /\ UNCHANGED <<bytes, position, ended>>

\* Without a source the input is free to change.
rewrite == closed /\ UNCHANGED <<position, ended, closed, answer>>

Next == current \/ more \/ next \/ reset \/ close \/ construct \/ rewrite

Spec == Init /\ [][Next]_vars

==============================================================================
