------------------------------ MODULE Allocator ------------------------------
(***************************************************************************)
(* What a node relies on when it asks for the memory of a container: a     *)
(* cell is granted to one owner at a time, and comes back once.            *)
(***************************************************************************)
EXTENDS Naturals

CONSTANT Cells

VARIABLES
    granted,    \* cells that hold a live container
    grants      \* how many requests were granted

vars == <<granted, grants>>

Init == granted = {} /\ grants = 0

Grant(cell) == /\ cell \notin granted
               /\ granted' = granted \cup {cell}
               /\ grants' = grants + 1

Return(cell) == /\ cell \in granted
                /\ granted' = granted \ {cell}
                /\ UNCHANGED grants

Next == \E cell \in Cells : Grant(cell) \/ Return(cell)

Spec == Init /\ [][Next]_vars

==============================================================================
