------------------------------ MODULE VectorCalls ------------------------------
(***************************************************************************)
(* The calls that change a vector, with their arguments, as its caller may *)
(* make them: a position points into the array or to its end, and a        *)
(* reference to an entry stands for one that is there.                     *)
(***************************************************************************)
EXTENDS Integers

CONSTANTS
    Capacity,
    Blank           \* T(): what resize fills up with

\* place is a position, an index or, for resize, the new size.
Call(operation, place, value) == [operation |-> operation, place |-> place, value |-> value]

None == Call("none", 0, Blank)

\* The calls that put one of these values into a vector of this length, and
\* those that put in none.  All sizes that are too large are as good as one.
Calls(values, length) ==
    [operation : {"emplace_back", "push_back"}, place : {0}, value : values]
        \cup [operation : {"insert"}, place : 0..Capacity, value : values]
        \cup [operation : {"assign"}, place : 0..(length - 1), value : values]
        \cup [operation : {"resize"}, place : 0..(Capacity + 1), value : {Blank}]
        \cup {Call("clear", 0, Blank)}

==============================================================================
