-------------------------- MODULE DocumentContract ---------------------------
(***************************************************************************)
(* What a document promises the program that subscripts it: it maps paths  *)
(* to scalars, an assignment sets exactly what lies at and below its path, *)
(* and nothing else changes any scalar but a negative index, which empties *)
(* the list it is given to.                                                *)
(***************************************************************************)
EXTENDS Sequences, SequencesExt

CONSTANT Contents   \* what may be assigned: sets of [path, val]

VARIABLES
    leaves,   \* the scalars of the document: [path, val]
    path,     \* the subscripts of the running statement, or of the one that failed
    open      \* a statement runs

vars == <<leaves, path, open>>

Outside(p) == {leaf \in leaves : ~IsPrefix(p, leaf.path)}
Below(p, contents) == {[leaf EXCEPT !.path = p \o @] : leaf \in contents}

Subscript ==
    /\ open' \/ path' # <<>>
    /\ Len(path') <= 1 \/ (open /\ Front(path') = path)
    /\ UNCHANGED leaves

Assign ==
    /\ open /\ ~open'
    /\ \E contents \in Contents :
          leaves' = Outside(path) \cup Below(path, contents)

\* list[-1]: the path' of the statement ends in the negative index.
ClearList ==
    /\ ~open' /\ path' # <<>>
    /\ Last(path').by = "index" /\ Last(path').at < 0
    /\ leaves' = Outside(Front(path'))

EndStatement == open /\ ~open' /\ UNCHANGED leaves

Next == Subscript \/ Assign \/ ClearList \/ EndStatement
Spec == [][Next]_vars

==============================================================================
