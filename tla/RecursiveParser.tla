--------------------------- MODULE RecursiveParser ---------------------------
(***************************************************************************)
(* The recursive descent half of Default_Parser: parseNodes, parseList and *)
(* parseDictionary, as functions of a whole text.  parseIterative hands    *)
(* containers to its own loop, so this half runs for a scalar root only;   *)
(* here it serves as the definition of the language the loop must accept.  *)
(*                                                                         *)
(* lim is a record of the limits in force: depth, length of strings,       *)
(* whether containers grow freely, capacity of those that do not.  A       *)
(* result is [ok, node, next]: next is the position after the value.       *)
(***************************************************************************)
EXTENDS BencodeNode

At(text, pos) == IF pos \in DOMAIN text THEN text[pos] ELSE EOF

Failure == [ok |-> FALSE, node |-> EmptyNode, next |-> 0]
Success(node, next) == [ok |-> TRUE, node |-> node, next |-> next]

FitsLength(l, lim) == l.kind = "string" /\ l.val <= lim.length

Scalar(text, pos, lim) ==
    LET l == At(text, pos)
    IN CASE l.kind = "integer" -> Success(IntegerNode(l.val), pos + 1)
         [] FitsLength(l, lim) -> Success(StringNode(l.val), pos + 1)
         [] OTHER -> Failure

------------------------------------------------------------------------------
(* parseList and parseDictionary: a loop over the entries of a container.  *)

\* The entries parsed so far and the position of the next one.
Started(pos) == [state |-> "reading", keys |-> <<>>, items |-> <<>>, next |-> pos]

HasRoom(items, lim) == lim.dynamic \/ Len(items) < lim.capacity

\* The last key is lastKey as well.  An equal key passes the test of the loop
\* and fails in appendSorted.
KeyFits(text, lim, loop) ==
    LET key == At(text, loop.next)
    IN FitsLength(key, lim) /\ (loop.keys # <<>> => loop.keys[Len(loop.keys)] < key.val)

(***************************************************************************)
(* One turn of the loop of a container of type type, where values[pos] is  *)
(* what parseNodes makes of the value at position pos.  A loop that has    *)
(* ended stays as it is.                                                   *)
(***************************************************************************)
Turn(text, lim, values, type, loop) ==
    LET keyed == type = "dictionary"
        value == values[IF keyed THEN loop.next + 1 ELSE loop.next]
    IN CASE loop.state # "reading" -> loop
         [] loop.state = "reading" /\ At(text, loop.next) = Token("end") ->
                [loop EXCEPT !.state = "done", !.next = @ + 1]
         [] OTHER ->
                IF (keyed => KeyFits(text, lim, loop)) /\ value.ok /\ HasRoom(loop.items, lim)
                THEN [state |-> "reading",
                      keys |-> IF keyed THEN Append(loop.keys, At(text, loop.next).val)
                              ELSE loop.keys,
                      items |-> Append(loop.items, value.node),
                      next |-> value.next]
                ELSE [loop EXCEPT !.state = "failed"]

\* The loop after each number of turns; a turn takes a lexeme at least.
Turns(text, lim, values, type, pos) ==
    LET turns[n \in 0..Len(text)] ==
            IF n = 0 THEN Started(pos) ELSE Turn(text, lim, values, type, turns[n - 1])
    IN turns

\* pos is the position after the opening byte.
ParseContainer(text, lim, values, type, pos) ==
    LET ended == Turns(text, lim, values, type, pos)[Len(text)]
    IN IF ended.state = "done"
       THEN Success(ContainerNode(type, ended.keys, ended.items), ended.next)
       ELSE Failure

------------------------------------------------------------------------------
(***************************************************************************)
(* parseNodes at every position of the text, for each number of levels     *)
(* that are left: lim.depth at the root, one less inside each container.   *)
(***************************************************************************)
ParseNodes(text, lim) ==
    LET nodes[level \in 0..lim.depth] ==
            [pos \in Nat |->
                LET kind == At(text, pos).kind
                IN IF level <= 1 THEN Failure
                   ELSE IF kind \in ContainerType
                   THEN ParseContainer(text, lim, nodes[level - 1], kind, pos + 1)
                   ELSE Scalar(text, pos, lim)]
    IN nodes

\* The result of parsing text from its first lexeme on.
ParseText(text, lim) == ParseNodes(text, lim)[lim.depth][1]

==============================================================================
