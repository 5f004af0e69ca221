----------------------------- MODULE BencodeNode -----------------------------
(***************************************************************************)
(* The values the library works on: the nodes of a document tree and the   *)
(* lexemes of bencoded text.                                               *)
(*                                                                         *)
(* A node is a record with the same four fields whatever its type, so that *)
(* any two nodes can be compared.  A dictionary keeps its entries as two   *)
(* parallel sequences, keys and items; a list has no keys.                 *)
(*                                                                         *)
(* Integers stand for themselves.  String number n stands for the string   *)
(* of n equal letters: 0 is the empty string, n is also its length, and    *)
(* the order of the numbers is the byte order that std::string compares    *)
(* by.                                                                     *)
(***************************************************************************)
EXTENDS Integers, Sequences

ContainerType == {"list", "dictionary"}

MakeNode(type, val, keys, items) ==
    [type |-> type, val |-> val, keys |-> keys, items |-> items]

EmptyNode == MakeNode("empty", 0, <<>>, <<>>)
HoleNode == MakeNode("hole", 0, <<>>, <<>>)
IntegerNode(v) == MakeNode("integer", v, <<>>, <<>>)
StringNode(s) == MakeNode("string", s, <<>>, <<>>)
ContainerNode(type, keys, items) == MakeNode(type, 0, keys, items)

(***************************************************************************)
(* A reference into a tree is the sequence of slots that leads to its node *)
(* from the root.                                                          *)
(***************************************************************************)

\* The nodes a reference leads through, from the root on.
Along(tree, ref) ==
    LET along[i \in 0..Len(ref)] == IF i = 0 THEN tree ELSE along[i - 1].items[ref[i]]
    IN along

Leads(tree, ref) ==
    LET along == Along(tree, ref)
    IN \A i \in DOMAIN ref : ref[i] \in DOMAIN along[i - 1].items

NodeAt(tree, ref) == Along(tree, ref)[Len(ref)]

References(tree) == {ref \in Seq(Nat) : Leads(tree, ref)}

(***************************************************************************)
(* A lexeme is what one step of the parser finds at the current position   *)
(* of its source: a marker byte, a well formed scalar, or the first defect *)
(* that makes a scalar unreadable.                                         *)
(*   "list", "dictionary", "end"   the bytes l, d and e                    *)
(*   "integer", "string"           a complete scalar of value val          *)
(*   "cut"            a string of length val whose bytes run past the end  *)
(*                    of the source                                        *)
(*   "huge integer"   an integer that does not fit 64 bits                 *)
(*   "huge length"    a string length that does not fit 64 bits            *)
(*   "unterminated"   an integer not followed by e                         *)
(*   "malformed"      anything else no scalar can start with or contain    *)
(*   "eof"            nothing is left                                      *)
(***************************************************************************)
LexemeKind == {"list", "dictionary", "end", "integer", "string", "cut",
               "huge integer", "huge length", "unterminated", "malformed",
               "eof"}

Lexeme == [kind : LexemeKind, val : Nat]

Token(kind) == [kind |-> kind, val |-> 0]
EOF == Token("eof")

==============================================================================
