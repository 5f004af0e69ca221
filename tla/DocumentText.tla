---------------------------- MODULE DocumentText -----------------------------
(***************************************************************************)
(* The text of a document that statements built, and what the parser makes *)
(* of it under limits of its own.                                          *)
(***************************************************************************)
EXTENDS Document, DefaultStringify, RecursiveParser

CONSTANT
    Limits      \* the limits of the parser that reads the text

ASSUME LimitsAssumption ==
    /\ Limits = [depth |-> Limits.depth, length |-> Limits.length,
                 dynamic |-> Limits.dynamic, capacity |-> Limits.capacity]
    /\ Limits.depth \in Nat /\ Limits.length \in Nat
    /\ Limits.dynamic \in BOOLEAN /\ Limits.capacity \in Nat

Parsed(node) == ParseText(StringifyNodes(node), Limits)

\* A node that many levels below the root is within the limits; descent wants a
\* level to spare.
WithinLimits(node, down) ==
    /\ down + 1 < Limits.depth
    /\ node.type = "string" => node.val <= Limits.length
    /\ \A i \in DOMAIN node.keys : node.keys[i] <= Limits.length
    /\ Limits.dynamic \/ Len(node.items) <= Limits.capacity

(* A document without holes, within the limits of the parser, is written   *)
(* as text that parses back to it.                                         *)
CompleteDocumentRoundTrips ==
    /\ root # EmptyNode
    /\ \A reached \in Reached(root) :
          reached.node # HoleNode /\ WithinLimits(reached.node, Len(reached.path))
    => Parsed(root) = Success(root, Len(StringifyNodes(root)) + 1)

(* docs/API.md on stringify: "Write Bencode to a destination stream."      *)
StringifyWritesBencode == ~open /\ root # EmptyNode => Parsed(root).ok

==============================================================================
