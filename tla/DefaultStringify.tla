-------------------------- MODULE DefaultStringify ---------------------------
(***************************************************************************)
(* Default_Stringify: the bencoded text of a node tree, as lexemes.        *)
(* A hole contributes nothing.                                             *)
(***************************************************************************)
EXTENDS BencodeNode, SequencesExt

Text(kind, val) == << [kind |-> kind, val |-> val] >>

\* What precedes entry i of a container: its key, if it has one.
KeyText(node, i) ==
    IF node.type = "dictionary" THEN Text("string", node.keys[i]) ELSE <<>>

\* The text of a node whose entries have the texts inner.
NodeText(node, inner) ==
    CASE node.type \in ContainerType ->
            Text(node.type, 0)
            \o FlattenSeq([i \in DOMAIN node.items |-> KeyText(node, i) \o inner[i]])
            \o Text("end", 0)
      [] node.type \in {"integer", "string"} -> Text(node.type, node.val)
      [] OTHER -> <<>>

\* The text of the node at each reference into tree.
StringifyNodes(tree) ==
    LET text[ref \in References(tree)] ==
            LET node == NodeAt(tree, ref)
            IN NodeText(node, [i \in DOMAIN node.items |-> text[Append(ref, i)]])
    IN text[<<>>]

==============================================================================
