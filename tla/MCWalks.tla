------------------------------- MODULE MCWalks -------------------------------
(***************************************************************************)
(* Walks over small documents: the traversal with its analyzer, and the    *)
(* JSON, XML and YAML texts, each against a definition that does not walk  *)
(* the way the code does.                                                  *)
(***************************************************************************)
EXTENDS Traversal, JSONStringify, XMLStringify, YAMLStringify, WrittenText

MCSpelling == [s \in 0..6 |-> CASE s = 0 -> <<>>
                                [] s = 1 -> <<"a">>
                                [] s = 2 -> <<"a", " ">>
                                [] s = 3 -> <<"<", "&", "^A">>
                                [] s = 4 -> <<"a", "\"", ",", "a">>
                                [] s = 5 -> <<"<", "&", ">", "'", "\n">>
                                [] s = 6 -> <<"a", "\\", "n", "a", "a", "\n">>]
MCSizeOf == [integer |-> 1, string |-> 2, list |-> 3, dictionary |-> 4,
             node |-> 5, entry |-> 6]

\* Lists and dictionaries of up to two of the given nodes.
Containers(firsts, seconds) ==
    {ContainerNode("list", <<>>, items) :
        items \in {<<>>} \cup {<<a>> : a \in firsts}
                  \cup {<<a, b>> : a \in firsts, b \in seconds}}
    \cup {ContainerNode("dictionary", <<1, 2>>, <<a, b>>) : a \in firsts, b \in seconds}
    \cup {ContainerNode("dictionary", <<2>>, <<a>>) : a \in firsts}
    \cup {ContainerNode("dictionary", <<>>, <<>>)}

MCScalars == {IntegerNode(v) : v \in IntegerValues} \cup {StringNode(s) : s \in StringNumbers}
Flat == Containers({IntegerNode(7), StringNode(2), HoleNode}, {IntegerNode(7), HoleNode})
Texts == Containers({StringNode(s) : s \in StringNumbers}, {StringNode(3), StringNode(5)})
Keyed == {ContainerNode("dictionary", <<key>>, <<IntegerNode(7)>>) : key \in StringNumbers}
         \cup {ContainerNode("dictionary", <<1, key>>, <<StringNode(5), list>>) :
                  key \in StringNumbers \ {1},
                  list \in {ContainerNode("list", <<>>, <<>>),
                            ContainerNode("list", <<>>, <<IntegerNode(7), StringNode(2)>>)}}
Deep == Containers(Flat, {IntegerNode(7), ContainerNode("list", <<>>, <<IntegerNode(7)>>)})
Deepest == Containers({ContainerNode("list", <<>>, <<node>>) : node \in Flat}
                      \cup {ContainerNode("dictionary", <<1>>, <<node>>) : node \in Flat},
                      {IntegerNode(7)})

MCRoots == {EmptyNode} \cup MCScalars \cup Flat \cup Texts \cup Keyed \cup Deep \cup Deepest

------------------------------------------------------------------------------
(* The writers *)

\* The text of a document does not depend on the walk: look at it once.
Written == outcome = "running" /\ calls = <<>> /\ Holes(root) = {}

Holds(s, characters) == ToSet(Plain(s)) \cap characters # {}
Strings(tree) == {node.val : node \in OfType(Preorder(tree), "string")}
Keys(tree) == UNION {KeysOf(node) : node \in ToSet(Preorder(tree))}

\* Neither the translator nor the writers escape quotes and backslashes, and
\* keys are not translated at all.
Quotable(tree) ==
    /\ \A s \in Strings(tree) : ~Holds(s, {"\"", "\\"})
    /\ \A key \in Keys(tree) : ~Holds(key, {"\"", "\\"} \cup Unprintables)

JsonMeans(tree) == FromJson(JsonNodes(tree)) = tree

(* The JSON text of a complete document is JSON that means the document if  *)
(* and only if no string holds a quote or a backslash and no key a quote, a *)
(* backslash or an unprintable character: commas, colons and brackets are   *)
(* right for every nesting, and escaping goes wrong in no other case.       *)
JsonMeansQuotable == Written => (JsonMeans(root) <=> Quotable(root))

EmptyBelowKey(tree) ==
    \E node \in OfType(Preorder(tree), "dictionary") :
        \E i \in DOMAIN node.items :
            node.items[i].type \in ContainerType /\ node.items[i].items = <<>>

YamlMeans(tree) == FromYaml(YamlText(tree)) = tree

(* The lines and the indentation of the YAML text of a complete document    *)
(* give the document back, lists in lists and dictionaries in lists         *)
(* included, if and only if its strings and keys need no escape as in JSON  *)
(* and no empty container is the value of a key: its [] or {} comes on a    *)
(* line of its own without indentation.                                     *)
YamlMeansIndented == Written => (YamlMeans(root) <=> Quotable(root) /\ ~EmptyBelowKey(root))

RECURSIVE XmlLeaves(_, _)

\* The scalars below a node, and its empty containers, with the names of the
\* elements around them.
XmlLeaves(node, path) ==
    CASE node.type = "integer" -> << <<path, Digits(node.val)>> >>
      [] node.type = "string" -> << <<path, Plain(node.val)>> >>
      [] node.type = "list" /\ node.items = <<>> -> << <<Append(path, <<"Row">>), <<>> >> >>
      [] node.type = "list" /\ node.items # <<>> ->
            FlattenSeq([i \in DOMAIN node.items |->
                XmlLeaves(node.items[i], Append(path, <<"Row">>))])
      [] node.type = "dictionary" /\ node.items = <<>> -> << <<path, <<>> >> >>
      [] OTHER -> FlattenSeq([i \in DOMAIN node.items |->
                      XmlLeaves(node.items[i], Append(path, ElementName(node.keys[i])))])

XmlMeans(tree) == FromXml(XmlText(tree)) = XmlLeaves(tree, << <<"root">> >>)

\* A list of one entry is taken for an empty one, which loses the entry unless
\* nothing is written for it anyway.
LosesEntry(node) ==
    Len(node.items) = 1 /\ XmlLeaves(node.items[1], <<>>) # << << <<>>, <<>> >> >>

(* The XML text of a complete document is well formed and holds every       *)
(* scalar, under its keys and in its order, if and only if every key, with  *)
(* dashes for spaces, is a name, no string holds a control character XML    *)
(* forbids, and no list of one entry loses it.                              *)
XmlMeansNamed ==
    Written =>
        (XmlMeans(root) <=>
            /\ \A s \in Strings(root) : ~Holds(s, Forbidden)
            /\ \A key \in Keys(root) : IsName(ElementName(key))
            /\ \A node \in OfType(Preorder(root), "list") : ~LosesEntry(node))

==============================================================================
