----------------------------- MODULE XMLStringify ----------------------------
(***************************************************************************)
(* XML_Stringify: the XML text of a node tree.  A key is the name of an    *)
(* element; a list is a Row per entry, but a list with fewer than two      *)
(* entries is one empty Row.                                               *)
(***************************************************************************)
EXTENDS Translators

RECURSIVE XmlNodes(_)

Element(name, content) ==
    <<"<">> \o name \o <<">">> \o content \o <<"<", "/">> \o name \o <<">">>

ElementName(key) ==
    [i \in DOMAIN Plain(key) |-> IF Plain(key)[i] = " " THEN "-" ELSE Plain(key)[i]]

XmlList(node) ==
    IF Len(node.items) > 1
    THEN FlattenSeq([i \in DOMAIN node.items |-> Element(<<"Row">>, XmlNodes(node.items[i]))])
    ELSE Element(<<"Row">>, <<>>)

XmlDictionary(node) ==
    FlattenSeq([i \in DOMAIN node.items |->
        Element(ElementName(node.keys[i]), XmlNodes(node.items[i]))])

XmlNodes(node) ==
    CASE node.type = "dictionary" -> XmlDictionary(node)
      [] node.type = "list" -> XmlList(node)
      [] node.type = "integer" -> Digits(node.val)
      [] node.type = "string" -> XmlEscaped(node.val)
      [] node.type = "hole" -> <<>>

XmlText(node) == <<"<?xml?>">> \o Element(<<"root">>, XmlNodes(node))

==============================================================================
