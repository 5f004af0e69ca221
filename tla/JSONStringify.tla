---------------------------- MODULE JSONStringify ----------------------------
(***************************************************************************)
(* JSON_Stringify: the JSON text of a node tree.  Keys are not translated, *)
(* a hole contributes nothing but the comma after it.                      *)
(***************************************************************************)
EXTENDS Translators

RECURSIVE JsonNodes(_)

\* Mutant: a comma after every entry.
JsonCommaAlways(node, i) == <<",">>

\* The count of entries left is taken down before it is tested.
JsonComma(node, i) == IF Len(node.items) - i > 0 THEN <<",">> ELSE <<>>

JsonEntry(node, i) ==
    (IF node.type = "dictionary"
     THEN <<"\"">> \o Plain(node.keys[i]) \o <<"\"", " ", ":", " ">> ELSE <<>>)
    \o JsonNodes(node.items[i]) \o JsonComma(node, i)

JsonEntries(node) == FlattenSeq([i \in DOMAIN node.items |-> JsonEntry(node, i)])

JsonNodes(node) ==
    CASE node.type = "dictionary" -> <<"{">> \o JsonEntries(node) \o <<"}">>
      [] node.type = "list" -> <<"[">> \o JsonEntries(node) \o <<"]">>
      [] node.type = "integer" -> Digits(node.val)
      [] node.type = "string" -> <<"\"">> \o Escaped(node.val) \o <<"\"">>
      [] node.type = "hole" -> <<>>

==============================================================================
