----------------------------- MODULE YAMLStringify ---------------------------
(***************************************************************************)
(* YAML_Stringify: the YAML text of a node tree.  The indentation of a     *)
(* line is written only if the destination's last character ended a line,  *)
(* so each operator is given the text so far and returns it extended.      *)
(***************************************************************************)
EXTENDS Translators

RECURSIVE YamlNodes(_, _, _), YamlEntries(_, _, _, _)

\* Mutant: the indentation is written wherever the destination is.
CalculateIndentAlways(text, indent) == [i \in 1..indent |-> " "]

CalculateIndent(text, indent) ==
    IF Last(text) = "\n" THEN [i \in 1..indent |-> " "] ELSE <<>>

YamlKey(node, i) ==
    <<"\"">> \o Plain(node.keys[i]) \o <<"\"", ":", " ">>
    \o (IF node.items[i].type \in ContainerType THEN <<"\n">> ELSE <<>>)

\* The text after the entries of a container from number i on.
YamlEntries(text, node, i, indent) ==
    IF i > Len(node.items) THEN text
    ELSE LET start == text \o CalculateIndent(text, indent)
                      \o (IF node.type = "dictionary" THEN YamlKey(node, i) ELSE <<"-", " ">>)
         IN YamlEntries(YamlNodes(start, node.items[i], indent + 2), node, i + 1, indent)

YamlNodes(text, node, indent) ==
    CASE node.type \in ContainerType /\ node.items # <<>> -> YamlEntries(text, node, 1, indent)
      [] node.type = "dictionary" /\ node.items = <<>> -> text \o <<"{", "}", "\n">>
      [] node.type = "list" /\ node.items = <<>> -> text \o <<"[", "]", "\n">>
      [] node.type = "integer" -> text \o Digits(node.val) \o <<"\n">>
      [] node.type = "string" -> text \o <<"\"">> \o Escaped(node.val) \o <<"\"", "\n">>
      [] node.type = "hole" -> text

YamlText(node) == YamlNodes(<<"---", "\n">>, node, 0) \o <<"...", "\n">>

==============================================================================
