----------------------------- MODULE WrittenText -----------------------------
(***************************************************************************)
(* What JSON, YAML and XML say a text means: readers, as a reference for   *)
(* the writers.  A reader of JSON or YAML returns the node found at a      *)
(* place of the text and the place behind it, or Unreadable.  They know as *)
(* much of the grammars as a tree of bencode needs.                        *)
(***************************************************************************)
EXTENDS Translators

CONSTANTS IntegerValues, StringNumbers      \* what a document may contain

Found(node, next) == [node |-> node, next |-> next]
Unreadable == Found(EmptyNode, 0)

At(text, i) == IF i \in DOMAIN text THEN text[i] ELSE "end of text"

IsInteger(ch) == \E v \in IntegerValues : ch = ToString(v)
IntegerIn(ch) == IntegerNode(CHOOSE v \in IntegerValues : ch = ToString(v))

IsCode(code) == \E ch \in Unprintables : code = Code(ch)
Coded(code) == CHOOSE ch \in Unprintables : code = Code(ch)

RECURSIVE SkipBlanks(_, _, _)
SkipBlanks(text, i, blanks) ==
    IF At(text, i) \in blanks THEN SkipBlanks(text, i + 1, blanks) ELSE i

------------------------------------------------------------------------------
(* Quoted strings, alike in JSON and YAML: on one line, and no control      *)
(* character in them as it is                                               *)

RECURSIVE Quoted(_, _, _)

\* The string whose characters go on at i, after those in read.
Quoted(text, i, read) ==
    CASE At(text, i) = "\"" ->
            IF \E s \in StringNumbers : Spelling[s] = read
            THEN Found(StringNode(CHOOSE s \in StringNumbers : Spelling[s] = read), i + 1)
            ELSE Unreadable
      [] At(text, i) = "\\" ->
            CASE At(text, i + 1) = "u" /\ IsCode(At(text, i + 2)) ->
                    Quoted(text, i + 3, Append(read, Coded(text[i + 2])))
              [] At(text, i + 1) \in {"\"", "\\"} ->
                    Quoted(text, i + 2, Append(read, text[i + 1]))
              [] At(text, i + 1) = "n" -> Quoted(text, i + 2, Append(read, "\n"))
              [] OTHER -> Unreadable
      [] At(text, i) \in {"end of text"} \cup Unprintables -> Unreadable
      [] OTHER -> Quoted(text, i + 1, Append(read, text[i]))

------------------------------------------------------------------------------
(* JSON *)

RECURSIVE JsonValue(_, _), JsonMembers(_, _, _)

JsonSkip(text, i) == SkipBlanks(text, i, {" ", "\n"})

Closing(type) == IF type = "list" THEN "]" ELSE "}"

\* The rest of a container, of which partial has been read, from a member on.
JsonMembers(text, i, partial) ==
    LET key == IF partial.type = "list" THEN Found(EmptyNode, i)
               ELSE IF At(text, i) = "\"" THEN Quoted(text, i + 1, <<>>) ELSE Unreadable
        colon == JsonSkip(text, key.next)
        item == CASE key = Unreadable -> Unreadable
                  [] partial.type = "list" -> JsonValue(text, i)
                  [] At(text, colon) = ":" -> JsonValue(text, colon + 1)
                  [] OTHER -> Unreadable
        more == ContainerNode(partial.type,
                    IF partial.type = "list" THEN <<>> ELSE Append(partial.keys, key.node.val),
                    Append(partial.items, item.node))
        after == JsonSkip(text, item.next)
    IN CASE item = Unreadable -> Unreadable
         [] At(text, after) = "," -> JsonMembers(text, JsonSkip(text, after + 1), more)
         [] At(text, after) = Closing(partial.type) -> Found(more, after + 1)
         [] OTHER -> Unreadable

JsonContainer(text, i, type) ==
    LET first == JsonSkip(text, i)
        empty == ContainerNode(type, <<>>, <<>>)
    IN IF At(text, first) = Closing(type) THEN Found(empty, first + 1)
       ELSE JsonMembers(text, first, empty)

JsonValue(text, start) ==
    LET i == JsonSkip(text, start)
        ch == At(text, i)
    IN CASE ch = "[" -> JsonContainer(text, i + 1, "list")
         [] ch = "{" -> JsonContainer(text, i + 1, "dictionary")
         [] ch = "\"" -> Quoted(text, i + 1, <<>>)
         [] IsInteger(ch) -> Found(IntegerIn(ch), i + 1)
         [] OTHER -> Unreadable

FromJson(text) ==
    LET value == JsonValue(text, 1)
    IN IF value.next = Len(text) + 1 THEN value.node ELSE EmptyNode

------------------------------------------------------------------------------
(* YAML: block collections by indentation, empty ones as [] and {} *)

RECURSIVE YamlValue(_, _, _, _), YamlItems(_, _, _, _)

YamlSkip(text, i) == SkipBlanks(text, i, {" ", "\n"})

\* Characters between the start of its line and position i.
Column(text, i) ==
    i - 1 - Max({0} \cup {j \in 1..(i - 1) : text[j] = "\n"})

\* A key at i: Found with the name as a string and the place behind the colon.
YamlName(text, i) ==
    LET name == IF At(text, i) = "\"" THEN Quoted(text, i + 1, <<>>) ELSE Unreadable
    IN IF name # Unreadable /\ At(text, name.next) = ":"
       THEN Found(name.node, name.next + 1) ELSE Unreadable

\* The rest of a block collection that starts in this column.
YamlItems(text, i, column, partial) ==
    LET name == IF partial.type = "list" THEN Found(EmptyNode, i + 2) ELSE YamlName(text, i)
        starts == /\ Column(text, i) = column
                  /\ partial.type = "list" => At(text, i) = "-" /\ At(text, i + 1) = " "
                  /\ name # Unreadable
        item == YamlValue(text, name.next, column, partial.type = "dictionary")
        more == ContainerNode(partial.type,
                    IF partial.type = "list" THEN <<>> ELSE Append(partial.keys, name.node.val),
                    Append(partial.items, item.node))
    IN CASE ~starts -> Found(partial, i)
         [] starts /\ item = Unreadable -> Unreadable
         [] OTHER -> YamlItems(text, YamlSkip(text, item.next), column, more)

\* A value must be indented more than its parent; as the value of a key a
\* block collection has to begin on a new line.
YamlValue(text, start, parent, newLine) ==
    LET i == YamlSkip(text, start)
        ch == At(text, i)
        column == Column(text, i)
        block == newLine => \E j \in start..(i - 1) : text[j] = "\n"
        empty == [type \in ContainerType |-> ContainerNode(type, <<>>, <<>>)]
    IN CASE column <= parent -> Unreadable
         [] ch = "-" /\ block -> YamlItems(text, i, column, empty["list"])
         [] YamlName(text, i) # Unreadable /\ block ->
                YamlItems(text, i, column, empty["dictionary"])
         [] ch = "\"" /\ YamlName(text, i) = Unreadable -> Quoted(text, i + 1, <<>>)
         [] ch = "[" /\ At(text, i + 1) = "]" -> Found(empty["list"], i + 2)
         [] ch = "{" /\ At(text, i + 1) = "}" -> Found(empty["dictionary"], i + 2)
         [] IsInteger(ch) -> Found(IntegerIn(ch), i + 1)
         [] OTHER -> Unreadable

FromYaml(text) ==
    LET value == YamlValue(text, 2, -1, FALSE)
        end == YamlSkip(text, value.next)
    IN IF text[1] = "---" /\ value # Unreadable /\ At(text, end) = "..." THEN value.node
       ELSE EmptyNode

------------------------------------------------------------------------------
(* XML 1.0: the texts between the tags, each with the names of the elements *)
(* around it, outermost first                                               *)

\* The names the writer gives, Row and root, are one character each.
Letters == {"a", "Row", "root"}
NameCharacters == Letters \cup {"-"}
IsName(name) == name # <<>> /\ name[1] \in Letters /\ ToSet(name) \subseteq NameCharacters

\* What no XML text may hold, not even by a reference to its code.
Forbidden == {"^A"}

\* What each reference stands for.
Referred ==
    [entity \in {<<"amp">>, <<"lt">>, <<"gt">>, <<"apos">>, <<"quot">>} |->
        CASE entity[1] = "amp" -> "&" [] entity[1] = "lt" -> "<" [] entity[1] = "gt" -> ">"
          [] entity[1] = "apos" -> "'" [] entity[1] = "quot" -> "\""]
    @@ [number \in {<<"#x", Code(ch)>> : ch \in Unprintables \ Forbidden} |-> Coded(number[2])]

\* The references the text may have behind an ampersand at i.
ReferencesAt(text, i) ==
    {ref \in DOMAIN Referred :
        /\ \A k \in DOMAIN ref : At(text, i + k) = ref[k]
        /\ At(text, i + Len(ref) + 1) = ";"}

Malformed == << << <<>>, <<"malformed">> >> >>

RECURSIVE NameFrom(_, _), XmlContent(_, _, _, _, _, _)

NameFrom(text, i) ==
    IF At(text, i) \in NameCharacters THEN <<text[i]>> \o NameFrom(text, i + 1) ELSE <<>>

\* The leaves of the text: those before i, and those from i on, inside the
\* elements of path.  read is the text since the last tag, and leaf says that
\* this was an opening one.
XmlContent(text, i, path, read, leaf, leaves) ==
    LET closes == At(text, i + 1) = "/"
        name == NameFrom(text, IF closes THEN i + 2 ELSE i + 1)
        tagEnd == SkipBlanks(text, i + Len(name) + (IF closes THEN 2 ELSE 1), {" ", "\n"})
    IN CASE At(text, i) = "end of text" -> IF path = <<>> THEN leaves ELSE Malformed
         [] At(text, i) # "<" /\ path = <<>> -> Malformed
         [] At(text, i) = "<" ->
                CASE ~IsName(name) \/ At(text, tagEnd) # ">" -> Malformed
                  [] closes /\ (path = <<>> \/ Last(path) # name) -> Malformed
                  [] closes /\ leaf ->
                        XmlContent(text, tagEnd + 1, Front(path), <<>>, FALSE,
                                   Append(leaves, <<path, read>>))
                  [] closes -> XmlContent(text, tagEnd + 1, Front(path), <<>>, FALSE, leaves)
                  [] path = <<>> /\ i > 2 -> Malformed
                  [] OTHER -> XmlContent(text, tagEnd + 1, Append(path, name), <<>>, TRUE, leaves)
         [] At(text, i) = "&" ->
                IF ReferencesAt(text, i) = {} THEN Malformed
                ELSE LET ref == CHOOSE ref \in ReferencesAt(text, i) : TRUE
                     IN XmlContent(text, i + Len(ref) + 2, path, Append(read, Referred[ref]),
                                   leaf, leaves)
         [] At(text, i) \in Forbidden -> Malformed
         [] OTHER -> XmlContent(text, i + 1, path, Append(read, text[i]), leaf, leaves)

FromXml(text) == XmlContent(text, 2, <<>>, <<>>, FALSE, <<>>)

==============================================================================
