------------------------------ MODULE Traversal ------------------------------
(***************************************************************************)
(* Bencode::traverse with the action of the examples, Bencode_Analyzer:   *)
(* traverseNodes visits a node, then its entries in order, and throws at   *)
(* the first node it has no callback for.                                  *)
(*                                                                         *)
(* walk is the stack of traverseNodes; a callback is a step.  Callbacks    *)
(* get the nodes const, through a const Bencode or not, so the tree stays  *)
(* as it is.  One analyzer serves any number of traversals; its sets hold  *)
(* views into the documents, which all live as long as it does.            *)
(***************************************************************************)
EXTENDS BencodeNode, SequencesExt

CONSTANTS
    Roots,          \* the documents that are traversed
    SizeOf,         \* sizeof the struct of a type of node and of "node", "entry"
    MaxCounted      \* bound: no further document once this many nodes are counted

ASSUME TraversalAssumption ==
    /\ \A type \in ContainerType \cup {"integer", "string", "node", "entry"} :
          SizeOf[type] \in Nat
    /\ MaxCounted \in Nat

VARIABLES
    root,
    walk,           \* frames of traverseNodes, the innermost first
    outcome,        \* "none", "running", "ok", "Error" of the library, or
                    \* "thrown" by a callback
    analyzer,       \* the members of Bencode_Analyzer
    calls,          \* history: the callbacks of this traversal, oldest first
    before          \* history: the analyzer when this traversal began

vars == <<root, walk, outcome, analyzer, calls, before>>

FreshAnalyzer ==
    [totalNodes |-> 0, sizeInBytes |-> 0,
     totalDictionarys |-> 0, maxDictionarySize |-> 0,
     totalKeys |-> 0, maxKeySize |-> 0, uniqueKeys |-> {},
     totalLists |-> 0, maxListSize |-> 0,
     totalStrings |-> 0, uniqueStrings |-> {}, maxStringSize |-> 0,
     totalIntegers |-> 0]

Init == /\ root = EmptyNode
        /\ walk = <<>> /\ outcome = "none"
        /\ analyzer = FreshAnalyzer /\ before = FreshAnalyzer
        /\ calls = <<>>

------------------------------------------------------------------------------
(* Bencode_Analyzer: the effect of each callback *)

Larger(a, b) == IF a < b THEN b ELSE a

\* The size of string number s is s.
OnString(a, node) ==
    [a EXCEPT !.totalStrings = @ + 1,
              !.sizeInBytes = @ + SizeOf["string"] + node.val,
              !.maxStringSize = Larger(node.val, a.maxKeySize),
              !.uniqueStrings = @ \cup {node.val}]

OnInteger(a, node) ==
    [a EXCEPT !.totalIntegers = @ + 1,
              !.sizeInBytes = @ + SizeOf["integer"]]

OnList(a, node) ==
    [a EXCEPT !.totalLists = @ + 1,
              !.sizeInBytes = @ + SizeOf["list"] + Len(node.items) * SizeOf["node"],
              !.maxListSize = Larger(Len(node.items), @)]

\* One turn of the loop over the entries of a dictionary.
CountKey(a, key) ==
    [a EXCEPT !.uniqueKeys = @ \cup {key},
              !.maxKeySize = Larger(key, @),
              !.sizeInBytes = @ + key + SizeOf["entry"],
              !.totalKeys = @ + 1]

CountKeys(a, keys) ==
    LET after[i \in 0..Len(keys)] ==
            IF i = 0 THEN a ELSE CountKey(after[i - 1], keys[i])
    IN after[Len(keys)]

OnDictionary(a, node) ==
    CountKeys([a EXCEPT !.totalDictionarys = @ + 1,
                        !.sizeInBytes = @ + SizeOf["dictionary"],
                        !.maxDictionarySize = Larger(Len(node.keys), @)],
              node.keys)

\* Mutant: the entries of a dictionary are counted as nodes already.
OnNodeTwice(a, node) == [a EXCEPT !.totalNodes = @ + 1 + Len(node.keys)]

OnNode(a, node) == [a EXCEPT !.totalNodes = @ + 1]

------------------------------------------------------------------------------
(* traverseNodes *)

\* entry is 0 before onNode, -1 before the callback for the type, then the
\* number of the entry that is next.
Frame(node) == [node |-> node, entry |-> 0]

Called(callback, node) == calls' = Append(calls, <<callback, node>>)

\* The analyzer is the one of the traversals before.
traverse(tree) ==
    /\ outcome # "running" /\ analyzer.totalNodes < MaxCounted
    /\ root' = tree
    /\ calls' = <<>> /\ before' = analyzer
    /\ IF tree = EmptyNode
       THEN outcome' = "Error" /\ walk' = <<>>
       ELSE outcome' = "running" /\ walk' = <<Frame(tree)>>
    /\ UNCHANGED analyzer

Top == walk[1]
Outer == Tail(walk)

Entering == outcome = "running" /\ Top.entry = 0
Typed(type) == outcome = "running" /\ Top.entry = -1 /\ Top.node.type = type

VisitNode ==
    /\ Entering
    /\ Called("onNode", Top.node)
    /\ analyzer' = OnNode(analyzer, Top.node)
    /\ walk' = <<[Top EXCEPT !.entry = -1]>> \o Outer
    /\ UNCHANGED <<root, outcome, before>>

Leave == /\ walk' = Outer
         /\ outcome' = IF Outer = <<>> THEN "ok" ELSE "running"

VisitInteger ==
    /\ Typed("integer")
    /\ Called("onInteger", Top.node)
    /\ analyzer' = OnInteger(analyzer, Top.node)
    /\ Leave
    /\ UNCHANGED <<root, before>>

VisitString ==
    /\ Typed("string")
    /\ Called("onString", Top.node)
    /\ analyzer' = OnString(analyzer, Top.node)
    /\ Leave
    /\ UNCHANGED <<root, before>>

VisitContainer ==
    /\ \/ /\ Typed("dictionary")
          /\ Called("onDictionary", Top.node)
          /\ analyzer' = OnDictionary(analyzer, Top.node)
       \/ /\ Typed("list")
          /\ Called("onList", Top.node)
          /\ analyzer' = OnList(analyzer, Top.node)
    /\ walk' = <<[Top EXCEPT !.entry = 1]>> \o Outer
    /\ UNCHANGED <<root, outcome, before>>

\* Mutant: the first entry of a list is taken for the list itself.
NextEntrySkipping ==
    /\ outcome = "running" /\ Top.entry >= 1
    /\ IF Top.entry < Len(Top.node.items)
       THEN /\ walk' = <<Frame(Top.node.items[Top.entry + 1]),
                         [Top EXCEPT !.entry = @ + 1]>> \o Outer
            /\ UNCHANGED outcome
       ELSE Leave
    /\ UNCHANGED <<root, analyzer, calls, before>>

\* Mutant: the loop does not look whether there is another entry.
NextEntryEndless ==
    /\ outcome = "running" /\ Top.entry \in DOMAIN Top.node.items
    /\ walk' = <<Frame(Top.node.items[Top.entry]),
                 [Top EXCEPT !.entry = @ + 1]>> \o Outer
    /\ UNCHANGED <<root, outcome, analyzer, calls, before>>

NextEntry ==
    /\ outcome = "running" /\ Top.entry >= 1
    /\ IF Top.entry <= Len(Top.node.items)
       THEN /\ walk' = <<Frame(Top.node.items[Top.entry]),
                         [Top EXCEPT !.entry = @ + 1]>> \o Outer
            /\ UNCHANGED outcome
       ELSE Leave
    /\ UNCHANGED <<root, analyzer, calls, before>>

UnknownType ==
    /\ Typed("hole")
    /\ outcome' = "Error" /\ walk' = <<>>
    /\ UNCHANGED <<root, analyzer, calls, before>>

\* A callback of any action may throw; an analyzer that does has not counted
\* the node.
CallbackThrows ==
    /\ Entering \/ \E type \in ContainerType \cup {"integer", "string"} : Typed(type)
    /\ outcome' = "thrown" /\ walk' = <<>>
    /\ UNCHANGED <<root, analyzer, calls, before>>

Visit == \/ VisitNode \/ VisitInteger \/ VisitString \/ VisitContainer
         \/ NextEntry \/ UnknownType

Next == \/ \E tree \in Roots : traverse(tree)
        \/ Visit \/ CallbackThrows

\* The thread that called goes on; no callback has to throw.
Spec == Init /\ [][Next]_vars /\ WF_vars(Visit)
------------------------------------------------------------------------------
(* Properties. *)

\* The nodes at and below a node whose entries have the orders inner.
NodeOrder(node, inner) == <<node>> \o FlattenSeq(inner)

\* The nodes of a tree, each before its entries.
Preorder(tree) ==
    LET order[ref \in References(tree)] ==
            LET node == NodeAt(tree, ref)
            IN NodeOrder(node, [i \in DOMAIN node.items |-> order[Append(ref, i)]])
    IN order[<<>>]

HolesIn(nodes) == {i \in DOMAIN nodes : nodes[i].type = "hole"}
Holes(tree) == HolesIn(Preorder(tree))

CallbackFor(node) ==
    CASE node.type = "integer" -> << <<"onInteger", node>> >>
      [] node.type = "string" -> << <<"onString", node>> >>
      [] node.type = "dictionary" -> << <<"onDictionary", node>> >>
      [] node.type = "list" -> << <<"onList", node>> >>
      [] OTHER -> <<>>

CallsFor(nodes) ==
    FlattenSeq([i \in DOMAIN nodes |-> << <<"onNode", nodes[i]>> >> \o CallbackFor(nodes[i])])

\* The callbacks up to the first hole, which gets an onNode as well.
ExpectedCalls(tree) ==
    LET nodes == Preorder(tree)
        holes == HolesIn(nodes)
    IN CallsFor(IF holes = {} THEN nodes ELSE SubSeq(nodes, 1, Min(holes)))

(* Callbacks come in the order of the nodes in the text of the document, a  *)
(* node before its entries; a traversal that returns has made them all, and *)
(* one that throws of its own accord stopped at the first hole, the empty   *)
(* document being refused before any callback.                              *)
CallsFollowTree ==
    IF root = EmptyNode THEN calls = <<>>
    ELSE /\ IsPrefix(calls, ExpectedCalls(root))
         /\ outcome = "ok" => Holes(root) = {}
         /\ outcome = "Error" => Holes(root) # {}
         /\ outcome \in {"ok", "Error"} => calls = ExpectedCalls(root)

\* The sum of a sequence of numbers.
Total(numbers) ==
    LET total[i \in 0..Len(numbers)] == IF i = 0 THEN 0 ELSE total[i - 1] + numbers[i]
    IN total[Len(numbers)]

OfType(nodes, type) == {nodes[i] : i \in {j \in DOMAIN nodes : nodes[j].type = type}}

CountOf(nodes, type) == Total([i \in DOMAIN nodes |-> IF nodes[i].type = type THEN 1 ELSE 0])

KeysOf(node) == {node.keys[i] : i \in DOMAIN node.keys}

\* Bytes of a node with those of its keys; the nodes of dictionary entries are
\* part of the entries, those of list elements are counted on their own.
Bytes(node) ==
    SizeOf[node.type] + (IF node.type = "string" THEN node.val ELSE 0)
    + (IF node.type = "list" THEN Len(node.items) * SizeOf["node"] ELSE 0)
    + Total([i \in DOMAIN node.keys |-> node.keys[i] + SizeOf["entry"]])

LastString(nodes, i) ==
    /\ nodes[i].type = "string"
    /\ \A j \in DOMAIN nodes : nodes[j].type = "string" => j <= i

\* The keys of the dictionaries among the first nodes.
KeysUpTo(nodes, i) ==
    UNION {KeysOf(nodes[j]) : j \in {k \in DOMAIN nodes : k <= i /\ nodes[k].type = "dictionary"}}

\* A string is compared with the longest key, not with the longest string: what
\* stays is the size of the last string, or of the longest key known by then.
StringSizeKept(from, nodes, to) ==
    /\ OfType(nodes, "string") = {} => to.maxStringSize = from.maxStringSize
    /\ \A i \in DOMAIN nodes : LastString(nodes, i) =>
          to.maxStringSize = Max({0, nodes[i].val} \cup from.uniqueKeys \cup KeysUpTo(nodes, i))

\* to is the analyzer from after a document with the given nodes.
AddsUp(from, nodes, to) ==
    /\ to.totalNodes = from.totalNodes + Len(nodes)
    /\ to.totalIntegers = from.totalIntegers + CountOf(nodes, "integer")
    /\ to.totalStrings = from.totalStrings + CountOf(nodes, "string")
    /\ to.totalLists = from.totalLists + CountOf(nodes, "list")
    /\ to.totalDictionarys = from.totalDictionarys + CountOf(nodes, "dictionary")
    /\ to.totalKeys = from.totalKeys + Total([i \in DOMAIN nodes |-> Len(nodes[i].keys)])
    /\ to.sizeInBytes = from.sizeInBytes + Total([i \in DOMAIN nodes |-> Bytes(nodes[i])])
    /\ to.uniqueStrings = from.uniqueStrings \cup {node.val : node \in OfType(nodes, "string")}
    /\ to.uniqueKeys =
         from.uniqueKeys \cup UNION {KeysOf(node) : node \in OfType(nodes, "dictionary")}
    /\ to.maxKeySize = Max({0} \cup to.uniqueKeys)
    /\ to.maxListSize =
         Max({from.maxListSize} \cup {Len(node.items) : node \in OfType(nodes, "list")})
    /\ to.maxDictionarySize =
         Max({from.maxDictionarySize} \cup {Len(node.keys) : node \in OfType(nodes, "dictionary")})
    /\ StringSizeKept(from, nodes, to)

(* When a traversal returns, the analyzer's numbers are those of the        *)
(* documents before plus this one's: no node is missed or counted twice,    *)
(* and one analyzer serves several documents.  maxStringSize alone is no    *)
(* such number: of the strings it keeps the last one only.                  *)
AnalyzerAddsUp == outcome = "ok" => AddsUp(before, Preorder(root), analyzer)

\* The traversal ends, by its last node or by an exception.
TraversalEnds == outcome = "running" ~> outcome # "running"

==============================================================================
