------------------------------ MODULE Document -------------------------------
(***************************************************************************)
(* Building and reading a document through operator[]: statements such as  *)
(*     doc["a"]["b"][2] = 7;                                               *)
(* A statement takes a reference into the tree one subscript at a time and *)
(* ends with an assignment or by dropping the reference; each subscript    *)
(* may throw.  The subscripts of Bencode and of Node differ: the first     *)
(* creates a missing dictionary entry, the second only turns a hole into   *)
(* a container.  Bencode's const subscripts call the non-const ones of     *)
(* Bencode_Impl, so they are the same steps.                               *)
(*                                                                         *)
(* An index is the int the code converts the caller's size_t to.           *)
(***************************************************************************)
EXTENDS BencodeNode, FiniteSets, SequencesExt

CONSTANTS
    DynamicAllocation,      \* BENCODE_ENABLE_DYNAMIC_ALLOCATION
    MaxContainerSize,       \* BENCODE_MAX_CONTAINER_SIZE
    Keys,                   \* keys subscripts are given
    Indices,                \* indices subscripts are given
    Scalars,                \* scalar nodes that are assigned
    ListInitializers,       \* sequences of nodes
    DictionaryInitializers, \* sequences of pairs <<key, node>>
    MaxSubscripts,          \* bound: subscripts in one statement
    Depths                  \* how deep the properties look: Nat, or a depth below which
                            \* a small instance has no nodes

ASSUME DocumentAssumption ==
    /\ DynamicAllocation \in BOOLEAN
    /\ MaxContainerSize \in Nat \ {0}
    /\ Keys \subseteq Nat
    /\ Indices \subseteq Int
    /\ Depths \subseteq Nat

\* A node as the code keeps it: the binary searches of Dictionary rely on keys
\* that ascend, and a null variant stands in no container.
WellFormed(node) ==
    /\ node = MakeNode(node.type, node.val, node.keys, node.items)
    /\ node.type \in ContainerType \cup {"integer", "string", "hole", "empty"}
    /\ CASE node.type = "integer" -> node.val \in Int
         [] node.type = "string" -> node.val \in Nat
         [] OTHER -> node.val = 0
    /\ node.keys \in Seq(Nat)
    /\ \A i, j \in DOMAIN node.keys : i < j => node.keys[i] < node.keys[j]
    /\ Len(node.keys) = IF node.type = "dictionary" THEN Len(node.items) ELSE 0
    /\ node.type \notin ContainerType => node.items = <<>>

\* What callers put into a document: nodes without empty ones among them, each
\* with the nodes inside it.
Elements ==
    Scalars \cup UNION {Range(list) : list \in ListInitializers}
            \cup {pair[2] : pair \in UNION {Range(list) : list \in DictionaryInitializers}}

ASSUME ElementsAssumption ==
    /\ \A node \in Elements : WellFormed(node) /\ node.items \in Seq(Elements)
    /\ EmptyNode \notin Elements
    /\ \A list \in ListInitializers : list \in Seq(Elements)
    /\ \A list \in DictionaryInitializers : list \in Seq(Nat \X Elements)

VARIABLES
    root,     \* Bencode_Impl::bNodeRoot
    open,     \* a statement holds a reference
    slots,    \* the reference: slots from the root to its node
    path,     \* history: the subscripts of the running statement, or of the one that failed
    outcome   \* how the last statement ended, "none" while one runs

vars == <<root, open, slots, path, outcome>>

\* The exceptions a subscript or an assignment ends with.
NodeError == "Node::Error"
CapacityError == "std::length_error or std::runtime_error"

------------------------------------------------------------------------------
(* References. *)

WithItem(node, slot, item) == [node EXCEPT !.items[slot] = item]

\* The nodes of Along once the last has been replaced by node.
Rebuilt(tree, ref, node) ==
    LET rebuilt[i \in 0..Len(ref)] ==
            IF i = Len(ref) THEN node
            ELSE WithItem(Along(tree, ref)[i], ref[i + 1], rebuilt[i + 1])
    IN rebuilt

\* tree with the node that ref leads to replaced.
WithNodeAt(tree, ref, node) == Rebuilt(tree, ref, node)[0]

------------------------------------------------------------------------------
(* Containers. *)

\* The position of the first key that is not less than key.
LowerBound(keys, key) == 1 + Cardinality({i \in DOMAIN keys : keys[i] < key})

HasKey(node, key) == key \in Range(node.keys)

Full(node) == ~DynamicAllocation /\ Len(node.items) >= MaxContainerSize

\* How Dictionary::add and List::add end for a node that takes another entry.
AddFault(node, key) ==
    IF HasKey(node, key) THEN NodeError
    ELSE IF Full(node) THEN CapacityError ELSE "ok"

\* Mutant: the new entry goes to the end.
AddAtEnd(node, key, value) ==
    [node EXCEPT !.keys = Append(@, key), !.items = Append(@, value)]

\* Mutant: the new entry takes the place of the one it should go before.
AddOver(node, key, value) ==
    LET it == LowerBound(node.keys, key)
    IN IF it > Len(node.keys) THEN AddAtEnd(node, key, value)
       ELSE [node EXCEPT !.keys[it] = key, !.items[it] = value]

Add(node, key, value) ==
    LET it == LowerBound(node.keys, key)
    IN ContainerNode(node.type, InsertAt(node.keys, it, key), InsertAt(node.items, it, value))

\* List::resize is told the last index; as a size_t, -1 + 1 is zero and
\* anything less is more than any container holds.
ResizeFails(index) ==
    index < -1 \/ (~DynamicAllocation /\ index + 1 > MaxContainerSize)

\* Mutant: new entries stay empty.
ResizedWithoutHoles(node, index) ==
    [node EXCEPT !.items =
        [i \in 1..(index + 1) |->
            IF i <= Len(node.items) THEN node.items[i] ELSE EmptyNode]]

Resized(node, index) ==
    LET Entry(i) == IF i <= Len(node.items) THEN node.items[i] ELSE EmptyNode
    IN ContainerNode(node.type, node.keys,
          [i \in 1..(index + 1) |-> IF Entry(i) = EmptyNode THEN HoleNode ELSE Entry(i)])

------------------------------------------------------------------------------
(* Subscripts: what becomes of the node, and the slot or the exception.    *)

Found(node, slot) == [node |-> node, slot |-> slot, fault |-> "ok"]
Thrown(node, fault) == [node |-> node, slot |-> 0, fault |-> fault]

EmptyList == ContainerNode("list", <<>>, <<>>)
EmptyDictionary == ContainerNode("dictionary", <<>>, <<>>)

\* A hole has become a list before the index is looked at, and stays one.
NodeByIndex(node, index) ==
    LET list == IF node = HoleNode THEN EmptyList ELSE node
    IN CASE list.type # "list" -> Thrown(node, NodeError)
         [] list.type = "list" /\ index \in 0..(Len(list.items) - 1) ->
                Found(list, index + 1)
         [] list.type = "list" /\ index \notin 0..(Len(list.items) - 1) ->
                IF ResizeFails(index) THEN Thrown(list, CapacityError)
                ELSE IF index < 0 THEN Thrown(Resized(list, index), NodeError)
                ELSE Found(Resized(list, index), index + 1)

NodeByKey(node, key) ==
    IF node = HoleNode THEN Found(Add(EmptyDictionary, key, HoleNode), 1)
    ELSE IF node.type = "dictionary" /\ HasKey(node, key)
    THEN Found(node, LowerBound(node.keys, key))
    ELSE Thrown(node, NodeError)

Ensured(container) == IF root = EmptyNode THEN container ELSE root

\* The handler resizes once more and asks once more: a list that has lost
\* its entries to a negative index throws again.
RootByIndex(index) ==
    LET first == NodeByIndex(Ensured(EmptyList), index)
    IN IF first.fault = NodeError /\ first.node.type = "list"
       THEN NodeByIndex(Resized(first.node, index), index)
       ELSE first

\* Mutant: the entry just added is taken to be the last one.
RootByKeyLast(key) ==
    LET tree == Ensured(EmptyDictionary)
        first == NodeByKey(tree, key)
    IN IF first.fault = "ok" \/ tree.type # "dictionary" THEN first
       ELSE IF AddFault(tree, key) # "ok" THEN Thrown(tree, AddFault(tree, key))
       ELSE Found(Add(tree, key, HoleNode), Len(tree.keys) + 1)

RootByKey(key) ==
    LET tree == Ensured(EmptyDictionary)
        first == NodeByKey(tree, key)
    IN IF first.fault = "ok" \/ tree.type # "dictionary" THEN first
       ELSE IF AddFault(tree, key) # "ok" THEN Thrown(tree, AddFault(tree, key))
       ELSE Found(Add(tree, key, HoleNode), LowerBound(tree.keys, key))

------------------------------------------------------------------------------
(* Initializer lists: the node they make, or the exception they end with.  *)

Built(node) == [node |-> node, fault |-> "ok"]

WithElement(made, node) ==
    IF made.fault # "ok" THEN made
    ELSE IF Full(made.node) THEN [made EXCEPT !.fault = CapacityError]
    ELSE Built([made.node EXCEPT !.items = Append(@, node)])

FromList(list) ==
    LET made[n \in 0..Len(list)] ==
            IF n = 0 THEN Built(EmptyList) ELSE WithElement(made[n - 1], list[n])
    IN made[Len(list)]

\* Mutant: an initializer list may name a key twice.
WithEntryUnchecked(made, pair) ==
    IF Full(made.node) THEN [made EXCEPT !.fault = CapacityError]
    ELSE Built(Add(made.node, pair[1], pair[2]))

WithEntry(made, pair) ==
    IF made.fault # "ok" THEN made
    ELSE IF AddFault(made.node, pair[1]) # "ok"
    THEN [made EXCEPT !.fault = AddFault(made.node, pair[1])]
    ELSE Built(Add(made.node, pair[1], pair[2]))

FromDictionary(list) ==
    LET made[n \in 0..Len(list)] ==
            IF n = 0 THEN Built(EmptyDictionary) ELSE WithEntry(made[n - 1], list[n])
    IN made[Len(list)]

Assignable ==
    {Built(node) : node \in Scalars}
        \cup {FromList(list) : list \in ListInitializers}
        \cup {FromDictionary(list) : list \in DictionaryInitializers}

------------------------------------------------------------------------------
(* Statements. *)

Init ==
    /\ root \in {EmptyNode} \cup {made.node : made \in
                     {m \in Assignable : m.fault = "ok" /\ m.node.type \in ContainerType}}
    /\ open = FALSE
    /\ slots = <<>> /\ path = <<>>
    /\ outcome = "ok"

\* The statement ends; its reference is gone.
Ended(result) == open' = FALSE /\ slots' = <<>> /\ outcome' = result

\* The node at ref has been given one more subscript.
Follow(ref, subscript, reached) ==
    /\ root' = WithNodeAt(root, ref, reached.node)
    /\ \/ /\ reached.fault = "ok"
          /\ open' = TRUE /\ outcome' = "none"
          /\ slots' = Append(ref, reached.slot)
       \/ /\ reached.fault # "ok"
          /\ Ended(reached.fault)
    /\ path' = subscript

\* doc.root()
TakeRoot ==
    /\ ~open
    /\ open' = TRUE /\ outcome' = "none"
    /\ slots' = <<>> /\ path' = <<>>
    /\ UNCHANGED root

ByKey(key) == [by |-> "key", at |-> key]
ByIndex(index) == [by |-> "index", at |-> index]

\* doc[key], doc[index]
RootKey ==
    ~open /\ \E key \in Keys : Follow(<<>>, <<ByKey(key)>>, RootByKey(key))
RootIndex ==
    ~open /\ \E index \in Indices :
                Follow(<<>>, <<ByIndex(index)>>, RootByIndex(index))

\* node[key], node[index]
NodeKey ==
    /\ open /\ Len(path) < MaxSubscripts
    /\ \E key \in Keys :
          Follow(slots, Append(path, ByKey(key)), NodeByKey(NodeAt(root, slots), key))
NodeIndex ==
    /\ open /\ Len(path) < MaxSubscripts
    /\ \E index \in Indices :
          Follow(slots, Append(path, ByIndex(index)),
                 NodeByIndex(NodeAt(root, slots), index))

\* node = value: the value is made before the node is given up for it.
Assign ==
    /\ open
    /\ \E made \in Assignable :
          /\ root' = IF made.fault = "ok" THEN WithNodeAt(root, slots, made.node)
                     ELSE root
          /\ Ended(made.fault)
    /\ path' = <<>>

\* The statement only read.
Drop == open /\ Ended("ok") /\ path' = <<>> /\ UNCHANGED root

Next == TakeRoot \/ RootKey \/ RootIndex \/ NodeKey \/ NodeIndex \/ Assign \/ Drop

Spec == Init /\ [][Next]_vars

------------------------------------------------------------------------------
(* Properties. *)

(* A reference leads through existing slots, and a statement that holds    *)
(* none has ended.                                                         *)
TypeOK ==
    /\ open \in BOOLEAN
    /\ open <=> outcome = "none"
    /\ slots \in Seq(Nat) /\ Leads(root, slots)

(* The reference a chain of subscripts returns denotes the entry the       *)
(* caller named, whatever was inserted on the way: in a dictionary the one *)
(* under that key, in a list the one at that index.                        *)
ReferenceNamesPath ==
    open =>
        /\ Len(slots) = Len(path)
        /\ \A i \in DOMAIN path :
              LET node == Along(root, slots)[i - 1]
              IN IF path[i].by = "key"
                 THEN node.type = "dictionary" /\ node.keys[slots[i]] = path[i].at
                 ELSE node.type = "list" /\ slots[i] = path[i].at + 1

SubscriptOf(node, slot) ==
    IF node.type = "dictionary" THEN ByKey(node.keys[slot]) ELSE ByIndex(slot - 1)

Entries(reached) ==
    {[path |-> Append(reached.path, SubscriptOf(reached.node, slot)),
      node |-> reached.node.items[slot]] : slot \in DOMAIN reached.node.items}

\* The nodes down to a depth, each with the subscripts that lead to it.
Within(tree, depth) ==
    LET top == {[path |-> <<>>, node |-> tree]}
        within[n \in 0..depth] ==
            IF n = 0 THEN top
            ELSE top \cup UNION {Entries(reached) : reached \in within[n - 1]}
    IN within[depth]

Reached(tree) == UNION {Within(tree, depth) : depth \in Depths}

Nodes(tree) == {reached.node : reached \in Reached(tree)}

(* Every dictionary of a document stays sorted by strictly ascending keys, *)
(* which the binary searches of Dictionary rely on.                        *)
KeysAscend ==
    \A node \in Nodes(root) :
        \A i, j \in DOMAIN node.keys : i < j => node.keys[i] < node.keys[j]

(* No container holds an empty node: isA, stringify and traverse throw on  *)
(* one.                                                                    *)
NoEmptyEntries == \A node \in Nodes(root) : EmptyNode \notin Range(node.items)

\* The scalars of a tree with the subscripts that lead to them.
Leaves(tree) ==
    {[path |-> leaf.path, val |-> leaf.node] : leaf \in
        {reached \in Reached(tree) : reached.node.type \in {"integer", "string"}}}

AssignableLeaves == {Leaves(made.node) : made \in Assignable}

Contract == INSTANCE DocumentContract WITH
    leaves <- Leaves(root), Contents <- AssignableLeaves

(* Statements implement the map: no subscript loses, moves or relabels a   *)
(* scalar when it inserts an entry or grows a list, and an assignment      *)
(* reaches the path that was written and no other.                         *)
ImplementsContract == Contract!Spec

==============================================================================
