--------------------------- MODULE DocumentProofs ----------------------------
(***************************************************************************)
(* Proofs about Document and the text of documents, for documents of any   *)
(* size and depth, any keys, indices and initializers.                     *)
(*                                                                         *)
(* A tree is described without recursion: it belongs to a set of nodes     *)
(* that has, with every node, the nodes inside it (Closed).  Every node of *)
(* such a set is well formed, and none holds an empty node.                *)
(***************************************************************************)
EXTENDS DocumentText, Foundations, FiniteSetTheorems

Inside(S) == S \ {EmptyNode}

\* A node that may stand over the nodes of S.
Fits(node, S) == WellFormed(node) /\ node.items \in Seq(Inside(S))

Closed(S) == \A node \in S : Fits(node, S)

\* What callers put into a document is of finite depth, as every tree the program
\* can build is.
FiniteElements == \A node \in Elements : FiniteDepth(node)

AllFinite(S) == \A node \in S : FiniteDepth(node)

Sound(S) ==
    /\ Closed(S)
    /\ HoleNode \in S /\ Elements \subseteq S
    /\ FiniteElements => AllFinite(S)

Ascending(keys) ==
    keys \in Seq(Nat) /\ \A i, j \in DOMAIN keys : i < j => keys[i] < keys[j]

------------------------------------------------------------------------------
(* Sorted keys. *)

\* The keys before the lower bound are less than key, the others are not.
LEMMA LowerBoundSplits ==
  ASSUME NEW keys, Ascending(keys), NEW key \in Nat
  PROVE  /\ LowerBound(keys, key) \in 1..(Len(keys) + 1)
         /\ \A i \in DOMAIN keys : i < LowerBound(keys, key) <=> keys[i] < key
<1> DEFINE Ends == {p \in 1..(Len(keys) + 1) : p = Len(keys) + 1 \/ ~(keys[p] < key)}
<1>1. /\ Len(keys) \in Nat /\ DOMAIN keys = 1..Len(keys)
      /\ \A i \in 1..Len(keys) : keys[i] \in Nat
      /\ \A i, j \in 1..Len(keys) : i < j => keys[i] < keys[j]
  BY DEF Ascending
<1>2. Len(keys) + 1 \in Ends /\ Ends \subseteq Nat
  BY <1>1
<1>3. PICK p \in Ends : \A q \in Ends : p <= q
  <2>1. Ends # {} /\ Ends \in SUBSET Nat
    BY <1>2
  <2> QED BY <2>1, LeastNumber
<1>4. p \in 1..(Len(keys) + 1) /\ (p # Len(keys) + 1 => ~(keys[p] < key))
  BY <1>3
<1>5. \A i \in 1..Len(keys) : i < p => keys[i] < key
  <2> SUFFICES ASSUME NEW i \in 1..Len(keys), i < p, ~(keys[i] < key) PROVE FALSE
    OBVIOUS
  <2>1. i \in Ends
    BY <1>1
  <2> QED BY <1>1, <1>3, <1>4, <2>1
<1>6. \A i \in 1..Len(keys) : i >= p => ~(keys[i] < key)
  <2> SUFFICES ASSUME NEW i \in 1..Len(keys), i >= p PROVE ~(keys[i] < key)
    OBVIOUS
  <2>1. p \in 1..Len(keys) /\ ~(keys[p] < key)
    BY <1>1, <1>4
  <2>2. i = p \/ keys[p] < keys[i]
    BY <1>1, <2>1
  <2> QED BY <1>1, <2>1, <2>2
<1> HIDE DEF Ends
<1>7. {i \in DOMAIN keys : keys[i] < key} = 1..(p - 1)
  <2>1. \A i \in 1..Len(keys) : keys[i] < key <=> i \in 1..(p - 1)
    BY <1>1, <1>4, <1>5, <1>6
  <2>2. 1..(p - 1) \subseteq 1..Len(keys)
    BY <1>1, <1>4
  <2> QED BY <1>1, <2>1, <2>2
<1>8. Cardinality(1..(p - 1)) = p - 1
  <2>1. p - 1 \in Nat /\ (p - 1) - 1 + 1 = p - 1
    BY <1>1, <1>4
  <2>2. Cardinality(1..(p - 1)) = IF 1 > p - 1 THEN 0 ELSE (p - 1) - 1 + 1
    BY <2>1, FS_Interval
  <2> QED BY <2>1, <2>2
<1>9. LowerBound(keys, key) = p
  <2>1. Cardinality({i \in DOMAIN keys : keys[i] < key}) = p - 1
    BY <1>7, <1>8
  <2>2. 1 + (p - 1) = p
    BY <1>1, <1>4
  <2> QED BY <2>1, <2>2 DEF LowerBound
<1> QED BY <1>1, <1>4, <1>5, <1>6, <1>9

Inserted(s, i, e) ==
    [j \in 1..(Len(s) + 1) |-> IF j < i THEN s[j] ELSE IF j = i THEN e ELSE s[j - 1]]

LEMMA InsertAtValues ==
  ASSUME NEW S, NEW s \in Seq(S), NEW i \in 1..(Len(s) + 1), NEW e
  PROVE  InsertAt(s, i, e) = Inserted(s, i, e)
<1> DEFINE T == S \cup {e}
           front == SubSeq(s, 1, i - 1)
           back == SubSeq(s, i, Len(s))
           middle == front \o <<e>>
<1>1. Len(s) \in Nat /\ i \in Nat /\ s \in Seq(T) /\ e \in T
  OBVIOUS
<1> HIDE DEF T
<1>2. front \in Seq(T) /\ Len(front) = i - 1 /\ \A j \in 1..(i - 1) : front[j] = s[j]
  BY <1>1
<1>3. /\ back \in Seq(T) /\ Len(back) = Len(s) - i + 1
      /\ \A j \in 1..(Len(s) - i + 1) : back[j] = s[i + j - 1]
  BY <1>1
<1> HIDE DEF front, back
<1>4. /\ middle \in Seq(T) /\ Len(middle) = i
      /\ \A j \in 1..i : middle[j] = IF j < i THEN s[j] ELSE e
  BY <1>1, <1>2
<1> HIDE DEF middle
<1>5. /\ DOMAIN (middle \o back) = 1..(Len(s) + 1)
      /\ \A j \in 1..(Len(s) + 1) :
            (middle \o back)[j] = IF j <= i THEN middle[j] ELSE back[j - i]
  <2>1. middle \o back \in Seq(T) /\ Len(middle \o back) = Len(middle) + Len(back)
    BY <1>3, <1>4
  <2>2. i + (Len(s) - i + 1) = Len(s) + 1
    BY <1>1
  <2>3. Len(middle) = i /\ Len(back) = Len(s) - i + 1
    BY <1>3, <1>4
  <2>4. Len(middle \o back) = Len(s) + 1
    BY <2>1, <2>2, <2>3
  <2>5. ASSUME NEW j \in 1..(Len(s) + 1)
        PROVE  (middle \o back)[j] = IF j <= i THEN middle[j] ELSE back[j - i]
    <3>1. j \in 1..(Len(middle) + Len(back))
      BY <2>1, <2>4
    <3>2. (middle \o back)[j] = IF j <= Len(middle) THEN middle[j] ELSE back[j - Len(middle)]
      BY <1>3, <1>4, <3>1
    <3> QED BY <2>3, <3>2
  <2> QED BY <2>1, <2>4, <2>5
<1>6. InsertAt(s, i, e) = middle \o back
  BY DEF InsertAt, middle, front, back
<1>7. \A j \in 1..(Len(s) + 1) :
         (middle \o back)[j] = IF j < i THEN s[j] ELSE IF j = i THEN e ELSE s[j - 1]
  <2> SUFFICES ASSUME NEW j \in 1..(Len(s) + 1)
               PROVE  (middle \o back)[j] = IF j < i THEN s[j] ELSE IF j = i THEN e ELSE s[j - 1]
    OBVIOUS
  <2>1. CASE j <= i
    BY <1>1, <1>4, <1>5, <2>1
  <2>2. CASE j > i
    <3>1. j - i \in 1..(Len(s) - i + 1) /\ i + (j - i) - 1 = j - 1
      BY <1>1, <2>2
    <3>2. back[j - i] = s[j - 1]
      BY <1>3, <3>1
    <3> QED BY <1>1, <1>5, <2>2, <3>2
  <2>3. j <= i \/ j > i
    BY <1>1
  <2> QED BY <2>1, <2>2, <2>3
<1>8. middle \o back = [j \in 1..(Len(s) + 1) |-> (middle \o back)[j]]
  <2>1. middle \o back \in Seq(T)
    BY <1>3, <1>4
  <2>2. middle \o back \in UNION {[1..n -> T] : n \in Nat}
    BY <2>1, SeqDef
  <2>3. PICK n \in Nat : middle \o back \in [1..n -> T]
    BY <2>2
  <2>4. DOMAIN (middle \o back) = 1..n /\ DOMAIN (middle \o back) = 1..(Len(s) + 1)
    BY <1>5, <2>3
  <2> QED BY <2>3, <2>4
<1> QED BY <1>6, <1>7, <1>8 DEF Inserted

------------------------------------------------------------------------------
(* Containers. *)

\* A type of node and a value it may have.
ValueFits(type, val) ==
    /\ type \in ContainerType \cup {"integer", "string", "hole", "empty"}
    /\ CASE type = "integer" -> val \in Int
         [] type = "string" -> val \in Nat
         [] OTHER -> val = 0

LEMMA ContainerValue ==
  ASSUME NEW type \in ContainerType, NEW val
  PROVE  ValueFits(type, val) <=> val = 0
BY DEF ValueFits, ContainerType

LEMMA FitsParts ==
  ASSUME NEW S, NEW node, Fits(node, S)
  PROVE  /\ node = [type |-> node.type, val |-> node.val,
                    keys |-> node.keys, items |-> node.items]
         /\ ValueFits(node.type, node.val)
         /\ Ascending(node.keys) /\ node.items \in Seq(Inside(S))
         /\ node.type = "dictionary" => Len(node.items) = Len(node.keys)
         /\ node.type # "dictionary" => node.keys = <<>>
         /\ node.type \notin ContainerType => node.items = <<>>
<1>1. node.keys \in Seq(Nat) /\ (node.type # "dictionary" => Len(node.keys) = 0)
  BY DEF Fits, WellFormed
<1>2. node.type # "dictionary" => node.keys = <<>>
  BY <1>1
<1> QED BY <1>2 DEF Fits, WellFormed, MakeNode, Ascending, ValueFits

LEMMA FitsMade ==
  ASSUME NEW S, NEW type, NEW val, NEW keys, NEW items, ValueFits(type, val),
         Ascending(keys), items \in Seq(Inside(S)),
         type = "dictionary" => Len(items) = Len(keys),
         type # "dictionary" => keys = <<>>,
         type \notin ContainerType => items = <<>>
  PROVE  Fits([type |-> type, val |-> val, keys |-> keys, items |-> items], S)
BY DEF Fits, WellFormed, MakeNode, Ascending, ValueFits

\* EXCEPT on the fields of a node.
LEMMA ItemsReplaced ==
  ASSUME NEW node, NEW type, NEW val, NEW keys, NEW old, NEW items,
         node = [type |-> type, val |-> val, keys |-> keys, items |-> old]
  PROVE  [node EXCEPT !.items = items] =
            [type |-> type, val |-> val, keys |-> keys, items |-> items]
OBVIOUS

LEMMA SequencesOverMore ==
  ASSUME NEW S, NEW T, S \subseteq T, NEW s \in Seq(S)
  PROVE  s \in Seq(T)
OBVIOUS

LEMMA FitsMore ==
  ASSUME NEW S, NEW T, S \subseteq T, NEW node, Fits(node, S)
  PROVE  Fits(node, T)
<1>1. Inside(S) \subseteq Inside(T)
  BY DEF Inside
<1> QED BY <1>1, SequencesOverMore DEF Fits

\* Leaf nodes and new containers fit everywhere.
LEMMA BareFits ==
  ASSUME NEW S, NEW type, NEW val, ValueFits(type, val)
  PROVE  Fits(MakeNode(type, val, <<>>, <<>>), S)
<1>1. Ascending(<<>>) /\ <<>> \in Seq(Inside(S)) /\ Len(<<>>) = 0
  BY DEF Ascending
<1> QED BY <1>1, FitsMade DEF MakeNode

LEMMA AddValues ==
  ASSUME NEW S, NEW node, NEW key, NEW value,
         Fits(node, S), node.type = "dictionary", key \in Nat, value \in Inside(S),
         NEW it, it = LowerBound(node.keys, key),
         NEW added, added = Add(node, key, value)
  PROVE  /\ Len(node.keys) \in Nat /\ Len(node.items) = Len(node.keys)
         /\ it \in 1..(Len(node.keys) + 1)
         /\ added = [type |-> "dictionary", val |-> 0,
                     keys |-> added.keys, items |-> added.items]
         /\ added.keys \in Seq(Nat) /\ Len(added.keys) = Len(node.keys) + 1
         /\ added.keys[it] = key
         /\ \A j \in 1..(Len(node.keys) + 1) : j < it => added.keys[j] = node.keys[j]
         /\ \A j \in 1..(Len(node.keys) + 1) : j > it => added.keys[j] = node.keys[j - 1]
         /\ added.items \in Seq(Inside(S)) /\ Len(added.items) = Len(node.keys) + 1
         /\ added.items[it] = value
         /\ \A j \in 1..(Len(node.keys) + 1) : j < it => added.items[j] = node.items[j]
         /\ \A j \in 1..(Len(node.keys) + 1) : j > it => added.items[j] = node.items[j - 1]
<1> DEFINE keys == node.keys
           items == node.items
           Item == Inside(S)
<1>1. /\ Ascending(keys) /\ keys \in Seq(Nat) /\ key \in Nat /\ value \in Item
      /\ items \in Seq(Item) /\ Len(items) = Len(keys) /\ Len(keys) \in Nat
  BY FitsParts DEF Ascending
<1>2. it \in 1..(Len(keys) + 1) /\ it \in 1..(Len(items) + 1)
  BY <1>1, LowerBoundSplits
<1>3. /\ added.keys = InsertAt(keys, it, key)
      /\ added.items = InsertAt(items, it, value)
      /\ added = [type |-> "dictionary", val |-> 0,
                  keys |-> added.keys, items |-> added.items]
  BY DEF Add, ContainerNode, MakeNode
<1> HIDE DEF keys, items, Item
<1>4. InsertAt(keys, it, key) = Inserted(keys, it, key)
  BY <1>1, <1>2, InsertAtValues, Zenon
<1>5. InsertAt(items, it, value) = Inserted(items, it, value)
  BY <1>1, <1>2, InsertAtValues, Zenon
<1>6. \A j \in 1..(Len(keys) + 1) :
         /\ j < it => j \in 1..Len(keys)
         /\ j > it => j - 1 \in 1..Len(keys)
  BY <1>1, <1>2
<1>7. /\ \A j \in 1..Len(keys) : keys[j] \in Nat
      /\ \A j \in 1..Len(keys) : items[j] \in Item
  BY <1>1
<1>8. /\ added.keys \in Seq(Nat) /\ Len(added.keys) = Len(keys) + 1
      /\ added.keys[it] = key
      /\ \A j \in 1..(Len(keys) + 1) : j < it => added.keys[j] = keys[j]
      /\ \A j \in 1..(Len(keys) + 1) : j > it => added.keys[j] = keys[j - 1]
  BY <1>1, <1>2, <1>3, <1>4, <1>6, <1>7 DEF Inserted
<1>9. /\ added.items \in Seq(Item) /\ Len(added.items) = Len(keys) + 1
      /\ added.items[it] = value
      /\ \A j \in 1..(Len(keys) + 1) : j < it => added.items[j] = items[j]
      /\ \A j \in 1..(Len(keys) + 1) : j > it => added.items[j] = items[j - 1]
  BY <1>1, <1>2, <1>3, <1>5, <1>6, <1>7 DEF Inserted
<1> QED BY <1>1, <1>2, <1>3, <1>8, <1>9 DEF keys, items, Item

\* A key that is new goes where the keys still ascend.
LEMMA AddFits ==
  ASSUME NEW S, NEW node, Fits(node, S), node.type = "dictionary",
         NEW key \in Nat, ~HasKey(node, key), NEW value \in Inside(S)
  PROVE  /\ Fits(Add(node, key, value), S)
         /\ Add(node, key, value).type = "dictionary"
         /\ LowerBound(node.keys, key) \in DOMAIN Add(node, key, value).items
         /\ Add(node, key, value).keys[LowerBound(node.keys, key)] = key
<1> DEFINE it == LowerBound(node.keys, key)
           n == Len(node.keys)
           added == Add(node, key, value)
           keys == added.keys
           items == added.items
<1>0. it = LowerBound(node.keys, key) /\ added = Add(node, key, value)
  OBVIOUS
<1> HIDE DEF it, added
<1>1. /\ n \in Nat /\ it \in 1..(n + 1)
      /\ keys \in Seq(Nat) /\ items \in Seq(Inside(S)) /\ Len(keys) = n + 1 /\ Len(items) = n + 1
      /\ keys[it] = key
      /\ \A j \in 1..(n + 1) : j < it => keys[j] = node.keys[j]
      /\ \A j \in 1..(n + 1) : j > it => keys[j] = node.keys[j - 1]
      /\ added = [type |-> "dictionary", val |-> 0, keys |-> keys, items |-> items]
  BY <1>0, AddValues
<1>2. /\ \A i \in 1..n : node.keys[i] \in Nat /\ (i < it <=> node.keys[i] < key)
      /\ \A i, j \in 1..n : i < j => node.keys[i] < node.keys[j]
      /\ \A i \in 1..n : node.keys[i] # key
  <2>1. Ascending(node.keys)
    BY FitsParts
  <2>2. DOMAIN node.keys = 1..n /\ \A i \in 1..n : node.keys[i] \in Nat
    BY <2>1 DEF Ascending
  <2>3. \A i \in 1..n : i < it <=> node.keys[i] < key
    BY <1>0, <2>1, <2>2, LowerBoundSplits
  <2>4. \A i \in 1..n : node.keys[i] # key
    BY <2>2 DEF HasKey, Range
  <2> QED BY <2>1, <2>2, <2>3, <2>4 DEF Ascending
<1> HIDE DEF it, n, keys, items
<1>3. \A i, j \in 1..(n + 1) : i < j => keys[i] < keys[j]
  <2> SUFFICES ASSUME NEW i \in 1..(n + 1), NEW j \in 1..(n + 1), i < j PROVE keys[i] < keys[j]
    OBVIOUS
  <2>1. CASE j < it
    <3>1. i \in 1..n /\ j \in 1..n /\ i < it
      BY <1>1, <2>1
    <3> QED BY <1>1, <1>2, <2>1, <3>1
  <2>2. CASE j = it
    <3>1. i \in 1..n /\ i < it
      BY <1>1, <2>2
    <3> QED BY <1>1, <1>2, <2>2, <3>1
  <2>3. CASE j > it
    <3>1. j - 1 \in 1..n /\ ~(j - 1 < it) /\ keys[j] = node.keys[j - 1]
      BY <1>1, <2>3
    <3>2. node.keys[j - 1] > key
      BY <1>1, <1>2, <3>1
    <3>3. CASE i < it
      <4>1. (i \in 1..n /\ i < j - 1) \/ i = j - 1
        BY <1>1, <2>3, <3>3
      <4>2. i \in 1..n /\ keys[i] = node.keys[i] /\ node.keys[i] < key
        <5>1. i \in 1..n
          BY <1>1, <3>3
        <5> QED BY <1>1, <1>2, <3>3, <5>1
      <4> QED BY <1>1, <1>2, <3>1, <3>2, <4>2
    <3>4. CASE i = it
      BY <1>1, <3>1, <3>2, <3>4
    <3>5. CASE i > it
      <4>1. i - 1 \in 1..n /\ i - 1 < j - 1 /\ keys[i] = node.keys[i - 1]
        BY <1>1, <3>5
      <4> QED BY <1>2, <3>1, <4>1
    <3> QED BY <1>1, <3>3, <3>4, <3>5
  <2> QED BY <1>1, <2>1, <2>2, <2>3
<1>4. Ascending(keys)
  <2>1. DOMAIN keys = 1..(n + 1)
    BY <1>1
  <2> QED BY <1>1, <1>3, <2>1 DEF Ascending
<1> HIDE DEF added
<1>5. Fits([type |-> "dictionary", val |-> 0, keys |-> keys, items |-> items], S)
  <2>1. "dictionary" \in ContainerType
    BY DEF ContainerType
  <2>2. ValueFits("dictionary", 0) /\ keys \in Seq(Nat)
    BY <1>1, <2>1, ContainerValue
  <2> QED BY <1>1, <1>4, <2>1, <2>2, FitsMade
<1>6. it \in 1..Len(items) /\ keys[it] = key
  BY <1>1
<1>7. DOMAIN items = 1..Len(items)
  BY <1>1
<1>8. Fits(added, S) /\ added.type = "dictionary"
  BY <1>1, <1>5
<1> QED BY <1>6, <1>7, <1>8 DEF it, keys, items, added

\* A key that is there is found at its lower bound.
LEMMA KeyFound ==
  ASSUME NEW keys, Ascending(keys), NEW key \in Nat, key \in Range(keys)
  PROVE  LowerBound(keys, key) \in 1..Len(keys) /\ keys[LowerBound(keys, key)] = key
<1> DEFINE it == LowerBound(keys, key)
<1>1. /\ Len(keys) \in Nat /\ DOMAIN keys = 1..Len(keys)
      /\ \A i \in 1..Len(keys) : keys[i] \in Nat
      /\ \A i, j \in 1..Len(keys) : i < j => keys[i] < keys[j]
  BY DEF Ascending
<1>2. it \in 1..(Len(keys) + 1) /\ \A i \in 1..Len(keys) : i < it <=> keys[i] < key
  BY <1>1, LowerBoundSplits
<1>3. PICK p \in 1..Len(keys) : keys[p] = key
  BY <1>1 DEF Range
<1> HIDE DEF it
<1>4. ~(p < it)
  BY <1>1, <1>2, <1>3
<1>5. ~(it < p)
  <2> SUFFICES ASSUME it < p PROVE FALSE
    OBVIOUS
  <2>1. it \in 1..Len(keys) /\ keys[it] < keys[p]
    BY <1>1, <1>2, <1>3
  <2>2. it < it
    BY <1>2, <1>3, <2>1
  <2> QED BY <1>2, <2>2
<1>6. it = p
  BY <1>1, <1>2, <1>4, <1>5
<1> QED BY <1>3, <1>6 DEF it

\* No entry of a resized list is empty, and those that were there stay.
LEMMA ResizedFits ==
  ASSUME NEW S, NEW node, Fits(node, S), node.type = "list", HoleNode \in S,
         NEW index \in Int, index >= -1
  PROVE  /\ Resized(node, index) =
               [type |-> "list", val |-> 0, keys |-> node.keys,
                items |-> [i \in 1..(index + 1) |->
                              IF i <= Len(node.items) THEN node.items[i] ELSE HoleNode]]
         /\ Resized(node, index).items \in Seq(Inside(S))
         /\ Len(Resized(node, index).items) = index + 1
         /\ Fits(Resized(node, index), S)
<1> DEFINE items == [i \in 1..(index + 1) |->
                        IF i <= Len(node.items) THEN node.items[i] ELSE HoleNode]
<1>1. /\ node = [type |-> node.type, val |-> node.val, keys |-> node.keys, items |-> node.items]
      /\ Ascending(node.keys) /\ node.items \in Seq(Inside(S)) /\ node.keys = <<>>
  BY FitsParts
<1>2. Len(node.items) \in Nat /\ \A i \in 1..Len(node.items) : node.items[i] \in Inside(S)
  BY <1>1
<1>3. HoleNode \in Inside(S)
  BY DEF HoleNode, EmptyNode, MakeNode, Inside
<1>4. index + 1 \in Nat
  OBVIOUS
<1>5. \A i \in 1..(index + 1) : items[i] \in Inside(S)
  BY <1>2, <1>3, <1>4
<1>6. items \in Seq(Inside(S)) /\ Len(items) = index + 1
  BY <1>4, <1>5
<1>7. Resized(node, index) =
         [type |-> "list", val |-> 0, keys |-> node.keys, items |-> items]
  <2>1. \A i \in 1..(index + 1) :
           items[i] = IF (IF i <= Len(node.items) THEN node.items[i] ELSE EmptyNode) = EmptyNode
                      THEN HoleNode
                      ELSE IF i <= Len(node.items) THEN node.items[i] ELSE EmptyNode
    BY <1>2, <1>4 DEF Inside
  <2>2. items = [i \in 1..(index + 1) |->
                    IF (IF i <= Len(node.items) THEN node.items[i] ELSE EmptyNode) = EmptyNode
                    THEN HoleNode
                    ELSE IF i <= Len(node.items) THEN node.items[i] ELSE EmptyNode]
    BY <2>1
  <2> HIDE DEF items
  <2> QED BY <2>2 DEF Resized, ContainerNode, MakeNode
<1>8. Fits([type |-> "list", val |-> 0, keys |-> node.keys, items |-> items], S)
  <2>1. "list" \in ContainerType
    BY DEF ContainerType
  <2>2. ValueFits("list", 0)
    BY <2>1, ContainerValue
  <2> QED BY <1>1, <1>6, <2>1, <2>2, FitsMade
<1> HIDE DEF items
<1>9. Resized(node, index).items = items
  BY <1>7
<1> QED BY <1>6, <1>7, <1>8, <1>9 DEF items

------------------------------------------------------------------------------
(* References. *)

\* Every node a reference leads through is one of the closed set of its root.
LEMMA AlongStays ==
  ASSUME NEW S, Closed(S), NEW tree \in S, NEW ref \in Seq(Nat), Leads(tree, ref)
  PROVE  /\ \A i \in 0..Len(ref) : Along(tree, ref)[i] \in S
         /\ \A i \in 1..Len(ref) : Along(tree, ref)[i] # EmptyNode
<1> DEFINE f == Along(tree, ref)
           Stays == {i \in 0..Len(ref) : f[i] \in S}
<1>1. /\ f[0] = tree /\ Len(ref) \in Nat
      /\ \A i \in 1..Len(ref) : f[i] = f[i - 1].items[ref[i]]
      /\ \A i \in 1..Len(ref) : ref[i] \in DOMAIN f[i - 1].items
  BY AlongSteps, LeadsSteps
<1>2. \A node \in S : \A i \in DOMAIN node.items : node.items[i] \in S /\ node.items[i] # EmptyNode
  <2> SUFFICES ASSUME NEW node \in S, NEW i \in DOMAIN node.items
               PROVE  node.items[i] \in S /\ node.items[i] # EmptyNode
    OBVIOUS
  <2>1. node.items \in Seq(Inside(S))
    BY FitsParts DEF Closed
  <2>2. node.items[i] \in Inside(S)
    BY <2>1
  <2> QED BY <2>2 DEF Inside
<1> HIDE DEF f
<1>3. 0 \in Stays
  BY <1>1
<1>4. ASSUME NEW i \in 0..Len(ref), i < Len(ref), i \in Stays PROVE i + 1 \in Stays
  <2>1. i + 1 \in 1..Len(ref) /\ i + 1 \in 0..Len(ref) /\ (i + 1) - 1 = i
    BY <1>1, <1>4
  <2>2. f[i + 1] = f[i].items[ref[i + 1]] /\ ref[i + 1] \in DOMAIN f[i].items
    BY <1>1, <2>1
  <2> QED BY <1>2, <1>4, <2>1, <2>2
<1> HIDE DEF Stays
<1>5. \A i \in 0..Len(ref) : i \in Stays
  <2>1. 0 \in Int /\ Len(ref) \in Int
    BY <1>1
  <2> QED BY <1>3, <1>4, <2>1, InductionUpTo
<1>6. \A i \in 0..Len(ref) : f[i] \in S
  BY <1>5 DEF Stays
<1>7. \A i \in 1..Len(ref) : f[i] # EmptyNode
  <2> SUFFICES ASSUME NEW i \in 1..Len(ref) PROVE f[i] # EmptyNode
    OBVIOUS
  <2>1. i - 1 \in 0..Len(ref)
    BY <1>1
  <2> QED BY <1>1, <1>2, <1>6, <2>1
<1> QED BY <1>6, <1>7 DEF f

LEMMA RebuiltRecursion ==
  ASSUME NEW tree, NEW ref \in Seq(Nat), NEW node
  PROVE  Rebuilt(tree, ref, node) =
            [i \in 0..Len(ref) |->
                IF i = Len(ref) THEN node
                ELSE WithItem(Along(tree, ref)[i], ref[i + 1], Rebuilt(tree, ref, node)[i + 1])]
<1> DEFINE n == Len(ref)
           Above(i, below) == WithItem(Along(tree, ref)[i], ref[i + 1], below)
           Solves(g, k) == g = [i \in (n - k)..n |-> IF i = n THEN node ELSE Above(i, g[i + 1])]
           Solved == {k \in Nat : \E g : Solves(g, k)}
<1>0. n \in Nat
  OBVIOUS
<1> HIDE DEF n, Above
<1>1. 0 \in Solved
  <2>1. n - 0 = n /\ n..n = {n}
    BY <1>0
  <2>2. Solves([i \in {n} |-> node], 0)
    BY <1>0, <2>1
  <2> QED BY <2>2
<1>2. ASSUME NEW k \in Nat, k \in Solved PROVE k + 1 \in Solved
  <2>1. PICK g : Solves(g, k)
    BY <1>2
  <2>2. \A i \in (n - k)..n : g[i] = IF i = n THEN node ELSE Above(i, g[i + 1])
    BY <2>1
  <2> DEFINE first == n - (k + 1)
             h == [i \in first..n |->
                      IF i = first THEN Above(first, g[first + 1]) ELSE g[i]]
  <2>3. ASSUME NEW i \in first..n
        PROVE  h[i] = IF i = n THEN node ELSE Above(i, h[i + 1])
    <3>1. CASE i = first
      <4>1. i # n /\ i + 1 \in first..n /\ i + 1 # first
        BY <1>0, <3>1
      <4> QED BY <3>1, <4>1
    <3>2. CASE i # first
      <4>1. i \in (n - k)..n
        BY <1>0, <3>2
      <4>2. h[i] = IF i = n THEN node ELSE Above(i, g[i + 1])
        BY <2>2, <3>2, <4>1
      <4>3. i # n => i + 1 \in first..n /\ i + 1 # first
        BY <1>0, <3>2
      <4> QED BY <4>2, <4>3
    <3> QED BY <3>1, <3>2
  <2>4. h = [i \in first..n |-> h[i]]
    OBVIOUS
  <2> HIDE DEF h
  <2>5. Solves(h, k + 1)
    BY <2>3, <2>4
  <2>6. k + 1 \in Nat
    OBVIOUS
  <2> HIDE DEF Solves
  <2> QED BY <2>5, <2>6
<1>3. n \in Solved
  <2> HIDE DEF Solved
  <2>1. \A k \in Nat : k >= 0 => k \in Solved
    BY <1>1, <1>2, InductionFrom
  <2> QED BY <1>0, <2>1
<1>4. PICK g : Solves(g, n)
  BY <1>3
<1>5. (n - n)..n = 0..n
  BY <1>0
<1>6. g = [i \in 0..n |-> IF i = n THEN node ELSE Above(i, g[i + 1])]
  BY <1>4, <1>5
<1> QED BY <1>6 DEF Rebuilt, Above, n

\* The rebuilt nodes differ from those they replace in one entry.
LEMMA RebuiltSteps ==
  ASSUME NEW tree, NEW ref \in Seq(Nat), NEW node
  PROVE  /\ Rebuilt(tree, ref, node)[Len(ref)] = node
         /\ \A i \in 0..(Len(ref) - 1) :
               Rebuilt(tree, ref, node)[i] =
                  WithItem(Along(tree, ref)[i], ref[i + 1], Rebuilt(tree, ref, node)[i + 1])
<1> DEFINE f == Rebuilt(tree, ref, node)
           n == Len(ref)
           Above(i, below) == WithItem(Along(tree, ref)[i], ref[i + 1], below)
<1>1. n \in Nat
  OBVIOUS
<1>2. f = [i \in 0..n |-> IF i = n THEN node ELSE Above(i, f[i + 1])]
  BY RebuiltRecursion
<1> HIDE DEF f, n, Above
<1>3. \A i \in 0..n : f[i] = IF i = n THEN node ELSE Above(i, f[i + 1])
  BY <1>2
<1>4. n \in 0..n /\ \A i \in 0..(n - 1) : i \in 0..n /\ i # n
  BY <1>1
<1>5. f[n] = node /\ \A i \in 0..(n - 1) : f[i] = Above(i, f[i + 1])
  BY <1>3, <1>4
<1> QED BY <1>5 DEF f, n, Above

LEMMA WithItemValues ==
  ASSUME NEW S, NEW node, Fits(node, S), NEW slot, slot \in DOMAIN node.items, NEW item
  PROVE  WithItem(node, slot, item) =
            [type |-> node.type, val |-> node.val, keys |-> node.keys,
             items |-> [node.items EXCEPT ![slot] = item]]
<1> DEFINE type == node.type
           val == node.val
           keys == node.keys
           items == node.items
<1>1. node = [type |-> type, val |-> val, keys |-> keys, items |-> items]
  BY FitsParts
<1> HIDE DEF type, val, keys, items
<1>2. WithItem(node, slot, item) =
         [type |-> type, val |-> val, keys |-> keys, items |-> [items EXCEPT ![slot] = item]]
  BY <1>1 DEF WithItem
<1> QED BY <1>2 DEF type, val, keys, items

\* What a node with another item has of the one it replaces.
LEMMA WithItemParts ==
  ASSUME NEW S, NEW node, Fits(node, S), NEW slot, slot \in DOMAIN node.items, NEW item
  PROVE  /\ WithItem(node, slot, item).type = node.type
         /\ WithItem(node, slot, item).keys = node.keys
         /\ DOMAIN WithItem(node, slot, item).items = DOMAIN node.items
         /\ WithItem(node, slot, item).items[slot] = item
         /\ \A i \in DOMAIN node.items :
               i # slot => WithItem(node, slot, item).items[i] = node.items[i]
         /\ WithItem(node, slot, item) # EmptyNode
<1> DEFINE new == WithItem(node, slot, item)
<1>1. new = [type |-> node.type, val |-> node.val, keys |-> node.keys,
             items |-> [node.items EXCEPT ![slot] = item]]
  BY WithItemValues
<1> HIDE DEF new
<1>2. /\ new.type = node.type /\ new.keys = node.keys
      /\ new.items = [node.items EXCEPT ![slot] = item]
  BY <1>1
<1>3. /\ DOMAIN new.items = DOMAIN node.items /\ new.items[slot] = item
      /\ \A i \in DOMAIN node.items : i # slot => new.items[i] = node.items[i]
  BY <1>2
<1>4. new # EmptyNode
  <2>1. DOMAIN EmptyNode.items = {}
    BY DEF EmptyNode, MakeNode
  <2> QED BY <1>3, <2>1
<1> QED BY <1>2, <1>3, <1>4 DEF new

LEMMA WithItemFits ==
  ASSUME NEW S, NEW node, Fits(node, S), NEW slot, slot \in DOMAIN node.items,
         NEW item \in Inside(S)
  PROVE  Fits(WithItem(node, slot, item), S)
<1> DEFINE items == [node.items EXCEPT ![slot] = item]
           Item == Inside(S)
           old == node.items
<1>1. /\ Ascending(node.keys) /\ old \in Seq(Item)
      /\ node.type = "dictionary" => Len(old) = Len(node.keys)
      /\ node.type \notin ContainerType => old = <<>>
      /\ slot \in DOMAIN old /\ ValueFits(node.type, node.val)
      /\ node.type # "dictionary" => node.keys = <<>>
  BY FitsParts
<1>2. items \in Seq(Item) /\ Len(items) = Len(old)
  <2>1. item \in Item
    OBVIOUS
  <2>2. old \in Seq(Item) /\ items = [old EXCEPT ![slot] = item] /\ slot \in DOMAIN old
    BY <1>1
  <2> HIDE DEF Item, old, items
  <2>3. old \in [1..Len(old) -> Item] /\ Len(old) \in Nat
    BY <2>2
  <2>4. items \in [1..Len(old) -> Item]
    BY <2>1, <2>2, <2>3
  <2> QED BY <2>3, <2>4
<1>3. node.type \in ContainerType
  BY <1>1
<1>4. WithItem(node, slot, item) =
         [type |-> node.type, val |-> node.val, keys |-> node.keys, items |-> items]
  BY WithItemValues
<1> HIDE DEF items, old, Item
<1>5. Ascending(node.keys) /\ (node.type = "dictionary" => Len(items) = Len(node.keys))
  BY <1>1, <1>2
<1>6. items \in Seq(Inside(S))
  BY <1>2 DEF Item
<1> QED BY <1>1, <1>3, <1>4, <1>5, <1>6, FitsMade

\* What is known of the nodes g along a reference and of those, f, that replace
\* them once the last has been replaced by node.
Rebuilding(S, tree, ref, node, n, f, g) ==
    /\ n \in Nat /\ f[n] = node /\ f[0] = WithNodeAt(tree, ref, node) /\ g[0] = tree
    /\ \A i \in 0..n : Fits(g[i], S) /\ g[i] \in S
    /\ \A i \in 1..n : g[i] # EmptyNode
    /\ \A i \in 0..(n - 1) : /\ i \in 0..n /\ i + 1 \in 1..n
                             /\ ref[i + 1] \in DOMAIN g[i].items
                             /\ g[i + 1] = g[i].items[ref[i + 1]]
                             /\ f[i] = WithItem(g[i], ref[i + 1], f[i + 1])

LEMMA RebuiltFacts ==
  ASSUME NEW S, Closed(S), NEW tree, tree \in S, NEW ref, ref \in Seq(Nat), Leads(tree, ref),
         NEW node, NEW n, n = Len(ref), NEW f, f = Rebuilt(tree, ref, node),
         NEW g, g = Along(tree, ref)
  PROVE  Rebuilding(S, tree, ref, node, n, f, g)
<1>1. n \in Nat
  OBVIOUS
<1>2. /\ g[0] = tree
      /\ \A i \in 1..n : g[i] = g[i - 1].items[ref[i]]
      /\ \A i \in 1..n : ref[i] \in DOMAIN g[i - 1].items
  BY AlongSteps, LeadsSteps
<1>3. /\ f[n] = node
      /\ \A i \in 0..(n - 1) : f[i] = WithItem(g[i], ref[i + 1], f[i + 1])
  BY RebuiltSteps
<1>4. \A i \in 0..n : g[i] \in S
  BY AlongStays
<1>5. \A i \in 1..n : g[i] # EmptyNode
  BY AlongStays
<1>6. \A i \in 0..(n - 1) : i \in 0..n /\ i + 1 \in 1..n /\ (i + 1) - 1 = i
  BY <1>1
<1>7. f[0] = WithNodeAt(tree, ref, node)
  BY DEF WithNodeAt
<1>8. \A i \in 0..n : Fits(g[i], S)
  BY <1>4 DEF Closed
<1>9. \A i \in 0..(n - 1) : ref[i + 1] \in DOMAIN g[i].items /\ g[i + 1] = g[i].items[ref[i + 1]]
  <2> SUFFICES ASSUME NEW i \in 0..(n - 1)
               PROVE  ref[i + 1] \in DOMAIN g[i].items /\ g[i + 1] = g[i].items[ref[i + 1]]
    OBVIOUS
  <2>1. i + 1 \in 1..n /\ (i + 1) - 1 = i
    BY <1>6
  <2>2. g[i + 1] = g[(i + 1) - 1].items[ref[i + 1]] /\ ref[i + 1] \in DOMAIN g[(i + 1) - 1].items
    BY <1>2, <2>1
  <2> QED BY <2>1, <2>2
<1> QED BY <1>1, <1>2, <1>3, <1>4, <1>5, <1>6, <1>7, <1>8, <1>9 DEF Rebuilding

\* Nodes that have the same subscripts for their slots.
AlikeAbove(h, g, n) == \A i \in 0..(n - 1) : h[i].type = g[i].type /\ h[i].keys = g[i].keys

\* Replacing the node a reference leads to keeps the reference, and the type
\* and keys of the nodes above it.
LEMMA ReplacingKeepsReference ==
  ASSUME NEW S, Closed(S), NEW tree \in S, NEW ref \in Seq(Nat), Leads(tree, ref), NEW node,
         NEW n, n = Len(ref), NEW new, new = WithNodeAt(tree, ref, node),
         NEW g, g = Along(tree, ref), NEW h, h = Along(new, ref)
  PROVE  Leads(new, ref) /\ h[n] = node /\ AlikeAbove(h, g, n)
<1> DEFINE f == Rebuilt(tree, ref, node)
<1>0. f = Rebuilt(tree, ref, node)
  OBVIOUS
<1> HIDE DEF f
<1>1. /\ n \in Nat /\ f[n] = node /\ f[0] = new /\ g[0] = tree
      /\ \A i \in 0..n : Fits(g[i], S) /\ g[i] \in S
      /\ \A i \in 1..n : g[i] # EmptyNode
      /\ \A i \in 0..(n - 1) : /\ i \in 0..n /\ i + 1 \in 1..n
                               /\ ref[i + 1] \in DOMAIN g[i].items
                               /\ g[i + 1] = g[i].items[ref[i + 1]]
                               /\ f[i] = WithItem(g[i], ref[i + 1], f[i + 1])
  <2>1. ref \in Seq(Nat) /\ tree \in S
    OBVIOUS
  <2>2. Rebuilding(S, tree, ref, node, n, f, g)
    BY <1>0, <2>1, RebuiltFacts
  <2> QED BY <1>0, <2>2 DEF Rebuilding
<1>2. ASSUME NEW i \in 0..(n - 1)
      PROVE  /\ f[i].type = g[i].type /\ f[i].keys = g[i].keys
             /\ ref[i + 1] \in DOMAIN f[i].items
             /\ f[i].items[ref[i + 1]] = f[i + 1]
  <2>1. /\ Fits(g[i], S) /\ ref[i + 1] \in DOMAIN g[i].items
        /\ f[i] = WithItem(g[i], ref[i + 1], f[i + 1])
    BY <1>1
  <2> QED BY <2>1, WithItemParts
<1>3. \A i \in 1..n : i - 1 \in 0..(n - 1) /\ (i - 1) + 1 = i
  BY <1>1
<1>4. \A i \in 1..n : f[i] = f[i - 1].items[ref[i]] /\ ref[i] \in DOMAIN f[i - 1].items
  <2> SUFFICES ASSUME NEW i \in 1..n
               PROVE  f[i] = f[i - 1].items[ref[i]] /\ ref[i] \in DOMAIN f[i - 1].items
    OBVIOUS
  <2>1. i - 1 \in 0..(n - 1) /\ (i - 1) + 1 = i
    BY <1>3
  <2>2. /\ ref[(i - 1) + 1] \in DOMAIN f[i - 1].items
        /\ f[i - 1].items[ref[(i - 1) + 1]] = f[(i - 1) + 1]
    BY <1>2, <2>1
  <2> QED BY <2>1, <2>2
<1>5. \A i \in 0..n : h[i] = f[i]
  <2>1. n \in 0..Len(ref)
    BY <1>1
  <2>2. Follows(f, new, ref, n)
    BY <1>1, <1>4, <2>1 DEF Follows
  <2> QED BY <2>2, AlongIs
<1>6. n \in 0..n /\ \A i \in 0..(n - 1) : i \in 0..n
  BY <1>1
<1>7. \A i \in 1..n : ref[i] \in DOMAIN h[i - 1].items
  <2> SUFFICES ASSUME NEW i \in 1..n PROVE ref[i] \in DOMAIN h[i - 1].items
    OBVIOUS
  <2>1. i - 1 \in 0..n
    BY <1>3, <1>6
  <2> QED BY <1>4, <1>5, <2>1
<1>8. Leads(new, ref)
  BY <1>7, LeadsSteps
<1> QED BY <1>1, <1>2, <1>5, <1>6, <1>8, SMTT(40) DEF AlikeAbove

\* A closed set over S that has the first n nodes of f too.
Covers(T, S, f, n) ==
    /\ Closed(T) /\ S \subseteq T /\ \A i \in 0..n : f[i] \in T
    /\ AllFinite(S) => AllFinite(T)

\* A node over nodes of finite depth is of finite depth.
LEMMA FitsFinite ==
  ASSUME NEW S, AllFinite(S), NEW node, Fits(node, S)
  PROVE  FiniteDepth(node)
<1> DEFINE n == Len(node.items)
           Bounded == {m \in 0..n : \E depth \in Nat :
                          \A i \in 1..m : DepthAtMost(node.items[i], depth)}
<1>1. n \in Nat /\ DOMAIN node.items = 1..n /\ \A i \in 1..n : node.items[i] \in S
  <2>1. node.items \in Seq(Inside(S))
    BY DEF Fits
  <2> QED BY <2>1 DEF Inside
<1> HIDE DEF n
<1>2. 0 \in Bounded
  <2>1. 0 \in 0..n /\ 0 \in Nat /\ 1..0 = {}
    BY <1>1
  <2> QED BY <2>1
<1>3. ASSUME NEW m \in 0..n, m < n, m \in Bounded PROVE m + 1 \in Bounded
  <2>1. m + 1 \in 1..n /\ m + 1 \in 0..n /\ \A i \in 1..(m + 1) : i \in 1..m \/ i = m + 1
    BY <1>1, <1>3
  <2>2. PICK d \in Nat : \A i \in 1..m : DepthAtMost(node.items[i], d)
    BY <1>3
  <2>3. PICK e \in Nat : DepthAtMost(node.items[m + 1], e)
    BY <1>1, <2>1 DEF AllFinite, FiniteDepth
  <2>4. PICK depth \in Nat : depth >= d /\ depth >= e
    <3>1. d + e \in Nat /\ d + e >= d /\ d + e >= e
      OBVIOUS
    <3> QED BY <3>1
  <2>5. \A tree : (DepthAtMost(tree, d) \/ DepthAtMost(tree, e)) => DepthAtMost(tree, depth)
    <3>1. \A tree : \A ref \in References(tree) : Len(ref) \in Nat
      BY DEF References
    <3> QED BY <2>4, <3>1 DEF DepthAtMost
  <2>6. \A i \in 1..(m + 1) : DepthAtMost(node.items[i], depth)
    BY <2>1, <2>2, <2>3, <2>5
  <2> QED BY <2>1, <2>6
<1>4. n \in Bounded
  <2> HIDE DEF Bounded
  <2>1. 0 \in Int /\ n \in Int /\ n \in 0..n
    BY <1>1
  <2>2. \A m \in 0..n : m \in Bounded
    BY <1>2, <1>3, <2>1, InductionUpTo
  <2> QED BY <2>1, <2>2
<1>5. PICK depth \in Nat : \A i \in 1..n : DepthAtMost(node.items[i], depth)
  BY <1>4
<1>6. DepthAtMost(node, depth + 1)
  <2>1. \A slot \in DOMAIN node.items : slot \in Nat /\ DepthAtMost(node.items[slot], depth)
    BY <1>1, <1>5
  <2> QED BY <2>1, NodeDepth
<1> QED BY <1>6 DEF FiniteDepth

\* The nodes that replace those along a reference, above a node that fits, are
\* again of a closed set.
LEMMA ReplacingStaysClosed ==
  ASSUME NEW S, Closed(S), NEW tree \in S, NEW ref \in Seq(Nat), Leads(tree, ref), NEW node,
         Fits(node, S), node = EmptyNode => ref = <<>>,
         NEW n, n = Len(ref), NEW f, f = Rebuilt(tree, ref, node)
  PROVE  \E T : Covers(T, S, f, n)
<1> DEFINE new == WithNodeAt(tree, ref, node)
           g == Along(tree, ref)
           T == S \cup {f[i] : i \in 0..n}
<1>0. new = WithNodeAt(tree, ref, node) /\ g = Along(tree, ref)
  OBVIOUS
<1>1. n = 0 <=> ref = <<>>
  OBVIOUS
<1> HIDE DEF new, g
<1>2. /\ n \in Nat /\ f[n] = node /\ f[0] = new /\ g[0] = tree
      /\ \A i \in 0..n : Fits(g[i], S) /\ g[i] \in S
      /\ \A i \in 1..n : g[i] # EmptyNode
      /\ \A i \in 0..(n - 1) : /\ i \in 0..n /\ i + 1 \in 1..n
                               /\ ref[i + 1] \in DOMAIN g[i].items
                               /\ g[i + 1] = g[i].items[ref[i + 1]]
                               /\ f[i] = WithItem(g[i], ref[i + 1], f[i + 1])
  <2>1. ref \in Seq(Nat) /\ tree \in S
    OBVIOUS
  <2>2. Rebuilding(S, tree, ref, node, n, f, g)
    BY <1>0, <2>1, RebuiltFacts
  <2> QED BY <1>0, <2>2 DEF Rebuilding
<1>3. \A i \in 0..(n - 1) : f[i] # EmptyNode
  BY <1>2, WithItemParts
<1>4. \A i \in 1..n : f[i] \in Inside(T)
  <2> SUFFICES ASSUME NEW i \in 1..n PROVE f[i] \in Inside(T)
    OBVIOUS
  <2>1. f[i] \in T
    BY <1>2
  <2>2. CASE i = n
    BY <1>1, <1>2, <2>1, <2>2 DEF Inside
  <2>3. CASE i # n
    <3>1. i \in 0..(n - 1)
      BY <1>2, <2>3
    <3> QED BY <1>3, <2>1, <3>1 DEF Inside
  <2> QED BY <2>2, <2>3
<1>5. S \subseteq T
  OBVIOUS
<1>6. \A i \in 0..n : Fits(f[i], T)
  <2> SUFFICES ASSUME NEW i \in 0..n PROVE Fits(f[i], T)
    OBVIOUS
  <2> HIDE DEF T
  <2>1. CASE i = n
    BY <1>2, <1>5, <2>1, FitsMore
  <2>2. CASE i # n
    <3>1. i \in 0..(n - 1)
      BY <1>2, <2>2
    <3>2. /\ Fits(g[i], T) /\ ref[i + 1] \in DOMAIN g[i].items
          /\ f[i] = WithItem(g[i], ref[i + 1], f[i + 1]) /\ i + 1 \in 1..n
      BY <1>2, <1>5, <3>1, FitsMore
    <3>3. f[i + 1] \in Inside(T)
      BY <1>4, <3>2
    <3> QED BY <3>2, <3>3, WithItemFits
  <2> QED BY <2>1, <2>2
<1>7. Closed(T)
  <2> SUFFICES ASSUME NEW m \in T PROVE Fits(m, T)
    BY DEF Closed
  <2>1. CASE m \in S
    <3>1. Fits(m, S)
      BY <2>1 DEF Closed
    <3> HIDE DEF T
    <3> QED BY <1>5, <3>1, FitsMore
  <2>2. CASE m \in {f[i] : i \in 0..n}
    BY <1>6, <2>2
  <2> QED BY <2>1, <2>2
<1>8. ASSUME AllFinite(S) PROVE AllFinite(T)
  <2> DEFINE Finite == {k \in 0..n : FiniteDepth(f[n - k])}
  <2>1. 0 \in Finite
    <3>1. n - 0 = n /\ 0 \in 0..n
      BY <1>2
    <3>2. FiniteDepth(node)
      BY <1>8, FitsFinite
    <3> QED BY <1>2, <3>1, <3>2
  <2>2. ASSUME NEW k \in 0..n, k < n, k \in Finite PROVE k + 1 \in Finite
    <3> DEFINE i == n - (k + 1)
               U == S \cup {f[i + 1]}
    <3>1. i \in 0..(n - 1) /\ i + 1 = n - k /\ k + 1 \in 0..n /\ i + 1 \in 1..n
      BY <1>2, <2>2
    <3>2. AllFinite(U)
      <4>1. FiniteDepth(f[i + 1])
        BY <2>2, <3>1
      <4> QED BY <1>8, <4>1 DEF AllFinite
    <3>3. f[i + 1] \in Inside(U) /\ S \subseteq U
      BY <1>4, <3>1 DEF Inside
    <3> HIDE DEF U, i
    <3>4. /\ Fits(g[i], U) /\ ref[i + 1] \in DOMAIN g[i].items
          /\ f[i] = WithItem(g[i], ref[i + 1], f[i + 1])
      <4>1. /\ Fits(g[i], S) /\ ref[i + 1] \in DOMAIN g[i].items
            /\ f[i] = WithItem(g[i], ref[i + 1], f[i + 1])
        BY <1>2, <3>1
      <4> QED BY <3>3, <4>1, FitsMore
    <3>5. Fits(f[i], U)
      BY <3>3, <3>4, WithItemFits
    <3>6. FiniteDepth(f[i])
      BY <3>2, <3>5, FitsFinite
    <3> QED BY <3>1, <3>6 DEF i
  <2> HIDE DEF Finite
  <2>3. \A k \in 0..n : k \in Finite
    <3>1. 0 \in Int /\ n \in Int
      BY <1>2
    <3> QED BY <2>1, <2>2, <3>1, InductionUpTo
  <2>4. \A i \in 0..n : FiniteDepth(f[i])
    <3> SUFFICES ASSUME NEW i \in 0..n PROVE FiniteDepth(f[i])
      OBVIOUS
    <3>1. n - i \in 0..n /\ n - (n - i) = i
      BY <1>2
    <3>2. n - i \in Finite
      BY <2>3, <3>1
    <3> QED BY <3>1, <3>2 DEF Finite
  <2> QED BY <1>8, <2>4 DEF AllFinite
<1> QED BY <1>5, <1>7, <1>8 DEF Covers

------------------------------------------------------------------------------
(* Subscripts. *)

\* The slot is the one the subscript names.
Names(node, slot, subscript) ==
    IF subscript.by = "key"
    THEN node.type = "dictionary" /\ node.keys[slot] = subscript.at
    ELSE node.type = "list" /\ slot = subscript.at + 1

\* What a subscript of a node makes of it.
Answers(reached, node, subscript, S) ==
    /\ Fits(reached.node, S)
    /\ reached.node = EmptyNode => node = EmptyNode
    /\ reached.fault \in {"ok", NodeError, CapacityError}
    /\ reached.fault = "ok" =>
          /\ reached.slot \in Nat /\ reached.slot \in DOMAIN reached.node.items
          /\ Names(reached.node, reached.slot, subscript)

LEMMA EmptyContainersFit ==
  ASSUME NEW S
  PROVE  /\ Fits(EmptyNode, S) /\ Fits(HoleNode, S)
         /\ Fits(EmptyList, S) /\ Fits(EmptyDictionary, S)
         /\ EmptyList # EmptyNode /\ EmptyDictionary # EmptyNode /\ HoleNode # EmptyNode
         /\ EmptyList.type = "list" /\ EmptyDictionary.type = "dictionary"
         /\ EmptyDictionary.keys = <<>> /\ EmptyNode.type = "empty"
<1>1. /\ EmptyNode = MakeNode("empty", 0, <<>>, <<>>)
      /\ HoleNode = MakeNode("hole", 0, <<>>, <<>>)
      /\ EmptyList = MakeNode("list", 0, <<>>, <<>>)
      /\ EmptyDictionary = MakeNode("dictionary", 0, <<>>, <<>>)
  BY DEF EmptyNode, HoleNode, EmptyList, EmptyDictionary, ContainerNode
<1>2. /\ Fits(EmptyNode, S) /\ Fits(HoleNode, S)
      /\ Fits(EmptyList, S) /\ Fits(EmptyDictionary, S)
  <2>1. /\ ValueFits("empty", 0) /\ ValueFits("hole", 0)
        /\ ValueFits("list", 0) /\ ValueFits("dictionary", 0)
    BY DEF ValueFits, ContainerType
  <2> QED BY <1>1, <2>1, BareFits
<1> QED BY <1>1, <1>2 DEF MakeNode

LEMMA TypedIsNotEmpty ==
  ASSUME NEW node, node.type \in ContainerType
  PROVE  node # EmptyNode /\ node # HoleNode
BY DEF EmptyNode, HoleNode, MakeNode, ContainerType

\* A list answers an index with that entry, grown to it when it may grow.
LEMMA IndexAnswers ==
  ASSUME NEW S, HoleNode \in S, NEW node, Fits(node, S), NEW index, index \in Int,
         NEW reached, reached = NodeByIndex(node, index)
  PROVE  /\ Answers(reached, node, ByIndex(index), S)
         /\ reached.fault = NodeError /\ reached.node.type = "list" =>
               index >= -1 /\ Fits(reached.node, S)
<1> DEFINE list == IF node = HoleNode THEN EmptyList ELSE node
<1>1. Fits(list, S) /\ (list = EmptyNode => node = EmptyNode)
  BY EmptyContainersFit
<1>2. ByIndex(index).by = "index" /\ ByIndex(index).at = index
  BY DEF ByIndex
<1>3. Len(list.items) \in Nat /\ DOMAIN list.items = 1..Len(list.items)
  BY <1>1 DEF Fits
<1>4. NodeError # "ok" /\ CapacityError # "ok" /\ CapacityError # NodeError
  BY DEF NodeError, CapacityError
<1>5. reached =
         CASE list.type # "list" -> Thrown(list, NodeError)
           [] list.type = "list" /\ index \in 0..(Len(list.items) - 1) -> Found(list, index + 1)
           [] list.type = "list" /\ index \notin 0..(Len(list.items) - 1) ->
                IF ResizeFails(index) THEN Thrown(list, CapacityError)
                ELSE IF index < 0 THEN Thrown(Resized(list, index), NodeError)
                ELSE Found(Resized(list, index), index + 1)
  <2>1. list.type # "list" => list = node
    BY EmptyContainersFit
  <2> QED BY <2>1 DEF NodeByIndex
<1> HIDE DEF list
<1>6. CASE list.type # "list"
  <2>1. reached.node = list /\ reached.fault = NodeError
    BY <1>5, <1>6 DEF Thrown
  <2> QED BY <1>1, <1>4, <1>6, <2>1 DEF Answers
<1>7. CASE list.type = "list" /\ index \in 0..(Len(list.items) - 1)
  <2>1. reached.node = list /\ reached.fault = "ok" /\ reached.slot = index + 1
    BY <1>5, <1>7 DEF Found
  <2>2. index + 1 \in DOMAIN list.items /\ index + 1 \in Nat
    BY <1>3, <1>7
  <2>3. Names(list, index + 1, ByIndex(index))
    BY <1>2, <1>7 DEF Names
  <2> QED BY <1>1, <1>4, <2>1, <2>2, <2>3 DEF Answers
<1>8. CASE list.type = "list" /\ index \notin 0..(Len(list.items) - 1)
  <2>1. CASE ResizeFails(index)
    <3>1. reached.node = list /\ reached.fault = CapacityError
      BY <1>5, <1>8, <2>1 DEF Thrown
    <3> QED BY <1>1, <1>4, <3>1 DEF Answers
  <2>2. CASE ~ResizeFails(index)
    <3> DEFINE grown == Resized(list, index)
    <3>1. index >= -1
      BY <2>2 DEF ResizeFails
    <3>2. /\ grown.type = "list" /\ Fits(grown, S)
          /\ grown.items \in Seq(Inside(S)) /\ Len(grown.items) = index + 1
      <4>1. grown.type = "list"
        BY <1>8 DEF Resized, ContainerNode, MakeNode
      <4> QED BY <1>1, <1>8, <3>1, <4>1, ResizedFits
    <3> HIDE DEF grown
    <3>3. grown # EmptyNode
      BY <3>2, TypedIsNotEmpty DEF ContainerType
    <3>4. CASE index < 0
      <4>1. reached.node = grown /\ reached.fault = NodeError
        BY <1>5, <1>8, <2>2, <3>4 DEF Thrown, grown
      <4> QED BY <1>4, <3>1, <3>2, <3>3, <4>1 DEF Answers
    <3>5. CASE ~(index < 0)
      <4>1. reached.node = grown /\ reached.fault = "ok" /\ reached.slot = index + 1
        BY <1>5, <1>8, <2>2, <3>5 DEF Found, grown
      <4>2. index + 1 \in DOMAIN grown.items /\ index + 1 \in Nat
        BY <3>2, <3>5
      <4>3. Names(grown, index + 1, ByIndex(index))
        BY <1>2, <3>2 DEF Names
      <4> QED BY <1>4, <3>2, <3>3, <4>1, <4>2, <4>3 DEF Answers
    <3> QED BY <3>4, <3>5
  <2> QED BY <2>1, <2>2
<1> QED BY <1>6, <1>7, <1>8

\* A dictionary answers a key it has with the entry under it, a hole becomes a
\* dictionary of one entry.
LEMMA KeyAnswers ==
  ASSUME NEW S, HoleNode \in S, NEW node, Fits(node, S), NEW key, key \in Nat,
         NEW reached, reached = NodeByKey(node, key)
  PROVE  /\ Answers(reached, node, ByKey(key), S)
         /\ reached.fault # "ok" => reached = Thrown(node, NodeError)
         /\ reached.fault # "ok" /\ node.type = "dictionary" => ~HasKey(node, key)
<1>1. ByKey(key).by = "key" /\ ByKey(key).at = key
  BY DEF ByKey
<1>2. NodeError # "ok" /\ CapacityError # "ok" /\ CapacityError # NodeError
  BY DEF NodeError, CapacityError
<1>3. CASE node = HoleNode
  <2> DEFINE made == Add(EmptyDictionary, key, HoleNode)
  <2>1. /\ Fits(EmptyDictionary, S) /\ EmptyDictionary.type = "dictionary"
        /\ EmptyDictionary.keys = <<>> /\ ~HasKey(EmptyDictionary, key)
        /\ HoleNode \in Inside(S)
    BY EmptyContainersFit DEF HasKey, Range, Inside
  <2>2. LowerBound(EmptyDictionary.keys, key) = 1
    <3>1. Ascending(EmptyDictionary.keys) /\ Len(EmptyDictionary.keys) = 0
      BY <2>1 DEF Ascending
    <3> QED BY <3>1, LowerBoundSplits
  <2>3. /\ Fits(made, S) /\ made.type = "dictionary"
        /\ 1 \in DOMAIN made.items /\ made.keys[1] = key
    BY <2>1, <2>2, AddFits
  <2>4. reached.node = made /\ reached.fault = "ok" /\ reached.slot = 1
    BY <1>3 DEF NodeByKey, Found
  <2> HIDE DEF made
  <2>5. made # EmptyNode
    BY <2>3, TypedIsNotEmpty DEF ContainerType
  <2>6. Names(made, 1, ByKey(key))
    BY <1>1, <2>3 DEF Names
  <2> QED BY <1>2, <2>3, <2>4, <2>5, <2>6 DEF Answers
<1>4. CASE node # HoleNode /\ node.type = "dictionary" /\ HasKey(node, key)
  <2>1. /\ reached.node = node /\ reached.fault = "ok"
        /\ reached.slot = LowerBound(node.keys, key)
    BY <1>4 DEF NodeByKey, Found
  <2>2. Ascending(node.keys) /\ Len(node.items) = Len(node.keys) /\ node.items \in Seq(Inside(S))
    BY <1>4, FitsParts
  <2>3. /\ LowerBound(node.keys, key) \in 1..Len(node.keys)
        /\ node.keys[LowerBound(node.keys, key)] = key
    BY <1>4, <2>2, KeyFound DEF HasKey
  <2>4. reached.slot \in Nat /\ reached.slot \in DOMAIN node.items
    BY <2>1, <2>2, <2>3
  <2>5. Names(node, reached.slot, ByKey(key))
    BY <1>1, <1>4, <2>1, <2>3 DEF Names
  <2> QED BY <1>2, <2>1, <2>4, <2>5 DEF Answers
<1>5. CASE node # HoleNode /\ ~(node.type = "dictionary" /\ HasKey(node, key))
  <2>1. reached = Thrown(node, NodeError)
    BY <1>5 DEF NodeByKey
  <2>2. reached.node = node /\ reached.fault = NodeError
    BY <2>1 DEF Thrown
  <2> QED BY <1>2, <1>5, <2>1, <2>2 DEF Answers
<1> QED BY <1>3, <1>4, <1>5

\* A subscript of the document itself.
LEMMA RootAnswers ==
  ASSUME NEW S, HoleNode \in S, Fits(root, S), NEW reached, NEW subscript,
         \/ \E key \in Nat : subscript = ByKey(key) /\ reached = RootByKey(key)
         \/ \E index \in Int : subscript = ByIndex(index) /\ reached = RootByIndex(index)
  PROVE  Answers(reached, root, subscript, S)
<1>1. ASSUME NEW key \in Nat, subscript = ByKey(key), reached = RootByKey(key)
      PROVE  Answers(reached, root, subscript, S)
  <2> DEFINE tree == Ensured(EmptyDictionary)
             first == NodeByKey(tree, key)
             added == Add(tree, key, HoleNode)
             fault == AddFault(tree, key)
             it == LowerBound(tree.keys, key)
  <2>1. Fits(tree, S) /\ tree # EmptyNode
    BY EmptyContainersFit DEF Ensured
  <2>2. reached = IF first.fault = "ok" \/ tree.type # "dictionary" THEN first
                  ELSE IF fault # "ok" THEN Thrown(tree, fault)
                  ELSE Found(added, it)
    BY <1>1 DEF RootByKey
  <2>3. first = NodeByKey(tree, key) /\ it = LowerBound(tree.keys, key)
    OBVIOUS
  <2>4. added = Add(tree, key, HoleNode) /\ fault = AddFault(tree, key)
    OBVIOUS
  <2> HIDE DEF tree, first, added, fault, it
  <2>5. /\ Answers(first, tree, ByKey(key), S)
        /\ first.fault # "ok" /\ tree.type = "dictionary" => ~HasKey(tree, key)
    BY <2>1, <2>3, KeyAnswers
  <2>6. CASE first.fault = "ok" \/ tree.type # "dictionary"
    BY <1>1, <2>1, <2>2, <2>5, <2>6 DEF Answers
  <2>7. CASE ~(first.fault = "ok" \/ tree.type # "dictionary")
    <3>1. tree.type = "dictionary" /\ ~HasKey(tree, key)
      BY <2>5, <2>7
    <3>2. CASE fault # "ok"
      <4>1. reached.node = tree /\ reached.fault = fault
        BY <2>2, <2>7, <3>2 DEF Thrown
      <4>2. fault \in {NodeError, CapacityError}
        BY <2>4, <3>2 DEF AddFault
      <4> QED BY <2>1, <3>2, <4>1, <4>2 DEF Answers
    <3>3. CASE fault = "ok"
      <4>1. reached.node = added /\ reached.fault = "ok" /\ reached.slot = it
        BY <2>2, <2>7, <3>3 DEF Found
      <4>2. HoleNode \in Inside(S)
        BY EmptyContainersFit DEF Inside
      <4>3. /\ Fits(added, S) /\ added.type = "dictionary"
            /\ it \in DOMAIN added.items /\ added.keys[it] = key
        BY <2>1, <2>3, <2>4, <3>1, <4>2, AddFits
      <4>4. added # EmptyNode
        BY <4>3, TypedIsNotEmpty DEF ContainerType
      <4>5. it \in Nat
        <5>1. DOMAIN added.items = 1..Len(added.items)
          BY <4>3 DEF Fits
        <5> QED BY <4>3, <5>1
      <4>6. Names(added, it, subscript)
        BY <1>1, <4>3 DEF Names, ByKey
      <4> QED BY <4>1, <4>3, <4>4, <4>5, <4>6 DEF Answers
    <3> QED BY <3>2, <3>3
  <2> QED BY <2>6, <2>7
<1>2. ASSUME NEW index \in Int, subscript = ByIndex(index), reached = RootByIndex(index)
      PROVE  Answers(reached, root, subscript, S)
  <2> DEFINE tree == Ensured(EmptyList)
             first == NodeByIndex(tree, index)
             resized == Resized(first.node, index)
             second == NodeByIndex(resized, index)
  <2>1. Fits(tree, S) /\ tree # EmptyNode
    BY EmptyContainersFit DEF Ensured
  <2>2. reached = IF first.fault = NodeError /\ first.node.type = "list" THEN second ELSE first
    BY <1>2 DEF RootByIndex
  <2>3. /\ first = NodeByIndex(tree, index) /\ resized = Resized(first.node, index)
        /\ second = NodeByIndex(resized, index)
    OBVIOUS
  <2>4. first.node.type = "list" => resized.type = "list"
    BY DEF Resized, ContainerNode, MakeNode
  <2> HIDE DEF tree, first, resized, second
  <2>5. /\ Answers(first, tree, ByIndex(index), S)
        /\ first.fault = NodeError /\ first.node.type = "list" =>
              index >= -1 /\ Fits(first.node, S)
    BY <2>1, <2>3, IndexAnswers
  <2>6. CASE first.fault = NodeError /\ first.node.type = "list"
    <3>1. Fits(resized, S)
      BY <2>3, <2>5, <2>6, ResizedFits
    <3>2. resized # EmptyNode
      BY <2>4, <2>6, TypedIsNotEmpty DEF ContainerType
    <3>3. Answers(second, resized, ByIndex(index), S)
      BY <2>3, <3>1, IndexAnswers
    <3> QED BY <1>2, <2>2, <2>6, <3>2, <3>3 DEF Answers
  <2>7. CASE ~(first.fault = NodeError /\ first.node.type = "list")
    BY <1>2, <2>1, <2>2, <2>5, <2>7 DEF Answers
  <2> QED BY <2>6, <2>7
<1> QED BY <1>1, <1>2

------------------------------------------------------------------------------
(* Initializer lists. *)

\* A node an initializer list has made, or the part of it made so far.
Makes(made, type, S) ==
    /\ made = [node |-> made.node, fault |-> made.fault]
    /\ Fits(made.node, S) /\ made.node.type = type
    /\ made.fault \in {"ok", NodeError, CapacityError}

\* What a list of nodes makes, node by node.
LEMMA FromListRecursion ==
  ASSUME NEW list, list \in Seq(Elements)
  PROVE  \E made : /\ FromList(list) = made[Len(list)] /\ made[0] = Built(EmptyList)
                   /\ \A n \in 1..Len(list) : made[n] = WithElement(made[n - 1], list[n])
<1> DEFINE Next1(before, n) == WithElement(before, list[n])
           Solves(g, k) ==
             g = [n \in 0..k |-> IF n = 0 THEN Built(EmptyList) ELSE Next1(g[n - 1], n)]
           Solved == {k \in Nat : \E g : Solves(g, k)}
<1>1. 0 \in Solved
  <2>1. Solves([n \in 0..0 |-> Built(EmptyList)], 0)
    OBVIOUS
  <2> QED BY <2>1
<1> HIDE DEF Next1
<1>2. ASSUME NEW k \in Nat, k \in Solved PROVE k + 1 \in Solved
  <2>1. PICK g : Solves(g, k)
    BY <1>2
  <2> DEFINE h == [n \in 0..(k + 1) |-> IF n <= k THEN g[n] ELSE Next1(g[k], k + 1)]
  <2>2. ASSUME NEW n \in 0..(k + 1)
        PROVE  h[n] = IF n = 0 THEN Built(EmptyList) ELSE Next1(h[n - 1], n)
    <3>1. CASE n <= k
      <4>1. h[n] = g[n] /\ (n # 0 => h[n - 1] = g[n - 1]) /\ n \in 0..k
        BY <3>1
      <4>2. \A j \in 0..k : g[j] = IF j = 0 THEN Built(EmptyList) ELSE Next1(g[j - 1], j)
        BY <2>1
      <4> QED BY <4>1, <4>2
    <3>2. CASE n = k + 1
      BY <3>2
    <3> QED BY <3>1, <3>2
  <2>3. h = [n \in 0..(k + 1) |-> h[n]]
    OBVIOUS
  <2> HIDE DEF h
  <2>4. Solves(h, k + 1)
    BY <2>2, <2>3
  <2> QED BY <2>4
<1>3. Len(list) \in Nat
  OBVIOUS
<1>4. Len(list) \in Solved
  <2> HIDE DEF Solved
  <2>1. \A k \in Nat : k >= 0 => k \in Solved
    BY <1>1, <1>2, InductionFrom
  <2> QED BY <1>3, <2>1
<1>5. \E g : Solves(g, Len(list))
  BY <1>4
<1>6. PICK made : FromList(list) = made[Len(list)] /\ Solves(made, Len(list))
  BY <1>5 DEF FromList, Next1
<1>7. \A n \in 0..Len(list) :
         made[n] = IF n = 0 THEN Built(EmptyList) ELSE Next1(made[n - 1], n)
  BY <1>6
<1>8. 0 \in 0..Len(list) /\ \A n \in 1..Len(list) : n \in 0..Len(list) /\ n # 0
  BY <1>3
<1>9. made[0] = Built(EmptyList) /\ \A n \in 1..Len(list) : made[n] = Next1(made[n - 1], n)
  BY <1>7, <1>8
<1> QED BY <1>6, <1>9 DEF Next1

LEMMA WithElementMakes ==
  ASSUME NEW S, Elements \subseteq S, NEW made, Makes(made, "list", S), NEW node \in Elements
  PROVE  Makes(WithElement(made, node), "list", S)
<1> DEFINE list == made.node
           keys == list.keys
           val == list.val
           old == list.items
           items == Append(old, node)
<1>1. /\ made = [node |-> list, fault |-> made.fault]
      /\ Fits(list, S) /\ list.type = "list"
      /\ made.fault \in {"ok", NodeError, CapacityError}
  BY DEF Makes
<1>2. node \in Inside(S)
  BY ElementsAssumption DEF Inside
<1>3. CASE made.fault # "ok"
  BY <1>3 DEF WithElement
<1>4. CASE made.fault = "ok" /\ Full(list)
  <2>1. WithElement(made, node) = [made EXCEPT !.fault = CapacityError]
    BY <1>4 DEF WithElement
  <2>2. WithElement(made, node) = [node |-> list, fault |-> CapacityError]
    BY <1>1, <2>1
  <2> QED BY <1>1, <2>2 DEF Makes
<1>5. CASE made.fault = "ok" /\ ~Full(list)
  <2>1. WithElement(made, node) = Built([list EXCEPT !.items = items])
    BY <1>5 DEF WithElement
  <2>2. /\ list = [type |-> "list", val |-> val, keys |-> keys, items |-> old]
        /\ Ascending(keys) /\ old \in Seq(Inside(S))
        /\ ValueFits("list", val) /\ keys = <<>>
    BY <1>1, FitsParts
  <2>3. items \in Seq(Inside(S)) /\ "list" \in ContainerType
    BY <1>2, <2>2 DEF ContainerType
  <2> HIDE DEF list, keys, val, old, items
  <2>4. [list EXCEPT !.items = items] =
           [type |-> "list", val |-> val, keys |-> keys, items |-> items]
    BY <2>2, ItemsReplaced
  <2>5. Fits([type |-> "list", val |-> val, keys |-> keys, items |-> items], S)
    BY <2>2, <2>3, FitsMade
  <2> QED BY <2>1, <2>4, <2>5 DEF Makes, Built
<1> QED BY <1>1, <1>3, <1>4, <1>5

LEMMA FromListMakes ==
  ASSUME NEW S, Elements \subseteq S, NEW list, list \in Seq(Elements)
  PROVE  Makes(FromList(list), "list", S)
<1>1. PICK made : /\ FromList(list) = made[Len(list)] /\ made[0] = Built(EmptyList)
                  /\ \A n \in 1..Len(list) : made[n] = WithElement(made[n - 1], list[n])
  BY FromListRecursion
<1> DEFINE Good == {n \in 0..Len(list) : Makes(made[n], "list", S)}
<1>2. Len(list) \in Nat /\ \A n \in 1..Len(list) : list[n] \in Elements
  OBVIOUS
<1>3. 0 \in Good
  BY <1>1, <1>2, EmptyContainersFit DEF Makes, Built
<1>4. ASSUME NEW n \in 0..Len(list), n < Len(list), n \in Good PROVE n + 1 \in Good
  <2>1. n + 1 \in 1..Len(list) /\ n + 1 \in 0..Len(list) /\ (n + 1) - 1 = n
    BY <1>2, <1>4
  <2>2. made[n + 1] = WithElement(made[n], list[n + 1]) /\ list[n + 1] \in Elements
    BY <1>1, <1>2, <2>1
  <2>3. Makes(made[n + 1], "list", S)
    BY <1>4, <2>2, WithElementMakes
  <2> QED BY <2>1, <2>3
<1> HIDE DEF Good
<1>5. \A n \in 0..Len(list) : n \in Good
  <2>1. 0 \in Int /\ Len(list) \in Int
    BY <1>2
  <2> QED BY <1>3, <1>4, <2>1, InductionUpTo
<1>6. Len(list) \in 0..Len(list)
  BY <1>2
<1> QED BY <1>1, <1>5, <1>6 DEF Good

\* What a list of entries makes, entry by entry.
LEMMA FromDictionaryRecursion ==
  ASSUME NEW list, list \in Seq(Nat \X Elements)
  PROVE  \E made : /\ FromDictionary(list) = made[Len(list)] /\ made[0] = Built(EmptyDictionary)
                   /\ \A n \in 1..Len(list) : made[n] = WithEntry(made[n - 1], list[n])
<1> DEFINE Next1(before, n) == WithEntry(before, list[n])
           Solves(g, k) ==
             g = [n \in 0..k |-> IF n = 0 THEN Built(EmptyDictionary) ELSE Next1(g[n - 1], n)]
           Solved == {k \in Nat : \E g : Solves(g, k)}
<1>1. 0 \in Solved
  <2>1. Solves([n \in 0..0 |-> Built(EmptyDictionary)], 0)
    OBVIOUS
  <2> QED BY <2>1
<1> HIDE DEF Next1
<1>2. ASSUME NEW k \in Nat, k \in Solved PROVE k + 1 \in Solved
  <2>1. PICK g : Solves(g, k)
    BY <1>2
  <2> DEFINE h == [n \in 0..(k + 1) |-> IF n <= k THEN g[n] ELSE Next1(g[k], k + 1)]
  <2>2. ASSUME NEW n \in 0..(k + 1)
        PROVE  h[n] = IF n = 0 THEN Built(EmptyDictionary) ELSE Next1(h[n - 1], n)
    <3>1. CASE n <= k
      <4>1. h[n] = g[n] /\ (n # 0 => h[n - 1] = g[n - 1]) /\ n \in 0..k
        BY <3>1
      <4>2. \A j \in 0..k : g[j] = IF j = 0 THEN Built(EmptyDictionary) ELSE Next1(g[j - 1], j)
        BY <2>1
      <4> QED BY <4>1, <4>2
    <3>2. CASE n = k + 1
      BY <3>2
    <3> QED BY <3>1, <3>2
  <2>3. h = [n \in 0..(k + 1) |-> h[n]]
    OBVIOUS
  <2> HIDE DEF h
  <2>4. Solves(h, k + 1)
    BY <2>2, <2>3
  <2> QED BY <2>4, SMTT(40)
<1>3. Len(list) \in Nat
  OBVIOUS
<1>4. Len(list) \in Solved
  <2> HIDE DEF Solved
  <2>1. \A k \in Nat : k >= 0 => k \in Solved
    BY <1>1, <1>2, InductionFrom
  <2> QED BY <1>3, <2>1
<1>5. \E g : Solves(g, Len(list))
  BY <1>4
<1>6. PICK made : FromDictionary(list) = made[Len(list)] /\ Solves(made, Len(list))
  BY <1>5 DEF FromDictionary, Next1
<1>7. \A n \in 0..Len(list) :
         made[n] = IF n = 0 THEN Built(EmptyDictionary) ELSE Next1(made[n - 1], n)
  BY <1>6
<1>8. 0 \in 0..Len(list) /\ \A n \in 1..Len(list) : n \in 0..Len(list) /\ n # 0
  BY <1>3
<1>9. made[0] = Built(EmptyDictionary) /\ \A n \in 1..Len(list) : made[n] = Next1(made[n - 1], n)
  BY <1>7, <1>8
<1> QED BY <1>6, <1>9 DEF Next1

LEMMA WithEntryMakes ==
  ASSUME NEW S, Elements \subseteq S, NEW made, Makes(made, "dictionary", S),
         NEW pair \in Nat \X Elements
  PROVE  Makes(WithEntry(made, pair), "dictionary", S)
<1> DEFINE dictionary == made.node
           fault == AddFault(dictionary, pair[1])
           added == Add(dictionary, pair[1], pair[2])
<1>1. /\ made = [node |-> dictionary, fault |-> made.fault]
      /\ Fits(dictionary, S) /\ dictionary.type = "dictionary"
      /\ made.fault \in {"ok", NodeError, CapacityError}
  BY DEF Makes
<1>2. pair[1] \in Nat /\ pair[2] \in Inside(S)
  BY ElementsAssumption DEF Inside
<1>3. CASE made.fault # "ok"
  BY <1>3 DEF WithEntry
<1>4. CASE made.fault = "ok" /\ fault # "ok"
  <2>1. WithEntry(made, pair) = [made EXCEPT !.fault = fault]
    BY <1>4 DEF WithEntry
  <2>2. fault \in {NodeError, CapacityError}
    BY <1>4 DEF AddFault
  <2> HIDE DEF dictionary, fault
  <2>3. WithEntry(made, pair) = [node |-> dictionary, fault |-> fault]
    BY <1>1, <2>1
  <2> QED BY <1>1, <2>2, <2>3 DEF Makes
<1>5. CASE made.fault = "ok" /\ fault = "ok"
  <2>1. WithEntry(made, pair) = Built(added)
    BY <1>5 DEF WithEntry
  <2>2. ~HasKey(dictionary, pair[1])
    BY <1>5 DEF AddFault, NodeError
  <2> HIDE DEF dictionary
  <2>3. Fits(added, S) /\ added.type = "dictionary"
    BY <1>1, <1>2, <2>2, AddFits
  <2> HIDE DEF added
  <2> QED BY <2>1, <2>3 DEF Makes, Built
<1> QED BY <1>3, <1>4, <1>5

LEMMA FromDictionaryMakes ==
  ASSUME NEW S, Elements \subseteq S, NEW list, list \in Seq(Nat \X Elements)
  PROVE  Makes(FromDictionary(list), "dictionary", S)
<1>1. PICK made : /\ FromDictionary(list) = made[Len(list)] /\ made[0] = Built(EmptyDictionary)
                  /\ \A n \in 1..Len(list) : made[n] = WithEntry(made[n - 1], list[n])
  BY FromDictionaryRecursion
<1> DEFINE Good == {n \in 0..Len(list) : Makes(made[n], "dictionary", S)}
<1>2. Len(list) \in Nat /\ \A n \in 1..Len(list) : list[n] \in Nat \X Elements
  OBVIOUS
<1>3. 0 \in Good
  BY <1>1, <1>2, EmptyContainersFit DEF Makes, Built
<1>4. ASSUME NEW n \in 0..Len(list), n < Len(list), n \in Good PROVE n + 1 \in Good
  <2>1. n + 1 \in 1..Len(list) /\ n + 1 \in 0..Len(list) /\ (n + 1) - 1 = n
    BY <1>2, <1>4
  <2>2. made[n + 1] = WithEntry(made[n], list[n + 1]) /\ list[n + 1] \in Nat \X Elements
    BY <1>1, <1>2, <2>1
  <2>3. Makes(made[n + 1], "dictionary", S)
    BY <1>4, <2>2, WithEntryMakes
  <2> QED BY <2>1, <2>3
<1> HIDE DEF Good
<1>5. \A n \in 0..Len(list) : n \in Good
  <2>1. 0 \in Int /\ Len(list) \in Int
    BY <1>2
  <2> QED BY <1>3, <1>4, <2>1, InductionUpTo
<1>6. Len(list) \in 0..Len(list)
  BY <1>2
<1> QED BY <1>1, <1>5, <1>6 DEF Good

LEMMA AssignableMakes ==
  ASSUME NEW S, Elements \subseteq S, NEW made \in Assignable
  PROVE  /\ Fits(made.node, S) \/ made.node \in S
         /\ made.node # EmptyNode /\ made.fault \in {"ok", NodeError, CapacityError}
<1>1. ASSUME NEW node \in Scalars, made = Built(node)
      PROVE  made.node \in S /\ made.node # EmptyNode /\ made.fault = "ok"
  <2>1. node \in Elements
    BY DEF Elements
  <2> QED BY <1>1, <2>1, ElementsAssumption DEF Built
<1>2. ASSUME NEW list \in ListInitializers, made = FromList(list)
      PROVE  Makes(made, "list", S)
  BY <1>2, FromListMakes, ElementsAssumption
<1>3. ASSUME NEW list \in DictionaryInitializers, made = FromDictionary(list)
      PROVE  Makes(made, "dictionary", S)
  BY <1>3, FromDictionaryMakes, ElementsAssumption
<1>4. \/ made \in {Built(node) : node \in Scalars}
      \/ made \in {FromList(list) : list \in ListInitializers}
      \/ made \in {FromDictionary(list) : list \in DictionaryInitializers}
  BY DEF Assignable
<1>5. ASSUME NEW type \in ContainerType, Makes(made, type, S)
      PROVE  /\ Fits(made.node, S) /\ made.node # EmptyNode
             /\ made.fault \in {"ok", NodeError, CapacityError}
  BY <1>5, TypedIsNotEmpty DEF Makes
<1>6. CASE made \in {Built(node) : node \in Scalars}
  BY <1>1, <1>6
<1>7. CASE made \in {FromList(list) : list \in ListInitializers}
  BY <1>2, <1>5, <1>7 DEF ContainerType
<1>8. CASE made \in {FromDictionary(list) : list \in DictionaryInitializers}
  BY <1>3, <1>5, <1>8 DEF ContainerType
<1> QED BY <1>4, <1>6, <1>7, <1>8

------------------------------------------------------------------------------
(* The nodes of a tree are those that its references lead to. *)

\* The subscripts that a reference follows.
PathOf(tree, ref) == [i \in 1..Len(ref) |-> SubscriptOf(Along(tree, ref)[i - 1], ref[i])]

Place(tree, ref) == [path |-> PathOf(tree, ref), node |-> NodeAt(tree, ref)]

LEMMA PathLonger ==
  ASSUME NEW tree, NEW ref, ref \in Seq(Nat), NEW slot, NEW longer, Extends(longer, ref, slot)
  PROVE  PathOf(tree, longer) =
            Append(PathOf(tree, ref), SubscriptOf(NodeAt(tree, ref), slot))
<1> DEFINE n == Len(ref)
           g == Along(tree, ref)
           h == Along(tree, longer)
           p == PathOf(tree, ref)
           q == PathOf(tree, longer)
           last == SubscriptOf(g[n], slot)
<1>0. n = Len(ref) /\ g = Along(tree, ref) /\ h = Along(tree, longer)
  OBVIOUS
<1>1. /\ Len(longer) = n + 1 /\ longer[n + 1] = slot /\ n \in Nat
      /\ \A i \in 1..n : longer[i] = ref[i]
  BY DEF Extends
<1>2. /\ p = [i \in 1..n |-> SubscriptOf(g[i - 1], ref[i])]
      /\ q = [i \in 1..(n + 1) |-> SubscriptOf(h[i - 1], longer[i])]
  BY <1>1 DEF PathOf
<1> HIDE DEF n, g, h, p, q, last
<1>3. \A i \in 0..n : h[i] = g[i]
  BY <1>0, AlongLonger DEF SameUpTo
<1>4. \A i \in 1..n : q[i] = p[i]
  <2> SUFFICES ASSUME NEW i \in 1..n PROVE q[i] = p[i]
    OBVIOUS
  <2>1. i \in 1..(n + 1) /\ i - 1 \in 0..n
    BY <1>1
  <2> QED BY <1>1, <1>2, <1>3, <2>1
<1>5. q[n + 1] = last
  <2>1. n + 1 \in 1..(n + 1) /\ (n + 1) - 1 = n /\ n \in 0..n
    BY <1>1
  <2> QED BY <1>1, <1>2, <1>3, <2>1 DEF last
<1> DEFINE T == {q[i] : i \in 1..(n + 1)}
<1>6. \A i \in 1..n : p[i] \in T
  <2> SUFFICES ASSUME NEW i \in 1..n PROVE p[i] \in T
    OBVIOUS
  <2>1. i \in 1..(n + 1)
    BY <1>1
  <2> QED BY <1>4, <2>1
<1>7. last \in T
  <2>1. n + 1 \in 1..(n + 1)
    BY <1>1
  <2> QED BY <1>5, <2>1
<1>8. q \in [1..(n + 1) -> T]
  BY <1>2
<1> HIDE DEF T
<1>9. p \in [1..n -> T]
  BY <1>2, <1>6
<1>10. p \in Seq(T) /\ Len(p) = n
  BY <1>1, <1>9, SMTT(40)
<1>11. q = Append(p, last)
  <2>1. Append(p, last) \in Seq(T) /\ Len(Append(p, last)) = n + 1
    BY <1>1, <1>7, <1>10
  <2>2. q \in Seq(T) /\ Len(q) = n + 1
    BY <1>1, <1>8
  <2>3. \A i \in 1..n : Append(p, last)[i] = p[i]
    BY <1>1, <1>10
  <2>4. Append(p, last)[n + 1] = last
    BY <1>1, <1>10
  <2>5. \A i \in 1..(n + 1) : i \in 1..n \/ i = n + 1
    BY <1>1
  <2>6. \A i \in 1..(n + 1) : q[i] = Append(p, last)[i]
    BY <1>4, <1>5, <2>3, <2>4, <2>5
  <2> QED BY <2>1, <2>2, <2>6, SeqEqual
<1> QED BY <1>11 DEF p, q, last, g, n, NodeAt

LEMMA ReferenceHasLast ==
  ASSUME NEW longer \in Seq(Nat), Len(longer) # 0
  PROVE  \E ref \in Seq(Nat), slot \in Nat :
            Extends(longer, ref, slot) /\ Len(ref) = Len(longer) - 1
<1> DEFINE n == Len(longer) - 1
           ref == [i \in 1..n |-> longer[i]]
<1>1. n \in Nat /\ n + 1 = Len(longer)
  OBVIOUS
<1>2. ref \in Seq(Nat) /\ Len(ref) = n /\ \A i \in 1..n : ref[i] = longer[i]
  BY <1>1
<1>3. longer[n + 1] \in Nat
  BY <1>1
<1> HIDE DEF n, ref
<1>4. Extends(longer, ref, longer[n + 1])
  BY <1>1, <1>2 DEF Extends
<1> QED BY <1>1, <1>2, <1>3, <1>4

LEMMA WithinRecursion ==
  ASSUME NEW tree, NEW depth \in Nat
  PROVE  \E within :
            /\ Within(tree, depth) = within[depth]
            /\ within[0] = {[path |-> <<>>, node |-> tree]}
            /\ \A n \in 1..depth :
                  within[n] = {[path |-> <<>>, node |-> tree]}
                                 \cup UNION {Entries(reached) : reached \in within[n - 1]}
<1> DEFINE top == {[path |-> <<>>, node |-> tree]}
           Next1(before) == top \cup UNION {Entries(reached) : reached \in before}
           Solves(g, k) == g = [n \in 0..k |-> IF n = 0 THEN top ELSE Next1(g[n - 1])]
           Solved == {k \in Nat : \E g : Solves(g, k)}
<1> HIDE DEF Next1, top
<1>1. 0 \in Solved
  <2>1. Solves([n \in 0..0 |-> top], 0)
    OBVIOUS
  <2> QED BY <2>1
<1>2. ASSUME NEW k \in Nat, k \in Solved PROVE k + 1 \in Solved
  <2>1. PICK g : Solves(g, k)
    BY <1>2
  <2> DEFINE h == [n \in 0..(k + 1) |-> IF n <= k THEN g[n] ELSE Next1(g[k])]
  <2>2. ASSUME NEW n \in 0..(k + 1) PROVE h[n] = IF n = 0 THEN top ELSE Next1(h[n - 1])
    <3>1. CASE n <= k
      <4>1. h[n] = g[n] /\ (n # 0 => h[n - 1] = g[n - 1]) /\ n \in 0..k
        BY <3>1
      <4>2. \A j \in 0..k : g[j] = IF j = 0 THEN top ELSE Next1(g[j - 1])
        BY <2>1
      <4> QED BY <4>1, <4>2
    <3>2. CASE n = k + 1
      BY <3>2
    <3> QED BY <3>1, <3>2
  <2>3. h = [n \in 0..(k + 1) |-> h[n]]
    OBVIOUS
  <2> HIDE DEF h
  <2>4. Solves(h, k + 1)
    BY <2>2, <2>3
  <2> QED BY <2>4
<1>3. depth \in Solved
  <2> HIDE DEF Solved
  <2>1. \A k \in Nat : k >= 0 => k \in Solved
    BY <1>1, <1>2, InductionFrom
  <2> QED BY <2>1
<1>4. \E g : Solves(g, depth)
  BY <1>3
<1>5. PICK within : Within(tree, depth) = within[depth] /\ Solves(within, depth)
  BY <1>4 DEF Within, Next1, top
<1>6. \A n \in 0..depth : within[n] = IF n = 0 THEN top ELSE Next1(within[n - 1])
  BY <1>5
<1>7. 0 \in 0..depth /\ \A n \in 1..depth : n \in 0..depth /\ n # 0
  OBVIOUS
<1>8. within[0] = top /\ \A n \in 1..depth : within[n] = Next1(within[n - 1])
  BY <1>6, <1>7
<1> QED BY <1>5, <1>8 DEF Next1, top

\* The empty reference leads to the root.
LEMMA PlaceOfRoot ==
  ASSUME NEW tree
  PROVE  /\ <<>> \in References(tree)
         /\ Place(tree, <<>>) = [path |-> <<>>, node |-> tree]
<1>1. <<>> \in Seq(Nat) /\ Len(<<>>) = 0 /\ 1..0 = {}
  OBVIOUS
<1>2. Along(tree, <<>>)[0] = tree
  BY <1>1, AlongSteps
<1>3. PathOf(tree, <<>>) = <<>>
  BY <1>1 DEF PathOf
<1>4. Leads(tree, <<>>)
  BY <1>1, LeadsSteps
<1> QED BY <1>1, <1>2, <1>3, <1>4 DEF Place, NodeAt, References

\* The entries of a node that a reference leads to are where one more slot leads.
LEMMA EntriesArePlaces ==
  ASSUME NEW S, Closed(S), NEW tree, tree \in S, NEW ref, ref \in References(tree), NEW entry
  PROVE  entry \in Entries(Place(tree, ref)) <=>
            \E slot \in Nat, longer \in References(tree) :
                Extends(longer, ref, slot) /\ entry = Place(tree, longer)
<1> DEFINE node == NodeAt(tree, ref)
<1>1. ref \in Seq(Nat) /\ Leads(tree, ref)
  BY DEF References
<1>2. DOMAIN node.items \subseteq Nat
  <2>1. Len(ref) \in 0..Len(ref)
    BY <1>1
  <2>2. node \in S
    BY <1>1, <2>1, AlongStays DEF NodeAt
  <2>3. node.items \in Seq(Inside(S))
    BY <2>2 DEF Closed, Fits
  <2> QED BY <2>3
<1>3. entry \in Entries(Place(tree, ref)) <=>
         \E slot \in DOMAIN node.items :
             entry = [path |-> Append(PathOf(tree, ref), SubscriptOf(node, slot)),
                      node |-> node.items[slot]]
  BY DEF Entries, Place
<1> HIDE DEF node
<1>4. ASSUME NEW slot, NEW longer, Extends(longer, ref, slot)
      PROVE  /\ Place(tree, longer) =
                   [path |-> Append(PathOf(tree, ref), SubscriptOf(node, slot)),
                    node |-> node.items[slot]]
             /\ longer \in References(tree) <=> slot \in DOMAIN node.items
  <2>1. PathOf(tree, longer) = Append(PathOf(tree, ref), SubscriptOf(node, slot))
    BY <1>1, <1>4, PathLonger DEF node
  <2>2. NodeAt(tree, longer) = node.items[slot]
    BY <1>1, <1>4, NodeLonger DEF node
  <2>3. Leads(tree, longer) <=> slot \in DOMAIN node.items
    BY <1>1, <1>4, LeadsLonger DEF node
  <2>4. longer \in Seq(Nat)
    BY <1>4 DEF Extends
  <2> QED BY <2>1, <2>2, <2>3, <2>4 DEF Place, References
<1>5. ASSUME NEW slot \in DOMAIN node.items
      PROVE  Extends(Append(ref, slot), ref, slot)
  BY <1>1, <1>2, AppendExtends
<1> QED BY <1>2, <1>3, <1>4, <1>5

\* The nodes within a depth are the places of the references that short.
LEMMA WithinIs ==
  ASSUME NEW S, Closed(S), NEW tree, tree \in S, NEW depth \in Nat
  PROVE  Within(tree, depth) =
            {Place(tree, ref) : ref \in {r \in References(tree) : Len(r) <= depth}}
<1> DEFINE top == {[path |-> <<>>, node |-> tree]}
           Upto(n) == {Place(tree, ref) : ref \in {r \in References(tree) : Len(r) <= n}}
<1>1. PICK within :
         /\ Within(tree, depth) = within[depth] /\ within[0] = top
         /\ \A n \in 1..depth :
               within[n] = top \cup UNION {Entries(reached) : reached \in within[n - 1]}
  BY WithinRecursion
<1>2. \A ref \in References(tree) : ref \in Seq(Nat) /\ Len(ref) \in Nat
  BY DEF References
<1>3. <<>> \in References(tree) /\ Len(<<>>) = 0 /\ Place(tree, <<>>) \in top
      /\ \A place \in top : place = Place(tree, <<>>)
  BY PlaceOfRoot
<1>4. Upto(0) = top
  <2>1. \A ref \in References(tree) : Len(ref) <= 0 => ref = <<>>
    BY <1>2
  <2> HIDE DEF top
  <2> QED BY <1>3, <2>1
<1> HIDE DEF top
<1>5. ASSUME NEW n \in Nat
      PROVE  top \cup UNION {Entries(reached) : reached \in Upto(n)} = Upto(n + 1)
  <2>1. ASSUME NEW place \in top PROVE place \in Upto(n + 1)
    BY <1>3, <2>1
  <2>2. ASSUME NEW ref \in References(tree), Len(ref) <= n, NEW place \in Entries(Place(tree, ref))
        PROVE  place \in Upto(n + 1)
    <3>1. PICK slot \in Nat, longer \in References(tree) :
             Extends(longer, ref, slot) /\ place = Place(tree, longer)
      BY EntriesArePlaces
    <3>2. Len(longer) <= n + 1
      BY <1>2, <2>2, <3>1 DEF Extends
    <3> QED BY <3>1, <3>2
  <2>3. ASSUME NEW longer \in References(tree), Len(longer) <= n + 1, Len(longer) # 0
        PROVE  \E ref \in References(tree) :
                  Len(ref) <= n /\ Place(tree, longer) \in Entries(Place(tree, ref))
    <3>1. PICK ref \in Seq(Nat), slot \in Nat :
             Extends(longer, ref, slot) /\ Len(ref) = Len(longer) - 1
      BY <1>2, <2>3, ReferenceHasLast
    <3>2. ref \in References(tree)
      BY <3>1, LeadsLonger DEF References
    <3>3. Len(ref) <= n
      BY <1>2, <2>3, <3>1
    <3>4. Place(tree, longer) \in Entries(Place(tree, ref))
      BY <3>1, <3>2, EntriesArePlaces
    <3> QED BY <3>2, <3>3, <3>4
  <2>4. ASSUME NEW longer \in References(tree), Len(longer) = 0
        PROVE  Place(tree, longer) \in top
    <3>1. longer = <<>>
      BY <1>2, <2>4
    <3> QED BY <1>3, <3>1
  <2>5. top \cup UNION {Entries(reached) : reached \in Upto(n)} \subseteq Upto(n + 1)
    <3> SUFFICES ASSUME NEW place, place \in top \cup UNION {Entries(reached) : reached \in Upto(n)}
                 PROVE  place \in Upto(n + 1)
      OBVIOUS
    <3>1. CASE place \in top
      BY <2>1, <3>1
    <3>2. CASE place \notin top
      <4>1. PICK ref \in References(tree) : Len(ref) <= n /\ place \in Entries(Place(tree, ref))
        BY <3>2
      <4> QED BY <2>2, <4>1
    <3> QED BY <3>1, <3>2
  <2>6. Upto(n + 1) \subseteq top \cup UNION {Entries(reached) : reached \in Upto(n)}
    <3> SUFFICES ASSUME NEW longer \in References(tree), Len(longer) <= n + 1
                 PROVE  Place(tree, longer) \in
                           top \cup UNION {Entries(reached) : reached \in Upto(n)}
      OBVIOUS
    <3>1. CASE Len(longer) = 0
      BY <2>4, <3>1
    <3>2. CASE Len(longer) # 0
      BY <2>3, <3>2
    <3> QED BY <3>1, <3>2
  <2> QED BY <2>5, <2>6
<1> DEFINE Same == {n \in 0..depth : within[n] = Upto(n)}
<1> HIDE DEF Upto
<1>6. 0 \in Same
  BY <1>1, <1>4
<1>7. ASSUME NEW n \in 0..depth, n < depth, n \in Same PROVE n + 1 \in Same
  <2>1. n + 1 \in 1..depth /\ n + 1 \in 0..depth /\ (n + 1) - 1 = n /\ n \in Nat
    BY <1>7
  <2>2. within[n + 1] = top \cup UNION {Entries(reached) : reached \in within[n]}
    BY <1>1, <2>1
  <2>3. within[n] = Upto(n)
    BY <1>7
  <2> QED BY <1>5, <2>1, <2>2, <2>3
<1> HIDE DEF Same
<1>8. \A n \in 0..depth : n \in Same
  <2>1. 0 \in Int /\ depth \in Int
    OBVIOUS
  <2> QED BY <1>6, <1>7, <2>1, InductionUpTo
<1>9. within[depth] = Upto(depth)
  BY <1>8 DEF Same
<1> QED BY <1>1, <1>9 DEF Upto

\* No node of a tree lies outside a closed set that has the tree.
LEMMA NodesStay ==
  ASSUME NEW S, Closed(S), NEW tree, tree \in S
  PROVE  Nodes(tree) \subseteq S
<1>1. ASSUME NEW depth \in Depths, NEW reached \in Within(tree, depth) PROVE reached.node \in S
  <2>1. depth \in Nat
    BY DocumentAssumption
  <2>2. PICK ref \in References(tree) : reached = Place(tree, ref)
    BY <2>1, WithinIs
  <2>3. ref \in Seq(Nat) /\ Leads(tree, ref) /\ Len(ref) \in 0..Len(ref)
    BY DEF References
  <2> QED BY <2>2, <2>3, AlongStays DEF Place, NodeAt
<1> QED BY <1>1 DEF Nodes, Reached

------------------------------------------------------------------------------
(* The invariant.                                                          *)

Subscripts == [by : {"key", "index"}, at : Int]

(* The document is one of a closed set of well formed nodes, and a         *)
(* reference leads where its subscripts say.                               *)
DocumentInv ==
    /\ TypeOK
    /\ path \in Seq(Subscripts)
    /\ ReferenceNamesPath
    /\ \E S : Sound(S) /\ root \in S

LEMMA InitHolds == Init => DocumentInv
<1> SUFFICES ASSUME Init PROVE DocumentInv
  OBVIOUS
<1>1. root = EmptyNode \/ \E made \in Assignable : made.node = root
  BY DEF Init
<1>2. open = FALSE /\ slots = <<>> /\ outcome = "ok" /\ path = <<>>
  BY DEF Init
<1> DEFINE S == Elements \cup {HoleNode, EmptyNode}
           T == S \cup {root}
<1>3. Elements \subseteq S /\ HoleNode \in S
  OBVIOUS
<1>4. Closed(S)
  <2> SUFFICES ASSUME NEW node \in S PROVE Fits(node, S)
    BY DEF Closed
  <2>1. CASE node \in Elements
    <3>1. WellFormed(node) /\ node.items \in Seq(Elements)
      BY <2>1, ElementsAssumption
    <3>2. Elements \subseteq Inside(S)
      BY ElementsAssumption DEF Inside
    <3>3. node.items \in Seq(Inside(S))
      BY <3>1, <3>2, SequencesOverMore
    <3> QED BY <3>1, <3>3 DEF Fits
  <2>2. CASE node \in {HoleNode, EmptyNode}
    BY <2>2, EmptyContainersFit
  <2> QED BY <2>1, <2>2
<1>5. Fits(root, S) \/ root \in S
  BY <1>1, <1>3, AssignableMakes
<1> HIDE DEF S
<1>6. S \subseteq T /\ root \in T
  OBVIOUS
<1>7. Closed(T)
  <2> SUFFICES ASSUME NEW node \in T PROVE Fits(node, T)
    BY DEF Closed
  <2>1. Fits(node, S)
    BY <1>4, <1>5 DEF Closed
  <2> HIDE DEF T
  <2> QED BY <1>6, <2>1, FitsMore
<1> HIDE DEF T
<1>8. Sound(T)
  <2>1. ASSUME FiniteElements PROVE AllFinite(T)
    <3>1. AllFinite(S)
      <4>1. Fits(HoleNode, {}) /\ Fits(EmptyNode, {}) /\ AllFinite({})
        BY EmptyContainersFit DEF AllFinite
      <4>2. FiniteDepth(HoleNode) /\ FiniteDepth(EmptyNode)
        BY <4>1, FitsFinite
      <4> QED BY <2>1, <4>2 DEF AllFinite, FiniteElements, S
    <3>2. FiniteDepth(root)
      BY <1>5, <3>1, FitsFinite DEF AllFinite
    <3> QED BY <3>1, <3>2 DEF AllFinite, T
  <2> QED BY <1>3, <1>6, <1>7, <2>1 DEF Sound
<1>9. Leads(root, <<>>)
  BY PlaceOfRoot DEF References
<1>10. TypeOK
  <2>1. slots \in Seq(Nat) /\ outcome # "none"
    BY <1>2
  <2> QED BY <1>2, <1>9, <2>1, Zenon DEF TypeOK
<1>11. path \in Seq(Subscripts) /\ ReferenceNamesPath
  BY <1>2 DEF ReferenceNamesPath
<1> QED BY <1>6, <1>8, <1>10, <1>11 DEF DocumentInv

\* The slots of a reference are those its subscripts name.
Named(tree, ref, subscripts) ==
    /\ Len(ref) = Len(subscripts)
    /\ \A i \in 1..Len(ref) : Names(Along(tree, ref)[i - 1], ref[i], subscripts[i])

LEMMA ReferenceIsNamed ==
  path \in Seq(Subscripts) => (ReferenceNamesPath <=> (open => Named(root, slots, path)))
<1> SUFFICES ASSUME path \in Seq(Subscripts)
             PROVE  ReferenceNamesPath <=> (open => Named(root, slots, path))
  OBVIOUS
<1>1. DOMAIN path = 1..Len(path)
  OBVIOUS
<1> QED BY <1>1 DEF ReferenceNamesPath, Named, Names

LEMMA NextReferenceIsNamed ==
  path' \in Seq(Subscripts) =>
      (ReferenceNamesPath' <=> (open' => Named(root', slots', path')))
<1> SUFFICES ASSUME path' \in Seq(Subscripts)
             PROVE  ReferenceNamesPath' <=> (open' => Named(root', slots', path'))
  OBVIOUS
<1>1. DOMAIN path' = 1..Len(path')
  OBVIOUS
<1> QED BY <1>1 DEF ReferenceNamesPath, Named, Names

\* A statement that has ended keeps the invariant when the document does.
LEMMA EndedKeeps ==
  ASSUME NEW result, Ended(result), result # "none", path' \in Seq(Subscripts),
         NEW S, Sound(S), root' \in S
  PROVE  DocumentInv'
<1>1. open' = FALSE /\ slots' = <<>> /\ outcome' = result
  BY DEF Ended
<1>2. Leads(root', <<>>)
  BY PlaceOfRoot DEF References
<1>3. TypeOK'
  <2>1. slots' \in Seq(Nat)
    BY <1>1
  <2> QED BY <1>1, <1>2, <2>1, Zenon DEF TypeOK
<1>4. ReferenceNamesPath'
  BY <1>1 DEF ReferenceNamesPath
<1> QED BY <1>3, <1>4 DEF DocumentInv

\* Replacing a node by one that fits keeps the document sound.
LEMMA ReplacingStaysSound ==
  ASSUME NEW S, Sound(S), NEW tree, tree \in S, NEW ref, ref \in References(tree),
         NEW node, Fits(node, S), node = EmptyNode => ref = <<>>
  PROVE  \E T : Sound(T) /\ WithNodeAt(tree, ref, node) \in T
<1>1. ref \in Seq(Nat) /\ Leads(tree, ref) /\ Closed(S)
  BY DEF References, Sound
<1>2. PICK T : /\ Closed(T) /\ S \subseteq T /\ WithNodeAt(tree, ref, node) \in T
               /\ AllFinite(S) => AllFinite(T)
  <2>1. PICK T : Covers(T, S, Rebuilt(tree, ref, node), Len(ref))
    BY <1>1, ReplacingStaysClosed
  <2>2. 0 \in 0..Len(ref)
    BY <1>1
  <2> QED BY <2>1, <2>2 DEF Covers, WithNodeAt
<1> QED BY <1>2 DEF Sound

\* The reference with one more slot is named by one more subscript.
LEMMA NamedLonger ==
  ASSUME NEW S, Closed(S), NEW tree, tree \in S, NEW ref, ref \in References(tree),
         NEW subscripts, subscripts \in Seq(Subscripts), Named(tree, ref, subscripts),
         NEW subscript, subscript \in Subscripts,
         NEW node, NEW slot, slot \in Nat, slot \in DOMAIN node.items,
         Names(node, slot, subscript),
         NEW new, new = WithNodeAt(tree, ref, node),
         NEW longer, Extends(longer, ref, slot)
  PROVE  longer \in References(new) /\ Named(new, longer, Append(subscripts, subscript))
<1> DEFINE n == Len(ref)
           g == Along(tree, ref)
           h == Along(new, ref)
           k == Along(new, longer)
           all == Append(subscripts, subscript)
<1>0. n = Len(ref) /\ g = Along(tree, ref) /\ h = Along(new, ref) /\ k = Along(new, longer)
  OBVIOUS
<1>1. /\ longer \in Seq(Nat) /\ Len(longer) = n + 1 /\ longer[n + 1] = slot /\ n \in Nat
      /\ \A i \in 1..n : longer[i] = ref[i]
      /\ ref \in Seq(Nat) /\ Leads(tree, ref)
  BY DEF Extends, References
<1>2. /\ Len(subscripts) = n /\ Len(all) = n + 1 /\ all[n + 1] = subscript
      /\ \A i \in 1..n : all[i] = subscripts[i]
      /\ \A i \in 1..n : Names(g[i - 1], ref[i], subscripts[i])
  BY DEF Named
<1> HIDE DEF n, g, h, k, all
<1>3. /\ Leads(new, ref) /\ h[n] = node
      /\ \A i \in 0..(n - 1) : h[i].type = g[i].type /\ h[i].keys = g[i].keys
  <2>1. Leads(new, ref) /\ h[n] = node /\ AlikeAbove(h, g, n)
    BY <1>0, <1>1, ReplacingKeepsReference
  <2> QED BY <2>1 DEF AlikeAbove
<1>4. \A i \in 0..n : k[i] = h[i]
  <2>1. SameUpTo(k, h, n)
    BY <1>0, <1>1, AlongLonger
  <2> QED BY <2>1 DEF SameUpTo
<1>5. Leads(new, longer)
  BY <1>0, <1>1, <1>3, AlongLonger
<1>6. ASSUME NEW i \in 1..(n + 1) PROVE Names(k[i - 1], longer[i], all[i])
  <2>1. CASE i = n + 1
    <3>1. i - 1 = n /\ n \in 0..n
      BY <1>1, <2>1
    <3> QED BY <1>1, <1>2, <1>3, <1>4, <2>1, <3>1
  <2>2. CASE i # n + 1
    <3>1. i \in 1..n /\ i - 1 \in 0..n /\ i - 1 \in 0..(n - 1)
      BY <1>1, <2>2
    <3>2. /\ k[i - 1].type = g[i - 1].type /\ k[i - 1].keys = g[i - 1].keys
          /\ longer[i] = ref[i] /\ all[i] = subscripts[i]
      BY <1>1, <1>2, <1>3, <1>4, <3>1
    <3>3. Names(g[i - 1], ref[i], subscripts[i])
      BY <1>2, <3>1
    <3> QED BY <3>2, <3>3 DEF Names
  <2> QED BY <2>1, <2>2
<1>7. Named(new, longer, all)
  <2>1. Len(longer) = Len(all) /\ \A i \in 1..Len(longer) : Names(k[i - 1], longer[i], all[i])
    BY <1>1, <1>2, <1>6
  <2> QED BY <1>0, <2>1 DEF Named
<1> QED BY <1>1, <1>5, <1>7 DEF References, all

LEMMA FollowKeeps ==
  ASSUME NEW S, Sound(S), root \in S, NEW ref, ref \in References(root),
         NEW subscripts, subscripts \in Seq(Subscripts), Named(root, ref, subscripts),
         NEW subscript, subscript \in Subscripts,
         NEW reached, Answers(reached, NodeAt(root, ref), subscript, S),
         Follow(ref, Append(subscripts, subscript), reached)
  PROVE  DocumentInv'
<1>1. ref \in Seq(Nat) /\ Leads(root, ref) /\ Closed(S)
  BY DEF References, Sound
<1>2. NodeAt(root, ref) = EmptyNode => ref = <<>>
  <2> SUFFICES ASSUME ref # <<>> PROVE NodeAt(root, ref) # EmptyNode
    OBVIOUS
  <2>1. Len(ref) \in 1..Len(ref)
    BY <1>1
  <2> QED BY <1>1, <2>1, AlongStays DEF NodeAt
<1>3. PICK T : Sound(T) /\ WithNodeAt(root, ref, reached.node) \in T
  BY <1>2, ReplacingStaysSound DEF Answers
<1>4. root' = WithNodeAt(root, ref, reached.node) /\ path' = Append(subscripts, subscript)
  BY DEF Follow
<1>5. path' \in Seq(Subscripts)
  BY <1>4
<1>6. CASE reached.fault = "ok"
  <2>1. /\ open' = TRUE /\ outcome' = "none" /\ slots' = Append(ref, reached.slot)
    BY <1>6 DEF Follow, Ended
  <2>2. /\ reached.slot \in Nat /\ reached.slot \in DOMAIN reached.node.items
        /\ Names(reached.node, reached.slot, subscript)
    BY <1>6 DEF Answers
  <2>3. Extends(slots', ref, reached.slot)
    BY <1>1, <2>1, <2>2, AppendExtends
  <2>4. slots' \in References(root') /\ Named(root', slots', path')
    BY <1>1, <1>4, <2>2, <2>3, NamedLonger
  <2>5. TypeOK'
    BY <2>1, <2>4 DEF TypeOK, References
  <2>6. ReferenceNamesPath'
    BY <1>5, <2>4, NextReferenceIsNamed
  <2> QED BY <1>3, <1>4, <1>5, <2>5, <2>6 DEF DocumentInv
<1>7. CASE reached.fault # "ok"
  <2>1. Ended(reached.fault)
    BY <1>7 DEF Follow
  <2>2. reached.fault # "none"
    BY DEF Answers, NodeError, CapacityError
  <2> QED BY <1>3, <1>4, <1>5, <2>1, <2>2, EndedKeeps
<1> QED BY <1>6, <1>7

LEMMA NextKeeps == DocumentInv /\ [Next]_vars => DocumentInv'
<1> SUFFICES ASSUME DocumentInv, [Next]_vars PROVE DocumentInv'
  OBVIOUS
<1>1. PICK S : Sound(S) /\ root \in S
  BY DEF DocumentInv
<1>2. Closed(S) /\ HoleNode \in S /\ Elements \subseteq S
  BY <1>1 DEF Sound
<1>3. /\ slots \in References(root) /\ path \in Seq(Subscripts)
      /\ (open => outcome = "none") /\ (outcome = "none" => open)
      /\ open => Named(root, slots, path)
  BY ReferenceIsNamed DEF DocumentInv, TypeOK, References
<1>4. \A node \in S : Fits(node, S)
  BY <1>2 DEF Closed
<1>5. Fits(NodeAt(root, slots), S)
  <2>1. slots \in Seq(Nat) /\ Leads(root, slots) /\ Len(slots) \in 0..Len(slots)
    BY <1>3 DEF References
  <2> QED BY <1>1, <1>2, <1>4, <2>1, AlongStays DEF NodeAt
<1>6. /\ <<>> \in References(root) /\ NodeAt(root, <<>>) = root
      /\ <<>> \in Seq(Subscripts) /\ Named(root, <<>>, <<>>)
  <2>1. <<>> \in References(root) /\ Place(root, <<>>) = [path |-> <<>>, node |-> root]
    BY PlaceOfRoot
  <2>2. NodeAt(root, <<>>) = Place(root, <<>>).node
    BY DEF Place
  <2>3. <<>> \in Seq(Subscripts) /\ Len(<<>>) = 0
    OBVIOUS
  <2>4. Named(root, <<>>, <<>>)
    BY <2>3 DEF Named
  <2> QED BY <2>1, <2>2, <2>3, <2>4
<1>7. /\ \A key \in Keys : key \in Nat /\ ByKey(key) \in Subscripts
      /\ \A index \in Indices : index \in Int /\ ByIndex(index) \in Subscripts
  BY DocumentAssumption DEF ByKey, ByIndex, Subscripts
<1>8. \A subscript : <<subscript>> = Append(<<>>, subscript)
  OBVIOUS
<1>9. CASE TakeRoot
  <2>1. open' = TRUE /\ outcome' = "none" /\ slots' = <<>> /\ path' = <<>> /\ root' = root
    BY <1>9 DEF TakeRoot
  <2>2. TypeOK'
    <3>1. slots' \in Seq(Nat) /\ Leads(root', slots')
      BY <1>6, <2>1 DEF References
    <3> QED BY <2>1, <3>1, Zenon DEF TypeOK
  <2>3. path' \in Seq(Subscripts) /\ ReferenceNamesPath'
    BY <1>6, <2>1, NextReferenceIsNamed
  <2> QED BY <1>1, <2>1, <2>2, <2>3 DEF DocumentInv
<1>10. CASE RootKey
  <2>1. PICK key \in Keys : Follow(<<>>, <<ByKey(key)>>, RootByKey(key))
    BY <1>10 DEF RootKey
  <2>2. Answers(RootByKey(key), root, ByKey(key), S)
    BY <1>1, <1>2, <1>4, <1>7, RootAnswers
  <2>3. Follow(<<>>, Append(<<>>, ByKey(key)), RootByKey(key))
    BY <1>8, <2>1
  <2> QED BY <1>1, <1>6, <1>7, <2>2, <2>3, FollowKeeps
<1>11. CASE RootIndex
  <2>1. PICK index \in Indices : Follow(<<>>, <<ByIndex(index)>>, RootByIndex(index))
    BY <1>11 DEF RootIndex
  <2>2. Answers(RootByIndex(index), root, ByIndex(index), S)
    BY <1>1, <1>2, <1>4, <1>7, RootAnswers
  <2>3. Follow(<<>>, Append(<<>>, ByIndex(index)), RootByIndex(index))
    BY <1>8, <2>1
  <2> QED BY <1>1, <1>6, <1>7, <2>2, <2>3, FollowKeeps
<1>12. CASE NodeKey
  <2> DEFINE node == NodeAt(root, slots)
  <2>1. PICK key \in Keys : Follow(slots, Append(path, ByKey(key)), NodeByKey(node, key))
    BY <1>12 DEF NodeKey
  <2>2. Answers(NodeByKey(node, key), node, ByKey(key), S)
    BY <1>2, <1>5, <1>7, KeyAnswers
  <2>3. open
    BY <1>12 DEF NodeKey
  <2> QED BY <1>1, <1>3, <1>7, <2>1, <2>2, <2>3, FollowKeeps
<1>13. CASE NodeIndex
  <2> DEFINE node == NodeAt(root, slots)
  <2>1. PICK index \in Indices :
           Follow(slots, Append(path, ByIndex(index)), NodeByIndex(node, index))
    BY <1>13 DEF NodeIndex
  <2>2. Answers(NodeByIndex(node, index), node, ByIndex(index), S)
    BY <1>2, <1>5, <1>7, IndexAnswers
  <2>3. open
    BY <1>13 DEF NodeIndex
  <2> QED BY <1>1, <1>3, <1>7, <2>1, <2>2, <2>3, FollowKeeps
<1>14. CASE Assign
  <2>1. PICK made \in Assignable :
           /\ root' = IF made.fault = "ok" THEN WithNodeAt(root, slots, made.node) ELSE root
           /\ Ended(made.fault)
    BY <1>14 DEF Assign
  <2>2. /\ Fits(made.node, S) /\ made.node # EmptyNode /\ made.fault # "none"
    BY <1>2, <1>4, AssignableMakes DEF NodeError, CapacityError
  <2>3. PICK T : Sound(T) /\ root' \in T
    <3>1. CASE made.fault = "ok"
      BY <1>1, <1>3, <2>1, <2>2, <3>1, ReplacingStaysSound
    <3>2. CASE made.fault # "ok"
      BY <1>1, <2>1, <3>2
    <3> QED BY <3>1, <3>2
  <2>4. path' \in Seq(Subscripts)
    BY <1>6, <1>14 DEF Assign
  <2> QED BY <2>1, <2>2, <2>3, <2>4, EndedKeeps
<1>15. CASE Drop
  <2>1. Ended("ok") /\ root' = root /\ path' \in Seq(Subscripts)
    BY <1>6, <1>15 DEF Drop
  <2> QED BY <1>1, <2>1, EndedKeeps
<1>16. CASE UNCHANGED vars
  <2>1. root' = root /\ open' = open /\ slots' = slots /\ path' = path /\ outcome' = outcome
    BY <1>16 DEF vars
  <2> QED BY <2>1 DEF DocumentInv, TypeOK, ReferenceNamesPath
<1> QED BY <1>9, <1>10, <1>11, <1>12, <1>13, <1>14, <1>15, <1>16 DEF Next

LEMMA DocumentInvHolds == Spec => []DocumentInv
BY InitHolds, NextKeeps, PTL DEF Spec

------------------------------------------------------------------------------
(* A reference always leads through slots its containers have, whatever    *)
(* the statements before it inserted, grew or replaced.                    *)
THEOREM ReferencesStayValid == Spec => []TypeOK
<1>1. DocumentInv => TypeOK
  BY DEF DocumentInv
<1> QED BY <1>1, DocumentInvHolds, PTL

(* A chain of subscripts ends at the entry the caller named.               *)
THEOREM ReferencesNameTheirPath == Spec => []ReferenceNamesPath
<1>1. DocumentInv => ReferenceNamesPath
  BY DEF DocumentInv
<1> QED BY <1>1, DocumentInvHolds, PTL

(* The binary searches of Dictionary always find ascending keys, in every  *)
(* dictionary at every depth.                                              *)
THEOREM DictionariesStaySorted == Spec => []KeysAscend
<1>1. ASSUME DocumentInv PROVE KeysAscend
  <2>1. PICK S : Closed(S) /\ root \in S
    BY <1>1 DEF DocumentInv, Sound
  <2>2. \A node \in Nodes(root) : Fits(node, S)
    BY <2>1, NodesStay DEF Closed
  <2> QED BY <2>2, FitsParts DEF KeysAscend, Ascending
<1> QED BY <1>1, DocumentInvHolds, PTL

(* No list or dictionary ever holds the null variant that every visitor of *)
(* the tree throws on, at whatever depth it is looked for.                 *)
THEOREM EntriesAreNeverEmpty == Spec => []NoEmptyEntries
<1>1. ASSUME DocumentInv PROVE NoEmptyEntries
  <2>1. PICK S : Closed(S) /\ root \in S
    BY <1>1 DEF DocumentInv, Sound
  <2>2. \A node \in Nodes(root) : node.items \in Seq(Inside(S))
    BY <2>1, NodesStay DEF Closed, Fits
  <2>3. \A items \in Seq(Inside(S)) : EmptyNode \notin Range(items)
    BY DEF Inside, Range
  <2> QED BY <2>2, <2>3 DEF NoEmptyEntries
<1> QED BY <1>1, DocumentInvHolds, PTL

------------------------------------------------------------------------------
(* A text inside a longer one. *)

\* Lexemes of any numbers.
Written == [kind : LexemeKind, val : Int]

\* The text s stands at pos in T.
HasAt(T, pos, s) ==
    /\ pos + Len(s) <= Len(T) + 1
    /\ \A i \in 1..Len(s) : T[pos + (i - 1)] = s[i]

LEMMA PartsStand ==
  ASSUME NEW T, Len(T) \in Nat, NEW pos \in Nat, NEW A, NEW s \in Seq(A), NEW t \in Seq(A),
         HasAt(T, pos, s \o t)
  PROVE  HasAt(T, pos, s) /\ HasAt(T, pos + Len(s), t)
<1> DEFINE u == s \o t
           m == Len(s)
           n == Len(t)
<1>1. /\ m \in Nat /\ n \in Nat /\ Len(u) = m + n
      /\ \A i \in 1..m : u[i] = s[i]
      /\ \A i \in 1..n : u[m + i] = t[i]
  OBVIOUS
<1>2. pos + Len(u) <= Len(T) + 1 /\ \A i \in 1..Len(u) : T[pos + (i - 1)] = u[i]
  BY DEF HasAt
<1>3. HasAt(T, pos, s)
  <2> HIDE DEF u
  <2>1. \A i \in 1..m : i \in 1..Len(u)
    BY <1>1
  <2> QED BY <1>1, <1>2, <2>1 DEF HasAt
<1>4. HasAt(T, pos + m, t)
  <2> HIDE DEF u, m
  <2>1. ASSUME NEW i \in 1..n PROVE T[(pos + m) + (i - 1)] = t[i]
    <3>1. m + i \in 1..Len(u) /\ pos + ((m + i) - 1) = (pos + m) + (i - 1)
      BY <1>1
    <3> QED BY <1>1, <1>2, <3>1
  <2>2. (pos + m) + n <= Len(T) + 1
    BY <1>1, <1>2
  <2> QED BY <2>1, <2>2 DEF HasAt
<1> QED BY <1>3, <1>4

LEMMA TextStands ==
  ASSUME NEW T, Len(T) \in Nat, DOMAIN T = 1..Len(T), NEW pos \in Nat \ {0},
         NEW kind, NEW val, HasAt(T, pos, Text(kind, val))
  PROVE  pos \in 1..Len(T) /\ At(T, pos) = [kind |-> kind, val |-> val]
<1>1. Len(Text(kind, val)) = 1 /\ Text(kind, val)[1] = [kind |-> kind, val |-> val]
  BY DEF Text
<1>2. pos + 1 <= Len(T) + 1 /\ T[pos + (1 - 1)] = [kind |-> kind, val |-> val]
  BY <1>1 DEF HasAt
<1>3. pos \in 1..Len(T) /\ pos + (1 - 1) = pos
  BY <1>2
<1> QED BY <1>2, <1>3 DEF At

(* Where texts stand one after another, each begins where those before it  *)
(* end.                                                                    *)
LEMMA EachStands ==
  ASSUME NEW T, Len(T) \in Nat, NEW pos \in Nat, NEW A, NEW ss \in Seq(Seq(A)),
         HasAt(T, pos, FlattenSeq(ss)), NEW f, Accumulates(f, ss), NEW m \in 1..Len(ss)
  PROVE  /\ f[m] = f[m - 1] \o ss[m]
         /\ HasAt(T, pos + Len(f[m - 1]), ss[m])
<1> DEFINE n == Len(ss)
           Standing == {k \in Nat : k <= n => HasAt(T, pos, f[n - k])}
<1>1. /\ n \in Nat /\ \A i \in 0..n : f[i] \in Seq(A)
      /\ HasAt(T, pos, f[n])
  BY FlattenIs
<1>2. \A i \in 1..n : f[i] = f[i - 1] \o ss[i] /\ ss[i] \in Seq(A)
  <2>1. \A i \in 1..n : ss[i] \in Seq(A)
    OBVIOUS
  <2> QED BY <2>1 DEF Accumulates
<1> HIDE DEF n
<1>3. ASSUME NEW i \in 1..n, HasAt(T, pos, f[i])
      PROVE  HasAt(T, pos, f[i - 1]) /\ HasAt(T, pos + Len(f[i - 1]), ss[i])
  <2>1. f[i] = f[i - 1] \o ss[i] /\ ss[i] \in Seq(A) /\ f[i - 1] \in Seq(A)
    <3>1. i - 1 \in 0..n
      BY <1>1
    <3> QED BY <1>1, <1>2, <3>1
  <2> QED BY <1>3, <2>1, PartsStand
<1>4. 0 \in Standing
  BY <1>1
<1>5. ASSUME NEW k \in Nat, k \in Standing PROVE k + 1 \in Standing
  <2>1. CASE k + 1 > n
    BY <1>1, <2>1
  <2>2. CASE k + 1 <= n
    <3>1. n - k \in 1..n /\ (n - k) - 1 = n - (k + 1) /\ HasAt(T, pos, f[n - k])
      BY <1>1, <1>5, <2>2
    <3>2. HasAt(T, pos, f[(n - k) - 1])
      BY <1>3, <3>1
    <3>3. HasAt(T, pos, f[n - (k + 1)])
      BY <3>1, <3>2
    <3> QED BY <3>3
  <2> QED BY <1>1, <2>1, <2>2
<1>6. n - m \in Standing
  <2> HIDE DEF Standing
  <2>1. n - m \in Nat /\ n - m >= 0
    BY <1>1 DEF n
  <2>2. \A k \in Nat : k >= 0 => k \in Standing
    BY <1>4, <1>5, InductionFrom
  <2> QED BY <2>1, <2>2
<1>7. m \in 1..n /\ n - (n - m) = m /\ n - m <= n
  BY <1>1 DEF n
<1>8. HasAt(T, pos, f[m])
  BY <1>6, <1>7
<1> QED BY <1>2, <1>3, <1>7, <1>8

------------------------------------------------------------------------------
(* Nodes that are written as lexemes. *)

\* A set of nodes of finite depth that has the entries of its nodes.
Grounded(D) == Closed(D) /\ \A node \in D : FiniteDepth(node)

Worded(node) == HasText(node, StringifyNodes(node)) /\ StringifyNodes(node) \in Seq(Written)

\* What a container holds between its opening and its closing byte.
EntryText(node, i) == KeyText(node, i) \o StringifyNodes(node.items[i])
InnerTexts(node) == [i \in DOMAIN node.items |-> EntryText(node, i)]

\* The text of a node, by the texts of its entries.
WordsOf(node) ==
    CASE node.type \in ContainerType ->
            Text(node.type, 0) \o FlattenSeq(InnerTexts(node)) \o Text("end", 0)
      [] node.type \in {"integer", "string"} -> Text(node.type, node.val)
      [] OTHER -> <<>>

LEMMA TextWritten ==
  ASSUME NEW kind \in LexemeKind, NEW val \in Int
  PROVE  Text(kind, val) \in Seq(Written)
BY DEF Text, Written

LEMMA WrittenJoined ==
  ASSUME NEW s \in Seq(Written), NEW t \in Seq(Written)
  PROVE  s \o t \in Seq(Written) /\ Len(s \o t) = Len(t) + Len(s)
OBVIOUS

LEMMA EntriesWritten ==
  ASSUME NEW S, NEW node, Fits(node, S), node.type \in ContainerType,
         \A i \in DOMAIN node.items : StringifyNodes(node.items[i]) \in Seq(Written)
  PROVE  /\ InnerTexts(node) \in Seq(Seq(Written)) /\ Len(InnerTexts(node)) = Len(node.items)
         /\ \A i \in 1..Len(node.items) : InnerTexts(node)[i] = EntryText(node, i)
         /\ \A i \in 1..Len(node.items) : KeyText(node, i) \in Seq(Written)
<1>1. /\ node.items \in Seq(Inside(S)) /\ node.keys \in Seq(Nat)
      /\ node.type = "dictionary" => Len(node.keys) = Len(node.items)
  BY FitsParts DEF Ascending
<1>2. Len(node.items) \in Nat /\ DOMAIN node.items = 1..Len(node.items)
  BY <1>1
<1>3. ASSUME NEW i \in 1..Len(node.items)
      PROVE  KeyText(node, i) \in Seq(Written) /\ EntryText(node, i) \in Seq(Written)
  <2>1. KeyText(node, i) \in Seq(Written)
    <3>1. CASE node.type = "dictionary"
      <4>1. node.keys[i] \in Nat
        BY <1>1, <1>2, <3>1
      <4>2. "string" \in LexemeKind /\ node.keys[i] \in Int
        BY <4>1 DEF LexemeKind
      <4>3. KeyText(node, i) = Text("string", node.keys[i])
        BY <3>1 DEF KeyText
      <4> QED BY <4>2, <4>3, TextWritten
    <3>2. CASE node.type # "dictionary"
      BY <3>2 DEF KeyText
    <3> QED BY <3>1, <3>2
  <2>2. StringifyNodes(node.items[i]) \in Seq(Written)
    BY <1>2
  <2> QED BY <2>1, <2>2, WrittenJoined DEF EntryText
<1> DEFINE e == InnerTexts(node)
<1>4. e = [i \in 1..Len(node.items) |-> EntryText(node, i)]
  BY <1>2 DEF InnerTexts
<1>5. e \in Seq(Seq(Written)) /\ Len(e) = Len(node.items)
  BY <1>2, <1>3, <1>4
<1> HIDE DEF e
<1> QED BY <1>3, <1>4, <1>5 DEF e

(* Every node has a text, made of those of its entries.                    *)
LEMMA AllWorded ==
  ASSUME NEW D, Grounded(D), NEW tree \in D
  PROVE  Worded(tree) /\ StringifyNodes(tree) = WordsOf(tree)
<1> DEFINE Good(node) == Worded(node) /\ StringifyNodes(node) = WordsOf(node)
           G == {node \in D : Good(node)}
<1>1. \A node \in D : FiniteDepth(node) /\ node.items \in Seq(D) /\ Fits(node, D)
  <2> SUFFICES ASSUME NEW node \in D
               PROVE  FiniteDepth(node) /\ node.items \in Seq(D) /\ Fits(node, D)
    OBVIOUS
  <2>1. Fits(node, D) /\ FiniteDepth(node)
    BY DEF Grounded, Closed
  <2>2. node.items \in Seq(Inside(D)) /\ Inside(D) \subseteq D
    BY <2>1 DEF Fits, Inside
  <2> QED BY <2>1, <2>2, SequencesOverMore
<1>2. ASSUME NEW node \in D, \A i \in DOMAIN node.items : node.items[i] \in G
      PROVE  node \in G
  <2> DEFINE inner == [i \in DOMAIN node.items |-> StringifyNodes(node.items[i])]
             words == WordsOf(node)
  <2>0. Fits(node, D)
    BY <1>1
  <2>1. /\ ValueFits(node.type, node.val) /\ DOMAIN node.items \subseteq Nat
        /\ node.type \notin ContainerType => node.items = <<>>
    BY <2>0, FitsParts
  <2>2. \A i \in DOMAIN node.items :
           HasText(node.items[i], inner[i]) /\ inner[i] \in Seq(Written)
    BY <1>2 DEF Worded
  <2>3. NodeText(node, inner) = words
    <3>1. [i \in DOMAIN node.items |-> KeyText(node, i) \o inner[i]] = InnerTexts(node)
      BY DEF InnerTexts, EntryText
    <3> HIDE DEF inner
    <3> QED BY <3>1 DEF NodeText, WordsOf
  <2>4. words \in Seq(Written)
    <3>1. CASE node.type \in ContainerType
      <4>1. InnerTexts(node) \in Seq(Seq(Written)) /\ <<>> \in Seq(Written)
        <5>1. \A i \in DOMAIN node.items : StringifyNodes(node.items[i]) \in Seq(Written)
          BY <2>2
        <5>2. InnerTexts(node) \in Seq(Seq(Written))
          BY <2>0, <3>1, <5>1, EntriesWritten
        <5> QED BY <5>2
      <4>2. FlattenSeq(InnerTexts(node)) \in Seq(Written)
        BY <4>1, FlattenAppend
      <4>3. Text(node.type, 0) \in Seq(Written) /\ Text("end", 0) \in Seq(Written)
        <5>1. node.type \in LexemeKind
          BY <3>1, Zenon DEF ContainerType, LexemeKind
        <5>2. "end" \in LexemeKind /\ 0 \in Int
          BY DEF LexemeKind
        <5> QED BY <5>1, <5>2, TextWritten
      <4>4. words = Text(node.type, 0) \o FlattenSeq(InnerTexts(node)) \o Text("end", 0)
        BY <3>1 DEF WordsOf, ContainerType
      <4> HIDE DEF words
      <4> QED BY <4>2, <4>3, <4>4, WrittenJoined
    <3>2. CASE node.type \in {"integer", "string"}
      <4>1. node.val \in Int /\ node.type \in LexemeKind
        <5>1. CASE node.type = "integer"
          BY <2>1, <5>1 DEF ValueFits, LexemeKind
        <5>2. CASE node.type = "string"
          BY <2>1, <5>2 DEF ValueFits, LexemeKind
        <5> QED BY <3>2, <5>1, <5>2
      <4>2. words = Text(node.type, node.val)
        BY <3>2 DEF WordsOf, ContainerType
      <4> QED BY <4>1, <4>2, TextWritten
    <3>3. CASE node.type \notin ContainerType \cup {"integer", "string"}
      BY <3>3 DEF WordsOf
    <3> QED BY <3>1, <3>2, <3>3
  <2> HIDE DEF words
  <2>5. HasText(node, words)
    <3>1. inner = [i \in DOMAIN node.items |-> inner[i]]
      OBVIOUS
    <3> HIDE DEF inner
    <3>2. HasText(node, NodeText(node, inner))
      BY <2>1, <2>2, <3>1, NodeWritten
    <3> QED BY <2>3, <3>2
  <2>6. StringifyNodes(node) = words
    BY <2>5, WrittenIs
  <2> QED BY <2>4, <2>5, <2>6 DEF Worded, words
<1> HIDE DEF G
<1>3. D \subseteq G
  BY <1>1, <1>2, TreeInduction
<1> QED BY <1>3 DEF G

------------------------------------------------------------------------------
(* Reading back what was written. *)

IsText(T) == Len(T) \in Nat /\ DOMAIN T = 1..Len(T)

\* The nodes of a tree are no holes and within the limits, when its root is that
\* many levels down.
Readable(tree, down) ==
    \A ref \in References(tree) :
        NodeAt(tree, ref) # HoleNode /\ WithinLimits(NodeAt(tree, ref), down + Len(ref))

\* Descent makes the node of its text at pos.
ReadsAt(T, node, down, pos) ==
    ValueAt(T, Limits, Limits.depth - down, pos)
        = Success(node, pos + Len(StringifyNodes(node)))

LEMMA ReadableParts ==
  ASSUME NEW tree, NEW down \in Nat, Readable(tree, down)
  PROVE  /\ tree # HoleNode /\ WithinLimits(tree, down)
         /\ \A slot \in DOMAIN tree.items :
               slot \in Nat => Readable(tree.items[slot], down + 1)
<1>1. <<>> \in References(tree) /\ NodeAt(tree, <<>>) = tree /\ Len(<<>>) = 0
  BY ReferencesBelow
<1>2. tree # HoleNode /\ WithinLimits(tree, down + 0)
  BY <1>1 DEF Readable
<1>3. ASSUME NEW slot \in Nat, slot \in DOMAIN tree.items PROVE Readable(tree.items[slot], down + 1)
  <2> SUFFICES ASSUME NEW ref \in References(tree.items[slot])
               PROVE  /\ NodeAt(tree.items[slot], ref) # HoleNode
                      /\ WithinLimits(NodeAt(tree.items[slot], ref), (down + 1) + Len(ref))
    BY DEF Readable
  <2>1. ref \in Seq(Nat) /\ Len(ref) \in Nat
    BY DEF References
  <2>2. Below(slot, ref) \in References(tree)
    BY <1>3, <2>1, ReferencesBelow
  <2>3. NodeAt(tree, Below(slot, ref)) = NodeAt(tree.items[slot], ref)
    BY <2>1, NodeBelow
  <2>4. Len(Below(slot, ref)) = Len(ref) + 1
    BY <2>1, BelowParts
  <2>5. /\ NodeAt(tree.items[slot], ref) # HoleNode
        /\ WithinLimits(NodeAt(tree.items[slot], ref), down + (Len(ref) + 1))
    BY <2>2, <2>3, <2>4 DEF Readable
  <2>6. down + (Len(ref) + 1) = (down + 1) + Len(ref)
    BY <2>1
  <2> QED BY <2>5, <2>6
<1> QED BY <1>2, <1>3

LEMMA TurnTakes ==
  ASSUME NEW T, NEW values, NEW type, NEW loop, loop.state = "reading",
         At(T, loop.next) # Token("end"), HasRoom(loop.items, Limits),
         type = "dictionary" => KeyFits(T, Limits, loop), NEW item, NEW next,
         values[IF type = "dictionary" THEN loop.next + 1 ELSE loop.next] = Success(item, next)
  PROVE  Turn(T, Limits, values, type, loop) =
            [state |-> "reading",
             keys |-> IF type = "dictionary" THEN Append(loop.keys, At(T, loop.next).val)
                      ELSE loop.keys,
             items |-> Append(loop.items, item), next |-> next]
<1> DEFINE keyed == type = "dictionary"
           value == values[IF keyed THEN loop.next + 1 ELSE loop.next]
<1>1. value.ok /\ value.node = item /\ value.next = next
  BY DEF Success
<1>2. Turn(T, Limits, values, type, loop) =
         [state |-> "reading",
          keys |-> IF keyed THEN Append(loop.keys, At(T, loop.next).val) ELSE loop.keys,
          items |-> Append(loop.items, value.node), next |-> value.next]
  <2> HIDE DEF value
  <2> QED BY <1>1 DEF Turn, value
<1> HIDE DEF value
<1> QED BY <1>1, <1>2

\* The keys of a container's first m entries.
Taken(node, m) == IF node.type = "dictionary" THEN SubSeq(node.keys, 1, m) ELSE <<>>

\* The loop of descent after m entries.
LoopAfter(node, m, next) ==
    [state |-> "reading", keys |-> Taken(node, m), items |-> SubSeq(node.items, 1, m),
     next |-> next]

(* One turn of descent's loop takes one entry.                             *)
LEMMA EntryTurn ==
  ASSUME NEW S, NEW node, Fits(node, S), node.type \in ContainerType,
         NEW down, WithinLimits(node, down),
         NEW T, IsText(T), NEW values, NEW m \in Nat, m < Len(node.items), NEW pos \in Nat \ {0},
         NEW words, words = StringifyNodes(node.items[m + 1]), words \in Seq(Written),
         HasAt(T, pos, EntryText(node, m + 1)),
         \A p \in Nat \ {0} : HasAt(T, p, words) =>
            values[p] = Success(node.items[m + 1], p + Len(words)) /\ At(T, p) # Token("end")
  PROVE  Turn(T, Limits, values, node.type, LoopAfter(node, m, pos))
            = LoopAfter(node, m + 1, pos + Len(EntryText(node, m + 1)))
<1> DEFINE loop == LoopAfter(node, m, pos)
           item == node.items[m + 1]
           n == Len(node.items)
<1>1. /\ node.items \in Seq(Inside(S)) /\ node.keys \in Seq(Nat)
      /\ \A i, j \in DOMAIN node.keys : i < j => node.keys[i] < node.keys[j]
      /\ node.type = "dictionary" => Len(node.keys) = n
  BY FitsParts DEF Ascending
<1>2. n \in Nat /\ Limits.capacity \in Nat /\ Limits.length \in Nat
  BY <1>1, LimitsAssumption
<1>3. /\ loop.state = "reading" /\ loop.next = pos
      /\ loop.keys = Taken(node, m) /\ loop.items = SubSeq(node.items, 1, m)
  BY DEF LoopAfter
<1>4. /\ Append(SubSeq(node.items, 1, m), item) = SubSeq(node.items, 1, m + 1)
      /\ Len(SubSeq(node.items, 1, m)) = m
  BY <1>1, OneMore
<1>5. HasRoom(loop.items, Limits)
  <2>1. Limits.dynamic \/ n <= Limits.capacity
    BY DEF WithinLimits
  <2> QED BY <1>2, <1>3, <1>4, <2>1 DEF HasRoom
<1>6. CASE node.type = "list"
  <2>1. EntryText(node, m + 1) = words
    <3>1. KeyText(node, m + 1) = <<>>
      BY <1>6 DEF KeyText
    <3> QED BY <3>1 DEF EntryText
  <2>2. values[pos] = Success(item, pos + Len(words)) /\ At(T, pos) # Token("end")
    BY <2>1
  <2>3. Turn(T, Limits, values, "list", loop) =
           [state |-> "reading", keys |-> loop.keys, items |-> Append(loop.items, item),
            next |-> pos + Len(words)]
    <3> HIDE DEF loop, item
    <3>1. values[IF "list" = "dictionary" THEN loop.next + 1 ELSE loop.next]
             = Success(item, pos + Len(words))
      BY <1>3, <2>2
    <3>2. loop.state = "reading" /\ At(T, loop.next) # Token("end")
      BY <1>3, <2>2
    <3>3. "list" = "dictionary" => KeyFits(T, Limits, loop)
      OBVIOUS
    <3>4. Turn(T, Limits, values, "list", loop) =
             [state |-> "reading",
              keys |-> IF "list" = "dictionary" THEN Append(loop.keys, At(T, loop.next).val)
                       ELSE loop.keys,
              items |-> Append(loop.items, item), next |-> pos + Len(words)]
      BY <1>5, <3>1, <3>2, <3>3, TurnTakes
    <3> QED BY <3>4
  <2>4. Taken(node, m) = <<>> /\ Taken(node, m + 1) = <<>>
    BY <1>6 DEF Taken
  <2> HIDE DEF loop, item
  <2> QED BY <1>3, <1>4, <1>6, <2>1, <2>3, <2>4 DEF LoopAfter, loop
<1>7. CASE node.type = "dictionary"
  <2> DEFINE key == node.keys[m + 1]
  <2>1. key \in Nat /\ m + 1 \in DOMAIN node.keys /\ key <= Limits.length
    BY <1>1, <1>2, <1>7 DEF WithinLimits
  <2>2. EntryText(node, m + 1) = Text("string", key) \o words
    BY <1>7 DEF EntryText, KeyText
  <2>3. Text("string", key) \in Seq(Written) /\ Len(Text("string", key)) = 1
    <3>1. "string" \in LexemeKind /\ key \in Int
      BY <2>1 DEF LexemeKind
    <3>2. Text("string", key) \in Seq(Written)
      BY <3>1, TextWritten
    <3> QED BY <3>2 DEF Text
  <2>4. HasAt(T, pos, Text("string", key)) /\ HasAt(T, pos + 1, words)
    <3> HIDE DEF key
    <3>1. HasAt(T, pos, Text("string", key) \o words)
      BY <2>2
    <3> QED BY <2>3, <3>1, PartsStand DEF IsText
  <2>5. At(T, pos) = [kind |-> "string", val |-> key]
    BY <2>4, TextStands DEF IsText
  <2>6. values[pos + 1] = Success(item, (pos + 1) + Len(words))
    BY <2>4
  <2>7. /\ Append(SubSeq(node.keys, 1, m), key) = SubSeq(node.keys, 1, m + 1)
        /\ Len(SubSeq(node.keys, 1, m)) = m
        /\ m # 0 => SubSeq(node.keys, 1, m)[m] = node.keys[m]
        /\ m = 0 => SubSeq(node.keys, 1, m) = <<>>
    BY <1>1, <1>7, OneMore
  <2>8. loop.keys = SubSeq(node.keys, 1, m) /\ Taken(node, m + 1) = SubSeq(node.keys, 1, m + 1)
    BY <1>3, <1>7 DEF Taken
  <2>9. m # 0 => node.keys[m] < key
    <3>1. m # 0 => m \in DOMAIN node.keys
      BY <1>1, <1>2, <1>7
    <3> QED BY <1>1, <2>1, <3>1
  <2>10. Len(EntryText(node, m + 1)) = Len(words) + 1
    <3> HIDE DEF key
    <3> DEFINE t == Text("string", key)
    <3>1. t \in Seq(Written) /\ Len(t) = 1
      BY <2>3
    <3> HIDE DEF t
    <3>2. Len(t \o words) = Len(words) + 1
      BY <3>1, WrittenJoined
    <3> QED BY <2>2, <3>2 DEF t
  <2> HIDE DEF loop, item, key
  <2>11. KeyFits(T, Limits, loop)
    <3>1. FitsLength(At(T, loop.next), Limits)
      BY <1>3, <2>1, <2>5 DEF FitsLength
    <3>2. loop.keys # <<>> => loop.keys[Len(loop.keys)] < At(T, loop.next).val
      BY <1>3, <2>5, <2>7, <2>8, <2>9
    <3> QED BY <3>1, <3>2 DEF KeyFits
  <2>12. At(T, loop.next) # Token("end")
    BY <1>3, <2>5 DEF Token
  <2>13. Turn(T, Limits, values, "dictionary", loop) =
           [state |-> "reading", keys |-> Append(loop.keys, key),
            items |-> Append(loop.items, item), next |-> (pos + 1) + Len(words)]
    <3>1. At(T, loop.next).val = key
      BY <1>3, <2>5
    <3>2. values[IF "dictionary" = "dictionary" THEN loop.next + 1 ELSE loop.next]
             = Success(item, (pos + 1) + Len(words))
      BY <1>3, <2>6
    <3>3. Turn(T, Limits, values, "dictionary", loop) =
             [state |-> "reading",
              keys |-> IF "dictionary" = "dictionary" THEN Append(loop.keys, At(T, loop.next).val)
                       ELSE loop.keys,
              items |-> Append(loop.items, item), next |-> (pos + 1) + Len(words)]
      <4>1. loop.state = "reading"
        BY <1>3
      <4>2. "dictionary" = "dictionary" => KeyFits(T, Limits, loop)
        BY <2>11
      <4> QED BY <1>5, <2>12, <3>2, <4>1, <4>2, TurnTakes
    <3> QED BY <3>1, <3>3
  <2>14. Len(words) \in Nat /\ (pos + 1) + Len(words) = pos + (Len(words) + 1)
    OBVIOUS
  <2> QED BY <1>3, <1>4, <1>7, <2>7, <2>8, <2>10, <2>13, <2>14 DEF LoopAfter, loop
<1> QED BY <1>6, <1>7 DEF ContainerType

\* Where a value stands no container ends.
LEMMA ValueStands ==
  ASSUME NEW T, NEW level \in 0..Limits.depth, NEW pos \in Nat, NEW node, NEW next,
         ValueAt(T, Limits, level, pos) = Success(node, next)
  PROVE  At(T, pos) # Token("end")
<1> SUFFICES ASSUME At(T, pos) = Token("end") PROVE FALSE
  OBVIOUS
<1>1. At(T, pos).kind = "end"
  BY DEF Token
<1>2. Scalar(T, pos, Limits) = Failure
  BY <1>1 DEF Scalar, FitsLength
<1>3. ValueAt(T, Limits, level, pos) = Failure
  <2>1. Limits.depth \in Nat /\ level \in Int /\ "end" \notin ContainerType
    BY LimitsAssumption DEF ContainerType
  <2>2. level <= 1 => ValueAt(T, Limits, level, pos) = Failure
    BY <2>1, ValueIs
  <2>3. level > 1 => ValueAt(T, Limits, level, pos) = Scalar(T, pos, Limits)
    BY <1>1, <2>1, ValueIs
  <2> QED BY <1>2, <2>1, <2>2, <2>3
<1>4. ~Failure.ok /\ Success(node, next).ok
  BY DEF Failure, Success
<1> QED BY <1>3, <1>4

\* What is neither empty nor a hole is a container or a scalar.
LEMMA NoText ==
  ASSUME NEW D, NEW node, Fits(node, D), node # EmptyNode, node # HoleNode
  PROVE  node.type \in ContainerType \cup {"integer", "string"}
<1>1. /\ node = [type |-> node.type, val |-> node.val, keys |-> node.keys, items |-> node.items]
      /\ ValueFits(node.type, node.val) /\ (node.type # "dictionary" => node.keys = <<>>)
      /\ node.type \notin ContainerType => node.items = <<>>
  BY FitsParts
<1>2. node.type = "hole" => node = HoleNode
  <2> SUFFICES ASSUME node.type = "hole" PROVE node = HoleNode
    OBVIOUS
  <2>1. node.val = 0 /\ node.keys = <<>> /\ node.items = <<>>
    BY <1>1 DEF ValueFits, ContainerType
  <2> QED BY <1>1, <2>1 DEF HoleNode, MakeNode
<1>3. node.type = "empty" => node = EmptyNode
  <2> SUFFICES ASSUME node.type = "empty" PROVE node = EmptyNode
    OBVIOUS
  <2>1. node.val = 0 /\ node.keys = <<>> /\ node.items = <<>>
    BY <1>1 DEF ValueFits, ContainerType
  <2> QED BY <1>1, <2>1 DEF EmptyNode, MakeNode
<1> QED BY <1>1, <1>2, <1>3 DEF ValueFits

\* What is neither empty nor a hole is written as something.
LEMMA WordsFound ==
  ASSUME NEW D, Grounded(D), NEW node \in D, node # EmptyNode, node # HoleNode
  PROVE  Len(StringifyNodes(node)) \in Nat \ {0}
<1>1. /\ StringifyNodes(node) = WordsOf(node) /\ StringifyNodes(node) \in Seq(Written)
      /\ \A i \in DOMAIN node.items : StringifyNodes(node.items[i]) \in Seq(Written)
  <2>1. Fits(node, D)
    BY DEF Grounded, Closed
  <2>2. \A i \in DOMAIN node.items : node.items[i] \in D
    <3>1. node.items \in Seq(Inside(D))
      BY <2>1, FitsParts
    <3> QED BY <3>1 DEF Inside
  <2> QED BY <2>2, AllWorded DEF Worded
<1>2. Fits(node, D)
  BY DEF Grounded, Closed
<1>3. CASE node.type \in ContainerType
  <2>1. InnerTexts(node) \in Seq(Seq(Written)) /\ <<>> \in Seq(Written)
    <3>1. InnerTexts(node) \in Seq(Seq(Written))
      BY <1>1, <1>2, <1>3, EntriesWritten
    <3> QED BY <3>1
  <2>2. FlattenSeq(InnerTexts(node)) \in Seq(Written)
    BY <2>1, FlattenAppend
  <2>3. Text(node.type, 0) \in Seq(Written) /\ Text("end", 0) \in Seq(Written)
    <3>1. node.type \in LexemeKind
      BY <1>3, Zenon DEF ContainerType, LexemeKind
    <3>2. "end" \in LexemeKind /\ 0 \in Int
      BY DEF LexemeKind
    <3> QED BY <3>1, <3>2, TextWritten
  <2>4. WordsOf(node) = Text(node.type, 0) \o FlattenSeq(InnerTexts(node)) \o Text("end", 0)
    BY <1>3 DEF WordsOf, ContainerType
  <2>5. Len(Text("end", 0)) = 1
    BY DEF Text
  <2> DEFINE front == Text(node.type, 0) \o FlattenSeq(InnerTexts(node))
             last == Text("end", 0)
  <2>6. front \in Seq(Written) /\ last \in Seq(Written)
    BY <2>2, <2>3, WrittenJoined
  <2>7. WordsOf(node) = front \o last
    BY <2>4
  <2> HIDE DEF front
  <2>8. Len(WordsOf(node)) = Len(front) + 1
    <3>1. Len(front \o last) = Len(last) + Len(front)
      BY <2>6, WrittenJoined
    <3>2. Len(front) \in Nat
      BY <2>6
    <3> QED BY <2>5, <2>7, <3>1, <3>2, SMTT(40)
  <2>9. Len(front) \in Nat
    BY <2>6
  <2> QED BY <1>1, <2>8, <2>9
<1>4. CASE node.type \in {"integer", "string"}
  <2>1. WordsOf(node) = Text(node.type, node.val)
    BY <1>4 DEF WordsOf, ContainerType
  <2> QED BY <1>1, <2>1 DEF Text
<1>5. node.type \in ContainerType \cup {"integer", "string"}
  BY <1>2, NoText
<1> QED BY <1>3, <1>4, <1>5

LEMMA ScalarReads ==
  ASSUME NEW D, Grounded(D), NEW node \in D, node.type \in {"integer", "string"},
         NEW T, IsText(T), NEW down \in Nat, Readable(node, down), NEW pos \in Nat \ {0},
         HasAt(T, pos, StringifyNodes(node))
  PROVE  ReadsAt(T, node, down, pos)
<1>1. /\ node = [type |-> node.type, val |-> node.val, keys |-> node.keys, items |-> node.items]
      /\ node.keys = <<>> /\ node.items = <<>>
  <2>1. Fits(node, D)
    BY DEF Grounded, Closed
  <2> QED BY <2>1, FitsParts DEF ContainerType
<1>2. StringifyNodes(node) = Text(node.type, node.val)
  <2>1. StringifyNodes(node) = WordsOf(node)
    BY AllWorded
  <2> QED BY <2>1 DEF WordsOf, ContainerType
<1>3. At(T, pos) = [kind |-> node.type, val |-> node.val] /\ Len(StringifyNodes(node)) = 1
  <2>1. Len(Text(node.type, node.val)) = 1
    BY DEF Text
  <2> QED BY <1>2, <2>1, TextStands DEF IsText
<1>4. WithinLimits(node, down)
  BY ReadableParts
<1>5. Limits.depth \in Nat /\ Limits.depth - down \in 0..Limits.depth /\ Limits.depth - down > 1
  BY <1>4, LimitsAssumption DEF WithinLimits
<1>6. Scalar(T, pos, Limits) = Success(node, pos + 1)
  <2>1. CASE node.type = "integer"
    <3>1. IntegerNode(node.val) = node
      BY <1>1, <2>1 DEF IntegerNode, MakeNode
    <3>2. At(T, pos).kind = "integer" /\ At(T, pos).val = node.val
      BY <1>3, <2>1
    <3>3. Scalar(T, pos, Limits) = Success(IntegerNode(At(T, pos).val), pos + 1)
      BY <3>2 DEF Scalar, FitsLength
    <3> QED BY <3>1, <3>2, <3>3
  <2>2. CASE node.type = "string"
    <3>1. StringNode(node.val) = node
      BY <1>1, <2>2 DEF StringNode, MakeNode
    <3>2. At(T, pos).kind = "string" /\ At(T, pos).val = node.val
      BY <1>3, <2>2
    <3>3. node.val <= Limits.length
      BY <1>4, <2>2 DEF WithinLimits
    <3>4. Scalar(T, pos, Limits) = Success(StringNode(At(T, pos).val), pos + 1)
      BY <3>2, <3>3 DEF Scalar, FitsLength
    <3> QED BY <3>1, <3>2, <3>4
  <2> QED BY <2>1, <2>2
<1>7. At(T, pos).kind \notin ContainerType
  BY <1>3 DEF ContainerType
<1>8. ValueAt(T, Limits, Limits.depth - down, pos) = Scalar(T, pos, Limits)
  BY <1>5, <1>7, ValueIs
<1> QED BY <1>3, <1>6, <1>8 DEF ReadsAt

\* The loop at the end of its container.
LoopDone(loop) == [loop EXCEPT !.state = "done", !.next = @ + 1]

LEMMA LoopEnds ==
  ASSUME NEW loop, NEW keys, NEW items, NEW next \in Int,
         loop = [state |-> "reading", keys |-> keys, items |-> items, next |-> next]
  PROVE  LoopDone(loop) = [state |-> "done", keys |-> keys, items |-> items, next |-> next + 1]
<1> DEFINE ended == [loop EXCEPT !.state = "done", !.next = loop.next + 1]
<1>1. LoopDone(loop) = ended
  BY DEF LoopDone
<1>2. loop.next = next /\ DOMAIN loop = {"state", "keys", "items", "next"}
  OBVIOUS
<1>3. DOMAIN ended = {"state", "keys", "items", "next"}
      /\ ended.state = "done" /\ ended.keys = keys /\ ended.items = items
      /\ ended.next = next + 1
  BY <1>2
<1>4. ended = [field \in {"state", "keys", "items", "next"} |-> ended[field]]
  BY <1>2
<1> HIDE DEF ended
<1>5. ended = [state |-> "done", keys |-> keys, items |-> items, next |-> next + 1]
  BY <1>3, <1>4
<1> QED BY <1>1, <1>5

(* Descent makes a container of its text, if it makes its entries of       *)
(* theirs: turn by turn its loop takes an entry, and then the end.         *)
LEMMA ContainerReads ==
  ASSUME NEW D, Grounded(D), NEW node \in D, node.type \in ContainerType,
         NEW T, IsText(T), NEW down \in Nat, Readable(node, down), NEW pos \in Nat \ {0},
         HasAt(T, pos, StringifyNodes(node)),
         \A i \in DOMAIN node.items : \A p \in Nat \ {0} :
            HasAt(T, p, StringifyNodes(node.items[i])) => ReadsAt(T, node.items[i], down + 1, p)
  PROVE  ReadsAt(T, node, down, pos)
<1> DEFINE level == Limits.depth - (down + 1)
           type == node.type
           values == ParseNodes(T, Limits)[level]
           loops == LoopAt(T, Limits, level, type, pos + 1)
           n == Len(node.items)
           ss == InnerTexts(node)
           flat == FlattenSeq(ss)
           words == StringifyNodes(node)
           front == Text(type, 0) \o flat
           last == Text("end", 0)
<1>1. /\ Fits(node, D) /\ node.items \in Seq(Inside(D)) /\ node.keys \in Seq(Nat)
      /\ n \in Nat /\ DOMAIN node.items = 1..n
      /\ type = "dictionary" => Len(node.keys) = n
  <2>1. Fits(node, D)
    BY DEF Grounded, Closed
  <2> QED BY <2>1, FitsParts DEF Ascending
<1>2. \A i \in 1..n : node.items[i] \in D /\ node.items[i] # EmptyNode
  BY <1>1 DEF Inside
<1>3. \A i \in 1..n : StringifyNodes(node.items[i]) \in Seq(Written)
  BY <1>2, AllWorded DEF Worded
<1>4. /\ ss \in Seq(Seq(Written)) /\ Len(ss) = n
      /\ \A i \in 1..n : ss[i] = EntryText(node, i) /\ KeyText(node, i) \in Seq(Written)
  BY <1>1, <1>3, EntriesWritten
<1>5. /\ WithinLimits(node, down)
      /\ \A i \in 1..n : Readable(node.items[i], down + 1) /\ node.items[i] # HoleNode
  <2>1. WithinLimits(node, down) /\ \A i \in 1..n : Readable(node.items[i], down + 1)
    BY <1>1, ReadableParts
  <2> QED BY <2>1, ReadableParts
<1>6. /\ Limits.depth \in Nat /\ level + 1 \in 0..Limits.depth /\ level + 1 > 1
      /\ level \in 0..Limits.depth /\ Limits.depth - down = level + 1
  BY <1>5, LimitsAssumption DEF WithinLimits
<1>7. /\ flat \in Seq(Written) /\ front \in Seq(Written) /\ last \in Seq(Written)
      /\ Len(front) = Len(flat) + 1 /\ Len(last) = 1
      /\ words = front \o last /\ Len(words) = Len(flat) + 2 /\ Len(flat) \in Nat
      /\ Text(type, 0) \in Seq(Written) /\ Len(Text(type, 0)) = 1
  <2>1. flat \in Seq(Written)
    <3>1. <<>> \in Seq(Written)
      OBVIOUS
    <3> QED BY <1>4, <3>1, FlattenAppend
  <2>2. Text(type, 0) \in Seq(Written) /\ last \in Seq(Written)
    <3>1. type \in LexemeKind
      BY Zenon DEF ContainerType, LexemeKind
    <3>2. "end" \in LexemeKind /\ 0 \in Int
      BY DEF LexemeKind
    <3> QED BY <3>1, <3>2, TextWritten
  <2>3. Len(Text(type, 0)) = 1 /\ Len(last) = 1
    BY DEF Text
  <2>4. words = front \o last
    <3>1. words = WordsOf(node)
      BY AllWorded
    <3> QED BY <3>1 DEF WordsOf, ContainerType
  <2> DEFINE first == Text(type, 0)
  <2>5. first \in Seq(Written) /\ front = first \o flat /\ Len(first) = 1
    BY <2>2, <2>3
  <2> HIDE DEF flat, words, front, last, first
  <2>6. front \in Seq(Written) /\ Len(front) = Len(flat) + Len(first)
    BY <2>1, <2>5, WrittenJoined
  <2>7. Len(front \o last) = Len(last) + Len(front)
    BY <2>2, <2>6, WrittenJoined
  <2>8. Len(flat) \in Nat
    BY <2>1
  <2> QED BY <2>1, <2>2, <2>3, <2>4, <2>5, <2>6, <2>7, <2>8 DEF first
<1>8. /\ HasAt(T, pos, Text(type, 0)) /\ HasAt(T, pos + 1, flat)
      /\ HasAt(T, pos + (Len(flat) + 1), last)
  <2> DEFINE first == Text(type, 0)
  <2>1. front = first \o flat /\ Len(first) = 1 /\ first \in Seq(Written)
    BY <1>7
  <2> HIDE DEF flat, words, front, last, first
  <2>2. HasAt(T, pos, front \o last)
    BY <1>7 DEF words
  <2>3. HasAt(T, pos, front) /\ HasAt(T, pos + Len(front), last)
    BY <1>7, <2>2, PartsStand DEF IsText
  <2>4. HasAt(T, pos, first \o flat)
    BY <2>1, <2>3
  <2>5. HasAt(T, pos, first) /\ HasAt(T, pos + Len(first), flat)
    BY <1>7, <2>1, <2>4, PartsStand DEF IsText
  <2> QED BY <1>7, <2>1, <2>3, <2>5 DEF first
<1>9. PICK f : Accumulates(f, ss)
  BY <1>4, FlattenIs
<1>10. /\ f[0] = <<>> /\ f[n] = flat /\ \A i \in 0..n : f[i] \in Seq(Written)
       /\ \A i \in 1..n : /\ f[i] = f[i - 1] \o EntryText(node, i)
                          /\ HasAt(T, (pos + 1) + Len(f[i - 1]), EntryText(node, i))
                          /\ EntryText(node, i) \in Seq(Written)
  <2>1. \A i \in 0..n : f[i] \in Seq(Written) /\ flat = f[n]
    BY <1>4, <1>9, FlattenIs
  <2>2. f[0] = <<>>
    BY <1>9 DEF Accumulates
  <2>3. \A i \in 1..n : f[i] = f[i - 1] \o ss[i] /\ HasAt(T, (pos + 1) + Len(f[i - 1]), ss[i])
    <3>1. Len(T) \in Nat /\ pos + 1 \in Nat
      BY DEF IsText
    <3> HIDE DEF ss
    <3> QED BY <1>4, <1>8, <1>9, <3>1, EachStands DEF flat
  <2>4. \A i \in 1..n : ss[i] \in Seq(Written)
    BY <1>4
  <2>5. flat = f[n]
    BY <1>1, <2>1
  <2> QED BY <1>4, <2>1, <2>2, <2>3, <2>4, <2>5
<1> HIDE DEF flat, words, front, last, ss
<1>11. ASSUME NEW i \in 1..n
       PROVE  /\ Len(f[i - 1]) \in Nat /\ Len(f[i]) = Len(f[i - 1]) + Len(EntryText(node, i))
              /\ Len(EntryText(node, i)) \in Nat \ {0}
  <2> DEFINE before == f[i - 1]
             key == KeyText(node, i)
             value == StringifyNodes(node.items[i])
             entry == EntryText(node, i)
  <2>1. before \in Seq(Written)
    <3>1. i - 1 \in 0..n
      BY <1>1
    <3> QED BY <1>10, <3>1
  <2>2. key \in Seq(Written) /\ value \in Seq(Written) /\ entry = key \o value
    BY <1>3, <1>4 DEF EntryText
  <2>3. Len(value) \in Nat \ {0}
    BY <1>2, <1>5, WordsFound
  <2>4. f[i] = before \o entry /\ entry \in Seq(Written)
    BY <1>10
  <2> HIDE DEF before, key, value, entry
  <2>5. Len(entry) = Len(value) + Len(key) /\ Len(key) \in Nat
    BY <2>2, WrittenJoined
  <2>6. Len(f[i]) = Len(entry) + Len(before) /\ Len(before) \in Nat
    BY <2>1, <2>4, WrittenJoined
  <2>7. Len(value) + Len(key) \in Nat \ {0}
    BY <2>3, <2>5
  <2>8. /\ Len(before) \in Nat /\ Len(entry) \in Nat \ {0}
        /\ Len(f[i]) = Len(before) + Len(entry)
    BY <2>5, <2>6, <2>7
  <2> QED BY <2>8 DEF before, entry
<1>12. \A m \in 0..n : Len(f[m]) \in Nat /\ Len(f[m]) >= m
  <2> DEFINE Long == {m \in 0..n : Len(f[m]) \in Nat /\ Len(f[m]) >= m}
  <2>1. 0 \in Long
    BY <1>1, <1>10
  <2>2. ASSUME NEW m \in 0..n, m < n, m \in Long PROVE m + 1 \in Long
    <3>1. m + 1 \in 1..n /\ (m + 1) - 1 = m /\ m + 1 \in 0..n
      BY <1>1, <2>2
    <3>2. /\ Len(f[m + 1]) = Len(f[m]) + Len(EntryText(node, m + 1))
          /\ Len(EntryText(node, m + 1)) \in Nat \ {0}
      BY <1>11, <3>1
    <3>3. Len(f[m]) \in Nat /\ Len(f[m]) >= m /\ m \in Nat
      BY <1>1, <2>2
    <3> DEFINE a == Len(f[m])
               b == Len(EntryText(node, m + 1))
    <3>4. a + b \in Nat /\ a + b >= m + 1
      <4>1. a \in Nat /\ a >= m /\ m \in Nat /\ b \in Nat \ {0}
        BY <3>2, <3>3
      <4> HIDE DEF a, b
      <4> QED BY <4>1
    <3> HIDE DEF a, b
    <3>5. Len(f[m + 1]) \in Nat /\ Len(f[m + 1]) >= m + 1
      BY <3>2, <3>4 DEF a, b
    <3> QED BY <3>1, <3>5
  <2> HIDE DEF Long
  <2>3. \A m \in 0..n : m \in Long
    <3>1. 0 \in Int /\ n \in Int
      BY <1>1
    <3> QED BY <2>1, <2>2, <3>1, InductionUpTo
  <2> QED BY <2>3 DEF Long
<1> DEFINE end == pos + (Len(flat) + 1)
<1>13. /\ end \in 1..Len(T) /\ At(T, end) = Token("end") /\ n + 1 \in 1..Len(T)
       /\ Len(T) \in Nat /\ end = (pos + 1) + Len(f[n])
       /\ At(T, pos) = [kind |-> type, val |-> 0]
  <2>1. Len(T) \in Nat /\ DOMAIN T = 1..Len(T) /\ end \in Nat \ {0}
    BY <1>7 DEF IsText
  <2>2. end \in 1..Len(T) /\ At(T, end) = [kind |-> "end", val |-> 0]
    BY <1>8, <2>1, TextStands DEF last
  <2>3. At(T, pos) = [kind |-> type, val |-> 0]
    BY <1>8, <2>1, TextStands
  <2>4. Len(flat) >= n
    <3>1. n \in 0..n /\ f[n] = flat
      BY <1>1, <1>10
    <3> HIDE DEF n
    <3> QED BY <1>12, <3>1
  <2> QED BY <1>1, <1>7, <1>10, <2>1, <2>2, <2>3, <2>4 DEF Token
<1>14. ASSUME NEW i \in 1..n, NEW p \in Nat \ {0}, HasAt(T, p, StringifyNodes(node.items[i]))
       PROVE  /\ values[p] = Success(node.items[i], p + Len(StringifyNodes(node.items[i])))
              /\ At(T, p) # Token("end")
  <2>1. ReadsAt(T, node.items[i], down + 1, p)
    BY <1>1, <1>14
  <2>2. ValueAt(T, Limits, level, p)
           = Success(node.items[i], p + Len(StringifyNodes(node.items[i])))
    BY <2>1 DEF ReadsAt
  <2> HIDE DEF level
  <2>3. At(T, p) # Token("end")
    BY <1>6, <2>2, ValueStands
  <2> QED BY <2>2, <2>3 DEF ValueAt
<1>15. /\ loops[0] = Started(pos + 1)
       /\ \A m \in Nat : m + 1 \in 1..Len(T) => loops[m + 1] = Turn(T, Limits, values, type, loops[m])
  <2>1. /\ loops[0] = Started(pos + 1)
        /\ \A m \in 1..Len(T) : loops[m] = Turn(T, Limits, values, type, loops[m - 1])
    <3> DEFINE start == pos + 1
               turns == Turns(T, Limits, values, type, start)
    <3>1. loops = turns
      BY DEF LoopAt
    <3>2. Len(T) \in Nat
      BY <1>13
    <3> HIDE DEF values, type, start, loops
    <3>3. /\ turns[0] = Started(start)
          /\ \A m \in 1..Len(T) : turns[m] = Turn(T, Limits, values, type, turns[m - 1])
      BY <3>2, TurnsSteps
    <3> QED BY <3>1, <3>3 DEF start
  <2> HIDE DEF loops, values
  <2>2. \A m \in Nat : m + 1 \in 1..Len(T) => (m + 1) - 1 = m
    OBVIOUS
  <2> QED BY <2>1, <2>2
<1> HIDE DEF loops, values, level, n, type, end
<1>16. \A m \in 0..n : loops[m] = LoopAfter(node, m, (pos + 1) + Len(f[m]))
  <2> DEFINE Right == {m \in 0..n : loops[m] = LoopAfter(node, m, (pos + 1) + Len(f[m]))}
  <2>1. 0 \in Right
    <3>1. Taken(node, 0) = <<>> /\ SubSeq(node.items, 1, 0) = <<>>
      BY DEF Taken
    <3>2. LoopAfter(node, 0, pos + 1) = Started(pos + 1)
      BY <3>1 DEF LoopAfter, Started
    <3>3. (pos + 1) + Len(f[0]) = pos + 1 /\ 0 \in 0..n
      BY <1>1, <1>10
    <3> QED BY <1>15, <3>2, <3>3
  <2>2. ASSUME NEW m \in 0..n, m < n, m \in Right PROVE m + 1 \in Right
    <3> DEFINE p == (pos + 1) + Len(f[m])
               words1 == StringifyNodes(node.items[m + 1])
    <3>1. m \in Nat /\ m + 1 \in 1..n /\ (m + 1) - 1 = m /\ m + 1 \in 0..n /\ m + 1 \in 1..Len(T)
      <4>1. m \in Nat /\ n \in Nat /\ m < n
        BY <1>1, <2>2
      <4>2. Len(T) \in Nat /\ n + 1 <= Len(T)
        BY <1>13, <4>1
      <4> QED BY <4>1, <4>2
    <3>2. p \in Nat \ {0} /\ HasAt(T, p, EntryText(node, m + 1))
      <4>1. Len(f[m]) \in Nat
        BY <1>12
      <4>2. HasAt(T, (pos + 1) + Len(f[(m + 1) - 1]), EntryText(node, m + 1))
        BY <1>10, <3>1
      <4> QED BY <3>1, <4>1, <4>2
    <3>3. words1 = StringifyNodes(node.items[m + 1]) /\ words1 \in Seq(Written)
      BY <1>3, <3>1
    <3>4. \A q \in Nat \ {0} : HasAt(T, q, words1) =>
             values[q] = Success(node.items[m + 1], q + Len(words1)) /\ At(T, q) # Token("end")
      BY <1>14, <3>1
    <3>5. m < Len(node.items)
      BY <2>2 DEF n
    <3> HIDE DEF p, words1
    <3>6. Turn(T, Limits, values, node.type, LoopAfter(node, m, p))
             = LoopAfter(node, m + 1, p + Len(EntryText(node, m + 1)))
      <4>1. Fits(node, D) /\ WithinLimits(node, down)
        BY <1>1, <1>5
      <4>2. p \in Nat \ {0} /\ m \in Nat
        BY <3>1, <3>2
      <4>3. HasAt(T, p, EntryText(node, m + 1)) /\ words1 \in Seq(Written)
        BY <3>2, <3>3
      <4> QED BY <3>3, <3>4, <3>5, <4>1, <4>2, <4>3, EntryTurn, SMTT(40)
    <3>7. loops[m + 1] = Turn(T, Limits, values, type, loops[m])
      BY <1>15, <3>1
    <3>8. loops[m] = LoopAfter(node, m, p)
      BY <2>2 DEF p
    <3>9. p + Len(EntryText(node, m + 1)) = (pos + 1) + Len(f[m + 1])
      <4>1. Len(f[m + 1]) = Len(f[m]) + Len(EntryText(node, m + 1)) /\ Len(f[m]) \in Nat
            /\ Len(EntryText(node, m + 1)) \in Nat
        BY <1>11, <3>1
      <4> DEFINE a == Len(f[m])
                 b == Len(EntryText(node, m + 1))
                 q == pos + 1
      <4>2. a \in Nat /\ b \in Nat /\ q \in Nat
        BY <4>1
      <4>3. p = q + a /\ Len(f[m + 1]) = a + b
        BY <4>1 DEF p
      <4> HIDE DEF a, b, q
      <4>4. (q + a) + b = q + (a + b)
        BY <4>2
      <4> QED BY <4>3, <4>4 DEF b, q
    <3>10. loops[m + 1] = LoopAfter(node, m + 1, (pos + 1) + Len(f[m + 1]))
      BY <3>6, <3>7, <3>8, <3>9 DEF type
    <3> QED BY <3>1, <3>10
  <2> HIDE DEF Right
  <2>3. \A m \in 0..n : m \in Right
    <3>1. 0 \in Int /\ n \in Int
      BY <1>1
    <3> QED BY <2>1, <2>2, <3>1, InductionUpTo
  <2> QED BY <2>3 DEF Right
<1> DEFINE ended == [state |-> "done", keys |-> node.keys, items |-> node.items, next |-> end + 1]
<1>17. loops[n + 1] = ended
  <2>1. loops[n] = LoopAfter(node, n, end)
    BY <1>1, <1>13, <1>16
  <2>2. Taken(node, n) = node.keys /\ SubSeq(node.items, 1, n) = node.items
    <3>1. SubSeq(node.items, 1, n) = node.items
      BY <1>1 DEF n
    <3>2. CASE type = "dictionary"
      <4>1. SubSeq(node.keys, 1, n) = node.keys
        BY <1>1, <3>2
      <4>2. node.type = "dictionary"
        BY <3>2 DEF type
      <4> QED BY <3>1, <4>1, <4>2, Zenon DEF Taken
    <3>3. CASE type # "dictionary"
      <4>1. node.keys = <<>>
        BY <1>1, <3>3, FitsParts DEF type
      <4>2. node.type # "dictionary"
        BY <3>3 DEF type
      <4> QED BY <3>1, <4>1, <4>2, Zenon DEF Taken
    <3> QED BY <3>1, <3>2, <3>3
  <2>3. loops[n] = [state |-> "reading", keys |-> node.keys, items |-> node.items, next |-> end]
    BY <2>1, <2>2 DEF LoopAfter
  <2>4. loops[n + 1] = Turn(T, Limits, values, type, loops[n])
    BY <1>1, <1>13, <1>15
  <2> DEFINE loop == loops[n]
  <2>5. loop = [state |-> "reading", keys |-> node.keys, items |-> node.items, next |-> end]
    BY <2>3
  <2> HIDE DEF loop
  <2>6. Turn(T, Limits, values, type, loop) = LoopDone(loop)
    BY <1>13, <2>5 DEF Turn, LoopDone
  <2>7. LoopDone(loop) = ended
    <3>1. end \in Int
      BY <1>13
    <3> QED BY <2>5, <3>1, LoopEnds
  <2> QED BY <2>4, <2>6, <2>7 DEF loop
<1>18. loops[Len(T)] = ended
  <2>1. n + 1 \in 0..Len(T) /\ loops[n + 1].state # "reading"
    BY <1>13, <1>17
  <2>2. loops[Len(T)] = loops[n + 1]
    BY <1>13, <2>1, TurnsSettle DEF loops, LoopAt
  <2> QED BY <1>17, <2>2
<1>19. ContainerNode(type, node.keys, node.items) = node
  <2>1. /\ node = [type |-> node.type, val |-> node.val, keys |-> node.keys, items |-> node.items]
        /\ ValueFits(node.type, node.val)
    BY <1>1, FitsParts
  <2>2. node.val = 0
    BY <2>1, ContainerValue
  <2> QED BY <2>1, <2>2 DEF ContainerNode, MakeNode, type
<1>20. ValueAt(T, Limits, level + 1, pos) = Success(node, end + 1)
  <2>1. At(T, pos).kind = type /\ type \in ContainerType
    BY <1>13 DEF type
  <2>2. LoopAt(T, Limits, (level + 1) - 1, At(T, pos).kind, pos + 1) = loops
    <3>1. (level + 1) - 1 = level
      BY <1>6
    <3> QED BY <2>1, <3>1 DEF loops
  <2>3. ValueAt(T, Limits, level + 1, pos) =
           LET last1 == LoopAt(T, Limits, (level + 1) - 1, At(T, pos).kind, pos + 1)[Len(T)]
           IN IF last1.state = "done"
              THEN Success(ContainerNode(At(T, pos).kind, last1.keys, last1.items), last1.next)
              ELSE Failure
    BY <1>6, <2>1, ValueIs
  <2>4. ValueAt(T, Limits, level + 1, pos) =
           IF loops[Len(T)].state = "done"
           THEN Success(ContainerNode(type, loops[Len(T)].keys, loops[Len(T)].items),
                        loops[Len(T)].next)
           ELSE Failure
    BY <2>1, <2>2, <2>3
  <2> QED BY <1>18, <1>19, <2>4
<1>21. end + 1 = pos + Len(words)
  BY <1>7 DEF end
<1> QED BY <1>6, <1>20, <1>21 DEF ReadsAt, words

(* Descent makes every node of its text.                                   *)
LEMMA AllRead ==
  ASSUME NEW D, Grounded(D), NEW T, IsText(T), NEW tree \in D, tree # EmptyNode,
         NEW down \in Nat, Readable(tree, down), NEW pos \in Nat \ {0},
         HasAt(T, pos, StringifyNodes(tree))
  PROVE  ReadsAt(T, tree, down, pos)
<1> DEFINE Read(node) ==
              \A d \in Nat, p \in Nat \ {0} :
                 node # EmptyNode /\ Readable(node, d) /\ HasAt(T, p, StringifyNodes(node))
                    => ReadsAt(T, node, d, p)
           G == {node \in D : Read(node)}
<1>1. \A node \in D : FiniteDepth(node) /\ node.items \in Seq(D) /\ Fits(node, D)
  <2> SUFFICES ASSUME NEW node \in D
               PROVE  FiniteDepth(node) /\ node.items \in Seq(D) /\ Fits(node, D)
    OBVIOUS
  <2>1. Fits(node, D) /\ FiniteDepth(node)
    BY DEF Grounded, Closed
  <2>2. node.items \in Seq(Inside(D)) /\ Inside(D) \subseteq D
    BY <2>1 DEF Fits, Inside
  <2> QED BY <2>1, <2>2, SequencesOverMore
<1>2. ASSUME NEW node \in D, \A i \in DOMAIN node.items : node.items[i] \in G
      PROVE  node \in G
  <2> SUFFICES ASSUME NEW d \in Nat, NEW p \in Nat \ {0}, node # EmptyNode, Readable(node, d),
                      HasAt(T, p, StringifyNodes(node))
               PROVE  ReadsAt(T, node, d, p)
    OBVIOUS
  <2>1. CASE node.type \in ContainerType
    <3>1. \A i \in DOMAIN node.items : \A q \in Nat \ {0} :
             HasAt(T, q, StringifyNodes(node.items[i])) => ReadsAt(T, node.items[i], d + 1, q)
      <4> SUFFICES ASSUME NEW i \in DOMAIN node.items, NEW q \in Nat \ {0},
                          HasAt(T, q, StringifyNodes(node.items[i]))
                   PROVE  ReadsAt(T, node.items[i], d + 1, q)
        OBVIOUS
      <4>1. i \in Nat /\ node.items[i] # EmptyNode
        <5>1. node.items \in Seq(Inside(D))
          BY <1>1 DEF Fits
        <5> QED BY <5>1 DEF Inside
      <4>2. Readable(node.items[i], d + 1) /\ d + 1 \in Nat
        BY <4>1, ReadableParts
      <4>3. Read(node.items[i])
        BY <1>2
      <4> HIDE DEF G
      <4> QED BY <4>1, <4>2, <4>3
    <3> HIDE DEF G
    <3> QED BY <2>1, <3>1, ContainerReads
  <2>2. CASE node.type \in {"integer", "string"}
    BY <2>2, ScalarReads
  <2>3. node.type \in ContainerType \cup {"integer", "string"}
    <3>1. node # HoleNode
      BY ReadableParts
    <3> QED BY <1>1, <3>1, NoText
  <2> QED BY <2>1, <2>2, <2>3
<1>3. D \subseteq G
  <2> HIDE DEF G
  <2> QED BY <1>1, <1>2, TreeInduction
<1>4. Read(tree)
  BY <1>3
<1> QED BY <1>4

(***************************************************************************)
(* A node that is not the null variant, of a set with the entries of its   *)
(* nodes, without holes and within the limits: the parser makes it of the  *)
(* text that is written of it.                                             *)
(***************************************************************************)
LEMMA TreeRoundTrips ==
  ASSUME NEW D, Grounded(D), NEW tree \in D, tree # EmptyNode, Readable(tree, 0)
  PROVE  Parsed(tree) = Success(tree, Len(StringifyNodes(tree)) + 1)
<1> DEFINE T == StringifyNodes(tree)
<1>1. T \in Seq(Written)
  BY AllWorded DEF Worded
<1>2. IsText(T) /\ Len(T) \in Nat
  BY <1>1 DEF IsText
<1>3. HasAt(T, 1, T)
  <2> HIDE DEF T
  <2>1. 1 + Len(T) <= Len(T) + 1 /\ \A i \in 1..Len(T) : 1 + (i - 1) = i
    BY <1>2
  <2> QED BY <2>1 DEF HasAt
<1>4. ReadsAt(T, tree, 0, 1)
  <2>1. 0 \in Nat /\ 1 \in Nat \ {0}
    OBVIOUS
  <2> QED BY <1>2, <1>3, <2>1, AllRead
<1>5. Limits.depth - 0 = Limits.depth
  BY LimitsAssumption
<1>6. ValueAt(T, Limits, Limits.depth, 1) = Success(tree, 1 + Len(T))
  BY <1>4, <1>5 DEF ReadsAt
<1>7. Parsed(tree) = ValueAt(T, Limits, Limits.depth, 1)
  BY DEF Parsed, ParseText, ValueAt
<1>8. 1 + Len(T) = Len(T) + 1
  BY <1>2
<1> QED BY <1>6, <1>7, <1>8

\* The nodes that the properties look at are all a tree has, when they look at
\* every depth.
LEMMA ReachedAre ==
  ASSUME Depths = Nat, NEW S, Closed(S), NEW tree \in S, NEW ref \in References(tree)
  PROVE  Place(tree, ref) \in Reached(tree) /\ Len(Place(tree, ref).path) = Len(ref)
<1>1. ref \in Seq(Nat) /\ Len(ref) \in Nat /\ Len(ref) <= Len(ref)
  BY DEF References
<1>2. Place(tree, ref) \in Within(tree, Len(ref))
  BY <1>1, WithinIs
<1>3. Len(PathOf(tree, ref)) = Len(ref)
  BY <1>1 DEF PathOf
<1> QED BY <1>1, <1>2, <1>3 DEF Reached, Place

(* What statements build, however deep and in whatever order, is written   *)
(* as text that parses back to it, once no hole is left and if the parser  *)
(* has the limits for it.                                                  *)
THEOREM CompleteDocumentsRoundTrip ==
  ASSUME Depths = Nat, FiniteElements
  PROVE  Spec => []CompleteDocumentRoundTrips
<1>1. ASSUME DocumentInv PROVE CompleteDocumentRoundTrips
  <2> SUFFICES ASSUME root # EmptyNode,
                      \A reached \in Reached(root) :
                         reached.node # HoleNode /\ WithinLimits(reached.node, Len(reached.path))
               PROVE  Parsed(root) = Success(root, Len(StringifyNodes(root)) + 1)
    BY DEF CompleteDocumentRoundTrips
  <2>1. PICK S : Closed(S) /\ AllFinite(S) /\ root \in S
    BY <1>1 DEF DocumentInv, Sound
  <2>2. Grounded(S)
    BY <2>1 DEF Grounded, AllFinite
  <2>3. Readable(root, 0)
    <3> SUFFICES ASSUME NEW ref \in References(root)
                 PROVE  NodeAt(root, ref) # HoleNode /\ WithinLimits(NodeAt(root, ref), 0 + Len(ref))
      BY DEF Readable
    <3>1. Place(root, ref) \in Reached(root) /\ Len(Place(root, ref).path) = Len(ref)
      BY <2>1, ReachedAre
    <3>2. 0 + Len(ref) = Len(ref)
      BY DEF References
    <3> QED BY <3>1, <3>2 DEF Place
  <2> QED BY <2>1, <2>2, <2>3, TreeRoundTrips
<1> QED BY <1>1, DocumentInvHolds, PTL

------------------------------------------------------------------------------
(***************************************************************************)
(* Document implements DocumentContract: a document of any size and depth  *)
(* is a map from paths to scalars.  The properties must look at every      *)
(* depth for that, Depths = Nat.                                           *)
(*                                                                         *)
(* The argument has three parts: the scalars of a container are those of   *)
(* its entries, each below the subscript of its entry; what a subscript    *)
(* makes of a node has the scalars of that node, unless a negative index   *)
(* has taken them; and replacing a node inside a tree replaces exactly the *)
(* scalars at and below its path.                                          *)
(***************************************************************************)

(* References, taken apart at their first slot. *)

Prepends(longer, slot, ref) ==
    /\ longer \in Seq(Nat) /\ Len(longer) = Len(ref) + 1 /\ longer[1] = slot
    /\ \A i \in 1..Len(ref) : longer[i + 1] = ref[i]

LEMMA SlotPrepends ==
  ASSUME NEW ref \in Seq(Nat), NEW slot \in Nat
  PROVE  \E longer : Prepends(longer, slot, ref)
<1> DEFINE longer == [i \in 1..(Len(ref) + 1) |-> IF i = 1 THEN slot ELSE ref[i - 1]]
<1>1. longer \in Seq(Nat) /\ Len(longer) = Len(ref) + 1
  OBVIOUS
<1>2. longer[1] = slot /\ \A i \in 1..Len(ref) : longer[i + 1] = ref[i]
  OBVIOUS
<1> QED BY <1>1, <1>2 DEF Prepends

LEMMA ReferenceHasFirst ==
  ASSUME NEW longer \in Seq(Nat), Len(longer) # 0
  PROVE  \E ref \in Seq(Nat), slot \in Nat : Prepends(longer, slot, ref)
<1> DEFINE n == Len(longer) - 1
           ref == [i \in 1..n |-> longer[i + 1]]
<1>1. n \in Nat /\ n + 1 = Len(longer)
  OBVIOUS
<1>2. ref \in Seq(Nat) /\ Len(ref) = n /\ \A i \in 1..n : ref[i] = longer[i + 1]
  BY <1>1
<1>3. longer[1] \in Nat
  BY <1>1
<1> HIDE DEF n, ref
<1>4. Prepends(longer, longer[1], ref)
  BY <1>1, <1>2 DEF Prepends
<1> QED BY <1>2, <1>3, <1>4

LEMMA AlongFollows ==
  ASSUME NEW tree, NEW ref, ref \in Seq(Nat), NEW n, n = Len(ref),
         NEW g, g = Along(tree, ref)
  PROVE  Follows(g, tree, ref, n)
<1>1. n \in 0..Len(ref)
  OBVIOUS
<1>2. g[0] = tree /\ \A i \in 1..n : g[i] = g[i - 1].items[ref[i]]
  BY AlongSteps
<1> QED BY <1>1, <1>2 DEF Follows

\* h leads from tree to where g starts, and then the way of g.
Joins(h, tree, g, n) == h[0] = tree /\ \A i \in 0..n : h[i + 1] = g[i]

LEMMA AlongPrepended ==
  ASSUME NEW tree, NEW ref, ref \in Seq(Nat), NEW slot, NEW longer, Prepends(longer, slot, ref),
         NEW n, n = Len(ref), NEW entry, entry = tree.items[slot],
         NEW g, g = Along(entry, ref), NEW h, h = Along(tree, longer)
  PROVE  Joins(h, tree, g, n)
<1>1. /\ longer \in Seq(Nat) /\ Len(longer) = n + 1 /\ longer[1] = slot /\ n \in Nat
      /\ \A j \in 1..n : longer[j + 1] = ref[j]
  BY DEF Prepends
<1>2. h[0] = tree /\ \A j \in 1..(n + 1) : h[j] = h[j - 1].items[longer[j]]
  <2>1. longer \in Seq(Nat) /\ n + 1 = Len(longer)
    BY <1>1
  <2>2. Follows(h, tree, longer, n + 1)
    BY <2>1, AlongFollows
  <2> QED BY <2>2 DEF Follows
<1> DEFINE f == [j \in 0..n |-> h[j + 1]]
<1>3. f[0] = entry
  <2>1. 1 \in 1..(n + 1) /\ 1 - 1 = 0 /\ 0 \in 0..n /\ 0 + 1 = 1
    BY <1>1
  <2> QED BY <1>1, <1>2, <2>1
<1>4. ASSUME NEW j \in 1..n PROVE f[j] = f[j - 1].items[ref[j]]
  <2>1. /\ j \in 0..n /\ j - 1 \in 0..n /\ (j - 1) + 1 = j
        /\ j + 1 \in 1..(n + 1) /\ (j + 1) - 1 = j
    BY <1>1
  <2>2. f[j] = h[j + 1] /\ f[j - 1] = h[j]
    BY <2>1
  <2> HIDE DEF f
  <2>3. h[j + 1] = h[j].items[longer[j + 1]]
    BY <1>2, <2>1
  <2> QED BY <1>1, <2>2, <2>3
<1>5. n \in 0..Len(ref)
  BY <1>1
<1>6. \A i \in 0..n : f[i] = h[i + 1]
  OBVIOUS
<1> HIDE DEF f
<1>7. Follows(f, entry, ref, n)
  BY <1>3, <1>4, <1>5 DEF Follows
<1>8. ASSUME NEW i \in 0..n PROVE g[i] = f[i]
  BY <1>7, AlongIs
<1> QED BY <1>2, <1>6, <1>8 DEF Joins

LEMMA LeadsPrepended ==
  ASSUME NEW tree, NEW ref, ref \in Seq(Nat), NEW slot, NEW longer, Prepends(longer, slot, ref),
         NEW entry, entry = tree.items[slot]
  PROVE  /\ longer \in References(tree) <=>
               slot \in DOMAIN tree.items /\ ref \in References(entry)
         /\ NodeAt(tree, longer) = NodeAt(entry, ref)
<1> DEFINE n == Len(ref)
           g == Along(entry, ref)
           h == Along(tree, longer)
<1>0. n = Len(ref) /\ g = Along(entry, ref) /\ h = Along(tree, longer)
  OBVIOUS
<1>1. /\ longer \in Seq(Nat) /\ Len(longer) = n + 1 /\ longer[1] = slot /\ n \in Nat
      /\ \A i \in 1..n : longer[i + 1] = ref[i]
  BY DEF Prepends
<1> HIDE DEF n, g, h
<1>2. h[0] = tree /\ \A i \in 0..n : h[i + 1] = g[i]
  <2>1. Joins(h, tree, g, n)
    BY <1>0, AlongPrepended
  <2> QED BY <2>1 DEF Joins
<1>3. /\ Leads(tree, longer) <=> \A i \in 1..(n + 1) : longer[i] \in DOMAIN h[i - 1].items
      /\ Leads(entry, ref) <=> \A i \in 1..n : ref[i] \in DOMAIN g[i - 1].items
  BY <1>0, <1>1, LeadsSteps
<1>4. ASSUME Leads(tree, longer) PROVE slot \in DOMAIN tree.items /\ Leads(entry, ref)
  <2>1. slot \in DOMAIN tree.items
    <3>1. 1 \in 1..(n + 1) /\ 1 - 1 = 0
      BY <1>1
    <3> QED BY <1>1, <1>2, <1>3, <1>4, <3>1
  <2>2. ASSUME NEW i \in 1..n PROVE ref[i] \in DOMAIN g[i - 1].items
    <3>1. /\ i + 1 \in 1..(n + 1) /\ (i + 1) - 1 = i /\ i - 1 \in 0..n /\ (i - 1) + 1 = i
      BY <1>1
    <3> QED BY <1>1, <1>2, <1>3, <1>4, <3>1
  <2> QED BY <1>3, <2>1, <2>2
<1>5. ASSUME slot \in DOMAIN tree.items, Leads(entry, ref) PROVE Leads(tree, longer)
  <2>1. ASSUME NEW i \in 1..(n + 1) PROVE longer[i] \in DOMAIN h[i - 1].items
    <3>1. CASE i = 1
      <4>1. i - 1 = 0
        BY <3>1
      <4> QED BY <1>1, <1>2, <1>5, <3>1, <4>1
    <3>2. CASE i # 1
      <4>1. i - 1 \in 1..n /\ (i - 1) + 1 = i /\ (i - 1) - 1 \in 0..n /\ ((i - 1) - 1) + 1 = i - 1
        BY <1>1, <3>2
      <4>2. ref[i - 1] \in DOMAIN g[(i - 1) - 1].items
        BY <1>3, <1>5, <4>1
      <4>3. longer[i] = ref[i - 1] /\ h[i - 1] = g[(i - 1) - 1]
        BY <1>1, <1>2, <4>1
      <4> QED BY <4>2, <4>3
    <3> QED BY <3>1, <3>2
  <2> QED BY <1>3, <2>1
<1>6. h[n + 1] = g[n]
  <2>1. n \in 0..n
    BY <1>1
  <2> QED BY <1>2, <2>1
<1>7. NodeAt(tree, longer) = NodeAt(entry, ref)
  BY <1>0, <1>1, <1>6 DEF NodeAt
<1> QED BY <1>0, <1>1, <1>4, <1>5, <1>7 DEF References

LEMMA SubscriptsOfNode ==
  ASSUME NEW S, NEW node, Fits(node, S), NEW slot, slot \in DOMAIN node.items
  PROVE  SubscriptOf(node, slot) \in Subscripts
<1>1. /\ node.keys \in Seq(Nat) /\ node.items \in Seq(Inside(S))
      /\ node.type = "dictionary" => Len(node.items) = Len(node.keys)
  BY FitsParts DEF Ascending
<1>2. slot \in 1..Len(node.items) /\ Len(node.items) \in Nat
  BY <1>1
<1>3. node.type = "dictionary" => node.keys[slot] \in Nat
  BY <1>1, <1>2
<1>4. slot - 1 \in Int
  BY <1>2
<1> QED BY <1>3, <1>4 DEF SubscriptOf, ByKey, ByIndex, Subscripts

LEMMA PathTyped ==
  ASSUME NEW S, Closed(S), NEW tree, tree \in S, NEW ref, ref \in References(tree)
  PROVE  PathOf(tree, ref) \in Seq(Subscripts) /\ Len(PathOf(tree, ref)) = Len(ref)
<1> DEFINE n == Len(ref)
           g == Along(tree, ref)
<1>1. /\ ref \in Seq(Nat) /\ Leads(tree, ref) /\ n \in Nat
  BY DEF References
<1>2. \A i \in 0..n : g[i] \in S
  BY <1>1, AlongStays
<1>3. \A i \in 1..n : ref[i] \in DOMAIN g[i - 1].items
  BY <1>1, LeadsSteps
<1> HIDE DEF n, g
<1>4. ASSUME NEW i \in 1..n PROVE SubscriptOf(g[i - 1], ref[i]) \in Subscripts
  <2>1. i - 1 \in 0..n
    BY <1>1
  <2>2. Fits(g[i - 1], S)
    BY <1>2, <2>1 DEF Closed
  <2> QED BY <1>3, <2>2, SubscriptsOfNode
<1>5. PathOf(tree, ref) = [i \in 1..n |-> SubscriptOf(g[i - 1], ref[i])]
  BY DEF PathOf, n, g
<1>6. PathOf(tree, ref) \in [1..n -> Subscripts]
  BY <1>4, <1>5
<1> HIDE DEF Subscripts
<1>7. PathOf(tree, ref) \in Seq(Subscripts) /\ Len(PathOf(tree, ref)) = n
  BY <1>1, <1>6
<1> QED BY <1>7 DEF n

LEMMA PathPrepended ==
  ASSUME NEW S, Closed(S), NEW tree, tree \in S, NEW ref, ref \in Seq(Nat), NEW slot,
         NEW longer, Prepends(longer, slot, ref), longer \in References(tree),
         NEW entry, entry = tree.items[slot], entry \in S, ref \in References(entry)
  PROVE  PathOf(tree, longer) = <<SubscriptOf(tree, slot)>> \o PathOf(entry, ref)
<1> DEFINE n == Len(ref)
           g == Along(entry, ref)
           h == Along(tree, longer)
           p == PathOf(entry, ref)
           q == PathOf(tree, longer)
           first == SubscriptOf(tree, slot)
<1>0. n = Len(ref) /\ g = Along(entry, ref) /\ h = Along(tree, longer)
  OBVIOUS
<1>1. /\ longer \in Seq(Nat) /\ Len(longer) = n + 1 /\ longer[1] = slot /\ n \in Nat
      /\ \A i \in 1..n : longer[i + 1] = ref[i]
  BY DEF Prepends
<1>2. /\ p \in Seq(Subscripts) /\ Len(p) = n /\ q \in Seq(Subscripts) /\ Len(q) = n + 1
  BY <1>1, PathTyped
<1>3. /\ p = [i \in 1..n |-> SubscriptOf(g[i - 1], ref[i])]
      /\ q = [i \in 1..(n + 1) |-> SubscriptOf(h[i - 1], longer[i])]
  BY <1>1 DEF PathOf
<1> HIDE DEF n, g, h, p, q, first, Subscripts
<1>4. h[0] = tree /\ \A i \in 0..n : h[i + 1] = g[i]
  <2>1. Joins(h, tree, g, n)
    BY <1>0, AlongPrepended
  <2> QED BY <2>1 DEF Joins
<1>5. q[1] = first
  <2>1. 1 \in 1..(n + 1) /\ 1 - 1 = 0
    BY <1>1
  <2> QED BY <1>1, <1>3, <1>4, <2>1 DEF first
<1>6. ASSUME NEW i \in 1..n PROVE q[i + 1] = p[i]
  <2>1. i + 1 \in 1..(n + 1) /\ (i + 1) - 1 = i /\ i - 1 \in 0..n /\ (i - 1) + 1 = i
    BY <1>1, SMTT(40)
  <2>2. q[i + 1] = SubscriptOf(h[i], longer[i + 1])
    BY <1>3, <2>1
  <2>3. h[i] = g[i - 1]
    BY <1>4, <2>1
  <2> QED BY <1>1, <1>3, <2>2, <2>3
<1>7. first \in Subscripts
  <2>1. 1 \in 1..(n + 1)
    BY <1>1
  <2> QED BY <1>1, <1>2, <1>5, <2>1
<1>8. <<first>> \in Seq(Subscripts) /\ Len(<<first>>) = 1 /\ <<first>>[1] = first
  BY <1>7
<1>9. /\ <<first>> \o p \in Seq(Subscripts) /\ Len(<<first>> \o p) = n + 1
      /\ \A i \in 1..(n + 1) : (<<first>> \o p)[i] = IF i <= 1 THEN <<first>>[i] ELSE p[i - 1]
  <2>1. Len(<<first>>) + Len(p) = n + 1
    BY <1>1, <1>2, <1>8
  <2> QED BY <1>2, <1>8, <2>1, ConcatProperties
<1>10. ASSUME NEW i \in 1..(n + 1) PROVE q[i] = (<<first>> \o p)[i]
  <2>1. CASE i = 1
    BY <1>5, <1>8, <1>9, <2>1
  <2>2. CASE i # 1
    <3>1. i - 1 \in 1..n /\ (i - 1) + 1 = i /\ ~(i <= 1)
      BY <1>1, <2>2
    <3> QED BY <1>6, <1>9, <3>1
  <2> QED BY <2>1, <2>2
<1>11. q = <<first>> \o p
  BY <1>2, <1>9, <1>10, SeqEqual
<1> QED BY <1>11 DEF q, first, p

------------------------------------------------------------------------------
(* Prefixes of paths.                                                      *)

\* The first elements of t are those of s.
Starts(s, t) == Len(s) <= Len(t) /\ \A i \in 1..Len(s) : s[i] = t[i]

LEMMA PrefixIs ==
  ASSUME NEW T, NEW s, s \in Seq(T), NEW t, t \in Seq(T)
  PROVE  IsPrefix(s, t) <=> Starts(s, t)
<1> DEFINE n == Len(s)
           front == SubSeq(t, 1, n)
<1>1. n \in Nat /\ Len(t) \in Nat
  OBVIOUS
<1>2. SubSeq(s, 1, n) = s
  BY SubSeqFull
<1>3. ASSUME n <= Len(t)
      PROVE  front \in Seq(T) /\ Len(front) = n /\ \A i \in 1..n : front[i] = t[i]
  BY <1>1, <1>3
<1>4. IsPrefix(s, t) <=> n <= Len(t) /\ s = front
  BY <1>2 DEF IsPrefix
<1> HIDE DEF n, front
<1>5. ASSUME n <= Len(t), \A i \in 1..n : s[i] = t[i] PROVE s = front
  <2>1. /\ front \in Seq(T) /\ s \in Seq(T) /\ Len(s) = Len(front)
        /\ \A i \in 1..Len(s) : s[i] = front[i]
    BY <1>3, <1>5 DEF n
  <2> QED BY <2>1, SeqEqual
<1>6. ASSUME n <= Len(t), s = front PROVE \A i \in 1..n : s[i] = t[i]
  BY <1>3, <1>6
<1> QED BY <1>4, <1>5, <1>6 DEF n, Starts

\* u is first, followed by rest.
Headed(u, first, rest, T) ==
    /\ u \in Seq(T) /\ Len(u) = Len(rest) + 1 /\ u[1] = first
    /\ Len(rest) \in Nat /\ \A i \in 1..Len(rest) : u[i + 1] = rest[i]

LEMMA ConcatHeaded ==
  ASSUME NEW T, NEW first, first \in T, NEW rest, rest \in Seq(T)
  PROVE  Headed(<<first>> \o rest, first, rest, T)
<1> DEFINE u == <<first>> \o rest
           one == <<first>>
<1>1. one \in Seq(T) /\ Len(one) = 1 /\ one[1] = first /\ Len(rest) \in Nat
  OBVIOUS
<1>2. u = one \o rest
  OBVIOUS
<1> HIDE DEF one, u
<1>3. /\ u \in Seq(T) /\ Len(u) = Len(one) + Len(rest)
      /\ \A i \in 1..(Len(one) + Len(rest)) :
            u[i] = IF i <= Len(one) THEN one[i] ELSE rest[i - Len(one)]
  BY <1>1, <1>2, ConcatProperties
<1>4. u[1] = first
  <2>1. 1 \in 1..(Len(one) + Len(rest))
    BY <1>1
  <2> QED BY <1>1, <1>3, <2>1
<1>5. ASSUME NEW i \in 1..Len(rest) PROVE u[i + 1] = rest[i]
  <2>1. i + 1 \in 1..(Len(one) + Len(rest)) /\ ~(i + 1 <= Len(one)) /\ (i + 1) - Len(one) = i
    BY <1>1
  <2> QED BY <1>3, <2>1
<1> QED BY <1>1, <1>3, <1>4, <1>5 DEF Headed, u, one

LEMMA PrefixSplits ==
  ASSUME NEW T, NEW a, a \in T, NEW b, b \in T, NEW q, q \in Seq(T), NEW l, l \in Seq(T)
  PROVE  IsPrefix(<<a>> \o q, <<b>> \o l) <=> a = b /\ IsPrefix(q, l)
<1> DEFINE u == <<a>> \o q
           v == <<b>> \o l
           n == Len(q)
<1>1. Headed(u, a, q, T) /\ Headed(v, b, l, T)
  BY ConcatHeaded
<1> HIDE DEF u, v, n
<1>2. /\ u \in Seq(T) /\ Len(u) = n + 1 /\ u[1] = a /\ n \in Nat
      /\ \A i \in 1..n : u[i + 1] = q[i]
      /\ v \in Seq(T) /\ Len(v) = Len(l) + 1 /\ v[1] = b /\ Len(l) \in Nat
      /\ \A i \in 1..Len(l) : v[i + 1] = l[i]
  BY <1>1 DEF Headed, n
<1>3. IsPrefix(u, v) <=> Len(u) <= Len(v) /\ \A i \in 1..Len(u) : u[i] = v[i]
  <2>1. IsPrefix(u, v) <=> Starts(u, v)
    BY <1>2, PrefixIs
  <2> QED BY <2>1 DEF Starts
<1>4. IsPrefix(q, l) <=> n <= Len(l) /\ \A i \in 1..n : q[i] = l[i]
  <2>1. IsPrefix(q, l) <=> Starts(q, l)
    BY PrefixIs
  <2> QED BY <2>1 DEF Starts, n
<1>5. Len(u) <= Len(v) <=> n <= Len(l)
  BY <1>2
<1>6. ASSUME n <= Len(l), \A i \in 1..Len(u) : u[i] = v[i]
      PROVE  a = b /\ \A i \in 1..n : q[i] = l[i]
  <2>1. 1 \in 1..Len(u)
    BY <1>2
  <2>2. ASSUME NEW i \in 1..n PROVE q[i] = l[i]
    <3>1. i + 1 \in 1..Len(u) /\ i \in 1..Len(l)
      BY <1>2, <1>6
    <3> QED BY <1>2, <1>6, <3>1
  <2> QED BY <1>2, <1>6, <2>1, <2>2
<1>7. ASSUME n <= Len(l), a = b, \A i \in 1..n : q[i] = l[i]
      PROVE  \A i \in 1..Len(u) : u[i] = v[i]
  <2> SUFFICES ASSUME NEW i \in 1..Len(u) PROVE u[i] = v[i]
    OBVIOUS
  <2>1. CASE i = 1
    BY <1>2, <1>7, <2>1
  <2>2. CASE i # 1
    <3>1. i - 1 \in 1..n /\ i - 1 \in 1..Len(l) /\ (i - 1) + 1 = i
      BY <1>2, <1>7, <2>2
    <3>2. u[i] = q[i - 1] /\ v[i] = l[i - 1]
      BY <1>2, <3>1
    <3> QED BY <1>7, <3>1, <3>2
  <2> QED BY <2>1, <2>2
<1>8. IsPrefix(u, v) <=> a = b /\ IsPrefix(q, l)
  BY <1>3, <1>4, <1>5, <1>6, <1>7
<1> QED BY <1>8 DEF u, v

LEMMA EmptyIsPrefix ==
  ASSUME NEW T, NEW t, t \in Seq(T)
  PROVE  IsPrefix(<<>>, t)
<1>1. <<>> \in Seq(T) /\ Len(<<>>) = 0 /\ Len(t) \in Nat
  OBVIOUS
<1>2. Starts(<<>>, t)
  BY <1>1 DEF Starts
<1> QED BY <1>1, <1>2, PrefixIs

------------------------------------------------------------------------------
(* The scalars of a tree, when the properties look at every depth.         *)

IsScalar(node) == node.type \in {"integer", "string"}

Leaf(tree, ref) == [path |-> PathOf(tree, ref), val |-> NodeAt(tree, ref)]

LEMMA LeavesAre ==
  ASSUME Depths = Nat, NEW S, Closed(S), NEW tree, tree \in S, NEW leaf
  PROVE  leaf \in Leaves(tree) <=>
            \E ref \in References(tree) : IsScalar(NodeAt(tree, ref)) /\ leaf = Leaf(tree, ref)
<1>1. Reached(tree) = {Place(tree, ref) : ref \in References(tree)}
  <2>1. ASSUME NEW place \in Reached(tree)
        PROVE  \E ref \in References(tree) : place = Place(tree, ref)
    <3>1. PICK depth \in Nat : place \in Within(tree, depth)
      BY <2>1 DEF Reached
    <3> QED BY <3>1, WithinIs
  <2>2. ASSUME NEW ref \in References(tree) PROVE Place(tree, ref) \in Reached(tree)
    <3>1. Len(ref) \in Nat /\ Len(ref) <= Len(ref)
      BY DEF References
    <3>2. Place(tree, ref) \in Within(tree, Len(ref))
      BY <3>1, WithinIs
    <3> QED BY <3>1, <3>2 DEF Reached
  <2> QED BY <2>1, <2>2
<1>2. leaf \in Leaves(tree) <=>
         \E place \in Reached(tree) :
            IsScalar(place.node) /\ leaf = [path |-> place.path, val |-> place.node]
  BY DEF Leaves, IsScalar
<1>3. \A ref : /\ Place(tree, ref).node = NodeAt(tree, ref)
               /\ Leaf(tree, ref) = [path |-> Place(tree, ref).path, val |-> Place(tree, ref).node]
  BY DEF Place, Leaf
<1> QED BY <1>1, <1>2, <1>3

LEMMA LeavesTyped ==
  ASSUME Depths = Nat, NEW S, Closed(S), NEW tree, tree \in S, NEW leaf, leaf \in Leaves(tree)
  PROVE  leaf = [path |-> leaf.path, val |-> leaf.val] /\ leaf.path \in Seq(Subscripts)
<1>1. PICK ref \in References(tree) : leaf = Leaf(tree, ref)
  BY LeavesAre
<1>2. PathOf(tree, ref) \in Seq(Subscripts)
  BY PathTyped
<1> HIDE DEF Subscripts
<1> QED BY <1>1, <1>2 DEF Leaf

\* The leaf of an entry, seen from above.
Moved(p, leaf) == [path |-> p \o leaf.path, val |-> leaf.val]

\* A scalar is its own only leaf.
LEMMA LeavesOfScalar ==
  ASSUME Depths = Nat, NEW S, Closed(S), NEW tree, tree \in S, tree.items = <<>>, NEW leaf
  PROVE  leaf \in Leaves(tree) <=> IsScalar(tree) /\ leaf = [path |-> <<>>, val |-> tree]
<1>1. <<>> \in References(tree) /\ Place(tree, <<>>) = [path |-> <<>>, node |-> tree]
  BY PlaceOfRoot
<1>2. ASSUME NEW ref \in References(tree) PROVE ref = <<>>
  <2> SUFFICES ASSUME ref # <<>> PROVE FALSE
    OBVIOUS
  <2>1. ref \in Seq(Nat) /\ Len(ref) # 0
    BY DEF References
  <2>2. PICK rest \in Seq(Nat), slot \in Nat : Prepends(ref, slot, rest)
    BY <2>1, ReferenceHasFirst
  <2>3. slot \in DOMAIN tree.items
    BY <2>2, LeadsPrepended
  <2> QED BY <2>3
<1>3. NodeAt(tree, <<>>) = tree /\ Leaf(tree, <<>>) = [path |-> <<>>, val |-> tree]
  BY <1>1 DEF Leaf, Place
<1> QED BY <1>1, <1>2, <1>3, LeavesAre

\* The leaf is one of an entry.
Enters(leaf, tree) ==
    \E slot \in DOMAIN tree.items : \E inner \in Leaves(tree.items[slot]) :
        leaf = Moved(<<SubscriptOf(tree, slot)>>, inner)

\* The leaves of a container are those of its entries.
LEMMA LeavesOfEntries ==
  ASSUME Depths = Nat, NEW S, Closed(S), NEW tree, tree \in S, ~IsScalar(tree), NEW leaf
  PROVE  leaf \in Leaves(tree) <=> Enters(leaf, tree)
<1>1. /\ \A slot \in DOMAIN tree.items : tree.items[slot] \in S /\ slot \in Nat
  <2>1. tree.items \in Seq(Inside(S))
    BY DEF Closed, Fits
  <2> QED BY <2>1 DEF Inside
<1>2. NodeAt(tree, <<>>) = tree
  BY PlaceOfRoot DEF Place
<1>3. ASSUME NEW slot, slot \in DOMAIN tree.items, NEW ref, ref \in Seq(Nat),
             NEW longer, Prepends(longer, slot, ref),
             NEW entry, entry = tree.items[slot]
      PROVE  /\ longer \in References(tree) <=> ref \in References(entry)
             /\ NodeAt(tree, longer) = NodeAt(entry, ref)
             /\ ref \in References(entry) =>
                   Leaf(tree, longer) = Moved(<<SubscriptOf(tree, slot)>>, Leaf(entry, ref))
  <2>1. /\ longer \in References(tree) <=> ref \in References(entry)
        /\ NodeAt(tree, longer) = NodeAt(entry, ref)
    BY <1>3, LeadsPrepended
  <2>2. entry \in S
    BY <1>1, <1>3
  <2>3. ASSUME ref \in References(entry)
        PROVE  PathOf(tree, longer) = <<SubscriptOf(tree, slot)>> \o PathOf(entry, ref)
    BY <1>3, <2>1, <2>2, <2>3, PathPrepended
  <2> QED BY <2>1, <2>3 DEF Leaf, Moved
<1>4. ASSUME leaf \in Leaves(tree)
      PROVE  \E slot \in DOMAIN tree.items : \E inner \in Leaves(tree.items[slot]) :
                leaf = Moved(<<SubscriptOf(tree, slot)>>, inner)
  <2>1. PICK longer \in References(tree) :
           IsScalar(NodeAt(tree, longer)) /\ leaf = Leaf(tree, longer)
    BY <1>4, LeavesAre
  <2>2. longer \in Seq(Nat) /\ Len(longer) # 0
    <3>1. longer # <<>>
      BY <1>2, <2>1
    <3> QED BY <3>1 DEF References
  <2>3. PICK ref \in Seq(Nat), slot \in Nat : Prepends(longer, slot, ref)
    BY <2>2, ReferenceHasFirst
  <2>4. slot \in DOMAIN tree.items
    BY <2>3, LeadsPrepended
  <2>5. /\ ref \in References(tree.items[slot]) /\ IsScalar(NodeAt(tree.items[slot], ref))
        /\ leaf = Moved(<<SubscriptOf(tree, slot)>>, Leaf(tree.items[slot], ref))
    BY <1>3, <2>1, <2>3, <2>4
  <2>6. Leaf(tree.items[slot], ref) \in Leaves(tree.items[slot])
    BY <1>1, <2>4, <2>5, LeavesAre
  <2> QED BY <2>4, <2>5, <2>6
<1>5. ASSUME NEW slot \in DOMAIN tree.items, NEW inner \in Leaves(tree.items[slot]),
             leaf = Moved(<<SubscriptOf(tree, slot)>>, inner)
      PROVE  leaf \in Leaves(tree)
  <2>1. PICK ref \in References(tree.items[slot]) :
           IsScalar(NodeAt(tree.items[slot], ref)) /\ inner = Leaf(tree.items[slot], ref)
    BY <1>1, <1>5, LeavesAre
  <2>2. PICK longer : Prepends(longer, slot, ref)
    BY <1>1, SlotPrepends DEF References
  <2>3. /\ longer \in References(tree) /\ IsScalar(NodeAt(tree, longer))
        /\ leaf = Leaf(tree, longer)
    BY <1>3, <1>5, <2>1, <2>2 DEF References
  <2> QED BY <2>3, LeavesAre
<1> QED BY <1>4, <1>5 DEF Enters

------------------------------------------------------------------------------
(* What a subscript makes of a node has the same scalars.                  *)

LEMMA JoinClosed ==
  ASSUME NEW S, Closed(S), NEW node, Fits(node, S)
  PROVE  \E T : Closed(T) /\ S \subseteq T /\ node \in T
<1> DEFINE T == S \cup {node}
<1>1. S \subseteq T /\ node \in T
  OBVIOUS
<1>2. \A m \in T : Fits(m, S)
  BY DEF Closed
<1> HIDE DEF T
<1>3. Closed(T)
  BY <1>1, <1>2, FitsMore DEF Closed
<1> QED BY <1>1, <1>3

LEMMA LeavesOfBare ==
  ASSUME Depths = Nat, NEW S, NEW node, Fits(node, S), node.items = <<>>, ~IsScalar(node)
  PROVE  Leaves(node) = {}
<1>1. Fits(node, {node})
  BY DEF Fits
<1>2. Closed({node}) /\ node \in {node}
  BY <1>1 DEF Closed
<1> QED BY <1>2, LeavesOfScalar

LEMMA BareNodes ==
  ASSUME Depths = Nat
  PROVE  /\ Leaves(EmptyNode) = {} /\ Leaves(HoleNode) = {}
         /\ Leaves(EmptyList) = {} /\ Leaves(EmptyDictionary) = {}
<1>1. /\ EmptyNode.items = <<>> /\ ~IsScalar(EmptyNode)
      /\ HoleNode.items = <<>> /\ ~IsScalar(HoleNode)
      /\ EmptyList.items = <<>> /\ ~IsScalar(EmptyList)
      /\ EmptyDictionary.items = <<>> /\ ~IsScalar(EmptyDictionary)
  BY DEF EmptyNode, HoleNode, EmptyList, EmptyDictionary, ContainerNode, MakeNode, IsScalar
<1>2. /\ Fits(EmptyNode, {}) /\ Fits(HoleNode, {})
      /\ Fits(EmptyList, {}) /\ Fits(EmptyDictionary, {})
  BY EmptyContainersFit
<1> QED BY <1>1, <1>2, LeavesOfBare

\* Every entry of node but its holes stands in new under the same subscript.
Keeps(node, new) ==
    \A slot \in DOMAIN node.items :
        \/ node.items[slot] = HoleNode
        \/ \E at \in DOMAIN new.items :
              /\ new.items[at] = node.items[slot]
              /\ SubscriptOf(new, at) = SubscriptOf(node, slot)

LEMMA KeepsLeaves ==
  ASSUME Depths = Nat, NEW S, Closed(S), NEW node, node \in S, NEW new, new \in S,
         ~IsScalar(node), ~IsScalar(new), Keeps(node, new)
  PROVE  Leaves(node) \subseteq Leaves(new)
<1> SUFFICES ASSUME NEW leaf \in Leaves(node) PROVE leaf \in Leaves(new)
  OBVIOUS
<1>1. PICK slot \in DOMAIN node.items : \E inner \in Leaves(node.items[slot]) :
         leaf = Moved(<<SubscriptOf(node, slot)>>, inner)
  BY LeavesOfEntries, SMTT(40) DEF Enters
<1>2. node.items[slot] # HoleNode
  BY <1>1, BareNodes
<1>3. PICK at \in DOMAIN new.items :
         new.items[at] = node.items[slot] /\ SubscriptOf(new, at) = SubscriptOf(node, slot)
  BY <1>2 DEF Keeps
<1>4. Enters(leaf, new)
  BY <1>1, <1>3 DEF Enters
<1> QED BY <1>4, LeavesOfEntries

LEMMA SameLeaves ==
  ASSUME Depths = Nat, NEW S, Closed(S), NEW node, Fits(node, S), NEW new, Fits(new, S),
         ~IsScalar(node), ~IsScalar(new), Keeps(node, new), Keeps(new, node)
  PROVE  Leaves(new) = Leaves(node)
<1>1. PICK T : Closed(T) /\ S \subseteq T /\ node \in T
  BY JoinClosed
<1>2. Fits(new, T)
  BY <1>1, FitsMore
<1>3. PICK U : Closed(U) /\ T \subseteq U /\ new \in U
  BY <1>1, <1>2, JoinClosed
<1>4. node \in U
  BY <1>1, <1>3
<1>5. Leaves(node) \subseteq Leaves(new)
  BY <1>3, <1>4, KeepsLeaves
<1>6. Leaves(new) \subseteq Leaves(node)
  BY <1>3, <1>4, KeepsLeaves
<1> QED BY <1>5, <1>6

LEMMA AddKeepsLeaves ==
  ASSUME Depths = Nat, NEW S, Closed(S), HoleNode \in S, NEW node, Fits(node, S),
         node.type = "dictionary", NEW key, key \in Nat, ~HasKey(node, key)
  PROVE  Leaves(Add(node, key, HoleNode)) = Leaves(node)
<1> DEFINE it == LowerBound(node.keys, key)
           n == Len(node.keys)
           added == Add(node, key, HoleNode)
<1>0. /\ it = LowerBound(node.keys, key) /\ added = Add(node, key, HoleNode)
      /\ HoleNode \in Inside(S)
  BY EmptyContainersFit DEF Inside
<1> HIDE DEF it, added
<1>1. Fits(added, S) /\ added.type = "dictionary"
  BY <1>0, AddFits
<1>2. /\ n \in Nat /\ Len(node.items) = n /\ it \in 1..(n + 1)
      /\ Len(added.items) = n + 1 /\ added.items[it] = HoleNode
      /\ \A j \in 1..(n + 1) : j < it => added.keys[j] = node.keys[j]
      /\ \A j \in 1..(n + 1) : j > it => added.keys[j] = node.keys[j - 1]
      /\ \A j \in 1..(n + 1) : j < it => added.items[j] = node.items[j]
      /\ \A j \in 1..(n + 1) : j > it => added.items[j] = node.items[j - 1]
  BY <1>0, AddValues, SMTT(40)
<1>3. DOMAIN node.items = 1..n /\ DOMAIN added.items = 1..(n + 1)
  <2>1. node.items \in Seq(Inside(S)) /\ added.items \in Seq(Inside(S))
    BY <1>1, FitsParts
  <2> QED BY <1>2, <2>1
<1> HIDE DEF n
<1>4. \A j : /\ SubscriptOf(node, j) = ByKey(node.keys[j])
             /\ SubscriptOf(added, j) = ByKey(added.keys[j])
  BY <1>1 DEF SubscriptOf
<1>5. Keeps(node, added)
  <2> SUFFICES ASSUME NEW slot \in 1..n
               PROVE  \E at \in 1..(n + 1) : /\ added.items[at] = node.items[slot]
                                             /\ added.keys[at] = node.keys[slot]
    BY <1>3, <1>4 DEF Keeps
  <2>1. CASE slot < it
    <3>1. slot \in 1..(n + 1)
      BY <1>2
    <3> QED BY <1>2, <2>1, <3>1
  <2>2. CASE ~(slot < it)
    <3>1. slot + 1 \in 1..(n + 1) /\ slot + 1 > it /\ (slot + 1) - 1 = slot
      BY <1>2, <2>2
    <3>2. added.items[slot + 1] = node.items[slot] /\ added.keys[slot + 1] = node.keys[slot]
      BY <1>2, <3>1
    <3> QED BY <3>1, <3>2
  <2> QED BY <2>1, <2>2
<1>6. Keeps(added, node)
  <2>1. ASSUME NEW slot \in 1..(n + 1), slot # it
        PROVE  \E at \in 1..n : /\ node.items[at] = added.items[slot]
                                /\ node.keys[at] = added.keys[slot]
    <3>1. CASE slot < it
      <4>1. slot \in 1..n
        BY <1>2, <3>1
      <4> QED BY <1>2, <3>1, <4>1
    <3>2. CASE ~(slot < it)
      <4>1. slot - 1 \in 1..n /\ slot > it
        BY <1>2, <2>1, <3>2
      <4> QED BY <1>2, <4>1
    <3> QED BY <3>1, <3>2
  <2>2. ASSUME NEW slot \in DOMAIN added.items, added.items[slot] # HoleNode
        PROVE  \E at \in DOMAIN node.items : /\ node.items[at] = added.items[slot]
                                            /\ SubscriptOf(node, at) = SubscriptOf(added, slot)
    <3>1. slot \in 1..(n + 1) /\ slot # it
      BY <1>2, <1>3, <2>2
    <3> QED BY <1>3, <1>4, <2>1, <3>1
  <2> QED BY <2>2 DEF Keeps
<1>7. ~IsScalar(node) /\ ~IsScalar(added)
  BY <1>1 DEF IsScalar
<1>8. Leaves(added) = Leaves(node)
  BY <1>1, <1>5, <1>6, <1>7, SameLeaves
<1> QED BY <1>0, <1>8

LEMMA ResizedLeaves ==
  ASSUME Depths = Nat, NEW S, Closed(S), HoleNode \in S, NEW node, Fits(node, S),
         node.type = "list", NEW index, index \in Int, index >= -1,
         NEW resized, resized = Resized(node, index)
  PROVE  /\ index = -1 => resized.items = <<>> /\ Leaves(resized) = {}
         /\ index >= Len(node.items) => Leaves(resized) = Leaves(node)
<1> DEFINE n == Len(node.items)
<1>1. /\ resized.type = "list" /\ Fits(resized, S)
      /\ resized.items \in Seq(Inside(S)) /\ Len(resized.items) = index + 1
  <2>1. resized.type = "list"
    BY DEF Resized, ContainerNode, MakeNode
  <2> QED BY <2>1, ResizedFits
<1>2. node.items \in Seq(Inside(S)) /\ n \in Nat
  BY FitsParts
<1>3. ~IsScalar(node) /\ ~IsScalar(resized)
  BY <1>1 DEF IsScalar
<1>4. ASSUME index = -1 PROVE resized.items = <<>> /\ Leaves(resized) = {}
  <2>1. resized.items = <<>>
    BY <1>1, <1>4
  <2> QED BY <1>1, <1>3, <2>1, LeavesOfBare
<1>5. ASSUME index >= n PROVE Leaves(resized) = Leaves(node)
  <2>1. ASSUME NEW i \in 1..(index + 1)
        PROVE  resized.items[i] = IF i <= n THEN node.items[i] ELSE HoleNode
    BY ResizedFits
  <2>2. DOMAIN node.items = 1..n /\ DOMAIN resized.items = 1..(index + 1)
    BY <1>1, <1>2
  <2>3. \A j : SubscriptOf(node, j) = ByIndex(j - 1) /\ SubscriptOf(resized, j) = ByIndex(j - 1)
    BY <1>1 DEF SubscriptOf
  <2> HIDE DEF n
  <2>4. Keeps(node, resized)
    <3> SUFFICES ASSUME NEW slot \in 1..n
                 PROVE  slot \in 1..(index + 1) /\ resized.items[slot] = node.items[slot]
      BY <2>2, <2>3 DEF Keeps
    <3>1. slot \in 1..(index + 1) /\ slot <= n
      BY <1>2, <1>5
    <3> QED BY <2>1, <3>1
  <2>5. Keeps(resized, node)
    <3> SUFFICES ASSUME NEW slot \in 1..(index + 1), resized.items[slot] # HoleNode
                 PROVE  slot \in 1..n /\ resized.items[slot] = node.items[slot]
      BY <2>2, <2>3 DEF Keeps
    <3>1. slot <= n
      BY <2>1
    <3> QED BY <1>2, <2>1, <3>1
  <2> QED BY <1>1, <1>3, <2>4, <2>5, SameLeaves
<1> QED BY <1>4, <1>5

\* The scalars stay those of before; a negative index that is refused may have
\* taken them all.
Preserves(reached, old, subscript) ==
    \/ Leaves(reached.node) = old
    \/ /\ reached.fault # "ok" /\ Leaves(reached.node) = {}
       /\ subscript.by = "index" /\ subscript.at < 0

LEMMA IndexPreserves ==
  ASSUME Depths = Nat, NEW S, Closed(S), HoleNode \in S, NEW node, Fits(node, S),
         NEW index, index \in Int, NEW reached, reached = NodeByIndex(node, index)
  PROVE  /\ Preserves(reached, Leaves(node), ByIndex(index))
         /\ reached.fault = NodeError /\ reached.node.type = "list" => index = -1
         /\ index < 0 => reached.fault # "ok"
<1> DEFINE list == IF node = HoleNode THEN EmptyList ELSE node
<1>1. Fits(list, S) /\ Leaves(list) = Leaves(node)
  BY EmptyContainersFit, BareNodes
<1>2. ByIndex(index).by = "index" /\ ByIndex(index).at = index
  BY DEF ByIndex
<1>3. Len(list.items) \in Nat
  BY <1>1 DEF Fits
<1>4. NodeError # "ok" /\ CapacityError # "ok" /\ CapacityError # NodeError
  BY DEF NodeError, CapacityError
<1>5. reached =
         CASE list.type # "list" -> Thrown(list, NodeError)
           [] list.type = "list" /\ index \in 0..(Len(list.items) - 1) -> Found(list, index + 1)
           [] list.type = "list" /\ index \notin 0..(Len(list.items) - 1) ->
                IF ResizeFails(index) THEN Thrown(list, CapacityError)
                ELSE IF index < 0 THEN Thrown(Resized(list, index), NodeError)
                ELSE Found(Resized(list, index), index + 1)
  <2>1. list.type # "list" => list = node
    BY EmptyContainersFit
  <2> QED BY <2>1 DEF NodeByIndex
<1> HIDE DEF list
<1>6. CASE list.type # "list"
  <2>1. reached.node = list /\ reached.fault = NodeError
    BY <1>5, <1>6 DEF Thrown
  <2> QED BY <1>1, <1>4, <1>6, <2>1 DEF Preserves
<1>7. CASE list.type = "list" /\ index \in 0..(Len(list.items) - 1)
  <2>1. reached.node = list /\ reached.fault = "ok" /\ ~(index < 0)
    BY <1>3, <1>5, <1>7 DEF Found
  <2> QED BY <1>1, <1>4, <2>1 DEF Preserves
<1>8. CASE list.type = "list" /\ index \notin 0..(Len(list.items) - 1)
  <2>1. CASE ResizeFails(index)
    <3>1. reached.node = list /\ reached.fault = CapacityError
      BY <1>5, <1>8, <2>1 DEF Thrown
    <3> QED BY <1>1, <1>4, <3>1 DEF Preserves
  <2>2. CASE ~ResizeFails(index)
    <3> DEFINE grown == Resized(list, index)
    <3>1. index >= -1
      BY <2>2 DEF ResizeFails
    <3>2. /\ index = -1 => Leaves(grown) = {}
          /\ index >= Len(list.items) => Leaves(grown) = Leaves(list)
      BY <1>1, <1>8, <3>1, ResizedLeaves
    <3> HIDE DEF grown
    <3>3. CASE index < 0
      <4>1. reached.node = grown /\ reached.fault = NodeError
        BY <1>5, <1>8, <2>2, <3>3 DEF Thrown, grown
      <4>2. index = -1
        BY <3>1, <3>3
      <4> QED BY <1>2, <1>4, <3>2, <3>3, <4>1, <4>2 DEF Preserves
    <3>4. CASE ~(index < 0)
      <4>1. reached.node = grown /\ reached.fault = "ok"
        BY <1>5, <1>8, <2>2, <3>4 DEF Found, grown
      <4>2. index >= Len(list.items)
        BY <1>3, <1>8, <3>4
      <4> QED BY <1>1, <1>4, <3>2, <3>4, <4>1, <4>2 DEF Preserves
    <3> QED BY <3>3, <3>4
  <2> QED BY <2>1, <2>2
<1> QED BY <1>6, <1>7, <1>8

LEMMA KeyPreserves ==
  ASSUME Depths = Nat, NEW S, Closed(S), HoleNode \in S, NEW node, Fits(node, S),
         NEW key, key \in Nat, NEW reached, reached = NodeByKey(node, key)
  PROVE  Leaves(reached.node) = Leaves(node)
<1>1. CASE node = HoleNode
  <2>1. reached.node = Add(EmptyDictionary, key, HoleNode)
    BY <1>1 DEF NodeByKey, Found
  <2>2. /\ Fits(EmptyDictionary, S) /\ EmptyDictionary.type = "dictionary"
        /\ ~HasKey(EmptyDictionary, key)
    BY EmptyContainersFit DEF HasKey, Range
  <2>3. Leaves(reached.node) = Leaves(EmptyDictionary)
    BY <2>1, <2>2, AddKeepsLeaves
  <2> QED BY <1>1, <2>3, BareNodes
<1>2. CASE node # HoleNode
  <2>1. reached.node = node
    BY <1>2 DEF NodeByKey, Found, Thrown
  <2> QED BY <2>1
<1> QED BY <1>1, <1>2

LEMMA RootKeyPreserves ==
  ASSUME Depths = Nat, NEW S, Closed(S), HoleNode \in S, Fits(root, S),
         NEW key, key \in Nat, NEW reached, reached = RootByKey(key)
  PROVE  Leaves(reached.node) = Leaves(root)
<1> DEFINE tree == Ensured(EmptyDictionary)
           first == NodeByKey(tree, key)
           added == Add(tree, key, HoleNode)
           fault == AddFault(tree, key)
           it == LowerBound(tree.keys, key)
<1>1. Fits(tree, S) /\ Leaves(tree) = Leaves(root)
  BY EmptyContainersFit, BareNodes DEF Ensured
<1>2. reached = IF first.fault = "ok" \/ tree.type # "dictionary" THEN first
                ELSE IF fault # "ok" THEN Thrown(tree, fault)
                ELSE Found(added, it)
  BY DEF RootByKey
<1>3. first = NodeByKey(tree, key) /\ added = Add(tree, key, HoleNode)
  OBVIOUS
<1> HIDE DEF tree, first, added, fault, it
<1>4. /\ Leaves(first.node) = Leaves(tree)
      /\ first.fault # "ok" /\ tree.type = "dictionary" => ~HasKey(tree, key)
  BY <1>1, <1>3, KeyPreserves, KeyAnswers
<1>5. CASE first.fault = "ok" \/ tree.type # "dictionary"
  BY <1>1, <1>2, <1>4, <1>5
<1>6. CASE ~(first.fault = "ok" \/ tree.type # "dictionary")
  <2>1. Leaves(added) = Leaves(tree)
    BY <1>1, <1>3, <1>4, <1>6, AddKeepsLeaves
  <2>2. reached.node \in {tree, added}
    BY <1>2, <1>6 DEF Thrown, Found
  <2> QED BY <1>1, <2>1, <2>2
<1> QED BY <1>5, <1>6

LEMMA RootIndexPreserves ==
  ASSUME Depths = Nat, NEW S, Closed(S), HoleNode \in S, Fits(root, S),
         NEW index, index \in Int, NEW reached, reached = RootByIndex(index)
  PROVE  Preserves(reached, Leaves(root), ByIndex(index))
<1> DEFINE tree == Ensured(EmptyList)
           first == NodeByIndex(tree, index)
           resized == Resized(first.node, index)
           second == NodeByIndex(resized, index)
<1>1. Fits(tree, S) /\ Leaves(tree) = Leaves(root)
  BY EmptyContainersFit, BareNodes DEF Ensured
<1>2. reached = IF first.fault = NodeError /\ first.node.type = "list" THEN second ELSE first
  BY DEF RootByIndex
<1>3. /\ first = NodeByIndex(tree, index) /\ resized = Resized(first.node, index)
      /\ second = NodeByIndex(resized, index)
  OBVIOUS
<1> HIDE DEF tree, first, resized, second
<1>4. /\ Preserves(first, Leaves(tree), ByIndex(index))
      /\ first.fault = NodeError /\ first.node.type = "list" => index = -1
  BY <1>1, <1>3, IndexPreserves
<1>5. CASE first.fault = NodeError /\ first.node.type = "list"
  <2>1. Fits(first.node, S)
    BY <1>1, <1>3, <1>5, IndexAnswers
  <2>2. index = -1 /\ Fits(resized, S)
    BY <1>3, <1>4, <1>5, <2>1, ResizedFits
  <2>3. Leaves(resized) = {}
    BY <1>3, <1>5, <2>1, <2>2, ResizedLeaves
  <2>4. Preserves(second, {}, ByIndex(index)) /\ second.fault # "ok"
    <3>1. Fits(resized, S)
      BY <2>2
    <3>2. /\ Preserves(second, Leaves(resized), ByIndex(index))
          /\ index < 0 => second.fault # "ok"
      BY <1>3, <3>1, IndexPreserves
    <3> QED BY <2>2, <2>3, <3>2
  <2>5. Leaves(second.node) = {}
    BY <2>4 DEF Preserves
  <2>6. ByIndex(index).by = "index" /\ ByIndex(index).at < 0
    BY <2>2 DEF ByIndex
  <2> QED BY <1>2, <1>5, <2>4, <2>5, <2>6 DEF Preserves
<1>6. CASE ~(first.fault = NodeError /\ first.node.type = "list")
  BY <1>1, <1>2, <1>4, <1>6
<1> QED BY <1>5, <1>6

------------------------------------------------------------------------------
(* What replacing a node does to the scalars.                              *)

\* The leaves old once what lies at and below p has become new.
Replaced(old, p, new) ==
    {leaf \in old : ~IsPrefix(p, leaf.path)} \cup {Moved(p, leaf) : leaf \in new}

AreLeaves(leaves) ==
    \A leaf \in leaves :
        leaf = [path |-> leaf.path, val |-> leaf.val] /\ leaf.path \in Seq(Subscripts)

LEMMA TreeHasLeaves ==
  ASSUME Depths = Nat, NEW S, Closed(S), NEW tree, tree \in S
  PROVE  AreLeaves(Leaves(tree))
BY LeavesTyped DEF AreLeaves

LEMMA MovedTwice ==
  ASSUME NEW T, NEW p, p \in Seq(T), NEW q, q \in Seq(T), NEW leaf, leaf.path \in Seq(T)
  PROVE  Moved(p, Moved(q, leaf)) = Moved(p \o q, leaf)
<1> DEFINE l == leaf.path
<1>1. l \in Seq(T)
  OBVIOUS
<1> HIDE DEF l
<1>2. (p \o q) \o l = p \o (q \o l)
  BY <1>1, ConcatAssociative
<1> QED BY <1>2 DEF Moved, l

\* Different slots of a container have different subscripts.
LEMMA SubscriptsDiffer ==
  ASSUME NEW S, NEW node, Fits(node, S), NEW i, i \in DOMAIN node.items,
         NEW j, j \in DOMAIN node.items, SubscriptOf(node, i) = SubscriptOf(node, j)
  PROVE  i = j
<1>1. /\ Ascending(node.keys) /\ node.items \in Seq(Inside(S))
      /\ node.type = "dictionary" => Len(node.items) = Len(node.keys)
  BY FitsParts
<1>2. i \in 1..Len(node.items) /\ j \in 1..Len(node.items) /\ Len(node.items) \in Nat
  BY <1>1
<1>3. CASE node.type = "dictionary"
  <2>1. node.keys[i] = node.keys[j]
    BY <1>3 DEF SubscriptOf, ByKey
  <2>2. /\ \A k \in 1..Len(node.keys) : node.keys[k] \in Nat
        /\ \A k, m \in 1..Len(node.keys) : k < m => node.keys[k] < node.keys[m]
    BY <1>1 DEF Ascending
  <2>3. i \in 1..Len(node.keys) /\ j \in 1..Len(node.keys)
    BY <1>1, <1>2, <1>3
  <2>4. ~(i < j) /\ ~(j < i)
    BY <2>1, <2>2, <2>3
  <2> QED BY <1>2, <2>4
<1>4. CASE node.type # "dictionary"
  <2>1. i - 1 = j - 1
    BY <1>4 DEF SubscriptOf, ByIndex
  <2> QED BY <1>2, <2>1
<1> QED BY <1>3, <1>4

\* A replacement in an entry is one in its container.
LEMMA ReplacedInEntry ==
  ASSUME Depths = Nat, NEW S, Closed(S), NEW node, node \in S, NEW slot, slot \in DOMAIN node.items,
         NEW item, NEW new, new = WithItem(node, slot, item), new \in S,
         NEW leaves, AreLeaves(leaves), NEW q, q \in Seq(Subscripts),
         Leaves(item) = Replaced(Leaves(node.items[slot]), q, leaves)
  PROVE  Leaves(new) = Replaced(Leaves(node), <<SubscriptOf(node, slot)>> \o q, leaves)
<1> DEFINE first == SubscriptOf(node, slot)
           p == <<first>> \o q
<1>1. Fits(node, S) /\ node.items \in Seq(Inside(S))
  BY DEF Closed, Fits
<1>2. \A at \in DOMAIN node.items : node.items[at] \in S
  BY <1>1 DEF Inside
<1>3. \A at \in DOMAIN node.items : SubscriptOf(node, at) \in Subscripts
  BY <1>1, SubscriptsOfNode
<1>4. /\ new.type = node.type /\ new.keys = node.keys /\ DOMAIN new.items = DOMAIN node.items
      /\ new.items[slot] = item
      /\ \A at \in DOMAIN node.items : at # slot => new.items[at] = node.items[at]
  BY <1>1, WithItemParts
<1>5. \A at : SubscriptOf(new, at) = SubscriptOf(node, at)
  BY <1>4 DEF SubscriptOf
<1>6. ~IsScalar(node) /\ ~IsScalar(new)
  <2>1. node.items # <<>>
    OBVIOUS
  <2>2. node.type \in ContainerType
    BY <1>1, <2>1, FitsParts
  <2> QED BY <1>4, <2>2 DEF ContainerType, IsScalar
<1> HIDE DEF Subscripts, p, first
<1>7. first \in Subscripts /\ p = <<first>> \o q
  BY <1>3 DEF first, p
<1>8. ASSUME NEW at \in DOMAIN node.items, NEW inner \in Leaves(node.items[at])
      PROVE  /\ inner.path \in Seq(Subscripts)
             /\ IsPrefix(p, Moved(<<SubscriptOf(node, at)>>, inner).path) <=>
                   at = slot /\ IsPrefix(q, inner.path)
  <2>1. inner.path \in Seq(Subscripts)
    BY <1>2, LeavesTyped
  <2>2. Moved(<<SubscriptOf(node, at)>>, inner).path = <<SubscriptOf(node, at)>> \o inner.path
    BY DEF Moved
  <2>3. SubscriptOf(node, at) \in Subscripts
    BY <1>3
  <2> DEFINE second == SubscriptOf(node, at)
             l == inner.path
  <2>4. IsPrefix(<<first>> \o q, <<second>> \o l) <=> first = second /\ IsPrefix(q, l)
    <3> HIDE DEF second, l
    <3>1. second \in Subscripts /\ l \in Seq(Subscripts)
      BY <2>1, <2>3 DEF second, l
    <3> QED BY <1>7, <3>1, PrefixSplits
  <2>5. first = second <=> at = slot
    BY <1>1, SubscriptsDiffer DEF first
  <2> QED BY <1>7, <2>1, <2>2, <2>4, <2>5
<1>9. ASSUME NEW leaf \in leaves PROVE Moved(p, leaf) = Moved(<<first>>, Moved(q, leaf))
  <2> DEFINE one == <<first>>
  <2>1. leaf.path \in Seq(Subscripts) /\ one \in Seq(Subscripts) /\ q \in Seq(Subscripts)
    BY <1>7 DEF AreLeaves
  <2> HIDE DEF one
  <2>2. Moved(one, Moved(q, leaf)) = Moved(one \o q, leaf)
    BY <2>1, MovedTwice
  <2> QED BY <1>7, <2>2 DEF one
<1>10. ASSUME NEW leaf \in Leaves(new) PROVE leaf \in Replaced(Leaves(node), p, leaves)
  <2>1. PICK at \in DOMAIN node.items : \E inner \in Leaves(new.items[at]) :
           leaf = Moved(<<SubscriptOf(node, at)>>, inner)
    <3>1. Enters(leaf, new)
      BY <1>6, LeavesOfEntries
    <3> QED BY <1>4, <1>5, <3>1 DEF Enters
  <2>2. PICK inner \in Leaves(new.items[at]) : leaf = Moved(<<SubscriptOf(node, at)>>, inner)
    BY <2>1
  <2>3. CASE inner \in Leaves(node.items[at]) /\ (at = slot => ~IsPrefix(q, inner.path))
    <3>1. leaf \in Leaves(node)
      <4>1. Enters(leaf, node)
        BY <2>2, <2>3 DEF Enters
      <4> QED BY <1>6, <4>1, LeavesOfEntries
    <3>2. ~IsPrefix(p, leaf.path)
      BY <1>8, <2>2, <2>3
    <3> QED BY <3>1, <3>2 DEF Replaced
  <2>4. CASE at = slot /\ \E old \in leaves : inner = Moved(q, old)
    <3>1. PICK old \in leaves : inner = Moved(q, old)
      BY <2>4
    <3>2. leaf = Moved(p, old)
      BY <1>9, <2>2, <2>4, <3>1 DEF first
    <3> QED BY <3>2 DEF Replaced
  <2>5. CASE at # slot
    BY <1>4, <2>2, <2>3, <2>5
  <2>6. CASE at = slot
    <3>1. inner \in Replaced(Leaves(node.items[slot]), q, leaves)
      BY <1>4, <2>2, <2>6
    <3> QED BY <2>3, <2>4, <2>6, <3>1 DEF Replaced
  <2> QED BY <2>5, <2>6
<1>11. ASSUME NEW leaf \in Leaves(node), ~IsPrefix(p, leaf.path) PROVE leaf \in Leaves(new)
  <2>1. PICK at \in DOMAIN node.items : \E inner \in Leaves(node.items[at]) :
           leaf = Moved(<<SubscriptOf(node, at)>>, inner)
    <3>1. Enters(leaf, node)
      BY <1>6, LeavesOfEntries
    <3> QED BY <3>1 DEF Enters
  <2>2. PICK inner \in Leaves(node.items[at]) : leaf = Moved(<<SubscriptOf(node, at)>>, inner)
    BY <2>1
  <2>3. inner \in Leaves(new.items[at])
    <3>1. CASE at # slot
      BY <1>4, <2>2, <3>1
    <3>2. CASE at = slot
      <4>1. ~IsPrefix(q, inner.path)
        BY <1>8, <1>11, <2>2, <3>2
      <4> QED BY <1>4, <2>2, <3>2, <4>1 DEF Replaced
    <3> QED BY <3>1, <3>2
  <2>4. Enters(leaf, new)
    BY <1>4, <1>5, <2>2, <2>3 DEF Enters
  <2> QED BY <1>6, <2>4, LeavesOfEntries
<1>12. ASSUME NEW leaf \in leaves PROVE Moved(p, leaf) \in Leaves(new)
  <2>1. Moved(q, leaf) \in Leaves(item)
    BY DEF Replaced
  <2>2. Moved(p, leaf) = Moved(<<SubscriptOf(new, slot)>>, Moved(q, leaf))
    BY <1>5, <1>9 DEF first
  <2>3. Enters(Moved(p, leaf), new)
    BY <1>4, <2>1, <2>2 DEF Enters
  <2> QED BY <1>6, <2>3, LeavesOfEntries
<1>13. Leaves(new) = Replaced(Leaves(node), p, leaves)
  BY <1>10, <1>11, <1>12 DEF Replaced
<1> QED BY <1>13 DEF p, first

\* What is left of a path after its first i subscripts.
Rest(p, i) == SubSeq(p, i + 1, Len(p))

LEMMA RestFacts ==
  ASSUME NEW T, NEW p, p \in Seq(T), NEW n, n = Len(p)
  PROVE  /\ Rest(p, 0) = p /\ Rest(p, n) = <<>>
         /\ \A i \in 0..n : Rest(p, i) \in Seq(T)
         /\ \A i \in 0..(n - 1) : Rest(p, i) = <<p[i + 1]>> \o Rest(p, i + 1)
<1>1. n \in Nat /\ 0 + 1 = 1
  OBVIOUS
<1>2. Rest(p, 0) = p
  BY <1>1, SubSeqFull DEF Rest
<1>3. Rest(p, n) = <<>>
  BY <1>1, SubSeqEmpty DEF Rest
<1>4. ASSUME NEW i \in 0..n PROVE Rest(p, i) \in Seq(T)
  BY <1>1 DEF Rest
<1>5. ASSUME NEW i \in 0..(n - 1) PROVE Rest(p, i) = <<p[i + 1]>> \o Rest(p, i + 1)
  <2>1. i + 1 \in 1..Len(p) /\ Len(p) \in (i + 1)..Len(p)
    BY <1>1
  <2>2. SubSeq(p, i + 1, Len(p)) = <<p[i + 1]>> \o SubSeq(p, (i + 1) + 1, Len(p))
    BY <2>1, SubSeqRecursiveFirst
  <2> QED BY <2>2 DEF Rest
<1> QED BY <1>2, <1>3, <1>4, <1>5

LEMMA ReplacedAll ==
  ASSUME NEW old, AreLeaves(old), NEW new, AreLeaves(new)
  PROVE  Replaced(old, <<>>, new) = new
<1> HIDE DEF Subscripts
<1>1. ASSUME NEW leaf \in old PROVE IsPrefix(<<>>, leaf.path)
  BY EmptyIsPrefix DEF AreLeaves
<1>2. ASSUME NEW leaf \in new PROVE Moved(<<>>, leaf) = leaf
  <2> DEFINE l == leaf.path
  <2>1. l \in Seq(Subscripts) /\ leaf = [path |-> l, val |-> leaf.val]
    BY DEF AreLeaves
  <2> HIDE DEF l
  <2>2. <<>> \o l = l
    BY <2>1, ConcatEmptySeq
  <2> QED BY <2>1, <2>2 DEF Moved, l
<1> QED BY <1>1, <1>2 DEF Replaced

\* Replacing the node a reference leads to replaces the scalars at and below
\* its path.
LEMMA ReplacedAlong ==
  ASSUME Depths = Nat, NEW S, Closed(S), NEW tree, tree \in S, NEW ref, ref \in References(tree),
         NEW node, Fits(node, S), node = EmptyNode => ref = <<>>
  PROVE  Leaves(WithNodeAt(tree, ref, node)) =
            Replaced(Leaves(tree), PathOf(tree, ref), Leaves(node))
<1> DEFINE n == Len(ref)
           f == Rebuilt(tree, ref, node)
           g == Along(tree, ref)
           p == PathOf(tree, ref)
           DoneAt(i) == Leaves(f[i]) = Replaced(Leaves(g[i]), Rest(p, i), Leaves(node))
           Done == {k \in 0..n : DoneAt(n - k)}
<1>0. /\ n = Len(ref) /\ f = Rebuilt(tree, ref, node) /\ g = Along(tree, ref)
      /\ ref \in Seq(Nat) /\ Leads(tree, ref) /\ n \in Nat
  BY DEF References
<1>1. p \in Seq(Subscripts) /\ Len(p) = n
  BY PathTyped
<1>2. p = [i \in 1..n |-> SubscriptOf(g[i - 1], ref[i])]
  BY DEF PathOf
<1> HIDE DEF n, f, g, p, Subscripts
<1>3. /\ f[n] = node /\ f[0] = WithNodeAt(tree, ref, node) /\ g[0] = tree
      /\ \A i \in 0..n : g[i] \in S
      /\ \A i \in 0..(n - 1) : /\ ref[i + 1] \in DOMAIN g[i].items
                               /\ g[i + 1] = g[i].items[ref[i + 1]]
                               /\ f[i] = WithItem(g[i], ref[i + 1], f[i + 1])
  <2>1. Rebuilding(S, tree, ref, node, n, f, g)
    BY <1>0, RebuiltFacts
  <2> QED BY <2>1 DEF Rebuilding
<1>4. PICK T : Covers(T, S, f, n)
  BY <1>0, ReplacingStaysClosed
<1>5. /\ Closed(T) /\ \A i \in 0..n : f[i] \in T /\ g[i] \in T
  BY <1>3, <1>4 DEF Covers
<1>6. /\ Rest(p, 0) = p /\ Rest(p, n) = <<>>
      /\ \A i \in 0..n : Rest(p, i) \in Seq(Subscripts)
      /\ \A i \in 0..(n - 1) : Rest(p, i) = <<p[i + 1]>> \o Rest(p, i + 1)
  BY <1>1, RestFacts
<1>7. AreLeaves(Leaves(node))
  <2>1. n \in 0..n
    BY <1>0
  <2> QED BY <1>3, <1>5, <2>1, TreeHasLeaves
<1>8. 0 \in Done
  <2>1. n - 0 = n /\ n \in 0..n /\ 0 \in 0..n
    BY <1>0
  <2>2. AreLeaves(Leaves(g[n]))
    BY <1>5, <2>1, TreeHasLeaves
  <2>3. Replaced(Leaves(g[n]), <<>>, Leaves(node)) = Leaves(node)
    BY <1>7, <2>2, ReplacedAll
  <2> QED BY <1>3, <1>6, <2>1, <2>3
<1>9. ASSUME NEW k \in 0..n, k < n, k \in Done PROVE k + 1 \in Done
  <2> DEFINE i == n - (k + 1)
             above == g[i]
             below == f[i + 1]
             new == f[i]
             slot == ref[i + 1]
             leaves == Leaves(node)
             q == Rest(p, i + 1)
  <2>1. i \in 0..(n - 1) /\ i \in 0..n /\ i + 1 = n - k /\ i + 1 \in 0..n /\ i + 1 \in 1..n
    BY <1>0, <1>9
  <2>2. Leaves(below) = Replaced(Leaves(g[i + 1]), q, leaves)
    BY <1>9, <2>1
  <2> HIDE DEF i, Done
  <2>3. /\ slot \in DOMAIN above.items /\ g[i + 1] = above.items[slot]
        /\ new = WithItem(above, slot, below)
    BY <1>3, <2>1
  <2>4. /\ above \in T /\ new \in T /\ q \in Seq(Subscripts) /\ AreLeaves(leaves)
    BY <1>5, <1>6, <1>7, <2>1
  <2>5. Leaves(below) = Replaced(Leaves(above.items[slot]), q, leaves)
    BY <2>2, <2>3
  <2>6. Rest(p, i) = <<p[i + 1]>> \o q /\ p[i + 1] = SubscriptOf(above, slot)
    <3>1. (i + 1) - 1 = i
      BY <2>1
    <3> QED BY <1>2, <1>6, <2>1, <3>1
  <2> HIDE DEF above, below, new, slot, leaves, q
  <2>7. Leaves(new) = Replaced(Leaves(above), <<SubscriptOf(above, slot)>> \o q, leaves)
    BY <1>5, <2>3, <2>4, <2>5, ReplacedInEntry
  <2>8. Leaves(new) = Replaced(Leaves(above), Rest(p, i), leaves)
    BY <2>6, <2>7
  <2>9. k + 1 \in 0..n
    BY <1>0, <1>9
  <2> QED BY <2>8, <2>9 DEF Done, new, above, leaves, i
<1> HIDE DEF Done
<1>10. \A k \in 0..n : k \in Done
  <2>1. 0 \in Int /\ n \in Int
    BY <1>0
  <2> QED BY <1>8, <1>9, <2>1, InductionUpTo
<1>11. DoneAt(n - n) /\ n - n = 0
  <2>1. n \in 0..n
    BY <1>0
  <2> QED BY <1>0, <1>10, <2>1 DEF Done
<1>12. Leaves(f[0]) = Replaced(Leaves(g[0]), p, Leaves(node))
  BY <1>6, <1>11
<1> QED BY <1>3, <1>12 DEF p

\* Replacing a node by itself changes nothing.
LEMMA ReplacedBySame ==
  ASSUME NEW S, Closed(S), NEW tree, tree \in S, NEW ref, ref \in References(tree)
  PROVE  WithNodeAt(tree, ref, NodeAt(tree, ref)) = tree
<1> DEFINE n == Len(ref)
           node == NodeAt(tree, ref)
           f == Rebuilt(tree, ref, node)
           g == Along(tree, ref)
           Done == {k \in 0..n : f[n - k] = g[n - k]}
<1>0. /\ n = Len(ref) /\ f = Rebuilt(tree, ref, node) /\ g = Along(tree, ref)
      /\ ref \in Seq(Nat) /\ Leads(tree, ref) /\ n \in Nat /\ node = g[n]
  BY DEF References, NodeAt
<1>1. ASSUME NEW above, Fits(above, S), NEW slot, slot \in DOMAIN above.items
      PROVE  WithItem(above, slot, above.items[slot]) = above
  <2> DEFINE items == above.items
  <2>1. /\ WithItem(above, slot, items[slot]) =
              [type |-> above.type, val |-> above.val, keys |-> above.keys,
               items |-> [items EXCEPT ![slot] = items[slot]]]
        /\ above = [type |-> above.type, val |-> above.val, keys |-> above.keys, items |-> items]
    BY <1>1, WithItemValues, FitsParts
  <2>2. [items EXCEPT ![slot] = items[slot]] = items
    <3>1. items \in Seq(Inside(S))
      BY <1>1, FitsParts
    <3>2. items = [j \in DOMAIN items |-> items[j]]
      BY <3>1
    <3> QED BY <3>2
  <2> QED BY <2>1, <2>2
<1> HIDE DEF n, node, f, g
<1>3. /\ f[n] = node /\ f[0] = WithNodeAt(tree, ref, node) /\ g[0] = tree
      /\ \A i \in 0..n : Fits(g[i], S)
      /\ \A i \in 0..(n - 1) : /\ ref[i + 1] \in DOMAIN g[i].items
                               /\ g[i + 1] = g[i].items[ref[i + 1]]
                               /\ f[i] = WithItem(g[i], ref[i + 1], f[i + 1])
  <2>1. Rebuilding(S, tree, ref, node, n, f, g)
    BY <1>0, RebuiltFacts
  <2> QED BY <2>1 DEF Rebuilding
<1>4. 0 \in Done
  BY <1>0, <1>3
<1>5. ASSUME NEW k \in 0..n, k < n, k \in Done PROVE k + 1 \in Done
  <2> DEFINE i == n - (k + 1)
  <2>1. i \in 0..(n - 1) /\ i \in 0..n /\ i + 1 = n - k /\ k + 1 \in 0..n
    BY <1>0, <1>5
  <2>2. f[i + 1] = g[i + 1]
    BY <1>5, <2>1
  <2> HIDE DEF i
  <2>3. f[i] = WithItem(g[i], ref[i + 1], g[i].items[ref[i + 1]])
    BY <1>3, <2>1, <2>2
  <2>4. Fits(g[i], S) /\ ref[i + 1] \in DOMAIN g[i].items
    BY <1>3, <2>1
  <2>5. f[i] = g[i]
    BY <1>1, <2>3, <2>4
  <2> QED BY <2>1, <2>5 DEF i
<1> HIDE DEF Done
<1>6. \A k \in 0..n : k \in Done
  <2>1. 0 \in Int /\ n \in Int
    BY <1>0
  <2> QED BY <1>4, <1>5, <2>1, InductionUpTo
<1>7. f[0] = g[0]
  <2>1. n \in 0..n /\ n - n = 0
    BY <1>0
  <2> QED BY <1>6, <2>1 DEF Done
<1> QED BY <1>3, <1>7 DEF node

LEMMA ReplacedByEqual ==
  ASSUME Depths = Nat, NEW S, Closed(S), NEW tree, tree \in S, NEW ref, ref \in References(tree),
         NEW node, Fits(node, S), node = EmptyNode => ref = <<>>,
         Leaves(node) = Leaves(NodeAt(tree, ref))
  PROVE  Leaves(WithNodeAt(tree, ref, node)) = Leaves(tree)
<1> DEFINE old == NodeAt(tree, ref)
<1>1. ref \in Seq(Nat) /\ Leads(tree, ref) /\ Len(ref) \in Nat
  BY DEF References
<1>2. Fits(old, S)
  <2>1. Len(ref) \in 0..Len(ref)
    BY <1>1
  <2> QED BY <1>1, <2>1, AlongStays DEF NodeAt, Closed
<1>3. old = EmptyNode => ref = <<>>
  <2> SUFFICES ASSUME ref # <<>> PROVE old # EmptyNode
    OBVIOUS
  <2>1. Len(ref) \in 1..Len(ref)
    BY <1>1
  <2> QED BY <1>1, <2>1, AlongStays DEF NodeAt
<1> HIDE DEF old
<1>4. Leaves(WithNodeAt(tree, ref, old)) = Replaced(Leaves(tree), PathOf(tree, ref), Leaves(old))
  BY <1>2, <1>3, ReplacedAlong
<1>5. Leaves(WithNodeAt(tree, ref, node)) = Replaced(Leaves(tree), PathOf(tree, ref), Leaves(node))
  BY ReplacedAlong
<1>6. WithNodeAt(tree, ref, old) = tree /\ Leaves(node) = Leaves(old)
  BY ReplacedBySame DEF old
<1> QED BY <1>4, <1>5, <1>6

------------------------------------------------------------------------------
(* Every step is one of the map.                                           *)

\* A reference that is named by subscripts has them for its path.
LEMMA NamedIsPath ==
  ASSUME NEW S, Closed(S), NEW tree, tree \in S, NEW ref, ref \in References(tree),
         NEW subscripts, subscripts \in Seq(Subscripts), Named(tree, ref, subscripts)
  PROVE  subscripts = PathOf(tree, ref)
<1> DEFINE n == Len(ref)
           g == Along(tree, ref)
           p == PathOf(tree, ref)
<1>1. /\ p \in Seq(Subscripts) /\ Len(p) = n /\ n \in Nat
      /\ p = [i \in 1..n |-> SubscriptOf(g[i - 1], ref[i])]
      /\ ref \in Seq(Nat)
  BY PathTyped DEF PathOf, References
<1>2. Len(subscripts) = n /\ \A i \in 1..n : Names(g[i - 1], ref[i], subscripts[i])
  BY DEF Named
<1>3. ASSUME NEW node, NEW slot, slot \in Nat, NEW subscript, subscript \in Subscripts,
             Names(node, slot, subscript)
      PROVE  subscript = SubscriptOf(node, slot)
  <2>1. /\ subscript = [by |-> subscript.by, at |-> subscript.at]
        /\ subscript.by \in {"key", "index"} /\ subscript.at \in Int
    BY <1>3 DEF Subscripts
  <2>2. CASE subscript.by = "key"
    BY <1>3, <2>1, <2>2 DEF Names, SubscriptOf, ByKey
  <2>3. CASE subscript.by = "index"
    <3>1. node.type = "list" /\ slot - 1 = subscript.at
      BY <1>3, <2>1, <2>3 DEF Names
    <3> QED BY <2>1, <2>3, <3>1 DEF SubscriptOf, ByIndex
  <2> QED BY <2>1, <2>2, <2>3
<1> HIDE DEF n, g, p, Subscripts
<1>4. ASSUME NEW i \in 1..n PROVE subscripts[i] = p[i]
  <2>1. subscripts[i] \in Subscripts /\ ref[i] \in Nat
    BY <1>1, <1>2 DEF n
  <2> QED BY <1>1, <1>2, <1>3, <2>1
<1>5. subscripts = p
  BY <1>1, <1>2, <1>4, SeqEqual
<1> QED BY <1>5 DEF p

LEMMA OutsideIs ==
  \A p : Contract!Outside(p) = {leaf \in Leaves(root) : ~IsPrefix(p, leaf.path)}
BY DEF Contract!Outside, IsPrefix, Contract!IsPrefix

\* Assigning leaves below a path is replacing what lies there.
LEMMA ReplacedIsAssigned ==
  ASSUME NEW p, NEW leaves, AreLeaves(leaves)
  PROVE  Replaced(Leaves(root), p, leaves) = Contract!Outside(p) \cup Contract!Below(p, leaves)
<1>1. ASSUME NEW leaf \in leaves PROVE [leaf EXCEPT !.path = p \o @] = Moved(p, leaf)
  <2> DEFINE l == leaf.path
             v == leaf.val
             new == p \o l
  <2>1. leaf = [path |-> l, val |-> v]
    BY DEF AreLeaves
  <2> HIDE DEF l, v, new
  <2>2. [leaf EXCEPT !.path = new] = [path |-> new, val |-> v]
    BY <2>1
  <2> QED BY <2>2 DEF Moved, l, v, new
<1> QED BY <1>1, OutsideIs DEF Replaced, Contract!Below

LEMMA FollowImplements ==
  ASSUME Depths = Nat, NEW S, Sound(S), root \in S, NEW ref, ref \in References(root),
         NEW subscripts, subscripts \in Seq(Subscripts), Named(root, ref, subscripts),
         subscripts = <<>> \/ (open /\ path = subscripts),
         NEW subscript, subscript \in Subscripts,
         NEW reached, Answers(reached, NodeAt(root, ref), subscript, S),
         Preserves(reached, Leaves(NodeAt(root, ref)), subscript),
         Follow(ref, Append(subscripts, subscript), reached)
  PROVE  Contract!Next
<1>1. ref \in Seq(Nat) /\ Leads(root, ref) /\ Closed(S)
  BY DEF References, Sound
<1>2. NodeAt(root, ref) = EmptyNode => ref = <<>>
  <2> SUFFICES ASSUME ref # <<>> PROVE NodeAt(root, ref) # EmptyNode
    OBVIOUS
  <2>1. Len(ref) \in 1..Len(ref)
    BY <1>1
  <2> QED BY <1>1, <2>1, AlongStays DEF NodeAt
<1>3. Fits(reached.node, S) /\ (reached.node = EmptyNode => ref = <<>>)
  BY <1>2 DEF Answers
<1>4. root' = WithNodeAt(root, ref, reached.node) /\ path' = Append(subscripts, subscript)
  BY DEF Follow
<1> HIDE DEF Subscripts
<1>5. /\ path' # <<>> /\ Contract!Front(path') = subscripts /\ Contract!Last(path') = subscript
      /\ subscripts = <<>> => Len(path') <= 1
  <2>1. /\ path' \in Seq(Subscripts) /\ Len(path') = Len(subscripts) + 1
        /\ path'[Len(subscripts) + 1] = subscript /\ Len(subscripts) \in Nat
        /\ \A i \in 1..Len(subscripts) : path'[i] = subscripts[i]
    BY <1>4
  <2>2. Contract!Last(path') = subscript
    BY <2>1 DEF Contract!Last
  <2>3. SubSeq(path', 1, Len(subscripts)) = subscripts
    BY <1>4
  <2>4. Contract!Front(path') = subscripts
    <3>1. Len(path') - 1 = Len(subscripts)
      BY <2>1
    <3> QED BY <2>3, <3>1 DEF Contract!Front
  <2>5. subscripts = <<>> => Len(path') <= 1
    BY <2>1
  <2>6. path' # <<>>
    BY <2>1
  <2> QED BY <2>2, <2>4, <2>5, <2>6
<1>6. CASE Leaves(reached.node) = Leaves(NodeAt(root, ref))
  <2>1. Leaves(root)' = Leaves(root)
    <3>1. Leaves(WithNodeAt(root, ref, reached.node)) = Leaves(root)
      BY <1>1, <1>3, <1>6, ReplacedByEqual
    <3>2. Leaves(root)' = Leaves(root')
      OBVIOUS
    <3> QED BY <1>4, <3>1, <3>2
  <2>2. Len(path') <= 1 \/ (open /\ Contract!Front(path') = path)
    <3>1. CASE subscripts = <<>>
      <4>1. Len(path') <= 1
        BY <1>5, <3>1
      <4> QED BY <4>1
    <3>2. CASE open /\ path = subscripts
      BY <1>5, <3>2
    <3> QED BY <3>1, <3>2
  <2>3. Contract!Subscript
    BY <1>5, <2>1, <2>2, Zenon DEF Contract!Subscript
  <2> QED BY <2>3 DEF Contract!Next
<1>7. CASE /\ reached.fault # "ok" /\ Leaves(reached.node) = {}
           /\ subscript.by = "index" /\ subscript.at < 0
  <2>1. ~open'
    BY <1>7 DEF Follow, Ended
  <2>2. subscripts = PathOf(root, ref)
    BY <1>1, NamedIsPath
  <2>3. Leaves(root') = Replaced(Leaves(root), subscripts, {})
    <3>1. Leaves(WithNodeAt(root, ref, reached.node)) =
             Replaced(Leaves(root), PathOf(root, ref), Leaves(reached.node))
      BY <1>1, <1>3, ReplacedAlong
    <3> QED BY <1>4, <1>7, <2>2, <3>1
  <2>4. Leaves(root') = Contract!Outside(Contract!Front(path'))
    BY <1>5, <2>3, OutsideIs DEF Replaced
  <2>5. Contract!ClearList
    BY <1>5, <1>7, <2>1, <2>4 DEF Contract!ClearList
  <2> QED BY <2>5 DEF Contract!Next
<1> QED BY <1>6, <1>7 DEF Preserves

LEMMA NextImplements ==
  ASSUME Depths = Nat, DocumentInv, [Next]_vars
  PROVE  [Contract!Next]_Contract!vars
<1>1. PICK S : Sound(S) /\ root \in S
  BY DEF DocumentInv
<1>2. Closed(S) /\ HoleNode \in S /\ Elements \subseteq S
  BY <1>1 DEF Sound
<1>3. /\ slots \in References(root) /\ path \in Seq(Subscripts)
      /\ open => Named(root, slots, path)
  BY ReferenceIsNamed DEF DocumentInv, TypeOK, References
<1>4. \A node \in S : Fits(node, S)
  BY <1>2 DEF Closed
<1>5. Fits(NodeAt(root, slots), S)
  <2>1. slots \in Seq(Nat) /\ Leads(root, slots) /\ Len(slots) \in 0..Len(slots)
    BY <1>3 DEF References
  <2> QED BY <1>1, <1>2, <1>4, <2>1, AlongStays DEF NodeAt
<1>6. /\ <<>> \in References(root) /\ NodeAt(root, <<>>) = root
      /\ <<>> \in Seq(Subscripts) /\ Named(root, <<>>, <<>>)
  <2>1. <<>> \in References(root) /\ Place(root, <<>>) = [path |-> <<>>, node |-> root]
    BY PlaceOfRoot
  <2>2. NodeAt(root, <<>>) = Place(root, <<>>).node
    BY DEF Place
  <2>3. <<>> \in Seq(Subscripts) /\ Len(<<>>) = 0
    OBVIOUS
  <2>4. Named(root, <<>>, <<>>)
    BY <2>3 DEF Named
  <2> QED BY <2>1, <2>2, <2>3, <2>4
<1>7. /\ \A key \in Keys : key \in Nat /\ ByKey(key) \in Subscripts
      /\ \A index \in Indices : index \in Int /\ ByIndex(index) \in Subscripts
  BY DocumentAssumption DEF ByKey, ByIndex, Subscripts
<1>8. \A subscript : <<subscript>> = Append(<<>>, subscript)
  OBVIOUS
<1>9. CASE TakeRoot
  <2>1. open' /\ path' = <<>> /\ Leaves(root)' = Leaves(root)
    BY <1>9 DEF TakeRoot
  <2>2. Len(path') <= 1
    BY <2>1
  <2> QED BY <2>1, <2>2 DEF Contract!Subscript, Contract!Next
<1>10. CASE RootKey
  <2>1. PICK key \in Keys : Follow(<<>>, <<ByKey(key)>>, RootByKey(key))
    BY <1>10 DEF RootKey
  <2>2. Answers(RootByKey(key), root, ByKey(key), S)
    BY <1>1, <1>2, <1>4, <1>7, RootAnswers
  <2>3. Preserves(RootByKey(key), Leaves(root), ByKey(key))
    BY <1>1, <1>2, <1>4, <1>7, RootKeyPreserves DEF Preserves
  <2>4. Follow(<<>>, Append(<<>>, ByKey(key)), RootByKey(key))
    BY <1>8, <2>1
  <2> QED BY <1>1, <1>6, <1>7, <2>2, <2>3, <2>4, FollowImplements
<1>11. CASE RootIndex
  <2>1. PICK index \in Indices : Follow(<<>>, <<ByIndex(index)>>, RootByIndex(index))
    BY <1>11 DEF RootIndex
  <2>2. Answers(RootByIndex(index), root, ByIndex(index), S)
    BY <1>1, <1>2, <1>4, <1>7, RootAnswers
  <2>3. Preserves(RootByIndex(index), Leaves(root), ByIndex(index))
    BY <1>1, <1>2, <1>4, <1>7, RootIndexPreserves
  <2>4. Follow(<<>>, Append(<<>>, ByIndex(index)), RootByIndex(index))
    BY <1>8, <2>1
  <2> QED BY <1>1, <1>6, <1>7, <2>2, <2>3, <2>4, FollowImplements
<1>12. CASE NodeKey
  <2> DEFINE node == NodeAt(root, slots)
  <2>1. PICK key \in Keys : Follow(slots, Append(path, ByKey(key)), NodeByKey(node, key))
    BY <1>12 DEF NodeKey
  <2>2. Answers(NodeByKey(node, key), node, ByKey(key), S)
    BY <1>2, <1>5, <1>7, KeyAnswers
  <2>3. Preserves(NodeByKey(node, key), Leaves(node), ByKey(key))
    BY <1>2, <1>5, <1>7, KeyPreserves DEF Preserves
  <2>4. open
    BY <1>12 DEF NodeKey
  <2> QED BY <1>1, <1>3, <1>7, <2>1, <2>2, <2>3, <2>4, FollowImplements
<1>13. CASE NodeIndex
  <2> DEFINE node == NodeAt(root, slots)
  <2>1. PICK index \in Indices :
           Follow(slots, Append(path, ByIndex(index)), NodeByIndex(node, index))
    BY <1>13 DEF NodeIndex
  <2>2. Answers(NodeByIndex(node, index), node, ByIndex(index), S)
    BY <1>2, <1>5, <1>7, IndexAnswers
  <2>3. Preserves(NodeByIndex(node, index), Leaves(node), ByIndex(index))
    BY <1>2, <1>5, <1>7, IndexPreserves
  <2>4. open
    BY <1>13 DEF NodeIndex
  <2> QED BY <1>1, <1>3, <1>7, <2>1, <2>2, <2>3, <2>4, FollowImplements
<1>14. CASE Assign
  <2>1. PICK made \in Assignable :
           /\ root' = IF made.fault = "ok" THEN WithNodeAt(root, slots, made.node) ELSE root
           /\ Ended(made.fault)
    BY <1>14 DEF Assign
  <2>2. open /\ ~open'
    BY <1>14, <2>1 DEF Assign, Ended
  <2>3. CASE made.fault = "ok"
    <3>1. Fits(made.node, S) /\ made.node # EmptyNode
      BY <1>2, <1>4, AssignableMakes
    <3>2. AreLeaves(Leaves(made.node))
      <4>1. PICK T : Closed(T) /\ made.node \in T
        BY <1>2, <3>1, JoinClosed
      <4> QED BY <4>1, TreeHasLeaves
    <3>3. path = PathOf(root, slots)
      BY <1>1, <1>2, <1>3, <2>2, NamedIsPath
    <3>4. Leaves(root') = Replaced(Leaves(root), path, Leaves(made.node))
      BY <1>1, <1>2, <1>3, <2>1, <2>3, <3>1, <3>3, ReplacedAlong
    <3>5. Leaves(root') = Contract!Outside(path) \cup Contract!Below(path, Leaves(made.node))
      BY <3>2, <3>4, ReplacedIsAssigned
    <3>6. Leaves(made.node) \in AssignableLeaves
      BY DEF AssignableLeaves
    <3>7. Contract!Assign
      BY <2>2, <3>5, <3>6 DEF Contract!Assign
    <3> QED BY <3>7 DEF Contract!Next
  <2>4. CASE made.fault # "ok"
    <3>1. Leaves(root)' = Leaves(root)
      BY <2>1, <2>4
    <3> QED BY <2>2, <3>1 DEF Contract!EndStatement, Contract!Next
  <2> QED BY <2>3, <2>4
<1>15. CASE Drop
  <2>1. open /\ ~open' /\ Leaves(root)' = Leaves(root)
    BY <1>15 DEF Drop, Ended
  <2> QED BY <2>1 DEF Contract!EndStatement, Contract!Next
<1>16. CASE UNCHANGED vars
  <2>1. Leaves(root)' = Leaves(root) /\ open' = open /\ path' = path
    BY <1>16 DEF vars
  <2> QED BY <2>1 DEF Contract!vars
<1> QED BY <1>9, <1>10, <1>11, <1>12, <1>13, <1>14, <1>15, <1>16 DEF Next

(* A document is a map from paths to scalars, whatever its size: no        *)
(* subscript loses, moves or relabels a scalar when it inserts an entry or *)
(* grows a list, an assignment reaches the path that was written and no    *)
(* other, and only a negative index takes scalars away unasked.            *)
THEOREM DocumentIsMap ==
  ASSUME Depths = Nat
  PROVE  Spec => ImplementsContract
<1>1. DocumentInv /\ [Next]_vars => [Contract!Next]_Contract!vars
  BY NextImplements
<1> QED BY <1>1, DocumentInvHolds, PTL DEF Spec, ImplementsContract, Contract!Spec

==============================================================================
