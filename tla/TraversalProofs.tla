--------------------------- MODULE TraversalProofs ---------------------------
(***************************************************************************)
(* CallsFollowTree and AnalyzerAddsUp for documents of any size and depth. *)
(*                                                                         *)
(* The nodes of the document, each before its entries, are at any moment   *)
(* those whose callbacks have been made (seen), perhaps one between its    *)
(* two callbacks, and those that the frames of the walk still have to come *)
(* to (rest); the callbacks so far are those for seen, in order.  Every    *)
(* step keeps that, and no hole is ever seen, so the walk stops at the     *)
(* first one.  The analyzer's numbers are those before the traversal and   *)
(* those of the nodes seen.                                                *)
(***************************************************************************)
EXTENDS Traversal, Foundations

------------------------------------------------------------------------------
(* Preorder chooses a function that gives each node the order the orders   *)
(* of its entries make up.  A node HasOrder when there is such a function  *)
(* and all of them agree on the root, which follows for a node from the    *)
(* same for its entries.                                                   *)
OrdersOf(tree, g) ==
    g = [ref \in References(tree) |->
            NodeOrder(NodeAt(tree, ref), [i \in DOMAIN NodeAt(tree, ref).items |-> g[Append(ref, i)]])]

HasOrder(tree, order) ==
    /\ \A ref \in References(tree) : DOMAIN NodeAt(tree, ref).items \subseteq Nat
    /\ \E g : OrdersOf(tree, g)
    /\ \A g : OrdersOf(tree, g) => g[<<>>] = order

LEMMA OrderIs ==
  ASSUME NEW tree, NEW order, HasOrder(tree, order)
  PROVE  Preorder(tree) = order
<1>1. \E g : OrdersOf(tree, g)
  BY DEF HasOrder
<1> DEFINE f == CHOOSE g : OrdersOf(tree, g)
<1>2. OrdersOf(tree, f)
  BY <1>1
<1>3. Preorder(tree) = f[<<>>]
  BY DEF Preorder, OrdersOf
<1> QED BY <1>2, <1>3 DEF HasOrder

LEMMA OrdersSteps ==
  ASSUME NEW tree, NEW g, OrdersOf(tree, g), NEW ref \in References(tree)
  PROVE  g[ref] = NodeOrder(NodeAt(tree, ref),
                           [i \in DOMAIN NodeAt(tree, ref).items |-> g[Append(ref, i)]])
BY DEF OrdersOf

LEMMA OrdersAre ==
  ASSUME NEW tree, NEW g, g = [ref \in References(tree) |-> g[ref]],
         \A ref \in References(tree) :
            g[ref] = NodeOrder(NodeAt(tree, ref),
                              [i \in DOMAIN NodeAt(tree, ref).items |-> g[Append(ref, i)]])
  PROVE  OrdersOf(tree, g)
BY Zenon DEF OrdersOf

(* Orders of a node's tree are orders of its entries' trees.               *)
LEMMA EntryOrders ==
  ASSUME NEW tree, NEW g, OrdersOf(tree, g), NEW slot \in Nat, slot \in DOMAIN tree.items,
         \A ref \in References(tree.items[slot]) :
            DOMAIN NodeAt(tree.items[slot], ref).items \subseteq Nat
  PROVE  OrdersOf(tree.items[slot], Sub(g, tree, slot))
<1> DEFINE item == tree.items[slot]
           h == Sub(g, tree, slot)
<1>1. \A ref \in References(item) : h[ref] = g[Below(slot, ref)]
  BY DEF Sub
<1>2. ASSUME NEW ref \in References(item)
      PROVE  h[ref] = NodeOrder(NodeAt(item, ref),
                               [i \in DOMAIN NodeAt(item, ref).items |-> h[Append(ref, i)]])
  <2>1. ref \in Seq(Nat)
    BY DEF References
  <2>2. Below(slot, ref) \in References(tree)
    BY <2>1, ReferencesBelow
  <2>3. NodeAt(tree, Below(slot, ref)) = NodeAt(item, ref)
    BY <2>1, NodeBelow
  <2> DEFINE node == NodeAt(item, ref)
  <2>4. g[Below(slot, ref)] = NodeOrder(node, [i \in DOMAIN node.items |-> g[Append(Below(slot, ref), i)]])
    BY <2>2, <2>3, OrdersSteps
  <2>5. ASSUME NEW i \in DOMAIN node.items
        PROVE  g[Append(Below(slot, ref), i)] = h[Append(ref, i)]
    <3>1. i \in Nat
      OBVIOUS
    <3>2. Append(ref, i) \in References(item)
      BY <3>1, EntryReference
    <3>3. Append(Below(slot, ref), i) = Below(slot, Append(ref, i))
      BY <2>1, <3>1, BelowAppend
    <3> QED BY <1>1, <3>2, <3>3
  <2> HIDE DEF node, h
  <2>6. [i \in DOMAIN node.items |-> g[Append(Below(slot, ref), i)]]
          = [i \in DOMAIN node.items |-> h[Append(ref, i)]]
    BY <2>5
  <2> QED BY <1>1, <2>4, <2>6 DEF node
<1>3. h = [ref \in References(item) |-> h[ref]]
  BY DEF Sub
<1> HIDE DEF h, item
<1>4. OrdersOf(item, h)
  BY <1>2, <1>3, OrdersAre
<1> QED BY <1>4 DEF h, item

LEMMA JoinedOrders ==
  ASSUME NEW tree, NEW G, NEW inner,
         DOMAIN tree.items \subseteq Nat,
         inner = [i \in DOMAIN tree.items |-> G[i][<<>>]],
         \A i \in DOMAIN tree.items :
            /\ OrdersOf(tree.items[i], G[i])
            /\ \A ref \in References(tree.items[i]) :
                  DOMAIN NodeAt(tree.items[i], ref).items \subseteq Nat
  PROVE  OrdersOf(tree, Joined(tree, NodeOrder(tree, inner), G))
<1> DEFINE order == NodeOrder(tree, inner)
           g == Joined(tree, order, G)
<1>1. g = [ref \in References(tree) |-> g[ref]]
  BY DEF Joined
<1>2. <<>> \in References(tree) /\ NodeAt(tree, <<>>) = tree
  BY ReferencesBelow
<1>3. g[<<>>] = order
  BY <1>2 DEF Joined
<1>4. ASSUME NEW slot \in DOMAIN tree.items, NEW ref \in References(tree.items[slot])
      PROVE  Below(slot, ref) \in References(tree) /\ g[Below(slot, ref)] = G[slot][ref]
  <2>1. slot \in Nat /\ ref \in Seq(Nat)
    BY DEF References
  <2>2. Below(slot, ref) \in References(tree)
    BY <2>1, ReferencesBelow
  <2>3. Below(slot, ref)[1] = slot /\ Below(slot, ref) # <<>> /\ Tail(Below(slot, ref)) = ref
    BY <2>1, BelowParts, BelowAppend
  <2> QED BY <2>2, <2>3 DEF Joined
<1> HIDE DEF g
<1>5. ASSUME NEW ref \in References(tree)
      PROVE  g[ref] = NodeOrder(NodeAt(tree, ref),
                               [i \in DOMAIN NodeAt(tree, ref).items |-> g[Append(ref, i)]])
  <2>1. CASE ref = <<>>
    <3>1. ASSUME NEW i \in DOMAIN tree.items PROVE g[Append(<<>>, i)] = G[i][<<>>]
      <4>1. i \in Nat /\ <<>> \in Seq(Nat)
        OBVIOUS
      <4>2. <<>> \in References(tree.items[i])
        BY ReferencesBelow
      <4>3. Append(<<>>, i) = Below(i, <<>>)
        BY <4>1, BelowAppend
      <4> QED BY <1>4, <4>2, <4>3
    <3>2. [i \in DOMAIN tree.items |-> g[Append(<<>>, i)]] = inner
      BY <3>1
    <3> QED BY <1>2, <1>3, <2>1, <3>2
  <2>2. CASE ref # <<>>
    <3> DEFINE slot == ref[1]
               rest == Tail(ref)
    <3>1. slot \in Nat /\ rest \in Seq(Nat) /\ ref = Below(slot, rest)
      BY <2>2, FirstSlot DEF References
    <3> HIDE DEF slot, rest
    <3>2. slot \in DOMAIN tree.items /\ rest \in References(tree.items[slot])
      BY <3>1, ReferencesBelow
    <3> DEFINE item == tree.items[slot]
               node == NodeAt(item, rest)
    <3>3. NodeAt(tree, ref) = node
      BY <3>1, NodeBelow
    <3>4. g[ref] = G[slot][rest]
      BY <1>4, <3>1, <3>2
    <3>5. OrdersOf(item, G[slot]) /\ DOMAIN node.items \subseteq Nat
      BY <3>2
    <3>6. G[slot][rest] = NodeOrder(node, [i \in DOMAIN node.items |-> G[slot][Append(rest, i)]])
      BY <3>2, <3>5, OrdersSteps
    <3>7. ASSUME NEW i \in DOMAIN node.items
          PROVE  g[Append(ref, i)] = G[slot][Append(rest, i)]
      <4>1. i \in Nat
        BY <3>5
      <4>2. Append(rest, i) \in References(item)
        BY <3>2, <4>1, EntryReference
      <4>3. Append(ref, i) = Below(slot, Append(rest, i))
        BY <3>1, <4>1, BelowAppend
      <4> QED BY <1>4, <3>2, <4>2, <4>3
    <3> HIDE DEF node
    <3>8. [i \in DOMAIN node.items |-> g[Append(ref, i)]]
            = [i \in DOMAIN node.items |-> G[slot][Append(rest, i)]]
      BY <3>7
    <3> QED BY <3>3, <3>4, <3>6, <3>8
  <2> QED BY <2>1, <2>2
<1>6. OrdersOf(tree, g)
  BY <1>1, <1>5, OrdersAre, ZenonT(40)
<1> QED BY <1>6 DEF g

(* A node whose entries are ordered is ordered: its order is itself and    *)
(* theirs.                                                                 *)
LEMMA NodeOrdered ==
  ASSUME NEW node, DOMAIN node.items \subseteq Nat, NEW inner,
         inner = [i \in DOMAIN node.items |-> inner[i]],
         \A i \in DOMAIN node.items : HasOrder(node.items[i], inner[i])
  PROVE  HasOrder(node, NodeOrder(node, inner))
<1> DEFINE item(i) == node.items[i]
<1>1. \A i \in DOMAIN node.items : \A ref \in References(item(i)) :
         DOMAIN NodeAt(item(i), ref).items \subseteq Nat
  BY DEF HasOrder
<1>2. ASSUME NEW ref \in References(node) PROVE DOMAIN NodeAt(node, ref).items \subseteq Nat
  <2>1. CASE ref = <<>>
    BY <2>1, ReferencesBelow
  <2>2. CASE ref # <<>>
    <3>1. /\ ref[1] \in Nat /\ Tail(ref) \in Seq(Nat)
          /\ ref = Below(ref[1], Tail(ref))
      BY <2>2, FirstSlot DEF References
    <3>2. ref[1] \in DOMAIN node.items /\ Tail(ref) \in References(item(ref[1]))
      BY <3>1, ReferencesBelow
    <3>3. NodeAt(node, ref) = NodeAt(item(ref[1]), Tail(ref))
      BY <3>1, NodeBelow
    <3> QED BY <1>1, <3>2, <3>3
  <2> QED BY <2>1, <2>2
<1>3. \E g : OrdersOf(node, g)
  <2> DEFINE G == [i \in DOMAIN node.items |-> CHOOSE g : OrdersOf(item(i), g)]
  <2>1. ASSUME NEW i \in DOMAIN node.items
        PROVE  OrdersOf(item(i), G[i]) /\ G[i][<<>>] = inner[i]
    <3>1. \E g : OrdersOf(item(i), g)
      BY DEF HasOrder
    <3>2. OrdersOf(item(i), CHOOSE g : OrdersOf(item(i), g))
      BY <3>1
    <3>3. OrdersOf(item(i), G[i])
      BY <3>2
    <3> QED BY <3>3 DEF HasOrder
  <2> HIDE DEF G
  <2>2. inner = [i \in DOMAIN node.items |-> G[i][<<>>]]
    BY <2>1
  <2>3. OrdersOf(node, Joined(node, NodeOrder(node, inner), G))
    BY <1>1, <2>1, <2>2, JoinedOrders
  <2> QED BY <2>3
<1>4. ASSUME NEW g, OrdersOf(node, g) PROVE g[<<>>] = NodeOrder(node, inner)
  <2>1. <<>> \in References(node) /\ NodeAt(node, <<>>) = node
    BY ReferencesBelow
  <2>2. g[<<>>] = NodeOrder(node, [i \in DOMAIN node.items |-> g[Append(<<>>, i)]])
    <3> DEFINE same == NodeAt(node, <<>>)
    <3>1. same = node
      BY <2>1
    <3>2. \A ref \in References(node) :
             g[ref] = NodeOrder(NodeAt(node, ref),
                               [i \in DOMAIN NodeAt(node, ref).items |-> g[Append(ref, i)]])
      BY <1>4, OrdersSteps
    <3>3. g[<<>>] = NodeOrder(same, [i \in DOMAIN same.items |-> g[Append(<<>>, i)]])
      BY <2>1, <3>2, Zenon
    <3> HIDE DEF same
    <3> QED BY <3>1, <3>3
  <2>3. ASSUME NEW i \in DOMAIN node.items PROVE g[Append(<<>>, i)] = inner[i]
    <3>1. i \in Nat
      OBVIOUS
    <3>2. OrdersOf(item(i), Sub(g, node, i))
      BY <1>1, <1>4, <3>1, EntryOrders
    <3>3. Sub(g, node, i)[<<>>] = inner[i]
      BY <3>2 DEF HasOrder
    <3>4. <<>> \in References(item(i)) /\ Append(<<>>, i) = Below(i, <<>>)
      <4>1. <<>> \in Seq(Nat)
        OBVIOUS
      <4> QED BY <3>1, <4>1, ReferencesBelow, BelowAppend
    <3> QED BY <3>3, <3>4 DEF Sub
  <2>4. [i \in DOMAIN node.items |-> g[Append(<<>>, i)]] = inner
    BY <2>3
  <2> QED BY <2>2, <2>4
<1> QED BY <1>2, <1>3, <1>4 DEF HasOrder

------------------------------------------------------------------------------
(* The order of the nodes. *)

\* Nodes of finite depth with all the nodes inside them, scalars holding none.
Complete(D) ==
    \A node \in D :
        /\ FiniteDepth(node)
        /\ node.items \in Seq(D)
        /\ node.type \notin ContainerType => node.items = <<>>

\* The orders of the entries of a node.
Orders(node) == [i \in DOMAIN node.items |-> Preorder(node.items[i])]

(* Every node has an order: itself, and those of its entries.              *)
LEMMA AllOrdered ==
  ASSUME NEW D, Complete(D), NEW tree \in D
  PROVE  /\ Preorder(tree) \in Seq(D) /\ Orders(tree) \in Seq(Seq(D))
         /\ Preorder(tree) = <<tree>> \o FlattenSeq(Orders(tree))
<1> DEFINE Good(node) ==
              /\ HasOrder(node, Preorder(node)) /\ Preorder(node) \in Seq(D)
              /\ Orders(node) \in Seq(Seq(D))
              /\ Preorder(node) = <<node>> \o FlattenSeq(Orders(node))
           G == {node \in D : Good(node)}
<1>1. \A node \in D : FiniteDepth(node) /\ node.items \in Seq(D)
  BY DEF Complete
<1>2. ASSUME NEW node \in D, \A i \in DOMAIN node.items : node.items[i] \in G
      PROVE  node \in G
  <2> DEFINE inner == Orders(node)
             order == NodeOrder(node, inner)
  <2>1. DOMAIN node.items \subseteq Nat
    BY <1>1
  <2>2. \A i \in DOMAIN node.items :
           HasOrder(node.items[i], inner[i]) /\ inner[i] \in Seq(D)
    BY <1>2 DEF Orders
  <2>3. inner \in Seq(Seq(D))
    <3>1. DOMAIN node.items = 1..Len(node.items) /\ Len(node.items) \in Nat
      BY <1>1
    <3>2. inner \in [1..Len(node.items) -> Seq(D)]
      BY <2>2, <3>1 DEF Orders
    <3> HIDE DEF inner
    <3> QED BY <3>1, <3>2
  <2>4. order = <<node>> \o FlattenSeq(inner)
    BY DEF NodeOrder
  <2>5. order \in Seq(D)
    <3>1. FlattenSeq(inner) \in Seq(D)
      <4>1. <<>> \in Seq(D)
        OBVIOUS
      <4> HIDE DEF inner
      <4> QED BY <2>3, <4>1, FlattenAppend
    <3>2. <<node>> \in Seq(D)
      OBVIOUS
    <3> HIDE DEF inner, order
    <3> QED BY <2>4, <3>1, <3>2
  <2>6. HasOrder(node, order)
    <3>1. inner = [i \in DOMAIN node.items |-> inner[i]]
      BY DEF Orders
    <3> HIDE DEF inner
    <3> QED BY <2>1, <2>2, <3>1, NodeOrdered
  <2> HIDE DEF order
  <2>7. Preorder(node) = order
    BY <2>6, OrderIs
  <2> QED BY <2>3, <2>4, <2>5, <2>6, <2>7
<1> HIDE DEF G
<1>3. D \subseteq G
  BY <1>1, <1>2, TreeInduction
<1> QED BY <1>3 DEF G

\* What is left of a node's entries from the given one on.
From(node, entry) == FlattenSeq(SubSeq(Orders(node), entry, Len(node.items)))

LEMMA FromSteps ==
  ASSUME NEW D, Complete(D), NEW node \in D
  PROVE  /\ Len(node.items) \in Nat
         /\ \A entry \in 1..(Len(node.items) + 1) : From(node, entry) \in Seq(D)
         /\ Preorder(node) = <<node>> \o From(node, 1) /\ Preorder(node) \in Seq(D)
         /\ From(node, Len(node.items) + 1) = <<>>
         /\ \A entry \in 1..Len(node.items) :
               /\ node.items[entry] \in D
               /\ From(node, entry) = Preorder(node.items[entry]) \o From(node, entry + 1)
<1> DEFINE n == Len(node.items)
           orders == Orders(node)
<1>1. node.items \in Seq(D) /\ n \in Nat /\ DOMAIN node.items = 1..n
  BY DEF Complete
<1>2. /\ orders \in Seq(Seq(D)) /\ Preorder(node) = <<node>> \o FlattenSeq(orders)
      /\ Preorder(node) \in Seq(D)
  BY AllOrdered
<1>3. /\ Len(orders) = n
      /\ \A i \in 1..n : orders[i] = Preorder(node.items[i]) /\ orders[i] \in Seq(D)
  <2>1. orders = [i \in 1..n |-> Preorder(node.items[i])]
    BY <1>1 DEF Orders
  <2>2. Len(orders) = n
    BY <1>1, <2>1
  <2> HIDE DEF orders
  <2> QED BY <1>2, <2>1, <2>2
<1>4. \A entry : From(node, entry) = FlattenSeq(SubSeq(orders, entry, n))
  BY DEF From
<1> HIDE DEF orders, n
<1>5. <<>> \in Seq(D) /\ <<>> \in Seq(Seq(D))
  OBVIOUS
<1>6. \A entry \in 1..(n + 1) : SubSeq(orders, entry, n) \in Seq(Seq(D))
  BY <1>1, <1>2, <1>3
<1>7. \A entry \in 1..(n + 1) : From(node, entry) \in Seq(D)
  BY <1>4, <1>5, <1>6, FlattenAppend, ZenonT(40)
<1>8. SubSeq(orders, 1, n) = orders
  BY <1>2, <1>3
<1>9. From(node, n + 1) = <<>>
  <2>1. SubSeq(orders, n + 1, n) = <<>>
    BY <1>1, <1>2, <1>3
  <2> QED BY <1>4, <1>5, <2>1, FlattenAppend
<1>10. ASSUME NEW entry \in 1..n
       PROVE  /\ node.items[entry] \in D
              /\ From(node, entry) = Preorder(node.items[entry]) \o From(node, entry + 1)
  <2> DEFINE rest == SubSeq(orders, entry + 1, n)
             first == orders[entry]
  <2>1. first \in Seq(D) /\ rest \in Seq(Seq(D))
    <3>1. entry + 1 \in 1..(n + 1)
      BY <1>1
    <3> QED BY <1>3, <1>6, <3>1
  <2>2. SubSeq(orders, entry, n) = << first >> \o rest
    BY <1>1, <1>2, <1>3, SubSeqRecursiveFirst
  <2> DEFINE one == << first >>
  <2>3. one \in Seq(Seq(D)) /\ FlattenSeq(one) = first
    BY <2>1, FlattenOne
  <2> HIDE DEF rest, first, one
  <2>4. FlattenSeq(one \o rest) = FlattenSeq(one) \o FlattenSeq(rest)
    BY <2>1, <2>3, FlattenJoined
  <2>5. node.items[entry] \in D
    BY <1>1
  <2> QED BY <1>3, <1>4, <2>2, <2>3, <2>4, <2>5 DEF rest, first, one
<1> QED BY <1>1, <1>2, <1>4, <1>7, <1>8, <1>9, <1>10 DEF n

------------------------------------------------------------------------------
(* What is called for the nodes of a sequence, and what is left of a walk,  *)
(* are both sequences made for each element and flattened.                  *)

Sequences(f, X, A) == f \in [X -> Seq(A)]
Each(f, s) == FlattenSeq([i \in DOMAIN s |-> f[s[i]]])

LEMMA EachType ==
  ASSUME NEW X, NEW A, NEW f, Sequences(f, X, A), NEW s \in Seq(X)
  PROVE  Each(f, s) \in Seq(A)
<1> DEFINE images == [i \in DOMAIN s |-> f[s[i]]]
<1>1. images = [i \in 1..Len(s) |-> f[s[i]]] /\ Len(s) \in Nat
  BY LenProperties
<1>2. images \in [1..Len(s) -> Seq(A)]
  BY <1>1 DEF Sequences
<1>3. images \in Seq(Seq(A)) /\ <<>> \in Seq(A)
  BY <1>1, <1>2
<1> HIDE DEF images
<1>4. FlattenSeq(images) \in Seq(A)
  BY <1>3, FlattenAppend
<1> QED BY <1>4 DEF Each, images

LEMMA EachJoined ==
  ASSUME NEW X, NEW A, NEW f, Sequences(f, X, A), NEW s \in Seq(X), NEW t \in Seq(X)
  PROVE  Each(f, s \o t) = Each(f, s) \o Each(f, t)
<1> DEFINE images(u) == [i \in DOMAIN u |-> f[u[i]]]
<1>1. ASSUME NEW u \in Seq(X)
      PROVE  /\ images(u) \in Seq(Seq(A)) /\ Len(images(u)) = Len(u)
             /\ \A i \in 1..Len(u) : images(u)[i] = f[u[i]]
  <2>1. images(u) = [i \in 1..Len(u) |-> f[u[i]]] /\ Len(u) \in Nat
    BY LenProperties
  <2>2. images(u) \in [1..Len(u) -> Seq(A)]
    BY <2>1 DEF Sequences
  <2> QED BY <2>1, <2>2
<1> DEFINE both == images(s \o t)
           joined == images(s) \o images(t)
<1>2. s \o t \in Seq(X) /\ Len(s \o t) = Len(s) + Len(t) /\ Len(s) \in Nat /\ Len(t) \in Nat
  OBVIOUS
<1>3. both \in Seq(Seq(A)) /\ Len(both) = Len(s) + Len(t)
      /\ \A i \in 1..(Len(s) + Len(t)) : both[i] = f[(s \o t)[i]]
  BY <1>1, <1>2
<1>4. images(s) \in Seq(Seq(A)) /\ images(t) \in Seq(Seq(A))
      /\ Len(images(s)) = Len(s) /\ Len(images(t)) = Len(t)
      /\ (\A i \in 1..Len(s) : images(s)[i] = f[s[i]])
      /\ (\A i \in 1..Len(t) : images(t)[i] = f[t[i]])
  BY <1>1
<1> HIDE DEF both, images
<1>5. joined \in Seq(Seq(A)) /\ Len(joined) = Len(s) + Len(t)
      /\ \A i \in 1..(Len(s) + Len(t)) :
            joined[i] = IF i <= Len(s) THEN images(s)[i] ELSE images(t)[i - Len(s)]
  <2> DEFINE p == images(s)
             q == images(t)
  <2>1. p \in Seq(Seq(A)) /\ q \in Seq(Seq(A)) /\ Len(p) = Len(s) /\ Len(q) = Len(t)
    BY <1>4
  <2> HIDE DEF p, q
  <2>2. /\ p \o q \in Seq(Seq(A)) /\ Len(p \o q) = Len(p) + Len(q)
        /\ \A i \in 1..(Len(p) + Len(q)) :
              (p \o q)[i] = IF i <= Len(p) THEN p[i] ELSE q[i - Len(p)]
    BY <2>1, ConcatProperties
  <2>3. joined = p \o q
    BY DEF p, q
  <2> HIDE DEF joined
  <2> QED BY <2>1, <2>2, <2>3 DEF p, q
<1> HIDE DEF joined
<1>6. ASSUME NEW i \in 1..(Len(s) + Len(t)) PROVE both[i] = joined[i]
  <2>1. CASE i <= Len(s)
    <3>1. i \in 1..Len(s) /\ (s \o t)[i] = s[i]
      BY <1>2, <2>1, ConcatProperties
    <3> QED BY <1>3, <1>4, <1>5, <2>1, <3>1, ZenonT(40)
  <2>2. CASE ~(i <= Len(s))
    <3>1. i - Len(s) \in 1..Len(t) /\ (s \o t)[i] = t[i - Len(s)]
      BY <1>2, <2>2, ConcatProperties
    <3> QED BY <1>3, <1>4, <1>5, <2>2, <3>1
  <2> QED BY <2>1, <2>2
<1>7. both = joined
  BY <1>3, <1>5, <1>6, SeqEqual
<1>8. FlattenSeq(joined) = FlattenSeq(images(s)) \o FlattenSeq(images(t))
  BY <1>4, FlattenJoined DEF joined
<1> QED BY <1>7, <1>8 DEF Each, both, images

LEMMA EachOne ==
  ASSUME NEW X, NEW A, NEW f, Sequences(f, X, A)
  PROVE  /\ Each(f, <<>>) = <<>>
         /\ \A x \in X : Each(f, << x >>) = f[x]
<1>1. Each(f, <<>>) = <<>>
  <2>1. [i \in DOMAIN <<>> |-> f[<<>>[i]]] = <<>>
    OBVIOUS
  <2>2. <<>> \in Seq(Seq(A)) /\ <<>> \in Seq(A)
    OBVIOUS
  <2>3. FlattenSeq(<<>>) = <<>>
    BY <2>2, FlattenAppend
  <2> QED BY <2>1, <2>3 DEF Each
<1>2. ASSUME NEW x \in X PROVE Each(f, << x >>) = f[x]
  <2> DEFINE s == << x >>
             images == [i \in DOMAIN s |-> f[s[i]]]
  <2>1. images = << f[x] >>
    OBVIOUS
  <2>2. f[x] \in Seq(A)
    BY DEF Sequences
  <2>3. FlattenSeq(<< f[x] >>) = f[x]
    BY <2>2, FlattenOne
  <2> HIDE DEF images
  <2> QED BY <2>1, <2>3 DEF Each, images
<1> QED BY <1>1, <1>2

(* The callbacks of a traversal. *)

Callbacks(D) == {"onNode", "onInteger", "onString", "onDictionary", "onList"} \X D
OnNodeCall(node) == << <<"onNode", node>> >>
CallsAt(D) == [node \in D |-> OnNodeCall(node) \o CallbackFor(node)]

LEMMA CallsAtType ==
  ASSUME NEW D
  PROVE  /\ CallsAt(D) \in [D -> Seq(Callbacks(D))]
         /\ \A node \in D : /\ OnNodeCall(node) \in Seq(Callbacks(D))
                            /\ CallbackFor(node) \in Seq(Callbacks(D))
<1>1. ASSUME NEW node \in D
      PROVE  /\ OnNodeCall(node) \in Seq(Callbacks(D))
             /\ CallbackFor(node) \in Seq(Callbacks(D))
  <2>1. \A name \in {"onNode", "onInteger", "onString", "onDictionary", "onList"} :
           << <<name, node>> >> \in Seq(Callbacks(D))
    BY DEF Callbacks
  <2>2. <<>> \in Seq(Callbacks(D))
    OBVIOUS
  <2> QED BY <2>1, <2>2 DEF OnNodeCall, CallbackFor
<1>2. \A node \in D : OnNodeCall(node) \o CallbackFor(node) \in Seq(Callbacks(D))
  BY <1>1
<1> QED BY <1>1, <1>2 DEF CallsAt

LEMMA CallsJoined ==
  ASSUME NEW D, NEW s \in Seq(D), NEW t \in Seq(D)
  PROVE  /\ CallsFor(s) \in Seq(Callbacks(D)) /\ CallsFor(<<>>) = <<>>
         /\ CallsFor(s \o t) = CallsFor(s) \o CallsFor(t)
         /\ \A node \in D : CallsFor(<< node >>) = OnNodeCall(node) \o CallbackFor(node)
<1>1. \A u \in Seq(D) : CallsFor(u) = Each(CallsAt(D), u)
  <2> SUFFICES ASSUME NEW u \in Seq(D) PROVE CallsFor(u) = Each(CallsAt(D), u)
    OBVIOUS
  <2>1. ASSUME NEW i \in DOMAIN u
        PROVE  CallsAt(D)[u[i]] = << <<"onNode", u[i]>> >> \o CallbackFor(u[i])
    BY DEF CallsAt, OnNodeCall
  <2>2. [i \in DOMAIN u |-> CallsAt(D)[u[i]]]
          = [i \in DOMAIN u |-> << <<"onNode", u[i]>> >> \o CallbackFor(u[i])]
    BY <2>1
  <2> QED BY <2>2 DEF CallsFor, Each
<1>2. s \o t \in Seq(D) /\ <<>> \in Seq(D) /\ \A node \in D : << node >> \in Seq(D)
  OBVIOUS
<1>3. CallsAt(D) \in [D -> Seq(Callbacks(D))]
  BY CallsAtType
<1>4. \A node \in D : CallsAt(D)[node] = OnNodeCall(node) \o CallbackFor(node)
  BY DEF CallsAt
<1> DEFINE f == CallsAt(D)
           X == Callbacks(D)
<1>5. Sequences(f, D, X)
  BY <1>3 DEF Sequences
<1> HIDE DEF f, X
<1>6. /\ Each(f, s) \in Seq(X) /\ Each(f, s \o t) = Each(f, s) \o Each(f, t)
      /\ Each(f, <<>>) = <<>> /\ \A node \in D : Each(f, << node >>) = f[node]
  <2>1. Each(f, s) \in Seq(X)
    BY <1>5, EachType
  <2>2. Each(f, s \o t) = Each(f, s) \o Each(f, t)
    BY <1>5, EachJoined
  <2>3. Each(f, <<>>) = <<>> /\ \A node \in D : Each(f, << node >>) = f[node]
    BY <1>5, EachOne
  <2> QED BY <2>1, <2>2, <2>3
<1>7. \A u \in Seq(D) : CallsFor(u) = Each(f, u)
  BY <1>1 DEF f
<1>8. \A node \in D : CallsFor(<< node >>) = OnNodeCall(node) \o CallbackFor(node)
  BY <1>2, <1>4, <1>6, <1>7 DEF f
<1>9. /\ CallsFor(s) \in Seq(X) /\ CallsFor(<<>>) = <<>>
      /\ CallsFor(s \o t) = CallsFor(s) \o CallsFor(t)
  BY <1>2, <1>6, <1>7
<1> QED BY <1>8, <1>9 DEF X

(* What is left of a walk. *)

Frames(D) == {frame \in [node : D, entry : Int] :
                 frame.entry \in {-1, 0} \cup 1..(Len(frame.node.items) + 1)}

RestOf(frame) ==
    IF frame.entry = 0 THEN Preorder(frame.node)
    ELSE From(frame.node, IF frame.entry = -1 THEN 1 ELSE frame.entry)

RestAt(D) == [frame \in Frames(D) |-> RestOf(frame)]
Rests(D, frames) == Each(RestAt(D), frames)

LEMMA RestType ==
  ASSUME NEW D, Complete(D), NEW frame \in Frames(D)
  PROVE  RestOf(frame) \in Seq(D)
<1> DEFINE node == frame.node
<1>1. node \in D /\ frame.entry \in {-1, 0} \cup 1..(Len(node.items) + 1)
  BY DEF Frames
<1>2. /\ Len(node.items) \in Nat /\ Preorder(node) \in Seq(D)
      /\ \A entry \in 1..(Len(node.items) + 1) : From(node, entry) \in Seq(D)
  BY <1>1, FromSteps
<1> QED BY <1>1, <1>2 DEF RestOf

LEMMA RestsSteps ==
  ASSUME NEW D, Complete(D), NEW frames \in Seq(Frames(D))
  PROVE  /\ Rests(D, frames) \in Seq(D) /\ Rests(D, <<>>) = <<>>
         /\ \A frame \in Frames(D) :
               Rests(D, << frame >> \o frames) = RestOf(frame) \o Rests(D, frames)
<1>1. \A frame \in Frames(D) : RestOf(frame) \in Seq(D)
  BY RestType
<1>2. RestAt(D) \in [Frames(D) -> Seq(D)] /\ \A frame \in Frames(D) : RestAt(D)[frame] = RestOf(frame)
  BY <1>1 DEF RestAt
<1> DEFINE f == RestAt(D)
           X == Frames(D)
<1>4. Sequences(f, X, D) /\ frames \in Seq(X)
  BY <1>2 DEF Sequences
<1> HIDE DEF f, X
<1>5. Each(f, frames) \in Seq(D) /\ Each(f, <<>>) = <<>>
  BY <1>4, EachType, EachOne
<1>6. ASSUME NEW frame \in X
      PROVE  Each(f, << frame >> \o frames) = f[frame] \o Each(f, frames)
  <2> DEFINE one == << frame >>
  <2>1. ASSUME NEW s \in Seq(X), NEW t \in Seq(X)
        PROVE  Each(f, s \o t) = Each(f, s) \o Each(f, t)
    BY <1>4, EachJoined
  <2>2. one \in Seq(X) /\ Each(f, one) = f[frame]
    BY <1>4, EachOne
  <2> HIDE DEF one
  <2>3. Each(f, one \o frames) = Each(f, one) \o Each(f, frames)
    BY <1>4, <2>1, <2>2
  <2> QED BY <2>2, <2>3 DEF one
<1> QED BY <1>2, <1>5, <1>6 DEF Rests, f, X

\* A frame that has come to the given entry.
Place(node, entry) == [node |-> node, entry |-> entry]

LEMMA PlaceSteps ==
  ASSUME NEW D, Complete(D), NEW node \in D
  PROVE  /\ Len(node.items) \in Nat
         /\ \A entry \in {-1, 0} \cup 1..(Len(node.items) + 1) : Place(node, entry) \in Frames(D)
         /\ RestOf(Place(node, 0)) = << node >> \o RestOf(Place(node, -1))
         /\ RestOf(Place(node, -1)) = RestOf(Place(node, 1))
         /\ node.type \notin ContainerType => RestOf(Place(node, -1)) = <<>>
         /\ RestOf(Place(node, Len(node.items) + 1)) = <<>>
         /\ \A entry \in 1..Len(node.items) :
               /\ node.items[entry] \in D
               /\ RestOf(Place(node, entry))
                    = RestOf(Place(node.items[entry], 0)) \o RestOf(Place(node, entry + 1))
<1> DEFINE n == Len(node.items)
<1>1. /\ n \in Nat
      /\ Preorder(node) = << node >> \o From(node, 1)
      /\ From(node, n + 1) = <<>>
      /\ \A entry \in 1..n :
            /\ node.items[entry] \in D
            /\ From(node, entry) = Preorder(node.items[entry]) \o From(node, entry + 1)
  BY FromSteps
<1>2. \A entry \in {-1, 0} \cup 1..(n + 1) : Place(node, entry) \in Frames(D)
  <2> SUFFICES ASSUME NEW entry \in {-1, 0} \cup 1..(n + 1) PROVE Place(node, entry) \in Frames(D)
    OBVIOUS
  <2>1. entry \in Int
    BY <1>1
  <2> QED BY <2>1 DEF Frames, Place
<1>3. \A any : /\ RestOf(Place(any, 0)) = Preorder(any)
               /\ RestOf(Place(any, -1)) = From(any, 1)
               /\ \A entry \in Nat : entry # 0 => RestOf(Place(any, entry)) = From(any, entry)
  BY DEF RestOf, Place
<1>4. ASSUME node.type \notin ContainerType PROVE n + 1 = 1
  <2>1. node.items = <<>>
    BY <1>4 DEF Complete
  <2> QED BY <2>1
<1> HIDE DEF n
<1>5. \A entry \in 1..n : entry \in Nat /\ entry # 0 /\ entry + 1 \in Nat /\ entry + 1 # 0
  BY <1>1
<1>6. RestOf(Place(node, n + 1)) = <<>> /\ n + 1 \in Nat
  BY <1>1, <1>3
<1>7. node.type \notin ContainerType => RestOf(Place(node, -1)) = <<>>
  BY <1>1, <1>3, <1>4
<1>8. \A entry \in 1..n :
         /\ node.items[entry] \in D
         /\ RestOf(Place(node, entry))
              = RestOf(Place(node.items[entry], 0)) \o RestOf(Place(node, entry + 1))
  BY <1>1, <1>3, <1>5
<1>9. /\ RestOf(Place(node, 0)) = << node >> \o RestOf(Place(node, -1))
      /\ RestOf(Place(node, -1)) = RestOf(Place(node, 1))
  <2>1. /\ RestOf(Place(node, 0)) = Preorder(node)
        /\ RestOf(Place(node, -1)) = From(node, 1)
    BY <1>3
  <2>2. RestOf(Place(node, 1)) = From(node, 1)
    BY <1>3
  <2> QED BY <1>1, <2>1, <2>2
<1> QED BY <1>1, <1>2, <1>6, <1>7, <1>8, <1>9 DEF n

LEMMA Stacked ==
  ASSUME NEW F, NEW top \in F, NEW outer \in Seq(F)
  PROVE  LET frames == << top >> \o outer
         IN frames \in Seq(F) /\ frames[1] = top /\ Tail(frames) = outer
<1> DEFINE one == << top >>
           frames == one \o outer
<1>1. one \in Seq(F) /\ Len(one) = 1 /\ one[1] = top
  OBVIOUS
<1> HIDE DEF one
<1>2. /\ frames \in Seq(F) /\ Len(frames) = 1 + Len(outer) /\ Len(outer) \in Nat
      /\ \A i \in 1..(1 + Len(outer)) : frames[i] = IF i <= 1 THEN one[i] ELSE outer[i - 1]
  <2>1. /\ frames \in Seq(F) /\ Len(frames) = Len(one) + Len(outer)
        /\ \A i \in 1..(Len(one) + Len(outer)) :
              frames[i] = IF i <= Len(one) THEN one[i] ELSE outer[i - Len(one)]
    BY <1>1, ConcatProperties
  <2> QED BY <1>1, <2>1
<1> HIDE DEF frames
<1>3. frames # <<>> /\ frames[1] = top
  BY <1>1, <1>2
<1>4. /\ Tail(frames) \in Seq(F) /\ Len(Tail(frames)) = Len(outer)
      /\ \A i \in 1..Len(outer) : Tail(frames)[i] = frames[i + 1]
  BY <1>2, <1>3
<1>5. ASSUME NEW i \in 1..Len(outer) PROVE Tail(frames)[i] = outer[i]
  BY <1>2, <1>4
<1>6. Tail(frames) = outer
  BY <1>4, <1>5, SeqEqual
<1> QED BY <1>2, <1>3, <1>6 DEF frames, one

LEMMA Unstacked ==
  ASSUME NEW F, NEW frames \in Seq(F), frames # <<>>
  PROVE  /\ frames[1] \in F /\ Tail(frames) \in Seq(F)
         /\ frames = << frames[1] >> \o Tail(frames)
         /\ \A i \in DOMAIN Tail(frames) : i + 1 \in DOMAIN frames /\ Tail(frames)[i] = frames[i + 1]
<1>1. Len(frames) \in Nat /\ Len(frames) # 0
  OBVIOUS
<1>2. 1 \in 1..Len(frames) /\ Len(frames) \in 1..Len(frames)
  BY <1>1
<1>3. SubSeq(frames, 1, Len(frames)) = << frames[1] >> \o SubSeq(frames, 2, Len(frames))
  BY <1>2, SubSeqRecursiveFirst
<1>4. SubSeq(frames, 1, Len(frames)) = frames /\ Tail(frames) = SubSeq(frames, 2, Len(frames))
  BY SubSeqFull, TailIsSubSeq
<1>5. Tail(frames) \in Seq(F) /\ Len(Tail(frames)) = Len(frames) - 1
      /\ \A i \in 1..(Len(frames) - 1) : Tail(frames)[i] = frames[i + 1]
  BY <1>1
<1> QED BY <1>1, <1>2, <1>3, <1>4, <1>5

------------------------------------------------------------------------------
(* The numbers of the analyzer. *)

(* The function that Total chooses exists: each of its values adds one more *)
(* number.                                                                  *)
LEMMA TotalRecursion ==
  ASSUME NEW numbers, NEW n \in Nat, DOMAIN numbers = 1..n, Len(numbers) = n
  PROVE  \E f : /\ f[0] = 0 /\ Total(numbers) = f[n]
                /\ \A i \in 1..n : f[i] = f[i - 1] + numbers[i]
<1> DEFINE Solves(g, k) == g = [i \in 0..k |-> IF i = 0 THEN 0 ELSE g[i - 1] + numbers[i]]
           Solved == {k \in Nat : \E g : Solves(g, k)}
<1>1. 0 \in Solved
  <2>1. Solves([i \in 0..0 |-> 0], 0)
    OBVIOUS
  <2> QED BY <2>1
<1>2. ASSUME NEW k \in Nat, k \in Solved PROVE k + 1 \in Solved
  <2>1. PICK g : Solves(g, k)
    BY <1>2
  <2> DEFINE last == g[k] + numbers[k + 1]
             h == [i \in 0..(k + 1) |-> IF i <= k THEN g[i] ELSE last]
  <2>2. ASSUME NEW i \in 0..(k + 1)
        PROVE  h[i] = IF i = 0 THEN 0 ELSE h[i - 1] + numbers[i]
    <3>1. CASE i <= k
      <4>1. h[i] = g[i] /\ (i # 0 => h[i - 1] = g[i - 1])
        BY <3>1
      <4>2. g[i] = IF i = 0 THEN 0 ELSE g[i - 1] + numbers[i]
        <5>1. \A j \in 0..k : g[j] = IF j = 0 THEN 0 ELSE g[j - 1] + numbers[j]
          BY <2>1
        <5>2. i \in 0..k
          BY <3>1
        <5> QED BY <5>1, <5>2
      <4> QED BY <4>1, <4>2
    <3>2. CASE i = k + 1
      BY <3>2
    <3> QED BY <3>1, <3>2
  <2>3. h = [i \in 0..(k + 1) |-> h[i]]
    OBVIOUS
  <2> HIDE DEF h
  <2>4. Solves(h, k + 1)
    BY <2>2, <2>3
  <2> QED BY <2>4
<1>3. n \in Solved
  <2> HIDE DEF Solved
  <2> QED BY <1>1, <1>2, InductionFrom
<1>4. \E g : Solves(g, n)
  BY <1>3
<1> DEFINE f == CHOOSE g : Solves(g, n)
<1>5. Solves(f, n)
  BY <1>4
<1>6. Total(numbers) = f[n]
  BY DEF Total
<1> HIDE DEF f
<1>7. \A i \in 0..n : f[i] = IF i = 0 THEN 0 ELSE f[i - 1] + numbers[i]
  BY <1>5
<1>8. f[0] = 0 /\ \A i \in 1..n : f[i] = f[i - 1] + numbers[i]
  BY <1>7
<1> QED BY <1>6, <1>8

\* sums has the sums of the first numbers.
SumsOf(sums, numbers, n) ==
    sums[0] = 0 /\ \A i \in 1..n : sums[i] = sums[i - 1] + numbers[i]

LEMMA TotalIs ==
  ASSUME NEW numbers, NEW n \in Nat, DOMAIN numbers = 1..n, Len(numbers) = n,
         NEW sums, SumsOf(sums, numbers, n)
  PROVE  Total(numbers) = sums[n]
<1>1. PICK f : /\ f[0] = 0 /\ Total(numbers) = f[n]
               /\ \A i \in 1..n : f[i] = f[i - 1] + numbers[i]
  BY TotalRecursion
<1> DEFINE Same == {i \in 0..n : f[i] = sums[i]}
<1>2. 0 \in Same
  BY <1>1 DEF SumsOf
<1>3. ASSUME NEW i \in 0..n, i < n, i \in Same PROVE i + 1 \in Same
  <2>1. i + 1 \in 1..n /\ i + 1 \in 0..n /\ (i + 1) - 1 = i
    BY <1>3
  <2>2. f[i + 1] = f[i] + numbers[i + 1]
    BY <1>1, <2>1
  <2>3. sums[i + 1] = sums[i] + numbers[i + 1]
    BY <2>1 DEF SumsOf
  <2> QED BY <1>3, <2>1, <2>2, <2>3
<1> HIDE DEF Same
<1>4. \A i \in 0..n : i \in Same
  <2>1. 0 \in Int /\ n \in Int
    OBVIOUS
  <2> QED BY <1>2, <1>3, <2>1, InductionUpTo
<1>5. n \in 0..n
  OBVIOUS
<1> QED BY <1>1, <1>4, <1>5 DEF Same

LEMMA TotalOfNone ==
  ASSUME NEW numbers, numbers = <<>>
  PROVE  Total(numbers) = 0
<1>1. DOMAIN numbers = 1..0 /\ Len(numbers) = 0
  OBVIOUS
<1> DEFINE sums == [i \in 0..0 |-> 0]
<1>2. SumsOf(sums, numbers, 0) /\ sums[0] = 0
  BY DEF SumsOf
<1> HIDE DEF sums
<1> QED BY <1>1, <1>2, TotalIs

\* t is s with x behind it.
Grown(s, t, x) ==
    \E n \in Nat :
        /\ s = [i \in 1..n |-> s[i]]
        /\ t = [i \in 1..(n + 1) |-> IF i <= n THEN s[i] ELSE x]

LEMMA TotalGrows ==
  ASSUME NEW s, NEW t, NEW x, Grown(s, t, x)
  PROVE  Total(t) = Total(s) + x
<1>1. PICK n \in Nat : /\ s = [i \in 1..n |-> s[i]]
                       /\ t = [i \in 1..(n + 1) |-> IF i <= n THEN s[i] ELSE x]
  BY DEF Grown
<1>2. DOMAIN s = 1..n /\ Len(s) = n
  BY <1>1
<1>3. /\ DOMAIN t = 1..(n + 1) /\ Len(t) = n + 1 /\ n + 1 \in Nat
      /\ t[n + 1] = x /\ \A i \in 1..n : t[i] = s[i]
  BY <1>1
<1>4. PICK f : /\ f[0] = 0 /\ Total(t) = f[n + 1]
               /\ \A i \in 1..(n + 1) : f[i] = f[i - 1] + t[i]
  BY <1>3, TotalRecursion
<1>5. SumsOf(f, s, n)
  <2>1. ASSUME NEW i \in 1..n PROVE f[i] = f[i - 1] + s[i]
    <3>1. i \in 1..(n + 1) /\ t[i] = s[i]
      BY <1>3
    <3> QED BY <1>4, <3>1
  <2> QED BY <1>4, <2>1 DEF SumsOf
<1>6. Total(s) = f[n]
  BY <1>2, <1>5, TotalIs
<1>7. f[n + 1] = f[n] + x
  <2>1. n + 1 \in 1..(n + 1) /\ (n + 1) - 1 = n
    OBVIOUS
  <2> QED BY <1>3, <1>4, <2>1
<1> QED BY <1>4, <1>6, <1>7

\* new is old and all the numbers.
Adds(old, numbers, new) == Total(numbers) \in Nat /\ new = old + Total(numbers)

LEMMA AddsOne ==
  ASSUME NEW old \in Nat, NEW new, NEW s, NEW t, NEW x \in Nat,
         Adds(old, s, new), Grown(s, t, x)
  PROVE  Adds(old, t, new + x)
<1>1. Total(t) = Total(s) + x
  BY TotalGrows
<1> QED BY <1>1 DEF Adds

LEMMA AddsNone ==
  ASSUME NEW old \in Nat, NEW numbers, numbers = <<>>
  PROVE  Adds(old, numbers, old)
<1>1. Total(numbers) = 0
  BY TotalOfNone
<1> QED BY <1>1 DEF Adds

IsLargest(m, S) == m \in S /\ S \subseteq Nat /\ \A x \in S : x <= m

LEMMA LargestIs ==
  ASSUME NEW m, NEW S, IsLargest(m, S)
  PROVE  m = Max(S)
<1>1. \E x \in S : \A y \in S : x >= y
  BY DEF IsLargest
<1> DEFINE k == Max(S)
<1>2. k \in S /\ \A y \in S : k >= y
  BY <1>1 DEF Max
<1> HIDE DEF k
<1>3. k = m
  BY <1>2 DEF IsLargest
<1> QED BY <1>3 DEF k

LEMMA LargerOne ==
  ASSUME NEW m, NEW S, NEW x \in Nat, IsLargest(m, S)
  PROVE  IsLargest(Larger(x, m), S \cup {x})
BY DEF IsLargest, Larger

Analyzers ==
    [totalNodes : Nat, sizeInBytes : Nat,
     totalDictionarys : Nat, maxDictionarySize : Nat,
     totalKeys : Nat, maxKeySize : Nat, uniqueKeys : SUBSET Nat,
     totalLists : Nat, maxListSize : Nat,
     totalStrings : Nat, uniqueStrings : SUBSET Nat, maxStringSize : Nat,
     totalIntegers : Nat]

\* What the numbers of an analyzer are at any moment.
Measured(a) == a \in Analyzers /\ IsLargest(a.maxKeySize, {0} \cup a.uniqueKeys)

LEMMA FreshMeasured == Measured(FreshAnalyzer)
BY DEF Measured, Analyzers, FreshAnalyzer, IsLargest

\* What one node adds to the numbers.
One(node, type) == IF node.type = type THEN 1 ELSE 0
StringIn(node) == IF node.type = "string" THEN {node.val} ELSE {}
KeysIn(node) == IF node.type = "dictionary" THEN KeysOf(node) ELSE {}
Widest(node, type, size, m) == IF node.type = type THEN Larger(size, m) ELSE m
StringSize(node, a) ==
    IF node.type = "string" THEN Larger(node.val, a.maxKeySize) ELSE a.maxStringSize

\* The callback for the type of the node makes b of the analyzer a.
Tallied(a, node, b) ==
    /\ Measured(b)
    /\ Bytes(node) \in Nat /\ Len(node.keys) \in Nat
    /\ node.type = "list" => Len(node.items) \in Nat
    /\ node.type = "string" => node.val \in Nat
    /\ b.maxStringSize = StringSize(node, a)
    /\ b.totalNodes = a.totalNodes
    /\ b.totalIntegers = a.totalIntegers + One(node, "integer")
    /\ b.totalStrings = a.totalStrings + One(node, "string")
    /\ b.totalLists = a.totalLists + One(node, "list")
    /\ b.totalDictionarys = a.totalDictionarys + One(node, "dictionary")
    /\ b.totalKeys = a.totalKeys + Len(node.keys)
    /\ b.sizeInBytes = a.sizeInBytes + Bytes(node)
    /\ b.uniqueStrings = a.uniqueStrings \cup StringIn(node)
    /\ b.uniqueKeys = a.uniqueKeys \cup KeysIn(node)
    /\ b.maxListSize = Widest(node, "list", Len(node.items), a.maxListSize)
    /\ b.maxDictionarySize = Widest(node, "dictionary", Len(node.keys), a.maxDictionarySize)

\* Documents whose strings and keys have sizes, as those of Roots have.
Numbered(D) ==
    \A node \in D :
        /\ node.type = "string" => node.val \in Nat
        /\ node.keys \in Seq(Nat)
        /\ node.type # "dictionary" => node.keys = <<>>

LEMMA ScalarBytes ==
  ASSUME NEW node, node.keys = <<>>
  PROVE  Total([i \in DOMAIN node.keys |-> node.keys[i] + SizeOf["entry"]]) = 0
<1> DEFINE numbers == [i \in DOMAIN node.keys |-> node.keys[i] + SizeOf["entry"]]
<1>1. numbers = <<>>
  OBVIOUS
<1> HIDE DEF numbers
<1>2. Total(numbers) = 0
  BY <1>1, TotalOfNone
<1> QED BY <1>2 DEF numbers

LEMMA IntegerTallied ==
  ASSUME NEW D, Numbered(D), NEW node \in D, node.type = "integer", NEW a, Measured(a)
  PROVE  Tallied(a, node, OnInteger(a, node))
<1> DEFINE b == OnInteger(a, node)
<1>1. node.keys = <<>> /\ Len(node.keys) = 0
  BY DEF Numbered
<1>2. Bytes(node) = SizeOf["integer"] /\ SizeOf["integer"] \in Nat
  <2>1. SizeOf["integer"] \in Nat
    BY TraversalAssumption
  <2>2. node.type # "string" /\ node.type # "list"
    OBVIOUS
  <2>3. Bytes(node) = SizeOf["integer"] + 0 + 0 + 0
    BY <1>1, <2>2, ScalarBytes DEF Bytes
  <2> QED BY <2>1, <2>3
<1>3. a \in Analyzers /\ IsLargest(a.maxKeySize, {0} \cup a.uniqueKeys)
  BY DEF Measured
<1>4. /\ b \in Analyzers
      /\ b.totalNodes = a.totalNodes /\ b.totalIntegers = a.totalIntegers + 1
      /\ b.totalStrings = a.totalStrings /\ b.totalLists = a.totalLists
      /\ b.totalDictionarys = a.totalDictionarys /\ b.totalKeys = a.totalKeys
      /\ b.sizeInBytes = a.sizeInBytes + SizeOf["integer"]
      /\ b.uniqueStrings = a.uniqueStrings /\ b.uniqueKeys = a.uniqueKeys
      /\ b.maxListSize = a.maxListSize /\ b.maxDictionarySize = a.maxDictionarySize
      /\ b.maxKeySize = a.maxKeySize /\ b.maxStringSize = a.maxStringSize
  <2> DEFINE n == a.totalIntegers + 1
             bytes == a.sizeInBytes + SizeOf["integer"]
  <2>1. n \in Nat /\ bytes \in Nat
    BY <1>2, <1>3 DEF Analyzers
  <2>2. b = [a EXCEPT !.totalIntegers = n, !.sizeInBytes = bytes]
    BY DEF OnInteger
  <2> HIDE DEF b, n, bytes
  <2>3. b \in Analyzers
    BY <1>3, <2>1, <2>2 DEF Analyzers
  <2> QED BY <1>3, <2>2, <2>3 DEF Analyzers, n, bytes
<1> HIDE DEF b
<1>5. /\ a.totalStrings \in Nat /\ a.totalLists \in Nat /\ a.totalDictionarys \in Nat
      /\ a.totalKeys \in Nat
  BY <1>3 DEF Analyzers
<1>6. Measured(b)
  BY <1>3, <1>4 DEF Measured
<1> QED BY <1>1, <1>2, <1>4, <1>5, <1>6 DEF Tallied, StringSize, One, StringIn, KeysIn, Widest, b

LEMMA StringTallied ==
  ASSUME NEW D, Numbered(D), NEW node \in D, node.type = "string", NEW a, Measured(a)
  PROVE  Tallied(a, node, OnString(a, node))
<1> DEFINE b == OnString(a, node)
<1>1. node.keys = <<>> /\ Len(node.keys) = 0 /\ node.val \in Nat
  BY DEF Numbered
<1>2. Bytes(node) = SizeOf["string"] + node.val /\ SizeOf["string"] \in Nat
  <2>1. SizeOf["string"] \in Nat
    BY TraversalAssumption
  <2>2. node.type # "list"
    OBVIOUS
  <2>3. Bytes(node) = SizeOf["string"] + node.val + 0 + 0
    BY <1>1, <2>2, ScalarBytes DEF Bytes
  <2> QED BY <1>1, <2>1, <2>3
<1>3. a \in Analyzers /\ IsLargest(a.maxKeySize, {0} \cup a.uniqueKeys)
  BY DEF Measured
<1>4. /\ b \in Analyzers
      /\ b.totalNodes = a.totalNodes /\ b.totalIntegers = a.totalIntegers
      /\ b.totalStrings = a.totalStrings + 1 /\ b.totalLists = a.totalLists
      /\ b.totalDictionarys = a.totalDictionarys /\ b.totalKeys = a.totalKeys
      /\ b.sizeInBytes = a.sizeInBytes + (SizeOf["string"] + node.val)
      /\ b.uniqueStrings = a.uniqueStrings \cup {node.val} /\ b.uniqueKeys = a.uniqueKeys
      /\ b.maxListSize = a.maxListSize /\ b.maxDictionarySize = a.maxDictionarySize
      /\ b.maxKeySize = a.maxKeySize /\ b.maxStringSize = Larger(node.val, a.maxKeySize)
  <2> DEFINE n == a.totalStrings + 1
             bytes == a.sizeInBytes + (SizeOf["string"] + node.val)
             most == Larger(node.val, a.maxKeySize)
             strings == a.uniqueStrings \cup {node.val}
  <2>1. n \in Nat /\ bytes \in Nat /\ most \in Nat /\ strings \in SUBSET Nat
        /\ a.sizeInBytes + SizeOf["string"] + node.val = bytes
    <3>1. /\ a.totalStrings \in Nat /\ a.sizeInBytes \in Nat /\ a.maxKeySize \in Nat
          /\ a.uniqueStrings \in SUBSET Nat
      BY <1>3 DEF Analyzers
    <3>2. strings \in SUBSET Nat
      BY <1>1, <3>1
    <3>3. most \in Nat
      BY <1>1, <3>1 DEF Larger
    <3> QED BY <1>1, <1>2, <3>1, <3>2, <3>3, SMTT(40)
  <2>2. b = [a EXCEPT !.totalStrings = n, !.sizeInBytes = bytes, !.maxStringSize = most,
                      !.uniqueStrings = strings]
    BY <2>1 DEF OnString
  <2> HIDE DEF b, n, bytes, most, strings
  <2>3. b \in Analyzers
    BY <1>3, <2>1, <2>2 DEF Analyzers
  <2> QED BY <1>3, <2>2, <2>3 DEF Analyzers, n, bytes, most, strings
<1> HIDE DEF b
<1>5. /\ a.totalIntegers \in Nat /\ a.totalLists \in Nat /\ a.totalDictionarys \in Nat
      /\ a.totalKeys \in Nat
  BY <1>3 DEF Analyzers
<1>6. Measured(b)
  BY <1>3, <1>4 DEF Measured
<1> QED BY <1>1, <1>2, <1>4, <1>5, <1>6 DEF Tallied, StringSize, One, StringIn, KeysIn, Widest, b

LEMMA ListTallied ==
  ASSUME NEW D, Complete(D), Numbered(D), NEW node \in D, node.type = "list", NEW a, Measured(a)
  PROVE  Tallied(a, node, OnList(a, node))
<1> DEFINE b == OnList(a, node)
           n == Len(node.items)
<1>1. node.keys = <<>> /\ Len(node.keys) = 0 /\ n \in Nat
  <2>1. node.items \in Seq(D)
    BY DEF Complete
  <2> QED BY <2>1 DEF Numbered
<1>2. /\ Bytes(node) = SizeOf["list"] + n * SizeOf["node"]
      /\ SizeOf["list"] + n * SizeOf["node"] \in Nat
  <2>1. SizeOf["list"] \in Nat /\ SizeOf["node"] \in Nat
    BY TraversalAssumption DEF ContainerType
  <2>2. n * SizeOf["node"] \in Nat
    BY <1>1, <2>1
  <2>3. node.type # "string" /\ node.type = "list"
    OBVIOUS
  <2> DEFINE size == n * SizeOf["node"]
  <2>4. size \in Nat
    BY <2>2
  <2>5. Bytes(node) = SizeOf["list"] + 0 + size + 0
    BY <1>1, <2>3, ScalarBytes DEF Bytes
  <2> HIDE DEF size
  <2>6. Bytes(node) = SizeOf["list"] + size /\ SizeOf["list"] + size \in Nat
    BY <2>1, <2>4, <2>5
  <2> QED BY <2>6 DEF size
<1>3. a \in Analyzers /\ IsLargest(a.maxKeySize, {0} \cup a.uniqueKeys)
  BY DEF Measured
<1> DEFINE bytes == SizeOf["list"] + n * SizeOf["node"]
<1>4. /\ b = [a EXCEPT !.totalLists = @ + 1, !.sizeInBytes = @ + SizeOf["list"] + n * SizeOf["node"],
                       !.maxListSize = Larger(n, @)]
      /\ a.sizeInBytes + SizeOf["list"] + n * SizeOf["node"] = a.sizeInBytes + bytes
  <2>1. b = [a EXCEPT !.totalLists = @ + 1, !.sizeInBytes = @ + SizeOf["list"] + n * SizeOf["node"],
                       !.maxListSize = Larger(n, @)]
    BY DEF OnList
  <2>2. SizeOf["list"] \in Nat /\ SizeOf["node"] \in Nat
    BY TraversalAssumption DEF ContainerType
  <2> DEFINE size == n * SizeOf["node"]
  <2>3. size \in Nat /\ a.sizeInBytes \in Nat
    BY <1>1, <1>3, <2>2, SMTT(40) DEF Analyzers
  <2> HIDE DEF size
  <2>4. a.sizeInBytes + SizeOf["list"] + size = a.sizeInBytes + (SizeOf["list"] + size)
    BY <2>2, <2>3
  <2> QED BY <2>1, <2>4 DEF size
<1> HIDE DEF bytes
<1>5. bytes \in Nat /\ Larger(n, a.maxListSize) \in Nat
  BY <1>1, <1>2, <1>3 DEF bytes, Larger, Analyzers
<1>6. /\ b \in Analyzers
      /\ b.totalNodes = a.totalNodes /\ b.totalIntegers = a.totalIntegers
      /\ b.totalStrings = a.totalStrings /\ b.totalLists = a.totalLists + 1
      /\ b.totalDictionarys = a.totalDictionarys /\ b.totalKeys = a.totalKeys
      /\ b.sizeInBytes = a.sizeInBytes + bytes
      /\ b.uniqueStrings = a.uniqueStrings /\ b.uniqueKeys = a.uniqueKeys
      /\ b.maxListSize = Larger(n, a.maxListSize) /\ b.maxDictionarySize = a.maxDictionarySize
      /\ b.maxKeySize = a.maxKeySize /\ b.maxStringSize = a.maxStringSize
  <2> HIDE DEF b, n
  <2>1. b = [a EXCEPT !.totalLists = a.totalLists + 1, !.sizeInBytes = a.sizeInBytes + bytes,
                      !.maxListSize = Larger(n, a.maxListSize)]
    BY <1>4
  <2> DEFINE lists == a.totalLists + 1
             size == a.sizeInBytes + bytes
             most == Larger(n, a.maxListSize)
  <2>2. lists \in Nat /\ size \in Nat /\ most \in Nat
    BY <1>3, <1>5 DEF Analyzers
  <2>3. b = [a EXCEPT !.totalLists = lists, !.sizeInBytes = size, !.maxListSize = most]
    BY <2>1
  <2> HIDE DEF lists, size, most
  <2>4. b \in Analyzers
    BY <1>3, <2>2, <2>3 DEF Analyzers
  <2> QED BY <1>3, <2>3, <2>4 DEF Analyzers, lists, size, most
<1> HIDE DEF b
<1>7. /\ a.totalIntegers \in Nat /\ a.totalStrings \in Nat /\ a.totalDictionarys \in Nat
      /\ a.totalKeys \in Nat
  BY <1>3 DEF Analyzers
<1>8. Measured(b)
  BY <1>3, <1>6 DEF Measured
<1>9. Bytes(node) = bytes
  BY <1>2 DEF bytes
<1> QED BY <1>1, <1>5, <1>6, <1>7, <1>8, <1>9 DEF Tallied, StringSize, One, StringIn, KeysIn, Widest, b, n

\* b is a after the first keys of a dictionary.
KeysCounted(a, keys, sums, i, b) ==
    /\ Measured(b) /\ sums[i] \in Nat
    /\ b.totalNodes = a.totalNodes /\ b.totalIntegers = a.totalIntegers
    /\ b.totalStrings = a.totalStrings /\ b.totalLists = a.totalLists
    /\ b.totalDictionarys = a.totalDictionarys /\ b.uniqueStrings = a.uniqueStrings
    /\ b.maxListSize = a.maxListSize /\ b.maxDictionarySize = a.maxDictionarySize
    /\ b.maxStringSize = a.maxStringSize
    /\ b.totalKeys = a.totalKeys + i /\ b.sizeInBytes = a.sizeInBytes + sums[i]
    /\ b.uniqueKeys = a.uniqueKeys \cup {keys[j] : j \in 1..i}

LEMMA OneKeyCounted ==
  ASSUME NEW a, Measured(a), NEW keys \in Seq(Nat), NEW sums, NEW b,
         NEW i \in 1..Len(keys), KeysCounted(a, keys, sums, i - 1, b),
         sums[i] = sums[i - 1] + (keys[i] + SizeOf["entry"])
  PROVE  KeysCounted(a, keys, sums, i, CountKey(b, keys[i]))
<1> DEFINE key == keys[i]
           c == CountKey(b, key)
           found == b.uniqueKeys \cup {key}
           longest == Larger(key, b.maxKeySize)
           size == b.sizeInBytes + key + SizeOf["entry"]
           count == b.totalKeys + 1
<1>1. key \in Nat /\ SizeOf["entry"] \in Nat /\ i \in Nat
  BY TraversalAssumption
<1>2. /\ b \in Analyzers /\ IsLargest(b.maxKeySize, {0} \cup b.uniqueKeys)
      /\ a \in Analyzers /\ sums[i - 1] \in Nat
      /\ b.totalKeys = a.totalKeys + (i - 1) /\ b.sizeInBytes = a.sizeInBytes + sums[i - 1]
      /\ b.uniqueKeys = a.uniqueKeys \cup {keys[j] : j \in 1..(i - 1)}
  BY DEF KeysCounted, Measured
<1>3. /\ b.totalKeys \in Nat /\ b.sizeInBytes \in Nat /\ b.maxKeySize \in Nat
      /\ b.uniqueKeys \in SUBSET Nat
      /\ a.totalKeys \in Nat /\ a.sizeInBytes \in Nat
  BY <1>2 DEF Analyzers
<1> HIDE DEF key
<1>4. found \in SUBSET Nat
  BY <1>1, <1>3
<1>5. longest \in Nat /\ size \in Nat /\ count \in Nat
  <2>1. longest \in Nat
    BY <1>1, <1>3 DEF Larger
  <2>2. /\ b.totalKeys \in Nat /\ b.sizeInBytes \in Nat
        /\ key \in Nat /\ SizeOf["entry"] \in Nat
    BY <1>1, <1>3
  <2>3. b.sizeInBytes + key + SizeOf["entry"] \in Nat
    BY <2>2
  <2>4. b.totalKeys + 1 \in Nat
    BY <2>2
  <2> QED BY <2>1, <2>3, <2>4
<1>6. c = [b EXCEPT !.uniqueKeys = found, !.maxKeySize = longest, !.sizeInBytes = size, !.totalKeys = count]
  BY DEF CountKey
<1> HIDE DEF c, found, longest, size, count
<1>7. c \in Analyzers
  BY <1>2, <1>4, <1>5, <1>6 DEF Analyzers
<1>8. /\ c.uniqueKeys = found /\ c.maxKeySize = longest /\ c.sizeInBytes = size /\ c.totalKeys = count
      /\ c.totalNodes = b.totalNodes /\ c.totalIntegers = b.totalIntegers
      /\ c.totalStrings = b.totalStrings /\ c.totalLists = b.totalLists
      /\ c.totalDictionarys = b.totalDictionarys /\ c.uniqueStrings = b.uniqueStrings
      /\ c.maxListSize = b.maxListSize /\ c.maxDictionarySize = b.maxDictionarySize
      /\ c.maxStringSize = b.maxStringSize
  BY <1>2, <1>6 DEF Analyzers
<1>9. Measured(c)
  <2>1. IsLargest(longest, ({0} \cup b.uniqueKeys) \cup {key})
    BY <1>1, <1>2, LargerOne DEF longest
  <2>2. ({0} \cup b.uniqueKeys) \cup {key} = {0} \cup found
    BY DEF found
  <2>3. IsLargest(longest, {0} \cup found)
    BY <2>1, <2>2
  <2> QED BY <1>7, <1>8, <2>3 DEF Measured
<1>10. sums[i] \in Nat /\ size = a.sizeInBytes + sums[i]
  <2> DEFINE entry == SizeOf["entry"]
             sum == sums[i - 1]
  <2>1. sums[i] = sum + (key + entry) /\ size = (a.sizeInBytes + sum) + key + entry
    BY <1>2 DEF size, key
  <2>2. sum \in Nat /\ entry \in Nat /\ key \in Nat /\ a.sizeInBytes \in Nat
    BY <1>1, <1>2, <1>3
  <2> HIDE DEF sum, entry
  <2>3. sum + (key + entry) \in Nat
    BY <2>2
  <2>4. (a.sizeInBytes + sum) + key + entry = a.sizeInBytes + (sum + (key + entry))
    BY <2>2
  <2> QED BY <2>1, <2>3, <2>4
<1>11. count = a.totalKeys + i
  BY <1>1, <1>2, <1>3 DEF count
<1>12. found = a.uniqueKeys \cup {keys[j] : j \in 1..i}
  <2>1. 1..i = 1..(i - 1) \cup {i}
    BY <1>1
  <2> QED BY <1>2, <2>1 DEF found, key
<1>13. KeysCounted(a, keys, sums, i, c)
  BY <1>8, <1>9, <1>10, <1>11, <1>12 DEF KeysCounted
<1> QED BY <1>13 DEF c, key

LEMMA KeysAreCounted ==
  ASSUME NEW a, Measured(a), NEW keys \in Seq(Nat)
  PROVE  \E sums : /\ KeysCounted(a, keys, sums, Len(keys), CountKeys(a, keys))
                   /\ sums[Len(keys)] = Total([i \in DOMAIN keys |-> keys[i] + SizeOf["entry"]])
<1> DEFINE n == Len(keys)
           numbers == [i \in DOMAIN keys |-> keys[i] + SizeOf["entry"]]
           Solves(g, k) == g = [i \in 0..k |-> IF i = 0 THEN a ELSE CountKey(g[i - 1], keys[i])]
           Solved == {k \in Nat : \E g : Solves(g, k)}
<1>1. n \in Nat /\ DOMAIN keys = 1..n
  OBVIOUS
<1>2. DOMAIN numbers = 1..n /\ Len(numbers) = n /\ \A i \in 1..n : numbers[i] = keys[i] + SizeOf["entry"]
  BY <1>1
<1> HIDE DEF numbers, n
<1>3. PICK sums : /\ sums[0] = 0 /\ Total(numbers) = sums[n]
                  /\ \A i \in 1..n : sums[i] = sums[i - 1] + numbers[i]
  BY <1>1, <1>2, TotalRecursion
<1>4. 0 \in Solved
  <2>1. Solves([i \in 0..0 |-> a], 0)
    OBVIOUS
  <2> QED BY <2>1
<1>5. ASSUME NEW k \in Nat, k \in Solved PROVE k + 1 \in Solved
  <2>1. PICK g : Solves(g, k)
    BY <1>5
  <2> DEFINE last == CountKey(g[k], keys[k + 1])
             h == [i \in 0..(k + 1) |-> IF i <= k THEN g[i] ELSE last]
  <2>2. ASSUME NEW i \in 0..(k + 1)
        PROVE  h[i] = IF i = 0 THEN a ELSE CountKey(h[i - 1], keys[i])
    <3>1. CASE i <= k
      <4>1. h[i] = g[i] /\ (i # 0 => h[i - 1] = g[i - 1])
        BY <3>1
      <4>2. g[i] = IF i = 0 THEN a ELSE CountKey(g[i - 1], keys[i])
        <5>1. \A j \in 0..k : g[j] = IF j = 0 THEN a ELSE CountKey(g[j - 1], keys[j])
          BY <2>1
        <5>2. i \in 0..k
          BY <3>1
        <5> QED BY <5>1, <5>2
      <4> QED BY <4>1, <4>2
    <3>2. CASE i = k + 1
      BY <3>2
    <3> QED BY <3>1, <3>2
  <2>3. h = [i \in 0..(k + 1) |-> h[i]]
    OBVIOUS
  <2> HIDE DEF h
  <2>4. Solves(h, k + 1)
    BY <2>2, <2>3
  <2>5. \E f : Solves(f, k + 1)
    BY <2>4
  <2>6. k + 1 \in Nat
    OBVIOUS
  <2> HIDE DEF Solves
  <2> QED BY <2>5, <2>6
<1>6. n \in Solved
  <2> HIDE DEF Solved
  <2>1. \A k \in Nat : k >= 0 /\ k \in Solved => k + 1 \in Solved
    BY <1>5
  <2>2. 0 \in Nat /\ n \in Nat /\ n >= 0
    BY <1>1
  <2> QED BY <1>4, <2>1, <2>2, InductionFrom
<1>7. \E g : Solves(g, n)
  BY <1>6
<1> DEFINE after == CHOOSE g : Solves(g, n)
<1>8. Solves(after, n)
  BY <1>7
<1>9. CountKeys(a, keys) = after[n]
  BY DEF CountKeys, n
<1> HIDE DEF after
<1>10. \A i \in 0..n : after[i] = IF i = 0 THEN a ELSE CountKey(after[i - 1], keys[i])
  BY <1>8
<1> DEFINE Counted == {i \in 0..n : KeysCounted(a, keys, sums, i, after[i])}
<1>11. 0 \in Counted
  <2>1. 0 \in 0..n /\ after[0] = a /\ sums[0] = 0
    BY <1>1, <1>3, <1>10
  <2>2. a.totalKeys \in Nat /\ a.sizeInBytes \in Nat
    BY DEF Measured, Analyzers
  <2>3. KeysCounted(a, keys, sums, 0, a)
    BY <2>1, <2>2 DEF KeysCounted
  <2> QED BY <2>1, <2>3
<1>12. ASSUME NEW i \in 0..n, i < n, i \in Counted PROVE i + 1 \in Counted
  <2> DEFINE j == i + 1
  <2>1. j \in 1..n /\ j \in 0..n /\ j - 1 = i /\ j # 0
    BY <1>1, <1>12
  <2> HIDE DEF j
  <2>2. KeysCounted(a, keys, sums, j - 1, after[j - 1])
    BY <1>12, <2>1
  <2>3. sums[j] = sums[j - 1] + (keys[j] + SizeOf["entry"])
    BY <1>2, <1>3, <2>1
  <2>4. after[j] = CountKey(after[j - 1], keys[j])
    BY <1>10, <2>1
  <2>5. KeysCounted(a, keys, sums, j, CountKey(after[j - 1], keys[j]))
    BY <2>1, <2>2, <2>3, OneKeyCounted DEF n
  <2>6. j \in Counted
    BY <2>1, <2>4, <2>5
  <2> QED BY <2>6 DEF j
<1>13. n \in Counted
  <2> HIDE DEF Counted
  <2>1. 0 \in Int /\ n \in Int /\ n \in 0..n
    BY <1>1
  <2>2. \A i \in 0..n : i \in Counted
    BY <1>11, <1>12, <2>1, InductionUpTo
  <2> QED BY <2>1, <2>2
<1>14. KeysCounted(a, keys, sums, n, CountKeys(a, keys))
  BY <1>9, <1>13
<1> QED BY <1>3, <1>14 DEF n, numbers

LEMMA DictionaryTallied ==
  ASSUME NEW D, Numbered(D), NEW node \in D, node.type = "dictionary", NEW a, Measured(a)
  PROVE  Tallied(a, node, OnDictionary(a, node))
<1> DEFINE n == Len(node.keys)
           entries == Total([i \in DOMAIN node.keys |-> node.keys[i] + SizeOf["entry"]])
           count == a.totalDictionarys + 1
           size == a.sizeInBytes + SizeOf["dictionary"]
           most == Larger(n, a.maxDictionarySize)
           b == [a EXCEPT !.totalDictionarys = @ + 1, !.sizeInBytes = @ + SizeOf["dictionary"],
                          !.maxDictionarySize = Larger(n, @)]
           c == CountKeys(b, node.keys)
<1>1. node.keys \in Seq(Nat) /\ n \in Nat /\ DOMAIN node.keys = 1..n
  <2>1. node.keys \in Seq(Nat)
    BY DEF Numbered
  <2> QED BY <2>1
<1>2. SizeOf["dictionary"] \in Nat
  BY TraversalAssumption DEF ContainerType
<1>3. OnDictionary(a, node) = c
  BY DEF OnDictionary
<1>4. /\ a \in Analyzers /\ IsLargest(a.maxKeySize, {0} \cup a.uniqueKeys)
      /\ a.totalDictionarys \in Nat /\ a.sizeInBytes \in Nat /\ a.maxDictionarySize \in Nat
      /\ a.totalIntegers \in Nat /\ a.totalStrings \in Nat /\ a.totalLists \in Nat
      /\ a.totalKeys \in Nat
  BY DEF Measured, Analyzers
<1> HIDE DEF n
<1>5. count \in Nat /\ size \in Nat /\ most \in Nat
  BY <1>1, <1>2, <1>4, SMTT(40) DEF Larger
<1>6. b = [a EXCEPT !.totalDictionarys = count, !.sizeInBytes = size, !.maxDictionarySize = most]
  OBVIOUS
<1> HIDE DEF b, c, count, size, most
<1>7. b \in Analyzers
  BY <1>4, <1>5, <1>6 DEF Analyzers
<1>8. /\ b.totalDictionarys = count /\ b.sizeInBytes = size /\ b.maxDictionarySize = most
      /\ b.totalNodes = a.totalNodes /\ b.totalIntegers = a.totalIntegers
      /\ b.totalStrings = a.totalStrings /\ b.totalLists = a.totalLists
      /\ b.totalKeys = a.totalKeys /\ b.maxKeySize = a.maxKeySize
      /\ b.uniqueKeys = a.uniqueKeys /\ b.uniqueStrings = a.uniqueStrings
      /\ b.maxListSize = a.maxListSize /\ b.maxStringSize = a.maxStringSize
  BY <1>4, <1>6 DEF Analyzers
<1>9. Measured(b)
  BY <1>4, <1>7, <1>8 DEF Measured
<1>10. PICK sums : KeysCounted(b, node.keys, sums, n, c) /\ sums[n] = entries
  BY <1>1, <1>9, KeysAreCounted DEF c, n
<1>11. Bytes(node) = SizeOf["dictionary"] + entries /\ entries \in Nat
  <2>1. entries \in Nat
    BY <1>10 DEF KeysCounted
  <2>2. node.type # "string" /\ node.type # "list"
    OBVIOUS
  <2>3. Bytes(node) = SizeOf["dictionary"] + 0 + 0 + entries
    BY <2>2 DEF Bytes
  <2> HIDE DEF entries
  <2> QED BY <1>2, <2>1, <2>3
<1> HIDE DEF entries
<1>12. /\ Measured(c)
       /\ c.totalNodes = a.totalNodes /\ c.totalIntegers = a.totalIntegers
       /\ c.totalStrings = a.totalStrings /\ c.totalLists = a.totalLists
       /\ c.totalDictionarys = count /\ c.uniqueStrings = a.uniqueStrings
       /\ c.maxListSize = a.maxListSize /\ c.maxDictionarySize = most
       /\ c.maxStringSize = a.maxStringSize
       /\ c.totalKeys = a.totalKeys + n /\ c.sizeInBytes = size + entries
       /\ c.uniqueKeys = a.uniqueKeys \cup {node.keys[j] : j \in 1..n}
  BY <1>8, <1>10 DEF KeysCounted
<1>13. c.sizeInBytes = a.sizeInBytes + Bytes(node) /\ Bytes(node) \in Nat
  BY <1>2, <1>4, <1>11, <1>12 DEF size
<1>14. KeysOf(node) = {node.keys[j] : j \in 1..n}
  BY <1>1 DEF KeysOf
<1>15. Tallied(a, node, c)
  BY <1>1, <1>4, <1>12, <1>13, <1>14
     DEF Tallied, StringSize, One, StringIn, KeysIn, Widest, count, most, n
<1> QED BY <1>3, <1>15

\* The sequences that AddsUp sums.
Marks(nodes, type) == [i \in DOMAIN nodes |-> IF nodes[i].type = type THEN 1 ELSE 0]
KeyCounts(nodes) == [i \in DOMAIN nodes |-> Len(nodes[i].keys)]
BytesOf(nodes) == [i \in DOMAIN nodes |-> Bytes(nodes[i])]

\* What a last string is compared with.
ComparedWith(from, nodes, i) == {0, nodes[i].val} \cup from.uniqueKeys \cup KeysUpTo(nodes, i)

SizeKept(from, nodes, m) ==
    /\ OfType(nodes, "string") = {} => m = from.maxStringSize
    /\ \A i \in DOMAIN nodes : LastString(nodes, i) => IsLargest(m, ComparedWith(from, nodes, i))

\* AddsUp in a form that says the same while nodes are still being visited:
\* nodes are those seen, visited the number of onNode so far.
Counts(from, nodes, to, visited) ==
    /\ to.totalNodes = from.totalNodes + visited
    /\ Adds(from.totalIntegers, Marks(nodes, "integer"), to.totalIntegers)
    /\ Adds(from.totalStrings, Marks(nodes, "string"), to.totalStrings)
    /\ Adds(from.totalLists, Marks(nodes, "list"), to.totalLists)
    /\ Adds(from.totalDictionarys, Marks(nodes, "dictionary"), to.totalDictionarys)
    /\ Adds(from.totalKeys, KeyCounts(nodes), to.totalKeys)
    /\ Adds(from.sizeInBytes, BytesOf(nodes), to.sizeInBytes)
    /\ to.uniqueStrings = from.uniqueStrings \cup {node.val : node \in OfType(nodes, "string")}
    /\ to.uniqueKeys = from.uniqueKeys \cup UNION {KeysOf(node) : node \in OfType(nodes, "dictionary")}
    /\ IsLargest(to.maxListSize,
                 {from.maxListSize} \cup {Len(node.items) : node \in OfType(nodes, "list")})
    /\ IsLargest(to.maxDictionarySize,
                 {from.maxDictionarySize} \cup {Len(node.keys) : node \in OfType(nodes, "dictionary")})
    /\ SizeKept(from, nodes, to.maxStringSize)

LEMMA CountsFollow ==
  ASSUME NEW from, NEW nodes, NEW to, Measured(to), Counts(from, nodes, to, Len(nodes))
  PROVE  AddsUp(from, nodes, to)
<1>1. /\ to.maxKeySize = Max({0} \cup to.uniqueKeys)
      /\ to.maxListSize =
           Max({from.maxListSize} \cup {Len(node.items) : node \in OfType(nodes, "list")})
      /\ to.maxDictionarySize =
           Max({from.maxDictionarySize} \cup {Len(node.keys) : node \in OfType(nodes, "dictionary")})
  BY LargestIs DEF Measured, Counts
<1>2. StringSizeKept(from, nodes, to)
  <2>1. SizeKept(from, nodes, to.maxStringSize)
    BY DEF Counts
  <2>2. ASSUME NEW i \in DOMAIN nodes, LastString(nodes, i)
        PROVE  to.maxStringSize = Max(ComparedWith(from, nodes, i))
    BY <2>1, <2>2, LargestIs DEF SizeKept
  <2> QED BY <2>1, <2>2 DEF SizeKept, StringSizeKept, ComparedWith
<1> QED BY <1>1, <1>2 DEF AddsUp, Counts, Adds, Marks, KeyCounts, BytesOf, CountOf

(* Before the first node.                                                  *)
LEMMA CountsNone ==
  ASSUME NEW a, Measured(a)
  PROVE  Counts(a, <<>>, a, 0)
<1>1. /\ a.totalNodes \in Nat /\ a.totalIntegers \in Nat /\ a.totalStrings \in Nat
      /\ a.totalLists \in Nat /\ a.totalDictionarys \in Nat /\ a.totalKeys \in Nat
      /\ a.sizeInBytes \in Nat /\ a.maxListSize \in Nat /\ a.maxDictionarySize \in Nat
  BY DEF Measured, Analyzers
<1> DEFINE none == <<>>
<1>2. DOMAIN none = {}
  OBVIOUS
<1>3. /\ \A type : Marks(none, type) = <<>>
      /\ KeyCounts(none) = <<>> /\ BytesOf(none) = <<>>
  BY DEF Marks, KeyCounts, BytesOf
<1> HIDE DEF none
<1>4. \A type : OfType(none, type) = {}
  BY <1>2 DEF OfType
<1>5. /\ Adds(a.totalIntegers, Marks(none, "integer"), a.totalIntegers)
      /\ Adds(a.totalStrings, Marks(none, "string"), a.totalStrings)
      /\ Adds(a.totalLists, Marks(none, "list"), a.totalLists)
      /\ Adds(a.totalDictionarys, Marks(none, "dictionary"), a.totalDictionarys)
      /\ Adds(a.totalKeys, KeyCounts(none), a.totalKeys)
      /\ Adds(a.sizeInBytes, BytesOf(none), a.sizeInBytes)
  BY <1>1, <1>3, AddsNone
<1>6. \A m \in Nat : IsLargest(m, {m} \cup {})
  BY DEF IsLargest
<1>7. /\ {node.val : node \in OfType(none, "string")} = {}
      /\ UNION {KeysOf(node) : node \in OfType(none, "dictionary")} = {}
      /\ {Len(node.items) : node \in OfType(none, "list")} = {}
      /\ {Len(node.keys) : node \in OfType(none, "dictionary")} = {}
  BY <1>4
<1>8. Counts(a, none, a, 0)
  <2>1. a.totalNodes = a.totalNodes + 0
    BY <1>1
  <2>2. a.uniqueStrings = a.uniqueStrings \cup {} /\ a.uniqueKeys = a.uniqueKeys \cup {}
    OBVIOUS
  <2>3. /\ IsLargest(a.maxListSize, {a.maxListSize} \cup {})
        /\ IsLargest(a.maxDictionarySize, {a.maxDictionarySize} \cup {})
    BY <1>1, <1>6
  <2>4. SizeKept(a, none, a.maxStringSize)
    BY <1>2 DEF SizeKept
  <2> QED BY <1>5, <1>7, <2>1, <2>2, <2>3, <2>4, Zenon DEF Counts
<1> QED BY <1>8 DEF none

(* One node more.                                                          *)
OneMoreNode(nodes, node, all) ==
    \E n \in Nat :
        /\ DOMAIN nodes = 1..n /\ DOMAIN all = 1..(n + 1)
        /\ \A i \in 1..n : all[i] = nodes[i]
        /\ all[n + 1] = node

LEMMA NodesGrow ==
  ASSUME NEW nodes, NEW node, NEW all, OneMoreNode(nodes, node, all)
  PROVE  /\ \A type : Grown(Marks(nodes, type), Marks(all, type), One(node, type))
         /\ Grown(KeyCounts(nodes), KeyCounts(all), Len(node.keys))
         /\ Grown(BytesOf(nodes), BytesOf(all), Bytes(node))
<1>1. PICK n \in Nat : /\ DOMAIN nodes = 1..n /\ DOMAIN all = 1..(n + 1)
                       /\ \A i \in 1..n : all[i] = nodes[i]
                       /\ all[n + 1] = node
  BY DEF OneMoreNode
<1>2. ASSUME NEW s, NEW t, NEW x, DOMAIN s = 1..n, s = [i \in DOMAIN s |-> s[i]],
             t = [i \in 1..(n + 1) |-> t[i]], \A i \in 1..n : t[i] = s[i], t[n + 1] = x
      PROVE  Grown(s, t, x)
  <2>1. s = [i \in 1..n |-> s[i]]
    BY <1>2
  <2>2. ASSUME NEW i \in 1..(n + 1) PROVE t[i] = IF i <= n THEN s[i] ELSE x
    <3>1. CASE i <= n
      <4>1. i \in 1..n
        BY <3>1
      <4> QED BY <1>2, <3>1, <4>1
    <3>2. CASE ~(i <= n)
      <4>1. i = n + 1
        BY <3>2
      <4> QED BY <1>2, <3>2, <4>1
    <3> QED BY <3>1, <3>2
  <2>3. t = [i \in 1..(n + 1) |-> IF i <= n THEN s[i] ELSE x]
    BY <1>2, <2>2
  <2> QED BY <2>1, <2>3 DEF Grown
<1>3. n + 1 \in 1..(n + 1) /\ \A i \in 1..n : i \in 1..(n + 1)
  OBVIOUS
<1>4. ASSUME NEW type PROVE Grown(Marks(nodes, type), Marks(all, type), One(node, type))
  <2> DEFINE s == Marks(nodes, type)
             t == Marks(all, type)
  <2>1. DOMAIN s = 1..n /\ s = [i \in DOMAIN s |-> s[i]] /\ t = [i \in 1..(n + 1) |-> t[i]]
    BY <1>1 DEF Marks
  <2>2. (\A i \in 1..n : t[i] = s[i]) /\ t[n + 1] = One(node, type)
    BY <1>1, <1>3 DEF Marks, One
  <2> HIDE DEF s, t
  <2>3. Grown(s, t, One(node, type))
    BY <1>2, <2>1, <2>2
  <2> QED BY <2>3 DEF s, t
<1>5. Grown(KeyCounts(nodes), KeyCounts(all), Len(node.keys))
  <2> DEFINE s == KeyCounts(nodes)
             t == KeyCounts(all)
  <2>1. DOMAIN s = 1..n /\ s = [i \in DOMAIN s |-> s[i]] /\ t = [i \in 1..(n + 1) |-> t[i]]
    BY <1>1 DEF KeyCounts
  <2>2. (\A i \in 1..n : t[i] = s[i]) /\ t[n + 1] = Len(node.keys)
    BY <1>1, <1>3 DEF KeyCounts
  <2> HIDE DEF s, t
  <2>3. Grown(s, t, Len(node.keys))
    BY <1>2, <2>1, <2>2
  <2> QED BY <2>3 DEF s, t
<1>6. Grown(BytesOf(nodes), BytesOf(all), Bytes(node))
  <2> DEFINE s == BytesOf(nodes)
             t == BytesOf(all)
  <2>1. DOMAIN s = 1..n /\ s = [i \in DOMAIN s |-> s[i]] /\ t = [i \in 1..(n + 1) |-> t[i]]
    BY <1>1 DEF BytesOf
  <2>2. (\A i \in 1..n : t[i] = s[i]) /\ t[n + 1] = Bytes(node)
    BY <1>1, <1>3 DEF BytesOf
  <2> HIDE DEF s, t
  <2>3. Grown(s, t, Bytes(node))
    BY <1>2, <2>1, <2>2
  <2> QED BY <2>3 DEF s, t
<1> QED BY <1>4, <1>5, <1>6

LEMMA TypesGrow ==
  ASSUME NEW nodes, NEW node, NEW all, OneMoreNode(nodes, node, all), NEW type
  PROVE  OfType(all, type) = OfType(nodes, type) \cup (IF node.type = type THEN {node} ELSE {})
<1>1. PICK n \in Nat : /\ DOMAIN nodes = 1..n /\ DOMAIN all = 1..(n + 1)
                       /\ \A i \in 1..n : all[i] = nodes[i]
                       /\ all[n + 1] = node
  BY DEF OneMoreNode
<1>2. \A x : x \in OfType(nodes, type) <=> \E i \in 1..n : x = nodes[i] /\ nodes[i].type = type
  BY <1>1 DEF OfType
<1>3. \A x : x \in OfType(all, type) <=> \E i \in 1..(n + 1) : x = all[i] /\ all[i].type = type
  BY <1>1 DEF OfType
<1>4. 1..(n + 1) = 1..n \cup {n + 1}
  OBVIOUS
<1>5. \A x : x \in OfType(all, type) <=>
                \/ \E i \in 1..n : x = nodes[i] /\ nodes[i].type = type
                \/ x = node /\ node.type = type
  BY <1>1, <1>3, <1>4
<1> QED BY <1>2, <1>5

LEMMA SizeOneMore ==
  ASSUME NEW from, NEW a, Measured(a), NEW nodes, NEW visited, Counts(from, nodes, a, visited),
         NEW node, NEW b, Tallied(a, node, b), NEW all, OneMoreNode(nodes, node, all)
  PROVE  SizeKept(from, all, b.maxStringSize)
<1>1. PICK n \in Nat : /\ DOMAIN nodes = 1..n /\ DOMAIN all = 1..(n + 1)
                       /\ \A i \in 1..n : all[i] = nodes[i]
                       /\ all[n + 1] = node
  BY DEF OneMoreNode
<1>2. OfType(all, "string") = OfType(nodes, "string") \cup (IF node.type = "string" THEN {node} ELSE {})
  BY TypesGrow
<1>3. SizeKept(from, nodes, a.maxStringSize) /\ b.maxStringSize = StringSize(node, a)
  BY DEF Counts, Tallied
<1>4. CASE node.type = "string"
  <2> DEFINE S == {0} \cup a.uniqueKeys
  <2>1. node.val \in Nat /\ b.maxStringSize = Larger(node.val, a.maxKeySize)
    BY <1>3, <1>4 DEF Tallied, StringSize
  <2>2. IsLargest(a.maxKeySize, S)
    BY DEF Measured
  <2>3. IsLargest(b.maxStringSize, S \cup {node.val})
    BY <2>1, <2>2, LargerOne
  <2>4. ASSUME NEW i \in DOMAIN all, LastString(all, i)
        PROVE  IsLargest(b.maxStringSize, ComparedWith(from, all, i))
    <3>1. n + 1 \in DOMAIN all /\ all[n + 1].type = "string"
      BY <1>1, <1>4
    <3>2. i = n + 1
      <4>1. n + 1 <= i /\ i \in 1..(n + 1)
        BY <1>1, <2>4, <3>1 DEF LastString
      <4> QED BY <4>1
    <3>3. KeysUpTo(all, i) = UNION {KeysOf(x) : x \in OfType(nodes, "dictionary")}
      <4> DEFINE old == {KeysOf(x) : x \in OfType(nodes, "dictionary")}
                 places == {k \in DOMAIN all : k <= i /\ all[k].type = "dictionary"}
                 new == {KeysOf(all[k]) : k \in places}
      <4>1. \A k : k \in places <=> k \in 1..n /\ nodes[k].type = "dictionary"
        BY <1>1, <1>4, <3>2
      <4>2. OfType(nodes, "dictionary") = {nodes[k] : k \in places}
        BY <1>1, <4>1 DEF OfType
      <4>3. \A k \in places : all[k] = nodes[k]
        BY <1>1, <4>1
      <4> HIDE DEF places
      <4>4. new = old
        BY <4>2, <4>3
      <4> HIDE DEF new, old
      <4>5. UNION new = UNION old
        BY <4>4
      <4> QED BY <4>5 DEF KeysUpTo, new, old, places
    <3>4. a.uniqueKeys = from.uniqueKeys \cup KeysUpTo(all, i)
      BY <3>3 DEF Counts
    <3>5. ComparedWith(from, all, i) = S \cup {node.val}
      BY <1>1, <3>2, <3>4 DEF ComparedWith
    <3> QED BY <2>3, <3>5
  <2> QED BY <1>2, <1>4, <2>4 DEF SizeKept
<1>5. CASE node.type # "string"
  <2>1. b.maxStringSize = a.maxStringSize
    BY <1>3, <1>5 DEF StringSize
  <2>2. OfType(all, "string") = OfType(nodes, "string")
    BY <1>2, <1>5
  <2>3. ASSUME NEW i \in DOMAIN all, LastString(all, i)
        PROVE  IsLargest(b.maxStringSize, ComparedWith(from, all, i))
    <3>1. i \in 1..n
      <4>1. i \in 1..(n + 1) /\ i # n + 1
        BY <1>1, <1>5, <2>3 DEF LastString
      <4> QED BY <4>1
    <3>2. LastString(nodes, i)
      <4>1. \A j \in 1..n : j \in DOMAIN all /\ all[j] = nodes[j]
        BY <1>1
      <4> QED BY <1>1, <2>3, <3>1, <4>1 DEF LastString
    <3>3. KeysUpTo(all, i) = KeysUpTo(nodes, i)
      <4> DEFINE old == {k \in DOMAIN nodes : k <= i /\ nodes[k].type = "dictionary"}
                 new == {k \in DOMAIN all : k <= i /\ all[k].type = "dictionary"}
      <4>1. old = new /\ \A k \in old : all[k] = nodes[k]
        BY <1>1, <3>1
      <4> HIDE DEF old, new
      <4>2. {KeysOf(all[k]) : k \in new} = {KeysOf(nodes[k]) : k \in old}
        BY <4>1
      <4> QED BY <4>2 DEF KeysUpTo, old, new
    <3>4. ComparedWith(from, all, i) = ComparedWith(from, nodes, i)
      BY <1>1, <3>1, <3>3 DEF ComparedWith
    <3> QED BY <1>1, <1>3, <2>1, <3>1, <3>2, <3>4 DEF SizeKept
  <2> QED BY <1>3, <2>1, <2>2, <2>3 DEF SizeKept
<1> QED BY <1>4, <1>5

LEMMA CountsOneMore ==
  ASSUME NEW from, Measured(from), NEW a, Measured(a), NEW nodes, NEW visited,
         Counts(from, nodes, a, visited),
         NEW node, NEW b, Tallied(a, node, b), NEW all, OneMoreNode(nodes, node, all)
  PROVE  Counts(from, all, b, visited)
<1>1. /\ from.totalIntegers \in Nat /\ from.totalStrings \in Nat /\ from.totalLists \in Nat
      /\ from.totalDictionarys \in Nat /\ from.totalKeys \in Nat /\ from.sizeInBytes \in Nat
      /\ from.maxListSize \in Nat /\ from.maxDictionarySize \in Nat
  BY DEF Measured, Analyzers
<1>2. Bytes(node) \in Nat /\ Len(node.keys) \in Nat /\ \A type : One(node, type) \in Nat
  BY DEF Tallied, One
<1>3. /\ Adds(from.totalIntegers, Marks(all, "integer"), b.totalIntegers)
      /\ Adds(from.totalStrings, Marks(all, "string"), b.totalStrings)
      /\ Adds(from.totalLists, Marks(all, "list"), b.totalLists)
      /\ Adds(from.totalDictionarys, Marks(all, "dictionary"), b.totalDictionarys)
  <2>1. /\ Adds(from.totalIntegers, Marks(all, "integer"), a.totalIntegers + One(node, "integer"))
        /\ Adds(from.totalStrings, Marks(all, "string"), a.totalStrings + One(node, "string"))
        /\ Adds(from.totalLists, Marks(all, "list"), a.totalLists + One(node, "list"))
        /\ Adds(from.totalDictionarys, Marks(all, "dictionary"),
                a.totalDictionarys + One(node, "dictionary"))
    BY <1>1, <1>2, NodesGrow, AddsOne DEF Counts
  <2> QED BY <2>1 DEF Tallied
<1>4. Adds(from.totalKeys, KeyCounts(all), b.totalKeys)
  <2>1. Adds(from.totalKeys, KeyCounts(all), a.totalKeys + Len(node.keys))
    BY <1>1, <1>2, NodesGrow, AddsOne DEF Counts
  <2> QED BY <2>1 DEF Tallied
<1>5. Adds(from.sizeInBytes, BytesOf(all), b.sizeInBytes)
  <2>1. Adds(from.sizeInBytes, BytesOf(all), a.sizeInBytes + Bytes(node))
    BY <1>1, <1>2, NodesGrow, AddsOne DEF Counts
  <2> QED BY <2>1 DEF Tallied
<1>6. b.uniqueStrings = from.uniqueStrings \cup {x.val : x \in OfType(all, "string")}
  <2>1. OfType(all, "string") = OfType(nodes, "string") \cup (IF node.type = "string" THEN {node} ELSE {})
    BY TypesGrow
  <2>2. {x.val : x \in OfType(all, "string")}
          = {x.val : x \in OfType(nodes, "string")} \cup StringIn(node)
    BY <2>1 DEF StringIn
  <2> QED BY <2>2 DEF Counts, Tallied
<1>7. b.uniqueKeys = from.uniqueKeys \cup UNION {KeysOf(x) : x \in OfType(all, "dictionary")}
  <2>1. OfType(all, "dictionary")
          = OfType(nodes, "dictionary") \cup (IF node.type = "dictionary" THEN {node} ELSE {})
    BY TypesGrow
  <2>2. UNION {KeysOf(x) : x \in OfType(all, "dictionary")}
          = (UNION {KeysOf(x) : x \in OfType(nodes, "dictionary")}) \cup KeysIn(node)
    <3> DEFINE old == {KeysOf(x) : x \in OfType(nodes, "dictionary")}
               new == {KeysOf(x) : x \in OfType(all, "dictionary")}
    <3>1. new = IF node.type = "dictionary" THEN old \cup {KeysOf(node)} ELSE old
      BY <2>1
    <3> HIDE DEF old, new
    <3>2. \A S, k : UNION (S \cup {k}) = (UNION S) \cup k
      OBVIOUS
    <3>3. UNION new = (UNION old) \cup KeysIn(node)
      <4>1. CASE node.type = "dictionary"
        <5>1. new = old \cup {KeysOf(node)} /\ KeysIn(node) = KeysOf(node)
          BY <3>1, <4>1 DEF KeysIn
        <5> QED BY <3>2, <5>1
      <4>2. CASE node.type # "dictionary"
        <5>1. new = old /\ KeysIn(node) = {}
          BY <3>1, <4>2 DEF KeysIn
        <5>2. UNION old = (UNION old) \cup {}
          OBVIOUS
        <5> QED BY <5>1, <5>2
      <4> QED BY <4>1, <4>2
    <3> QED BY <3>3 DEF old, new
  <2> DEFINE old == UNION {KeysOf(x) : x \in OfType(nodes, "dictionary")}
             new == UNION {KeysOf(x) : x \in OfType(all, "dictionary")}
  <2>3. /\ b.uniqueKeys = a.uniqueKeys \cup KeysIn(node)
        /\ a.uniqueKeys = from.uniqueKeys \cup old /\ new = old \cup KeysIn(node)
    <3>1. b.uniqueKeys = a.uniqueKeys \cup KeysIn(node)
      BY DEF Tallied
    <3>2. a.uniqueKeys = from.uniqueKeys \cup old
      BY DEF Counts
    <3> QED BY <2>2, <3>1, <3>2
  <2> HIDE DEF old, new
  <2>4. b.uniqueKeys = from.uniqueKeys \cup new
    BY <2>3
  <2> QED BY <2>4 DEF new
<1>8. IsLargest(b.maxListSize, {from.maxListSize} \cup {Len(x.items) : x \in OfType(all, "list")})
  <2> DEFINE S == {from.maxListSize} \cup {Len(x.items) : x \in OfType(nodes, "list")}
             T == {from.maxListSize} \cup {Len(x.items) : x \in OfType(all, "list")}
             size == Len(node.items)
  <2>1. OfType(all, "list") = OfType(nodes, "list") \cup (IF node.type = "list" THEN {node} ELSE {})
    BY TypesGrow
  <2>2. IsLargest(a.maxListSize, S) /\ b.maxListSize = Widest(node, "list", size, a.maxListSize)
    BY DEF Counts, Tallied
  <2>3. CASE node.type = "list"
    <3>1. T = S \cup {size}
      BY <2>1, <2>3
    <3>2. size \in Nat
      BY <2>3 DEF Tallied
    <3> HIDE DEF S, T, size
    <3>3. IsLargest(Larger(size, a.maxListSize), S \cup {size})
      BY <2>2, <3>2, LargerOne
    <3>4. IsLargest(b.maxListSize, T)
      BY <2>2, <2>3, <3>1, <3>3 DEF Widest
    <3> QED BY <3>4 DEF T
  <2>4. CASE node.type # "list"
    <3>1. T = S
      BY <2>1, <2>4
    <3> QED BY <2>2, <2>4, <3>1 DEF Widest
  <2> QED BY <2>3, <2>4
<1>9. IsLargest(b.maxDictionarySize,
                {from.maxDictionarySize} \cup {Len(x.keys) : x \in OfType(all, "dictionary")})
  <2> DEFINE S == {from.maxDictionarySize} \cup {Len(x.keys) : x \in OfType(nodes, "dictionary")}
             T == {from.maxDictionarySize} \cup {Len(x.keys) : x \in OfType(all, "dictionary")}
             size == Len(node.keys)
  <2>1. OfType(all, "dictionary")
          = OfType(nodes, "dictionary") \cup (IF node.type = "dictionary" THEN {node} ELSE {})
    BY TypesGrow
  <2>2. /\ IsLargest(a.maxDictionarySize, S)
        /\ b.maxDictionarySize = Widest(node, "dictionary", size, a.maxDictionarySize)
    BY DEF Counts, Tallied
  <2>3. CASE node.type = "dictionary"
    <3>1. T = S \cup {size}
      BY <2>1, <2>3
    <3>2. size \in Nat
      BY <1>2
    <3> HIDE DEF S, T, size
    <3>3. IsLargest(Larger(size, a.maxDictionarySize), S \cup {size})
      BY <2>2, <3>2, LargerOne
    <3>4. IsLargest(b.maxDictionarySize, T)
      BY <2>2, <2>3, <3>1, <3>3 DEF Widest
    <3> QED BY <3>4 DEF T
  <2>4. CASE node.type # "dictionary"
    <3>1. T = S
      BY <2>1, <2>4
    <3> QED BY <2>2, <2>4, <3>1 DEF Widest
  <2> QED BY <2>3, <2>4
<1>10. b.totalNodes = from.totalNodes + visited
  BY DEF Counts, Tallied
<1>11. SizeKept(from, all, b.maxStringSize)
  BY SizeOneMore
<1> QED BY <1>3, <1>4, <1>5, <1>6, <1>7, <1>8, <1>9, <1>10, <1>11 DEF Counts

(* onNode counts the node.                                                 *)
LEMMA NodeCounted ==
  ASSUME NEW a, Measured(a), NEW node
  PROVE  /\ Measured(OnNode(a, node))
         /\ \A from, nodes : \A visited \in Nat :
               /\ from.totalNodes \in Nat /\ Counts(from, nodes, a, visited)
               => Counts(from, nodes, OnNode(a, node), visited + 1)
<1> DEFINE b == OnNode(a, node)
           count == a.totalNodes + 1
<1>1. a \in Analyzers /\ IsLargest(a.maxKeySize, {0} \cup a.uniqueKeys)
  BY DEF Measured
<1>2. count \in Nat /\ a.totalNodes \in Nat
  BY <1>1 DEF Analyzers
<1>3. b = [a EXCEPT !.totalNodes = count]
  BY DEF OnNode
<1> HIDE DEF b, count
<1>4. b \in Analyzers
  BY <1>1, <1>2, <1>3 DEF Analyzers
<1>5. /\ b.totalNodes = count /\ b.totalIntegers = a.totalIntegers
      /\ b.totalStrings = a.totalStrings /\ b.totalLists = a.totalLists
      /\ b.totalDictionarys = a.totalDictionarys /\ b.totalKeys = a.totalKeys
      /\ b.sizeInBytes = a.sizeInBytes /\ b.maxKeySize = a.maxKeySize
      /\ b.uniqueKeys = a.uniqueKeys /\ b.uniqueStrings = a.uniqueStrings
      /\ b.maxListSize = a.maxListSize /\ b.maxDictionarySize = a.maxDictionarySize
      /\ b.maxStringSize = a.maxStringSize
  BY <1>1, <1>3 DEF Analyzers
<1>6. Measured(b)
  BY <1>1, <1>4, <1>5 DEF Measured
<1>7. ASSUME NEW from, NEW nodes, NEW visited \in Nat, from.totalNodes \in Nat,
             Counts(from, nodes, a, visited)
      PROVE  Counts(from, nodes, b, visited + 1)
  <2>1. a.totalNodes = from.totalNodes + visited
    BY <1>7 DEF Counts
  <2>2. b.totalNodes = from.totalNodes + (visited + 1)
    BY <1>5, <1>7, <2>1 DEF count
  <2> QED BY <1>5, <1>7, <2>2, Zenon DEF Counts
<1> QED BY <1>6, <1>7 DEF b

(* The callbacks of the analyzer.                                          *)
LEMMA CallbackTallied ==
  ASSUME NEW D, Complete(D), Numbered(D), Measured(analyzer), Top.node \in D,
         VisitInteger \/ VisitString \/ VisitContainer
  PROVE  Tallied(analyzer, Top.node, analyzer')
<1> DEFINE node == Top.node
<1>1. CASE VisitInteger
  <2>1. node.type = "integer" /\ analyzer' = OnInteger(analyzer, node)
    BY <1>1 DEF VisitInteger, Typed
  <2> QED BY <2>1, IntegerTallied
<1>2. CASE VisitString
  <2>1. node.type = "string" /\ analyzer' = OnString(analyzer, node)
    BY <1>2 DEF VisitString, Typed
  <2> QED BY <2>1, StringTallied
<1>3. CASE VisitContainer
  <2>1. CASE node.type = "dictionary" /\ analyzer' = OnDictionary(analyzer, node)
    BY <2>1, DictionaryTallied
  <2>2. CASE node.type = "list" /\ analyzer' = OnList(analyzer, node)
    BY <2>2, ListTallied
  <2> QED BY <1>3, <2>1, <2>2 DEF VisitContainer, Typed
<1> QED BY <1>1, <1>2, <1>3

\* Only documents whose strings and keys have sizes can be measured.
MeasuredInv(D) == Numbered(D) => Measured(analyzer) /\ Measured(before)

------------------------------------------------------------------------------
(* The walk.  seen are the nodes whose callbacks have all been made, rest   *)
(* those that are still to come.                                            *)

Whole(nodes) == \A i \in DOMAIN nodes : nodes[i].type # "hole"

\* The nodes of a tree that get callbacks.
UpToHole(nodes) ==
    IF HolesIn(nodes) = {} THEN nodes ELSE SubSeq(nodes, 1, Min(HolesIn(nodes)))

\* Between two nodes.
Reached(D, seen, rest) ==
    /\ seen \in Seq(D) /\ rest \in Seq(D)
    /\ Whole(seen)
    /\ Preorder(root) = seen \o rest
    /\ calls = CallsFor(seen)
    /\ Numbered(D) => Counts(before, seen, analyzer, Len(seen))

\* Between onNode for the node and the callback for its type.
Halfway(D, seen, node, rest) ==
    /\ seen \in Seq(D) /\ node \in D /\ rest \in Seq(D)
    /\ Whole(seen)
    /\ Preorder(root) = seen \o (<< node >> \o rest)
    /\ calls = CallsFor(seen) \o OnNodeCall(node)
    /\ Numbered(D) => Counts(before, seen, analyzer, Len(seen) + 1)

\* The frames below the innermost have called for their nodes.
Walking(D, top, outer) ==
    /\ outcome = "running" /\ walk = << top >> \o outer
    /\ top \in Frames(D) /\ outer \in Seq(Frames(D))
    /\ \A i \in DOMAIN outer : outer[i].entry # -1

ReachedInv(D) ==
    \E seen, rest \in Seq(D) :
        /\ Reached(D, seen, rest)
        /\ \/ outcome = "thrown"
           \/ outcome = "ok" /\ rest = <<>>
           \/ \E top \in Frames(D), outer \in Seq(Frames(D)) :
                 /\ Walking(D, top, outer)
                 /\ top.entry # -1 /\ rest = RestOf(top) \o Rests(D, outer)

HalfwayInv(D) ==
    \E seen, rest \in Seq(D), node \in D :
        /\ Halfway(D, seen, node, rest)
        /\ \/ outcome = "thrown"
           \/ outcome = "Error" /\ node.type = "hole"
           \/ \E outer \in Seq(Frames(D)) :
                 /\ Walking(D, Place(node, -1), outer)
                 /\ rest = RestOf(Place(node, -1)) \o Rests(D, outer)

WalkInv(D) ==
    \/ root = EmptyNode /\ calls = <<>> /\ outcome \in {"none", "Error"}
    \/ root \in D /\ root # EmptyNode /\ (ReachedInv(D) \/ HalfwayInv(D))

------------------------------------------------------------------------------
(* What the invariant says of the property: the callbacks so far are those  *)
(* for the first nodes.                                                     *)

LEMMA PrefixOfJoined ==
  ASSUME NEW T, NEW s \in Seq(T), NEW t \in Seq(T)
  PROVE  IsPrefix(s, s \o t)
<1> DEFINE u == s \o t
           n == Len(s)
<1>1. /\ u \in Seq(T) /\ Len(u) = n + Len(t) /\ n \in Nat /\ Len(t) \in Nat
      /\ \A i \in 1..n : u[i] = s[i]
  OBVIOUS
<1> HIDE DEF u
<1>2. /\ SubSeq(u, 1, n) \in Seq(T) /\ Len(SubSeq(u, 1, n)) = n
      /\ \A i \in 1..n : SubSeq(u, 1, n)[i] = u[i]
  BY <1>1
<1>3. SubSeq(u, 1, n) = s
  BY <1>1, <1>2, SeqEqual
<1>4. SubSeq(s, 1, n) = s
  BY SubSeqFull
<1> QED BY <1>1, <1>3, <1>4 DEF IsPrefix, u, n

(* The nodes that get callbacks, after those without a hole: all of the     *)
(* rest, or the rest up to the first hole.                                  *)
CutIn(seen, rest) ==
    \E more \in 0..Len(rest) :
        /\ UpToHole(seen \o rest) = seen \o SubSeq(rest, 1, more)
        /\ rest # <<>> => more # 0
        /\ rest # <<>> /\ rest[1].type = "hole" => more = 1 /\ HolesIn(seen \o rest) # {}
        /\ rest = <<>> => HolesIn(seen \o rest) = {}

LEMMA CutAtHole ==
  ASSUME NEW D, NEW seen \in Seq(D), NEW rest \in Seq(D), Whole(seen)
  PROVE  CutIn(seen, rest)
<1> DEFINE nodes == seen \o rest
           holes == HolesIn(nodes)
           n == Len(seen)
           r == Len(rest)
<1>1. /\ nodes \in Seq(D) /\ Len(nodes) = n + r /\ n \in Nat /\ r \in Nat
      /\ \A i \in 1..n : nodes[i] = seen[i] /\ seen[i].type # "hole"
      /\ \A i \in 1..r : nodes[n + i] = rest[i]
  BY DEF Whole
<1>2. \A i : i \in holes <=> i \in 1..(n + r) /\ nodes[i].type = "hole"
  BY <1>1 DEF HolesIn
<1>3. r = 0 <=> rest = <<>>
  OBVIOUS
<1> HIDE DEF nodes, holes, n, r
<1>4. CASE holes = {}
  <2>1. r \in 0..Len(rest) /\ SubSeq(rest, 1, r) = rest
    BY <1>1, SubSeqFull DEF r
  <2>2. ASSUME rest # <<>>, rest[1].type = "hole" PROVE FALSE
    <3>1. 1 \in 1..r /\ n + 1 \in 1..(n + r)
      BY <1>1, <1>3, <2>2
    <3>2. nodes[n + 1] = rest[1]
      BY <1>1, <3>1
    <3>3. n + 1 \in holes
      BY <1>2, <2>2, <3>1, <3>2
    <3> QED BY <1>4, <3>3
  <2> QED BY <1>3, <1>4, <2>1, <2>2 DEF CutIn, UpToHole, nodes, holes, r
<1>5. CASE holes # {}
  <2> DEFINE m == Min(holes)
  <2>1. m \in holes /\ \A i \in holes : m <= i
    <3>1. holes \in SUBSET Nat
      BY <1>1, <1>2
    <3>2. \E i \in holes : \A j \in holes : i <= j
      BY <1>5, <3>1, LeastNumber
    <3> QED BY <3>2 DEF Min
  <2> HIDE DEF m
  <2>2. m \in 1..(n + r) /\ ~(m <= n)
    <3>1. m \in 1..(n + r) /\ nodes[m].type = "hole"
      BY <1>2, <2>1
    <3>2. ASSUME m <= n PROVE FALSE
      <4>1. m \in 1..n
        BY <1>1, <3>1, <3>2
      <4>2. nodes[m] = seen[m] /\ seen[m].type # "hole"
        BY <1>1, <4>1
      <4> QED BY <3>1, <4>2
    <3> QED BY <3>1, <3>2
  <2> DEFINE more == m - n
  <2>3. more \in 0..r /\ more # 0 /\ m = n + more /\ more \in Nat /\ m \in Nat
    BY <1>1, <2>2
  <2>4. SubSeq(nodes, 1, m) = seen \o SubSeq(rest, 1, more)
    <3> DEFINE a == SubSeq(nodes, 1, m)
               b == SubSeq(rest, 1, more)
    <3>1. a \in Seq(D) /\ Len(a) = m /\ \A i \in 1..m : a[i] = nodes[i]
      BY <1>1, <2>2
    <3>2. b \in Seq(D) /\ Len(b) = more /\ \A i \in 1..more : b[i] = rest[i]
      BY <1>1, <2>3 DEF r
    <3> HIDE DEF a, b, more
    <3>3. /\ seen \o b \in Seq(D) /\ Len(seen \o b) = n + more
          /\ \A i \in 1..(n + more) : (seen \o b)[i] = IF i <= n THEN seen[i] ELSE b[i - n]
      BY <3>2, ConcatProperties DEF n
    <3>4. ASSUME NEW i \in 1..m PROVE a[i] = (seen \o b)[i]
      <4>1. CASE i <= n
        <5>1. i \in 1..n /\ i \in 1..(n + more)
          BY <1>1, <2>3, <4>1
        <5>2. nodes[i] = seen[i]
          BY <1>1, <5>1
        <5> QED BY <3>1, <3>3, <4>1, <5>1, <5>2
      <4>2. CASE ~(i <= n)
        <5>1. i - n \in 1..more /\ i - n \in 1..r /\ i = n + (i - n)
          BY <1>1, <2>3, <4>2
        <5>2. nodes[i] = rest[i - n]
          BY <1>1, <5>1
        <5> QED BY <2>3, <3>1, <3>2, <3>3, <4>2, <5>1, <5>2
      <4> QED BY <4>1, <4>2
    <3>5. a = seen \o b
      BY <2>3, <3>1, <3>3, <3>4, SeqEqual
    <3> QED BY <3>5 DEF a, b
  <2>5. rest # <<>>
    BY <1>1, <1>3, <2>2
  <2>6. ASSUME rest[1].type = "hole" PROVE more = 1
    <3>1. 1 \in 1..r /\ n + 1 \in 1..(n + r)
      BY <1>1, <1>3, <2>5
    <3>2. n + 1 \in holes
      <4>1. nodes[n + 1] = rest[1]
        BY <1>1, <3>1
      <4> QED BY <1>2, <2>6, <3>1, <4>1
    <3> QED BY <1>1, <2>1, <2>2, <3>2
  <2> HIDE DEF more
  <2> QED BY <1>5, <2>3, <2>4, <2>5, <2>6 DEF CutIn, UpToHole, nodes, holes, r, m
<1> QED BY <1>4, <1>5

LEMMA ReachedFollows ==
  ASSUME NEW D, NEW seen, NEW rest, Reached(D, seen, rest),
         root # EmptyNode, outcome # "Error", outcome = "ok" => rest = <<>>
  PROVE  CallsFollowTree
<1> DEFINE nodes == Preorder(root)
           holes == HolesIn(nodes)
<1>1. /\ seen \in Seq(D) /\ rest \in Seq(D) /\ nodes = seen \o rest
      /\ Whole(seen)
      /\ calls = CallsFor(seen)
  BY DEF Reached
<1> HIDE DEF nodes
<1>2. PICK more \in 0..Len(rest) :
         UpToHole(nodes) = seen \o SubSeq(rest, 1, more) /\ (rest = <<>> => holes = {})
  <2>1. CutIn(seen, rest)
    BY <1>1, CutAtHole
  <2> QED BY <1>1, <2>1 DEF CutIn
<1> DEFINE cut == SubSeq(rest, 1, more)
<1>3. cut \in Seq(D)
  BY <1>1
<1>4. rest = <<>> => cut = <<>>
  BY <1>2
<1> HIDE DEF cut
<1>5. ExpectedCalls(root) = CallsFor(seen \o cut)
  BY <1>2 DEF ExpectedCalls, UpToHole, nodes, cut
<1>6. /\ CallsFor(seen \o cut) = calls \o CallsFor(cut) /\ CallsFor(<<>>) = <<>>
      /\ calls \in Seq(Callbacks(D)) /\ CallsFor(cut) \in Seq(Callbacks(D))
  BY <1>1, <1>3, CallsJoined
<1>7. IsPrefix(calls, ExpectedCalls(root))
  <2>1. IsPrefix(calls, calls \o CallsFor(cut))
    BY <1>6, PrefixOfJoined
  <2> QED BY <1>5, <1>6, <2>1
<1>8. ASSUME outcome = "ok" PROVE holes = {} /\ calls = ExpectedCalls(root)
  <2>1. rest = <<>> /\ cut = <<>> /\ CallsFor(cut) = <<>>
    BY <1>4, <1>6, <1>8
  <2>2. calls \o <<>> = calls
    BY <1>6
  <2> QED BY <1>2, <1>5, <1>6, <2>1, <2>2
<1>9. Holes(root) = holes
  BY DEF Holes, nodes
<1> HIDE DEF holes
<1> QED BY <1>7, <1>8, <1>9 DEF CallsFollowTree

LEMMA HalfwayFollows ==
  ASSUME NEW D, NEW seen, NEW node, NEW rest, Halfway(D, seen, node, rest),
         root # EmptyNode, outcome # "ok", outcome = "Error" => node.type = "hole"
  PROVE  CallsFollowTree
<1> DEFINE nodes == Preorder(root)
           holes == HolesIn(nodes)
           left == << node >> \o rest
<1>1. /\ seen \in Seq(D) /\ node \in D /\ rest \in Seq(D) /\ nodes = seen \o left
      /\ Whole(seen)
      /\ calls = CallsFor(seen) \o OnNodeCall(node)
  BY DEF Halfway
<1>2. left \in Seq(D) /\ left # <<>> /\ left[1] = node /\ Tail(left) = rest
  <2>1. << node >> \o rest \in Seq(D) /\ (<< node >> \o rest)[1] = node /\ Tail(<< node >> \o rest) = rest
    BY <1>1, Stacked
  <2>2. Len(<< node >> \o rest) # 0
    BY <1>1
  <2> QED BY <2>1, <2>2
<1> HIDE DEF nodes, left
<1>3. PICK more \in 0..Len(left) :
         /\ UpToHole(nodes) = seen \o SubSeq(left, 1, more)
         /\ more # 0
         /\ node.type = "hole" => more = 1 /\ holes # {}
  <2>1. CutIn(seen, left)
    BY <1>1, <1>2, CutAtHole
  <2> QED BY <1>1, <1>2, <2>1 DEF CutIn
<1> DEFINE cut == SubSeq(left, 2, more)
<1>4. Len(left) \in Nat /\ more \in 1..Len(left) /\ 1 \in 1..Len(left)
  BY <1>2, <1>3
<1>5. SubSeq(left, 1, more) = << node >> \o cut
  BY <1>2, <1>4, SubSeqRecursiveFirst
<1>6. cut \in Seq(D) /\ (more = 1 => cut = <<>>)
  BY <1>2, <1>4
<1> HIDE DEF cut
<1> DEFINE one == << node >>
           after == CallbackFor(node) \o CallsFor(cut)
<1>7. one \in Seq(D) /\ one \o cut \in Seq(D)
  BY <1>1, <1>6
<1>8. /\ CallsFor(one) = OnNodeCall(node) \o CallbackFor(node)
      /\ CallsFor(cut) \in Seq(Callbacks(D)) /\ CallsFor(seen) \in Seq(Callbacks(D))
      /\ OnNodeCall(node) \in Seq(Callbacks(D)) /\ CallbackFor(node) \in Seq(Callbacks(D)) /\ CallsFor(<<>>) = <<>>
  BY <1>1, <1>6, CallsJoined, CallsAtType
<1>9. ExpectedCalls(root) = CallsFor(seen \o (one \o cut))
  BY <1>3, <1>5 DEF ExpectedCalls, UpToHole, nodes
<1>10. CallsFor(one \o cut) = CallsFor(one) \o CallsFor(cut)
  <2> HIDE DEF one
  <2> QED BY <1>6, <1>7, CallsJoined
<1>11. CallsFor(seen \o (one \o cut)) = CallsFor(seen) \o CallsFor(one \o cut)
  <2> DEFINE u == one \o cut
  <2>1. u \in Seq(D)
    BY <1>7
  <2> HIDE DEF u
  <2>2. CallsFor(seen \o u) = CallsFor(seen) \o CallsFor(u)
    BY <1>1, <2>1, CallsJoined
  <2> QED BY <2>2 DEF u
<1>12. after \in Seq(Callbacks(D)) /\ calls \in Seq(Callbacks(D)) /\ ExpectedCalls(root) = calls \o after
  <2> DEFINE a == CallsFor(seen)
             b == OnNodeCall(node)
             c == CallbackFor(node)
             d == CallsFor(cut)
  <2>1. a \in Seq(Callbacks(D)) /\ b \in Seq(Callbacks(D)) /\ c \in Seq(Callbacks(D)) /\ d \in Seq(Callbacks(D))
    BY <1>8
  <2>2. ExpectedCalls(root) = a \o ((b \o c) \o d) /\ calls = a \o b
    BY <1>1, <1>8, <1>9, <1>10, <1>11
  <2> HIDE DEF a, b, c, d
  <2>3. a \o b \in Seq(Callbacks(D)) /\ c \o d \in Seq(Callbacks(D))
    BY <2>1
  <2>4. (b \o c) \o d = b \o (c \o d)
    BY <2>1, SMTT(40)
  <2>5. a \o (b \o (c \o d)) = (a \o b) \o (c \o d)
    <3> DEFINE e == c \o d
    <3>1. e \in Seq(Callbacks(D))
      BY <2>3
    <3> HIDE DEF e
    <3>2. a \o (b \o e) = (a \o b) \o e
      BY <2>1, <3>1, SMTT(40)
    <3> QED BY <3>2 DEF e
  <2> QED BY <2>2, <2>3, <2>4, <2>5 DEF c, d
<1>13. IsPrefix(calls, ExpectedCalls(root))
  <2> HIDE DEF after
  <2> QED BY <1>12, PrefixOfJoined
<1>14. ASSUME outcome = "Error" PROVE holes # {} /\ calls = ExpectedCalls(root)
  <2>1. node.type = "hole" /\ cut = <<>> /\ holes # {}
    BY <1>3, <1>6, <1>14
  <2>2. CallbackFor(node) = <<>> /\ CallsFor(cut) = <<>>
    BY <1>8, <2>1 DEF CallbackFor
  <2>3. calls \o <<>> = calls /\ after = <<>>
    BY <1>12, <2>2
  <2> QED BY <1>12, <2>1, <2>3
<1>15. Holes(root) = holes
  BY DEF Holes, nodes
<1> HIDE DEF holes
<1> QED BY <1>13, <1>14, <1>15 DEF CallsFollowTree

LEMMA InvFollows ==
  ASSUME NEW D, WalkInv(D)
  PROVE  CallsFollowTree
<1>1. CASE root = EmptyNode /\ calls = <<>>
  BY <1>1 DEF CallsFollowTree
<1>2. CASE root # EmptyNode /\ ReachedInv(D)
  <2>1. PICK seen \in Seq(D), rest \in Seq(D) :
           Reached(D, seen, rest) /\ outcome # "Error" /\ (outcome = "ok" => rest = <<>>)
    BY <1>2 DEF ReachedInv, Walking
  <2> QED BY <1>2, <2>1, ReachedFollows
<1>3. CASE root # EmptyNode /\ HalfwayInv(D)
  <2>1. PICK seen \in Seq(D), rest \in Seq(D), node \in D :
           /\ Halfway(D, seen, node, rest)
           /\ outcome # "ok" /\ (outcome = "Error" => node.type = "hole")
    BY <1>3 DEF HalfwayInv, Walking
  <2> QED BY <1>3, <2>1, HalfwayFollows
<1> QED BY <1>1, <1>2, <1>3 DEF WalkInv

------------------------------------------------------------------------------
(* The steps. *)

LEMMA GoesOn ==
  ASSUME NEW D, NEW seen, NEW rest, NEW top, NEW outer,
         root' \in D, root' # EmptyNode, Reached(D, seen, rest)', Walking(D, top, outer)',
         top.entry # -1, rest = RestOf(top) \o Rests(D, outer)
  PROVE  WalkInv(D)'
<1>1. seen \in Seq(D) /\ rest \in Seq(D)
  BY DEF Reached
<1>2. top \in Frames(D) /\ outer \in Seq(Frames(D))
  BY DEF Walking
<1>3. ReachedInv(D)'
  BY <1>1, <1>2 DEF ReachedInv
<1> QED BY <1>3 DEF WalkInv

LEMMA WalkStarts ==
  ASSUME NEW D, Complete(D), MeasuredInv(D), NEW tree \in D, traverse(tree)
  PROVE  WalkInv(D)'
<1>1. root' = tree /\ calls' = <<>> /\ before' = analyzer /\ analyzer' = analyzer
  BY DEF traverse
<1>2. CASE tree = EmptyNode
  BY <1>1, <1>2 DEF traverse, WalkInv
<1>3. CASE tree # EmptyNode
  <2> DEFINE top == Place(tree, 0)
             rest == RestOf(top) \o Rests(D, <<>>)
  <2>1. outcome' = "running" /\ walk' = << top >>
    BY <1>3 DEF traverse, Frame, Place
  <2>2. top \in Frames(D) /\ top.entry = 0 /\ RestOf(top) = Preorder(tree)
    <3>1. top \in Frames(D)
      BY PlaceSteps
    <3> QED BY <3>1 DEF Place, RestOf
  <2>3. Preorder(tree) \in Seq(D)
    BY FromSteps
  <2>4. Rests(D, <<>>) = <<>>
    <3>1. <<>> \in Seq(Frames(D))
      OBVIOUS
    <3> QED BY <3>1, RestsSteps
  <2>5. rest = Preorder(tree) /\ rest \in Seq(D) /\ <<>> \o rest = rest
    <3> DEFINE order == Preorder(tree)
    <3>1. order \in Seq(D) /\ rest = order \o <<>>
      BY <2>2, <2>3, <2>4
    <3> HIDE DEF order, rest
    <3>2. order \o <<>> = order /\ <<>> \o order = order
      BY <3>1
    <3> QED BY <3>1, <3>2 DEF order
  <2> DEFINE seen == <<>>
             outer == <<>>
  <2>6. seen \in Seq(D) /\ CallsFor(seen) = <<>>
    <3>1. <<>> \in Seq(D)
      OBVIOUS
    <3> QED BY <3>1, CallsJoined
  <2> HIDE DEF top
  <2>7. rest = RestOf(top) \o Rests(D, outer)
    OBVIOUS
  <2> HIDE DEF rest
  <2>8. Reached(D, seen, rest)'
    <3>1. Numbered(D) => Counts(before', seen, analyzer', Len(seen))
      BY <1>1, CountsNone DEF MeasuredInv
    <3> QED BY <1>1, <2>5, <2>6, <3>1 DEF Reached, Whole
  <2>9. Walking(D, top, outer)' /\ outer \in Seq(Frames(D))
    <3>1. << top >> = << top >> \o <<>> /\ <<>> \in Seq(Frames(D))
      OBVIOUS
    <3> QED BY <2>1, <2>2, <3>1 DEF Walking
  <2> HIDE DEF seen, outer
  <2>10. top.entry # -1
    BY <2>2
  <2> QED BY <1>1, <1>3, <2>7, <2>8, <2>9, <2>10, GoesOn
<1> QED BY <1>2, <1>3

\* The walk is at the frame top, above outer, with the nodes rest to come.
LEMMA TopFrame ==
  ASSUME NEW D, NEW top, NEW outer, Walking(D, top, outer)
  PROVE  /\ Top = top /\ Outer = outer
         /\ top = Place(top.node, top.entry) /\ top.node \in D
         /\ top.entry \in {-1, 0} \cup 1..(Len(top.node.items) + 1)
<1>1. top \in Frames(D) /\ outer \in Seq(Frames(D)) /\ walk = << top >> \o outer
  BY DEF Walking
<1>2. (<< top >> \o outer)[1] = top /\ Tail(<< top >> \o outer) = outer
  BY <1>1, Stacked
<1>3. top = Place(top.node, top.entry) /\ top.node \in D
      /\ top.entry \in {-1, 0} \cup 1..(Len(top.node.items) + 1)
  BY <1>1 DEF Frames, Place
<1> QED BY <1>1, <1>2, <1>3 DEF Top, Outer

ReachedAt(D, seen, rest, top, outer) ==
    /\ root \in D /\ root # EmptyNode
    /\ Reached(D, seen, rest) /\ Walking(D, top, outer)
    /\ top.entry # -1 /\ rest = RestOf(top) \o Rests(D, outer)

HalfwayAt(D, seen, rest, node, outer) ==
    /\ root \in D /\ root # EmptyNode
    /\ Halfway(D, seen, node, rest) /\ Walking(D, Place(node, -1), outer)
    /\ rest = RestOf(Place(node, -1)) \o Rests(D, outer)

LEMMA RunningIs ==
  ASSUME NEW D, WalkInv(D), outcome = "running"
  PROVE  \/ Top.entry # -1 /\ \E seen, rest, top, outer : ReachedAt(D, seen, rest, top, outer)
         \/ Top.entry = -1 /\ \E seen, rest, node, outer : HalfwayAt(D, seen, rest, node, outer)
<1>1. root \in D /\ root # EmptyNode /\ (ReachedInv(D) \/ HalfwayInv(D))
  BY DEF WalkInv
<1>2. CASE ReachedInv(D)
  <2>1. PICK seen, rest, top, outer : ReachedAt(D, seen, rest, top, outer)
    BY <1>1, <1>2 DEF ReachedInv, ReachedAt
  <2>2. Top = top /\ top.entry # -1
    BY <2>1, TopFrame DEF ReachedAt
  <2> QED BY <2>1, <2>2
<1>3. CASE HalfwayInv(D)
  <2>1. PICK seen, rest, node, outer : HalfwayAt(D, seen, rest, node, outer)
    BY <1>1, <1>3 DEF HalfwayInv, HalfwayAt
  <2>2. Top = Place(node, -1)
    BY <2>1, TopFrame DEF HalfwayAt
  <2> QED BY <2>1, <2>2 DEF Place
<1> QED BY <1>1, <1>2, <1>3

(* A frame is left when nothing is to come in it.                          *)
LEMMA FrameLeft ==
  ASSUME NEW D, Complete(D), NEW seen, NEW outer \in Seq(Frames(D)),
         \A i \in DOMAIN outer : outer[i].entry # -1,
         root' \in D, root' # EmptyNode, Reached(D, seen, Rests(D, outer))',
         walk' = outer, outcome' = IF outer = <<>> THEN "ok" ELSE "running"
  PROVE  WalkInv(D)'
<1> DEFINE rest == Rests(D, outer)
<1>1. rest \in Seq(D) /\ (outer = <<>> => rest = <<>>) /\ seen \in Seq(D)
  BY RestsSteps DEF Reached
<1>2. CASE outer = <<>>
  <2>1. outcome' = "ok" /\ rest = <<>> /\ Reached(D, seen, rest)'
    BY <1>1, <1>2
  <2> HIDE DEF rest
  <2>2. ReachedInv(D)'
    BY <1>1, <2>1 DEF ReachedInv
  <2> QED BY <2>2 DEF WalkInv
<1>3. CASE outer # <<>>
  <2> DEFINE top == outer[1]
             below == Tail(outer)
  <2>1. /\ top \in Frames(D) /\ below \in Seq(Frames(D)) /\ outer = << top >> \o below
        /\ \A i \in DOMAIN below : i + 1 \in DOMAIN outer /\ below[i] = outer[i + 1]
        /\ 1 \in DOMAIN outer
    <3>1. 1 \in DOMAIN outer
      BY <1>3
    <3> QED BY <1>3, <3>1, Unstacked
  <2>2. top.entry # -1 /\ \A i \in DOMAIN below : below[i].entry # -1
    BY <2>1
  <2> HIDE DEF top, below
  <2>3. Walking(D, top, below)'
    BY <1>3, <2>1, <2>2 DEF Walking
  <2>4. rest = RestOf(top) \o Rests(D, below)
    BY <2>1, RestsSteps
  <2>5. Reached(D, seen, rest)'
    OBVIOUS
  <2> HIDE DEF rest
  <2> QED BY <2>2, <2>3, <2>4, <2>5, GoesOn
<1> QED BY <1>2, <1>3

(* The callback for the type of a node makes the node one of those seen.   *)
LEMMA NodeSeen ==
  ASSUME NEW D, NEW seen, NEW node, NEW rest, Halfway(D, seen, node, rest),
         NEW name, CallbackFor(node) = << <<name, node>> >>, node.type # "hole",
         root' = root, before' = before, Called(name, node),
         MeasuredInv(D), Numbered(D) => Tallied(analyzer, node, analyzer')
  PROVE  Reached(D, seen \o << node >>, rest)'
<1> DEFINE one == << node >>
           all == seen \o one
           a == CallsFor(seen)
           b == OnNodeCall(node)
           c == CallbackFor(node)
<1>1. /\ seen \in Seq(D) /\ node \in D /\ rest \in Seq(D) /\ Whole(seen)
      /\ Preorder(root) = seen \o (one \o rest)
      /\ calls = a \o b
      /\ Numbered(D) => Counts(before, seen, analyzer, Len(seen) + 1)
  BY DEF Halfway
<1>2. one \in Seq(D) /\ Len(one) = 1 /\ one[1] = node
  BY <1>1
<1>3. /\ CallsFor(one) = b \o c
      /\ a \in Seq(Callbacks(D)) /\ b \in Seq(Callbacks(D)) /\ c \in Seq(Callbacks(D))
  BY <1>1, CallsJoined, CallsAtType
<1> HIDE DEF one
<1>4. CallsFor(all) = a \o CallsFor(one)
  BY <1>1, <1>2, CallsJoined
<1>5. all \in Seq(D) /\ all \o rest = seen \o (one \o rest)
  <2>1. seen \in Seq(D) /\ one \in Seq(D) /\ rest \in Seq(D)
    BY <1>1, <1>2
  <2>2. seen \o one \in Seq(D)
    BY <2>1
  <2>3. (seen \o one) \o rest = seen \o (one \o rest)
    BY <2>1
  <2> QED BY <2>2, <2>3
<1>6. /\ Len(all) = Len(seen) + 1 /\ Len(seen) \in Nat
      /\ \A i \in 1..Len(seen) : all[i] = seen[i]
      /\ all[Len(seen) + 1] = node
  <2>1. seen \in Seq(D) /\ one \in Seq(D) /\ Len(one) = 1 /\ one[1] = node /\ Len(seen) \in Nat
    BY <1>1, <1>2
  <2>2. /\ Len(all) = Len(seen) + Len(one)
        /\ \A i \in 1..(Len(seen) + Len(one)) :
              all[i] = IF i <= Len(seen) THEN seen[i] ELSE one[i - Len(seen)]
    BY <2>1, ConcatProperties
  <2> HIDE DEF all
  <2> QED BY <2>1, <2>2
<1>7. Whole(all) /\ OneMoreNode(seen, node, all)
  <2> HIDE DEF all
  <2>1. ASSUME NEW i \in DOMAIN all PROVE all[i].type # "hole"
    <3>1. i \in 1..Len(seen) \/ i = Len(seen) + 1
      BY <1>5, <1>6
    <3> QED BY <1>1, <1>6, <3>1, SMTT(40) DEF Whole
  <2>2. DOMAIN seen = 1..Len(seen) /\ DOMAIN all = 1..(Len(seen) + 1)
    BY <1>1, <1>5, <1>6
  <2>3. OneMoreNode(seen, node, all)
    BY <1>6, <2>2 DEF OneMoreNode
  <2> QED BY <2>1, <2>3 DEF Whole
<1>8. Numbered(D) => Counts(before, all, analyzer', Len(all))
  <2> HIDE DEF all
  <2>1. ASSUME Numbered(D) PROVE Counts(before, all, analyzer', Len(seen) + 1)
    BY <1>1, <1>7, <2>1, CountsOneMore DEF MeasuredInv
  <2> QED BY <1>6, <2>1
<1>9. calls' = a \o (b \o c)
  <2>1. a \o b \in Seq(Callbacks(D)) /\ c = << <<name, node>> >>
    BY <1>3
  <2>2. calls' = (a \o b) \o c
    <3>1. calls \in Seq(Callbacks(D)) /\ calls' = Append(calls, <<name, node>>) /\ calls = a \o b
      BY <1>1, <2>1 DEF Called
    <3> HIDE DEF a, b
    <3>2. <<name, node>> \in Callbacks(D)
      BY <1>3, <2>1
    <3>3. Append(calls, <<name, node>>) = calls \o << <<name, node>> >>
      BY <3>1, <3>2, AppendIsConcat
    <3> QED BY <2>1, <3>1, <3>3
  <2> HIDE DEF a, b, c
  <2> QED BY <1>3, <2>2, SMTT(40)
<1>10. calls' = CallsFor(all)
  BY <1>3, <1>4, <1>9
<1>11. Preorder(root') = all \o rest
  BY <1>1, <1>5
<1> HIDE DEF all
<1>12. Reached(D, all, rest)'
  BY <1>1, <1>5, <1>7, <1>8, <1>10, <1>11 DEF Reached
<1> QED BY <1>12 DEF all, one

LEMMA WalkVisitsNode ==
  ASSUME NEW D, Complete(D), WalkInv(D), MeasuredInv(D), VisitNode
  PROVE  WalkInv(D)'
<1>1. /\ outcome = "running" /\ Top.entry = 0 /\ Called("onNode", Top.node)
      /\ walk' = <<[Top EXCEPT !.entry = -1]>> \o Outer
      /\ root' = root /\ outcome' = outcome /\ before' = before
      /\ analyzer' = OnNode(analyzer, Top.node)
  BY DEF VisitNode, Entering
<1>2. PICK seen, rest, top, outer : ReachedAt(D, seen, rest, top, outer)
  BY <1>1, RunningIs
<1> DEFINE node == top.node
           left == RestOf(Place(node, -1)) \o Rests(D, outer)
           one == << node >>
<1>3. /\ Reached(D, seen, rest) /\ Walking(D, top, outer)
      /\ rest = RestOf(top) \o Rests(D, outer) /\ root \in D /\ root # EmptyNode
  BY <1>2 DEF ReachedAt
<1>4. Top = top /\ Outer = outer /\ top = Place(node, 0) /\ node \in D /\ top.entry = 0
  BY <1>1, <1>3, TopFrame
<1> HIDE DEF node
<1>5. outer \in Seq(Frames(D)) /\ \A i \in DOMAIN outer : outer[i].entry # -1
  BY <1>3 DEF Walking
<1>6. Place(node, -1) \in Frames(D) /\ RestOf(Place(node, 0)) = << node >> \o RestOf(Place(node, -1))
  BY <1>4, PlaceSteps
<1>7. RestOf(Place(node, -1)) \in Seq(D) /\ Rests(D, outer) \in Seq(D)
  <2>1. FALSE \/ From(node, 1) \in Seq(D)
    <3>1. Len(node.items) \in Nat /\ 1 \in 1..(Len(node.items) + 1)
      BY <1>4, FromSteps
    <3> QED BY <1>4, <3>1, FromSteps
  <2>2. RestOf(Place(node, -1)) = From(node, 1)
    BY DEF RestOf, Place
  <2> QED BY <1>5, <2>1, <2>2, RestsSteps
<1>8. rest = one \o left /\ left \in Seq(D)
  <2> DEFINE p == RestOf(Place(node, -1))
             q == Rests(D, outer)
  <2>1. p \in Seq(D) /\ q \in Seq(D) /\ one \in Seq(D) /\ rest = (one \o p) \o q
    BY <1>3, <1>4, <1>6, <1>7, SMTT(40)
  <2> HIDE DEF p, q, one
  <2>2. (one \o p) \o q = one \o (p \o q) /\ p \o q \in Seq(D)
    BY <2>1, SMTT(40)
  <2> QED BY <2>1, <2>2 DEF p, q
<1> HIDE DEF left
<1>9. calls' = calls \o OnNodeCall(node)
  <2>1. calls = CallsFor(seen) /\ seen \in Seq(D) /\ calls' = Append(calls, <<"onNode", node>>)
    BY <1>1, <1>3, <1>4 DEF Reached, Called, node
  <2>2. calls \in Seq(Callbacks(D)) /\ <<"onNode", node>> \in Callbacks(D)
    BY <1>4, <2>1, CallsJoined DEF Callbacks
  <2> QED BY <2>1, <2>2, AppendIsConcat DEF OnNodeCall
<1>10. Halfway(D, seen, node, left)'
  <2>1. ASSUME Numbered(D) PROVE Counts(before', seen, analyzer', Len(seen) + 1)
    <3>1. Counts(before, seen, analyzer, Len(seen)) /\ seen \in Seq(D)
      BY <1>3, <2>1 DEF Reached
    <3>2. Len(seen) \in Nat
      BY <3>1
    <3>3. before.totalNodes \in Nat /\ Measured(analyzer)
      BY <2>1 DEF MeasuredInv, Measured, Analyzers
    <3> QED BY <1>1, <3>1, <3>2, <3>3, NodeCounted
  <2> QED BY <1>1, <1>3, <1>4, <1>8, <1>9, <2>1 DEF Reached, Halfway
<1>11. Walking(D, Place(node, -1), outer)'
  <2>1. [Top EXCEPT !.entry = -1] = Place(node, -1)
    BY <1>4 DEF Place
  <2> QED BY <1>1, <1>4, <1>5, <1>6, <2>1 DEF Walking
<1>12. seen \in Seq(D)
  BY <1>3 DEF Reached
<1>13. HalfwayInv(D)'
  BY <1>4, <1>5, <1>8, <1>10, <1>11, <1>12 DEF HalfwayInv, left
<1> QED BY <1>1, <1>3, <1>13 DEF WalkInv

\* Where the callback for a type is made.
LEMMA AtCallback ==
  ASSUME NEW D, Complete(D), WalkInv(D), NEW type, Typed(type)
  PROVE  \E seen, rest, node, outer :
            /\ HalfwayAt(D, seen, rest, node, outer) /\ node \in D
            /\ node.type = type /\ Outer = outer /\ Top = Place(node, -1) /\ Top.node = node
            /\ outer \in Seq(Frames(D)) /\ Rests(D, outer) \in Seq(D)
            /\ \A i \in DOMAIN outer : outer[i].entry # -1
<1>1. outcome = "running" /\ Top.entry = -1 /\ Top.node.type = type
  BY DEF Typed
<1>2. PICK seen, rest, node, outer : HalfwayAt(D, seen, rest, node, outer)
  BY <1>1, RunningIs
<1>3. Walking(D, Place(node, -1), outer) /\ node \in D
  BY <1>2 DEF HalfwayAt, Halfway
<1>4. Top = Place(node, -1) /\ Outer = outer
  BY <1>3, TopFrame
<1>5. Top.node = node
  BY <1>4 DEF Place
<1>6. outer \in Seq(Frames(D)) /\ \A i \in DOMAIN outer : outer[i].entry # -1
  BY <1>3 DEF Walking
<1>7. Rests(D, outer) \in Seq(D)
  BY <1>6, RestsSteps
<1> QED BY <1>1, <1>2, <1>3, <1>4, <1>5, <1>6, <1>7

LEMMA WalkVisitsScalar ==
  ASSUME NEW D, Complete(D), WalkInv(D), MeasuredInv(D), VisitInteger \/ VisitString
  PROVE  WalkInv(D)'
<1>1. PICK type, name :
         /\ type \in {"integer", "string"} /\ Typed(type) /\ Called(name, Top.node)
         /\ Leave /\ root' = root /\ before' = before
         /\ CallbackFor(Top.node) = << <<name, Top.node>> >>
  <2>1. CASE VisitInteger
    BY <2>1 DEF VisitInteger, Typed, CallbackFor
  <2>2. CASE VisitString
    BY <2>2 DEF VisitString, Typed, CallbackFor
  <2> QED BY <2>1, <2>2
<1>2. PICK seen, rest, node, outer :
         /\ HalfwayAt(D, seen, rest, node, outer) /\ node \in D
         /\ node.type = type /\ Outer = outer /\ Top = Place(node, -1) /\ Top.node = node
         /\ outer \in Seq(Frames(D)) /\ Rests(D, outer) \in Seq(D)
         /\ \A i \in DOMAIN outer : outer[i].entry # -1
  BY <1>1, AtCallback
<1>3. Halfway(D, seen, node, rest) /\ root \in D /\ root # EmptyNode
      /\ rest = RestOf(Place(node, -1)) \o Rests(D, outer)
  BY <1>2 DEF HalfwayAt
<1>4. node.type # "hole" /\ node.type \notin ContainerType
  BY <1>1, <1>2 DEF ContainerType
<1> DEFINE all == seen \o << node >>
<1>5. Reached(D, all, rest)'
  <2>1. /\ Called(name, node) /\ CallbackFor(node) = << <<name, node>> >>
        /\ root' = root /\ before' = before
    BY <1>1, <1>2
  <2>2. Numbered(D) => Tallied(analyzer, node, analyzer')
    BY <1>2, CallbackTallied DEF MeasuredInv
  <2> QED BY <1>3, <1>4, <2>1, <2>2, NodeSeen
<1>6. rest = Rests(D, outer)
  <2> DEFINE p == Rests(D, outer)
  <2>1. RestOf(Place(node, -1)) = <<>>
    BY <1>2, <1>4, PlaceSteps
  <2>2. p \in Seq(D) /\ rest = <<>> \o p
    BY <1>2, <1>3, <2>1
  <2> HIDE DEF p
  <2>3. <<>> \o p = p
    BY <2>2
  <2> QED BY <2>2, <2>3 DEF p
<1>7. walk' = outer /\ outcome' = IF outer = <<>> THEN "ok" ELSE "running"
  BY <1>1, <1>2 DEF Leave
<1>8. Reached(D, all, Rests(D, outer))'
  BY <1>5, <1>6
<1>9. root' \in D /\ root' # EmptyNode
  BY <1>1, <1>3
<1> HIDE DEF all
<1> QED BY <1>2, <1>7, <1>8, <1>9, FrameLeft

LEMMA WalkVisitsContainer ==
  ASSUME NEW D, Complete(D), WalkInv(D), MeasuredInv(D), VisitContainer
  PROVE  WalkInv(D)'
<1>1. PICK type, name :
         /\ type \in ContainerType /\ Typed(type) /\ Called(name, Top.node)
         /\ CallbackFor(Top.node) = << <<name, Top.node>> >>
  BY DEF VisitContainer, Typed, CallbackFor, ContainerType
<1>2. /\ walk' = <<[Top EXCEPT !.entry = 1]>> \o Outer
      /\ root' = root /\ outcome' = outcome /\ outcome = "running" /\ before' = before
  BY DEF VisitContainer, Typed
<1>3. PICK seen, rest, node, outer :
         /\ HalfwayAt(D, seen, rest, node, outer) /\ node \in D
         /\ node.type = type /\ Outer = outer /\ Top = Place(node, -1) /\ Top.node = node
         /\ outer \in Seq(Frames(D)) /\ Rests(D, outer) \in Seq(D)
         /\ \A i \in DOMAIN outer : outer[i].entry # -1
  BY <1>1, AtCallback
<1>4. Halfway(D, seen, node, rest) /\ root \in D /\ root # EmptyNode
      /\ rest = RestOf(Place(node, -1)) \o Rests(D, outer)
  BY <1>3 DEF HalfwayAt
<1>5. node.type # "hole"
  BY <1>1, <1>3 DEF ContainerType
<1> DEFINE all == seen \o << node >>
           top == Place(node, 1)
<1>6. Reached(D, all, rest)'
  <2>1. /\ Called(name, node) /\ CallbackFor(node) = << <<name, node>> >>
        /\ root' = root /\ before' = before
    BY <1>1, <1>2, <1>3
  <2>2. Numbered(D) => Tallied(analyzer, node, analyzer')
    BY <1>3, CallbackTallied DEF MeasuredInv
  <2> QED BY <1>4, <1>5, <2>1, <2>2, NodeSeen
<1>7. top \in Frames(D) /\ RestOf(Place(node, -1)) = RestOf(top)
  <2>1. Len(node.items) \in Nat /\ 1 \in {-1, 0} \cup 1..(Len(node.items) + 1)
    BY <1>3, PlaceSteps
  <2> QED BY <1>3, <2>1, PlaceSteps
<1>8. top.entry # -1 /\ [Top EXCEPT !.entry = 1] = top
  <2>1. [Place(node, -1) EXCEPT !.entry = 1] = Place(node, 1)
    BY DEF Place
  <2> QED BY <1>3, <2>1 DEF Place
<1>9. rest = RestOf(top) \o Rests(D, outer)
  BY <1>4, <1>7
<1>10. /\ walk' = << top >> \o outer /\ outcome' = "running"
       /\ root' \in D /\ root' # EmptyNode
  BY <1>2, <1>3, <1>4, <1>8
<1> HIDE DEF all, top
<1>11. Walking(D, top, outer)'
  BY <1>3, <1>7, <1>10 DEF Walking
<1>12. top.entry # -1
  BY <1>8
<1> QED BY <1>6, <1>9, <1>10, <1>11, <1>12, GoesOn

LEMMA WalkEntersEntry ==
  ASSUME NEW D, Complete(D), WalkInv(D), NextEntry
  PROVE  WalkInv(D)'
<1>1. /\ outcome = "running" /\ Top.entry >= 1 /\ root' = root /\ calls' = calls
      /\ analyzer' = analyzer /\ before' = before
      /\ IF Top.entry <= Len(Top.node.items)
         THEN /\ walk' = <<Frame(Top.node.items[Top.entry]), [Top EXCEPT !.entry = @ + 1]>> \o Outer
              /\ outcome' = outcome
         ELSE Leave
  BY DEF NextEntry
<1>2. Top.entry # -1
  BY <1>1
<1>3. PICK seen, rest, top, outer : ReachedAt(D, seen, rest, top, outer)
  BY <1>1, <1>2, RunningIs
<1>4. /\ Reached(D, seen, rest) /\ Walking(D, top, outer)
      /\ rest = RestOf(top) \o Rests(D, outer) /\ root \in D /\ root # EmptyNode
  BY <1>3 DEF ReachedAt
<1> DEFINE node == top.node
           entry == top.entry
           n == Len(node.items)
<1>5. /\ Top = top /\ Outer = outer /\ top = Place(node, entry) /\ node \in D
      /\ entry \in {-1, 0} \cup 1..(n + 1)
  BY <1>4, TopFrame
<1>6. n \in Nat /\ entry \in 1..(n + 1)
  <2>1. n \in Nat
    BY <1>5, PlaceSteps
  <2> QED BY <1>1, <1>5, <2>1
<1>7. outer \in Seq(Frames(D)) /\ \A i \in DOMAIN outer : outer[i].entry # -1
  BY <1>4 DEF Walking
<1>8. Reached(D, seen, rest)' /\ root' \in D /\ root' # EmptyNode
  BY <1>1, <1>4 DEF Reached
<1>9. Rests(D, outer) \in Seq(D)
  BY <1>7, RestsSteps
<1>10. CASE entry <= n
  <2> DEFINE item == node.items[entry]
             inner == Place(item, 0)
             next == Place(node, entry + 1)
             below == << next >> \o outer
  <2>1. entry \in 1..n /\ entry + 1 \in {-1, 0} \cup 1..(n + 1)
    BY <1>6, <1>10
  <2>2. /\ item \in D /\ next \in Frames(D)
        /\ RestOf(Place(node, entry)) = RestOf(inner) \o RestOf(next)
    BY <1>5, <2>1, PlaceSteps
  <2>3. inner \in Frames(D)
    BY <2>2, PlaceSteps
  <2>4. walk' = << inner >> \o below /\ outcome' = "running"
    <3>1. Frame(Top.node.items[Top.entry]) = inner /\ [Top EXCEPT !.entry = @ + 1] = next
      BY <1>5 DEF Frame, Place
    <3>2. walk' = << inner, next >> \o outer
      BY <1>1, <1>5, <1>10, <3>1
    <3>3. << inner, next >> \o outer = << inner >> \o (<< next >> \o outer)
      <4> DEFINE a == << inner >>
                 b == << next >>
      <4>1. a \in Seq(Frames(D)) /\ b \in Seq(Frames(D)) /\ << inner, next >> = a \o b
        BY <2>2, <2>3, SMTT(40)
      <4> HIDE DEF a, b
      <4>2. (a \o b) \o outer = a \o (b \o outer)
        BY <1>7, <4>1
      <4> QED BY <4>1, <4>2 DEF a, b
    <3> QED BY <1>1, <1>5, <1>10, <3>2, <3>3
  <2> HIDE DEF inner, next
  <2>5. below \in Seq(Frames(D)) /\ \A i \in DOMAIN below : below[i].entry # -1
    <3> DEFINE one == << next >>
    <3>1. one \in Seq(Frames(D)) /\ Len(one) = 1 /\ one[1] = next /\ next.entry # -1
      <4>1. next.entry # -1
        BY <1>6 DEF next, Place
      <4> QED BY <2>2, <4>1
    <3> HIDE DEF one
    <3>2. /\ one \o outer \in Seq(Frames(D)) /\ Len(one \o outer) = Len(one) + Len(outer)
          /\ \A i \in 1..(Len(one) + Len(outer)) :
                (one \o outer)[i] = IF i <= Len(one) THEN one[i] ELSE outer[i - Len(one)]
      BY <1>7, <3>1, ConcatProperties
    <3> DEFINE both == one \o outer
    <3> HIDE DEF both
    <3>3. ASSUME NEW i \in DOMAIN both PROVE both[i].entry # -1
      <4>1. Len(outer) \in Nat /\ i \in 1..(1 + Len(outer))
        BY <1>7, <3>1, <3>2 DEF both
      <4>2. CASE i <= 1
        BY <3>1, <3>2, <4>1, <4>2 DEF both
      <4>3. CASE ~(i <= 1)
        <5>1. i - 1 \in DOMAIN outer
          BY <1>7, <4>1, <4>3
        <5>2. both[i] = outer[i - 1]
          BY <3>1, <3>2, <4>1, <4>3 DEF both
        <5> QED BY <1>7, <5>1, <5>2
      <4> QED BY <4>1, <4>2, <4>3
    <3> QED BY <3>2, <3>3 DEF both, one
  <2>6. rest = RestOf(inner) \o Rests(D, below)
    <3> DEFINE a == RestOf(inner)
               b == RestOf(next)
               c == Rests(D, outer)
    <3>1. Rests(D, below) = b \o c
      BY <1>7, <2>2, RestsSteps
    <3>2. a \in Seq(D) /\ b \in Seq(D) /\ c \in Seq(D)
      BY <1>9, <2>2, <2>3, RestType
    <3>3. rest = (a \o b) \o c
      BY <1>4, <1>5, <2>2
    <3> HIDE DEF a, b, c
    <3>4. (a \o b) \o c = a \o (b \o c)
      BY <3>2
    <3> QED BY <3>1, <3>3, <3>4 DEF a
  <2> HIDE DEF below
  <2>7. Walking(D, inner, below)'
    BY <2>3, <2>4, <2>5 DEF Walking
  <2>8. inner.entry # -1
    BY DEF inner, Place
  <2> QED BY <1>8, <2>6, <2>7, <2>8, GoesOn
<1>11. CASE ~(entry <= n)
  <2>1. entry = n + 1
    BY <1>6, <1>11
  <2>2. RestOf(top) = <<>>
    <3>1. RestOf(Place(node, n + 1)) = <<>>
      BY <1>5, PlaceSteps
    <3> QED BY <1>5, <2>1, <3>1
  <2>3. rest = Rests(D, outer)
    <3> DEFINE p == Rests(D, outer)
    <3>1. p \in Seq(D) /\ rest = <<>> \o p
      BY <1>4, <1>9, <2>2
    <3> HIDE DEF p
    <3>2. <<>> \o p = p
      BY <3>1
    <3> QED BY <3>1, <3>2 DEF p
  <2>4. walk' = outer /\ outcome' = IF outer = <<>> THEN "ok" ELSE "running"
    BY <1>1, <1>5, <1>11 DEF Leave
  <2>5. Reached(D, seen, Rests(D, outer))'
    BY <1>8, <2>3
  <2> QED BY <1>7, <1>8, <2>4, <2>5, FrameLeft
<1> QED BY <1>10, <1>11

\* An exception leaves the calls that were made.
LEMMA WalkStops ==
  ASSUME NEW D, Complete(D), WalkInv(D), UnknownType \/ CallbackThrows
  PROVE  WalkInv(D)'
<1>1. /\ outcome = "running" /\ root' = root /\ calls' = calls
      /\ analyzer' = analyzer /\ before' = before
  BY DEF UnknownType, CallbackThrows, Typed, Entering
<1>2. CASE UnknownType
  <2>1. Typed("hole") /\ outcome' = "Error"
    BY <1>2 DEF UnknownType
  <2>2. PICK seen, rest, node, outer : HalfwayAt(D, seen, rest, node, outer) /\ node.type = "hole"
    BY <2>1, AtCallback
  <2>3. /\ Halfway(D, seen, node, rest)' /\ root' \in D /\ root' # EmptyNode
        /\ seen \in Seq(D) /\ rest \in Seq(D) /\ node \in D
    BY <1>1, <2>2 DEF HalfwayAt, Halfway
  <2>4. HalfwayInv(D)'
    BY <2>1, <2>2, <2>3 DEF HalfwayInv
  <2> QED BY <2>3, <2>4 DEF WalkInv
<1>3. CASE CallbackThrows
  <2>1. outcome' = "thrown" /\ root \in D /\ root # EmptyNode
    BY <1>1, <1>3 DEF CallbackThrows, WalkInv
  <2>2. CASE ReachedInv(D)
    <3>1. PICK seen \in Seq(D), rest \in Seq(D) : Reached(D, seen, rest)
      BY <2>2 DEF ReachedInv
    <3>2. Reached(D, seen, rest)'
      BY <1>1, <3>1 DEF Reached
    <3>3. ReachedInv(D)'
      BY <2>1, <3>2 DEF ReachedInv
    <3> QED BY <1>1, <2>1, <3>3 DEF WalkInv
  <2>3. CASE HalfwayInv(D)
    <3>1. PICK seen \in Seq(D), rest \in Seq(D), node \in D : Halfway(D, seen, node, rest)
      BY <2>3 DEF HalfwayInv
    <3>2. Halfway(D, seen, node, rest)'
      BY <1>1, <3>1 DEF Halfway
    <3>3. HalfwayInv(D)'
      BY <2>1, <3>2 DEF HalfwayInv
    <3> QED BY <1>1, <2>1, <3>3 DEF WalkInv
  <2> QED BY <1>1, <2>2, <2>3 DEF WalkInv
<1> QED BY <1>2, <1>3

(* The analyzer stays measured, and so does the one the traversal got.     *)
LEMMA MeasuredKept ==
  ASSUME NEW D, Complete(D), WalkInv(D), MeasuredInv(D), [Next]_vars
  PROVE  MeasuredInv(D)'
<1> SUFFICES ASSUME Numbered(D) PROVE Measured(analyzer') /\ Measured(before')
  BY DEF MeasuredInv
<1>1. Measured(analyzer) /\ Measured(before)
  BY DEF MeasuredInv
<1>2. CASE \E tree \in Roots : traverse(tree)
  BY <1>1, <1>2 DEF traverse
<1>3. CASE VisitNode
  BY <1>1, <1>3, NodeCounted DEF VisitNode
<1>4. CASE VisitInteger \/ VisitString \/ VisitContainer
  <2>1. PICK type : Typed(type)
    BY <1>4 DEF VisitInteger, VisitString, VisitContainer
  <2>2. Top.node \in D
    BY <2>1, AtCallback
  <2>3. Tallied(analyzer, Top.node, analyzer') /\ before' = before
    BY <1>1, <1>4, <2>2, CallbackTallied DEF VisitInteger, VisitString, VisitContainer
  <2> QED BY <1>1, <2>3 DEF Tallied
<1>5. CASE NextEntry \/ UnknownType \/ CallbackThrows \/ UNCHANGED vars
  BY <1>1, <1>5 DEF NextEntry, UnknownType, CallbackThrows, vars
<1> QED BY <1>2, <1>3, <1>4, <1>5 DEF Next, Visit

LEMMA WalkStep ==
  ASSUME NEW D, Complete(D), Roots \subseteq D, WalkInv(D), MeasuredInv(D), [Next]_vars
  PROVE  WalkInv(D)'
<1>1. ASSUME NEW tree \in Roots, traverse(tree) PROVE WalkInv(D)'
  <2>1. tree \in D
    OBVIOUS
  <2> QED BY <1>1, <2>1, WalkStarts
<1>2. CASE VisitNode
  BY <1>2, WalkVisitsNode
<1>3. CASE VisitInteger \/ VisitString
  BY <1>3, WalkVisitsScalar
<1>4. CASE VisitContainer
  BY <1>4, WalkVisitsContainer
<1>5. CASE NextEntry
  BY <1>5, WalkEntersEntry
<1>6. CASE UnknownType \/ CallbackThrows
  BY <1>6, WalkStops
<1>7. CASE UNCHANGED vars
  <2>1. /\ root' = root /\ walk' = walk /\ outcome' = outcome /\ calls' = calls
        /\ analyzer' = analyzer /\ before' = before
    BY <1>7 DEF vars
  <2>2. \A seen, rest : Reached(D, seen, rest) => Reached(D, seen, rest)'
    BY <2>1 DEF Reached
  <2>3. \A seen, node, rest : Halfway(D, seen, node, rest) => Halfway(D, seen, node, rest)'
    BY <2>1 DEF Halfway
  <2>4. \A top, outer : Walking(D, top, outer) => Walking(D, top, outer)'
    BY <2>1 DEF Walking
  <2>5. ReachedInv(D) => ReachedInv(D)'
    BY <2>1, <2>2, <2>4 DEF ReachedInv
  <2>6. HalfwayInv(D) => HalfwayInv(D)'
    BY <2>1, <2>3, <2>4 DEF HalfwayInv
  <2> QED BY <2>1, <2>5, <2>6 DEF WalkInv
<1> QED BY <1>1, <1>2, <1>3, <1>4, <1>5, <1>6, <1>7 DEF Next, Visit

LEMMA WalkIsInvariant ==
  ASSUME NEW CONSTANT D, Complete(D), Roots \subseteq D
  PROVE  Spec => [](WalkInv(D) /\ MeasuredInv(D))
<1>1. Init => WalkInv(D) /\ MeasuredInv(D)
  <2> SUFFICES ASSUME Init PROVE WalkInv(D) /\ MeasuredInv(D)
    OBVIOUS
  <2>1. WalkInv(D)
    BY DEF Init, WalkInv
  <2>2. MeasuredInv(D)
    BY FreshMeasured DEF Init, MeasuredInv
  <2> QED BY <2>1, <2>2
<1>2. WalkInv(D) /\ MeasuredInv(D) /\ [Next]_vars => (WalkInv(D) /\ MeasuredInv(D))'
  BY WalkStep, MeasuredKept
<1> QED BY <1>1, <1>2, PTL DEF Spec

(***************************************************************************)
(* CallsFollowTree: the callbacks of a traversal of any document, of any   *)
(* size and depth, come in the order of its nodes, a node before its       *)
(* entries, up to its first hole.  The documents are finite trees whose    *)
(* scalars have no entries; D is any set of nodes that has them and all    *)
(* the nodes inside them.                                                  *)
(***************************************************************************)
THEOREM CallsAreInOrder ==
  ASSUME NEW CONSTANT D, Complete(D), Roots \subseteq D
  PROVE  Spec => []CallsFollowTree
<1>1. WalkInv(D) => CallsFollowTree
  BY InvFollows
<1>2. Spec => [](WalkInv(D) /\ MeasuredInv(D))
  BY WalkIsInvariant
<1> QED BY <1>1, <1>2, PTL

(***************************************************************************)
(* AnalyzerAddsUp: after any number of traversals of documents of any size *)
(* and depth, the analyzer's numbers are those of the documents before     *)
(* plus those of the last one, the longest key, the longest list and the   *)
(* largest dictionary included; and maxStringSize is not the longest       *)
(* string but the last one, or the longest key known when it was visited.  *)
(* Beyond what CallsAreInOrder asks of the documents, the size of a string *)
(* and of a key is a number, and only dictionaries have keys.              *)
(***************************************************************************)
THEOREM AnalyzerCountsAreRight ==
  ASSUME NEW CONSTANT D, Complete(D), Numbered(D), Roots \subseteq D
  PROVE  Spec => []AnalyzerAddsUp
<1>1. ASSUME WalkInv(D), MeasuredInv(D), outcome = "ok"
      PROVE  AddsUp(before, Preorder(root), analyzer)
  <2>1. ReachedInv(D)
    BY <1>1 DEF WalkInv, HalfwayInv, Walking
  <2>2. PICK seen \in Seq(D), rest \in Seq(D) : Reached(D, seen, rest) /\ rest = <<>>
    BY <1>1, <2>1 DEF ReachedInv, Walking
  <2>3. Preorder(root) = seen
    <3>1. Preorder(root) = seen \o <<>>
      BY <2>2 DEF Reached
    <3> QED BY <3>1
  <2>4. Counts(before, seen, analyzer, Len(seen)) /\ Measured(analyzer)
    BY <1>1, <2>2 DEF Reached, MeasuredInv
  <2> QED BY <2>3, <2>4, CountsFollow
<1>2. WalkInv(D) /\ MeasuredInv(D) => AnalyzerAddsUp
  BY <1>1 DEF AnalyzerAddsUp
<1>3. Spec => [](WalkInv(D) /\ MeasuredInv(D))
  BY WalkIsInvariant
<1> QED BY <1>2, <1>3, PTL

==============================================================================
