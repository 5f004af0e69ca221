----------------------------- MODULE Foundations -----------------------------
(***************************************************************************)
(* What the proofs of several components rest on: induction over the       *)
(* natural numbers, where references into a document tree lead, and what   *)
(* the recursive functions of the parser and the writer satisfy.           *)
(*                                                                         *)
(* Induction is stated in a first order form: about a set of numbers       *)
(* instead of a property of them, so that it can be used with any formula  *)
(* the set is made of.                                                     *)
(***************************************************************************)
EXTENDS RecursiveParser, DefaultStringify, SequenceTheorems, WellFoundedInduction, TLAPS

(* A set of natural numbers that is not empty has a least element.         *)
LEMMA LeastNumber ==
  ASSUME NEW S \in SUBSET Nat, S # {}
  PROVE  \E n \in S : \A m \in S : n <= m
<1> DEFINE Less == OpToRel(<, Nat)
<1>1. IsWellFoundedOn(Less, Nat)
  BY NatLessThanWellFounded
<1>2. \A x, y \in Nat : x < y => <<x, y>> \in Less
  BY DEF OpToRel
<1> HIDE DEF Less
<1>3. PICK n \in S : \A m \in S : ~(<<m, n>> \in Less)
  BY <1>1, WFMin
<1>4. ASSUME NEW m \in S PROVE n <= m
  <2>1. n \in Nat /\ m \in Nat
    OBVIOUS
  <2>2. ~(m < n)
    BY <1>2, <1>3, <2>1
  <2> QED BY <2>1, <2>2
<1> QED BY <1>4

(* Induction from any number on: a set that has its successors has every   *)
(* number from there.                                                      *)
LEMMA InductionFrom ==
  ASSUME NEW start \in Nat, NEW S, start \in S,
         \A n \in Nat : n >= start /\ n \in S => n + 1 \in S
  PROVE  \A n \in Nat : n >= start => n \in S
<1> DEFINE Missing == {n \in Nat : n >= start /\ n \notin S}
<1> SUFFICES ASSUME Missing # {} PROVE FALSE
  OBVIOUS
<1>1. PICK n \in Missing : \A m \in Missing : n <= m
  BY LeastNumber
<1>2. n # start
  OBVIOUS
<1>3. n - 1 \in Nat /\ n - 1 >= start /\ n - 1 \in S
  BY <1>1, <1>2
<1> QED BY <1>3

(* Induction up to a bound.                                                *)
LEMMA InductionUpTo ==
  ASSUME NEW start \in Int, NEW last \in Int, NEW S, start \in S,
         \A n \in start..last : n < last /\ n \in S => n + 1 \in S
  PROVE  \A n \in start..last : n \in S
<1> DEFINE Missing == {n \in Nat : start + n <= last /\ start + n \notin S}
<1> SUFFICES ASSUME Missing # {} PROVE FALSE
  <2> SUFFICES ASSUME NEW n \in start..last, n \notin S PROVE Missing # {}
    OBVIOUS
  <2>1. n - start \in Nat /\ start + (n - start) = n
    OBVIOUS
  <2>2. n - start \in Missing
    BY <2>1
  <2> QED BY <2>2
<1>1. PICK n \in Missing : \A m \in Missing : n <= m
  BY LeastNumber
<1>2. n # 0
  OBVIOUS
<1>3. n - 1 \in Nat /\ start + (n - 1) \in S
  BY <1>1, <1>2
<1>4. start + (n - 1) \in start..last /\ start + (n - 1) < last
  BY <1>3
<1>5. (start + (n - 1)) + 1 \in S
  BY <1>3, <1>4
<1> QED BY <1>3, <1>5

(* Strong induction: a set that has every number all smaller ones of which *)
(* it has.                                                                 *)
LEMMA StrongInduction ==
  ASSUME NEW S, \A n \in Nat : (\A m \in 0..(n - 1) : m \in S) => n \in S
  PROVE  Nat \subseteq S
<1> DEFINE Missing == {n \in Nat : n \notin S}
<1> SUFFICES ASSUME Missing # {} PROVE FALSE
  OBVIOUS
<1>1. PICK n \in Missing : \A m \in Missing : n <= m
  BY LeastNumber
<1>2. \A m \in 0..(n - 1) : m \in S
  BY <1>1
<1> QED BY <1>2

------------------------------------------------------------------------------
(* References. *)

(* The function that Along chooses exists.                                 *)
LEMMA AlongRecursion ==
  ASSUME NEW tree, NEW ref \in Seq(Nat)
  PROVE  Along(tree, ref) =
            [i \in 0..Len(ref) |-> IF i = 0 THEN tree ELSE Along(tree, ref)[i - 1].items[ref[i]]]
<1> DEFINE Solves(g, k) ==
             g = [i \in 0..k |-> IF i = 0 THEN tree ELSE g[i - 1].items[ref[i]]]
           Solved == {k \in Nat : \E g : Solves(g, k)}
<1>1. 0 \in Solved
  <2>1. Solves([i \in 0..0 |-> tree], 0)
    OBVIOUS
  <2> QED BY <2>1
<1>2. ASSUME NEW k \in Nat, k \in Solved PROVE k + 1 \in Solved
  <2>1. PICK g : Solves(g, k)
    BY <1>2
  <2> DEFINE last == g[k].items[ref[k + 1]]
             h == [i \in 0..(k + 1) |-> IF i <= k THEN g[i] ELSE last]
  <2>2. ASSUME NEW i \in 0..(k + 1)
        PROVE  h[i] = IF i = 0 THEN tree ELSE h[i - 1].items[ref[i]]
    <3>1. CASE i <= k
      <4>1. h[i] = g[i] /\ (i # 0 => h[i - 1] = g[i - 1])
        BY <3>1
      <4>2. g[i] = IF i = 0 THEN tree ELSE g[i - 1].items[ref[i]]
        <5>1. \A j \in 0..k : g[j] = IF j = 0 THEN tree ELSE g[j - 1].items[ref[j]]
          BY <2>1
        <5>2. i \in 0..k
          BY <3>1
        <5> QED BY <5>1, <5>2
      <4> QED BY <4>1, <4>2
    <3>2. CASE i = k + 1
      BY <3>2
    <3> QED BY <3>1, <3>2
  <2>3. h = [i \in 0..(k + 1) |-> h[i]]
    OBVIOUS
  <2> HIDE DEF h
  <2>4. Solves(h, k + 1)
    BY <2>2, <2>3
  <2> QED BY <2>4
<1>3. Len(ref) \in Solved
  <2> HIDE DEF Solved
  <2>1. Len(ref) \in Nat
    OBVIOUS
  <2> QED BY <1>1, <1>2, <2>1, InductionFrom, SMTT(40)
<1>4. \E g : Solves(g, Len(ref))
  BY <1>3
<1> QED BY <1>4 DEF Along

(* From one node to the next along a reference.                            *)
LEMMA AlongSteps ==
  ASSUME NEW tree, NEW ref \in Seq(Nat)
  PROVE  /\ Along(tree, ref)[0] = tree
         /\ \A i \in 1..Len(ref) : Along(tree, ref)[i] = Along(tree, ref)[i - 1].items[ref[i]]
<1> DEFINE f == Along(tree, ref)
<1>1. f = [i \in 0..Len(ref) |-> IF i = 0 THEN tree ELSE f[i - 1].items[ref[i]]]
  BY AlongRecursion
<1>2. Len(ref) \in Nat
  OBVIOUS
<1> HIDE DEF f
<1>3. \A i \in 0..Len(ref) : f[i] = IF i = 0 THEN tree ELSE f[i - 1].items[ref[i]]
  BY <1>1
<1>4. \A i \in 1..Len(ref) : i \in 0..Len(ref) /\ i # 0
  BY <1>2
<1>5. 0 \in 0..Len(ref)
  BY <1>2
<1> QED BY <1>3, <1>4, <1>5 DEF f

\* f has the nodes that the first n slots of ref lead through.
Follows(f, tree, ref, n) ==
    /\ n \in 0..Len(ref) /\ f[0] = tree
    /\ \A i \in 1..n : f[i] = f[i - 1].items[ref[i]]

(* A function that follows a reference has its nodes.                      *)
LEMMA AlongIs ==
  ASSUME NEW tree, NEW ref, ref \in Seq(Nat), NEW n, NEW f, Follows(f, tree, ref, n),
         NEW last, last \in 0..n
  PROVE  Along(tree, ref)[last] = f[last]
<1> DEFINE g == Along(tree, ref)
           Same == {i \in 0..n : g[i] = f[i]}
<1>1. /\ Len(ref) \in Nat /\ n \in Nat /\ n <= Len(ref) /\ f[0] = tree
      /\ \A i \in 1..n : f[i] = f[i - 1].items[ref[i]]
  BY DEF Follows
<1>2. /\ g[0] = tree
      /\ \A i \in 1..Len(ref) : g[i] = g[i - 1].items[ref[i]]
  BY AlongSteps
<1> HIDE DEF g
<1>3. 0 \in Same
  BY <1>1, <1>2
<1>4. ASSUME NEW i \in 0..n, i < n, i \in Same PROVE i + 1 \in Same
  <2>1. i + 1 \in 1..n /\ i + 1 \in 1..Len(ref) /\ i + 1 \in 0..n /\ (i + 1) - 1 = i
    BY <1>1, <1>4
  <2>2. f[i + 1] = f[i].items[ref[i + 1]]
    BY <1>1, <2>1
  <2>3. g[i + 1] = g[i].items[ref[i + 1]]
    BY <1>2, <2>1
  <2>4. g[i] = f[i]
    BY <1>4
  <2> QED BY <2>1, <2>2, <2>3, <2>4
<1> HIDE DEF Same
<1>5. \A i \in 0..n : i \in Same
  <2>1. 0 \in Int /\ n \in Int
    BY <1>1
  <2> QED BY <1>3, <1>4, <2>1, InductionUpTo
<1> QED BY <1>5 DEF Same, g

(* Every slot of a reference that leads somewhere is taken.                *)
LEMMA LeadsSteps ==
  ASSUME NEW tree, NEW ref \in Seq(Nat)
  PROVE  Leads(tree, ref) <=>
            \A i \in 1..Len(ref) : ref[i] \in DOMAIN Along(tree, ref)[i - 1].items
<1>1. DOMAIN ref = 1..Len(ref)
  OBVIOUS
<1> QED BY <1>1 DEF Leads

\* Two references have the same first n slots.
Agree(longer, ref, n) ==
    n \in 0..Len(ref) /\ n \in 0..Len(longer) /\ \A i \in 1..n : longer[i] = ref[i]

\* References that start with the same slots lead through the same nodes there.
LEMMA AlongPrefix ==
  ASSUME NEW tree, NEW ref, ref \in Seq(Nat), NEW longer, longer \in Seq(Nat),
         NEW n, Agree(longer, ref, n), NEW last, last \in 0..n
  PROVE  Along(tree, longer)[last] = Along(tree, ref)[last]
<1> DEFINE g == Along(tree, ref)
<1>1. g[0] = tree /\ \A i \in 1..Len(ref) : g[i] = g[i - 1].items[ref[i]]
  BY AlongSteps
<1>2. n \in 0..Len(longer) /\ \A i \in 1..n : i \in 1..Len(ref) /\ longer[i] = ref[i]
  BY DEF Agree
<1> HIDE DEF g
<1>3. Follows(g, tree, longer, n)
  BY <1>1, <1>2 DEF Follows
<1>4. Along(tree, longer)[last] = g[last]
  BY <1>3, AlongIs
<1> QED BY <1>4 DEF g

Extends(longer, ref, slot) ==
    /\ longer \in Seq(Nat) /\ Len(longer) = Len(ref) + 1 /\ longer[Len(ref) + 1] = slot
    /\ \A i \in 1..Len(ref) : longer[i] = ref[i]

LEMMA AppendExtends ==
  ASSUME NEW ref \in Seq(Nat), NEW slot \in Nat
  PROVE  Extends(Append(ref, slot), ref, slot)
BY DEF Extends

SameUpTo(h, g, n) == \A i \in 0..n : h[i] = g[i]

\* One more slot leaves the nodes before it as they are.
LEMMA AlongLonger ==
  ASSUME NEW tree, NEW ref, ref \in Seq(Nat), NEW slot, NEW longer, Extends(longer, ref, slot),
         NEW n, n = Len(ref), NEW g, g = Along(tree, ref), NEW h, h = Along(tree, longer)
  PROVE  /\ SameUpTo(h, g, n)
         /\ Leads(tree, ref) /\ slot \in DOMAIN g[n].items => Leads(tree, longer)
<1>1. /\ longer \in Seq(Nat) /\ Len(longer) = n + 1 /\ longer[n + 1] = slot /\ n \in Nat
      /\ \A i \in 1..n : longer[i] = ref[i]
  BY DEF Extends
<1>2. ASSUME NEW i \in 0..n PROVE h[i] = g[i]
  <2>1. Agree(longer, ref, n)
    BY <1>1 DEF Agree
  <2> QED BY <1>1, <2>1, AlongPrefix
<1>3. ASSUME Leads(tree, ref), slot \in DOMAIN g[n].items PROVE Leads(tree, longer)
  <2>1. \A i \in 1..n : ref[i] \in DOMAIN g[i - 1].items
    BY <1>3, LeadsSteps
  <2>2. \A i \in 1..(n + 1) : longer[i] \in DOMAIN h[i - 1].items
    <3> SUFFICES ASSUME NEW i \in 1..(n + 1) PROVE longer[i] \in DOMAIN h[i - 1].items
      OBVIOUS
    <3>1. i - 1 \in 0..n
      BY <1>1
    <3>2. h[i - 1] = g[i - 1]
      BY <1>2, <3>1
    <3>3. CASE i = n + 1
      <4>1. i - 1 = n
        BY <1>1, <3>3
      <4> QED BY <1>1, <1>3, <3>2, <3>3, <4>1
    <3>4. CASE i # n + 1
      <4>1. i \in 1..n
        BY <1>1, <3>4
      <4> QED BY <1>1, <2>1, <3>2, <4>1
    <3> QED BY <3>3, <3>4
  <2> QED BY <1>1, <2>2, LeadsSteps
<1> QED BY <1>2, <1>3 DEF SameUpTo

(* One more slot leads to an entry of the node.                            *)
LEMMA NodeLonger ==
  ASSUME NEW tree, NEW ref, ref \in Seq(Nat), NEW slot, NEW longer, Extends(longer, ref, slot)
  PROVE  NodeAt(tree, longer) = NodeAt(tree, ref).items[slot]
<1> DEFINE n == Len(ref)
           g == Along(tree, ref)
           h == Along(tree, longer)
<1>0. n = Len(ref) /\ g = Along(tree, ref) /\ h = Along(tree, longer)
  OBVIOUS
<1>1. /\ longer \in Seq(Nat) /\ Len(longer) = n + 1 /\ longer[n + 1] = slot /\ n \in Nat
  BY DEF Extends
<1>2. \A i \in 1..Len(longer) : h[i] = h[i - 1].items[longer[i]]
  BY <1>1, AlongSteps, SMTT(40)
<1> HIDE DEF n, g, h
<1>3. h[n] = g[n]
  <2>1. n \in 0..n
    BY <1>1
  <2> QED BY <1>0, <2>1, AlongLonger DEF SameUpTo
<1>4. h[n + 1] = h[n].items[slot]
  <2>1. n + 1 \in 1..Len(longer) /\ (n + 1) - 1 = n
    BY <1>1
  <2> QED BY <1>1, <1>2, <2>1
<1> QED BY <1>0, <1>1, <1>3, <1>4 DEF NodeAt

\* A reference leads to an entry when it leads to its container with one slot
\* less.
LEMMA LeadsLonger ==
  ASSUME NEW tree, NEW ref, ref \in Seq(Nat), NEW slot, NEW longer, Extends(longer, ref, slot)
  PROVE  Leads(tree, longer) <=> Leads(tree, ref) /\ slot \in DOMAIN NodeAt(tree, ref).items
<1> DEFINE n == Len(ref)
           g == Along(tree, ref)
           h == Along(tree, longer)
<1>0. n = Len(ref) /\ g = Along(tree, ref) /\ h = Along(tree, longer)
  OBVIOUS
<1>1. /\ longer \in Seq(Nat) /\ Len(longer) = n + 1 /\ longer[n + 1] = slot /\ n \in Nat
      /\ \A i \in 1..n : longer[i] = ref[i]
  <2>1. n \in Nat
    OBVIOUS
  <2> QED BY <2>1, Zenon DEF Extends
<1> HIDE DEF n, g, h
<1>2. \A i \in 0..n : h[i] = g[i]
  BY <1>0, AlongLonger DEF SameUpTo
<1>3. Leads(tree, ref) /\ slot \in DOMAIN g[n].items => Leads(tree, longer)
  BY <1>0, AlongLonger
<1>4. ASSUME Leads(tree, longer) PROVE Leads(tree, ref) /\ slot \in DOMAIN g[n].items
  <2>1. \A i \in 1..(n + 1) : longer[i] \in DOMAIN h[i - 1].items
    BY <1>0, <1>1, <1>4, LeadsSteps
  <2>2. \A i \in 1..n : ref[i] \in DOMAIN g[i - 1].items
    <3> SUFFICES ASSUME NEW i \in 1..n PROVE ref[i] \in DOMAIN g[i - 1].items
      OBVIOUS
    <3>1. i \in 1..(n + 1) /\ i - 1 \in 0..n
      BY <1>1
    <3> QED BY <1>1, <1>2, <2>1, <3>1
  <2>3. slot \in DOMAIN g[n].items
    <3>1. n + 1 \in 1..(n + 1) /\ (n + 1) - 1 = n /\ n \in 0..n
      BY <1>1
    <3> QED BY <1>1, <1>2, <2>1, <3>1
  <2> QED BY <1>0, <2>2, <2>3, LeadsSteps
<1> QED BY <1>0, <1>3, <1>4 DEF NodeAt

\* One more slot in front.
Below(slot, ref) == <<slot>> \o ref

LEMMA BelowParts ==
  ASSUME NEW slot \in Nat, NEW ref \in Seq(Nat)
  PROVE  /\ Below(slot, ref) \in Seq(Nat) /\ Len(Below(slot, ref)) = Len(ref) + 1
         /\ Below(slot, ref)[1] = slot
         /\ \A i \in 1..Len(ref) : Below(slot, ref)[i + 1] = ref[i]
BY DEF Below

(* A reference that is not empty starts with a slot.                       *)
LEMMA FirstSlot ==
  ASSUME NEW ref \in Seq(Nat), ref # <<>>
  PROVE  /\ ref[1] \in Nat /\ Tail(ref) \in Seq(Nat)
         /\ ref = Below(ref[1], Tail(ref))
BY DEF Below

LEMMA BelowAppend ==
  ASSUME NEW slot \in Nat, NEW ref \in Seq(Nat), NEW i \in Nat
  PROVE  /\ Append(Below(slot, ref), i) = Below(slot, Append(ref, i))
         /\ Append(<<>>, i) = Below(i, <<>>)
         /\ Below(slot, ref) # <<>>
         /\ Tail(Below(slot, ref)) = ref
BY DEF Below

(* A reference leads from a node where the rest of it leads from the entry *)
(* in its first slot.                                                      *)
LEMMA AlongBelow ==
  ASSUME NEW tree, NEW slot \in Nat, NEW ref \in Seq(Nat), NEW i \in 0..Len(ref)
  PROVE  Along(tree, Below(slot, ref))[i + 1] = Along(tree.items[slot], ref)[i]
<1> DEFINE n == Len(ref)
           longer == Below(slot, ref)
           g == Along(tree.items[slot], ref)
           f == [j \in 0..(n + 1) |-> IF j = 0 THEN tree ELSE g[j - 1]]
<1>1. /\ longer \in Seq(Nat) /\ Len(longer) = n + 1 /\ longer[1] = slot
      /\ \A j \in 1..n : longer[j + 1] = ref[j]
  BY BelowParts
<1>2. n \in Nat
  OBVIOUS
<1>3. g[0] = tree.items[slot] /\ \A j \in 1..n : g[j] = g[j - 1].items[ref[j]]
  BY AlongSteps
<1> HIDE DEF g, longer, n
<1>4. ASSUME NEW j \in 1..(n + 1) PROVE f[j] = f[j - 1].items[longer[j]]
  <2>1. f[j] = g[j - 1]
    BY <1>2
  <2>2. CASE j = 1
    <3>1. f[j - 1] = tree /\ longer[j] = slot
      BY <1>1, <1>2, <2>2
    <3> QED BY <1>3, <2>1, <2>2, <3>1
  <2>3. CASE j # 1
    <3>1. j - 1 \in 1..n /\ f[j - 1] = g[(j - 1) - 1] /\ longer[(j - 1) + 1] = longer[j]
      BY <1>2, <2>3
    <3> QED BY <1>1, <1>3, <2>1, <3>1
  <2> QED BY <2>2, <2>3
<1>5. f[0] = tree
  BY <1>2
<1>6. i + 1 \in 0..(n + 1) /\ f[i + 1] = g[i]
  BY <1>2 DEF n
<1> HIDE DEF f
<1>8. Follows(f, tree, longer, n + 1)
  <2>1. n + 1 \in 0..Len(longer)
    BY <1>1, <1>2
  <2> QED BY <1>4, <1>5, <2>1 DEF Follows
<1>7. Along(tree, longer)[i + 1] = f[i + 1]
  BY <1>1, <1>6, <1>8, AlongIs
<1> QED BY <1>6, <1>7 DEF g, longer

LEMMA NodeBelow ==
  ASSUME NEW tree, NEW slot \in Nat, NEW ref \in Seq(Nat)
  PROVE  NodeAt(tree, Below(slot, ref)) = NodeAt(tree.items[slot], ref)
<1>1. Len(Below(slot, ref)) = Len(ref) + 1
  BY BelowParts
<1>2. Len(ref) \in 0..Len(ref)
  OBVIOUS
<1>3. Along(tree, Below(slot, ref))[Len(ref) + 1] = Along(tree.items[slot], ref)[Len(ref)]
  BY <1>2, AlongBelow
<1> QED BY <1>1, <1>3 DEF NodeAt

LEMMA LeadsBelow ==
  ASSUME NEW tree, NEW slot \in Nat, NEW ref \in Seq(Nat)
  PROVE  Leads(tree, Below(slot, ref)) <=>
            slot \in DOMAIN tree.items /\ Leads(tree.items[slot], ref)
<1> DEFINE n == Len(ref)
           longer == Below(slot, ref)
           g == Along(tree.items[slot], ref)
           h == Along(tree, longer)
<1>1. /\ longer \in Seq(Nat) /\ Len(longer) = n + 1 /\ longer[1] = slot
      /\ \A j \in 1..n : longer[j + 1] = ref[j]
  BY BelowParts
<1>2. n \in Nat
  OBVIOUS
<1>3. h[0] = tree
  BY <1>1, AlongSteps
<1>4. \A j \in 0..n : h[j + 1] = g[j]
  BY AlongBelow
<1>5. Leads(tree, longer) <=> \A j \in 1..(n + 1) : longer[j] \in DOMAIN h[j - 1].items
  BY <1>1, LeadsSteps
<1>6. Leads(tree.items[slot], ref) <=> \A j \in 1..n : ref[j] \in DOMAIN g[j - 1].items
  BY LeadsSteps
<1> HIDE DEF g, h, longer, n
<1>7. ASSUME NEW j \in 1..n
      PROVE  longer[j + 1] \in DOMAIN h[(j + 1) - 1].items <=> ref[j] \in DOMAIN g[j - 1].items
  <2>1. j - 1 \in 0..n /\ (j - 1) + 1 = j /\ (j + 1) - 1 = j
    BY <1>2
  <2>2. h[j] = g[j - 1]
    BY <1>4, <2>1
  <2> QED BY <1>1, <2>1, <2>2
<1>8. ASSUME \A j \in 1..(n + 1) : longer[j] \in DOMAIN h[j - 1].items
      PROVE  slot \in DOMAIN tree.items /\ \A j \in 1..n : ref[j] \in DOMAIN g[j - 1].items
  <2>1. 1 \in 1..(n + 1) /\ 1 - 1 = 0 /\ \A j \in 1..n : j + 1 \in 1..(n + 1)
    BY <1>2
  <2>2. longer[1] \in DOMAIN h[1 - 1].items
    BY <1>8, <2>1
  <2> QED BY <1>1, <1>3, <1>7, <1>8, <2>1, <2>2
<1>9. ASSUME slot \in DOMAIN tree.items, \A j \in 1..n : ref[j] \in DOMAIN g[j - 1].items,
             NEW j \in 1..(n + 1)
      PROVE  longer[j] \in DOMAIN h[j - 1].items
  <2>1. CASE j = 1
    <3>1. longer[j] = slot /\ h[j - 1] = tree
      BY <1>1, <1>3, <2>1
    <3> QED BY <1>9, <3>1
  <2>2. CASE j # 1
    <3>1. j - 1 \in 1..n /\ (j - 1) + 1 = j
      BY <1>2, <2>2
    <3> QED BY <1>7, <1>9, <3>1
  <2> QED BY <2>1, <2>2
<1> QED BY <1>5, <1>6, <1>8, <1>9 DEF g, longer

(* The references into a node: the empty one, and those that start with a  *)
(* slot it has and go on into the entry there.                             *)
LEMMA ReferencesBelow ==
  ASSUME NEW tree
  PROVE  /\ <<>> \in References(tree) /\ NodeAt(tree, <<>>) = tree
         /\ \A slot \in Nat, ref \in Seq(Nat) :
               Below(slot, ref) \in References(tree)
                  <=> slot \in DOMAIN tree.items /\ ref \in References(tree.items[slot])
<1>1. <<>> \in Seq(Nat) /\ Len(<<>>) = 0
  OBVIOUS
<1>2. Along(tree, <<>>)[0] = tree
  BY <1>1, AlongSteps
<1>3. Leads(tree, <<>>)
  <2>1. \A i \in 1..Len(<<>>) : <<>>[i] \in DOMAIN Along(tree, <<>>)[i - 1].items
    BY <1>1
  <2> QED BY <1>1, <2>1, LeadsSteps
<1>4. <<>> \in References(tree) /\ NodeAt(tree, <<>>) = tree
  BY <1>1, <1>2, <1>3 DEF References, NodeAt
<1>5. ASSUME NEW slot \in Nat, NEW ref \in Seq(Nat)
      PROVE  Below(slot, ref) \in References(tree)
                <=> slot \in DOMAIN tree.items /\ ref \in References(tree.items[slot])
  <2>1. Below(slot, ref) \in Seq(Nat)
    BY BelowParts
  <2> QED BY <2>1, LeadsBelow DEF References
<1> QED BY <1>4, <1>5

------------------------------------------------------------------------------
(* Trees of finite depth. *)

DepthAtMost(tree, depth) == \A ref \in References(tree) : Len(ref) <= depth

FiniteDepth(tree) == \E depth \in Nat : DepthAtMost(tree, depth)

LEMMA EntryDepth ==
  ASSUME NEW tree, NEW depth \in Nat, DepthAtMost(tree, depth),
         NEW slot \in Nat, slot \in DOMAIN tree.items
  PROVE  depth - 1 \in Nat /\ DepthAtMost(tree.items[slot], depth - 1)
<1> DEFINE item == tree.items[slot]
<1>1. ASSUME NEW ref \in References(item) PROVE Len(ref) \in Nat /\ Len(ref) + 1 <= depth
  <2>1. ref \in Seq(Nat)
    BY DEF References
  <2>2. Below(slot, ref) \in References(tree)
    BY <2>1, ReferencesBelow
  <2>3. Len(Below(slot, ref)) = Len(ref) + 1
    BY <2>1, BelowParts
  <2> QED BY <2>1, <2>2, <2>3 DEF DepthAtMost
<1>2. <<>> \in References(item) /\ Len(<<>>) = 0
  BY ReferencesBelow
<1>3. depth - 1 \in Nat
  BY <1>1, <1>2
<1> QED BY <1>1, <1>3 DEF DepthAtMost

(* A node is one level deeper than its deepest entry.                      *)
LEMMA NodeDepth ==
  ASSUME NEW tree, NEW depth \in Nat,
         \A slot \in DOMAIN tree.items : slot \in Nat /\ DepthAtMost(tree.items[slot], depth)
  PROVE  DepthAtMost(tree, depth + 1)
<1> SUFFICES ASSUME NEW ref \in References(tree) PROVE Len(ref) <= depth + 1
  BY DEF DepthAtMost
<1>1. ref \in Seq(Nat)
  BY DEF References
<1>2. CASE ref = <<>>
  BY <1>2
<1>3. CASE ref # <<>>
  <2>1. ref[1] \in Nat /\ Tail(ref) \in Seq(Nat) /\ ref = Below(ref[1], Tail(ref))
    BY <1>1, <1>3, FirstSlot
  <2>2. ref[1] \in DOMAIN tree.items /\ Tail(ref) \in References(tree.items[ref[1]])
    BY <2>1, ReferencesBelow
  <2>3. Len(Tail(ref)) <= depth
    BY <2>2 DEF DepthAtMost
  <2>4. Len(ref) = Len(Tail(ref)) + 1
    BY <1>1, <1>3
  <2> QED BY <2>3, <2>4, <1>1
<1> QED BY <1>2, <1>3

(***************************************************************************)
(* Induction over trees: a set that has every node of D all of whose       *)
(* entries it has, has all of D, if D has the entries of its nodes and     *)
(* they are of finite depth.                                               *)
(***************************************************************************)
LEMMA TreeInduction ==
  ASSUME NEW D, NEW G,
         \A node \in D : FiniteDepth(node) /\ node.items \in Seq(D),
         \A node \in D : (\A i \in DOMAIN node.items : node.items[i] \in G) => node \in G
  PROVE  D \subseteq G
<1> DEFINE Covered == {depth \in Nat : \A node \in D : DepthAtMost(node, depth) => node \in G}
<1>1. ASSUME NEW depth \in Nat, NEW node \in D, DepthAtMost(node, depth),
             \A d \in Nat : d < depth => d \in Covered
      PROVE  node \in G
  <2>1. DOMAIN node.items \subseteq Nat /\ \A i \in DOMAIN node.items : node.items[i] \in D
    <3>1. node.items \in Seq(D)
      OBVIOUS
    <3> QED BY <3>1
  <2>2. ASSUME NEW i \in DOMAIN node.items PROVE node.items[i] \in G
    <3>1. depth - 1 \in Nat /\ DepthAtMost(node.items[i], depth - 1)
      BY <1>1, <2>1, EntryDepth
    <3>2. depth - 1 \in Covered
      BY <1>1, <3>1
    <3> QED BY <2>1, <3>1, <3>2
  <2> QED BY <2>2
<1>2. \A depth \in Nat : (\A d \in 0..(depth - 1) : d \in Covered) => depth \in Covered
  <2> SUFFICES ASSUME NEW depth \in Nat, \A d \in 0..(depth - 1) : d \in Covered
               PROVE  depth \in Covered
    OBVIOUS
  <2>1. \A d \in Nat : d < depth => d \in 0..(depth - 1)
    OBVIOUS
  <2>2. \A node \in D : DepthAtMost(node, depth) => node \in G
    BY <1>1, <2>1
  <2> QED BY <2>2
<1>3. Nat \subseteq Covered
  <2> HIDE DEF Covered
  <2> QED BY <1>2, StrongInduction
<1> SUFFICES ASSUME NEW node \in D PROVE node \in G
  OBVIOUS
<1>4. PICK depth \in Nat : DepthAtMost(node, depth)
  BY DEF FiniteDepth
<1> QED BY <1>3, <1>4

------------------------------------------------------------------------------
(***************************************************************************)
(* Recursive descent, unfolded: what the recursive functions of            *)
(* RecursiveParser satisfy.                                                *)
(***************************************************************************)

LEMMA TurnsRecursion ==
  ASSUME NEW text, Len(text) \in Nat, NEW lim, NEW values, NEW type, NEW pos
  PROVE  Turns(text, lim, values, type, pos) =
            [n \in 0..Len(text) |->
                IF n = 0 THEN Started(pos)
                ELSE Turn(text, lim, values, type, Turns(text, lim, values, type, pos)[n - 1])]
<1> DEFINE Solves(g, k) ==
             g = [n \in 0..k |-> IF n = 0 THEN Started(pos)
                                 ELSE Turn(text, lim, values, type, g[n - 1])]
           Solved == {k \in Nat : \E g : Solves(g, k)}
<1>1. 0 \in Solved
  <2>1. Solves([n \in 0..0 |-> Started(pos)], 0)
    OBVIOUS
  <2> QED BY <2>1
<1>2. ASSUME NEW k \in Nat, k \in Solved PROVE k + 1 \in Solved
  <2>1. PICK g : Solves(g, k)
    BY <1>2
  <2> DEFINE last == Turn(text, lim, values, type, g[k])
             h == [n \in 0..(k + 1) |-> IF n <= k THEN g[n] ELSE last]
  <2>2. ASSUME NEW n \in 0..(k + 1)
        PROVE  h[n] = IF n = 0 THEN Started(pos) ELSE Turn(text, lim, values, type, h[n - 1])
    <3>1. CASE n <= k
      <4>1. h[n] = g[n] /\ (n # 0 => h[n - 1] = g[n - 1])
        BY <3>1
      <4>2. g[n] = IF n = 0 THEN Started(pos) ELSE Turn(text, lim, values, type, g[n - 1])
        <5>1. \A j \in 0..k : g[j] = IF j = 0 THEN Started(pos)
                                     ELSE Turn(text, lim, values, type, g[j - 1])
          BY <2>1
        <5>2. n \in 0..k
          BY <3>1
        <5> QED BY <5>1, <5>2
      <4> QED BY <4>1, <4>2
    <3>2. CASE n = k + 1
      BY <3>2
    <3> QED BY <3>1, <3>2
  <2>3. h = [n \in 0..(k + 1) |-> h[n]]
    OBVIOUS
  <2> HIDE DEF h
  <2>4. Solves(h, k + 1)
    BY <2>2, <2>3
  <2> QED BY <2>4
<1>3. Len(text) \in Solved
  <2> HIDE DEF Solved
  <2> QED BY <1>1, <1>2, InductionFrom
<1>4. \E g : Solves(g, Len(text))
  BY <1>3
<1> QED BY <1>4 DEF Turns

(* A loop starts before its first entry and goes on turn by turn.          *)
LEMMA TurnsSteps ==
  ASSUME NEW text, Len(text) \in Nat, NEW lim, NEW values, NEW type, NEW pos
  PROVE  LET turns == Turns(text, lim, values, type, pos)
         IN /\ turns[0] = Started(pos)
            /\ \A n \in 1..Len(text) : turns[n] = Turn(text, lim, values, type, turns[n - 1])
<1> DEFINE f == Turns(text, lim, values, type, pos)
<1>1. f = [n \in 0..Len(text) |->
              IF n = 0 THEN Started(pos) ELSE Turn(text, lim, values, type, f[n - 1])]
  BY TurnsRecursion
<1> HIDE DEF f
<1>2. \A n \in 0..Len(text) :
        f[n] = IF n = 0 THEN Started(pos) ELSE Turn(text, lim, values, type, f[n - 1])
  BY <1>1
<1>3. 0 \in 0..Len(text) /\ \A n \in 1..Len(text) : n \in 0..Len(text) /\ n # 0
  OBVIOUS
<1> QED BY <1>2, <1>3 DEF f

(* A loop that has ended stays as it is.                                   *)
LEMMA TurnsSettle ==
  ASSUME NEW text, Len(text) \in Nat, NEW lim, NEW values, NEW type, NEW pos,
         NEW n \in 0..Len(text),
         Turns(text, lim, values, type, pos)[n].state # "reading"
  PROVE  Turns(text, lim, values, type, pos)[Len(text)] =
            Turns(text, lim, values, type, pos)[n]
<1> DEFINE f == Turns(text, lim, values, type, pos)
           Settled == {k \in n..Len(text) : f[k] = f[n]}
<1>1. \A k \in 1..Len(text) : f[k] = Turn(text, lim, values, type, f[k - 1])
  BY TurnsSteps
<1>2. f[n].state # "reading"
  OBVIOUS
<1> HIDE DEF f
<1>3. n \in Settled
  OBVIOUS
<1>4. ASSUME NEW k \in n..Len(text), k < Len(text), k \in Settled PROVE k + 1 \in Settled
  <2>1. k + 1 \in 1..Len(text) /\ k + 1 \in n..Len(text) /\ (k + 1) - 1 = k
    BY <1>4
  <2>2. f[k] = f[n]
    BY <1>4
  <2>3. f[k + 1] = Turn(text, lim, values, type, f[n])
    BY <1>1, <2>1, <2>2
  <2>4. f[k + 1] = f[n]
    BY <1>2, <2>3 DEF Turn
  <2> QED BY <2>1, <2>4
<1> HIDE DEF Settled
<1>5. \A k \in n..Len(text) : k \in Settled
  <2>1. n \in Int /\ Len(text) \in Int
    OBVIOUS
  <2> QED BY <1>3, <1>4, <2>1, InductionUpTo
<1>6. Len(text) \in n..Len(text)
  OBVIOUS
<1>7. Len(text) \in Settled
  BY <1>5, <1>6
<1> QED BY <1>7 DEF Settled, f

\* One level of parseNodes, given the level below.
LevelOf(text, lim, below, level) ==
    [pos \in Nat |->
        IF level <= 1 THEN Failure
        ELSE IF At(text, pos).kind \in ContainerType
        THEN ParseContainer(text, lim, below, At(text, pos).kind, pos + 1)
        ELSE Scalar(text, pos, lim)]

LEMMA NodesRecursion ==
  ASSUME NEW text, NEW lim, lim.depth \in Nat
  PROVE  ParseNodes(text, lim) =
            [level \in 0..lim.depth |->
                LevelOf(text, lim, ParseNodes(text, lim)[level - 1], level)]
<1> DEFINE Solves(g, k) ==
             g = [level \in 0..k |-> LevelOf(text, lim, g[level - 1], level)]
           Solved == {k \in Nat : \E g : Solves(g, k)}
<1>1. 0 \in Solved
  <2> DEFINE g == [level \in 0..0 |-> [pos \in Nat |-> Failure]]
  <2>1. ASSUME NEW level \in 0..0, NEW below PROVE g[level] = LevelOf(text, lim, below, level)
    BY DEF LevelOf
  <2>2. g = [level \in 0..0 |-> g[level]]
    OBVIOUS
  <2> HIDE DEF g
  <2>3. Solves(g, 0)
    BY <2>1, <2>2
  <2> QED BY <2>3
<1>2. ASSUME NEW k \in Nat, k \in Solved PROVE k + 1 \in Solved
  <2>1. PICK g : Solves(g, k)
    BY <1>2
  <2> DEFINE last == LevelOf(text, lim, g[k], k + 1)
             h == [level \in 0..(k + 1) |-> IF level <= k THEN g[level] ELSE last]
  <2>2. ASSUME NEW level \in 0..(k + 1)
        PROVE  h[level] = LevelOf(text, lim, h[level - 1], level)
    <3>1. CASE level = 0
      <4>1. h[0] = g[0] /\ 0 \in 0..k
        BY <3>1
      <4>2. g[0] = LevelOf(text, lim, g[0 - 1], 0)
        <5>1. \A j \in 0..k : g[j] = LevelOf(text, lim, g[j - 1], j)
          BY <2>1
        <5> QED BY <4>1, <5>1
      <4>3. \A x, y : LevelOf(text, lim, x, 0) = LevelOf(text, lim, y, 0)
        BY DEF LevelOf
      <4> QED BY <3>1, <4>1, <4>2, <4>3
    <3>2. CASE level # 0 /\ level <= k
      <4>1. h[level] = g[level] /\ h[level - 1] = g[level - 1] /\ level \in 0..k
        BY <3>2
      <4>2. \A j \in 0..k : g[j] = LevelOf(text, lim, g[j - 1], j)
        BY <2>1
      <4> QED BY <4>1, <4>2
    <3>3. CASE level = k + 1
      BY <3>3
    <3> QED BY <3>1, <3>2, <3>3
  <2>3. h = [level \in 0..(k + 1) |-> h[level]]
    OBVIOUS
  <2> HIDE DEF h
  <2>4. Solves(h, k + 1)
    BY <2>2, <2>3
  <2> QED BY <2>4
<1>3. lim.depth \in Solved
  <2> HIDE DEF Solved
  <2> QED BY <1>1, <1>2, InductionFrom
<1>4. \E g : Solves(g, lim.depth)
  BY <1>3
<1> QED BY <1>4 DEF ParseNodes, LevelOf

\* What recursive descent makes of the value at pos with a number of levels left.
ValueAt(text, lim, level, pos) == ParseNodes(text, lim)[level][pos]

\* The loop over the entries that begin at pos, each given that many levels.
LoopAt(text, lim, level, type, pos) == Turns(text, lim, ParseNodes(text, lim)[level], type, pos)

LEMMA ValueIs ==
  ASSUME NEW text, NEW lim, lim.depth \in Nat, NEW level \in 0..lim.depth, NEW pos \in Nat
  PROVE  /\ level <= 1 => ValueAt(text, lim, level, pos) = Failure
         /\ level > 1 /\ At(text, pos).kind \notin ContainerType =>
                ValueAt(text, lim, level, pos) = Scalar(text, pos, lim)
         /\ level > 1 /\ At(text, pos).kind \in ContainerType =>
                ValueAt(text, lim, level, pos) =
                    LET ended == LoopAt(text, lim, level - 1, At(text, pos).kind, pos + 1)[Len(text)]
                    IN IF ended.state = "done"
                       THEN Success(ContainerNode(At(text, pos).kind, ended.keys, ended.items),
                                    ended.next)
                       ELSE Failure
<1> DEFINE f == ParseNodes(text, lim)
<1>1. f = [n \in 0..lim.depth |-> LevelOf(text, lim, f[n - 1], n)]
  BY NodesRecursion
<1>2. f[level] = LevelOf(text, lim, f[level - 1], level)
  <2> HIDE DEF f
  <2> QED BY <1>1
<1>3. f[level][pos] = IF level <= 1 THEN Failure
                      ELSE IF At(text, pos).kind \in ContainerType
                      THEN ParseContainer(text, lim, f[level - 1], At(text, pos).kind, pos + 1)
                      ELSE Scalar(text, pos, lim)
  <2> HIDE DEF f
  <2> QED BY <1>2 DEF LevelOf
<1> QED BY <1>3 DEF ValueAt, LoopAt, ParseContainer

LEMMA NextTurn ==
  ASSUME NEW T, Len(T) \in Nat, NEW l, NEW level, NEW type, NEW pos,
         NEW m \in Nat, m + 1 \in 0..Len(T),
         NEW loops, loops = LoopAt(T, l, level, type, pos)
  PROVE  loops[m + 1] = Turn(T, l, ParseNodes(T, l)[level], type, loops[m])
<1>1. \A n \in 1..Len(T) : loops[n] = Turn(T, l, ParseNodes(T, l)[level], type, loops[n - 1])
  BY TurnsSteps DEF LoopAt
<1>2. m + 1 \in 1..Len(T) /\ (m + 1) - 1 = m
  OBVIOUS
<1> QED BY <1>1, <1>2

------------------------------------------------------------------------------
(* Texts. *)

\* f[i] is the first i sequences of ss after one another.
Accumulates(f, ss) ==
    /\ f[0] = <<>>
    /\ \A i \in 1..Len(ss) : f[i] = f[i - 1] \o ss[i]

(* The function that FlattenSeq chooses exists, and is the only one.       *)
LEMMA FlattenRecursion ==
  ASSUME NEW A, NEW ss \in Seq(Seq(A)), Len(ss) # 0
  PROVE  \E g : /\ g = [i \in 1..Len(ss) |-> IF i = 1 THEN ss[i] ELSE g[i - 1] \o ss[i]]
                /\ FlattenSeq(ss) = g[Len(ss)]
<1> DEFINE Solves(g, k) == g = [i \in 1..k |-> IF i = 1 THEN ss[i] ELSE g[i - 1] \o ss[i]]
           Solved == {k \in Nat : \E g : Solves(g, k)}
<1>1. 1 \in Solved
  <2>1. Solves([i \in 1..1 |-> ss[i]], 1)
    OBVIOUS
  <2> QED BY <2>1
<1>2. ASSUME NEW k \in Nat, k >= 1, k \in Solved PROVE k + 1 \in Solved
  <2>1. PICK g : Solves(g, k)
    BY <1>2
  <2> DEFINE last == g[k] \o ss[k + 1]
             h == [i \in 1..(k + 1) |-> IF i <= k THEN g[i] ELSE last]
  <2>2. ASSUME NEW i \in 1..(k + 1)
        PROVE  h[i] = IF i = 1 THEN ss[i] ELSE h[i - 1] \o ss[i]
    <3>1. CASE i <= k
      <4>1. h[i] = g[i] /\ (i # 1 => h[i - 1] = g[i - 1])
        BY <3>1
      <4>2. g[i] = IF i = 1 THEN ss[i] ELSE g[i - 1] \o ss[i]
        <5>1. \A j \in 1..k : g[j] = IF j = 1 THEN ss[j] ELSE g[j - 1] \o ss[j]
          BY <2>1
        <5>2. i \in 1..k
          BY <3>1
        <5> QED BY <5>1, <5>2
      <4> QED BY <4>1, <4>2
    <3>2. CASE i = k + 1
      BY <1>2, <3>2
    <3> QED BY <3>1, <3>2
  <2>3. h = [i \in 1..(k + 1) |-> h[i]]
    OBVIOUS
  <2> HIDE DEF h
  <2>4. Solves(h, k + 1)
    BY <2>2, <2>3
  <2> HIDE DEF Solves
  <2>5. \E f : Solves(f, k + 1)
    BY <2>4
  <2> QED BY <2>5
<1>3. Len(ss) \in Solved
  <2>1. Len(ss) \in Nat /\ Len(ss) >= 1
    OBVIOUS
  <2> HIDE DEF Solved
  <2> QED BY <1>1, <1>2, <2>1, InductionFrom
<1>4. \E g : Solves(g, Len(ss))
  BY <1>3
<1> DEFINE flat == CHOOSE g : Solves(g, Len(ss))
<1>5. Solves(flat, Len(ss))
  BY <1>4
<1>6. FlattenSeq(ss) = flat[Len(ss)]
  BY DEF FlattenSeq
<1> QED BY <1>5, <1>6

LEMMA FlattenIs ==
  ASSUME NEW A, NEW ss \in Seq(Seq(A))
  PROVE  /\ \E f : Accumulates(f, ss)
         /\ \A f : Accumulates(f, ss) =>
              /\ \A i \in 0..Len(ss) : f[i] \in Seq(A)
              /\ FlattenSeq(ss) = f[Len(ss)]
<1>1. Len(ss) \in Nat /\ \A i \in 1..Len(ss) : ss[i] \in Seq(A)
  OBVIOUS
<1>2. \A s \in Seq(A) : <<>> \o s = s
  OBVIOUS
<1>3. \A s, t \in Seq(A) : s \o t \in Seq(A)
  OBVIOUS
<1>4. CASE Len(ss) = 0
  <2>1. FlattenSeq(ss) = <<>> /\ <<>> \in Seq(A)
    BY <1>4 DEF FlattenSeq
  <2>2. Accumulates([i \in {0} |-> <<>>], ss)
    BY <1>4 DEF Accumulates
  <2>3. ASSUME NEW f, Accumulates(f, ss)
        PROVE  (\A i \in 0..Len(ss) : f[i] \in Seq(A)) /\ FlattenSeq(ss) = f[Len(ss)]
    <3>1. f[0] = <<>> /\ \A i \in 0..Len(ss) : i = 0
      BY <1>4, <2>3 DEF Accumulates
    <3> QED BY <1>4, <2>1, <3>1
  <2> QED BY <2>2, <2>3
<1>5. CASE Len(ss) # 0
  <2>1. PICK g : /\ g = [i \in 1..Len(ss) |-> IF i = 1 THEN ss[i] ELSE g[i - 1] \o ss[i]]
                 /\ FlattenSeq(ss) = g[Len(ss)]
    BY <1>5, FlattenRecursion
  <2>2. /\ g[1] = ss[1]
        /\ \A i \in 1..Len(ss) : i # 1 => g[i] = g[i - 1] \o ss[i]
    <3>1. 1 \in 1..Len(ss)
      BY <1>1, <1>5
    <3>2. \A i \in 1..Len(ss) : g[i] = IF i = 1 THEN ss[i] ELSE g[i - 1] \o ss[i]
      BY <2>1
    <3> QED BY <3>1, <3>2
  <2> DEFINE f == [i \in 0..Len(ss) |-> IF i = 0 THEN <<>> ELSE g[i]]
  <2>3. Accumulates(f, ss)
    <3>1. ASSUME NEW i \in 1..Len(ss) PROVE f[i] = f[i - 1] \o ss[i]
      <4>1. f[i] = g[i] /\ f[i - 1] = IF i = 1 THEN <<>> ELSE g[i - 1]
        BY <1>1
      <4> QED BY <1>1, <1>2, <2>2, <4>1
    <3>2. f[0] = <<>>
      BY <1>1
    <3> QED BY <3>1, <3>2 DEF Accumulates
  <2>4. ASSUME NEW h, Accumulates(h, ss)
        PROVE  /\ \A i \in 0..Len(ss) : h[i] \in Seq(A)
               /\ h[Len(ss)] = g[Len(ss)]
    <3>1. h[0] = <<>> /\ \A i \in 1..Len(ss) : h[i] = h[i - 1] \o ss[i]
      BY <2>4 DEF Accumulates
    <3> DEFINE Same == {i \in 1..Len(ss) : h[i] = g[i] /\ h[i] \in Seq(A)}
    <3>2. 1 \in Same
      <4>1. 1 \in 1..Len(ss) /\ 1 - 1 = 0
        BY <1>1, <1>5
      <4>2. h[1] = <<>> \o ss[1] /\ ss[1] \in Seq(A)
        BY <1>1, <3>1, <4>1
      <4>3. h[1] = ss[1]
        BY <1>2, <4>2
      <4> QED BY <2>2, <4>1, <4>2, <4>3
    <3>3. ASSUME NEW i \in 1..Len(ss), i < Len(ss), i \in Same PROVE i + 1 \in Same
      <4>1. i + 1 \in 1..Len(ss) /\ i + 1 # 1 /\ (i + 1) - 1 = i
        BY <1>1, <3>3
      <4>2. h[i] = g[i] /\ h[i] \in Seq(A)
        BY <3>3
      <4>3. h[i + 1] = h[i] \o ss[i + 1] /\ g[i + 1] = g[i] \o ss[i + 1]
        BY <2>2, <3>1, <4>1
      <4>4. h[i + 1] \in Seq(A)
        BY <1>1, <1>3, <4>1, <4>2, <4>3
      <4> QED BY <4>1, <4>2, <4>3, <4>4
    <3>4. \A i \in 1..Len(ss) : i \in Same
      <4> HIDE DEF Same
      <4>1. 1 \in Int /\ Len(ss) \in Int
        BY <1>1
      <4> QED BY <3>2, <3>3, <4>1, InductionUpTo
    <3>5. Len(ss) \in 1..Len(ss) /\ h[0] \in Seq(A)
      BY <1>1, <1>5, <3>1
    <3>6. \A i \in 0..Len(ss) : i = 0 \/ i \in 1..Len(ss)
      BY <1>1
    <3> QED BY <3>4, <3>5, <3>6
  <2> QED BY <2>1, <2>3, <2>4
<1> QED BY <1>4, <1>5

LEMMA FlattenAppend ==
  ASSUME NEW A, NEW ss \in Seq(Seq(A)), NEW s \in Seq(A)
  PROVE  /\ FlattenSeq(ss) \in Seq(A) /\ FlattenSeq(<<>>) = <<>>
         /\ FlattenSeq(Append(ss, s)) = FlattenSeq(ss) \o s
<1> DEFINE n == Len(ss)
           tt == Append(ss, s)
<1>1. PICK f : Accumulates(f, ss)
  BY FlattenIs
<1>2. n \in Nat /\ n \in 0..n /\ n + 1 \in 1..(n + 1) /\ (n + 1) - 1 = n
  OBVIOUS
<1>3. FlattenSeq(ss) = f[n] /\ f[n] \in Seq(A)
  BY <1>1, <1>2, FlattenIs
<1>4. f[0] = <<>> /\ \A i \in 1..n : f[i] = f[i - 1] \o ss[i]
  BY <1>1 DEF Accumulates
<1>5. /\ tt \in Seq(Seq(A)) /\ Len(tt) = n + 1 /\ tt[n + 1] = s
      /\ \A i \in 1..n : tt[i] = ss[i]
  OBVIOUS
<1> DEFINE h == [i \in 0..(n + 1) |-> IF i <= n THEN f[i] ELSE f[n] \o s]
<1> HIDE DEF tt, n
<1>6. ASSUME NEW i \in 1..(n + 1) PROVE h[i] = h[i - 1] \o tt[i]
  <2>1. h[i - 1] = f[i - 1]
    BY <1>2
  <2>2. CASE i = n + 1
    <3>1. h[i] = f[n] \o s /\ i - 1 = n /\ tt[i] = s
      BY <1>2, <1>5, <2>2
    <3> QED BY <2>1, <3>1
  <2>3. CASE i # n + 1
    <3>1. i \in 1..n /\ h[i] = f[i]
      BY <1>2, <2>3
    <3> QED BY <1>4, <1>5, <2>1, <3>1
  <2> QED BY <2>2, <2>3
<1>7. h[0] = <<>> /\ h[n + 1] = f[n] \o s
  BY <1>2, <1>4
<1> HIDE DEF h
<1>8. Accumulates(h, tt)
  BY <1>5, <1>6, <1>7 DEF Accumulates
<1>9. FlattenSeq(tt) = h[n + 1]
  BY <1>5, <1>8, FlattenIs
<1>10. FlattenSeq(<<>>) = <<>>
  BY DEF FlattenSeq
<1> QED BY <1>3, <1>7, <1>9, <1>10 DEF tt, n

(* A sequence up to its element m, and one more.                           *)
LEMMA OneMore ==
  ASSUME NEW X, NEW s \in Seq(X), NEW m \in Nat, m < Len(s)
  PROVE  /\ Append(SubSeq(s, 1, m), s[m + 1]) = SubSeq(s, 1, m + 1)
         /\ Len(SubSeq(s, 1, m)) = m
         /\ m # 0 => SubSeq(s, 1, m)[m] = s[m]
         /\ m = 0 => SubSeq(s, 1, m) = <<>>
<1>1. m \in 0..Len(s) /\ m + 1 \in 0..Len(s)
  OBVIOUS
<1>2. SubSeq(s, 1, m) \in Seq(X) /\ Len(SubSeq(s, 1, m)) = m
      /\ \A i \in 1..m : SubSeq(s, 1, m)[i] = s[i]
  BY <1>1
<1>3. SubSeq(s, 1, m + 1) \in Seq(X) /\ Len(SubSeq(s, 1, m + 1)) = m + 1
      /\ \A i \in 1..(m + 1) : SubSeq(s, 1, m + 1)[i] = s[i]
  BY <1>1
<1> DEFINE a == SubSeq(s, 1, m)
           b == SubSeq(s, 1, m + 1)
           c == Append(a, s[m + 1])
<1> HIDE DEF a, b
<1>4. s[m + 1] \in X
  BY <1>1
<1>5. c \in Seq(X) /\ Len(c) = m + 1 /\ \A i \in 1..(m + 1) : c[i] = s[i]
  BY <1>2, <1>4 DEF a
<1> HIDE DEF c
<1>6. c = b
  BY <1>3, <1>5 DEF b
<1> QED BY <1>2, <1>6 DEF a, b, c

(* Sequences of sequences, one behind the other.                           *)
LEMMA FlattenJoined ==
  ASSUME NEW A, NEW ss \in Seq(Seq(A)), NEW tt \in Seq(Seq(A))
  PROVE  FlattenSeq(ss \o tt) = FlattenSeq(ss) \o FlattenSeq(tt)
<1> DEFINE n == Len(tt)
           Upto(m) == SubSeq(tt, 1, m)
           Same == {m \in 0..n : FlattenSeq(ss \o Upto(m)) = FlattenSeq(ss) \o FlattenSeq(Upto(m))}
<1>1. n \in Nat
  OBVIOUS
<1>2. 0 \in Same
  <2>1. Upto(0) = <<>> /\ 0 \in 0..n
    BY <1>1
  <2>2. ss \o <<>> = ss
    OBVIOUS
  <2>3. FlattenSeq(ss) \in Seq(A) /\ FlattenSeq(<<>>) = <<>>
    <3>1. <<>> \in Seq(A)
      OBVIOUS
    <3> QED BY <3>1, FlattenAppend
  <2>4. FlattenSeq(ss) \o <<>> = FlattenSeq(ss)
    BY <2>3
  <2> QED BY <2>1, <2>2, <2>3, <2>4
<1>3. ASSUME NEW m \in 0..n, m < n, m \in Same PROVE m + 1 \in Same
  <2> DEFINE u == Upto(m)
             x == tt[m + 1]
             a == FlattenSeq(ss)
             b == FlattenSeq(u)
  <2>1. m \in Nat /\ m + 1 \in 0..n /\ m < Len(tt)
    BY <1>1, <1>3
  <2>2. Upto(m + 1) = Append(u, x)
    BY <2>1, OneMore
  <2>3. u \in Seq(Seq(A)) /\ x \in Seq(A)
    BY <2>1
  <2> HIDE DEF u, x, n, Upto
  <2>4. a \in Seq(A) /\ b \in Seq(A)
    BY <2>3, FlattenAppend
  <2>5. ss \o Append(u, x) = Append(ss \o u, x) /\ ss \o u \in Seq(Seq(A))
    BY <2>3
  <2>6. FlattenSeq(ss \o u) = a \o b
    BY <1>3 DEF u
  <2>7. FlattenSeq(Append(ss \o u, x)) = (a \o b) \o x
    <3> DEFINE v == ss \o u
    <3>1. v \in Seq(Seq(A)) /\ FlattenSeq(v) = a \o b
      BY <2>5, <2>6
    <3> HIDE DEF v, a, b
    <3>2. FlattenSeq(Append(v, x)) = FlattenSeq(v) \o x
      BY <2>3, <3>1, FlattenAppend
    <3> QED BY <3>1, <3>2 DEF v
  <2>8. FlattenSeq(Append(u, x)) = b \o x
    BY <2>3, FlattenAppend
  <2>9. (a \o b) \o x = a \o (b \o x)
    <3> HIDE DEF a, b
    <3> QED BY <2>3, <2>4, SMTT(40)
  <2>10. FlattenSeq(ss \o Upto(m + 1)) = FlattenSeq(ss) \o FlattenSeq(Upto(m + 1))
    BY <2>2, <2>5, <2>7, <2>8, <2>9
  <2> QED BY <2>1, <2>10
<1>4. n \in Same
  <2> HIDE DEF Same
  <2>1. 0 \in Int /\ n \in Int /\ n \in 0..n
    BY <1>1
  <2>2. \A m \in 0..n : m \in Same
    BY <1>2, <1>3, <2>1, InductionUpTo
  <2> QED BY <2>1, <2>2
<1>5. Upto(n) = tt
  OBVIOUS
<1> QED BY <1>4, <1>5

LEMMA FlattenOne ==
  ASSUME NEW A, NEW s \in Seq(A)
  PROVE  FlattenSeq(<< s >>) = s
<1>1. <<>> \in Seq(Seq(A)) /\ Append(<<>>, s) = << s >>
  OBVIOUS
<1>2. FlattenSeq(<< s >>) = FlattenSeq(<<>>) \o s /\ FlattenSeq(<<>>) = <<>>
  BY <1>1, FlattenAppend
<1> QED BY <1>2

(***************************************************************************)
(* StringifyNodes chooses a function that gives each node the text the     *)
(* texts of its entries make up.  A node HasText when there is such a      *)
(* function and all of them agree on the root.  That follows for a node    *)
(* from the same for its entries, so no induction over trees is needed for *)
(* what the parser builds from the leaves up.                              *)
(***************************************************************************)
TextsOf(tree, g) ==
    g = [ref \in References(tree) |->
            NodeText(NodeAt(tree, ref), [i \in DOMAIN NodeAt(tree, ref).items |-> g[Append(ref, i)]])]

HasText(tree, text) ==
    /\ \A ref \in References(tree) : DOMAIN NodeAt(tree, ref).items \subseteq Nat
    /\ \E g : TextsOf(tree, g)
    /\ \A g : TextsOf(tree, g) => g[<<>>] = text

LEMMA WrittenIs ==
  ASSUME NEW tree, NEW text, HasText(tree, text)
  PROVE  StringifyNodes(tree) = text
<1>1. \E g : TextsOf(tree, g)
  BY DEF HasText
<1> DEFINE f == CHOOSE g : TextsOf(tree, g)
<1>2. TextsOf(tree, f)
  BY <1>1
<1>3. StringifyNodes(tree) = f[<<>>]
  BY DEF StringifyNodes, TextsOf
<1> QED BY <1>2, <1>3 DEF HasText

LEMMA TextsSteps ==
  ASSUME NEW tree, NEW g, TextsOf(tree, g), NEW ref \in References(tree)
  PROVE  g[ref] = NodeText(NodeAt(tree, ref),
                           [i \in DOMAIN NodeAt(tree, ref).items |-> g[Append(ref, i)]])
BY DEF TextsOf

LEMMA TextsAre ==
  ASSUME NEW tree, NEW g, g = [ref \in References(tree) |-> g[ref]],
         \A ref \in References(tree) :
            g[ref] = NodeText(NodeAt(tree, ref),
                              [i \in DOMAIN NodeAt(tree, ref).items |-> g[Append(ref, i)]])
  PROVE  TextsOf(tree, g)
BY Zenon DEF TextsOf

LEMMA EntryReference ==
  ASSUME NEW tree, NEW ref \in References(tree), NEW slot \in Nat,
         slot \in DOMAIN NodeAt(tree, ref).items
  PROVE  Append(ref, slot) \in References(tree)
<1>1. ref \in Seq(Nat) /\ Leads(tree, ref)
  BY DEF References
<1>2. Extends(Append(ref, slot), ref, slot)
  BY <1>1, AppendExtends
<1>3. Append(ref, slot) \in Seq(Nat)
  BY <1>2 DEF Extends
<1>4. Leads(tree, Append(ref, slot))
  BY <1>1, <1>2, LeadsLonger
<1> QED BY <1>3, <1>4 DEF References

\* A function that gives the nodes below an entry their texts.
Sub(g, tree, slot) == [ref \in References(tree.items[slot]) |-> g[Below(slot, ref)]]

(* Texts of a node's tree are texts of its entries' trees.                 *)
LEMMA EntryTexts ==
  ASSUME NEW tree, NEW g, TextsOf(tree, g), NEW slot \in Nat, slot \in DOMAIN tree.items,
         \A ref \in References(tree.items[slot]) :
            DOMAIN NodeAt(tree.items[slot], ref).items \subseteq Nat
  PROVE  TextsOf(tree.items[slot], Sub(g, tree, slot))
<1> DEFINE item == tree.items[slot]
           h == Sub(g, tree, slot)
<1>1. \A ref \in References(item) : h[ref] = g[Below(slot, ref)]
  BY DEF Sub
<1>2. ASSUME NEW ref \in References(item)
      PROVE  h[ref] = NodeText(NodeAt(item, ref),
                               [i \in DOMAIN NodeAt(item, ref).items |-> h[Append(ref, i)]])
  <2>1. ref \in Seq(Nat)
    BY DEF References
  <2>2. Below(slot, ref) \in References(tree)
    BY <2>1, ReferencesBelow
  <2>3. NodeAt(tree, Below(slot, ref)) = NodeAt(item, ref)
    BY <2>1, NodeBelow
  <2> DEFINE node == NodeAt(item, ref)
  <2>4. g[Below(slot, ref)] = NodeText(node, [i \in DOMAIN node.items |-> g[Append(Below(slot, ref), i)]])
    BY <2>2, <2>3, TextsSteps
  <2>5. ASSUME NEW i \in DOMAIN node.items
        PROVE  g[Append(Below(slot, ref), i)] = h[Append(ref, i)]
    <3>1. i \in Nat
      OBVIOUS
    <3>2. Append(ref, i) \in References(item)
      BY <3>1, EntryReference
    <3>3. Append(Below(slot, ref), i) = Below(slot, Append(ref, i))
      BY <2>1, <3>1, BelowAppend
    <3> QED BY <1>1, <3>2, <3>3
  <2> HIDE DEF node, h
  <2>6. [i \in DOMAIN node.items |-> g[Append(Below(slot, ref), i)]]
          = [i \in DOMAIN node.items |-> h[Append(ref, i)]]
    BY <2>5
  <2> QED BY <1>1, <2>4, <2>6 DEF node
<1>3. h = [ref \in References(item) |-> h[ref]]
  BY DEF Sub
<1> HIDE DEF h, item
<1>4. TextsOf(item, h)
  BY <1>2, <1>3, TextsAre
<1> QED BY <1>4 DEF h, item

\* Texts of the entries' trees and the text they make up.
Joined(tree, text, G) ==
    [ref \in References(tree) |->
        IF ref = <<>> THEN text ELSE G[ref[1]][Tail(ref)]]

LEMMA JoinedTexts ==
  ASSUME NEW tree, NEW G, NEW inner,
         DOMAIN tree.items \subseteq Nat,
         inner = [i \in DOMAIN tree.items |-> G[i][<<>>]],
         \A i \in DOMAIN tree.items :
            /\ TextsOf(tree.items[i], G[i])
            /\ \A ref \in References(tree.items[i]) :
                  DOMAIN NodeAt(tree.items[i], ref).items \subseteq Nat
  PROVE  TextsOf(tree, Joined(tree, NodeText(tree, inner), G))
<1> DEFINE text == NodeText(tree, inner)
           g == Joined(tree, text, G)
<1>1. g = [ref \in References(tree) |-> g[ref]]
  BY DEF Joined
<1>2. <<>> \in References(tree) /\ NodeAt(tree, <<>>) = tree
  BY ReferencesBelow
<1>3. g[<<>>] = text
  BY <1>2 DEF Joined
<1>4. ASSUME NEW slot \in DOMAIN tree.items, NEW ref \in References(tree.items[slot])
      PROVE  Below(slot, ref) \in References(tree) /\ g[Below(slot, ref)] = G[slot][ref]
  <2>1. slot \in Nat /\ ref \in Seq(Nat)
    BY DEF References
  <2>2. Below(slot, ref) \in References(tree)
    BY <2>1, ReferencesBelow
  <2>3. Below(slot, ref)[1] = slot /\ Below(slot, ref) # <<>> /\ Tail(Below(slot, ref)) = ref
    BY <2>1, BelowParts, BelowAppend
  <2> QED BY <2>2, <2>3 DEF Joined
<1> HIDE DEF g
<1>5. ASSUME NEW ref \in References(tree)
      PROVE  g[ref] = NodeText(NodeAt(tree, ref),
                               [i \in DOMAIN NodeAt(tree, ref).items |-> g[Append(ref, i)]])
  <2>1. CASE ref = <<>>
    <3>1. ASSUME NEW i \in DOMAIN tree.items PROVE g[Append(<<>>, i)] = G[i][<<>>]
      <4>1. i \in Nat /\ <<>> \in Seq(Nat)
        OBVIOUS
      <4>2. <<>> \in References(tree.items[i])
        BY ReferencesBelow
      <4>3. Append(<<>>, i) = Below(i, <<>>)
        BY <4>1, BelowAppend
      <4> QED BY <1>4, <4>2, <4>3
    <3>2. [i \in DOMAIN tree.items |-> g[Append(<<>>, i)]] = inner
      BY <3>1
    <3> QED BY <1>2, <1>3, <2>1, <3>2
  <2>2. CASE ref # <<>>
    <3> DEFINE slot == ref[1]
               rest == Tail(ref)
    <3>1. slot \in Nat /\ rest \in Seq(Nat) /\ ref = Below(slot, rest)
      BY <2>2, FirstSlot DEF References
    <3> HIDE DEF slot, rest
    <3>2. slot \in DOMAIN tree.items /\ rest \in References(tree.items[slot])
      BY <3>1, ReferencesBelow
    <3> DEFINE item == tree.items[slot]
               node == NodeAt(item, rest)
    <3>3. NodeAt(tree, ref) = node
      BY <3>1, NodeBelow
    <3>4. g[ref] = G[slot][rest]
      BY <1>4, <3>1, <3>2
    <3>5. TextsOf(item, G[slot]) /\ DOMAIN node.items \subseteq Nat
      BY <3>2
    <3>6. G[slot][rest] = NodeText(node, [i \in DOMAIN node.items |-> G[slot][Append(rest, i)]])
      BY <3>2, <3>5, TextsSteps
    <3>7. ASSUME NEW i \in DOMAIN node.items
          PROVE  g[Append(ref, i)] = G[slot][Append(rest, i)]
      <4>1. i \in Nat
        BY <3>5
      <4>2. Append(rest, i) \in References(item)
        BY <3>2, <4>1, EntryReference
      <4>3. Append(ref, i) = Below(slot, Append(rest, i))
        BY <3>1, <4>1, BelowAppend
      <4> QED BY <1>4, <3>2, <4>2, <4>3
    <3> HIDE DEF node
    <3>8. [i \in DOMAIN node.items |-> g[Append(ref, i)]]
            = [i \in DOMAIN node.items |-> G[slot][Append(rest, i)]]
      BY <3>7
    <3> QED BY <3>3, <3>4, <3>6, <3>8
  <2> QED BY <2>1, <2>2
<1>6. TextsOf(tree, g)
  BY <1>1, <1>5, TextsAre, ZenonT(40)
<1> QED BY <1>6 DEF g

(* A node whose entries are written is written: its text is theirs, framed *)
(* as NodeText says.                                                       *)
LEMMA NodeWritten ==
  ASSUME NEW node, DOMAIN node.items \subseteq Nat, NEW inner,
         inner = [i \in DOMAIN node.items |-> inner[i]],
         \A i \in DOMAIN node.items : HasText(node.items[i], inner[i])
  PROVE  HasText(node, NodeText(node, inner))
<1> DEFINE item(i) == node.items[i]
<1>1. \A i \in DOMAIN node.items : \A ref \in References(item(i)) :
         DOMAIN NodeAt(item(i), ref).items \subseteq Nat
  BY DEF HasText
<1>2. ASSUME NEW ref \in References(node) PROVE DOMAIN NodeAt(node, ref).items \subseteq Nat
  <2>1. CASE ref = <<>>
    BY <2>1, ReferencesBelow
  <2>2. CASE ref # <<>>
    <3>1. /\ ref[1] \in Nat /\ Tail(ref) \in Seq(Nat)
          /\ ref = Below(ref[1], Tail(ref))
      BY <2>2, FirstSlot DEF References
    <3>2. ref[1] \in DOMAIN node.items /\ Tail(ref) \in References(item(ref[1]))
      BY <3>1, ReferencesBelow
    <3>3. NodeAt(node, ref) = NodeAt(item(ref[1]), Tail(ref))
      BY <3>1, NodeBelow
    <3> QED BY <1>1, <3>2, <3>3
  <2> QED BY <2>1, <2>2
<1>3. \E g : TextsOf(node, g)
  <2> DEFINE G == [i \in DOMAIN node.items |-> CHOOSE g : TextsOf(item(i), g)]
  <2>1. ASSUME NEW i \in DOMAIN node.items
        PROVE  TextsOf(item(i), G[i]) /\ G[i][<<>>] = inner[i]
    <3>1. \E g : TextsOf(item(i), g)
      BY DEF HasText
    <3>2. TextsOf(item(i), CHOOSE g : TextsOf(item(i), g))
      BY <3>1
    <3>3. TextsOf(item(i), G[i])
      BY <3>2
    <3> QED BY <3>3 DEF HasText
  <2> HIDE DEF G
  <2>2. inner = [i \in DOMAIN node.items |-> G[i][<<>>]]
    BY <2>1
  <2>3. TextsOf(node, Joined(node, NodeText(node, inner), G))
    BY <1>1, <2>1, <2>2, JoinedTexts
  <2> QED BY <2>3
<1>4. ASSUME NEW g, TextsOf(node, g) PROVE g[<<>>] = NodeText(node, inner)
  <2>1. <<>> \in References(node) /\ NodeAt(node, <<>>) = node
    BY ReferencesBelow
  <2>2. g[<<>>] = NodeText(node, [i \in DOMAIN node.items |-> g[Append(<<>>, i)]])
    <3> DEFINE same == NodeAt(node, <<>>)
    <3>1. same = node
      BY <2>1
    <3>2. \A ref \in References(node) :
             g[ref] = NodeText(NodeAt(node, ref),
                               [i \in DOMAIN NodeAt(node, ref).items |-> g[Append(ref, i)]])
      BY <1>4, TextsSteps
    <3>3. g[<<>>] = NodeText(same, [i \in DOMAIN same.items |-> g[Append(<<>>, i)]])
      BY <2>1, <3>2, Zenon
    <3> HIDE DEF same
    <3> QED BY <3>1, <3>3
  <2>3. ASSUME NEW i \in DOMAIN node.items PROVE g[Append(<<>>, i)] = inner[i]
    <3>1. i \in Nat
      OBVIOUS
    <3>2. TextsOf(item(i), Sub(g, node, i))
      BY <1>1, <1>4, <3>1, EntryTexts
    <3>3. Sub(g, node, i)[<<>>] = inner[i]
      BY <3>2 DEF HasText
    <3>4. <<>> \in References(item(i)) /\ Append(<<>>, i) = Below(i, <<>>)
      <4>1. <<>> \in Seq(Nat)
        OBVIOUS
      <4> QED BY <3>1, <4>1, ReferencesBelow, BelowAppend
    <3> QED BY <3>3, <3>4 DEF Sub
  <2>4. [i \in DOMAIN node.items |-> g[Append(<<>>, i)]] = inner
    BY <2>3
  <2> QED BY <2>2, <2>4
<1> QED BY <1>2, <1>3, <1>4 DEF HasText

==============================================================================
