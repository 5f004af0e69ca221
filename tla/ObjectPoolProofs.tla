-------------------------- MODULE ObjectPoolProofs ---------------------------
(***************************************************************************)
(* Proofs about ObjectPool for any number of threads and cells.            *)
(*                                                                         *)
(* That a cell on a free list holds no container is not inductive alone: a *)
(* step that releases a container could list a cell twice if a dying       *)
(* container could already be on a list, and a step that moves a container *)
(* could give an owner to a free cell.  PoolInv therefore also says that   *)
(* what is dying is a container and that only containers have owners.      *)
(***************************************************************************)
EXTENDS ObjectPool, FiniteSetTheorems, SequenceTheorems, TLAPS

OnlyContainersOwned ==
    /\ dying \subseteq Objects
    /\ \A c \in Cells : memory[c] # "object" => owner[c] = Nobody

PoolInv ==
    /\ TypeOK
    /\ FreeCellsListedOnce
    /\ OnlyContainersOwned
    /\ NoContainerOutlivesItsOwner

------------------------------------------------------------------------------
(* The free lists. *)

LEMMA PopKeepsListedOnce ==
    ASSUME TypeOK, FreeCellsListedOnce,
           NEW t \in Threads, freeList[t] # <<>>,
           freeList' = [freeList EXCEPT ![t] = Tail(@)],
           memory' = [memory EXCEPT ![Head(freeList[t])] = "object"]
    PROVE  /\ FreeCellsListedOnce'
           /\ freeList' \in [Threads -> Seq(Cells)]
           /\ Head(freeList[t]) \in Cells
           /\ memory[Head(freeList[t])] = "link"
<1> DEFINE old == freeList[t]
<1>1. old \in Seq(Cells) /\ Len(old) >= 1 BY DEF TypeOK
<1>2. /\ Tail(old) \in Seq(Cells) /\ Head(old) = old[1] /\ Head(old) \in Cells
      /\ DOMAIN Tail(old) = 1..(Len(old) - 1) /\ DOMAIN old = 1..Len(old)
      /\ \A i \in 1..(Len(old) - 1) : Tail(old)[i] = old[i + 1]
  BY <1>1
<1>3. freeList' \in [Threads -> Seq(Cells)] BY <1>2 DEF TypeOK
<1>4. memory[Head(old)] = "link"
  <2>1. 1 \in DOMAIN old BY <1>1
  <2> QED BY <2>1, <1>2 DEF FreeCellsListedOnce
<1>5. ASSUME NEW u \in Threads, NEW i \in DOMAIN freeList'[u]
      PROVE  \E j \in DOMAIN freeList[u] :
                /\ freeList'[u][i] = freeList[u][j]
                /\ j = IF u = t THEN i + 1 ELSE i
                /\ freeList'[u][i] # Head(old)
  <2>1. CASE u = t
    <3>1. freeList'[u] = Tail(old) BY <2>1 DEF TypeOK
    <3>2. i \in 1..(Len(old) - 1) BY <3>1, <1>2
    <3>4. Len(old) \in Nat BY <1>1
    <3>5. i + 1 \in 1..Len(old) /\ 1 \in 1..Len(old) BY <3>2, <3>4
    <3>6. i + 1 \in DOMAIN old /\ 1 \in DOMAIN old BY <3>5, <1>2
    <3>3. old[i + 1] # old[1] BY <3>2, <3>6 DEF FreeCellsListedOnce
    <3> QED BY <2>1, <3>1, <3>2, <3>6, <3>3, <1>2
  <2>2. CASE u # t
    <3>1. freeList'[u] = freeList[u] BY <2>2 DEF TypeOK
    <3>2. 1 \in DOMAIN old BY <1>1
    <3>3. freeList[u][i] # old[1] BY <2>2, <3>1, <3>2 DEF FreeCellsListedOnce
    <3> QED BY <2>2, <3>1, <3>3, <1>2
  <2> QED BY <2>1, <2>2
<1>6. FreeCellsListedOnce'
  <2> SUFFICES ASSUME NEW u \in Threads, NEW v \in Threads,
                      NEW i \in DOMAIN freeList'[u], NEW j \in DOMAIN freeList'[v]
               PROVE  /\ memory'[freeList'[u][i]] = "link"
                      /\ freeList'[u][i] = freeList'[v][j] => u = v /\ i = j
    BY DEF FreeCellsListedOnce
  <2>1. PICK k \in DOMAIN freeList[u] :
            /\ freeList'[u][i] = freeList[u][k]
            /\ k = IF u = t THEN i + 1 ELSE i
            /\ freeList'[u][i] # Head(old)
    BY <1>5
  <2>2. PICK l \in DOMAIN freeList[v] :
            /\ freeList'[v][j] = freeList[v][l]
            /\ l = IF v = t THEN j + 1 ELSE j
    BY <1>5
  <2>3. memory[freeList[u][k]] = "link" /\ (freeList[u][k] = freeList[v][l] => u = v /\ k = l)
    BY DEF FreeCellsListedOnce
  <2>4. freeList[u][k] \in Cells BY DEF TypeOK
  <2>5. memory'[freeList'[u][i]] = "link" BY <2>1, <2>3, <2>4 DEF TypeOK
  <2>6. i \in Int /\ j \in Int BY <1>3
  <2>7. freeList'[u][i] = freeList'[v][j] => u = v /\ i = j
    BY <2>1, <2>2, <2>3, <2>6
  <2> QED BY <2>5, <2>7
<1> QED BY <1>2, <1>3, <1>4, <1>6

LEMMA PushKeepsListedOnce ==
    ASSUME TypeOK, FreeCellsListedOnce,
           NEW t \in Threads, NEW c \in Cells, memory[c] = "object",
           freeList' = [freeList EXCEPT ![t] = <<c>> \o @],
           memory' = [memory EXCEPT ![c] = "link"]
    PROVE  /\ FreeCellsListedOnce'
           /\ freeList' \in [Threads -> Seq(Cells)]
<1> DEFINE old == freeList[t]
<1> DEFINE new == <<c>> \o old
<1>1. old \in Seq(Cells) /\ Len(old) \in Nat /\ DOMAIN old = 1..Len(old) BY DEF TypeOK
<1>2. /\ new \in Seq(Cells) /\ DOMAIN new = 1..(Len(old) + 1)
      /\ new[1] = c
      /\ \A i \in 1..(Len(old) + 1) : i # 1 => new[i] = old[i - 1]
  BY <1>1
<1>3. freeList' \in [Threads -> Seq(Cells)] BY <1>2 DEF TypeOK
<1>4. ASSUME NEW u \in Threads, NEW i \in DOMAIN freeList'[u]
      PROVE  \/ u = t /\ i = 1 /\ freeList'[u][i] = c
             \/ \E j \in DOMAIN freeList[u] :
                   /\ freeList'[u][i] = freeList[u][j]
                   /\ j = IF u = t THEN i - 1 ELSE i
  <2> HIDE DEF new
  <2>1. CASE u = t
    <3>1. freeList'[u] = new BY <2>1 DEF TypeOK, new
    <3>2. i \in 1..(Len(old) + 1) BY <3>1, <1>2
    <3>3. CASE i = 1 BY <2>1, <3>1, <3>3, <1>2
    <3>4. CASE i # 1
      <4>1. i - 1 \in 1..Len(old) BY <3>2, <3>4, <1>1
      <4>2. i - 1 \in DOMAIN old /\ new[i] = old[i - 1] BY <4>1, <3>2, <3>4, <1>1, <1>2
      <4> QED BY <4>2, <2>1, <3>1
    <3> QED BY <3>3, <3>4
  <2>2. CASE u # t
    <3>1. freeList'[u] = freeList[u] BY <2>2 DEF TypeOK
    <3> QED BY <2>2, <3>1
  <2> QED BY <2>1, <2>2
<1>5. ASSUME NEW u \in Threads, NEW i \in DOMAIN freeList[u]
      PROVE  /\ freeList[u][i] # c
             /\ memory'[freeList[u][i]] = "link"
  <2>1. memory[freeList[u][i]] = "link" BY DEF FreeCellsListedOnce
  <2>2. freeList[u][i] \in Cells BY DEF TypeOK
  <2> QED BY <2>1, <2>2 DEF TypeOK
<1>6. FreeCellsListedOnce'
  <2> SUFFICES ASSUME NEW u \in Threads, NEW v \in Threads,
                      NEW i \in DOMAIN freeList'[u], NEW j \in DOMAIN freeList'[v]
               PROVE  /\ memory'[freeList'[u][i]] = "link"
                      /\ freeList'[u][i] = freeList'[v][j] => u = v /\ i = j
    BY DEF FreeCellsListedOnce
  <2>1. i \in Int /\ j \in Int BY <1>3
  <2>2. memory'[c] = "link" BY DEF TypeOK
  <2>3. memory'[freeList'[u][i]] = "link" BY <1>4, <1>5, <2>2
  <2>4. ASSUME NEW k \in DOMAIN freeList[u], NEW l \in DOMAIN freeList[v],
               freeList[u][k] = freeList[v][l]
        PROVE  u = v /\ k = l
    BY <2>4 DEF FreeCellsListedOnce
  <2>5. freeList'[u][i] = freeList'[v][j] => u = v /\ i = j
    <3>1. CASE u = t /\ i = 1 /\ freeList'[u][i] = c BY <3>1, <1>4, <1>5
    <3>2. CASE v = t /\ j = 1 /\ freeList'[v][j] = c BY <3>2, <1>4, <1>5
    <3>3. CASE /\ \E k \in DOMAIN freeList[u] :
                     freeList'[u][i] = freeList[u][k] /\ k = IF u = t THEN i - 1 ELSE i
               /\ \E l \in DOMAIN freeList[v] :
                     freeList'[v][j] = freeList[v][l] /\ l = IF v = t THEN j - 1 ELSE j
      <4>1. PICK k \in DOMAIN freeList[u] :
                freeList'[u][i] = freeList[u][k] /\ k = IF u = t THEN i - 1 ELSE i
        BY <3>3
      <4>2. PICK l \in DOMAIN freeList[v] :
                freeList'[v][j] = freeList[v][l] /\ l = IF v = t THEN j - 1 ELSE j
        BY <3>3
      <4> QED BY <4>1, <4>2, <2>1, <2>4
    <3> QED BY <3>1, <3>2, <3>3, <1>4
  <2> QED BY <2>3, <2>5
<1> QED BY <1>3, <1>6

LEMMA ExitKeepsListedOnce ==
    ASSUME TypeOK, FreeCellsListedOnce, NEW t \in Threads,
           freeList' = [freeList EXCEPT ![t] = <<>>],
           memory' = [c \in Cells |-> IF c \in Range(freeList[t]) THEN "leaked" ELSE memory[c]]
    PROVE  /\ FreeCellsListedOnce'
           /\ freeList' \in [Threads -> Seq(Cells)]
           /\ \A c \in Cells : memory'[c] = "object" <=> memory[c] = "object"
<1>1. freeList' \in [Threads -> Seq(Cells)] BY DEF TypeOK
<1>2. ASSUME NEW u \in Threads, NEW i \in DOMAIN freeList'[u]
      PROVE  u # t /\ i \in DOMAIN freeList[u] /\ freeList'[u][i] = freeList[u][i]
  BY DEF TypeOK
<1>3. ASSUME NEW u \in Threads, u # t, NEW i \in DOMAIN freeList[u]
      PROVE  memory'[freeList[u][i]] = "link"
  <2>1. freeList[u][i] \in Cells BY DEF TypeOK
  <2>2. memory[freeList[u][i]] = "link" BY DEF FreeCellsListedOnce
  <2>3. freeList[u][i] \notin Range(freeList[t]) BY <1>3 DEF FreeCellsListedOnce, Range
  <2> QED BY <2>1, <2>2, <2>3
<1>4. FreeCellsListedOnce'
  <2> SUFFICES ASSUME NEW u \in Threads, NEW v \in Threads,
                      NEW i \in DOMAIN freeList'[u], NEW j \in DOMAIN freeList'[v]
               PROVE  /\ memory'[freeList'[u][i]] = "link"
                      /\ freeList'[u][i] = freeList'[v][j] => u = v /\ i = j
    BY DEF FreeCellsListedOnce
  <2> QED BY <1>2, <1>3 DEF FreeCellsListedOnce
<1>5. \A c \in Cells : memory'[c] = "object" <=> memory[c] = "object"
  BY DEF FreeCellsListedOnce, Range
<1> QED BY <1>1, <1>4, <1>5

------------------------------------------------------------------------------
(* The invariant, action by action. *)

LEMMA InitEstablishes == Init => PoolInv
<1> SUFFICES ASSUME Init PROVE PoolInv OBVIOUS
<1>1. Objects = {} BY DEF Init, Objects
<1>2. TypeOK
  <2>1. freeList \in [Threads -> Seq(Cells)] /\ seen \in Seq(Nat) /\ Len(seen) = 0 BY DEF Init
  <2>2. memory \in [Cells -> Content] BY DEF Init, Content
  <2>3. owner \in [Cells -> Threads \cup Cells \cup {Nobody}] BY DEF Init
  <2>4. /\ acquired \in Nat /\ created \in Nat /\ reused \in Nat /\ released \in Nat
        /\ dying \subseteq Cells /\ acquiring \subseteq Threads /\ exited \subseteq Threads
        /\ terminated \in BOOLEAN
    BY DEF Init
  <2> QED BY <2>1, <2>2, <2>3, <2>4 DEF TypeOK
<1>3. FreeCellsListedOnce BY DEF Init, FreeCellsListedOnce
<1>4. OnlyContainersOwned BY DEF Init, OnlyContainersOwned
<1>5. NoContainerOutlivesItsOwner BY DEF Init, NoContainerOutlivesItsOwner
<1> QED BY <1>2, <1>3, <1>4, <1>5 DEF PoolInv

\* A container is constructed in a cell that held none.
LEMMA ConstructKeepsOwners ==
    ASSUME PoolInv, NEW t \in Threads, NEW c \in Cells,
           memory[c] # "object", Construct(t, c)
    PROVE  /\ OnlyContainersOwned' /\ NoContainerOutlivesItsOwner'
           /\ Objects' = Objects \cup {c} /\ c \notin Objects
           /\ memory' \in [Cells -> Content]
           /\ owner' \in [Cells -> Threads \cup Cells \cup {Nobody}]
<1> USE PoolAssumption DEF PoolInv
<1>1. /\ memory' \in [Cells -> Content]
      /\ owner' \in [Cells -> Threads \cup Cells \cup {Nobody}]
  BY DEF Construct, TypeOK, Content
<1>2. Objects' = Objects \cup {c} /\ c \notin Objects BY DEF Construct, TypeOK, Objects
<1>3. c \notin dying /\ dying' = dying BY <1>2 DEF OnlyContainersOwned, Construct
<1>4. \A d \in Cells : d # c => owner'[d] = owner[d] /\ memory'[d] = memory[d]
  BY DEF Construct, TypeOK
<1>5. owner'[c] = t /\ memory'[c] = "object" BY DEF Construct, TypeOK
<1>6. OnlyContainersOwned'
  BY <1>2, <1>3, <1>4, <1>5 DEF OnlyContainersOwned
<1>7. NoContainerOutlivesItsOwner'
  BY <1>2, <1>3, <1>4, <1>5 DEF NoContainerOutlivesItsOwner
<1> QED BY <1>1, <1>2, <1>6, <1>7

LEMMA ReuseKeepsInv ==
    ASSUME PoolInv, NEW t \in Threads, Reuse(t)
    PROVE  PoolInv' /\ Head(freeList[t]) \in Cells \ Objects
                    /\ Objects' = Objects \cup {Head(freeList[t])}
<1> DEFINE c == Head(freeList[t])
<1>1. /\ FreeCellsListedOnce' /\ freeList' \in [Threads -> Seq(Cells)]
      /\ c \in Cells /\ memory[c] = "link"
  BY PopKeepsListedOnce DEF PoolInv, Reuse, Construct
<1>2. Construct(t, c) BY DEF Reuse
<1> HIDE DEF c
<1>3. /\ OnlyContainersOwned' /\ NoContainerOutlivesItsOwner'
      /\ Objects' = Objects \cup {c} /\ c \notin Objects
      /\ memory' \in [Cells -> Content]
      /\ owner' \in [Cells -> Threads \cup Cells \cup {Nobody}]
  BY <1>1, <1>2, ConstructKeepsOwners
<1>4. TypeOK' BY <1>1, <1>2, <1>3 DEF PoolInv, TypeOK, Reuse, Construct
<1> QED BY <1>1, <1>3, <1>4 DEF PoolInv, c

LEMMA CreateKeepsInv ==
    ASSUME PoolInv, NEW t \in Threads, Create(t)
    PROVE  PoolInv' /\ \E c \in Cells \ Objects : Objects' = Objects \cup {c}
<1>1. PICK c \in Cells : memory[c] = "system" /\ Construct(t, c) BY DEF Create
<1>2. /\ OnlyContainersOwned' /\ NoContainerOutlivesItsOwner'
      /\ Objects' = Objects \cup {c} /\ c \notin Objects
      /\ memory' \in [Cells -> Content]
      /\ owner' \in [Cells -> Threads \cup Cells \cup {Nobody}]
  BY <1>1, ConstructKeepsOwners
<1>3. TypeOK' BY <1>1, <1>2 DEF PoolInv, TypeOK, Create, Construct
<1>4. freeList' = freeList BY DEF Create
<1>5. \A u \in Threads : \A i \in DOMAIN freeList[u] :
          freeList[u][i] \in Cells /\ memory'[freeList[u][i]] = "link"
  BY <1>1 DEF PoolInv, TypeOK, FreeCellsListedOnce, Construct
<1>6. FreeCellsListedOnce' BY <1>4, <1>5 DEF PoolInv, FreeCellsListedOnce
<1> QED BY <1>2, <1>3, <1>6 DEF PoolInv

\* A container changes its owner; nothing else about the trees does.
LEMMA MoveKeepsInv ==
    ASSUME PoolInv, NEW c \in Objects \ dying, NEW o \in Threads \cup Objects,
           owner' = [owner EXCEPT ![c] = o],
           UNCHANGED <<counters, freeList, memory, dying, acquiring, exited, seen, terminated>>
    PROVE  PoolInv' /\ Objects' = Objects
<1> USE PoolAssumption DEF PoolInv
<1>1. Objects' = Objects /\ Objects \subseteq Cells BY DEF Objects
<1>2. TypeOK' BY <1>1 DEF TypeOK, counters
<1>3. FreeCellsListedOnce' BY DEF FreeCellsListedOnce
<1>4. OnlyContainersOwned' BY <1>1 DEF OnlyContainersOwned, TypeOK, Objects
<1>5. NoContainerOutlivesItsOwner' BY <1>1 DEF NoContainerOutlivesItsOwner, TypeOK
<1> QED BY <1>1, <1>2, <1>3, <1>4, <1>5

\* What an idle thread owns is a container that is not being released.
LEMMA IdleThreadOwnsContainers ==
    ASSUME PoolInv, NEW t \in Threads, NEW c \in Cells, Idle(t), owner[c] = t
    PROVE  c \in Objects \ dying
BY PoolAssumption DEF PoolInv, OnlyContainersOwned, Idle, Objects

LEMMA ReleaseKeepsInv ==
    ASSUME PoolInv, NEW t \in Threads, NEW c \in Cells, Release(t, c)
    PROVE  PoolInv' /\ Objects' = Objects
<1> USE PoolAssumption DEF PoolInv
<1>1. Objects' = Objects /\ c \in Objects BY DEF Objects, Release
<1>2. TypeOK' BY DEF TypeOK, Release
<1>3. FreeCellsListedOnce' BY DEF FreeCellsListedOnce, Release
<1>4. OnlyContainersOwned' BY <1>1 DEF OnlyContainersOwned, TypeOK, Objects, Release
<1>5. NoContainerOutlivesItsOwner'
  BY <1>1 DEF NoContainerOutlivesItsOwner, TypeOK, Release
<1> QED BY <1>1, <1>2, <1>3, <1>4, <1>5

LEMMA ReleaseChildKeepsInv ==
    ASSUME PoolInv, NEW c \in Cells, NEW d \in Cells, ReleaseChild(c, d)
    PROVE  PoolInv' /\ Objects' = Objects
<1> USE DEF PoolInv
<1>1. Objects' = Objects /\ d \in Objects /\ owner[d] = c BY DEF Objects, ReleaseChild, Children
<1>2. TypeOK' BY DEF TypeOK, ReleaseChild
<1>3. FreeCellsListedOnce' BY DEF FreeCellsListedOnce, ReleaseChild
<1>4. OnlyContainersOwned' BY <1>1 DEF OnlyContainersOwned, ReleaseChild
<1>5. NoContainerOutlivesItsOwner' BY <1>1 DEF NoContainerOutlivesItsOwner, ReleaseChild
<1> QED BY <1>1, <1>2, <1>3, <1>4, <1>5

LEMMA LinkKeepsInv ==
    ASSUME PoolInv, NEW t \in Threads, NEW c \in Cells, Link(t, c)
    PROVE  PoolInv' /\ c \in Objects /\ Objects' = Objects \ {c}
<1> USE PoolAssumption DEF PoolInv, Link, Unlink, Pushed
<1>1. c \in Objects /\ memory[c] = "object" BY DEF OnlyContainersOwned, Objects
<1>2. Objects' = Objects \ {c} BY <1>1 DEF Objects, TypeOK
<1>3. FreeCellsListedOnce' /\ freeList' \in [Threads -> Seq(Cells)]
  BY <1>1, PushKeepsListedOnce
<1>4. TypeOK' BY <1>3 DEF TypeOK, Content, counters
<1>5. \A d \in Cells : d # c => owner'[d] = owner[d] /\ memory'[d] = memory[d]
  BY DEF TypeOK
<1>6. owner'[c] = Nobody /\ memory'[c] = "link" BY DEF TypeOK
<1>7. OnlyContainersOwned' BY <1>2, <1>5, <1>6 DEF OnlyContainersOwned
<1>8. \A d \in Objects : owner[d] # c BY DEF Children
<1>9. NoContainerOutlivesItsOwner'
  <2> SUFFICES ASSUME NEW d \in Cells
               PROVE  /\ memory'[d] = "object" => owner'[d] \in Threads \cup Objects'
                      /\ d \in dying' /\ owner'[d] \in Cells => owner'[d] \in dying'
    BY DEF NoContainerOutlivesItsOwner
  <2>1. CASE d = c BY <2>1, <1>6
  <2>2. CASE d # c
    <3>1. memory'[d] = "object" => owner'[d] \in Threads \cup Objects'
      <4> SUFFICES ASSUME memory[d] = "object" PROVE owner[d] \in Threads \cup Objects'
        BY <2>2, <1>5
      <4>1. owner[d] \in Threads \cup Objects BY DEF NoContainerOutlivesItsOwner
      <4>2. owner[d] # c BY <1>8 DEF Objects
      <4> QED BY <4>1, <4>2, <1>2
    <3>2. d \in dying' /\ owner'[d] \in Cells => owner'[d] \in dying'
      <4> SUFFICES ASSUME d \in dying, owner[d] \in Cells PROVE owner[d] \in dying \ {c}
        BY <2>2, <1>5
      <4>1. owner[d] \in dying BY DEF NoContainerOutlivesItsOwner
      <4>2. owner[d] # c BY <1>8 DEF OnlyContainersOwned
      <4> QED BY <4>1, <4>2
    <3> QED BY <3>1, <3>2
  <2> QED BY <2>1, <2>2
<1> QED BY <1>1, <1>2, <1>3, <1>4, <1>7, <1>9

LEMMA ExitKeepsInv ==
    ASSUME PoolInv, NEW t \in Threads, Exit(t)
    PROVE  PoolInv' /\ Objects' = Objects
<1> USE DEF PoolInv, Exit
<1>1. /\ FreeCellsListedOnce' /\ freeList' \in [Threads -> Seq(Cells)]
      /\ \A c \in Cells : memory'[c] = "object" <=> memory[c] = "object"
  BY ExitKeepsListedOnce
<1>2. Objects' = Objects BY <1>1 DEF Objects
<1>3. memory' \in [Cells -> Content] BY DEF TypeOK, Content
<1>4. TypeOK' BY <1>1, <1>3 DEF TypeOK, counters
<1>5. OnlyContainersOwned' BY <1>1, <1>2 DEF OnlyContainersOwned
<1>6. NoContainerOutlivesItsOwner' BY <1>1, <1>2 DEF NoContainerOutlivesItsOwner
<1> QED BY <1>1, <1>2, <1>4, <1>5, <1>6

\* Steps that touch no tree.
LEMMA OtherStepsKeepInv ==
    ASSUME PoolInv, UNCHANGED trees,
           acquired' \in Nat, created' \in Nat, reused' \in Nat, released' \in Nat,
           acquiring' \subseteq Threads, exited' \subseteq Threads,
           seen' \in Seq(Nat), Len(seen') <= 4, terminated' \in BOOLEAN
    PROVE  PoolInv' /\ Objects' = Objects
<1> USE DEF PoolInv, trees
<1>1. Objects' = Objects BY DEF Objects
<1>2. TypeOK' BY DEF TypeOK
<1>3. FreeCellsListedOnce' BY DEF FreeCellsListedOnce
<1>4. OnlyContainersOwned' BY <1>1 DEF OnlyContainersOwned
<1>5. NoContainerOutlivesItsOwner' BY <1>1 DEF NoContainerOutlivesItsOwner
<1> QED BY <1>1, <1>2, <1>3, <1>4, <1>5

LEMMA ReadCounterKeepsInv ==
    ASSUME PoolInv, ReadCounter
    PROVE  PoolInv' /\ Objects' = Objects
<1> DEFINE soFar == IF Len(seen) = 4 THEN <<>> ELSE seen
<1>1. soFar \in Seq(Nat) /\ Len(soFar) + 1 \in 1..4
  <2>1. seen \in Seq(Nat) /\ Len(seen) \in Nat /\ Len(seen) <= 4 BY DEF PoolInv, TypeOK
  <2>2. CASE Len(seen) = 4
    <3>1. soFar = <<>> BY <2>2
    <3> HIDE DEF soFar
    <3>2. Len(soFar) = 0 /\ soFar \in Seq(Nat) BY <3>1
    <3> QED BY <3>2
  <2>3. CASE Len(seen) # 4
    <3>1. soFar = seen BY <2>3
    <3>2. \A n \in Nat : n <= 4 /\ n # 4 => n + 1 \in 1..4 OBVIOUS
    <3>3. Len(seen) + 1 \in 1..4 BY <2>1, <2>3, <3>2
    <3> HIDE DEF soFar
    <3> QED BY <2>1, <3>1, <3>3
  <2> QED BY <2>2, <2>3
<1>2. counters[Len(soFar) + 1] \in Nat
  <2> HIDE DEF soFar
  <2> QED BY <1>1 DEF counters, PoolInv, TypeOK
<1>3. seen' = Append(soFar, counters[Len(soFar) + 1]) BY DEF ReadCounter
<1>4. seen' \in Seq(Nat) /\ Len(seen') <= 4
  <2> HIDE DEF soFar
  <2> QED BY <1>1, <1>2, <1>3
<1> QED BY <1>4, OtherStepsKeepInv DEF ReadCounter, PoolInv, TypeOK, counters, trees

\* Every step keeps the invariant and is a step of Allocator or none.
LEMMA PoolStep ==
    ASSUME PoolInv, [Next]_vars
    PROVE  PoolInv' /\ [Allocation!Next]_(Allocation!vars)
<1> USE DEF Allocation!Next, Allocation!vars, Allocation!Grant, Allocation!Return
<1>0. /\ Objects \subseteq Cells
      /\ created \in Nat /\ reused \in Nat /\ terminated \in BOOLEAN
  BY DEF Objects, PoolInv, TypeOK
<1>1. ASSUME NEW t \in Threads, CountAcquire(t)
      PROVE  PoolInv' /\ UNCHANGED <<Objects, Constructed>>
  <2>1. acquiring' \subseteq Threads BY <1>1 DEF CountAcquire, PoolInv, TypeOK
  <2> QED BY <1>1, <2>1, OtherStepsKeepInv DEF CountAcquire, Constructed, PoolInv, TypeOK
<1>2. ASSUME NEW t \in Threads, ~terminated, Reuse(t)
      PROVE  /\ PoolInv' /\ \E c \in Cells \ Objects : Objects' = Objects \cup {c}
             /\ Constructed' = Constructed + 1
  <2>1. Constructed' = Constructed + 1 BY <1>0, <1>2 DEF Reuse, Construct, Constructed
  <2> QED BY <2>1, <1>2, ReuseKeepsInv
<1>3. ASSUME NEW t \in Threads, ~terminated, Create(t)
      PROVE  /\ PoolInv' /\ \E c \in Cells \ Objects : Objects' = Objects \cup {c}
             /\ Constructed' = Constructed + 1
  <2>1. Constructed' = Constructed + 1 BY <1>0, <1>3 DEF Create, Construct, Constructed
  <2> QED BY <2>1, <1>3, CreateKeepsInv
<1>4. ASSUME NEW t \in Threads, ~terminated, OutOfMemory(t)
      PROVE  PoolInv' /\ UNCHANGED <<Objects, Constructed>>
  <2>1. Constructed' = Constructed BY <1>0, <1>4 DEF OutOfMemory, Constructed
  <2> QED BY <2>1, <1>0, <1>4, OtherStepsKeepInv DEF OutOfMemory, PoolInv, TypeOK
<1>5. ASSUME NEW t \in Threads, Exit(t)
      PROVE  PoolInv' /\ UNCHANGED <<Objects, Constructed>>
  BY <1>5, ExitKeepsInv DEF Exit, counters, Constructed
<1>6. ASSUME NEW t \in Threads, NEW c \in Cells, NEW d \in Cells, Adopt(t, c, d)
      PROVE  PoolInv' /\ UNCHANGED <<Objects, Constructed>>
  <2>1. c \in Objects \ dying BY <1>6, IdleThreadOwnsContainers DEF Adopt
  <2>2. d \in Threads \cup Objects BY <1>6 DEF Adopt
  <2> QED BY <2>1, <2>2, <1>6, MoveKeepsInv DEF Adopt, counters, Constructed
<1>7. ASSUME NEW t \in Threads, NEW c \in Cells, NEW u \in Threads, HandOver(t, u, c)
      PROVE  PoolInv' /\ UNCHANGED <<Objects, Constructed>>
  <2>1. c \in Objects \ dying BY <1>7, IdleThreadOwnsContainers DEF HandOver
  <2> QED BY <2>1, <1>7, MoveKeepsInv DEF HandOver, counters, Constructed
<1>8. ASSUME NEW t \in Threads, NEW c \in Cells, Release(t, c)
      PROVE  PoolInv' /\ UNCHANGED <<Objects, Constructed>>
  BY <1>8, ReleaseKeepsInv DEF Release, Constructed
<1>9. ASSUME NEW c \in Cells, NEW d \in Cells, ReleaseChild(c, d)
      PROVE  PoolInv' /\ UNCHANGED <<Objects, Constructed>>
  BY <1>9, ReleaseChildKeepsInv DEF ReleaseChild, Constructed
<1>10. ASSUME NEW t \in Threads, NEW c \in Cells, Link(t, c)
       PROVE  /\ PoolInv' /\ c \in Objects /\ Objects' = Objects \ {c}
              /\ Constructed' = Constructed
  BY <1>10, LinkKeepsInv DEF Link, Unlink, counters, Constructed
<1>11. CASE ReadCounter
  BY <1>11, ReadCounterKeepsInv DEF ReadCounter, counters, Constructed
<1>12. CASE UNCHANGED vars
  BY <1>12, OtherStepsKeepInv DEF vars, counters, trees, PoolInv, TypeOK, Constructed
<1> QED BY <1>0, <1>1, <1>2, <1>3, <1>4, <1>5, <1>6, <1>7, <1>8, <1>9, <1>10, <1>11, <1>12
        DEF Next, Step

\* The invariant that the other theorems rest on.
THEOREM PoolInvariance == Spec => []PoolInv
<1>1. PoolInv /\ [Next]_vars => PoolInv' BY PoolStep
<1> QED BY InitEstablishes, <1>1, PTL DEF Spec

\* Counters, lists, owners and sets keep their types.
THEOREM PoolTypeCorrect == Spec => []TypeOK
BY PoolInvariance, PTL DEF PoolInv

\* acquire and release never list a cell twice, and never one in use, however
\* many threads release cells that others acquired.
THEOREM FreeListsStayDisjoint == Spec => []FreeCellsListedOnce
BY PoolInvariance, PTL DEF PoolInv

\* No unique_ptr of a live container points to a released cell, in any order
\* of moves, hand-overs and nested releases.
THEOREM ContainersStayOwned == Spec => []NoContainerOutlivesItsOwner
BY PoolInvariance, PTL DEF PoolInv

\* The pool is an allocator: no cell is granted while its container is alive.
THEOREM PoolIsAllocator == Spec => ImplementsAllocator
<1>1. Init => Allocation!Init
  BY DEF Init, Allocation!Init, Objects, Constructed
<1>2. PoolInv /\ [Next]_vars => [Allocation!Next]_(Allocation!vars) BY PoolStep
<1> QED BY <1>1, <1>2, PoolInvariance, PTL DEF Spec, ImplementsAllocator, Allocation!Spec

------------------------------------------------------------------------------
(***************************************************************************)
(* Where the cells of the pool are and what the counters say about them,   *)
(* for any number of threads and cells.                                    *)
(*                                                                         *)
(* On top of PoolInv: a cell that is free is on a list (FreeListed), the   *)
(* sets the counters are about are finite and have the sizes the counters  *)
(* give (Accounted), and the counters an observer has read so far are      *)
(* consistent with those it has yet to read (SeenSoFar).  The last one     *)
(* holds at the end because it held after every counter that was read:     *)
(* created and reused never go down.                                       *)
(***************************************************************************)

Used == {c \in Cells : memory[c] # "system"}

FinitelyUsed == IsFiniteSet(Used) /\ IsFiniteSet(acquiring)

Accounted == FinitelyUsed /\ CountersAccountForCells

SeenSoFar ==
    /\ Len(seen) = 1 => seen[1] <= created + reused + Cardinality(Threads)
    /\ Len(seen) = 2 => seen[1] <= seen[2] + reused + Cardinality(Threads)
    /\ Len(seen) = 3 => seen[1] <= seen[2] + seen[3] + Cardinality(Threads)
    /\ SnapshotShowsAcquires

AccountInv == PoolInv /\ NoFreeCellLost /\ Accounted /\ SeenSoFar

------------------------------------------------------------------------------
(* Finite sets of cells. *)

LEMMA SubsetsFinite ==
    ASSUME PoolInv, FinitelyUsed
    PROVE  /\ IsFiniteSet(Objects) /\ IsFiniteSet(dying)
           /\ Cardinality(Objects) \in Nat /\ Cardinality(dying) \in Nat
           /\ Cardinality(Used) \in Nat
           /\ Cardinality(acquiring) \in Nat /\ Cardinality(Threads) \in Nat
           /\ Cardinality(acquiring) <= Cardinality(Threads)
<1>1. Objects \subseteq Used BY DEF Objects, Used
<1>2. dying \subseteq Used BY <1>1 DEF PoolInv, OnlyContainersOwned
<1>3. IsFiniteSet(Objects) /\ IsFiniteSet(dying)
  BY <1>1, <1>2, FS_Subset DEF FinitelyUsed
<1>4. acquiring \subseteq Threads BY DEF PoolInv, TypeOK
<1>5. Cardinality(acquiring) <= Cardinality(Threads)
  BY <1>4, FinitelyManyThreads, FS_Subset
<1> QED BY <1>3, <1>5, FS_CardinalityType, FinitelyManyThreads DEF FinitelyUsed

------------------------------------------------------------------------------
(* A free cell stays on a list. *)

LEMMA PopKeepsFreeListed ==
    ASSUME PoolInv, NoFreeCellLost, NEW t \in Threads, Reuse(t)
    PROVE  NoFreeCellLost'
<1> DEFINE old == freeList[t]
<1>1. old \in Seq(Cells) /\ old # <<>> BY DEF Reuse, PoolInv, TypeOK
<1>2. /\ Head(old) = old[1] /\ Head(old) \in Cells
      /\ Len(old) \in Nat /\ DOMAIN old = 1..Len(old)
      /\ DOMAIN Tail(old) = 1..(Len(old) - 1)
      /\ \A i \in 1..(Len(old) - 1) : Tail(old)[i] = old[i + 1]
  BY <1>1
<1>3. /\ freeList' = [freeList EXCEPT ![t] = Tail(old)]
      /\ memory' = [memory EXCEPT ![Head(old)] = "object"]
  BY DEF Reuse, Construct
<1> SUFFICES ASSUME NEW c \in Cells, memory'[c] = "link"
             PROVE  \E u \in Threads : c \in Range(freeList'[u])
  BY DEF NoFreeCellLost
<1>4. c # Head(old) /\ memory[c] = "link"
  BY <1>2, <1>3 DEF PoolInv, TypeOK
<1>5. PICK u \in Threads : c \in Range(freeList[u])
  BY <1>4 DEF NoFreeCellLost
<1>6. CASE u # t
  <2>1. freeList'[u] = freeList[u] BY <1>3, <1>6 DEF PoolInv, TypeOK
  <2> QED BY <1>5, <2>1
<1>7. CASE u = t
  <2>1. PICK i \in DOMAIN old : c = old[i] BY <1>5, <1>7 DEF Range
  <2>2. i \in 1..Len(old) /\ i # 1 BY <2>1, <1>2, <1>4
  <2>3. i - 1 \in 1..(Len(old) - 1) BY <2>2, <1>2
  <2>4. Tail(old)[i - 1] = c BY <2>1, <2>2, <2>3, <1>2
  <2>5. freeList'[t] = Tail(old) BY <1>3 DEF PoolInv, TypeOK
  <2> QED BY <2>3, <2>4, <2>5, <1>2 DEF Range
<1> QED BY <1>6, <1>7

LEMMA PushKeepsFreeListed ==
    ASSUME PoolInv, NoFreeCellLost, NEW t \in Threads, NEW c \in Cells, Link(t, c)
    PROVE  NoFreeCellLost'
<1> DEFINE old == freeList[t]
           new == <<c>> \o old
<1>1. old \in Seq(Cells) BY DEF PoolInv, TypeOK
<1>2. /\ Len(old) \in Nat /\ DOMAIN old = 1..Len(old)
      /\ DOMAIN new = 1..(Len(old) + 1) /\ new[1] = c
      /\ \A i \in 1..Len(old) : new[i + 1] = old[i]
  BY <1>1
<1>3. /\ freeList' = [freeList EXCEPT ![t] = new]
      /\ memory' = [memory EXCEPT ![c] = "link"]
  BY DEF Link, Unlink, Pushed
<1>4. freeList'[t] = new /\ \A u \in Threads \ {t} : freeList'[u] = freeList[u]
  BY <1>3 DEF PoolInv, TypeOK
<1> SUFFICES ASSUME NEW d \in Cells, memory'[d] = "link"
             PROVE  \E u \in Threads : d \in Range(freeList'[u])
  BY DEF NoFreeCellLost
<1>5. CASE d = c
  <2>1. 1 \in DOMAIN new BY <1>2
  <2> QED BY <2>1, <1>2, <1>4, <1>5 DEF Range
<1>6. CASE d # c
  <2>1. memory[d] = "link" BY <1>3, <1>6 DEF PoolInv, TypeOK
  <2>2. PICK u \in Threads : d \in Range(freeList[u]) BY <2>1 DEF NoFreeCellLost
  <2>3. CASE u # t BY <2>2, <2>3, <1>4
  <2>4. CASE u = t
    <3>1. PICK i \in DOMAIN old : d = old[i] BY <2>2, <2>4 DEF Range
    <3>2. i + 1 \in DOMAIN new /\ new[i + 1] = d BY <3>1, <1>2
    <3> QED BY <3>2, <1>4 DEF Range
  <2> QED BY <2>3, <2>4
<1> QED BY <1>5, <1>6

LEMMA ExitKeepsFreeListed ==
    ASSUME PoolInv, NoFreeCellLost, NEW t \in Threads, Exit(t)
    PROVE  NoFreeCellLost'
<1>1. /\ freeList' = [freeList EXCEPT ![t] = <<>>]
      /\ memory' = [c \in Cells |-> IF c \in Range(freeList[t]) THEN "leaked" ELSE memory[c]]
  BY DEF Exit
<1> SUFFICES ASSUME NEW c \in Cells, memory'[c] = "link"
             PROVE  \E u \in Threads : c \in Range(freeList'[u])
  BY DEF NoFreeCellLost
<1>2. c \notin Range(freeList[t]) /\ memory[c] = "link" BY <1>1
<1>3. PICK u \in Threads : c \in Range(freeList[u]) BY <1>2 DEF NoFreeCellLost
<1>4. freeList'[u] = freeList[u] BY <1>1, <1>2, <1>3 DEF PoolInv, TypeOK
<1> QED BY <1>3, <1>4

------------------------------------------------------------------------------
(* The counters. *)

\* A cell is constructed: Construct, with the counter of either branch.
LEMMA ConstructAccounts ==
    ASSUME PoolInv, Accounted, NEW t \in acquiring, NEW c \in Cells \ Objects,
           memory' = [memory EXCEPT ![c] = "object"], acquiring' = acquiring \ {t},
           UNCHANGED <<acquired, released, dying, terminated>>,
           \/ memory[c] = "system" /\ created' = created + 1 /\ reused' = reused
           \/ memory[c] # "system" /\ created' = created /\ reused' = reused + 1
    PROVE  Accounted'
<1>1. /\ Cardinality(Objects) \in Nat /\ Cardinality(dying) \in Nat
      /\ Cardinality(Used) \in Nat /\ Cardinality(acquiring) \in Nat
      /\ IsFiniteSet(Objects)
  BY SubsetsFinite DEF Accounted
<1>2. Objects' = Objects \cup {c} /\ Used' = Used \cup {c}
  BY DEF Objects, Used, PoolInv, TypeOK
<1>3. c \in Used <=> memory[c] # "system" BY DEF Used
<1>4. /\ IsFiniteSet(Used') /\ IsFiniteSet(acquiring')
      /\ Cardinality(Used') = IF c \in Used THEN Cardinality(Used) ELSE Cardinality(Used) + 1
      /\ Cardinality(acquiring') = Cardinality(acquiring) - 1
      /\ Cardinality(Objects') = Cardinality(Objects) + 1
  BY <1>1, <1>2, FS_AddElement, FS_RemoveElement DEF Accounted, FinitelyUsed
<1>5. FinitelyUsed' BY <1>4 DEF FinitelyUsed
<1>6. CountersAccountForCells'
  <2> SUFFICES ASSUME ~terminated PROVE
        /\ created' = Cardinality(Used')
        /\ acquired' = created' + reused' + Cardinality(acquiring')
        /\ created' + reused' + Cardinality(dying') = released' + Cardinality(Objects')
    BY DEF CountersAccountForCells, Used
  <2>1. /\ created = Cardinality(Used)
        /\ acquired = created + reused + Cardinality(acquiring)
        /\ created + reused + Cardinality(dying) = released + Cardinality(Objects)
    BY DEF Accounted, CountersAccountForCells, Used
  <2>2. acquired \in Nat /\ created \in Nat /\ reused \in Nat /\ released \in Nat
    BY DEF PoolInv, TypeOK
  <2> QED BY <1>1, <1>3, <1>4, <2>1, <2>2
<1> QED BY <1>5, <1>6 DEF Accounted

\* The release of another container begins.
LEMMA ReleaseAccounts ==
    ASSUME PoolInv, Accounted, NEW c \in Objects \ dying,
           released' = released + 1, dying' = dying \cup {c},
           UNCHANGED <<acquired, created, reused, memory, acquiring, terminated>>
    PROVE  Accounted'
<1>1. /\ Cardinality(Objects) \in Nat /\ Cardinality(dying) \in Nat
      /\ IsFiniteSet(dying)
  BY SubsetsFinite DEF Accounted
<1>2. Objects' = Objects /\ Used' = Used BY DEF Objects, Used
<1>3. Cardinality(dying') = Cardinality(dying) + 1 BY <1>1, FS_AddElement
<1>4. FinitelyUsed' BY <1>2 DEF Accounted, FinitelyUsed
<1>5. created \in Nat /\ reused \in Nat /\ released \in Nat BY DEF PoolInv, TypeOK
<1>6. CountersAccountForCells'
  BY <1>1, <1>2, <1>3, <1>5 DEF Accounted, CountersAccountForCells, Used
<1> QED BY <1>4, <1>6 DEF Accounted

\* A release ends.
LEMMA LinkAccounts ==
    ASSUME PoolInv, Accounted, NEW t \in Threads, NEW c \in Cells, Link(t, c)
    PROVE  Accounted'
<1>1. /\ Cardinality(Objects) \in Nat /\ Cardinality(dying) \in Nat
      /\ IsFiniteSet(dying) /\ IsFiniteSet(Objects)
  BY SubsetsFinite DEF Accounted
<1>2. /\ c \in dying /\ dying' = dying \ {c}
      /\ memory' = [memory EXCEPT ![c] = "link"]
      /\ UNCHANGED <<acquired, created, reused, released, acquiring, terminated>>
  BY DEF Link, Unlink, counters
<1>3. c \in Objects BY <1>2 DEF PoolInv, OnlyContainersOwned
<1>4. Objects' = Objects \ {c} /\ Used' = Used
  BY <1>2, <1>3 DEF Objects, Used, PoolInv, TypeOK
<1>5. /\ Cardinality(dying') = Cardinality(dying) - 1
      /\ Cardinality(Objects') = Cardinality(Objects) - 1
  BY <1>1, <1>2, <1>3, <1>4, FS_RemoveElement
<1>6. FinitelyUsed' BY <1>2, <1>4 DEF Accounted, FinitelyUsed
<1>7. created \in Nat /\ reused \in Nat /\ released \in Nat BY DEF PoolInv, TypeOK
<1>8. CountersAccountForCells'
  <2> SUFFICES ASSUME ~terminated PROVE
        /\ created = Cardinality(Used)
        /\ acquired = created + reused + Cardinality(acquiring)
        /\ created + reused + Cardinality(dying') = released + Cardinality(Objects')
    BY <1>2, <1>4 DEF CountersAccountForCells, Used
  <2>1. /\ created = Cardinality(Used)
        /\ acquired = created + reused + Cardinality(acquiring)
        /\ created + reused + Cardinality(dying) = released + Cardinality(Objects)
    BY DEF Accounted, CountersAccountForCells, Used
  <2> QED BY <1>1, <1>5, <1>7, <2>1
<1> QED BY <1>6, <1>8 DEF Accounted

\* Nothing the counters are about changes: moves, reading, and the end of a
\* thread, whose free cells are still not with the system.
LEMMA OthersAccount ==
    ASSUME Accounted, UNCHANGED <<counters, dying, acquiring, terminated>>,
           Used' = Used, Objects' = Objects
    PROVE  Accounted'
BY DEF Accounted, FinitelyUsed, CountersAccountForCells, Used, counters

------------------------------------------------------------------------------
(* The observer. *)

\* Nothing is read, and the counters only go up.
LEMMA UnseenSteps ==
    ASSUME PoolInv, SeenSoFar, FinitelyUsed, seen' = seen,
           created' \in Nat, reused' \in Nat, created' >= created, reused' >= reused
    PROVE  SeenSoFar'
<1>1. Cardinality(Threads) \in Nat BY SubsetsFinite
<1>2. created \in Nat /\ reused \in Nat /\ seen \in Seq(Nat) /\ Len(seen) \in Nat
  BY DEF PoolInv, TypeOK
<1>3. \A i \in 1..Len(seen) : seen[i] \in Nat BY <1>2
<1> QED BY <1>1, <1>2, <1>3 DEF SeenSoFar, SnapshotShowsAcquires

\* What Append adds, and what it keeps.
LEMMA OneMore ==
    ASSUME NEW s \in Seq(Nat), NEW n \in Nat
    PROVE  /\ Len(Append(s, n)) = Len(s) + 1 /\ Append(s, n)[Len(s) + 1] = n
           /\ \A i \in 1..Len(s) : Append(s, n)[i] = s[i]
OBVIOUS

\* The next counter is read, or the first one again.
LEMMA ReadCounterSteps ==
    ASSUME PoolInv, Accounted, SeenSoFar, ~terminated, ReadCounter
    PROVE  SeenSoFar'
<1>1. /\ Cardinality(Threads) \in Nat /\ Cardinality(acquiring) \in Nat
      /\ Cardinality(acquiring) <= Cardinality(Threads)
  BY SubsetsFinite DEF Accounted
<1>2. /\ acquired \in Nat /\ created \in Nat /\ reused \in Nat /\ released \in Nat
      /\ seen \in Seq(Nat) /\ Len(seen) \in 0..4
  <2>1. seen \in Seq(Nat) BY DEF PoolInv, TypeOK
  <2>2. Len(seen) <= 4 BY DEF PoolInv, TypeOK
  <2>3. Len(seen) \in 0..4
    <3>1. Len(seen) \in Nat BY <2>1
    <3>2. \A n \in Nat : n <= 4 => n \in 0..4 OBVIOUS
    <3> QED BY <2>2, <3>1, <3>2
  <2>4. acquired \in Nat /\ created \in Nat /\ reused \in Nat /\ released \in Nat
    BY DEF PoolInv, TypeOK
  <2> QED BY <2>1, <2>3, <2>4
<1>3. acquired <= created + reused + Cardinality(Threads)
  BY <1>1, <1>2 DEF Accounted, CountersAccountForCells
<1>4. created' = created /\ reused' = reused BY DEF ReadCounter, counters
<1>5. CASE Len(seen) \in {0, 4}
  <2>1. seen' = <<acquired>>
    <3>1. CASE Len(seen) = 4
      <4>1. seen' = Append(<<>>, counters[Len(<<>>) + 1]) BY <3>1 DEF ReadCounter
      <4> QED BY <4>1 DEF counters
    <3>2. CASE Len(seen) = 0
      <4>1. seen = <<>> BY <1>2, <3>2
      <4>2. seen' = Append(seen, counters[Len(seen) + 1]) BY <3>2 DEF ReadCounter
      <4> QED BY <4>1, <4>2 DEF counters
    <3> QED BY <1>5, <3>1, <3>2
  <2>2. Len(seen') = 1 /\ seen'[1] = acquired BY <2>1
  <2> QED BY <2>2, <1>3, <1>4 DEF SeenSoFar, SnapshotShowsAcquires
<1>6. CASE Len(seen) \in 1..3
  <2>1. seen' = Append(seen, counters[Len(seen) + 1])
    <3>1. Len(seen) # 4 BY <1>6
    <3> QED BY <3>1 DEF ReadCounter
  <2>2. PICK counter \in Nat : /\ seen' = Append(seen, counter)
                               /\ Len(seen) = 1 => counter = created
                               /\ Len(seen) = 2 => counter = reused
    <3>1. CASE Len(seen) = 1 BY <1>2, <2>1, <3>1 DEF counters
    <3>2. CASE Len(seen) = 2 BY <1>2, <2>1, <3>2 DEF counters
    <3>3. CASE Len(seen) = 3 BY <1>2, <2>1, <3>3 DEF counters
    <3> QED BY <1>6, <3>1, <3>2, <3>3
  <2>3. /\ Len(seen') = Len(seen) + 1 /\ seen'[Len(seen) + 1] = counter
        /\ \A i \in 1..Len(seen) : seen'[i] = seen[i]
    BY <1>2, <2>2, OneMore
  <2>4. \A i \in 1..Len(seen) : seen[i] \in Nat BY <1>2, ElementOfSeq
  <2>5. CASE Len(seen) = 1
    <3>1. counter = created BY <2>2, <2>5
    <3>2. 1 \in 1..Len(seen) /\ Len(seen) + 1 = 2 BY <2>5
    <3>3. seen'[1] = seen[1] /\ seen'[2] = created /\ Len(seen') = 2 BY <2>3, <3>1, <3>2
    <3> QED BY <1>1, <1>2, <1>4, <2>5, <3>3 DEF SeenSoFar, SnapshotShowsAcquires
  <2>6. CASE Len(seen) = 2
    <3>1. counter = reused BY <2>2, <2>6
    <3>2. 1 \in 1..Len(seen) /\ 2 \in 1..Len(seen) /\ Len(seen) + 1 = 3 BY <2>6
    <3>3. /\ seen'[1] = seen[1] /\ seen'[2] = seen[2] /\ seen'[3] = reused
          /\ Len(seen') = 3
      BY <2>3, <3>1, <3>2
    <3> QED BY <1>1, <1>2, <1>4, <2>6, <3>3 DEF SeenSoFar, SnapshotShowsAcquires
  <2>7. CASE Len(seen) = 3
    <3>1. seen'[1] = seen[1] /\ seen'[2] = seen[2] /\ seen'[3] = seen[3] BY <2>3, <2>7
    <3> QED BY <1>1, <1>2, <1>4, <2>3, <2>7, <3>1 DEF SeenSoFar, SnapshotShowsAcquires
  <2> QED BY <1>6, <2>5, <2>6, <2>7
<1> QED BY <1>2, <1>5, <1>6

------------------------------------------------------------------------------
LEMMA InitAccounts == Init => AccountInv
<1> SUFFICES ASSUME Init PROVE AccountInv OBVIOUS
<1>1. PoolInv BY InitEstablishes
<1>2. Objects = {} /\ Used = {} /\ acquiring = {} /\ dying = {}
  BY DEF Init, Objects, Used
<1>3. NoFreeCellLost BY DEF Init, NoFreeCellLost
<1>4. Accounted
  <2>1. IsFiniteSet({}) /\ Cardinality({}) = 0 BY FS_EmptySet
  <2>2. FinitelyUsed BY <1>2, <2>1 DEF FinitelyUsed
  <2>3. acquired = 0 /\ created = 0 /\ reused = 0 /\ released = 0 BY DEF Init
  <2>4. created = Cardinality(Used) BY <1>2, <2>1, <2>3
  <2>5. /\ acquired = created + reused + Cardinality(acquiring)
        /\ created + reused + Cardinality(dying) = released + Cardinality(Objects)
    BY <1>2, <2>1, <2>3
  <2> QED BY <2>2, <2>4, <2>5 DEF Accounted, CountersAccountForCells, Used
<1>5. SeenSoFar
  <2>1. Len(seen) = 0 BY DEF Init
  <2> QED BY <2>1 DEF SeenSoFar, SnapshotShowsAcquires
<1> QED BY <1>1, <1>3, <1>4, <1>5 DEF AccountInv

\* The steps inside acquire, and the end of a thread.
LEMMA ThreadSteps ==
    ASSUME AccountInv, NEW t \in Threads, Step(t)
    PROVE  NoFreeCellLost' /\ Accounted' /\ SeenSoFar'
<1> USE DEF AccountInv
<1>0. /\ created \in Nat /\ reused \in Nat /\ acquired \in Nat /\ released \in Nat
      /\ FinitelyUsed
  BY DEF PoolInv, TypeOK, Accounted
<1>1. CASE CountAcquire(t)
  <2>1. /\ acquired' = acquired + 1 /\ acquiring' = acquiring \cup {t} /\ t \notin acquiring
        /\ UNCHANGED <<created, reused, released, freeList, memory, dying, terminated, seen>>
    BY <1>1 DEF CountAcquire, Idle, trees
  <2>2. /\ Cardinality(acquiring') = Cardinality(acquiring) + 1
        /\ Cardinality(acquiring) \in Nat
        /\ IsFiniteSet(acquiring')
    BY <1>0, <2>1, FS_AddElement, SubsetsFinite DEF FinitelyUsed
  <2>3. Objects' = Objects /\ Used' = Used BY <2>1 DEF Objects, Used
  <2>4. FinitelyUsed' BY <1>0, <2>2, <2>3 DEF FinitelyUsed
  <2>5. CountersAccountForCells'
    BY <1>0, <2>1, <2>2, <2>3 DEF Accounted, CountersAccountForCells, Used
  <2>6. NoFreeCellLost' BY <2>1 DEF NoFreeCellLost
  <2> QED BY <1>0, <2>1, <2>4, <2>5, <2>6, UnseenSteps DEF Accounted
<1>2. CASE Reuse(t)
  <2>1. /\ reused' = reused + 1 /\ created' = created /\ seen' = seen
        /\ t \in acquiring /\ acquiring' = acquiring \ {t}
        /\ memory' = [memory EXCEPT ![Head(freeList[t])] = "object"]
        /\ UNCHANGED <<acquired, released, dying, terminated>>
    BY <1>2 DEF Reuse, Construct
  <2>2. Head(freeList[t]) \in Cells \ Objects /\ memory[Head(freeList[t])] = "link"
    <3>1. freeList[t] # <<>> /\ freeList' = [freeList EXCEPT ![t] = Tail(@)]
      BY <1>2 DEF Reuse
    <3> QED BY <2>1, <3>1, PopKeepsListedOnce DEF Objects, PoolInv
  <2>3. Accounted' BY <2>1, <2>2, ConstructAccounts
  <2> QED BY <1>0, <1>2, <2>1, <2>3, PopKeepsFreeListed, UnseenSteps
<1>3. CASE Create(t)
  <2>1. PICK d \in Cells : memory[d] = "system" /\ Construct(t, d) BY <1>3 DEF Create
  <2>2. /\ created' = created + 1 /\ reused' = reused /\ seen' = seen
        /\ t \in acquiring /\ acquiring' = acquiring \ {t} /\ freeList' = freeList
        /\ memory' = [memory EXCEPT ![d] = "object"]
        /\ UNCHANGED <<acquired, released, dying, terminated>>
    BY <1>3, <2>1 DEF Create, Construct
  <2>3. d \in Cells \ Objects BY <2>1 DEF Objects
  <2>4. Accounted' BY <2>1, <2>2, <2>3, ConstructAccounts
  <2>5. NoFreeCellLost' BY <2>2 DEF NoFreeCellLost, PoolInv, TypeOK
  <2> QED BY <1>0, <2>2, <2>4, <2>5, UnseenSteps
<1>4. CASE OutOfMemory(t)
  <2>1. /\ created' = created + 1 /\ reused' = reused /\ seen' = seen /\ terminated'
        /\ UNCHANGED <<freeList, memory, acquiring>>
    BY <1>4 DEF OutOfMemory, trees
  <2>2. Accounted'
    BY <2>1 DEF Accounted, FinitelyUsed, CountersAccountForCells, Used
  <2>3. NoFreeCellLost' BY <2>1 DEF NoFreeCellLost
  <2> QED BY <1>0, <2>1, <2>2, <2>3, UnseenSteps
<1>5. CASE Exit(t)
  <2>1. /\ memory' = [d \in Cells |-> IF d \in Range(freeList[t]) THEN "leaked" ELSE memory[d]]
        /\ UNCHANGED <<counters, dying, acquiring, seen, terminated>>
    BY <1>5 DEF Exit
  <2>2. \A d \in Cells : d \in Range(freeList[t]) => memory[d] = "link"
    BY DEF PoolInv, FreeCellsListedOnce, Range
  <2>3. Used' = Used /\ Objects' = Objects BY <2>1, <2>2 DEF Used, Objects
  <2>4. Accounted' BY <2>1, <2>3, OthersAccount
  <2> QED BY <1>0, <1>5, <2>1, <2>4, ExitKeepsFreeListed, UnseenSteps DEF counters
<1> QED BY <1>1, <1>2, <1>3, <1>4, <1>5 DEF Step

\* A release begins, from outside or by the destructor of the owner.
LEMMA ReleaseSteps ==
    ASSUME AccountInv, NEW c \in Objects \ dying,
           released' = released + 1, dying' = dying \cup {c},
           UNCHANGED <<acquired, created, reused, freeList, memory, acquiring, seen, terminated>>
    PROVE  NoFreeCellLost' /\ Accounted' /\ SeenSoFar'
<1> USE DEF AccountInv
<1>1. created \in Nat /\ reused \in Nat /\ FinitelyUsed BY DEF PoolInv, TypeOK, Accounted
<1>2. NoFreeCellLost' BY DEF NoFreeCellLost
<1> QED BY <1>1, <1>2, ReleaseAccounts, UnseenSteps

\* A release ends.
LEMMA LinkSteps ==
    ASSUME AccountInv, NEW t \in Threads, NEW c \in Cells, Link(t, c)
    PROVE  NoFreeCellLost' /\ Accounted' /\ SeenSoFar'
<1> USE DEF AccountInv
<1>1. created \in Nat /\ reused \in Nat /\ FinitelyUsed BY DEF PoolInv, TypeOK, Accounted
<1>2. UNCHANGED <<created, reused, seen>> BY DEF Link, Unlink, counters
<1> QED BY <1>1, <1>2, PushKeepsFreeListed, LinkAccounts, UnseenSteps

\* Moving containers, and steps of nobody.
LEMMA MoveSteps ==
    ASSUME AccountInv,
           UNCHANGED <<counters, freeList, memory, dying, acquiring, seen, terminated>>
    PROVE  NoFreeCellLost' /\ Accounted' /\ SeenSoFar'
<1> USE DEF AccountInv
<1>1. created \in Nat /\ reused \in Nat /\ FinitelyUsed BY DEF PoolInv, TypeOK, Accounted
<1>2. Used' = Used /\ Objects' = Objects BY DEF Used, Objects
<1>3. NoFreeCellLost' BY DEF NoFreeCellLost
<1>4. Accounted' BY <1>2, OthersAccount
<1> QED BY <1>1, <1>3, <1>4, UnseenSteps DEF counters

LEMMA AccountStep == AccountInv /\ [Next]_vars => AccountInv'
<1> SUFFICES ASSUME AccountInv, [Next]_vars PROVE AccountInv' OBVIOUS
<1>1. PoolInv' BY PoolStep DEF AccountInv
<1>2. NoFreeCellLost' /\ Accounted' /\ SeenSoFar'
  <2>1. ASSUME NEW t \in Threads, Step(t) PROVE NoFreeCellLost' /\ Accounted' /\ SeenSoFar'
    BY <2>1, ThreadSteps
  <2>2. ASSUME NEW t \in Threads, NEW c \in Cells, Release(t, c)
        PROVE  NoFreeCellLost' /\ Accounted' /\ SeenSoFar'
    BY <2>2, ReleaseSteps DEF Release
  <2>3. ASSUME NEW t \in Threads, NEW c \in Cells, Link(t, c)
        PROVE  NoFreeCellLost' /\ Accounted' /\ SeenSoFar'
    BY <2>3, LinkSteps
  <2>4. ASSUME NEW t \in Threads, NEW c \in Cells, NEW d \in Cells, Adopt(t, c, d)
        PROVE  NoFreeCellLost' /\ Accounted' /\ SeenSoFar'
    BY <2>4, MoveSteps DEF Adopt
  <2>5. ASSUME NEW t \in Threads, NEW u \in Threads, NEW c \in Cells, HandOver(t, u, c)
        PROVE  NoFreeCellLost' /\ Accounted' /\ SeenSoFar'
    BY <2>5, MoveSteps DEF HandOver
  <2>6. ASSUME NEW c \in Cells, NEW d \in Cells, ReleaseChild(c, d)
        PROVE  NoFreeCellLost' /\ Accounted' /\ SeenSoFar'
    BY <2>6, ReleaseSteps DEF ReleaseChild, Children
  <2>7. ASSUME ~terminated, ReadCounter PROVE NoFreeCellLost' /\ Accounted' /\ SeenSoFar'
    <3>1. Accounted' /\ NoFreeCellLost'
      <4>1. UNCHANGED <<counters, freeList, memory, dying, acquiring, terminated>>
        BY <2>7 DEF ReadCounter, trees
      <4>2. Used' = Used /\ Objects' = Objects BY <4>1 DEF Used, Objects
      <4> QED BY <4>1, <4>2, OthersAccount DEF AccountInv, NoFreeCellLost
    <3> QED BY <2>7, <3>1, ReadCounterSteps DEF AccountInv
  <2>8. CASE UNCHANGED vars BY <2>8, MoveSteps DEF vars, trees
  <2>9. CASE Next
    BY <2>1, <2>2, <2>3, <2>4, <2>5, <2>6, <2>7, <2>9 DEF Next
  <2> QED BY <2>8, <2>9
<1> QED BY <1>1, <1>2 DEF AccountInv

LEMMA Accounting == Spec => []AccountInv
BY InitAccounts, AccountStep, PTL DEF Spec

\* What acquire could hand out again is on a list of a thread that runs: release
\* and the end of a thread lose no cell on the way.
THEOREM FreeCellsStayListed == Spec => []NoFreeCellLost
BY Accounting, PTL DEF AccountInv

\* The four counters give the number of cells taken from the system and the
\* number of containers alive, whatever the threads do.
THEOREM CountersAddUp == Spec => []CountersAccountForCells
BY Accounting, PTL DEF AccountInv, Accounted

\* getStats, which reads the counters one by one, never shows more acquisitions
\* than cells handed out, but for one per thread.
THEOREM SnapshotsAreConsistent == Spec => []SnapshotShowsAcquires
BY Accounting, PTL DEF AccountInv, SeenSoFar

==============================================================================
