----------------------------- MODULE ObjectPool ------------------------------
(***************************************************************************)
(* ObjectPool<T>: the memory of list and dictionary nodes, shared by the   *)
(* threads of a program.  Every thread keeps the cells it released on a    *)
(* list of its own and takes new containers from it; four atomic counters  *)
(* are common.  Releasing a container runs its destructor first, which     *)
(* releases the containers below it.                                       *)
(*                                                                         *)
(* A step is one access to a counter together with the thread's own work   *)
(* up to its next one.  The threads build trees and pass whole trees to    *)
(* each other; they do not share one.  The pool of T is modelled with      *)
(* trees of T only: a container of the other type between two of T is in   *)
(* a pool of its own and only passes the release on.                       *)
(***************************************************************************)
EXTENDS Integers, Sequences, FiniteSets, SequencesExt

CONSTANTS
    Threads,
    Cells,          \* blocks of sizeof(T) bytes the system can allocate
    Nobody,         \* owner of a cell that holds no container
    MaxAcquired     \* bound: calls of acquire

ASSUME PoolAssumption ==
    /\ Threads \cap Cells = {}
    /\ Nobody \notin Threads \cup Cells
    /\ MaxAcquired \in Nat

ASSUME FinitelyManyThreads == IsFiniteSet(Threads)

VARIABLES
    acquired, created, reused, released,    \* the counters
    freeList,   \* freeList[t]: cells thread t can reuse, the next one first
    memory,     \* what a cell holds
    owner,      \* the thread or the container whose unique_ptr points to it
    dying,      \* containers whose release has begun
    acquiring,  \* threads inside acquire
    exited,     \* threads that have ended
    seen,       \* getStats of an observer: the counters read so far
    terminated  \* std::terminate was called

counters == <<acquired, created, reused, released>>
trees == <<freeList, memory, owner, dying>>
vars == <<counters, trees, acquiring, exited, seen, terminated>>

\* "system": not allocated; "object": a T; "link": a FreeNode; "leaked": a
\* FreeNode on the list of a thread that has ended.
Content == {"system", "object", "link", "leaked"}

Objects == {c \in Cells : memory[c] = "object"}

\* The thread whose tree a container is in.
Holder[c \in Cells] == IF owner[c] \in Threads THEN owner[c] ELSE Holder[owner[c]]

Children(c) == {d \in Objects : owner[d] = c}

\* Thread t is between two calls into the library.
Idle(t) == /\ t \notin acquiring \cup exited
           /\ \A c \in dying : owner[c] # t

Above(c, d) == LET Reaches[x \in Cells] == \/ x = c
                                           \/ owner[x] \in Cells /\ Reaches[owner[x]]
               IN Reaches[d]

------------------------------------------------------------------------------
Init == /\ acquired = 0 /\ created = 0 /\ reused = 0 /\ released = 0
        /\ freeList = [t \in Threads |-> <<>>]
        /\ memory = [c \in Cells |-> "system"]
        /\ owner = [c \in Cells |-> Nobody]
        /\ dying = {} /\ acquiring = {} /\ exited = {}
        /\ seen = <<>>
        /\ terminated = FALSE

(* acquire() and the construction of the container in the cell. *)

CountAcquire(t) ==
    /\ Idle(t) /\ acquired < MaxAcquired
    /\ acquired' = acquired + 1
    /\ acquiring' = acquiring \cup {t}
    /\ UNCHANGED <<created, reused, released, trees, exited, seen, terminated>>

Construct(t, c) ==
    /\ memory' = [memory EXCEPT ![c] = "object"]
    /\ owner' = [owner EXCEPT ![c] = t]
    /\ acquiring' = acquiring \ {t}
    /\ UNCHANGED <<acquired, released, dying, exited, seen, terminated>>

\* Mutant: the cell stays on the free list.
ReuseKeeping(t) ==
    /\ t \in acquiring /\ freeList[t] # <<>>
    /\ reused' = reused + 1
    /\ Construct(t, Head(freeList[t]))
    /\ UNCHANGED <<created, freeList>>

\* Mutant: the reuse is not counted.
ReuseUncounted(t) ==
    /\ t \in acquiring /\ freeList[t] # <<>>
    /\ Construct(t, Head(freeList[t]))
    /\ freeList' = [freeList EXCEPT ![t] = Tail(@)]
    /\ UNCHANGED <<created, reused>>

Reuse(t) ==
    /\ t \in acquiring /\ freeList[t] # <<>>
    /\ reused' = reused + 1
    /\ Construct(t, Head(freeList[t]))
    /\ freeList' = [freeList EXCEPT ![t] = Tail(@)]
    /\ UNCHANGED created

Create(t) ==
    /\ t \in acquiring /\ freeList[t] = <<>>
    /\ created' = created + 1
    /\ \E c \in Cells : memory[c] = "system" /\ Construct(t, c)
    /\ UNCHANGED <<reused, freeList>>

\* operator new throws and acquire is noexcept.
OutOfMemory(t) ==
    /\ t \in acquiring /\ freeList[t] = <<>>
    /\ \A c \in Cells : memory[c] # "system"
    /\ created' = created + 1
    /\ terminated' = TRUE
    /\ UNCHANGED <<acquired, reused, released, trees, acquiring, exited, seen>>

(* What the threads do with their trees. *)

\* A container is moved into another one.
Adopt(t, c, d) ==
    /\ Idle(t) /\ owner[c] = t
    /\ d \in Objects /\ Holder[d] = t /\ ~Above(c, d)
    /\ owner' = [owner EXCEPT ![c] = d]
    /\ UNCHANGED <<counters, freeList, memory, dying, acquiring, exited, seen, terminated>>

\* A tree is moved to another thread.
HandOver(t, u, c) ==
    /\ Idle(t) /\ owner[c] = t /\ u \notin exited
    /\ owner' = [owner EXCEPT ![c] = u]
    /\ UNCHANGED <<counters, freeList, memory, dying, acquiring, exited, seen, terminated>>

(* release(), called by the deleter of the unique_ptr. *)

\* A container anywhere in a tree is dropped: a document goes out of scope,
\* a node is assigned to, a list is cleared.  What is being destroyed is nobody's
\* to drop.
Release(t, c) ==
    /\ Idle(t)
    /\ c \in Objects \ dying /\ Holder[c] = t
    /\ released' = released + 1
    /\ owner' = [owner EXCEPT ![c] = t]
    /\ dying' = dying \cup {c}
    /\ UNCHANGED <<acquired, created, reused, freeList, memory, acquiring, exited, seen, terminated>>

\* ~T() of a dying container reaches its next child.
ReleaseChild(c, d) ==
    /\ c \in dying /\ Children(c) \cap dying = {}
    /\ d \in Children(c)
    /\ released' = released + 1
    /\ dying' = dying \cup {d}
    /\ UNCHANGED <<acquired, created, reused, freeList, memory, owner, acquiring, exited, seen, terminated>>

\* The rest of release: the cell goes to the list of the thread that runs it.
Unlink(t, c) ==
    /\ c \in dying /\ Holder[c] = t
    /\ memory' = [memory EXCEPT ![c] = "link"]
    /\ owner' = [owner EXCEPT ![c] = Nobody]
    /\ dying' = dying \ {c}
    /\ UNCHANGED <<counters, acquiring, exited, seen, terminated>>

Pushed(t, c) == freeList' = [freeList EXCEPT ![t] = <<c>> \o @]

\* Mutant: the cell is linked before the destructor has run.
LinkEarly(t, c) == Unlink(t, c) /\ Children(c) \cap dying = {} /\ Pushed(t, c)

\* Mutant: the release of a whole tree never comes to its end.
LinkNested(t, c) == Unlink(t, c) /\ Children(c) = {} /\ owner[c] \in Cells /\ Pushed(t, c)

\* Mutant: the free list is replaced, not extended.
LinkAlone(t, c) == /\ Unlink(t, c) /\ Children(c) = {}
                   /\ freeList' = [freeList EXCEPT ![t] = <<c>>]

Link(t, c) == Unlink(t, c) /\ Children(c) = {} /\ Pushed(t, c)

\* Nothing destroys the list of a thread that ends.
Exit(t) ==
    /\ Idle(t) /\ \A c \in Objects : owner[c] # t
    /\ exited' = exited \cup {t}
    /\ memory' = [c \in Cells |-> IF c \in Range(freeList[t]) THEN "leaked" ELSE memory[c]]
    /\ freeList' = [freeList EXCEPT ![t] = <<>>]
    /\ UNCHANGED <<counters, owner, dying, acquiring, seen, terminated>>

\* Mutant: the counters are read from the last to the first.
ReadCounterBackwards ==
    /\ LET soFar == IF Len(seen) = 4 THEN <<>> ELSE seen
       IN seen' = <<counters[4 - Len(soFar)]>> \o soFar
    /\ UNCHANGED <<counters, trees, acquiring, exited, terminated>>

\* getStats reads the counters one after the other.
ReadCounter ==
    /\ LET soFar == IF Len(seen) = 4 THEN <<>> ELSE seen
       IN seen' = Append(soFar, counters[Len(soFar) + 1])
    /\ UNCHANGED <<counters, trees, acquiring, exited, terminated>>

Step(t) == CountAcquire(t) \/ Reuse(t) \/ Create(t) \/ OutOfMemory(t) \/ Exit(t)

Next ==
    /\ ~terminated
    /\ \/ \E t \in Threads :
            \/ Step(t)
            \/ \E c \in Cells : \/ Release(t, c)
                                \/ Link(t, c)
                                \/ \E d \in Cells : Adopt(t, c, d)
                                \/ \E u \in Threads : HandOver(t, u, c)
       \/ \E c, d \in Cells : ReleaseChild(c, d)
       \/ ReadCounter

\* A thread inside release keeps running.
Fairness ==
    \A c \in Cells : WF_vars(/\ ~terminated
                             /\ \/ \E t \in Threads : Link(t, c)
                                \/ \E d \in Cells : ReleaseChild(c, d))

Spec == Init /\ [][Next]_vars /\ Fairness
------------------------------------------------------------------------------
TypeOK ==
    /\ acquired \in Nat /\ created \in Nat /\ reused \in Nat /\ released \in Nat
    /\ freeList \in [Threads -> Seq(Cells)]
    /\ memory \in [Cells -> Content]
    /\ owner \in [Cells -> Threads \cup Cells \cup {Nobody}]
    /\ dying \subseteq Cells /\ acquiring \subseteq Threads /\ exited \subseteq Threads
    /\ seen \in Seq(Nat) /\ Len(seen) <= 4 /\ terminated \in BOOLEAN

\* A cell a thread can reuse holds no container and stands once on one list,
\* whichever threads released and acquired it before: the free lists of
\* acquire and release never share or repeat a cell.
FreeCellsListedOnce ==
    \A t, u \in Threads : \A i \in DOMAIN freeList[t], j \in DOMAIN freeList[u] :
        /\ memory[freeList[t][i]] = "link"
        /\ freeList[t][i] = freeList[u][j] => t = u /\ i = j

\* A cell that was released can be acquired again: it stays on the list of
\* some thread for as long as that thread runs.
NoFreeCellLost ==
    \A c \in Cells : memory[c] = "link" => \E t \in Threads : c \in Range(freeList[t])

\* A container below another one lives no shorter: release hands out no cell
\* that a unique_ptr still points to, and the release of a container began
\* before that of anything its destructor releases.
NoContainerOutlivesItsOwner ==
    \A c \in Cells :
        /\ memory[c] = "object" => owner[c] \in Threads \cup Objects
        /\ c \in dying /\ owner[c] \in Cells => owner[c] \in dying

\* The counters account for every cell: those created are on the free lists,
\* in use or lost with their threads, and acquisitions and releases differ
\* by the containers that are alive.
CountersAccountForCells ==
    ~terminated =>
        /\ created = Cardinality({c \in Cells : memory[c] # "system"})
        /\ acquired = created + reused + Cardinality(acquiring)
        /\ created + reused + Cardinality(dying) = released + Cardinality(Objects)

\* getStats is no atomic snapshot, but it never shows more acquisitions than
\* cells created and reused, except for one acquire under way in each thread.
SnapshotShowsAcquires ==
    Len(seen) = 4 => seen[1] <= seen[2] + seen[3] + Cardinality(Threads)

\* A release that has begun ends, with everything below the container.
ReleasesEnd == \A c \in Cells : c \in dying ~> (c \notin dying \/ terminated)

\* Containers constructed so far: the last cell counted as created may be the
\* one that operator new failed to allocate.
Constructed == IF terminated THEN created + reused - 1 ELSE created + reused

\* The pool grants and takes back cells as Allocator does: acquire never
\* returns a cell whose container is still alive, and release takes back one
\* cell at a time.
Allocation == INSTANCE Allocator WITH granted <- Objects, grants <- Constructed
ImplementsAllocator == Allocation!Spec

==============================================================================
