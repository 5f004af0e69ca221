----------------------------- MODULE FixedVector -----------------------------
(***************************************************************************)
(* FixedVector: the entries of a List or Dictionary in an array that is    *)
(* there from the start.  Entries own what they hold, so they are moved,   *)
(* and one that is overwritten releases what it owned.                     *)
(*                                                                         *)
(* A caller hands an entry over by reference: it stays the caller's until  *)
(* the operation moves it, and is dropped by the caller when the call      *)
(* throws.  insertImpl shifts the entries behind its place one slot per    *)
(* step; every other operation is a step.  The defaulted move of a whole   *)
(* vector, which no code calls, is left out.                               *)
(***************************************************************************)
EXTENDS VectorCalls

CONSTANTS
    Entries,        \* entries that can be put in, each of them once
    Hollow          \* an entry that was moved from: owns nothing

\* Blank, T(), owns nothing either.
ASSUME VectorAssumption ==
    /\ Capacity \in Nat \ {0}
    /\ Blank \notin Entries /\ Hollow \notin Entries /\ Blank # Hollow

VARIABLES
    data, size,
    request,        \* the call that runs, or None
    inserting,      \* the loop of insertImpl runs
    current,
    fresh,          \* entries that were not put in yet
    released,       \* history: entries that have released what they owned
    outcome         \* how the last call ended

vars == <<data, size, request, inserting, current, fresh, released, outcome>>
loop == <<inserting, current>>

Slots == 0..(Capacity - 1)

Init == /\ data = [slot \in Slots |-> Blank]
        /\ size = 0
        /\ request = None
        /\ inserting = FALSE /\ current = 0
        /\ fresh = Entries /\ released = {}
        /\ outcome = "ok"

call == /\ request = None
        /\ request' \in Calls(fresh, size)
        /\ UNCHANGED <<data, size, loop, fresh, released, outcome>>

Called(operation) == request.operation = operation

Return == request' = None /\ outcome' = "ok"

\* The entries these slots own now are released.
Releases(slots) == released' = released \cup ({data[slot] : slot \in slots} \cap Entries)

Throw(error) ==
    /\ request' = None /\ outcome' = error
    /\ fresh' = fresh \ {request.value}
    /\ released' = released \cup ({request.value} \cap Entries)
    /\ UNCHANGED <<data, size, loop>>

------------------------------------------------------------------------------
emplace_back ==
    /\ Called("emplace_back")
    /\ size < Capacity
    /\ data' = [data EXCEPT ![size] = request.value]
    /\ Releases({size})
    /\ size' = size + 1
    /\ fresh' = fresh \ {request.value}
    /\ Return /\ UNCHANGED loop

emplaceRefused ==
    /\ Called("emplace_back")
    /\ size >= Capacity
    /\ Throw("runtime_error")

\* push_back is insert(end(), value).
Inserts == Called("insert") \/ Called("push_back")
index == IF Called("push_back") THEN size ELSE request.place

insert ==
    /\ Inserts /\ ~inserting
    /\ index <= size /\ size < Capacity
    /\ inserting' = TRUE /\ current' = size
    /\ UNCHANGED <<data, size, request, fresh, released, outcome>>

\* Mutant: off by one, the last slot is never filled.
insertRefusedEarly ==
    /\ Inserts /\ ~inserting
    /\ \/ index > size /\ Throw("out_of_range")
       \/ index <= size /\ size + 1 >= Capacity /\ Throw("runtime_error")

insertRefused ==
    /\ Inserts /\ ~inserting
    /\ \/ index > size /\ Throw("out_of_range")
       \/ index <= size /\ size >= Capacity /\ Throw("runtime_error")

\* Mutant: the entry is copied up, so two slots own the same.
shiftCopying ==
    /\ inserting /\ current > index
    /\ data' = [data EXCEPT ![current] = data[current - 1]]
    /\ Releases({current})
    /\ current' = current - 1
    /\ UNCHANGED <<size, request, inserting, fresh, outcome>>

shift ==
    /\ inserting /\ current > index
    /\ data' = [data EXCEPT ![current] = data[current - 1], ![current - 1] = Hollow]
    /\ Releases({current})
    /\ current' = current - 1
    /\ UNCHANGED <<size, request, inserting, fresh, outcome>>

place ==
    /\ inserting /\ current = index
    /\ data' = [data EXCEPT ![index] = request.value]
    /\ Releases({index})
    /\ size' = size + 1
    /\ fresh' = fresh \ {request.value}
    /\ inserting' = FALSE
    /\ Return /\ UNCHANGED current

\* A smaller size leaves the entries behind it where they are.
resize ==
    LET newSize == request.place
    IN /\ Called("resize") /\ newSize <= Capacity
       /\ data' = [slot \in Slots |-> IF slot \in size..(newSize - 1) THEN Blank
                                                                    ELSE data[slot]]
       /\ Releases(size..(newSize - 1))
       /\ size' = newSize
       /\ Return /\ UNCHANGED <<fresh, loop>>

resizeRefused ==
    /\ Called("resize") /\ request.place > Capacity
    /\ Throw("runtime_error")

clear == /\ Called("clear")
         /\ size' = 0
         /\ Return /\ UNCHANGED <<data, fresh, released, loop>>

\* Through the reference operator[] returns or an iterator.
assign ==
    /\ Called("assign")
    /\ data' = [data EXCEPT ![request.place] = request.value]
    /\ Releases({request.place})
    /\ fresh' = fresh \ {request.value}
    /\ Return /\ UNCHANGED <<size, loop>>

Next == \/ call
        \/ emplace_back \/ emplaceRefused
        \/ insert \/ insertRefused \/ shift \/ place
        \/ resize \/ resizeRefused \/ clear \/ assign

Spec == Init /\ [][Next]_vars
------------------------------------------------------------------------------
\* The members keep their types; the loop stays between its place and the end.
TypeOK ==
    /\ data \in [Slots -> Entries \cup {Blank, Hollow}]
    /\ size \in 0..Capacity
    /\ request \in Calls(fresh, size) \cup {None}
    /\ inserting \in BOOLEAN /\ current \in Nat
    /\ inserting => Inserts /\ index <= current /\ current <= size /\ size < Capacity
    /\ fresh \subseteq Entries /\ released \subseteq Entries

\* While the loop of insertImpl runs, the slot it is to fill next holds nothing
\* of the sequence.
Content == [i \in 1..size |-> data[IF inserting /\ i > current THEN i ELSE i - 1]]

Contract == INSTANCE BoundedSequence WITH
    Values <- Entries, length <- size, content <- Content

\* The slots below size_ are a sequence, whatever older operations left in the
\* slots behind: every call makes of it what the operation of that name makes
\* of a sequence, at its place and with its entry, and throws if and only if
\* there is no room or no such place, and then has changed nothing.
ImplementsSequence == Contract!Spec

OwnedByOneSlot == \A slot, other \in Slots :
    data[slot] \in Entries /\ data[slot] = data[other] => slot = other

OwnersLive == /\ \A slot \in Slots : data[slot] \in Entries =>
                    data[slot] \notin released \cup fresh
              /\ fresh \cap released = {}

NothingLost == \A entry \in Entries \ (fresh \cup released) :
    \E slot \in Slots : data[slot] = entry

HollowInLoop == \A slot \in Slots : data[slot] = Hollow => inserting /\ slot = current

\* An entry is its caller's until it is moved in; then it is owned by one slot
\* or has been released: it is never in two places, never lost, and none that
\* was released can be reached, not even in the slots behind the end, where
\* clear and resize leave entries alive.  The only entry that was moved from
\* is the one insertImpl overwrites next.
EntriesOwnedOnce == OwnedByOneSlot /\ OwnersLive /\ NothingLost /\ HollowInLoop

==============================================================================
