-------------------------- MODULE FixedVectorProofs --------------------------
(***************************************************************************)
(* For every capacity and every set of entries: the members keep their     *)
(* types, every entry is owned once or released, and the slots below size_ *)
(* are a bounded sequence that answers every call as it should.            *)
(***************************************************************************)
EXTENDS FixedVector, TLAPS

\* What a call that adds, assigns or resizes brings with it.
LEMMA CallArguments ==
  ASSUME TypeOK
  PROVE  /\ Called("emplace_back") \/ Inserts \/ Called("assign") =>
              request.value \in fresh /\ request.value \in Entries
         /\ Called("insert") => request.place \in 0..Capacity
         /\ Called("assign") => request.place \in 0..(size - 1) /\ request.place \in Slots
         /\ Called("resize") => request.place \in Nat
         /\ Inserts => index \in Nat
         /\ size \in Nat
  <1>1. request \in Calls(fresh, size) \cup {None} /\ size \in 0..Capacity /\ fresh \subseteq Entries
    BY DEF TypeOK
  <1>2. Called("emplace_back") \/ Inserts \/ Called("assign") => request.value \in fresh
    BY <1>1 DEF Calls, Call, None, Called, Inserts
  <1>3. /\ Called("insert") => request.place \in 0..Capacity
        /\ Called("assign") => request.place \in 0..(size - 1)
        /\ Called("resize") => request.place \in 0..(Capacity + 1)
    BY <1>1 DEF Calls, Call, None, Called
  <1>4. Inserts => index \in Nat
    BY <1>1, <1>3, VectorAssumption DEF Inserts, index
  <1>5. 0..(size - 1) \subseteq Slots
    BY <1>1, VectorAssumption DEF Slots
  <1> QED BY <1>1, <1>2, <1>3, <1>4, <1>5, VectorAssumption

\* A call that has ended leaves no request.
LEMMA Answered ==
  ASSUME TypeOK, request' = None, inserting' = FALSE, current' \in Nat,
         data' \in [Slots -> Entries \cup {Blank, Hollow}], size' \in 0..Capacity,
         fresh' \subseteq Entries, released' \subseteq Entries
  PROVE  TypeOK'
  BY DEF TypeOK, Slots

\* The initial array has the members' types.
LEMMA InitTypeOK == Init => TypeOK
  <1> SUFFICES ASSUME Init PROVE TypeOK
    OBVIOUS
  <1>1. data \in [Slots -> Entries \cup {Blank, Hollow}]
    BY DEF Init
  <1>2. size \in 0..Capacity
    BY VectorAssumption DEF Init
  <1> QED BY <1>1, <1>2 DEF Init, TypeOK

\* Asking, and beginning to insert, keep the types.
LEMMA BeginTypeOK ==
  ASSUME TypeOK, call \/ insert
  PROVE  TypeOK'
  <1>1. CASE call
    <2>1. /\ UNCHANGED <<data, size, inserting, current, fresh, released>>
          /\ request' \in Calls(fresh, size)
      BY <1>1 DEF call, loop
    <2>2. ~inserting
      BY <1>1 DEF call, TypeOK, Inserts, Called, None, Call
    <2>3. request' \in Calls(fresh, size)' \cup {None}
      BY <2>1 DEF Calls
    <2> QED BY <2>1, <2>2, <2>3 DEF TypeOK, Slots
  <1>2. CASE insert
    <2>1. /\ UNCHANGED <<data, size, request, fresh, released>>
          /\ inserting' = TRUE /\ current' = size /\ size \in Nat
          /\ Inserts /\ index <= size /\ size < Capacity
      BY <1>2 DEF insert, TypeOK
    <2>2. (Inserts /\ index <= current /\ current <= size /\ size < Capacity)'
      BY <2>1 DEF Inserts, Called, index
    <2>3. request' \in Calls(fresh, size)' \cup {None}
      BY <2>1 DEF TypeOK, Calls
    <2> QED BY <2>1, <2>2, <2>3 DEF TypeOK, Slots
  <1> QED BY <1>1, <1>2

\* The loop keeps the types.
LEMMA LoopTypeOK ==
  ASSUME TypeOK, shift \/ place
  PROVE  TypeOK'
  <1>1. CASE shift
    <2>1. /\ UNCHANGED <<size, request, inserting, fresh>> /\ current' = current - 1
          /\ inserting /\ Inserts /\ index <= current' /\ current' \in Nat /\ current' <= size
          /\ size < Capacity /\ size \in Nat
      BY <1>1, CallArguments DEF shift, TypeOK
    <2>2. data' \in [Slots -> Entries \cup {Blank, Hollow}]
      BY <1>1, <2>1, VectorAssumption DEF shift, TypeOK, Slots
    <2>3. released' \subseteq Entries
      BY <1>1 DEF shift, TypeOK, Releases
    <2>4. (Inserts /\ index <= current /\ current <= size /\ size < Capacity)'
      BY <2>1 DEF Inserts, Called, index
    <2>5. request' \in Calls(fresh, size)' \cup {None}
      BY <2>1 DEF TypeOK, Calls
    <2> QED BY <2>1, <2>2, <2>3, <2>4, <2>5 DEF TypeOK, Slots
  <1>2. CASE place
    <2>1. /\ request' = None /\ inserting' = FALSE /\ current' \in Nat
          /\ request.value \in Entries
      BY <1>2, CallArguments DEF TypeOK, place, Return
    <2>2. data' \in [Slots -> Entries \cup {Blank, Hollow}]
      BY <1>2, <2>1 DEF TypeOK, place
    <2>3. size' \in 0..Capacity
      BY <1>2, VectorAssumption DEF TypeOK, place
    <2>4. fresh' \subseteq Entries /\ released' \subseteq Entries
      BY <1>2 DEF TypeOK, place, Releases
    <2> QED BY <2>1, <2>2, <2>3, <2>4, Answered
  <1> QED BY <1>1, <1>2

\* A call that is not an insertion finds no insertion running.
LEMMA OtherCalls ==
  ASSUME TypeOK, ~Inserts \/ request = None
  PROVE  inserting = FALSE
  BY DEF TypeOK, Inserts, Called, None, Call

\* A refusal keeps the types.
LEMMA ThrowTypeOK ==
  ASSUME TypeOK, ~inserting, NEW error, Throw(error)
  PROVE  TypeOK'
  <1>1. /\ request' = None /\ inserting' = FALSE /\ current' \in Nat
        /\ data' = data /\ size' = size
        /\ fresh' \subseteq Entries /\ released' \subseteq Entries
    BY DEF Throw, TypeOK, loop
  <1> QED BY <1>1, Answered DEF TypeOK

\* The operations that are one step keep the types.
LEMMA AnswerTypeOK ==
  ASSUME TypeOK, emplace_back \/ resize \/ clear \/ assign
  PROVE  TypeOK'
  <1>1. inserting = FALSE
    BY OtherCalls DEF emplace_back, resize, clear, assign, Inserts, Called
  <1>2. /\ request' = None /\ inserting' = FALSE /\ current' \in Nat
        /\ fresh' \subseteq Entries
    BY <1>1 DEF emplace_back, resize, clear, assign, Return, loop, TypeOK
  <1>3. released' \subseteq Entries
    BY DEF emplace_back, resize, clear, assign, Releases, TypeOK
  <1>4. data' \in [Slots -> Entries \cup {Blank, Hollow}]
    <2>1. CASE emplace_back \/ assign
      BY <2>1, CallArguments DEF emplace_back, assign, TypeOK
    <2>2. CASE resize \/ clear
      BY <2>2 DEF resize, clear, TypeOK
    <2> QED BY <2>1, <2>2
  <1>5. size' \in 0..Capacity
    BY CallArguments, VectorAssumption DEF emplace_back, resize, clear, assign, TypeOK
  <1> QED BY <1>2, <1>3, <1>4, <1>5, Answered

\* Every step keeps the types.
LEMMA NextTypeOK == TypeOK /\ [Next]_vars => TypeOK'
  <1> SUFFICES ASSUME TypeOK, [Next]_vars PROVE TypeOK'
    OBVIOUS
  <1>1. CASE call \/ insert
    BY <1>1, BeginTypeOK
  <1>2. CASE shift \/ place
    BY <1>2, LoopTypeOK
  <1>3. CASE emplace_back \/ resize \/ clear \/ assign
    BY <1>3, AnswerTypeOK
  <1>4. CASE emplaceRefused \/ insertRefused \/ resizeRefused
    <2>1. ~inserting /\ \E error : Throw(error)
      BY <1>4, OtherCalls DEF emplaceRefused, insertRefused, resizeRefused, Inserts, Called
    <2> QED BY <2>1, ThrowTypeOK
  <1>5. CASE UNCHANGED vars
    BY <1>5 DEF vars, TypeOK, Slots, Calls, Inserts, Called, index
  <1> QED BY <1>1, <1>2, <1>3, <1>4, <1>5 DEF Next

\* The members keep their types, and the loop of insertImpl stays between its
\* place and the end, for every capacity.
THEOREM VectorTypeCorrect == Spec => []TypeOK
  BY InitTypeOK, NextTypeOK, PTL DEF Spec

------------------------------------------------------------------------------
\* At first nothing was put in.
LEMMA InitOwned == Init => EntriesOwnedOnce
  BY VectorAssumption
  DEF Init, EntriesOwnedOnce, OwnedByOneSlot, OwnersLive, NothingLost, HollowInLoop, Slots

\* Overwriting one slot, the one in the loop if the loop runs, with an entry
\* of the caller's moves that entry and releases the one before.
LEMMA Overwriting ==
  ASSUME TypeOK, EntriesOwnedOnce,
         NEW target \in Slots, NEW entry \in Entries, entry \in fresh,
         inserting => target = current,
         data' = [data EXCEPT ![target] = entry], Releases({target}),
         inserting' = FALSE, fresh' = fresh \ {entry}
  PROVE  EntriesOwnedOnce'
  <1>1. /\ \A slot \in Slots : data'[slot] = IF slot = target THEN entry ELSE data[slot]
        /\ released' = released \cup ({data[target]} \cap Entries)
    BY DEF TypeOK, Releases
  <1>2. /\ \A slot \in Slots : data[slot] # entry
        /\ entry \notin released
    BY DEF EntriesOwnedOnce, OwnersLive
  <1>3. OwnedByOneSlot'
    BY <1>1, <1>2 DEF EntriesOwnedOnce, OwnedByOneSlot, Slots
  <1>4. OwnersLive'
    <2>1. \A slot \in Slots : data'[slot] \in Entries => data'[slot] \notin released' \cup fresh'
      BY <1>1, <1>2, VectorAssumption DEF EntriesOwnedOnce, OwnedByOneSlot, OwnersLive
    <2>2. fresh' \cap released' = {}
      BY <1>1 DEF EntriesOwnedOnce, OwnersLive
    <2> QED BY <2>1, <2>2 DEF OwnersLive, Slots
  <1>5. NothingLost'
    <2> SUFFICES ASSUME NEW kept \in Entries, kept \notin fresh', kept \notin released'
                 PROVE  \E slot \in Slots : data'[slot] = kept
      BY DEF NothingLost, Slots
    <2>1. CASE kept = entry
      BY <2>1, <1>1
    <2>2. CASE kept # entry
      <3>1. kept \notin released /\ kept \notin fresh /\ kept # data[target]
        BY <2>2, <1>1
      <3>2. PICK slot \in Slots : data[slot] = kept
        BY <3>1 DEF EntriesOwnedOnce, NothingLost
      <3> QED BY <3>1, <3>2, <1>1
    <2> QED BY <2>1, <2>2
  <1>6. HollowInLoop'
    BY <1>1, VectorAssumption DEF EntriesOwnedOnce, HollowInLoop, Slots
  <1> QED BY <1>3, <1>4, <1>5, <1>6 DEF EntriesOwnedOnce

\* A refusal drops the caller's entry, which was nowhere else; without one
\* there is nothing to drop.
LEMMA RefusalOwned ==
  ASSUME TypeOK, EntriesOwnedOnce, NEW error, Throw(error)
  PROVE  EntriesOwnedOnce'
  <1> DEFINE entry == request.value
  <1>1. /\ fresh' = fresh \ {entry} /\ released' = released \cup ({entry} \cap Entries)
        /\ UNCHANGED <<data, inserting, current>>
    BY DEF Throw, loop
  <1>2. entry \in fresh \/ entry \notin Entries
    BY VectorAssumption DEF TypeOK, Calls, Call, None
  <1> HIDE DEF entry
  <1>3. \A slot \in Slots : data[slot] \in Entries => data[slot] # entry
    BY <1>2 DEF EntriesOwnedOnce, OwnersLive
  <1>4. OwnedByOneSlot' /\ HollowInLoop'
    BY <1>1 DEF EntriesOwnedOnce, OwnedByOneSlot, HollowInLoop, Slots
  <1>5. OwnersLive'
    BY <1>1, <1>3 DEF EntriesOwnedOnce, OwnersLive, Slots
  <1>6. NothingLost'
    BY <1>1, <1>2 DEF EntriesOwnedOnce, NothingLost, Slots
  <1> QED BY <1>4, <1>5, <1>6 DEF EntriesOwnedOnce

\* Moving an entry one slot up leaves the slot it was in to the next step.
LEMMA ShiftOwned ==
  ASSUME TypeOK, EntriesOwnedOnce, shift
  PROVE  EntriesOwnedOnce'
  <1>1. /\ current \in Slots /\ current - 1 \in Slots /\ current # current - 1
        /\ inserting' = TRUE /\ fresh' = fresh /\ current' = current - 1
    BY CallArguments, VectorAssumption DEF TypeOK, shift, Slots
  <1>2. /\ released' = released \cup ({data[current]} \cap Entries)
        /\ \A slot \in Slots : data'[slot] = IF slot = current THEN data[current - 1]
                                             ELSE IF slot = current - 1 THEN Hollow
                                             ELSE data[slot]
    BY <1>1 DEF TypeOK, shift, Releases, Slots
  <1> DEFINE before == current - 1
  <1>3. before \in Slots /\ before # current /\ current' = before
    BY <1>1
  <1>4. \A slot \in Slots : data'[slot] = IF slot = current THEN data[before]
                                         ELSE IF slot = before THEN Hollow ELSE data[slot]
    BY <1>2
  <1> HIDE DEF before
  <1>5. OwnedByOneSlot'
    BY <1>1, <1>3, <1>4, VectorAssumption DEF EntriesOwnedOnce, OwnedByOneSlot, Slots
  <1>6. OwnersLive'
    BY <1>1, <1>2, <1>3, <1>4, VectorAssumption
    DEF EntriesOwnedOnce, OwnedByOneSlot, OwnersLive, Slots
  <1>7. NothingLost'
    <2> SUFFICES ASSUME NEW kept \in Entries, kept \notin fresh', kept \notin released'
                 PROVE  \E slot \in Slots : data'[slot] = kept
      BY DEF NothingLost, Slots
    <2>1. PICK slot \in Slots : data[slot] = kept
      BY <1>1, <1>2 DEF EntriesOwnedOnce, NothingLost
    <2>2. slot # current
      BY <1>1, <1>2, <2>1
    <2>3. CASE slot = before
      BY <1>1, <1>4, <2>1, <2>3
    <2>4. CASE slot # before
      BY <1>4, <2>1, <2>2, <2>4
    <2> QED BY <2>3, <2>4
  <1>8. HollowInLoop'
    BY <1>1, <1>3, <1>4 DEF EntriesOwnedOnce, HollowInLoop, Slots
  <1> QED BY <1>5, <1>6, <1>7, <1>8 DEF EntriesOwnedOnce

\* resize releases what it blanks.
LEMMA ResizeOwned ==
  ASSUME TypeOK, EntriesOwnedOnce, resize
  PROVE  EntriesOwnedOnce'
  <1> DEFINE filled == size..(request.place - 1)
  <1>1. /\ \A slot \in Slots : data'[slot] = IF slot \in filled THEN Blank ELSE data[slot]
        /\ released' = released \cup ({data[slot] : slot \in filled} \cap Entries)
        /\ UNCHANGED <<inserting, current, fresh>>
    BY DEF resize, Releases, loop
  <1>2. filled \subseteq Slots
    BY CallArguments, VectorAssumption DEF TypeOK, resize, Slots
  <1> HIDE DEF filled
  <1>3. OwnedByOneSlot' /\ HollowInLoop'
    BY <1>1, <1>2, VectorAssumption DEF EntriesOwnedOnce, OwnedByOneSlot, HollowInLoop, Slots
  <1>4. OwnersLive'
    BY <1>1, <1>2, VectorAssumption DEF EntriesOwnedOnce, OwnedByOneSlot, OwnersLive, Slots
  <1>5. NothingLost'
    BY <1>1, <1>2, VectorAssumption DEF EntriesOwnedOnce, NothingLost, Slots
  <1> QED BY <1>3, <1>4, <1>5 DEF EntriesOwnedOnce

\* Every operation, and every step of insertImpl, leaves each entry one owner.
LEMMA NextOwned == TypeOK /\ EntriesOwnedOnce /\ [Next]_vars => EntriesOwnedOnce'
  <1> SUFFICES ASSUME TypeOK, EntriesOwnedOnce, [Next]_vars PROVE EntriesOwnedOnce'
    OBVIOUS
  <1>1. CASE emplace_back
    <2>1. size \in Slots /\ request.value \in fresh /\ request.value \in Entries
      BY <1>1, CallArguments, VectorAssumption DEF emplace_back, Slots
    <2>2. inserting = FALSE /\ inserting' = FALSE
      BY <1>1, OtherCalls DEF emplace_back, Inserts, Called, loop
    <2> QED BY <1>1, <2>1, <2>2, Overwriting DEF emplace_back
  <1>2. CASE assign
    <2>1. request.place \in Slots /\ request.value \in fresh /\ request.value \in Entries
      BY <1>2, CallArguments DEF assign
    <2>2. inserting = FALSE /\ inserting' = FALSE
      BY <1>2, OtherCalls DEF assign, Inserts, Called, loop
    <2> QED BY <1>2, <2>1, <2>2, Overwriting DEF assign
  <1>3. CASE place
    <2>1. index \in Slots /\ request.value \in fresh /\ request.value \in Entries
      BY <1>3, CallArguments, VectorAssumption DEF TypeOK, place, Slots
    <2> QED BY <1>3, <2>1, Overwriting DEF place
  <1>4. CASE emplaceRefused \/ insertRefused \/ resizeRefused
    BY <1>4, RefusalOwned DEF emplaceRefused, insertRefused, resizeRefused
  <1>5. CASE shift
    BY <1>5, ShiftOwned
  <1>6. CASE resize
    BY <1>6, ResizeOwned
  <1>7. CASE insert
    <2>1. /\ UNCHANGED <<data, fresh, released>> /\ inserting' = TRUE
          /\ \A slot \in Slots : data[slot] # Hollow
      BY <1>7 DEF insert, EntriesOwnedOnce, HollowInLoop
    <2> QED BY <2>1
            DEF EntriesOwnedOnce, OwnedByOneSlot, OwnersLive, NothingLost, HollowInLoop, Slots
  <1>8. CASE call \/ clear \/ UNCHANGED vars
    <2>1. UNCHANGED <<data, inserting, current, fresh, released>>
      BY <1>8 DEF call, clear, loop, vars
    <2> QED BY <2>1
            DEF EntriesOwnedOnce, OwnedByOneSlot, OwnersLive, NothingLost, HollowInLoop, Slots
  <1> QED BY <1>1, <1>2, <1>3, <1>4, <1>5, <1>6, <1>7, <1>8 DEF Next

\* Whatever is put in, overwritten, shifted, cleared and resized, an entry is
\* in one place or released, and none that was released can be reached.
THEOREM EntriesHaveOneOwner == Spec => []EntriesOwnedOnce
  <1>1. Init => TypeOK /\ EntriesOwnedOnce
    BY InitTypeOK, InitOwned
  <1>2. TypeOK /\ EntriesOwnedOnce /\ [Next]_vars => (TypeOK /\ EntriesOwnedOnce)'
    BY NextTypeOK, NextOwned
  <1> QED BY <1>1, <1>2, PTL DEF Spec

------------------------------------------------------------------------------
\* The entries of the sequence after a step, one by one.
LEMMA ContentOf ==
  /\ DOMAIN Content = 1..size
  /\ \A i \in 1..size : Content[i] = data[IF inserting /\ i > current THEN i ELSE i - 1]
  BY DEF Content

\* Filling the place after `position` entries puts the entry behind them.
LEMMA InsertedAt ==
  ASSUME TypeOK, size < Capacity, NEW entry,
         NEW position \in 0..size,
         inserting => position = current, ~inserting => position = size,
         data' = [data EXCEPT ![position] = entry],
         size' = size + 1, inserting' = FALSE
  PROVE  Contract!Insert(position, entry)
  <1>1. \A slot \in Slots : data'[slot] = IF slot = position THEN entry ELSE data[slot]
    BY DEF TypeOK
  <1>2. Content' = [i \in 1..(size + 1) |-> data'[i - 1]]
    BY DEF Content
  <1>3. ASSUME NEW i \in 1..(size + 1)
        PROVE  data'[i - 1] = IF i <= position THEN Content[i]
                              ELSE IF i = position + 1 THEN entry ELSE Content[i - 1]
    <2>1. i - 1 \in Slots /\ size \in Nat /\ position \in Nat
      BY VectorAssumption DEF TypeOK, Slots
    <2>2. CASE i <= position
      BY <1>1, <2>1, <2>2, ContentOf DEF TypeOK
    <2>3. CASE i = position + 1
      BY <1>1, <2>1, <2>3
    <2>4. CASE i > position + 1
      <3>1. inserting /\ i - 1 > current /\ i - 1 \in 1..size
        BY <2>1, <2>4 DEF TypeOK
      <3> QED BY <1>1, <2>1, <2>4, <3>1, ContentOf
    <2> QED BY <2>1, <2>2, <2>3, <2>4
  <1>4. Content' = [i \in 1..(size + 1) |->
                      IF i <= position THEN Content[i]
                      ELSE IF i = position + 1 THEN entry ELSE Content[i - 1]]
    BY <1>2, <1>3
  <1> QED BY <1>4 DEF Contract!Insert

\* A step of the loop moves an entry to where the sequence expects it.
LEMMA ShiftKeepsContent ==
  ASSUME TypeOK, shift
  PROVE  UNCHANGED <<size, Content, request, outcome>>
  <1>1. /\ current \in Slots /\ current - 1 \in Slots /\ size \in Slots
        /\ inserting /\ inserting' /\ current' = current - 1 /\ size' = size
    BY CallArguments, VectorAssumption DEF TypeOK, shift, Slots
  <1>2. \A slot \in Slots : data'[slot] = IF slot = current THEN data[current - 1]
                                         ELSE IF slot = current - 1 THEN Hollow ELSE data[slot]
    BY <1>1 DEF TypeOK, shift, Slots
  <1>3. Content' = [i \in 1..size |-> data'[IF i > current - 1 THEN i ELSE i - 1]]
    BY <1>1 DEF Content
  <1>4. Content = [i \in 1..size |-> data[IF i > current THEN i ELSE i - 1]]
    BY <1>1 DEF Content
  <1>5. ASSUME NEW i \in 1..size
        PROVE  data'[IF i > current - 1 THEN i ELSE i - 1]
               = data[IF i > current THEN i ELSE i - 1]
    <2>1. i \in Slots /\ i - 1 \in Slots
      BY <1>1, VectorAssumption DEF Slots
    <2>2. CASE i = current
      BY <1>1, <1>2, <2>1, <2>2 DEF Slots
    <2>3. CASE i # current
      BY <1>1, <1>2, <2>1, <2>3 DEF Slots
    <2> QED BY <2>2, <2>3
  <1> QED BY <1>1, <1>3, <1>4, <1>5 DEF shift

\* While no insertion runs the sequence is what the slots below size hold.
LEMMA IdleContent ==
  /\ ~inserting => Content = [i \in 1..size |-> data[i - 1]]
  /\ ~inserting' => Content' = [i \in 1..size' |-> data'[i - 1]]
  BY DEF Content

\* A new size keeps what is below it and fills up with Blank.
LEMMA Resized ==
  ASSUME TypeOK, NEW newSize \in 0..Capacity, ~inserting, ~inserting',
         \A slot \in Slots : data'[slot] = IF slot \in size..(newSize - 1) THEN Blank
                                                                         ELSE data[slot],
         size' = newSize
  PROVE  Contract!Resize(newSize)
  <1>1. ASSUME NEW i \in 1..newSize
        PROVE  data'[i - 1] = IF i <= size THEN data[i - 1] ELSE Blank
    BY VectorAssumption DEF TypeOK, Slots
  <1>2. Content' = [i \in 1..newSize |-> IF i <= size THEN Content[i] ELSE Blank]
    <2>1. \A i \in 1..newSize : i <= size => Content[i] = data[i - 1]
      BY IdleContent, VectorAssumption DEF TypeOK
    <2> QED BY <1>1, <2>1, IdleContent
  <1> QED BY <1>2 DEF Contract!Resize

\* Assigning to a slot sets the entry at that place.
LEMMA Assigned ==
  ASSUME TypeOK, assign
  PROVE  Contract!Assign(request.place, request.value)
  <1> DEFINE slot == request.place
             entry == request.value
  <1>1. inserting = FALSE /\ inserting' = FALSE /\ slot \in Slots /\ slot \in 0..(size - 1)
    BY CallArguments, OtherCalls DEF assign, Inserts, Called, loop
  <1>2. /\ slot + 1 \in 1..size /\ size' = size /\ size \in 0..Capacity
        /\ \A other \in Slots : data'[other] = IF other = slot THEN entry ELSE data[other]
    BY <1>1, VectorAssumption DEF TypeOK, assign, Slots
  <1> HIDE DEF slot, entry
  <1>3. ASSUME NEW i \in 1..size
        PROVE  data'[i - 1] = IF i = slot + 1 THEN entry ELSE data[i - 1]
    BY <1>1, <1>2, <1>3, VectorAssumption DEF Slots
  <1>4. Content' = [Content EXCEPT ![slot + 1] = entry]
    BY <1>1, <1>2, <1>3, IdleContent
  <1> QED BY <1>2, <1>4 DEF Contract!Assign, slot, entry

\* The names of the calls are the contract's.
LEMMA SameCalls ==
  /\ Contract!None = None
  /\ \A values, length : Contract!Calls(values, length) = Calls(values, length)
  BY DEF Contract!None, None, Contract!Calls, Calls, Contract!Call, Call

\* An operation that is carried out is answered with ok.
LEMMA CarriedOut ==
  ASSUME TypeOK, Return, request # None, Contract!Verdict(request) = "ok",
         Contract!CarryOut(request)
  PROVE  Contract!Answer
  BY SameCalls DEF Return, Contract!Answer

\* A refusal is answered with its error and changes nothing.
LEMMA Refused ==
  ASSUME TypeOK, ~inserting, NEW error, Throw(error), request # None,
         Contract!Verdict(request) = error, error # "ok"
  PROVE  Contract!Answer
  <1>1. request' = None /\ outcome' = error /\ UNCHANGED <<data, size, inserting, current>>
    BY DEF Throw, loop
  <1>2. UNCHANGED <<size, Content>>
    BY <1>1 DEF Content
  <1> QED BY <1>1, <1>2, SameCalls DEF Contract!Answer

\* A call that runs is one of those the contract knows.
LEMMA Requested ==
  ASSUME TypeOK, NEW operation \in {"emplace_back", "push_back", "insert", "assign", "resize", "clear"},
         Called(operation)
  PROVE  request # None
  BY DEF Called, None, Call

\* The initial vector is the empty sequence.
LEMMA InitSequence == Init => Contract!Init
  BY SameCalls DEF Init, Contract!Init, Content

\* Entries that are added find room, at their place.
LEMMA AdditionAnswers ==
  ASSUME TypeOK, emplace_back \/ place
  PROVE  Contract!Answer
  <1>1. CASE emplace_back
    <2>1. /\ inserting = FALSE /\ inserting' = FALSE /\ size < Capacity /\ size \in 0..size
          /\ data' = [data EXCEPT ![size] = request.value] /\ size' = size + 1
      BY <1>1, OtherCalls, CallArguments DEF emplace_back, Inserts, Called, loop
    <2>2. Contract!Insert(size, request.value)
      BY <2>1, InsertedAt
    <2>3. Contract!Verdict(request) = "ok" /\ Contract!CarryOut(request)
      BY <1>1, <2>1, <2>2
      DEF emplace_back, Called, Contract!Verdict, Contract!Adds, Contract!CarryOut
    <2> QED BY <1>1, <2>3, Requested, CarriedOut DEF emplace_back
  <1>2. CASE place
    <2>1. /\ inserting /\ Inserts /\ index \in 0..size /\ size < Capacity /\ size \in Nat
          /\ index = current
      BY <1>2, CallArguments DEF TypeOK, place
    <2>2. Contract!Insert(index, request.value)
      BY <1>2, <2>1, InsertedAt DEF place
    <2>3. Contract!Verdict(request) = "ok" /\ Contract!CarryOut(request)
      BY <2>1, <2>2
      DEF Inserts, Called, index, Contract!Verdict, Contract!Adds, Contract!CarryOut
    <2>4. request # None
      BY <2>1, Requested DEF Inserts
    <2> QED BY <1>2, <2>3, <2>4, CarriedOut DEF place
  <1> QED BY <1>1, <1>2

\* So do changes of the size and of an entry.
LEMMA ChangeAnswers ==
  ASSUME TypeOK, resize \/ clear \/ assign
  PROVE  Contract!Answer
  <1>1. inserting = FALSE /\ inserting' = FALSE
    BY OtherCalls DEF resize, clear, assign, Inserts, Called, loop
  <1>2. CASE resize
    <2>1. request.place \in 0..Capacity
      BY <1>2, CallArguments, VectorAssumption DEF resize
    <2>2. Contract!Resize(request.place)
      BY <1>1, <1>2, <2>1, Resized DEF resize
    <2>3. Contract!Verdict(request) = "ok" /\ Contract!CarryOut(request)
      BY <1>2, <2>1, <2>2, VectorAssumption
      DEF resize, Called, Contract!Verdict, Contract!Adds, Contract!CarryOut
    <2> QED BY <1>2, <2>3, Requested, CarriedOut DEF resize
  <1>3. CASE clear
    <2>1. /\ 0 \in 0..Capacity /\ size' = 0
          /\ \A slot \in Slots : slot \notin size..(0 - 1) /\ data'[slot] = data[slot]
      BY <1>3, VectorAssumption DEF TypeOK, clear
    <2>2. Contract!Resize(0)
      BY <1>1, <2>1, Resized
    <2>3. Contract!Verdict(request) = "ok" /\ Contract!CarryOut(request)
      BY <1>3, <2>2 DEF clear, Called, Contract!Verdict, Contract!Adds, Contract!CarryOut
    <2> QED BY <1>3, <2>3, Requested, CarriedOut DEF clear
  <1>4. CASE assign
    <2>1. Contract!Verdict(request) = "ok" /\ Contract!CarryOut(request)
      BY <1>4, Assigned
      DEF assign, Called, Contract!Verdict, Contract!Adds, Contract!CarryOut
    <2> QED BY <1>4, <2>1, Requested, CarriedOut DEF assign
  <1> QED BY <1>2, <1>3, <1>4

\* What throws has no room, or no such place.
LEMMA RefusalAnswers ==
  ASSUME TypeOK, emplaceRefused \/ insertRefused \/ resizeRefused
  PROVE  Contract!Answer
  <1>1. inserting = FALSE
    BY OtherCalls DEF emplaceRefused, insertRefused, resizeRefused, Inserts, Called, TypeOK
  <1>2. size \in Nat /\ Capacity \in Nat /\ size <= Capacity
    BY VectorAssumption DEF TypeOK
  <1>3. CASE emplaceRefused
    <2>1. Contract!Verdict(request) = "runtime_error"
      BY <1>2, <1>3 DEF emplaceRefused, Called, Contract!Verdict, Contract!Adds
    <2> QED BY <1>1, <1>3, <2>1, Requested, Refused DEF emplaceRefused
  <1>4. CASE insertRefused
    <2>1. Inserts /\ request # None
      BY <1>4, Requested DEF insertRefused, Inserts
    <2>2. CASE index > size /\ Throw("out_of_range")
      <3>1. Contract!Verdict(request) = "out_of_range"
        BY <1>2, <2>1, <2>2 DEF Inserts, index, Called, Contract!Verdict
      <3> QED BY <1>1, <2>1, <2>2, <3>1, Refused
    <2>3. CASE index <= size /\ size >= Capacity /\ Throw("runtime_error")
      <3>1. Contract!Verdict(request) = "runtime_error"
        BY <1>2, <2>1, <2>3, CallArguments
        DEF Inserts, index, Called, Contract!Verdict, Contract!Adds
      <3> QED BY <1>1, <2>1, <2>3, <3>1, Refused
    <2> QED BY <1>4, <2>2, <2>3 DEF insertRefused
  <1>5. CASE resizeRefused
    <2>1. Contract!Verdict(request) = "runtime_error"
      BY <1>5 DEF resizeRefused, Called, Contract!Verdict, Contract!Adds
    <2> QED BY <1>1, <1>5, <2>1, Requested, Refused DEF resizeRefused
  <1> QED BY <1>3, <1>4, <1>5

\* Every step is a step of the sequence or changes nothing of it.
LEMMA StepOfSequence == TypeOK /\ [Next]_vars => [Contract!Next]_(Contract!vars)
  <1> SUFFICES ASSUME TypeOK, [Next]_vars
               PROVE  Contract!Next \/ UNCHANGED <<size, Content, request, outcome>>
    BY DEF Contract!vars
  <1>1. CASE emplace_back \/ place \/ resize \/ clear \/ assign
             \/ emplaceRefused \/ insertRefused \/ resizeRefused
    BY <1>1, AdditionAnswers, ChangeAnswers, RefusalAnswers DEF Contract!Next
  <1>2. CASE call
    <2>1. request' \in Calls(Entries, size)
      BY <1>2 DEF call, TypeOK, Calls
    <2>2. UNCHANGED <<size, Content, outcome>>
      BY <1>2 DEF call, loop, Content
    <2>3. Contract!Ask
      BY <1>2, <2>1, <2>2, SameCalls DEF call, Contract!Ask
    <2> QED BY <2>3 DEF Contract!Next
  <1>3. CASE shift
    BY <1>3, ShiftKeepsContent
  <1>4. CASE insert
    <2>1. /\ ~inserting /\ inserting' /\ UNCHANGED <<data, size, request, outcome>>
          /\ current' = size /\ size \in Nat
      BY <1>4 DEF TypeOK, insert
    <2>2. \A i \in 1..size : ~(i > size)
      BY <2>1
    <2> QED BY <2>1, <2>2 DEF Content
  <1>5. CASE UNCHANGED vars
    BY <1>5 DEF vars, Content
  <1> QED BY <1>1, <1>2, <1>3, <1>4, <1>5 DEF Next

\* A FixedVector of any capacity is a bounded sequence, although its slots keep
\* what older operations left and an insertion moves them one by one: every
\* call is answered with what its operation makes of the sequence, or with the
\* error for a place behind the end or for want of room.
THEOREM FixedVectorIsSequence == Spec => ImplementsSequence
  <1>1. Spec => []TypeOK
    BY VectorTypeCorrect
  <1> QED BY <1>1, InitSequence, StepOfSequence, PTL
          DEF Spec, ImplementsSequence, Contract!Spec

==============================================================================
