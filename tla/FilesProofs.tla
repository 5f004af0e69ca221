----------------------------- MODULE FilesProofs -----------------------------
(***************************************************************************)
(* FileSource implements Source, for every file, every sequence of calls   *)
(* and every pattern of read errors; and for every device, every text and  *)
(* every order of the calls of Files, what a writer was given is in the    *)
(* file while it fits and no writer has thrown, what fromFile returns is   *)
(* the file, and FileSource and FileDestination still implement their      *)
(* abstractions when they share the file with the others.                  *)
(***************************************************************************)
EXTENDS Files, SequenceTheorems, TLAPS

------------------------------------------------------------------------------
(* FileSource alone.  A step of it is the same call of Source because the  *)
(* byte a call returns is the one after Position, which holds only when    *)
(* the remembered byte and the pushed back byte agree with the file:       *)
(* SourceInv.                                                              *)

SourceInv == TypeOK /\ RememberedIsNext

LEMMA InitEstablishes == Init => SourceInv
<1> SUFFICES ASSUME Init PROVE SourceInv OBVIOUS
<1>1. file \in Seq(Bytes)
  <2>1. PICK m \in 0..MaxLength : file \in [1..m -> Bytes]
    BY DEF Init, BoundedSeq, SeqOf
  <2> QED BY <2>1, FileAssumption
<1>2. Len(file) \in Nat BY <1>1
<1>3. TypeOK
  <2>1. offset \in 0..Len(file) BY <1>2 DEF Init
  <2>2. source \in BOOLEAN /\ hasPeek \in BOOLEAN BY DEF Init
  <2>3. pushed = EOF /\ currentChar = EOF BY DEF Init
  <2> QED BY <1>1, <2>1, <2>2, <2>3 DEF TypeOK
<1>4. RememberedIsNext BY DEF Init, RememberedIsNext
<1> QED BY <1>3, <1>4 DEF SourceInv

\* What ensurePeek finds: the byte after Position, or the end.
LEMMA PeekFindsNext ==
    ASSUME SourceInv, NEW char \in Bytes \cup {EOF}, EnsurePeek(char)
    PROVE  /\ Position \in 0..Len(file)
           /\ offset' \in 0..Len(file)
           /\ char # EOF => /\ source
                            /\ Position < Len(file) /\ char = file[Position + 1]
                            /\ offset' = Position + 1
                            /\ ~EndedEarly
           /\ char = EOF => /\ offset' = offset
                            /\ ~source \/ pushed = EOF
                            /\ EndedEarly \/ ReadErrors \/ ~source \/ Position = Len(file)
<1> USE FileAssumption DEF SourceInv, TypeOK, RememberedIsNext, EOF
<1>1. EOF \notin Bytes OBVIOUS
<1>2. Len(file) \in Nat /\ offset \in Nat /\ offset <= Len(file) OBVIOUS
<1>3. Position \in 0..Len(file) BY <1>2 DEF Position
<1>4. CASE ~source
  <2>1. char = EOF /\ offset' = offset BY <1>4 DEF EnsurePeek
  <2> QED BY <2>1, <1>2, <1>3, <1>4, <1>1
<1>5. CASE source /\ hasPeek
  <2>1. char = currentChar /\ offset' = offset /\ pushed = char BY <1>5 DEF EnsurePeek
  <2>2. CASE char = EOF BY <2>1, <2>2, <1>2, <1>3, <1>5 DEF Position, EndedEarly
  <2>3. CASE char # EOF BY <2>1, <2>3, <1>2, <1>3, <1>5 DEF Position, EndedEarly
  <2> QED BY <2>2, <2>3
<1>6. CASE source /\ ~hasPeek
  <2>1. pushed = EOF /\ Position = offset BY <1>6 DEF Position
  <2>2. /\ char \in Readable
        /\ offset' = IF char # EOF THEN offset + 1 ELSE offset
    BY <2>1, <1>6 DEF EnsurePeek
  <2>3. CASE char = EOF BY <2>1, <2>2, <2>3, <1>1, <1>2, <1>3, <1>6 DEF Readable, EndedEarly
  <2>4. CASE char # EOF BY <2>1, <2>2, <2>4, <1>1, <1>2, <1>3, <1>6 DEF Readable, EndedEarly
  <2> QED BY <2>3, <2>4
<1> QED BY <1>4, <1>5, <1>6

\* A look at the input is one that Source allows, and agrees on what is left.
LEMMA PeekIsLook ==
    ASSUME SourceInv, NEW char \in Bytes \cup {EOF}, Peeked(char)
    PROVE  /\ SourceInv'
           /\ Position' = Position
           /\ Contract!Looked
           /\ char # EOF <=> Contract!Left
           /\ char # EOF => char = file[Position + 1]
<1> USE FileAssumption DEF SourceInv, EOF
<1>1. EOF \notin Bytes OBVIOUS
<1>2. EnsurePeek(char) BY DEF Peeked
<1>3. /\ Position \in 0..Len(file)
      /\ offset' \in 0..Len(file)
      /\ char # EOF => /\ source
                       /\ Position < Len(file) /\ char = file[Position + 1]
                       /\ offset' = Position + 1
                       /\ ~EndedEarly
      /\ char = EOF => /\ offset' = offset
                       /\ ~source \/ pushed = EOF
                       /\ EndedEarly \/ ReadErrors \/ ~source \/ Position = Len(file)
  BY <1>2, PeekFindsNext
<1>4. file' = file /\ source' = source /\ currentChar' = char /\ hasPeek' = source
  BY DEF Peeked
<1>5. Len(file) \in Nat /\ source \in BOOLEAN BY DEF TypeOK
<1>6. source => pushed' = char
  BY <1>2 DEF Peeked, EnsurePeek, RememberedIsNext
<1>7. ~source => pushed' = pushed /\ char = EOF /\ offset' = offset
  BY <1>2 DEF Peeked, EnsurePeek, RememberedIsNext
<1>8. TypeOK' BY <1>3, <1>4, <1>6, <1>7 DEF TypeOK
<1>9. Position' = Position
  <2>1. offset \in Int /\ Position \in Int /\ offset' \in Int BY <1>3, <1>5 DEF TypeOK
  <2>2. CASE ~source BY <2>2, <1>7 DEF Position
  <2>3. CASE source /\ char = EOF BY <2>3, <1>3, <1>6 DEF Position
  <2>4. CASE source /\ char # EOF
    <3>1. pushed' # EOF /\ offset' = Position + 1 BY <2>4, <1>3, <1>6
    <3>2. Position' = offset' - 1 BY <3>1 DEF Position
    <3> HIDE DEF Position
    <3> QED BY <2>1, <3>1, <3>2
  <2> QED BY <2>2, <2>3, <2>4, <1>5
<1>10. RememberedIsNext'
  <2>1. CASE source BY <2>1, <1>1, <1>3, <1>4, <1>5, <1>6 DEF RememberedIsNext, TypeOK
  <2>2. CASE ~source BY <2>2, <1>4, <1>7 DEF RememberedIsNext
  <2> QED BY <2>1, <2>2, <1>5
<1>11. EndedEarly' = (source /\ char = EOF /\ Position < Len(file))
  BY <1>4, <1>9, <1>5 DEF EndedEarly
<1>12. EndedEarly' \in {EndedEarly} \cup (IF ReadErrors THEN {TRUE} ELSE {})
  <2>1. EndedEarly' \in BOOLEAN /\ EndedEarly \in BOOLEAN BY <1>11 DEF EndedEarly
  <2>2. EndedEarly => EndedEarly'
    <3> SUFFICES ASSUME EndedEarly PROVE EndedEarly' OBVIOUS
    <3>1. source /\ Position < Len(file) BY DEF EndedEarly
    <3>2. char = EOF BY <1>3
    <3> QED BY <3>1, <3>2, <1>11
  <2>3. EndedEarly' => EndedEarly \/ ReadErrors BY <1>3, <1>5, <1>11
  <2> QED BY <2>1, <2>2, <2>3
<1>13. Contract!Looked BY <1>12, <1>4 DEF Contract!Looked
<1>14. char # EOF <=> Contract!Left
  BY <1>3, <1>4, <1>5, <1>9, <1>11 DEF Contract!Left
<1> QED BY <1>3, <1>8, <1>9, <1>10, <1>13, <1>14

------------------------------------------------------------------------------
(* The calls. *)

LEMMA CurrentIsCurrent == SourceInv /\ current => SourceInv' /\ Contract!current
<1> SUFFICES ASSUME SourceInv, current PROVE SourceInv' /\ Contract!current OBVIOUS
<1>1. PICK char \in Bytes \cup {EOF} :
          /\ Peeked(char)
          /\ answer' = <<"current", IF char # EOF THEN AsChar(char) ELSE EOF>>
  BY DEF current
<1>2. /\ SourceInv' /\ Position' = Position /\ Contract!Looked
      /\ char # EOF <=> Contract!Left
      /\ char # EOF => char = file[Position + 1]
  BY <1>1, PeekIsLook
<1>3. answer' = <<"current", IF Contract!Left THEN AsChar(file[Position + 1]) ELSE EOF>>
  BY <1>1, <1>2
<1> QED BY <1>2, <1>3
        DEF Contract!current, AsChar, Contract!AsChar, EOF, Contract!EOF

LEMMA MoreIsMore == SourceInv /\ more => SourceInv' /\ Contract!more
<1> SUFFICES ASSUME SourceInv, more PROVE SourceInv' /\ Contract!more OBVIOUS
<1>1. PICK char \in Bytes \cup {EOF} : Peeked(char) /\ answer' = <<"more", char # EOF>>
  BY DEF more
<1>2. /\ SourceInv' /\ Position' = Position /\ Contract!Looked
      /\ char # EOF <=> Contract!Left
  BY <1>1, PeekIsLook
<1>3. (char # EOF) = Contract!Left BY <1>2 DEF Contract!Left
<1> QED BY <1>1, <1>2, <1>3 DEF Contract!more

LEMMA NextIsNext == SourceInv /\ next => SourceInv' /\ Contract!next
<1> SUFFICES ASSUME SourceInv, next PROVE SourceInv' /\ Contract!next OBVIOUS
<1> USE FileAssumption
<1>1. EOF \notin Bytes BY DEF EOF
<1>2. CASE Peeked(EOF) /\ answer' = <<"next", "Error">>
  <2>1. /\ SourceInv' /\ Position' = Position /\ Contract!Looked /\ ~Contract!Left
    BY <1>2, PeekIsLook
  <2> QED BY <2>1, <1>2 DEF Contract!next
<1>3. CASE \E char \in Bytes :
               /\ EnsurePeek(char)
               /\ pushed' = EOF
               /\ currentChar' = char
               /\ hasPeek' = FALSE
               /\ answer' = <<"next", "ok">>
               /\ UNCHANGED <<file, source>>
  <2>1. PICK char \in Bytes : EnsurePeek(char) BY <1>3
  <2>2. /\ source /\ Position \in 0..Len(file) /\ Position < Len(file)
        /\ offset' = Position + 1 /\ ~EndedEarly /\ offset' \in 0..Len(file)
    BY <2>1, <1>1, PeekFindsNext
  <2>3. currentChar' \in Bytes BY <1>3
  <2>4. TypeOK' BY <1>3, <2>2, <2>3 DEF SourceInv, TypeOK
  <2>5. RememberedIsNext' BY <1>3, <2>2 DEF RememberedIsNext
  <2>6. Position' = Position + 1 BY <1>3, <2>2 DEF Position
  <2>7. EndedEarly' = FALSE BY <1>3 DEF EndedEarly
  <2>8. Contract!Looked
    <3>1. EndedEarly = FALSE BY <2>2 DEF EndedEarly
    <3>2. EndedEarly' \in {EndedEarly} BY <3>1, <2>7
    <3>3. UNCHANGED file /\ (~source)' = ~source BY <1>3
    <3> QED BY <3>2, <3>3 DEF Contract!Looked
  <2>9. Contract!Left BY <2>2, <2>7, <1>3 DEF Contract!Left
  <2> QED BY <1>3, <2>4, <2>5, <2>6, <2>8, <2>9 DEF Contract!next, SourceInv
<1> QED BY <1>2, <1>3 DEF next

LEMMA ResetIsReset == SourceInv /\ reset => SourceInv' /\ Contract!reset
<1> SUFFICES ASSUME SourceInv, reset PROVE SourceInv' /\ Contract!reset OBVIOUS
<1> USE DEF reset
<1>1. CASE source
  <2>1. Len(file) \in Nat BY DEF SourceInv, TypeOK
  <2>2. offset' \in 0..Len(file) BY <1>1, <2>1
  <2>3. TypeOK' BY <1>1, <2>2 DEF SourceInv, TypeOK
  <2>4. RememberedIsNext' BY <1>1 DEF RememberedIsNext
  <2>5. Position' = 0 /\ EndedEarly' = FALSE BY <1>1 DEF Position, EndedEarly
  <2> QED BY <1>1, <2>3, <2>4, <2>5 DEF Contract!reset, SourceInv
<1>2. CASE ~source
  <2>1. TypeOK' BY <1>2 DEF SourceInv, TypeOK
  <2>2. RememberedIsNext' BY <1>2 DEF RememberedIsNext, SourceInv
  <2>3. Position' = Position /\ EndedEarly' = FALSE BY <1>2 DEF Position, EndedEarly
  <2> QED BY <1>2, <2>1, <2>2, <2>3 DEF Contract!reset, SourceInv
<1> QED BY <1>1, <1>2

LEMMA CloseIsClose == SourceInv /\ close => SourceInv' /\ Contract!close
<1> SUFFICES ASSUME SourceInv, close PROVE SourceInv' /\ Contract!close OBVIOUS
<1> USE DEF close
<1>1. TypeOK'
  <2>1. Len(file) \in Nat BY DEF SourceInv, TypeOK
  <2>2. offset' \in 0..Len(file) BY <2>1
  <2> QED BY <2>2 DEF SourceInv, TypeOK
<1>2. RememberedIsNext' BY DEF RememberedIsNext, SourceInv
<1>3. Position' = 0 /\ EndedEarly' = FALSE BY DEF Position, EndedEarly
<1> QED BY <1>1, <1>2, <1>3 DEF Contract!close, SourceInv

LEMMA ConstructIsConstruct == SourceInv /\ construct => SourceInv' /\ Contract!construct
<1> SUFFICES ASSUME SourceInv, construct PROVE SourceInv' /\ Contract!construct OBVIOUS
<1> USE DEF construct
<1>1. Len(file) \in Nat BY DEF SourceInv, TypeOK
<1>2. offset' \in 0..Len(file) BY <1>1
<1>3. TypeOK' BY <1>2 DEF SourceInv, TypeOK
<1>4. RememberedIsNext' BY DEF RememberedIsNext
<1>5. Position = 0 /\ Position' = 0 BY DEF Position, SourceInv, RememberedIsNext
<1>6. EndedEarly = FALSE /\ EndedEarly' = FALSE BY DEF EndedEarly
<1> QED BY <1>3, <1>4, <1>5, <1>6 DEF Contract!construct, SourceInv

LEMMA SourceStep == SourceInv /\ [Next]_vars => SourceInv' /\ [Contract!Next]_(Contract!vars)
<1>1. ASSUME SourceInv, UNCHANGED vars PROVE SourceInv' /\ UNCHANGED Contract!vars
  BY <1>1 DEF vars, Contract!vars, SourceInv, TypeOK, RememberedIsNext, Position, EndedEarly
<1> QED BY <1>1, CurrentIsCurrent, MoreIsMore, NextIsNext, ResetIsReset, CloseIsClose,
        ConstructIsConstruct
        DEF Next, Call, Contract!Next

\* The members of a FileSource keep their types for every file and every
\* sequence of calls.
THEOREM SourceTypeCorrect == Spec => []TypeOK
<1>1. SourceInv /\ [Next]_vars => SourceInv' BY SourceStep
<1> QED BY InitEstablishes, <1>1, PTL DEF Spec, SourceInv

\* What ensurePeek remembers is what the FILE is about to deliver.
THEOREM PeekStaysTrue == Spec => []RememberedIsNext
<1>1. SourceInv /\ [Next]_vars => SourceInv' BY SourceStep
<1> QED BY InitEstablishes, <1>1, PTL DEF Spec, SourceInv

\* A FileSource is the source a parser expects: current, more, next, reset
\* and close answer as they would for the bytes in memory.
THEOREM FileSourceIsSource == Spec => ImplementsSource
<1>1. SourceInv /\ [Next]_vars => SourceInv' BY SourceStep
<1>2. Init => Contract!Init BY DEF Init, Contract!Init, Position, EndedEarly
<1>3. SourceInv /\ [Next]_vars => [Contract!Next]_(Contract!vars) BY SourceStep
<1> QED BY InitEstablishes, <1>1, <1>2, <1>3, PTL
        DEF Spec, ImplementsSource, Contract!Spec

------------------------------------------------------------------------------
(* FileSource and FileDestination on one file.  FilesInv is inductive.     *)
(* Held alone is not: that an add leaves the text in the file needs that   *)
(* meant is what was added, hence OneWriter, and that nothing was pending  *)
(* before.                                                                 *)

Kinds ==
    /\ pending \in Seq(Bytes) /\ added \in Seq(Bytes)
    /\ meant \in Seq(Bytes) /\ argument \in Seq(Bytes)
    /\ Len(file) <= Capacity
    /\ destination \in BOOLEAN /\ sure \in BOOLEAN
    /\ outcome \in {"running", "ok", "Error"}

OneWriter ==
    /\ ~destination => pending = <<>>
    /\ destination => meant = added
    /\ H!Running("toFile") => ~destination /\ ~source /\ meant = argument

Held == ~H!Running("toFile") /\ sure /\ Len(meant) <= Capacity => file = meant /\ pending = <<>>

ReadSoFar == H!Running("fromFile") =>
    position \in 0..Len(file) /\ buffer = SubSeq(file, 1, position)

FilesInv == SourceInv /\ Kinds /\ OneWriter /\ Held /\ ReadSoFar

------------------------------------------------------------------------------
\* At first the file holds what was there before.
LEMMA InitFiles == FilesInit => FilesInv
  <1> SUFFICES ASSUME FilesInit PROVE FilesInv
    OBVIOUS
  <1>1. SourceInv
    BY InitEstablishes DEF FilesInit
  <1>2. file \in Seq(Bytes)
    BY <1>1 DEF SourceInv, TypeOK
  <1>3. Len(file) <= Capacity
    <2>1. PICK m \in 0..MaxLength : file \in [1..m -> Bytes]
      BY DEF FilesInit, Init, BoundedSeq, SeqOf
    <2>2. m \in Nat /\ m <= MaxLength
      BY <2>1, FileAssumption
    <2>3. Len(file) = m
      BY <1>2, <2>1, <2>2, LenProperties
    <2> QED BY <2>2, <2>3, FilesAssumption, FileAssumption
  <1>4. <<>> \in Seq(Bytes)
    BY EmptySeq
  <1>5. /\ pending = <<>> /\ added = <<>> /\ argument = <<>> /\ meant = file
        /\ destination = FALSE /\ sure = TRUE /\ outcome = "ok"
    BY DEF FilesInit, D!Init, H!Init
  <1> QED BY <1>1, <1>2, <1>3, <1>4, <1>5
          DEF FilesInv, Kinds, OneWriter, Held, ReadSoFar, H!Running

\* What the device takes is appended to the file.
LEMMA WrittenAppends ==
  ASSUME file \in Seq(Bytes), Len(file) <= Capacity, NEW data \in Seq(Bytes), D!Written(data)
  PROVE  /\ file' \in Seq(Bytes) /\ Len(file') <= Capacity
         /\ Len(data) <= D!Room => file' = file \o data
         /\ data = <<>> => file' = file
  <1> DEFINE count == IF Len(data) < D!Room THEN Len(data) ELSE D!Room
  <1>1. /\ Len(file) \in Nat /\ Len(data) \in Nat /\ Capacity \in Nat
        /\ D!Room = Capacity - Len(file) /\ D!Room \in Nat
    BY LenProperties, FilesAssumption DEF D!Room
  <1>2. count \in 0..Len(data) /\ count <= D!Room
    BY <1>1
  <1>3. file' = file \o SubSeq(data, 1, count)
    BY DEF D!Written
  <1>4. SubSeq(data, 1, count) \in Seq(Bytes) /\ Len(SubSeq(data, 1, count)) = count
    <2>1. \A i \in 1..count : data[i] \in Bytes
      BY <1>1, <1>2, ElementOfSeq
    <2> HIDE DEF count
    <2> QED BY <1>1, <1>2, <2>1, SubSeqProperties
  <1>5. Len(data) <= D!Room => count = Len(data)
    BY <1>1
  <1> HIDE DEF count
  <1>6. file' \in Seq(Bytes) /\ Len(file') = Len(file) + count
    BY <1>3, <1>4, ConcatProperties
  <1>7. Len(data) <= D!Room => file' = file \o data
    BY <1>3, <1>5, SubSeqFull
  <1>8. data = <<>> => file' = file
    BY <1>1, <1>7, ConcatEmptySeq
  <1> QED BY <1>1, <1>2, <1>6, <1>7, <1>8

\* Without a FileSource the file may change.
LEMMA Unsourced ==
  ASSUME SourceInv, ~source, UNCHANGED sourceVars, file' \in Seq(Bytes)
  PROVE  SourceInv'
  <1>1. Len(file') \in Nat
    BY LenProperties
  <1>2. TypeOK'
    BY <1>1 DEF SourceInv, TypeOK, RememberedIsNext, sourceVars
  <1>3. RememberedIsNext'
    BY DEF SourceInv, TypeOK, RememberedIsNext, sourceVars
  <1> QED BY <1>2, <1>3 DEF SourceInv

\* With an unchanged file nothing changes for a FileSource.
LEMMA Unmoved ==
  ASSUME SourceInv, UNCHANGED <<sourceVars, file>>
  PROVE  SourceInv'
  BY DEF SourceInv, TypeOK, RememberedIsNext, sourceVars

\* A step of the FileSource changes nothing else.
LEMMA SourceSteps ==
  ASSUME FilesInv, OpenSource \/ UseSource
  PROVE  FilesInv'
  <1>1. Next /\ Sourcing
    BY DEF OpenSource, UseSource, Next
  <1>2. SourceInv'
    BY <1>1, SourceStep DEF FilesInv
  <1>3. /\ outcome # "running" /\ outcome' = "ok" /\ argument' = <<>>
        /\ UNCHANGED <<pending, destination, added, file, meant, sure>>
    BY <1>1 DEF Sourcing, H!Forgotten, writeVars, fileVars
  <1>4. <<>> \in Seq(Bytes)
    BY EmptySeq
  <1> QED BY <1>2, <1>3, <1>4 DEF FilesInv, Kinds, OneWriter, Held, ReadSoFar, H!Running

\* Whatever a FileDestination does, no helper runs and no FileSource is open.
LEMMA WritingFacts ==
  ASSUME FilesInv, Writing
  PROVE  /\ ~source /\ UNCHANGED sourceVars
         /\ outcome # "running" /\ outcome' = "ok" /\ argument' = <<>> /\ argument' \in Seq(Bytes)
         /\ ~H!Running("toFile") /\ (~H!Running("toFile"))' /\ (~H!Running("fromFile"))'
  BY EmptySeq DEF Writing, H!Forgotten, H!Running

\* Opening the file empties it.
LEMMA OpenSteps == ASSUME FilesInv, OpenDestination PROVE FilesInv'
  <1>1. /\ file' = <<>> /\ pending' = <<>> /\ added' = <<>> /\ meant' = <<>>
        /\ destination' = TRUE /\ sure' = TRUE /\ Writing
    BY DEF OpenDestination, D!construct, D!clear, D!Opened
  <1>2. file' \in Seq(Bytes) /\ Len(file') <= Capacity
    BY <1>1, EmptySeq, FilesAssumption
  <1>3. SourceInv'
    BY <1>1, <1>2, Unsourced, WritingFacts DEF FilesInv
  <1> QED BY <1>1, <1>2, <1>3, WritingFacts DEF FilesInv, Kinds, OneWriter, Held, ReadSoFar

\* An add that returns leaves its text in the file if it fits.
LEMMA AddSteps == ASSUME FilesInv, Add PROVE FilesInv'
  <1>1. PICK chunk \in Chunks : D!add(chunk)
    BY DEF Add
  <1>2. /\ destination /\ destination' = destination /\ Writing
        /\ D!Flush(pending \o chunk)
        /\ added' = added \o chunk /\ meant' = added' /\ sure' = sure
    BY <1>1 DEF Add, D!add
  <1>3. /\ chunk \in Seq(Bytes) /\ Len(chunk) \in Nat
        /\ pending \o chunk \in Seq(Bytes) /\ Len(pending \o chunk) \in Nat
        /\ added' \in Seq(Bytes) /\ Len(added) \in Nat
        /\ Len(added') = Len(added) + Len(chunk)
    BY <1>2, FilesAssumption, ConcatProperties, LenProperties DEF FilesInv, Kinds
  <1>4. /\ file \in Seq(Bytes) /\ Len(file) <= Capacity /\ Len(file) \in Nat /\ Capacity \in Nat
        /\ D!Room = Capacity - Len(file) /\ D!Room \in Nat
    BY FilesAssumption, LenProperties DEF FilesInv, Kinds, SourceInv, TypeOK, D!Room
  <1>5. /\ file' \in Seq(Bytes) /\ Len(file') <= Capacity
        /\ Len(pending \o chunk) <= D!Room => file' = file \o (pending \o chunk)
    BY <1>2, <1>3, <1>4, WrittenAppends DEF D!Flush
  <1>6. pending' \in Seq(Bytes)
    <2> DEFINE data == pending \o chunk
    <2>1. <<>> \in Seq(Bytes)
      BY EmptySeq
    <2>2. CASE Len(data) <= D!Room
      BY <1>2, <2>1, <2>2 DEF D!Flush
    <2>3. CASE ~(Len(data) <= D!Room)
      <3>1. \A i \in (D!Room + 1)..Len(data) : data[i] \in Bytes
        BY <1>3, <1>4, ElementOfSeq
      <3>2. D!Room + 1 \in Int /\ Len(data) \in Int
        BY <1>3, <1>4
      <3> HIDE DEF data
      <3>3. SubSeq(data, D!Room + 1, Len(data)) \in Seq(Bytes)
        BY <3>1, <3>2, SubSeqProperties
      <3> QED BY <1>2, <2>1, <2>3, <3>3 DEF D!Flush, data
    <2> QED BY <2>2, <2>3
  <1>7. ASSUME sure, Len(added') <= Capacity
        PROVE  file' = added' /\ pending' = <<>>
    <2>1. Len(added) <= Capacity
      BY <1>3, <1>4, <1>7
    <2>2. file = added /\ pending = <<>>
      BY <1>2, <1>7, <2>1, WritingFacts DEF FilesInv, Held, OneWriter
    <2>3. pending \o chunk = chunk
      BY <1>3, <2>2, ConcatEmptySeq
    <2>4. Len(chunk) <= D!Room
      BY <1>3, <1>4, <1>7, <2>2
    <2> QED BY <1>2, <1>5, <2>2, <2>3, <2>4 DEF D!Flush
  <1>8. SourceInv'
    BY <1>2, <1>5, Unsourced, WritingFacts DEF FilesInv
  <1> QED BY <1>2, <1>3, <1>5, <1>6, <1>7, <1>8, WritingFacts
          DEF FilesInv, Kinds, OneWriter, Held, ReadSoFar

\* An add that throws makes no promise.
LEMMA AddFailsSteps == ASSUME FilesInv, AddFails PROVE FilesInv'
  <1>1. PICK chunk \in Chunks : D!addShort(chunk)
    BY DEF AddFails
  <1>2. /\ destination /\ Writing /\ D!Written(pending \o chunk)
        /\ pending' = <<>> /\ sure' = FALSE /\ UNCHANGED <<destination, added, meant>>
    BY <1>1 DEF AddFails, D!addShort
  <1>3. pending \o chunk \in Seq(Bytes) /\ pending' \in Seq(Bytes)
    BY <1>2, FilesAssumption, ConcatProperties, EmptySeq DEF FilesInv, Kinds
  <1>4. file' \in Seq(Bytes) /\ Len(file') <= Capacity
    BY <1>2, <1>3, WrittenAppends DEF FilesInv, Kinds, SourceInv, TypeOK
  <1>5. SourceInv'
    BY <1>2, <1>4, Unsourced, WritingFacts DEF FilesInv
  <1> QED BY <1>2, <1>3, <1>4, <1>5, WritingFacts DEF FilesInv, Kinds, OneWriter, Held, ReadSoFar

\* An add to a closed destination does nothing.
LEMMA RefusedSteps == ASSUME FilesInv, AddRefused PROVE FilesInv'
  <1>1. Writing /\ UNCHANGED <<file, pending, destination, added, meant, sure>>
    BY DEF AddRefused, D!addToClosed, fileVars
  <1>2. SourceInv'
    BY <1>1, Unmoved, WritingFacts DEF FilesInv
  <1> QED BY <1>1, <1>2, WritingFacts DEF FilesInv, Kinds, OneWriter, Held, ReadSoFar

\* Closing leaves the text in the file if nothing was pending.
LEMMA CloseSteps == ASSUME FilesInv, CloseDestination \/ ClearFails PROVE FilesInv'
  <1>1. /\ Writing /\ D!Written(pending) /\ destination' = FALSE /\ pending' = <<>>
        /\ UNCHANGED <<added, meant>> /\ (sure' = sure \/ sure' = FALSE)
    BY DEF CloseDestination, ClearFails, D!close, D!clearFailed, D!Fclosed
  <1>2. /\ file' \in Seq(Bytes) /\ Len(file') <= Capacity
        /\ pending = <<>> => file' = file
    BY <1>1, WrittenAppends DEF FilesInv, Kinds, SourceInv, TypeOK
  <1>3. SourceInv'
    BY <1>1, <1>2, Unsourced, WritingFacts DEF FilesInv
  <1>4. pending' \in Seq(Bytes)
    BY <1>1, EmptySeq
  <1>5. sure' \in BOOLEAN /\ (sure' => sure)
    <2>1. sure \in BOOLEAN
      BY DEF FilesInv, Kinds
    <2>2. CASE sure' = sure
      BY <2>1, <2>2
    <2>3. CASE sure' = FALSE
      BY <2>3
    <2> QED BY <1>1, <2>2, <2>3
  <1>6. Held'
    BY <1>1, <1>2, <1>5, WritingFacts DEF FilesInv, Held
  <1> QED BY <1>1, <1>2, <1>3, <1>4, <1>5, <1>6, WritingFacts
          DEF FilesInv, Kinds, OneWriter, ReadSoFar

------------------------------------------------------------------------------
(* The helpers. *)

\* toFile empties the file or leaves everything as it is.
LEMMA StartWritingSteps == ASSUME FilesInv, StartWriting PROVE FilesInv'
  <1>1. PICK text \in Texts : H!toFile(text)
    BY DEF StartWriting
  <1>2. /\ ~destination /\ ~source /\ outcome # "running" /\ call' = "toFile"
        /\ argument' = text /\ UNCHANGED <<sourceVars, pending, destination, added>>
        /\ meant' = IF open' THEN argument' ELSE meant
        /\ sure' = (sure /\ ~open')
    BY <1>1 DEF StartWriting, Helping, H!toFile, writeVars
  <1>3. text \in Seq(Bytes) /\ <<>> \in Seq(Bytes) /\ Len(<<>>) = 0 /\ Capacity \in Nat
    BY FilesAssumption, EmptySeq
  <1>4. CASE H!End("Error") /\ UNCHANGED <<exists, file>>
    <2>1. open' = FALSE /\ outcome' = "Error" /\ meant' = meant /\ sure' = sure
      BY <1>2, <1>4 DEF H!End, FilesInv, Kinds
    <2>2. SourceInv'
      BY <1>2, <1>4, Unmoved DEF FilesInv
    <2> QED BY <1>2, <1>3, <1>4, <2>1, <2>2
            DEF FilesInv, Kinds, OneWriter, Held, ReadSoFar, H!Running
  <1>5. CASE file' = <<>> /\ open' = TRUE /\ outcome' = "running"
    <2>1. meant' = argument' /\ sure' = FALSE
      BY <1>2, <1>5
    <2>2. SourceInv'
      BY <1>2, <1>3, <1>5, Unsourced DEF FilesInv
    <2> QED BY <1>2, <1>3, <1>5, <2>1, <2>2
            DEF FilesInv, Kinds, OneWriter, Held, ReadSoFar, H!Running, sourceVars
  <1> QED BY <1>1, <1>4, <1>5 DEF H!toFile

\* A write that returns has put the text in the file if it fits.
LEMMA FinishWritingSteps == ASSUME FilesInv, FinishWriting PROVE FilesInv'
  <1>1. /\ H!Running("toFile") /\ outcome' \in {"ok", "Error"}
        /\ UNCHANGED <<sourceVars, pending, destination, added, argument, meant, call>>
        /\ sure' = (outcome' = "ok")
    BY DEF FinishWriting, H!write, H!writeShort, H!End, Helping, writeVars
  <1>2. /\ ~destination /\ ~source /\ meant = argument /\ pending = <<>>
        /\ argument \in Seq(Bytes) /\ Len(argument) \in Nat /\ Capacity \in Nat
    BY <1>1, FilesAssumption, LenProperties DEF FilesInv, OneWriter, Kinds
  <1>3. /\ file' \in Seq(Bytes) /\ Len(file') <= Capacity
        /\ Len(argument) <= Capacity => file' = argument
    <2>1. CASE H!write
      BY <1>2, <2>1 DEF H!write
    <2>2. CASE H!writeShort
      <3>1. Len(argument) > Capacity /\ file' = SubSeq(argument, 1, Capacity)
        BY <2>2 DEF H!writeShort
      <3>2. \A i \in 1..Capacity : argument[i] \in Bytes
        BY <1>2, <3>1, ElementOfSeq
      <3>3. file' \in Seq(Bytes) /\ Len(file') = Capacity
        BY <1>2, <3>1, <3>2, SubSeqProperties
      <3> QED BY <1>2, <3>1, <3>3
    <2> QED BY <2>1, <2>2 DEF FinishWriting
  <1>4. SourceInv'
    BY <1>1, <1>2, <1>3, Unsourced DEF FilesInv
  <1> QED BY <1>1, <1>2, <1>3, <1>4
          DEF FilesInv, Kinds, OneWriter, Held, ReadSoFar, H!Running, sourceVars

\* fromFile begins at the start of the file.
LEMMA StartReadingSteps == ASSUME FilesInv, StartReading PROVE FilesInv'
  <1>1. /\ outcome # "running" /\ outcome' \in {"running", "Error"} /\ call' = "fromFile"
        /\ buffer' = <<>> /\ position' = 0 /\ argument' = <<>>
        /\ UNCHANGED <<sourceVars, pending, destination, added, file, meant, sure>>
    BY DEF StartReading, Helping, H!fromFile, H!End, writeVars
  <1>2. SourceInv'
    BY <1>1, Unmoved DEF FilesInv
  <1>3. <<>> \in Seq(Bytes) /\ SubSeq(file, 1, 0) = <<>> /\ Len(file) \in Nat
    BY EmptySeq, SubSeqEmpty, LenProperties DEF FilesInv, SourceInv, TypeOK
  <1> QED BY <1>1, <1>2, <1>3 DEF FilesInv, Kinds, OneWriter, Held, ReadSoFar, H!Running

\* A read that returns count bytes has them appended to the buffer.
LEMMA ReadAppends ==
  ASSUME FilesInv, H!Running("fromFile"), NEW count \in Nat, position + count <= Len(file),
         H!Read(count), file' = file
  PROVE  position' \in 0..Len(file) /\ buffer' = SubSeq(file, 1, position')
  <1>1. /\ position \in 0..Len(file) /\ buffer = SubSeq(file, 1, position)
        /\ file \in Seq(Bytes) /\ Len(file) \in Nat
    BY LenProperties DEF FilesInv, ReadSoFar, SourceInv, TypeOK
  <1>2. /\ 1 \in 1..Len(file) + 1 /\ position \in (1 - 1)..Len(file)
        /\ position + count \in position..Len(file)
    BY <1>1
  <1>3. SubSeq(file, 1, position) \o SubSeq(file, position + 1, position + count)
        = SubSeq(file, 1, position + count)
    BY <1>1, <1>2, ConcatAdjacentSubSeq
  <1>4. /\ buffer' = buffer \o SubSeq(file, position + 1, position + count)
        /\ position' = position + count
    BY DEF H!Read
  <1>5. buffer' = SubSeq(file, 1, position + count)
    BY <1>1, <1>3, <1>4
  <1>6. position' \in 0..Len(file)
    BY <1>1, <1>2, <1>4
  <1> QED BY <1>4, <1>5, <1>6

\* What fread can still deliver.
LEMMA AvailableIsLeft ==
  ASSUME FilesInv, H!Running("fromFile")
  PROVE  /\ H!Available \in Nat /\ position + H!Available <= Len(file)
         /\ H!Available < Chunk => position + H!Available = Len(file)
         /\ Len(file) \in Nat /\ position \in Nat
  <1>1. position \in 0..Len(file) /\ Len(file) \in Nat
    BY LenProperties DEF FilesInv, ReadSoFar, SourceInv, TypeOK
  <1> QED BY <1>1, FilesAssumption DEF H!Available

\* Reading changes nothing but the buffer.
LEMMA ReadSteps == ASSUME FilesInv, ReadChunk \/ ReadFails PROVE FilesInv'
  <1>1. /\ H!Running("fromFile") /\ outcome' \in {"running", "ok", "Error"}
        /\ UNCHANGED <<sourceVars, pending, destination, added, argument, call, file, meant, sure>>
    BY DEF ReadChunk, ReadFails, Helping, H!read, H!readError, H!End, H!Running, writeVars
  <1>2. SourceInv'
    BY <1>1, Unmoved DEF FilesInv
  <1>3. PICK count \in 0..H!Available : H!Read(count)
    <2>1. H!Available \in 0..H!Available
      BY <1>1, AvailableIsLeft
    <2> QED BY <2>1 DEF ReadChunk, ReadFails, H!read, H!readError
  <1>4. count \in Nat /\ position + count <= Len(file)
    BY <1>1, <1>3, AvailableIsLeft
  <1>5. position' \in 0..Len(file) /\ buffer' = SubSeq(file, 1, position')
    BY <1>1, <1>3, <1>4, ReadAppends
  <1> QED BY <1>1, <1>2, <1>5 DEF FilesInv, Kinds, OneWriter, Held, ReadSoFar, H!Running

\* Every step keeps FilesInv.
LEMMA FilesStep == FilesInv /\ [FilesNext]_allVars => FilesInv'
  <1>1. ASSUME FilesInv, UNCHANGED allVars PROVE FilesInv'
    <2>1. SourceInv'
      BY <1>1, Unmoved DEF FilesInv, allVars, fileVars
    <2> QED BY <1>1, <2>1 DEF FilesInv, Kinds, OneWriter, Held, ReadSoFar, H!Running,
                              allVars, sourceVars, writeVars, helperVars, fileVars
  <1> QED BY <1>1, SourceSteps, OpenSteps, AddSteps, AddFailsSteps, RefusedSteps, CloseSteps,
             StartWritingSteps, FinishWritingSteps, StartReadingSteps, ReadSteps
          DEF FilesNext

\* FilesInv holds in every behaviour.
LEMMA FilesInvariance == FilesSpec => []FilesInv
  BY InitFiles, FilesStep, PTL DEF FilesSpec

\* For every device, text and order of calls: what the last writer was given is
\* in the file as long as it fits and nobody has thrown.
THEOREM WritersAreHeard == FilesSpec => []FileHoldsWritten
  <1>1. FilesInv => FileHoldsWritten
    BY DEF FilesInv, Held, FileHoldsWritten, H!Running
  <1> QED BY <1>1, FilesInvariance, PTL

\* fromFile returns the whole file or throws, for every file and chunk size.
THEOREM ReadersGetAll == FilesSpec => ReadsAllOrThrows
  <1>1. FilesInv /\ [FilesNext]_allVars
        => [H!Running("fromFile") /\ outcome' = "ok" => buffer' = file]_allVars
    <2> SUFFICES ASSUME FilesInv, FilesNext, H!Running("fromFile"), outcome' = "ok"
                 PROVE  buffer' = file
      OBVIOUS
    <2>1. ReadChunk
      BY DEF FilesNext, OpenSource, UseSource, Sourcing, OpenDestination, Add, AddFails,
             AddRefused, ClearFails, CloseDestination, Writing, StartWriting, FinishWriting,
             StartReading, ReadFails, H!Forgotten, H!Running, H!toFile, H!write, H!writeShort,
             H!fromFile, H!readError, H!End
    <2>2. H!Read(H!Available) /\ H!Available < Chunk /\ file' = file
      BY <2>1 DEF ReadChunk, H!read, H!Running
    <2>3. position' = Len(file) /\ buffer' = SubSeq(file, 1, Len(file))
      BY <2>2, ReadAppends, AvailableIsLeft DEF H!Read
    <2> QED BY <2>3, SubSeqFull DEF FilesInv, SourceInv, TypeOK
  <1> QED BY <1>1, FilesInvariance, PTL DEF FilesSpec, ReadsAllOrThrows

------------------------------------------------------------------------------
\* Next to the other users of its file, a FileSource is still the source a
\* parser expects: the file only changes while no FileSource is open.
THEOREM SharedFileSourceIsSource == FilesSpec => ImplementsSource
  <1>1. FilesInit => Contract!Init
    BY DEF FilesInit, Init, Contract!Init, Position, EndedEarly
  <1>2. FilesInv /\ [FilesNext]_allVars => [Contract!Next]_(Contract!vars)
    <2> SUFFICES ASSUME FilesInv, [FilesNext]_allVars
                 PROVE  [Contract!Next]_(Contract!vars)
      OBVIOUS
    <2>1. CASE OpenSource \/ UseSource
      BY <2>1, SourceStep DEF OpenSource, UseSource, Next, FilesInv
    <2>2. CASE UNCHANGED <<sourceVars, file>>
      BY <2>2 DEF sourceVars, Contract!vars, Position, EndedEarly
    <2>3. CASE ~source /\ UNCHANGED sourceVars
      <3>1. Contract!rewrite
        BY <2>3 DEF sourceVars, Contract!rewrite, Position, EndedEarly
      <3> QED BY <3>1 DEF Contract!Next
    <2>4. ASSUME Writing PROVE ~source /\ UNCHANGED sourceVars
      BY <2>4 DEF Writing
    <2>5. CASE OpenDestination \/ Add \/ AddFails \/ AddRefused \/ ClearFails \/ CloseDestination
      BY <2>3, <2>4, <2>5
      DEF OpenDestination, Add, AddFails, AddRefused, ClearFails, CloseDestination
    <2>6. CASE StartWriting
      BY <2>3, <2>6 DEF StartWriting, Helping
    <2>7. CASE FinishWriting
      <3>1. H!Running("toFile")
        BY <2>7 DEF FinishWriting, H!write, H!writeShort
      <3> QED BY <2>3, <2>7, <3>1 DEF FinishWriting, Helping, FilesInv, OneWriter
    <2>8. CASE StartReading \/ ReadChunk \/ ReadFails
      BY <2>2, <2>8 DEF StartReading, ReadChunk, ReadFails, Helping,
                        H!fromFile, H!read, H!readError
    <2>9. CASE UNCHANGED allVars
      BY <2>2, <2>9 DEF allVars, fileVars
    <2> QED BY <2>1, <2>5, <2>6, <2>7, <2>8, <2>9 DEF FilesNext
  <1> QED BY <1>1, <1>2, FilesInvariance, PTL
          DEF FilesSpec, ImplementsSource, Contract!Spec

\* Next to the other users of its file, a FileDestination is still the
\* destination a stringifier expects.
THEOREM SharedFileDestinationIsDestination == FilesSpec => ImplementsDestination
  <1>1. FilesInit => D!Contract!Init
    BY DEF FilesInit, D!Init, D!Contract!Init
  <1>2. [FilesNext]_allVars => [D!Contract!Next]_(D!Contract!vars)
    <2> SUFFICES ASSUME [FilesNext]_allVars
                 PROVE  \/ D!Contract!Next
                        \/ UNCHANGED <<added, length, lastChar, destination, result>>
      BY DEF D!Contract!vars
    <2>1. ASSUME NEW chunk \in Chunks, D!add(chunk) PROVE D!Contract!Next
      <3>1. D!Contract!add(chunk)
        BY <2>1 DEF D!add, D!Return, D!Contract!add, D!Last, D!Contract!Last
      <3> QED BY <3>1 DEF D!Contract!Next
    <2>2. ASSUME NEW chunk \in Chunks, D!addShort(chunk) PROVE D!Contract!Next
      BY <2>2 DEF D!addShort, D!Throw, D!Contract!refuse, D!Contract!Next
    <2>3. CASE D!addToClosed
      BY <2>3 DEF D!addToClosed, D!Throw, D!Contract!refuse, D!Contract!Next
    <2>4. CASE D!construct \/ D!clear
      BY <2>4 DEF D!construct, D!clear, D!Opened, D!Return, D!Contract!clear, D!Contract!Next
    <2>5. CASE D!clearFailed
      BY <2>5 DEF D!clearFailed, D!Fclosed, D!Throw, D!Contract!clearFailed, D!Contract!Next
    <2>6. CASE D!close
      BY <2>6 DEF D!close, D!Fclosed, D!Return, D!Contract!close, D!Contract!Next
    <2>7. CASE UNCHANGED writeVars
      BY <2>7 DEF writeVars
    <2> QED BY <2>1, <2>2, <2>3, <2>4, <2>5, <2>6, <2>7
            DEF FilesNext, OpenSource, UseSource, Sourcing, OpenDestination, Add, AddFails,
                AddRefused, ClearFails, CloseDestination, StartWriting, FinishWriting,
                StartReading, ReadChunk, ReadFails, Helping, allVars
  <1> QED BY <1>1, <1>2, PTL
          DEF FilesSpec, ImplementsDestination, D!ImplementsDestination, D!Contract!Spec

==============================================================================
