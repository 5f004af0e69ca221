----------------------------- MODULE FileSource ------------------------------
(***************************************************************************)
(* FileSource: the bytes of a file through the C library.  The byte that   *)
(* is looked at is read, pushed back with ungetc and remembered, so that   *)
(* current and more, which are const, do not move the file.                *)
(*                                                                         *)
(* A call of the class is one step.  file, offset and pushed model the     *)
(* FILE of the C library: its contents, how many bytes were read, and the  *)
(* byte that was pushed back.                                              *)
(***************************************************************************)
EXTENDS Integers, Sequences, SequencesExt

CONSTANTS
    Bytes,          \* what a file can contain
    MaxLength,      \* bound: length of a file
    ReadErrors      \* fgetc may fail before the end of the file

ASSUME FileAssumption ==
    /\ Bytes \subseteq 0..255
    /\ MaxLength \in Nat
    /\ ReadErrors \in BOOLEAN

VARIABLES
    file, offset, pushed,
    source,         \* the FILE is open
    currentChar, hasPeek,
    answer          \* history: the last call and what it returned

vars == <<file, offset, pushed, source, currentChar, hasPeek, answer>>

EOF == -1

AsChar(byte) == IF byte > 127 THEN byte - 256 ELSE byte

------------------------------------------------------------------------------
Init == /\ file \in BoundedSeq(Bytes, MaxLength)
        /\ offset = 0 /\ pushed = EOF
        /\ source \in BOOLEAN
        /\ currentChar = EOF /\ hasPeek = FALSE
        /\ answer = <<"none", 0>>

\* What fgetc can return when nothing is pushed back.
Readable ==
    (IF offset < Len(file) THEN {file[offset + 1]} ELSE {EOF})
        \cup (IF ReadErrors THEN {EOF} ELSE {})

\* ensurePeek leaves char in currentChar; pushing EOF back does nothing.
EnsurePeek(char) ==
    IF hasPeek \/ ~source
    THEN /\ char = currentChar
         /\ UNCHANGED offset
    ELSE /\ char \in IF pushed # EOF THEN {pushed} ELSE Readable
         /\ offset' = IF pushed = EOF /\ char # EOF THEN offset + 1 ELSE offset

\* Mutant: the end of the file is not remembered.
PeekedForgettingEOF(char) ==
    /\ EnsurePeek(char)
    /\ pushed' = (IF hasPeek \/ ~source THEN pushed ELSE char)
    /\ currentChar' = char
    /\ hasPeek' = (char # EOF)
    /\ UNCHANGED <<file, source>>

Peeked(char) ==
    /\ EnsurePeek(char)
    /\ pushed' = (IF hasPeek \/ ~source THEN pushed ELSE char)
    /\ currentChar' = char
    /\ hasPeek' = source
    /\ UNCHANGED <<file, source>>

current == \E char \in Bytes \cup {EOF} :
    /\ Peeked(char)
    /\ answer' = <<"current", IF char # EOF THEN AsChar(char) ELSE EOF>>

more == \E char \in Bytes \cup {EOF} :
    /\ Peeked(char)
    /\ answer' = <<"more", char # EOF>>

\* The second fgetc takes the byte that ensurePeek pushed back.
next ==
    \/ Peeked(EOF) /\ answer' = <<"next", "Error">>
    \/ \E char \in Bytes :
          /\ EnsurePeek(char)
          /\ pushed' = EOF
          /\ currentChar' = char
          /\ hasPeek' = FALSE
          /\ answer' = <<"next", "ok">>
          /\ UNCHANGED <<file, source>>

\* rewind also forgets what was pushed back.
reset ==
    /\ IF source
       THEN offset' = 0 /\ pushed' = EOF /\ currentChar' = EOF /\ hasPeek' = FALSE
       ELSE UNCHANGED <<offset, pushed, currentChar, hasPeek>>
    /\ answer' = <<"reset", "ok">>
    /\ UNCHANGED <<file, source>>

\* There is no FILE any more.
close ==
    /\ source' = FALSE
    /\ IF source THEN currentChar' = EOF /\ hasPeek' = FALSE
       ELSE UNCHANGED <<currentChar, hasPeek>>
    /\ offset' = 0 /\ pushed' = EOF
    /\ answer' = <<"close", "ok">>
    /\ UNCHANGED file

\* The file is opened.
construct ==
    /\ ~source /\ source' = TRUE
    /\ offset' = 0 /\ pushed' = EOF /\ currentChar' = EOF /\ hasPeek' = FALSE
    /\ answer' = <<"none", 0>>
    /\ UNCHANGED file

Call == current \/ more \/ next \/ reset \/ close

Next == Call \/ construct

Spec == Init /\ [][Next]_vars
------------------------------------------------------------------------------
\* The members keep their types and the file is never read past its end.
TypeOK ==
    /\ file \in Seq(Bytes)
    /\ offset \in 0..Len(file)
    /\ pushed \in Bytes \cup {EOF}
    /\ source \in BOOLEAN /\ hasPeek \in BOOLEAN
    /\ currentChar \in Bytes \cup {EOF}

\* Whenever a byte is remembered the FILE is about to deliver that byte, and
\* it holds a pushed back byte at no other time: ungetc never meets one.
RememberedIsNext ==
    /\ pushed # EOF => offset > 0 /\ pushed = file[offset]
    /\ source => pushed = IF hasPeek THEN currentChar ELSE EOF
    /\ ~source => ~hasPeek /\ currentChar = EOF /\ offset = 0 /\ pushed = EOF

\* Bytes consumed: all that were read but the one pushed back.
Position == IF pushed = EOF THEN offset ELSE offset - 1

\* The device failed, and this is remembered as the end of the file.
EndedEarly == source /\ hasPeek /\ currentChar = EOF /\ Position < Len(file)

\* A FileSource answers every sequence of calls as a source with the bytes of
\* the file in memory would; a failing device only makes it end early, and
\* it does not come back before a reset.
Contract == INSTANCE Source WITH
    CanFail <- ReadErrors, bytes <- file, position <- Position,
    ended <- EndedEarly, closed <- ~source
ImplementsSource == Contract!Spec

==============================================================================
