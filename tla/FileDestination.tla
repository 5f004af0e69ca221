--------------------------- MODULE FileDestination ---------------------------
(***************************************************************************)
(* FileDestination: text written to a file through the C library.  Every   *)
(* add is an fwrite, whose count is tested, and an fflush, whose result is *)
(* not; clear closes the file and opens it anew, empty.                    *)
(*                                                                         *)
(* A call of the class is one step.  disk and pending model the file and   *)
(* the C library: what is in the file, and what fwrite took and fflush has *)
(* not written.  The assumptions on the constants are in Files.            *)
(***************************************************************************)
EXTENDS Integers, Sequences, SequencesExt

CONSTANTS
    Bytes,
    Chunks,         \* the sequences of bytes add is given
    Capacity,       \* of the device
    MaxAdded        \* bound: bytes added between two clears

VARIABLES
    disk, pending,
    destination,    \* the FILE is open
    length, lastChar,
    outcome,        \* how the last call ended
    added           \* history: bytes of the adds that returned since then

vars == <<disk, pending, destination, length, lastChar, outcome, added>>

\* The bytes that the device still takes.
Room == Capacity - Len(disk)

\* No object yet.
Init == /\ pending = <<>> /\ destination = FALSE
        /\ length = 0 /\ lastChar = 0
        /\ outcome = "ok" /\ added = <<>>

Throw == outcome' = "Error"
Return == outcome' = "ok"

\* As much of data as the device takes goes to the file.
Written(data) ==
    disk' = disk \o SubSeq(data, 1, IF Len(data) < Room THEN Len(data) ELSE Room)

\* What the device does not take is kept for the next attempt or dropped.
Flush(data) ==
    /\ Written(data)
    /\ pending' \in IF Len(data) <= Room THEN {<<>>}
                    ELSE {<<>>, SubSeq(data, Room + 1, Len(data))}

------------------------------------------------------------------------------
addToClosed ==
    /\ ~destination
    /\ Throw
    /\ UNCHANGED <<disk, pending, destination, length, lastChar, added>>

\* fwrite writes through and comes to the end of the device.
addShort(chunk) ==
    /\ destination
    /\ Len(pending \o chunk) > Room /\ chunk # <<>>
    /\ Written(pending \o chunk)
    /\ pending' = <<>>
    /\ Throw
    /\ UNCHANGED <<destination, length, lastChar, added>>

\* Mutant: bytes are counted once for the text so far.
addMiscounted(chunk) ==
    /\ destination /\ Len(added) + Len(chunk) <= MaxAdded
    /\ Flush(pending \o chunk)
    /\ length' = Len(chunk)
    /\ lastChar' = IF chunk # <<>> THEN Last(chunk) ELSE lastChar
    /\ added' = added \o chunk
    /\ Return
    /\ UNCHANGED destination

\* Mutant: no fflush.
addUnflushed(chunk) ==
    /\ destination /\ Len(added) + Len(chunk) <= MaxAdded
    /\ pending' = pending \o chunk
    /\ length' = length + Len(chunk)
    /\ lastChar' = IF chunk # <<>> THEN Last(chunk) ELSE lastChar
    /\ added' = added \o chunk
    /\ Return
    /\ UNCHANGED <<destination, disk>>

add(chunk) ==
    /\ destination /\ Len(added) + Len(chunk) <= MaxAdded
    /\ Flush(pending \o chunk)
    /\ length' = length + Len(chunk)
    /\ lastChar' = IF chunk # <<>> THEN Last(chunk) ELSE lastChar
    /\ added' = added \o chunk
    /\ Return
    /\ UNCHANGED destination

\* Opening the file for writing empties it, even when the device is full.
Opened ==
    /\ disk' = <<>> /\ pending' = <<>>
    /\ destination' = TRUE
    /\ length' = 0 /\ lastChar' = 0
    /\ added' = <<>>
    /\ Return

construct == ~destination /\ Opened

clear == Opened

\* Whatever the outcome, fclose ends the use of the FILE.
Fclosed == destination' = FALSE /\ pending' = <<>> /\ Written(pending)

clearFailed == /\ Fclosed
               /\ Throw
               /\ UNCHANGED <<length, lastChar, added>>

close == /\ Fclosed
         /\ Return
         /\ UNCHANGED <<length, lastChar, added>>

Next == \/ addToClosed
        \/ \E chunk \in Chunks : addShort(chunk) \/ add(chunk)
        \/ construct \/ clear \/ clearFailed \/ close
------------------------------------------------------------------------------
\* size() and last() describe the bytes added since the file was last opened,
\* whatever adds were refused and however clear and close failed.
Contract == INSTANCE Destination WITH
    bytes <- added, size <- length, last <- lastChar, open <- destination
ImplementsDestination == Contract!Spec

==============================================================================
