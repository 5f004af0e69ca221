-------------------------------- MODULE Files --------------------------------
(***************************************************************************)
(* A thread writes and reads one file through everything the library has   *)
(* for it: a FileDestination, toFile, a FileSource and fromFile.  The      *)
(* modules of the three share the file and nothing else.                   *)
(*                                                                         *)
(* The file has one writer at a time, and nothing writes to it while a     *)
(* FileSource is open; a reader may come while a FileDestination is open,  *)
(* which flushes after every add.                                          *)
(***************************************************************************)
EXTENDS FileSource

CONSTANTS
    Chunks,         \* what is added to a FileDestination
    Texts,          \* what is given to toFile
    Chunk,          \* bytes that fromFile asks for at a time
    Capacity,       \* of the device
    MaxAdded        \* bound: bytes added to a FileDestination between two clears

ASSUME FilesAssumption ==
    /\ Chunks \subseteq Seq(Bytes) /\ Texts \subseteq Seq(Bytes)
    /\ Chunk \in Nat \ {0}
    /\ Capacity \in Nat /\ MaxLength <= Capacity
    /\ MaxAdded \in Nat

VARIABLES
    pending, destination, length, lastChar, result, added,      \* FileDestination
    exists, open, position, buffer, call, outcome, argument,    \* FileHelpers
    meant,          \* history: what the calls that returned have put in the file
    sure            \* history: no write to what is in the file now has failed

sourceVars == <<offset, pushed, source, currentChar, hasPeek, answer>>
writeVars == <<pending, destination, length, lastChar, result, added>>
helperVars == <<open, position, buffer, call, outcome, argument>>
fileVars == <<file, exists, meant, sure>>
allVars == <<sourceVars, writeVars, helperVars, fileVars>>

D == INSTANCE FileDestination WITH disk <- file, outcome <- result
H == INSTANCE FileHelpers

FilesInit ==
    /\ Init /\ ~source
    /\ D!Init /\ H!Init
    /\ ~exists => file = <<>>
    /\ meant = file /\ sure = TRUE

------------------------------------------------------------------------------
(* One component moves at a time.  A call of the helpers runs to its end.  *)

Sourcing == H!Forgotten /\ UNCHANGED <<writeVars, fileVars>>

Writing == H!Forgotten /\ ~source /\ UNCHANGED sourceVars

Helping == UNCHANGED <<sourceVars, writeVars>>

OpenSource == exists /\ construct /\ Sourcing

UseSource == Call /\ Sourcing

OpenDestination ==
    /\ D!construct \/ D!clear
    /\ Writing
    /\ exists' = TRUE /\ meant' = <<>> /\ sure' = TRUE

Add == /\ \E chunk \in Chunks : D!add(chunk)
       /\ Writing
       /\ meant' = added' /\ UNCHANGED <<exists, sure>>

AddFails == /\ \E chunk \in Chunks : D!addShort(chunk)
            /\ Writing
            /\ sure' = FALSE /\ UNCHANGED <<exists, meant>>

AddRefused == D!addToClosed /\ Writing /\ UNCHANGED fileVars

ClearFails == D!clearFailed /\ Writing /\ sure' = FALSE /\ UNCHANGED <<exists, meant>>

CloseDestination == D!close /\ Writing /\ UNCHANGED <<exists, meant, sure>>

\* toFile opens the file, unless it cannot.
StartWriting == /\ \E text \in Texts : H!toFile(text)
                /\ ~destination /\ ~source /\ Helping
                /\ meant' = IF open' THEN argument' ELSE meant
                /\ sure' = (sure /\ ~open')

FinishWriting == /\ H!write \/ H!writeShort
                 /\ Helping
                 /\ sure' = (outcome' = "ok") /\ UNCHANGED meant

StartReading == ~source /\ H!fromFile /\ Helping /\ UNCHANGED <<meant, sure>>

ReadChunk == H!read /\ Helping /\ UNCHANGED <<meant, sure>>

ReadFails == H!readError /\ Helping /\ UNCHANGED <<meant, sure>>

FilesNext ==
    \/ OpenSource \/ UseSource
    \/ OpenDestination \/ Add \/ AddFails \/ AddRefused \/ ClearFails \/ CloseDestination
    \/ StartWriting \/ FinishWriting \/ StartReading \/ ReadChunk \/ ReadFails

\* The thread that called a helper goes on with it; no device has to fail.
FilesSpec == /\ FilesInit /\ [][FilesNext]_allVars
             /\ WF_allVars(FinishWriting) /\ WF_allVars(ReadChunk)
------------------------------------------------------------------------------
\* As long as it fits on the device, what the last writer was given is in the
\* file whenever no writer is in the middle of a call and none has thrown, be
\* the destination open or closed, byte for byte and with nothing left over
\* from the writer before.
FileHoldsWritten ==
    outcome # "running" /\ sure /\ Len(meant) <= Capacity => file = meant /\ pending = <<>>

\* fromFile returns all that is in the file or throws, also when the size of
\* the file is a multiple of that of a chunk, when the device fails in the
\* middle, and when a FileDestination is open on the same file.
ReadsAllOrThrows ==
    [][H!Running("fromFile") /\ outcome' = "ok" => buffer' = file]_allVars

\* Reading ends: one fread must come back short.  So does writing.
CallsEnd == outcome = "running" ~> outcome # "running"

\* A FileDestination implements the destination of the stringifiers next to
\* the other users of its file.
ImplementsDestination == D!ImplementsDestination

\* "All errors are thrown as exceptions." (README.md:239): unless a writer has
\* thrown, the file holds what was added to the destination that is open.
LossIsReported == destination /\ outcome # "running" /\ sure => file = meant

==============================================================================
