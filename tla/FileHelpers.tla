----------------------------- MODULE FileHelpers -----------------------------
(***************************************************************************)
(* Bencode::toFile and Bencode::fromFile: a text written to a file in one  *)
(* fwrite, a file read in chunks.  The file is closed by the destructor of *)
(* Bencode_FileHandle, on return and on every exception.                   *)
(*                                                                         *)
(* Each fread is a step; device errors may come before any of them.  The   *)
(* assumptions on the constants are in Files.                              *)
(***************************************************************************)
EXTENDS Integers, Sequences, SequencesExt

CONSTANTS
    Texts,          \* what is written
    Chunk,          \* sizeof chunk
    Capacity        \* bytes the device takes

VARIABLES
    exists, file,   \* the file and its contents
    open,           \* Bencode_FileHandle holds a FILE
    position,       \* of the FILE that is read
    buffer,
    call,           \* the call that runs or ran last
    outcome,        \* "running", "ok" or "Error"
    argument        \* of toFile

vars == <<exists, file, open, position, buffer, call, outcome, argument>>

Init == /\ exists \in BOOLEAN
        /\ open = FALSE /\ position = 0 /\ buffer = <<>>
        /\ call = "none" /\ outcome = "ok" /\ argument = <<>>

Running(name) == call = name /\ outcome = "running"

\* The destructor of the handle runs too.
End(how) == outcome' = how /\ open' = FALSE

------------------------------------------------------------------------------
(* toFile *)

toFile(text) ==
    /\ outcome # "running"
    /\ call' = "toFile"
    /\ buffer' = <<>> /\ position' = 0 /\ argument' = text
    /\ \/ End("Error") /\ UNCHANGED <<exists, file>>
       \/ /\ exists' = TRUE /\ file' = <<>>
          /\ open' = TRUE /\ outcome' = "running"

write == /\ Running("toFile") /\ Len(argument) <= Capacity
         /\ file' = argument
         /\ End("ok")
         /\ UNCHANGED <<exists, position, buffer, call, argument>>

\* The device is full: fwrite says so, or fclose, whose result is ignored.
writeShort == /\ Running("toFile") /\ Len(argument) > Capacity
              /\ file' = SubSeq(argument, 1, Capacity)
              /\ (End("ok") \/ End("Error"))
              /\ UNCHANGED <<exists, position, buffer, call, argument>>

------------------------------------------------------------------------------
(* fromFile *)

fromFile ==
    /\ outcome # "running"
    /\ call' = "fromFile"
    /\ buffer' = <<>> /\ position' = 0 /\ argument' = <<>>
    /\ \/ End("Error")
       \/ exists /\ open' = TRUE /\ outcome' = "running"
    /\ UNCHANGED <<exists, file>>

Available == IF Len(file) - position < Chunk THEN Len(file) - position ELSE Chunk

Read(count) == /\ buffer' = buffer \o SubSeq(file, position + 1, position + count)
               /\ position' = position + count

\* Mutant: a short read is taken for the end of the file.
readUntested ==
    /\ Running("fromFile")
    /\ \E count \in 0..Available :
          /\ Read(count)
          /\ IF count < Chunk THEN End("ok") ELSE UNCHANGED <<outcome, open>>
    /\ UNCHANGED <<exists, file, call, argument>>

\* Mutant: the loop goes on until nothing at all was read.
readOn ==
    /\ Running("fromFile")
    /\ Read(Available)
    /\ UNCHANGED <<exists, file, call, argument, outcome, open>>

read ==
    /\ Running("fromFile")
    /\ Read(Available)
    /\ IF Available < Chunk THEN End("ok") ELSE UNCHANGED <<outcome, open>>
    /\ UNCHANGED <<exists, file, call, argument>>

\* fread delivers less than it could, and ferror says why.
readError ==
    /\ Running("fromFile")
    /\ \E count \in 0..Available : count < Chunk /\ Read(count)
    /\ End("Error")
    /\ UNCHANGED <<exists, file, call, argument>>

\* The locals of the call that has returned are gone.
Forgotten == /\ outcome # "running"
             /\ outcome' = "ok" /\ call' = "none" /\ open' = FALSE
             /\ position' = 0 /\ buffer' = <<>> /\ argument' = <<>>

==============================================================================
