----------------------------- MODULE Destination -----------------------------
(***************************************************************************)
(* IDestination as the stringifiers use it: bytes are collected in the     *)
(* order they are added.  This is BufferDestination; a destination that    *)
(* writes to a file may also be closed, refuse bytes and fail to reopen.   *)
(***************************************************************************)
EXTENDS Integers, Sequences, SequencesExt

CONSTANT Chunks     \* what add can be given

VARIABLES
    bytes,      \* collected since the last clear
    size, last, \* what the queries return
    open,
    outcome     \* how the last call ended

vars == <<bytes, size, last, open, outcome>>

Init == bytes = <<>> /\ size = 0 /\ last = 0 /\ open \in BOOLEAN /\ outcome = "ok"

add(chunk) ==
    /\ open /\ outcome' = "ok"
    /\ bytes' = bytes \o chunk
    /\ size' = size + Len(chunk)
    /\ last' = IF chunk = <<>> THEN last ELSE Last(chunk)
    /\ UNCHANGED open

refuse == outcome' = "Error" /\ UNCHANGED <<bytes, size, last, open>>

clear == /\ bytes' = <<>> /\ size' = 0 /\ last' = 0
         /\ open' = TRUE /\ outcome' = "ok"

clearFailed == /\ open' = FALSE /\ outcome' = "Error"
               /\ UNCHANGED <<bytes, size, last>>

close == /\ open' = FALSE /\ outcome' = "ok"
         /\ UNCHANGED <<bytes, size, last>>

Next == (\E chunk \in Chunks : add(chunk)) \/ refuse \/ clear \/ clearFailed \/ close

Spec == Init /\ [][Next]_vars

==============================================================================
