--------------------------- MODULE BoundedSequence ---------------------------
(***************************************************************************)
(* What a container with a fixed capacity promises: it is a sequence.  A   *)
(* call asks for one operation and is answered once.  The answer is ok,    *)
(* and the sequence is the one the operation of that name makes of it, or  *)
(* the operation needs more room or a place behind the end: then the       *)
(* answer is the error for that and nothing has changed.                   *)
(***************************************************************************)
EXTENDS VectorCalls

CONSTANT Values     \* what can be put in

VARIABLES
    length, content,
    request,        \* the call that was not answered yet, or None
    outcome         \* the last answer

vars == <<length, content, request, outcome>>

Init == /\ length = 0 /\ content = [i \in 1..0 |-> Blank]
        /\ request = None /\ outcome = "ok"

Ask == /\ request = None
       /\ request' \in Calls(Values, length)
       /\ UNCHANGED <<length, content, outcome>>

Adds(call) == call.operation \in {"emplace_back", "push_back", "insert"}

Verdict(call) ==
    IF call.operation = "insert" /\ call.place > length THEN "out_of_range"
    ELSE IF \/ Adds(call) /\ length = Capacity
            \/ call.operation = "resize" /\ call.place > Capacity
    THEN "runtime_error"
    ELSE "ok"

Insert(place, value) ==
    /\ length' = length + 1
    /\ content' = [i \in 1..(length + 1) |->
                      IF i <= place THEN content[i]
                      ELSE IF i = place + 1 THEN value ELSE content[i - 1]]

Assign(place, value) ==
    /\ content' = [content EXCEPT ![place + 1] = value]
    /\ UNCHANGED length

Resize(newLength) ==
    /\ length' = newLength
    /\ content' = [i \in 1..newLength |-> IF i <= length THEN content[i] ELSE Blank]

CarryOut(call) ==
    \/ call.operation = "insert" /\ Insert(call.place, call.value)
    \/ call.operation \in {"emplace_back", "push_back"} /\ Insert(length, call.value)
    \/ call.operation = "assign" /\ Assign(call.place, call.value)
    \/ call.operation = "resize" /\ Resize(call.place)
    \/ call.operation = "clear" /\ Resize(0)

Answer ==
    /\ request # None /\ request' = None
    /\ outcome' = Verdict(request)
    /\ IF outcome' = "ok" THEN CarryOut(request) ELSE UNCHANGED <<length, content>>

Next == Ask \/ Answer

Spec == Init /\ [][Next]_vars

==============================================================================
