---------------------------- MODULE DefaultParser ----------------------------
(***************************************************************************)
(* Bencode_Impl::parse and Default_Parser::parseIterative: a document is   *)
(* parsed by a loop over an explicit stack of open containers, one lexeme  *)
(* of the source per iteration.                                            *)
(*                                                                         *)
(* The same code is built in two flavours.  With exceptions a fault is     *)
(* thrown and the root is assigned from the returned node; without, faults *)
(* travel as a ParseStatus and the parser writes into the root it is       *)
(* handed.  The constant Exceptions selects the flavour.                   *)
(***************************************************************************)
EXTENDS RecursiveParser, DefaultStringify

CONSTANTS
    Exceptions,         \* BENCODE_ENABLE_EXCEPTIONS
    DynamicAllocation,  \* BENCODE_ENABLE_DYNAMIC_ALLOCATION
    MaxContainerSize,   \* BENCODE_MAX_CONTAINER_SIZE
    DepthLimits,        \* values setMaxParserDepth is called with
    LengthLimits,       \* values setMaxStringLength is called with
    Integers,           \* values of well formed integers
    Strings,            \* strings found in sources
    Endings,            \* what a source may go on with, for the contract
    MaxLexemes,         \* bound: lexemes in the source of the first call
    LaterLexemes,       \* bound: lexemes in the source of a later call
    MaxCalls            \* bound: calls of parse

ASSUME BuildAssumption ==
    /\ Exceptions \in BOOLEAN
    /\ DynamicAllocation \in BOOLEAN
    /\ MaxContainerSize \in Nat \ {0}
ASSUME LimitAssumption ==
    /\ DepthLimits \subseteq Nat /\ DepthLimits # {}
    /\ LengthLimits \subseteq Nat /\ LengthLimits # {}
ASSUME SourceAssumption ==
    /\ Integers \subseteq Nat
    /\ Strings \subseteq Nat
ASSUME BoundAssumption == {MaxLexemes, LaterLexemes, MaxCalls} \subseteq Nat

VARIABLES
    look,             \* ISource::current(): the lexeme at the read position
    seen,             \* history: the lexemes next() has moved past
    frames,           \* frameStack, the innermost open container last
    pc,               \* "idle", "parsing" (parseIterative), "finish" (handleParseResult)
    root,             \* Bencode_Impl::bNodeRoot
    outcome,          \* how the last call ended: "ok" or a fault; "none" while it runs
    maxParserDepth,   \* Default_Parser::maxParserDepth, one for the process
    maxStringLength,  \* String::maxStringLength, one for the process
    before,           \* history: bNodeRoot when the running or last call began
    calls             \* number of calls of parse so far

source == <<look, seen>>
limits == <<maxParserDepth, maxStringLength>>
vars == <<look, seen, frames, pc, root, outcome, maxParserDepth,
          maxStringLength, before, calls>>

------------------------------------------------------------------------------
(* The source. *)

\* The lexemes a source may hold; a string of length 0 cannot be cut short.
Offered ==
    {Token(k) : k \in LexemeKind \ {"integer", "string", "cut", "eof"}}
        \cup [kind : {"integer"}, val : Integers]
        \cup [kind : {"string"}, val : Strings]
        \cup [kind : {"cut"}, val : Strings \ {0}]

ASSUME EndingAssumption == Endings \subseteq Seq(Offered)

Upcoming(n, call) ==
    {EOF} \cup (IF n < (IF call = 1 THEN MaxLexemes ELSE LaterLexemes) THEN Offered ELSE {})

More == look # EOF

\* Mutant: the current lexeme is read without moving on.
Peek == UNCHANGED source

Consume ==
    /\ seen' = Append(seen, look)
    /\ look' \in Upcoming(Len(seen) + 1, calls)

------------------------------------------------------------------------------
(* Frames. *)

Frame(type) ==
    [type |-> type, keys |-> <<>>, items |-> <<>>,
     lastKey |-> 0, currentKey |-> 0, awaitingValue |-> FALSE]

Outer == SubSeq(frames, 1, Len(frames) - 1)
Top == Last(frames)

\* Positions of the loop: a value may stand here, the innermost container
\* may be closed here, a key is read here.
AtValue == frames # <<>> => Top.type = "list" \/ Top.awaitingValue
AtEnd == frames # <<>> /\ (Top.type = "list" \/ ~Top.awaitingValue)
AtKey == frames # <<>> /\ Top.type = "dictionary" /\ ~Top.awaitingValue

Opens(l) == l.kind \in ContainerType

\* Mutant: the frame about to be pushed is counted twice.
FrameFitsStrict == Len(frames) + 2 < maxParserDepth

\* pushFrame admits one frame less than the limit.
FrameFits == Len(frames) + 1 < maxParserDepth

\* FixedVector refuses what std::vector takes.
Full(s) == ~DynamicAllocation /\ Len(s) >= MaxContainerSize

(***************************************************************************)
(* Whether a completed value can be added to frame f: List::add, or        *)
(* Dictionary::appendSorted under the key read before it.                  *)
(***************************************************************************)

AttachFault(f) ==
    LET keyed == f.type = "dictionary" /\ f.keys # <<>>
    IN IF f.type = "dictionary" /\ ~f.awaitingValue THEN "missing key"
       ELSE IF keyed /\ Last(f.keys) = f.currentKey THEN "duplicate"
       ELSE IF keyed /\ Last(f.keys) > f.currentKey THEN "append order"
       ELSE IF Full(f.items) THEN "capacity"
       ELSE "none"

\* The entry takes the key by move, so currentKey is left empty.
Attached(f, node) ==
    IF f.type = "list"
    THEN [f EXCEPT !.items = Append(@, node)]
    ELSE [f EXCEPT !.items = Append(@, node),
                   !.keys = Append(@, f.currentKey),
                   !.currentKey = 0,
                   !.awaitingValue = FALSE]

------------------------------------------------------------------------------
(* Scalars: what parseScalar and parseStringKey make of a lexeme. *)

TooLong(l) == l.kind \in {"string", "cut"} /\ l.val > maxStringLength

\* The length is compared with the limit before a byte of the payload is read.
FaultOf(l) ==
    IF TooLong(l) THEN "malformed"
    ELSE IF l.kind = "cut" THEN "truncated"
    ELSE IF l.kind \in {"huge integer", "huge length"} THEN "overflow"
    ELSE IF l.kind = "unterminated" THEN "unterminated"
    ELSE "malformed"

ReadableScalar(l) ==
    \/ l.kind = "integer"
    \/ l.kind = "string" /\ l.val <= maxStringLength

ScalarNode(l) == IF l.kind = "integer" THEN IntegerNode(l.val) ELSE StringNode(l.val)

ReadableKey(l) == l.kind = "string" /\ l.val <= maxStringLength

\* parseStringKey expects digits: the i of an integer is already an error.
KeyFaultOf(l) ==
    IF l.kind \in {"string", "cut", "huge length"} THEN FaultOf(l) ELSE "malformed"

------------------------------------------------------------------------------
\* Mutant: the stack of a failed call is left for the next one.
FailKeepingFrames(fault) ==
    /\ outcome' = fault
    /\ pc' = "idle"
    /\ UNCHANGED frames

\* A fault or a completed value ends the parser's part of a call.
Fail(fault) ==
    /\ outcome' = fault
    /\ pc' = "idle"
    /\ frames' = <<>>

Complete(node) ==
    /\ root' = node
    /\ frames' = <<>>
    /\ pc' = "finish"
    /\ UNCHANGED outcome

\* A value completed inside the frames of stack goes to the innermost one.
Deliver(stack, node) ==
    IF AttachFault(Last(stack)) = "none"
    THEN /\ frames' = [stack EXCEPT ![Len(stack)] = Attached(@, node)]
         /\ UNCHANGED <<pc, outcome, root>>
    ELSE Fail(AttachFault(Last(stack))) /\ UNCHANGED root

------------------------------------------------------------------------------
(* One action per branch of the loop. *)

Parse ==
    /\ pc = "idle"
    /\ calls < MaxCalls
    /\ pc' = "parsing"
    /\ seen' = <<>>
    /\ look' \in Upcoming(0, calls + 1)
    /\ before' = root
    /\ outcome' = "none"
    /\ calls' = calls + 1
    /\ UNCHANGED <<frames, root, limits>>

UnexpectedEnd ==
    /\ pc = "parsing"
    /\ ~More
    /\ Fail("malformed")
    /\ UNCHANGED <<source, root, limits, before, calls>>

OpenContainer ==
    /\ pc = "parsing"
    /\ AtValue /\ Opens(look)
    /\ FrameFits
    /\ Consume
    /\ frames' = Append(frames, Frame(look.kind))
    /\ UNCHANGED <<pc, outcome, root, limits, before, calls>>

OpenTooDeep ==
    /\ pc = "parsing"
    /\ AtValue /\ Opens(look)
    /\ ~FrameFits
    /\ Consume
    /\ Fail("depth")
    /\ UNCHANGED <<root, limits, before, calls>>

\* Mutant: the closed container replaces the frame below it.
CloseContainerDropsSiblings ==
    /\ pc = "parsing"
    /\ AtEnd /\ look = Token("end")
    /\ Consume
    /\ LET closed == ContainerNode(Top.type, Top.keys, Top.items)
       IN IF Outer = <<>>
          THEN Complete(closed)
          ELSE Deliver([Outer EXCEPT ![Len(Outer)].items =
                            IF Last(Outer).type = "list" THEN <<>> ELSE @],
                       closed)
    /\ UNCHANGED <<limits, before, calls>>

CloseContainer ==
    /\ pc = "parsing"
    /\ AtEnd /\ look = Token("end")
    /\ Consume
    /\ LET closed == ContainerNode(Top.type, Top.keys, Top.items)
       IN IF Outer = <<>> THEN Complete(closed) ELSE Deliver(Outer, closed)
    /\ UNCHANGED <<limits, before, calls>>

ReadScalar ==
    /\ pc = "parsing"
    /\ frames # <<>> /\ AtValue /\ ReadableScalar(look)
    /\ Consume
    /\ Deliver(frames, ScalarNode(look))
    /\ UNCHANGED <<limits, before, calls>>

\* A lexeme no branch of the value positions takes, end of source excepted.
Unreadable(l) == ~Opens(l) /\ ~ReadableScalar(l) /\ ~(AtEnd /\ l = Token("end"))

\* Mutant: the default branch of parseScalar continues instead of failing.
RejectScalarByContinue ==
    /\ pc = "parsing" /\ More
    /\ frames # <<>> /\ AtValue /\ Unreadable(look)
    /\ UNCHANGED vars

RejectScalar ==
    /\ pc = "parsing" /\ More
    /\ frames # <<>> /\ AtValue /\ Unreadable(look)
    /\ Fail(FaultOf(look))
    /\ UNCHANGED <<source, root, limits, before, calls>>

\* Mutant: the key is not compared with the previous one.
ReadKeyUnordered ==
    /\ pc = "parsing"
    /\ AtKey /\ ReadableKey(look)
    /\ Consume
    /\ frames' = [frames EXCEPT ![Len(frames)].currentKey = look.val,
                                ![Len(frames)].lastKey = look.val,
                                ![Len(frames)].awaitingValue = TRUE]
    /\ UNCHANGED <<pc, outcome, root, limits, before, calls>>

ReadKey ==
    /\ pc = "parsing"
    /\ AtKey /\ ReadableKey(look)
    /\ Top.lastKey <= look.val
    /\ Consume
    /\ frames' = [frames EXCEPT ![Len(frames)].currentKey = look.val,
                                ![Len(frames)].lastKey = look.val,
                                ![Len(frames)].awaitingValue = TRUE]
    /\ UNCHANGED <<pc, outcome, root, limits, before, calls>>

KeyOutOfOrder ==
    /\ pc = "parsing"
    /\ AtKey /\ ReadableKey(look)
    /\ Top.lastKey > look.val
    /\ Consume
    /\ Fail("key order")
    /\ UNCHANGED <<root, limits, before, calls>>

RejectKey ==
    /\ pc = "parsing" /\ More
    /\ AtKey /\ ~ReadableKey(look) /\ look # Token("end")
    /\ Fail(KeyFaultOf(look))
    /\ UNCHANGED <<source, root, limits, before, calls>>

(***************************************************************************)
(* A source that does not begin with a container goes to parseNodes at     *)
(* depth 1, which tests the depth before it looks at the byte.             *)
(***************************************************************************)
AtRootScalar == pc = "parsing" /\ More /\ frames = <<>> /\ ~Opens(look)

RootTooDeep ==
    /\ AtRootScalar
    /\ 1 >= maxParserDepth
    /\ Fail("depth")
    /\ UNCHANGED <<source, root, limits, before, calls>>

RootScalar ==
    /\ AtRootScalar
    /\ 1 < maxParserDepth
    /\ ReadableScalar(look)
    /\ Consume
    /\ Complete(ScalarNode(look))
    /\ UNCHANGED <<limits, before, calls>>

\* Mutant: the destination is reset before it is filled.
RootAfterRejectCleared == EmptyNode

\* Without exceptions parseString has assigned its destination, the root
\* itself, before it copies a payload that turns out to be cut short.
RootAfterReject ==
    IF ~Exceptions /\ FaultOf(look) = "truncated" THEN StringNode(look.val) ELSE root

RejectRootScalar ==
    /\ AtRootScalar
    /\ 1 < maxParserDepth
    /\ ~ReadableScalar(look)
    /\ Fail(FaultOf(look))
    /\ root' = RootAfterReject
    /\ UNCHANGED <<source, limits, before, calls>>

HandleParseResult ==
    /\ pc = "finish"
    /\ outcome' = IF More THEN "trailing" ELSE "ok"
    /\ pc' = "idle"
    /\ UNCHANGED <<source, frames, root, limits, before, calls>>

\* The limits are plain static variables: changing one while another thread
\* parses is a data race, so they change between calls only.
SetMaxParserDepth ==
    /\ pc = "idle"
    /\ maxParserDepth' \in DepthLimits
    /\ UNCHANGED <<source, frames, pc, root, outcome, maxStringLength, before, calls>>

SetMaxStringLength ==
    /\ pc = "idle"
    /\ maxStringLength' \in LengthLimits
    /\ UNCHANGED <<source, frames, pc, root, outcome, maxParserDepth, before, calls>>

------------------------------------------------------------------------------
(* A new document is empty, or was built from an initializer list. *)
Init ==
    /\ look = EOF /\ seen = <<>>
    /\ frames = <<>> /\ pc = "idle"
    /\ root \in {EmptyNode, ContainerNode("list", <<>>, <<IntegerNode(0)>>)}
    /\ outcome = "none" /\ before = root /\ calls = 0
    /\ maxParserDepth \in DepthLimits /\ maxStringLength \in LengthLimits

ParserStep ==
    \/ UnexpectedEnd \/ OpenContainer \/ OpenTooDeep \/ CloseContainer
    \/ ReadScalar \/ RejectScalar \/ ReadKey \/ KeyOutOfOrder \/ RejectKey
    \/ RootTooDeep \/ RootScalar \/ RejectRootScalar \/ HandleParseResult

Next == Parse \/ ParserStep \/ SetMaxParserDepth \/ SetMaxStringLength

\* A thread that is inside parse keeps running; nobody has to call parse.
Spec == Init /\ [][Next]_vars /\ WF_vars(ParserStep)

------------------------------------------------------------------------------
(* What the caller is told. *)

Fault == {"malformed", "truncated", "overflow", "unterminated", "depth",
          "key order", "duplicate", "append order", "missing key", "capacity",
          "trailing"}

Thrown(error) == [thrown |-> TRUE, error |-> error]
Returned(code) == [thrown |-> FALSE, error |-> code]

\* Sources and containers throw in both builds; what the parser itself finds
\* wrong is thrown by one build and returned as a status by the other.
Reported(fault) ==
    CASE fault = "truncated" -> Thrown("ISource::Error")
      [] fault = "capacity" -> Thrown("std::runtime_error")
      [] fault \in {"duplicate", "append order"} ->
            IF Exceptions THEN Thrown("SyntaxError") ELSE Thrown("Node::Error")
      [] fault = "overflow" ->
            IF Exceptions THEN Thrown("std::out_of_range") ELSE Returned("IntegerOverflow")
      [] fault = "unterminated" ->
            IF Exceptions THEN Thrown("SyntaxError") ELSE Returned("MissingEndTerminator")
      [] fault = "trailing" ->
            IF Exceptions THEN Thrown("SyntaxError") ELSE Returned("SourceTerminatedEarly")
      [] OTHER ->
            IF Exceptions THEN Thrown("SyntaxError") ELSE Returned("SyntaxError")

------------------------------------------------------------------------------
(* Properties. *)

FrameTypeOK(f) ==
    /\ f.type \in ContainerType
    /\ f.keys \in Seq(Nat)
    /\ Len(f.items) \in Nat
    /\ f.lastKey \in Nat
    /\ f.currentKey \in Nat
    /\ f.awaitingValue \in BOOLEAN

(* Every variable stays within its type; an idle parser holds no frames.   *)
TypeOK ==
    /\ look \in Offered \cup {EOF}
    /\ seen \in Seq(Offered)
    /\ pc \in {"idle", "parsing", "finish"}
    /\ outcome \in Fault \cup {"none", "ok"}
    /\ maxParserDepth \in DepthLimits
    /\ maxStringLength \in LengthLimits
    /\ calls \in 0..MaxCalls
    /\ \A i \in 1..Len(frames) : FrameTypeOK(frames[i])
    /\ pc # "parsing" => frames = <<>>

(* Every frame but the innermost is ready to take the container above it:  *)
(* it is a list, or a dictionary whose key has been read.  The loop never  *)
(* tests this when it pushes, only when it pops (completeFrame).           *)
StackReady ==
    \A i \in 1..Len(frames) - 1 :
        frames[i].type = "list" \/ frames[i].awaitingValue

(* In every open dictionary the keys attached so far ascend strictly, and  *)
(* lastKey, the string the loop compares with, still is the key of the     *)
(* last entry although that key has been moved out of the frame.           *)
KeyDiscipline(f) ==
    f.type = "dictionary" =>
        /\ Len(f.keys) = Len(f.items)
        /\ \A i, j \in 1..Len(f.keys) : i < j => f.keys[i] < f.keys[j]
        /\ IF f.awaitingValue
           THEN f.currentKey = f.lastKey /\ (f.keys # <<>> => Last(f.keys) <= f.lastKey)
           ELSE f.keys # <<>> => Last(f.keys) = f.lastKey
OpenKeysOrdered == \A i \in 1..Len(frames) : KeyDiscipline(frames[i])

(* The checks the code repeats in completeFrame ("missing key") and in     *)
(* appendSorted ("append order") are never what rejects a source.          *)
DefensiveChecksSilent == outcome \notin {"missing key", "append order"}

(* A call that fails leaves the document as it was, whatever it had built. *)
(* Two exceptions the code makes: text after a complete value is found     *)
(* only when the root has been replaced, and the build without exceptions  *)
(* has already written a cut root string into the root.                    *)
FailureKeepsRoot ==
    pc = "idle" /\ root # before =>
        \/ outcome \in {"ok", "trailing"}
        \/ ~Exceptions /\ outcome = "truncated" /\ root.type = "string"

(* Every iteration of the loop moves the source forward or ends the        *)
(* parser's part of the call, so a finite source cannot keep it busy.      *)
IterationProgress ==
    [][pc = "parsing" => Len(seen') > Len(seen) \/ pc' # "parsing"]_vars

(* Stringifying what parse has just built gives the text it read.          *)
RoundTrip == pc = "finish" => StringifyNodes(root) = seen

(* Every call of parse returns or throws.                                  *)
ParseEnds == pc # "idle" ~> pc = "idle"

LimitsInForce ==
    [depth |-> maxParserDepth, length |-> maxStringLength,
     dynamic |-> DynamicAllocation, capacity |-> MaxContainerSize]

(* parse assigns the root before it looks for trailing text, one step      *)
(* before it returns: until then the caller has the old document.          *)
Contract == INSTANCE ParseContract WITH
    busy <- pc # "idle",
    text <- IF More THEN Append(seen, look) ELSE seen,
    ended <- ~More,
    root <- IF pc = "finish" THEN before ELSE root,
    lim <- LimitsInForce

(* Every call implements the contract: the tree it leaves is the one       *)
(* recursive descent builds from the text read, it fails only where no     *)
(* source that begins with that text is one recursive descent takes under  *)
(* the limits now in force, and a failed call leaves no trace.             *)
ImplementsContract == Contract!Spec

------------------------------------------------------------------------------
(* What the documents of the library say of the program. *)

(* docs/EMBEDDED.md:78: without exceptions "parse functions return         *)
(* `ParseStatus` instead of throwing".                                     *)
NothingThrown == outcome \in Fault => ~Reported(outcome).thrown

==============================================================================
