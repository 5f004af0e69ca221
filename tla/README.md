# Bencode_Lib in TLA+

A verification development for Bencode_Lib, the C++ library under `src/`: a
parser for bencode, a tree of nodes with a document API, a pool allocator for
the containers of the tree, sources and destinations, and writers for four
formats. TLA+ modules model the parts that carry the library's logic, TLC
checks them on small instances, and TLAPS proves the main invariants for every
value of the constants.

Paths in this file are relative to `src/`; `N/` stands for
`classes/include/implementation/`, `S/` for `classes/source/implementation/`.

## 1. The system

### Components

| Component | Code | State | Operations |
|---|---|---|---|
| Default parser | `S/parser/Default_Parser_Body.hpp`, `N/parser/` | stack of open containers, read position, two process-wide limits | `parse`, `setMaxParserDepth`, `setMaxStringLength` |
| Scalar scanning | same files, `extractInteger` to `copySourceToBuffer`, `appendInteger` | digit buffer, accumulator | read an integer, a length, a payload; write them back |
| Document API | `N/Bencode.hpp`, `S/Bencode_Impl.cpp` | the root node | `parse`, `operator[]`, assignment, `stringify`, `traverse`, `toFile`, `fromFile` |
| Node tree | `N/node/` | a variant per node; a container is owned by one `unique_ptr` | subscripts, assignment, construction |
| List, Dictionary | `N/variants/` | entries; sorted keys | `add`, `appendSorted`, `resize`, search |
| FixedVector | `N/variants/Bencode_FixedVector.hpp` | array and size | what `std::vector` offers, up to a capacity |
| Object pool | `N/node/Bencode_Node.hpp:26-87` | a free list per thread, four atomic counters, memory | `acquire`, `release`, `getStats` |
| Sources | `N/io/Bencode_*Source.hpp` | bytes, position, remembered byte | `current`, `next`, `more`, `reset`, `close` |
| Destinations | `N/io/Bencode_*Destination.hpp` | bytes, count, last byte | `add`, `clear`, `close`, `last`, `size` |
| File helpers | `S/file/Bencode_FileIO.cpp` | an open handle, a buffer | `toFile`, `fromFile` |
| Bencode stringifier | `N/stringify/Default_Stringify.hpp` | none | a walk over the tree |
| Traversal | `N/Bencode_Impl.hpp:102-122`, `classes/include/interface/IAction.hpp` | the action's own | a walk with callbacks |
| Example analyzer | `examples/include/Bencode_Analyzer.hpp` | counts and sets of views | a callback per kind of node |
| JSON, XML, YAML stringifiers | `N/stringify/`, `N/translator/` | a shared translator | a walk over the tree |

### How they interact

`Bencode::parse` hands a source to `Default_Parser`, which asks it for one byte
at a time, builds containers with `List::add` and `Dictionary::appendSorted`
and gives the finished node to `Bencode_Impl`, which makes it the root and then
looks for text behind it. Every container the parser or a subscript makes is
allocated by the pool of its type and released through the deleter of the
`unique_ptr` that owns it, on whatever thread drops it. Subscripts of `Bencode`
create what is missing; subscripts of `Node` do not, except that a hole turns
into the container the subscript needs and a list grows. Stringifiers and
`traverse` walk the tree and write to a destination or call back.

There are two builds. With `BENCODE_ENABLE_EXCEPTIONS` faults are thrown;
without, the parser returns a `ParseStatus` and writes into the root it is
handed. Independently, containers are `std::vector` or `FixedVector`.

### What is hard

* A container is attached to its parent when it closes, so the checks that
  belong to opening it run much later, on a frame others have touched.
* A call that fails after it has begun to change its target: parse into an old
  root, a subscript into an empty document, an index into a list it clears.
* Arithmetic at the edge of `int64_t`, done without a wider type.
* Positions and references that an insertion into a sorted sequence shifts.
* The pool: free lists are per thread but containers change threads, a release
  releases the children first through destructors, and counters are read while
  they move.
* The C library between the destination and the device, which reports a failed
  write late or to nobody.
* Entries that own what they hold, moved from slot to slot, and slots behind
  the end that nothing clears.
* One file that a destination, a source and the two helpers use in turn, each
  with a buffer of its own.
* Walks that stop in the middle: a traversal at a hole or a callback that
  throws, after others have been told half of the document.
* Writers whose output depends on what was written before, YAML's indentation
  most of all.
* Termination of loops whose every branch must consume something.

### What makes the components correct

| Component | Properties |
|---|---|
| Parser | builds the tree recursive descent defines; refuses only what no continuation could save; a failed call leaves the document; every call ends |
| Scanning | no wrap; accepts exactly what fits; reads back what it writes; the payload stays in its buffer |
| Document | a subscript reaches the entry named and disturbs no other; keys ascend; no empty node in a container; complete documents round-trip |
| Pool | a cell is in one place; nothing lost but by thread exit; counters add up; an owner never points to a released cell; a release ends |
| Sources, destinations | the file classes behave as the in-memory ones |
| Files | whoever wrote last without throwing is what a reader gets; `fromFile` returns everything or throws |
| FixedVector | each call does to a bounded sequence what its name says, or throws and changes nothing; every entry has one owner until it is released |
| Traversal | callbacks in the order of the text, and all of them when it returns; an analyzer's numbers are those of the documents |
| JSON, XML, YAML | an independent reader finds the document in the text; for which documents it does not |

## 2. Modules and the code they model

`map` in `PROJECT.json` gives the lines of every definition.

**`BencodeNode`** Nodes as values (type, value, keys, items) and lexemes. Text
is a sequence of lexemes - container openings, `e`, well formed scalars, and
one lexeme per way a scalar can be malformed - so that the parser model is
about structure; `ScalarScanner` goes down to characters. Strings and keys are
naturals whose order stands for the order of strings and whose value stands for
their length where the length limit matters.

**`DefaultParser`** `Bencode_Impl::parse` with `parseIterative`. One action per
branch of the loop: `OpenContainer` and `OpenTooDeep` (`pushFrame`),
`CloseContainer` (`popFrame`, and the attachment to the frame below),
`ReadScalar`, `RejectScalar`, `ReadKey`, `KeyOutOfOrder`, `RejectKey`,
`UnexpectedEnd`, `RootScalar` and its two refusals (the path by `parseNodes`),
and `HandleParseResult` (text behind the value). `frames` is the stack;
`Exceptions` and `DynamicAllocation` select the build. The source reveals its
text as it is read: the next lexeme is chosen when the read position moves,
which covers every text within the bound. `Reported` says what the caller sees
of a fault in either build.

**`RecursiveParser`, `ParseContract`** The abstract specification: a call of
`parse` leaves the tree its text denotes, or the document as it was.
`ParseText` is the library's own recursive `parseNodes` half over the same
lexemes. The two halves count depth differently - recursion tests the depth for
scalars too - so the contract has a margin of one level.

A call that fails has seen only the beginning of its source, and a text that
ends in an open container denotes nothing, so that such a text has no tree would
excuse any refusal. `Reject` therefore asks more: of all sources that begin with
what the call has looked at, recursive descent takes none. `Endings` is what a
source may go on with - every sequence of lexemes in the proof, in the runs
enough of them to complete any text that can be completed - and `ended` says
that the call has seen the end of the source, so that there is nothing more.

**`DefaultStringify`** Tree to lexemes; a hole is written as nothing.

**`DocumentText`** The text of a document that statements built, and what the
parser makes of it. `Limits` are those of that parser, which need not be the
build's; `WithinLimits` says that a node keeps them at its depth. It only states
properties and adds no step to `Document`.

**`ScalarScanner`** One scalar read character by character. The digit buffer
has `BufferSize` places; `MaxValue` is the largest `IntegerType`, the least is
one further from zero, and unsigned arithmetic is modulo `2 * (MaxValue + 1)`.
Actions follow `extractInteger` (`i`, sign, digits, `e`), `convertToInteger`
(the division test, the cast and negation), `parseString` (length, colon,
limit, payload). `IntegerToUnsigned` and the writing of digits give the way
back.

**`Document`, `DocumentContract`** Statements `document[k][i] = v`. `root` is
the tree, `slots` the reference the chain of subscripts has reached (positions
in the tree), `path` what the caller wrote. `RootKey` and `RootIndex` are
`getOrCreateRootEntry`, `NodeKey` and `NodeIndex` the subscripts of `Node`,
`Assign` is `Node::operator=` from a scalar or an initializer list, `Drop` the
end of a statement that only reads. All throw: the action then leaves what the
code has done up to the throw. The code changes the tree in place; a value is
rebuilt along the reference instead (`Along`, `Rebuilt`). The contract sees a
document as a map from paths to scalars and says which of them a step may
touch. `Depths` says how far down the properties look: `Nat` in the proofs, in
the run a depth that holds every node of the instance. `ElementsAssumption`
says what callers hand over: nodes as the library builds them, in lists and
pairs with any keys in any order. A default-constructed `Node`, which is empty,
could be put into an initializer list as well; nothing in the repository does,
and the assumption leaves it out.

**`Allocator`, `ObjectPool`** The pool of one container type and the trees of
that type. A cell's memory is with the system, holds an object, is a link of a
free list, or is lost with the thread that listed it. `CountAcquire`,
`Reuse`/`Create`/`OutOfMemory` are the steps of `acquire`; `Release`,
`ReleaseChild` and `Link` those of `release`, which runs the destructor - and
so the releases of the children - before it links the cell. `Adopt` and
`HandOver` move containers into each other and between threads, `Exit` ends a
thread, `ReadCounter` is one of the four loads of `getStats`. The abstract
allocator only grants cells nobody holds and takes them back.

**`VectorCalls`, `BoundedSequence`, `FixedVector`** `VectorCalls` has the calls
that change a vector: an operation with its position, size or index and its
entry. `BoundedSequence` is what the users of the class rely on: `Ask` makes a
call, `Answer` carries out on a sequence the operation of that name, or answers
with the error for want of room (`runtime_error`) or of a place
(`out_of_range`) and changes nothing (`Verdict`). `FixedVector` is the array,
the size, and the loop of `insertImpl` as one step per slot (`shift`, then
`place`); each other operation is a step. An entry owns something, so assigning
to a slot releases what was in it, and a slot that was moved from is `Hollow`.
An entry stays its caller's until it is moved in. `request` and `outcome` are
the same in both, so the refinement pairs each call with its own answer.

**`Source`, `FileSource`** `Source` is `ISource` as `BufferSource` realises it;
`FileSource` peeks with `fgetc` and `ungetc` on a device whose reads may fail.
`close` ends the use of the `FILE` and `construct` opens the file anew.

**`Destination`, `FileDestination`** `Destination` is `IDestination` as
`BufferDestination` realises it. `FileDestination` writes through the buffer of
a `FILE` to a device of bounded capacity; `fwrite`, `fflush` and `fclose` are
external and modelled from what the code asks of them.

**`FileHelpers`** `toFile` and `fromFile` with one `fread` per step.

**`Files`** composes the three: one file, which a `FileDestination`, a
`FileSource`, `toFile` and `fromFile` use in any order. The contents of the
file are shared, everything else stays with its module. There is one writer at
a time and no writer next to an open `FileSource`; `fromFile` may read beside
an open `FileDestination`. `meant` and `sure` are history: what the writers
that returned have put in the file, and whether one of them has thrown.

**`Traversal`** `Bencode::traverse` with `Bencode_Analyzer` as the action.
`walk` is the stack of `traverseNodes`: a node and the entry that is next.
`VisitNode` is `onNode`; `VisitInteger`, `VisitString` and `VisitContainer` are
the branches with their callbacks; `NextEntry` the loops; `UnknownType` the
throw at a hole; `CallbackThrows` an action that throws. `OnString` to
`OnDictionary` are the callbacks of the analyzer, which is kept from one
traversal to the next.

**`Translators`, `JSONStringify`, `XMLStringify`, `YAMLStringify`** The texts
as sequences of characters. Of the bytes `isprint` refuses there are two: a
control character that XML forbids even as a reference, and the end of a line.
Keys are written as they are, in XML with dashes for spaces. `XMLStringify` and `JSONStringify` are functions of
the tree; `YAMLStringify` passes the text so far along, because a line's
indentation is written only if the destination's last character ended a line.
**`WrittenText`** reads the three formats back; it follows the formats, not the
writers, and is the reference the texts are checked against. The reader of JSON
and YAML refuses control characters and line ends inside quotes; the one of XML
refuses elements whose name is none, tags that do not match, characters and
references XML 1.0 does not allow, and text around the root.

**`MCParser`, `MCDocument`, `MCFiles`, `MCWalks`** give constants small values,
compose a component with its contract or with others, and state properties that
span them. `MCParser` has the endings of texts. `MCWalks` puts the traversal and
the three writers on the same documents.

**`DefaultParserProofs`, `ScalarScannerProofs`, `DocumentProofs`,
`TraversalProofs`, `ObjectPoolProofs`, `FixedVectorProofs`, `FilesProofs`**
hold the theorems, **`Foundations`** the forms of induction and the facts about
references into trees that several of them use.

Mutants sit before the definition they spoil, marked "Mutant": bugs the
properties were seen to catch.

## 3. Runs

| Run | Shows | Instance | States |
|---|---|---|---|
| `parser_exceptions` | every text the parser takes becomes the tree recursive descent defines and is written back as that text; it refuses only what recursion refuses however it goes on, and then leaves the document; a second call keeps all this under the limits then in force | up to 7 lexemes, then a call of up to 3; depth limits 0, 1, 4, length limits 0, 1, containers of 3 entries | 1,776,154 |
| `parser_status` | the build without exceptions: what failed calls leave, that two calls share nothing but the document and the limits, that every call ends | up to 5 lexemes, 2 calls, depth limits 0, 3, containers of 2 entries | 383,524 |
| `scanner` | which scalars are accepted, with which value; no wrap; text and value correspond both ways; every scan ends | 8 bit `IntegerType`, buffer of 4, strings up to 3 | 1,935,445 |
| `document` | statements of two subscripts implement the map from paths to scalars; references denote what was named; dictionaries ascend; complete documents round-trip | 2 keys, capacity 2, indices -2..2, lists of two scalars, 2 subscripts | 161,486 |
| `pool_two_threads` | all interleavings of acquire, release, nesting, handing over, thread end, memory exhaustion and an observer | 2 threads, 3 cells, 3 acquires | 125,612 |
| `fixed_vector` | each call of `FixedVector` does to a sequence of bounded length what its name says or throws its error; entries have one owner until released | 3 slots, 5 entries, every position and size | 580,562 |
| `files` | a file used by everything the library has for files, on a device that fills up and fails: writers that did not throw have written all, readers get all, both file classes implement their interfaces, calls end | bytes 0 and 255, files up to 3 bytes, texts up to 5, chunks of 2, device of 4 | 165,371 |
| `walks` | order and completeness of callbacks, numbers of the analyzer, exactly which documents the JSON, YAML and XML texts mean to readers, traversals end | documents up to 4 levels deep with 2 entries per container; 7 strings, each also as a key; 2 documents with one analyzer | 198,208 |
| `status_never_throws`, `canonical_integers`, `reading_breaks_output`, `write_errors_throw` | see section 6 | | |

The runs `scanner` and `pool_two_threads` and those of `MCWalks` let the system
stop: a scan is over when it has its verdict, no document is traversed once the analyzer has
counted `MaxCounted` nodes, and the pool's process terminates when `operator
new` fails inside the `noexcept` constructor of `Node`.

### Why the bounds are enough

*Lexemes.* Seven hold a list of three entries beside an empty container, a
dictionary with two entries in either order of keys and with equal keys, and
three nested containers, which is one below the largest depth limit; so every
branch of the loop runs on a frame whose neighbour was touched before. Limits 0
and 1 are the ones for which the unsigned comparison is at its edge.
*Endings.* At most three containers are open (the depth limit is 4), and
what is open needs at most one value, where a key or nothing has been read for
it, and the closings: `MCEndings` has all of these, so a text that one of its
sources completes is completed by one of them. The string limits play no part,
since the value is an integer.
*Calls.* With three lexemes the second call can nest containers, close one, or be
refused by the limits 0 and 1, which may be smaller, larger or the same as for
the first call, and whatever the first left. The parser object keeps nothing between calls but the root and the
limits; a third call starts as the second does.
*Scanner.* With `MaxValue` 127 there are numbers of fewer, as many and more
digits than the type has, both neighbours of either end of the range, and
buffers that run full on a digit. Nothing in the code depends on the width but
these limits, and the proofs hold for every `MaxValue` above 9.
*Document.* Two keys can be entered in both orders and shift each other, a
container is full at two entries, an index may be at, behind and one beyond the
end, -1 and below. Two subscripts go through every pair of subscript kinds on
every tree that earlier statements left; the number of statements is not
bounded, the trees are. Lists are assigned with two entries; an empty one comes
of the index -1. `MCDepths` is one below the last subscript, where the entries
of an assigned list are, so the properties see every node. `MCLimits` has the
least depth that the deepest document needs and a length that its longest keys
reach, so the parser reads at its limits. The theorems hold for any depth,
width, keys, initializers and limits.
*Pool.* Two threads suffice for a cell to move between lists, and three cells
for a container with two levels below it or two siblings; the proofs hold for
any number of each. The number of acquires is bounded only to keep the counters
finite.
*Fixed vector.* An insertion at the front of two entries shifts both and fills
the last slot; five entries are enough to fill the array, leave some behind the
end and overwrite them. The theorems hold for every capacity.
*Files.* Chunks are smaller than a file, equal to it, and divide its length;
the device is full before, at and behind the end of a write; a byte is 255,
which as a `char` is `EOF`. `MaxAdded` is one more than the device holds.
*Walks.* Documents have a hole in every position of containers in containers,
empty containers below keys, list entries and the root, lists with one entry,
and strings with the characters that translators and readers treat differently:
a blank, a quote, a backslash, `<`, `&`, `>`, `'`, the end of a line, a control
character, none at all. Every string is also a key, alone and beside another.
`MaxCounted` lets one analyzer go through
a scalar, or the beginning of a document that a callback gave up, and then
through any other document; what it adds for a node does not depend on how much
it has counted, but for the sets and maxima, which start from those of the
first document.

### Fairness

Only loops that belong to a call already running are fair: a thread inside
`parse`, inside `release`, inside `traverse`, inside `toFile` or `fromFile` and
the scanner inside one scalar keep running, which is what a scheduler gives a
runnable thread that holds no lock; nothing in the library blocks. Nobody has
to call anything, so `Parse`, `Release`, `CountAcquire` and the like are not
fair. In the pool the fairness is per cell that is being released, because two
threads release different cells and weak fairness of their disjunction would
let one starve.

## 4. Properties

Each is stated above its definition. The ones worth a reader's time:

* `ImplementsContract` (parser): the loop and the recursion are two programs
  for one language; a value delivered to a wrong frame, a fault found late or
  not, a root assigned early all show as a difference.
* `FailureKeepsRoot`: a failed parse leaves the document as it was, with two
  exceptions the code has: text behind the value, and a root string cut short
  in the build without exceptions.
* `DefensiveChecksSilent`: "missing key" and "append order" cannot happen; the
  parser's own test of key order comes first.
* `ValueIsMeaning`, `RefusalsJustified`: an accepted number is the number its
  characters denote; nothing that fits is refused.
* `ReferenceNamesPath`: after every insertion on the way the reference denotes
  the entry that was named.
* `ImplementsContract` (document): a subscript drops no scalar unless it is a
  negative index, which empties its list; an assignment sets what is at and
  below one path.
* `NoFreeCellLost`, `CountersAccountForCells`, `SnapshotShowsAcquires`: memory
  not with the system is in an object, a list or on its way between them; the
  counters say so at all times; `getStats`, which reads them in four steps,
  never shows more acquisitions than cells, but for one under way per thread.
* `NoContainerOutlivesItsOwner`: while a release runs its children, no
  `unique_ptr` of a live container names a cell that is already in a list.
* `ImplementsSequence`, `EntriesOwnedOnce`: whatever is left behind the end of
  a `FixedVector`, what is in front of it is the sequence its users think of,
  and what it owns is never in two slots, lost, or used after release.
* `ImplementsSource`, `ImplementsDestination`: the file classes cannot be told
  from the in-memory ones, except that they may fail.
* `FileHoldsWritten`, `ReadsAllOrThrows`: together, text travels from any
  writer to any reader of the file, unless one of them throws.
* `CallsFollowTree`: the callbacks made are those of the nodes in the order of
  the text, all of them if the traversal returns, up to and including `onNode`
  of the first hole if it throws.
* `AnalyzerAddsUp`: every count of the analyzer against one taken from the
  whole tree, over several documents. `maxStringSize`, which the code compares
  with `maxKeySize` (section 6), is what that makes of it: the size of the last
  string, or of the longest key known by then.
* `JsonMeansQuotable`, `YamlMeansIndented`, `XmlMeansNamed`: the three texts
  read back. Each says exactly for which documents the text means the document:
  in all others something is lost or not well formed (section 6). For JSON and YAML, strings and keys may hold no
  quote and no backslash, and keys no control character, because only strings
  are translated; for YAML, moreover, no empty container may be the value of a
  key. For XML, every key must be a name, no string may hold a control character
  that XML forbids, and a list with one entry may only hold an empty string or dictionary.

## 5. Proofs

TLAPS proves, for every value of the constants that satisfies the named
assumptions:

| Module | Theorems |
|---|---|
| `DefaultParserProofs` | `TypeCorrect`, `CoveredFramesReady`, `KeysStayOrdered`, `DefensiveChecksUnreachable`, `FailedParseKeepsRoot`, `IterationsProgress`, `DescentInvariance`, `ParserImplementsContract`, `ParsedTextIsKept` |
| `ScalarScannerProofs` | `ScannerTypeCorrect`, `ConversionNeverWraps`, `PayloadAlwaysFits`, `MagnitudeExact`, `ValueIsTheTexts`, `NothingRefusedInVain`, `WritesBackWhatWasRead` |
| `DocumentProofs` | `ReferencesStayValid`, `ReferencesNameTheirPath`, `DictionariesStaySorted`, `EntriesAreNeverEmpty`, `CompleteDocumentsRoundTrip`, `DocumentIsMap` |
| `TraversalProofs` | `CallsAreInOrder`, `AnalyzerCountsAreRight` |
| `ObjectPoolProofs` | `PoolTypeCorrect`, `FreeListsStayDisjoint`, `ContainersStayOwned`, `PoolIsAllocator`, `FreeCellsStayListed`, `CountersAddUp`, `SnapshotsAreConsistent` |
| `FixedVectorProofs` | `VectorTypeCorrect`, `EntriesHaveOneOwner`, `FixedVectorIsSequence` |
| `FilesProofs` | `SourceTypeCorrect`, `PeekStaysTrue`, `FileSourceIsSource`, `WritersAreHeard`, `ReadersGetAll`, `SharedFileSourceIsSource`, `SharedFileDestinationIsDestination` |

**Assumptions.** Builds are Booleans, limits and capacities naturals, sources
finite over any set of strings. `MaxValue` is above 9 (a digit fits), the
buffer holds two characters, and it is long enough that a number which fills it
is out of range (`DigitsAssumption`): the code makes it `digits10 + 2`
characters long. Elements put into a document are well formed
(`ElementsAssumption`), and `DocumentIsMap` takes `Depths` for `Nat`: it is
about documents of any depth, and scalars below the depth looked at would come
into view or leave it. `CompleteDocumentsRoundTrip` does the same, and takes
the elements for trees of finite depth (`FiniteElements`), as everything the
program can build is: a document that goes down without end has no text.
`CallsAreInOrder` assumes of `Roots` that they are in a set with all the nodes
inside them, each of finite depth, and that only containers have entries
(`Complete`), which `Node` ensures; `AnalyzerCountsAreRight` also that strings
and keys have a length and that only dictionaries have keys (`Numbered`). A vector has a slot; bytes are below 256, a chunk is not
empty and a file that is there at first fits on the device; the pool has a
finite set of threads, any set of cells and a value that is neither.

**Induction.** The library states induction for an operator, which the provers
cannot instantiate. `Foundations` proves from the well-foundedness of the
naturals that a nonempty set of them has a least element, and from that
induction for sets; a proof applies it to the set of numbers for which its
claim holds. That reaches recursive functions on numbers and on positions in a
sequence. What goes through a tree is a recursive function too, of the
references into that tree (`References`, `Along`): a reference is a sequence of
slots, and so of finite length. `TreeInduction` is induction over the nodes of a
tree, for sets of nodes whose references have a longest one (`FiniteDepth`).

**Parser.** The invariants are proved together: that a covered frame can take
the container above it needs the keys in order, which needs `lastKey` to be the
last key read, which needs each frame to be well typed. `IInv` is the type
invariant with frames over *some* set of nodes - what a tree may hold is a
recursive set, and the proof needs only that frames hold whatever was
delivered - with these parts joined in `StackInv`, and says in addition that a
running call has not touched the root. The defensive checks being dead is then a fact
about a single state; `IterationProgress` follows from the shape of the actions and the type of `seen`.

*The contract.* The loop knows only what it has read; recursive descent is
given the whole text. `DescentInStep` relates the two for every text that
continues what was read and for all limits: the frame at level i was opened by
the lexeme numbered `opened[i]`, and its entries are those recursive descent
has after as many turns from there on (`Tracked`, `InStep`). When a level is to
spare, descent has not failed there; the one level by which the two depth
limits differ is where it may have. A lexeme moves the innermost frame by one
turn, a closed container is one turn of the frame around it, and a refusal
stalls the innermost frame, which fails every container up to the root
(`StackFails`). Because all this holds for every text that continues what was
read, it holds for each source that a call which fails may have been reading
(`PossibleTexts`), inside open containers as well; the lexemes of `Endings` are
those a source offers, their length is free. `ParserImplementsContract` then has
each step as one of `ParseContract` or a stutter. It is for the build with exceptions: the other
one leaves a root string that was cut short in the document.

*The round trip.* `TextKept` says that the texts of the open frames, one after
another, are the lexemes read. The text of a tree is a recursive function of
its references; that there is such a function, and that all of them agree on
the root (`HasText`), follows for a node from the same for its entries. A
frame's entries were delivered with it, so the invariant carries it from the
leaves to the root and no induction over trees is needed.

**Scanner.** That the conversion never wraps needs `result` at or below the
limit, and the limit depends on the sign, so the invariant also says that the
buffer holds digits behind an optional minus, that nothing is added to `result`
before the conversion, and that a negative number's conversion starts behind
the sign. With the division test this gives `result * 10 + digit` at or below
the limit before it is computed. Bounds on the buffer come from the same shape.

What a text says is `Denoted`, a recursive function of its digits, defined
without the code's limits. `MeaningInv` adds to the invariant that `result` is
what the digits up to `index` denote and, after the conversion, that `value` is
the meaning of the text. An overflow is then justified because a longer text
denotes no less, and a full buffer because a text of its length whose first
digit is not zero denotes no less than the least of them (`DigitsAssumption`).
For the way back, `DigitsOf` is shown to denote its argument and to have no
leading zero, and a number to have only one such text.

**Document.** What a tree may hold is a recursive set, and the proofs do
without it: a tree belongs to some set of nodes that has with each node those
inside it (`Closed`), each well formed and none of them empty. `DocumentInv`
says that the root is in such a set which also has the elements callers assign
(`Sound`), that the reference is valid, that the path is typed, and
`ReferenceNamesPath` itself. A subscript makes a node that fits over the old
set (`Answers`); rebuilding along the reference gives a set with the new nodes
in it (`Rebuilding`, by induction from the end of the reference to the root).
Sorted keys and no empty entries are then read off the set. That the reference
still names the path after an insertion comes from `LowerBound` splitting the
keys: the slots it moves are to the right of the one the reference takes.

`DocumentIsMap` has three parts. The scalars of a container are those of its
entries, each below the subscript of its entry. What a subscript makes of a
node has that node's scalars: the entry it adds is a hole, a hole has none, and
only a negative index takes any away. And replacing the node at a reference
replaces exactly the scalars whose path goes through it, because two references
with the same path are the same: keys differ, and so do indices. Each step of
`Document`, those that throw halfway included, is then a step of
`DocumentContract` or a stutter.

*The text of a document.* `CompleteDocumentsRoundTrip` says of everything
statements can build what the parser's round trip says of everything it can
read. `Sound` adds that the set the root is in has only nodes of finite depth if
the elements have: a node over finitely many of them is one deeper than the
deepest (`FitsFinite`), and so from the end of a rebuilt reference to the root.
Induction over trees then gives every node its text (`AllWorded`) and shows that
recursive descent makes the node of it wherever in a longer text it stands
(`AllRead`). For a container that is an induction over its entries: where the
text of the container stands, the texts of key and value stand one after another
(`EachStands`), the loop takes an entry per turn (`EntryTurn`) because keys
ascend and the limits hold, and then the end (`ContainerReads`).

**Traversal.** `Preorder` is the order of the nodes, a recursive function of the
references into the tree; induction over trees shows that a node's order is the
node and then the orders of its entries (`AllOrdered`). `WalkInv` cuts the order
of the document in two or three: the nodes whose callbacks were made (`seen`),
perhaps one that is between `onNode` and the callback for its type, and `rest`,
which is what the frames of the walk have left, from the innermost out
(`RestOf`, `Rests`). The callbacks are those for `seen`. Each step moves a node
from `rest` to the middle, from there to `seen`, or changes only how the frames
divide `rest`. `seen` has no hole, because a node gets there by a callback for
its type, so the node at which `traverse` throws is the first hole, and a prefix
of the order gives a prefix of the callbacks (`CutAtHole`).

`AnalyzerAddsUp` is proved with the same cut: `Counts` says of `seen` what the
property says of all nodes, and `totalNodes` is one ahead while a node is
between its two callbacks. What each callback does to the other members
is one predicate (`Tallied`), which `CountsOneMore` adds to the sums, sets and
maxima; the loop of `onDictionary` over the keys is an induction of its own
(`KeysAreCounted`). Two things hold of an analyzer whatever it has walked
(`Measured`): its members are numbers and sets of them, and `maxKeySize` is the
longest of `uniqueKeys`. The second is what makes the property inductive from
one document to the next, because that maximum is taken over all of them. It is
also what `maxStringSize` is compared with: `StringSizeKept` names the last
string of `seen` and the keys before it (`SizeOneMore`).

**Pool.** `PoolInv` adds one thing to the type invariant and the two safety
properties: what is dying is a container, and only containers have owners.
Without it `Link` could push a cell that was pushed before. The refinement maps
granted cells to those that hold an object; `Reuse` and `Create` grant, `Link`
takes back, everything else stutters.

`AccountInv` adds where the free cells are and what the counters say. The cells
need not be finitely many, so it says that those in use are: only then do their
numbers follow the counters. Each counter moves with one set - `created` with
the cells taken from the system, `acquired` with the threads inside `acquire`,
`released` with the containers that are dying - and the three equations of
`CountersAccountForCells` are inductive together. For the observer, `SeenSoFar`
says what holds after one, two and three counters were read: the acquisitions
seen are at most the cells handed out, of which the ones still to be read are
taken from the running counters, plus one per thread.

**Fixed vector.** `TypeOK` says where the loop of `insertImpl` is: between its
place and the end, with a slot to spare. `EntriesOwnedOnce` is inductive with
it: the only slot that was moved from is the one the loop fills next, so
overwriting it releases nothing. For the refinement the slots are read as a
sequence that leaves the slot the loop fills next out (`Content`); a turn of
the loop does not change it, and `place` is the insertion. The request is the
same on both levels and is there until it is answered, so that what must be
shown of each last step is that it is the answer `Verdict` gives: the guards of
the actions and those of the sequence agree (`AdditionAnswers`,
`ChangeAnswers`, `RefusalAnswers`).

**Source.** The remembered byte is the next one or none (`RememberedIsNext`);
from this every step of `FileSource` is a step of `Source` or a stutter.

**Files.** `FilesInv` joins `SourceInv` with types, the property itself
(`Held`), and what it needs to be inductive: while a destination is open
`meant` is what was added to it, without one nothing is pending, and `toFile`
runs alone (`OneWriter`); what `fromFile` has in its buffer is the file up to
its position (`ReadSoFar`). `WrittenAppends` says what is in the file after a
write that the device may cut short. Both refinements follow as in the single
modules, with one more case: a step of another user of the file stutters, or
rewrites the input of a source that is closed.

**Only model-checked.** Liveness (`ParseEnds`, `ScanEnds`, `ReleasesEnd`,
`CallsEnd`, `TraversalEnds`): the prover has no rules for fairness.
Of `walks`, the properties of the writers, which compare with readers that are
recursive operators.

## 6. Where documents and code disagree

| Run | Document says | Code does |
|---|---|---|
| `status_never_throws` | `docs/EMBEDDED.md:78`: without exceptions, parse functions return `ParseStatus` instead of throwing | a cut string, a duplicate key and a full `FixedVector` throw |
| `canonical_integers` | `Default_Parser_Body.hpp:40`: no leading zero, not empty | the test looks at the first character, which may be the sign: `i-e` and `i-01e` are accepted |
| `reading_breaks_output` | `docs/API.md:29`: `stringify` writes bencode | reading an absent key leaves a hole; `stringify` writes the key and no value |
| `write_errors_throw` | `README.md:239`: all errors are thrown as exceptions | the results of `fflush` and `fclose` are ignored, so a full device can swallow bytes. The property is about `FileDestination`; `toFile` also ignores the `fclose` in the destructor of its handle |

More were met while modelling and have no run of their own. `docs/API.md:79`
promises `SyntaxError` for every parsing error, while a cut string is
`ISource::Error` and an integer beyond 64 bits `std::out_of_range` (`Reported`
in `DefaultParser` lists them). `docs/API.md:81` promises `Node::Error` for
node errors, while an index below -1 ends in `std::length_error`, or
`std::runtime_error` with `FixedVector` (`CapacityError` in `Document`). A
comment in `tests/source/parser/Bencode_Lib_Tests_Parse_Misc.cpp:181` takes the
depth limit for inclusive, while `pushFrame` refuses the container that would
reach it; the text the test parses has nine lists, not ten.

`Bencode.cpp:77-81` says that the non-const `traverse` lets an action change the
tree; both call `traverseImpl`, which is const, so actions only get const nodes.

`README.md:10` offers "built-in support for converting Bencode to JSON, XML, and
YAML". The run `walks` says exactly for which documents the writers keep that:
leave a condition of `JsonMeansQuotable`, `YamlMeansIndented` or `XmlMeansNamed`
out and TLC finds a document that is not converted.

* Quotes and backslashes in strings are not escaped, and keys are not translated
  at all (`DefaultCharacter`, `JsonEntry`, `YamlKey`): the list of `a",a` is
  written as `["a",a"]`, and a key with a line end or a control character is
  neither a JSON string nor a YAML key.
* In YAML an empty container that is the value of a key is written as `[]` or
  `{}` on a line of its own without indentation, which is no value for that key
  (`EmptyBelowKey`).
* In XML the entry of a list that has only one is dropped (`LosesEntry`): the
  list of 7 is `<Row></Row>`. A key that is not an element name, the empty one
  for instance, and a reference to a control character that XML 1.0 forbids
  make the text ill-formed.

`Bencode_Analyzer.hpp:79` prints "Bencode Tree max string size", but line 21
compares the size of a string with `maxKeySize` instead of `maxStringSize`: what
is printed is the size of the last string or of the longest key.
`AnalyzerAddsUp` states what the code computes (`StringSizeKept`).

## 7. Not modelled

* **The shared translator**: every constructor of `JSON_Stringify`,
  `XML_Stringify` and `YAML_Stringify` replaces the translator of all writers
  of its format. The writers are modelled with the translators they make for
  themselves, which is how every test, example and document makes them.
* **Reading JSON, XML and YAML**: the library does not; `WrittenText` is a
  reference and knows only as much of the formats as a tree of bencode needs.
* **Some characters in the writers**: bytes above 127, for which `isprint` is
  undefined where `char` is signed; tabs, DEL and other spaces, which the
  formats each treat in their own way, and keys of more than 1024 characters,
  which YAML does not take.
* **References kept across statements**: `Document` follows one statement at a
  time, and its reference ends with it. What it is worth afterwards depends on
  the build, and the library promises nothing about it.
* **A move of a whole `FixedVector`**: the defaulted move leaves the size of
  the source behind. Containers move by moving the `unique_ptr` that owns them.
* **A limit set while another thread parses**: a data race the library gives
  its users no permission for; limits change between calls.
* **`isdigit` of a negative `char`**: undefined in the standard; the scanner
  takes the answer no, which common C libraries give in the C locale.
* **Growth of the pool**: cells are never returned to the system, so a thread
  that only builds trees for another to drop allocates without end. Nothing
  promises a bound.
* **`resetStats`**, used by the benchmark before it starts any work.
* **Trees of several container types in the pool**: there is one pool per type
  and they share nothing; the model has one type nested in itself.
* **Opening a source that cannot be opened**, moving a file handle, the build
  without file I/O: each only throws, or happens before there is state.
* **Other examples, tests, build files, vendored code**: the examples that read
  torrents and print statistics are straight line users of the document API.

## 8. Order of the work, and what is left

Modelled in this order: `BencodeNode`, `DefaultParser` with its contract and
proofs; `ScalarScanner` with proofs; `Document` with its contract; `ObjectPool`
with proofs; `FileSource`, `FileDestination`, `FileHelpers`; then `Traversal`
and the writers, `FixedVector` with proofs, and `Files` with proofs; then the
proofs of what numbers mean, of `Document` with its contract, of the parser
with its contract and the writer, of the text of documents, and of `Traversal`.

Left, by importance: references that outlive a statement, with the address of a
slot in either build; two writers and the translator they share; limits that
change while a parse runs; for proof, the JSON, XML and YAML writers, once their
readers are recursive functions of positions as the parser's is.
