------------------------- MODULE DefaultParserProofs -------------------------
(***************************************************************************)
(* Proofs about the parser loop, for every build, every limit and every    *)
(* source.                                                                 *)
(***************************************************************************)
EXTENDS DefaultParser, Foundations

(***************************************************************************)
(* Nodes are built from nodes, so they have no set of their own to range   *)
(* over; N is any set that holds the items of the frames.                  *)
(***************************************************************************)
FrameOver(N) ==
    [type : ContainerType, keys : Seq(Nat), items : Seq(N),
     lastKey : Nat, currentKey : Nat, awaitingValue : BOOLEAN]

StackOf(s) == \E N : s \in Seq(FrameOver(N))

\* A frame that can take a completed value.
Ready(f) == f.type = "list" \/ f.awaitingValue

LEMMA FrameOverMonotonic ==
  ASSUME NEW N, NEW M, N \subseteq M, NEW s \in Seq(FrameOver(N))
  PROVE  s \in Seq(FrameOver(M))
<1>1. Seq(N) \subseteq Seq(M)
  BY SeqMonotonic
<1>2. FrameOver(N) \subseteq FrameOver(M)
  BY <1>1 DEF FrameOver
<1> QED BY <1>2, SeqMonotonic

(* Adding a value to a frame that accepts it keeps its keys in order.      *)
LEMMA AttachedInOrder ==
  ASSUME NEW N, NEW f \in FrameOver(N), NEW node,
         KeyDiscipline(f), AttachFault(f) = "none"
  PROVE  /\ Attached(f, node) \in FrameOver(N \cup {node})
         /\ KeyDiscipline(Attached(f, node))
<1> DEFINE g == Attached(f, node)
<1>1. f \in FrameOver(N \cup {node})
  BY SeqMonotonic, N \subseteq N \cup {node} DEF FrameOver
<1>2. /\ Append(f.items, node) \in Seq(N \cup {node})
      /\ Len(Append(f.items, node)) = Len(f.items) + 1
  BY <1>1, AppendProperties DEF FrameOver
<1>3. CASE f.type = "list"
  BY <1>1, <1>2, <1>3 DEF Attached, FrameOver, KeyDiscipline
<1>4. CASE f.type = "dictionary"
  <2>1. f.awaitingValue /\ f.currentKey = f.lastKey
    BY <1>4 DEF AttachFault, KeyDiscipline, FrameOver
  <2>2. f.keys \in Seq(Nat) /\ f.currentKey \in Nat /\ Len(f.keys) = Len(f.items)
    BY <1>4 DEF KeyDiscipline, FrameOver
  <2>3. f.keys # <<>> => Last(f.keys) < f.currentKey
    <3> SUFFICES ASSUME f.keys # <<>> PROVE Last(f.keys) < f.currentKey
      OBVIOUS
    <3>1. Last(f.keys) <= f.lastKey
      BY <1>4, <2>1 DEF KeyDiscipline
    <3>2. Last(f.keys) # f.currentKey
      BY <1>4, <2>1 DEF AttachFault
    <3>3. Last(f.keys) \in Nat
      BY <2>2, EmptySeq, ElementOfSeq DEF Last
    <3> QED BY <2>1, <2>2, <3>1, <3>2, <3>3
  <2> DEFINE ks == Append(f.keys, f.currentKey)
  <2>4. /\ ks \in Seq(Nat) /\ ks # <<>> /\ Len(ks) = Len(f.keys) + 1
        /\ \A i \in 1..Len(f.keys) : ks[i] = f.keys[i]
        /\ ks[Len(f.keys) + 1] = f.currentKey
    <3> HIDE DEF ks
    <3> DEFINE fk == f.keys
               fc == f.currentKey
    <3>1. fk \in Seq(Nat) /\ fc \in Nat
      BY <2>2
    <3> HIDE DEF fk, fc
    <3>2. /\ Append(fk, fc) \in Seq(Nat) /\ Append(fk, fc) # <<>>
          /\ Len(Append(fk, fc)) = Len(fk) + 1
          /\ \A i \in 1..Len(fk) : Append(fk, fc)[i] = fk[i]
          /\ Append(fk, fc)[Len(fk) + 1] = fc
      BY <3>1, AppendProperties
    <3> QED BY <3>2 DEF ks, fk, fc
  <2>5. g = [f EXCEPT !.items = Append(f.items, node), !.keys = ks,
                      !.currentKey = 0, !.awaitingValue = FALSE]
    BY <1>4 DEF Attached
  <2>6. /\ g \in FrameOver(N \cup {node})
        /\ g.type = f.type /\ g.items = Append(f.items, node) /\ g.keys = ks
        /\ g.lastKey = f.lastKey /\ ~g.awaitingValue
    <3> DEFINE its == Append(f.items, node)
               M == N \cup {node}
    <3>1. f \in FrameOver(M) /\ its \in Seq(M) /\ ks \in Seq(Nat)
      BY <1>1, <1>2, <2>4
    <3>2. g = [f EXCEPT !.items = its, !.keys = ks,
                        !.currentKey = 0, !.awaitingValue = FALSE]
      BY <2>5
    <3> HIDE DEF g, ks, its, M
    <3>3. /\ g \in FrameOver(M) /\ g.type = f.type /\ g.items = its /\ g.keys = ks
          /\ g.lastKey = f.lastKey /\ ~g.awaitingValue
      BY <3>1, <3>2 DEF FrameOver
    <3> QED BY <3>3 DEF its, M
  <2>7. \A i, j \in 1..Len(ks) : i < j => ks[i] < ks[j]
    <3> SUFFICES ASSUME NEW i \in 1..Len(ks), NEW j \in 1..Len(ks), i < j
                 PROVE  ks[i] < ks[j]
      OBVIOUS
    <3>1. i \in 1..Len(f.keys) /\ ks[i] = f.keys[i] /\ f.keys[i] \in Nat
      BY <2>2, <2>4, LenProperties, ElementOfSeq
    <3>2. CASE j \in 1..Len(f.keys)
      BY <1>4, <2>4, <3>1, <3>2 DEF KeyDiscipline
    <3>3. CASE j = Len(f.keys) + 1
      <4>1. f.keys # <<>> /\ Last(f.keys) \in Nat /\ Len(f.keys) \in 1..Len(f.keys)
        BY <2>2, <3>1, LenProperties, ElementOfSeq, EmptySeq, SMTT(40) DEF Last
      <4>2. f.keys[i] <= Last(f.keys)
        <5>1. \A k, l \in 1..Len(f.keys) : k < l => f.keys[k] < f.keys[l]
          BY <1>4 DEF KeyDiscipline
        <5>2. CASE i = Len(f.keys)
          BY <4>1, <5>2 DEF Last
        <5>3. CASE i < Len(f.keys)
          BY <3>1, <4>1, <5>1, <5>3 DEF Last
        <5> QED BY <3>1, <4>1, <5>2, <5>3
      <4> QED BY <2>2, <2>3, <2>4, <3>1, <3>3, <4>1, <4>2
    <3> QED BY <2>2, <2>4, <3>2, <3>3, LenProperties
  <2> QED BY <1>2, <2>1, <2>2, <2>4, <2>6, <2>7 DEF KeyDiscipline, Last
<1> QED BY <1>3, <1>4 DEF FrameOver, ContainerType

------------------------------------------------------------------------------
(***************************************************************************)
(* What the loop keeps true of its stack s under a depth limit d.          *)
(***************************************************************************)
StackInv(s, d) ==
    /\ StackOf(s)
    /\ \A i \in 1..Len(s) - 1 : Ready(s[i])
    /\ \A i \in 1..Len(s) : KeyDiscipline(s[i])
    /\ s # <<>> => Len(s) < d

(* The innermost frame of a stack is one of its frames.                    *)
LEMMA LastFrame ==
  ASSUME NEW N, NEW s \in Seq(FrameOver(N)), s # <<>>
  PROVE  /\ Len(s) \in Nat \ {0} /\ Len(s) \in 1..Len(s)
         /\ Last(s) = s[Len(s)] /\ Last(s) \in FrameOver(N)
<1>1. Len(s) \in Nat \ {0}
  BY EmptySeq
<1> QED BY <1>1, ElementOfSeq DEF Last

(* A new frame may be pushed where a value may stand.                      *)
LEMMA PushKeepsStack ==
  ASSUME NEW s, NEW d \in Nat, NEW t \in ContainerType, StackInv(s, d),
         s # <<>> => Ready(Last(s)), Len(s) + 1 < d
  PROVE  StackInv(Append(s, Frame(t)), d)
<1>1. PICK N : s \in Seq(FrameOver(N))
  BY DEF StackInv, StackOf
<1>2. Frame(t) \in FrameOver(N)
  BY DEF Frame, FrameOver
<1> DEFINE u == Append(s, Frame(t))
<1>3. /\ u \in Seq(FrameOver(N)) /\ Len(u) = Len(s) + 1 /\ Len(s) \in Nat
      /\ \A i \in 1..Len(s) : u[i] = s[i]
      /\ u[Len(s) + 1] = Frame(t)
  BY <1>1, <1>2, AppendProperties, LenProperties
<1>4. KeyDiscipline(Frame(t))
  BY DEF Frame, KeyDiscipline
<1>5. \A i \in 1..Len(s) : Ready(s[i])
  BY <1>1, <1>3, EmptySeq DEF StackInv, Last
<1> HIDE DEF u
<1>6. \A i \in 1..Len(u) - 1 : Ready(u[i])
  BY <1>3, <1>5
<1>7. \A i \in 1..Len(u) : KeyDiscipline(u[i])
  BY <1>3, <1>4 DEF StackInv
<1>8. StackOf(u)
  BY <1>3 DEF StackOf
<1> QED BY <1>3, <1>6, <1>7, <1>8 DEF StackInv, u

(* A sequence without its last element.                                    *)
LEMMA FrontOfSeq ==
  ASSUME NEW S, NEW s \in Seq(S), s # <<>>
  PROVE  /\ SubSeq(s, 1, Len(s) - 1) \in Seq(S)
         /\ Len(SubSeq(s, 1, Len(s) - 1)) = Len(s) - 1
         /\ \A i \in 1..Len(s) - 1 : SubSeq(s, 1, Len(s) - 1)[i] = s[i]
<1> DEFINE n == Len(s) - 1
<1>1. Len(s) \in Nat \ {0} /\ n \in Nat
  BY EmptySeq
<1>2. \A i \in 1..n : s[i] \in S
  BY <1>1, ElementOfSeq
<1> HIDE DEF n
<1>3. /\ SubSeq(s, 1, n) \in Seq(S)
      /\ Len(SubSeq(s, 1, n)) = IF 1 <= n THEN n - 1 + 1 ELSE 0
      /\ \A i \in 1..n - 1 + 1 : SubSeq(s, 1, n)[i] = s[1 + i - 1]
  BY <1>1, <1>2, SubSeqProperties
<1>4. /\ SubSeq(s, 1, n) \in Seq(S)
      /\ Len(SubSeq(s, 1, n)) = n
      /\ \A i \in 1..n : SubSeq(s, 1, n)[i] = s[i]
  <2> DEFINE t == SubSeq(s, 1, n)
  <2> HIDE DEF t
  <2>1. /\ t \in Seq(S)
        /\ Len(t) = IF 1 <= n THEN n - 1 + 1 ELSE 0
        /\ \A i \in 1..n - 1 + 1 : t[i] = s[1 + i - 1]
    BY <1>3 DEF t
  <2>2. \A i \in 1..n : 1 + i - 1 = i /\ i \in 1..n - 1 + 1
    BY <1>1
  <2> QED BY <1>1, <2>1, <2>2 DEF t
<1> QED BY <1>4 DEF n

(* Below a popped frame lies a stack whose innermost frame is ready.       *)
LEMMA PopKeepsStack ==
  ASSUME NEW s, NEW d \in Nat, StackInv(s, d), s # <<>>
  PROVE  LET u == SubSeq(s, 1, Len(s) - 1)
         IN StackInv(u, d) /\ (u # <<>> => Ready(Last(u)))
<1>1. PICK N : s \in Seq(FrameOver(N))
  BY DEF StackInv, StackOf
<1> DEFINE u == SubSeq(s, 1, Len(s) - 1)
<1>2. Len(s) \in Nat \ {0}
  BY <1>1, EmptySeq
<1>3. /\ u \in Seq(FrameOver(N)) /\ Len(u) = Len(s) - 1
      /\ \A i \in 1..Len(u) : u[i] = s[i]
  BY <1>1, FrontOfSeq
<1> HIDE DEF u
<1>4. u # <<>> => Len(u) \in 1..Len(s) - 1 /\ Last(u) = s[Len(u)]
  BY <1>2, <1>3, EmptySeq DEF Last
<1>5. StackOf(u)
  BY <1>3 DEF StackOf
<1> QED BY <1>2, <1>3, <1>4, <1>5 DEF StackInv, u

(* The innermost frame may be replaced by one that is in order.            *)
LEMMA ReplaceLastKeepsStack ==
  ASSUME NEW s, NEW d \in Nat, StackInv(s, d), s # <<>>,
         NEW N, s \in Seq(FrameOver(N)), NEW f \in FrameOver(N), KeyDiscipline(f)
  PROVE  StackInv([s EXCEPT ![Len(s)] = f], d)
<1> DEFINE u == [s EXCEPT ![Len(s)] = f]
<1>1. Len(s) \in Nat \ {0} /\ Len(s) \in 1..Len(s)
  BY LastFrame
<1>2. /\ u \in Seq(FrameOver(N)) /\ Len(u) = Len(s)
      /\ \A i \in 1..Len(s) : u[i] = IF i = Len(s) THEN f ELSE s[i]
  BY <1>1, ExceptSeq
<1> HIDE DEF u
<1>3. StackOf(u)
  BY <1>2 DEF StackOf
<1>4. u # <<>>
  BY <1>1, <1>2, EmptySeq
<1> QED BY <1>1, <1>2, <1>3, <1>4 DEF StackInv, u

(* A completed value goes to a ready frame.                                *)
LEMMA AttachKeepsStack ==
  ASSUME NEW s, NEW d \in Nat, NEW node, StackInv(s, d), s # <<>>,
         AttachFault(Last(s)) = "none"
  PROVE  StackInv([s EXCEPT ![Len(s)] = Attached(@, node)], d)
<1>1. PICK N : s \in Seq(FrameOver(N))
  BY DEF StackInv, StackOf
<1> DEFINE M == N \cup {node}
           f == Last(s)
<1>2. /\ Len(s) \in 1..Len(s) /\ f = s[Len(s)] /\ f \in FrameOver(N)
  BY <1>1, LastFrame
<1>3. KeyDiscipline(f)
  BY <1>2 DEF StackInv
<1>4. Attached(f, node) \in FrameOver(M) /\ KeyDiscipline(Attached(f, node))
  BY <1>2, <1>3, AttachedInOrder
<1>5. s \in Seq(FrameOver(M))
  BY <1>1, FrameOverMonotonic
<1> DEFINE g == Attached(f, node)
<1> HIDE DEF M, g
<1>6. StackInv([s EXCEPT ![Len(s)] = g], d)
  BY <1>4, <1>5, ReplaceLastKeepsStack DEF g
<1> QED BY <1>2, <1>6 DEF g

(* The only reasons for a ready frame to refuse a value.                   *)
LEMMA ReadyFrameFaults ==
  ASSUME NEW s, NEW d, StackInv(s, d), s # <<>>, Ready(Last(s))
  PROVE  AttachFault(Last(s)) \in {"none", "duplicate", "capacity"}
<1>1. PICK N : s \in Seq(FrameOver(N))
  BY DEF StackInv, StackOf
<1> DEFINE f == Last(s)
<1>2. Len(s) \in 1..Len(s) /\ f = s[Len(s)] /\ f \in FrameOver(N)
  BY <1>1, LastFrame
<1>3. KeyDiscipline(f)
  BY <1>2 DEF StackInv
<1>4. CASE f.type = "list"
  BY <1>4 DEF AttachFault
<1>5. CASE f.type = "dictionary" /\ f.keys = <<>>
  BY <1>5 DEF AttachFault, Ready
<1>6. CASE f.type = "dictionary" /\ f.keys # <<>>
  <2>1. f.awaitingValue /\ Last(f.keys) <= f.lastKey /\ f.currentKey = f.lastKey
    BY <1>3, <1>6 DEF Ready, KeyDiscipline
  <2>2. Last(f.keys) \in Nat /\ f.lastKey \in Nat
    BY <1>2, <1>6, EmptySeq, ElementOfSeq DEF FrameOver, Last
  <2>3. ~(Last(f.keys) > f.currentKey)
    BY <2>1, <2>2
  <2> QED BY <1>6, <2>1, <2>3 DEF AttachFault
<1> QED BY <1>2, <1>4, <1>5, <1>6 DEF FrameOver, ContainerType

(* Reading a key that is not below the last one.                           *)
LEMMA KeyKeepsStack ==
  ASSUME NEW s, NEW d \in Nat, NEW k \in Nat, StackInv(s, d), s # <<>>,
         Last(s).type = "dictionary", ~Last(s).awaitingValue, Last(s).lastKey <= k
  PROVE  StackInv([s EXCEPT ![Len(s)].currentKey = k, ![Len(s)].lastKey = k,
                            ![Len(s)].awaitingValue = TRUE], d)
<1>1. PICK N : s \in Seq(FrameOver(N))
  BY DEF StackInv, StackOf
<1> DEFINE f == Last(s)
           g == [f EXCEPT !.currentKey = k, !.lastKey = k, !.awaitingValue = TRUE]
           u == [s EXCEPT ![Len(s)].currentKey = k, ![Len(s)].lastKey = k,
                          ![Len(s)].awaitingValue = TRUE]
<1>2. Len(s) \in 1..Len(s) /\ f = s[Len(s)] /\ f \in FrameOver(N)
  BY <1>1, LastFrame
<1>3. KeyDiscipline(f)
  BY <1>2 DEF StackInv
<1>4. /\ g \in FrameOver(N) /\ g.keys = f.keys /\ g.items = f.items
      /\ g.type = f.type /\ g.lastKey = k /\ g.currentKey = k /\ g.awaitingValue
  BY <1>2 DEF FrameOver
<1>5. f.keys # <<>> => Last(f.keys) <= k
  <2> SUFFICES ASSUME f.keys # <<>> PROVE Last(f.keys) <= k
    OBVIOUS
  <2>1. Last(f.keys) = f.lastKey
    BY <1>3 DEF KeyDiscipline
  <2> QED BY <2>1
<1>6. KeyDiscipline(g)
  BY <1>3, <1>4, <1>5 DEF KeyDiscipline
<1>7. u = [s EXCEPT ![Len(s)] = g]
  BY <1>1, <1>2
<1> HIDE DEF g, u
<1>8. StackInv([s EXCEPT ![Len(s)] = g], d)
  BY <1>1, <1>4, <1>6, ReplaceLastKeepsStack
<1> QED BY <1>7, <1>8 DEF u

------------------------------------------------------------------------------
(***************************************************************************)
(* The inductive invariant.  StackReady alone is not inductive: that a     *)
(* frame is ready when it is covered by another says nothing of the frame  *)
(* exposed by a pop unless the whole stack is known, and that appendSorted *)
(* never finds a smaller key rests on lastKey following the last entry.    *)
(***************************************************************************)
RootUntouched == pc = "parsing" => root = before

IInv ==
    /\ TypeOK
    /\ StackInv(frames, maxParserDepth)
    /\ RootUntouched
    /\ FailureKeepsRoot
    /\ DefensiveChecksSilent

LEMMA StackTypes ==
  ASSUME NEW s, StackOf(s)
  PROVE  \A i \in 1..Len(s) : FrameTypeOK(s[i])
<1>1. PICK N : s \in Seq(FrameOver(N))
  BY DEF StackOf
<1>2. \A f \in FrameOver(N) : FrameTypeOK(f)
  BY LenProperties DEF FrameOver, FrameTypeOK
<1> QED BY <1>1, <1>2, ElementOfSeq

LEMMA EmptyStack ==
  ASSUME NEW d
  PROVE  StackInv(<<>>, d)
<1>1. <<>> \in Seq(FrameOver({}))
  BY EmptySeq
<1> QED BY <1>1, EmptySeq DEF StackInv, StackOf

(* Every lexeme of a source has a natural number for its value, and the    *)
(* end of the source is none of them.                                      *)
LEMMA OfferedLexemes ==
  /\ \A l \in Offered \cup {EOF} : l.val \in Nat
  /\ \A l \in Offered : l.kind # "eof"
  /\ EOF.kind = "eof"
<1>1. EOF.val = 0 /\ EOF.kind = "eof"
  BY DEF EOF, Token
<1>2. ASSUME NEW l \in Offered PROVE l.val \in Nat /\ l.kind # "eof"
  <2>1. CASE l \in {Token(k) : k \in LexemeKind \ {"integer", "string", "cut", "eof"}}
    BY <2>1 DEF Token
  <2>2. CASE l \in [kind : {"integer"}, val : Integers]
    BY <2>2, SourceAssumption
  <2>3. CASE l \in [kind : {"string"}, val : Strings]
    BY <2>3, SourceAssumption
  <2>4. CASE l \in [kind : {"cut"}, val : Strings \ {0}]
    BY <2>4, SourceAssumption
  <2> QED BY <2>1, <2>2, <2>3, <2>4 DEF Offered
<1> QED BY <1>1, <1>2

LEMMA ConsumeTypes ==
  ASSUME TypeOK, look # EOF, Consume
  PROVE  look' \in Offered \cup {EOF} /\ seen' \in Seq(Offered)
<1>1. look \in Offered /\ seen \in Seq(Offered)
  BY DEF TypeOK
<1>2. Append(seen, look) \in Seq(Offered)
  BY <1>1, AppendProperties
<1> QED BY <1>2 DEF Consume, Upcoming

LEMMA InitInv == Init => IInv
<1> SUFFICES ASSUME Init PROVE IInv
  OBVIOUS
<1>1. StackInv(frames, maxParserDepth)
  BY EmptyStack DEF Init
<1>2. TypeOK
  <2>1. seen \in Seq(Offered) /\ Len(frames) = 0
    BY EmptySeq DEF Init
  <2> QED BY <2>1, BoundAssumption DEF Init, TypeOK
<1> QED BY <1>1, <1>2 DEF Init, IInv, RootUntouched, FailureKeepsRoot, DefensiveChecksSilent

(***************************************************************************)
(* What the actions of the loop have in common: the limits and the         *)
(* histories stay, the source stays or moves on.                           *)
(***************************************************************************)
LoopFrame ==
    /\ UNCHANGED <<maxParserDepth, maxStringLength, before, calls>>
    /\ look' \in Offered \cup {EOF} /\ seen' \in Seq(Offered)

(* A fault keeps the invariant if it is none of those ruled out and the    *)
(* root is left as the property demands.                                   *)
LEMMA FailKeepsInv ==
  ASSUME IInv, pc = "parsing", LoopFrame, NEW fault \in Fault, Fail(fault),
         fault \notin {"missing key", "append order"},
         root' = root \/ (~Exceptions /\ fault = "truncated" /\ root'.type = "string")
  PROVE  IInv'
<1>1. frames' = <<>> /\ pc' = "idle" /\ outcome' = fault
  BY DEF Fail
<1>2. StackInv(frames', maxParserDepth')
  BY <1>1, EmptyStack
<1>3. \A i \in 1..Len(frames') : FrameTypeOK(frames'[i])
  BY <1>2, StackTypes DEF StackInv
<1>4. TypeOK'
  <2>1. (\A i \in 1..Len(frames) : FrameTypeOK(frames[i]))'
    BY <1>3
  <2> QED BY <1>1, <2>1 DEF IInv, TypeOK, LoopFrame
<1>5. RootUntouched' /\ FailureKeepsRoot' /\ DefensiveChecksSilent'
  BY <1>1 DEF IInv, RootUntouched, FailureKeepsRoot, DefensiveChecksSilent, LoopFrame
<1> QED BY <1>2, <1>4, <1>5 DEF IInv

(* Growing or shrinking the stack keeps it if the stack stays in order.    *)
LEMMA StackKeepsInv ==
  ASSUME IInv, pc = "parsing", LoopFrame, StackInv(frames', maxParserDepth),
         UNCHANGED <<pc, outcome, root>>
  PROVE  IInv'
<1>1. \A i \in 1..Len(frames') : FrameTypeOK(frames'[i])
  BY StackTypes DEF StackInv
<1>2. TypeOK'
  <2>1. /\ look' \in Offered \cup {EOF} /\ seen' \in Seq(Offered)
        /\ pc' \in {"idle", "parsing", "finish"} /\ outcome' \in Fault \cup {"none", "ok"}
        /\ maxParserDepth' \in DepthLimits /\ maxStringLength' \in LengthLimits
        /\ calls' \in 0..MaxCalls /\ (pc' # "parsing" => frames' = <<>>)
    BY DEF IInv, TypeOK, LoopFrame
  <2>2. (\A i \in 1..Len(frames) : FrameTypeOK(frames[i]))'
    BY <1>1
  <2> QED BY <2>1, <2>2 DEF TypeOK
<1>3. StackInv(frames', maxParserDepth')
  BY DEF LoopFrame
<1>4. RootUntouched' /\ FailureKeepsRoot' /\ DefensiveChecksSilent'
  BY DEF IInv, RootUntouched, FailureKeepsRoot, DefensiveChecksSilent, LoopFrame
<1> QED BY <1>2, <1>3, <1>4 DEF IInv

(* So does a completed root.                                               *)
LEMMA CompleteKeepsInv ==
  ASSUME IInv, pc = "parsing", LoopFrame, NEW node, Complete(node)
  PROVE  IInv'
<1>1. frames' = <<>> /\ pc' = "finish" /\ outcome' = outcome
  BY DEF Complete
<1>2. StackInv(frames', maxParserDepth')
  BY <1>1, EmptyStack
<1>3. \A i \in 1..Len(frames') : FrameTypeOK(frames'[i])
  BY <1>2, StackTypes DEF StackInv
<1>4. TypeOK'
  <2>1. (\A i \in 1..Len(frames) : FrameTypeOK(frames[i]))'
    BY <1>3
  <2> QED BY <1>1, <2>1 DEF IInv, TypeOK, LoopFrame
<1>5. RootUntouched' /\ FailureKeepsRoot' /\ DefensiveChecksSilent'
  BY <1>1 DEF IInv, RootUntouched, FailureKeepsRoot, DefensiveChecksSilent, LoopFrame
<1> QED BY <1>2, <1>4, <1>5 DEF IInv

(* And so does a value delivered to a ready frame, accepted or refused.    *)
LEMMA DeliverKeepsInv ==
  ASSUME IInv, pc = "parsing", LoopFrame, NEW node, NEW s,
         StackInv(s, maxParserDepth), s # <<>>, Ready(Last(s)), Deliver(s, node)
  PROVE  IInv'
<1> DEFINE fault == AttachFault(Last(s))
<1>0. maxParserDepth \in Nat
  BY LimitAssumption DEF IInv, TypeOK
<1>1. CASE fault = "none"
  <2>1. frames' = [s EXCEPT ![Len(s)] = Attached(@, node)] /\ UNCHANGED <<pc, outcome, root>>
    BY <1>1 DEF Deliver
  <2>2. StackInv(frames', maxParserDepth)
    BY <1>0, <1>1, <2>1, AttachKeepsStack
  <2> QED BY <2>1, <2>2, StackKeepsInv
<1>2. CASE fault # "none"
  <2>1. fault \in {"duplicate", "capacity"}
    BY <1>2, ReadyFrameFaults
  <2>2. Fail(fault) /\ root' = root
    BY <1>2 DEF Deliver
  <2>3. fault \in Fault /\ fault \notin {"missing key", "append order"}
    BY <2>1 DEF Fault
  <2> HIDE DEF fault
  <2> QED BY <2>2, <2>3, FailKeepsInv
<1> QED BY <1>1, <1>2

------------------------------------------------------------------------------
(* The two ways an action of the loop treats the source.                   *)
LEMMA StayingFrame ==
  ASSUME IInv, UNCHANGED <<source, limits, before, calls>>
  PROVE  LoopFrame
BY DEF IInv, TypeOK, LoopFrame, source, limits

LEMMA ConsumingFrame ==
  ASSUME IInv, look.kind # "eof", Consume, UNCHANGED <<limits, before, calls>>
  PROVE  LoopFrame
<1>1. look # EOF
  BY DEF EOF, Token
<1>2. look' \in Offered \cup {EOF} /\ seen' \in Seq(Offered)
  BY <1>1, ConsumeTypes DEF IInv
<1> QED BY <1>2 DEF LoopFrame, limits

(* What FaultOf and KeyFaultOf report are faults, and none of those the    *)
(* defensive checks stand for.                                             *)
LEMMA LexemeFaults ==
  ASSUME NEW l
  PROVE  /\ FaultOf(l) \in Fault \ {"missing key", "append order"}
         /\ KeyFaultOf(l) \in Fault \ {"missing key", "append order"}
BY DEF FaultOf, KeyFaultOf, Fault

(* The branches of the loop that end the call with a fault.                *)
LEMMA FaultsKeepInv ==
  ASSUME IInv,
         \/ UnexpectedEnd \/ OpenTooDeep \/ RejectScalar \/ KeyOutOfOrder
         \/ RejectKey \/ RootTooDeep \/ RejectRootScalar
  PROVE  IInv'
<1> USE DEF Fault
<1>1. CASE UnexpectedEnd
  <2>1. LoopFrame
    BY <1>1, StayingFrame DEF UnexpectedEnd
  <2> QED BY <1>1, <2>1, FailKeepsInv DEF UnexpectedEnd
<1>2. CASE OpenTooDeep
  <2>1. look.kind # "eof"
    BY <1>2 DEF OpenTooDeep, Opens, ContainerType
  <2>2. LoopFrame
    BY <1>2, <2>1, ConsumingFrame DEF OpenTooDeep
  <2> QED BY <1>2, <2>2, FailKeepsInv DEF OpenTooDeep
<1>3. CASE RejectScalar
  <2>1. LoopFrame
    BY <1>3, StayingFrame DEF RejectScalar
  <2>2. Fail(FaultOf(look)) /\ root' = root /\ pc = "parsing"
    BY <1>3 DEF RejectScalar
  <2> QED BY <2>1, <2>2, LexemeFaults, FailKeepsInv
<1>4. CASE KeyOutOfOrder
  <2>1. look.kind # "eof"
    BY <1>4 DEF KeyOutOfOrder, ReadableKey
  <2>2. LoopFrame
    BY <1>4, <2>1, ConsumingFrame DEF KeyOutOfOrder
  <2> QED BY <1>4, <2>2, FailKeepsInv DEF KeyOutOfOrder
<1>5. CASE RejectKey
  <2>1. LoopFrame
    BY <1>5, StayingFrame DEF RejectKey
  <2>2. Fail(KeyFaultOf(look)) /\ root' = root /\ pc = "parsing"
    BY <1>5 DEF RejectKey
  <2> QED BY <2>1, <2>2, LexemeFaults, FailKeepsInv
<1>6. CASE RootTooDeep
  <2>1. LoopFrame
    BY <1>6, StayingFrame DEF RootTooDeep
  <2> QED BY <1>6, <2>1, FailKeepsInv DEF RootTooDeep, AtRootScalar
<1>7. CASE RejectRootScalar
  <2>1. LoopFrame
    BY <1>7, StayingFrame DEF RejectRootScalar
  <2>2. Fail(FaultOf(look)) /\ root' = RootAfterReject /\ pc = "parsing"
    BY <1>7 DEF RejectRootScalar, AtRootScalar
  <2>3. \/ root' = root
        \/ ~Exceptions /\ FaultOf(look) = "truncated" /\ root'.type = "string"
    BY <2>2 DEF RootAfterReject, StringNode, MakeNode
  <2> QED BY <2>1, <2>2, <2>3, LexemeFaults, FailKeepsInv
<1> QED BY <1>1, <1>2, <1>3, <1>4, <1>5, <1>6, <1>7

(* The branches that open and close containers and read what they hold.    *)
LEMMA OpenContainerKeepsInv ==
  ASSUME IInv, OpenContainer
  PROVE  IInv'
<1>1. look.kind \in ContainerType /\ pc = "parsing" /\ AtValue /\ FrameFits
  BY DEF OpenContainer, Opens
<1>2. LoopFrame
  BY <1>1, ConsumingFrame DEF OpenContainer, ContainerType
<1>3. maxParserDepth \in Nat
  BY LimitAssumption DEF IInv, TypeOK
<1>4. frames # <<>> => Ready(Last(frames))
  BY <1>1 DEF AtValue, Top, Ready
<1>5. StackInv(Append(frames, Frame(look.kind)), maxParserDepth)
  BY <1>1, <1>3, <1>4, PushKeepsStack DEF IInv, FrameFits
<1> QED BY <1>1, <1>2, <1>5, StackKeepsInv DEF OpenContainer

LEMMA CloseContainerKeepsInv ==
  ASSUME IInv, CloseContainer
  PROVE  IInv'
<1>1. look = Token("end") /\ pc = "parsing" /\ frames # <<>>
  BY DEF CloseContainer, AtEnd
<1>2. LoopFrame
  BY <1>1, ConsumingFrame DEF CloseContainer, Token
<1>3. maxParserDepth \in Nat
  BY LimitAssumption DEF IInv, TypeOK
<1>4. StackInv(Outer, maxParserDepth) /\ (Outer # <<>> => Ready(Last(Outer)))
  BY <1>1, <1>3, PopKeepsStack DEF IInv, Outer
<1> DEFINE closed == ContainerNode(Top.type, Top.keys, Top.items)
<1>5. IF Outer = <<>> THEN Complete(closed) ELSE Deliver(Outer, closed)
  BY DEF CloseContainer
<1> HIDE DEF closed
<1>6. CASE Outer = <<>>
  BY <1>1, <1>2, <1>5, <1>6, CompleteKeepsInv
<1>7. CASE Outer # <<>>
  BY <1>1, <1>2, <1>4, <1>5, <1>7, DeliverKeepsInv
<1> QED BY <1>6, <1>7

LEMMA ReadScalarKeepsInv ==
  ASSUME IInv, ReadScalar
  PROVE  IInv'
<1>1. /\ pc = "parsing" /\ frames # <<>> /\ AtValue /\ ReadableScalar(look)
      /\ Deliver(frames, ScalarNode(look))
  BY DEF ReadScalar
<1>2. LoopFrame
  BY <1>1, ConsumingFrame DEF ReadScalar, ReadableScalar
<1>3. Ready(Last(frames))
  BY <1>1 DEF AtValue, Top, Ready
<1> QED BY <1>1, <1>2, <1>3, DeliverKeepsInv DEF IInv

LEMMA ReadKeyKeepsInv ==
  ASSUME IInv, ReadKey
  PROVE  IInv'
<1>1. /\ pc = "parsing" /\ frames # <<>> /\ look.kind = "string"
      /\ Last(frames).type = "dictionary" /\ ~Last(frames).awaitingValue
      /\ Last(frames).lastKey <= look.val
  BY DEF ReadKey, AtKey, ReadableKey, Top
<1>2. LoopFrame
  BY <1>1, ConsumingFrame DEF ReadKey
<1>3. maxParserDepth \in Nat /\ look.val \in Nat
  BY LimitAssumption, OfferedLexemes DEF IInv, TypeOK
<1> DEFINE k == look.val
<1> HIDE DEF k
<1>4. StackInv([frames EXCEPT ![Len(frames)].currentKey = k,
                              ![Len(frames)].lastKey = k,
                              ![Len(frames)].awaitingValue = TRUE], maxParserDepth)
  BY <1>1, <1>3, KeyKeepsStack DEF IInv, k
<1> QED BY <1>1, <1>2, <1>4, StackKeepsInv DEF ReadKey, k

LEMMA RootScalarKeepsInv ==
  ASSUME IInv, RootScalar
  PROVE  IInv'
<1>1. ReadableScalar(look) /\ pc = "parsing" /\ Complete(ScalarNode(look))
  BY DEF RootScalar, AtRootScalar
<1>2. LoopFrame
  BY <1>1, ConsumingFrame DEF RootScalar, ReadableScalar
<1> QED BY <1>1, <1>2, CompleteKeepsInv

(* The steps outside the loop.                                             *)
LEMMA OuterStepsKeepInv ==
  ASSUME IInv,
         \/ Parse \/ HandleParseResult
         \/ SetMaxParserDepth \/ SetMaxStringLength
  PROVE  IInv'
<1> USE DEF IInv, TypeOK, source, limits
<1>0. pc # "parsing" => frames = <<>>
  OBVIOUS
<1>1. CASE Parse
  <2>1. look' \in Offered \cup {EOF} /\ seen' \in Seq(Offered)
    BY <1>1, EmptySeq DEF Parse, Upcoming
  <2>2. StackInv(frames', maxParserDepth')
    BY <1>1 DEF Parse
  <2>3. calls' \in 0..MaxCalls
    BY <1>1, BoundAssumption DEF Parse
  <2>4. (RootUntouched /\ FailureKeepsRoot /\ DefensiveChecksSilent)'
    BY <1>1 DEF Parse, RootUntouched, FailureKeepsRoot, DefensiveChecksSilent
  <2>5. (\A i \in 1..Len(frames) : FrameTypeOK(frames[i]))'
    BY <1>1 DEF Parse
  <2> QED BY <1>1, <2>1, <2>2, <2>3, <2>4, <2>5 DEF Parse
<1>2. CASE HandleParseResult
  <2>1. (RootUntouched /\ FailureKeepsRoot /\ DefensiveChecksSilent)'
    BY <1>2 DEF HandleParseResult, RootUntouched, FailureKeepsRoot, DefensiveChecksSilent
  <2> QED BY <1>2, <2>1 DEF HandleParseResult, Fault
<1>3. CASE SetMaxParserDepth
  <2>1. frames' = <<>> /\ frames = <<>>
    BY <1>3 DEF SetMaxParserDepth
  <2>2. StackInv(frames', maxParserDepth')
    BY <2>1, EmptyStack
  <2>3. (RootUntouched /\ FailureKeepsRoot /\ DefensiveChecksSilent)'
    BY <1>3 DEF SetMaxParserDepth, RootUntouched, FailureKeepsRoot, DefensiveChecksSilent
  <2> QED BY <1>3, <2>1, <2>2, <2>3 DEF SetMaxParserDepth
<1>4. CASE SetMaxStringLength
  <2>1. (RootUntouched /\ FailureKeepsRoot /\ DefensiveChecksSilent)'
    BY <1>4 DEF SetMaxStringLength, RootUntouched, FailureKeepsRoot, DefensiveChecksSilent
  <2> QED BY <1>4, <2>1 DEF SetMaxStringLength
<1> QED BY <1>1, <1>2, <1>3, <1>4

LEMMA StepKeepsInv == IInv /\ [Next]_vars => IInv'
<1> SUFFICES ASSUME IInv, [Next]_vars PROVE IInv'
  OBVIOUS
<1>1. CASE UNCHANGED vars
  BY <1>1 DEF vars, IInv, TypeOK, RootUntouched, FailureKeepsRoot, DefensiveChecksSilent
<1>2. CASE OpenContainer
  BY <1>2, OpenContainerKeepsInv
<1>3. CASE CloseContainer
  BY <1>3, CloseContainerKeepsInv
<1>4. CASE ReadScalar
  BY <1>4, ReadScalarKeepsInv
<1>5. CASE ReadKey
  BY <1>5, ReadKeyKeepsInv
<1>6. CASE RootScalar
  BY <1>6, RootScalarKeepsInv
<1>7. CASE \/ UnexpectedEnd \/ OpenTooDeep \/ RejectScalar \/ KeyOutOfOrder
           \/ RejectKey \/ RootTooDeep \/ RejectRootScalar
  BY <1>7, FaultsKeepInv
<1>8. CASE \/ Parse \/ HandleParseResult
           \/ SetMaxParserDepth \/ SetMaxStringLength
  BY <1>8, OuterStepsKeepInv
<1> QED BY <1>1, <1>2, <1>3, <1>4, <1>5, <1>6, <1>7, <1>8 DEF Next, ParserStep

(* The inductive invariant holds in every reachable state of the parser.   *)
THEOREM Invariance == Spec => []IInv
BY InitInv, StepKeepsInv, PTL DEF Spec

(* Type correctness, for every build, every limit and every source.        *)
THEOREM TypeCorrect == Spec => []TypeOK
<1>1. IInv => TypeOK
  BY DEF IInv
<1> QED BY <1>1, Invariance, PTL

(* Every covered frame can take the container above it once that closes.   *)
THEOREM CoveredFramesReady == Spec => []StackReady
<1>1. IInv => StackReady
  BY DEF IInv, StackInv, StackReady, Ready
<1> QED BY <1>1, Invariance, PTL

(* The keys of every open dictionary ascend and lastKey follows the last.  *)
THEOREM KeysStayOrdered == Spec => []OpenKeysOrdered
<1>1. IInv => OpenKeysOrdered
  BY DEF IInv, StackInv, OpenKeysOrdered
<1> QED BY <1>1, Invariance, PTL

(* completeFrame's "missing key" and appendSorted's "append order" are     *)
(* unreachable: dead code, whatever the source.                            *)
THEOREM DefensiveChecksUnreachable == Spec => []DefensiveChecksSilent
<1>1. IInv => DefensiveChecksSilent
  BY DEF IInv
<1> QED BY <1>1, Invariance, PTL

(* A failed call of parse leaves the document alone.                       *)
THEOREM FailedParseKeepsRoot == Spec => []FailureKeepsRoot
<1>1. IInv => FailureKeepsRoot
  BY DEF IInv
<1> QED BY <1>1, Invariance, PTL

------------------------------------------------------------------------------
(* Moving past a lexeme makes the history of lexemes read longer.          *)
LEMMA ConsumeAdvances ==
  ASSUME TypeOK, look.kind # "eof", Consume
  PROVE  Len(seen') > Len(seen)
<1>1. look \in Offered /\ seen \in Seq(Offered)
  BY DEF TypeOK, EOF, Token
<1> QED BY <1>1, AppendProperties, LenProperties DEF Consume

(* Every iteration of the loop advances the source or ends the parser's    *)
(* part of the call: no source of finite length is parsed for ever.        *)
THEOREM IterationsProgress == Spec => IterationProgress
<1> DEFINE Progress == pc = "parsing" => Len(seen') > Len(seen) \/ pc' # "parsing"
<1>1. ASSUME TypeOK, Next PROVE Progress
  <2> SUFFICES ASSUME pc = "parsing" PROVE Len(seen') > Len(seen) \/ pc' # "parsing"
    OBVIOUS
  <2>1. CASE Parse \/ HandleParseResult \/ SetMaxParserDepth \/ SetMaxStringLength
    BY <2>1 DEF Parse, HandleParseResult, SetMaxParserDepth, SetMaxStringLength
  <2>2. CASE \/ UnexpectedEnd \/ OpenTooDeep \/ RejectScalar \/ KeyOutOfOrder
             \/ RejectKey \/ RootTooDeep \/ RejectRootScalar
    BY <2>2 DEF UnexpectedEnd, OpenTooDeep, RejectScalar, KeyOutOfOrder, RejectKey,
                RootTooDeep, RejectRootScalar, Fail
  <2>3. CASE OpenContainer \/ CloseContainer \/ ReadScalar \/ ReadKey \/ RootScalar
    <3>1. Consume
      BY <2>3 DEF OpenContainer, CloseContainer, ReadScalar, ReadKey, RootScalar
    <3>2. look.kind # "eof"
      BY <2>3 DEF OpenContainer, CloseContainer, ReadScalar, ReadKey, RootScalar,
                  Opens, ContainerType, Token, ReadableScalar, ReadableKey
    <3> QED BY <1>1, <3>1, <3>2, ConsumeAdvances
  <2> QED BY <1>1, <2>1, <2>2, <2>3 DEF Next, ParserStep
<1>2. TypeOK /\ [Next]_vars => [Progress]_vars
  BY <1>1
<1> QED BY <1>2, TypeCorrect, PTL DEF Spec, IterationProgress

------------------------------------------------------------------------------
(***************************************************************************)
(* Where recursive descent is when the loop is at position here of a text  *)
(* that goes on behind it.                                                 *)
(***************************************************************************)

\* T is a text that begins with s.
Continues(T, s) ==
    /\ T \in Seq(Offered) /\ s \in Seq(Offered) /\ Len(s) <= Len(T)
    /\ \A i \in 1..Len(s) : T[i] = s[i]

(***************************************************************************)
(* Limits that are those in force, but for more levels.  The two halves of *)
(* the parser count depth differently: only with exact, a level to spare,  *)
(* does recursive descent accept all that the loop accepts.                *)
(***************************************************************************)
Admits(l, exact, depth, length) ==
    /\ exact \in BOOLEAN
    /\ l.depth \in Nat /\ l.depth >= depth
    /\ exact => l.depth > depth
    /\ l.length = length
    /\ l.dynamic = DynamicAllocation /\ l.capacity = MaxContainerSize

\* The value of frame f that begins at here follows its key.
TurnOf(f, here) == IF f.awaitingValue THEN here - 1 ELSE here

\* Frame f was opened at position open of the text s and waits at here.
Placed(s, f, open, here, length) ==
    /\ open \in 1..Len(s) /\ here \in 1..(Len(s) + 1)
    /\ s[open].kind = f.type /\ f.type \in ContainerType /\ Len(f.items) \in Nat
    /\ open + Len(f.items) < TurnOf(f, here)
    /\ f.awaitingValue =>
        /\ f.type = "dictionary" /\ s[here - 1].kind = "string"
        /\ s[here - 1].val = f.currentKey /\ f.currentKey <= length
    /\ f.keys = <<>> /\ ~f.awaitingValue => f.lastKey = 0

\* Recursive descent has the entries of frame f, unless it has failed before.
InStep(T, l, level, f, open, here, exact) ==
    LET loop == LoopAt(T, l, level, f.type, open + 1)[Len(f.items)]
    IN \/ loop = [state |-> "reading", keys |-> f.keys, items |-> f.items,
                  next |-> TurnOf(f, here)]
       \/ ~exact /\ loop.state = "failed"

\* It makes node of the text from here up to next, unless it fails.
Yields(T, l, level, here, node, next, exact) ==
    \/ ValueAt(T, l, level, here) = Success(node, next)
    \/ ~exact /\ ~ValueAt(T, l, level, here).ok

LEMMA ContinuesAt ==
  ASSUME NEW T, NEW s, Continues(T, s)
  PROVE  /\ Len(T) \in Nat /\ Len(s) \in Nat /\ Len(s) <= Len(T)
         /\ DOMAIN T = 1..Len(T)
         /\ \A i \in 1..Len(s) : At(T, i) = s[i] /\ i \in 1..Len(T)
<1>1. T \in Seq(Offered) /\ s \in Seq(Offered) /\ Len(s) <= Len(T)
      /\ \A i \in 1..Len(s) : T[i] = s[i]
  BY DEF Continues
<1>2. Len(T) \in Nat /\ Len(s) \in Nat /\ DOMAIN T = 1..Len(T)
  BY <1>1, LenProperties
<1>3. ASSUME NEW i \in 1..Len(s) PROVE At(T, i) = s[i] /\ i \in 1..Len(T)
  BY <1>1, <1>2 DEF At
<1> QED BY <1>1, <1>2, <1>3

\* There are turns enough for the entries of frame f, and for one more when a
\* lexeme is left at its place.
LEMMA TurnsSuffice ==
  ASSUME NEW T, NEW s, Continues(T, s), NEW f, NEW open, NEW here, NEW length, Placed(s, f, open, here, length),
         NEW m, m = Len(f.items)
  PROVE  m \in Nat /\ m \in 0..Len(T) /\ (here <= Len(T) => m + 1 \in 0..Len(T))
<1>1. Len(T) \in Nat /\ Len(s) \in Nat /\ Len(s) <= Len(T) /\ m \in Nat
  BY ContinuesAt DEF Placed
<1>2. /\ open \in 1..Len(s) /\ here \in 1..(Len(s) + 1) /\ open + m < TurnOf(f, here)
      /\ TurnOf(f, here) \in Int /\ TurnOf(f, here) <= here
  BY <1>1 DEF Placed, TurnOf
<1> QED BY <1>1, <1>2

\* The key read for frame f, as recursive descent finds it.
LEMMA KeyInPlace ==
  ASSUME NEW T, NEW s, Continues(T, s), NEW l, NEW exact, NEW depth, NEW length,
         Admits(l, exact, depth, length),
         NEW f, NEW open, NEW here, Placed(s, f, open, here, length), f.awaitingValue
  PROVE  /\ here - 1 \in 1..Len(s) /\ At(T, here - 1).kind = "string"
         /\ At(T, here - 1).val = f.currentKey /\ FitsLength(At(T, here - 1), l)
<1>1. /\ open \in 1..Len(s) /\ here \in 1..(Len(s) + 1) /\ s[here - 1].kind = "string"
      /\ s[here - 1].val = f.currentKey /\ f.currentKey <= length
      /\ open + Len(f.items) < here - 1 /\ Len(f.items) \in Nat
  BY DEF Placed, TurnOf
<1>2. Len(s) \in Nat
  BY ContinuesAt
<1>3. here - 1 \in 1..Len(s)
  BY <1>1, <1>2
<1>4. At(T, here - 1) = s[here - 1]
  BY <1>3, ContinuesAt
<1> QED BY <1>1, <1>3, <1>4 DEF FitsLength, Admits

\* What appendSorted and FixedVector ask of an entry is what a turn asks.
LEMMA EntryFits ==
  ASSUME NEW T, NEW s, Continues(T, s), NEW l, NEW exact, NEW depth, NEW length,
         Admits(l, exact, depth, length),
         NEW N, NEW f \in FrameOver(N), KeyDiscipline(f), Ready(f),
         NEW open, NEW here, Placed(s, f, open, here, length),
         NEW loop, loop.keys = f.keys, loop.items = f.items, loop.next = TurnOf(f, here)
  PROVE  AttachFault(f) = "none" <=>
            (f.type = "dictionary" => KeyFits(T, l, loop)) /\ HasRoom(loop.items, l)
<1>1. HasRoom(loop.items, l) <=> ~Full(f.items)
  <2>1. Len(f.items) \in Nat /\ MaxContainerSize \in Nat
    BY BuildAssumption DEF Placed
  <2> QED BY <2>1 DEF HasRoom, Full, Admits
<1>2. CASE f.type = "list"
  BY <1>1, <1>2 DEF AttachFault
<1>3. CASE f.type = "dictionary"
  <2>1. f.awaitingValue /\ f.keys \in Seq(Nat) /\ f.currentKey \in Nat /\ f.lastKey \in Nat
    BY <1>3 DEF Ready, FrameOver
  <2>2. At(T, loop.next).val = f.currentKey /\ FitsLength(At(T, loop.next), l)
    BY <2>1, KeyInPlace DEF TurnOf
  <2>3. KeyFits(T, l, loop) <=> (f.keys # <<>> => f.keys[Len(f.keys)] < f.currentKey)
    BY <2>2 DEF KeyFits
  <2>4. f.keys # <<>> => Last(f.keys) = f.keys[Len(f.keys)] /\ Last(f.keys) \in Nat
    BY <2>1, EmptySeq, ElementOfSeq DEF Last
  <2> QED BY <1>1, <1>3, <2>1, <2>3, <2>4 DEF AttachFault
<1> QED BY <1>2, <1>3 DEF Placed, ContainerType

\* The fields of a frame that has taken a value.
LEMMA AttachedParts ==
  ASSUME NEW N, NEW f \in FrameOver(N), f.type = "list" => ~f.awaitingValue, NEW node
  PROVE  LET g == Attached(f, node)
         IN /\ g.type = f.type /\ g.items = Append(f.items, node) /\ ~g.awaitingValue
            /\ g.keys = IF f.type = "dictionary" THEN Append(f.keys, f.currentKey) ELSE f.keys
            /\ g.lastKey = f.lastKey /\ Len(g.items) = Len(f.items) + 1
<1> DEFINE its == Append(f.items, node)
           ks == Append(f.keys, f.currentKey)
           g == Attached(f, node)
<1>1. Len(its) = Len(f.items) + 1
  <2>1. f.items \in Seq(N \cup {node})
    BY SeqMonotonic, N \subseteq N \cup {node} DEF FrameOver
  <2> QED BY <2>1, AppendProperties
<1>2. g = IF f.type = "list" THEN [f EXCEPT !.items = its]
          ELSE [f EXCEPT !.items = its, !.keys = ks, !.currentKey = 0, !.awaitingValue = FALSE]
  BY DEF Attached
<1>3. f.type \in {"list", "dictionary"}
  BY DEF FrameOver, ContainerType
<1> HIDE DEF its, ks, g
<1>4. /\ g.type = f.type /\ g.items = its /\ ~g.awaitingValue /\ g.lastKey = f.lastKey
      /\ g.keys = IF f.type = "dictionary" THEN ks ELSE f.keys
  BY <1>2, <1>3 DEF FrameOver
<1> QED BY <1>1, <1>4 DEF its, ks, g

(* A value that the loop adds to frame f is the next entry of recursive    *)
(* descent.                                                                *)
LEMMA FrameAdvances ==
  ASSUME NEW T, NEW s, Continues(T, s), NEW l, NEW exact, NEW depth, NEW length,
         Admits(l, exact, depth, length), NEW level,
         NEW N, NEW f \in FrameOver(N), KeyDiscipline(f), Ready(f), AttachFault(f) = "none",
         NEW open, NEW here, Placed(s, f, open, here, length), InStep(T, l, level, f, open, here, exact),
         here <= Len(T), At(T, here).kind # "end",
         NEW node, NEW next, Yields(T, l, level, here, node, next, exact)
  PROVE  InStep(T, l, level, Attached(f, node), open, next, exact)
<1> DEFINE m == Len(f.items)
           loops == LoopAt(T, l, level, f.type, open + 1)
           loop == loops[m]
           values == ParseNodes(T, l)[level]
           g == Attached(f, node)
<1>1. /\ m \in Nat /\ m + 1 \in 0..Len(T)
      /\ loops[m + 1] = Turn(T, l, values, f.type, loop)
  <2>1. m \in Nat /\ m + 1 \in 0..Len(T) /\ Len(T) \in Nat
    BY TurnsSuffice, ContinuesAt
  <2> HIDE DEF m, loops
  <2> QED BY <2>1, NextTurn DEF loops
<1>2. \/ loop = [state |-> "reading", keys |-> f.keys, items |-> f.items,
                 next |-> TurnOf(f, here)]
      \/ ~exact /\ loop.state = "failed"
  BY DEF InStep
<1>3. \/ ValueAt(T, l, level, here) = Success(node, next)
      \/ ~exact /\ ~ValueAt(T, l, level, here).ok
  BY DEF Yields
<1>4. /\ g.type = f.type /\ g.items = Append(f.items, node) /\ ~g.awaitingValue
      /\ g.keys = IF f.type = "dictionary" THEN Append(f.keys, f.currentKey) ELSE f.keys
      /\ Len(g.items) = m + 1
  <2>1. f.type = "list" => ~f.awaitingValue
    BY DEF Placed
  <2> QED BY <2>1, AttachedParts
<1> HIDE DEF g, loops
<1>5. CASE loop.state = "failed" /\ ~exact
  <2>1. loops[m + 1] = loop
    BY <1>1, <1>5 DEF Turn
  <2> QED BY <1>4, <1>5, <2>1 DEF InStep, loops, g
<1>6. CASE loop = [state |-> "reading", keys |-> f.keys, items |-> f.items,
                   next |-> TurnOf(f, here)]
  <2>1. (f.type = "dictionary" => KeyFits(T, l, loop)) /\ HasRoom(loop.items, l)
    BY <1>6, EntryFits
  <2>0. /\ loop.next = TurnOf(f, here) /\ here \in Int
        /\ f.type = "dictionary" <=> f.awaitingValue
    BY <1>6 DEF Ready, Placed, ContainerType
  <2>2. At(T, loop.next) # Token("end")
    <3>1. f.awaitingValue => At(T, here - 1).kind = "string"
      BY KeyInPlace
    <3> QED BY <2>0, <3>1 DEF TurnOf, Token
  <2>3. ValueAt(T, l, level, here) =
           values[IF f.type = "dictionary" THEN loop.next + 1 ELSE loop.next]
    BY <2>0 DEF TurnOf, ValueAt
  <2>4. f.type = "dictionary" => At(T, loop.next).val = f.currentKey
    BY <1>6, KeyInPlace DEF TurnOf, Ready
  <2> HIDE DEF values, loop
  <2>5. CASE ValueAt(T, l, level, here) = Success(node, next)
    <3>1. ValueAt(T, l, level, here).ok /\ ValueAt(T, l, level, here).node = node
          /\ ValueAt(T, l, level, here).next = next
      BY <2>5 DEF Success
    <3>2. loops[m + 1] = [state |-> "reading", keys |-> g.keys, items |-> g.items, next |-> next]
      <4> DEFINE keyed == f.type = "dictionary"
                 value == values[IF keyed THEN loop.next + 1 ELSE loop.next]
      <4>1. loop.state = "reading" /\ loop.keys = f.keys /\ loop.items = f.items
        BY <1>6
      <4>2. value.ok /\ value.node = node /\ value.next = next
        BY <2>3, <3>1
      <4>3. loops[m + 1] =
               [state |-> "reading",
                keys |-> IF keyed THEN Append(loop.keys, At(T, loop.next).val) ELSE loop.keys,
                items |-> Append(loop.items, value.node),
                next |-> value.next]
        <5> HIDE DEF value
        <5> QED BY <1>1, <2>1, <2>2, <4>1, <4>2 DEF Turn, value
      <4> QED BY <1>4, <2>4, <4>1, <4>2, <4>3, ZenonT(40)
    <3> QED BY <1>4, <3>2 DEF InStep, loops, g, TurnOf
  <2>6. CASE ~exact /\ ~ValueAt(T, l, level, here).ok
    <3>1. loops[m + 1] = [loop EXCEPT !.state = "failed"]
      BY <1>1, <1>6, <2>2, <2>3, <2>6 DEF Turn
    <3>2. loops[m + 1].state = "failed"
      BY <1>6, <3>1
    <3> QED BY <1>4, <2>6, <3>2 DEF InStep, loops, g
  <2> QED BY <1>3, <2>5, <2>6
<1> QED BY <1>2, <1>5, <1>6

\* Recursive descent does not get past the next entry of frame f.
Stalls(T, l, level, f, open) ==
    LoopAt(T, l, level, f.type, open + 1)[Len(T)].state # "done"

(* An entry that cannot be added to frame f, or the value of which cannot  *)
(* be parsed, is where recursive descent fails.                            *)
LEMMA FrameStalls ==
  ASSUME NEW T, NEW s, Continues(T, s), NEW l, NEW exact, NEW depth, NEW length,
         Admits(l, exact, depth, length), NEW level,
         NEW N, NEW f \in FrameOver(N), KeyDiscipline(f), Ready(f),
         NEW open, NEW here, Placed(s, f, open, here, length), InStep(T, l, level, f, open, here, exact),
         At(T, here).kind = "end" => f.awaitingValue,
         AttachFault(f) # "none" \/ ~ValueAt(T, l, level, here).ok
  PROVE  Stalls(T, l, level, f, open)
<1> DEFINE m == Len(f.items)
           loops == LoopAt(T, l, level, f.type, open + 1)
           loop == loops[m]
           values == ParseNodes(T, l)[level]
<1>1. m \in Nat /\ m \in 0..Len(T) /\ Len(T) \in Nat
  BY TurnsSuffice, ContinuesAt
<1>2. \/ loop = [state |-> "reading", keys |-> f.keys, items |-> f.items,
                 next |-> TurnOf(f, here)]
      \/ ~exact /\ loop.state = "failed"
  BY DEF InStep
<1>3. \A n \in 0..Len(T) : loops[n].state # "reading" => loops[Len(T)] = loops[n]
  BY <1>1, TurnsSettle DEF LoopAt
<1>4. m + 1 \in 0..Len(T) => loops[m + 1] = Turn(T, l, values, f.type, loop)
  <2> HIDE DEF m, loops
  <2> QED BY <1>1, NextTurn DEF loops
<1> HIDE DEF loops
<1>5. CASE loop.state = "failed"
  BY <1>1, <1>3, <1>5 DEF Stalls, loops
<1>6. CASE loop = [state |-> "reading", keys |-> f.keys, items |-> f.items,
                   next |-> TurnOf(f, here)]
  <2>0. /\ loop.next = TurnOf(f, here) /\ here \in Int /\ loop.state = "reading"
        /\ f.type = "dictionary" <=> f.awaitingValue
    BY <1>6 DEF Ready, Placed, ContainerType
  <2>1. AttachFault(f) # "none" =>
            ~((f.type = "dictionary" => KeyFits(T, l, loop)) /\ HasRoom(loop.items, l))
    BY <1>6, EntryFits
  <2>2. At(T, loop.next) # Token("end")
    <3>1. f.awaitingValue => At(T, here - 1).kind = "string"
      BY KeyInPlace
    <3> QED BY <2>0, <3>1 DEF TurnOf, Token
  <2>3. ValueAt(T, l, level, here) =
           values[IF f.type = "dictionary" THEN loop.next + 1 ELSE loop.next]
    BY <2>0 DEF TurnOf, ValueAt
  <2>4. CASE m + 1 \in 0..Len(T)
    <3>1. Turn(T, l, values, f.type, loop) = [loop EXCEPT !.state = "failed"]
      <4> DEFINE keyed == f.type = "dictionary"
                 value == values[IF keyed THEN loop.next + 1 ELSE loop.next]
      <4>1. ~((keyed => KeyFits(T, l, loop)) /\ value.ok /\ HasRoom(loop.items, l))
        BY <2>1, <2>3
      <4> HIDE DEF loop, value
      <4> QED BY <2>0, <2>2, <4>1 DEF Turn, value
    <3>2. loops[m + 1].state = "failed"
      BY <1>4, <1>6, <2>4, <3>1
    <3> QED BY <1>3, <2>4, <3>2 DEF Stalls, loops
  <2>5. CASE m + 1 \notin 0..Len(T)
    <3>1. Len(T) = m
      BY <1>1, <2>5
    <3> QED BY <2>0, <3>1 DEF Stalls, loops
  <2> QED BY <2>4, <2>5
<1> QED BY <1>2, <1>5, <1>6

(* A lexeme that is no key where a key must stand is another such place.   *)
LEMMA KeyStalls ==
  ASSUME NEW T, NEW s, Continues(T, s), NEW l, NEW exact, NEW depth, NEW length,
         Admits(l, exact, depth, length), NEW level,
         NEW f, f.type = "dictionary", ~f.awaitingValue, KeyDiscipline(f), f.keys \in Seq(Nat),
         NEW open, NEW here, Placed(s, f, open, here, length), InStep(T, l, level, f, open, here, exact),
         At(T, here) # Token("end"),
         ~FitsLength(At(T, here), l) \/ ~(f.lastKey <= At(T, here).val), At(T, here).val \in Nat
  PROVE  Stalls(T, l, level, f, open)
<1> DEFINE m == Len(f.items)
           loops == LoopAt(T, l, level, f.type, open + 1)
           loop == loops[m]
           values == ParseNodes(T, l)[level]
<1>1. m \in Nat /\ m \in 0..Len(T) /\ Len(T) \in Nat
  BY TurnsSuffice, ContinuesAt
<1>2. \/ loop = [state |-> "reading", keys |-> f.keys, items |-> f.items, next |-> here]
      \/ ~exact /\ loop.state = "failed"
  BY DEF InStep, TurnOf
<1>3. \A n \in 0..Len(T) : loops[n].state # "reading" => loops[Len(T)] = loops[n]
  BY <1>1, TurnsSettle DEF LoopAt
<1>4. m + 1 \in 0..Len(T) => loops[m + 1] = Turn(T, l, values, f.type, loop)
  <2> HIDE DEF m, loops
  <2> QED BY <1>1, NextTurn DEF loops
<1> HIDE DEF loops
<1>5. CASE loop.state = "failed"
  BY <1>1, <1>3, <1>5 DEF Stalls, loops
<1>6. CASE loop = [state |-> "reading", keys |-> f.keys, items |-> f.items, next |-> here]
  <2>0. loop.next = here /\ loop.state = "reading" /\ loop.keys = f.keys
    BY <1>6
  <2>1. ~KeyFits(T, l, loop)
    <3>1. f.keys # <<>> => f.keys[Len(f.keys)] = f.lastKey
      BY DEF KeyDiscipline, Last
    <3>2. f.keys = <<>> => f.lastKey = 0
      BY DEF Placed
    <3>3. f.keys # <<>> => f.keys[Len(f.keys)] \in Nat
      BY EmptySeq, ElementOfSeq
    <3> QED BY <2>0, <3>1, <3>2, <3>3 DEF KeyFits
  <2>2. CASE m + 1 \in 0..Len(T)
    <3>1. Turn(T, l, values, f.type, loop) = [loop EXCEPT !.state = "failed"]
      <4> HIDE DEF loop
      <4> QED BY <2>0, <2>1 DEF Turn
    <3>2. loops[m + 1].state = "failed"
      BY <1>4, <1>6, <2>2, <3>1
    <3> QED BY <1>3, <2>2, <3>2 DEF Stalls, loops
  <2>3. CASE m + 1 \notin 0..Len(T)
    <3>1. Len(T) = m
      BY <1>1, <2>3
    <3> QED BY <2>0, <3>1 DEF Stalls, loops
  <2> QED BY <2>2, <2>3
<1> QED BY <1>2, <1>5, <1>6

\* What recursive descent makes of the container of frame f: its loop, closed.
LEMMA FrameValue ==
  ASSUME NEW T, NEW s, Continues(T, s), NEW l, l.depth \in Nat,
         NEW level \in 1..l.depth, level < l.depth,
         NEW f, NEW open, NEW here, NEW length, Placed(s, f, open, here, length)
  PROVE  ValueAt(T, l, level + 1, open) =
            LET ended == LoopAt(T, l, level, f.type, open + 1)[Len(T)]
            IN IF ended.state = "done"
               THEN Success(ContainerNode(f.type, ended.keys, ended.items), ended.next)
               ELSE Failure
<1>1. open \in 1..Len(s) /\ s[open].kind = f.type /\ f.type \in ContainerType
  BY DEF Placed
<1>2. At(T, open).kind = f.type /\ open \in Nat
  BY <1>1, ContinuesAt
<1>3. level + 1 \in 0..l.depth /\ level + 1 > 1 /\ (level + 1) - 1 = level
  OBVIOUS
<1> QED BY <1>1, <1>2, <1>3, ValueIs

(* The container of frame f, closed at here, is what the loop completes.   *)
LEMMA FrameCloses ==
  ASSUME NEW T, NEW s, Continues(T, s), NEW l, NEW exact, NEW depth, NEW length,
         Admits(l, exact, depth, length),
         NEW level \in 1..l.depth, level < l.depth,
         NEW f, ~f.awaitingValue,
         NEW open, NEW here, Placed(s, f, open, here, length), InStep(T, l, level, f, open, here, exact),
         here <= Len(T), At(T, here) = Token("end")
  PROVE  Yields(T, l, level + 1, open, ContainerNode(f.type, f.keys, f.items), here + 1, exact)
<1> DEFINE m == Len(f.items)
           loops == LoopAt(T, l, level, f.type, open + 1)
           loop == loops[m]
           values == ParseNodes(T, l)[level]
<1>1. m \in Nat /\ m \in 0..Len(T) /\ Len(T) \in Nat /\ m + 1 \in 0..Len(T)
  BY TurnsSuffice, ContinuesAt
<1>2. \/ loop = [state |-> "reading", keys |-> f.keys, items |-> f.items, next |-> here]
      \/ ~exact /\ loop.state = "failed"
  BY DEF InStep, TurnOf
<1>3. \A n \in 0..Len(T) : loops[n].state # "reading" => loops[Len(T)] = loops[n]
  BY <1>1, TurnsSettle DEF LoopAt
<1>4. loops[m + 1] = Turn(T, l, values, f.type, loop)
  <2> HIDE DEF m, loops
  <2> QED BY <1>1, NextTurn DEF loops
<1>5. ValueAt(T, l, level + 1, open) =
         IF loops[Len(T)].state = "done"
         THEN Success(ContainerNode(f.type, loops[Len(T)].keys, loops[Len(T)].items),
                      loops[Len(T)].next)
         ELSE Failure
  BY FrameValue DEF Admits
<1> HIDE DEF loops
<1>6. CASE ~exact /\ loop.state = "failed"
  <2>1. loops[Len(T)].state # "done"
    BY <1>1, <1>3, <1>6
  <2> QED BY <1>5, <1>6, <2>1 DEF Yields, Failure
<1>7. CASE loop = [state |-> "reading", keys |-> f.keys, items |-> f.items, next |-> here]
  <2>1. loops[m + 1] = [state |-> "done", keys |-> f.keys, items |-> f.items, next |-> here + 1]
    <3>1. loop.state = "reading" /\ At(T, loop.next) = Token("end")
      BY <1>7
    <3>2. loops[m + 1] = [loop EXCEPT !.state = "done", !.next = loop.next + 1]
      <4> HIDE DEF loop
      <4> QED BY <1>4, <3>1 DEF Turn
    <3>3. loop.next + 1 = here + 1
      BY <1>7
    <3> HIDE DEF loop
    <3> QED BY <1>7, <3>2, <3>3
  <2>2. loops[Len(T)] = [state |-> "done", keys |-> f.keys, items |-> f.items, next |-> here + 1]
    BY <1>1, <1>3, <2>1
  <2> QED BY <1>5, <2>2 DEF Yields
<1> QED BY <1>2, <1>6, <1>7

------------------------------------------------------------------------------
(* The same for the whole stack: frame i was opened at opened[i].          *)

\* Frame i of a stack of n waits for the frame above it, the last at here.
WaitsAt(i, n, opened, here) == IF i < n THEN opened[i + 1] ELSE here

Tracked(stack, text, opened, here, depth, length) ==
    LET n == Len(stack)
    IN /\ opened \in Seq(Nat) /\ Len(opened) = n
       /\ stack # <<>> => opened[1] = 1
       /\ \A i \in 1..n : Placed(text, stack[i], opened[i], WaitsAt(i, n, opened, here), length)
       /\ \A l, exact, T :
             Admits(l, exact, depth, length) /\ Continues(T, text) =>
                \A i \in 1..n :
                    InStep(T, l, l.depth - i, stack[i], opened[i],
                           WaitsAt(i, n, opened, here), exact)

LEMMA ContinuesFurther ==
  ASSUME NEW T, NEW text, NEW s, Continues(T, text), Continues(text, s)
  PROVE  Continues(T, s)
<1>1. Len(T) \in Nat /\ Len(text) \in Nat /\ Len(s) \in Nat
  BY ContinuesAt
<1> QED BY <1>1 DEF Continues

LEMMA PlacedFurther ==
  ASSUME NEW text, NEW s, Continues(text, s), NEW f, NEW open, NEW here, NEW length,
         Placed(s, f, open, here, length)
  PROVE  Placed(text, f, open, here, length)
<1>1. /\ Len(text) \in Nat /\ Len(s) \in Nat /\ Len(s) <= Len(text)
      /\ \A i \in 1..Len(s) : text[i] = s[i]
  BY ContinuesAt DEF Continues
<1>2. /\ open \in 1..Len(s) /\ here \in 1..(Len(s) + 1) /\ Len(f.items) \in Nat
      /\ open + Len(f.items) < TurnOf(f, here)
  BY DEF Placed
<1>3. f.awaitingValue => here - 1 \in 1..Len(s)
  BY <1>1, <1>2 DEF TurnOf
<1>4. open \in 1..Len(text) /\ here \in 1..(Len(text) + 1)
  BY <1>1, <1>2
<1> QED BY <1>1, <1>2, <1>3, <1>4 DEF Placed

(* Without its innermost frame a stack waits where that was opened.        *)
LEMMA TrackedPop ==
  ASSUME NEW S, NEW stack \in Seq(S), stack # <<>>, NEW text, NEW opened, NEW here,
         NEW depth, NEW length, Tracked(stack, text, opened, here, depth, length)
  PROVE  Tracked(SubSeq(stack, 1, Len(stack) - 1), text, SubSeq(opened, 1, Len(opened) - 1),
                 opened[Len(stack)], depth, length)
<1> DEFINE n == Len(stack)
           u == SubSeq(stack, 1, n - 1)
           v == SubSeq(opened, 1, Len(opened) - 1)
<1>1. n \in Nat \ {0} /\ opened \in Seq(Nat) /\ Len(opened) = n
  BY EmptySeq DEF Tracked
<1>2. Len(u) = n - 1 /\ \A i \in 1..(n - 1) : u[i] = stack[i]
  BY FrontOfSeq
<1>3. v \in Seq(Nat) /\ Len(v) = n - 1 /\ \A i \in 1..(n - 1) : v[i] = opened[i]
  <2>1. opened # <<>>
    BY <1>1, EmptySeq
  <2>2. /\ SubSeq(opened, 1, Len(opened) - 1) \in Seq(Nat)
        /\ Len(SubSeq(opened, 1, Len(opened) - 1)) = Len(opened) - 1
        /\ \A i \in 1..Len(opened) - 1 : SubSeq(opened, 1, Len(opened) - 1)[i] = opened[i]
    BY <1>1, <2>1, FrontOfSeq
  <2> QED BY <1>1, <2>2
<1>4. \A i \in 1..(n - 1) : WaitsAt(i, n - 1, v, opened[n]) = WaitsAt(i, n, opened, here)
  <2> SUFFICES ASSUME NEW i \in 1..(n - 1)
               PROVE  WaitsAt(i, n - 1, v, opened[n]) = WaitsAt(i, n, opened, here)
    OBVIOUS
  <2>1. CASE i = n - 1
    BY <1>1, <2>1 DEF WaitsAt
  <2>2. CASE i # n - 1
    <3>1. i + 1 \in 1..(n - 1)
      BY <1>1, <2>2
    <3> QED BY <1>1, <1>3, <2>2, <3>1 DEF WaitsAt
  <2> QED BY <2>1, <2>2
<1>5. stack # <<>> => opened[1] = 1
  BY DEF Tracked
<1>6. \A i \in 1..n : Placed(text, stack[i], opened[i], WaitsAt(i, n, opened, here), length)
  BY DEF Tracked
<1>7. \A l, exact, T :
        Admits(l, exact, depth, length) /\ Continues(T, text) =>
            \A i \in 1..n :
                InStep(T, l, l.depth - i, stack[i], opened[i], WaitsAt(i, n, opened, here), exact)
  BY DEF Tracked
<1>8. u # <<>> => 1 \in 1..(n - 1)
  <2>1. u \in Seq(S)
    BY FrontOfSeq
  <2> QED BY <1>1, <1>2, <2>1, EmptySeq
<1> HIDE DEF n, u, v
<1>9. \A i \in 1..(n - 1) : i \in 1..n
  BY <1>1
<1> QED BY <1>2, <1>3, <1>4, <1>5, <1>6, <1>7, <1>8, <1>9 DEF Tracked, n, u, v

(* The innermost frame moves on while the text is read further.            *)
LEMMA TrackedAdvance ==
  ASSUME NEW S, NEW stack \in Seq(S), stack # <<>>, NEW text, NEW opened, NEW here,
         NEW depth, NEW length, Tracked(stack, text, opened, here, depth, length),
         NEW longer, Continues(longer, text), NEW next,
         NEW R, NEW u \in Seq(R), Len(u) = Len(stack),
         \A i \in 1..(Len(stack) - 1) : u[i] = stack[i],
         Placed(longer, u[Len(stack)], opened[Len(stack)], next, length),
         \A l, exact, T :
            Admits(l, exact, depth, length) /\ Continues(T, longer) =>
                InStep(T, l, l.depth - Len(stack), u[Len(stack)], opened[Len(stack)], next, exact)
  PROVE  Tracked(u, longer, opened, next, depth, length)
<1> DEFINE n == Len(stack)
<1>1. n \in Nat \ {0} /\ n = Len(u)
  BY EmptySeq
<1>2. /\ opened \in Seq(Nat) /\ Len(opened) = n /\ opened[1] = 1
      /\ \A i \in 1..n : Placed(text, stack[i], opened[i], WaitsAt(i, n, opened, here), length)
      /\ \A l, exact, T :
            Admits(l, exact, depth, length) /\ Continues(T, text) =>
                \A i \in 1..n :
                    InStep(T, l, l.depth - i, stack[i], opened[i],
                           WaitsAt(i, n, opened, here), exact)
  BY DEF Tracked
<1>3. \A i \in 1..(n - 1) : WaitsAt(i, n, opened, next) = WaitsAt(i, n, opened, here)
  BY <1>1 DEF WaitsAt
<1>4. WaitsAt(n, n, opened, next) = next
  BY <1>1 DEF WaitsAt
<1>5. \A i \in 1..n : i \in 1..(n - 1) \/ i = n
  BY <1>1
<1>6. ASSUME NEW i \in 1..n
      PROVE  Placed(longer, u[i], opened[i], WaitsAt(i, n, opened, next), length)
  <2>1. CASE i = n
    BY <1>4, <2>1
  <2>2. CASE i \in 1..(n - 1)
    <3>1. Placed(text, stack[i], opened[i], WaitsAt(i, n, opened, here), length)
      BY <1>2
    <3>2. Placed(longer, stack[i], opened[i], WaitsAt(i, n, opened, here), length)
      BY <3>1, PlacedFurther
    <3> QED BY <1>3, <2>2, <3>2
  <2> QED BY <1>5, <2>1, <2>2
<1>7. ASSUME NEW l, NEW exact, NEW T, Admits(l, exact, depth, length), Continues(T, longer),
             NEW i \in 1..n
      PROVE  InStep(T, l, l.depth - i, u[i], opened[i], WaitsAt(i, n, opened, next), exact)
  <2>1. CASE i = n
    BY <1>4, <1>7, <2>1
  <2>2. CASE i \in 1..(n - 1)
    <3>1. Continues(T, text)
      BY <1>7, ContinuesFurther
    <3>2. InStep(T, l, l.depth - i, stack[i], opened[i], WaitsAt(i, n, opened, here), exact)
      BY <1>2, <1>7, <3>1
    <3> QED BY <1>3, <2>2, <3>2
  <2> QED BY <1>5, <2>1, <2>2
<1> HIDE DEF n
<1> QED BY <1>1, <1>2, <1>6, <1>7 DEF Tracked

\* One more lexeme read.
LEMMA ReadContinues ==
  ASSUME NEW text \in Seq(Offered), NEW l \in Offered
  PROVE  LET longer == Append(text, l)
         IN /\ Continues(longer, text) /\ Len(longer) = Len(text) + 1
            /\ longer[Len(text) + 1] = l /\ Len(text) \in Nat
BY AppendProperties, LenProperties DEF Continues

(* A container that is opened is tracked from its opening byte on.         *)
LEMMA TrackedPush ==
  ASSUME NEW S, NEW stack \in Seq(S), NEW text, NEW opened, NEW here, here = Len(text) + 1,
         NEW depth, NEW length, Tracked(stack, text, opened, here, depth, length),
         NEW longer, Continues(longer, text), Len(longer) = here,
         NEW type \in ContainerType, longer[here].kind = type,
         stack = <<>> => here = 1,
         NEW R, NEW u \in Seq(R), u = Append(stack, Frame(type)), Len(u) = Len(stack) + 1,
         \A i \in 1..Len(stack) : u[i] = stack[i], u[Len(stack) + 1] = Frame(type)
  PROVE  Tracked(u, longer, Append(opened, here), here + 1, depth, length)
<1> DEFINE n == Len(stack)
           more == Append(opened, here)
           f == Frame(type)
<1>1. n \in Nat /\ n + 1 = Len(u) /\ here \in Nat /\ Len(text) \in Nat
  BY ContinuesAt
<1>2. /\ opened \in Seq(Nat) /\ Len(opened) = n /\ (stack # <<>> => opened[1] = 1)
      /\ \A i \in 1..n : Placed(text, stack[i], opened[i], WaitsAt(i, n, opened, here), length)
      /\ \A l, exact, T :
            Admits(l, exact, depth, length) /\ Continues(T, text) =>
                \A i \in 1..n :
                    InStep(T, l, l.depth - i, stack[i], opened[i],
                           WaitsAt(i, n, opened, here), exact)
  BY DEF Tracked
<1>3. /\ more \in Seq(Nat) /\ Len(more) = n + 1 /\ more[n + 1] = here
      /\ \A i \in 1..n : more[i] = opened[i]
  BY <1>1, <1>2, AppendProperties
<1>4. more[1] = 1
  <2>1. CASE stack = <<>>
    <3>1. n = 0
      BY <2>1, EmptySeq
    <3> QED BY <1>3, <2>1, <3>1
  <2>2. CASE stack # <<>>
    <3>1. 1 \in 1..n
      BY <1>1, <2>2, EmptySeq
    <3> QED BY <1>2, <1>3, <2>2, <3>1
  <2> QED BY <2>1, <2>2
<1> HIDE DEF more
<1>5. \A i \in 1..n : WaitsAt(i, n + 1, more, here + 1) = WaitsAt(i, n, opened, here)
  <2> SUFFICES ASSUME NEW i \in 1..n
               PROVE  WaitsAt(i, n + 1, more, here + 1) = WaitsAt(i, n, opened, here)
    OBVIOUS
  <2>1. CASE i = n
    BY <1>1, <1>3, <2>1 DEF WaitsAt
  <2>2. CASE i # n
    <3>1. i + 1 \in 1..n
      BY <1>1, <2>2
    <3> QED BY <1>1, <1>3, <2>2, <3>1 DEF WaitsAt
  <2> QED BY <2>1, <2>2
<1>6. WaitsAt(n + 1, n + 1, more, here + 1) = here + 1
  BY <1>1 DEF WaitsAt
<1>7. \A i \in 1..(n + 1) : i \in 1..n \/ i = n + 1
  BY <1>1
<1>8. /\ f.type = type /\ f.keys = <<>> /\ f.items = <<>> /\ f.lastKey = 0
      /\ f.awaitingValue = FALSE /\ Len(f.items) = 0
  BY DEF Frame
<1> HIDE DEF f
<1>9. Placed(longer, f, here, here + 1, length)
  <2>1. here \in 1..Len(longer) /\ here + 1 \in 1..(Len(longer) + 1)
    BY <1>1
  <2> QED BY <1>1, <1>8, <2>1 DEF Placed, TurnOf
<1>10. ASSUME NEW l, NEW exact, NEW T, Continues(T, longer)
       PROVE  InStep(T, l, l.depth - (n + 1), f, here, here + 1, exact)
  <2>1. LoopAt(T, l, l.depth - (n + 1), f.type, here + 1)[0] = Started(here + 1)
    BY <1>10, ContinuesAt, TurnsSteps DEF LoopAt
  <2> QED BY <1>8, <2>1 DEF InStep, Started, TurnOf
<1>11. ASSUME NEW i \in 1..(n + 1)
       PROVE  Placed(longer, u[i], more[i], WaitsAt(i, n + 1, more, here + 1), length)
  <2>1. CASE i = n + 1
    BY <1>3, <1>6, <1>9, <2>1 DEF f
  <2>2. CASE i \in 1..n
    <3>1. Placed(text, stack[i], opened[i], WaitsAt(i, n, opened, here), length)
      BY <1>2, <2>2
    <3>2. Placed(longer, stack[i], opened[i], WaitsAt(i, n, opened, here), length)
      BY <3>1, PlacedFurther
    <3> QED BY <1>3, <1>5, <2>2, <3>2
  <2> QED BY <1>7, <2>1, <2>2
<1>12. ASSUME NEW l, NEW exact, NEW T, Admits(l, exact, depth, length), Continues(T, longer),
              NEW i \in 1..(n + 1)
       PROVE  InStep(T, l, l.depth - i, u[i], more[i], WaitsAt(i, n + 1, more, here + 1), exact)
  <2>1. CASE i = n + 1
    BY <1>3, <1>6, <1>10, <1>12, <2>1 DEF f
  <2>2. CASE i \in 1..n
    <3>1. Continues(T, text)
      BY <1>12, ContinuesFurther
    <3>2. InStep(T, l, l.depth - i, stack[i], opened[i], WaitsAt(i, n, opened, here), exact)
      BY <1>2, <1>12, <2>2, <3>1
    <3> QED BY <1>3, <1>5, <2>2, <3>2
  <2> QED BY <1>7, <2>1, <2>2
<1> HIDE DEF n
<1> QED BY <1>1, <1>3, <1>4, <1>11, <1>12 DEF Tracked, more

(* A value the loop adds to the innermost frame is tracked.                *)
LEMMA TrackedDeliver ==
  ASSUME NEW stack, NEW depth \in Nat, StackInv(stack, depth), stack # <<>>,
         Ready(Last(stack)), AttachFault(Last(stack)) = "none",
         NEW text, NEW opened, NEW here, NEW length,
         Tracked(stack, text, opened, here, depth, length),
         NEW longer, Continues(longer, text), here <= Len(longer), longer[here].kind # "end",
         NEW node, NEW next, next = Len(longer) + 1,
         \A l, exact, T :
            Admits(l, exact, depth, length) /\ Continues(T, longer) =>
                Yields(T, l, l.depth - Len(stack), here, node, next, exact)
  PROVE  Tracked([stack EXCEPT ![Len(stack)] = Attached(@, node)], longer, opened, next,
                 depth, length)
<1>1. PICK N : stack \in Seq(FrameOver(N))
  BY DEF StackInv, StackOf
<1> DEFINE n == Len(stack)
           f == Last(stack)
           g == Attached(f, node)
           M == N \cup {node}
           u == [stack EXCEPT ![n] = Attached(@, node)]
           open == opened[n]
<1>2. n \in Nat \ {0} /\ n \in 1..n /\ f = stack[n] /\ f \in FrameOver(N)
  BY <1>1, LastFrame
<1>3. KeyDiscipline(f)
  BY <1>2 DEF StackInv
<1>4. g \in FrameOver(M)
  BY <1>2, <1>3, AttachedInOrder
<1>5. u \in Seq(FrameOver(M)) /\ Len(u) = n /\ u[n] = g /\ \A i \in 1..(n - 1) : u[i] = stack[i]
  <2>1. stack \in Seq(FrameOver(M))
    BY <1>1, FrameOverMonotonic
  <2>2. u = [stack EXCEPT ![n] = g]
    BY <1>2
  <2> HIDE DEF M, g, u, n, f
  <2>3. /\ u \in Seq(FrameOver(M)) /\ Len(u) = Len(stack)
        /\ \A i \in 1..Len(stack) : u[i] = IF i = n THEN g ELSE stack[i]
    BY <1>2, <1>4, <2>1, <2>2, ExceptSeq DEF n
  <2>4. \A i \in 1..(n - 1) : i \in 1..n /\ i # n
    BY <1>2
  <2> QED BY <1>2, <2>3, <2>4 DEF n
<1>6. /\ Placed(text, f, open, here, length)
      /\ \A l, exact, T : Admits(l, exact, depth, length) /\ Continues(T, text) =>
            InStep(T, l, l.depth - n, f, open, here, exact)
  <2>1. WaitsAt(n, n, opened, here) = here
    BY <1>2 DEF WaitsAt
  <2> HIDE DEF n, f
  <2> QED BY <1>2, <2>1 DEF Tracked, n
<1>7. Len(longer) \in Nat /\ here \in Nat /\ Len(text) \in Nat
  BY <1>6, ContinuesAt DEF Placed
<1>8. Placed(longer, f, open, here, length)
  BY <1>6, PlacedFurther
<1>9. /\ g.type = f.type /\ ~g.awaitingValue /\ Len(g.items) = Len(f.items) + 1
      /\ g.keys = <<>> => f.type = "list" /\ f.keys = <<>> /\ g.lastKey = f.lastKey
  <2>1. f.type = "list" => ~f.awaitingValue
    BY <1>6 DEF Placed
  <2>2. f.type \in ContainerType /\ f.keys \in Seq(Nat) /\ f.currentKey \in Nat
    BY <1>2 DEF FrameOver
  <2> HIDE DEF f, g
  <2>3. /\ g.type = f.type /\ ~g.awaitingValue /\ Len(g.items) = Len(f.items) + 1
        /\ g.keys = IF f.type = "dictionary" THEN Append(f.keys, f.currentKey) ELSE f.keys
        /\ g.lastKey = f.lastKey
    BY <1>2, <2>1, AttachedParts DEF g
  <2>4. Append(f.keys, f.currentKey) # <<>>
    BY <2>2, AppendProperties, SMTT(40)
  <2> QED BY <2>2, <2>3, <2>4 DEF ContainerType
<1>10. Placed(longer, g, open, next, length)
  <2>1. next \in 1..(Len(longer) + 1)
    BY <1>7
  <2>2. open + (Len(f.items) + 1) < next
    <3>1. open \in Nat /\ Len(f.items) \in Nat /\ open + Len(f.items) < TurnOf(f, here)
      BY <1>7, <1>8 DEF Placed
    <3> QED BY <1>7, <3>1, SMTT(40) DEF TurnOf
  <2>3. f.type = "list" => ~f.awaitingValue
    BY <1>6 DEF Placed
  <2> HIDE DEF g, f, open
  <2> QED BY <1>8, <1>9, <2>1, <2>2, <2>3, SMTT(40) DEF Placed, TurnOf
<1>11. ASSUME NEW l, NEW exact, NEW T, Admits(l, exact, depth, length), Continues(T, longer)
       PROVE  InStep(T, l, l.depth - n, g, open, next, exact)
  <2>1. InStep(T, l, l.depth - n, f, open, here, exact)
    BY <1>6, <1>11, ContinuesFurther
  <2>2. here <= Len(T) /\ At(T, here).kind # "end"
    <3>1. here \in 1..Len(longer)
      BY <1>6, <1>7 DEF Placed
    <3> QED BY <1>7, <1>11, <3>1, ContinuesAt
  <2>3. Yields(T, l, l.depth - n, here, node, next, exact)
    BY <1>11
  <2>4. Ready(f) /\ AttachFault(f) = "none"
    OBVIOUS
  <2> HIDE DEF n, f, open
  <2> QED BY <1>2, <1>3, <1>8, <1>11, <2>1, <2>2, <2>3, <2>4, FrameAdvances
<1> HIDE DEF n, u, g, f, open, M
<1>12. Tracked(u, longer, opened, next, depth, length)
  <2> DEFINE R == FrameOver(M)
  <2> HIDE DEF R
  <2>1. u \in Seq(R)
    BY <1>5 DEF R
  <2>2. /\ Placed(longer, u[Len(stack)], opened[Len(stack)], next, length)
        /\ \A l, exact, T :
              Admits(l, exact, depth, length) /\ Continues(T, longer) =>
                  InStep(T, l, l.depth - Len(stack), u[Len(stack)], opened[Len(stack)], next, exact)
    BY <1>5, <1>10, <1>11 DEF n, open
  <2>3. Len(u) = Len(stack) /\ \A i \in 1..(Len(stack) - 1) : u[i] = stack[i]
    BY <1>5 DEF n
  <2> QED BY <1>1, <2>1, <2>2, <2>3, TrackedAdvance
<1> QED BY <1>12 DEF u, n

\* The innermost frame of a tracked stack.
LEMMA TrackedTop ==
  ASSUME NEW stack, Len(stack) \in Nat \ {0}, NEW text, NEW opened, NEW here,
         NEW depth, NEW length, Tracked(stack, text, opened, here, depth, length),
         NEW n, n = Len(stack)
  PROVE  /\ Placed(text, stack[n], opened[n], here, length)
         /\ \A l, exact, T : Admits(l, exact, depth, length) /\ Continues(T, text) =>
               InStep(T, l, l.depth - n, stack[n], opened[n], here, exact)
<1>1. n \in 1..n /\ WaitsAt(n, n, opened, here) = here
  BY DEF WaitsAt
<1> QED BY <1>1 DEF Tracked

(* A key of the innermost frame, read but not yet followed by its value.   *)
LEMMA TrackedKey ==
  ASSUME NEW stack, NEW depth \in Nat, StackInv(stack, depth), stack # <<>>,
         Last(stack).type = "dictionary", ~Last(stack).awaitingValue,
         NEW text, NEW opened, NEW here, here = Len(text) + 1, NEW length,
         Tracked(stack, text, opened, here, depth, length),
         NEW longer, Continues(longer, text), Len(longer) = here,
         NEW k \in Nat, k <= length, longer[here].kind = "string", longer[here].val = k
  PROVE  Tracked([stack EXCEPT ![Len(stack)].currentKey = k, ![Len(stack)].lastKey = k,
                               ![Len(stack)].awaitingValue = TRUE],
                 longer, opened, here + 1, depth, length)
<1>1. PICK N : stack \in Seq(FrameOver(N))
  BY DEF StackInv, StackOf
<1> DEFINE n == Len(stack)
           f == Last(stack)
           g == [f EXCEPT !.currentKey = k, !.lastKey = k, !.awaitingValue = TRUE]
           u == [stack EXCEPT ![n].currentKey = k, ![n].lastKey = k, ![n].awaitingValue = TRUE]
           open == opened[n]
<1>2. n \in Nat \ {0} /\ n \in 1..n /\ f = stack[n] /\ f \in FrameOver(N)
  BY <1>1, LastFrame
<1>3. /\ g \in FrameOver(N) /\ g.keys = f.keys /\ g.items = f.items
      /\ g.type = f.type /\ g.lastKey = k /\ g.currentKey = k /\ g.awaitingValue
  BY <1>2 DEF FrameOver
<1>4. u \in Seq(FrameOver(N)) /\ Len(u) = n /\ u[n] = g /\ \A i \in 1..(n - 1) : u[i] = stack[i]
  <2>1. u = [stack EXCEPT ![n] = g]
    BY <1>1, <1>2
  <2> HIDE DEF g, u, n, f
  <2>2. /\ u \in Seq(FrameOver(N)) /\ Len(u) = Len(stack)
        /\ \A i \in 1..Len(stack) : u[i] = IF i = n THEN g ELSE stack[i]
    BY <1>1, <1>2, <1>3, <2>1, ExceptSeq DEF n
  <2>3. \A i \in 1..(n - 1) : i \in 1..n /\ i # n
    BY <1>2
  <2> QED BY <1>2, <2>2, <2>3 DEF n
<1>5. /\ Placed(text, f, open, here, length)
      /\ \A l, exact, T : Admits(l, exact, depth, length) /\ Continues(T, text) =>
            InStep(T, l, l.depth - n, f, open, here, exact)
  <2> HIDE DEF f
  <2> QED BY <1>2, TrackedTop
<1>6. Placed(longer, g, open, here + 1, length)
  <2>1. Placed(longer, f, open, here, length)
    BY <1>5, PlacedFurther
  <2>2. here \in Nat /\ here + 1 \in 1..(Len(longer) + 1) /\ (here + 1) - 1 = here
    BY <2>1, ContinuesAt DEF Placed
  <2>3. ~f.awaitingValue /\ f.type = "dictionary"
    OBVIOUS
  <2> HIDE DEF f, g, open
  <2> QED BY <1>3, <2>1, <2>2, <2>3 DEF Placed, TurnOf
<1>7. ASSUME NEW l, NEW exact, NEW T, Admits(l, exact, depth, length), Continues(T, longer)
      PROVE  InStep(T, l, l.depth - n, g, open, here + 1, exact)
  <2>1. InStep(T, l, l.depth - n, f, open, here, exact)
    BY <1>5, <1>7, ContinuesFurther
  <2>2. here \in Nat /\ (here + 1) - 1 = here
    BY ContinuesAt
  <2>3. ~f.awaitingValue
    OBVIOUS
  <2> HIDE DEF f, g, open, n
  <2> QED BY <1>3, <2>1, <2>2, <2>3 DEF InStep, TurnOf
<1> HIDE DEF n, u, g, f, open
<1>8. Tracked(u, longer, opened, here + 1, depth, length)
  <2> DEFINE R == FrameOver(N)
  <2> HIDE DEF R
  <2>1. u \in Seq(R)
    BY <1>4 DEF R
  <2>2. /\ Placed(longer, u[Len(stack)], opened[Len(stack)], here + 1, length)
        /\ \A l, exact, T :
              Admits(l, exact, depth, length) /\ Continues(T, longer) =>
                  InStep(T, l, l.depth - Len(stack), u[Len(stack)], opened[Len(stack)],
                         here + 1, exact)
    BY <1>4, <1>6, <1>7 DEF n, open
  <2>3. Len(u) = Len(stack) /\ \A i \in 1..(Len(stack) - 1) : u[i] = stack[i]
    BY <1>4 DEF n
  <2> QED BY <1>1, <2>1, <2>2, <2>3, TrackedAdvance
<1> QED BY <1>8 DEF u, n

(* A container that fails makes the one around it fail, up to the root.    *)
LEMMA StackFails ==
  ASSUME NEW stack, NEW depth \in Nat, StackInv(stack, depth), stack # <<>>,
         NEW text, NEW opened, NEW here, NEW length,
         Tracked(stack, text, opened, here, depth, length),
         NEW l, NEW exact, Admits(l, exact, depth, length), NEW T, Continues(T, text),
         Stalls(T, l, l.depth - Len(stack), stack[Len(stack)], opened[Len(stack)])
  PROVE  ~ParseText(T, l).ok
<1>1. PICK N : stack \in Seq(FrameOver(N))
  BY DEF StackInv, StackOf
<1> DEFINE n == Len(stack)
           Failing == {k \in 0..(n - 1) : Stalls(T, l, l.depth - (n - k), stack[n - k], opened[n - k])}
<1>2. n \in Nat \ {0} /\ n < depth /\ l.depth \in Nat /\ l.depth >= depth
  BY <1>1, LastFrame DEF StackInv, Admits
<1>3. /\ opened[1] = 1
      /\ \A i \in 1..n : Placed(text, stack[i], opened[i], WaitsAt(i, n, opened, here), length)
      /\ \A i \in 1..n : InStep(T, l, l.depth - i, stack[i], opened[i],
                               WaitsAt(i, n, opened, here), exact)
  BY DEF Tracked
<1>4. \A i \in 1..n : /\ stack[i] \in FrameOver(N) /\ KeyDiscipline(stack[i])
                      /\ i < n => Ready(stack[i])
  <2>1. \A i \in 1..n : i < n => i \in 1..(n - 1)
    BY <1>2
  <2> QED BY <1>1, <2>1, ElementOfSeq DEF StackInv
<1> HIDE DEF n
\* The value that frame i stands for has failed with it.
<1>5. ASSUME NEW i \in 1..n, Stalls(T, l, l.depth - i, stack[i], opened[i])
      PROVE  ~ValueAt(T, l, (l.depth - i) + 1, opened[i]).ok
  <2>1. l.depth - i \in 1..l.depth /\ l.depth - i < l.depth
    BY <1>2
  <2>2. Placed(text, stack[i], opened[i], WaitsAt(i, n, opened, here), length)
    BY <1>3
  <2> DEFINE f == stack[i]
             level == l.depth - i
  <2>0. /\ level \in 1..l.depth /\ level < l.depth
        /\ Placed(text, f, opened[i], WaitsAt(i, n, opened, here), length)
    BY <2>1, <2>2
  <2> HIDE DEF f, level
  <2>3. ValueAt(T, l, level + 1, opened[i]) =
            LET ended == LoopAt(T, l, level, f.type, opened[i] + 1)[Len(T)]
            IN IF ended.state = "done"
               THEN Success(ContainerNode(f.type, ended.keys, ended.items), ended.next)
               ELSE Failure
    BY <1>2, <2>0, FrameValue
  <2> QED BY <1>5, <2>3 DEF Stalls, Failure, f, level
<1>6. 0 \in Failing
  BY <1>2 DEF n
<1>7. ASSUME NEW k \in 0..(n - 1), k < n - 1, k \in Failing PROVE k + 1 \in Failing
  <2> DEFINE i == n - k
             j == i - 1
  <2>1. /\ i \in 1..n /\ j \in 1..n /\ j < n /\ j + 1 = i /\ (l.depth - i) + 1 = l.depth - j
        /\ n - (k + 1) = j /\ k + 1 \in 0..(n - 1)
    BY <1>2, <1>7
  <2>2. Stalls(T, l, l.depth - i, stack[i], opened[i])
    BY <1>7
  <2> HIDE DEF i, j, Failing
  <2>3. ~ValueAt(T, l, l.depth - j, opened[i]).ok
    BY <1>5, <2>1, <2>2
  <2>4. WaitsAt(j, n, opened, here) = opened[i]
    BY <2>1 DEF WaitsAt
  <2>5. At(T, opened[i]).kind # "end"
    <3>1. Placed(text, stack[i], opened[i], WaitsAt(i, n, opened, here), length)
      BY <1>3, <2>1
    <3>2. opened[i] \in 1..Len(text) /\ text[opened[i]].kind \in ContainerType
      BY <3>1 DEF Placed
    <3> QED BY <3>2, ContinuesAt DEF ContainerType
  <2> DEFINE f == stack[j]
  <2>6. /\ f \in FrameOver(N) /\ KeyDiscipline(f) /\ Ready(f)
        /\ Placed(text, f, opened[j], opened[i], length)
        /\ InStep(T, l, l.depth - j, f, opened[j], opened[i], exact)
    BY <1>3, <1>4, <2>1, <2>4
  <2> HIDE DEF f
  <2>7. Stalls(T, l, l.depth - j, f, opened[j])
    BY <2>3, <2>5, <2>6, FrameStalls
  <2>8. Stalls(T, l, l.depth - (n - (k + 1)), stack[n - (k + 1)], opened[n - (k + 1)])
    BY <2>1, <2>7 DEF f
  <2> QED BY <2>1, <2>8 DEF Failing
<1> HIDE DEF Failing
<1>8. \A k \in 0..(n - 1) : k \in Failing
  <2>1. 0 \in Int /\ n - 1 \in Int
    BY <1>2
  <2> QED BY <1>6, <1>7, <2>1, InductionUpTo
<1>9. Stalls(T, l, l.depth - 1, stack[1], opened[1])
  <2>1. n - 1 \in 0..(n - 1) /\ n - (n - 1) = 1
    BY <1>2
  <2> QED BY <1>8, <2>1 DEF Failing
<1>10. ~ValueAt(T, l, l.depth, 1).ok
  <2>1. 1 \in 1..n /\ (l.depth - 1) + 1 = l.depth
    BY <1>2
  <2> QED BY <1>3, <1>5, <1>9, <2>1
<1> QED BY <1>10 DEF ParseText, ValueAt

------------------------------------------------------------------------------
(***************************************************************************)
(* While the loop runs, recursive descent is in step with its stack; when  *)
(* the loop has built a root, recursive descent has built the same.        *)
(***************************************************************************)
DescentInStep ==
    /\ pc = "parsing" =>
        /\ frames = <<>> => seen = <<>>
        /\ \E opened : Tracked(frames, seen, opened, Len(seen) + 1, maxParserDepth, maxStringLength)
    /\ pc = "finish" =>
        \A l, T : Admits(l, TRUE, maxParserDepth, maxStringLength) /\ Continues(T, seen) =>
            ParseText(T, l) = Success(root, Len(seen) + 1)

LEMMA ScalarAt ==
  ASSUME NEW T, NEW pos, NEW l, l.length = maxStringLength, NEW x, At(T, pos) = x
  PROVE  /\ ReadableScalar(x) => Scalar(T, pos, l) = Success(ScalarNode(x), pos + 1)
         /\ ~ReadableScalar(x) => Scalar(T, pos, l) = Failure
BY DEF ReadableScalar, Scalar, ScalarNode, FitsLength

\* What recursive descent makes of a scalar.
LEMMA ScalarYields ==
  ASSUME NEW T, NEW l, NEW exact, NEW depth, Admits(l, exact, depth, maxStringLength),
         NEW level \in 1..l.depth, exact => level > 1, NEW pos \in Nat,
         ~Opens(At(T, pos))
  PROVE  /\ ReadableScalar(At(T, pos)) =>
                Yields(T, l, level, pos, ScalarNode(At(T, pos)), pos + 1, exact)
         /\ ~ReadableScalar(At(T, pos)) => ~ValueAt(T, l, level, pos).ok
<1> DEFINE x == At(T, pos)
<1>1. l.depth \in Nat /\ l.length = maxStringLength /\ level \in 0..l.depth
  BY DEF Admits
<1>2. /\ level <= 1 => ValueAt(T, l, level, pos) = Failure
      /\ level > 1 => ValueAt(T, l, level, pos) = Scalar(T, pos, l)
  BY <1>1, ValueIs DEF Opens
<1>3. /\ ReadableScalar(x) => Scalar(T, pos, l) = Success(ScalarNode(x), pos + 1)
      /\ ~ReadableScalar(x) => Scalar(T, pos, l) = Failure
  BY <1>1, ScalarAt
<1>4. level <= 1 \/ level > 1
  BY <1>1
<1> HIDE DEF x
<1>5. ~Failure.ok
  BY DEF Failure
<1> QED BY <1>2, <1>3, <1>4, <1>5 DEF Yields, x

LEMMA LexemeKinds ==
  ASSUME NEW l \in Offered
  PROVE  l.kind = "end" <=> l = Token("end")
<1>1. CASE l \in {Token(k) : k \in LexemeKind \ {"integer", "string", "cut", "eof"}}
  BY <1>1 DEF Token
<1>2. CASE l \in [kind : {"integer"}, val : Integers] \cup [kind : {"string"}, val : Strings]
                \cup [kind : {"cut"}, val : Strings \ {0}]
  BY <1>2 DEF Token
<1> QED BY <1>1, <1>2 DEF Offered

\* The innermost frame of the running parser.
LEMMA ParserTop ==
  ASSUME IInv, pc = "parsing", frames # <<>>
  PROVE  /\ maxParserDepth \in Nat /\ StackInv(frames, maxParserDepth)
         /\ Len(frames) \in Nat \ {0} /\ Len(frames) < maxParserDepth
         /\ Top = frames[Len(frames)] /\ Top = Last(frames) /\ KeyDiscipline(Top)
         /\ \E N : frames \in Seq(FrameOver(N)) /\ Top \in FrameOver(N)
<1>1. maxParserDepth \in Nat
  BY LimitAssumption DEF IInv, TypeOK
<1>2. StackInv(frames, maxParserDepth)
  BY DEF IInv
<1>3. PICK N : frames \in Seq(FrameOver(N))
  BY <1>2 DEF StackInv, StackOf
<1>4. /\ Len(frames) \in Nat \ {0} /\ Len(frames) \in 1..Len(frames)
      /\ Last(frames) = frames[Len(frames)] /\ Last(frames) \in FrameOver(N)
  BY <1>3, LastFrame
<1>5. Len(frames) < maxParserDepth /\ KeyDiscipline(frames[Len(frames)])
  BY <1>2, <1>4 DEF StackInv
<1> QED BY <1>1, <1>2, <1>3, <1>4, <1>5 DEF Top

(* The text recursive descent sees: it goes on where the source stands.    *)
Ahead(T) == Continues(T, seen) /\ At(T, Len(seen) + 1) = look

(* A value that cannot be read or added, or a key that is none, where the  *)
(* innermost container stands.                                             *)
LEMMA TopFails ==
  ASSUME IInv, DescentInStep, pc = "parsing", frames # <<>>,
         NEW T, Ahead(T), NEW l, Admits(l, FALSE, maxParserDepth, maxStringLength),
         \/ /\ Ready(Top) /\ (look.kind = "end" => Top.awaitingValue)
            /\ \/ AttachFault(Top) # "none"
               \/ ~ValueAt(T, l, l.depth - Len(frames), Len(seen) + 1).ok
         \/ /\ Top.type = "dictionary" /\ ~Top.awaitingValue /\ look # Token("end")
            /\ ~FitsLength(look, l) \/ ~(Top.lastKey <= look.val)
  PROVE  ~ParseText(T, l).ok
<1> DEFINE n == Len(frames)
           f == Top
           here == Len(seen) + 1
<1>1. PICK opened : Tracked(frames, seen, opened, here, maxParserDepth, maxStringLength)
  BY DEF DescentInStep
<1>2. /\ maxParserDepth \in Nat /\ StackInv(frames, maxParserDepth)
      /\ n \in Nat \ {0} /\ f = frames[n] /\ f = Last(frames) /\ KeyDiscipline(f)
  BY ParserTop
<1>3. PICK N : frames \in Seq(FrameOver(N)) /\ f \in FrameOver(N)
  BY ParserTop
<1>4. Continues(T, seen) /\ At(T, here) = look /\ look.val \in Nat
  BY OfferedLexemes DEF Ahead, IInv, TypeOK
<1> DEFINE open == opened[n]
<1>5. /\ Placed(seen, f, open, here, maxStringLength)
      /\ InStep(T, l, l.depth - n, f, open, here, FALSE)
  <2> HIDE DEF here, f
  <2> QED BY <1>1, <1>2, <1>4, TrackedTop
<1>6. Stalls(T, l, l.depth - n, f, open)
  <2>1. CASE /\ Ready(Top) /\ (look.kind = "end" => Top.awaitingValue)
             /\ \/ AttachFault(Top) # "none"
                \/ ~ValueAt(T, l, l.depth - Len(frames), Len(seen) + 1).ok
    <3>1. /\ Ready(f) /\ (At(T, here).kind = "end" => f.awaitingValue)
          /\ AttachFault(f) # "none" \/ ~ValueAt(T, l, l.depth - n, here).ok
      BY <1>4, <2>1
    <3> HIDE DEF f, here, open, n
    <3> QED BY <1>2, <1>3, <1>4, <1>5, <3>1, FrameStalls
  <2>2. CASE /\ Top.type = "dictionary" /\ ~Top.awaitingValue /\ look # Token("end")
             /\ ~FitsLength(look, l) \/ ~(Top.lastKey <= look.val)
    <3>1. /\ f.type = "dictionary" /\ ~f.awaitingValue /\ At(T, here) # Token("end")
          /\ ~FitsLength(At(T, here), l) \/ ~(f.lastKey <= At(T, here).val)
          /\ At(T, here).val \in Nat /\ f.keys \in Seq(Nat)
      BY <1>3, <1>4, <2>2 DEF FrameOver
    <3> HIDE DEF f, here, open, n
    <3> QED BY <1>2, <1>4, <1>5, <3>1, KeyStalls
  <2> QED BY <2>1, <2>2
<1>7. Stalls(T, l, l.depth - Len(frames), frames[Len(frames)], opened[Len(frames)])
  BY <1>2, <1>6
<1> QED BY <1>1, <1>2, <1>4, <1>7, StackFails

\* The limits in force, and the same with a level to spare.
LEMMA LimitsAdmit ==
  ASSUME IInv
  PROVE  /\ Admits(LimitsInForce, FALSE, maxParserDepth, maxStringLength)
         /\ LimitsInForce.depth = maxParserDepth
         /\ Admits([LimitsInForce EXCEPT !.depth = @ + 1], TRUE, maxParserDepth, maxStringLength)
<1>1. maxParserDepth \in Nat
  BY LimitAssumption DEF IInv, TypeOK
<1> QED BY <1>1 DEF Admits, LimitsInForce

\* A value that cannot be read where the source does not begin with a container.
LEMMA RootFails ==
  ASSUME IInv, DescentInStep, pc = "parsing", frames = <<>>, NEW T, Ahead(T),
         maxParserDepth <= 1 \/ (~Opens(look) /\ ~ReadableScalar(look))
  PROVE  ~ParseText(T, LimitsInForce).ok
<1> DEFINE l == LimitsInForce
<1>1. l.depth = maxParserDepth /\ l.depth \in Nat /\ Admits(l, FALSE, maxParserDepth, maxStringLength)
  BY LimitsAdmit DEF Admits
<1>2. At(T, 1) = look
  <2>1. Len(seen) = 0
    BY EmptySeq DEF DescentInStep
  <2> QED BY <2>1 DEF Ahead
<1> HIDE DEF l
<1>3. CASE l.depth <= 1
  <2>1. l.depth \in 0..l.depth
    BY <1>1
  <2>2. ValueAt(T, l, l.depth, 1) = Failure
    BY <1>1, <1>3, <2>1, ValueIs
  <2> QED BY <2>2 DEF ParseText, ValueAt, Failure, l
<1>4. CASE l.depth > 1
  <2>1. l.depth \in 1..l.depth /\ ~Opens(At(T, 1)) /\ ~ReadableScalar(At(T, 1))
    BY <1>1, <1>2, <1>4
  <2>2. ~ValueAt(T, l, l.depth, 1).ok
    BY <1>1, <2>1, ScalarYields
  <2> QED BY <2>2 DEF ParseText, ValueAt, l
<1> QED BY <1>1, <1>3, <1>4

\* A scalar the innermost container cannot take.
LEMMA TopScalarFails ==
  ASSUME IInv, DescentInStep, pc = "parsing", frames # <<>>, NEW T, Ahead(T),
         Ready(Top), look.kind = "end" => Top.awaitingValue,
         ~Opens(look), ~ReadableScalar(look)
  PROVE  ~ParseText(T, LimitsInForce).ok
<1> DEFINE l == LimitsInForce
           level == l.depth - Len(frames)
<1>1. l.depth = maxParserDepth /\ l.depth \in Nat /\ Admits(l, FALSE, maxParserDepth, maxStringLength)
  BY LimitsAdmit DEF Admits
<1>2. level \in 1..l.depth
  BY <1>1, ParserTop
<1>3. At(T, Len(seen) + 1) = look /\ Len(seen) + 1 \in Nat
  BY ContinuesAt DEF Ahead
<1> HIDE DEF l, level
<1>4. ~ValueAt(T, l, level, Len(seen) + 1).ok
  BY <1>1, <1>2, <1>3, ScalarYields
<1>5. ~ValueAt(T, l, l.depth - Len(frames), Len(seen) + 1).ok
  BY <1>4 DEF level
<1> QED BY <1>1, <1>5, TopFails DEF l

(* Where the loop finds a fault, recursive descent finds one.              *)
LEMMA FaultsRejected ==
  ASSUME IInv, DescentInStep, NEW T, Ahead(T),
         \/ UnexpectedEnd \/ OpenTooDeep \/ RejectScalar \/ KeyOutOfOrder
         \/ RejectKey \/ RootTooDeep \/ RejectRootScalar
  PROVE  ~ParseText(T, LimitsInForce).ok
<1>0. /\ maxParserDepth \in Nat /\ look \in Offered \cup {EOF} /\ look.val \in Nat
      /\ EOF.kind = "eof" /\ EOF.val = 0
  BY LimitAssumption, OfferedLexemes DEF IInv, TypeOK, EOF, Token
<1> DEFINE l == LimitsInForce
<1>00. /\ l.depth = maxParserDepth /\ l.length = maxStringLength
       /\ Admits(l, FALSE, maxParserDepth, maxStringLength)
  BY LimitsAdmit DEF Admits
<1>1. CASE UnexpectedEnd
  <2>1. pc = "parsing" /\ look = EOF /\ ~Opens(look) /\ ~ReadableScalar(look) /\ look # Token("end")
        /\ look.kind # "end"
    BY <1>0, <1>1 DEF UnexpectedEnd, More, Opens, ContainerType, ReadableScalar, Token
  <2>2. CASE frames = <<>>
    BY <2>1, <2>2, RootFails
  <2>3. CASE frames # <<>> /\ Ready(Top)
    BY <2>1, <2>3, TopScalarFails
  <2>4. CASE frames # <<>> /\ ~Ready(Top)
    <3>1. Top.type = "dictionary" /\ ~Top.awaitingValue
      BY <2>1, <2>4, ParserTop DEF Ready, FrameOver, ContainerType
    <3>2. ~FitsLength(look, l)
      BY <1>0, <2>1 DEF FitsLength
    <3> QED BY <1>00, <2>1, <2>4, <3>1, <3>2, TopFails
  <2> QED BY <2>2, <2>3, <2>4
<1>2. CASE OpenTooDeep
  <2>1. /\ pc = "parsing" /\ AtValue /\ look.kind \in ContainerType /\ look.kind # "end"
        /\ ~(Len(frames) + 1 < maxParserDepth)
    BY <1>2 DEF OpenTooDeep, FrameFits, Opens, ContainerType
  <2>2. CASE frames = <<>>
    <3>1. maxParserDepth <= 1
      BY <1>0, <2>1, <2>2, EmptySeq
    <3> QED BY <2>1, <2>2, <3>1, RootFails
  <2>3. CASE frames # <<>>
    <3>1. Ready(Top)
      BY <2>1, <2>3 DEF AtValue, Ready
    <3>2. l.depth - Len(frames) = 1 /\ 1 \in 0..l.depth
      BY <1>0, <1>00, <2>1, <2>3, ParserTop
    <3>3. Len(seen) + 1 \in Nat
      BY ContinuesAt DEF Ahead
    <3>4. ValueAt(T, l, 1, Len(seen) + 1) = Failure
      <4>1. l.depth \in Nat /\ 1 \in 0..l.depth /\ 1 <= 1
        BY <1>0, <1>00, <3>2
      <4> HIDE DEF l
      <4> QED BY <3>3, <4>1, ValueIs
    <3>5. ~ValueAt(T, l, l.depth - Len(frames), Len(seen) + 1).ok
      BY <3>2, <3>4 DEF Failure
    <3> QED BY <1>00, <2>1, <2>3, <3>1, <3>5, TopFails
  <2> QED BY <2>2, <2>3
<1>3. CASE RejectScalar
  <2>1. pc = "parsing" /\ More /\ frames # <<>> /\ AtValue /\ Unreadable(look)
    BY <1>3 DEF RejectScalar
  <2>2. Ready(Top) /\ ~Opens(look) /\ ~ReadableScalar(look)
    BY <2>1 DEF AtValue, Ready, Unreadable
  <2>3. look.kind = "end" => Top.awaitingValue
    <3>1. look \in Offered
      BY <1>0, <2>1 DEF More
    <3> QED BY <2>1, <2>2, <3>1, LexemeKinds DEF Unreadable, AtEnd, Ready
  <2> QED BY <2>1, <2>2, <2>3, TopScalarFails
<1>4. CASE KeyOutOfOrder
  <2>1. /\ pc = "parsing" /\ frames # <<>> /\ Top.type = "dictionary" /\ ~Top.awaitingValue
        /\ look.kind = "string" /\ Top.lastKey > look.val
    BY <1>4 DEF KeyOutOfOrder, AtKey, ReadableKey
  <2>2. look # Token("end") /\ Top.lastKey \in Nat
    <3>1. PICK N : Top \in FrameOver(N)
      BY <2>1, ParserTop
    <3>2. look.kind # Token("end").kind
      BY <2>1 DEF Token
    <3> QED BY <3>1, <3>2 DEF FrameOver
  <2>3. ~(Top.lastKey <= look.val)
    BY <1>0, <2>1, <2>2
  <2> QED BY <1>00, <2>1, <2>2, <2>3, TopFails
<1>5. CASE RejectKey
  <2>1. /\ pc = "parsing" /\ frames # <<>> /\ Top.type = "dictionary" /\ ~Top.awaitingValue
        /\ ~ReadableKey(look) /\ look # Token("end")
    BY <1>5 DEF RejectKey, AtKey
  <2>2. ~FitsLength(look, l)
    BY <1>00, <2>1 DEF ReadableKey, FitsLength
  <2> QED BY <1>00, <2>1, <2>2, TopFails
<1>6. CASE RootTooDeep
  <2>1. pc = "parsing" /\ frames = <<>> /\ maxParserDepth <= 1
    BY <1>0, <1>6 DEF RootTooDeep, AtRootScalar
  <2> QED BY <2>1, RootFails
<1>7. CASE RejectRootScalar
  <2>1. pc = "parsing" /\ frames = <<>> /\ ~Opens(look) /\ ~ReadableScalar(look)
    BY <1>7 DEF RejectRootScalar, AtRootScalar
  <2> QED BY <2>1, RootFails
<1> QED BY <1>1, <1>2, <1>3, <1>4, <1>5, <1>6, <1>7

------------------------------------------------------------------------------
(* The steps that read on. *)

\* The lexeme that is moved past, and the texts that begin with it.
LEMMA ConsumedText ==
  ASSUME IInv, look.kind # "eof", Consume
  PROVE  /\ seen' \in Seq(Offered) /\ Continues(seen', seen) /\ Len(seen) \in Nat
         /\ Len(seen') = Len(seen) + 1 /\ seen'[Len(seen) + 1] = look
         /\ look \in Offered /\ look.val \in Nat
         /\ \A T : Continues(T, seen') => Ahead(T) /\ Len(seen) + 1 <= Len(T)
<1>1. look \in Offered /\ seen \in Seq(Offered) /\ look.val \in Nat
  BY OfferedLexemes DEF IInv, TypeOK
<1>2. seen' = Append(seen, look)
  BY DEF Consume
<1>3. /\ Continues(seen', seen) /\ Len(seen') = Len(seen) + 1
      /\ seen'[Len(seen) + 1] = look /\ Len(seen) \in Nat
  BY <1>1, <1>2, ReadContinues
<1>4. ASSUME NEW T, Continues(T, seen') PROVE Ahead(T) /\ Len(seen) + 1 <= Len(T)
  <2>1. Continues(T, seen)
    BY <1>3, <1>4, ContinuesFurther
  <2>2. Len(seen) + 1 \in 1..Len(seen')
    BY <1>3
  <2>3. At(T, Len(seen) + 1) = look /\ Len(seen) + 1 <= Len(T)
    BY <1>3, <1>4, <2>2, ContinuesAt
  <2> QED BY <2>1, <2>3 DEF Ahead
<1> QED BY <1>1, <1>3, <1>4 DEF Continues

\* The loop goes on, with a tracked stack.
LEMMA StaysInStep ==
  ASSUME pc' = "parsing", UNCHANGED limits, frames' = <<>> => seen' = <<>>,
         NEW stack, stack = frames', NEW text, text = seen', NEW opened,
         NEW depth, depth = maxParserDepth, NEW length, length = maxStringLength,
         Tracked(stack, text, opened, Len(text) + 1, depth, length)
  PROVE  DescentInStep'
<1>1. depth = maxParserDepth' /\ length = maxStringLength'
  BY DEF limits
<1>2. (\E o : Tracked(frames, seen, o, Len(seen) + 1, maxParserDepth, maxStringLength))'
  BY <1>1
<1> QED BY <1>2 DEF DescentInStep

LEMMA ParseInStep ==
  ASSUME IInv, Parse
  PROVE  DescentInStep'
<1>1. frames' = <<>> /\ seen' = <<>> /\ pc' = "parsing" /\ UNCHANGED limits
  BY DEF Parse, IInv, TypeOK
<1>2. Tracked(<<>>, <<>>, <<>>, Len(<<>>) + 1, maxParserDepth, maxStringLength)
  BY EmptySeq DEF Tracked
<1> QED BY <1>1, <1>2, StaysInStep

LEMMA OpenInStep ==
  ASSUME IInv, DescentInStep, OpenContainer
  PROVE  DescentInStep'
<1>1. /\ pc = "parsing" /\ pc' = "parsing" /\ UNCHANGED limits /\ Consume
      /\ look.kind \in ContainerType /\ frames' = Append(frames, Frame(look.kind))
  BY DEF OpenContainer, Opens
<1>2. look.kind # "eof"
  BY <1>1 DEF ContainerType
<1>3. /\ Continues(seen', seen) /\ Len(seen) \in Nat
      /\ Len(seen') = Len(seen) + 1 /\ seen'[Len(seen) + 1] = look
  BY <1>1, <1>2, ConsumedText
<1>4. PICK opened : Tracked(frames, seen, opened, Len(seen) + 1, maxParserDepth, maxStringLength)
  BY <1>1 DEF DescentInStep
<1>5. PICK N : frames \in Seq(FrameOver(N))
  BY DEF IInv, StackInv, StackOf
<1> DEFINE here == Len(seen) + 1
           u == Append(frames, Frame(look.kind))
           R == FrameOver(N)
<1>6. /\ u \in Seq(R) /\ Len(u) = Len(frames) + 1 /\ u[Len(frames) + 1] = Frame(look.kind)
      /\ \A i \in 1..Len(frames) : u[i] = frames[i]
  <2>1. Frame(look.kind) \in R
    BY <1>1 DEF Frame, FrameOver
  <2> HIDE DEF R
  <2> QED BY <1>5, <2>1, AppendProperties DEF R
<1>7. frames = <<>> => here = 1
  BY <1>1, EmptySeq DEF DescentInStep
<1>8. Tracked(u, seen', Append(opened, here), here + 1, maxParserDepth, maxStringLength)
  <2> DEFINE longer == seen'
             type == look.kind
  <2>1. /\ longer[here].kind = type /\ type \in ContainerType /\ Len(longer) = here
        /\ Continues(longer, seen)
    BY <1>1, <1>3
  <2> HIDE DEF here, R, longer
  <2>2. here = Len(seen) + 1
    BY DEF here
  <2> HIDE DEF u, type
  <2>3. u = Append(frames, Frame(type))
    BY DEF u, type
  <2>4. /\ u \in Seq(R) /\ Len(u) = Len(frames) + 1 /\ u[Len(frames) + 1] = Frame(type)
        /\ \A i \in 1..Len(frames) : u[i] = frames[i]
    BY <1>6 DEF type
  <2>5. Tracked(frames, seen, opened, here, maxParserDepth, maxStringLength)
    BY <1>4, <2>2
  <2>6. frames \in Seq(R)
    BY <1>5 DEF R
  <2>7. Tracked(u, longer, Append(opened, here), here + 1, maxParserDepth, maxStringLength)
    BY <1>7, <2>1, <2>2, <2>3, <2>4, <2>5, <2>6, TrackedPush
  <2> QED BY <2>7 DEF longer
<1>9. frames' # <<>>
  <2>1. u # <<>>
    BY <1>5, <1>6, EmptySeq, LenProperties
  <2> QED BY <1>1, <2>1
<1>10. Len(seen') + 1 = here + 1
  BY <1>3
<1> HIDE DEF here
<1>11. Tracked(u, seen', Append(opened, here), Len(seen') + 1, maxParserDepth, maxStringLength)
  BY <1>8, <1>10
<1> QED BY <1>1, <1>9, <1>11, StaysInStep

LEMMA ReadKeyInStep ==
  ASSUME IInv, DescentInStep, ReadKey
  PROVE  DescentInStep'
<1>1. /\ pc = "parsing" /\ pc' = "parsing" /\ UNCHANGED limits /\ Consume /\ frames # <<>>
      /\ look.kind = "string" /\ look.val <= maxStringLength
      /\ Last(frames).type = "dictionary" /\ ~Last(frames).awaitingValue
      /\ frames' = [frames EXCEPT ![Len(frames)].currentKey = look.val,
                                  ![Len(frames)].lastKey = look.val,
                                  ![Len(frames)].awaitingValue = TRUE]
  BY DEF ReadKey, AtKey, ReadableKey, Top
<1>2. look.kind # "eof"
  BY <1>1
<1>3. /\ Continues(seen', seen) /\ Len(seen) \in Nat /\ look.val \in Nat
      /\ Len(seen') = Len(seen) + 1 /\ seen'[Len(seen) + 1] = look
  BY <1>1, <1>2, ConsumedText
<1>4. PICK opened : Tracked(frames, seen, opened, Len(seen) + 1, maxParserDepth, maxStringLength)
  BY <1>1 DEF DescentInStep
<1>5. StackInv(frames, maxParserDepth) /\ maxParserDepth \in Nat
  BY <1>1, ParserTop
<1> DEFINE here == Len(seen) + 1
           k == look.val
           u == [frames EXCEPT ![Len(frames)].currentKey = k, ![Len(frames)].lastKey = k,
                               ![Len(frames)].awaitingValue = TRUE]
<1>6. Tracked(u, seen', opened, here + 1, maxParserDepth, maxStringLength)
  <2> DEFINE longer == seen'
  <2>1. /\ longer[here].kind = "string" /\ longer[here].val = k /\ Len(longer) = here
        /\ Continues(longer, seen) /\ k \in Nat /\ k <= maxStringLength
    BY <1>1, <1>3
  <2>2. here = Len(seen) + 1
    OBVIOUS
  <2>3. Tracked(frames, seen, opened, here, maxParserDepth, maxStringLength)
    BY <1>4
  <2> HIDE DEF here, longer, k
  <2>4. Tracked(u, longer, opened, here + 1, maxParserDepth, maxStringLength)
    BY <1>1, <1>5, <2>1, <2>2, <2>3, TrackedKey
  <2> QED BY <2>4 DEF longer
<1>7. frames' # <<>>
  <2>1. PICK N : frames \in Seq(FrameOver(N))
    BY <1>1, ParserTop
  <2>2. StackInv(u, maxParserDepth) /\ DOMAIN u = DOMAIN frames
    BY <1>1, <1>3, <1>5, KeyKeepsStack DEF ReadKey, Top
  <2>3. 1 \in DOMAIN frames
    BY <1>1, <2>1, EmptySeq, LenProperties
  <2> QED BY <1>1, <2>2, <2>3
<1>8. Len(seen') + 1 = here + 1 /\ frames' = u
  BY <1>1, <1>3
<1> HIDE DEF here, u
<1>9. Tracked(u, seen', opened, Len(seen') + 1, maxParserDepth, maxStringLength)
  BY <1>6, <1>8
<1> QED BY <1>1, <1>7, <1>8, <1>9, StaysInStep

\* A stack that has been given a value is not empty.
LEMMA DeliveredStack ==
  ASSUME NEW stack, NEW depth \in Nat, StackInv(stack, depth), stack # <<>>, NEW node,
         AttachFault(Last(stack)) = "none"
  PROVE  [stack EXCEPT ![Len(stack)] = Attached(@, node)] # <<>>
<1>1. PICK N : stack \in Seq(FrameOver(N))
  BY DEF StackInv, StackOf
<1> DEFINE u == [stack EXCEPT ![Len(stack)] = Attached(@, node)]
<1>2. 1 \in DOMAIN stack
  BY <1>1, EmptySeq, LenProperties
<1>3. 1 \in DOMAIN u
  BY <1>1, <1>2
<1> QED BY <1>3

\* The scalar at look, for the frame that waits for it.
LEMMA LookYields ==
  ASSUME IInv, DescentInStep, pc = "parsing", frames # <<>>, ReadableScalar(look),
         NEW l, NEW exact, Admits(l, exact, maxParserDepth, maxStringLength),
         NEW T, Ahead(T)
  PROVE  Yields(T, l, l.depth - Len(frames), Len(seen) + 1, ScalarNode(look),
                (Len(seen) + 1) + 1, exact)
<1> DEFINE level == l.depth - Len(frames)
<1>1. /\ maxParserDepth \in Nat /\ Len(frames) \in Nat \ {0} /\ Len(frames) < maxParserDepth
  BY ParserTop
<1>2. level \in 1..l.depth /\ (exact => level > 1)
  BY <1>1 DEF Admits
<1>3. At(T, Len(seen) + 1) = look /\ Len(seen) + 1 \in Nat
  BY ContinuesAt DEF Ahead
<1>4. ~Opens(look)
  BY DEF Opens, ContainerType, ReadableScalar
<1> HIDE DEF level
<1>5. Yields(T, l, level, Len(seen) + 1, ScalarNode(look), (Len(seen) + 1) + 1, exact)
  BY <1>2, <1>3, <1>4, ScalarYields
<1> QED BY <1>5 DEF level

LEMMA ReadScalarInStep ==
  ASSUME IInv, DescentInStep, ReadScalar
  PROVE  DescentInStep'
<1>1. /\ pc = "parsing" /\ UNCHANGED limits /\ Consume /\ frames # <<>>
      /\ ReadableScalar(look) /\ AtValue /\ Deliver(frames, ScalarNode(look))
  BY DEF ReadScalar
<1>2. look.kind # "eof" /\ look.kind # "end"
  BY <1>1 DEF ReadableScalar
<1>3. CASE AttachFault(Last(frames)) # "none"
  <2>1. pc' = "idle"
    BY <1>1, <1>3 DEF Deliver, Fail
  <2> QED BY <2>1 DEF DescentInStep
<1>4. CASE AttachFault(Last(frames)) = "none"
  <2> DEFINE here == Len(seen) + 1
             longer == seen'
             node == ScalarNode(look)
             u == [frames EXCEPT ![Len(frames)] = Attached(@, node)]
             n == Len(frames)
  <2>1. pc' = "parsing" /\ frames' = u
    BY <1>1, <1>4 DEF Deliver
  <2>2. PICK opened : Tracked(frames, seen, opened, here, maxParserDepth, maxStringLength)
    BY <1>1 DEF DescentInStep
  <2>3. /\ Continues(longer, seen) /\ here <= Len(longer) /\ longer[here].kind # "end"
        /\ here + 1 = Len(longer) + 1
        /\ \A T : Continues(T, longer) => Ahead(T)
    BY <1>1, <1>2, ConsumedText
  <2>4. StackInv(frames, maxParserDepth) /\ maxParserDepth \in Nat /\ Ready(Last(frames))
    BY <1>1, ParserTop DEF AtValue, Top, Ready
  <2> HIDE DEF longer
  <2>5. \A l, exact, T :
            Admits(l, exact, maxParserDepth, maxStringLength) /\ Continues(T, longer) =>
                Yields(T, l, l.depth - Len(frames), here, node, here + 1, exact)
    BY <1>1, <2>3, LookYields
  <2> HIDE DEF here, node
  <2>6. Tracked(u, longer, opened, here + 1, maxParserDepth, maxStringLength)
    BY <1>1, <1>4, <2>2, <2>3, <2>4, <2>5, TrackedDeliver
  <2>7. u # <<>>
    BY <1>1, <1>4, <2>4, DeliveredStack
  <2> HIDE DEF u
  <2>8. Tracked(u, longer, opened, Len(longer) + 1, maxParserDepth, maxStringLength)
    BY <2>3, <2>6
  <2> QED BY <1>1, <2>1, <2>7, <2>8, StaysInStep DEF longer
<1> QED BY <1>3, <1>4

LEMMA ReadScalarRejected ==
  ASSUME IInv, DescentInStep, ReadScalar, pc' = "idle", NEW T, Ahead(T)
  PROVE  ~ParseText(T, LimitsInForce).ok
<1>1. /\ pc = "parsing" /\ frames # <<>> /\ AtValue /\ ReadableScalar(look)
      /\ Deliver(frames, ScalarNode(look))
  BY DEF ReadScalar
<1>2. AttachFault(Top) # "none"
  BY <1>1 DEF Deliver, Top
<1>3. Ready(Top) /\ look.kind # "end"
  BY <1>1 DEF AtValue, Ready, ReadableScalar
<1>4. Admits(LimitsInForce, FALSE, maxParserDepth, maxStringLength)
  BY LimitsAdmit
<1> QED BY <1>1, <1>2, <1>3, <1>4, TopFails

\* The container that look closes.
LEMMA CloseYields ==
  ASSUME IInv, DescentInStep, CloseContainer,
         NEW opened, Tracked(frames, seen, opened, Len(seen) + 1, maxParserDepth, maxStringLength),
         NEW l, NEW exact, Admits(l, exact, maxParserDepth, maxStringLength),
         NEW T, Continues(T, seen')
  PROVE  Yields(T, l, (l.depth - Len(frames)) + 1, opened[Len(frames)],
                ContainerNode(Top.type, Top.keys, Top.items), Len(seen') + 1, exact)
<1>1. /\ pc = "parsing" /\ frames # <<>> /\ look = Token("end") /\ Consume
      /\ (Top.type = "list" \/ ~Top.awaitingValue)
  BY DEF CloseContainer, AtEnd
<1> DEFINE n == Len(frames)
           f == Top
           here == Len(seen) + 1
           open == opened[n]
           level == l.depth - n
<1>2. /\ n \in Nat \ {0} /\ n < maxParserDepth /\ maxParserDepth \in Nat /\ f = frames[n]
  BY <1>1, ParserTop
<1>3. level \in 1..l.depth /\ level < l.depth
  BY <1>2 DEF Admits
<1>4. look.kind # "eof"
  BY <1>1 DEF Token
<1>5. /\ Continues(T, seen) /\ At(T, here) = Token("end") /\ here <= Len(T)
      /\ Len(seen') + 1 = here + 1
  BY <1>1, <1>4, ConsumedText DEF Ahead
<1>6. /\ Placed(seen, f, open, here, maxStringLength)
      /\ InStep(T, l, level, f, open, here, exact)
  <2> HIDE DEF here, f
  <2> QED BY <1>2, <1>5, TrackedTop DEF here
<1>7. ~f.awaitingValue
  BY <1>1, <1>6 DEF Placed
<1> HIDE DEF n, f, here, open, level
<1>8. Yields(T, l, level + 1, open, ContainerNode(f.type, f.keys, f.items), here + 1, exact)
  BY <1>3, <1>5, <1>6, <1>7, FrameCloses
<1> QED BY <1>5, <1>8 DEF n, f, open, level

\* The stack below the innermost frame, which waits for that one's container.
LEMMA OuterWaits ==
  ASSUME IInv, DescentInStep, CloseContainer, Outer # <<>>
  PROVE  /\ maxParserDepth \in Nat /\ StackInv(Outer, maxParserDepth) /\ Ready(Last(Outer))
         /\ Len(Outer) = Len(frames) - 1 /\ Len(Outer) \in Nat \ {0}
         /\ Last(Outer) = Outer[Len(Outer)] /\ KeyDiscipline(Last(Outer))
         /\ \E N : Last(Outer) \in FrameOver(N)
         /\ \E opened :
               /\ Tracked(frames, seen, opened, Len(seen) + 1, maxParserDepth, maxStringLength)
               /\ opened[Len(frames)] \in 1..Len(seen)
               /\ seen[opened[Len(frames)]].kind \in ContainerType
               /\ Tracked(Outer, seen, SubSeq(opened, 1, Len(opened) - 1),
                          opened[Len(frames)], maxParserDepth, maxStringLength)
<1>1. pc = "parsing" /\ frames # <<>>
  BY DEF CloseContainer, AtEnd
<1>2. /\ maxParserDepth \in Nat /\ StackInv(frames, maxParserDepth)
      /\ Len(frames) \in Nat \ {0} /\ Top = frames[Len(frames)]
  BY <1>1, ParserTop
<1>3. PICK N : frames \in Seq(FrameOver(N))
  BY <1>1, ParserTop
<1>4. StackInv(Outer, maxParserDepth) /\ Ready(Last(Outer))
  BY <1>1, <1>2, PopKeepsStack DEF Outer
<1>5. Outer \in Seq(FrameOver(N)) /\ Len(Outer) = Len(frames) - 1
  BY <1>1, <1>3, FrontOfSeq DEF Outer
<1>6. /\ Len(Outer) \in Nat \ {0} /\ Len(Outer) \in 1..Len(Outer)
      /\ Last(Outer) = Outer[Len(Outer)] /\ Last(Outer) \in FrameOver(N)
  BY <1>5, LastFrame
<1>7. KeyDiscipline(Last(Outer))
  BY <1>4, <1>6 DEF StackInv
<1>8. PICK opened : Tracked(frames, seen, opened, Len(seen) + 1, maxParserDepth, maxStringLength)
  BY <1>1 DEF DescentInStep
<1>9. Placed(seen, frames[Len(frames)], opened[Len(frames)], Len(seen) + 1, maxStringLength)
  <2> DEFINE n == Len(frames)
             here == Len(seen) + 1
  <2>1. n = Len(frames) /\ Tracked(frames, seen, opened, here, maxParserDepth, maxStringLength)
    BY <1>8
  <2> HIDE DEF here, n
  <2>2. Placed(seen, frames[n], opened[n], here, maxStringLength)
    BY <1>2, <2>1, TrackedTop
  <2> QED BY <2>2 DEF here, n
<1>10. Tracked(Outer, seen, SubSeq(opened, 1, Len(opened) - 1),
               opened[Len(frames)], maxParserDepth, maxStringLength)
  <2> DEFINE S == FrameOver(N)
             here == Len(seen) + 1
  <2>1. frames \in Seq(S) /\ Tracked(frames, seen, opened, here, maxParserDepth, maxStringLength)
    BY <1>3, <1>8
  <2> HIDE DEF S, here
  <2> QED BY <1>1, <2>1, TrackedPop DEF Outer
<1>11. opened[Len(frames)] \in 1..Len(seen) /\ seen[opened[Len(frames)]].kind \in ContainerType
  BY <1>9 DEF Placed
<1> QED BY <1>2, <1>4, <1>5, <1>6, <1>7, <1>8, <1>10, <1>11

LEMMA CloseInStep ==
  ASSUME IInv, DescentInStep, CloseContainer
  PROVE  DescentInStep'
<1> DEFINE closed == ContainerNode(Top.type, Top.keys, Top.items)
           n == Len(frames)
           longer == seen'
<1>1. /\ pc = "parsing" /\ UNCHANGED limits /\ Consume /\ frames # <<>> /\ look = Token("end")
      /\ IF Outer = <<>> THEN Complete(closed) ELSE Deliver(Outer, closed)
  BY DEF CloseContainer, AtEnd
<1>2. look.kind # "eof"
  BY <1>1 DEF Token
<1>3. /\ Continues(longer, seen) /\ Len(longer) = Len(seen) + 1 /\ Len(seen) \in Nat
      /\ Len(longer) \in Nat /\ \A i \in 1..Len(seen) : longer[i] = seen[i]
  BY <1>1, <1>2, ConsumedText, ContinuesAt DEF Continues
<1>4. n \in Nat \ {0} /\ n < maxParserDepth /\ maxParserDepth \in Nat
  BY <1>1, ParserTop
<1>5. CASE Outer = <<>>
  <2>1. pc' = "finish" /\ root' = closed
    BY <1>1, <1>5 DEF Complete
  <2>2. PICK opened : Tracked(frames, seen, opened, Len(seen) + 1, maxParserDepth, maxStringLength)
    BY <1>1 DEF DescentInStep
  <2>3. opened[n] = 1 /\ n = 1
    <3>1. PICK N : frames \in Seq(FrameOver(N))
      BY <1>1, ParserTop
    <3>2. Len(Outer) = n - 1
      BY <1>1, <3>1, FrontOfSeq DEF Outer
    <3>3. n = 1
      BY <1>4, <1>5, <3>2, EmptySeq
    <3> QED BY <1>1, <2>2, <3>3 DEF Tracked
  <2>4. ASSUME NEW l, NEW T, Admits(l, TRUE, maxParserDepth, maxStringLength), Continues(T, longer)
        PROVE  ParseText(T, l) = Success(closed, Len(longer) + 1)
    <3>1. Yields(T, l, (l.depth - n) + 1, opened[n], closed, Len(longer) + 1, TRUE)
      BY <2>2, <2>4, CloseYields
    <3>2. (l.depth - n) + 1 = l.depth
      BY <2>3, <2>4 DEF Admits
    <3> QED BY <2>3, <3>1, <3>2 DEF Yields, ParseText, ValueAt
  <2>5. UNCHANGED <<maxParserDepth, maxStringLength>>
    BY <1>1 DEF limits
  <2>6. (\A l, T : Admits(l, TRUE, maxParserDepth, maxStringLength) /\ Continues(T, seen) =>
            ParseText(T, l) = Success(root, Len(seen) + 1))'
    BY <2>1, <2>4, <2>5
  <2> QED BY <2>1, <2>6 DEF DescentInStep
<1>6. CASE Outer # <<>> /\ AttachFault(Last(Outer)) # "none"
  <2>1. pc' = "idle"
    BY <1>1, <1>6 DEF Deliver, Fail
  <2> QED BY <2>1 DEF DescentInStep
<1>7. CASE Outer # <<>> /\ AttachFault(Last(Outer)) = "none"
  <2> DEFINE u == [Outer EXCEPT ![Len(Outer)] = Attached(@, closed)]
  <2>1. pc' = "parsing" /\ frames' = u
    BY <1>1, <1>7 DEF Deliver
  <2>2. /\ StackInv(Outer, maxParserDepth) /\ Ready(Last(Outer)) /\ Len(Outer) = n - 1
    BY <1>7, OuterWaits
  <2>3. PICK opened :
           /\ Tracked(frames, seen, opened, Len(seen) + 1, maxParserDepth, maxStringLength)
           /\ opened[n] \in 1..Len(seen) /\ seen[opened[n]].kind \in ContainerType
           /\ Tracked(Outer, seen, SubSeq(opened, 1, Len(opened) - 1),
                      opened[n], maxParserDepth, maxStringLength)
    BY <1>7, OuterWaits
  <2> DEFINE here == opened[n]
             rest == SubSeq(opened, 1, Len(opened) - 1)
             next == Len(longer) + 1
  <2>4. here <= Len(longer) /\ longer[here].kind # "end"
    BY <1>3, <2>3 DEF ContainerType
  <2>5. ASSUME NEW l, NEW exact, NEW T,
               Admits(l, exact, maxParserDepth, maxStringLength), Continues(T, longer)
        PROVE  Yields(T, l, l.depth - Len(Outer), here, closed, next, exact)
    <3>1. Yields(T, l, (l.depth - n) + 1, here, closed, next, exact)
      BY <2>3, <2>5, CloseYields
    <3>2. (l.depth - n) + 1 = l.depth - Len(Outer)
      BY <1>4, <2>2, <2>5 DEF Admits
    <3> QED BY <3>1, <3>2
  <2>6. next = Len(longer) + 1 /\ Tracked(Outer, seen, rest, here, maxParserDepth, maxStringLength)
    BY <2>3
  <2> HIDE DEF longer, here, rest, closed, next
  <2>7. Tracked(u, longer, rest, next, maxParserDepth, maxStringLength)
    BY <1>3, <1>4, <1>7, <2>2, <2>4, <2>5, <2>6, TrackedDeliver
  <2>8. u # <<>>
    BY <1>4, <1>7, <2>2, DeliveredStack
  <2> HIDE DEF u
  <2>9. Tracked(u, longer, rest, Len(longer) + 1, maxParserDepth, maxStringLength)
    BY <2>6, <2>7
  <2> QED BY <1>1, <2>1, <2>8, <2>9, StaysInStep DEF longer
<1> QED BY <1>5, <1>6, <1>7

(* A closed container the one around it cannot take.                       *)
LEMMA CloseRejected ==
  ASSUME IInv, DescentInStep, CloseContainer, pc' = "idle", NEW T, Continues(T, seen')
  PROVE  ~ParseText(T, LimitsInForce).ok
<1> DEFINE closed == ContainerNode(Top.type, Top.keys, Top.items)
           l == LimitsInForce
<1>1. /\ pc = "parsing" /\ Consume /\ look = Token("end")
      /\ IF Outer = <<>> THEN Complete(closed) ELSE Deliver(Outer, closed)
  BY DEF CloseContainer, AtEnd
<1>2. Outer # <<>> /\ AttachFault(Last(Outer)) # "none"
  BY <1>1 DEF Complete, Deliver
<1>3. /\ maxParserDepth \in Nat /\ StackInv(Outer, maxParserDepth) /\ Ready(Last(Outer))
      /\ Len(Outer) \in Nat \ {0} /\ Last(Outer) = Outer[Len(Outer)]
      /\ KeyDiscipline(Last(Outer))
  BY <1>2, OuterWaits
<1>4. PICK N : Last(Outer) \in FrameOver(N)
  BY <1>2, OuterWaits
<1>5. PICK opened :
         /\ opened[Len(frames)] \in 1..Len(seen)
         /\ seen[opened[Len(frames)]].kind \in ContainerType
         /\ Tracked(Outer, seen, SubSeq(opened, 1, Len(opened) - 1),
                    opened[Len(frames)], maxParserDepth, maxStringLength)
  BY <1>2, OuterWaits
<1> DEFINE n == Len(Outer)
           f == Outer[n]
           here == opened[Len(frames)]
           rest == SubSeq(opened, 1, Len(opened) - 1)
           open == rest[n]
<1>6. Continues(T, seen) /\ Admits(l, FALSE, maxParserDepth, maxStringLength)
  <2>1. look.kind # "eof"
    BY <1>1 DEF Token
  <2> QED BY <1>1, <2>1, ConsumedText, LimitsAdmit DEF Ahead
<1>7. /\ Tracked(Outer, seen, rest, here, maxParserDepth, maxStringLength)
      /\ n = Len(Outer) /\ here \in 1..Len(seen) /\ seen[here].kind # "end"
  BY <1>5 DEF ContainerType
<1> HIDE DEF l, here, rest
<1>8. /\ Placed(seen, f, open, here, maxStringLength)
      /\ InStep(T, l, l.depth - n, f, open, here, FALSE)
  <2> HIDE DEF n
  <2> QED BY <1>3, <1>6, <1>7, TrackedTop
<1>9. At(T, here).kind # "end"
  BY <1>6, <1>7, ContinuesAt
<1>10. f \in FrameOver(N) /\ KeyDiscipline(f) /\ Ready(f) /\ AttachFault(f) # "none"
  BY <1>2, <1>3, <1>4
<1> HIDE DEF n, f, open
<1>11. Stalls(T, l, l.depth - n, f, open)
  BY <1>6, <1>8, <1>9, <1>10, FrameStalls
<1>12. Stalls(T, l, l.depth - Len(Outer), Outer[Len(Outer)], rest[Len(Outer)])
  BY <1>11 DEF n, f, open
<1>13. ~ParseText(T, l).ok
  BY <1>2, <1>3, <1>6, <1>7, <1>12, StackFails
<1> QED BY <1>13 DEF l

LEMMA RootScalarInStep ==
  ASSUME IInv, DescentInStep, RootScalar
  PROVE  DescentInStep'
<1>1. /\ pc = "parsing" /\ frames = <<>> /\ ~Opens(look) /\ ReadableScalar(look)
      /\ 1 < maxParserDepth /\ Consume /\ Complete(ScalarNode(look)) /\ UNCHANGED limits
  BY DEF RootScalar, AtRootScalar
<1>2. look.kind # "eof"
  BY <1>1 DEF ReadableScalar
<1>3. seen = <<>> /\ Len(seen) = 0
  BY <1>1, EmptySeq DEF DescentInStep
<1>4. Len(seen') = 1
  BY <1>1, <1>2, <1>3, ConsumedText
<1>5. pc' = "finish" /\ root' = ScalarNode(look)
  BY <1>1 DEF Complete
<1>6. ASSUME NEW l, NEW T, Admits(l, TRUE, maxParserDepth, maxStringLength), Continues(T, seen')
      PROVE  ParseText(T, l) = Success(ScalarNode(look), Len(seen') + 1)
  <2>1. At(T, 1) = look
    BY <1>1, <1>2, <1>3, <1>6, ConsumedText DEF Ahead
  <2>2. l.depth \in 1..l.depth /\ l.depth > 1
    BY <1>1, <1>6, LimitAssumption DEF Admits, IInv, TypeOK
  <2>3. Yields(T, l, l.depth, 1, ScalarNode(look), 1 + 1, TRUE)
    BY <1>1, <1>6, <2>1, <2>2, ScalarYields
  <2> QED BY <1>4, <2>3 DEF Yields, ParseText, ValueAt
<1>7. UNCHANGED <<maxParserDepth, maxStringLength>>
  BY <1>1 DEF limits
<1>8. (\A l, T : Admits(l, TRUE, maxParserDepth, maxStringLength) /\ Continues(T, seen) =>
          ParseText(T, l) = Success(root, Len(seen) + 1))'
  BY <1>5, <1>6, <1>7
<1> QED BY <1>5, <1>8 DEF DescentInStep

LEMMA StepKeepsDescent ==
  ASSUME IInv, DescentInStep, [Next]_vars
  PROVE  DescentInStep'
<1>1. CASE UNCHANGED vars
  BY <1>1 DEF vars, DescentInStep
<1>2. CASE Parse
  BY <1>2, ParseInStep
<1>3. CASE OpenContainer
  BY <1>3, OpenInStep
<1>4. CASE CloseContainer
  BY <1>4, CloseInStep
<1>5. CASE ReadScalar
  BY <1>5, ReadScalarInStep
<1>6. CASE ReadKey
  BY <1>6, ReadKeyInStep
<1>7. CASE RootScalar
  BY <1>7, RootScalarInStep
<1>8. CASE \/ UnexpectedEnd \/ OpenTooDeep \/ RejectScalar \/ KeyOutOfOrder
           \/ RejectKey \/ RootTooDeep \/ RejectRootScalar \/ HandleParseResult
           \/ SetMaxParserDepth \/ SetMaxStringLength
  <2>1. pc' = "idle"
    BY <1>8 DEF UnexpectedEnd, OpenTooDeep, RejectScalar, KeyOutOfOrder, RejectKey,
                RootTooDeep, RejectRootScalar, HandleParseResult, SetMaxParserDepth,
                SetMaxStringLength, Fail
  <2> QED BY <2>1 DEF DescentInStep
<1> QED BY <1>1, <1>2, <1>3, <1>4, <1>5, <1>6, <1>7, <1>8 DEF Next, ParserStep

(* The loop and recursive descent are in step in every reachable state.    *)
THEOREM DescentInvariance == Spec => []DescentInStep
<1>1. Init => DescentInStep
  BY DEF Init, DescentInStep
<1>2. IInv /\ DescentInStep /\ [Next]_vars => DescentInStep'
  BY StepKeepsDescent
<1> QED BY <1>1, <1>2, Invariance, PTL DEF Spec

------------------------------------------------------------------------------
(***************************************************************************)
(* Every step is a step of the contract.  Its text is what the source has  *)
(* shown so far, the lexeme under the read position included.              *)
(***************************************************************************)
Shown(s, l) == IF l # EOF THEN Append(s, l) ELSE s

\* The sources that show as much.
Possible(s, l) ==
    {Shown(s, l)} \cup (IF l = EOF THEN {} ELSE {Shown(s, l) \o ending : ending \in Endings})

\* The contract's recursive descent is that of the module.
LEMMA SameDescent ==
  \A t, l : Contract!ParseText(t, l) = ParseText(t, l)
BY DEF Contract!ParseText, ParseText, Contract!ParseNodes, ParseNodes,
       Contract!ParseContainer, ParseContainer, Contract!Turns, Turns, Contract!Turn, Turn,
       Contract!Started, Started, Contract!KeyFits, KeyFits, Contract!HasRoom, HasRoom,
       Contract!FitsLength, FitsLength, Contract!At, At, Contract!Scalar, Scalar,
       Contract!Success, Success, Contract!Failure, Failure, Contract!EmptyNode, EmptyNode,
       Contract!MakeNode, MakeNode, Contract!ContainerNode, ContainerNode,
       Contract!ContainerType, ContainerType, Contract!Token, Token, Contract!EOF, EOF,
       Contract!StringNode, StringNode, Contract!IntegerNode, IntegerNode

\* The text shown goes on from what has been moved past.
LEMMA ShownText ==
  ASSUME NEW s \in Seq(Offered), NEW l \in Offered \cup {EOF}
  PROVE  /\ Continues(Shown(s, l), s) /\ At(Shown(s, l), Len(s) + 1) = l
         /\ Shown(s, l) \in Seq(Offered) /\ Len(s) \in Nat
         /\ Len(Shown(s, l)) = IF l # EOF THEN Len(s) + 1 ELSE Len(s)
<1>1. Len(s) \in Nat
  BY LenProperties
<1> DEFINE text == Shown(s, l)
<1>2. CASE l # EOF
  <2>1. l \in Offered
    BY <1>2
  <2>2. /\ Continues(text, s) /\ Len(text) = Len(s) + 1 /\ text[Len(s) + 1] = l
    BY <1>1, <1>2, <2>1, ReadContinues DEF Shown
  <2>3. Len(s) + 1 \in DOMAIN text
    BY <1>1, <2>2, ContinuesAt
  <2> QED BY <1>1, <1>2, <2>2, <2>3 DEF At, Continues
<1>3. CASE l = EOF
  <2>1. text = s
    BY <1>3 DEF Shown
  <2>2. Continues(s, s)
    BY <1>1 DEF Continues
  <2>3. Len(s) + 1 \notin DOMAIN s
    BY <1>1, LenProperties
  <2> QED BY <1>1, <1>3, <2>1, <2>2, <2>3 DEF At
<1> QED BY <1>2, <1>3

\* Every one of them goes on from what has been moved past, with the lexeme
\* under the read position.
LEMMA PossibleTexts ==
  ASSUME NEW s \in Seq(Offered), NEW l \in Offered \cup {EOF}, NEW T \in Possible(s, l)
  PROVE  Continues(T, s) /\ At(T, Len(s) + 1) = l
<1> DEFINE text == Shown(s, l)
<1>1. /\ Continues(text, s) /\ At(text, Len(s) + 1) = l
      /\ text \in Seq(Offered) /\ Len(s) \in Nat
      /\ Len(text) = IF l # EOF THEN Len(s) + 1 ELSE Len(s)
  BY ShownText
<1>2. CASE T = text
  BY <1>1, <1>2
<1>3. CASE l # EOF /\ \E ending \in Endings : T = text \o ending
  <2>1. PICK ending \in Endings : T = text \o ending
    BY <1>3
  <2>2. ending \in Seq(Offered)
    BY EndingAssumption
  <2>0. text \in Seq(Offered)
    BY <1>1
  <2> HIDE DEF text
  <2>3. /\ T \in Seq(Offered) /\ Len(text) \in Nat /\ Len(ending) \in Nat
        /\ Len(T) = Len(text) + Len(ending)
        /\ \A i \in 1..Len(text) : T[i] = text[i]
    BY <2>0, <2>1, <2>2, ConcatProperties, LenProperties, SMTT(30)
  <2>4. Len(s) + 1 \in 1..Len(text) /\ Len(s) + 1 \in 1..Len(T)
    BY <1>1, <1>3, <2>3
  <2>5. Len(s) + 1 \in DOMAIN text /\ Len(s) + 1 \in DOMAIN T
    BY <1>1, <2>3, <2>4, LenProperties
  <2>6. At(T, Len(s) + 1) = l
    BY <1>1, <2>3, <2>4, <2>5 DEF At
  <2>7. \A i \in 1..Len(s) : i \in 1..Len(text) /\ text[i] = s[i]
    BY <1>1, <2>3 DEF Continues
  <2>8. Continues(T, s)
    BY <1>1, <2>3, <2>7 DEF Continues
  <2> QED BY <2>6, <2>8
<1> QED BY <1>2, <1>3 DEF Possible

\* A text that goes on from a shorter one begins with it.
LEMMA ShorterText ==
  ASSUME NEW longer, NEW short, Continues(longer, short)
  PROVE  Len(short) <= Len(longer) /\ SubSeq(longer, 1, Len(short)) = short
<1> DEFINE k == Len(short)
<1>1. /\ longer \in Seq(Offered) /\ short \in Seq(Offered) /\ k <= Len(longer)
      /\ \A i \in 1..k : longer[i] = short[i]
  BY DEF Continues
<1>2. k \in Nat /\ Len(longer) \in Nat
  BY <1>1, LenProperties
<1>3. SubSeq(longer, 1, k) = [i \in 1..k |-> longer[i]]
  BY <1>2
<1>4. short = [i \in 1..k |-> short[i]]
  BY <1>1, LenProperties
<1> QED BY <1>1, <1>3, <1>4

(* Moving past a lexeme keeps what was shown and shows at most one more.   *)
LEMMA ConsumeReadsOn ==
  ASSUME IInv, IInv', look.kind # "eof", Consume
  PROVE  /\ Continues(Shown(seen', look'), seen')
         /\ Len(Shown(seen, look)) <= Len(Shown(seen', look'))
         /\ SubSeq(Shown(seen', look'), 1, Len(Shown(seen, look))) = Shown(seen, look)
<1>1. Shown(seen, look) = seen'
  BY DEF Shown, Consume, EOF, Token
<1>2. seen' \in Seq(Offered) /\ look' \in Offered \cup {EOF}
  BY DEF IInv, TypeOK
<1>3. Continues(Shown(seen', look'), seen')
  BY <1>2, ShownText
<1> QED BY <1>1, <1>3, ShorterText

\* A step of the loop that goes on, or has completed the root, reads.
LEMMA ReadingStep ==
  ASSUME IInv, IInv', pc = "parsing", pc' \in {"parsing", "finish"},
         UNCHANGED <<outcome, limits, before>>, pc' = "parsing" => root' = root,
         look.kind # "eof", Consume
  PROVE  Contract!Read
<1>1. /\ Len(Shown(seen, look)) <= Len(Shown(seen', look'))
      /\ SubSeq(Shown(seen', look'), 1, Len(Shown(seen, look))) = Shown(seen, look)
  BY ConsumeReadsOn
<1>2. Contract!ReadsOn
  BY <1>1 DEF Contract!ReadsOn, Shown, More, EOF, Token
<1>3. LimitsInForce' = LimitsInForce
  BY DEF LimitsInForce, limits
<1>4. root = before
  BY DEF IInv, RootUntouched
<1> QED BY <1>2, <1>3, <1>4 DEF Contract!Read

\* A step that finds a fault returns and leaves the document alone.
LEMMA RejectingStep ==
  ASSUME IInv, pc = "parsing", pc' = "idle", root' = root, UNCHANGED limits,
         outcome' \notin {"none", "ok", "trailing"},
         Len(Shown(seen, look)) <= Len(Shown(seen', look')),
         SubSeq(Shown(seen', look'), 1, Len(Shown(seen, look))) = Shown(seen, look),
         look = EOF => look' = EOF /\ Shown(seen', look') = Shown(seen, look),
         \A T \in Possible(seen', look') : ~ParseText(T, LimitsInForce).ok
  PROVE  Contract!Return
<1> DEFINE text == Shown(seen', look')
<1>1. Contract!ReadsOn
  BY DEF Contract!ReadsOn, Shown, More
<1>2. LimitsInForce' = LimitsInForce
  BY DEF LimitsInForce, limits
<1>3. \A T \in Possible(seen', look') : ~Contract!ParseText(T, LimitsInForce).ok
  BY SameDescent
<1>4. Contract!Sources = Possible(seen', look')
  <2>1. (IF More THEN Append(seen, look) ELSE seen)' = text
    BY DEF Shown, More
  <2> HIDE DEF text
  <2>2. Contract!Sources = {text} \cup (IF (~More)' THEN {} ELSE {text \o ending : ending \in Endings})
    BY <2>1 DEF Contract!Sources
  <2> QED BY <2>2 DEF Possible, More, text
<1>5. Contract!Reject
  BY <1>2, <1>3, <1>4 DEF Contract!Reject
<1> QED BY <1>1, <1>2, <1>5 DEF Contract!Return

\* The same when the lexeme at fault has been moved past.
LEMMA ConsumingReject ==
  ASSUME IInv, IInv', pc = "parsing", pc' = "idle", root' = root, UNCHANGED limits,
         outcome' \notin {"none", "ok", "trailing"},
         look.kind # "eof", Consume,
         \A T : Continues(T, seen') => ~ParseText(T, LimitsInForce).ok
  PROVE  Contract!Return
<1>1. seen' \in Seq(Offered) /\ look' \in Offered \cup {EOF}
  BY DEF IInv, TypeOK
<1>2. \A T \in Possible(seen', look') : ~ParseText(T, LimitsInForce).ok
  BY <1>1, PossibleTexts
<1>3. look # EOF
  BY DEF EOF, Token
<1> QED BY <1>2, <1>3, ConsumeReadsOn, RejectingStep

\* And when it has not.
LEMMA StayingReject ==
  ASSUME IInv, pc = "parsing", pc' = "idle", root' = root, UNCHANGED <<source, limits>>,
         outcome' \notin {"none", "ok", "trailing"},
         \A T : Ahead(T) => ~ParseText(T, LimitsInForce).ok
  PROVE  Contract!Return
<1> DEFINE text == Shown(seen, look)
<1>1. seen \in Seq(Offered) /\ look \in Offered \cup {EOF}
  BY DEF IInv, TypeOK
<1>2. text \in Seq(Offered)
  BY <1>1, ShownText
<1>3. \A T \in Possible(seen, look) : ~ParseText(T, LimitsInForce).ok
  BY <1>1, PossibleTexts DEF Ahead
<1>4. Continues(text, text)
  BY <1>2, LenProperties DEF Continues
<1>5. Len(text) <= Len(text) /\ SubSeq(text, 1, Len(text)) = text
  BY <1>4, ShorterText
<1>6. Shown(seen', look') = text /\ Possible(seen', look') = Possible(seen, look) /\ look' = look
  BY DEF source
<1> QED BY <1>3, <1>5, <1>6, RejectingStep

\* The faults that are found in the text.
LEMMA TextFaults ==
  /\ \A l : FaultOf(l) \notin {"none", "ok", "trailing"}
  /\ \A l : KeyFaultOf(l) \notin {"none", "ok", "trailing"}
  /\ \A f : AttachFault(f) \notin {"ok", "trailing"}
BY DEF FaultOf, KeyFaultOf, AttachFault

LEMMA FaultSteps ==
  ASSUME Exceptions, IInv, IInv', DescentInStep,
         \/ UnexpectedEnd \/ OpenTooDeep \/ RejectScalar \/ KeyOutOfOrder
         \/ RejectKey \/ RootTooDeep \/ RejectRootScalar
  PROVE  Contract!Return
<1>1. /\ pc = "parsing" /\ pc' = "idle" /\ root' = root /\ UNCHANGED limits
      /\ outcome' \notin {"none", "ok", "trailing"}
  BY TextFaults DEF UnexpectedEnd, OpenTooDeep, RejectScalar, KeyOutOfOrder, RejectKey,
                    RootTooDeep, RejectRootScalar, RootAfterReject, AtRootScalar, Fail
<1>2. \A T : Ahead(T) => ~ParseText(T, LimitsInForce).ok
  BY FaultsRejected
<1>3. CASE UNCHANGED source
  BY <1>1, <1>2, <1>3, StayingReject
<1>4. CASE OpenTooDeep \/ KeyOutOfOrder
  <2>1. Consume /\ look.kind # "eof"
    BY <1>4 DEF OpenTooDeep, KeyOutOfOrder, Opens, ContainerType, ReadableKey
  <2>2. \A T : Continues(T, seen') => Ahead(T)
    BY <2>1, ConsumedText
  <2> QED BY <1>1, <1>2, <2>1, <2>2, ConsumingReject
<1> QED BY <1>3, <1>4 DEF UnexpectedEnd, RejectScalar, RejectKey, RootTooDeep, RejectRootScalar

\* A value delivered is read on from, or refused where recursive descent fails.
LEMMA DeliverySteps ==
  ASSUME IInv, IInv', DescentInStep, CloseContainer \/ ReadScalar
  PROVE  Contract!Read \/ Contract!Return
<1>1. /\ pc = "parsing" /\ Consume /\ look.kind # "eof" /\ UNCHANGED <<limits, before>>
  BY DEF CloseContainer, ReadScalar, ReadableScalar, Token
<1>2. \/ UNCHANGED outcome /\ (pc' = "finish" \/ (pc' = pc /\ root' = root))
      \/ pc' = "idle" /\ root' = root /\ outcome' \notin {"none", "ok", "trailing"}
  BY TextFaults DEF CloseContainer, ReadScalar, Deliver, Complete, Fail
<1>3. CASE UNCHANGED outcome /\ (pc' = "finish" \/ (pc' = pc /\ root' = root))
  BY <1>1, <1>3, ReadingStep
<1>4. CASE pc' = "idle" /\ root' = root /\ outcome' \notin {"none", "ok", "trailing"}
  <2>1. ASSUME NEW T, Continues(T, seen') PROVE ~ParseText(T, LimitsInForce).ok
    <3>1. Ahead(T)
      BY <1>1, <2>1, ConsumedText
    <3> QED BY <1>4, <2>1, <3>1, CloseRejected, ReadScalarRejected
  <2> QED BY <1>1, <1>4, <2>1, ConsumingReject
<1> QED BY <1>2, <1>3, <1>4

LEMMA FinishingStep ==
  ASSUME IInv, DescentInStep, HandleParseResult
  PROVE  Contract!Return
<1> DEFINE text == Shown(seen, look)
           deeper == [LimitsInForce EXCEPT !.depth = @ + 1]
<1>1. /\ pc = "finish" /\ pc' = "idle" /\ UNCHANGED <<source, root, limits>>
      /\ outcome' = IF More THEN "trailing" ELSE "ok"
  BY DEF HandleParseResult
<1>2. seen \in Seq(Offered) /\ look \in Offered \cup {EOF}
  BY DEF IInv, TypeOK
<1>3. /\ Continues(text, seen) /\ text \in Seq(Offered) /\ Len(seen) \in Nat
      /\ Len(text) = IF look # EOF THEN Len(seen) + 1 ELSE Len(seen)
  BY <1>2, ShownText
<1>4. Admits(deeper, TRUE, maxParserDepth, maxStringLength)
  BY LimitsAdmit
<1> HIDE DEF text, deeper
<1>5. ParseText(text, deeper) = Success(root, Len(seen) + 1)
  BY <1>1, <1>3, <1>4 DEF DescentInStep
<1> DEFINE result == Contract!ParseText(text, deeper)
<1>6. result.ok /\ result.node = root /\ result.next = Len(seen) + 1
  BY <1>5, SameDescent DEF Success
<1> HIDE DEF result
<1>7. outcome' = IF result.next > Len(text) THEN "ok" ELSE "trailing"
  BY <1>1, <1>3, <1>6 DEF More
<1>8. Shown(seen', look') = text /\ LimitsInForce' = LimitsInForce
  BY <1>1 DEF source, limits, LimitsInForce, text
<1>9. Contract!Accept
  <2>1. text' = text
    BY <1>1 DEF text, source
  <2>2. (IF More THEN Append(seen, look) ELSE seen)' = text
    BY <1>8 DEF Shown, More
  <2>3. Contract!Deeper(LimitsInForce) = deeper
    BY DEF Contract!Deeper, deeper
  <2> QED BY <1>1, <1>6, <1>7, <2>2, <2>3 DEF Contract!Accept, result
<1>10. Contract!ReadsOn
  <2>1. Continues(text, text)
    BY <1>3, LenProperties DEF Continues
  <2>2. Len(text) <= Len(text) /\ SubSeq(text, 1, Len(text)) = text
    BY <2>1, ShorterText
  <2>3. look' = look
    BY <1>1 DEF source
  <2> QED BY <1>8, <2>2, <2>3 DEF Contract!ReadsOn, Shown, More, text
<1> QED BY <1>1, <1>8, <1>9, <1>10 DEF Contract!Return

(* Every step of the parser is a step of the contract or none.             *)
LEMMA StepImplements ==
  ASSUME Exceptions, IInv, IInv', DescentInStep, [Next]_vars
  PROVE  [Contract!Next]_(Contract!vars)
<1>1. CASE UNCHANGED vars
  BY <1>1 DEF vars, Contract!vars, More, LimitsInForce
<1>2. CASE Parse
  <2>1. Len(Shown(seen', look')) <= 1
    <3>1. seen' = <<>> /\ look' \in Offered \cup {EOF}
      BY <1>2 DEF Parse, Upcoming
    <3>2. Len(<<>>) = 0 /\ <<>> \in Seq(Offered)
      BY EmptySeq
    <3>3. Len(Shown(<<>>, look')) = IF look' # EOF THEN Len(<<>>) + 1 ELSE Len(<<>>)
      BY <3>1, <3>2, ShownText
    <3>4. Len(Shown(<<>>, look')) <= 1
      BY <3>2, <3>3
    <3> QED BY <3>1, <3>4
  <2>2. Contract!Call
    BY <1>2, <2>1 DEF Parse, Contract!Call, Shown, More, LimitsInForce, limits
  <2> QED BY <2>2 DEF Contract!Next
<1>3. CASE OpenContainer \/ ReadKey \/ RootScalar
  <2>1. /\ pc = "parsing" /\ pc' \in {"parsing", "finish"} /\ Consume /\ look.kind # "eof"
        /\ UNCHANGED <<outcome, limits, before>> /\ (pc' = "parsing" => root' = root)
    BY <1>3 DEF OpenContainer, ReadKey, RootScalar, Opens, ContainerType, ReadableKey,
                ReadableScalar, AtRootScalar, Complete
  <2> QED BY <2>1, ReadingStep DEF Contract!Next
<1>4. CASE CloseContainer \/ ReadScalar
  BY <1>4, DeliverySteps DEF Contract!Next
<1>5. CASE HandleParseResult
  BY <1>5, FinishingStep DEF Contract!Next
<1>6. CASE \/ UnexpectedEnd \/ OpenTooDeep \/ RejectScalar \/ KeyOutOfOrder
           \/ RejectKey \/ RootTooDeep \/ RejectRootScalar
  BY <1>6, FaultSteps DEF Contract!Next
<1>7. CASE SetMaxParserDepth \/ SetMaxStringLength
  <2>1. Contract!SetLimits
    BY <1>7 DEF SetMaxParserDepth, SetMaxStringLength, Contract!SetLimits, source, More
  <2> QED BY <2>1 DEF Contract!Next
<1> QED BY <1>1, <1>2, <1>3, <1>4, <1>5, <1>6, <1>7 DEF Next, ParserStep

(***************************************************************************)
(* With exceptions every call implements the contract: a source is         *)
(* accepted only as recursive descent, given one level more, would accept  *)
(* it and leaves the tree that builds; it is refused only where recursive  *)
(* descent refuses every source that begins with what was read.  That is   *)
(* shown for every set of endings, so for all of them.  Without exceptions *)
(* a cut root string breaks the promise to leave the document alone.       *)
(***************************************************************************)
THEOREM ParserImplementsContract ==
  ASSUME Exceptions = TRUE
  PROVE  Spec => ImplementsContract
<1>1. Init => Contract!Init
  BY DEF Init, Contract!Init, More
<1>2. IInv /\ IInv' /\ DescentInStep /\ [Next]_vars => [Contract!Next]_(Contract!vars)
  BY StepImplements
<1> QED BY <1>1, <1>2, Invariance, DescentInvariance, PTL
        DEF Spec, ImplementsContract, Contract!Spec

------------------------------------------------------------------------------
(***************************************************************************)
(* Round trip: the text of the open containers, one after another, is the  *)
(* text read so far.                                                       *)
(***************************************************************************)

\* The texts of the entries a frame has.
EntryTextsOf(f) == [j \in DOMAIN f.items |-> KeyText(f, j) \o StringifyNodes(f.items[j])]

\* What was read for a frame: its opening byte, its entries, and the key of
\* the entry whose value is read next.
FrameText(f) ==
    (Text(f.type, 0) \o FlattenSeq(EntryTextsOf(f)))
        \o (IF f.awaitingValue THEN Text("string", f.currentKey) ELSE <<>>)

FramesText(s) == FlattenSeq([i \in DOMAIN s |-> FrameText(s[i])])

Kept(node) == HasText(node, StringifyNodes(node)) /\ StringifyNodes(node) \in Seq(Lexeme)

FrameKept(f) ==
    /\ f.type = "list" => ~f.awaitingValue
    /\ \A j \in DOMAIN f.items : Kept(f.items[j])

LEMMA TextType ==
  ASSUME NEW kind \in LexemeKind, NEW val \in Nat
  PROVE  Text(kind, val) \in Seq(Lexeme)
BY DEF Text, Lexeme

LEMMA JoinedLexemes ==
  ASSUME NEW s \in Seq(Lexeme), NEW t \in Seq(Lexeme), NEW u \in Seq(Lexeme)
  PROVE  /\ s \o t \in Seq(Lexeme) /\ (s \o t) \o u = s \o (t \o u)
         /\ s \o <<>> = s /\ <<>> \o s = s
BY ConcatProperties, ConcatAssociative, ConcatEmptySeq, SMTT(40)

LEMMA FourJoined ==
  ASSUME NEW a \in Seq(Lexeme), NEW b \in Seq(Lexeme),
         NEW c \in Seq(Lexeme), NEW d \in Seq(Lexeme)
  PROVE  a \o (b \o (c \o d)) = ((a \o b) \o c) \o d
<1>1. a \o b \in Seq(Lexeme) /\ c \o d \in Seq(Lexeme)
  BY JoinedLexemes
<1>2. a \o (b \o (c \o d)) = (a \o b) \o (c \o d)
  <2>1. \A cd \in Seq(Lexeme) : (a \o b) \o cd = a \o (b \o cd)
    BY JoinedLexemes, SMTT(40)
  <2> QED BY <1>1, <2>1
<1>3. \A ab \in Seq(Lexeme) : (ab \o c) \o d = ab \o (c \o d)
  BY JoinedLexemes
<1>4. ((a \o b) \o c) \o d = (a \o b) \o (c \o d)
  BY <1>1, <1>3
<1> QED BY <1>2, <1>4

LEMMA EntryTextTypes ==
  ASSUME NEW N, NEW f \in FrameOver(N), KeyDiscipline(f), FrameKept(f)
  PROVE  /\ EntryTextsOf(f) \in Seq(Seq(Lexeme)) /\ Len(EntryTextsOf(f)) = Len(f.items)
         /\ \A j \in 1..Len(f.items) :
               EntryTextsOf(f)[j] = KeyText(f, j) \o StringifyNodes(f.items[j])
<1>1. f.items \in Seq(N) /\ f.keys \in Seq(Nat) /\ f.type \in ContainerType
  BY DEF FrameOver
<1>2. Len(f.items) \in Nat /\ DOMAIN f.items = 1..Len(f.items)
  BY <1>1
<1>3. ASSUME NEW j \in 1..Len(f.items)
      PROVE  KeyText(f, j) \o StringifyNodes(f.items[j]) \in Seq(Lexeme)
  <2>1. StringifyNodes(f.items[j]) \in Seq(Lexeme)
    BY <1>2 DEF FrameKept, Kept
  <2>2. KeyText(f, j) \in Seq(Lexeme)
    <3>1. CASE f.type = "dictionary"
      <4>1. Len(f.keys) = Len(f.items)
        BY <3>1 DEF KeyDiscipline
      <4>2. f.keys[j] \in Nat
        BY <1>1, <4>1, ElementOfSeq
      <4> QED BY <3>1, <4>2, TextType DEF KeyText, LexemeKind
    <3>2. CASE f.type # "dictionary"
      BY <3>2 DEF KeyText
    <3> QED BY <3>1, <3>2
  <2> QED BY <2>1, <2>2, JoinedLexemes
<1> DEFINE e == EntryTextsOf(f)
<1>4. e = [j \in 1..Len(f.items) |-> KeyText(f, j) \o StringifyNodes(f.items[j])]
  BY <1>2 DEF EntryTextsOf
<1>5. e \in Seq(Seq(Lexeme)) /\ Len(e) = Len(f.items)
  BY <1>2, <1>3, <1>4
<1> HIDE DEF e
<1> QED BY <1>4, <1>5 DEF e

LEMMA FrameTextType ==
  ASSUME NEW N, NEW f \in FrameOver(N), KeyDiscipline(f), FrameKept(f)
  PROVE  /\ FlattenSeq(EntryTextsOf(f)) \in Seq(Lexeme)
         /\ Text(f.type, 0) \in Seq(Lexeme) /\ Text("string", f.currentKey) \in Seq(Lexeme)
         /\ FrameText(f) \in Seq(Lexeme)
<1>1. f.currentKey \in Nat /\ f.type \in LexemeKind
  BY DEF FrameOver, ContainerType, LexemeKind
<1>2. FlattenSeq(EntryTextsOf(f)) \in Seq(Lexeme)
  <2>1. EntryTextsOf(f) \in Seq(Seq(Lexeme)) /\ <<>> \in Seq(Lexeme)
    BY EntryTextTypes
  <2> QED BY <2>1, FlattenAppend
<1>3. Text(f.type, 0) \in Seq(Lexeme) /\ Text("string", f.currentKey) \in Seq(Lexeme)
  BY <1>1, TextType DEF LexemeKind
<1>4. (IF f.awaitingValue THEN Text("string", f.currentKey) ELSE <<>>) \in Seq(Lexeme)
  BY <1>3
<1> QED BY <1>2, <1>3, <1>4, JoinedLexemes DEF FrameText

LEMMA NewFrameText ==
  ASSUME NEW type \in ContainerType
  PROVE  FrameKept(Frame(type)) /\ FrameText(Frame(type)) = Text(type, 0)
<1>1. Text(type, 0) \in Seq(Lexeme)
  BY TextType DEF ContainerType, LexemeKind
<1>2. EntryTextsOf(Frame(type)) = <<>> /\ FlattenSeq(<<>>) = <<>>
  BY DEF EntryTextsOf, Frame, FlattenSeq
<1>3. ~Frame(type).awaitingValue /\ Frame(type).type = type /\ Frame(type).items = <<>>
  BY DEF Frame
<1> QED BY <1>1, <1>2, <1>3, JoinedLexemes DEF FrameKept, FrameText

(* A value adds its text to that of the frame that takes it.               *)
LEMMA AttachedText ==
  ASSUME NEW N, NEW f \in FrameOver(N), KeyDiscipline(f), FrameKept(f),
         AttachFault(f) = "none", NEW node, Kept(node)
  PROVE  /\ FrameKept(Attached(f, node))
         /\ FrameText(Attached(f, node)) = FrameText(f) \o StringifyNodes(node)
<1> DEFINE g == Attached(f, node)
           n == Len(f.items)
           t == StringifyNodes(node)
           M == N \cup {node}
           keyText == IF f.type = "dictionary" THEN Text("string", f.currentKey) ELSE <<>>
<1>1. /\ f.items \in Seq(N) /\ f.keys \in Seq(Nat) /\ f.type \in ContainerType
      /\ f.currentKey \in Nat /\ n \in Nat
  BY DEF FrameOver
<1>2. g \in FrameOver(M) /\ KeyDiscipline(g)
  BY AttachedInOrder
<1>3. /\ g.type = f.type /\ g.items = Append(f.items, node) /\ ~g.awaitingValue
      /\ f.type = "list" => ~f.awaitingValue
      /\ f.type = "dictionary" => /\ f.awaitingValue /\ g.keys = Append(f.keys, f.currentKey)
                                  /\ Len(f.keys) = n
  <2>1. f.type = "list" => ~f.awaitingValue
    BY DEF FrameKept
  <2>2. f.type = "dictionary" => f.awaitingValue /\ Len(f.keys) = n
    BY DEF AttachFault, KeyDiscipline
  <2>3. CASE f.type = "list"
    BY <2>1, <2>3 DEF Attached, FrameOver
  <2>4. CASE f.type # "list"
    <3> DEFINE its == Append(f.items, node)
               ks == Append(f.keys, f.currentKey)
    <3> HIDE DEF its, ks
    <3>1. g = [f EXCEPT !.items = its, !.keys = ks, !.currentKey = 0, !.awaitingValue = FALSE]
      BY <2>4 DEF Attached, its, ks
    <3> HIDE DEF g
    <3>2. g.type = f.type /\ g.items = its /\ ~g.awaitingValue /\ g.keys = ks
      BY <3>1 DEF FrameOver
    <3> QED BY <2>2, <2>4, <3>2 DEF its, ks
  <2> QED BY <2>3, <2>4
<1>4. /\ Len(g.items) = n + 1 /\ DOMAIN g.items = 1..(n + 1) /\ g.items[n + 1] = node
      /\ \A j \in 1..n : g.items[j] = f.items[j]
      /\ DOMAIN f.items = 1..n
  <2>1. f.items \in Seq(M) /\ node \in M
    BY <1>1, SeqMonotonic, N \subseteq M
  <2> QED BY <1>1, <1>3, <2>1, AppendProperties
<1> HIDE DEF g, n, M
<1>5. FrameKept(g)
  <2>1. \A j \in 1..(n + 1) : j \in 1..n \/ j = n + 1
    BY <1>1
  <2> QED BY <1>3, <1>4, <2>1 DEF FrameKept
<1>6. /\ KeyText(g, n + 1) = keyText
      /\ \A j \in 1..n : KeyText(g, j) = KeyText(f, j)
  <2>1. CASE f.type = "dictionary"
    <3>1. g.keys[n + 1] = f.currentKey /\ \A j \in 1..n : g.keys[j] = f.keys[j]
      <4> DEFINE fk == f.keys
                 fc == f.currentKey
                 gk == g.keys
      <4>1. fk \in Seq(Nat) /\ fc \in Nat /\ Len(fk) = n /\ gk = Append(fk, fc)
        BY <1>1, <1>3, <2>1
      <4> HIDE DEF fk, fc, gk
      <4>2. gk[n + 1] = fc /\ \A j \in 1..n : gk[j] = fk[j]
        BY <4>1, AppendProperties
      <4> QED BY <4>2 DEF fk, fc, gk
    <3> QED BY <1>3, <2>1, <3>1 DEF KeyText
  <2>2. CASE f.type # "dictionary"
    BY <1>3, <2>2 DEF KeyText
  <2> QED BY <2>1, <2>2
<1>7. /\ t \in Seq(Lexeme) /\ keyText \in Seq(Lexeme) /\ keyText \o t \in Seq(Lexeme)
      /\ Text(f.type, 0) \in Seq(Lexeme) /\ FlattenSeq(EntryTextsOf(f)) \in Seq(Lexeme)
  BY FrameTextType, JoinedLexemes DEF Kept
<1> HIDE DEF t, keyText
<1>8. EntryTextsOf(g) = Append(EntryTextsOf(f), keyText \o t)
  <2> DEFINE d == EntryTextsOf(f)
             e == EntryTextsOf(g)
  <2>1. /\ d \in Seq(Seq(Lexeme)) /\ Len(d) = n
        /\ \A j \in 1..n : d[j] = KeyText(f, j) \o StringifyNodes(f.items[j])
    BY EntryTextTypes DEF n
  <2>2. /\ e \in Seq(Seq(Lexeme)) /\ Len(e) = n + 1
        /\ \A j \in 1..(n + 1) : e[j] = KeyText(g, j) \o StringifyNodes(g.items[j])
    BY <1>2, <1>4, <1>5, EntryTextTypes
  <2> HIDE DEF d, e
  <2>3. e[n + 1] = keyText \o t
    <3>1. n + 1 \in 1..(n + 1)
      BY <1>1
    <3> QED BY <1>4, <1>6, <2>2, <3>1 DEF t
  <2>4. \A j \in 1..n : e[j] = d[j]
    <3>1. \A j \in 1..n : j \in 1..(n + 1)
      BY <1>1
    <3> QED BY <1>4, <1>6, <2>1, <2>2, <3>1
  <2> DEFINE a == Append(d, keyText \o t)
  <2>5. /\ a \in Seq(Seq(Lexeme)) /\ Len(a) = n + 1 /\ a[n + 1] = keyText \o t
        /\ \A j \in 1..n : a[j] = d[j]
    BY <1>7, <2>1, AppendProperties
  <2> HIDE DEF a
  <2>6. \A j \in 1..(n + 1) : e[j] = a[j]
    <3>1. \A j \in 1..(n + 1) : j \in 1..n \/ j = n + 1
      BY <1>1
    <3> QED BY <2>3, <2>4, <2>5, <3>1
  <2>7. e = a
    BY <2>2, <2>5, <2>6, SeqEqual
  <2> QED BY <2>7 DEF d, e, a
<1>9. FlattenSeq(EntryTextsOf(g)) = FlattenSeq(EntryTextsOf(f)) \o (keyText \o t)
  BY <1>7, <1>8, EntryTextTypes, FlattenAppend
<1> DEFINE open == Text(f.type, 0)
           body == FlattenSeq(EntryTextsOf(f))
<1>10. open \in Seq(Lexeme) /\ body \in Seq(Lexeme)
  BY <1>7
<1> HIDE DEF open, body
<1>11. FrameText(g) = open \o (body \o (keyText \o t))
  <2>1. FrameText(g) = (open \o (body \o (keyText \o t))) \o <<>>
    BY <1>3, <1>9 DEF FrameText, open, body
  <2> QED BY <1>7, <1>10, <2>1, JoinedLexemes
<1>12. FrameText(f) = (open \o body) \o keyText
  BY <1>1, <1>3 DEF FrameText, open, body, keyText, ContainerType
<1>13. open \o (body \o (keyText \o t)) = ((open \o body) \o keyText) \o t
  <2>1. open \in Seq(Lexeme) /\ body \in Seq(Lexeme) /\ keyText \in Seq(Lexeme) /\ t \in Seq(Lexeme)
    BY <1>7, <1>10
  <2>2. \A b, c, d \in Seq(Lexeme) : open \o (b \o (c \o d)) = ((open \o b) \o c) \o d
    BY <2>1, FourJoined
  <2>3. \A c, d \in Seq(Lexeme) : open \o (body \o (c \o d)) = ((open \o body) \o c) \o d
    BY <2>1, <2>2
  <2>4. \A d \in Seq(Lexeme) : open \o (body \o (keyText \o d)) = ((open \o body) \o keyText) \o d
    BY <2>1, <2>3
  <2> QED BY <2>1, <2>4
<1> QED BY <1>5, <1>11, <1>12, <1>13 DEF g, t

(***************************************************************************)
(* Stacks of such frames.                                                  *)
(***************************************************************************)
FramesKept(s) ==
    /\ StackOf(s)
    /\ \A i \in 1..Len(s) : KeyDiscipline(s[i]) /\ FrameKept(s[i])

LEMMA FrameTexts ==
  ASSUME NEW s, FramesKept(s), NEW texts, texts = [i \in DOMAIN s |-> FrameText(s[i])]
  PROVE  /\ texts \in Seq(Seq(Lexeme)) /\ Len(texts) = Len(s) /\ Len(s) \in Nat
         /\ \A i \in 1..Len(s) : texts[i] = FrameText(s[i])
<1>1. PICK N : s \in Seq(FrameOver(N))
  BY DEF FramesKept, StackOf
<1>2. Len(s) \in Nat /\ DOMAIN s = 1..Len(s)
  BY <1>1
<1>3. ASSUME NEW i \in 1..Len(s) PROVE FrameText(s[i]) \in Seq(Lexeme)
  <2>1. s[i] \in FrameOver(N)
    BY <1>1, ElementOfSeq
  <2> QED BY <2>1, FrameTextType DEF FramesKept
<1> QED BY <1>2, <1>3

LEMMA PushedText ==
  ASSUME NEW s, FramesKept(s), NEW f, FramesKept(Append(s, f))
  PROVE  /\ FramesText(s) \in Seq(Lexeme) /\ FrameText(f) \in Seq(Lexeme)
         /\ FramesText(Append(s, f)) = FramesText(s) \o FrameText(f)
<1> DEFINE u == Append(s, f)
           a == [i \in DOMAIN s |-> FrameText(s[i])]
           b == [i \in DOMAIN u |-> FrameText(u[i])]
           n == Len(s)
<1>1. PICK N : s \in Seq(FrameOver(N))
  BY DEF FramesKept, StackOf
<1>2. /\ a \in Seq(Seq(Lexeme)) /\ Len(a) = n /\ n \in Nat
      /\ \A i \in 1..n : a[i] = FrameText(s[i])
  BY FrameTexts
<1>3. /\ b \in Seq(Seq(Lexeme)) /\ Len(b) = Len(u)
      /\ \A i \in 1..Len(u) : b[i] = FrameText(u[i])
  BY FrameTexts
<1>4. Len(u) = n + 1 /\ u[n + 1] = f /\ \A i \in 1..n : u[i] = s[i]
  <2>1. s \in Seq(FrameOver(N) \cup {f}) /\ f \in FrameOver(N) \cup {f}
    BY <1>1, SeqMonotonic, FrameOver(N) \subseteq FrameOver(N) \cup {f}
  <2> QED BY <2>1, AppendProperties
<1> HIDE DEF a, b, u, n
<1>5. \A i \in 1..n : i \in 1..(n + 1)
  BY <1>2
<1>6. b[n + 1] = FrameText(f) /\ b[n + 1] \in Seq(Lexeme) /\ \A i \in 1..n : b[i] = a[i]
  <2>1. n + 1 \in 1..(n + 1)
    BY <1>2
  <2>2. b[n + 1] = FrameText(f)
    BY <1>3, <1>4, <2>1
  <2>3. b[n + 1] \in Seq(Lexeme)
    BY <1>3, <1>4, <2>1, ElementOfSeq
  <2>4. \A i \in 1..n : b[i] = a[i]
    BY <1>2, <1>3, <1>4, <1>5
  <2> QED BY <2>2, <2>3, <2>4
<1> DEFINE c == Append(a, FrameText(f))
<1>7. /\ c \in Seq(Seq(Lexeme)) /\ Len(c) = n + 1 /\ c[n + 1] = FrameText(f)
      /\ \A i \in 1..n : c[i] = a[i]
  BY <1>2, <1>6, AppendProperties
<1> HIDE DEF c
<1>8. b = c
  <2>1. \A i \in 1..(n + 1) : i \in 1..n \/ i = n + 1
    BY <1>2
  <2>2. \A i \in 1..(n + 1) : b[i] = c[i]
    BY <1>6, <1>7, <2>1
  <2> QED BY <1>3, <1>4, <1>7, <2>2, SeqEqual
<1>9. FlattenSeq(a) \in Seq(Lexeme) /\ FlattenSeq(c) = FlattenSeq(a) \o FrameText(f)
  BY <1>2, <1>6, FlattenAppend DEF c
<1> QED BY <1>6, <1>8, <1>9 DEF FramesText, a, b, u

(* The text of a stack ends with that of its innermost frame.              *)
LEMMA TopText ==
  ASSUME NEW s, FramesKept(s), s # <<>>,
         NEW outer, outer = SubSeq(s, 1, Len(s) - 1)
  PROVE  /\ FramesKept(outer) /\ s = Append(outer, Last(s))
         /\ FramesText(outer) \in Seq(Lexeme) /\ FrameText(Last(s)) \in Seq(Lexeme)
         /\ FramesText(s) = FramesText(outer) \o FrameText(Last(s))
<1> DEFINE n == Len(s) - 1
           f == Last(s)
<1>1. PICK N : s \in Seq(FrameOver(N))
  BY DEF FramesKept, StackOf
<1>2. n \in Nat /\ Len(s) = n + 1 /\ f = s[n + 1] /\ f \in FrameOver(N)
  BY <1>1, LastFrame
<1>3. outer \in Seq(FrameOver(N)) /\ Len(outer) = n /\ \A i \in 1..n : outer[i] = s[i]
  BY <1>1, FrontOfSeq
<1> HIDE DEF n, f
<1>4. FramesKept(outer)
  <2>1. \A i \in 1..n : i \in 1..Len(s)
    BY <1>2
  <2> QED BY <1>3, <2>1 DEF FramesKept, StackOf
<1>5. s = Append(outer, f)
  <2> DEFINE u == Append(outer, f)
  <2>1. /\ u \in Seq(FrameOver(N)) /\ Len(u) = n + 1 /\ u[n + 1] = f
        /\ \A i \in 1..n : u[i] = outer[i]
    BY <1>2, <1>3, AppendProperties
  <2> HIDE DEF u
  <2>2. \A i \in 1..(n + 1) : i \in 1..n \/ i = n + 1
    BY <1>2
  <2>3. \A i \in 1..(n + 1) : u[i] = s[i]
    BY <1>2, <1>3, <2>1, <2>2
  <2>4. s = u
    BY <1>1, <1>2, <2>1, <2>3, SeqEqual
  <2> QED BY <2>4 DEF u
<1>6. FramesKept(Append(outer, f))
  BY <1>5
<1>7. /\ FramesText(outer) \in Seq(Lexeme) /\ FrameText(f) \in Seq(Lexeme)
      /\ FramesText(Append(outer, f)) = FramesText(outer) \o FrameText(f)
  BY <1>4, <1>6, PushedText
<1> QED BY <1>4, <1>5, <1>7 DEF f

(* What is added to the innermost frame is added to the text.              *)
LEMMA ReplacedText ==
  ASSUME NEW s, FramesKept(s), s # <<>>, NEW g, NEW M, g \in FrameOver(M),
         KeyDiscipline(g), FrameKept(g),
         NEW text \in Seq(Lexeme), FrameText(g) = FrameText(Last(s)) \o text
  PROVE  /\ FramesKept([s EXCEPT ![Len(s)] = g])
         /\ FramesText([s EXCEPT ![Len(s)] = g]) = FramesText(s) \o text
<1> DEFINE u == [s EXCEPT ![Len(s)] = g]
           n == Len(s) - 1
           outer == SubSeq(s, 1, n)
<1>1. PICK N : s \in Seq(FrameOver(N))
  BY DEF FramesKept, StackOf
<1>2. s \in Seq(FrameOver(N \cup M)) /\ g \in FrameOver(N \cup M)
  BY <1>1, FrameOverMonotonic, SeqMonotonic, N \subseteq N \cup M, M \subseteq N \cup M
     DEF FrameOver
<1>3. n \in Nat /\ Len(s) = n + 1 /\ Len(s) \in 1..Len(s)
  BY <1>1, LastFrame
<1>4. /\ u \in Seq(FrameOver(N \cup M)) /\ Len(u) = n + 1
      /\ \A i \in 1..(n + 1) : u[i] = IF i = n + 1 THEN g ELSE s[i]
  BY <1>2, <1>3, ExceptSeq
<1> HIDE DEF n, u
<1>5. FramesKept(u)
  BY <1>3, <1>4 DEF FramesKept, StackOf
<1>6. /\ outer \in Seq(FrameOver(N \cup M)) /\ Len(outer) = n
      /\ \A i \in 1..n : outer[i] = s[i]
  BY <1>2, <1>3, FrontOfSeq DEF n
<1>7. /\ FramesKept(outer) /\ FramesText(outer) \in Seq(Lexeme)
      /\ FrameText(Last(s)) \in Seq(Lexeme)
      /\ FramesText(s) = FramesText(outer) \o FrameText(Last(s))
  BY TopText DEF n
<1> HIDE DEF outer
<1>8. u = Append(outer, g)
  <2> DEFINE v == Append(outer, g)
  <2>1. /\ v \in Seq(FrameOver(N \cup M)) /\ Len(v) = n + 1 /\ v[n + 1] = g
        /\ \A i \in 1..n : v[i] = outer[i]
    BY <1>2, <1>6, AppendProperties
  <2> HIDE DEF v
  <2>2. \A i \in 1..(n + 1) : (i \in 1..n /\ i # n + 1) \/ i = n + 1
    BY <1>3
  <2>3. \A i \in 1..(n + 1) : u[i] = v[i]
    BY <1>4, <1>6, <2>1, <2>2
  <2>4. u = v
    BY <1>4, <2>1, <2>3, SeqEqual
  <2> QED BY <2>4 DEF v
<1>9. FramesText(u) = FramesText(outer) \o FrameText(g)
  BY <1>5, <1>7, <1>8, PushedText
<1>10. FramesText(u) = FramesText(s) \o text
  <2> DEFINE a == FramesText(outer)
             b == FrameText(Last(s))
  <2>1. a \in Seq(Lexeme) /\ b \in Seq(Lexeme)
    BY <1>7
  <2>2. FramesText(u) = a \o (b \o text) /\ FramesText(s) = a \o b
    BY <1>7, <1>9
  <2> HIDE DEF a, b
  <2>3. (a \o b) \o text = a \o (b \o text)
    BY <2>1, JoinedLexemes, SMTT(40)
  <2> QED BY <2>2, <2>3
<1> QED BY <1>5, <1>10 DEF u

(* A closed container is written as what was read for its frame and the    *)
(* closing byte.                                                           *)
LEMMA ClosedText ==
  ASSUME NEW N, NEW f \in FrameOver(N), KeyDiscipline(f), FrameKept(f), ~f.awaitingValue
  PROVE  LET node == ContainerNode(f.type, f.keys, f.items)
         IN Kept(node) /\ StringifyNodes(node) = FrameText(f) \o Text("end", 0)
<1> DEFINE node == ContainerNode(f.type, f.keys, f.items)
           inner == [j \in DOMAIN f.items |-> StringifyNodes(f.items[j])]
           text == FrameText(f) \o Text("end", 0)
<1>1. node.type = f.type /\ node.keys = f.keys /\ node.items = f.items
  BY DEF ContainerNode, MakeNode
<1>2. DOMAIN f.items \subseteq Nat /\ f.type \in ContainerType
  BY DEF FrameOver
<1>3. \A j \in DOMAIN f.items : HasText(f.items[j], inner[j])
  BY DEF FrameKept, Kept
<1>4. HasText(node, NodeText(node, inner))
  <2>1. inner = [j \in DOMAIN f.items |-> inner[j]]
    OBVIOUS
  <2> HIDE DEF inner, node
  <2>2. DOMAIN node.items = DOMAIN f.items /\ \A j \in DOMAIN node.items : HasText(node.items[j], inner[j])
    BY <1>1, <1>3
  <2>3. inner = [j \in DOMAIN node.items |-> inner[j]]
    BY <2>1, <2>2
  <2> QED BY <1>2, <2>2, <2>3, NodeWritten
<1>5. [j \in DOMAIN node.items |-> KeyText(node, j) \o inner[j]] = EntryTextsOf(f)
  <2>1. \A j \in DOMAIN f.items : KeyText(node, j) = KeyText(f, j)
    BY <1>1 DEF KeyText
  <2> QED BY <1>1, <2>1 DEF EntryTextsOf
<1> HIDE DEF node, inner
<1>6. NodeText(node, inner) = (Text(f.type, 0) \o FlattenSeq(EntryTextsOf(f))) \o Text("end", 0)
  <2> DEFINE entries == [j \in DOMAIN node.items |-> KeyText(node, j) \o inner[j]]
  <2>1. NodeText(node, inner) = (Text(node.type, 0) \o FlattenSeq(entries)) \o Text("end", 0)
    BY <1>1, <1>2 DEF NodeText, ContainerType
  <2>2. entries = EntryTextsOf(f)
    BY <1>5
  <2> HIDE DEF entries
  <2> QED BY <1>1, <2>1, <2>2
<1>7. /\ FlattenSeq(EntryTextsOf(f)) \in Seq(Lexeme) /\ Text(f.type, 0) \in Seq(Lexeme)
      /\ FrameText(f) \in Seq(Lexeme) /\ Text("end", 0) \in Seq(Lexeme)
  BY FrameTextType, TextType DEF LexemeKind
<1>8. FrameText(f) = Text(f.type, 0) \o FlattenSeq(EntryTextsOf(f))
  <2>1. FrameText(f) = (Text(f.type, 0) \o FlattenSeq(EntryTextsOf(f))) \o <<>>
    BY DEF FrameText
  <2> QED BY <1>7, <2>1, JoinedLexemes
<1>9. text \in Seq(Lexeme)
  BY <1>7, JoinedLexemes
<1>10. HasText(node, text)
  BY <1>4, <1>6, <1>8
<1>11. StringifyNodes(node) = text
  BY <1>10, WrittenIs
<1> QED BY <1>9, <1>10, <1>11 DEF Kept, node

LEMMA ScalarText ==
  ASSUME NEW l \in Lexeme, ReadableScalar(l)
  PROVE  Kept(ScalarNode(l)) /\ StringifyNodes(ScalarNode(l)) = <<l>>
<1> DEFINE node == ScalarNode(l)
<1>1. l.kind \in {"integer", "string"} /\ l = [kind |-> l.kind, val |-> l.val]
  BY DEF ReadableScalar, Lexeme
<1>2. node.type = l.kind /\ node.val = l.val /\ node.items = <<>>
  BY <1>1 DEF ScalarNode, IntegerNode, StringNode, MakeNode
<1> HIDE DEF node
<1>3. HasText(node, NodeText(node, <<>>))
  <2>1. DOMAIN node.items = {} /\ <<>> = [i \in DOMAIN node.items |-> <<>>[i]]
    BY <1>2
  <2> QED BY <2>1, NodeWritten
<1>4. NodeText(node, <<>>) = <<l>>
  BY <1>1, <1>2 DEF NodeText, Text, ContainerType
<1>5. StringifyNodes(node) = <<l>>
  BY <1>3, <1>4, WrittenIs
<1> QED BY <1>3, <1>4, <1>5 DEF Kept, node

(***************************************************************************)
(* The inductive invariant of the round trip.                              *)
(***************************************************************************)
TextKept ==
    /\ pc = "parsing" => FramesKept(frames) /\ FramesText(frames) = seen
    /\ pc = "finish" => StringifyNodes(root) = seen

LEMMA SourceLexemes ==
  ASSUME IInv
  PROVE  /\ seen \in Seq(Lexeme) /\ look \in Lexeme
         /\ look.kind \in ContainerType => <<look>> = Text(look.kind, 0)
<1>1. Offered \cup {EOF} \subseteq Lexeme
  <2>1. \A k \in LexemeKind : Token(k) \in Lexeme
    BY DEF Token, Lexeme
  <2> QED BY <2>1, SourceAssumption DEF Offered, EOF, Lexeme, LexemeKind
<1>2. seen \in Seq(Lexeme) /\ look \in Lexeme
  <2>1. seen \in Seq(Offered) /\ look \in Offered \cup {EOF}
    BY DEF IInv, TypeOK
  <2> QED BY <1>1, <2>1, SeqMonotonic
<1>3. ASSUME look.kind \in ContainerType PROVE look = Token(look.kind)
  <2>1. look \in Offered \cup {EOF} /\ look.kind \in {"list", "dictionary"}
    BY <1>3 DEF IInv, TypeOK, ContainerType
  <2>2. look \in {Token(k) : k \in LexemeKind \ {"integer", "string", "cut", "eof"}}
    BY <2>1 DEF Offered, EOF, Token
  <2> QED BY <2>2 DEF Token
<1> QED BY <1>2, <1>3 DEF Token, Text

LEMMA EmptyText == FramesKept(<<>>) /\ FramesText(<<>>) = <<>>
<1>1. <<>> \in Seq(FrameOver({})) /\ Len(<<>>) = 0
  OBVIOUS
<1>2. FramesText(<<>>) = <<>>
  BY DEF FramesText, FlattenSeq
<1> QED BY <1>1, <1>2 DEF FramesKept, StackOf

(* A delivered value adds its text to that of the stack that takes it.     *)
LEMMA DeliveredText ==
  ASSUME NEW s, FramesKept(s), s # <<>>, NEW node, Kept(node),
         AttachFault(Last(s)) = "none"
  PROVE  LET u == [s EXCEPT ![Len(s)] = Attached(@, node)]
         IN FramesKept(u) /\ FramesText(u) = FramesText(s) \o StringifyNodes(node)
<1> DEFINE g == Attached(Last(s), node)
<1>1. PICK N : s \in Seq(FrameOver(N))
  BY DEF FramesKept, StackOf
<1>2. Len(s) \in 1..Len(s) /\ Last(s) = s[Len(s)] /\ Last(s) \in FrameOver(N)
  BY <1>1, LastFrame
<1>3. KeyDiscipline(Last(s)) /\ FrameKept(Last(s))
  BY <1>2 DEF FramesKept
<1>4. g \in FrameOver(N \cup {node}) /\ KeyDiscipline(g)
  BY <1>2, <1>3, AttachedInOrder
<1>5. FrameKept(g) /\ FrameText(g) = FrameText(Last(s)) \o StringifyNodes(node)
  BY <1>2, <1>3, AttachedText
<1> HIDE DEF g
<1>6. /\ FramesKept([s EXCEPT ![Len(s)] = g])
      /\ FramesText([s EXCEPT ![Len(s)] = g]) = FramesText(s) \o StringifyNodes(node)
  BY <1>4, <1>5, ReplacedText DEF Kept
<1>7. [s EXCEPT ![Len(s)] = Attached(@, node)] = [s EXCEPT ![Len(s)] = g]
  BY <1>1, <1>2 DEF g
<1> QED BY <1>6, <1>7

LEMMA DeliverKeepsText ==
  ASSUME NEW s, FramesKept(s), s # <<>>, NEW node, Kept(node), pc = "parsing",
         Deliver(s, node), seen' = FramesText(s) \o StringifyNodes(node)
  PROVE  TextKept'
<1>1. CASE AttachFault(Last(s)) = "none"
  <2>1. frames' = [s EXCEPT ![Len(s)] = Attached(@, node)] /\ pc' = "parsing"
    BY <1>1 DEF Deliver
  <2>2. FramesKept(frames') /\ FramesText(frames') = seen'
    BY <1>1, <2>1, DeliveredText
  <2>3. (FramesKept(frames) /\ FramesText(frames) = seen)'
    BY <2>2
  <2> QED BY <2>1, <2>3 DEF TextKept
<1>2. CASE AttachFault(Last(s)) # "none"
  <2>1. pc' = "idle"
    BY <1>2 DEF Deliver, Fail
  <2> QED BY <2>1 DEF TextKept
<1> QED BY <1>1, <1>2

LEMMA AppendedText ==
  ASSUME IInv, Consume
  PROVE  seen' = seen \o <<look>>
BY SourceLexemes, AppendIsConcat DEF Consume

LEMMA OpenKeepsText ==
  ASSUME IInv, TextKept, OpenContainer
  PROVE  TextKept'
<1>1. /\ pc = "parsing" /\ pc' = "parsing" /\ Consume /\ look.kind \in ContainerType
      /\ frames' = Append(frames, Frame(look.kind))
  BY DEF OpenContainer, Opens
<1>2. FramesKept(frames) /\ FramesText(frames) = seen
  BY <1>1 DEF TextKept
<1> DEFINE f == Frame(look.kind)
           u == Append(frames, f)
<1>3. PICK N : frames \in Seq(FrameOver(N))
  BY <1>2 DEF FramesKept, StackOf
<1>4. f \in FrameOver(N) /\ KeyDiscipline(f) /\ FrameKept(f) /\ FrameText(f) = <<look>>
  <2>1. FrameKept(f) /\ FrameText(f) = Text(look.kind, 0)
    BY <1>1, NewFrameText
  <2>2. f \in FrameOver(N) /\ KeyDiscipline(f)
    BY <1>1 DEF Frame, FrameOver, KeyDiscipline
  <2> QED BY <1>1, <2>1, <2>2, SourceLexemes
<1> HIDE DEF f
<1>5. /\ u \in Seq(FrameOver(N)) /\ Len(u) = Len(frames) + 1 /\ Len(frames) \in Nat
      /\ \A i \in 1..Len(frames) : u[i] = frames[i]
      /\ u[Len(frames) + 1] = f
  BY <1>3, <1>4, AppendProperties, LenProperties
<1> HIDE DEF u
<1>6. FramesKept(u)
  <2>1. \A i \in 1..Len(u) : i \in 1..Len(frames) \/ i = Len(frames) + 1
    BY <1>5
  <2>2. \A i \in 1..Len(u) : KeyDiscipline(u[i]) /\ FrameKept(u[i])
    BY <1>2, <1>4, <1>5, <2>1 DEF FramesKept
  <2> QED BY <1>5, <2>2 DEF FramesKept, StackOf
<1>7. FramesText(u) = seen \o <<look>>
  BY <1>2, <1>4, <1>6, PushedText DEF u
<1>8. seen' = seen \o <<look>>
  BY <1>1, AppendedText
<1>9. (FramesKept(frames) /\ FramesText(frames) = seen)'
  BY <1>1, <1>6, <1>7, <1>8 DEF u, f
<1> QED BY <1>1, <1>9 DEF TextKept

LEMMA ReadKeyKeepsText ==
  ASSUME IInv, TextKept, ReadKey
  PROVE  TextKept'
<1> DEFINE k == look.val
           f == Top
           g == [f EXCEPT !.currentKey = k, !.lastKey = k, !.awaitingValue = TRUE]
           u == [frames EXCEPT ![Len(frames)].currentKey = k, ![Len(frames)].lastKey = k,
                               ![Len(frames)].awaitingValue = TRUE]
<1>1. /\ pc = "parsing" /\ pc' = "parsing" /\ Consume /\ frames # <<>>
      /\ f.type = "dictionary" /\ ~f.awaitingValue /\ look.kind = "string"
      /\ f.lastKey <= k /\ frames' = u
  BY DEF ReadKey, AtKey, ReadableKey
<1>2. FramesKept(frames) /\ FramesText(frames) = seen
  BY <1>1 DEF TextKept
<1>3. PICK N : frames \in Seq(FrameOver(N)) /\ f \in FrameOver(N)
  BY <1>1, ParserTop
<1>4. KeyDiscipline(f) /\ FrameKept(f) /\ f = frames[Len(frames)] /\ f = Last(frames)
  <2>1. Len(frames) \in 1..Len(frames)
    BY <1>1, <1>3, LastFrame
  <2> QED BY <1>1, <1>2, <2>1, ParserTop DEF FramesKept
<1>5. k \in Nat /\ look = [kind |-> "string", val |-> k]
  BY <1>1, SourceLexemes DEF Lexeme
<1>6. /\ g \in FrameOver(N) /\ g.keys = f.keys /\ g.items = f.items
      /\ g.type = f.type /\ g.lastKey = k /\ g.currentKey = k /\ g.awaitingValue
  BY <1>3, <1>5 DEF FrameOver
<1>7. u = [frames EXCEPT ![Len(frames)] = g]
  BY <1>3, <1>4
<1> HIDE DEF f, g, u, k
<1>8. KeyDiscipline(g)
  <2>1. f.keys # <<>> => Last(f.keys) = f.lastKey
    BY <1>1, <1>4 DEF KeyDiscipline
  <2> QED BY <1>1, <1>4, <1>6, <2>1 DEF KeyDiscipline
<1>9. FrameKept(g)
  BY <1>1, <1>4, <1>6 DEF FrameKept
<1>10. FrameText(g) = FrameText(f) \o <<look>>
  <2>1. EntryTextsOf(g) = EntryTextsOf(f)
    BY <1>6 DEF EntryTextsOf, KeyText
  <2> DEFINE begun == Text(f.type, 0) \o FlattenSeq(EntryTextsOf(f))
  <2>2. begun \in Seq(Lexeme)
    BY <1>3, <1>4, FrameTextType, JoinedLexemes
  <2>3. FrameText(f) = begun \o <<>>
    BY <1>1 DEF FrameText
  <2>4. FrameText(g) = begun \o <<look>>
    BY <1>5, <1>6, <2>1 DEF FrameText, Text
  <2> QED BY <2>2, <2>3, <2>4, JoinedLexemes
<1>11. <<look>> \in Seq(Lexeme)
  BY SourceLexemes
<1>12. FramesKept(u) /\ FramesText(u) = seen \o <<look>>
  BY <1>1, <1>2, <1>4, <1>6, <1>7, <1>8, <1>9, <1>10, <1>11, ReplacedText
<1>13. seen' = seen \o <<look>>
  BY <1>1, AppendedText
<1>14. (FramesKept(frames) /\ FramesText(frames) = seen)'
  BY <1>1, <1>12, <1>13
<1> QED BY <1>1, <1>14 DEF TextKept

LEMMA ReadScalarKeepsText ==
  ASSUME IInv, TextKept, ReadScalar
  PROVE  TextKept'
<1>1. /\ pc = "parsing" /\ Consume /\ frames # <<>> /\ ReadableScalar(look)
      /\ Deliver(frames, ScalarNode(look))
  BY DEF ReadScalar
<1>2. FramesKept(frames) /\ FramesText(frames) = seen
  BY <1>1 DEF TextKept
<1>3. Kept(ScalarNode(look)) /\ StringifyNodes(ScalarNode(look)) = <<look>>
  BY <1>1, SourceLexemes, ScalarText
<1>4. seen' = FramesText(frames) \o StringifyNodes(ScalarNode(look))
  BY <1>1, <1>2, <1>3, AppendedText
<1> QED BY <1>1, <1>2, <1>3, <1>4, DeliverKeepsText

LEMMA CloseKeepsText ==
  ASSUME IInv, TextKept, CloseContainer
  PROVE  TextKept'
<1> DEFINE f == Top
           node == ContainerNode(f.type, f.keys, f.items)
<1>1. /\ pc = "parsing" /\ Consume /\ frames # <<>> /\ AtEnd /\ look = Token("end")
      /\ IF Outer = <<>> THEN Complete(node) ELSE Deliver(Outer, node)
  BY DEF CloseContainer, AtEnd
<1>2. FramesKept(frames) /\ FramesText(frames) = seen
  BY <1>1 DEF TextKept
<1>3. PICK N : frames \in Seq(FrameOver(N)) /\ f \in FrameOver(N)
  BY <1>1, ParserTop
<1>4. KeyDiscipline(f) /\ FrameKept(f) /\ f = Last(frames)
  <2>1. Len(frames) \in 1..Len(frames)
    BY <1>1, <1>3, LastFrame
  <2> QED BY <1>1, <1>2, <2>1, ParserTop DEF FramesKept
<1>5. ~f.awaitingValue
  BY <1>1, <1>4 DEF AtEnd, FrameKept
<1>6. <<look>> = Text("end", 0) /\ <<look>> \in Seq(Lexeme)
  BY <1>1, SourceLexemes DEF Token, Text
<1> HIDE DEF f
<1>7. Kept(node) /\ StringifyNodes(node) = FrameText(f) \o <<look>>
  BY <1>3, <1>4, <1>5, <1>6, ClosedText
<1>8. /\ FramesKept(Outer) /\ FramesText(Outer) \in Seq(Lexeme) /\ FrameText(f) \in Seq(Lexeme)
      /\ seen = FramesText(Outer) \o FrameText(f)
  BY <1>1, <1>2, <1>4, TopText DEF Outer
<1> HIDE DEF node
<1>9. seen' = FramesText(Outer) \o StringifyNodes(node)
  <2>1. seen' = seen \o <<look>>
    BY <1>1, AppendedText
  <2> QED BY <1>6, <1>7, <1>8, <2>1, JoinedLexemes
<1>10. CASE Outer = <<>>
  <2>1. pc' = "finish" /\ root' = node
    BY <1>1, <1>10 DEF Complete
  <2>2. seen' = StringifyNodes(node)
    BY <1>7, <1>9, <1>10, EmptyText, JoinedLexemes DEF Kept
  <2>3. (StringifyNodes(root) = seen)'
    BY <2>1, <2>2
  <2> QED BY <2>1, <2>3 DEF TextKept
<1>11. CASE Outer # <<>>
  BY <1>1, <1>7, <1>8, <1>9, <1>11, DeliverKeepsText
<1> QED BY <1>10, <1>11

LEMMA RootScalarKeepsText ==
  ASSUME IInv, TextKept, RootScalar
  PROVE  TextKept'
<1>1. /\ pc = "parsing" /\ frames = <<>> /\ ReadableScalar(look) /\ Consume
      /\ Complete(ScalarNode(look))
  BY DEF RootScalar, AtRootScalar
<1>2. seen = <<>>
  BY <1>1, EmptyText DEF TextKept
<1>3. StringifyNodes(ScalarNode(look)) = <<look>>
  BY <1>1, SourceLexemes, ScalarText
<1>4. seen' = <<look>>
  <2>1. <<look>> \in Seq(Lexeme)
    BY SourceLexemes
  <2> QED BY <1>1, <1>2, <2>1, AppendedText, JoinedLexemes
<1>5. pc' = "finish" /\ (StringifyNodes(root) = seen)'
  BY <1>1, <1>3, <1>4 DEF Complete
<1> QED BY <1>5 DEF TextKept

LEMMA StepKeepsText ==
  ASSUME IInv, TextKept, [Next]_vars
  PROVE  TextKept'
<1>1. CASE UNCHANGED vars
  BY <1>1 DEF vars, TextKept
<1>2. CASE Parse
  <2>1. frames' = <<>> /\ seen' = <<>> /\ pc' = "parsing"
    BY <1>2 DEF Parse, IInv, TypeOK
  <2>2. (FramesKept(frames) /\ FramesText(frames) = seen)'
    BY <2>1, EmptyText
  <2> QED BY <2>1, <2>2 DEF TextKept
<1>3. CASE OpenContainer
  BY <1>3, OpenKeepsText
<1>4. CASE CloseContainer
  BY <1>4, CloseKeepsText
<1>5. CASE ReadScalar
  BY <1>5, ReadScalarKeepsText
<1>6. CASE ReadKey
  BY <1>6, ReadKeyKeepsText
<1>7. CASE RootScalar
  BY <1>7, RootScalarKeepsText
<1>8. CASE \/ UnexpectedEnd \/ OpenTooDeep \/ RejectScalar \/ KeyOutOfOrder
           \/ RejectKey \/ RootTooDeep \/ RejectRootScalar \/ HandleParseResult
           \/ SetMaxParserDepth \/ SetMaxStringLength
  <2>1. pc' = "idle"
    BY <1>8 DEF UnexpectedEnd, OpenTooDeep, RejectScalar, KeyOutOfOrder, RejectKey,
                RootTooDeep, RejectRootScalar, HandleParseResult, SetMaxParserDepth,
                SetMaxStringLength, Fail
  <2> QED BY <2>1 DEF TextKept
<1> QED BY <1>1, <1>2, <1>3, <1>4, <1>5, <1>6, <1>7, <1>8 DEF Next, ParserStep

(* Stringifying what parse has just built gives the text it read: in both  *)
(* builds, under every limit and for every source.                         *)
THEOREM ParsedTextIsKept == Spec => []RoundTrip
<1>1. Init => TextKept
  BY DEF Init, TextKept
<1>2. IInv /\ TextKept /\ [Next]_vars => TextKept'
  BY StepKeepsText
<1>3. TextKept => RoundTrip
  BY DEF TextKept, RoundTrip
<1> QED BY <1>1, <1>2, <1>3, Invariance, PTL DEF Spec

==============================================================================
