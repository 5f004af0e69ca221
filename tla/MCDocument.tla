------------------------------ MODULE MCDocument -----------------------------
(***************************************************************************)
(* Documents built by statements on small instances, against the map of    *)
(* paths, the stringifier and the parser.                                  *)
(***************************************************************************)
EXTENDS DocumentText

CONSTANTS
    Integers,       \* values of integers that are assigned
    Strings,        \* strings that are assigned
    LargestIndex    \* bound: the largest index of a subscript

MCScalars == {IntegerNode(v) : v \in Integers} \cup {StringNode(s) : s \in Strings}
MCIndices == -2..LargestIndex
\* An empty list comes of the index -1.
MCListInitializers == {<<a, b>> : a, b \in MCScalars}
MCDictionaryInitializers ==
    {<<>>} \cup {<< <<k, a>>, <<m, a>> >> : k, m \in Keys, a \in MCScalars}

\* A reference leads MaxSubscripts down, an initializer list one more.
MCDepths == {MaxSubscripts + 1}

\* The least limits that every document of the instance is within.
MCLimits == [depth |-> MaxSubscripts + 3, length |-> 2,
             dynamic |-> DynamicAllocation, capacity |-> MaxContainerSize]

==============================================================================
