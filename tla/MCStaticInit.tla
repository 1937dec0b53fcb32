---------------------------- MODULE MCStaticInit ----------------------------
(***************************************************************************)
(* Programs of one class with one structure of any layout up to the        *)
(* bounds, packed or not, beside another global; and programs of two       *)
(* classes that point at each other's globals and functions in every way.  *)
(***************************************************************************)
EXTENDS StaticInit

Null == [is |-> "null", class |-> "", at |-> 0]
Number == [is |-> "number", class |-> "", at |-> 0]
GlobalAt(c, g) == [is |-> "global", class |-> c, at |-> g]
FunctionAt(c, f) == [is |-> "function", class |-> c, at |-> f]
Scalar(size, init) == [size |-> size, init |-> init]

Leaves(sizes) == {Scalar(n, i) : n \in sizes, i \in {Null, Number}}
FlatStructs == UNION {[1 .. n -> {<<l>> : l \in Leaves({1, 4, 8})}] : n \in 0 .. 3}
Nested == UNION {[1 .. n -> Leaves({1, 4})] : n \in 1 .. 2}
NestedStructs == [1 .. 2 -> Nested]
Other == << <<Scalar(4, Number)>> >>

(* Scalars of packed structures carry a mark, so that the same layout      *)
(* occurs packed and not packed.                                           *)
PackedLeaves == {[size |-> n, init |-> i, packed |-> TRUE] : n \in {1, 4, 8}, i \in {Null, Number}}
MCPackedGlobals == UNION {[1 .. n -> {<<l>> : l \in PackedLeaves}] : n \in 2 .. 3}
MCPackedFields == [1 .. 2 -> PackedLeaves]
WithPackedField == {<<f, <<Scalar(4, Number)>>>> : f \in MCPackedFields}

LayoutPrograms ==
    {[a |-> <<g, Other>>] :
        g \in FlatStructs \cup NestedStructs \cup MCPackedGlobals \cup WithPackedField}

Targets == {Number} \cup {GlobalAt(c, g) : c \in {"a", "b"}, g \in {1, 2}}
           \cup {FunctionAt(c, f) : c \in {"a", "b"}, f \in {1}}
Pointer(t) == << <<Scalar(4, t)>> >>
CircularPrograms ==
    {[a |-> <<Pointer(s), Pointer(t)>>, b |-> <<Pointer(u), Pointer(Number)>>] :
        s \in Targets, t \in {Number, GlobalAt("b", 1), FunctionAt("b", 1)}, u \in Targets}

MCPrograms == LayoutPrograms \cup CircularPrograms
=============================================================================
