------------------------ MODULE MCObjectPublication ------------------------
(* Instances of ObjectPublication for model checking. *)
EXTENDS ObjectPublication, TLC

CONSTANTS p1, o1, u1, b1

First == [op |-> o1, uri |-> u1, bytes |-> b1]

\* Operations, URIs and contents may be renamed at will, so the first call's request
\* stands for every other.  The others publish under the same URI or another one, where
\* the bytes, never compared with those of the first, may be the same.
MCAnything ==
    [p \in Publishers |-> IF p = p1 THEN {First} ELSE {w \in Requests : w.uri = u1 \/ w.bytes = b1}]

Symmetry ==
    Permutations(Operations \ {o1}) \cup Permutations(Uris \ {u1}) \cup
    Permutations(Contents \ {b1})
=============================================================================
