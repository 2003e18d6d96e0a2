---------------------------- MODULE MCFiltering ----------------------------
(* Small instances of Filtering for TLC. *)
EXTENDS Filtering, SequencesExt

CONSTANT Longest

Values == SeqOf(Chars, Longest) \cup {Null}

Descriptors == [Predicate : Predicates, Criterion : SeqOf(Chars, Longest)]

Others == [Predicate : {"Neq", "Contains", "Null"}, Criterion : {<<"a">>, <<"!", "%">>}]

\* Any descriptor, alone or after another one.
OneOrTwo == {<<d>> : d \in Descriptors} \cup {<<e, d>> : e \in Others, d \in Descriptors}
=============================================================================
