-------------------------- MODULE MCFullTextSearch --------------------------
(* Small instances of FullTextSearch for TLC. *)
EXTENDS FullTextSearch, SequencesExt

CONSTANT Longest

\* Nothing, or two words.
Usual == {<<>>, <<"r", "r", " ", "o", "o">>}

\* One of the three texts is anything up to Longest symbols.
AnyForm ==
  UNION {{[p \in Parts |-> IF p = q THEN s ELSE u] : s \in SeqOf(Symbols, Longest), u \in Usual}
          : q \in Parts}

=============================================================================
