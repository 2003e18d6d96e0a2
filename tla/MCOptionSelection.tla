------------------------- MODULE MCOptionSelection -------------------------
(* Small instances of OptionSelection for TLC. *)
EXTENDS OptionSelection

\* A page whose first item is exclusive, one with two exclusive items and a
\* selected one, a shorter page.
SomePages ==
  {[count |-> 3, exclusive |-> {0}, selected |-> {}],
   [count |-> 3, exclusive |-> {0, 2}, selected |-> {1}],
   [count |-> 2, exclusive |-> {}, selected |-> {0}]}

\* A client filter replaces the options at once, animated or not.
AllSetups ==
  {s \in [multiSelect : BOOLEAN, pagingOn : BOOLEAN, useAnimation : BOOLEAN,
          pages : {SomePages}] : s.useAnimation => s.pagingOn}

Fading == {s \in AllSetups : s.multiSelect /\ s.useAnimation}

Hiding == {s \in AllSetups : s.multiSelect /\ ~s.pagingOn}
=============================================================================
