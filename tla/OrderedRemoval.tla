---------------------------- MODULE OrderedRemoval ----------------------------
(***************************************************************************)
(* Taking members out of an ordered collection (a Map's keys, a queue): the *)
(* others keep their order.  It is SelectSeq with "not in T" for a test,    *)
(* written as a recursive function so that it can be reasoned about.        *)
(***************************************************************************)
EXTENDS Integers, Sequences

Without(s, T) ==
  LET kept[n \in 0..Len(s)] ==
        IF n = 0 THEN <<>>
        ELSE IF s[n] \in T THEN kept[n - 1] ELSE Append(kept[n - 1], s[n])
  IN kept[Len(s)]
=============================================================================
