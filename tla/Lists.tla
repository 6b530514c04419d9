------------------------------- MODULE Lists --------------------------------
(* The operations on lists that the models share. The community module        *)
(* SequencesExt has them as well, among many others that a proof about a      *)
(* model would then carry along in every step; Range is the one of Functions. *)
EXTENDS Integers, Sequences, FiniteSets, Functions

(* VecDeque::remove: the entry at place i goes, the others keep their order.  *)
RemoveAt(s, i) == SubSeq(s, 1, i - 1) \o SubSeq(s, i + 1, Len(s))

(* The first entry e of s goes, if it has one.                                *)
RemoveFirst(s, e) ==
    LET first == CHOOSE i \in DOMAIN s : s[i] = e /\ \A j \in 1..(i - 1) : s[j] # e
    IN  IF e \in Range(s) THEN RemoveAt(s, first) ELSE s

(* The elements of a finite set in some order, each once: what a query of the *)
(* store returns that promises no order.                                      *)
SetToSeq(S) == CHOOSE s \in [1..Cardinality(S) -> S] : IsInjective(s)
=============================================================================
