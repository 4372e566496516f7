------------------------------ MODULE WalkOrder ------------------------------
(* A directory's entries as a walk of the filesystem has them: a path is the *)
(* names from the root on, and names are numbers.                            *)
EXTENDS Integers, Sequences, FiniteSets, SequencesExt

ByName(S) == {s \in [1..Cardinality(S) -> S] :
                Range(s) = S /\ \A i, j \in DOMAIN s : i < j => Last(s[i]) < Last(s[j])}
=============================================================================
