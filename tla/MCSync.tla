------------------------------- MODULE MCSync -------------------------------
(* Instances of Sync for TLC. *)
EXTENDS Sync, TLC

CONSTANTS d1, d2, t1, t2, i1, i2, k1

Symmetry == Permutations({d1, d2}) \cup Permutations({t1, t2})

(* Objects without a natural key. *)
PlainForms  == [i \in {i1, i2} |-> {<<"org", NoKey>>}]
(* An id that is pushed under two kinds, and one with a natural key. *)
MixedForms  == [i \in {i1, i2} |-> IF i = i1 THEN {<<"org", NoKey>>, <<"loc", k1>>}
                                             ELSE {<<"loc", k1>>}]
(* One id has a natural key, the other has not. *)
EitherForms == [i \in {i1, i2} |-> IF i = i1 THEN {<<"org", NoKey>>} ELSE {<<"loc", k1>>}]
NoParent    == [i \in {i1, i2} |-> i]
Below1      == [i \in {i1, i2} |-> i1]
=============================================================================
