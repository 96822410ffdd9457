---------------------------- MODULE MCAuditLedger ----------------------------
(* Instances of AuditLedger for TLC: who runs where, and how clocks move.   *)
EXTENDS AuditLedger, SequencesExt

CONSTANTS i1, i2, a1, a2, a3

(* Two goroutines in one instance and one in another. *)
TwoInstances == {i1, i2}
ThreeAppenders == {a1, a2, a3}
SharedHost == (a1 :> i1) @@ (a2 :> i1) @@ (a3 :> i2)

(* a1 and a2 may be exchanged: both run in i1 and make the same calls.      *)
Workmates == Permutations({a1, a2})

(* Two goroutines in the only instance. *)
OneInstance == {i1}
TwoAppenders == {a1, a2}
SingleHost == [a \in TwoAppenders |-> i1]

(* Readings at least a millisecond apart; ties; and a clock that steps back.*)
Ticking == {1}
Tying == {0, 1}
Stepping == {-1, 1}
=============================================================================
