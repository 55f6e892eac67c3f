------------------------------ MODULE MCFxRate ------------------------------
(* Instances of FxRate for TLC.  *)
EXTENDS FxRate, TLC

(* Three units of two products, and more units than either total has room  *)
(* for at the proper rate.                                                 *)
MCCarts == {[p \in {"a", "b"} |-> IF p = "a" THEN 2 ELSE 1],
            [p \in {"a"} |-> 200]}
MCPrice == [a |-> 3, b |-> 5]

(* The proper rate has one digit more than its column.  *)
MCQuote == {933, NaN, Infinity, Garbage}

(* 1300 has no room in exchange_rate_used; at 50 the UZS total of the      *)
(* larger cart fits where its KRW total does not.                          *)
MCDamage == {0, NaN, Garbage, 50, 1300}

(* Workers are interchangeable.  *)
Symmetry == Permutations(Worker)
=============================================================================
