------------------------------- MODULE Basic -------------------------------
(* What tables and buffers share: the size they grow to (nextPow2 of      *)
(* src/adlib/basic.h).                                                    *)
EXTENDS Integers

Power2[k \in Nat] == IF k = 0 THEN 1 ELSE 2 * Power2[k - 1]

Least(S) == CHOOSE k \in S : \A j \in S : k <= j

nextPow2(n) == Least({p \in {Power2[k] : k \in 0 .. n} : p >= n})
=============================================================================
