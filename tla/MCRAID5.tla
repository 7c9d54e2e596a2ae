------------------------------ MODULE MCRAID5 -------------------------------
(* Instances of RAID5 for TLC. *)
EXTENDS RAID5

CONSTANTS Short, Long  \* lengths of data

(* Everything of the short lengths, and of the long ones what changes once. *)
Changes(n) == {[i \in 1..n |-> IF i \in j..k THEN 1 ELSE 0] : j, k \in 1..n}
ShortAndLong == UNION {[1..n -> {0, 1}] : n \in Short} \cup UNION {Changes(n) : n \in Long}
=============================================================================
