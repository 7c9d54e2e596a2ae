----------------------------- MODULE MCSession ------------------------------
(* Instances of Session for TLC. *)
EXTENDS Session, TLC

CONSTANTS f1, f2, f3

(* Files of one chunk, and one of three. *)
OneOrThree == [f \in Files |-> IF f = f2 THEN 3 ELSE 1]
=============================================================================
