---------------------------- MODULE MCWriteGate ----------------------------
(* Two goroutines of every class.                                         *)
EXTENDS WriteGate
CONSTANTS c1, c2, m1, m2, o1, o2

MCClassOf == [p \in Proc |->
    IF p \in {c1, c2} THEN "control"
    ELSE IF p \in {m1, m2} THEN "maintenance" ELSE "ordinary"]
=============================================================================
