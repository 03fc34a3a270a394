------------------------------ MODULE MCCache ------------------------------
(* One model with two objects, two readers and two writers. *)
EXTENDS Cache, TLC

CONSTANTS o1, o2, r1, r2, w1, w2

MCObject == {o1, o2}
MCReader == {r1, r2}
MCWriter == {w1, w2}
=============================================================================
