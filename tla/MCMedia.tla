------------------------------ MODULE MCMedia ------------------------------
(* Two uploads and two requests that use their pictures. *)
EXTENDS Media, TLC

CONSTANTS p1, p2, r1, r2

MCPhoto == {p1, p2}
MCRequest == {r1, r2}
Symmetries == Permutations(MCPhoto) \cup Permutations(MCRequest)
=============================================================================
