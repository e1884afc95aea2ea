---------------------------- MODULE MCLoginGuard ----------------------------
(* Instances of LoginGuard for TLC.                                        *)
EXTENDS LoginGuard, TLC

(* Keys are interchangeable, and so are requests.                          *)
Symmetry == Permutations(Key) \cup Permutations(Request)
=============================================================================
