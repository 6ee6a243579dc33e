---------------------------- MODULE MCSecureLink ----------------------------
(* SecureLink with two threads of the server and the two tasks of the device,  *)
(* all alike.                                                                  *)
EXTENDS SecureLink, TLC

CONSTANTS t1, t2, k1, k2

MCThread == {t1, t2}
MCTask == {k1, k2}
Symmetry == Permutations(MCThread) \cup Permutations(MCTask)

=============================================================================
