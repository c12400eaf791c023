----------------------------- MODULE MCMongoStore -----------------------------
(* A small instance of MongoStore for TLC: three calls on one proposal and two *)
(* keys, two processes that connect, three updates of one run.                 *)
EXTENDS MongoStore, TLC

CONSTANTS p1, c1, planA, k1, k2, r1, r2, r3, s1, s2, u1, u2, u3

Symmetry == Permutations({r1, r2, r3}) \cup Permutations({s1, s2})

=============================================================================
