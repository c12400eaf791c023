-------------------------- MODULE MCFileStoreLock --------------------------
(* Small instances of FileStoreLock for TLC: w1 and w2 share a process. *)
EXTENDS FileStoreLock

CONSTANTS w1, w2, w3, w4, api, seed, second

MCTwoWriters == {w1, w3}
MCThreeWriters == {w1, w3, w4}
MCProcesses == {api, seed, second}
MCProcessOfTwo == [w \in {w1, w3} |-> IF w = w1 THEN api ELSE seed]
MCProcessOfThree == [w \in {w1, w3, w4} |-> IF w = w1 THEN api ELSE IF w = w3 THEN seed ELSE second]

=============================================================================
