----------------------------- MODULE MCMonitor -----------------------------
(***************************************************************************)
(* A small instance of Monitor for TLC.                                    *)
(***************************************************************************)
EXTENDS Monitor

(* Nothing tells two rows apart but when they begin: a behaviour is one of *)
(* those in which they begin in this order, with the rows renamed.         *)
BeginInOrder == \A r, q \in Row : r < q /\ ts[q] # 0 => ts[r] \in 1 .. ts[q] - 1
=============================================================================
