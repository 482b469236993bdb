------------------------------ MODULE MCWorker ------------------------------
(***************************************************************************)
(* Small instances of Worker for TLC.                                      *)
(***************************************************************************)
EXTENDS WorkerJob, TLC

CONSTANT Pid      \* the pids a process of a service may get

(* One service per region: the owner strings of two services differ.       *)
RegionOwners == Worker \X Pid
OwnPids == [w \in Worker |-> {w} \X Pid]

(* Both in one region, as two tasks of a rolling deployment are: the same  *)
(* pid gives two processes the same owner string.                          *)
CONSTANT Region
RegionPids == {Region} \X Pid
SharedPids == [w \in Worker |-> RegionPids]

Symmetry == Permutations(Worker) \cup Permutations(Pid)
=============================================================================
