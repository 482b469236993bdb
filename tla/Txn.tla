-------------------------------- MODULE Txn --------------------------------
(***************************************************************************)
(* What db.run_txn promises its callers, and what the other modules take   *)
(* for one step: the function is applied once and at one moment, or not at *)
(* all.  A call that returns has been applied; one that raises the         *)
(* serialization failure has not; of any other error nothing can be told.  *)
(*                                                                         *)
(* What the functions do is left open: each adds its call to a log, which  *)
(* also tells what it has read - all the calls before it.                  *)
(***************************************************************************)
EXTENDS Sequences

CONSTANT Call   \* the calls of run_txn

VARIABLES
  log,          \* the calls applied, in this order
  result,       \* result[c]: what the function of c has read
  state         \* each call, from "idle" to one of its ends

vars == <<log, result, state>>

Init ==
  /\ log = <<>>
  /\ result = [c \in Call |-> <<>>]
  /\ state = [c \in Call |-> "idle"]

Becomes(c, s) == state' = [state EXCEPT ![c] = s]

Begin(c) ==
  /\ state[c] = "idle"
  /\ Becomes(c, "open")
  /\ UNCHANGED <<log, result>>

Apply(c) ==
  /\ state[c] = "open"
  /\ Becomes(c, "applied")
  /\ log' = Append(log, c)
  /\ result' = [result EXCEPT ![c] = log]

Return(c) ==
  /\ state[c] = "applied"
  /\ Becomes(c, "returned")
  /\ UNCHANGED <<log, result>>

Refuse(c) ==
  /\ state[c] = "open"
  /\ Becomes(c, "refused")
  /\ UNCHANGED <<log, result>>

Break(c) ==
  /\ state[c] \in {"open", "applied"}
  /\ Becomes(c, "broken")
  /\ UNCHANGED <<log, result>>

Step(c) == Apply(c) \/ Return(c) \/ Refuse(c) \/ Break(c)

Next == \E c \in Call : Begin(c) \/ Step(c)

SafeSpec == Init /\ [][Next]_vars

(* A call that has begun ends.                                             *)
Spec == SafeSpec /\ \A c \in Call : WF_vars(Step(c))
=============================================================================
