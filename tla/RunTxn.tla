------------------------------- MODULE RunTxn -------------------------------
(***************************************************************************)
(* The loop of db.run_txn under contention: connect, run the function,     *)
(* commit, and all of that again after a serialization failure, at most    *)
(* MAX_RETRIES times.  Several calls, of one process or of many, do so on  *)
(* the same rows.                                                          *)
(*                                                                         *)
(* The database is external: a transaction that has read rows which were   *)
(* written since is refused with SQLSTATE 40001, and refused with its      *)
(* effects undone.  The rows are a log here, as in Txn.tla: every function *)
(* reads all of it and writes it back with one more entry.                 *)
(***************************************************************************)
EXTENDS Integers, Sequences

CONSTANTS
  Call,         \* the calls of run_txn
  MaxRetries,   \* db.MAX_RETRIES
  MaxFaults     \* bound on the failures that nobody's commit has caused

ASSUME RetriesAssumption == MaxRetries \in Nat \ {0} /\ MaxFaults \in Nat

VARIABLES
  log,          \* the rows
  pc,           \* where each call is
  attempt,      \* attempts that have ended in a serialization failure
  seen,         \* what its function has read, kept for its result
  faults        \* failures so far

vars == <<log, pc, attempt, seen, faults>>

TypeOK ==
  /\ log \in Seq(Call)
  /\ pc \in [Call -> {"idle", "connect", "fn", "commit", "committed", "sleep",
                      "returned", "refused", "broken"}]
  /\ attempt \in [Call -> 0 .. MaxRetries]
  /\ seen \in [Call -> Seq(Call)]
  /\ faults \in 0 .. MaxFaults

Init ==
  /\ log = <<>>
  /\ pc = [c \in Call |-> "idle"]
  /\ attempt = [c \in Call |-> 0]
  /\ seen = [c \in Call |-> <<>>]
  /\ faults = 0

GoTo(c, p) == pc' = [pc EXCEPT ![c] = p]

Fault == faults < MaxFaults /\ faults' = faults + 1

-----------------------------------------------------------------------------
Begin(c) ==
  /\ pc[c] = "idle"
  /\ GoTo(c, "connect")
  /\ UNCHANGED <<log, attempt, seen, faults>>

Connect(c) ==
  /\ pc[c] = "connect"
  /\ GoTo(c, "fn")
  /\ UNCHANGED <<log, attempt, seen, faults>>

(* fn(conn): what it has read holds until the commit, or that is refused.  *)
RunFn(c) ==
  /\ pc[c] = "fn"
  /\ GoTo(c, "commit")
  /\ seen' = [seen EXCEPT ![c] = log]
  /\ UNCHANGED <<log, attempt, faults>>

Commit(c) ==
  /\ pc[c] = "commit"
  /\ seen[c] = log
  /\ GoTo(c, "committed")
  /\ log' = Append(seen[c], c)
  /\ UNCHANGED <<attempt, seen, faults>>

Return(c) ==
  /\ pc[c] = "committed"
  /\ GoTo(c, "returned")
  /\ UNCHANGED <<log, attempt, seen, faults>>

(* except SerializationFailure: roll back and remember the error.          *)
RollBack(c) ==
  /\ GoTo(c, "sleep")
  /\ attempt' = [attempt EXCEPT ![c] = @ + 1]
  /\ seen' = [seen EXCEPT ![c] = <<>>]
  /\ UNCHANGED log

Conflict(c) ==
  /\ pc[c] = "commit"
  /\ seen[c] # log
  /\ RollBack(c)
  /\ UNCHANGED faults

(* The database refuses a transaction also for reasons of its own.         *)
Restarted(c) ==
  /\ pc[c] \in {"fn", "commit"}
  /\ Fault
  /\ RollBack(c)

(* Mutant of Again: one attempt less.                                      *)
AgainEarly(c) ==
  /\ pc[c] = "sleep"
  /\ GoTo(c, IF attempt[c] + 1 < MaxRetries THEN "connect" ELSE "refused")
  /\ UNCHANGED <<log, attempt, seen, faults>>

(* Mutant of Again: one attempt more.                                      *)
AgainLate(c) ==
  /\ pc[c] = "sleep"
  /\ GoTo(c, IF attempt[c] <= MaxRetries THEN "connect" ELSE "refused")
  /\ UNCHANGED <<log, attempt, seen, faults>>

(* The loop goes round, on a connection of its own, or is over, and the    *)
(* last error is raised - after one more sleep.                            *)
Again(c) ==
  /\ pc[c] = "sleep"
  /\ GoTo(c, IF attempt[c] < MaxRetries THEN "connect" ELSE "refused")
  /\ UNCHANGED <<log, attempt, seen, faults>>

(* Mutant of Lose: a lost connection is taken for a serialization failure. *)
LoseAgain(c) ==
  /\ pc[c] \in {"connect", "fn", "commit", "committed"}
  /\ attempt[c] < MaxRetries
  /\ Fault
  /\ RollBack(c)

(* Any other exception leaves the loop: there is no connection, the        *)
(* statement is canceled or the connection is lost - perhaps after the     *)
(* commit, before its acknowledgement.  The death of the process is one.   *)
Lose(c) ==
  /\ pc[c] \in {"connect", "fn", "commit", "committed", "sleep"}
  /\ Fault
  /\ GoTo(c, "broken")
  /\ UNCHANGED <<log, attempt, seen>>

-----------------------------------------------------------------------------
Attempt(c) ==
  Connect(c) \/ RunFn(c) \/ Commit(c) \/ Return(c) \/ Conflict(c) \/ Again(c)

Next == \E c \in Call : Begin(c) \/ Attempt(c) \/ Restarted(c) \/ Lose(c)

SafeSpec == Init /\ [][Next]_vars

(* The thread of each call runs.                                           *)
Spec == SafeSpec /\ \A c \in Call : WF_vars(Attempt(c))

-----------------------------------------------------------------------------
(***************************************************************************)
(* Properties.                                                             *)
(***************************************************************************)
State(p) ==
  IF p \in {"connect", "fn", "commit", "sleep"} THEN "open"
  ELSE IF p = "committed" THEN "applied" ELSE p

InLog(c) == \E i \in DOMAIN log : log[i] = c

(* What a call has read counts once it is committed.                       *)
Result(c) == IF InLog(c) THEN seen[c] ELSE <<>>

Promise == INSTANCE Txn WITH
  result <- [c \in Call |-> Result(c)],
  state <- [c \in Call |-> State(pc[c])]

(* run_txn is one atomic step, whatever attempts it takes and wherever it  *)
(* fails, and it comes to an end: what Worker, Demo, Arena and Monitor     *)
(* assume of each transaction.                                             *)
Atomic == Promise!Spec

(* A call gives up only after it was overtaken in each of its attempts:    *)
(* "a routine, expected event, not an error condition" as long as fewer    *)
(* than MAX_RETRIES others write the same row at that time.                *)
GivesUpOvertaken ==
  \A c \in Call : pc[c] = "refused" => Len(log) + faults >= MaxRetries
=============================================================================
