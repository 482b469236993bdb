------------------------------- MODULE Lease -------------------------------
(***************************************************************************)
(* The lease row of one job (schema/schema.sql, table lease) and the       *)
(* statements worker.py runs on it.  Every expiry is written and compared  *)
(* with now() of the database, so there is one clock: left counts the time *)
(* units until expires_at.  But now() is the start of the transaction, and *)
(* what it wrote counts from its commit: a transaction is one step here,   *)
(* its commit, and its age is how long ago it started.                     *)
(*                                                                         *)
(* The columns region and control_addr are written together with owner and *)
(* are read only by the arena; they are left out here.                     *)
(***************************************************************************)
EXTENDS Integers

CONSTANTS
  Owner,      \* the owner strings "region:pid"
  TTL,        \* config.LEASE_TTL_SECONDS, in time units
  MaxTxn,     \* longest age at which a transaction on the row commits: three
              \*   statements of up to db.STATEMENT_TIMEOUT_MS, and waits
  NoLease     \* the job has no lease row yet

ASSUME TTLAssumption == TTL \in Nat /\ MaxTxn \in Nat
ASSUME NoLeaseAssumption == NoLease \notin [owner : Owner, left : Int]

VARIABLE lease

(* Beyond -1 - MaxTxn the row has expired for every transaction.           *)
LeaseRow == [owner : Owner, left : -1 - MaxTxn .. TTL]

LeaseTypeOK == lease \in LeaseRow \cup {NoLease}

LeaseInit == lease = NoLease

(* Mutants of Claimable: expired one unit early, and never expired.        *)
ClaimableEarly(o, age) ==
  lease # NoLease => lease.owner = o \/ lease.left + age <= 0

ClaimableByOwner(o, age) ==
  lease # NoLease => lease.owner = o

(* Who may write the row: anyone if there is none, or if it had expired    *)
(* when the transaction started (expires_at < now()), and whoever has the  *)
(* owner string in it.                                                     *)
Claimable(o, age) ==
  lease # NoLease => lease.owner = o \/ lease.left + age < 0

(* Mutant of ClaimOrRenewLease: expires_at + ttl instead of now() + ttl.   *)
ClaimOrRenewLeaseLonger(o, age) ==
  /\ Claimable(o, age)
  /\ lease' = [owner |-> o,
               left |-> IF lease = NoLease THEN TTL ELSE lease.left + TTL]

(* The INSERT or UPDATE of claim_or_renew_lease, which returns True: the   *)
(* row lasts for the TTL from the start of the transaction.                *)
ClaimOrRenewLease(o, age) ==
  /\ Claimable(o, age)
  /\ lease' = [owner |-> o, left |-> TTL - age]

(* UPDATE lease ... WHERE owner = o, the third statement of flush_chunk:   *)
(* no row of that owner, no update, and nobody looks at the row count.  A  *)
(* slow one sets expires_at back to before what a heartbeat wrote since.   *)
RenewIfOwner(o, age) ==
  lease' = IF lease # NoLease /\ lease.owner = o
           THEN [lease EXCEPT !.left = TTL - age]
           ELSE lease

(* One time unit passes for the row.                                      *)
LeaseTick ==
  lease' = IF lease # NoLease /\ lease.left >= -MaxTxn
           THEN [lease EXCEPT !.left = @ - 1]
           ELSE lease
=============================================================================
