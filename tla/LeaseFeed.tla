----------------------------- MODULE LeaseFeed -----------------------------
(***************************************************************************)
(* The live signal of the lease: monitor.stream_lease, from the rows of    *)
(* the table lease to the connection of one page.  Unlike the rows of      *)
(* Monitor.tla a lease is updated in place, several times a second, and    *)
(* only a change of the owner is forwarded.                                *)
(*                                                                         *)
(* How the lease comes to change hands is the subject of Worker.tla and    *)
(* Arena.tla, how a job follows another that of Demo.tla; here any owner   *)
(* may take it.  Two jobs are told apart: "this" one, which the pointer    *)
(* names, and the "last" one before it.                                    *)
(***************************************************************************)
EXTENDS Integers, Sequences, FiniteSets

CONSTANTS
  Owner,        \* the owner strings
  Nobody,       \* no lease row, or last_owner = None
  MaxPending,   \* bound on the versions of a row the feed is behind
  MaxQueue,     \* bound on the events that wait for the page
  MaxFaults     \* bound on the failures and repetitions of a behaviour

ASSUME NobodyAssumption == Nobody \notin Owner
ASSUME FeedBounds ==
  MaxPending \in Nat \ {0} /\ MaxQueue \in Nat \ {0, 1} /\ MaxFaults \in Nat

Job == {"this", "last"}

VARIABLES
  phase,        \* this job: "running", "done", or "resting" once the pause is set
  holder,       \* holder[j]: the owner in the lease row of j, or Nobody
  leaving,      \* workers that have yet to see that the job is done
  mode,         \* the thread: "feed", "poll" or "dead"
  pending,      \* pending[j]: owners of the versions the feed has to emit
  fresh,        \* jobs whose row was written since the last poll, if any
  polled,       \* last_val # None
  lastOwner,    \* last_owner
  connected,    \* the page's connection is in _subscribers
  queue,        \* its queue
  faults        \* failures so far

demoVars == <<phase, leaving>>
rowVars == <<holder, pending, fresh>>
threadVars == <<mode, polled, lastOwner>>
feedVars == <<demoVars, rowVars, threadVars, connected, queue, faults>>

FeedTypeOK ==
  /\ phase \in {"running", "done", "resting"}
  /\ holder \in [Job -> Owner \cup {Nobody}]
  /\ leaving \subseteq Owner
  /\ mode \in {"feed", "poll", "dead"}
  /\ pending \in [Job -> Seq(Owner)] /\ \A j \in Job : Len(pending[j]) <= MaxPending
  /\ fresh \subseteq Job
  /\ polled \in BOOLEAN
  /\ lastOwner \in Owner \cup {Nobody}
  /\ connected \in BOOLEAN
  /\ queue \in Seq(Owner) /\ Len(queue) <= MaxQueue
  /\ faults \in 0 .. MaxFaults

FeedInit ==
  /\ phase = "running"
  /\ holder = [j \in Job |-> Nobody]
  /\ leaving = {}
  /\ mode \in {"feed", "poll"}
  /\ pending = [j \in Job |-> <<>>]
  /\ fresh = {}
  /\ polled = FALSE
  /\ lastOwner = Nobody
  /\ connected = FALSE
  /\ queue = <<>>
  /\ faults = 0

-----------------------------------------------------------------------------
(* The demo and its lease.                                                 *)

(* Mutant of WriteLease: the polls are by a column that is set once, when   *)
(* the row is inserted, as those of the other tables are.                  *)
WriteLeaseOnce(o) ==
  /\ Len(pending.this) < MaxPending
  /\ holder' = [holder EXCEPT !.this = o]
  /\ pending' = IF mode = "feed" THEN [pending EXCEPT !.this = Append(@, o)] ELSE pending
  /\ fresh' = IF polled /\ holder.this = Nobody THEN fresh \cup {"this"} ELSE fresh

(* A transaction that writes the row: the feed has one more version to     *)
(* emit, and a poll finds the row beyond the expiry it saw last.           *)
WriteLease(o) ==
  /\ Len(pending.this) < MaxPending
  /\ holder' = [holder EXCEPT !.this = o]
  /\ pending' = IF mode = "feed" THEN [pending EXCEPT !.this = Append(@, o)] ELSE pending
  /\ fresh' = IF polled THEN fresh \cup {"this"} ELSE fresh

(* A worker other than the holder claims.  On a job that is done it then   *)
(* finds no step left, and leaves.                                         *)
Claim(o) ==
  /\ o # holder.this
  /\ phase = "running" \/ o \in leaving
  /\ WriteLease(o)
  /\ leaving' = leaving \ {o}
  /\ UNCHANGED <<phase, threadVars, connected, queue, faults>>

Renew ==
  /\ phase = "running"
  /\ holder.this # Nobody
  /\ WriteLease(holder.this)
  /\ UNCHANGED <<demoVars, threadVars, connected, queue, faults>>

Finish ==
  /\ phase = "running"
  /\ holder.this # Nobody
  /\ phase' = "done"
  /\ leaving' = Owner \ {holder.this}
  /\ UNCHANGED <<rowVars, threadVars, connected, queue, faults>>

StartPause ==
  /\ phase = "done"
  /\ phase' = "resting"
  /\ UNCHANGED <<leaving, rowVars, threadVars, connected, queue, faults>>

(* The next job has no lease row.  Of the job before the last nothing is   *)
(* under way any more: a pause takes a minute, a poll a second.            *)
NewJob ==
  /\ phase = "resting"
  /\ pending.last = <<>> /\ "last" \notin fresh
  /\ phase' = "running"
  /\ leaving' = {}
  /\ holder' = [last |-> holder.this, this |-> Nobody]
  /\ pending' = [last |-> pending.this, this |-> <<>>]
  /\ fresh' = IF "this" \in fresh THEN {"last"} ELSE {}
  /\ UNCHANGED <<threadVars, connected, queue, faults>>

-----------------------------------------------------------------------------
(***************************************************************************)
(* stream_lease: rows with the owner seen last are dropped.                *)
(***************************************************************************)
Fault == faults < MaxFaults /\ faults' = faults + 1

(* What becomes of the row of owner o after one of owner p.                *)
After(p, o) == IF o = p THEN <<>> ELSE <<o>>

(* The rows that are left go to the page, if it is connected.              *)
Forward(rows, owner) ==
  /\ lastOwner' = owner
  /\ IF connected
     THEN /\ Len(queue \o rows) <= MaxQueue
          /\ queue' = queue \o rows
     ELSE UNCHANGED queue

(* The changefeed emits the versions of a row in order, those of different *)
(* rows in any.                                                            *)
Emit(j) ==
  /\ mode = "feed"
  /\ pending[j] # <<>>
  /\ Forward(After(lastOwner, Head(pending[j])), Head(pending[j]))
  /\ pending' = [pending EXCEPT ![j] = Tail(@)]
  /\ UNCHANGED <<demoVars, holder, fresh, mode, polled, connected, faults>>

(* At least once: the feed may emit a version of a row again.              *)
EmitAgain(j) ==
  /\ mode = "feed"
  /\ pending[j] = <<>> /\ holder[j] # Nobody
  /\ Fault
  /\ pending' = [pending EXCEPT ![j] = <<holder[j]>>]
  /\ UNCHANGED <<demoVars, holder, fresh, threadVars, connected, queue>>

Rows == {j \in Job : holder[j] # Nobody}

(* The first poll gets the row with the newest expiry only.                *)
Found ==
  CASE polled           -> fresh
    [] "this" \in Rows  -> {"this"}
    [] OTHER            -> Rows

(* A poll gets its rows by expires_at: the row of the last job was written *)
(* before that of this one.                                                *)
Poll ==
  /\ mode = "poll"
  /\ \/ /\ Found = Job
        /\ Forward(After(lastOwner, holder.last) \o After(holder.last, holder.this),
                   holder.this)
     \/ \E j \in Job : /\ Found = {j}
                       /\ Forward(After(lastOwner, holder[j]), holder[j])
  /\ polled' = TRUE
  /\ fresh' = {}
  /\ UNCHANGED <<demoVars, holder, pending, mode, connected, faults>>

-----------------------------------------------------------------------------
(* Failures and the connection of the page.                                *)

(* stream_table falls back to polling; last_owner is stream_lease's and    *)
(* is kept.                                                                *)
FallBack ==
  /\ mode = "feed"
  /\ Fault
  /\ mode' = "poll"
  /\ pending' = [j \in Job |-> <<>>]
  /\ UNCHANGED <<demoVars, holder, fresh, polled, lastOwner, connected, queue>>

PollFails ==
  /\ mode = "poll"
  /\ Fault
  /\ mode' = "dead"
  /\ polled' = FALSE
  /\ fresh' = {}
  /\ lastOwner' = Nobody
  /\ UNCHANGED <<demoVars, holder, pending, connected, queue>>

(* A new arena begins with a scan of the table and without subscribers.    *)
Restart ==
  /\ Fault
  /\ mode' \in {"feed", "poll"}
  /\ pending' = [j \in Job |-> IF mode' = "feed" /\ holder[j] # Nobody
                               THEN <<holder[j]>> ELSE <<>>]
  /\ polled' = FALSE
  /\ lastOwner' = Nobody
  /\ connected' = FALSE
  /\ queue' = <<>>
  /\ fresh' = {}
  /\ UNCHANGED <<demoVars, holder>>

(* The page connects, and again after onerror.                             *)
Connect ==
  /\ ~connected
  /\ connected' = TRUE
  /\ UNCHANGED <<demoVars, rowVars, threadVars, queue, faults>>

Disconnect ==
  /\ connected
  /\ Fault
  /\ connected' = FALSE
  /\ queue' = <<>>
  /\ UNCHANGED <<demoVars, rowVars, threadVars>>

-----------------------------------------------------------------------------
Stream == (\E j \in Job : Emit(j)) \/ Poll

(* From some time on one worker keeps the lease and works.                 *)
HolderStays ==
  <>[](phase = "running" /\ holder.this # Nobody) /\ <>[][FALSE]_holder

(* Whoever keeps the lease is the owner the signal has told of last,       *)
(* whatever order the rows of two jobs, a scan or a fallback come in.      *)
TellsTheOwner ==
  HolderStays => <>[](lastOwner = holder.this \/ mode = "dead")
=============================================================================
