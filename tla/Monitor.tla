------------------------------ MODULE Monitor ------------------------------
(***************************************************************************)
(* One live signal of the arena: monitor.stream_table on a table of rows   *)
(* that are only ever inserted (memory_events, output_chunks), the thread  *)
(* arena._broadcast that runs it and the subscribers of monitor_stream.    *)
(*                                                                         *)
(* A row's order column defaults to now(), the start of the transaction    *)
(* that inserts it, and the row is seen once that transaction commits.     *)
(* Two starts at the same microsecond are not modelled.                    *)
(***************************************************************************)
EXTENDS Integers, Sequences, FiniteSets, SequencesExt

CONSTANTS
  Row,          \* the rows that may be inserted
  Client,       \* pages, each with a connection to /api/monitor/stream
  MaxOpen,      \* transactions that may be open at the same time
  MaxFaults     \* bound on the failures of the connection to the database,
                \*   and on the rows the feed emits again

ASSUME MonitorAssumption ==
  IsFiniteSet(Row) /\ MaxOpen \in Nat \ {0} /\ MaxFaults \in Nat

VARIABLES
  row,          \* row[r]: "none", "open" or "committed"
  ts,           \* ts[r]: its order column, 0 if there is none yet
  mode,         \* the thread: "feed", "poll" or "dead"
  lastVal,      \* last_val of poll_table, 0 for None
  batch,        \* rows the generator has in hand
  sent,         \* rows broadcast, in that order
  todo,         \* subscribers the last of them has not been put to
  subscribers,  \* _subscribers
  queue,        \* queue[c]: what was put to c, read or not
  joined,       \* history: number of rows broadcast before c subscribed
  since,        \* history: the row with which polling began, 0 if none
  fed,          \* history: number of rows the feed has emitted
  faults        \* failures and repetitions so far

tableVars == <<row, ts>>
threadVars == <<mode, lastVal, batch, since, fed>>
clientVars == <<sent, todo, subscribers, queue, joined>>
vars == <<tableVars, threadVars, clientVars, faults>>

TypeOK ==
  /\ row \in [Row -> {"none", "open", "committed"}]
  /\ ts \in [Row -> 0 .. Cardinality(Row)]
  /\ mode \in {"feed", "poll", "dead"}
  /\ lastVal \in 0 .. Cardinality(Row)
  /\ batch \in Seq(Row) /\ sent \in Seq(Row)
  /\ todo \subseteq Client /\ subscribers \subseteq Client
  /\ queue \in [Client -> Seq(Row)]
  /\ joined \in [Client -> Nat]
  /\ since \in 0 .. Cardinality(Row)
  /\ fed \in Nat
  /\ faults \in 0 .. MaxFaults

(* config.MONITOR_MODE chooses; a feed that cannot be opened is one that   *)
(* fails at once.                                                          *)
Init ==
  /\ row = [r \in Row |-> "none"]
  /\ ts = [r \in Row |-> 0]
  /\ mode \in {"feed", "poll"}
  /\ lastVal = 0
  /\ batch = <<>>
  /\ sent = <<>>
  /\ todo = {}
  /\ subscribers = {}
  /\ queue = [c \in Client |-> <<>>]
  /\ joined = [c \in Client |-> 0]
  /\ since = 0
  /\ fed = 0
  /\ faults = 0

-----------------------------------------------------------------------------
(* The writers.                                                            *)
Open == {r \in Row : row[r] = "open"}

Committed == {r \in Row : row[r] = "committed"}

Begin(r) ==
  /\ row[r] = "none"
  /\ Cardinality(Open) < MaxOpen
  /\ row' = [row EXCEPT ![r] = "open"]
  /\ ts' = [ts EXCEPT ![r] = Cardinality(Open \cup Committed) + 1]
  /\ UNCHANGED <<threadVars, clientVars, faults>>

Commit(r) ==
  /\ row[r] = "open"
  /\ row' = [row EXCEPT ![r] = "committed"]
  /\ UNCHANGED <<ts, threadVars, clientVars, faults>>

-----------------------------------------------------------------------------
(***************************************************************************)
(* stream_table.  The generator goes on once all it has in hand has been   *)
(* broadcast.                                                              *)
(***************************************************************************)
Resumed == batch = <<>> /\ todo = {}

Fault == faults < MaxFaults /\ faults' = faults + 1

(* The changefeed emits each committed row at least once, rows of          *)
(* different keys in any order.                                            *)
Emit(r) ==
  /\ mode = "feed"
  /\ Resumed
  /\ r \in Committed
  /\ IF r \in ToSet(sent) THEN Fault ELSE UNCHANGED faults
  /\ batch' = <<r>>
  /\ fed' = fed + 1
  /\ UNCHANGED <<tableVars, mode, lastVal, since, clientVars>>

(* Any exception of the feed: from here on the table is polled, and        *)
(* nothing of what the feed has emitted is remembered.                     *)
FallBack ==
  /\ mode = "feed"
  /\ Resumed
  /\ Fault
  /\ mode' = "poll"
  /\ UNCHANGED <<tableVars, lastVal, batch, since, fed, clientVars>>

(* ORDER BY: the rows of R from the oldest to the newest.                  *)
ByTs(R) ==
  {s \in [1 .. Cardinality(R) -> R] :
     \A i, j \in DOMAIN s : i < j => ts[s[i]] < ts[s[j]]}

(* Mutants of NewRows: LIMIT 1 on every poll, and >= in the WHERE clause.  *)
NewRowsNewest ==
  {r \in Committed : ts[r] > lastVal /\ \A q \in Committed : ts[q] <= ts[r]}

NewRowsAgain ==
  IF lastVal = 0
  THEN {r \in Committed : \A q \in Committed : ts[q] <= ts[r]}
  ELSE {r \in Committed : ts[r] >= lastVal}

(* The rows of a poll: the newest one only, as long as there is no         *)
(* last_val.                                                               *)
NewRows ==
  IF lastVal = 0
  THEN {r \in Committed : \A q \in Committed : ts[q] <= ts[r]}
  ELSE {r \in Committed : ts[r] > lastVal}

(* Mutants of Poll: last_val is one past the row, or the time of the poll. *)
PollPast ==
  /\ mode = "poll"
  /\ Resumed
  /\ NewRows # {}
  /\ batch' \in ByTs(NewRows)
  /\ lastVal' = ts[Last(batch')] + 1
  /\ since' = IF lastVal = 0 THEN ts[Last(batch')] ELSE since
  /\ UNCHANGED <<tableVars, mode, fed, clientVars, faults>>

PollByClock ==
  /\ mode = "poll"
  /\ Resumed
  /\ NewRows # {}
  /\ batch' \in ByTs(NewRows)
  /\ lastVal' = Cardinality(Open \cup Committed)
  /\ since' = IF lastVal = 0 THEN ts[Last(batch')] ELSE since
  /\ UNCHANGED <<tableVars, mode, fed, clientVars, faults>>

Poll ==
  /\ mode = "poll"
  /\ Resumed
  /\ NewRows # {}
  /\ batch' \in ByTs(NewRows)
  /\ lastVal' = ts[Last(batch')]
  /\ since' = IF lastVal = 0 THEN lastVal' ELSE since
  /\ UNCHANGED <<tableVars, mode, fed, clientVars, faults>>

(* run_txn raises: nobody catches it, and the thread is gone.              *)
PollFails ==
  /\ mode = "poll"
  /\ Resumed
  /\ Fault
  /\ mode' = "dead"
  /\ UNCHANGED <<tableVars, lastVal, batch, since, fed, clientVars>>

-----------------------------------------------------------------------------
(***************************************************************************)
(* _broadcast and monitor_stream.                                          *)
(***************************************************************************)

(* The next event, and a copy of the subscribers taken under the lock.     *)
Broadcast ==
  /\ batch # <<>>
  /\ todo = {}
  /\ sent' = Append(sent, Head(batch))
  /\ batch' = Tail(batch)
  /\ todo' = subscribers
  /\ UNCHANGED <<tableVars, mode, lastVal, since, fed, faults>>
  /\ UNCHANGED <<subscribers, queue, joined>>

(* Mutant of Put: a queue that is full drops the event.                    *)
PutUnlessFull(c) ==
  /\ c \in todo
  /\ todo' = todo \ {c}
  /\ \/ queue' = [queue EXCEPT ![c] = Append(@, Last(sent))]
     \/ UNCHANGED queue
  /\ UNCHANGED <<tableVars, threadVars, sent, subscribers, joined, faults>>

Put(c) ==
  /\ c \in todo
  /\ todo' = todo \ {c}
  /\ queue' = [queue EXCEPT ![c] = Append(@, Last(sent))]
  /\ UNCHANGED <<tableVars, threadVars, sent, subscribers, joined, faults>>

(* A connection has a queue of its own; the page reconnects when it is cut. *)
Subscribe(c) ==
  /\ c \notin subscribers \cup todo
  /\ subscribers' = subscribers \cup {c}
  /\ queue' = [queue EXCEPT ![c] = <<>>]
  /\ joined' = [joined EXCEPT ![c] = Len(sent)]
  /\ UNCHANGED <<tableVars, threadVars, sent, todo, faults>>

(* A client that has left may still be in the copy.                        *)
Disconnect(c) ==
  /\ c \in subscribers
  /\ subscribers' = subscribers \ {c}
  /\ UNCHANGED <<tableVars, threadVars, sent, todo, queue, joined, faults>>

-----------------------------------------------------------------------------
Stream == (\E r \in Row : Emit(r)) \/ Poll \/ Broadcast \/ \E c \in Client : Put(c)

Next ==
  \/ \E r \in Row : Begin(r) \/ Commit(r)
  \/ Stream \/ FallBack \/ PollFails
  \/ \E c \in Client : Subscribe(c) \/ Disconnect(c)

Spec == Init /\ [][Next]_vars

(* The thread is scheduled; feed and polls come back.                      *)
FairSpec == Spec /\ WF_vars(Stream)

-----------------------------------------------------------------------------
(***************************************************************************)
(* Properties.                                                             *)
(***************************************************************************)

(* Polling "by a monotonic column" (monitor.py) passes over no row: what   *)
(* is committed behind last_val has been sent, from the row on with which  *)
(* polling began.                                                          *)
NothingPassedOver ==
  \A r \in Committed :
    ts[r] \in since .. lastVal /\ since # 0 => r \in ToSet(sent \o batch)

(* Polling repeats no row, neither one of its own nor one the feed has     *)
(* emitted before it failed, but for the first row it begins with.  What   *)
(* the feed itself repeats is shown again: the page appends whatever it    *)
(* gets to the text of a pane.                                             *)
ShownOnce ==
  LET shown == sent \o batch
  IN  \A i, j \in DOMAIN shown :
        i < j /\ shown[i] = shown[j] => j <= fed \/ (j = fed + 1 /\ i <= fed)

(* What a connection gets is an unbroken piece of the signal, from the     *)
(* event on that follows its subscription, to the end for one that stays.  *)
UnbrokenForEach ==
  \A c \in Client :
    /\ joined[c] + Len(queue[c]) <= Len(sent)
    /\ \A k \in DOMAIN queue[c] : queue[c][k] = sent[joined[c] + k]
    /\ c \in subscribers \ todo => joined[c] + Len(queue[c]) = Len(sent)

(* Every row is shown, unless the thread is gone or the row is older than  *)
(* the one with which polling began after the feed failed.                 *)
EveryRowShown ==
  \A r \in Row :
    row[r] = "committed"
      ~> \/ r \in ToSet(sent)
         \/ mode = "dead"
         \/ mode = "poll" /\ ts[r] < since
=============================================================================
