# Ninelives: a verification development

Ninelives is an agent whose state lives in CockroachDB: worker processes in two
regions contend for a lease on a research job, the holder streams the text of one
step after another into the database, and when it is killed, by a button on a web
page, the other one goes on in the middle of the sentence. These modules state what
that promises, check it with TLC on small instances and prove the most important
parts with TLAPS for every instance.

## The system

| part | code | state it keeps | operations |
|---|---|---|---|
| rows of a job | `schema/schema.sql`, `worker.py` | `jobs.status`, `job_state`, `output_chunks`, `memory_events` | `create_job`, `read_state`, `next_chunk_seq`, `flush_chunk`, `finalize_step` |
| lease | `worker.py:59-105`, `:157-160` | row `lease`: owner, expiry, control address | `claim_or_renew_lease`, the renewal inside `flush_chunk` |
| worker process | `worker.py:192-284` | locals of `run_persistent_step`; a heartbeat thread | claim, step loop, flush, retry, finalize, heartbeat |
| demo pointer | `state.py`, `worker.py:287-315` | the one row of `demo_pointer` | `get_or_create_demo_job`, the reads of the arena |
| kill button | `arena.py:116-151`, `control.py` | `_last_kill_ts` and its lock, in memory | `api_kill`, the self-SIGKILL of a worker |
| arena reads | `arena.py:37-109`, `state.py:119-163` | subscriber queues | `api_status`, `monitor_stream` |
| monitor | `monitor.py` | last row seen, last owner seen | changefeed, polling fallback, lease dedupe |
| page | `static/index.html` | button, cooldown and rest timers, active region | clicks, timers, server-sent events |
| transaction wrapper | `db.py` | none | `run_txn` with its retries |
| research plan | `research.py` | none | `build_step_plan`, `step_type`, prompts |
| recall | `recall.py`, `embeddings.py` | none | vector search, `_lead_excerpt` |
| providers, scripts, deployment | `llm.py`, `scripts/`, `deploy/` | external | streams; set-up; one task per service |

Workers of different regions never talk to each other. Everything they know of
each other is in the rows, and every read of a row may be stale by the time it is
acted on. Within a worker process the heartbeat thread interleaves with the main
thread; both end with the process. The arena reads the same rows and reaches a
worker only through the control address the worker wrote into its lease row.

What is hard here: an evicted process cannot tell that it was evicted and its writes
are not fenced; a step is many transactions and a death may fall between any two;
a flush can commit without its acknowledgement; time decides who may write the
lease; `api_kill` is four calls with anything in between; two regions ask for the
next job at the same moment. `PROJECT.json` lists these hazards at their lines.

What makes each part correct:

- *job rows*: no step skipped, done means complete, chunks numbered without gaps,
  chunks that spell the text of the job;
- *lease and worker*: one process in a step, none evicted while alive and in time,
  the text of one unhurried author, completion;
- *demo pointer*: one running job, a pause that is honoured and told only when there
  is one, another job in the end;
- *kill button*: the holder and nobody else, never the last process, take-over in time;
- *monitor*: polling passes over no row and repeats none, every page gets an unbroken piece, every row is shown in the end;
- *lease signal and page*: whatever order events and answers come in, the page settles on
  the worker that has the lease, or on the pause, with the button to match;
- *transaction wrapper*: a function is applied once and at one moment, or not at all;
- *plan and memory*: each step is told what every earlier one wrote, as if nothing had ever died;
- *recall*: a clean excerpt, with the full text always in reach.

## Modules

| module | models |
|---|---|
| `Lease` | the lease row and the statements on it, by the clock of the database |
| `Mind` | the other rows of one job and the transactions on them |
| `Worker` | the processes: main thread, heartbeat thread, deaths, replacements, time. Extends `Lease` and `Mind` |
| `Job` | abstract: what a job promises its reader, with no process or lease |
| `WorkerJob` | `Worker` implements `Job`: the refinement mapping |
| `Demo` | the agreement on the demo job and the pauses |
| `Arena` | the kill button against workers that die, are replaced and take over, in discrete time. Extends `Lease` |
| `Monitor` | one live signal: changefeed, polling fallback, broadcast to the connected pages |
| `LeaseFeed` | the signal of the lease: a row updated in place, deduplicated by owner, and the connection of one page |
| `Page` | the page of one visitor: status requests, lease events, kill button, cooldown. Extends `LeaseFeed` |
| `Txn` | abstract: what `db.run_txn` promises its callers |
| `RunTxn` | the retry loop of `db.run_txn`; implements `Txn` |
| `Research` | the step plan, a function of the number of documents |
| `Ephemeral` | the mode without memory, as the specification of what steps are told. Extends `Research` |
| `Persistent` | the same steps done by processes that die and are evicted, with their memory in rows; implements `Ephemeral`. Extends `Research` |
| `Recall` | the question box and the excerpt, over the memory of `Persistent` |
| `WorkerProof`, `WorkerJobProof`, `DemoProof`, `ArenaProof`, `MonitorProof`, `PageProof`, `RunTxnProof`, `RecallProof` | theorems and proofs about the modules they extend |
| `MCWorker`, `MCArena`, `MCMonitor`, `MCRecall` | instances for TLC with timing, owners, texts and symmetry; the others run as they are |

Operators whose names extend that of the definition that follows them
(`RetryKeepsBuffer` before `Retry`, and so on) are mutants: what a plausible bug would
make of the definition. Nothing refers to them. Each property of a passing run is
paired in `PROJECT.json` with a mutant that it has to catch.

### Lease and Mind

`lease` is `NoLease` or a record of the owner and `left`, the time units until
`expires_at`. Every expiry is written and compared with `now()` of the database, so
there is one clock. But `now()` is the start of the transaction, and a step of the model is its commit: each
statement has an `age`, how long ago its transaction started, up to `MaxTxn`. It compares `left + age` with 0 and writes
`TTL - age`. So a renewal that took long is old when it is seen, a slow `flush_chunk` sets the expiry back to before
what a heartbeat wrote since, and a claim that began before the row expired is refused however late it commits.
`ClaimOrRenewLease` is the transaction of `claim_or_renew_lease` when it returns true, `RenewIfOwner` the third
statement of `flush_chunk`.

In `Mind` each transaction is one step: `run_txn` runs under SERIALIZABLE and starts
over on a serialization failure. Text is a sequence of numbers: a word is its
position in the text of its step, because the prompt asks the model to continue from
the last character. Text that is lost, repeated or mixed from two processes is then
a sequence other than 1, 2, 3. Regions, embeddings, goals and timestamps are left
out: no branch depends on them. `ChunksSpellText` compares the rows of `output_chunks` with what the
page should show of a step, `ShownText`: the rows are the text between the cuts of one sequence of cuts.

### Worker

`pc[w]` is the point between two transactions where the main thread of service `w`
is, `frame[w]` holds the locals of `run_persistent_step`, `silence[w]` counts the time since a claim or heartbeat
came back, `idle[w]` that since the main thread came where it is: neither thread's next transaction is
older than that. `late[w]` has the ages of last claims of heartbeat threads that were told to stop: such a
thread outlives its step by one claim when `join(timeout=1)` gives up, and the claim may commit
after those of its successor.

| code | action |
|---|---|
| `claim_or_renew_lease` returns true | `Claim`; a refusal changes nothing but sleeps |
| `read_state`, `if step > total_steps` | `ReadState`, `FindDone` |
| `next_chunk_seq` | `CountChunks` |
| a delta of the stream; the timed and the last flush | `Delta`; `FlushChunk` |
| a flush that hits the primary key, fails, or commits unacknowledged | `FlushRefused`, `FlushFails`, `FlushUnacknowledged` |
| the stream ends, raises | `EndStream`, `StreamError` |
| the `except` branch: flush the rest, then retry or raise | `Retry`, `GiveUp` |
| `finalize_step` and the return to `run_persistent` | `FinalizeStep` |
| `_lease_heartbeat`, which ignores what it is answered; its last claim after `stop_event` | `Heartbeat`; `LateClaim` |
| SIGKILL, or an exception no one catches | `Die` |
| a replaced task | `Start` |

A flush may happen after any delta: when `CHUNK_FLUSH_SECONDS`, one second, is over is the clock's choice.
The deltas of a stream continue the text the process has, which is what the
prompt asks for; what a model does with the request is not the program's.

Two assumptions about the environment are hypotheses, not built in. `Timely` says that the
longest a live process goes without a heartbeat that came back and the longest transaction that writes the lease fit into the TTL
*together*; that heartbeats come back within the TTL is not enough.
`DistinctOwners` says that no two services can have the same `region:pid`. The code
guarantees neither: with a heartbeat every 0.5 s that itself takes the time x of a transaction, `Timely` is 0.5 s + 2x <= 2 s,
met up to x = 0.75 s, and a single statement may take 3 s; a rolling
deployment runs two tasks of one region. So the properties come in two groups.

### Demo

`jobs[j]` is the row of job `j`, `pointer` the row of `demo_pointer` with the time left
until `resting_until`. One call of `get_or_create_demo_job` is one transaction:
`Join`, `StartPause`, `Create`, or, during a pause, no change. `Finish`, `Leave` and `Crash` end
`run_persistent`: as the one that finalized the last step, as the standby that finds
no step left, or on a job that `Reset` dropped. `idle` is a history variable.
Job names are reused once nothing refers to them; the code draws a fresh uuid.

### Arena

`api_kill` is `Gate`, `ReadJob`, `ReadLease`, then `Kill` or `Fail`, one action per call.
Time is discrete and every worker does what its state demands within a limit: a standby
polls within `Poll`, a holder renews within `MaxSilence`, a dead task is back within `Replacement`. Behaviours are `punctual` or not,
from the start: in those that are not, the limit on renewals is lifted, a live process can be evicted, goes on working and
renewing next to its successor (`Renew`, `Flush`, with ages as in `Worker`) until a claim between two steps is refused (`StandDown`), and may be
left on a job that another one has followed (`astray`, `Leave`). `KillsTheHolder` speaks of the punctual behaviours; types, the last process and the
failover budget are claimed for both. `Longest`, that budget, is the TTL, one transaction and one poll: `config.py:40-41`
gives "TTL + poll" as the worst case of a standby's claim and takes transactions to be instantaneous, but a claim that began before the
expiry is refused when it commits, and only the next poll succeeds. An address dies with its process:
in the row (`stale`) and in every request that has read it (`HangUp`).
`ArenaRestart` is a crash of the arena or a rolling deployment, in which the old arena
still finishes its requests. `waiting` is a history variable. A worker started by hand, whose
`control_addr` is NULL, is treated by the code like no lease and left out.

### Monitor

`row` and `ts` are the table: a row gets its order column when its transaction starts and is
seen when it commits. A CockroachDB changefeed emits a row at least once and `stream_changefeed` yields every message, so `Emit` may
emit a row it has emitted before; each repetition counts as a fault, to keep them finite. `Emit` and `FallBack` are `stream_changefeed` and the `except` of `stream_table`,
`Poll` and `PollFails` one round of `poll_table`, `Broadcast` and `Put` the loop of `arena._broadcast` (the copy of
the subscribers under the lock, then one `put` after the other), `Subscribe` and `Disconnect` the
two ends of `monitor_stream`. How far a page has read its queue makes no difference and is left out.
`since`, `fed` and `joined` are history variables: the row with which polling began, how many rows the feed has emitted, and
how many had been broadcast when a page subscribed.

### LeaseFeed and Page

| code | action |
|---|---|
| `claim_or_renew_lease` by another worker, by the holder | `Claim`, `Renew` |
| the end of a job, its pause, the next job | `Finish`, `StartPause`, `NewJob` (in `Page`: `NextJob`) |
| `stream_changefeed`, `poll_table` on the lease, then the dedupe of `stream_lease` | `Emit`, `Poll`, both through `Forward`; `EmitAgain` when the feed repeats a version |
| an error of the feed, of a poll; a new arena | `FallBack`, `PollFails`, `Restart` |
| `monitor_stream`, `onerror` and the reconnection | `Connect`, `Disconnect` |
| `loadStatus`: the request reaches `get_demo_job_id`; the second read of `api_status`; the answer | `LoadStatus`, `ReadStatus`, `ShowStatus`, `LoseStatus` |
| the event `lease` | `LeaseEvent` |
| the click, each kind of answer, the end of the cooldown | `Click`, `KillAnswered`, `CooldownEnds` |

A poll asks for rows beyond the largest `expires_at` seen, and every renewal makes the row
one of those; the feed emits each version of it. Either way `stream_lease` drops what has the owner it saw
last, whichever job the row is of. Two jobs are enough to tell apart, "this" and "last", because a
pause is longer than anything that is under way of the job before.

`Page` holds what six handlers write without asking each other: the active region, the note of the pause,
`killBtn.disabled`, the cooldown timer. An owner stands for its region. What `api_kill`
does is in `Arena`; here it may answer anything, at any time, or never.

### Txn and RunTxn

`Txn` is what every other module takes for granted: a transaction is one step. `RunTxn` has the loop with its
connection, function, commit, roll-back and sleep for any number of
concurrent calls. The database is external and is what its contract says: a transaction whose reads are
outdated by a commit is refused with 40001, without effect. So that an effect applied twice or
on an old reading shows, the rows are a log to which each call adds itself after reading all of it.
`Lose` is every other error, before or after the commit, and the death of the process: the wrapper must not
retry it, and does not. The abstract state is a function of the detailed one:
a call is "applied" from its commit on, and its reading counts from then on. A commit that the database
performs only after the client has seen the error is not modelled.

### Research, Ephemeral, Persistent and Recall

`StepPlan` is `build_step_plan` for any number of documents; `PlanLength` is the literal 20. A corpus that does not fit
gives a plan with two entries of one index, of which `step_type` takes the first, and steps
after the final one.

`Ephemeral` has the two locals of `run_ephemeral`. `Persistent` has the rows that `read_state` takes them from:
`Begin` reads and builds the prompt, `Finalize` is `finalize_step` as in `Mind` (relative to the
step of the process, not of the row), `Raise` is the `IndexError` of `step_type`. How a step is written,
chunk by chunk, is in `Worker`. Evictions are faults here, and `exclusive` selects the behaviours without.
A job of zero steps is excluded: it would never be marked done.
`InOrder` is `ORDER BY step` over the rows: `Rows` gives each text of a step a row, `StepAt` is the step of the
i-th, the one up to which there are at least i rows.

`Recall` lets visitors ask while the job is worked on. `LeadExcerpt` is `_lead_excerpt` on a
text as a sequence of sentences with their numbers of words: a recursive function for the loop, `Enough` for its `break`. `Ask`, `Answered`, `AskFails` and `Toggle` are the handlers of the form and of the toggle.

## Runs

| run | asks | bounds | result |
|---|---|---|---|
| `worker_timely` | Under `Timely` and `DistinctOwners`: one process in a step, no eviction, chunks spell the text, a process's chunk number fits its text, `Worker` implements `Job` | 2 workers, 2 pids each, TTL 3, transactions up to 2, silence 1, 2 steps of up to 3 words, 1 retry, 3 faults | holds |
| `worker_late` | With neither: no step skipped, done means complete, no gaps, types; and the job is finished whoever dies | 2 workers that share 2 owner strings, TTL 0, instant transactions and silence 1, 2 steps of 1 word, 1 retry, 1 fault, fairness | holds |
| `worker_eviction` | "never falsely evicted", with heartbeats that come back in half the TTL but transactions as long as it | TTL 2, transactions up to 2, silence 1, no fault | violated |
| `demo` | One running job; pause told and honoured; always another job; types | 2 workers, 4 job names, pause 2 to 3, 2 faults, fairness | holds |
| `demo_resting` | Is a pause told whenever no job runs? | 2 workers, no fault | violated |
| `arena` | Is there always a process left, does the standby take over in time, and does the button only ever hit the holder while a job runs? Types | 2 workers, 2 requests, TTL 3, transactions up to 1, silence 2, poll 1, request 3, replacement 7, cooldown 11, pause 6, 2 crashes or arena restarts | holds |
| `arena_resting` | Is a resting worker spared? | 2 workers, no fault | violated |
| `monitor` | Does the signal show each row, does polling repeat or pass over none, and does each page get an unbroken piece? Types | 3 rows, 2 pages, 1 writer at a time, 2 failures or repetitions, fairness | holds |
| `monitor_overlap` | Does polling pass over no row with two writers? | 3 rows, 1 page, 2 writers, no failure | violated |
| `page` | Does the page settle on the holder, or on the pause, with the button to match? Does the signal tell of the owner in the end? Types | 2 owners, 1 version pending per row, 2 events queued, 2 requests under way, of which 1 may be a kill, 1 failure or repetition, fairness | holds |
| `run_txn` | Is `run_txn` one atomic step, and does it give up only after it was overtaken each time? Types | 4 calls, 3 attempts, 1 failure, fairness | holds |
| `recall` | Is the memory of a job as good as the locals of an immortal process? Does a job end, and only by a final synthesis that is given every document? Is the excerpt clean and the full text in reach? Types | plan of 5 steps; 0, 2, 3, 4 or 6 documents; 2, 5 or 6 steps; 2 workers, 2 deaths or evictions, 5 texts, fairness | holds |

Why the bounds are enough. Two workers are what is deployed, and every hazard is a
race of two; the theorems cover any number. Two steps show a hand-over inside a step,
between steps and at the end, and a late `finalize_step` that sets the job back. Three words allow a chunk that was written, one in the buffer and one to
come. One retry has a first and a last attempt. Three faults allow an
unacknowledged flush, the death of its process and of the successor. In `worker_timely` silence and transactions add up to exactly
the TTL, with a flush that commits two units after it began, next to a heartbeat each unit. TTL 0 and
silence 1 make a process late at the first tick. Four names for two workers leave a free
one when each works on a different job and the pointer names a third. In `arena` the
cooldown is the least that is longer than request and replacement together; with a
cooldown one less TLC finds a behaviour in which both processes are dead. The
deployed numbers are 240 s against about 170 s and at most a few seconds. Two requests
are open at one time only after an arena restart, and the pause there is twice a request; a third would need a second
restart right after the first and adds nothing one of the two does not do. Three rows make
one the feed has shown or has not, the one polling begins with and one more; two
failures are the feed's and then the poller's, or a repetition and then the feed's. Nothing tells two rows apart but when they begin, so `MCMonitor` keeps to the behaviours in
which they begin in the order of their names (`CONSTRAINT BeginInOrder`; the writers are under no fairness, so this cuts nothing off that `EveryRowShown` could need). `SomeoneIsAlive` is about behaviours without a fault
(the code cannot prevent that a crash and a kill coincide); `KillsTheHolder` holds with them.
In `page` one failure makes the feed fall back, die, start anew or repeat itself, or a request or connection get lost; the poller alone can also
begin. Two requests may be under way: two answers of `/api/status`, the older of which comes last, or one and the answer to a kill.
In `run_txn` a call may be overtaken by three others in three attempts, and one failure may come on top.
`PlanLength` 5 stands for the literal 20 of `build_step_plan`; what matters is how documents and steps compare with it: it leaves room for syntheses with 2 documents, none with 3, the
corpus of 4 replaces the final synthesis, that of 6 also goes beyond; 2, 5 and 6 steps are fewer than, all of and more than the plan.
The five texts end their excerpt by words in the first sentence and in the second, by the number of sentences, at the end
of the text, and before anything.

Symmetry over workers, pids and requests is used for safety only, in `MCWorker` and `MCArena`; no constant
expression tells the members apart. Only `run_txn` switches the deadlock check off: there all calls come to an end.

### What the violated runs show

- `worker_eviction`: `config.py:42-43` and `deployments.md:38` say that a live process is
  never falsely evicted. What a renewal writes is `now() + ttl` with the `now()` of its transaction's start, `db.STATEMENT_TIMEOUT_MS`
  is 3000 and the TTL 2 s. In the run a claim takes the TTL: its row has run out when it commits, and the other worker
  claims the job from a process each of whose heartbeats comes back in half the TTL. The heartbeat would neither see that it came
  late nor what it was answered. `worker_late` says what this can and cannot damage.
- `demo_resting`: `state.py:100-101` says there is a pause to tell of whenever a job was created
  and none runs. The pause starts with the first worker that asks again, so between
  `finalize_step` and that transaction, and after a reset, there is neither.
- `arena_resting`: `worker.py:294-296` says that the button does not reach a resting worker.
  It reads the job before the lease and posts after both; a job that ends in between
  leaves a worker that has just begun to rest to be killed.
- `monitor_overlap`: `monitor.py:12-14` polls "by a monotonic column". Its default is `now()`, which
  is the start of the transaction, and rows become visible in the order of commits. One writer
  at a time is enough for the promise (`monitor`), two are not.

Two statements of the documentation were met that no run refutes formally. `monitor.py:115-116` takes a
change of owner for a kill; after every job the standby claims the lease the finished worker left behind, and only then sees that the job
is done (`Claim` in `LeaseFeed` with `leaving`). The page shows that region at work until its next status,
which `ShowsTheRest` shows to come. And the page counts down 30 s while the server's cooldown is 240 s
(`deployments.md:126` has it as an open item); `setActive` enables the button even within the 30.

### Fairness

`worker_late` assumes weak fairness of each main thread, of each heartbeat thread, of
the replacement of tasks, and of time. The threads are the operating
system's; ECS services with a desired count of 1 replace tasks (`deploy/bootstrap.sh`);
nothing a worker does blocks another for good, since a lease expires. A stream that
hangs without an error is excluded by the fairness of the main thread: the code sets
no timeout of its own there. Deaths and other faults are never fair and are bounded by `MaxFaults`;
with deaths at every turn no job would be finished. `demo` assumes the same of
workers that ask and work, `monitor` that the feed or the polls come back and that the broadcasting thread is scheduled.

`page` assumes that the holder renews, that the feed thread and the interval timer run, that requests for the status
go on and are answered, and that events are delivered. It assumes nothing of clicks, of
the answers to a kill or of the cooldown timer: the status brings the button back without them.
Its properties are conditional, on a worker that keeps the lease or a pause that goes on, since a page can only settle on
what settles. `run_txn` assumes that the thread of each call runs, `recall` that workers do and that dead ones are replaced;
neither assumes that failures, deaths or evictions occur.

## Proofs

Every invariant and action property of the passing runs, and the safety of every refinement, is proved
for all values of the constants; what the prover cannot reach is liveness. The named assumptions of the modules fix the types of the
constants; that of `Arena` also says that the pause between jobs is longer than a request (60 s and more, against two reads with their retries and a POST that is given 2 s, `arena.py:147`). Besides them a theorem
uses these hypotheses, each written in it:

| hypothesis | of | why, and where it fails |
|---|---|---|
| `Timely`: `MaxSilence + MaxTxn <= TTL` | the theorems that nobody is evicted or that rest on it | 0.5 s between heartbeats, twice a transaction, a TTL of 2 s: transactions of up to 0.75 s; a statement may take 3 s (`worker_eviction`) |
| `RenewsInTime`: the same of `Arena`, and `punctual` behaviours | `OnlyTheHolderIsKilled` | the same; a live process that was evicted after its address was read is killed in the place of its successor |
| `DistinctOwners`: no two services share an owner string | the same | one task per region; a rolling deployment has two |
| `CooldownCoversReplacement`: `Cooldown > Replacement + MaxRequest` | `SomeoneStaysAlive` | 240 s, a replacement measured at up to 169 s (`config.py:62-81`), a request of seconds |
| `SpareWorker`: there are two workers | `SomeoneStaysAlive` | two regions are deployed; with one, one kill is enough |
| `OneAtATime`: one open transaction on a table | `PollsPassOverNothing` | one holder writes; false with an evicted writer (`monitor_overlap`) |

The instances `worker_timely`, `arena` and `monitor` satisfy them, and TLC checks there the properties the theorems state.

`WorkerProof` proves for any set of workers and owner strings and every value of the
bounds:

- `TypeCorrect`: `TypeInv` adds to `TypeOK` that a process past `read_state` has a step of the
  job in its frame, without which the rows would be indexed outside their domain.
- `StepsRecorded`, `DoneIsComplete`: no assumption on timing or owners. `NoStepSkipped` is not
  inductive: an evicted process may finalize with a step it read long ago. `RecordedInv` adds
  that everything below the step *in the frame of any process* has been recorded, and all of it
  once the job is done. A late writer sets the step back, never over a gap.
- `ChunksAreGapFree`: no assumption either. `SeqInv` adds that the next number in a frame is at
  most the count of the chunks of its step. It may be less, when another
  process has written meanwhile, and then the primary key refuses the row.
- `StepsAreExclusive`, `NobodyIsEvicted`: under `Timely` and `DistinctOwners`. `HeldInv` says that a
  process inside a step is the owner in the lease and `left >= TTL - MaxTxn - silence`: whatever wrote the row last, a flush that began before the last
  heartbeat included, it began no longer than `MaxTxn` before it committed. With `Timely` that is not negative, so the row has not expired and nobody else's claim succeeds.

`WorkerJobProof` proves, under `Timely` and `DistinctOwners`:

- `WorkersKeepTheJob`: every step of `Worker` is a step of `Job` or a stutter. `JobInv` says that what
  `partial_output` has is an unbroken text, and that the process inside the step (there is one, `HeldInv`) has in its locals that text with its
  buffer appended. The two differ after a flush without an acknowledgement only; then the number of the
  chunk is taken, the next flush is refused, and the retry reads the row again. `Job` says nothing of when anything happens,
  so its safety is all of it.
- `ChunksSpellTheText`: each flush adds one cut to those of the text so far, and a retry moves none.
- `NumbersFitTexts`: the number that `next_chunk_seq` counted goes with the text `read_state` returned one transaction earlier. The process
  is the only one in the step, so no chunk falls between the two; from then on number and text change together.

`DemoProof` proves type correctness, `OneRunningJob`, `NoPauseWhileRunning` and `PauseHonoured` for any
numbers of workers, jobs, faults and lengths of the pause. The
three need one another. `PointerInv` adds that after a finished job `idle + resting >= MinPause`:
this holds when the pause starts, a second that passes moves one unit from one to the other, and it holds when a
job ends because no old pause is left then, which is `NoPauseWhileRunning`, and because the
job that ends is the one the pointer names, which is `OneRunningJob`.

`ArenaProof` proves for any numbers of workers and requests and all lengths of time:

- `TypeCorrect`: the row counts down within its bounds, no request is older than `MaxRequest`, no timer runs past its limit.
- `OnlyTheHolderIsKilled`: under `RenewsInTime`, of punctual behaviours, with faults and without a hypothesis on the cooldown. `HolderInv`: whoever works owns a lease with at least the TTL less a transaction and the time since its
  renewal, so it cannot be claimed away from a live process; `TargetInv`: an address in the hands of a request is that of the
  process at work, if the job runs, because an address dies with its process, and a request that was open before the pause is at least as old as the pause.
- `SomeoneStaysAlive`: `OneKillAtATime` relates the ages. Without other faults an open request is as old as the cooldown it
  started, hence alone; the process that was killed is away for no longer than cooldown and request have been
  running; so when the next request may pass, nobody is away.
- `FailoverInBudget`: no hypothesis. `WaitInv` splits the wait in two. Until the lease has expired for the oldest transaction there can be, it is at most the time the lease has run
  down; after that, the wait and the poll still to come fit the budget. Nobody renews the row meanwhile, because nobody works.

`MonitorProof` proves for any finite table, any number of pages, writers and failures:

- `TypeCorrect`; `NoRowTwice`: by `SignalInv` what was shown, by the feed however often or by polls, is committed and not beyond `last_val` once there is one, so a poll, which asks for what is, repeats nothing but,
  when it is the first one, the newest row.
- `PollsPassOverNothing`: under `OneAtATime`. `TurnInv`: the open transaction is the newest of all, so that what commits after a poll is beyond its `last_val`.
- `NoGapForAnyone`: no hypothesis. `PieceInv`: a queue is the piece of the signal from where its page subscribed (`joined`) that ends where the signal ends or, for a page the loop of
  `_broadcast` has yet to come to, one event before. A page that subscribes or leaves during the loop starts or stops a piece, and breaks none.

`PageProof` proves for any numbers of owners, of requests under way and of events:

- `TypeCorrect`: `FeedInv` adds that a row a poll finds has an owner, so that no event is one of nobody.
- `ButtonIsRight`: from the types of events and answers. Each handler alone keeps it, and that is the point: no
  order of the six matters.

`RunTxnProof` proves for any set of calls, any number of attempts and of failures:

- `TypeCorrect`: `TypeInv` adds that a call has an attempt left whenever it is before its commit.
- `GivesUpOnlyOvertaken`: `OvertakenInv` counts. A call is refused for what was appended to the log since it read it, or for
  a failure, so its attempts never exceed the length of the log it has seen plus the failures.
- `RunTxnIsAtomic`: every step of the loop is a step of `Txn` or a stutter. `Absent` is needed: a call that has not committed is not in the log, so
  what it has read so far is not yet its result. The safety part only; that calls end is for TLC (`Atomic`).

`RecallProof` proves for any corpora, totals and lengths of the plan, any number of processes and of faults:

- `PromptHasPast`, `NothingUnread`, `RowsActLikeLocals`: from `WorkInv`; for `NothingUnread` with the place of every document in a plan that fits, so that
  the step that ends the job is the final synthesis and its prompt, which has every earlier text, has one of each document. With evictions, every step before that of the row, *and before that
  of any process in a step*, has left a text (`PastWritten`); a late `finalize_step` sets the row back, but only to a
  step whose past is written. Without evictions one process at most is in a step, and every earlier step has left exactly one text (`WrittenOnce`):
  the rows in their order are then the local list of `run_ephemeral`, and `Finalize` appends to both. The lemmas on
  `StepPlan` (`PlanShape`: where the reads, the syntheses and the final one stand, also in a plan that overflows) and on `InOrder` (sorted, with every row, no other) come first.
- `TypeCorrect`: its claim is the bound of `memory`, that a step is written once, and once more at most for each death or eviction.
  `CountInv` counts the texts there are, the processes in this or an earlier step (the row may follow them there), and the turn of the next one.
- `CleanExcerpt`: `ExcerptEnds` shows that the recursive function of `_lead_excerpt` has a solution and
  that it stops at the first place that is enough, by the least number that is a counterexample.
  What a number of words is plays no part.
- `FullTextInReach`: inductive by itself.

Two definitions were changed so that they can be reasoned about, each nearer to the code than before: findings are
rows in order instead of a fold, and the loop of the excerpt is a recursive function.

Only model-checked: liveness (`Completes`, `AlwaysAnotherJob`, `EveryRowShown`, `TellsTheOwner`, `ShowsTheHolder`, `ShowsTheRest`, `EndsWithinPlan`, and
that calls end in `Atomic`), which needs fairness and ENABLED and which the prover does not reach. That `_lead_excerpt` counts words by adding
them up (`Words`, a fold) is not proved of `FoldLeft`. The findings are counterexamples of TLC.

## Not modelled

Providers are external: a stream yields text, ends
or raises. The set-up, seeding and spike scripts are straight-line I/O. Prompt
wording, embeddings and vector search are data. Wrong paths and secrets of the control
server change no state. Of the page, the panes that append text and memory events, the step display, the countdown of
the pause and the provenance table are left out: they only render what arrives. A reset while a visitor watches, and
the 0 of `TOTAL_STEPS`, are not in `Page` and `Persistent`.

## Plan

Done: `Lease`, `Mind`, `Worker`, `Job`, `WorkerJob`, `WorkerProof`, `WorkerJobProof`; `Demo`, `DemoProof`; `Arena`, `ArenaProof`; `Monitor`, `LeaseFeed`, `Page`,
`MonitorProof`, `PageProof`; `Txn`, `RunTxn`, `RunTxnProof`; `Research`, `Ephemeral`, `Persistent`, `Recall`, `RecallProof`.

Left, in order:

1. The safety that the liveness properties rest on, as theorems: that the feed tells of the owner once nothing is pending (`TellsTheOwner`), and what a status answer says of
   the phase it was read in (`ShowsTheRest`).
2. `System`: `Demo` over jobs that are worked on as in `Worker`, so that `Finish` is earned.
