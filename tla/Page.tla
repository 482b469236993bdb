-------------------------------- MODULE Page --------------------------------
(***************************************************************************)
(* The page of one visitor (static/index.html): which region it shows at   *)
(* work, its note of the pause and its kill button, fed by three sources   *)
(* that nothing orders against each other - the events of the lease        *)
(* (LeaseFeed.tla), the answers of /api/status, which the page asks for    *)
(* every five seconds, and the answers of /api/kill.                       *)
(*                                                                         *)
(* /api/status is a read of the demo job and, in a transaction of its own, *)
(* one of what is told about it.  Its answer may come back after anything  *)
(* else has happened, the answer to a later question included.  What       *)
(* api_kill does is the subject of Arena.tla; here it may answer anything. *)
(* A region has one worker here: an owner is what the page shows.          *)
(***************************************************************************)
EXTENDS LeaseFeed

CONSTANTS
  NoJob,        \* get_demo_job_id returned None
  MaxRequests,  \* bound on the requests of the page under way
  MaxKills      \* bound on those for /api/kill among them

ASSUME NoJobAssumption == NoJob \notin Job
ASSUME OpenAssumption ==
  MaxRequests \in Nat /\ MaxKills \in Nat /\ MaxKills < MaxRequests

VARIABLES
  active,       \* activeRegion, Nobody for null
  resting,      \* the note of the pause is displayed
  enabled,      \* ~killBtn.disabled
  cooling,      \* cooldownTimer counts down
  statuses,     \* requests for /api/status: the job read, then the answer
  kills         \* number of requests for /api/kill

pageVars == <<active, resting, enabled, cooling, statuses, kills>>
vars == <<feedVars, pageVars>>

Reading == [job : Job \cup {NoJob}]
Answer == [says : Owner \cup {"resting"}]

TypeOK ==
  /\ FeedTypeOK
  /\ active \in Owner \cup {Nobody}
  /\ resting \in BOOLEAN /\ enabled \in BOOLEAN /\ cooling \in BOOLEAN
  /\ statuses \subseteq Reading \cup Answer
  /\ Cardinality(statuses) + kills <= MaxRequests
  /\ kills \in 0 .. MaxKills

Init ==
  /\ FeedInit
  /\ active = Nobody
  /\ resting = FALSE
  /\ enabled = FALSE
  /\ cooling = FALSE
  /\ statuses = {}
  /\ kills = 0

-----------------------------------------------------------------------------
(* What the handlers do to the page.                                       *)

(* A lease event or a status with a lease: whatever else goes on, the      *)
(* button is enabled - a cooldown that counts down included.               *)
SetActive(o) ==
  /\ active' = o
  /\ resting' = FALSE
  /\ enabled' = TRUE

ShowResting ==
  /\ active' = Nobody
  /\ resting' = TRUE
  /\ enabled' = FALSE

StartCooldown ==
  /\ enabled' = FALSE
  /\ cooling' = TRUE

-----------------------------------------------------------------------------
(***************************************************************************)
(* loadStatus.                                                             *)
(***************************************************************************)
(* The bound on the requests under way; two statuses may be.               *)
Room == Cardinality(statuses) + kills < MaxRequests

Open(s) == statuses' = statuses \cup {s}

(* Mutant of DemoJobId: "a stale id pointing at a finished job".           *)
DemoJobIdStale == "this"

(* The pointer's job, "but only while it's actually running".              *)
DemoJobId == IF phase = "running" THEN "this" ELSE NoJob

(* Mutant of LoadStatus: asked once, and left to the stream from then on.  *)
LoadStatusOnce ==
  /\ active = Nobody /\ ~resting
  /\ Room
  /\ Open([job |-> DemoJobId])
  /\ UNCHANGED <<feedVars, active, resting, enabled, cooling, kills>>

(* The request reaches the arena, which reads the demo job.                *)
LoadStatus ==
  /\ Room
  /\ Open([job |-> DemoJobId])
  /\ UNCHANGED <<feedVars, active, resting, enabled, cooling, kills>>

(* Mutant of Told: the answer for a job without a lease is taken for one   *)
(* with a lease.                                                           *)
ToldNull(j) ==
  IF j = NoJob
  THEN IF phase = "resting" THEN {[says |-> "resting"]} ELSE {}
  ELSE {[says |-> holder[j]]}

(* get_resting_status, or get_job_snapshot: the job that was read may be   *)
(* done by then, and another one running.  An answer without a pause or a  *)
(* lease leaves the page as it is; it is over when it is given.            *)
Told(j) ==
  IF j = NoJob
  THEN IF phase = "resting" THEN {[says |-> "resting"]} ELSE {}
  ELSE {[says |-> o] : o \in {holder[j]} \ {Nobody}}

ReadStatus(s) ==
  /\ s \in Reading
  /\ statuses' = (statuses \ {s}) \cup Told(s.job)
  /\ UNCHANGED <<feedVars, active, resting, enabled, cooling, kills>>

ShowStatus(s) ==
  /\ s \in Answer
  /\ statuses' = statuses \ {s}
  /\ IF s.says = "resting" THEN ShowResting ELSE SetActive(s.says)
  /\ UNCHANGED <<feedVars, cooling, kills>>

(* "status is best-effort": a failure is ignored.                          *)
LoseStatus(s) ==
  /\ Fault
  /\ statuses' = statuses \ {s}
  /\ UNCHANGED <<demoVars, rowVars, threadVars, connected, queue>>
  /\ UNCHANGED <<active, resting, enabled, cooling, kills>>

-----------------------------------------------------------------------------
(* The event "lease".                                                      *)
LeaseEvent ==
  /\ queue # <<>>
  /\ SetActive(Head(queue))
  /\ queue' = Tail(queue)
  /\ UNCHANGED <<demoVars, rowVars, threadVars, connected, faults>>
  /\ UNCHANGED <<cooling, statuses, kills>>

(***************************************************************************)
(* The kill button.                                                        *)
(***************************************************************************)
Click ==
  /\ enabled
  /\ Room /\ kills < MaxKills
  /\ enabled' = FALSE
  /\ kills' = kills + 1
  /\ UNCHANGED <<feedVars, active, resting, cooling, statuses>>

(* The answer is ok or "cooldown", a 409 after which the status is read    *)
(* again, or an error.                                                     *)
KillAnswered ==
  /\ kills > 0
  /\ kills' = kills - 1
  /\ \/ /\ StartCooldown
        /\ UNCHANGED statuses
     \/ /\ Open([job |-> DemoJobId])
        /\ UNCHANGED <<enabled, cooling>>
     \/ /\ enabled' = (active # Nobody)
        /\ UNCHANGED <<cooling, statuses>>
  /\ UNCHANGED <<feedVars, active, resting>>

(* Mutant of CooldownEnds: the button is enabled whatever the page shows.  *)
CooldownEndsAnyhow ==
  /\ cooling
  /\ cooling' = FALSE
  /\ enabled' = TRUE
  /\ UNCHANGED <<feedVars, active, resting, statuses, kills>>

CooldownEnds ==
  /\ cooling
  /\ cooling' = FALSE
  /\ enabled' = (active # Nobody)
  /\ UNCHANGED <<feedVars, active, resting, statuses, kills>>

(* With the arena its requests end: the page gets an error for each.       *)
ArenaRestart ==
  /\ Restart
  /\ statuses' = {}
  /\ kills' = 0
  /\ enabled' = IF kills > 0 THEN active # Nobody ELSE enabled
  /\ UNCHANGED <<active, resting, cooling>>

-----------------------------------------------------------------------------
(* A request that has read this job has the last one in hand once there    *)
(* is a new one; none is as old as the job before the last.                *)
NextJob ==
  /\ NewJob
  /\ [job |-> "last"] \notin statuses
  /\ statuses' = {IF s = [job |-> "this"] THEN [job |-> "last"] ELSE s : s \in statuses}
  /\ UNCHANGED <<active, resting, enabled, cooling, kills>>

Elsewhere ==
  /\ (\E o \in Owner : Claim(o)) \/ Renew \/ Finish \/ StartPause
       \/ Stream \/ (\E j \in Job : EmitAgain(j)) \/ FallBack \/ PollFails
       \/ Connect \/ Disconnect
  /\ UNCHANGED pageVars

Status == \E s \in statuses : ReadStatus(s) \/ ShowStatus(s)

Next ==
  \/ Elsewhere \/ NextJob
  \/ LoadStatus \/ Status \/ (\E s \in statuses : LoseStatus(s))
  \/ LeaseEvent
  \/ Click \/ KillAnswered \/ CooldownEnds
  \/ ArenaRestart

(* The holder renews, the feed thread and the interval timer run, requests *)
(* for the status are answered and events delivered.  Nothing is assumed   *)
(* of the kill requests and the cooldown timer: a page that never hears of *)
(* them again recovers by its status.                                      *)
Fairness ==
  /\ WF_vars(Renew /\ UNCHANGED pageVars)
  /\ WF_vars(Stream /\ UNCHANGED pageVars)
  /\ WF_vars(LeaseEvent)
  /\ WF_vars(LoadStatus)
  /\ WF_vars(\E s \in statuses : ReadStatus(s))
  /\ WF_vars(\E s \in statuses : ShowStatus(s))

Spec == Init /\ [][Next]_vars /\ Fairness

-----------------------------------------------------------------------------
(***************************************************************************)
(* Properties.                                                             *)
(***************************************************************************)

(* Whichever of its six handlers wrote last, an enabled button stands      *)
(* under a region at work, and never next to the note of the pause.        *)
ButtonMatchesPage ==
  /\ enabled => active # Nobody
  /\ resting => active = Nobody

(* A worker that keeps the demo job is what the page shows in the end,     *)
(* with a button that comes back after every click - though the stream may *)
(* be dead, or silent because the same worker has taken the next job, and  *)
(* old answers overtake new ones.                                          *)
ShowsTheHolder ==
  HolderStays => <>[](active = holder.this /\ ~resting) /\ []<>enabled

(* A pause that goes on is what the page shows in the end, with the button *)
(* off - though the standby has taken the lease of the finished job and    *)
(* the stream has told of it.                                              *)
ShowsTheRest ==
  <>[](phase = "resting") => <>[](resting /\ ~enabled)
=============================================================================
