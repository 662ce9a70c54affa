----------------------------- MODULE Reputation ------------------------------
(***************************************************************************)
(* coordinator/reputation.py: what Redis holds about the quality of nodes, *)
(* written by request handlers that record the outcome of a task           *)
(* (server.py, _record_outcome), by clients that rate a task (rate_task)   *)
(* and by the deletion of accounts (forget_node).                          *)
(*                                                                         *)
(* Each Redis command, or pipeline, is one action; those of different      *)
(* coroutines interleave.  The score holds floating point and the clock:   *)
(* of it only the bound that the completion rate gives is kept.  A rating  *)
(* is the task it is about and the account it came from; its stars, and    *)
(* the daily count of completed tasks, are left out.                       *)
(***************************************************************************)
EXTENDS Integers, Sequences, FiniteSets

CONSTANTS
  NodeIds,
  Tasks,
  Accounts,
  RequesterOf,    \* the account that requested each task
  OutcomeLists,   \* the lists of outcomes requests may end with, one per part
  Raters,         \* calls of POST /api/v1/rate
  NoNode,
  MaxRatings,     \* ratings that ltrim keeps: 100
  SuspendAfter,   \* tasks without which a node is not suspended: 10
  RedisMayFail    \* whether a Redis command may raise

Outcome == [node: NodeIds, success: BOOLEAN, elapsed: Nat]

ASSUME ReputationAssumption ==
  /\ NoNode \notin NodeIds
  /\ RequesterOf \in [Tasks -> Accounts]
  /\ OutcomeLists \subseteq Seq(Outcome) \ {<<>>}
  /\ IsFiniteSet(Raters)
  /\ MaxRatings \in Nat /\ SuspendAfter \in Nat
  /\ RedisMayFail \in BOOLEAN

VARIABLES
  stats,        \* gn:rep:stats:<node>, all zero when the key does not exist
  ratings,      \* gn:rep:ratings:<node>, the newest first
  suspended,    \* nodes with gn:rep:suspended:<node>
  remembered,   \* gn:rep:task:<task>: the nodes that served it, {} for no key
  rated,        \* tasks with gn:rep:rated:<task>
  forgotten,    \* nodes whose account was deleted
  recorder,     \* _record_outcome of each task: how far it is
  outcomes,     \* its argument
  at,           \* the outcome its loop is at
  read,         \* what it last read of the node's counters
  rater,        \* each rate_task: how far it is
  about,        \* its arguments, the task and the account
  unrated,      \* the nodes its loop has still to visit
  node,         \* the node it is at
  overdue       \* a history variable: tasks whose rated key expired before a
                \* call that had read their record claimed them

keyVars == <<stats, ratings, suspended, remembered, rated, forgotten>>
recorderVars == <<recorder, outcomes, at, read>>
raterVars == <<rater, about, unrated, node>>
vars == <<keyVars, recorderVars, raterVars, overdue>>

Stats == [total: Nat, successful: Nat, failed: Nat, responseTime: Nat, average: Nat]

NoStats ==
  [total |-> 0, successful |-> 0, failed |-> 0, responseTime |-> 0, average |-> 0]

Rating == [task: Tasks, by: Accounts]

RecorderSteps ==
  {"idle", "counting", "reading", "writing", "judging", "scoring", "suspending",
   "remembering", "done", "raised"}

RaterSteps ==
  {"idle", "claiming", "rating", "trimming", "rated", "refused", "raised"}

TypeOK ==
  /\ stats \in [NodeIds -> Stats]
  /\ ratings \in [NodeIds -> Seq(Rating)]
  /\ suspended \subseteq NodeIds
  /\ remembered \in [Tasks -> SUBSET NodeIds]
  /\ rated \subseteq Tasks
  /\ forgotten \subseteq NodeIds
  /\ recorder \in [Tasks -> RecorderSteps]
  /\ outcomes \in [Tasks -> OutcomeLists \cup {<<>>}]
  /\ at \in [Tasks -> Nat]
  /\ \A t \in Tasks : at[t] <= Len(outcomes[t])
  /\ read \in [Tasks -> Stats]
  /\ rater \in [Raters -> RaterSteps]
  /\ about \in [Raters -> Rating \cup {<<>>}]
  /\ unrated \in [Raters -> SUBSET NodeIds]
  /\ node \in [Raters -> NodeIds \cup {NoNode}]
  /\ overdue \subseteq Tasks

Init ==
  /\ stats = [n \in NodeIds |-> NoStats]
  /\ ratings = [n \in NodeIds |-> <<>>]
  /\ suspended = {}
  /\ remembered = [t \in Tasks |-> {}]
  /\ rated = {}
  /\ forgotten = {}
  /\ recorder = [t \in Tasks |-> "idle"]
  /\ outcomes = [t \in Tasks |-> <<>>]
  /\ at = [t \in Tasks |-> 0]
  /\ read = [t \in Tasks |-> NoStats]
  /\ rater = [r \in Raters |-> "idle"]
  /\ about = [r \in Raters |-> <<>>]
  /\ unrated = [r \in Raters |-> {}]
  /\ node = [r \in Raters |-> NoNode]
  /\ overdue = {}

(***************************************************************************)
(* _record_outcome: record_task_result and check_and_suspend for each      *)
(* outcome, then remember_task.                                            *)
(***************************************************************************)
Current(t) == outcomes[t][at[t]]

Served(t) == {outcomes[t][i].node : i \in DOMAIN outcomes[t]}

RecorderStep(t, from, to) ==
  /\ recorder[t] = from
  /\ recorder' = [recorder EXCEPT ![t] = to]

\* The next outcome of the loop, or the end of the loop.
GoOn(t, from) ==
  LET more == at[t] < Len(outcomes[t]) IN
  /\ RecorderStep(t, from, IF more THEN "counting" ELSE "remembering")
  /\ at' = [at EXCEPT ![t] = IF more THEN @ + 1 ELSE @]

\* The task has ended, on nodes whose accounts exist.
TaskEnds(t, list) ==
  /\ RecorderStep(t, "idle", "counting")
  /\ \A i \in DOMAIN list : list[i].node \notin forgotten
  /\ outcomes' = [outcomes EXCEPT ![t] = list]
  /\ at' = [at EXCEPT ![t] = 1]
  /\ UNCHANGED <<keyVars, read, raterVars, overdue>>

Add(s, outcome) ==
  [total        |-> s.total + 1,
   successful   |-> s.successful + (IF outcome.success THEN 1 ELSE 0),
   failed       |-> s.failed + (IF outcome.success THEN 0 ELSE 1),
   responseTime |-> s.responseTime + outcome.elapsed,
   average      |-> s.average]

\* The pipeline of increments, which Redis runs as one transaction.
Count(t) ==
  /\ RecorderStep(t, "counting", "reading")
  /\ stats' = [stats EXCEPT ![Current(t).node] = Add(@, Current(t))]
  /\ UNCHANGED <<ratings, suspended, remembered, rated, forgotten, outcomes, at, read,
                 raterVars, overdue>>

ReadTotals(t) ==
  LET s == stats[Current(t).node] IN
  /\ RecorderStep(t, "reading", IF s.total > 0 THEN "writing" ELSE "judging")
  /\ read' = [read EXCEPT ![t] = s]
  /\ UNCHANGED <<keyVars, outcomes, at, raterVars, overdue>>

WriteAverage(t) ==
  /\ RecorderStep(t, "writing", "judging")
  /\ stats' = [stats EXCEPT ![Current(t).node].average =
                 read[t].responseTime \div read[t].total]
  /\ read' = [read EXCEPT ![t] = NoStats]
  /\ UNCHANGED <<ratings, suspended, remembered, rated, forgotten, outcomes, at,
                 raterVars, overdue>>

\* get_stats reads the counters, and then get_score reads them again.
Judge(t) ==
  /\ RecorderStep(t, "judging", "scoring")
  /\ read' = [read EXCEPT ![t] = stats[Current(t).node]]
  /\ UNCHANGED <<keyVars, outcomes, at, raterVars, overdue>>

\* The score of get_score, times the number of tasks: 40 points for the completion
\* rate, and up to 20 each for speed, recency and ratings.  A node without tasks
\* has 50.
Score(s, speed, recency, rating) ==
  IF s.total = 0 THEN 50
  ELSE 40 * s.successful + (speed + recency + rating) * s.total

\* Whether the score may be below 35.  Speed and recency are left open; so are the
\* ratings, which give 10 points where there are none, and 4 where all are the worst.
MayScoreLow(s) ==
  \E speed, recency \in {0, 20}, rating \in {4, 10, 20} :
    Score(s, speed, recency, rating) < 35 * s.total

\* A mutant: the number of tasks is not looked at.
ScoreLowEarly(t) ==
  /\ RecorderStep(t, "scoring", "suspending")
  /\ MayScoreLow(stats[Current(t).node])
  /\ read' = [read EXCEPT ![t] = NoStats]
  /\ UNCHANGED <<keyVars, outcomes, at, raterVars, overdue>>

ScoreLow(t) ==
  /\ RecorderStep(t, "scoring", "suspending")
  /\ read[t].total > SuspendAfter
  /\ MayScoreLow(stats[Current(t).node])
  /\ read' = [read EXCEPT ![t] = NoStats]
  /\ UNCHANGED <<keyVars, outcomes, at, raterVars, overdue>>

ScoreWell(t) ==
  /\ GoOn(t, "scoring")
  /\ read' = [read EXCEPT ![t] = NoStats]
  /\ UNCHANGED <<keyVars, outcomes, raterVars, overdue>>

Suspend(t) ==
  /\ GoOn(t, "suspending")
  /\ suspended' = suspended \cup {Current(t).node}
  /\ UNCHANGED <<stats, ratings, remembered, rated, forgotten, outcomes, read,
                 raterVars, overdue>>

Remember(t) ==
  /\ RecorderStep(t, "remembering", "done")
  /\ remembered' = [remembered EXCEPT ![t] = Served(t)]
  /\ UNCHANGED <<stats, ratings, suspended, rated, forgotten, outcomes, at, read,
                 raterVars, overdue>>

\* A mutant: the outcome is recorded again from its start.
RecordingRetries(t) ==
  /\ RedisMayFail
  /\ recorder[t] \notin {"idle", "done", "raised", "remembering", "counting"}
  /\ recorder' = [recorder EXCEPT ![t] = "counting"]
  /\ read' = [read EXCEPT ![t] = NoStats]
  /\ UNCHANGED <<keyVars, outcomes, at, raterVars, overdue>>

\* A Redis command raises, and the rest of the recording is not done.  `at'
\* goes back to the last outcome that was counted.
RecordingRaises(t) ==
  /\ RedisMayFail
  /\ recorder[t] \notin {"idle", "done", "raised"}
  /\ recorder' = [recorder EXCEPT ![t] = "raised"]
  /\ at' = [at EXCEPT ![t] = IF recorder[t] = "counting" THEN @ - 1 ELSE @]
  /\ read' = [read EXCEPT ![t] = NoStats]
  /\ UNCHANGED <<keyVars, outcomes, raterVars, overdue>>

(***************************************************************************)
(* rate_task.                                                              *)
(***************************************************************************)
RaterStep(r, from, to) ==
  /\ rater[r] = from
  /\ rater' = [rater EXCEPT ![r] = to]

\* The record of the task is read.  TaskNotFound and NotTaskOwner refuse.
LookUp(r, t, a) ==
  LET allowed == remembered[t] # {} /\ RequesterOf[t] = a IN
  /\ RaterStep(r, "idle", IF allowed THEN "claiming" ELSE "refused")
  /\ about' = [about EXCEPT ![r] = IF allowed THEN [task |-> t, by |-> a] ELSE <<>>]
  /\ unrated' = [unrated EXCEPT ![r] = IF allowed THEN remembered[t] ELSE {}]
  /\ UNCHANGED <<keyVars, recorderVars, node, overdue>>

\* A mutant: a task that was rated is rated again.
ClaimAgain(r) ==
  /\ RaterStep(r, "claiming", "rating")
  /\ rated' = rated \cup {about[r].task}
  /\ UNCHANGED <<stats, ratings, suspended, remembered, forgotten, recorderVars, about,
                 unrated, node, overdue>>

\* SET NX of the rated key: the first wins, the others get AlreadyRated.
Claim(r) ==
  LET taken == about[r].task \in rated IN
  /\ RaterStep(r, "claiming", IF taken THEN "refused" ELSE "rating")
  /\ rated' = rated \cup {about[r].task}
  /\ about' = [about EXCEPT ![r] = IF taken THEN <<>> ELSE @]
  /\ unrated' = [unrated EXCEPT ![r] = IF taken THEN {} ELSE @]
  /\ UNCHANGED <<stats, ratings, suspended, remembered, forgotten, recorderVars,
                 node, overdue>>

\* record_user_rating: lpush, then ltrim.
Push(r, n) ==
  /\ RaterStep(r, "rating", "trimming")
  /\ n \in unrated[r]
  /\ ratings' = [ratings EXCEPT ![n] = <<about[r]>> \o @]
  /\ unrated' = [unrated EXCEPT ![r] = @ \ {n}]
  /\ node' = [node EXCEPT ![r] = n]
  /\ UNCHANGED <<stats, suspended, remembered, rated, forgotten, recorderVars,
                 about, overdue>>

FirstRatings(list, n) == SubSeq(list, 1, IF Len(list) < n THEN Len(list) ELSE n)

\* A mutant: ltrim's end is taken to be exclusive.
TrimOneMore(r) ==
  /\ RaterStep(r, "trimming", "rating")
  /\ ratings' = [ratings EXCEPT ![node[r]] = FirstRatings(@, MaxRatings + 1)]
  /\ node' = [node EXCEPT ![r] = NoNode]
  /\ UNCHANGED <<stats, suspended, remembered, rated, forgotten, recorderVars, about,
                 unrated, overdue>>

Trim(r) ==
  /\ RaterStep(r, "trimming", "rating")
  /\ ratings' = [ratings EXCEPT ![node[r]] = FirstRatings(@, MaxRatings)]
  /\ node' = [node EXCEPT ![r] = NoNode]
  /\ UNCHANGED <<stats, suspended, remembered, rated, forgotten, recorderVars, about,
                 unrated, overdue>>

\* A mutant: the answer is given after the first node.
AnswerEarly(r) ==
  /\ RaterStep(r, "rating", "rated")
  /\ UNCHANGED <<keyVars, recorderVars, about, unrated, node, overdue>>

\* The rating has reached every node of the task.
AnswerRating(r) ==
  /\ unrated[r] = {}
  /\ RaterStep(r, "rating", "rated")
  /\ UNCHANGED <<keyVars, recorderVars, about, unrated, node, overdue>>

RatingRaises(r) ==
  /\ RedisMayFail
  /\ rater[r] \in {"claiming", "rating", "trimming"}
  /\ rater' = [rater EXCEPT ![r] = "raised"]
  /\ UNCHANGED <<keyVars, recorderVars, about, unrated, node, overdue>>

(***************************************************************************)
(* Account deletion, and the keys' times to live.                          *)
(***************************************************************************)
ForgetNode(n) ==
  /\ n \notin forgotten
  /\ forgotten' = forgotten \cup {n}
  /\ stats' = [stats EXCEPT ![n] = NoStats]
  /\ ratings' = [ratings EXCEPT ![n] = <<>>]
  /\ suspended' = suspended \ {n}
  /\ UNCHANGED <<remembered, rated, recorderVars, raterVars, overdue>>

ExpireSuspension(n) ==
  /\ n \in suspended
  /\ suspended' = suspended \ {n}
  /\ UNCHANGED <<stats, ratings, remembered, rated, forgotten, recorderVars,
                 raterVars, overdue>>

ExpireTask(t) ==
  /\ remembered[t] # {}
  /\ remembered' = [remembered EXCEPT ![t] = {}]
  /\ UNCHANGED <<stats, ratings, suspended, rated, forgotten, recorderVars,
                 raterVars, overdue>>

\* The rated key is set after the task's record, for as long, so it outlives the
\* record; but not a call that read the record before it expired and has yet to
\* claim, when the call takes longer than the task waited for its first rating.
ExpireRated(t) ==
  /\ t \in rated /\ remembered[t] = {}
  /\ rated' = rated \ {t}
  /\ overdue' = overdue \cup
       {u \in {t} : \E r \in Raters : rater[r] = "claiming" /\ about[r].task = u}
  /\ UNCHANGED <<stats, ratings, suspended, remembered, forgotten, recorderVars, raterVars>>

(***************************************************************************)
(* The specification.                                                      *)
(***************************************************************************)
RecorderNext(t) ==
  \/ \E list \in OutcomeLists : TaskEnds(t, list)
  \/ Count(t) \/ ReadTotals(t) \/ WriteAverage(t)
  \/ Judge(t) \/ ScoreLow(t) \/ ScoreWell(t) \/ Suspend(t)
  \/ Remember(t) \/ RecordingRaises(t)

RaterNext(r) ==
  \/ \E t \in Tasks, a \in Accounts : LookUp(r, t, a)
  \/ Claim(r) \/ Trim(r) \/ AnswerRating(r) \/ RatingRaises(r)
  \/ \E n \in NodeIds : Push(r, n)

Next ==
  \/ \E t \in Tasks : RecorderNext(t) \/ ExpireTask(t) \/ ExpireRated(t)
  \/ \E r \in Raters : RaterNext(r)
  \/ \E n \in NodeIds : ForgetNode(n) \/ ExpireSuspension(n)

Spec == Init /\ [][Next]_vars

(***************************************************************************)
(* Safety.                                                                 *)
(***************************************************************************)
\* How many outcomes of a task, and which ones, have reached the counters.
CountedUpTo(t) == IF recorder[t] = "counting" THEN at[t] - 1 ELSE at[t]

Counted == UNION {{t} \X (1..CountedUpTo(t)) : t \in Tasks}

CountedOf(n, success) ==
  {p \in Counted : /\ outcomes[p[1]][p[2]].node = n
                   /\ outcomes[p[1]][p[2]].success = success}

\* Outcomes recorded at the same time, for one node, are all counted, and each
\* once, whichever of them raise on the way.
EachOutcomeCountsOnce ==
  \A n \in NodeIds \ forgotten :
    /\ stats[n].successful = Cardinality(CountedOf(n, TRUE))
    /\ stats[n].failed = Cardinality(CountedOf(n, FALSE))
    /\ stats[n].total = stats[n].successful + stats[n].failed

\* docs/architecture.md: "A node below 35 after more than 10 tasks is
\* suspended": never before, and never a node that served its tasks well,
\* since a score below 35 takes more than one failure in eight.
OnlyFailingNodesAreSuspended ==
  \A n \in suspended \ forgotten :
    /\ stats[n].total > SuspendAfter
    /\ 8 * stats[n].failed > SuspendAfter + 1

\* docs/architecture.md: "Only the account that requested a task can rate it,
\* once": a node's ratings are from the accounts that requested the tasks, which
\* the node served, and at most one is of the same task, however many calls rate
\* it at once and whenever its keys expire.  Only the second half has an
\* exception: a call that read the record, and was still to claim the task when
\* the key of an earlier rating expired, rates it again.
RatedOnceByRequester ==
  \A n \in NodeIds : \A i \in DOMAIN ratings[n] :
    /\ ratings[n][i].by = RequesterOf[ratings[n][i].task]
    /\ n \in Served(ratings[n][i].task)
    /\ ratings[n][i].task \notin overdue =>
         \A j \in DOMAIN ratings[n] : ratings[n][j].task = ratings[n][i].task => i = j

\* A rating that was answered with success has reached every node that served
\* the task, where it stays until enough newer ones push it out.
AnsweredRatingIsApplied ==
  \A r \in Raters : rater[r] = "rated" =>
    \A n \in Served(about[r].task) \ forgotten :
      \/ \E i \in DOMAIN ratings[n] : ratings[n][i] = about[r]
      \/ Len(ratings[n]) >= MaxRatings

\* A node keeps MaxRatings ratings; only calls between lpush and ltrim, or
\* that raised there, may leave one more each.
RatingsAreBounded ==
  \A n \in NodeIds :
    Len(ratings[n]) <=
      MaxRatings + Cardinality({r \in Raters : rater[r] \in {"trimming", "raised"}
                                               /\ node[r] = n})
==============================================================================
