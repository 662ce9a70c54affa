---------------------------- MODULE InstanceLock -----------------------------
(***************************************************************************)
(* coordinator/instance_lock.py: the Redis key that keeps a second         *)
(* coordinator process from running, and its use around the life of the    *)
(* process (server.py, lifespan).                                          *)
(*                                                                         *)
(* Time is a natural number.  A timer that is due fires at most Late ticks *)
(* after it is due: TimePasses waits for it.  Redis expires a key on the   *)
(* tick at which its time to live has passed.  Processes may crash at any  *)
(* moment, and up to MaxMisses refreshes in a row may raise.               *)
(***************************************************************************)
EXTENDS Integers

CONSTANTS
  Processes,     \* coordinator processes, each started at most once
  NoProcess,
  Ttl,           \* ttl
  Wait,          \* wait
  Retry,         \* the sleep between attempts to acquire
  Refresh,       \* ttl / 3
  Late,          \* how late a timer may be served
  MaxMisses,     \* refreshes in a row that Redis fails to serve
  MaxNow         \* bound of the runs on the clock

ASSUME LockAssumption ==
  /\ NoProcess \notin Processes
  /\ Ttl \in Nat \ {0} /\ Wait \in Nat /\ Retry \in Nat \ {0} /\ Refresh \in Nat \ {0}
  /\ Late \in Nat /\ MaxMisses \in Nat /\ MaxNow \in Nat

VARIABLES
  now,
  lock,       \* the token stored under LOCK_KEY: its process, or NoProcess
  expires,    \* when the key expires
  state,      \* where each process is
  timer,      \* when the sleep of its acquire or _refresh_loop ends
  deadline,   \* acquire's deadline
  misses,     \* refreshes that raised since the last that did not
  keyLost,    \* whether Redis ever lost the key before it expired
  contended   \* processes during whose start another one was running

lockVars == <<now, lock, expires, state, timer, deadline, misses, keyLost, contended>>

States == {"down", "acquiring", "running", "crashed", "refused", "stopped"}

LockTypeOK ==
  /\ now \in Nat
  /\ lock \in Processes \cup {NoProcess}
  /\ expires \in Nat
  /\ state \in [Processes -> States]
  /\ timer \in [Processes -> Nat]
  /\ deadline \in [Processes -> Nat]
  /\ misses \in [Processes -> 0..MaxMisses]
  /\ keyLost \in BOOLEAN
  /\ contended \subseteq Processes

LockInit ==
  /\ now = 0
  /\ lock = NoProcess
  /\ expires = 0
  /\ state = [p \in Processes |-> "down"]
  /\ timer = [p \in Processes |-> 0]
  /\ deadline = [p \in Processes |-> 0]
  /\ misses = [p \in Processes |-> 0]
  /\ keyLost = FALSE
  /\ contended = {}

Running(p) == state[p] = "running"

Runners == {p \in Processes : Running(p)}

\* The processes of st that are starting while another one runs.
Contended(st) ==
  {p \in Processes : st[p] = "acquiring" /\ \E q \in Processes : st[q] = "running"}

SetState(p, to) ==
  /\ state' = [state EXCEPT ![p] = to]
  /\ contended' = contended \cup Contended(state')

\* p ends, and its timers with it.
End(p, to) ==
  /\ SetState(p, to)
  /\ timer' = [timer EXCEPT ![p] = 0]
  /\ deadline' = [deadline EXCEPT ![p] = 0]
  /\ misses' = [misses EXCEPT ![p] = 0]

(***************************************************************************)
(* acquire.                                                                *)
(***************************************************************************)
\* A mutant: the wait is shorter than the time to live.
StartImpatient(p) ==
  /\ state[p] = "down"
  /\ SetState(p, "acquiring")
  /\ timer' = [timer EXCEPT ![p] = now]
  /\ deadline' = [deadline EXCEPT ![p] = now + Ttl - 1]
  /\ UNCHANGED <<now, lock, expires, misses, keyLost>>

Start(p) ==
  /\ state[p] = "down"
  /\ SetState(p, "acquiring")
  /\ timer' = [timer EXCEPT ![p] = now]
  /\ deadline' = [deadline EXCEPT ![p] = now + Wait]
  /\ UNCHANGED <<now, lock, expires, misses, keyLost>>

Due(p) == timer[p] <= now

SetKey(p) == lock' = p /\ expires' = now + Ttl

\* SET NX EX succeeds; the refresher starts with a sleep.
Acquire(p) ==
  /\ state[p] = "acquiring" /\ Due(p)
  /\ lock = NoProcess
  /\ SetKey(p)
  /\ SetState(p, "running")
  /\ timer' = [timer EXCEPT ![p] = now + Refresh]
  /\ deadline' = [deadline EXCEPT ![p] = 0]
  /\ UNCHANGED <<now, misses, keyLost>>

TryAgain(p) ==
  /\ state[p] = "acquiring" /\ Due(p)
  /\ lock # NoProcess
  /\ now < deadline[p]
  /\ timer' = [timer EXCEPT ![p] = now + Retry]
  /\ UNCHANGED <<now, lock, expires, state, deadline, misses, keyLost, contended>>

\* "Another GemmaNet coordinator is running against this Redis."
RefuseStart(p) ==
  /\ state[p] = "acquiring" /\ Due(p)
  /\ lock # NoProcess
  /\ deadline[p] <= now
  /\ End(p, "refused")
  /\ UNCHANGED <<now, lock, expires, keyLost>>

(***************************************************************************)
(* _refresh_loop.                                                          *)
(***************************************************************************)
SleepAgain(p, missed) ==
  /\ timer' = [timer EXCEPT ![p] = now + Refresh]
  /\ misses' = [misses EXCEPT ![p] = missed]

\* A mutant: the refresh forgets to extend the time to live.
RefreshNoExtend(p) ==
  /\ Running(p) /\ Due(p)
  /\ lock \in {p, NoProcess}
  /\ lock' = p /\ UNCHANGED expires
  /\ SleepAgain(p, 0)
  /\ UNCHANGED <<now, state, deadline, keyLost, contended>>

\* The key is ours, and its time to live starts again; or it has vanished and
\* is taken back.
RefreshKey(p) ==
  /\ Running(p) /\ Due(p)
  /\ lock \in {p, NoProcess}
  /\ SetKey(p)
  /\ SleepAgain(p, 0)
  /\ UNCHANGED <<now, state, deadline, keyLost, contended>>

\* Another process holds the key: this one logs an error and keeps running.
RefreshTooLate(p) ==
  /\ Running(p) /\ Due(p)
  /\ lock \notin {p, NoProcess}
  /\ SleepAgain(p, 0)
  /\ UNCHANGED <<now, lock, expires, state, deadline, keyLost, contended>>

\* Redis fails to serve the refresh; the loop logs it and sleeps again.
RefreshRaises(p) ==
  /\ Running(p) /\ Due(p)
  /\ misses[p] < MaxMisses
  /\ SleepAgain(p, misses[p] + 1)
  /\ UNCHANGED <<now, lock, expires, state, deadline, keyLost, contended>>

(***************************************************************************)
(* The end of a process, and Redis.                                        *)
(***************************************************************************)
\* A mutant: release deletes the key whoever holds it.
ReleaseAnyKey(p) ==
  /\ Running(p)
  /\ End(p, "stopped")
  /\ lock' = NoProcess
  /\ UNCHANGED <<now, expires, keyLost>>

\* release: deletes the key if it is still ours.
Release(p) ==
  /\ Running(p)
  /\ End(p, "stopped")
  /\ lock' = IF lock = p THEN NoProcess ELSE lock
  /\ UNCHANGED <<now, expires, keyLost>>

Crash(p) ==
  /\ state[p] \in {"acquiring", "running"}
  /\ End(p, "crashed")
  /\ UNCHANGED <<now, lock, expires, keyLost>>

\* Redis restarts without the key.
LoseKey ==
  /\ ~keyLost
  /\ lock # NoProcess
  /\ lock' = NoProcess
  /\ keyLost' = TRUE
  /\ UNCHANGED <<now, expires, state, timer, deadline, misses, contended>>

TimePasses ==
  /\ now < MaxNow
  /\ \A p \in Processes :
       state[p] \in {"acquiring", "running"} => now < timer[p] + Late
  /\ now' = now + 1
  /\ lock' = IF expires <= now + 1 THEN NoProcess ELSE lock
  /\ UNCHANGED <<expires, state, timer, deadline, misses, keyLost, contended>>

LockNext ==
  \/ \E p \in Processes :
       \/ Start(p) \/ Acquire(p) \/ TryAgain(p) \/ RefuseStart(p)
       \/ RefreshKey(p) \/ RefreshTooLate(p) \/ RefreshRaises(p)
       \/ Release(p) \/ Crash(p)
  \/ LoseKey
  \/ TimePasses

LockSpec == LockInit /\ [][LockNext]_lockVars

(***************************************************************************)
(* Properties.                                                             *)
(***************************************************************************)
\* A process that runs refreshes its key before the key expires, even when
\* Redis fails to serve MaxMisses refreshes in a row.
TimelyRefresh == (MaxMisses + 1) * (Refresh + Late) < Ttl

\* The comment in __init__: "Wait a little longer than the TTL".
PatientStart == Ttl <= Wait

\* Docstring of the module: the coordinator "refuses to start while another
\* live instance holds" the lock.  With timely refreshes at most one process
\* runs, unless Redis lost the key.
MutualExclusion ==
  keyLost \/ \A p, q \in Processes : Running(p) /\ Running(q) => p = q

\* "so a crashed predecessor's lock can expire while a supervisor restarts
\* us": a process refuses to start only if another one ran meanwhile.
OnlyContendedStartsAreRefused ==
  \A p \in Processes : state[p] = "refused" => p \in contended

\* The refresh and release scripts compare the token: the key a process has
\* set goes only when it expires, when Redis loses it or when that process
\* releases it, and only that process extends its time to live.
KeyBelongsToItsOwner ==
  [][\A q \in Processes : lock = q =>
       /\ lock' # q => /\ lock' = NoProcess
                       /\ state'[q] = "stopped" \/ keyLost' # keyLost \/ expires <= now'
       /\ lock' = q /\ expires' # expires => timer'[q] # timer[q]]_lockVars
==============================================================================
