---------------------------- MODULE SlidingWindow ----------------------------
(***************************************************************************)
(* The two sliding windows of the coordinator: SlidingWindowLimiter of     *)
(* coordinator/limits.py, asked by node_websocket before it accepts a      *)
(* connection, and _check_rate of forum/app.py, asked by the forum's three *)
(* forms.  Both live in memory and run between two awaits, so a call is    *)
(* one step.  Time is counted in ticks; monotonic() and time() only grow.  *)
(***************************************************************************)
EXTENDS Integers, Sequences, FiniteSets

CONSTANTS
  Clients,    \* addresses that open node connections
  Visitors,   \* addresses that post to one form of the forum
  Limit,      \* events a key may have ...
  Window,     \* ... within this many ticks
  MaxKeys,    \* MAX_KEYS: the limiter prunes once it tracks this many
  MaxTime     \* bounds the clock of a run

ASSUME LimitAssumption == Limit \in Nat
ASSUME WindowAssumption == Window \in Nat
ASSUME MaxKeysAssumption == MaxKeys \in Nat
ASSUME KeysAssumption == Clients \cap Visitors = {}

Keys == Clients \cup Visitors

VARIABLES
  clock,
  events,   \* _events, and the forum's store: the times kept for known keys
  granted   \* history: when the calls of a key were answered with True

windowVars == <<clock, events, granted>>

WindowTypeOK ==
  /\ clock \in Nat
  /\ DOMAIN events \subseteq Keys
  /\ \A k \in DOMAIN events : events[k] \in Seq(Nat)
  /\ granted \in [Keys -> Seq(Nat)]

WindowInit ==
  /\ clock = 0
  /\ events = [k \in {} |-> <<>>]
  /\ granted = [k \in Keys |-> <<>>]

Tick ==
  /\ clock < MaxTime
  /\ clock' = clock + 1
  /\ UNCHANGED <<events, granted>>

Expired(time) == clock - time >= Window

\* A mutant: an event still counts when it is exactly one window old.
DropsLate(n, times) ==
  /\ \A i \in 1..n : clock - times[i] > Window
  /\ n < Len(times) => clock - times[n + 1] <= Window

(***************************************************************************)
(* The first n times are what a call drops: popleft while the first is     *)
(* expired in the limiter; the forum's comprehension over an increasing    *)
(* list drops the same ones.                                               *)
(***************************************************************************)
Drops(n, times) ==
  /\ \A i \in 1..n : Expired(times[i])
  /\ n < Len(times) => ~Expired(times[n + 1])

\* A mutant: the oldest event decides, not the newest.
IdleByFirst(k) == events[k] = <<>> \/ Expired(events[k][1])

(***************************************************************************)
(* _prune: only keys whose last event is expired are forgotten.            *)
(***************************************************************************)
Idle(k) == events[k] = <<>> \/ Expired(events[k][Len(events[k])])

Pruned == {k \in DOMAIN events \cap Clients : Idle(k)}

Forgotten(k) ==
  IF /\ k \in Clients
     /\ k \notin DOMAIN events
     /\ Cardinality(DOMAIN events \cap Clients) >= MaxKeys
  THEN Pruned
  ELSE {}

Times(k) == IF k \in DOMAIN events THEN events[k] ELSE <<>>

Store(k, times) ==
  events' = [j \in (DOMAIN events \ Forgotten(k)) \cup {k} |->
               IF j = k THEN times ELSE events[j]]

Kept(n, k) == SubSeq(Times(k), n + 1, Len(Times(k)))

\* The key has Limit events left once the first n are dropped.
Full(n, k) == Drops(n, Times(k)) /\ Len(Kept(n, k)) >= Limit

(***************************************************************************)
(* SlidingWindowLimiter.allow and _check_rate return True, or False.       *)
(***************************************************************************)
Allow(k) ==
  \E n \in 0..Len(Times(k)) :
    /\ Drops(n, Times(k))
    /\ ~Full(n, k)
    /\ Store(k, Append(Kept(n, k), clock))
    /\ granted' = [granted EXCEPT ![k] = Append(@, clock)]
    /\ UNCHANGED clock

Refuse(k) ==
  \E n \in 0..Len(Times(k)) :
    /\ Full(n, k)
    /\ Store(k, Kept(n, k))
    /\ UNCHANGED <<clock, granted>>

WindowNext == Tick \/ \E k \in Keys : Allow(k) \/ Refuse(k)

WindowSpec == WindowInit /\ [][WindowNext]_windowVars

(***************************************************************************)
(* Between an event and the Limit-th after it lies a whole window: at most *)
(* Limit events fall within any one, although the limiter forgets keys.    *)
(***************************************************************************)
NoBurst ==
  \A k \in Keys : \A i \in 1..(Len(granted[k]) - Limit) :
    granted[k][i + Limit] - granted[k][i] >= Window

(***************************************************************************)
(* A call would be refused only where Limit calls were granted within the  *)
(* window that ends now: expired events never count against a key.         *)
(***************************************************************************)
RefusalsAreDeserved ==
  \A k \in Keys : (\E n \in 0..Len(Times(k)) : Full(n, k)) =>
    /\ Len(granted[k]) >= Limit
    /\ \A i \in (Len(granted[k]) - Limit + 1)..Len(granted[k]) :
         ~Expired(granted[k][i])
==============================================================================
