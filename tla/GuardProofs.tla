---------------------------- MODULE GuardProofs ------------------------------
(***************************************************************************)
(* What guards the coordinator, from its callers and from a second one:    *)
(* theorems about RequestLimits, for every limit, window, number of keys   *)
(* and body size, and about InstanceLock, for any number of processes and  *)
(* any times.                                                              *)
(*                                                                         *)
(* The argument for the windows is that the times a key has in the table   *)
(* are the end of the list of its granted calls, and that what is no       *)
(* longer in the table is expired.  Mutual exclusion rests on how much of  *)
(* the time to live is left when a refresh is due: enough for the          *)
(* refreshes that may still raise.                                         *)
(***************************************************************************)
EXTENDS RequestLimits, InstanceLock, TLAPS

(***************************************************************************)
(* The table keeps `times' of a key whose calls were granted at the times  *)
(* `past', and the clock shows `time'.                                     *)
(***************************************************************************)
Tracks(time, past, times) ==
  /\ \A i \in 1..Len(past) : past[i] <= time
  /\ \A i, j \in 1..Len(past) : i <= j => past[i] <= past[j]
  /\ Len(times) <= Len(past)
  /\ \A i \in 1..Len(times) : times[i] = past[Len(past) - Len(times) + i]
  /\ \A i \in 1..(Len(past) - Len(times)) : time - past[i] >= Window

Apart(past) ==
  \A i \in 1..(Len(past) - Limit) : past[i + Limit] - past[i] >= Window

WindowInv ==
  /\ WindowTypeOK
  /\ \A k \in Keys : Tracks(clock, granted[k], Times(k)) /\ Apart(granted[k])

(***************************************************************************)
(* Time that passes only lets more events expire.                          *)
(***************************************************************************)
LEMMA TracksLater ==
  ASSUME NEW time \in Nat, NEW past \in Seq(Nat), NEW times \in Seq(Nat),
         Tracks(time, past, times)
  PROVE  Tracks(time + 1, past, times)
<1> DEFINE later == time + 1
<1>1. \A i \in 1..Len(past) : past[i] \in Nat
  OBVIOUS
<1>2. Len(past) \in Nat /\ Len(times) \in Nat
  OBVIOUS
<1>3. \A i \in 1..(Len(past) - Len(times)) : later - past[i] >= Window
  <2> SUFFICES ASSUME NEW i \in 1..(Len(past) - Len(times))
               PROVE  later - past[i] >= Window
    OBVIOUS
  <2>1. i \in 1..Len(past) /\ time - past[i] >= Window
    BY <1>2 DEF Tracks
  <2> QED
    BY <1>1, <2>1, WindowAssumption
<1>4. \A i \in 1..Len(past) : past[i] <= later
  BY <1>1 DEF Tracks
<1>5. /\ \A i, j \in 1..Len(past) : i <= j => past[i] <= past[j]
      /\ Len(times) <= Len(past)
      /\ \A i \in 1..Len(times) : times[i] = past[Len(past) - Len(times) + i]
  BY DEF Tracks
<1> HIDE DEF later
<1>6. Tracks(later, past, times)
  BY <1>3, <1>4, <1>5 DEF Tracks
<1> QED
  BY <1>6 DEF later

(***************************************************************************)
(* The rest of a list after its first n elements.                          *)
(***************************************************************************)
LEMMA RestOfList ==
  ASSUME NEW times \in Seq(Nat), NEW n \in 0..Len(times)
  PROVE  LET rest == SubSeq(times, n + 1, Len(times)) IN
         /\ rest \in Seq(Nat)
         /\ Len(rest) = Len(times) - n
         /\ \A i \in 1..Len(rest) : rest[i] = times[n + i]
  OBVIOUS

(***************************************************************************)
(* Dropping expired events from the front keeps the relation.              *)
(***************************************************************************)
LEMMA TracksDropped ==
  ASSUME NEW time \in Nat, NEW past \in Seq(Nat), NEW times \in Seq(Nat),
         NEW n \in 0..Len(times),
         Tracks(time, past, times),
         \A i \in 1..n : time - times[i] >= Window
  PROVE  Tracks(time, past, SubSeq(times, n + 1, Len(times)))
<1> DEFINE rest == SubSeq(times, n + 1, Len(times))
<1>1. /\ Len(rest) = Len(times) - n
      /\ \A i \in 1..Len(rest) : rest[i] = times[n + i]
  BY RestOfList
<1>2. Len(past) \in Nat /\ Len(times) \in Nat /\ Len(rest) \in Nat
  BY <1>1
<1> HIDE DEF rest
<1>3. Len(rest) <= Len(past)
  BY <1>1, <1>2 DEF Tracks
<1>4. \A i \in 1..Len(rest) : rest[i] = past[Len(past) - Len(rest) + i]
  <2> SUFFICES ASSUME NEW i \in 1..Len(rest)
               PROVE  rest[i] = past[Len(past) - Len(rest) + i]
    OBVIOUS
  <2>1. n + i \in 1..Len(times)
    BY <1>1, <1>2
  <2>2. times[n + i] = past[Len(past) - Len(times) + (n + i)]
    BY <2>1 DEF Tracks
  <2>3. Len(past) - Len(times) + (n + i) = Len(past) - Len(rest) + i
    BY <1>1, <1>2
  <2> QED
    BY <1>1, <2>2, <2>3
<1>5. \A i \in 1..(Len(past) - Len(rest)) : time - past[i] >= Window
  <2> SUFFICES ASSUME NEW i \in 1..(Len(past) - Len(rest))
               PROVE  time - past[i] >= Window
    OBVIOUS
  <2>1. CASE i <= Len(past) - Len(times)
    BY <2>1, <1>2 DEF Tracks
  <2>2. CASE i > Len(past) - Len(times)
    <3> DEFINE q == i - (Len(past) - Len(times))
    <3>0. i \in Nat /\ i <= Len(past) - (Len(times) - n) /\ n \in Nat /\ n <= Len(times)
      BY <1>1, <1>2
    <3>1. q \in 1..n /\ q \in 1..Len(times) /\ i = Len(past) - Len(times) + q
      BY <1>2, <2>2, <3>0
    <3> HIDE DEF q
    <3>2. times[q] = past[i]
      BY <3>1 DEF Tracks
    <3> QED
      BY <3>1, <3>2
  <2> QED
    BY <2>1, <2>2, <1>2
<1> QED
  BY <1>3, <1>4, <1>5 DEF Tracks, rest

(***************************************************************************)
(* A granted call is appended to both lists.                               *)
(***************************************************************************)
LEMMA TracksGranted ==
  ASSUME NEW time \in Nat, NEW past \in Seq(Nat), NEW times \in Seq(Nat),
         Tracks(time, past, times)
  PROVE  Tracks(time, Append(past, time), Append(times, time))
<1> DEFINE p == Append(past, time)
           t == Append(times, time)
<1>1. /\ Len(p) = Len(past) + 1
      /\ p[Len(past) + 1] = time
      /\ \A i \in 1..Len(past) : p[i] = past[i] /\ past[i] \in Nat
  OBVIOUS
<1>2. /\ Len(t) = Len(times) + 1
      /\ t[Len(times) + 1] = time
      /\ \A i \in 1..Len(times) : t[i] = times[i]
  OBVIOUS
<1>3. Len(past) \in Nat /\ Len(times) \in Nat
  OBVIOUS
<1> HIDE DEF p, t
<1>4. /\ \A i \in 1..Len(p) : p[i] <= time
      /\ \A i, j \in 1..Len(p) : i <= j => p[i] <= p[j]
  <2>1. ASSUME NEW i \in 1..Len(p)
        PROVE  \/ i = Len(past) + 1 /\ p[i] = time
               \/ i \in 1..Len(past) /\ p[i] = past[i] /\ past[i] <= time
    <3>1. i \in 1..(Len(past) + 1)
      BY <1>1
    <3>2. CASE i = Len(past) + 1
      BY <1>1, <3>2
    <3>3. CASE i # Len(past) + 1
      <4>1. i \in 1..Len(past)
        BY <1>3, <3>1, <3>3
      <4> QED
        BY <1>1, <4>1 DEF Tracks
    <3> QED
      BY <3>2, <3>3
  <2>2. \A i \in 1..Len(p) : p[i] <= time
    BY <2>1
  <2>3. ASSUME NEW i \in 1..Len(p), NEW j \in 1..Len(p), i <= j
        PROVE  p[i] <= p[j]
    <3>1. CASE j = Len(past) + 1
      BY <1>1, <2>2, <3>1
    <3>2. CASE j # Len(past) + 1
      <4>1. j \in 1..Len(past) /\ p[j] = past[j]
        BY <2>1, <3>2
      <4>2. i \in 1..Len(past) /\ p[i] = past[i]
        BY <1>1, <1>3, <2>3, <4>1
      <4> QED
        BY <2>3, <4>1, <4>2 DEF Tracks
    <3> QED
      BY <3>1, <3>2
  <2> QED
    BY <2>2, <2>3
<1>5. Len(t) <= Len(p)
  BY <1>1, <1>2, <1>3 DEF Tracks
<1>6. \A i \in 1..Len(t) : t[i] = p[Len(p) - Len(t) + i]
  <2> SUFFICES ASSUME NEW i \in 1..Len(t)
               PROVE  t[i] = p[Len(p) - Len(t) + i]
    OBVIOUS
  <2>1. CASE i = Len(times) + 1
    BY <1>1, <1>2, <1>3, <2>1
  <2>2. CASE i <= Len(times)
    <3>1. i \in 1..Len(times) /\ Len(past) - Len(times) + i \in 1..Len(past)
      BY <1>3, <2>2 DEF Tracks
    <3>2. Len(p) - Len(t) + i = Len(past) - Len(times) + i
      BY <1>1, <1>2, <1>3
    <3>3. times[i] = past[Len(past) - Len(times) + i]
      BY <3>1 DEF Tracks
    <3> QED
      BY <1>1, <1>2, <3>1, <3>2, <3>3
  <2> QED
    BY <1>2, <1>3, <2>1, <2>2
<1>7. \A i \in 1..(Len(p) - Len(t)) : time - p[i] >= Window
  <2> SUFFICES ASSUME NEW i \in 1..(Len(p) - Len(t))
               PROVE  time - p[i] >= Window
    OBVIOUS
  <2>1. i \in 1..(Len(past) - Len(times)) /\ i \in 1..Len(past)
    BY <1>1, <1>2, <1>3
  <2> QED
    BY <1>1, <2>1 DEF Tracks
<1> QED
  BY <1>4, <1>5, <1>6, <1>7 DEF Tracks, p, t

(***************************************************************************)
(* _prune may forget an idle key: its last event is the last granted call, *)
(* so all of them are expired.                                             *)
(***************************************************************************)
LEMMA TracksForgotten ==
  ASSUME NEW time \in Nat, NEW past \in Seq(Nat), NEW times \in Seq(Nat),
         Tracks(time, past, times),
         times = <<>> \/ time - times[Len(times)] >= Window
  PROVE  Tracks(time, past, <<>>)
<1>1. Len(past) \in Nat /\ Len(times) \in Nat /\ Len(<<>>) = 0
  OBVIOUS
<1>2. \A i \in 1..Len(past) : past[i] \in Nat
  OBVIOUS
<1>3. \A i \in 1..Len(past) : time - past[i] >= Window
  <2>1. CASE Len(times) = 0
    BY <1>1, <2>1 DEF Tracks
  <2>2. CASE Len(times) # 0
    <3>1. time - times[Len(times)] >= Window
      BY <1>1, <2>2
    <3>2. times[Len(times)] = past[Len(past)] /\ Len(past) \in 1..Len(past)
      BY <1>1, <2>2 DEF Tracks
    <3>3. \A i \in 1..Len(past) : past[i] <= past[Len(past)]
      BY <3>2, <1>1 DEF Tracks
    <3> QED
      BY <3>1, <3>2, <3>3, <1>2, WindowAssumption
  <2> QED
    BY <2>1, <2>2
<1> QED
  BY <1>1, <1>3 DEF Tracks
(***************************************************************************)
(* The step that matters: a granted call finds fewer than Limit events, so *)
(* the call that was granted Limit calls before it has expired.            *)
(***************************************************************************)
LEMMA ApartGranted ==
  ASSUME NEW time \in Nat, NEW past \in Seq(Nat), NEW kept \in Seq(Nat),
         Tracks(time, past, kept), Apart(past), Len(kept) < Limit
  PROVE  Apart(Append(past, time))
<1> DEFINE p == Append(past, time)
<1>1. /\ Len(p) = Len(past) + 1
      /\ p[Len(past) + 1] = time
      /\ \A i \in 1..Len(past) : p[i] = past[i]
  OBVIOUS
<1>2. Len(past) \in Nat /\ Len(kept) \in Nat
  OBVIOUS
<1> HIDE DEF p
<1>3. ASSUME NEW i \in 1..(Len(p) - Limit)
      PROVE  p[i + Limit] - p[i] >= Window
  <2>0. /\ i \in Nat /\ i >= 1 /\ i <= Len(past) + 1 - Limit
        /\ Limit \in Nat /\ Limit >= 1
    BY <1>1, <1>2, LimitAssumption
  <2>1. CASE i = Len(past) + 1 - Limit
    <3>1. i \in 1..(Len(past) - Len(kept)) /\ i \in 1..Len(past)
      BY <1>2, <2>0, <2>1
    <3>2. time - past[i] >= Window
      BY <3>1 DEF Tracks
    <3>3. i + Limit = Len(past) + 1
      BY <1>2, <2>0, <2>1
    <3>4. p[i + Limit] = p[Len(past) + 1]
      BY <3>3
    <3>5. p[i + Limit] = time /\ p[i] = past[i]
      BY <1>1, <3>1, <3>4
    <3> QED
      BY <3>2, <3>5
  <2>2. CASE i # Len(past) + 1 - Limit
    <3>0. \A m, l, j \in Nat : j <= m + 1 - l /\ j # m + 1 - l => j <= m - l
      OBVIOUS
    <3>1. i \in 1..(Len(past) - Limit)
      BY ONLY <1>2, <2>0, <2>2, <3>0
    <3>2. i \in 1..Len(past) /\ i + Limit \in 1..Len(past)
      BY <1>2, <2>0, <3>1
    <3>3. p[i + Limit] = past[i + Limit] /\ p[i] = past[i]
      BY <1>1, <3>2
    <3> QED
      BY <3>1, <3>3 DEF Apart
  <2> QED
    BY <2>1, <2>2
<1> QED
  BY <1>3 DEF Apart, p

(***************************************************************************)
(* The initial state, and what a step leaves of the keys it is not about.  *)
(***************************************************************************)
LEMMA WindowInvInit == WindowInit => WindowInv
<1> SUFFICES ASSUME WindowInit PROVE WindowInv
  OBVIOUS
<1>1. DOMAIN events = {} /\ \A k \in Keys : Times(k) = <<>> /\ granted[k] = <<>>
  BY DEF WindowInit, Times
<1>2. WindowTypeOK
  BY <1>1 DEF WindowInit, WindowTypeOK
<1>3. \A k \in Keys : Tracks(clock, granted[k], Times(k)) /\ Apart(granted[k])
  BY <1>1, LimitAssumption DEF Tracks, Apart
<1> QED
  BY <1>2, <1>3 DEF WindowInv

LEMMA TimesType ==
  ASSUME WindowTypeOK, NEW k \in Keys
  PROVE  Times(k) \in Seq(Nat) /\ granted[k] \in Seq(Nat)
  BY DEF WindowTypeOK, Times

(***************************************************************************)
(* What Store leaves in the table.                                         *)
(***************************************************************************)
LEMMA StoreTimes ==
  ASSUME WindowTypeOK, NEW k \in Keys, NEW times \in Seq(Nat), Store(k, times)
  PROVE  /\ DOMAIN events' \subseteq Keys
         /\ \A j \in DOMAIN events' : events'[j] \in Seq(Nat)
         /\ Times(k)' = times
         /\ \A j \in Keys \ {k} :
              \/ Times(j)' = Times(j)
              \/ Idle(j) /\ j \in DOMAIN events /\ Times(j)' = <<>>
<1>1. DOMAIN events' = (DOMAIN events \ Forgotten(k)) \cup {k}
  BY DEF Store
<1>2. events'[k] = times /\ \A j \in DOMAIN events' \ {k} : events'[j] = events[j]
  BY DEF Store
<1>3. \A j \in Forgotten(k) : Idle(j) /\ j \in DOMAIN events
  BY DEF Forgotten, Pruned
<1>4. ASSUME NEW j \in Keys \ {k}
      PROVE  \/ Times(j)' = Times(j)
             \/ Idle(j) /\ j \in DOMAIN events /\ Times(j)' = <<>>
  <2>1. CASE j \in Forgotten(k)
    BY <1>1, <1>3, <2>1 DEF Times
  <2>2. CASE j \notin Forgotten(k)
    BY <1>1, <1>2, <2>2 DEF Times
  <2> QED
    BY <2>1, <2>2
<1> QED
  BY <1>1, <1>2, <1>3, <1>4 DEF WindowTypeOK, Times

LEMMA OthersKeepInv ==
  ASSUME WindowInv, NEW k \in Keys, NEW times \in Seq(Nat), Store(k, times),
         UNCHANGED clock, NEW j \in Keys, j # k, granted'[j] = granted[j]
  PROVE  Tracks(clock', granted'[j], Times(j)') /\ Apart(granted'[j])
<1>1. WindowTypeOK /\ Tracks(clock, granted[j], Times(j)) /\ Apart(granted[j])
  BY DEF WindowInv
<1>2. clock \in Nat /\ Times(j) \in Seq(Nat) /\ granted[j] \in Seq(Nat)
  BY <1>1, TimesType DEF WindowTypeOK
<1>3. CASE Times(j)' = Times(j)
  BY <1>1, <1>3
<1>4. CASE Idle(j) /\ j \in DOMAIN events /\ Times(j)' = <<>>
  <2>1. Times(j) = <<>> \/ clock - Times(j)[Len(Times(j))] >= Window
    BY <1>4 DEF Idle, Expired, Times
  <2> QED
    BY <1>1, <1>2, <1>4, <2>1, TracksForgotten
<1> QED
  BY <1>1, <1>3, <1>4, StoreTimes

(***************************************************************************)
(* The invariant is inductive.                                             *)
(***************************************************************************)
LEMMA WindowInvNext == WindowInv /\ [WindowNext]_windowVars => WindowInv'
<1> SUFFICES ASSUME WindowInv, [WindowNext]_windowVars PROVE WindowInv'
  OBVIOUS
<1>0. WindowTypeOK /\ clock \in Nat
  BY DEF WindowInv, WindowTypeOK
<1>1. CASE Tick
  <2>1. WindowTypeOK'
    BY <1>0, <1>1 DEF Tick, WindowTypeOK
  <2>2. ASSUME NEW k \in Keys
        PROVE  Tracks(clock, granted[k], Times(k))' /\ Apart(granted[k])'
    <3>1. /\ Tracks(clock, granted[k], Times(k)) /\ Apart(granted[k])
          /\ Times(k) \in Seq(Nat) /\ granted[k] \in Seq(Nat)
      BY <1>0, TimesType DEF WindowInv
    <3>2. /\ clock' = clock + 1
          /\ granted'[k] = granted[k]
          /\ Times(k)' = Times(k)
      BY <1>1 DEF Tick, Times
    <3> QED
      BY <1>0, <3>1, <3>2, TracksLater
  <2> QED
    BY <2>1, <2>2 DEF WindowInv
<1>2. ASSUME NEW k \in Keys, Allow(k) PROVE WindowInv'
  <2>1. PICK n \in 0..Len(Times(k)) :
          /\ Drops(n, Times(k))
          /\ ~Full(n, k)
          /\ Store(k, Append(Kept(n, k), clock))
          /\ granted' = [granted EXCEPT ![k] = Append(@, clock)]
          /\ UNCHANGED clock
    BY <1>2 DEF Allow
  <2>2. /\ Times(k) \in Seq(Nat) /\ granted[k] \in Seq(Nat)
        /\ Tracks(clock, granted[k], Times(k)) /\ Apart(granted[k])
    BY <1>0, TimesType DEF WindowInv
  <2>3. Kept(n, k) \in Seq(Nat) /\ Len(Kept(n, k)) \in Nat
    BY <2>2, RestOfList DEF Kept
  <2>4. Tracks(clock, granted[k], Kept(n, k))
    BY <1>0, <2>1, <2>2, TracksDropped DEF Drops, Expired, Kept
  <2>5. Len(Kept(n, k)) < Limit
    BY <2>1, <2>3, LimitAssumption DEF Full
  <2>6. Append(Kept(n, k), clock) \in Seq(Nat) /\ Append(granted[k], clock) \in Seq(Nat)
    BY <1>0, <2>2, <2>3
  <2>7. granted'[k] = Append(granted[k], clock)
        /\ \A j \in Keys : j # k => granted'[j] = granted[j]
    BY <1>0, <2>1 DEF WindowTypeOK
  <2>8. WindowTypeOK'
    <3>1. granted' \in [Keys -> Seq(Nat)]
      BY <1>0, <2>1, <2>6 DEF WindowTypeOK
    <3> QED
      BY <1>0, <2>1, <2>6, <3>1, StoreTimes DEF WindowTypeOK
  <2>9. Tracks(clock', granted'[k], Times(k)') /\ Apart(granted'[k])
    <3>1. clock' = clock /\ Times(k)' = Append(Kept(n, k), clock)
      BY <1>0, <2>1, <2>6, StoreTimes
    <3>2. Tracks(clock, Append(granted[k], clock), Append(Kept(n, k), clock))
      BY <1>0, <2>2, <2>3, <2>4, TracksGranted
    <3>3. Apart(Append(granted[k], clock))
      BY <1>0, <2>2, <2>3, <2>4, <2>5, ApartGranted
    <3> QED
      BY <2>7, <3>1, <3>2, <3>3
  <2>10. \A j \in Keys : j # k =>
           Tracks(clock', granted'[j], Times(j)') /\ Apart(granted'[j])
    BY <2>1, <2>6, <2>7, OthersKeepInv
  <2> QED
    BY <2>8, <2>9, <2>10 DEF WindowInv
<1>3. ASSUME NEW k \in Keys, Refuse(k) PROVE WindowInv'
  <2>1. PICK n \in 0..Len(Times(k)) :
          /\ Drops(n, Times(k))
          /\ Store(k, Kept(n, k))
          /\ UNCHANGED <<clock, granted>>
    BY <1>3 DEF Refuse, Full
  <2>2. /\ Times(k) \in Seq(Nat) /\ granted[k] \in Seq(Nat)
        /\ Tracks(clock, granted[k], Times(k)) /\ Apart(granted[k])
    BY <1>0, TimesType DEF WindowInv
  <2>3. Kept(n, k) \in Seq(Nat)
    BY <2>2, RestOfList DEF Kept
  <2>4. Tracks(clock, granted[k], Kept(n, k))
    BY <1>0, <2>1, <2>2, TracksDropped DEF Drops, Expired, Kept
  <2>5. WindowTypeOK'
    BY <1>0, <2>1, <2>3, StoreTimes DEF WindowTypeOK
  <2>6. Tracks(clock', granted'[k], Times(k)') /\ Apart(granted'[k])
    BY <1>0, <2>1, <2>2, <2>3, <2>4, StoreTimes
  <2>7. \A j \in Keys : j # k =>
          Tracks(clock', granted'[j], Times(j)') /\ Apart(granted'[j])
    BY <2>1, <2>3, OthersKeepInv
  <2> QED
    BY <2>5, <2>6, <2>7 DEF WindowInv
<1>4. CASE UNCHANGED windowVars
  <2>1. \A k \in Keys : Times(k)' = Times(k)
    BY <1>4 DEF windowVars, Times
  <2> QED
    BY <1>4, <2>1 DEF windowVars, WindowInv, WindowTypeOK
<1> QED
  BY <1>1, <1>2, <1>3, <1>4 DEF WindowNext

LEMMA WindowInvHolds == Spec => []WindowInv
<1>1. Init => WindowInv
  BY WindowInvInit DEF Init
<1>2. WindowInv /\ [Next]_vars => WindowInv'
  BY WindowInvNext DEF Next, vars, windowVars
<1> QED
  BY <1>1, <1>2, PTL DEF Spec

(***************************************************************************)
(* Within any Window at most Limit calls of a key are granted, for every   *)
(* limit, window and size of the table, although _prune forgets keys       *)
(* (SlidingWindowLimiter, _check_rate).                                    *)
(***************************************************************************)
THEOREM NoBurstEver == Spec => []NoBurst
<1>1. WindowInv => NoBurst
  BY DEF WindowInv, Apart, NoBurst
<1> QED
  BY <1>1, WindowInvHolds, PTL

(***************************************************************************)
(* A call is refused only for Limit calls that were granted within the     *)
(* window that ends now, for every value of the constants.                  *)
(***************************************************************************)
THEOREM RefusalsAlwaysDeserved == Spec => []RefusalsAreDeserved
<1>1. WindowInv => RefusalsAreDeserved
  <2> SUFFICES ASSUME WindowInv, NEW k \in Keys,
                      NEW n \in 0..Len(Times(k)), Full(n, k)
               PROVE  /\ Len(granted[k]) >= Limit
                      /\ \A i \in (Len(granted[k]) - Limit + 1)..Len(granted[k]) :
                           ~Expired(granted[k][i])
    BY DEF RefusalsAreDeserved
  <2> DEFINE past == granted[k]
             kept == Kept(n, k)
  <2>1. /\ Times(k) \in Seq(Nat) /\ past \in Seq(Nat) /\ clock \in Nat
        /\ Tracks(clock, past, Times(k))
    BY TimesType DEF WindowInv, WindowTypeOK
  <2>2. Tracks(clock, past, kept)
    BY <2>1, TracksDropped DEF Full, Drops, Expired, Kept
  <2>3. /\ Len(kept) = Len(Times(k)) - n
        /\ \A i \in 1..Len(kept) : kept[i] = Times(k)[n + i]
        /\ Len(kept) >= Limit
    BY <2>1, RestOfList DEF Kept, Full
  <2>4. /\ Len(past) \in Nat /\ Len(kept) \in Nat /\ Len(Times(k)) \in Nat
        /\ \A i \in 1..Len(past) : past[i] \in Nat
    BY <2>1, <2>3
  <2> HIDE DEF past, kept
  <2>5. Len(past) >= Limit
    BY <2>2, <2>3, <2>4, LimitAssumption DEF Tracks
  <2>6. ASSUME NEW i \in (Len(past) - Limit + 1)..Len(past)
        PROVE  ~Expired(past[i])
    <3> DEFINE first == Len(past) - Len(kept) + 1
    <3>1. /\ first \in 1..Len(past) /\ i \in 1..Len(past) /\ first <= i
          /\ 1 \in 1..Len(kept) /\ n < Len(Times(k))
          /\ first = Len(past) - Len(kept) + 1
      BY <2>2, <2>3, <2>4, <2>5, LimitAssumption DEF Tracks
    <3> HIDE DEF first
    <3>2. ~Expired(kept[1])
      BY <2>3, <3>1 DEF Full, Drops
    <3>3. kept[1] = past[first]
      BY <2>2, <3>1 DEF Tracks
    <3>4. past[first] <= past[i]
      BY <2>2, <3>1 DEF Tracks
    <3>5. past[first] \in Nat /\ past[i] \in Nat
      BY <2>4, <3>1
    <3> QED
      BY <2>1, <3>2, <3>3, <3>4, <3>5, WindowAssumption DEF Expired
  <2> QED
    BY <2>5, <2>6 DEF past
<1> QED
  BY <1>1, WindowInvHolds, PTL

(***************************************************************************)
(* The size limit: what the application was given is what was counted,     *)
(* until the chunk that passes the limit; there is no answer before the    *)
(* application is called, and one at most.                                 *)
(***************************************************************************)
BodyInv ==
  /\ BodyTypeOK
  /\ read <= MaxBytes
  /\ read <= received
  /\ responses <= 1
  /\ status = 0 <=> responses = 0
  /\ stage = "new" => responses = 0 /\ received = 0
  /\ stage = "app" => received <= MaxBytes
  /\ received > MaxBytes /\ stage = "answered" => status \in {400, 413}

LEMMA BodyInvNext == BodyInv /\ [BodyNext]_bodyVars => BodyInv'
<1> SUFFICES ASSUME BodyInv, [BodyNext]_bodyVars PROVE BodyInv'
  OBVIOUS
<1> USE MaxBytesAssumption, SizesAssumption
<1>1. CASE RefuseByLength
  BY <1>1 DEF BodyInv, BodyTypeOK, RefuseByLength, StartResponse, Statuses, Stages
<1>2. CASE CallApp
  BY <1>2 DEF BodyInv, BodyTypeOK, CallApp, Stages
<1>3. ASSUME NEW size \in Sizes, ReceiveChunk(size) PROVE BodyInv'
  <2>1. size \in Nat
    OBVIOUS
  <2>2. CASE Overflows(size)
    BY <1>3, <2>1, <2>2 DEF BodyInv, BodyTypeOK, ReceiveChunk, Overflows, Stages
  <2>3. CASE ~Overflows(size)
    BY <1>3, <2>1, <2>3 DEF BodyInv, BodyTypeOK, ReceiveChunk, Overflows
  <2> QED
    BY <2>2, <2>3
<1>4. CASE AppStarts
  BY <1>4 DEF BodyInv, BodyTypeOK, AppStarts, StartResponse, Statuses, Stages
<1>5. CASE AppReturns
  BY <1>5 DEF BodyInv, BodyTypeOK, AppReturns, Stages
<1>6. CASE AppFails
  BY <1>6 DEF BodyInv, BodyTypeOK, AppFails, Stages
<1>7. CASE AppAnswers413 \/ FormAnswers400
  BY <1>7 DEF BodyInv, BodyTypeOK, AppAnswers413, FormAnswers400, StartResponse, Statuses,
              Stages
<1>8. CASE ExceptionArrives
  BY <1>8 DEF BodyInv, BodyTypeOK, ExceptionArrives, ResponseStarted, StartResponse,
              Statuses, Stages
<1>9. CASE UNCHANGED bodyVars
  BY <1>9 DEF BodyInv, BodyTypeOK, bodyVars
<1> QED
  BY <1>1, <1>2, <1>3, <1>4, <1>5, <1>6, <1>7, <1>8, <1>9 DEF BodyNext

LEMMA BodyInvHolds == Spec => []BodyInv
<1>1. Init => BodyInv
  BY MaxBytesAssumption DEF Init, BodyInit, BodyInv, BodyTypeOK, Statuses, Stages
<1>2. BodyInv /\ [Next]_vars => BodyInv'
  BY BodyInvNext DEF Next, vars, bodyVars
<1> QED
  BY <1>1, <1>2, PTL DEF Spec

(***************************************************************************)
(* The application is never given more than max_bytes of a body, whatever  *)
(* its length was said to be and however it is cut (limited_receive).      *)
(***************************************************************************)
THEOREM BodyStaysBounded == Spec => []AppReadsAtMostMaxBytes
<1>1. BodyInv => AppReadsAtMostMaxBytes
  BY DEF BodyInv, AppReadsAtMostMaxBytes
<1> QED
  BY <1>1, BodyInvHolds, PTL

(***************************************************************************)
(* An oversized body is answered once, with a refusal unless the           *)
(* application had begun to answer (BodySizeLimitMiddleware.__call__).     *)
(***************************************************************************)
THEOREM OversizedAnsweredOnce == Spec => []OversizedGetsOneResponse
<1>1. BodyInv => OversizedGetsOneResponse
  BY DEF BodyInv, OversizedGetsOneResponse
<1> QED
  BY <1>1, BodyInvHolds, PTL

(***************************************************************************)
(* Type correctness of both parts.                                         *)
(***************************************************************************)
THEOREM TypeCorrect == Spec => []TypeOK
<1>1. WindowInv /\ BodyInv => TypeOK
  BY DEF WindowInv, BodyInv, TypeOK
<1> QED
  BY <1>1, WindowInvHolds, BodyInvHolds, PTL

(***************************************************************************)
(* The lock.                                                               *)
(***************************************************************************)
USE LockAssumption

LEMMA LockTypedInit == LockInit => LockTypeOK
<1> SUFFICES ASSUME LockInit PROVE LockTypeOK
  OBVIOUS
<1>1. keyLost \in BOOLEAN /\ contended \subseteq Processes
  BY DEF LockInit
<1>2. 0 \in 0..MaxMisses
  OBVIOUS
<1> QED
  BY <1>1, <1>2 DEF LockInit, LockTypeOK, States

LEMMA LockTypedStep == LockTypeOK /\ [LockNext]_lockVars => LockTypeOK'
<1> SUFFICES ASSUME LockTypeOK, [LockNext]_lockVars PROVE LockTypeOK'
  OBVIOUS
<1> USE DEF LockTypeOK, States, SetState, Contended, SetKey, End, SleepAgain
<1>1. ASSUME NEW p \in Processes, Start(p) PROVE LockTypeOK'
  BY <1>1 DEF Start
<1>2. ASSUME NEW p \in Processes, Acquire(p) PROVE LockTypeOK'
  BY <1>2 DEF Acquire
<1>3. ASSUME NEW p \in Processes, TryAgain(p) PROVE LockTypeOK'
  BY <1>3 DEF TryAgain
<1>4. ASSUME NEW p \in Processes, RefuseStart(p) PROVE LockTypeOK'
  BY <1>4 DEF RefuseStart
<1>5. ASSUME NEW p \in Processes, RefreshKey(p) \/ RefreshTooLate(p) PROVE LockTypeOK'
  BY <1>5 DEF RefreshKey, RefreshTooLate
<1>6. ASSUME NEW p \in Processes, RefreshRaises(p) PROVE LockTypeOK'
  BY <1>6 DEF RefreshRaises
<1>7. ASSUME NEW p \in Processes, Release(p) \/ Crash(p) PROVE LockTypeOK'
  BY <1>7 DEF Release, Crash
<1>8. CASE LoseKey
  <2>1. keyLost' \in BOOLEAN
    BY <1>8 DEF LoseKey
  <2> QED
    BY <1>8, <2>1 DEF LoseKey
<1>9. CASE TimePasses
  BY <1>9 DEF TimePasses
<1>10. CASE UNCHANGED lockVars
  BY <1>10 DEF lockVars
<1> QED
  BY <1>1, <1>2, <1>3, <1>4, <1>5, <1>6, <1>7, <1>8, <1>9, <1>10 DEF LockNext

\* Every variable keeps its type.
THEOREM LockTypeCorrect == LockSpec => []LockTypeOK
<1> QED
  BY LockTypedInit, LockTypedStep, PTL DEF LockSpec

(***************************************************************************)
(* Mutual exclusion.                                                       *)
(***************************************************************************)
\* The time from one refresh to the next, at its longest.
Period == Refresh + Late

\* How long refreshes may go on raising once p's has raised misses[p] times.
Reserve(p) == (MaxMisses - misses[p]) * Period

\* A process that runs holds the key, its refresh is not overdue, and the key
\* outlives that refresh and the ones that may raise after it.
HoldsKey(p) ==
  /\ lock = p
  /\ now <= timer[p] + Late
  /\ timer[p] + Late + Reserve(p) < expires

Guarded ==
  /\ \A p \in Processes : ~Running(p) => misses[p] = 0
  /\ ~keyLost => \A p \in Processes : Running(p) => HoldsKey(p)

LEMMA ReserveFacts ==
  ASSUME NEW m \in 0..MaxMisses
  PROVE  /\ (MaxMisses - m) * Period \in Nat
         /\ (MaxMisses - m) * Period <= MaxMisses * Period
         /\ (MaxMisses + 1) * Period = MaxMisses * Period + Period
         /\ m < MaxMisses =>
              (MaxMisses - m) * Period = (MaxMisses - (m + 1)) * Period + Period
<1> DEFINE k == MaxMisses - m
<1>1. /\ k \in Nat /\ m \in Nat /\ Period \in Nat /\ MaxMisses = k + m
      /\ m < MaxMisses => k - 1 \in Nat /\ MaxMisses - (m + 1) = k - 1
  BY DEF Period
<1> HIDE DEF k
<1>2. /\ k * Period \in Nat /\ m * Period \in Nat
      /\ (k + m) * Period = k * Period + m * Period
      /\ (MaxMisses + 1) * Period = MaxMisses * Period + Period
      /\ (k - 1) * Period + Period = k * Period
  BY <1>1
<1> QED
  BY <1>1, <1>2 DEF k

LEMMA GuardedStep ==
  ASSUME TimelyRefresh, LockTypeOK, LockTypeOK', Guarded, [LockNext]_lockVars
  PROVE  Guarded'
<1> USE DEF Guarded, HoldsKey, Running
<1>1. (MaxMisses + 1) * Period < Ttl /\ Period \in Nat
  BY DEF TimelyRefresh, Period
<1>2. ASSUME NEW p \in Processes, Start(p) PROVE Guarded'
  BY <1>2 DEF Start, SetState, LockTypeOK, Reserve
<1>3. ASSUME NEW p \in Processes, Acquire(p) PROVE Guarded'
  <2>1. /\ state' = [state EXCEPT ![p] = "running"]
        /\ lock = NoProcess /\ lock' = p /\ expires' = now + Ttl
        /\ timer' = [timer EXCEPT ![p] = now + Refresh]
        /\ UNCHANGED <<now, misses, keyLost>>
        /\ misses[p] = 0
    BY <1>3 DEF Acquire, SetState, SetKey
  <2>2. ~keyLost => \A q \in Processes : ~Running(q)
    BY <2>1
  <2>3. Reserve(p)' = MaxMisses * Period /\ MaxMisses * Period \in Nat
    BY <2>1, ReserveFacts DEF Reserve, LockTypeOK
  <2>4. now' <= timer'[p] + Late /\ timer'[p] + Late + Reserve(p)' < expires'
    BY <1>1, <2>1, <2>3, ReserveFacts DEF Period, LockTypeOK
  <2> QED
    BY <2>1, <2>2, <2>4 DEF LockTypeOK
<1>4. ASSUME NEW p \in Processes, TryAgain(p) PROVE Guarded'
  BY <1>4 DEF TryAgain, LockTypeOK, Reserve
<1>5. ASSUME NEW p \in Processes, RefuseStart(p) \/ Crash(p) PROVE Guarded'
  BY <1>5 DEF RefuseStart, Crash, End, SetState, LockTypeOK, Reserve
<1>6. ASSUME NEW p \in Processes, Release(p) PROVE Guarded'
  BY <1>6 DEF Release, End, SetState, LockTypeOK, Reserve
<1>7. ASSUME NEW p \in Processes, RefreshKey(p) PROVE Guarded'
  <2>1. /\ lock' = p /\ expires' = now + Ttl
        /\ timer' = [timer EXCEPT ![p] = now + Refresh]
        /\ misses' = [misses EXCEPT ![p] = 0]
        /\ UNCHANGED <<now, state, keyLost>>
        /\ Running(p) /\ lock \in {p, NoProcess}
    BY <1>7 DEF RefreshKey, SetKey, SleepAgain
  <2>2. ~keyLost => \A q \in Processes : Running(q) => q = p
    BY <2>1
  <2>3. Reserve(p)' = MaxMisses * Period /\ MaxMisses * Period \in Nat
    BY <2>1, ReserveFacts DEF Reserve, LockTypeOK
  <2>4. now' <= timer'[p] + Late /\ timer'[p] + Late + Reserve(p)' < expires'
    BY <1>1, <2>1, <2>3, ReserveFacts DEF Period, LockTypeOK
  <2> QED
    BY <2>1, <2>2, <2>4 DEF LockTypeOK
<1>8. ASSUME NEW p \in Processes, RefreshTooLate(p) PROVE Guarded'
  BY <1>8 DEF RefreshTooLate, SleepAgain, LockTypeOK
<1>9. ASSUME NEW p \in Processes, RefreshRaises(p) PROVE Guarded'
  <2>1. /\ timer' = [timer EXCEPT ![p] = now + Refresh]
        /\ misses' = [misses EXCEPT ![p] = misses[p] + 1]
        /\ UNCHANGED <<now, lock, expires, state, keyLost>>
        /\ misses[p] < MaxMisses
        /\ Running(p)
    BY <1>9 DEF RefreshRaises, SleepAgain
  <2>2. misses[p] \in 0..MaxMisses /\ Reserve(p) = Reserve(p)' + Period
    BY <2>1, ReserveFacts DEF Reserve, LockTypeOK
  <2>3. Reserve(p)' \in Nat
    BY ReserveFacts DEF Reserve, LockTypeOK
  <2>4. HoldsKey(p) => HoldsKey(p)'
    BY <1>1, <2>1, <2>2, <2>3 DEF Period, LockTypeOK
  <2>5. \A q \in Processes \ {p} : HoldsKey(q) => HoldsKey(q)'
    BY <2>1 DEF Reserve, LockTypeOK
  <2> QED
    BY <2>1, <2>4, <2>5 DEF LockTypeOK
<1>10. CASE LoseKey
  BY <1>10 DEF LoseKey
<1>11. CASE TimePasses
  <2>1. ASSUME NEW p \in Processes, Running(p), HoldsKey(p) PROVE HoldsKey(p)'
    <3>1. now' = now + 1 /\ now < timer[p] + Late /\ UNCHANGED <<expires, timer, misses>>
      BY <1>11, <2>1 DEF TimePasses
    <3>2. Reserve(p) \in Nat /\ Reserve(p)' = Reserve(p)
      BY <3>1, ReserveFacts DEF Reserve, LockTypeOK
    <3>3. ~(expires <= now + 1)
      BY <2>1, <3>1, <3>2 DEF LockTypeOK
    <3> QED
      BY <1>11, <2>1, <3>1, <3>2, <3>3 DEF TimePasses, LockTypeOK
  <2> QED
    BY <1>11, <2>1 DEF TimePasses
<1>12. CASE UNCHANGED lockVars
  BY <1>12 DEF lockVars, Reserve
<1> QED
  BY <1>2, <1>3, <1>4, <1>5, <1>6, <1>7, <1>8, <1>9, <1>10, <1>11, <1>12 DEF LockNext

\* With timely refreshes, and unless Redis loses the key, no two coordinators
\* run at the same time.
THEOREM AtMostOneRuns ==
  ASSUME TimelyRefresh
  PROVE  LockSpec => []MutualExclusion
<1>1. LockInit => Guarded
  BY DEF LockInit, Guarded, Running
<1>2. LockTypeOK /\ LockTypeOK' /\ Guarded /\ [LockNext]_lockVars => Guarded'
  BY GuardedStep
<1>3. Guarded => MutualExclusion
  BY DEF Guarded, HoldsKey, MutualExclusion
<1> QED
  BY <1>1, <1>2, <1>3, LockTypeCorrect, PTL DEF LockSpec

(***************************************************************************)
(* Refusals.                                                               *)
(***************************************************************************)
\* A start that met no running process is waiting for a key that expires
\* before its deadline.
Patient ==
  /\ expires <= now + Ttl
  /\ lock # NoProcess => now < expires
  /\ \A p \in Processes : state[p] = "acquiring" /\ p \notin contended =>
       /\ expires <= deadline[p]
       /\ \A q \in Processes : ~Running(q)

LEMMA PatientStep ==
  ASSUME PatientStart, LockTypeOK, Patient, OnlyContendedStartsAreRefused, [LockNext]_lockVars
  PROVE  Patient' /\ OnlyContendedStartsAreRefused'
<1> DEFINE Goal == Patient' /\ OnlyContendedStartsAreRefused'
<1> USE DEF Patient, OnlyContendedStartsAreRefused, Running, LockTypeOK
<1>1. ASSUME NEW p \in Processes, Start(p) PROVE Goal
  <2>1. /\ state' = [state EXCEPT ![p] = "acquiring"]
        /\ contended' = contended \cup Contended(state')
        /\ deadline' = [deadline EXCEPT ![p] = now + Wait]
        /\ UNCHANGED <<now, lock, expires>>
    BY <1>1 DEF Start, SetState
  <2>2. expires' <= deadline'[p]
    BY <2>1 DEF PatientStart
  <2>3. ASSUME NEW q \in Processes, state'[q] = "acquiring", q \notin contended'
        PROVE  \A r \in Processes : ~Running(r)'
    BY <2>1, <2>3 DEF Contended
  <2>4. \A q \in Processes \ {p} :
          state'[q] = "acquiring" /\ q \notin contended' => expires' <= deadline'[q]
    BY <2>1
  <2>5. \A q \in Processes : state'[q] = "refused" => q \in contended'
    BY <2>1
  <2> QED
    BY <2>1, <2>2, <2>3, <2>4, <2>5
<1>2. ASSUME NEW p \in Processes, Acquire(p) PROVE Goal
  <2>1. /\ state' = [state EXCEPT ![p] = "running"]
        /\ contended' = contended \cup Contended(state')
        /\ lock' = p /\ expires' = now + Ttl
        /\ UNCHANGED now
    BY <1>2 DEF Acquire, SetState, SetKey
  <2>2. \A q \in Processes : state'[q] = "acquiring" => q \in contended'
    BY <2>1 DEF Contended
  <2>3. \A q \in Processes : state'[q] = "refused" => q \in contended'
    BY <2>1
  <2>4. expires' <= now' + Ttl /\ now' < expires'
    BY <2>1
  <2>5. Patient'
    BY <2>2, <2>4
  <2> QED
    BY <2>3, <2>5
<1>3. ASSUME NEW p \in Processes, TryAgain(p) PROVE Goal
  BY <1>3 DEF TryAgain
<1>4. ASSUME NEW p \in Processes, RefuseStart(p) PROVE Goal
  <2>1. p \in contended
    BY <1>4 DEF RefuseStart
  <2> QED
    BY <1>4, <2>1 DEF RefuseStart, End, SetState
<1>5. ASSUME NEW p \in Processes, RefreshKey(p) PROVE Goal
  BY <1>5 DEF RefreshKey, SetKey
<1>6. ASSUME NEW p \in Processes, RefreshTooLate(p) \/ RefreshRaises(p) PROVE Goal
  BY <1>6 DEF RefreshTooLate, RefreshRaises
<1>7. ASSUME NEW p \in Processes, Release(p) \/ Crash(p) PROVE Goal
  BY <1>7 DEF Release, Crash, End, SetState
<1>8. CASE LoseKey
  BY <1>8 DEF LoseKey
<1>9. CASE TimePasses
  BY <1>9 DEF TimePasses
<1>10. CASE UNCHANGED lockVars
  BY <1>10 DEF lockVars
<1> QED
  BY <1>1, <1>2, <1>3, <1>4, <1>5, <1>6, <1>7, <1>8, <1>9, <1>10 DEF LockNext

\* When the wait is as long as the time to live, the key of a process that is
\* gone never keeps a new one from starting.
THEOREM RefusalsAreContended ==
  ASSUME PatientStart
  PROVE  LockSpec => []OnlyContendedStartsAreRefused
<1>1. LockInit => Patient /\ OnlyContendedStartsAreRefused
  BY DEF LockInit, Patient, OnlyContendedStartsAreRefused
<1>2. LockTypeOK /\ Patient /\ OnlyContendedStartsAreRefused /\ [LockNext]_lockVars
        => Patient' /\ OnlyContendedStartsAreRefused'
  BY PatientStep
<1> QED
  BY <1>1, <1>2, LockTypeCorrect, PTL DEF LockSpec

(***************************************************************************)
(* The key.                                                                *)
(***************************************************************************)
\* What KeyBelongsToItsOwner says of the key of one process.
KeyKept(q) ==
  /\ lock' # q => /\ lock' = NoProcess
                  /\ state'[q] = "stopped" \/ keyLost' # keyLost \/ expires <= now'
  /\ lock' = q /\ expires' # expires => timer'[q] # timer[q]

LEMMA KeyKeptStep ==
  ASSUME LockTypeOK, [LockNext]_lockVars, NEW q \in Processes, lock = q
  PROVE  KeyKept(q)
<1> USE DEF KeyKept, LockTypeOK
<1>1. ASSUME NEW p \in Processes, RefreshKey(p) PROVE KeyKept(q)
  BY <1>1 DEF RefreshKey, SetKey, SleepAgain, Due
<1>2. ASSUME NEW p \in Processes, Acquire(p) PROVE FALSE
  BY <1>2 DEF Acquire
<1>3. ASSUME NEW p \in Processes,
             \/ Start(p) \/ TryAgain(p) \/ RefuseStart(p) \/ RefreshTooLate(p)
             \/ RefreshRaises(p) \/ Crash(p)
      PROVE  KeyKept(q)
  BY <1>3 DEF Start, TryAgain, RefuseStart, RefreshTooLate, RefreshRaises, Crash
<1>4. ASSUME NEW p \in Processes, Release(p) PROVE KeyKept(q)
  BY <1>4 DEF Release, End, SetState
<1>5. CASE LoseKey
  BY <1>5 DEF LoseKey
<1>6. CASE TimePasses
  BY <1>6 DEF TimePasses
<1>7. CASE UNCHANGED lockVars
  BY <1>7 DEF lockVars
<1> QED
  BY <1>1, <1>2, <1>3, <1>4, <1>5, <1>6, <1>7 DEF LockNext

\* Nobody but the process that set the key removes it or keeps it alive.
THEOREM KeyIsTheOwners == LockSpec => KeyBelongsToItsOwner
<1>1. LockTypeOK /\ [LockNext]_lockVars
        => [\A q \in Processes : lock = q =>
              /\ lock' # q => /\ lock' = NoProcess
                              /\ state'[q] = "stopped" \/ keyLost' # keyLost \/ expires <= now'
              /\ lock' = q /\ expires' # expires => timer'[q] # timer[q]]_lockVars
  BY KeyKeptStep DEF KeyKept
<1> QED
  BY <1>1, LockTypeCorrect, PTL DEF LockSpec, KeyBelongsToItsOwner
==============================================================================
