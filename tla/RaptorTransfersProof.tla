------------------------ MODULE RaptorTransfersProof ------------------------
(***************************************************************************)
(* Journeys come in increasing order of transfers.  The argument is in     *)
(* RaptorInvariant: a round extends only what the round before improved,   *)
(* as nothing else it could board gains anything.                          *)
(***************************************************************************)
EXTENDS RaptorProof

(***************************************************************************)
(* Journeys gain a transfer each.  First what a scan settles, of any       *)
(* pattern, labels and position.                                           *)
(***************************************************************************)
LEMMA PatternShape ==
  ASSUME NEW p, PatternOK(p)
  PROVE  /\ DOMAIN p.stops = 1..Len(p.stops) /\ Len(p.stops) \in Nat
         /\ \A i \in DOMAIN p.stops : p.stops[i] \in Stops
  BY DEF PatternOK

LEMMA NoGainStays ==
  ASSUME NEW p, PatternOK(p), NEW r \in Runs(p), NEW j \in DOMAIN p.stops,
         NEW times \in [Stops -> Int], NEW later \in [Stops -> Int],
         NEW best \in Int, NEW least \in Int, least <= best,
         \A s \in Stops : later[s] <= times[s],
         NoGain(p, r, j, times, best)
  PROVE  NoGain(p, r, j, later, least)
  <1>1. Arrival(p, r, j) \in Int
    BY RunsType
  <1>2. p.stops[j] \in Stops
    BY DEF PatternOK
  <1> QED
    BY <1>1, <1>2 DEF NoGain

LEMMA BeatenStays ==
  ASSUME NEW p, PatternOK(p), NEW r \in Runs(p), NEW m \in DOMAIN p.stops,
         NEW ready \in [Stops -> Int], NEW sooner \in [Stops -> Int],
         \A s \in Stops : sooner[s] <= ready[s], Beaten(p, r, m, ready)
  PROVE  Beaten(p, r, m, sooner)
  <1>1. PICK o \in Catchable(p, m, ready[p.stops[m]]) :
          Departure(p, o, m) < Infinity /\ Departure(p, o, m) < Departure(p, r, m)
    BY DEF Beaten
  <1>2. o \in Runs(p) /\ Departure(p, o, m) >= ready[p.stops[m]]
    BY DEF Catchable
  <1>3. Departure(p, o, m) \in Int
    BY <1>2, RunsType
  <1>4. p.stops[m] \in Stops
    BY DEF PatternOK
  <1>5. o \in Catchable(p, m, sooner[p.stops[m]])
    BY <1>1, <1>2, <1>3, <1>4 DEF Catchable
  <1> QED
    BY <1>1, <1>5 DEF Beaten

(***************************************************************************)
(* What boarding at i settles stays settled while labels improve, if the   *)
(* label to board with there stays.                                        *)
(***************************************************************************)
LEMMA SettledStays ==
  ASSUME NEW p, PatternOK(p), NEW i \in DOMAIN p.stops,
         NEW ready \in [Stops -> Int], NEW sooner \in [Stops -> Int],
         NEW times \in [Stops -> Int], NEW later \in [Stops -> Int],
         NEW best \in Int, NEW least \in Int, least <= best,
         \A s \in Stops : sooner[s] <= ready[s] /\ later[s] <= times[s],
         sooner[p.stops[i]] = ready[p.stops[i]],
         Settled(p, i, ready, times, best)
  PROVE  Settled(p, i, sooner, later, least)
  <1> SUFFICES ASSUME NEW r \in Runs(p), EarliestTrip(p, i, ready[p.stops[i]], r),
                      NEW j \in DOMAIN p.stops, i < j, StaysOn(p, r, i + 1, j, sooner)
               PROVE  NoGain(p, r, j, later, least)
    BY DEF Settled
  <1>1. DOMAIN p.stops = 1..Len(p.stops) /\ Len(p.stops) \in Nat
    BY PatternShape
  <1>2. StaysOn(p, r, i + 1, j, ready)
    <2> SUFFICES ASSUME NEW m \in (i + 1)..(j - 1), Beaten(p, r, m, ready) PROVE FALSE
      BY DEF StaysOn
    <2>1. m \in DOMAIN p.stops
      BY <1>1
    <2>2. Beaten(p, r, m, sooner)
      BY <2>1, BeatenStays
    <2> QED
      BY <2>2 DEF StaysOn
  <1>3. NoGain(p, r, j, times, best)
    BY <1>2 DEF Settled
  <1>4. \A s \in Stops : later[s] <= times[s]
    OBVIOUS
  <1> QED
    BY <1>3, <1>4, NoGainStays

LEMMA SettledIsPending ==
  ASSUME NEW p, NEW i, NEW ready, NEW times, NEW best, NEW q, NEW pos,
         Settled(p, i, ready, times, best)
  PROVE  Pending(p, i, ready, times, best, q, pos)
  BY DEF Settled, Pending

LEMMA PendingIsSettled ==
  ASSUME NEW p, PatternOK(p), NEW i, NEW ready, NEW times, NEW best, NEW q,
         Pending(p, i, ready, times, best, q, Len(p.stops) + 1)
  PROVE  Settled(p, i, ready, times, best)
  <1>1. DOMAIN p.stops = 1..Len(p.stops) /\ Len(p.stops) \in Nat
    BY PatternShape
  <1>2. \A j \in DOMAIN p.stops : ~(j >= Len(p.stops) + 1)
    BY <1>1
  <1> QED
    BY <1>2 DEF Settled, Pending

(***************************************************************************)
(* Of the runs to catch there is an earliest.                              *)
(***************************************************************************)
LEMMA EarliestExists ==
  ASSUME NEW p, PatternOK(p), NEW i \in DOMAIN p.stops, NEW ready \in Int,
         NEW o \in Catchable(p, i, ready), Departure(p, o, i) < Infinity
  PROVE  \E r \in Runs(p) : /\ EarliestTrip(p, i, ready, r)
                            /\ Departure(p, r, i) <= Departure(p, o, i)
  <1> DEFINE C == Catchable(p, i, ready)
             wait(r) == Departure(p, r, i) - ready
  <1>1. ASSUME NEW r \in C
        PROVE  /\ r \in Runs(p) /\ Departure(p, r, i) \in Int /\ Departure(p, r, i) >= ready
               /\ r.trip \in Nat /\ wait(r) \in Nat
    <2>1. r \in Runs(p) /\ Departure(p, r, i) >= ready
      BY DEF Catchable
    <2>2. r.trip \in DOMAIN p.trips /\ Departure(p, r, i) \in Int
      BY <2>1, RunsType
    <2>3. r.trip \in Nat
      BY <2>2 DEF PatternOK
    <2> QED
      BY <2>1, <2>2, <2>3
  <1> HIDE DEF C
  <1>2. PICK e \in C : \A z \in C : Departure(p, e, i) <= Departure(p, z, i)
    <2>1. o \in C
      BY DEF C
    <2> DEFINE T == {wait(y) : y \in C}
    <2>2. T \subseteq Nat /\ T # {}
      BY <1>1, <2>1
    <2>3. PICK n \in T : \A m \in T : ~(<<m, n>> \in OpToRel(<, Nat))
      BY <2>2, NatLessThanWellFounded, WFMin
    <2>4. PICK y \in C : n = wait(y)
      BY <2>3
    <2>5. ASSUME NEW z \in C PROVE Departure(p, y, i) <= Departure(p, z, i)
      <3>1. wait(z) \in T /\ wait(z) \in Nat /\ wait(y) \in Nat
        BY <1>1
      <3>2. ~(wait(z) < wait(y))
        BY <2>3, <2>4, <3>1 DEF OpToRel
      <3> QED
        BY <1>1, <3>1, <3>2
    <2> QED
      BY <2>4, <2>5
  <1> DEFINE L == {r \in C : Departure(p, r, i) = Departure(p, e, i)}
  <1>3. PICK r \in L : \A z \in L : r.trip <= z.trip
    <2> DEFINE T == {y.trip : y \in L}
    <2>1. T \subseteq Nat /\ T # {}
      <3>1. e \in L
        BY <1>2
      <3> QED
        BY <1>1, <3>1
    <2>2. PICK n \in T : \A m \in T : ~(<<m, n>> \in OpToRel(<, Nat))
      BY <2>1, NatLessThanWellFounded, WFMin
    <2>3. PICK y \in L : n = y.trip
      BY <2>2
    <2>4. ASSUME NEW z \in L PROVE y.trip <= z.trip
      <3>1. z.trip \in T /\ z.trip \in Nat /\ y.trip \in Nat
        BY <1>1
      <3>2. ~(z.trip < y.trip)
        BY <2>2, <2>3, <3>1 DEF OpToRel
      <3> QED
        BY <3>1, <3>2
    <2> QED
      BY <2>3, <2>4
  <1>4. /\ r \in C /\ r \in Runs(p) /\ Departure(p, r, i) = Departure(p, e, i)
        /\ Departure(p, r, i) \in Int
    BY <1>1, <1>3
  <1>5. o \in C /\ Departure(p, o, i) \in Int /\ Departure(p, r, i) <= Departure(p, o, i)
    <2>1. o \in C
      BY DEF C
    <2> QED
      BY <1>1, <1>2, <1>4, <2>1
  <1>6. Departure(p, r, i) < Infinity
    BY <1>4, <1>5, ConstantsAssumption
  <1>7. ASSUME NEW z \in C
        PROVE  \/ Departure(p, r, i) < Departure(p, z, i)
               \/ Departure(p, r, i) = Departure(p, z, i) /\ r.trip <= z.trip
    <2>1. Departure(p, r, i) <= Departure(p, z, i) /\ Departure(p, z, i) \in Int
      BY <1>1, <1>2, <1>4
    <2>2. Departure(p, r, i) = Departure(p, z, i) => z \in L
      BY <1>4
    <2> QED
      BY <1>3, <1>4, <2>1, <2>2
  <1>8. EarliestTrip(p, i, ready, r)
    BY <1>4, <1>6, <1>7 DEF EarliestTrip, C
  <1> QED
    BY <1>4, <1>5, <1>8

(***************************************************************************)
(* The scan leaves position pos: it has alighted from run q, if it rode    *)
(* one, and goes on in run n, which is q or a run caught here that leaves  *)
(* before q.                                                               *)
(***************************************************************************)
LEMMA ScanKeepsPending ==
  ASSUME NEW p, PatternOK(p), NoTiedMerge(p),
         NEW pos \in DOMAIN p.stops, NEW i \in 1..(pos - 1), NEW ready,
         NEW times \in [Stops -> Int], NEW later \in [Stops -> Int],
         NEW best \in Int, NEW least \in Int, least <= best,
         \A s \in Stops : later[s] <= times[s],
         NEW q, q.trip # NoTrip => q \in Runs(p) /\ NoGain(p, q, pos, later, least),
         NEW n,
         \/ n = q
         \/ /\ n \in Catchable(p, pos, ready[p.stops[pos]])
            /\ Departure(p, n, pos) < Infinity
            /\ q.trip # NoTrip => Departure(p, n, pos) < Departure(p, q, pos),
         Pending(p, i, ready, times, best, q, pos)
  PROVE  Pending(p, i, ready, later, least, n, pos + 1)
  <1> SUFFICES ASSUME NEW r \in Runs(p), EarliestTrip(p, i, ready[p.stops[i]], r),
                      NEW j \in DOMAIN p.stops, i < j, StaysOn(p, r, i + 1, j, ready),
                      ~NoGain(p, r, j, later, least)
               PROVE  j >= pos + 1 /\ n.trip # NoTrip /\ Twin(p, n, r, pos + 1)
    BY DEF Pending
  <1>1. DOMAIN p.stops = 1..Len(p.stops) /\ Len(p.stops) \in Nat
    BY PatternShape
  <1>2. ~NoGain(p, r, j, times, best)
    BY NoGainStays
  <1>3. j >= pos /\ q.trip # NoTrip /\ Twin(p, q, r, pos)
    BY <1>2 DEF Pending
  <1>4. Arrival(p, q, pos) = Arrival(p, r, pos) /\ Departure(p, q, pos) = Departure(p, r, pos)
    BY <1>1, <1>3 DEF Twin
  <1>5. j # pos
    BY <1>3, <1>4 DEF NoGain
  <1>6. ~(n \in Catchable(p, pos, ready[p.stops[pos]]) /\ Departure(p, n, pos) < Infinity
          /\ Departure(p, n, pos) < Departure(p, q, pos))
    <2>1. pos \in (i + 1)..(j - 1)
      BY <1>1, <1>3, <1>5
    <2>2. ~Beaten(p, r, pos, ready)
      BY <2>1 DEF StaysOn
    <2> QED
      BY <1>4, <2>2 DEF Beaten
  <1>7. n = q
    BY <1>3, <1>6
  <1>8. Twin(p, n, r, pos + 1)
    BY <1>1, <1>3, <1>7 DEF Twin
  <1> QED
    BY <1>1, <1>3, <1>5, <1>7, <1>8

(***************************************************************************)
(* Boarding at pos itself gains nothing beyond what the scan, in run n,    *)
(* is still to record: the earliest run leaves with n, or after a run that *)
(* was too early to catch here and so improved on the label of the stop,   *)
(* but for target pruning.                                                 *)
(***************************************************************************)
LEMMA TiedIsTwin ==
  ASSUME NEW p, PatternOK(p), NoTiedMerge(p), NEW pos \in DOMAIN p.stops,
         NEW q \in Runs(p), NEW r \in Runs(p), Departure(p, q, pos) = Departure(p, r, pos)
  PROVE  Twin(p, q, r, pos + 1)
  <1>1. DOMAIN p.stops = 1..Len(p.stops) /\ Len(p.stops) \in Nat
    BY PatternShape
  <1>2. \A m \in DOMAIN p.stops : m >= pos + 1 => pos < m
    BY <1>1
  <1> QED
    BY <1>2 DEF NoTiedMerge, Twin

LEMMA ScanSettlesHere ==
  ASSUME NEW p, PatternOK(p), NoTiedMerge(p), NoEarlyLeave(p),
         NEW pos \in DOMAIN p.stops, NEW ready \in [Stops -> Int],
         NEW later \in [Stops -> Int], NEW least \in Int,
         later[p.stops[pos]] = ready[p.stops[pos]],
         NEW q, q.trip # NoTrip => /\ q \in Runs(p) /\ NoGain(p, q, pos, later, least)
                                   /\ q.off # 0 => Departure(p, q, pos) >= 0,
         NEW n,
         \/ /\ n = q
            /\ \A r \in Runs(p) : EarliestTrip(p, pos, ready[p.stops[pos]], r) =>
                 q.trip # NoTrip /\ ~(Departure(p, r, pos) < Departure(p, q, pos))
         \/ n \in Runs(p) /\ EarliestTrip(p, pos, ready[p.stops[pos]], n)
  PROVE  Pending(p, pos, ready, later, least, n, pos + 1)
  <1> SUFFICES ASSUME NEW r \in Runs(p), EarliestTrip(p, pos, ready[p.stops[pos]], r),
                      NEW j \in DOMAIN p.stops, pos < j, ~NoGain(p, r, j, later, least)
               PROVE  j >= pos + 1 /\ n.trip # NoTrip /\ Twin(p, n, r, pos + 1)
    BY DEF Pending
  <1>1. DOMAIN p.stops = 1..Len(p.stops) /\ Len(p.stops) \in Nat
    BY PatternShape
  <1>2. j >= pos + 1 /\ Departure(p, r, pos) \in Int /\ ready[p.stops[pos]] \in Int
    <2>1. p.stops[pos] \in Stops
      BY PatternShape
    <2> QED
      BY <1>1, <2>1, RunsType
  <1>3. CASE n \in Runs(p) /\ EarliestTrip(p, pos, ready[p.stops[pos]], n)
    <2>1. n.trip # NoTrip /\ Departure(p, n, pos) \in Int
      BY <1>3, RunsType
    <2>2. /\ n \in Catchable(p, pos, ready[p.stops[pos]])
          /\ r \in Catchable(p, pos, ready[p.stops[pos]])
      BY <1>3 DEF EarliestTrip
    <2>3. /\ Departure(p, r, pos) <= Departure(p, n, pos)
          /\ Departure(p, n, pos) <= Departure(p, r, pos)
      BY <1>2, <1>3, <2>1, <2>2 DEF EarliestTrip
    <2>4. Departure(p, r, pos) = Departure(p, n, pos)
      BY <1>2, <2>1, <2>3
    <2> QED
      BY <1>2, <1>3, <2>1, <2>4, TiedIsTwin
  <1>4. CASE /\ n = q
             /\ q.trip # NoTrip /\ ~(Departure(p, r, pos) < Departure(p, q, pos))
    <2>1. /\ q \in Runs(p) /\ NoGain(p, q, pos, later, least)
          /\ q.off # 0 => Departure(p, q, pos) >= 0
          /\ Departure(p, q, pos) \in Int /\ Arrival(p, q, pos) \in Int
      BY <1>4, RunsType
    <2>2. ~(Departure(p, q, pos) < Departure(p, r, pos))
      <3> SUFFICES ASSUME Departure(p, q, pos) < Departure(p, r, pos) PROVE FALSE
        OBVIOUS
      <3>1. q \notin Catchable(p, pos, ready[p.stops[pos]])
        BY <1>2, <2>1 DEF EarliestTrip
      <3>2. Departure(p, q, pos) < ready[p.stops[pos]]
        BY <1>2, <2>1, <3>1 DEF Catchable
      <3>3. Arrival(p, q, pos) <= Departure(p, q, pos)
        BY <2>1 DEF NoEarlyLeave
      <3>4. least <= Arrival(p, q, pos)
        BY <1>2, <2>1, <3>2, <3>3 DEF NoGain
      <3>5. Departure(p, r, pos) <= Arrival(p, r, j) /\ Arrival(p, r, j) \in Int
        BY RideForward, RunsType
      <3>6. least <= Arrival(p, r, j)
        BY <1>2, <2>1, <3>3, <3>4, <3>5
      <3> QED
        BY <3>6 DEF NoGain
    <2>3. Departure(p, q, pos) = Departure(p, r, pos)
      BY <1>2, <1>4, <2>1, <2>2
    <2> QED
      BY <1>2, <1>4, <2>1, <2>3, TiedIsTwin
  <1> QED
    BY <1>3, <1>4

(***************************************************************************)
(* A rider who boarded where the label had been settled rides in vain.     *)
(***************************************************************************)
LEMMA FruitlessRide ==
  ASSUME NEW p, PatternOK(p), NEW pos \in DOMAIN p.stops, NEW q \in Runs(p), NEW ready,
         NEW times \in [Stops -> Int], NEW later \in [Stops -> Int],
         NEW best \in Int, NEW least \in Int, least <= best,
         \A s \in Stops : later[s] <= times[s],
         Fruitless(p, q, pos, ready, times, best), ~Beaten(p, q, pos, ready)
  PROVE  Fruitless(p, q, pos + 1, ready, later, least)
  <1> SUFFICES ASSUME NEW j \in DOMAIN p.stops, j >= pos + 1, StaysOn(p, q, pos + 1, j, ready)
               PROVE  NoGain(p, q, j, later, least)
    BY DEF Fruitless
  <1>1. DOMAIN p.stops = 1..Len(p.stops) /\ Len(p.stops) \in Nat
    BY PatternShape
  <1>2. j >= pos /\ \A m \in pos..(j - 1) : m = pos \/ m \in (pos + 1)..(j - 1)
    BY <1>1
  <1>3. StaysOn(p, q, pos, j, ready)
    BY <1>2 DEF StaysOn
  <1>4. NoGain(p, q, j, times, best)
    BY <1>2, <1>3 DEF Fruitless
  <1> QED
    BY <1>4, NoGainStays

LEMMA FruitlessBoarding ==
  ASSUME NEW p, PatternOK(p), NEW pos \in DOMAIN p.stops, NEW n \in Runs(p), NEW ready,
         NEW times \in [Stops -> Int], NEW later \in [Stops -> Int],
         NEW best \in Int, NEW least \in Int, least <= best,
         \A s \in Stops : later[s] <= times[s],
         Settled(p, pos, ready, times, best), EarliestTrip(p, pos, ready[p.stops[pos]], n)
  PROVE  Fruitless(p, n, pos + 1, ready, later, least)
  <1> SUFFICES ASSUME NEW j \in DOMAIN p.stops, j >= pos + 1, StaysOn(p, n, pos + 1, j, ready)
               PROVE  NoGain(p, n, j, later, least)
    BY DEF Fruitless
  <1>1. DOMAIN p.stops = 1..Len(p.stops) /\ Len(p.stops) \in Nat
    BY PatternShape
  <1>2. pos < j
    BY <1>1
  <1>3. NoGain(p, n, j, times, best)
    BY <1>2 DEF Settled
  <1> QED
    BY <1>3, NoGainStays

-----------------------------------------------------------------------------
(***************************************************************************)
(* What a step of a round adds to an improvement when ties stay.           *)
(***************************************************************************)
Climbs ==
  /\ bestTargetArrival' <= bestTargetArrival
  /\ \A s \in Stops : s \in marked' <=> s \in marked \/ tau'[s] < tau[s]
  /\ \A s \in Stops : tau'[s] < tau[s] => Continues(input.source, parents', k, s)

LEMMA FreshStays ==
  ASSUME TypeInv, Improvement, NEW r \in 0..MaxRounds, NEW s \in Stops,
         Fresh(input.source, parents, r, s)
  PROVE  Fresh(input.source, parents', r, s)
  <1>1. CASE r # k
    BY <1>1 DEF Improvement, Fresh
  <1>2. CASE r = k
    BY <1>2 DEF Improvement, Recorded, Fresh
  <1> QED
    BY <1>1, <1>2

LEMMA FreshBefore ==
  ASSUME TypeInv, Improvement, MidRound, NEW s \in Stops
  PROVE  Fresh(input.source, parents', k - 1, s) <=> Fresh(input.source, parents, k - 1, s)
  <1>1. k - 1 \in 0..MaxRounds /\ k - 1 # k
    BY Numbers DEF TypeInv, RoundsInv
  <1>2. parents'[k - 1][s] = parents[k - 1][s]
    BY <1>1 DEF Improvement
  <1> QED
    BY <1>2 DEF Fresh

LEMMA ImprovementKeepsStepwise ==
  ASSUME TypeInv, Improvement, Climbs, StepwiseInv, k' = k, input' = input
  PROVE  StepwiseInv'
  <1> SUFFICES ASSUME NEW r \in 0..MaxRounds, NEW s \in Stops, parents'[r][s].set
               PROVE  Continues(input.source, parents', r, s)
    BY DEF StepwiseInv
  <1>1. CASE parents'[r][s] = parents[r][s]
    <2>1. Continues(input.source, parents, r, s)
      BY <1>1 DEF StepwiseInv
    <2>2. parents[r][s].prevRound \in 0..MaxRounds /\ parents[r][s].leg.from \in Stops
      BY Numbers
    <2>3. Fresh(input.source, parents', parents[r][s].prevRound, parents[r][s].leg.from)
      BY <2>1, <2>2, FreshStays DEF Continues
    <2> QED
      BY <1>1, <2>1, <2>3 DEF Continues
  <1>2. CASE r = k /\ tau'[s] < tau[s]
    BY <1>2 DEF Climbs
  <1> QED
    BY <1>1, <1>2 DEF Improvement

LEMMA ImprovementKeepsMarked ==
  ASSUME TypeInv, Improvement, Climbs, MarkedInv, MidRound, MidRound', k' = k, input' = input,
         tauPrev' = tauPrev, pc' = "walk" => pc = "walk" /\ todo' \subseteq todo
  PROVE  MarkedInv'
  <1>1. k \in 0..MaxRounds /\ \A s \in Stops : tau[s] \in Int /\ tauPrev[s] \in Int /\ tau'[s] \in Int
    BY Numbers DEF Improvement
  <1>2. ASSUME NEW s \in Stops
        PROVE  s \in marked' <=> Fresh(input.source, parents', k, s)
    <2>1. s \in marked <=> Fresh(input.source, parents, k, s)
      BY DEF MarkedInv, InRound
    <2>2. CASE tau'[s] = tau[s] /\ parents'[k][s] = parents[k][s]
      <3>1. ~(tau'[s] < tau[s])
        BY <1>1, <2>2
      <3>2. s \in marked' <=> s \in marked
        BY <3>1 DEF Climbs
      <3> QED
        BY <2>1, <2>2, <3>2 DEF Fresh
    <2>3. CASE tau'[s] < tau[s] /\ Recorded(s)
      BY <2>3 DEF Climbs, Fresh, Recorded
    <2> QED
      BY <2>2, <2>3 DEF Improvement
  <1>3. ASSUME NEW s \in Stops
        PROVE  tau'[s] <= tauPrev[s] /\ (s \notin marked' => tau'[s] = tauPrev[s])
    <2>1. tau[s] <= tauPrev[s] /\ (s \notin marked => tau[s] = tauPrev[s])
      BY DEF MarkedInv, InRound
    <2>2. s \in marked' <=> s \in marked \/ tau'[s] < tau[s]
      BY DEF Climbs
    <2>3. tau'[s] = tau[s] \/ tau'[s] < tau[s]
      BY DEF Improvement
    <2> QED
      BY <1>1, <2>1, <2>2, <2>3
  <1>4. marked \cap Stops \subseteq marked'
    BY DEF Climbs
  <1>5. pc' = "walk" => todo' \subseteq marked'
    <2>1. todo \subseteq Stops
      BY DEF TypeInv, TypeOK
    <2> QED
      BY <1>4, <2>1 DEF MarkedInv
  <1>6. pc' # "round"
    BY DEF MidRound
  <1> QED
    BY <1>2, <1>3, <1>5, <1>6 DEF MarkedInv, InRound

LEMMA SettledKept ==
  ASSUME TypeInv, TypeInv', input' = input,
         \A s \in Stops : tauPrev'[s] <= tauPrev[s] /\ tau'[s] <= tau[s],
         bestTargetArrival' <= bestTargetArrival,
         NEW pi \in DOMAIN input.patterns, NEW i \in DOMAIN input.patterns[pi].stops,
         LET s == input.patterns[pi].stops[i] IN tauPrev'[s] = tauPrev[s],
         SettledAt(pi, i)
  PROVE  SettledAt(pi, i)'
  <1> DEFINE p == input.patterns[pi]
  <1>1. PatternOK(p) /\ i \in DOMAIN p.stops
    BY PatternFacts DEF TypeInv, TypeOK
  <1>2. /\ tau \in [Stops -> Int] /\ tau' \in [Stops -> Int]
        /\ tauPrev \in [Stops -> Int] /\ tauPrev' \in [Stops -> Int]
        /\ bestTargetArrival \in Int /\ bestTargetArrival' \in Int
    BY DEF TypeInv, TypeOK
  <1>3. Settled(p, i, tauPrev, tau, bestTargetArrival) /\ tauPrev'[p.stops[i]] = tauPrev[p.stops[i]]
    BY DEF SettledAt
  <1> HIDE DEF p
  <1>4. Settled(p, i, tauPrev', tau', bestTargetArrival')
    BY <1>1, <1>2, <1>3, SettledStays
  <1> QED
    BY <1>4 DEF SettledAt, p

(***************************************************************************)
(* Alighting: a rider who would improve a label boarded at a stop of the   *)
(* round before, and afterwards the arrival is no gain any more.           *)
(***************************************************************************)
LEMMA AlightClimbs ==
  ASSUME IInv, TypeInv', Improvement, pc = "scan", Alight(Scanned), k' = k, input' = input,
         Riding /\ ~NoGain(Scanned, scan.run, scan.pos, tau, bestTargetArrival)
           => Fresh(input.source, parents, k - 1, Scanned.stops[scan.boardPos])
  PROVE  /\ Climbs
         /\ Riding => NoGain(Scanned, scan.run, scan.pos, tau', bestTargetArrival')
  <1> DEFINE leg == RideLeg(Scanned)
  <1>1. /\ TypeInv /\ k \in 0..MaxRounds /\ MaxRounds \in Nat /\ k > 0
        /\ tau \in [Stops -> Int] /\ tauBest = tau /\ tau' \in [Stops -> Int]
        /\ parents \in [0..MaxRounds -> [Stops -> Parent]]
        /\ bestTargetArrival \in Int /\ MidRound
        /\ tau[input.source] = input.depTime /\ input.source \in Stops /\ input.depTime \in Int
    BY ConstantsAssumption, Numbers DEF IInv, LabelsInv, TypeInv, TypeOK, RoundsInv, MidRound
  <1>2. Riding =>
          /\ leg \in Leg /\ leg.to \in Stops /\ leg.from \in Stops /\ leg.arr \in Int
          /\ leg.to = Scanned.stops[scan.pos] /\ leg.from = Scanned.stops[scan.boardPos]
          /\ leg.arr = Arrival(Scanned, scan.run, scan.pos) /\ leg.run.trip # NoTrip
    BY <1>1, RideLegType DEF Leg, Riding
  <1>3. CASE ~(Riding /\ Improves(leg.arr, leg.to, bestTargetArrival))
    <2>1. UNCHANGED labels
      BY <1>3 DEF Alight
    <2>2. Climbs
      BY <1>1, <2>1 DEF Climbs, labels
    <2>3. Riding => NoGain(Scanned, scan.run, scan.pos, tau', bestTargetArrival')
      BY <1>1, <1>2, <1>3, <2>1 DEF Improves, NoGain, labels
    <2> QED
      BY <2>2, <2>3
  <1>4. CASE Riding /\ Improves(leg.arr, leg.to, bestTargetArrival)
    <2>1. /\ tau' = [tau EXCEPT ![leg.to] = leg.arr]
          /\ parents' = [parents EXCEPT ![k][leg.to] = ParentOf(leg, k - 1)]
          /\ marked' = marked \cup {leg.to}
          /\ bestTargetArrival' = IF leg.to = input.target THEN leg.arr ELSE bestTargetArrival
          /\ leg.arr < tau[leg.to] /\ leg.arr < bestTargetArrival
      BY <1>1, <1>4 DEF Alight, Improves
    <2>2. Fresh(input.source, parents, k - 1, leg.from)
      <3>1. ~NoGain(Scanned, scan.run, scan.pos, tau, bestTargetArrival)
        BY <1>1, <1>2, <1>4, <2>1 DEF NoGain
      <3> QED
        BY <1>2, <1>4, <3>1
    <2> HIDE DEF leg
    <2>3. /\ tau'[leg.to] = leg.arr /\ parents'[k][leg.to] = ParentOf(leg, k - 1)
          /\ \A s \in Stops : s # leg.to => tau'[s] = tau[s]
      BY <1>1, <1>2, <1>4, <2>1
    <2>4. Fresh(input.source, parents', k - 1, leg.from)
      BY <1>1, <1>2, <1>4, <2>2, FreshBefore
    <2>5. leg.to # input.source
      <3>1. tau'[leg.to] < tau[leg.to] /\ leg.to \in Stops
        BY <1>2, <1>4, <2>1, <2>3
      <3>2. Recorded(leg.to) \/ tau'[leg.to] = tau[leg.to]
        BY <3>1 DEF Improvement
      <3> QED
        BY <1>1, <3>1, <3>2 DEF Recorded
    <2>6. Continues(input.source, parents', k, leg.to)
      BY <1>1, <1>2, <1>4, <2>3, <2>4, <2>5 DEF Continues, ParentOf
    <2>7. Climbs
      BY <1>1, <1>2, <1>4, <2>1, <2>3, <2>6 DEF Climbs
    <2>8. NoGain(Scanned, scan.run, scan.pos, tau', bestTargetArrival')
      BY <1>2, <1>4, <2>3 DEF NoGain
    <2> QED
      BY <2>7, <2>8
  <1> QED
    BY <1>3, <1>4

LEMMA RelaxClimbs ==
  ASSUME IInv, TypeInv', Improvement, MarkedInv, pc = "walk", NEW s \in todo, Relax(s),
         k' = k, input' = input
  PROVE  Climbs
  <1>1. /\ TypeInv /\ k \in 0..MaxRounds /\ s \in Stops /\ MidRound
        /\ tau \in [Stops -> Int] /\ tauBest = tau /\ tau' \in [Stops -> Int]
        /\ parents \in [0..MaxRounds -> [Stops -> Parent]]
        /\ bestTargetArrival \in Int
        /\ tau[input.source] = input.depTime /\ input.source \in Stops /\ input.depTime \in Int
    BY Numbers DEF IInv, LabelsInv, TypeInv, TypeOK, MidRound
  <1>2. Fresh(input.source, parents', k, s)
    <2>1. Fresh(input.source, parents, k, s)
      BY <1>1 DEF MarkedInv, InRound
    <2> QED
      BY <1>1, <2>1, FreshStays
  <1>3. bestTargetArrival' <= bestTargetArrival
    <2>1. CASE ReachesTarget(s)
      <3>1. input.target \in WalkFrom(s)
            /\ WalkArr(s, input.target) < bestTargetArrival
        BY <2>1 DEF ReachesTarget, Improves
      <3>2. input.foot[<<s, input.target>>] \in Nat
        BY <1>1, <3>1, WalkFacts DEF TypeInv, TypeOK
      <3> QED
        BY <1>1, <2>1, <3>1, <3>2 DEF Relax, WalkArr
    <2> QED
      BY <1>1, <2>1 DEF Relax
  <1>4. \A t \in Stops : tau'[t] < tau[t] <=> t \in Walks(s)
    <2>1. \A t \in Stops : t \notin Walks(s) => tau'[t] = tau[t]
      BY DEF Relax
    <2>2. \A t \in Walks(s) : tau'[t] < tau[t]
      BY <1>1, WalksFacts DEF Relax
    <2> QED
      BY <1>1, <2>1, <2>2
  <1>5. ASSUME NEW t \in Walks(s)
        PROVE  Continues(input.source, parents', k, t)
    <2>1. t \in Stops
      BY <1>1, WalksFacts
    <2>2. tau'[t] < tau[t]
      BY <1>4, <2>1
    <2>3. Recorded(t) \/ tau'[t] = tau[t]
      BY <2>1 DEF Improvement
    <2>4. t # input.source
      BY <1>1, <2>1, <2>2, <2>3 DEF Recorded
    <2> DEFINE leg == WalkLeg(s, t, tau[s], WalkArr(s, t))
    <2>5. parents'[k][t] = ParentOf(leg, k)
      BY <1>1, <2>1 DEF Relax
    <2>6. leg.run.trip = NoTrip /\ leg.from = s
      BY DEF WalkLeg, NoRun
    <2> HIDE DEF leg
    <2> QED
      BY <1>2, <2>4, <2>5, <2>6 DEF Continues, ParentOf
  <1>6. marked' = marked \cup Walks(s)
    BY DEF Relax
  <1> QED
    BY <1>3, <1>4, <1>5, <1>6 DEF Climbs

LEMMA ImprovementKeepsSettled ==
  ASSUME TypeInv, TypeInv', Improvement, Climbs, input' = input, tauPrev' = tauPrev,
         NEW pi \in DOMAIN input.patterns, NEW i \in DOMAIN input.patterns[pi].stops,
         SettledAt(pi, i)
  PROVE  SettledAt(pi, i)'
  <1>1. \A s \in Stops : tauPrev'[s] <= tauPrev[s] /\ tau'[s] <= tau[s]
    <2>1. \A s \in Stops : tau[s] \in Int /\ tau'[s] \in Int /\ tauPrev[s] \in Int
      BY Numbers DEF Improvement
    <2> QED
      BY <2>1 DEF Improvement
  <1> QED
    BY <1>1, SettledKept DEF Climbs

LEMMA ImprovementKeepsFrontier ==
  ASSUME TypeInv, TypeInv', Improvement, Climbs, FrontierInv, MidRound, k' = k, input' = input,
         tauPrev' = tauPrev
  PROVE  FrontierInv'
  <1>1. ASSUME NEW pi \in DOMAIN input.patterns, NEW i \in DOMAIN input.patterns[pi].stops,
               ~Fresh(input.source, parents', k - 1, input.patterns[pi].stops[i])
        PROVE  SettledAt(pi, i)'
    <2>1. input.patterns[pi].stops[i] \in Stops
      BY PatternFacts DEF TypeInv, TypeOK
    <2>2. ~Fresh(input.source, parents, k - 1, input.patterns[pi].stops[i])
      BY <1>1, <2>1, FreshBefore
    <2> QED
      BY <2>2, ImprovementKeepsSettled DEF FrontierInv
  <1> QED
    BY <1>1 DEF FrontierInv

LEMMA ImprovementKeepsQueue ==
  ASSUME TypeInv, Improvement, QueueInv, MidRound, k' = k, input' = input, queue' = queue
  PROVE  QueueInv'
  <1>1. ASSUME NEW e \in queue, NEW m \in 1..(e[2] - 1)
        PROVE  ~Fresh(input.source, parents', k - 1, input.patterns[e[1]].stops[m])
    <2>1. e[1] \in DOMAIN input.patterns /\ e[2] \in DOMAIN input.patterns[e[1]].stops
      BY DEF TypeInv, TypeOK
    <2>2. /\ DOMAIN input.patterns[e[1]].stops = 1..Len(input.patterns[e[1]].stops)
          /\ Len(input.patterns[e[1]].stops) \in Nat
          /\ \A i \in DOMAIN input.patterns[e[1]].stops : input.patterns[e[1]].stops[i] \in Stops
      BY <2>1, PatternFacts DEF TypeInv, TypeOK
    <2>3. m \in DOMAIN input.patterns[e[1]].stops
      BY <2>1, <2>2
    <2>4. ~Fresh(input.source, parents, k - 1, input.patterns[e[1]].stops[m])
      BY DEF QueueInv
    <2> QED
      BY <2>2, <2>3, <2>4, FreshBefore
  <1> QED
    BY <1>1 DEF QueueInv

-----------------------------------------------------------------------------
(***************************************************************************)
(* The steps of a scan.                                                    *)
(***************************************************************************)
(* The scan goes on in the seat it has, as there is no run to change to.   *)
StaysHere ==
  /\ \A r \in Runs(Scanned) :
       EarliestTrip(Scanned, scan.pos, tauPrev[Scanned.stops[scan.pos]], r) =>
         Riding /\ ~(Departure(Scanned, r, scan.pos) < Departure(Scanned, scan.run, scan.pos))
  /\ pc' = "scan" => scan'.run = scan.run /\ scan'.boardPos = scan.boardPos

(* The scan goes on in run r, boarded here. *)
BoardsHere(r) ==
  /\ EarliestTrip(Scanned, scan.pos, tauPrev[Scanned.stops[scan.pos]], r)
  /\ Riding => Departure(Scanned, r, scan.pos) < Departure(Scanned, scan.run, scan.pos)
  /\ pc' = "scan" => scan'.run = r /\ scan'.boardPos = scan.pos

LEMMA ScanStopTurns ==
  ASSUME TypeInv, ScanStop
  PROVE  /\ StaysHere \/ \E r \in Runs(Scanned) : BoardsHere(r)
         /\ \/ /\ pc' = "scan" /\ scan'.pattern = scan.pattern /\ scan'.pos = scan.pos + 1
            \/ /\ pc' = "pick" /\ scan.pos = Len(Scanned.stops)
  <1>1. /\ scan \in [pattern : Nat, pos : Nat, run : Run, boardPos : Nat, boardDep : Int]
        /\ scan.pos \in DOMAIN Scanned.stops /\ PatternOK(Scanned)
        /\ DOMAIN Scanned.stops = 1..Len(Scanned.stops) /\ Len(Scanned.stops) \in Nat
        /\ Infinity \in Nat
    BY PatternFacts, Numbers DEF TypeInv, TypeOK, RoundsInv, ScanStop, Scanned
  <1>2. CASE Board(Scanned)
    <2>1. PICK r \in Runs(Scanned) :
            /\ Boards(Scanned, r)
            /\ ScanOn(Scanned, [scan EXCEPT !.run = r, !.boardPos = scan.pos,
                                 !.boardDep = Departure(Scanned, r, scan.pos)])
      BY <1>2 DEF Board
    <2> DEFINE next == [scan EXCEPT !.run = r, !.boardPos = scan.pos,
                                    !.boardDep = Departure(Scanned, r, scan.pos)]
    <2>2. next.pattern = scan.pattern /\ next.run = r /\ next.boardPos = scan.pos
          /\ \A n : [next EXCEPT !.pos = n].pattern = next.pattern
                    /\ [next EXCEPT !.pos = n].run = next.run
                    /\ [next EXCEPT !.pos = n].boardPos = next.boardPos
                    /\ [next EXCEPT !.pos = n].pos = n
      BY <1>1
    <2> HIDE DEF next
    <2>3. ScanOn(Scanned, next)
      BY <2>1 DEF next
    <2>4. \/ /\ pc' = "scan" /\ scan'.pattern = scan.pattern /\ scan'.pos = scan.pos + 1
             /\ scan'.run = r /\ scan'.boardPos = scan.pos
          \/ pc' = "pick" /\ scan.pos = Len(Scanned.stops)
      <3>1. CASE scan.pos < Len(Scanned.stops)
        BY <2>2, <2>3, <3>1 DEF ScanOn
      <3>2. CASE ~(scan.pos < Len(Scanned.stops))
        <4>1. scan.pos = Len(Scanned.stops)
          BY <1>1, <3>2
        <4> QED
          BY <2>3, <3>2, <4>1 DEF ScanOn
      <3> QED
        BY <3>1, <3>2
    <2>5. BoardsHere(r)
      BY <2>1, <2>4 DEF BoardsHere, Boards, Ready
    <2> QED
      BY <2>1, <2>4, <2>5
  <1>3. CASE StayOn(Scanned)
    <2>1. \/ /\ pc' = "scan" /\ scan'.pattern = scan.pattern /\ scan'.pos = scan.pos + 1
             /\ scan'.run = scan.run /\ scan'.boardPos = scan.boardPos
          \/ pc' = "pick" /\ scan.pos = Len(Scanned.stops)
      BY <1>1, <1>3 DEF StayOn, ScanOn
    <2>2. ASSUME NEW r \in Runs(Scanned),
                 EarliestTrip(Scanned, scan.pos, tauPrev[Scanned.stops[scan.pos]], r)
          PROVE  Riding /\ ~(Departure(Scanned, r, scan.pos) < Departure(Scanned, scan.run, scan.pos))
      <3>1. tauPrev[Scanned.stops[scan.pos]] # Infinity
        <4>1. Departure(Scanned, r, scan.pos) \in Int
          BY <1>1, RunsType
        <4> QED
          BY <1>1, <2>2, <4>1 DEF EarliestTrip, Catchable
      <3> QED
        BY <1>3, <2>2, <3>1 DEF StayOn, Boards, Ready
    <2>3. StaysHere
      BY <2>1, <2>2 DEF StaysHere
    <2> QED
      BY <2>1, <2>3
  <1> QED
    BY <1>2, <1>3 DEF ScanStop

(***************************************************************************)
(* What every later argument about the step of a scan starts from.         *)
(***************************************************************************)
LEMMA ScanStopFacts ==
  ASSUME IInv, IInv', TiesStay(input), Ladder, ScanStop
  PROVE  /\ UNCHANGED <<input, k, queue, todo, tauPrev, trace, journeys>>
         /\ pc = "scan" /\ MidRound /\ MidRound' /\ pc' \in {"scan", "pick"}
         /\ TypeInv /\ TypeInv' /\ Improvement /\ Climbs
         /\ scan.pattern \in DOMAIN input.patterns
         /\ PatternOK(Scanned) /\ NoTiedMerge(Scanned) /\ NoEarlyLeave(Scanned)
         /\ scan.pos \in DOMAIN Scanned.stops
         /\ DOMAIN Scanned.stops = 1..Len(Scanned.stops) /\ Len(Scanned.stops) \in Nat
         /\ \A i \in DOMAIN Scanned.stops : Scanned.stops[i] \in Stops
         /\ tau \in [Stops -> Int] /\ tau' \in [Stops -> Int] /\ tauPrev \in [Stops -> Int]
         /\ bestTargetArrival \in Int /\ bestTargetArrival' \in Int
         /\ bestTargetArrival' <= bestTargetArrival
         /\ \A s \in Stops : tau'[s] <= tau[s]
         /\ \A s \in Stops : s \in marked => s \in marked'
         /\ Riding => /\ scan.run \in Runs(Scanned)
                      /\ NoGain(Scanned, scan.run, scan.pos, tau', bestTargetArrival')
                      /\ Departure(Scanned, scan.run, scan.pos) >= 0
                      /\ scan.boardPos \in DOMAIN Scanned.stops
  <1>1. /\ UNCHANGED <<input, k, queue, todo, tauPrev, trace, journeys>>
        /\ pc = "scan" /\ MidRound /\ MidRound' /\ pc' \in {"scan", "pick"}
        /\ TypeInv /\ TypeInv' /\ Alight(Scanned)
    BY ScanStopMoves DEF IInv, ScanStop, MidRound
  <1>2. Improvement
    BY <1>1, AlightImproves
  <1>3. Climbs /\ (Riding => NoGain(Scanned, scan.run, scan.pos, tau', bestTargetArrival'))
    <2>1. Riding /\ ~NoGain(Scanned, scan.run, scan.pos, tau, bestTargetArrival)
            => Fresh(input.source, parents, k - 1, Scanned.stops[scan.boardPos])
      <3>1. scan.pos \in DOMAIN Scanned.stops /\ scan.pos \in Int
        BY <1>1 DEF TypeInv, TypeOK, RoundsInv
      <3>2. StaysOn(Scanned, scan.run, scan.pos, scan.pos, tauPrev)
        BY <3>1 DEF StaysOn
      <3> QED
        BY <1>1, <3>1, <3>2 DEF Ladder, PendingInv, Fruitless
    <2> QED
      BY <1>1, <1>2, <2>1, AlightClimbs
  <1>4. /\ scan.pattern \in DOMAIN input.patterns
        /\ PatternOK(Scanned) /\ NoTiedMerge(Scanned) /\ NoEarlyLeave(Scanned)
        /\ scan.pos \in DOMAIN Scanned.stops
        /\ DOMAIN Scanned.stops = 1..Len(Scanned.stops) /\ Len(Scanned.stops) \in Nat
        /\ \A i \in DOMAIN Scanned.stops : Scanned.stops[i] \in Stops
    BY <1>1, PatternFacts DEF TypeInv, TypeOK, RoundsInv, Scanned, TiesStay
  <1>5. /\ tau \in [Stops -> Int] /\ tau' \in [Stops -> Int] /\ tauPrev \in [Stops -> Int]
        /\ bestTargetArrival \in Int /\ bestTargetArrival' \in Int
    BY <1>1 DEF TypeInv, TypeOK
  <1>6. \A s \in Stops : tau'[s] <= tau[s]
    BY <1>2, <1>5 DEF Improvement
  <1>7. ASSUME Riding
        PROVE  /\ scan.run \in Runs(Scanned) /\ scan.boardPos \in DOMAIN Scanned.stops
               /\ Departure(Scanned, scan.run, scan.pos) >= 0
    <2>1. /\ scan.run \in Runs(Scanned) /\ scan.boardPos \in 1..(scan.pos - 1)
          /\ scan.run \in Catchable(Scanned, scan.boardPos, input.depTime)
          /\ input.depTime \in Nat
      BY <1>1, <1>7, Numbers DEF IInv, ScanInv, TypeInv, RoundsInv
    <2>2. scan.boardPos \in DOMAIN Scanned.stops /\ scan.boardPos < scan.pos
      BY <1>4, <2>1
    <2>3. /\ Departure(Scanned, scan.run, scan.boardPos) >= input.depTime
          /\ Departure(Scanned, scan.run, scan.boardPos) <= Arrival(Scanned, scan.run, scan.pos)
          /\ Arrival(Scanned, scan.run, scan.pos) <= Departure(Scanned, scan.run, scan.pos)
      BY <1>4, <2>1, <2>2, RideForward DEF Catchable, NoEarlyLeave
    <2>4. /\ Departure(Scanned, scan.run, scan.boardPos) \in Int
          /\ Departure(Scanned, scan.run, scan.pos) \in Int
          /\ Arrival(Scanned, scan.run, scan.pos) \in Int
      BY <1>4, <2>1, <2>2, RunsType
    <2> QED
      BY <2>1, <2>2, <2>3, <2>4
  <1> QED
    BY <1>1, <1>2, <1>3, <1>4, <1>5, <1>6, <1>7 DEF Climbs

LEMMA ScanStopRungs ==
  ASSUME TypeInv, Improvement, Climbs, Rungs, ScanStop
  PROVE  Rungs'
  <1>1. /\ UNCHANGED <<input, k, queue, todo, tauPrev, trace, journeys>>
        /\ pc = "scan" /\ MidRound /\ MidRound' /\ pc' \in {"scan", "pick"}
    BY ScanStopMoves DEF ScanStop, MidRound
  <1>2. StepwiseInv' /\ MarkedInv' /\ QueueInv'
    BY <1>1, ImprovementKeepsStepwise, ImprovementKeepsMarked, ImprovementKeepsQueue DEF Rungs
  <1>3. RidesInv'
    BY <1>1 DEF Rungs, RidesInv, InRound
  <1> QED
    BY <1>2, <1>3 DEF Rungs

(* The run the rider sits in after the step. *)
GoesOnIn(n) ==
  \/ n = scan.run /\ StaysHere
  \/ n \in Runs(Scanned) /\ BoardsHere(n)

LEMMA ScanStopPending ==
  ASSUME IInv, IInv', TiesStay(input), Ladder, ScanStop, NEW n, GoesOnIn(n),
         NEW i \in 1..scan.pos, Scanned.stops[i] \notin marked'
  PROVE  Pending(Scanned, i, tauPrev, tau', bestTargetArrival', n, scan.pos + 1)
  <1> DEFINE p == Scanned  q == scan.run  pos == scan.pos  best == bestTargetArrival
             least == bestTargetArrival'  later == tau'
  <1>1. /\ PatternOK(p) /\ NoTiedMerge(p) /\ NoEarlyLeave(p)
        /\ pos \in DOMAIN p.stops
        /\ DOMAIN p.stops = 1..Len(p.stops) /\ Len(p.stops) \in Nat
        /\ \A m \in DOMAIN p.stops : p.stops[m] \in Stops
        /\ tau \in [Stops -> Int] /\ later \in [Stops -> Int] /\ tauPrev \in [Stops -> Int]
        /\ best \in Int /\ least \in Int /\ least <= best
        /\ \A s \in Stops : later[s] <= tau[s]
        /\ q.trip # NoTrip => /\ q \in Runs(p) /\ NoGain(p, q, pos, later, least)
                              /\ Departure(p, q, pos) >= 0
    <2>1. /\ PatternOK(p) /\ NoTiedMerge(p) /\ NoEarlyLeave(p)
          /\ pos \in DOMAIN p.stops
          /\ DOMAIN p.stops = 1..Len(p.stops) /\ Len(p.stops) \in Nat
          /\ \A m \in DOMAIN p.stops : p.stops[m] \in Stops
      BY ScanStopFacts
    <2>2. /\ tau \in [Stops -> Int] /\ later \in [Stops -> Int] /\ tauPrev \in [Stops -> Int]
          /\ best \in Int /\ least \in Int /\ least <= best
          /\ \A s \in Stops : later[s] <= tau[s]
      BY ScanStopFacts
    <2>3. Riding => /\ q \in Runs(p) /\ NoGain(p, q, pos, later, least)
                    /\ Departure(p, q, pos) >= 0
      BY ScanStopFacts
    <2> QED
      BY <2>1, <2>2, <2>3 DEF Riding
  <1>2. CASE i \in 1..(pos - 1)
    <2>1. p.stops[i] \in Stops
      BY <1>1, <1>2
    <2>2. p.stops[i] \notin marked
      BY <2>1, ScanStopFacts
    <2>3. Pending(p, i, tauPrev, tau, best, q, pos)
      BY <1>2, <2>2, ScanStopFacts DEF Ladder, PendingInv
    <2>4. \/ n = q
          \/ /\ n \in Catchable(p, pos, tauPrev[p.stops[pos]])
             /\ Departure(p, n, pos) < Infinity
             /\ q.trip # NoTrip => Departure(p, n, pos) < Departure(p, q, pos)
      BY DEF GoesOnIn, BoardsHere, EarliestTrip, Riding
    <2> HIDE DEF p, q, pos, best, least, later
    <2>5. Pending(p, i, tauPrev, later, least, n, pos + 1)
      BY <1>1, <1>2, <2>3, <2>4, ScanKeepsPending
    <2> QED
      BY <2>5 DEF p, q, pos, best, least, later
  <1>3. CASE i = pos
    <2>1. later[p.stops[pos]] = tauPrev[p.stops[pos]]
      <3>1. MarkedInv'
        BY ScanStopFacts, ImprovementKeepsMarked DEF Ladder, Rungs
      <3>2. p.stops[pos] \in Stops /\ tauPrev' = tauPrev
        BY <1>1, ScanStopFacts
      <3> QED
        BY <1>3, <3>1, <3>2, ScanStopFacts DEF MarkedInv, InRound
    <2>2. \/ /\ n = q
             /\ \A r \in Runs(p) : EarliestTrip(p, pos, tauPrev[p.stops[pos]], r) =>
                  q.trip # NoTrip /\ ~(Departure(p, r, pos) < Departure(p, q, pos))
          \/ n \in Runs(p) /\ EarliestTrip(p, pos, tauPrev[p.stops[pos]], n)
      BY DEF GoesOnIn, StaysHere, BoardsHere, Riding
    <2> HIDE DEF p, q, pos, best, least, later
    <2>3. Pending(p, pos, tauPrev, later, least, n, pos + 1)
      BY <1>1, <2>1, <2>2, ScanSettlesHere
    <2> QED
      BY <1>3, <2>3 DEF p, q, pos, best, least, later
  <1>4. i \in 1..(pos - 1) \/ i = pos
    <2>1. pos \in Nat
      BY <1>1
    <2> QED
      BY <2>1
  <1> QED
    BY <1>2, <1>3, <1>4

(***************************************************************************)
(* The rider boarded at a stop of the round before, or rides in vain.      *)
(***************************************************************************)
LEMMA ScanStopRides ==
  ASSUME IInv, IInv', TiesStay(input), Ladder, ScanStop, pc' = "scan", Riding',
         NEW n, GoesOnIn(n)
  PROVE  \/ Fresh(input.source, parents', k - 1, Scanned.stops[scan'.boardPos])
         \/ Fruitless(Scanned, n, scan.pos + 1, tauPrev, tau', bestTargetArrival')
  <1> DEFINE p == Scanned  q == scan.run  pos == scan.pos  best == bestTargetArrival
             least == bestTargetArrival'  later == tau'
  <1>1. /\ PatternOK(p) /\ pos \in DOMAIN p.stops
        /\ \A m \in DOMAIN p.stops : p.stops[m] \in Stops
        /\ tau \in [Stops -> Int] /\ later \in [Stops -> Int] /\ tauPrev \in [Stops -> Int]
        /\ best \in Int /\ least \in Int /\ least <= best
        /\ \A s \in Stops : later[s] <= tau[s]
        /\ TypeInv /\ Improvement /\ MidRound
        /\ Riding => q \in Runs(p) /\ scan.boardPos \in DOMAIN p.stops
    BY ScanStopFacts
  <1>2. CASE n = scan.run /\ StaysHere
    <2>1. scan'.run = scan.run /\ scan'.boardPos = scan.boardPos /\ Riding
      BY <1>2 DEF StaysHere, Riding
    <2>2. CASE Fresh(input.source, parents, k - 1, p.stops[scan.boardPos])
      BY <1>1, <2>1, <2>2, FreshBefore
    <2>3. CASE Fruitless(p, q, pos, tauPrev, tau, best)
      <3>1. ~Beaten(p, q, pos, tauPrev)
        <4> SUFFICES ASSUME Beaten(p, q, pos, tauPrev) PROVE FALSE
          OBVIOUS
        <4> HIDE DEF p, q, pos
        <4>1. PICK o \in Catchable(p, pos, tauPrev[p.stops[pos]]) :
                Departure(p, o, pos) < Infinity /\ Departure(p, o, pos) < Departure(p, q, pos)
          BY DEF Beaten
        <4>2. tauPrev[p.stops[pos]] \in Int
          BY <1>1
        <4>3. PICK r \in Runs(p) : /\ EarliestTrip(p, pos, tauPrev[p.stops[pos]], r)
                                   /\ Departure(p, r, pos) <= Departure(p, o, pos)
          BY <1>1, <4>1, <4>2, EarliestExists
        <4>4. o \in Runs(p)
          BY DEF Catchable
        <4>5. /\ Departure(p, r, pos) \in Int /\ Departure(p, o, pos) \in Int
              /\ Departure(p, q, pos) \in Int
          BY <1>1, <2>1, <4>4, RunsType
        <4>6. Departure(p, r, pos) < Departure(p, q, pos)
          BY <4>1, <4>3, <4>5
        <4> QED
          BY <1>2, <4>3, <4>6 DEF StaysHere, p, q, pos
      <3>2. q \in Runs(p)
        BY <1>1, <2>1
      <3> HIDE DEF p, q, pos, best, least, later
      <3>3. Fruitless(p, q, pos + 1, tauPrev, later, least)
        BY <1>1, <2>3, <3>1, <3>2, FruitlessRide
      <3> QED
        BY <1>2, <3>3 DEF p, q, pos, best, least, later
    <2> QED
      BY <2>1, <2>2, <2>3, ScanStopFacts DEF Ladder, PendingInv
  <1>3. CASE n \in Runs(Scanned) /\ BoardsHere(n)
    <2>1. scan'.boardPos = pos /\ EarliestTrip(p, pos, tauPrev[p.stops[pos]], n)
      BY <1>3 DEF BoardsHere
    <2>2. CASE Fresh(input.source, parents, k - 1, p.stops[pos])
      BY <1>1, <2>1, <2>2, FreshBefore
    <2>3. CASE ~Fresh(input.source, parents, k - 1, p.stops[pos])
      <3>1. Settled(p, pos, tauPrev, tau, best)
        BY <2>3, ScanStopFacts DEF Ladder, FrontierInv, SettledAt, Scanned
      <3> HIDE DEF p, q, pos, best, least, later
      <3>2. n \in Runs(p)
        BY <1>3 DEF p
      <3>3. Fruitless(p, n, pos + 1, tauPrev, later, least)
        BY <1>1, <2>1, <3>1, <3>2, FruitlessBoarding
      <3> QED
        BY <3>3 DEF p, q, pos, best, least, later
    <2> QED
      BY <2>2, <2>3
  <1> QED
    BY <1>2, <1>3 DEF GoesOnIn

LEMMA ScanStopLadder ==
  ASSUME IInv, IInv', TiesStay(input), Ladder, ScanStop
  PROVE  Ladder'
  <1>1. PICK n : GoesOnIn(n)
    BY ScanStopTurns DEF GoesOnIn, IInv
  <1>2. \/ /\ pc' = "scan" /\ scan'.pattern = scan.pattern /\ scan'.pos = scan.pos + 1
           /\ scan'.run = n /\ Scanned' = Scanned
        \/ pc' = "pick" /\ scan.pos = Len(Scanned.stops)
    <2>1. pc' = "scan" => scan'.run = n
      BY <1>1 DEF GoesOnIn, StaysHere, BoardsHere
    <2>2. input' = input
      BY ScanStopFacts
    <2> QED
      BY <2>1, <2>2, ScanStopTurns DEF IInv, Scanned
  <1>3. Rungs'
    BY ScanStopFacts, ScanStopRungs DEF Ladder
  <1>4. PendingInv'
    <2> SUFFICES ASSUME pc' = "scan" PROVE PendingInv'
      BY DEF PendingInv
    <2>1. /\ scan'.pattern = scan.pattern /\ scan'.pos = scan.pos + 1
          /\ scan'.run = n /\ Scanned' = Scanned
          /\ input' = input /\ k' = k /\ tauPrev' = tauPrev
          /\ scan.pos \in Nat
      <3>1. scan.pos \in Nat
        BY ScanStopFacts
      <3> QED
        BY <1>2, <3>1, ScanStopFacts
    <2>2. ASSUME NEW i \in 1..(scan'.pos - 1), Scanned.stops[i] \notin marked'
          PROVE  Pending(Scanned, i, tauPrev, tau', bestTargetArrival', n, scan.pos + 1)
      <3>1. i \in 1..scan.pos
        BY <2>1
      <3> QED
        BY <1>1, <2>2, <3>1, ScanStopPending
    <2>3. Riding' =>
            \/ Fresh(input.source, parents', k - 1, Scanned.stops[scan'.boardPos])
            \/ Fruitless(Scanned, n, scan.pos + 1, tauPrev, tau', bestTargetArrival')
      BY <1>1, ScanStopRides
    <2> QED
      BY <2>1, <2>2, <2>3 DEF PendingInv
  <1>5. FrontierInv'
    BY ScanStopFacts, ImprovementKeepsFrontier DEF Ladder
  <1>6. SettledInv'
    <2> SUFFICES ASSUME NEW pi \in DOMAIN input.patterns, ScannedThrough(pi)',
                        NEW i \in DOMAIN input.patterns[pi].stops,
                        input.patterns[pi].stops[i] \notin marked'
                 PROVE  SettledAt(pi, i)'
      BY ScanStopFacts DEF SettledInv
    <2>1. /\ \A e \in queue : e[1] # pi
          /\ pc' = "scan" => pi # scan'.pattern
      BY ScanStopFacts DEF ScannedThrough
    <2>2. CASE pi # scan.pattern
      <3>1. ScannedThrough(pi)
        BY <2>1, <2>2, ScanStopFacts DEF ScannedThrough
      <3>2. input.patterns[pi].stops[i] \in Stops
        BY ScanStopFacts, PatternFacts DEF TypeInv, TypeOK
      <3>3. input.patterns[pi].stops[i] \notin marked
        BY <3>2, ScanStopFacts
      <3>4. SettledAt(pi, i)
        BY <3>1, <3>3 DEF Ladder, SettledInv
      <3> QED
        BY <3>4, ScanStopFacts, ImprovementKeepsSettled
    <2>3. CASE pi = scan.pattern
      <3>1. scan.pos = Len(Scanned.stops) /\ input.patterns[pi] = Scanned
        BY <1>2, <2>1, <2>3 DEF Scanned
      <3>2. i \in 1..scan.pos
        BY <3>1, ScanStopFacts
      <3>3. Pending(Scanned, i, tauPrev, tau', bestTargetArrival', n, scan.pos + 1)
        BY <1>1, <3>1, <3>2, ScanStopPending
      <3>4. Settled(Scanned, i, tauPrev, tau', bestTargetArrival')
        BY <3>1, <3>3, PendingIsSettled, ScanStopFacts
      <3>5. input' = input /\ tauPrev' = tauPrev
        BY ScanStopFacts
      <3> QED
        BY <3>1, <3>4, <3>5 DEF SettledAt
    <2> QED
      BY <2>2, <2>3
  <1> QED
    BY <1>3, <1>4, <1>5, <1>6 DEF Ladder

-----------------------------------------------------------------------------
(***************************************************************************)
(* The other steps.                                                        *)
(***************************************************************************)
LEMMA WalkFromStopFacts ==
  ASSUME IInv, IInv', Rungs, WalkFromStop
  PROVE  Improvement /\ Climbs /\ Rungs'
  <1>1. /\ UNCHANGED <<input, pc, k, queue, scan, tauPrev, trace, journeys>>
        /\ pc = "walk" /\ pc' = "walk" /\ MidRound /\ MidRound' /\ TypeInv /\ TypeInv'
    BY DEF IInv, WalkFromStop, MidRound
  <1>2. PICK s \in todo : Relax(s) /\ todo' = todo \ {s}
    BY DEF WalkFromStop
  <1>3. Improvement
    <2>1. s \in Stops
      BY <1>1 DEF TypeInv, TypeOK
    <2> QED
      BY <1>1, <1>2, <2>1, RelaxImproves
  <1>4. Climbs
    BY <1>1, <1>2, <1>3, RelaxClimbs DEF Rungs
  <1>5. StepwiseInv' /\ MarkedInv' /\ QueueInv'
    BY <1>1, <1>2, <1>3, <1>4, ImprovementKeepsStepwise, ImprovementKeepsMarked,
       ImprovementKeepsQueue DEF Rungs
  <1>6. RidesInv'
    BY <1>1 DEF Rungs, RidesInv, InRound
  <1> QED
    BY <1>3, <1>4, <1>5, <1>6 DEF Rungs

LEMMA WalkFromStopLadder ==
  ASSUME IInv, IInv', Ladder, WalkFromStop
  PROVE  Ladder'
  <1>1. /\ UNCHANGED <<input, pc, k, queue, scan, tauPrev, trace, journeys>>
        /\ pc = "walk" /\ pc' = "walk" /\ MidRound /\ MidRound' /\ TypeInv /\ TypeInv'
    BY DEF IInv, WalkFromStop, MidRound
  <1>2. Improvement /\ Rungs'
    BY WalkFromStopFacts DEF Ladder
  <1>3. Climbs
    BY WalkFromStopFacts DEF Ladder
  <1>4. FrontierInv'
    BY <1>1, <1>2, <1>3, ImprovementKeepsFrontier DEF Ladder
  <1>5. SettledInv'
    <2> SUFFICES ASSUME NEW pi \in DOMAIN input.patterns,
                        NEW i \in DOMAIN input.patterns[pi].stops,
                        input.patterns[pi].stops[i] \notin marked'
                 PROVE  SettledAt(pi, i)'
      BY <1>1 DEF SettledInv
    <2>1. input.patterns[pi].stops[i] \in Stops
      BY <1>1, PatternFacts DEF TypeInv, TypeOK
    <2>2. input.patterns[pi].stops[i] \notin marked
      BY <1>3, <2>1 DEF Climbs
    <2>3. SettledAt(pi, i)
      BY <1>1, <2>2 DEF Ladder, SettledInv, ScannedThrough
    <2> QED
      BY <1>1, <1>2, <1>3, <2>3, ImprovementKeepsSettled
  <1>6. PendingInv'
    BY <1>1 DEF Ladder, PendingInv
  <1> QED
    BY <1>2, <1>4, <1>5, <1>6 DEF Ladder

(* A pattern with a marked stop is queued, from its first one on. *)
LEMMA QueueCovers ==
  ASSUME TypeInv, NEW S, NEW pi \in DOMAIN input.patterns,
         NEW i \in DOMAIN input.patterns[pi].stops, input.patterns[pi].stops[i] \in S
  PROVE  \E e \in QueueOf(S) : e[1] = pi
  <1> DEFINE p == input.patterns[pi]
             T == {m \in DOMAIN p.stops : p.stops[m] \in S}
  <1>1. DOMAIN p.stops = 1..Len(p.stops) /\ Len(p.stops) \in Nat
    BY PatternFacts DEF TypeInv, TypeOK
  <1>2. T \subseteq Nat /\ T # {}
    BY <1>1
  <1>3. PICK n \in T : \A m \in T : ~(<<m, n>> \in OpToRel(<, Nat))
    BY <1>2, NatLessThanWellFounded, WFMin
  <1>4. \A m \in T : ~(m < n)
    BY <1>2, <1>3 DEF OpToRel
  <1>5. n \in DOMAIN p.stops /\ p.stops[n] \in S
    BY <1>3
  <1>6. \A j \in 1..(n - 1) : p.stops[j] \notin S
    <2> SUFFICES ASSUME NEW j \in 1..(n - 1), p.stops[j] \in S PROVE FALSE
      OBVIOUS
    <2>1. j \in T /\ j < n
      BY <1>1, <1>5
    <2> QED
      BY <1>4, <2>1
  <1>7. <<pi, n>> \in QueueOf(S)
    BY <1>5, <1>6 DEF QueueOf
  <1> QED
    BY <1>7

LEMMA StartRoundRungs ==
  ASSUME IInv, IInv', Rungs, StartRound
  PROVE  Rungs'
  <1>1. /\ UNCHANGED <<input, tau, tauPrev, tauBest, parents, scan, todo,
                       bestTargetArrival, trace, journeys>>
        /\ pc = "round" /\ pc' = "pick" /\ k' = k + 1 /\ k' \in 0..MaxRounds
        /\ queue' = QueueOf(marked) /\ marked' = {}
        /\ TypeInv /\ TypeInv' /\ k \in Nat /\ k' - 1 = k
    BY StartRoundType, Numbers DEF IInv, StartRound, MoreRounds
  <1>2. \A s \in Stops : s \in marked <=> Fresh(input.source, parents, k, s)
    BY <1>1 DEF Rungs, MarkedInv
  <1>3. StepwiseInv'
    BY <1>1 DEF Rungs, StepwiseInv
  <1>4. MarkedInv'
    <2>1. ASSUME NEW s \in Stops PROVE ~Fresh(input.source, parents, k + 1, s)
      <3>1. ~parents[k + 1][s].set
        BY <1>1 DEF IInv, ParentsInv, ParentOK
      <3> QED
        BY <1>1, <3>1 DEF Fresh
    <2>2. \A s \in Stops : tau[s] <= tauPrev[s] /\ tau[s] = tauPrev[s]
      BY <1>1, Numbers DEF Rungs, MarkedInv
    <2> QED
      BY <1>1, <2>1, <2>2 DEF MarkedInv, InRound, MidRound
  <1>5. QueueInv'
    <2>1. ASSUME NEW e \in QueueOf(marked), NEW m \in 1..(e[2] - 1)
          PROVE  ~Fresh(input.source, parents, k, input.patterns[e[1]].stops[m])
      <3>1. /\ e[1] \in DOMAIN input.patterns /\ e[2] \in DOMAIN input.patterns[e[1]].stops
            /\ input.patterns[e[1]].stops[m] \notin marked
        BY DEF QueueOf
      <3>2. /\ DOMAIN input.patterns[e[1]].stops = 1..Len(input.patterns[e[1]].stops)
            /\ Len(input.patterns[e[1]].stops) \in Nat
            /\ \A i \in DOMAIN input.patterns[e[1]].stops : input.patterns[e[1]].stops[i] \in Stops
        BY <1>1, <3>1, PatternFacts DEF TypeInv, TypeOK
      <3>3. m \in DOMAIN input.patterns[e[1]].stops
        BY <3>1, <3>2
      <3> QED
        BY <1>2, <3>1, <3>2, <3>3
    <2> QED
      BY <1>1, <2>1 DEF QueueInv
  <1>6. RidesInv'
    BY <1>1 DEF Rungs, RidesInv, InRound, MidRound
  <1> QED
    BY <1>3, <1>4, <1>5, <1>6 DEF Rungs

LEMMA StartRoundLadder ==
  ASSUME IInv, IInv', Ladder, StartRound
  PROVE  Ladder'
  <1>1. /\ UNCHANGED <<input, tau, tauPrev, tauBest, parents, scan, todo,
                       bestTargetArrival, trace, journeys>>
        /\ pc = "round" /\ pc' = "pick" /\ k' = k + 1 /\ k' \in 0..MaxRounds
        /\ queue' = QueueOf(marked) /\ marked' = {}
        /\ TypeInv /\ TypeInv' /\ k \in Nat /\ k' - 1 = k
    BY StartRoundType, Numbers DEF IInv, StartRound, MoreRounds
  <1>2. \A s \in Stops : s \in marked <=> Fresh(input.source, parents, k, s)
    BY <1>1 DEF Ladder, Rungs, MarkedInv
  <1>3. \A pi \in DOMAIN input.patterns : \A i \in DOMAIN input.patterns[pi].stops :
          /\ input.patterns[pi].stops[i] \in Stops
          /\ input.patterns[pi].stops[i] \notin marked => SettledAt(pi, i)'
    <2>1. ASSUME NEW pi \in DOMAIN input.patterns, NEW i \in DOMAIN input.patterns[pi].stops
          PROVE  input.patterns[pi].stops[i] \in Stops
      BY <1>1, PatternFacts DEF TypeInv, TypeOK
    <2> QED
      BY <1>1, <2>1 DEF Ladder, SettledInv, ScannedThrough, SettledAt
  <1>4. Rungs'
    BY StartRoundRungs DEF Ladder
  <1>5. FrontierInv'
    <2>1. \A pi \in DOMAIN input.patterns : \A i \in DOMAIN input.patterns[pi].stops :
            ~Fresh(input.source, parents, k, input.patterns[pi].stops[i]) => SettledAt(pi, i)'
      BY <1>2, <1>3
    <2> QED
      BY <1>1, <2>1 DEF FrontierInv
  <1>6. SettledInv'
    <2> SUFFICES ASSUME NEW pi \in DOMAIN input.patterns, ScannedThrough(pi)',
                        NEW i \in DOMAIN input.patterns[pi].stops
                 PROVE  SettledAt(pi, i)'
      BY <1>1 DEF SettledInv
    <2>1. \A e \in QueueOf(marked) : e[1] # pi
      BY <1>1 DEF ScannedThrough
    <2>2. input.patterns[pi].stops[i] \notin marked
      BY <1>1, <2>1, QueueCovers
    <2> QED
      BY <1>3, <2>2
  <1>7. PendingInv'
    BY <1>1 DEF PendingInv
  <1> QED
    BY <1>4, <1>5, <1>6, <1>7 DEF Ladder

LEMMA PickPatternRungs ==
  ASSUME Rungs, PickPattern
  PROVE  Rungs'
  <1>1. /\ UNCHANGED <<input, k, todo, labels, tauPrev, trace, journeys>>
        /\ pc = "pick" /\ pc' = "scan" /\ MidRound /\ MidRound' /\ queue' \subseteq queue
    BY DEF PickPattern, MidRound
  <1>2. StepwiseInv' /\ MarkedInv' /\ QueueInv' /\ RidesInv'
    BY <1>1 DEF Rungs, StepwiseInv, MarkedInv, QueueInv, RidesInv, InRound, labels
  <1> QED
    BY <1>2 DEF Rungs

LEMMA PickPatternLadder ==
  ASSUME IInv, IInv', Ladder, PickPattern
  PROVE  Ladder'
  <1>1. /\ UNCHANGED <<input, k, todo, labels, tauPrev, trace, journeys>>
        /\ pc = "pick" /\ pc' = "scan" /\ MidRound /\ MidRound'
        /\ TypeInv /\ TypeInv'
    BY DEF IInv, PickPattern, MidRound
  <1>2. PICK e \in queue : /\ queue' = queue \ {e}
                           /\ scan' = [IdleScan EXCEPT !.pattern = e[1], !.pos = e[2]]
    BY DEF PickPattern
  <1>3. scan'.pattern = e[1] /\ scan'.pos = e[2] /\ ~Riding'
    BY <1>2 DEF IdleScan, NoRun, Riding
  <1>4. e[1] \in DOMAIN input.patterns /\ e[2] \in DOMAIN input.patterns[e[1]].stops
    BY <1>1 DEF TypeInv, TypeOK
  <1>5. Rungs'
    BY PickPatternRungs DEF Ladder
  <1>6. FrontierInv'
    BY <1>1, <1>2 DEF Ladder, FrontierInv, SettledAt, labels
  <1>7. SettledInv'
    <2> SUFFICES ASSUME NEW pi \in DOMAIN input.patterns, ScannedThrough(pi)'
                 PROVE  ScannedThrough(pi)
      BY <1>1 DEF Ladder, SettledInv, SettledAt, labels
    <2> QED
      BY <1>1, <1>2, <1>3 DEF ScannedThrough
  <1>8. PendingInv'
    <2>1. ASSUME NEW i \in 1..(e[2] - 1)
          PROVE  Pending(input.patterns[e[1]], i, tauPrev, tau, bestTargetArrival, scan'.run, e[2])
      <3>1. /\ DOMAIN input.patterns[e[1]].stops = 1..Len(input.patterns[e[1]].stops)
            /\ Len(input.patterns[e[1]].stops) \in Nat
        BY <1>1, <1>4, PatternFacts DEF TypeInv, TypeOK
      <3>2. i \in DOMAIN input.patterns[e[1]].stops
        BY <1>4, <3>1
      <3>3. SettledAt(e[1], i)
        BY <1>1, <1>4, <3>2 DEF Ladder, Rungs, QueueInv, FrontierInv
      <3> QED
        BY <3>3, SettledIsPending DEF SettledAt
    <2> QED
      BY <1>1, <1>3, <2>1 DEF PendingInv, Scanned, labels
  <1> QED
    BY <1>5, <1>6, <1>7, <1>8 DEF Ladder

LEMMA StartWalkRungs ==
  ASSUME Rungs, StartWalk
  PROVE  Rungs'
  <1>1. /\ UNCHANGED <<input, k, queue, scan, labels, tauPrev, trace, journeys>>
        /\ pc = "pick" /\ pc' = "walk" /\ todo' = marked /\ MidRound /\ MidRound'
    BY DEF StartWalk, MidRound
  <1>2. StepwiseInv' /\ MarkedInv' /\ QueueInv' /\ RidesInv'
    BY <1>1 DEF Rungs, StepwiseInv, MarkedInv, QueueInv, RidesInv, InRound, labels
  <1> QED
    BY <1>2 DEF Rungs

LEMMA StartWalkLadder ==
  ASSUME Ladder, StartWalk
  PROVE  Ladder'
  <1>1. /\ UNCHANGED <<input, k, queue, scan, labels, tauPrev, trace, journeys>>
        /\ pc = "pick" /\ pc' = "walk" /\ queue = {} /\ todo' = marked
        /\ MidRound /\ MidRound'
    BY DEF StartWalk, MidRound
  <1>2. Rungs'
    BY StartWalkRungs DEF Ladder
  <1>3. FrontierInv'
    BY <1>1 DEF Ladder, FrontierInv, SettledAt, labels
  <1>4. \A pi \in DOMAIN input.patterns : ScannedThrough(pi)
    BY <1>1 DEF ScannedThrough
  <1>5. SettledInv'
    BY <1>1, <1>4 DEF Ladder, SettledInv, SettledAt, labels
  <1>6. PendingInv'
    BY <1>1 DEF PendingInv
  <1> QED
    BY <1>2, <1>3, <1>5, <1>6 DEF Ladder

-----------------------------------------------------------------------------
(***************************************************************************)
(* The rides of a journey are counted as its legs are found.               *)
(***************************************************************************)
LEMMA RidesFinite ==
  ASSUME NEW rev \in Seq(Leg)
  PROVE  /\ IsFiniteSet(TransitLegs(rev)) /\ Cardinality(TransitLegs(rev)) \in Nat
         /\ TransitLegs(rev) \subseteq 1..Len(rev)
  <1>1. TransitLegs(rev) \subseteq 1..Len(rev) /\ Len(rev) \in Nat
    BY DEF TransitLegs
  <1>2. IsFiniteSet(1..Len(rev))
    BY <1>1, FS_Interval
  <1> QED
    BY <1>1, <1>2, FS_Subset, FS_CardinalityType

LEMMA RidesAppended ==
  ASSUME NEW rev \in Seq(Leg), NEW leg \in Leg
  PROVE  Cardinality(TransitLegs(Append(rev, leg)))
           = Cardinality(TransitLegs(rev)) + IF leg.run.trip = NoTrip THEN 0 ELSE 1
  <1> DEFINE n == Len(rev)
             new == Append(rev, leg)
  <1>1. /\ n \in Nat /\ DOMAIN new = 1..(n + 1) /\ DOMAIN rev = 1..n /\ new[n + 1] = leg
        /\ \A i \in 1..n : new[i] = rev[i]
    OBVIOUS
  <1> HIDE DEF n, new
  <1>2. n + 1 \notin TransitLegs(rev)
    BY <1>1 DEF TransitLegs
  <1>3. TransitLegs(new) = IF leg.run.trip = NoTrip THEN TransitLegs(rev)
                           ELSE TransitLegs(rev) \cup {n + 1}
    BY <1>1 DEF TransitLegs
  <1> DEFINE T == TransitLegs(rev)
  <1>4. IsFiniteSet(T) /\ Cardinality(T) \in Nat
    BY RidesFinite
  <1> HIDE DEF T
  <1>5. Cardinality(T \cup {n + 1}) = Cardinality(T) + 1
    BY <1>2, <1>4, FS_AddElement DEF T
  <1> QED
    BY <1>3, <1>4, <1>5 DEF T, new

LEMMA RidesReversed ==
  ASSUME NEW rev \in Seq(Leg)
  PROVE  JourneyOf(rev).transfers = Cardinality(TransitLegs(rev)) - 1
  <1> DEFINE n == Len(rev)
             legs == [i \in 1..n |-> rev[n + 1 - i]]
             S == TransitLegs(rev)
             T == TransitLegs(legs)
             f == [i \in S |-> n + 1 - i]
  <1>1. /\ n \in Nat /\ legs \in Seq(Leg) /\ Len(legs) = n
        /\ \A i \in 1..n : n + 1 - i \in 1..n /\ legs[i] = rev[n + 1 - i]
    BY ReversedLegs
  <1>2. DOMAIN legs = 1..n /\ DOMAIN rev = 1..n
    OBVIOUS
  <1>3. JourneyOf(rev).transfers = Cardinality(T) - 1
    BY DEF JourneyOf
  <1>4. IsFiniteSet(S) /\ S \subseteq 1..n
    BY RidesFinite
  <1> HIDE DEF legs
  <1>5. \A i \in 1..n : i \in T <=> n + 1 - i \in S
    BY <1>1, <1>2 DEF TransitLegs
  <1>6. T \subseteq 1..n
    BY <1>2 DEF TransitLegs
  <1> HIDE DEF S, T, n
  <1>7. \A i \in S : i \in 1..n /\ n + 1 - i \in 1..n /\ n + 1 - (n + 1 - i) = i /\ n + 1 - i \in T
    <2> SUFFICES ASSUME NEW i \in S
                 PROVE i \in 1..n /\ n + 1 - i \in 1..n /\ n + 1 - (n + 1 - i) = i /\ n + 1 - i \in T
      OBVIOUS
    <2>1. i \in 1..n /\ n + 1 - i \in 1..n /\ n + 1 - (n + 1 - i) = i
      BY <1>1, <1>4
    <2> QED
      BY <1>5, <2>1
  <1>8. ExistsBijection(S, T)
    <2>1. f \in [S -> T]
      BY <1>7
    <2>2. \A a, b \in S : f[a] = f[b] => a = b
      BY <1>7
    <2>3. \A t \in T : \E s \in S : f[s] = t
      <3> SUFFICES ASSUME NEW t \in T PROVE \E s \in S : f[s] = t
        OBVIOUS
      <3>1. t \in 1..n /\ n + 1 - (n + 1 - t) = t
        BY <1>1, <1>6
      <3>2. n + 1 - t \in S
        BY <1>5, <3>1
      <3> QED
        BY <3>1, <3>2
    <2> HIDE DEF f
    <2>4. f \in Bijection(S, T)
      BY <2>1, <2>2, <2>3 DEF Bijection, Injection, Surjection, IsInjective
    <2> QED
      BY <2>4 DEF ExistsBijection
  <1>9. Cardinality(T) = Cardinality(S)
    BY <1>4, <1>8, FS_Bijection
  <1> QED
    BY <1>3, <1>9 DEF S

LEMMA TransfersAreNumbers ==
  ASSUME TypeInv
  PROVE  \A i \in DOMAIN journeys : journeys[i].transfers \in Int
  <1>1. journeys \in Seq(Journey)
    BY DEF TypeInv, TypeOK
  <1>2. \A i \in DOMAIN journeys : journeys[i] \in Journey
    BY <1>1
  <1> QED
    BY <1>2 DEF Journey

(***************************************************************************)
(* The labels are rolled: what was settled stays so, as only labels of     *)
(* marked stops have changed.                                              *)
(***************************************************************************)
LEMMA RollKeepsSettled ==
  ASSUME TypeInv, TypeInv', MarkedInv, SettledInv, input' = input, tauPrev' = tau, tau' = tau,
         bestTargetArrival' = bestTargetArrival, marked' = marked,
         pc \in {"walk", "reconstruct"}
  PROVE  SettledInv'
  <1> SUFFICES ASSUME NEW pi \in DOMAIN input.patterns,
                      NEW i \in DOMAIN input.patterns[pi].stops,
                      input.patterns[pi].stops[i] \notin marked
               PROVE  SettledAt(pi, i)'
    BY DEF SettledInv
  <1>1. SettledAt(pi, i)
    BY DEF SettledInv, ScannedThrough
  <1>2. \A s \in Stops : /\ tau[s] <= tauPrev[s] /\ tau[s] <= tau[s]
                         /\ s \notin marked => tau[s] = tauPrev[s]
    BY Numbers DEF MarkedInv, InRound, MidRound
  <1>3. input.patterns[pi].stops[i] \in Stops
    BY PatternFacts DEF TypeInv, TypeOK
  <1>4. bestTargetArrival' <= bestTargetArrival
    BY DEF TypeInv, TypeOK
  <1> QED
    BY <1>1, <1>2, <1>3, <1>4, SettledKept

LEMMA EndRoundRungs ==
  ASSUME IInv, IInv', Rungs, EndRound
  PROVE  Rungs'
  <1>1. /\ UNCHANGED <<input, k, queue, scan, todo, labels, journeys>>
        /\ pc = "walk" /\ MidRound /\ TypeInv /\ TypeInv'
        /\ k \in Nat /\ input.target \in Stops
    BY Numbers DEF IInv, EndRound, MidRound
  <1>2. StepwiseInv'
    BY <1>1 DEF Rungs, StepwiseInv, labels
  <1>3. CASE improvedTarget
    <2>1. /\ pc' = "reconstruct" /\ tauPrev' = tauPrev
          /\ trace' = [stop |-> input.target, round |-> k, rev |-> <<>>]
      BY <1>3 DEF EndRound, IdleTrace
    <2>2. MarkedInv' /\ QueueInv'
      BY <1>1, <2>1 DEF Rungs, MarkedInv, QueueInv, InRound, MidRound, labels
    <2>3. RidesInv'
      <3>1. Fresh(input.source, parents, k, input.target)
        BY <1>1, <1>3 DEF IInv, TargetInv, Fresh
      <3>2. Cardinality(TransitLegs(<<>>)) = 0
        <4>1. TransitLegs(<<>>) = {}
          BY DEF TransitLegs
        <4> QED
          BY <4>1, FS_EmptySet
      <3>3. Cardinality(TransitLegs(trace'.rev)) = k - trace'.round
        BY <1>1, <2>1, <3>2
      <3>4. Fresh(input.source, parents, trace'.round, trace'.stop)
        BY <2>1, <3>1
      <3> QED
        BY <1>1, <2>1, <3>3, <3>4 DEF Rungs, RidesInv, InRound, labels
    <2> QED
      BY <1>2, <2>2, <2>3 DEF Rungs
  <1>4. CASE ~improvedTarget
    <2>1. pc' = "round" /\ tauPrev' = tau
      BY <1>4 DEF EndRound
    <2>2. MarkedInv' /\ QueueInv'
      BY <1>1, <2>1 DEF Rungs, MarkedInv, QueueInv, InRound, MidRound, labels
    <2>3. RidesInv'
      <3>1. \A i \in DOMAIN journeys : journeys[i].transfers < k
        BY <1>1, TransfersAreNumbers DEF Rungs, RidesInv, InRound
      <3> QED
        BY <1>1, <2>1, <3>1 DEF Rungs, RidesInv, InRound, MidRound
    <2> QED
      BY <1>2, <2>2, <2>3 DEF Rungs
  <1> QED
    BY <1>3, <1>4

LEMMA EndRoundLadder ==
  ASSUME IInv, IInv', Ladder, EndRound
  PROVE  Ladder'
  <1>1. /\ UNCHANGED <<input, k, queue, scan, todo, labels, journeys>>
        /\ pc = "walk" /\ MidRound /\ TypeInv /\ TypeInv' /\ Rungs'
    BY EndRoundRungs DEF IInv, EndRound, MidRound, Ladder
  <1>2. \/ pc' = "reconstruct" /\ tauPrev' = tauPrev
        \/ pc' = "round" /\ tauPrev' = tau
    BY DEF EndRound
  <1>3. FrontierInv' /\ PendingInv'
    BY <1>2 DEF FrontierInv, PendingInv, MidRound
  <1>4. SettledInv'
    <2>1. CASE pc' = "reconstruct" /\ tauPrev' = tauPrev
      BY <1>1, <2>1 DEF Ladder, SettledInv, SettledAt, ScannedThrough, labels
    <2>2. CASE pc' = "round" /\ tauPrev' = tau
      BY <1>1, <2>2, RollKeepsSettled DEF Ladder, Rungs, labels
    <2> QED
      BY <1>2, <2>1, <2>2
  <1> QED
    BY <1>1, <1>3, <1>4 DEF Ladder

(***************************************************************************)
(* A stop of the trace was improved in the very round the trace is in, and *)
(* the leg that improved it continues that round or the one before.        *)
(***************************************************************************)
LEMMA FollowParentRungs ==
  ASSUME IInv, IInv', Rungs, FollowParent
  PROVE  Rungs'
  <1>1. /\ UNCHANGED <<input, k, queue, scan, todo, labels, tauPrev, journeys>>
        /\ pc = "reconstruct" /\ pc' \in {"noparent", "cycle", "reconstruct"}
        /\ trace.stop # input.source
        /\ trace.stop \in Stops /\ trace.round \in 0..MaxRounds /\ trace.rev \in Seq(Leg)
        /\ TypeInv /\ k \in Nat /\ MaxRounds \in Nat
    <2>1. TypeInv /\ k \in Nat /\ MaxRounds \in Nat
      BY Numbers DEF IInv
    <2>2. trace \in [stop : Stops, round : 0..MaxRounds, rev : Seq(Leg)]
      BY <2>1 DEF TypeInv, TypeOK
    <2> QED
      BY <2>1, <2>2 DEF FollowParent
  <1>2. StepwiseInv' /\ MarkedInv' /\ QueueInv'
    BY <1>1 DEF Rungs, StepwiseInv, MarkedInv, QueueInv, InRound, MidRound, labels
  <1>3. \A i \in DOMAIN journeys : journeys[i].transfers < k - 1 /\ journeys[i].transfers < k
    BY <1>1, TransfersAreNumbers DEF Rungs, RidesInv, InRound
  <1>4. ASSUME pc' = "reconstruct"
        PROVE  /\ Cardinality(TransitLegs(trace'.rev)) = k - trace'.round
               /\ Fresh(input.source, parents, trace'.round, trace'.stop)
    <2>1. PICK r \in 0..trace.round : Follows(r)
      BY <1>1, <1>4, FollowParentMoves
    <2> DEFINE p == parents[r][trace.stop]
    <2>2. /\ LastSet(trace.stop, trace.round, r)
          /\ trace' = [stop |-> p.leg.from, round |-> p.prevRound, rev |-> Append(trace.rev, p.leg)]
      BY <2>1 DEF Follows
    <2>3. /\ Cardinality(TransitLegs(trace.rev)) = k - trace.round
          /\ parents[trace.round][trace.stop].set
      BY <1>1 DEF Rungs, RidesInv, Fresh
    <2>4. r = trace.round
      <3>1. r \in Nat /\ trace.round \in Nat /\ r <= trace.round
        BY <1>1
      <3>2. ~(trace.round \in (r + 1)..trace.round)
        BY <2>2, <2>3 DEF LastSet
      <3> QED
        BY <3>1, <3>2
    <2>5. Continues(input.source, parents, r, trace.stop)
      BY <1>1, <2>3, <2>4 DEF Rungs, StepwiseInv
    <2>6. /\ p.leg.run.trip = NoTrip => p.prevRound = r
          /\ p.leg.run.trip # NoTrip => r > 0 /\ p.prevRound = r - 1
          /\ Fresh(input.source, parents, p.prevRound, p.leg.from)
      BY <2>5 DEF Continues
    <2>7. p.leg \in Leg
      BY <1>1, <2>4, Numbers
    <2> HIDE DEF p
    <2>8. trace'.rev = Append(trace.rev, p.leg) /\ trace'.round = p.prevRound
          /\ trace'.stop = p.leg.from
      BY <2>2
    <2>9. Cardinality(TransitLegs(trace'.rev))
            = Cardinality(TransitLegs(trace.rev)) + IF p.leg.run.trip = NoTrip THEN 0 ELSE 1
      BY <1>1, <2>7, <2>8, RidesAppended
    <2> QED
      BY <1>1, <2>3, <2>4, <2>6, <2>8, <2>9
  <1>5. RidesInv'
    <2>1. UNCHANGED <<input, parents, k, journeys>>
      BY <1>1 DEF labels
    <2>2. InRound' <=> pc' = "reconstruct"
      BY <1>1 DEF InRound, MidRound
    <2> QED
      BY <1>3, <1>4, <2>1, <2>2 DEF Rungs, RidesInv
  <1> QED
    BY <1>2, <1>5 DEF Rungs

LEMMA FollowParentLadder ==
  ASSUME IInv, IInv', Ladder, FollowParent
  PROVE  Ladder'
  <1>1. /\ UNCHANGED <<input, k, queue, scan, todo, labels, tauPrev, journeys>>
        /\ pc = "reconstruct" /\ pc' \in {"noparent", "cycle", "reconstruct"} /\ Rungs'
    BY FollowParentMoves, FollowParentRungs DEF FollowParent, IInv, Ladder, Follows
  <1>2. FrontierInv' /\ PendingInv'
    BY <1>1 DEF FrontierInv, PendingInv, MidRound
  <1>3. SettledInv'
    BY <1>1 DEF Ladder, SettledInv, SettledAt, ScannedThrough, labels
  <1> QED
    BY <1>1, <1>2, <1>3 DEF Ladder

LEMMA EmitJourneyRungs ==
  ASSUME IInv, IInv', Rungs, EmitJourney
  PROVE  /\ Rungs'
         /\ journeys' = Append(journeys, JourneyOf(trace.rev)) /\ pc' = "round" /\ tauPrev' = tau
         /\ JourneyOf(trace.rev) \in Journey /\ JourneyOf(trace.rev).transfers = k - 1
  <1> DEFINE j == JourneyOf(trace.rev)
             n == Len(journeys)
  <1>1. /\ UNCHANGED <<input, k, queue, scan, todo, labels>> /\ pc = "reconstruct"
        /\ trace.rev \in Seq(Leg) /\ journeys \in Seq(Journey)
        /\ trace.stop = input.source /\ trace.round \in 0..MaxRounds
        /\ input.source \in Stops
        /\ TypeInv /\ TypeInv' /\ k \in Nat /\ MaxRounds \in Nat
    <2>1. TypeInv /\ TypeInv' /\ k \in Nat /\ MaxRounds \in Nat /\ input.source \in Stops
      BY Numbers DEF IInv
    <2>2. /\ trace \in [stop : Stops, round : 0..MaxRounds, rev : Seq(Leg)]
          /\ journeys \in Seq(Journey)
      BY <2>1 DEF TypeInv, TypeOK
    <2> QED
      BY <2>1, <2>2 DEF EmitJourney
  <1>2. trace.rev # <<>>
    BY <1>1 DEF IInv, TraceInv, TraceOf, EmitJourney
  <1>3. journeys' = Append(journeys, j) /\ pc' = "round" /\ tauPrev' = tau
    BY <1>2 DEF EmitJourney
  <1>4. j \in Journey /\ j.transfers = k - 1
    <2>1. /\ Cardinality(TransitLegs(trace.rev)) = k - trace.round
          /\ Fresh(input.source, parents, trace.round, input.source)
      BY <1>1 DEF Rungs, RidesInv
    <2>2. ~parents[trace.round][input.source].set
      BY <1>1 DEF Rungs, StepwiseInv, Continues
    <2>3. trace.round = 0
      BY <2>1, <2>2 DEF Fresh
    <2>4. j.transfers = Cardinality(TransitLegs(trace.rev)) - 1
      BY <1>1, RidesReversed
    <2>5. j \in Journey
      BY <1>1, <1>2, JourneyOfType
    <2> HIDE DEF j
    <2> QED
      BY <1>1, <2>1, <2>3, <2>4, <2>5
  <1> HIDE DEF j
  <1>5. StepwiseInv' /\ MarkedInv' /\ QueueInv'
    BY <1>1, <1>3 DEF Rungs, StepwiseInv, MarkedInv, QueueInv, InRound, MidRound, labels
  <1>6. /\ n \in Nat /\ DOMAIN journeys' = 1..(n + 1) /\ DOMAIN journeys = 1..n
        /\ journeys'[n + 1] = j
        /\ \A i \in 1..n : journeys'[i] = journeys[i]
    BY <1>1, <1>3, <1>4
  <1>7. \A i \in 1..n : journeys[i].transfers < k - 1 /\ journeys[i].transfers \in Int
    BY <1>1, <1>6, TransfersAreNumbers DEF Rungs, RidesInv, InRound
  <1>8. \A a, b \in 1..n : a < b => journeys[a].transfers < journeys[b].transfers
    BY <1>6 DEF Rungs, RidesInv
  <1> HIDE DEF n
  <1>9. \A i \in DOMAIN journeys' : journeys'[i].transfers < k
    BY <1>1, <1>4, <1>6, <1>7
  <1>10. ASSUME NEW a \in DOMAIN journeys', NEW b \in DOMAIN journeys', a < b
         PROVE  journeys'[a].transfers < journeys'[b].transfers
    <2>1. a \in 1..n
      BY <1>6, <1>10
    <2>2. CASE b \in 1..n
      BY <1>6, <1>8, <1>10, <2>1, <2>2
    <2>3. CASE b = n + 1
      BY <1>4, <1>6, <1>7, <2>1, <2>3
    <2> QED
      BY <1>6, <2>2, <2>3
  <1>11. RidesInv'
    BY <1>1, <1>3, <1>9, <1>10 DEF RidesInv, InRound, MidRound
  <1> QED
    BY <1>3, <1>4, <1>5, <1>11 DEF Rungs, j

LEMMA EmitJourneyLadder ==
  ASSUME IInv, IInv', Ladder, EmitJourney
  PROVE  Ladder'
  <1>1. /\ UNCHANGED <<input, k, queue, scan, todo, labels>> /\ pc = "reconstruct"
        /\ TypeInv /\ TypeInv' /\ Rungs' /\ pc' = "round" /\ tauPrev' = tau
    BY EmitJourneyRungs DEF EmitJourney, IInv, Ladder
  <1>2. FrontierInv' /\ PendingInv'
    BY <1>1 DEF FrontierInv, PendingInv, MidRound
  <1>3. SettledInv'
    BY <1>1, RollKeepsSettled DEF Ladder, Rungs, labels
  <1> QED
    BY <1>1, <1>2, <1>3 DEF Ladder

(***************************************************************************)
(* After the seeding the only stops with a label are marked.               *)
(***************************************************************************)
LEMMA SeedRungs ==
  ASSUME IInv, IInv', Rungs, Seed
  PROVE  Rungs'
  <1>1. /\ UNCHANGED <<input, k, queue, scan, todo, bestTargetArrival, trace, journeys>>
        /\ pc = "seed" /\ pc' = "round" /\ k = 0 /\ tauPrev' = tau'
        /\ marked' = {input.source} \cup Seeds
        /\ InputOK(input) /\ input.source \in Stops /\ MaxRounds \in Nat /\ Infinity \in Nat
        /\ parents \in [0..MaxRounds -> [Stops -> Parent]]
        /\ \A r \in 0..MaxRounds, s \in Stops : ~parents[r][s].set
        /\ TypeInv'
    BY Numbers DEF IInv, TypeInv, TypeOK, RoundsInv, Seed
  <1>2. \A t \in Seeds : t \in Stops /\ t # input.source
    BY <1>1, WalkFacts DEF Seeds
  <1> DEFINE leg(t) == WalkLeg(input.source, t, input.depTime,
                         IF t = input.source THEN input.depTime
                         ELSE input.depTime + input.foot[<<input.source, t>>])
  <1>3. /\ \A s \in Seeds : parents'[0][s] = ParentOf(leg(s), 0)
        /\ \A s \in Stops : s \notin Seeds => parents'[0][s] = parents[0][s]
        /\ \A r \in 0..MaxRounds : r # 0 => parents'[r] = parents[r]
    BY <1>1, <1>2 DEF Seed
  <1>4. \A s \in Seeds : /\ parents'[0][s].set /\ parents'[0][s].prevRound = 0
                         /\ parents'[0][s].leg.from = input.source
                         /\ parents'[0][s].leg.run.trip = NoTrip
    <2>1. \A s \in Seeds : leg(s).from = input.source /\ leg(s).run.trip = NoTrip
      BY DEF WalkLeg, NoRun
    <2> HIDE DEF leg
    <2>2. \A s \in Seeds : /\ ParentOf(leg(s), 0).set /\ ParentOf(leg(s), 0).prevRound = 0
                           /\ ParentOf(leg(s), 0).leg = leg(s)
      BY DEF ParentOf
    <2> QED
      BY <1>3, <2>1, <2>2
  <1> HIDE DEF leg
  <1>5. ASSUME NEW r \in 0..MaxRounds, NEW s \in Stops, parents'[r][s].set
        PROVE  r = 0 /\ s \in Seeds
    BY <1>1, <1>3, <1>5
  <1>6. StepwiseInv'
    <2>1. Fresh(input.source, parents', 0, input.source)
      BY DEF Fresh
    <2>2. ASSUME NEW r \in 0..MaxRounds, NEW s \in Stops, parents'[r][s].set
          PROVE  Continues(input.source, parents', r, s)
      BY <1>2, <1>4, <1>5, <2>1, <2>2 DEF Continues
    <2> QED
      BY <1>1, <2>2 DEF StepwiseInv
  <1>7. MarkedInv'
    <2>1. ASSUME NEW s \in Stops
          PROVE  s \in marked' <=> Fresh(input.source, parents', 0, s)
      <3>1. 0 \in 0..MaxRounds
        BY <1>1
      <3> QED
        BY <1>1, <1>4, <1>5, <3>1 DEF Fresh
    <2> QED
      BY <1>1, <2>1 DEF MarkedInv, InRound, MidRound
  <1>8. QueueInv' /\ RidesInv'
    BY <1>1 DEF Rungs, QueueInv, RidesInv, InRound, MidRound
  <1> QED
    BY <1>6, <1>7, <1>8 DEF Rungs

LEMMA SeedLadder ==
  ASSUME IInv, IInv', Ladder, Seed
  PROVE  Ladder'
  <1>1. /\ input' = input /\ pc' = "round" /\ tauPrev' = tau' /\ Rungs'
        /\ marked' = {input.source} \cup Seeds
        /\ InputOK(input) /\ Infinity \in Nat
    BY SeedRungs, Numbers DEF IInv, Seed, Ladder
  <1>2. SettledInv'
    <2> SUFFICES ASSUME NEW pi \in DOMAIN input.patterns,
                        NEW i \in DOMAIN input.patterns[pi].stops,
                        input.patterns[pi].stops[i] \notin marked',
                        NEW r \in Runs(input.patterns[pi]),
                        EarliestTrip(input.patterns[pi], i, tauPrev'[input.patterns[pi].stops[i]], r)
                 PROVE  FALSE
      BY <1>1 DEF SettledInv, SettledAt, Settled
    <2>1. PatternOK(input.patterns[pi]) /\ input.patterns[pi].stops[i] \in Stops
      BY <1>1, PatternFacts
    <2>2. tauPrev'[input.patterns[pi].stops[i]] = Infinity
      BY <1>1, <2>1 DEF Seed
    <2>3. Departure(input.patterns[pi], r, i) \in Int
      BY <2>1, RunsType
    <2> QED
      BY <1>1, <2>2, <2>3 DEF EarliestTrip, Catchable
  <1>3. FrontierInv' /\ PendingInv'
    BY <1>1 DEF FrontierInv, PendingInv, MidRound
  <1> QED
    BY <1>1, <1>2, <1>3 DEF Ladder

LEMMA FinishRungs == Rungs /\ Finish => Rungs'
  BY DEF Finish, Rungs, StepwiseInv, MarkedInv, QueueInv, RidesInv, InRound, MidRound, labels

LEMMA FinishLadder == Ladder /\ Finish => Ladder'
  BY FinishRungs DEF Finish, Ladder, FrontierInv, SettledInv, ScannedThrough, PendingInv, MidRound

LEMMA StutterRungs == Rungs /\ UNCHANGED vars => Rungs'
  BY DEF vars, Rungs, StepwiseInv, MarkedInv, QueueInv, RidesInv, InRound, MidRound

LEMMA StutterLadder == Ladder /\ UNCHANGED vars => Ladder'
  <1> SUFFICES ASSUME Ladder, UNCHANGED vars PROVE Ladder'
    OBVIOUS
  <1>1. Rungs'
    BY StutterRungs DEF Ladder
  <1>2. FrontierInv' /\ SettledInv' /\ PendingInv'
    BY DEF vars, Ladder, FrontierInv, SettledInv, SettledAt, ScannedThrough, PendingInv, MidRound,
       Riding, Scanned
  <1> QED
    BY <1>1, <1>2 DEF Ladder

LEMMA LadderKept == IInv /\ IInv' /\ LadderInv /\ [Next]_vars => LadderInv'
  <1> SUFFICES ASSUME IInv, IInv', LadderInv, [Next]_vars, TiesStay(input)' PROVE Ladder'
    BY DEF LadderInv
  <1>1. input' = input
    BY DEF Next, vars, Seed, StartRound, Finish, PickPattern, ScanStop, StartWalk, WalkFromStop,
       EndRound, FollowParent, EmitJourney, Returned
  <1>2. TiesStay(input) /\ Ladder
    BY <1>1 DEF LadderInv
  <1> QED
    BY <1>2, SeedLadder, StartRoundLadder, FinishLadder, PickPatternLadder, ScanStopLadder,
       StartWalkLadder, WalkFromStopLadder, EndRoundLadder, FollowParentLadder,
       EmitJourneyLadder, StutterLadder DEF Next, Returned

LEMMA InitLadder == Init => LadderInv
  <1> SUFFICES ASSUME Init PROVE Ladder
    BY DEF LadderInv
  <1>1. RoundsInv
    BY InitType DEF TypeInv
  <1>2. StepwiseInv
    BY <1>1 DEF Init, RoundsInv, StepwiseInv
  <1> QED
    BY <1>2 DEF Init, Ladder, Rungs, MarkedInv, QueueInv, FrontierInv, SettledInv, ScannedThrough,
       PendingInv, RidesInv, InRound, MidRound

(***************************************************************************)
(* Journeys come in increasing order of transfers (raptor.go:79), on every *)
(* network whose runs stay together once they leave a stop together: the   *)
(* journey of round k has exactly k rides.                                 *)
(***************************************************************************)
THEOREM TransfersAlwaysIncrease == Spec => []TransfersIncrease
  <1>1. Init => LadderInv
    BY InitLadder
  <1>2. LadderInv => TransfersIncrease
    BY DEF LadderInv, Ladder, Rungs, RidesInv, TransfersIncrease
  <1> QED
    BY <1>1, <1>2, InvariantHolds, LadderKept, PTL DEF Spec

=============================================================================
