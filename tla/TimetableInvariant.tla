------------------------- MODULE TimetableInvariant -------------------------
(***************************************************************************)
(* Why the patterns of Build are what its callers rely on: the inductive   *)
(* invariant.                                                              *)
(***************************************************************************)
EXTENDS TimetableProperties

(* Pattern p holds only trips that were grouped, with its stops.           *)
GroupedOK(p) ==
  /\ IsFiniteSet(tripsByPattern[p])
  /\ \A trip \in tripsByPattern[p] :
       \E id \in Ridable(feed) \ todo :
         trip = TripIdx(feed, id) /\ patterns[p].stops = StopSeq(feed, id)

GroupingInv ==
  /\ pc = "group" => at.pattern = 1
  /\ \A p \in DOMAIN patterns : GroupedOK(p)
  /\ \A p, q \in DOMAIN patterns : p # q => patterns[p].stops # patterns[q].stops
  /\ \A id \in Ridable(feed) \ todo :
       \E p \in DOMAIN patterns : TripIdx(feed, id) \in tripsByPattern[p]

(* A pattern's slices are those its trips, in order, give.                 *)
LayoutOK(p) ==
  /\ patterns[p].trips \in Sorted(feed, tripsByPattern[p])
  /\ patterns[p] = LaidOutBy(feed, patterns[p].stops, patterns[p].trips)

LayoutInv == \A p \in LaidOut : LayoutOK(p)

TimetableIInv == TypeOK /\ GroupingInv /\ LayoutInv

-----------------------------------------------------------------------------
(* The visits that the index has been told of when Build is at `place`.    *)
Indexed(p, i, place) == p < place.pattern \/ (p = place.pattern /\ i < place.pos)

(* The entries of stop s are the visits to it so far, in their order.      *)
EntriesOK(s, pats, entries, place) ==
  /\ entries \in Seq([pattern : Nat, pos : Nat])
  /\ \A k \in DOMAIN entries :
       \E p \in DOMAIN pats : \E i \in DOMAIN pats[p].stops :
         pats[p].stops[i] = s /\ Indexed(p, i, place) /\ entries[k] = Visit(p, i)
  /\ \A p \in DOMAIN pats : \A i \in DOMAIN pats[p].stops :
       pats[p].stops[i] = s /\ Indexed(p, i, place) => \E k \in DOMAIN entries : entries[k] = Visit(p, i)
  /\ \A k, l \in DOMAIN entries : k < l => Earlier(entries[k], entries[l])

IndexInv ==
  /\ pc \in {"group", "layout"} => \A s \in DOMAIN stopPatterns : stopPatterns[s] = <<>>
  /\ pc \in {"index", "panic", "done"} =>
       /\ \A s \in DOMAIN stopPatterns : EntriesOK(s, patterns, stopPatterns[s], at)
       /\ \A p \in DOMAIN patterns : \A i \in DOMAIN patterns[p].stops :
            Indexed(p, i, at) => patterns[p].stops[i] \in DOMAIN stopPatterns
  /\ pc = "done" => at.pattern > Len(patterns)

=============================================================================
