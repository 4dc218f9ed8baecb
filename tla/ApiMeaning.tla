----------------------------- MODULE ApiMeaning -----------------------------
(***************************************************************************)
(* The right answers to a request, said without normalized texts, sorting  *)
(* and cut-off lists: by words, by the stops a text can mean, and by what  *)
(* a client reads in the reply.                                            *)
(***************************************************************************)
EXTENDS Api

(***************************************************************************)
(* The words of a text, and where they are found in those of a name.       *)
(***************************************************************************)
Words(s) ==
  LET solid   == {i \in DOMAIN s : s[i] \in DOMAIN Lower}
      starts  == {i \in solid : i - 1 \notin solid}
      end(i)  == Min({j \in solid : j >= i /\ j + 1 \notin solid})
      word(i) == [n \in 1..(end(i) - i + 1) |-> Lower[s[i + n - 1]]]
  IN  [n \in 1..Cardinality(starts) |->
         word(CHOOSE i \in starts : Cardinality({l \in starts : l < i}) = n - 1)]

(* The words w follow each other in n after its first k words: only before *)
(* the first and behind the last of them a word of n may go on.            *)
FoundAfter(w, n, k, mayPrecede) ==
  \A m \in DOMAIN w :
    \E a \in 0..(Len(n[k + m]) - Len(w[m])) :
      /\ SubSeq(n[k + m], a + 1, a + Len(w[m])) = w[m]
      /\ a # 0 => m = 1 /\ mayPrecede
      /\ a + Len(w[m]) # Len(n[k + m]) => m = Len(w)

Exactly(w, n) == w = n

Starts(w, n) == Len(w) <= Len(n) /\ FoundAfter(w, n, 0, FALSE)

Inside(w, n) == \E k \in 0..(Len(n) - Len(w)) : FoundAfter(w, n, k, TRUE)

Named(tt) == {i \in DOMAIN tt.names : Words(tt.names[i]) # <<>>}

Tier(tt, text, rank) ==
  LET w == Words(text)
      n(i) == Words(tt.names[i])
  IN  {i \in Named(tt) :
         /\ w # <<>>
         /\ CASE rank = 0 -> Exactly(w, n(i))
              [] rank = 1 -> Starts(w, n(i)) /\ ~Exactly(w, n(i))
              [] rank = 2 -> Inside(w, n(i)) /\ ~Starts(w, n(i))}

(* The stops a text stands for. *)
Means(tt, text) ==
  LET ids   == {i \in DOMAIN tt.ids : tt.ids[i] = TrimSpace(text)}
      tiers == {r \in 0..2 : Tier(tt, text, r) # {}}
  IN  IF ids # {} THEN ids ELSE IF tiers = {} THEN {} ELSE Tier(tt, text, Min(tiers))

-----------------------------------------------------------------------------
IsRef(tt, ref, i) == ref.id = tt.ids[i] /\ ref.name # <<>>

(* refs are stops in the order of preference, all there are up to a limit. *)
Preferred(tt, text, refs, limit) ==
  LET all    == UNION {Tier(tt, text, r) : r \in 0..2}
      rank(i) == CHOOSE r \in 0..2 : i \in Tier(tt, text, r)
      over(i, j) == \/ rank(i) < rank(j)
                    \/ rank(i) = rank(j) /\ Len(tt.names[i]) < Len(tt.names[j])
                    \/ rank(i) = rank(j) /\ Len(tt.names[i]) = Len(tt.names[j]) /\ i < j
  IN  /\ Len(refs) = Min({limit, Cardinality(all)})
      /\ \A n \in DOMAIN refs :
           \E i \in all : IsRef(tt, refs[n], i)
                          /\ Cardinality({j \in all : over(j, i)}) = n - 1

StopsAnswer(tt, ask, reply) ==
  IF TrimSpace(ask.q) = <<>> \/ ask.limit = Malformed \/ (ask.limit # Absent /\ ask.limit < 1)
  THEN reply.status = 400
  ELSE /\ reply.status = 200
       /\ Preferred(tt, ask.q, reply.stops,
                    Min({MaxStopLimit, IF ask.limit = Absent THEN DefaultStopLimit ELSE ask.limit}))

(* The time asked for fits the int32 that server.go:115 narrows it to, and *)
(* so does every time of a journey that starts then.                       *)
AtFits(ask) == Seconds(ask.at) < Width

TimesFit(ask) == AtFits(ask) /\ \A r \in Rides : Seconds(ask.at) + r[1] + r[2] < Width

(***************************************************************************)
(* A journey as a client reads it.                                         *)
(***************************************************************************)
ReadableTimes(ask, j) ==
  /\ IsTime(j.departure) /\ Seconds(j.departure) = j.departureSeconds
  /\ IsTime(j.arrival) /\ Seconds(j.arrival) = j.arrivalSeconds
  /\ Seconds(ask.at) <= j.departureSeconds
  /\ j.departureSeconds + j.durationSeconds = j.arrivalSeconds
  /\ j.nextDay <=> j.arrival[1] >= 24

Readable(tt, ask, from, to, j) ==
  /\ IsRef(tt, j.from, from) /\ IsRef(tt, j.to, to)
  /\ TimesFit(ask) => ReadableTimes(ask, j)

WellFormed(ask) ==
  /\ TrimSpace(ask.from) # <<>> /\ TrimSpace(ask.to) # <<>>
  /\ ask.at # <<>> /\ IsTime(ask.at)
  /\ ask.date \notin {NoDate, Malformed}

(* 400 for parameters that are malformed, missing or ambiguous, 404 for a  *)
(* stop that matches nothing, and 200 otherwise, with an explanation where *)
(* no service runs (server.go:79-83).  Where a service runs between two    *)
(* stops the server may fail on its own account, and on no other request   *)
(* (server.go:117-121).                                                    *)
RouteAnswer(tt, ask, reply) ==
  LET from == Means(tt, ask.from)
      to   == Means(tt, ask.to)
      hard == IF Cardinality(from) # 1 THEN from ELSE to
  IN  CASE ~WellFormed(ask) -> reply.status = 400
        [] WellFormed(ask) /\ hard = {} -> reply.status = 404
        [] WellFormed(ask) /\ Cardinality(hard) > 1 ->
             /\ reply.status = 400
             /\ Len(reply.candidates) > 1
             /\ \A n \in DOMAIN reply.candidates : \E i \in DOMAIN tt.ids : IsRef(tt, reply.candidates[n], i)
             /\ \A i \in hard : Cardinality(hard) <= ResolveLimit =>
                  \E n \in DOMAIN reply.candidates : IsRef(tt, reply.candidates[n], i)
        [] OTHER ->
          \/ reply.status = 500 /\ from # to /\ Trips(tt, ask.date)
          \/ /\ reply.status = 200
             /\ \A i \in from : IsRef(tt, reply.origin, i)
             /\ \A i \in to : IsRef(tt, reply.destination, i)
             /\ AtFits(ask) => Seconds(reply.departAfter) = Seconds(ask.at)
             /\ \A n \in DOMAIN reply.journeys, i \in from, k \in to :
                  Readable(tt, ask, i, k, reply.journeys[n])
             /\ ~Trips(tt, ask.date) => reply.note
             /\ reply.note => reply.journeys = <<>>

RightAnswer(tt, ask, reply) ==
  CASE ask.kind = "healthz" -> reply.status = 200
    [] ask.kind = "stops"   -> StopsAnswer(tt, ask, reply)
    [] ask.kind = "route"   -> RouteAnswer(tt, ask, reply)

(***************************************************************************)
(* What is understood of an answer: whether there is one, and then the     *)
(* journeys with the stops and the seconds their clocks name, the mark of  *)
(* the next day included.                                                  *)
(***************************************************************************)
Heard(answered, journeys) == [answered |-> answered, journeys |-> journeys]

Refused == Heard(FALSE, <<>>)

ReplyHeard(reply) ==
  LET read(j) == [from |-> j.from.name, to |-> j.to.name,
                  departure |-> Seconds(j.departure), arrival |-> Seconds(j.arrival)]
  IN  IF reply.status # 200 THEN Refused
      ELSE Heard(TRUE, [n \in DOMAIN reply.journeys |-> read(reply.journeys[n])])

PlanHeard(plan) ==
  LET time(p) == Seconds(p.clock) + (IF p.plus1d THEN DaySeconds ELSE 0)
      told(o) == [from |-> o.from, to |-> o.to,
                  departure |-> time(o.departure), arrival |-> time(o.arrival)]
  IN  IF plan.exit # 0 THEN Refused
      ELSE Heard(TRUE, [n \in DOMAIN plan.options |-> told(plan.options[n])])

(* The API may answer what cmd/route may print, reply included, and        *)
(* nothing else.                                                           *)
SamePlan(tt, ask, reply) ==
  {ReplyHeard(r) : r \in RouteReplies(tt, ask) \cup {reply}} = {PlanHeard(p) : p \in Plans(tt, ask)}

=============================================================================
