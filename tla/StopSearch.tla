----------------------------- MODULE StopSearch -----------------------------
(***************************************************************************)
(* internal/stopsearch: what a rider types, turned into a stop.            *)
(*                                                                         *)
(* A text is a sequence of characters.  Of a timetable, `ids` and `names`  *)
(* are texts by stop; Build numbers the stops in the order of their ids,   *)
(* so that a smaller stop is one with a smaller stop_id.                   *)
(***************************************************************************)
EXTENDS Integers, SequencesExt

CONSTANTS
  Chars,          \* the characters a text may hold
  Lower,          \* the lowercase form of every letter and digit
  ResolveLimit    \* how many candidates Resolve looks at

Space == " "

Text == Seq(Chars)

ASSUME StopSearchAssumption ==
  /\ ResolveLimit \in Nat \ {0, 1}
  /\ Space \in Chars
  /\ DOMAIN Lower \subseteq Chars \ {Space}
  /\ Lower \in [DOMAIN Lower -> Chars \ {Space}]

(* Mutant: a separator is dropped, so that "3/4" is read as "34". *)
NormalizeDropping(s) ==
  LET kept == SelectSeq(s, LAMBDA r : r \in DOMAIN Lower)
  IN  [n \in DOMAIN kept |-> Lower[kept[n]]]

(* Punctuation becomes a space, and no space starts, ends or follows one. *)
Normalize(s) ==
  LET out[n \in 0..Len(s)] ==
        LET b == out[n - 1]
        IN  IF n = 0 THEN <<>>
            ELSE IF s[n] \in DOMAIN Lower THEN Append(b, Lower[s[n]])
            ELSE IF b = <<>> \/ Last(b) = Space THEN b ELSE Append(b, Space)
      b == out[Len(s)]
  IN  IF b # <<>> /\ Last(b) = Space THEN Front(b) ELSE b

RankExact == 0
RankPrefix == 1
RankSubstring == 2
NoMatch == 3

RankOf(n, q) ==
  CASE n = q -> RankExact
    [] n # q /\ IsPrefix(q, n) -> RankPrefix
    [] ~IsPrefix(q, n) /\ \E i \in 1..Len(n) : IsPrefix(q, SubSeq(n, i, Len(n))) -> RankSubstring
    [] OTHER -> NoMatch

(* Better rank, then shorter name, then smaller stop_id. *)
Match(tt, q, i) == <<RankOf(Normalize(tt.names[i]), q), Len(tt.names[i]), i>>

Before(x, y) ==
  \E n \in 1..3 : x[n] < y[n] /\ \A l \in 1..(n - 1) : x[l] = y[l]

(* The hits for a query, best first, and no more than limit of them. *)
Search(tt, query, limit) ==
  LET q    == Normalize(query)
      all  == {Match(tt, q, i) : i \in {i \in DOMAIN tt.names : Normalize(tt.names[i]) # <<>>}}
      hits == IF q = <<>> THEN {} ELSE {m \in all : m[1] # NoMatch}
      n    == Cardinality(hits)
  IN  [place \in 1..(IF n < limit THEN n ELSE limit) |->
         CHOOSE m \in hits : Cardinality({l \in hits : Before(l, m)}) = place - 1]

TrimSpace(s) ==
  LET solid == {i \in DOMAIN s : s[i] # Space}
  IN  IF solid = {} THEN <<>> ELSE SubSeq(s, Min(solid), Max(solid))

StopsOf(matches) == [n \in DOMAIN matches |-> matches[n][3]]

Resolved(i) == [stop |-> i, err |-> "none", candidates |-> <<>>]

Unresolved(err, matches) == [stop |-> 0, err |-> err, candidates |-> StopsOf(matches)]

(* Mutant: the best of several equal matches is taken. *)
ResolveFirst(tt, input) ==
  LET trimmed == TrimSpace(input)
      matches == Search(tt, trimmed, ResolveLimit)
  IN  CASE trimmed = <<>> -> Unresolved("empty", <<>>)
        [] trimmed # <<>> /\ matches = <<>> -> Unresolved("notfound", <<>>)
        [] OTHER -> Resolved(matches[1][3])

(* A stop_id wins; a name must have one best match. *)
Resolve(tt, input) ==
  LET trimmed == TrimSpace(input)
      byId    == {i \in DOMAIN tt.ids : tt.ids[i] = trimmed}
      matches == Search(tt, trimmed, ResolveLimit)
      unique  == Len(matches) = 1 \/ matches[1][1] < matches[2][1]
  IN  IF trimmed = <<>> THEN Unresolved("empty", <<>>)
      ELSE IF byId # {} THEN Resolved(CHOOSE i \in byId : TRUE)
      ELSE IF matches = <<>> THEN Unresolved("notfound", <<>>)
      ELSE IF unique THEN Resolved(matches[1][3])
      ELSE Unresolved("ambiguous", matches)

=============================================================================
