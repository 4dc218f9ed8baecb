------------------------------ MODULE MCServer ------------------------------
(***************************************************************************)
(* Servers to start: one whose two clients ask for this and that, many     *)
(* with one client that asks one thing, and many without clients whose     *)
(* stops lie here and there.                                               *)
(***************************************************************************)
EXTENDS ServerProperties

CONSTANTS c1, c2

MCClients == {c1, c2}

MCChars == {"a", "b", "A", "1", " ", "&", "/"}

MCLower == [ch \in {"a", "b", "A", "1"} |-> IF ch = "A" THEN "a" ELSE ch]

-----------------------------------------------------------------------------
(***************************************************************************)
(* A service area ten metres high, in which longitude shrinks northwards.  *)
(***************************************************************************)
MCMinLon == -5
MCMaxLon == 1

MCCos == [a \in 3..8 |-> CASE a < 5 -> 9 [] a \in {5, 6} -> 8 [] a = 7 -> 6 [] OTHER -> 4]

Everywhere == (3..8) \X (-5..1)

(* Some are out of the area, at (0, 0) or not a number. *)
Somewhere == {<<4, -4>>, <<5, -3>>, <<6, -5>>, <<2, 0>>, <<0, 0>>, <<5, -20>>, <<NaN, 0>>}

Week == [weekdays |-> 1..5, start |-> 8, end |-> 14, added |-> <<>>, removed |-> <<>>]

Timetable(ids, names, at) ==
  [ids |-> ids, names |-> names, services |-> [w \in {"W"} |-> Week],
   lats |-> [i \in DOMAIN at |-> at[i][1]], lons |-> [i \in DOMAIN at |-> at[i][2]]]

Ids == <<<<"1">>, <<"1", "1">>, <<"b">>, <<"b", "1">>>>

Places ==
  {<<>>} \cup {<<p, q>> : p \in {3, 6, 8} \X {-5, -2, 1}, q \in Everywhere}
       \cup {<<p, q, r>> : p, q, r \in Somewhere}

Surveyed ==
  {[tt |-> Timetable(SubSeq(Ids, 1, Len(at)), SubSeq(Ids, 1, Len(at)), at),
    readable |-> TRUE, asks |-> << >>] : at \in Places}

-----------------------------------------------------------------------------
(***************************************************************************)
(* Names that are prefixes and parts of each other, differ in punctuation, *)
(* are equal, empty or another stop's id.                                  *)
(***************************************************************************)
Names ==
  {<<<<"a">>, <<"a", "b">>, <<"b", " ", "A">>, <<"a", "&", "b">>>>,
   <<<<"a", "/", "b">>, <<"A", " ", "&", "b", " ">>, <<>>, <<"a", " ", "b">>>>,
   <<<<"b">>, <<"&">>, <<"a", "1", " ", "b", "b">>, <<"1", "a">>>>}

NamedTimetables ==
  {Timetable(Ids, n, [i \in 1..4 |-> <<4, -4>>]) : n \in Names}

Typed ==
  {<<>>, <<" ">>, <<"&">>, <<"a">>, <<" ", "A">>, <<"b">>, <<"1">>, <<"b", " ", "a">>,
   <<"a", "/", "b">>, <<"A", "&", "&", "b">>, <<"a", "b">>, <<"b", "1">>, <<"a", "1", "b">>}

Route(from, to, at, date) ==
  [kind |-> "route", from |-> from, to |-> to, at |-> at, date |-> date]

(* At the hundredth hour a journey outgrows Width, at the 112th the clock. *)
Clocks == {<<>>, <<8, 5, 0>>, <<8, 60, 0>>, <<8>>, <<25, 30, 0>>, <<100, 0, 0>>, <<112, 0, 0>>}

Dates == {NoDate, Malformed, 7, 9, 13, 14}

Questioned ==
  {[kind |-> "stops", q |-> q, limit |-> Absent] : q \in Typed}
    \cup {[kind |-> "stops", q |-> <<"b">>, limit |-> l] : l \in {Malformed, 0, 1, 100}}
    \cup {Route(from, to, <<8, 5, 0>>, 9) : from \in Typed, to \in {<<"b">>, <<"1">>, <<"a">>}}
    \cup {Route(<<"b">>, to, <<25, 30, 0>>, 7) : to \in Typed}
    \cup {Route(<<"1">>, <<"b">>, at, date) : at \in Clocks, date \in Dates}

OneAsk(ask) == [c \in {c1} |-> {ask}]

Asked ==
  {[tt |-> tt, readable |-> TRUE, asks |-> OneAsk(ask)] : tt \in NamedTimetables, ask \in Questioned}

(* Two clients at once, and a timetable that cannot be loaded. *)
Shared ==
  LET tt == CHOOSE tt \in NamedTimetables : tt.names[1] = <<"a">>
  IN  {[tt |-> tt, readable |-> r,
        asks |-> [c \in MCClients |->
                    IF c = c1 THEN {[kind |-> "healthz"], Route(<<"1">>, <<"b">>, <<8, 5, 0>>, 9)}
                    ELSE {[kind |-> "stops", q |-> <<"a">>, limit |-> Absent]}]] :
       r \in BOOLEAN}

MCDeployments == Surveyed \cup Asked \cup Shared

MCSurveys == {SurveyOf(d.tt) : d \in MCDeployments}

MCRides == {<<0, 600>>, <<300, 86400>>}

=============================================================================
