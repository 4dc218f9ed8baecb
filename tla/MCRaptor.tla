------------------------------ MODULE MCRaptor ------------------------------
(***************************************************************************)
(* Small transit networks for RaptorProperties.  Times are minutes of a    *)
(* day of 20 minutes, so a run that leaves at 21 can also be caught the    *)
(* morning after.                                                          *)
(***************************************************************************)
EXTENDS RaptorInvariant, SequencesExt

MCStops == 0..5

Trip(arr, dep, days) ==
  [arr |-> arr, dep |-> dep, today |-> "today" \in days, yesterday |-> "yesterday" \in days]

Line(stops, trips) == [stops |-> stops, trips |-> trips]

(* Walking links come in both directions. *)
Both(links) == links @@ [e \in {<<d[2], d[1]>> : d \in DOMAIN links} |-> links[<<e[2], e[1]>>]]

Queries(first, second, third, links, times) ==
  {[patterns |-> <<a, b, c>>, foot |-> Both(w), source |-> 0, target |-> 3, depTime |-> d] :
     a \in first, b \in second, c \in third, w \in links, d \in times}

-----------------------------------------------------------------------------
(***************************************************************************)
(* Two trips of one line: they keep their order, overtake, leave together  *)
(* and part, or dwell on the way.                                          *)
(***************************************************************************)
FirstLines ==
  {Line(<<0, 1, 2>>, <<Trip(<<1, 2, 3>>, <<1, 2, 3>>, {"today"}), t>>) :
     t \in {Trip(<<2, 3, 4>>, <<2, 4, 4>>, {"today"}),
            Trip(<<2, 4, 7>>, <<2, 4, 7>>, {"today"})}}
  \cup
  {Line(<<0, 1, 2>>, <<Trip(<<1, 5, 7>>, <<1, 5, 7>>, {"today"}), t>>) :
     t \in {Trip(<<2, 3, 4>>, <<2, 4, 4>>, {"today"}),
            Trip(<<2, 4, 7>>, <<2, 5, 7>>, {"today"})}}

(* Yesterday's run passes stop 1 at 1 or 4 on today's clock. *)
SecondLines ==
  {Line(<<2, 1, 3>>, <<Trip(a, a, {"today"}), Trip(y, y, {"yesterday"})>>) :
     a \in {<<2, 3, 4>>, <<5, 8, 12>>}, y \in {<<19, 21, 23>>, <<24, 25, 27>>}}
  \cup {Line(<<1, 3>>, <<Trip(a, a, {"today"})>>) : a \in {<<2, 7>>, <<6, 7>>}}

(* A line that loops back to stop 1, and a slow direct one. *)
ThirdLines ==
  {Line(<<1, 2, 1, 3>>, <<Trip(<<3, 4, 5, 7>>, <<3, 4, 5, 7>>, {"today", "yesterday"})>>),
   Line(<<0, 3>>, <<Trip(<<4, 16>>, <<4, 16>>, {"today"})>>)}

Links ==
  {<< >>, (<<0, 1>> :> 1) @@ (<<1, 2>> :> 1), (<<1, 2>> :> 1) @@ (<<2, 3>> :> 2)}

GeneralInputs == Queries(FirstLines, SecondLines, ThirdLines, Links, {0, 2})

-----------------------------------------------------------------------------
(***************************************************************************)
(* Networks on which trips of a line neither overtake nor tie, and where   *)
(* walking on is never faster than the direct walk: slow direct lines      *)
(* against faster ones that need more changes.                             *)
(***************************************************************************)
FastLines ==
  {Line(<<0, 1, 2>>, <<Trip(a, a, {"today"}), Trip(<<3, 5, 10>>, <<3, 5, 10>>, {"today"})>>) :
     a \in {<<1, 2, 9>>, <<2, 3, 6>>}}
  \cup {Line(<<0, 1>>, <<Trip(<<1, 2>>, <<1, 2>>, {"today"})>>)}

MiddleLines ==
  {Line(<<1, 3>>, <<Trip(<<3, 12>>, <<3, 12>>, {"today"}), Trip(y, y, {"yesterday"})>>) :
     y \in {<<22, 31>>, <<26, 34>>}}
  \cup {Line(<<1, 2, 3>>, <<Trip(<<3, 5, 12>>, <<3, 5, 12>>, {"today", "yesterday"})>>)}

LastLines ==
  {Line(<<1, 2, 3>>, <<Trip(<<4, 5, 7>>, <<4, 6, 7>>, {"today", "yesterday"})>>),
   Line(<<2, 3>>, <<Trip(<<6, 8>>, <<6, 8>>, {"today"}), Trip(<<7, 9>>, <<7, 9>>, {"today"})>>),
   Line(<<2, 1, 3>>, <<Trip(<<4, 5, 10>>, <<4, 5, 10>>, {"today"})>>)}

SlowLine == Line(<<0, 3>>, <<Trip(<<4, 16>>, <<4, 16>>, {"today"})>>)

ClosedLinks ==
  {<< >>, <<1, 2>> :> 2, (<<0, 1>> :> 1) @@ (<<1, 2>> :> 1) @@ (<<0, 2>> :> 2),
   <<0, 1>> :> 3}

OrderedInputs ==
  {in \in {[q EXCEPT !.patterns = Append(@, SlowLine)] :
             q \in Queries(FastLines, MiddleLines, LastLines, ClosedLinks, {0, 2})} :
     InOrder(in)}

(***************************************************************************)
(* Networks with closed walks around several stops: one where a stop is    *)
(* walked from before a faster walk has reached it, and one with a walk    *)
(* before, between and after the rides.                                    *)
(***************************************************************************)
Ride(from, to, dep, arr) == Line(<<from, to>>, <<Trip(<<dep, arr>>, <<dep, arr>>, {"today"})>>)

DetourLinks ==
  (<<1, 2>> :> 1) @@ (<<1, 3>> :> 2) @@ (<<1, 4>> :> 2)
    @@ (<<2, 3>> :> 3) @@ (<<2, 4>> :> 1) @@ (<<3, 4>> :> 4)

DetourInputs ==
  Queries({Ride(0, 1, 1, 3)}, {Ride(0, 2, 1, arr) : arr \in {4, 10}},
          {Ride(4, 3, dep, dep + 2) : dep \in {5, 11}}, {DetourLinks}, {0})

JoiningLinks == (<<0, 1>> :> 1) @@ (<<2, 4>> :> 1) @@ (<<3, 5>> :> 1)

JoinedInputs ==
  Queries({Ride(1, 2, 2, 3)}, {Ride(4, 5, dep, dep + 1) : dep \in {4, 5}},
          {Ride(0, 3, 2, arr) : arr \in {4, 9}}, {JoiningLinks}, {0})

RaptorInputs == GeneralInputs \cup OrderedInputs \cup DetourInputs \cup JoinedInputs

(* Nothing overtakes, but two trips leave the first stop together and part. *)
TiedInputs ==
  {in \in Queries({Line(<<0, 1, 3>>, <<Trip(a, a, {"today"}), Trip(b, b, {"today"})>>) :
                     a \in {<<1, 2, 6>>, <<1, 3, 9>>}, b \in {<<1, 2, 4>>, <<1, 3, 6>>}},
                  MiddleLines, LastLines, ClosedLinks, {0}) :
     WalksClosed(in) /\ \A pi \in DOMAIN in.patterns : NoOvertaking(in.patterns[pi])}

=============================================================================
