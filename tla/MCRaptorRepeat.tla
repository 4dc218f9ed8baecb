--------------------------- MODULE MCRaptorRepeat ---------------------------
(***************************************************************************)
(* Two lines that take a rider to the same stop at the same time, one of   *)
(* them by way of a third stop.                                            *)
(***************************************************************************)
EXTENDS RaptorRepeat

MCStops == 0..2

Line(stops, times) ==
  [stops |-> stops,
   trips |-> <<[arr |-> times, dep |-> times, today |-> TRUE, yesterday |-> FALSE]>>]

Twins ==
  {[patterns |-> <<Line(<<0, 2>>, <<1, 3>>), Line(<<0, 1, 2>>, <<1, 2, 3>>)>>,
    foot |-> << >>, source |-> 0, target |-> 2, depTime |-> 0]}

=============================================================================
