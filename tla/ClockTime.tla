----------------------------- MODULE ClockTime ------------------------------
(***************************************************************************)
(* Times of day as text and as seconds since midnight: gtfs.ParseTime      *)
(* reads them, clock of internal/api and clock of cmd/route write them.    *)
(* A text is the list of the integers it spells between colons.            *)
(***************************************************************************)
EXTENDS Integers, Sequences

(* The time of a text that is empty. *)
Blank == -1

IsTime(cell) ==
  \/ cell = <<>>
  \/ /\ Len(cell) = 3
     /\ cell[1] >= 0 /\ cell[2] \in 0..59 /\ cell[3] \in 0..59

Seconds(cell) == IF cell = <<>> THEN Blank ELSE cell[1] * 3600 + cell[2] * 60 + cell[3]

DaySeconds == 86400

(* Go's conversion to a signed type that holds -width..width-1: the bits   *)
(* that do not fit are lost.                                               *)
Narrow(n, width) == ((n + width) % (2 * width)) - width

(* Mutant: the clock starts again at midnight. *)
ClockWrapped(sec) == <<(sec \div 3600) % 24, (sec % 3600) \div 60, sec % 60>>

(* Division by a positive number truncates, as Go's does. *)
ClockOf(sec) ==
  LET abs  == IF sec < 0 THEN -sec ELSE sec
      sign == IF sec < 0 THEN -1 ELSE 1
  IN  <<sign * (abs \div 3600), sign * ((abs % 3600) \div 60), sign * (abs % 60)>>

NextDay(sec) == sec >= DaySeconds

(* Mutant: the text is marked, and the day left on the clock. *)
PlannerClockKept(sec) == [clock |-> ClockOf(sec), plus1d |-> NextDay(sec)]

(* The planner takes a day off the clock and marks the text. *)
PlannerClock(sec) ==
  [clock |-> ClockOf(IF NextDay(sec) THEN sec - DaySeconds ELSE sec), plus1d |-> NextDay(sec)]

=============================================================================
