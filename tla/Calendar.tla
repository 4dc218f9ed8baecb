------------------------------ MODULE Calendar ------------------------------
(***************************************************************************)
(* When a service runs: the two predicates ActiveOn of internal/gtfs and   *)
(* internal/timetable, and the set-level view of internal/calendar.        *)
(*                                                                         *)
(* Dates are numbered from a Sunday on, so that their order is that of     *)
(* YYYYMMDD and their weekday is the remainder by 7; 0 stands for a date   *)
(* that is missing.  A service is a record                                 *)
(*   weekdays       : a set of weekdays, 0 for Sunday;                     *)
(*   start, end     : the dates of its calendar.txt row;                   *)
(*   added, removed : exception dates, sets in a feed and ascending        *)
(*                    sequences in a timetable.                            *)
(***************************************************************************)
EXTENDS Integers, Sequences, FiniteSets

NoDate == 0

Weekday(date) == date % 7

InWeek(svc, date) ==
  /\ svc.start # NoDate
  /\ date >= svc.start
  /\ date <= svc.end
  /\ Weekday(date) \in svc.weekdays

(* gtfs.Service *)
FeedActiveOn(svc, date) ==
  /\ date \notin svc.removed
  /\ date \in svc.added \/ InWeek(svc, date)

(***************************************************************************)
(* slices.BinarySearch: the first position not below x, in a window that   *)
(* is halved, and a test of it.  It finds what is there only if the slice  *)
(* is ascending.                                                           *)
(***************************************************************************)
Windows(slice) == (1..Len(slice) + 1) \X (1..Len(slice) + 1)

Middle(w) == (w[1] + w[2]) \div 2

Halved(slice, x, first, w) ==
  IF w[1] >= w[2] THEN w[1]
  ELSE IF slice[Middle(w)] < x THEN first[<<Middle(w) + 1, w[2]>>]
  ELSE first[<<w[1], Middle(w)>>]

BinarySearch(slice, x) ==
  LET first[w \in Windows(slice)] == Halved(slice, x, first, w) IN first

Found(slice, x) ==
  LET i == BinarySearch(slice, x)[<<1, Len(slice) + 1>>]
  IN  i <= Len(slice) /\ slice[i] = x

(* Mutant: an added date wins over a removed one. *)
AddedFirst(svc, date) ==
  Found(svc.added, date) \/ (~Found(svc.removed, date) /\ InWeek(svc, date))

(* timetable.Service *)
ActiveOn(svc, date) ==
  /\ ~Found(svc.removed, date)
  /\ Found(svc.added, date) \/ InWeek(svc, date)

ActiveServices(services, date) == {id \in DOMAIN services : ActiveOn(services[id], date)}

InFeedWindow(services, date) == ActiveServices(services, date) # {}

=============================================================================
