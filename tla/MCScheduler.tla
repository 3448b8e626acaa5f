---------------------------- MODULE MCScheduler -----------------------------
EXTENDS Scheduler

CONSTANTS report, prune

MCEvents == <<report, prune>>

\* Minutes of 2 seconds, hours of 2 minutes, days of 2 hours, weeks of 3 days; years
\* of two months, the second one day longer every other year, but for the centuries of
\* four years that are no era of eight.
MCMonthLengths == <<8, 6>>

Number(n)      == {[from |-> n, to |-> None, step |-> None]}
Every(n)       == {[from |-> None, to |-> None, step |-> n]}
From(a, n)     == {[from |-> a, to |-> None, step |-> n]}
Between(a, b)  == {[from |-> a, to |-> b, step |-> None]}
EveryMinute    == [minute |-> Star, hour |-> Star, day |-> Star, month |-> Star, weekday |-> Star]

MCSchedules ==
    { \* every minute, both
      (report :> EveryMinute) @@ (prune :> [EveryMinute EXCEPT !.minute = Every(1)]),
      \* a leap day in the second hour, and a day or a weekday
      (report :> [EveryMinute EXCEPT !.minute = Number(1), !.hour = Number(1),
                                     !.day = Number(7), !.month = Number(2)])
          @@ (prune :> [EveryMinute EXCEPT !.hour = Between(1, 1), !.day = Number(1),
                                           !.weekday = Number(2) \cup Number(3)]),
      \* a date that never comes, and the second half of a month but for its end
      (report :> [EveryMinute EXCEPT !.day = Number(8), !.month = Number(2)])
          @@ (prune :> [EveryMinute EXCEPT !.minute = Number(0), !.hour = Number(0),
                                           !.day = Between(5, 8), !.month = Number(1)]),
      \* a step from beyond the field, alone and beside a month
      (report :> [EveryMinute EXCEPT !.minute = From(3, 2)])
          @@ (prune :> [EveryMinute EXCEPT !.month = Number(2) \cup From(5, 1), !.weekday = Number(1)]),
      \* every step of a narrowed field, and what the calendar cannot hold
      (report :> [EveryMinute EXCEPT !.day = Every(2), !.weekday = Every(1)])
          @@ (prune :> [EveryMinute EXCEPT !.minute = Between(1, 0)]) }
=============================================================================
