----------------------------- MODULE Scheduler ------------------------------
(***************************************************************************)
(* The scheduler (rustlavel-queue, schedule.rs) over the in-process queue.  *)
(*                                                                          *)
(* `run` asks on every minute boundary which events are due.  A due event   *)
(* is claimed through its `running` flag and started as a task of its own,  *)
(* which dispatches a job or runs a closure, and clears the flag when it is *)
(* dropped.  Time passes between any two steps: the loop, the tasks and the *)
(* workers share one process and are suspended when it is.                  *)
(***************************************************************************)
EXTENDS MemoryQueue, Cron

CONSTANTS
    Events,         \* the events of the schedule, in order
    Exclusive,      \* those marked without_overlapping
    Dispatches,     \* those that dispatch a job; the others run a closure
    Schedules,      \* the expressions the events may have
    Starts,         \* when the process may start
    Lifetime,       \* bound: how long it is watched
    MaxRuns         \* bound: runs in flight at once

EventNames == {Events[k] : k \in DOMAIN Events}
RunSlots   == 1 .. MaxRuns

Run == [event : EventNames, at : {"go", "push", "drop"}, id : Ids \cup {Null}, due : Nat \cup {Null}]

ASSUME SchedulerConstants ==
    /\ Events \in Seq(Jobs) /\ Exclusive \cup Dispatches \subseteq EventNames
    /\ Schedules # {} /\ Starts \subseteq Nat /\ Lifetime \in Nat /\ MaxRuns \in Nat
    /\ Null \notin Run

VARIABLES
    text,      \* the expression of each event
    started,   \* when the process started
    loop,      \* where `run` is
    minute,    \* the minute it is asking about, or sleeps until
    lastTick,  \* its last_tick
    examined,  \* events of this tick it has dealt with
    wakeAt,    \* when its sleep is over
    shutdown,  \* Shutdown is signalled
    running,   \* each event's flag
    runs,      \* the tasks in flight, or Null
    ticked,    \* history: minutes the loop asked about, in order
    late       \* history: minutes it was in no position to ask about

loopVars == <<loop, minute, lastTick, examined, wakeAt>>
vars == <<now, queueVars, text, started, loopVars, shutdown, running, runs, ticked, late>>

Init ==
    /\ QueueInit
    /\ text \in Schedules
    /\ started \in Starts /\ now = started
    /\ loop = "boot" /\ minute = Null /\ lastTick = Null /\ examined = 0 /\ wakeAt = Null
    /\ shutdown = FALSE
    /\ running = [e \in EventNames |-> FALSE]
    /\ runs = [r \in RunSlots |-> Null]
    /\ ticked = <<>> /\ late = {}

-----------------------------------------------------------------------------
\* compile, before the first tick: one bad expression and nothing runs.
Boot ==
    /\ loop = "boot"
    /\ loop' = IF \A e \in EventNames : Parses(text[e]) THEN "top" ELSE "stopped"
    /\ UNCHANGED <<now, queueVars, text, started, minute, lastTick, examined, wakeAt,
                   shutdown, running, runs, ticked, late>>

\* The top of the loop: shutdown, or the minute it is.
Top ==
    /\ loop = "top"
    /\ LET this == StartOfMinute(now)
       IN  \/ /\ shutdown
              /\ loop' = "stopped"
              /\ UNCHANGED <<minute, lastTick, ticked>>
           \/ /\ ~shutdown /\ lastTick = this
              /\ loop' = "ticked"
              /\ UNCHANGED <<minute, lastTick, ticked>>
           \/ /\ ~shutdown /\ lastTick # this
              /\ loop' = "tick"
              /\ minute' = this /\ lastTick' = this
              /\ ticked' = Append(ticked, this)
    /\ UNCHANGED <<now, queueVars, text, started, examined, wakeAt, shutdown, running, runs, late>>

Due(e) == Matches(Parse(text[e]), minute)

\* The run's task: its guard is what clears the flag.
Spawn(e, r) ==
    /\ runs[r] = Null
    /\ \A q \in RunSlots : q < r => runs[q] # Null
    /\ runs' = [runs EXCEPT ![r] = [event |-> e, at |-> "go", id |-> Null, due |-> Null]]

\* Mutant: the flag is taken without looking.
ClaimBlindly(e) ==
    /\ running' = [running EXCEPT ![e] = TRUE]
    /\ \E r \in RunSlots : Spawn(e, r)

\* compare_exchange: an exclusive event whose flag is up is skipped; any other starts.
Claim(e) ==
    /\ running' = [running EXCEPT ![e] = TRUE]
    /\ IF running[e] /\ e \in Exclusive THEN UNCHANGED runs ELSE \E r \in RunSlots : Spawn(e, r)

\* One event of the tick.
TickEvent ==
    /\ loop = "tick" /\ examined < Len(Events)
    /\ examined' = examined + 1
    /\ LET e == Events[examined + 1]
       IN  IF Due(e) THEN Claim(e) ELSE UNCHANGED <<running, runs>>
    /\ UNCHANGED <<now, queueVars, text, started, loop, minute, lastTick, wakeAt,
                   shutdown, ticked, late>>

TickEnds ==
    /\ loop = "tick" /\ examined = Len(Events)
    /\ loop' = "ticked" /\ examined' = 0
    /\ UNCHANGED <<now, queueVars, text, started, minute, lastTick, wakeAt,
                   shutdown, running, runs, ticked, late>>

\* Mutant: the wait is a minute more than the boundary asks for.
PlanWaitLong ==
    /\ loop = "ticked"
    /\ loop' = "wait"
    /\ minute' = StartOfMinute(now) + 2 * Minute
    /\ UNCHANGED <<now, queueVars, text, started, lastTick, examined, wakeAt,
                   shutdown, running, runs, ticked, late>>

\* The next boundary, from the time it is after the tick.
PlanWait ==
    /\ loop = "ticked"
    /\ loop' = "wait"
    /\ minute' = StartOfMinute(now) + Minute
    /\ UNCHANGED <<now, queueVars, text, started, lastTick, examined, wakeAt,
                   shutdown, running, runs, ticked, late>>

\* The time left until it, from a second look at the clock.
Sleep ==
    /\ loop = "wait"
    /\ loop' = "sleep"
    /\ wakeAt' = IF minute > now THEN minute ELSE now
    /\ minute' = Null
    /\ UNCHANGED <<now, queueVars, text, started, lastTick, examined,
                   shutdown, running, runs, ticked, late>>

\* wait_for: the time is up, or the shutdown cuts it short.
Wake ==
    /\ loop = "sleep"
    /\ \/ shutdown /\ loop' = "stopped"
       \/ now >= wakeAt /\ loop' = "top"
    /\ wakeAt' = Null
    /\ UNCHANGED <<now, queueVars, text, started, minute, lastTick, examined,
                   shutdown, running, runs, ticked, late>>

Signal ==
    /\ ~shutdown /\ shutdown' = TRUE
    /\ UNCHANGED <<now, queueVars, text, started, loopVars, running, runs, ticked, late>>

-----------------------------------------------------------------------------
\* Dispatch: push takes the id, then puts the entry on the list.
DispatchTakesId(r) ==
    /\ runs[r] # Null /\ runs[r].at = "go" /\ runs[r].event \in Dispatches
    /\ TakeId
    /\ runs' = [runs EXCEPT ![r].at = "push", ![r].id = nextId, ![r].due = now]
    /\ UNCHANGED <<now, text, started, loopVars, shutdown, running, ticked, late>>

DispatchEnqueues(r) ==
    /\ runs[r] # Null /\ runs[r].at = "push"
    /\ Enqueue(runs[r].id, runs[r].event, runs[r].due)
    /\ runs' = [runs EXCEPT ![r].at = "drop", ![r].id = Null, ![r].due = Null]
    /\ UNCHANGED <<now, text, started, loopVars, shutdown, running, ticked, late>>

\* The closure returned, failed or panicked.
CallEnds(r) ==
    /\ runs[r] # Null /\ runs[r].at = "go" /\ runs[r].event \notin Dispatches
    /\ runs' = [runs EXCEPT ![r].at = "drop"]
    /\ UNCHANGED <<now, queueVars, text, started, loopVars, shutdown, running, ticked, late>>

\* RunningGuard::drop.
DropGuard(r) ==
    /\ runs[r] # Null /\ runs[r].at = "drop"
    /\ running' = [running EXCEPT ![runs[r].event] = FALSE]
    /\ runs' = [runs EXCEPT ![r] = Null]
    /\ UNCHANGED <<now, queueVars, text, started, loopVars, shutdown, ticked, late>>

-----------------------------------------------------------------------------
Working(w) ==
    /\ WorkerStep(w)
    /\ UNCHANGED <<now, text, started, loopVars, shutdown, running, runs, ticked, late>>

Emptied ==
    /\ Clear \/ FlushFailed
    /\ UNCHANGED <<now, text, started, loopVars, shutdown, running, runs, ticked, late>>

\* The clock.  A minute the loop is awake at the start of, and one it lets pass
\* although its wait is over, are minutes it was in no position to ask about.
Advance ==
    /\ now < started + Lifetime
    /\ now' = now + 1
    /\ LET new  == StartOfMinute(now')
           old  == StartOfMinute(now)
           over == loop = "top" \/ (loop = "sleep" /\ wakeAt <= now)
       IN  late' = IF new = old THEN late
                   ELSE late \cup (IF loop # "sleep" THEN {new} ELSE {})
                             \cup (IF over THEN {old} ELSE {})
    /\ UNCHANGED <<queueVars, text, started, loopVars, shutdown, running, runs, ticked>>

\* The instance's time is over.
Watched == now = started + Lifetime /\ UNCHANGED vars

Next ==
    \/ Boot \/ Top \/ TickEvent \/ TickEnds \/ PlanWait \/ Sleep \/ Wake \/ Signal
    \/ \E r \in RunSlots : DispatchTakesId(r) \/ DispatchEnqueues(r) \/ CallEnds(r) \/ DropGuard(r)
    \/ \E w \in Workers : Working(w)
    \/ Emptied
    \/ Advance
    \/ Watched

Spec == Init /\ [][Next]_vars

-----------------------------------------------------------------------------
\* Every variable holds what its field can hold, and no job is tried more often than
\* its tries allow.
TypeOK ==
    /\ QueueTypeOK
    /\ now \in Nat /\ started \in Starts /\ text \in Schedules
    /\ loop \in {"boot", "top", "tick", "ticked", "wait", "sleep", "stopped"}
    /\ minute \in Nat \cup {Null} /\ lastTick \in Nat \cup {Null} /\ wakeAt \in Nat \cup {Null}
    /\ examined \in 0 .. Len(Events) /\ shutdown \in BOOLEAN
    /\ running \in [EventNames -> BOOLEAN] /\ runs \in [RunSlots -> Run \cup {Null}]
    /\ ticked \in Seq(Nat) /\ late \subseteq Nat

InFlight(e) == {r \in RunSlots : runs[r] # Null /\ runs[r].event = e}

\* An event marked without_overlapping has its flag up exactly while its one run is
\* in flight: a second run would overlap it, and a flag nobody will clear would skip
\* it for ever.  For the other events the flag is up only while some run is.
FlagMeansRunning ==
    \A e \in EventNames :
        /\ running[e] => InFlight(e) # {}
        /\ e \in Exclusive => Cardinality(InFlight(e)) = (IF running[e] THEN 1 ELSE 0)

\* A minute that is over was asked about once, unless the loop was still busy with
\* an earlier one when it began, or was woken only after it ended; the loop never
\* goes back, and never asks twice.
EveryMinuteTickedOnce ==
    /\ \A i, j \in DOMAIN ticked : i < j => ticked[i] < ticked[j]
    /\ (~shutdown /\ loop # "boot" /\ loop # "stopped") =>
        \A t \in started .. now :
            LET m == StartOfMinute(t)
            IN  (m > StartOfMinute(started) /\ m < StartOfMinute(now)) =>
                    m \in late \/ \E i \in DOMAIN ticked : ticked[i] = m

\* The dates the expression selects, of all the calendar has on all its weekdays.
DatesOf(cron) ==
    {Date(t \div Day) : t \in {u \in 0 .. CycleDays * DaysPerWeek * Day - 1 :
                                  u % Minute = 0 /\ Matches(cron, u)}}

\* The first minute after t the expression selects is what next_after answers.  It
\* answers nothing when no such minute comes before its limit, and that only when none
\* of the dates the expression selects is one of the whole days up to there.
AnswersNext(cron, dates, t) ==
    LET next  == NextAfter(cron, t)
        first == StartOfMinute(t) + Minute
        upto  == IF next = None THEN first + LimitDays * Day ELSE next
    IN  /\ \A k \in 0 .. ((upto - first) \div Minute) - 1 : ~Matches(cron, first + k * Minute)
        /\ next # None => (Matches(cron, next) /\ next % Minute = 0)
        /\ next = None => \A d \in 1 .. LimitDays - 1 : Date((first \div Day) + d) \notin dates

\* What schedule:list shows of the schedule a process starts with is right at every
\* moment of an era from then on: no run is jumped over, none is invented, and a date
\* is reported as impossible only if it does not come within the limit.  (A leap day
\* around a century does come, later than that.)
ListedNextRuns ==
    (loop = "boot" /\ now = started) =>
        \A e \in EventNames : Parses(text[e]) =>
            LET cron  == Parse(text[e])
                dates == DatesOf(cron)
            IN  \A t \in now .. now + CycleDays * Day : AnswersNext(cron, dates, t)
=============================================================================
