---------------------------- MODULE RateLimiter ----------------------------
(***************************************************************************)
(* One RateLimiter of src/src/transport/rate-limiter.ts: a gate that lets   *)
(* one caller through per Interval.  schedule() either resolves at once or  *)
(* queues the caller's resolver; an interval timer then resolves one queued *)
(* caller per tick and stops itself on the first tick that finds nothing.   *)
(*                                                                         *)
(* Every operation is one run of the JavaScript event loop, so it is one    *)
(* atomic action.  Time is Date.now() in milliseconds.  A Node interval     *)
(* timer never fires early and is re-armed from the moment its callback     *)
(* runs; a busy event loop can make it fire up to Late ms after it is due.  *)
(***************************************************************************)
EXTENDS Integers, Sequences

CONSTANTS
    Interval,   \* intervalMs of the constructor
    Late,       \* how late the event loop can run a timer callback
    MaxJobs,    \* bound: calls of schedule() in a behaviour
    MaxTime     \* bound: the last instant the clock reaches

ASSUME IntervalAssumption == Interval \in Nat \ {0}
ASSUME LateAssumption == Late \in Nat
ASSUME BoundsAssumption == MaxJobs \in Nat /\ MaxTime \in Nat

VARIABLES
    now,        \* Date.now()
    lastRunAt,  \* lastRunAt
    queue,      \* queue, a waiting caller being [job, at, ahead]
    timer,      \* "running" when timer # undefined, else "off"
    due,        \* when the next tick of a running timer is due
    jobs,       \* history: how many callers have called schedule()
    granted     \* history: the callers let through, as [job, at]

vars == <<now, lastRunAt, queue, timer, due, jobs, granted>>

Job == [job : Nat, at : Nat, ahead : Nat]
Grant == [job : Nat, at : Nat]

TypeOK ==
    /\ now \in Nat /\ lastRunAt \in Nat /\ due \in Nat /\ jobs \in Nat
    /\ timer \in {"off", "running"}
    /\ queue \in Seq(Job)
    /\ granted \in Seq(Grant)

\* lastRunAt starts at 0, an Interval or more before any real Date.now().
Init ==
    /\ now = Interval
    /\ lastRunAt = 0
    /\ queue = <<>>
    /\ timer = "off"
    /\ due = 0
    /\ jobs = 0
    /\ granted = <<>>

-----------------------------------------------------------------------------
\* Mutant of Through: the instant of the pass is not recorded.
MutThrough(j) ==
    /\ lastRunAt' = lastRunAt
    /\ granted' = Append(granted, [job |-> j, at |-> now])

Through(j) ==
    /\ lastRunAt' = now
    /\ granted' = Append(granted, [job |-> j, at |-> now])

\* Mutant of EnsureTimerRunning: every call restarts the timer.
MutEnsureTimerRunning ==
    /\ timer' = "running"
    /\ due' = now + Interval

\* setInterval is only called when no timer is running.
EnsureTimerRunning ==
    /\ timer' = "running"
    /\ due' = IF timer = "running" THEN due ELSE now + Interval

\* Mutant of CanPassAtOnce: the running timer is not looked at.
MutCanPassAtOnce == now - lastRunAt >= Interval

CanPassAtOnce == timer = "off" /\ now - lastRunAt >= Interval

ScheduleNow ==
    /\ jobs < MaxJobs
    /\ CanPassAtOnce
    /\ jobs' = jobs + 1
    /\ Through(jobs')
    /\ UNCHANGED <<now, queue, timer, due>>

ScheduleQueued ==
    /\ jobs < MaxJobs
    /\ ~CanPassAtOnce
    /\ jobs' = jobs + 1
    /\ queue' = Append(queue, [job |-> jobs', at |-> now, ahead |-> Len(queue)])
    /\ EnsureTimerRunning
    /\ UNCHANGED <<now, lastRunAt, granted>>

\* Mutant of TickGrants: the first resolver is called, but stays in the queue.
MutTickGrants ==
    /\ timer = "running" /\ now >= due
    /\ queue # <<>>
    /\ Through(Head(queue).job)
    /\ due' = now + Interval
    /\ UNCHANGED <<now, queue, timer, jobs>>

TickGrants ==
    /\ timer = "running" /\ now >= due
    /\ queue # <<>>
    /\ Through(Head(queue).job)
    /\ queue' = Tail(queue)
    /\ due' = now + Interval
    /\ UNCHANGED <<now, timer, jobs>>

TickStops ==
    /\ timer = "running" /\ now >= due
    /\ queue = <<>>
    /\ timer' = "off"
    /\ UNCHANGED <<now, lastRunAt, queue, due, jobs, granted>>

\* Mutant of Dispose: the timer is cleared, the queue is kept.
MutDispose ==
    /\ timer' = "off"
    /\ UNCHANGED <<now, lastRunAt, queue, due, jobs, granted>>

\* dispose() forgets the waiting resolvers: those callers are never let through.
Dispose ==
    /\ timer' = "off"
    /\ queue' = <<>>
    /\ UNCHANGED <<now, lastRunAt, due, jobs, granted>>

\* Time passes, but a due tick is not held back for more than Late.
ClockAdvances ==
    /\ now < MaxTime
    /\ timer = "running" => now < due + Late
    /\ now' = now + 1
    /\ UNCHANGED <<lastRunAt, queue, timer, due, jobs, granted>>

Next ==
    \/ ScheduleNow
    \/ ScheduleQueued
    \/ TickGrants
    \/ TickStops
    \/ Dispose
    \/ ClockAdvances

Spec == Init /\ [][Next]_vars

-----------------------------------------------------------------------------
Span(n) == n * Interval

(* The rate: whatever mix of immediate passes, ticks and disposals happened, *)
(* the n-th caller after a given one is let through at least n Intervals     *)
(* later, so no window of k Intervals ever sees more than k + 1 callers.     *)
Rate ==
    \A i, j \in 1..Len(granted) :
        i < j => granted[j].at - granted[i].at >= Span(j - i)

(* Callers are let through in the order in which they called schedule(): an  *)
(* immediate pass never overtakes a queued caller.                           *)
FirstComeFirstServed ==
    /\ \A i, j \in 1..Len(granted) : i < j => granted[i].job < granted[j].job
    /\ \A i \in 1..Len(granted), k \in 1..Len(queue) :
            granted[i].job < queue[k].job

LongSpan(n) == n * (Interval + Late)

Deadline(c) == c.at + LongSpan(c.ahead + 1)

(* Bounded waiting: a caller that found n callers ahead of it never waits    *)
(* longer than n + 1 intervals, each stretched by the event loop's lateness. *)
(* In particular no caller is ever left in the queue without a timer.        *)
BoundedWait == \A k \in 1..Len(queue) : now <= Deadline(queue[k])

Callers == 1..MaxJobs

Gate == INSTANCE RateGate WITH
    line <- [k \in 1..Len(queue) |-> queue[k].job],
    passed <- [k \in 1..Len(granted) |-> granted[k].job]

(* The limiter implements RateGate, on which module Outbox builds: callers    *)
(* that wait form one line that nobody passes by, and dispose() ends it.      *)
ImplementsGate == Gate!Spec

-----------------------------------------------------------------------------
(* The inductive strengthening the proofs use.                               *)
ClockInv ==
    /\ lastRunAt <= now
    /\ timer = "running" =>
        /\ lastRunAt + Interval <= due
        /\ due <= now + Interval
        /\ now <= due + Late

RateInv ==
    /\ granted # <<>> => granted[Len(granted)].at = lastRunAt
    /\ Rate

OrderInv ==
    /\ FirstComeFirstServed
    /\ \A i \in 1..Len(granted) : granted[i].job <= jobs
    /\ \A k \in 1..Len(queue) : queue[k].job <= jobs
    /\ \A k, l \in 1..Len(queue) : k < l => queue[k].job < queue[l].job

WaitInv ==
    /\ queue # <<>> => timer = "running"
    /\ \A k \in 1..Len(queue) :
            due + Late + LongSpan(k - 1) <= Deadline(queue[k])

IInv == TypeOK /\ ClockInv /\ RateInv /\ OrderInv /\ WaitInv
=============================================================================
