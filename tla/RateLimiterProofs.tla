------------------------- MODULE RateLimiterProofs -------------------------
(***************************************************************************)
(* The rate, the order and the bounded wait of a RateLimiter hold for every *)
(* interval, every lateness and any number of callers: IInv is inductive.   *)
(***************************************************************************)
EXTENDS RateLimiter, TLAPS

USE IntervalAssumption, LateAssumption, BoundsAssumption

(* Init establishes every part of the inductive invariant.                   *)
LEMMA InitIInv == Init => IInv
<1> SUFFICES ASSUME Init PROVE IInv
  OBVIOUS
<1>1. TypeOK
  BY DEF Init, TypeOK, Job, Grant
<1>2. ClockInv
  BY DEF Init, ClockInv
<1>3. RateInv /\ OrderInv /\ WaitInv
  BY DEF Init, RateInv, Rate, OrderInv, FirstComeFirstServed, WaitInv
<1>4. QED
  BY <1>1, <1>2, <1>3 DEF IInv

(* The two lengths the bounds are counted in grow by one unit at a time.     *)
LEMMA SpanGrows ==
    ASSUME NEW n \in Int
    PROVE  Span(n) \in Int /\ Span(0) = 0 /\ Span(n + 1) = Span(n) + Interval
BY DEF Span

LEMMA LongSpanGrows ==
    ASSUME NEW n \in Int
    PROVE  /\ LongSpan(n) \in Int /\ LongSpan(0) = 0
           /\ LongSpan(n + 1) = LongSpan(n) + Interval + Late
BY DEF LongSpan

(* Appending the current instant to the history keeps the callers spaced:    *)
(* the new last pass is an Interval after the old one, hence k Intervals     *)
(* after the k-th before it.                                                 *)
LEMMA ThroughKeepsRate ==
    ASSUME TypeOK, RateInv, NEW j \in Nat, Through(j),
           granted # <<>> => now - lastRunAt >= Interval
    PROVE  RateInv'
<1> DEFINE n == Len(granted)
<1>1. /\ granted' \in Seq(Grant)
      /\ Len(granted') = n + 1
      /\ \A i \in 1..n : granted'[i] = granted[i]
      /\ granted'[n + 1] = [job |-> j, at |-> now]
  BY DEF TypeOK, Through, Grant
<1>2. granted'[Len(granted')].at = lastRunAt'
  BY <1>1 DEF Through
<1>3. ASSUME NEW a \in 1..n
      PROVE  now - granted[a].at >= Span(n + 1 - a)
  <2>1. granted # <<>> /\ n \in Nat /\ granted[n].at = lastRunAt
    BY <1>3 DEF TypeOK, RateInv
  <2>2. granted[n].at - granted[a].at >= Span(n - a)
    <3>1. CASE a = n
      BY <3>1, <2>1, SpanGrows DEF TypeOK, Grant
    <3>2. CASE a < n
      BY <3>2, <2>1, <1>3 DEF RateInv, Rate
    <3>3. QED
      BY <3>1, <3>2, <2>1
  <2>3. Span(n + 1 - a) = Span(n - a) + Interval /\ Span(n - a) \in Int
    <3>1. n - a \in Int /\ (n - a) + 1 = n + 1 - a
      BY <2>1
    <3>2. QED
      BY <3>1, SpanGrows
  <2>4. granted[a] \in Grant /\ granted[n] \in Grant
    BY <2>1 DEF TypeOK
  <2>5. granted[a].at \in Nat /\ granted[n].at \in Nat /\ now \in Nat
    BY <2>4 DEF TypeOK, Grant
  <2>6. QED
    BY <2>1, <2>2, <2>3, <2>5, SMTT(30)
<1>4. Rate'
  <2> SUFFICES ASSUME NEW a \in 1..(n + 1), NEW b \in 1..(n + 1), a < b
               PROVE  granted'[b].at - granted'[a].at >= Span(b - a)
    BY <1>1 DEF Rate
  <2>1. n \in Nat
    BY DEF TypeOK
  <2>2. CASE b = n + 1
    BY <2>1, <2>2, <1>1, <1>3
  <2>3. CASE b < n + 1
    <3>1. a \in 1..n /\ b \in 1..n
      BY <2>1, <2>3
    <3>2. granted[b].at - granted[a].at >= Span(b - a)
      BY <3>1 DEF RateInv, Rate
    <3>3. QED
      BY <3>1, <3>2, <1>1
  <2>4. QED
    BY <2>1, <2>2, <2>3
<1>5. QED
  BY <1>2, <1>4 DEF RateInv

(* What TypeOK says of the members of the two sequences.                     *)
LEMMA MemberTypes ==
    ASSUME TypeOK
    PROVE  /\ Len(granted) \in Nat /\ Len(queue) \in Nat
           /\ \A i \in 1..Len(granted) :
                  granted[i].job \in Nat /\ granted[i].at \in Nat
           /\ \A k \in 1..Len(queue) :
                  queue[k].job \in Nat /\ queue[k].at \in Nat /\ queue[k].ahead \in Nat
<1>1. \A i \in 1..Len(granted) : granted[i] \in Grant
  BY DEF TypeOK
<1>2. \A k \in 1..Len(queue) : queue[k] \in Job
  BY DEF TypeOK
<1>3. QED
  BY <1>1, <1>2 DEF TypeOK, Grant, Job

(* A caller that is let through becomes the newest of the history.           *)
LEMMA ThroughKeepsOrder ==
    ASSUME TypeOK, OrderInv, NEW j \in Nat, Through(j),
           \A i \in 1..Len(granted) : granted[i].job < j
    PROVE  /\ granted' \in Seq(Grant)
           /\ \A i \in 1..Len(granted') : granted'[i].job <= j
           /\ \A i, k \in 1..Len(granted') :
                  i < k => granted'[i].job < granted'[k].job
<1> DEFINE n == Len(granted)
<1>1. /\ granted' \in Seq(Grant)
      /\ n \in Nat /\ Len(granted') = n + 1
      /\ \A i \in 1..n : granted'[i] = granted[i]
      /\ granted'[n + 1].job = j
  BY DEF TypeOK, Through, Grant
<1>2. \A i \in 1..n : granted[i].job \in Nat
  BY MemberTypes
<1>3. \A i \in 1..(n + 1) : i \in 1..n \/ i = n + 1
  BY <1>1
<1>4. \A i, k \in 1..(n + 1) : i < k => i \in 1..n
  BY <1>1
<1>5. \A i \in 1..(n + 1) : granted'[i].job <= j
  BY <1>1, <1>2, <1>3
<1>6. \A i, k \in 1..n : i < k => granted[i].job < granted[k].job
  BY DEF OrderInv, FirstComeFirstServed
<1>7. \A i, k \in 1..(n + 1) : i < k => granted'[i].job < granted'[k].job
  BY <1>1, <1>3, <1>4, <1>6
<1>8. QED
  BY <1>1, <1>5, <1>7

(* Each action keeps the inductive invariant.                                *)
LEMMA ScheduleNowIInv == IInv /\ ScheduleNow => IInv'
<1> SUFFICES ASSUME IInv, ScheduleNow PROVE IInv'
  OBVIOUS
<1> USE DEF IInv
<1>1. /\ jobs' \in Nat /\ jobs' = jobs + 1 /\ Through(jobs')
      /\ now' = now /\ queue' = queue /\ timer' = timer /\ due' = due
      /\ timer = "off" /\ now - lastRunAt >= Interval
  BY DEF ScheduleNow, CanPassAtOnce, TypeOK
<1>2. queue = <<>>
  BY <1>1 DEF WaitInv
<1>3. \A i \in 1..Len(granted) : granted[i].job \in Nat /\ granted[i].job < jobs'
  BY <1>1, MemberTypes DEF OrderInv, TypeOK
<1>4. TypeOK'
  BY <1>1, <1>3, ThroughKeepsOrder DEF TypeOK, Through
<1>5. ClockInv'
  BY <1>1 DEF ClockInv, Through, TypeOK
<1>6. RateInv'
  BY <1>1, ThroughKeepsRate
<1>7. OrderInv'
  <2>1. /\ \A i \in 1..Len(granted') : granted'[i].job <= jobs'
        /\ \A i, k \in 1..Len(granted') :
              i < k => granted'[i].job < granted'[k].job
    BY <1>1, <1>3, ThroughKeepsOrder
  <2>2. Len(queue') = 0
    BY <1>1, <1>2
  <2>3. QED
    BY <2>1, <2>2 DEF OrderInv, FirstComeFirstServed
<1>8. WaitInv'
  BY <1>1, <1>2 DEF WaitInv
<1>9. QED
  BY <1>4, <1>5, <1>6, <1>7, <1>8

LEMMA ScheduleQueuedIInv == IInv /\ ScheduleQueued => IInv'
<1> SUFFICES ASSUME IInv, ScheduleQueued PROVE IInv'
  OBVIOUS
<1> USE DEF IInv
<1> DEFINE n == Len(queue)
           c == [job |-> jobs', at |-> now, ahead |-> n]
<1>1. /\ jobs' = jobs + 1 /\ now' = now /\ lastRunAt' = lastRunAt
      /\ granted' = granted /\ queue' = Append(queue, c)
      /\ timer' = "running"
      /\ due' = IF timer = "running" THEN due ELSE now + Interval
      /\ n \in Nat /\ now \in Nat /\ jobs \in Nat
  BY DEF ScheduleQueued, EnsureTimerRunning, TypeOK
<1>2. /\ Len(queue') = n + 1 /\ queue'[n + 1] = c
      /\ \A k \in 1..n : queue'[k] = queue[k]
      /\ c \in Job /\ queue' \in Seq(Job)
  BY <1>1 DEF TypeOK, Job
<1>3. TypeOK'
  BY <1>1, <1>2 DEF TypeOK
<1>4. ClockInv'
  BY <1>1 DEF ClockInv, TypeOK
<1>5. RateInv'
  BY <1>1 DEF RateInv, Rate
<1>6. OrderInv'
  <2>1. \A k \in 1..n : queue[k].job \in Nat /\ queue[k].job < c.job
    BY <1>1, MemberTypes DEF OrderInv, TypeOK
  <2>2. \A i \in 1..Len(granted) : granted[i].job \in Nat /\ granted[i].job < c.job
    BY <1>1, MemberTypes DEF OrderInv, TypeOK
  <2>3. c.job = jobs'
    OBVIOUS
  <2>4. FirstComeFirstServed'
    BY <1>1, <1>2, <2>2 DEF OrderInv, FirstComeFirstServed
  <2>5. \A k, l \in 1..(n + 1) : k < l => queue'[k].job < queue'[l].job
    BY <1>1, <1>2, <2>1 DEF OrderInv
  <2>6. QED
    BY <1>1, <1>2, <2>1, <2>2, <2>3, <2>4, <2>5 DEF OrderInv
<1>7. WaitInv'
  <2>1. ASSUME NEW k \in 1..n
        PROVE  due' + Late + LongSpan(k - 1) <= Deadline(queue'[k])
    BY <1>1, <1>2, <2>1 DEF WaitInv
  <2>2. due' + Late + LongSpan(n) <= Deadline(c)
    <3>1. due' \in Nat /\ due' <= now + Interval
      BY <1>1 DEF ClockInv, TypeOK
    <3>2. LongSpan(n) \in Int /\ LongSpan(n + 1) = LongSpan(n) + Interval + Late
      BY <1>1, LongSpanGrows
    <3>3. Deadline(c) = now + LongSpan(n + 1)
      BY DEF Deadline
    <3>4. QED
      BY <1>1, <3>1, <3>2, <3>3
  <2>3. ASSUME NEW k \in 1..(n + 1)
        PROVE  due' + Late + LongSpan(k - 1) <= Deadline(queue'[k])
    <3>1. CASE k \in 1..n
      BY <3>1, <2>1
    <3>2. CASE k = n + 1
      <4>1. k - 1 = n
        BY <3>2, <1>1
      <4>2. QED
        BY <3>2, <4>1, <2>2, <1>2
    <3>3. QED
      BY <3>1, <3>2, <1>1
  <2>4. QED
    BY <2>3, <1>1, <1>2 DEF WaitInv
<1>8. QED
  BY <1>3, <1>4, <1>5, <1>6, <1>7

LEMMA TickGrantsIInv == IInv /\ TickGrants => IInv'
<1> SUFFICES ASSUME IInv, TickGrants PROVE IInv'
  OBVIOUS
<1> USE DEF IInv
<1> DEFINE n == Len(queue)
<1>1. /\ timer = "running" /\ now >= due /\ queue # <<>>
      /\ Through(Head(queue).job) /\ queue' = Tail(queue)
      /\ due' = now + Interval /\ now' = now /\ timer' = timer /\ jobs' = jobs
  BY DEF TickGrants
<1>2. /\ n \in Nat /\ n >= 1 /\ Head(queue) = queue[1]
      /\ Len(queue') = n - 1 /\ queue' \in Seq(Job)
      /\ \A k \in 1..(n - 1) : queue'[k] = queue[k + 1]
  BY <1>1 DEF TypeOK
<1>3. /\ queue[1].job \in Nat
      /\ \A i \in 1..Len(granted) : granted[i].job < queue[1].job
      /\ \A k \in 1..(n - 1) : k + 1 \in 1..n /\ queue[1].job < queue[k + 1].job
  BY <1>2, MemberTypes DEF OrderInv, FirstComeFirstServed
<1>4. now - lastRunAt >= Interval /\ now \in Nat /\ due \in Nat
  BY <1>1 DEF ClockInv, TypeOK
<1>5. TypeOK'
  BY <1>1, <1>2, <1>3, <1>4, ThroughKeepsOrder, SMTT(30) DEF TypeOK, Through
<1>6. ClockInv'
  BY <1>1, <1>4 DEF ClockInv, Through
<1>7. RateInv'
  BY <1>1, <1>2, <1>3, <1>4, ThroughKeepsRate
<1>8. OrderInv'
  <2>1. /\ \A i \in 1..Len(granted') : granted'[i].job <= queue[1].job
        /\ \A i, k \in 1..Len(granted') :
              i < k => granted'[i].job < granted'[k].job
    BY <1>1, <1>2, <1>3, ThroughKeepsOrder
  <2>2. \A i \in 1..Len(granted') : granted'[i].job \in Nat
    <3>1. \A i \in 1..Len(granted') : granted'[i] \in Grant
      BY <1>5 DEF TypeOK
    <3>2. QED
      BY <3>1 DEF Grant
  <2>3. queue[1].job <= jobs /\ jobs \in Nat
    BY <1>2 DEF OrderInv, TypeOK
  <2>4. \A k \in 1..(n - 1) : queue'[k].job \in Nat
    BY <1>2, <1>3, MemberTypes
  <2>5. FirstComeFirstServed'
    <3>1. \A i \in 1..Len(granted'), k \in 1..(n - 1) :
              granted'[i].job < queue'[k].job
      BY <1>2, <1>3, <2>1, <2>2, <2>4
    <3>2. QED
      BY <1>2, <2>1, <3>1 DEF FirstComeFirstServed
  <2>6. \A k, l \in 1..(n - 1) : k < l => queue'[k].job < queue'[l].job
    BY <1>2, <1>3, SMTT(30) DEF OrderInv
  <2>7. \A k \in 1..(n - 1) : queue'[k].job <= jobs
    BY <1>2, <1>3 DEF OrderInv
  <2>8. \A i \in 1..Len(granted') : granted'[i].job <= jobs
    BY <1>3, <2>1, <2>2, <2>3
  <2>9. QED
    BY <1>1, <1>2, <2>5, <2>6, <2>7, <2>8 DEF OrderInv
<1>9. WaitInv'
  <2> SUFFICES ASSUME NEW k \in 1..(n - 1)
               PROVE  due' + Late + LongSpan(k - 1) <= Deadline(queue'[k])
    BY <1>1, <1>2 DEF WaitInv
  <2>1. k + 1 \in 1..n /\ k \in Nat /\ (k + 1) - 1 = k
    BY <1>2
  <2>2. due + Late + LongSpan(k) <= Deadline(queue'[k])
    <3>1. due + Late + LongSpan((k + 1) - 1) <= Deadline(queue[k + 1])
      BY <2>1 DEF WaitInv
    <3>2. QED
      BY <3>1, <2>1, <1>2
  <2>3. /\ LongSpan(k - 1) \in Int
        /\ LongSpan((k - 1) + 1) = LongSpan(k - 1) + Interval + Late
    <3>1. k - 1 \in Int
      BY <2>1
    <3>2. QED
      BY <3>1, LongSpanGrows
  <2>4. (k - 1) + 1 = k
    BY <2>1
  <2>5. now <= due + Late
    BY <1>1 DEF ClockInv
  <2>6. Deadline(queue'[k]) \in Int
    <3>1. queue[k + 1].at \in Nat /\ queue[k + 1].ahead \in Nat
      BY <2>1, MemberTypes
    <3>2. LongSpan(queue[k + 1].ahead + 1) \in Int
      <4>1. queue[k + 1].ahead + 1 \in Int
        BY <3>1
      <4>2. QED
        BY <4>1, LongSpanGrows
    <3>3. queue'[k] = queue[k + 1]
      BY <1>2
    <3>4. QED
      BY <3>1, <3>2, <3>3 DEF Deadline
  <2>7. QED
    BY <1>1, <1>4, <2>2, <2>3, <2>4, <2>5, <2>6
<1>10. QED
  BY <1>5, <1>6, <1>7, <1>8, <1>9

(* The actions that let nobody through: IInv in one place.                   *)
LEMMA OthersIInv ==
    IInv /\ (TickStops \/ Dispose \/ ClockAdvances \/ UNCHANGED vars) => IInv'
<1> SUFFICES ASSUME IInv,
                    TickStops \/ Dispose \/ ClockAdvances \/ UNCHANGED vars
             PROVE  IInv'
  OBVIOUS
<1> USE DEF IInv
<1>1. /\ lastRunAt' = lastRunAt /\ due' = due /\ jobs' = jobs
      /\ granted' = granted /\ now' \in Nat
      /\ \/ queue' = queue /\ timer' = timer
         \/ queue' = <<>> /\ timer' = "off"
  <2>1. CASE TickStops
    BY <2>1 DEF TickStops, TypeOK
  <2>2. CASE Dispose
    BY <2>2 DEF Dispose, TypeOK
  <2>3. CASE ClockAdvances
    BY <2>3 DEF ClockAdvances, TypeOK
  <2>4. CASE UNCHANGED vars
    BY <2>4 DEF vars, TypeOK
  <2>5. QED
    BY <2>1, <2>2, <2>3, <2>4
<1>2. TypeOK'
  <2>1. queue' = <<>> => queue' \in Seq(Job)
    OBVIOUS
  <2>2. QED
    BY <1>1, <2>1 DEF TypeOK
<1>3. ClockInv'
  <2>1. CASE TickStops \/ Dispose
    BY <2>1 DEF TickStops, Dispose, ClockInv
  <2>2. CASE ClockAdvances
    BY <2>2 DEF ClockAdvances, ClockInv, TypeOK
  <2>3. CASE UNCHANGED vars
    BY <2>3 DEF vars, ClockInv
  <2>4. QED
    BY <2>1, <2>2, <2>3
<1>4. RateInv'
  BY <1>1 DEF RateInv, Rate
<1>5. OrderInv'
  BY <1>1 DEF OrderInv, FirstComeFirstServed
<1>6. WaitInv'
  BY <1>1 DEF WaitInv
<1>7. QED
  BY <1>2, <1>3, <1>4, <1>5, <1>6

(* The invariant holds in every reachable state, for every interval.         *)
THEOREM Invariance == Spec => []IInv
<1>1. IInv /\ [Next]_vars => IInv'
  BY ScheduleNowIInv, ScheduleQueuedIInv, TickGrantsIInv, OthersIInv DEF Next
<1>2. QED
  BY InitIInv, <1>1, PTL DEF Spec

(* What IInv says of the waiting callers is their bounded wait: a caller is  *)
(* due no later than its deadline, and no tick is later than Late.           *)
LEMMA WaitBounded == IInv => BoundedWait
<1> SUFFICES ASSUME IInv, NEW k \in 1..Len(queue)
             PROVE  now <= Deadline(queue[k])
  BY DEF BoundedWait
<1> USE DEF IInv
<1>1. k \in Nat /\ k >= 1 /\ timer = "running"
  BY DEF WaitInv, TypeOK
<1>2. now <= due + Late /\ now \in Nat /\ due \in Nat
  BY <1>1 DEF ClockInv, TypeOK
<1>3. due + Late + LongSpan(k - 1) <= Deadline(queue[k])
  BY DEF WaitInv
<1>4. LongSpan(k - 1) \in Nat
  BY <1>1 DEF LongSpan
<1>5. Deadline(queue[k]) \in Int
  <2>1. queue[k].at \in Nat /\ queue[k].ahead \in Nat
    BY MemberTypes
  <2>2. LongSpan(queue[k].ahead + 1) \in Int
    <3>1. queue[k].ahead + 1 \in Int
      BY <2>1
    <3>2. QED
      BY <3>1, LongSpanGrows
  <2>3. QED
    BY <2>1, <2>2 DEF Deadline
<1>6. QED
  BY <1>2, <1>3, <1>4, <1>5

(* No n + 1 callers are ever let through within n intervals, whatever the    *)
(* timers do: what keeps the client under the server's message rate.         *)
THEOREM RateHolds == Spec => []Rate
<1>1. IInv => Rate
  BY DEF IInv, RateInv
<1>2. QED
  BY Invariance, <1>1, PTL

(* Nobody overtakes: the immediate path is never taken past a waiting caller. *)
THEOREM OrderHolds == Spec => []FirstComeFirstServed
<1>1. IInv => FirstComeFirstServed
  BY DEF IInv, OrderInv
<1>2. QED
  BY Invariance, <1>1, PTL

(* No caller is stranded: each waits for as many intervals as it found       *)
(* callers ahead of it, plus one.                                            *)
THEOREM BoundedWaitHolds == Spec => []BoundedWait
BY Invariance, WaitBounded, PTL

(* The numbers of the callers in a sequence follow the sequence: an entry    *)
(* that is appended appends its number, one that leaves takes its number.    *)
LEMMA NumbersOfAppend ==
    ASSUME NEW S, NEW s \in Seq(S), NEW e \in S, \A x \in S : x.job \in Nat
    PROVE  [k \in 1..Len(Append(s, e)) |-> Append(s, e)[k].job]
             = Append([k \in 1..Len(s) |-> s[k].job], e.job)
<1> DEFINE L == [k \in 1..Len(s) |-> s[k].job]
           R == [k \in 1..Len(Append(s, e)) |-> Append(s, e)[k].job]
<1>1. L \in Seq(Nat) /\ Len(L) = Len(s)
  OBVIOUS
<1>2. R \in Seq(Nat) /\ Len(R) = Len(s) + 1
  OBVIOUS
<1>3. Append(L, e.job) \in Seq(Nat) /\ Len(Append(L, e.job)) = Len(s) + 1
  BY <1>1
<1>4. ASSUME NEW k \in 1..(Len(s) + 1) PROVE R[k] = Append(L, e.job)[k]
  BY <1>1
<1>5. QED
  BY <1>2, <1>3, <1>4

LEMMA NumbersOfTail ==
    ASSUME NEW S, NEW s \in Seq(S), s # <<>>, \A x \in S : x.job \in Nat
    PROVE  LET L == [k \in 1..Len(s) |-> s[k].job]
           IN  /\ L # <<>> /\ Head(L) = Head(s).job
               /\ [k \in 1..Len(Tail(s)) |-> Tail(s)[k].job] = Tail(L)
<1> DEFINE L == [k \in 1..Len(s) |-> s[k].job]
           R == [k \in 1..Len(Tail(s)) |-> Tail(s)[k].job]
<1>1. L \in Seq(Nat) /\ Len(L) = Len(s) /\ Len(s) >= 1
  OBVIOUS
<1>2. L # <<>> /\ Head(L) = Head(s).job
  BY <1>1
<1>3. R \in Seq(Nat) /\ Len(R) = Len(s) - 1
  OBVIOUS
<1>4. Tail(L) \in Seq(Nat) /\ Len(Tail(L)) = Len(s) - 1
  BY <1>1
<1>5. ASSUME NEW k \in 1..(Len(s) - 1) PROVE R[k] = Tail(L)[k]
  BY <1>1
<1>6. QED
  BY <1>2, <1>3, <1>4, <1>5

(* A new caller's number is in neither sequence.                             *)
LEMMA NewNumber ==
    ASSUME IInv, jobs < MaxJobs
    PROVE  jobs + 1 \in Callers \ Gate!Known
<1>1. jobs \in Nat /\ jobs + 1 \in 1..MaxJobs
  BY DEF IInv, TypeOK
<1>2. \A i \in 1..Len(granted) : granted[i].job # jobs + 1
  BY <1>1, MemberTypes DEF IInv, OrderInv
<1>3. \A k \in 1..Len(queue) : queue[k].job # jobs + 1
  BY <1>1, MemberTypes DEF IInv, OrderInv
<1>4. QED
  BY <1>1, <1>2, <1>3 DEF Callers, Gate!Known, Gate!ToSet

(* Every step of the limiter is a step of RateGate or leaves its view alone. *)
LEMMA GateStep == IInv /\ [Next]_vars => [Gate!Next]_Gate!gvars
<1> SUFFICES ASSUME IInv, [Next]_vars PROVE [Gate!Next]_Gate!gvars
  OBVIOUS
<1> DEFINE Line == [k \in 1..Len(queue) |-> queue[k].job]
           Passed == [k \in 1..Len(granted) |-> granted[k].job]
<1>1. queue \in Seq(Job) /\ granted \in Seq(Grant) /\ now \in Nat /\ jobs \in Nat
  BY DEF IInv, TypeOK
<1>2. (\A x \in Job : x.job \in Nat) /\ (\A x \in Grant : x.job \in Nat)
  BY DEF Job, Grant
<1>3. ASSUME NEW j \in Nat, Through(j) PROVE Passed' = Append(Passed, j)
  <2>1. [job |-> j, at |-> now] \in Grant
    BY <1>1 DEF Grant
  <2>2. granted' = Append(granted, [job |-> j, at |-> now])
    BY <1>3 DEF Through
  <2>3. QED
    BY <1>1, <1>2, <2>1, <2>2, NumbersOfAppend
<1>4. CASE ScheduleNow
  <2>1. jobs' = jobs + 1 /\ jobs < MaxJobs /\ queue' = queue /\ Through(jobs')
    BY <1>4 DEF ScheduleNow
  <2>2. queue = <<>>
    BY <1>4 DEF ScheduleNow, CanPassAtOnce, IInv, WaitInv
  <2>3. Line = <<>>
    BY <2>2
  <2>4. Passed' = Append(Passed, jobs + 1) /\ Line' = Line
    <3>1. jobs + 1 \in Nat /\ Through(jobs + 1)
      BY <1>1, <2>1
    <3>2. QED
      BY <1>3, <2>1, <3>1
  <2>5. QED
    BY <2>1, <2>3, <2>4, NewNumber DEF Gate!Next, Gate!PassAtOnce
<1>5. CASE ScheduleQueued
  <2> DEFINE c == [job |-> jobs', at |-> now, ahead |-> Len(queue)]
  <2>1. jobs' = jobs + 1 /\ jobs < MaxJobs /\ granted' = granted
        /\ queue' = Append(queue, c)
    BY <1>5 DEF ScheduleQueued
  <2>2. c \in Job /\ c.job = jobs + 1
    BY <1>1, <2>1 DEF Job
  <2>3. Line' = Append(Line, jobs + 1) /\ Passed' = Passed
    BY <1>1, <1>2, <2>1, <2>2, NumbersOfAppend
  <2>4. QED
    BY <2>1, <2>3, NewNumber DEF Gate!Next, Gate!Wait
<1>6. CASE TickGrants
  <2>1. queue # <<>> /\ queue' = Tail(queue) /\ Through(Head(queue).job)
    BY <1>6 DEF TickGrants
  <2>2. Head(queue).job \in Nat
    BY <1>1, <1>2, <2>1
  <2>3. Line # <<>> /\ Head(Line) = Head(queue).job /\ Line' = Tail(Line)
    BY <1>1, <1>2, <2>1, NumbersOfTail
  <2>4. Passed' = Append(Passed, Head(Line))
    BY <1>3, <2>1, <2>2, <2>3
  <2>5. QED
    BY <2>3, <2>4 DEF Gate!Next, Gate!LetThrough
<1>7. CASE Dispose
  <2>1. queue' = <<>> /\ granted' = granted
    BY <1>7 DEF Dispose
  <2>2. Line' = <<>> /\ Passed' = Passed
    BY <2>1
  <2>3. QED
    BY <2>2 DEF Gate!Next, Gate!SendAway
<1>8. CASE TickStops \/ ClockAdvances \/ UNCHANGED vars
  <2>1. queue' = queue /\ granted' = granted
    BY <1>8 DEF TickStops, ClockAdvances, vars
  <2>2. QED
    BY <2>1 DEF Gate!gvars
<1>9. QED
  BY <1>4, <1>5, <1>6, <1>7, <1>8 DEF Next

(* The limiter implements RateGate, for every interval and lateness.         *)
THEOREM GateImplemented == Spec => ImplementsGate
<1>1. Init => Gate!Init
  BY DEF Init, Gate!Init
<1>2. QED
  BY <1>1, GateStep, Invariance, PTL DEF Spec, Gate!Spec, ImplementsGate
=============================================================================
