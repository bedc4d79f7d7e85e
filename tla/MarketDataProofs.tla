-------------------------- MODULE MarketDataProofs --------------------------
(***************************************************************************)
(* For any finite set of symbols and any number of calls, connections and    *)
(* messages under way: what is tracked is what the server streams once the   *)
(* requests on a topic have settled, and no event is emitted for a topic     *)
(* nobody wants.                                                             *)
(*                                                                         *)
(* The invariant relates two ends that never look at each other: what the    *)
(* client will track when it has handled all that is on its way to it, and   *)
(* what the server streams.  The first part is about that operator, the      *)
(* second about the requests of a call and of resubscribeAll; then a lemma   *)
(* for each action.                                                          *)
(***************************************************************************)
EXTENDS MarketData, FiniteSetTheorems, TLAPS

-----------------------------------------------------------------------------
(* What is tracked after the first messages of a sequence.                    *)

LEMMA AfterNone ==
    ASSUME NEW T, NEW s, NEW t
    PROVE  TrackedAfter(T, s, 0, t) <=> t \in T
  BY DEF TrackedAfter

LEMMA AfterOne ==
    ASSUME NEW T, NEW s, NEW t
    PROVE  TrackedAfter(T, s, 1, t) <=> IF Decides(s[1], t) THEN Adds(s[1]) ELSE t \in T
  BY DEF TrackedAfter

LEMMA AfterPrefix ==
    ASSUME NEW S, NEW s \in Seq(S), NEW m \in S, NEW n \in 0..Len(s), NEW T, NEW t
    PROVE  TrackedAfter(T, Append(s, m), n, t) <=> TrackedAfter(T, s, n, t)
<1>1. \A i \in 1..n : Append(s, m)[i] = s[i]
  OBVIOUS
<1> QED
  BY <1>1 DEF TrackedAfter

LEMMA AfterAppend ==
    ASSUME NEW S, NEW s \in Seq(S), NEW m \in S, NEW T, NEW t
    PROVE  TrackedAfter(T, Append(s, m), Len(s) + 1, t)
               <=> IF Decides(m, t) THEN Adds(m) ELSE TrackedAfter(T, s, Len(s), t)
<1> DEFINE u == Append(s, m)
           n == Len(s)
<1>1. n \in Nat /\ u[n + 1] = m /\ \A i \in 1..n : u[i] = s[i]
  OBVIOUS
<1> HIDE DEF u, n
<1>2. CASE Decides(m, t)
  BY <1>1, <1>2 DEF TrackedAfter
<1>3. CASE ~Decides(m, t)
  BY <1>1, <1>3, SMTT(30) DEF TrackedAfter
<1> QED
  BY <1>2, <1>3 DEF u, n

LEMMA AfterTail ==
    ASSUME NEW S, NEW s \in Seq(S), s # <<>>, NEW n \in 1..Len(s), NEW T, NEW U, NEW t,
           t \in U <=> TrackedAfter(T, s, 1, t)
    PROVE  TrackedAfter(U, Tail(s), n - 1, t) <=> TrackedAfter(T, s, n, t)
<1> DEFINE u == Tail(s)
           k == n - 1
<1> SUFFICES TrackedAfter(U, u, k, t) <=> TrackedAfter(T, s, n, t)
  OBVIOUS
<1>1. n \in Nat /\ k \in Nat /\ n = k + 1 /\ \A i \in 1..k : u[i] = s[i + 1]
  OBVIOUS
<1> HIDE DEF u, k
<1>2. t \in U <=> IF Decides(s[1], t) THEN Adds(s[1]) ELSE t \in T
  BY AfterOne
<1>3. \A j \in 2..n : j - 1 \in 1..k /\ s[j] = u[j - 1]
  BY <1>1
<1>4. CASE \E i \in 1..k : Decides(u[i], t)
  <2> DEFINE LastOfTail(i) == /\ Decides(u[i], t) /\ Adds(u[i])
                              /\ \A j \in (i + 1)..k : ~Decides(u[j], t)
             LastOfAll(i) == /\ Decides(s[i], t) /\ Adds(s[i])
                             /\ \A j \in (i + 1)..n : ~Decides(s[j], t)
  <2>1. PICK e \in 1..k : Decides(u[e], t)
    BY <1>4
  <2>2. e + 1 \in 2..n /\ Decides(s[e + 1], t)
    BY <1>1, <2>1
  <2>3. ASSUME NEW i \in 1..k, LastOfTail(i)  PROVE \E h \in 1..n : LastOfAll(h)
    <3>1. i + 1 \in 1..n /\ s[i + 1] = u[i]
      BY <1>1
    <3>2. ASSUME NEW j \in (i + 2)..n  PROVE ~Decides(s[j], t)
      <4>1. j - 1 \in (i + 1)..k /\ s[j] = u[j - 1]
        BY <1>1, <1>3
      <4> QED
        BY <2>3, <4>1
    <3>3. (i + 1) + 1 = i + 2
      OBVIOUS
    <3> QED
      BY <2>3, <3>1, <3>2, <3>3
  <2>4. ASSUME NEW i \in 1..n, LastOfAll(i)  PROVE \E h \in 1..k : LastOfTail(h)
    <3>1. ~(e + 1 \in (i + 1)..n)
      BY <2>2, <2>4
    <3>2. i \in 2..n
      BY <1>1, <2>2, <3>1
    <3>3. i - 1 \in 1..k /\ s[i] = u[i - 1]
      BY <1>3, <3>2
    <3>4. ASSUME NEW j \in i..k  PROVE ~Decides(u[j], t)
      <4>1. j + 1 \in (i + 1)..n /\ s[j + 1] = u[j]
        BY <1>1, <3>2
      <4> QED
        BY <2>4, <4>1
    <3>5. (i - 1) + 1 = i
      BY <3>2
    <3> QED
      BY <2>4, <3>3, <3>4, <3>5
  <2>5. e + 1 \in 1..n
    BY <2>2
  <2> QED
    BY <1>4, <2>2, <2>3, <2>4, <2>5 DEF TrackedAfter
<1>5. CASE ~\E i \in 1..k : Decides(u[i], t)
  <2>1. \A j \in 2..n : ~Decides(s[j], t)
    BY <1>3, <1>5
  <2>2. TrackedAfter(U, u, k, t) <=> t \in U
    BY <1>5 DEF TrackedAfter
  <2>3. CASE Decides(s[1], t)
    <3>1. \A i \in 1..n : Decides(s[i], t) => i = 1
      BY <2>1
    <3>2. 1 \in 1..n /\ 1 + 1 = 2
      OBVIOUS
    <3>3. TrackedAfter(T, s, n, t) <=> Adds(s[1])
      BY <2>1, <2>3, <3>1, <3>2 DEF TrackedAfter
    <3> QED
      BY <1>2, <2>2, <2>3, <3>3
  <2>4. CASE ~Decides(s[1], t)
    <3>1. \A i \in 1..n : ~Decides(s[i], t)
      BY <2>1, <2>4
    <3>2. TrackedAfter(T, s, n, t) <=> t \in T
      BY <3>1 DEF TrackedAfter
    <3> QED
      BY <1>2, <2>2, <2>4, <3>2
  <2> QED
    BY <2>3, <2>4
<1> QED
  BY <1>4, <1>5

-----------------------------------------------------------------------------
(* The requests of a call that is under way.                                  *)

LEMMA UnderWayTypes ==
    ASSUME TypeOK, NEW c \in Calls, calls[c].step \in Steps
    PROVE  /\ calls[c] \in InProgress
           /\ calls[c].op \in {"subscribe", "unsubscribe"}
           /\ calls[c].topic \in Topics /\ SpotOf(calls[c].topic) \in Topics
<1>1. calls[c] \in InProgress
  BY DEF TypeOK, Steps, NotMade, Over
<1> QED
  BY <1>1 DEF InProgress, Topics, Kinds, SpotOf

LEMMA AboutIsRequest ==
    ASSUME TypeOK, NEW c \in Calls, calls[c].step \in Steps, NEW t \in Topics
    PROVE  RequestAbout(c, t) \in Requests
<1>1. calls[c].op \in {"subscribe", "unsubscribe"} /\ {t} \in (SUBSET Topics) \ {{}}
  BY UnderWayTypes
<1> QED
  BY <1>1 DEF RequestAbout, Requests

-----------------------------------------------------------------------------
(* Steps that leave parts of the state alone.                                 *)

LEMMA KeptAgreement ==
    ASSUME Agreement, UNCHANGED <<tracked, replies, resumed, server, wire, overtaken>>,
           up' => up, unsure \subseteq unsure'
    PROVE  Agreement'
  BY DEF Agreement, AgreesOn, WillTrack, WillTrackAfter, ToResubscribe, WasRefused

LEMMA KeptExpected ==
    ASSUME AllExpected, UNCHANGED <<wire, replies>>, pending \subseteq pending',
           unsure \subseteq unsure'
    PROVE  AllExpected'
  BY DEF AllExpected, Expected, IsReply

LEMMA KeptNoneTwice == ASSUME NoneTwice, UNCHANGED <<wire, replies>> PROVE NoneTwice'
  BY DEF NoneTwice, IsReply

LEMMA KeptNotUnderWay ==
    ASSUME UNCHANGED <<wire, replies>>, NEW r
    PROVE  NotUnderWay(r)' <=> NotUnderWay(r)
  BY DEF NotUnderWay, IsReply

LEMMA KeptNoneAgain ==
    ASSUME NoneAgain, UNCHANGED calls, \A r \in Requests : NotUnderWay(r) => NotUnderWay(r)',
           TypeOK
    PROVE  NoneAgain'
<1> SUFFICES ASSUME NEW c \in Calls
             PROVE  /\ calls[c] = NotMade => \A r \in Requests : r.by = c => NotUnderWay(r)'
                    /\ calls[c].step \in {"spots", "spotsSent"} => calls[c].topic.kind = "bars"
                    /\ calls[c].step \in {"spots", "spotsSent", "topic"} =>
                            NotUnderWay(RequestAbout(c, calls[c].topic))'
                    /\ calls[c].step = "spots" =>
                            NotUnderWay(RequestAbout(c, SpotOf(calls[c].topic)))'
  BY DEF NoneAgain
<1>1. calls[c].step \in {"spots", "spotsSent", "topic"} =>
        /\ RequestAbout(c, calls[c].topic) \in Requests
        /\ RequestAbout(c, SpotOf(calls[c].topic)) \in Requests
  BY UnderWayTypes, AboutIsRequest DEF Steps
<1>2. \A t : RequestAbout(c, t)' = RequestAbout(c, t)
  BY DEF RequestAbout
<1>3. calls'[c] = calls[c]
  OBVIOUS
<1> QED
  BY <1>1, <1>2, <1>3 DEF NoneAgain

LEMMA KeptOnce == ASSUME ResubscribedOnce, UNCHANGED <<wire, overtaken>> PROVE ResubscribedOnce'
  BY DEF ResubscribedOnce, IsResubscription

-----------------------------------------------------------------------------
(* The calls.                                                                 *)

LEMMA CallIInv ==
    ASSUME IInv, NEW c \in Calls, NEW op \in {"subscribe", "unsubscribe"}, NEW t \in Topics,
           Call(c, op, t)
    PROVE  IInv'
<1>1. /\ calls[c] = NotMade
      /\ UNCHANGED <<tracked, up, sessions, pending, wire, replies, resumed, server, unsure,
                     overtaken>>
      /\ calls' = [d \in Calls |-> calls'[d]]
  BY DEF Call
<1>2. calls'[c] = [step |-> FirstStep(op, t), op |-> op, topic |-> t,
                relies |-> FirstStep(op, t) = "topic"]
  BY DEF Call
<1>3. FirstStep(op, t) \in {"spots", "topic"} /\ (FirstStep(op, t) = "spots" => t.kind = "bars")
  BY DEF FirstStep
<1>4. ASSUME NEW d \in Calls \ {c}
      PROVE  \/ calls'[d] = calls[d]
             \/ (calls'[d] = [calls[d] EXCEPT !.relies = FALSE] /\ calls[d].step \in Steps)
  BY DEF Call, RidesOn
<1>5. calls'[c] \in InProgress
  BY <1>2, <1>3 DEF InProgress, Steps
<1>6. ASSUME NEW d \in Calls \ {c}
      PROVE  /\ calls'[d] \in {NotMade, Over} \cup InProgress
             /\ calls'[d] = NotMade => calls[d] = NotMade
             /\ calls'[d].step \in Steps =>
                    /\ calls'[d].step = calls[d].step /\ calls'[d].op = calls[d].op
                    /\ calls'[d].topic = calls[d].topic
  <2>1. CASE calls'[d] = calls[d]
    BY <1>6, <2>1 DEF IInv, TypeOK
  <2>2. CASE calls'[d] = [calls[d] EXCEPT !.relies = FALSE] /\ calls[d].step \in Steps
    <3>1. calls[d] \in InProgress
      BY <2>2, UnderWayTypes DEF IInv
    <3>2. calls'[d] \in InProgress /\ calls'[d].step = calls[d].step
          /\ calls'[d].op = calls[d].op /\ calls'[d].topic = calls[d].topic
      BY <2>2, <3>1 DEF InProgress
    <3> QED
      BY <2>2, <3>2 DEF NotMade, Steps
  <2> QED
    BY <1>4, <2>1, <2>2
<1>7. TypeOK'
  <2>1. calls' \in [Calls -> {NotMade, Over} \cup InProgress]
    BY <1>1, <1>5, <1>6
  <2> QED
    BY <1>1, <2>1 DEF IInv, TypeOK
<1>8. NoneAgain'
  <2> SUFFICES ASSUME NEW d \in Calls
               PROVE  /\ calls'[d] = NotMade => \A r \in Requests : r.by = d => NotUnderWay(r)'
                      /\ calls'[d].step \in {"spots", "spotsSent"} => calls'[d].topic.kind = "bars"
                      /\ calls'[d].step \in {"spots", "spotsSent", "topic"} =>
                              NotUnderWay(RequestAbout(d, calls[d].topic))'
                      /\ calls'[d].step = "spots" =>
                              NotUnderWay(RequestAbout(d, SpotOf(calls[d].topic)))'
    BY DEF NoneAgain
  <2>1. \A r : NotUnderWay(r)' <=> NotUnderWay(r)
    BY <1>1, KeptNotUnderWay
  <2>2. CASE d = c
    <3>1. \A r \in Requests : r.by = c => NotUnderWay(r)'
      BY <1>1, <2>1 DEF IInv, NoneAgain
    <3>2. RequestAbout(c, t)' \in Requests /\ RequestAbout(c, SpotOf(t))' \in Requests
      <4>1. SpotOf(t) \in Topics
        BY DEF SpotOf, Topics, Kinds
      <4>2. calls'[c].op = op
        BY <1>2
      <4>3. {t} \in (SUBSET Topics) \ {{}} /\ {SpotOf(t)} \in (SUBSET Topics) \ {{}}
        BY <4>1
      <4> QED
        BY <4>2, <4>3 DEF RequestAbout, Requests
    <3>3. RequestAbout(c, t)'.by = c /\ RequestAbout(c, SpotOf(t))'.by = c
      BY DEF RequestAbout
    <3>4. calls'[c] # NotMade
      BY <1>2, <1>3 DEF NotMade
    <3> QED
      BY <1>2, <1>3, <2>2, <3>1, <3>2, <3>3, <3>4
  <2>3. CASE d # c
    <3>1. calls'[d].step \in Steps => \A x : RequestAbout(d, x)' = RequestAbout(d, x)
      BY <1>6, <2>3 DEF RequestAbout
    <3> QED
      BY <1>6, <2>1, <2>3, <3>1 DEF IInv, NoneAgain, Steps
  <2> QED
    BY <2>2, <2>3
<1>9. AllExpected' /\ NoneTwice' /\ ResubscribedOnce'
  BY <1>1, KeptExpected, KeptNoneTwice, KeptOnce DEF IInv
<1>10. Agreement'
  BY <1>1, KeptAgreement DEF IInv
<1> QED
  BY <1>7, <1>8, <1>9, <1>10 DEF IInv

LEMMA RequestIsAbout ==
    ASSUME IInv, NEW c \in Waiting
    PROVE  /\ RequestOf(c) \in Requests /\ RequestOf(c).by = c
           /\ NotUnderWay(RequestOf(c))
           /\ RequestOf(c) = RequestAbout(c, IF calls[c].step = "spots"
                                             THEN SpotOf(calls[c].topic) ELSE calls[c].topic)
<1>1. c \in Calls /\ calls[c].step \in {"spots", "topic"} /\ calls[c].step \in Steps
  BY DEF Waiting, Steps
<1>2. calls[c].topic \in Topics /\ SpotOf(calls[c].topic) \in Topics
  BY <1>1, UnderWayTypes DEF IInv
<1>3. RequestOf(c) = RequestAbout(c, IF calls[c].step = "spots"
                                     THEN SpotOf(calls[c].topic) ELSE calls[c].topic)
  BY <1>1 DEF RequestOf, RequestAbout
<1>4. RequestOf(c) \in Requests
  <2>1. \A t \in Topics : RequestAbout(c, t) \in Requests
    BY <1>1, AboutIsRequest DEF IInv
  <2> QED
    BY <1>2, <1>3, <2>1
<1>5. RequestOf(c).by = c
  BY DEF RequestOf
<1>6. NotUnderWay(RequestOf(c))
  BY <1>1, <1>3 DEF IInv, NoneAgain
<1> QED
  BY <1>3, <1>4, <1>5, <1>6

LEMMA SentCall ==
    ASSUME IInv, NEW c \in Waiting
    PROVE  /\ Sent(calls[c]) \in InProgress
           /\ Sent(calls[c]).step \in {"spotsSent", "topicSent"}
           /\ Sent(calls[c]).step = "spotsSent" <=> calls[c].step = "spots"
           /\ Sent(calls[c]).op = calls[c].op /\ Sent(calls[c]).topic = calls[c].topic
<1>1. calls[c].step \in {"spots", "topic"} /\ calls[c] \in InProgress
  BY UnderWayTypes DEF IInv, Waiting, Steps
<1> QED
  BY <1>1 DEF Sent, InProgress, Steps

\* A call whose spots have been asked for has still to ask for its bars.
LEMMA SentNotAgain ==
    ASSUME IInv, NEW c \in Waiting, Sent(calls[c]).step = "spotsSent"
    PROVE  /\ calls[c].topic.kind = "bars"
           /\ NotUnderWay(RequestAbout(c, calls[c].topic))
           /\ RequestAbout(c, calls[c].topic) # RequestOf(c)
<1>1. calls[c].step = "spots" /\ c \in Calls
  BY SentCall DEF Waiting
<1>2. calls[c].topic.kind = "bars" /\ NotUnderWay(RequestAbout(c, calls[c].topic))
  BY <1>1 DEF IInv, NoneAgain
<1>3. RequestOf(c) = RequestAbout(c, SpotOf(calls[c].topic))
  BY <1>1, RequestIsAbout
<1> QED
  BY <1>2, <1>3 DEF RequestAbout, SpotOf

LEMMA SendIInv == ASSUME IInv, NEW c \in Calls, Send(c) PROVE IInv'
<1> DEFINE r == RequestOf(c)
<1>1. /\ c \in Waiting /\ up
      /\ pending' = pending \cup {r}
      /\ wire' = Append(wire, r)
      /\ calls' = [calls EXCEPT ![c] = Sent(calls[c])]
      /\ UNCHANGED <<tracked, up, sessions, replies, resumed, server, unsure, overtaken>>
  BY DEF Send
<1>2. /\ r \in Requests /\ r.by = c /\ NotUnderWay(r)
  BY <1>1, RequestIsAbout
<1>3. /\ calls'[c] = Sent(calls[c]) /\ \A d \in Calls \ {c} : calls'[d] = calls[d]
      /\ calls' = [d \in Calls |-> calls'[d]]
  BY <1>1 DEF IInv, TypeOK
<1> HIDE DEF r
<1>4. /\ wire \in Seq(Requests) /\ wire' \in Seq(Requests)
      /\ DOMAIN wire' = 1..(Len(wire) + 1) /\ DOMAIN wire = 1..Len(wire) /\ Len(wire) \in Nat
      /\ wire'[Len(wire) + 1] = r
      /\ \A i \in DOMAIN wire : wire'[i] = wire[i]
  BY <1>1, <1>2 DEF IInv, TypeOK
<1>5. \A i \in DOMAIN wire' : i \notin DOMAIN wire => wire'[i] = r /\ i = Len(wire) + 1
  BY <1>4
<1>6. /\ calls'[c].step \in {"spotsSent", "topicSent"}
      /\ calls'[c].step = "spotsSent" <=> calls[c].step = "spots"
      /\ calls'[c].op = calls[c].op /\ calls'[c].topic = calls[c].topic
      /\ calls'[c] \in InProgress
      /\ \A d \in Calls \ {c} : calls'[d] = calls[d]
      /\ calls' \in [Calls -> {NotMade, Over} \cup InProgress]
  <2>1. calls'[c] = Sent(calls[c]) /\ calls'[c] \in InProgress
    BY <1>1, <1>3, SentCall
  <2>2. \A d \in Calls \ {c} : calls'[d] \in {NotMade, Over} \cup InProgress
    BY <1>3 DEF IInv, TypeOK
  <2> QED
    BY <1>1, <1>3, <2>1, <2>2, SentCall
<1>7. TypeOK'
  BY <1>1, <1>2, <1>4, <1>6 DEF IInv, TypeOK
<1>8. AllExpected'
  BY <1>1, <1>4, <1>5 DEF IInv, AllExpected, Expected, IsReply
<1>9. NoneTwice'
  <2>1. \A i, j \in DOMAIN wire' : wire'[i] = wire'[j] => i = j
    BY <1>2, <1>4, <1>5 DEF IInv, NoneTwice, NotUnderWay
  <2>2. \A i \in DOMAIN wire', j \in DOMAIN replies :
            IsReply(j) => replies[j].request # wire'[i]
    BY <1>2, <1>4, <1>5 DEF IInv, NoneTwice, NotUnderWay
  <2> QED
    BY <1>1, <2>1, <2>2 DEF IInv, NoneTwice, IsReply
<1>10. \A q : q # r /\ NotUnderWay(q) => NotUnderWay(q)'
  BY <1>1, <1>4, <1>5 DEF NotUnderWay, IsReply
<1>11. NoneAgain'
  <2> SUFFICES ASSUME NEW d \in Calls
               PROVE  /\ calls'[d] = NotMade => \A q \in Requests : q.by = d => NotUnderWay(q)'
                      /\ calls'[d].step \in {"spots", "spotsSent"} => calls'[d].topic.kind = "bars"
                      /\ calls'[d].step \in {"spots", "spotsSent", "topic"} =>
                              NotUnderWay(RequestAbout(d, calls[d].topic))'
                      /\ calls'[d].step = "spots" =>
                              NotUnderWay(RequestAbout(d, SpotOf(calls[d].topic)))'
    BY DEF NoneAgain
  <2>1. \A x : RequestAbout(d, x)' = RequestAbout(d, x) /\ RequestAbout(d, x).by = d
    BY <1>6 DEF RequestAbout
  <2>2. CASE d = c
    <3>1. calls'[c] # NotMade
      BY <1>6 DEF NotMade
    <3>2. ASSUME calls'[c].step = "spotsSent"
          PROVE  calls[c].topic.kind = "bars" /\ NotUnderWay(RequestAbout(c, calls[c].topic))'
      <4>1. /\ calls[c].topic.kind = "bars" /\ NotUnderWay(RequestAbout(c, calls[c].topic))
            /\ RequestAbout(c, calls[c].topic) # r
        BY <1>1, <1>3, <3>2, SentNotAgain DEF r
      <4> QED
        BY <1>6, <1>10, <2>1, <2>2, <4>1
    <3> QED
      BY <1>6, <2>2, <3>1, <3>2
  <2>3. CASE d # c
    BY <1>2, <1>6, <1>10, <2>1, <2>3 DEF IInv, NoneAgain
  <2> QED
    BY <2>2, <2>3
<1>12. ~IsResubscription(r)
  BY <1>2 DEF IsResubscription, Resubscription, Calls
<1>13. ResubscribedOnce'
  <2>1. \A i \in DOMAIN wire' : IsResubscription(wire'[i]) =>
            /\ i \in DOMAIN wire /\ wire'[i] = wire[i]
            /\ \A j \in DOMAIN wire' : j < i => j \in DOMAIN wire /\ wire'[j] = wire[j]
    BY <1>4, <1>5, <1>12
  <2> QED
    BY <1>1, <2>1 DEF IInv, ResubscribedOnce, IsResubscription
<1>14. Agreement'
  <2>1. \A t : ToResubscribe(t)' <=> ToResubscribe(t)
    BY <1>4, <1>5, <1>12 DEF ToResubscribe, IsResubscription
  <2> QED
    BY <1>1, <2>1 DEF IInv, Agreement, AgreesOn, WillTrack, WillTrackAfter, WasRefused
<1> QED
  BY <1>7, <1>8, <1>9, <1>11, <1>13, <1>14 DEF IInv

\* A step that only ends calls, or lets them go on to their second request.
GoesOn(old, new) ==
    \/ new = old
    \/ new = Over
    \/ /\ old.step = "spotsSent" /\ old \in InProgress
       /\ new = [old EXCEPT !.step = "topic"]

LEMMA GoneOnTypes ==
    ASSUME IInv, calls' = [d \in Calls |-> calls'[d]],
           \A c \in Calls : GoesOn(calls[c], calls'[c])
    PROVE  calls' \in [Calls -> {NotMade, Over} \cup InProgress]
<1>1. ASSUME NEW c \in Calls  PROVE calls'[c] \in {NotMade, Over} \cup InProgress
  <2>1. calls[c] \in {NotMade, Over} \cup InProgress
    BY DEF IInv, TypeOK
  <2>2. CASE calls[c].step = "spotsSent" /\ calls[c] \in InProgress
             /\ calls'[c] = [calls[c] EXCEPT !.step = "topic"]
    BY <2>2 DEF InProgress, Steps
  <2> QED
    BY <1>1, <2>1, <2>2 DEF GoesOn
<1> QED
  BY <1>1

LEMMA GoneOnNoneAgain ==
    ASSUME IInv, \A c \in Calls : GoesOn(calls[c], calls'[c]),
           \A r \in Requests : NotUnderWay(r) => NotUnderWay(r)'
    PROVE  NoneAgain'
<1> SUFFICES ASSUME NEW c \in Calls
             PROVE  /\ calls'[c] = NotMade => \A r \in Requests : r.by = c => NotUnderWay(r)'
                    /\ calls'[c].step \in {"spots", "spotsSent"} => calls'[c].topic.kind = "bars"
                    /\ calls'[c].step \in {"spots", "spotsSent", "topic"} =>
                            NotUnderWay(RequestAbout(c, calls[c].topic))'
                    /\ calls'[c].step = "spots" =>
                            NotUnderWay(RequestAbout(c, SpotOf(calls[c].topic)))'
  BY DEF NoneAgain
<1>1. calls[c].step \in {"spots", "spotsSent", "topic"} =>
        /\ RequestAbout(c, calls[c].topic) \in Requests
        /\ RequestAbout(c, SpotOf(calls[c].topic)) \in Requests
  BY UnderWayTypes, AboutIsRequest DEF Steps, IInv
<1>2. CASE calls'[c] = calls[c]
  <2>1. \A t : RequestAbout(c, t)' = RequestAbout(c, t)
    BY <1>2 DEF RequestAbout
  <2> QED
    BY <1>1, <1>2, <2>1 DEF IInv, NoneAgain
<1>3. CASE calls'[c] = Over
  BY <1>3 DEF Over, NotMade
<1>4. CASE calls[c].step = "spotsSent" /\ calls[c] \in InProgress
           /\ calls'[c] = [calls[c] EXCEPT !.step = "topic"]
  <2>1. calls'[c].step = "topic" /\ calls'[c].topic = calls[c].topic
        /\ calls'[c].op = calls[c].op
    BY <1>4 DEF InProgress
  <2>2. \A t : RequestAbout(c, t)' = RequestAbout(c, t)
    BY <2>1 DEF RequestAbout
  <2>3. calls'[c] # NotMade
    BY <2>1 DEF NotMade
  <2> QED
    BY <1>1, <1>4, <2>1, <2>2, <2>3 DEF IInv, NoneAgain
<1> QED
  BY <1>2, <1>3, <1>4 DEF GoesOn

LEMMA SettledGoesOn ==
    ASSUME IInv, NEW rs, calls' = Settled(rs, FALSE)
    PROVE  /\ calls' = [d \in Calls |-> calls'[d]]
           /\ \A c \in Calls : GoesOn(calls[c], calls'[c])
<1>1. \A call : After(call, FALSE) = Over
  BY DEF After
<1>2. calls' = [c \in Calls |-> IF \E r \in rs : r.by = c THEN Over ELSE calls[c]]
  BY <1>1 DEF Settled
<1>3. calls' = [c \in Calls |-> calls'[c]]
  BY <1>2
<1>4. ASSUME NEW c \in Calls  PROVE calls'[c] = calls[c] \/ calls'[c] = Over
  BY <1>2
<1> QED
  BY <1>3, <1>4 DEF GoesOn

LEMMA CallFailsIInv == ASSUME IInv, NEW c \in Calls, CallFails(c) PROVE IInv'
<1>1. /\ UNCHANGED <<tracked, up, sessions, pending, wire, replies, resumed, server, unsure,
                     overtaken>>
      /\ calls' = [calls EXCEPT ![c] = Over]
  BY DEF CallFails
<1>2. /\ calls' = [d \in Calls |-> calls'[d]]
      /\ \A d \in Calls : GoesOn(calls[d], calls'[d])
  <2>1. calls = [d \in Calls |-> calls[d]]
    BY DEF IInv, TypeOK
  <2>2. calls' = [d \in Calls |-> calls'[d]]
    BY <1>1, <2>1
  <2>3. ASSUME NEW d \in Calls  PROVE calls'[d] = calls[d] \/ calls'[d] = Over
    BY <1>1, <2>1
  <2> QED
    BY <2>2, <2>3 DEF GoesOn
<1>3. TypeOK'
  BY <1>1, <1>2, GoneOnTypes DEF IInv, TypeOK
<1>4. NoneAgain'
  BY <1>1, <1>2, GoneOnNoneAgain, KeptNotUnderWay
<1>5. AllExpected' /\ NoneTwice' /\ ResubscribedOnce' /\ Agreement'
  BY <1>1, KeptExpected, KeptNoneTwice, KeptOnce, KeptAgreement DEF IInv
<1> QED
  BY <1>3, <1>4, <1>5 DEF IInv

-----------------------------------------------------------------------------
(* The connection.                                                            *)

LEMMA TimesOutIInv == ASSUME IInv, NEW r \in pending, TimesOut(r) PROVE IInv'
<1>1. /\ calls' = Settled({r}, FALSE)
      /\ pending' = pending \ {r} /\ unsure' = unsure \cup r.topics
      /\ UNCHANGED <<tracked, up, sessions, wire, replies, resumed, server, overtaken>>
  BY DEF TimesOut
<1>2. /\ calls' = [d \in Calls |-> calls'[d]]
      /\ \A d \in Calls : GoesOn(calls[d], calls'[d])
  BY <1>1, SettledGoesOn
<1>3. TypeOK'
  <2>1. r \in Requests /\ r.topics \subseteq Topics
    BY DEF IInv, TypeOK, Requests
  <2> QED
    BY <1>1, <1>2, <2>1, GoneOnTypes DEF IInv, TypeOK
<1>4. NoneAgain'
  BY <1>1, <1>2, GoneOnNoneAgain, KeptNotUnderWay
<1>5. AllExpected'
  <2>1. \A q : Expected(q) => Expected(q)'
    BY <1>1 DEF Expected
  <2> QED
    BY <1>1, <2>1 DEF IInv, AllExpected, IsReply
<1>6. NoneTwice' /\ ResubscribedOnce' /\ Agreement'
  BY <1>1, KeptNoneTwice, KeptOnce, KeptAgreement DEF IInv
<1> QED
  BY <1>3, <1>4, <1>5, <1>6 DEF IInv

LEMMA DisconnectedIInv == ASSUME IInv, Disconnected PROVE IInv'
<1>1. /\ calls' = Settled(pending, FALSE) /\ up' = FALSE
      /\ pending' = {} /\ wire' = <<>> /\ replies' = <<>> /\ server' = {} /\ unsure' = {}
      /\ overtaken' = {} /\ resumed = <<>> /\ UNCHANGED <<tracked, sessions, resumed>>
  BY DEF Disconnected, EventLoopFree
<1>2. /\ calls' = [d \in Calls |-> calls'[d]]
      /\ \A d \in Calls : GoesOn(calls[d], calls'[d])
  BY <1>1, SettledGoesOn
<1>3. TypeOK'
  <2>1. wire' \in Seq(Requests) /\ replies' \in Seq(Replies)
    BY <1>1
  <2>2. calls' \in [Calls -> {NotMade, Over} \cup InProgress]
    BY <1>2, GoneOnTypes
  <2> QED
    BY <1>1, <2>1, <2>2 DEF IInv, TypeOK
<1>4. NoneAgain'
  <2>1. \A r : NotUnderWay(r)'
    BY <1>1 DEF NotUnderWay
  <2> QED
    BY <1>2, <2>1, GoneOnNoneAgain
<1>5. AllExpected' /\ NoneTwice' /\ ResubscribedOnce' /\ Agreement'
  BY <1>1 DEF AllExpected, NoneTwice, ResubscribedOnce, Agreement
<1> QED
  BY <1>3, <1>4, <1>5 DEF IInv

-----------------------------------------------------------------------------
(* Messages on their way to the client.                                       *)

LEMMA MessageArrivesLast ==
    ASSUME TypeOK, NEW m \in Replies, replies' = Append(replies, m),
           UNCHANGED <<tracked, resumed>>
    PROVE  /\ replies' \in Seq(Replies) /\ Len(replies) \in Nat
           /\ DOMAIN replies = 1..Len(replies) /\ DOMAIN replies' = 1..(Len(replies) + 1)
           /\ replies'[Len(replies) + 1] = m
           /\ \A i \in DOMAIN replies : replies'[i] = replies[i]
           /\ \A n \in 0..Len(replies) : \A t : WillTrackAfter(n, t)' <=> WillTrackAfter(n, t)
           /\ \A t : WillTrack(t)' <=> IF Decides(m, t) THEN Adds(m) ELSE WillTrack(t)
           /\ \A t : WasRefused(t)' <=> WasRefused(t) \/ Refused(m, t)
<1> DEFINE base == NowTracked(tracked, resumed)
<1>1. /\ replies \in Seq(Replies) /\ replies' \in Seq(Replies) /\ Len(replies) \in Nat
      /\ DOMAIN replies = 1..Len(replies) /\ DOMAIN replies' = 1..(Len(replies) + 1)
      /\ replies'[Len(replies) + 1] = m /\ Len(replies') = Len(replies) + 1
      /\ \A i \in DOMAIN replies : replies'[i] = replies[i]
  BY DEF TypeOK
<1>2. base' = base
  OBVIOUS
<1> HIDE DEF base
<1>3. ASSUME NEW n \in 0..Len(replies), NEW t
      PROVE  WillTrackAfter(n, t)' <=> WillTrackAfter(n, t)
  <2>1. TrackedAfter(base, replies', n, t) <=> TrackedAfter(base, replies, n, t)
    BY <1>1, AfterPrefix
  <2> QED
    BY <1>2, <2>1 DEF WillTrackAfter, base
<1>4. ASSUME NEW t
      PROVE  WillTrack(t)' <=> IF Decides(m, t) THEN Adds(m) ELSE WillTrack(t)
  <2>1. TrackedAfter(base, replies', Len(replies) + 1, t)
            <=> IF Decides(m, t) THEN Adds(m) ELSE TrackedAfter(base, replies, Len(replies), t)
    BY <1>1, AfterAppend
  <2>2. WillTrack(t)' <=> TrackedAfter(base, replies', Len(replies) + 1, t)
    BY <1>1, <1>2 DEF WillTrack, WillTrackAfter, base
  <2>3. WillTrack(t) <=> TrackedAfter(base, replies, Len(replies), t)
    BY DEF WillTrack, WillTrackAfter, base
  <2> QED
    BY <2>1, <2>2, <2>3
<1>5. ASSUME NEW t
      PROVE  WasRefused(t)' <=> WasRefused(t) \/ Refused(m, t)
  <2>1. (\E i \in DOMAIN replies' : Refused(replies'[i], t))
            <=> (\E i \in DOMAIN replies : Refused(replies[i], t)) \/ Refused(m, t)
    <3>1. \A i \in DOMAIN replies' : i \in DOMAIN replies \/ i = Len(replies) + 1
      BY <1>1
    <3>2. Len(replies) + 1 \in DOMAIN replies' /\ \A i \in DOMAIN replies : i \in DOMAIN replies'
      BY <1>1
    <3> QED
      BY <1>1, <3>1, <3>2
  <2> QED
    BY <2>1 DEF WasRefused
<1> QED
  BY <1>1, <1>3, <1>4, <1>5

LEMMA MessageIsTaken ==
    ASSUME TypeOK, replies # <<>>, replies' = Tail(replies), NEW t,
           t \in NowTracked(tracked, resumed)' <=> WillTrackAfter(1, t)
    PROVE  /\ \A n \in 1..Len(replies) : WillTrackAfter(n - 1, t)' <=> WillTrackAfter(n, t)
           /\ WillTrack(t)' <=> WillTrack(t)
<1> DEFINE base == NowTracked(tracked, resumed)
           next == base'
<1>1. replies \in Seq(Replies) /\ Len(replies) \in Nat /\ Len(replies) >= 1
      /\ Len(replies') = Len(replies) - 1
  BY DEF TypeOK
<1>2. t \in next <=> TrackedAfter(base, replies, 1, t)
  BY DEF WillTrackAfter
<1> HIDE DEF base, next
<1>3. ASSUME NEW n \in 1..Len(replies)
      PROVE  WillTrackAfter(n - 1, t)' <=> WillTrackAfter(n, t)
  <2>1. TrackedAfter(next, Tail(replies), n - 1, t) <=> TrackedAfter(base, replies, n, t)
    BY <1>1, <1>2, AfterTail
  <2> QED
    BY <2>1 DEF WillTrackAfter, base, next
<1>4. WillTrack(t)' <=> WillTrack(t)
  <2>0. Len(replies) \in 1..Len(replies)
    BY <1>1
  <2>1. PICK n \in 1..Len(replies) : n = Len(replies)
    BY <2>0
  <2>2. Len(replies') = n - 1
    BY <1>1, <2>1
  <2>3. WillTrack(t)' <=> WillTrackAfter(n - 1, t)'
    BY <2>2 DEF WillTrack, WillTrackAfter
  <2> QED
    BY <1>3, <2>1, <2>3 DEF WillTrack
<1> QED
  BY <1>3, <1>4

LEMMA OnlineIfUsed == ASSUME TypeOK, wire # <<>> \/ server # {} \/ replies # <<>> PROVE up
  BY DEF TypeOK

LEMMA ServerPublishesIInv == ASSUME IInv, NEW t \in Topics, ServerPublishes(t) PROVE IInv'
<1> DEFINE e == Event(t)
<1>1. /\ t \in server /\ replies' = Append(replies, e)
      /\ UNCHANGED <<tracked, calls, up, sessions, pending, wire, resumed, server, unsure,
                     overtaken>>
  BY DEF ServerPublishes
<1>2. e \in Replies /\ e.kind = "event" /\ e.topic = t
  BY DEF Event, Replies
<1>3. up
  BY <1>1, OnlineIfUsed DEF IInv
<1> HIDE DEF e
<1>4. /\ replies' \in Seq(Replies) /\ Len(replies) \in Nat
      /\ DOMAIN replies = 1..Len(replies) /\ DOMAIN replies' = 1..(Len(replies) + 1)
      /\ replies'[Len(replies) + 1] = e
      /\ \A i \in DOMAIN replies : replies'[i] = replies[i]
  BY <1>1, <1>2, MessageArrivesLast DEF IInv
<1>5. \A i \in DOMAIN replies' : IsReply(i)' => i \in DOMAIN replies /\ IsReply(i)
                                               /\ replies'[i] = replies[i]
  BY <1>2, <1>4 DEF IsReply
<1>6. TypeOK'
  BY <1>1, <1>3, <1>4 DEF IInv, TypeOK
<1>7. AllExpected'
  BY <1>1, <1>5 DEF IInv, AllExpected, Expected
<1>8. NoneTwice'
  BY <1>1, <1>5 DEF IInv, NoneTwice
<1>9. NoneAgain'
  <2>1. \A r : NotUnderWay(r) => NotUnderWay(r)'
    BY <1>1, <1>5 DEF NotUnderWay
  <2> QED
    BY <1>1, <2>1, KeptNoneAgain DEF IInv
<1>10. ResubscribedOnce'
  BY <1>1, KeptOnce DEF IInv
<1>11. Agreement'
  <2> SUFFICES ASSUME NEW x \in Topics, x \notin unsure
               PROVE  AgreesOn(x)'
    BY <1>1 DEF Agreement
  <2>1. AgreesOn(x)
    BY <1>3 DEF IInv, Agreement
  <2>2. ~Decides(e, x) /\ ~Refused(e, x)
    BY <1>2 DEF Decides, Refused
  <2>3. WillTrack(x)' <=> WillTrack(x)
    BY <1>1, <1>2, <2>2, MessageArrivesLast DEF IInv
  <2>4. WasRefused(x)' <=> WasRefused(x)
    BY <1>1, <1>2, <2>2, MessageArrivesLast DEF IInv
  <2>5. ToResubscribe(x)' <=> ToResubscribe(x)
    BY <1>1 DEF ToResubscribe
  <2>6. ASSUME x \notin overtaken,
               NEW i \in DOMAIN replies', replies'[i].kind = "event", replies'[i].topic = x
        PROVE  WillTrackAfter(i - 1, x)'
    <3>1. i - 1 \in 0..Len(replies)
      BY <1>4
    <3>2. WillTrackAfter(i - 1, x)' <=> WillTrackAfter(i - 1, x)
      BY <1>1, <1>2, <3>1, MessageArrivesLast DEF IInv
    <3>3. CASE i \in DOMAIN replies
      BY <1>4, <2>1, <2>6, <3>2, <3>3 DEF AgreesOn
    <3>4. CASE i = Len(replies) + 1
      <4>1. x = t /\ i - 1 = Len(replies)
        BY <1>2, <1>4, <2>6, <3>4
      <4>2. WillTrack(x)
        BY <1>1, <2>1, <2>6, <4>1 DEF AgreesOn
      <4> QED
        BY <3>2, <4>1, <4>2 DEF WillTrack
    <3> QED
      BY <1>4, <3>3, <3>4
  <2> QED
    BY <1>1, <2>1, <2>3, <2>4, <2>5, <2>6 DEF AgreesOn
<1> QED
  BY <1>6, <1>7, <1>8, <1>9, <1>10, <1>11 DEF IInv

LEMMA ReceiveIInv == ASSUME IInv, Receive PROVE IInv'
<1> DEFINE m == Head(replies)
<1>1. /\ replies # <<>> /\ replies' = Tail(replies)
      /\ UNCHANGED <<tracked, calls, up, sessions, wire, server, unsure, overtaken>>
      /\ IF m.kind = "reply" /\ m.request \in pending
         THEN pending' = pending \ {m.request} /\ resumed' = Append(resumed, m)
         ELSE UNCHANGED <<pending, resumed>>
  BY DEF Receive
<1>2. up
  BY <1>1, OnlineIfUsed DEF IInv
<1>3. /\ replies \in Seq(Replies) /\ Len(replies) \in Nat /\ Len(replies) >= 1
      /\ replies' \in Seq(Replies)
      /\ m = replies[1] /\ m \in Replies
      /\ DOMAIN replies = 1..Len(replies) /\ DOMAIN replies' = 1..(Len(replies) - 1)
      /\ \A i \in DOMAIN replies' : replies'[i] = replies[i + 1] /\ i + 1 \in DOMAIN replies
  BY <1>1 DEF IInv, TypeOK
<1> HIDE DEF m
<1>4. \A i \in DOMAIN replies' : /\ IsReply(i)' => IsReply(i + 1)
                                 /\ i + 1 \in DOMAIN replies /\ replies'[i] = replies[i + 1]
                                 /\ i + 1 # 1
  BY <1>3 DEF IsReply
<1>5. resumed' \in Seq(Replies) /\ \A i \in DOMAIN resumed' : resumed'[i].kind = "reply"
  <2>1. resumed \in Seq(Replies) /\ \A i \in DOMAIN resumed : resumed[i].kind = "reply"
    BY DEF IInv, TypeOK
  <2>2. CASE m.kind = "reply" /\ m.request \in pending
    <3>1. /\ resumed' = Append(resumed, m) /\ resumed' \in Seq(Replies)
          /\ DOMAIN resumed = 1..Len(resumed) /\ DOMAIN resumed' = 1..(Len(resumed) + 1)
          /\ resumed'[Len(resumed) + 1] = m /\ Len(resumed) \in Nat
          /\ \A i \in DOMAIN resumed : resumed'[i] = resumed[i]
      <4>1. resumed' = Append(resumed, m) /\ resumed \in Seq(Replies)
        BY <1>1, <2>1, <2>2
      <4> QED
        BY <1>3, <4>1
    <3>2. \A i \in DOMAIN resumed' : i \in DOMAIN resumed \/ i = Len(resumed) + 1
      BY <3>1
    <3> QED
      BY <2>1, <2>2, <3>1, <3>2
  <2>3. CASE ~(m.kind = "reply" /\ m.request \in pending)
    BY <1>1, <2>1, <2>3
  <2> QED
    BY <2>2, <2>3
<1>6. TypeOK'
  <2>1. pending' \subseteq pending
    BY <1>1
  <2> QED
    BY <1>1, <1>2, <1>3, <1>5, <2>1 DEF IInv, TypeOK
<1>7. AllExpected'
  <2>1. 1 \in DOMAIN replies
    BY <1>3
  <2>2. \A r : Expected(r) /\ (r # m.request \/ m.kind # "reply") => Expected(r)'
    BY <1>1 DEF Expected
  <2>3. ASSUME NEW i \in DOMAIN wire  PROVE Expected(wire[i])'
    <3>1. m.kind = "reply" => wire[i] # m.request
      BY <1>3, <2>1 DEF IInv, NoneTwice, IsReply
    <3> QED
      BY <1>1, <2>2, <3>1 DEF IInv, AllExpected, Expected
  <2>4. ASSUME NEW i \in DOMAIN replies', IsReply(i)'
        PROVE  Expected(replies[i].request)'
    <3>1. IsReply(i + 1) /\ i + 1 \in DOMAIN replies /\ replies'[i] = replies[i + 1] /\ i + 1 # 1
      BY <1>4, <2>4
    <3>2. m.kind = "reply" => replies[i + 1].request # m.request
      BY <1>3, <2>1, <3>1 DEF IInv, NoneTwice, IsReply
    <3>3. Expected(replies[i + 1].request)
      BY <3>1 DEF IInv, AllExpected
    <3> QED
      BY <1>1, <2>2, <3>1, <3>2, <3>3 DEF Expected
  <2> QED
    BY <1>1, <2>3, <2>4 DEF AllExpected, Expected
<1>8. NoneTwice'
  <2>1. ASSUME NEW i \in DOMAIN replies', NEW j \in DOMAIN replies', IsReply(i)', IsReply(j)',
               replies'[i].request = replies'[j].request
        PROVE  i = j
    <3>1. i + 1 = j + 1
      BY <1>4, <2>1 DEF IInv, NoneTwice
    <3> QED
      BY <1>3, <3>1
  <2>2. \A i \in DOMAIN wire, j \in DOMAIN replies' :
            IsReply(j)' => replies'[j].request # wire[i]
    BY <1>4 DEF IInv, NoneTwice
  <2> QED
    BY <1>1, <2>1, <2>2 DEF IInv, NoneTwice
<1>9. NoneAgain'
  <2>1. \A r : NotUnderWay(r) => NotUnderWay(r)'
    BY <1>1, <1>4 DEF NotUnderWay
  <2> QED
    BY <1>1, <2>1, KeptNoneAgain DEF IInv
<1>10. ResubscribedOnce'
  BY <1>1, KeptOnce DEF IInv
<1>11. Agreement'
  <2> SUFFICES ASSUME NEW x \in Topics, x \notin unsure
               PROVE  AgreesOn(x)'
    BY <1>1 DEF Agreement
  <2>1. AgreesOn(x)
    BY <1>2 DEF IInv, Agreement
  <2>2. m.kind = "reply" /\ m.request \notin pending => x \notin m.request.topics
    <3>1. m.kind = "reply" => Expected(m.request)
      BY <1>3 DEF IInv, AllExpected, IsReply
    <3> QED
      BY <3>1 DEF Expected
  <2>3. WillTrackAfter(1, x) <=>
            IF Decides(m, x) THEN Adds(m) ELSE x \in NowTracked(tracked, resumed)
    BY <1>3, AfterOne DEF WillTrackAfter
  <2>4. x \in NowTracked(tracked, resumed)' <=> WillTrackAfter(1, x)
    <3>1. CASE m.kind = "reply" /\ m.request \in pending
      <4>1. resumed' = Append(resumed, m) /\ resumed \in Seq(Replies)
            /\ Len(resumed') = Len(resumed) + 1
        BY <1>1, <1>3, <3>1 DEF IInv, TypeOK
      <4>2. TrackedAfter(tracked, resumed', Len(resumed'), x)
                <=> IF Decides(m, x) THEN Adds(m)
                    ELSE TrackedAfter(tracked, resumed, Len(resumed), x)
        <5>1. TrackedAfter(tracked, Append(resumed, m), Len(resumed) + 1, x)
                  <=> IF Decides(m, x) THEN Adds(m)
                      ELSE TrackedAfter(tracked, resumed, Len(resumed), x)
          BY <1>3, <4>1, AfterAppend
        <5> QED
          BY <4>1, <5>1
      <4>3. /\ x \in NowTracked(tracked, resumed)'
                 <=> TrackedAfter(tracked, resumed', Len(resumed'), x)
            /\ x \in NowTracked(tracked, resumed)
                 <=> TrackedAfter(tracked, resumed, Len(resumed), x)
        BY <1>1 DEF NowTracked
      <4> QED
        BY <2>3, <4>2, <4>3
    <3>2. CASE ~(m.kind = "reply" /\ m.request \in pending)
      <4>1. ~Decides(m, x)
        BY <2>2, <3>2 DEF Decides
      <4>2. NowTracked(tracked, resumed)' = NowTracked(tracked, resumed)
        BY <1>1, <3>2
      <4> QED
        BY <2>3, <4>1, <4>2
    <3> QED
      BY <3>1, <3>2
  <2>5. /\ \A n \in 1..Len(replies) : WillTrackAfter(n - 1, x)' <=> WillTrackAfter(n, x)
        /\ WillTrack(x)' <=> WillTrack(x)
    BY <1>1, <2>4, MessageIsTaken DEF IInv
  <2>6. WasRefused(x) => WasRefused(x)'
    <3>1. Refused(m, x) => m.kind = "reply" /\ m.request \in pending
      BY <2>2 DEF Refused
    <3>2. ASSUME NEW i \in DOMAIN replies, Refused(replies[i], x)  PROVE WasRefused(x)'
      <4>1. CASE i = 1
        <5>1. m.kind = "reply" /\ m.request \in pending /\ Refused(m, x)
          BY <1>3, <3>1, <3>2, <4>1
        <5>2. resumed' = Append(resumed, m) /\ resumed \in Seq(Replies)
          BY <1>1, <5>1 DEF IInv, TypeOK
        <5>3. Len(resumed) + 1 \in DOMAIN resumed' /\ resumed'[Len(resumed) + 1] = m
          BY <1>3, <5>2
        <5> QED
          BY <5>1, <5>3 DEF WasRefused
      <4>2. CASE i # 1
        <5>1. i - 1 \in DOMAIN replies' /\ replies'[i - 1] = replies[i]
          BY <1>3, <4>2
        <5> QED
          BY <3>2, <5>1 DEF WasRefused
      <4> QED
        BY <4>1, <4>2
    <3>3. ASSUME NEW i \in DOMAIN resumed, Refused(resumed[i], x)  PROVE WasRefused(x)'
      <4>1. i \in DOMAIN resumed' /\ resumed'[i] = resumed[i]
        <5>1. resumed \in Seq(Replies)
          BY DEF IInv, TypeOK
        <5>2. CASE m.kind = "reply" /\ m.request \in pending
          BY <1>1, <1>3, <5>1, <5>2
        <5> QED
          BY <1>1, <5>2
      <4> QED
        BY <3>3, <4>1 DEF WasRefused
    <3> QED
      BY <3>2, <3>3 DEF WasRefused
  <2>7. ToResubscribe(x)' <=> ToResubscribe(x)
    BY <1>1 DEF ToResubscribe
  <2>8. ASSUME x \notin overtaken,
               NEW i \in DOMAIN replies', replies'[i].kind = "event", replies'[i].topic = x
        PROVE  WillTrackAfter(i - 1, x)'
    <3>1. i + 1 \in DOMAIN replies /\ replies'[i] = replies[i + 1]
      BY <1>3
    <3>2. WillTrackAfter((i + 1) - 1, x) /\ (i + 1) - 1 = i /\ i \in 1..Len(replies)
      BY <1>3, <2>1, <2>8, <3>1 DEF AgreesOn
    <3> QED
      BY <2>5, <3>2
  <2> QED
    BY <1>1, <2>1, <2>5, <2>6, <2>7, <2>8 DEF AgreesOn
<1> QED
  BY <1>6, <1>7, <1>8, <1>9, <1>10, <1>11 DEF IInv

\* The server's answer agrees with what the client will make of it.
LEMMA AnswerAgrees ==
    ASSUME IInv, NEW ok \in BOOLEAN, ServerAnswers(ok), NEW x \in Topics, x \notin unsure
    PROVE  /\ WillTrack(x)' /\ x \notin server' => ToResubscribe(x)' \/ WasRefused(x)'
           /\ x \notin overtaken => (x \in server' \/ ToResubscribe(x)' => WillTrack(x)')
<1> DEFINE r == Head(wire)
           m == Reply(r, ok)
<1>1. /\ wire # <<>> /\ wire' = Tail(wire)
      /\ server' = IF ~ok THEN server
                   ELSE IF r.op = "subscribe" THEN server \cup r.topics ELSE server \ r.topics
      /\ replies' = Append(replies, m)
      /\ UNCHANGED <<tracked, up, resumed, unsure, overtaken>>
  BY DEF ServerAnswers
<1>2. /\ wire \in Seq(Requests) /\ Len(wire) \in Nat /\ r = wire[1] /\ r \in Requests
      /\ 1 \in DOMAIN wire /\ DOMAIN wire = 1..Len(wire) /\ DOMAIN wire' = 1..(Len(wire) - 1)
      /\ \A i \in DOMAIN wire' : wire'[i] = wire[i + 1] /\ i + 1 \in DOMAIN wire /\ i + 1 # 1
      /\ \A i \in DOMAIN wire : i # 1 => i - 1 \in DOMAIN wire' /\ wire'[i - 1] = wire[i]
                                         /\ 1 < i
  BY <1>1 DEF IInv, TypeOK
<1>3. up
  BY <1>1, OnlineIfUsed DEF IInv
<1>4. m \in Replies /\ m.kind = "reply" /\ m.request = r /\ (m.ok <=> ok)
  BY <1>2 DEF Reply, Replies
<1> HIDE DEF r, m
<1>5. AgreesOn(x)
  BY <1>3 DEF IInv, Agreement
<1>6. /\ WillTrack(x)' <=> IF Decides(m, x) THEN Adds(m) ELSE WillTrack(x)
      /\ WasRefused(x)' <=> WasRefused(x) \/ Refused(m, x)
  BY <1>1, <1>4, MessageArrivesLast DEF IInv
<1>7. CASE x \notin r.topics
  <2>1. ~Decides(m, x) /\ ~Refused(m, x)
    BY <1>4, <1>7 DEF Decides, Refused
  <2>2. x \in server' <=> x \in server
    BY <1>1, <1>7
  <2>3. ToResubscribe(x)' <=> ToResubscribe(x)
    BY <1>2, <1>7 DEF ToResubscribe, IsResubscription
  <2> QED
    BY <1>5, <1>6, <2>1, <2>2, <2>3 DEF AgreesOn
<1>8. CASE x \in r.topics /\ IsResubscription(r)
  <2>1. ToResubscribe(x)
    BY <1>2, <1>8 DEF ToResubscribe
  <2>2. ~ToResubscribe(x)'
    <3> SUFFICES ASSUME NEW i \in DOMAIN wire, i # 1, IsResubscription(wire[i]),
                        x \in wire[i].topics
                 PROVE  FALSE
      BY <1>2 DEF ToResubscribe, IsResubscription
    <3>1. wire[1].topics \cap wire[i].topics = {}
      BY <1>2, <1>8 DEF IInv, ResubscribedOnce
    <3> QED
      BY <1>2, <1>8, <3>1
  <2>3. ~Decides(m, x)
    BY <1>4, <1>8 DEF Decides, IsResubscription
  <2>4. x \notin overtaken => WillTrack(x)'
    BY <1>5, <1>6, <2>1, <2>3 DEF AgreesOn
  <2>5. CASE ok
    <3>1. r.op = "subscribe"
      BY <1>2, <1>8 DEF IInv, ResubscribedOnce
    <3>2. x \in server'
      BY <1>1, <1>8, <2>5, <3>1
    <3> QED
      BY <2>2, <2>4, <3>2
  <2>6. CASE ~ok
    <3>1. Refused(m, x)
      BY <1>4, <1>8, <2>6 DEF Refused
    <3> QED
      BY <1>6, <2>2, <2>4, <3>1
  <2> QED
    BY <2>5, <2>6
<1>9. CASE x \in r.topics /\ ~IsResubscription(r)
  <2>1. ToResubscribe(x)' <=> ToResubscribe(x)
    BY <1>2, <1>9 DEF ToResubscribe, IsResubscription
  <2>2. ToResubscribe(x) /\ r.op = "unsubscribe" => x \in overtaken
    <3> SUFFICES ASSUME NEW j \in DOMAIN wire, IsResubscription(wire[j]),
                        x \in wire[j].topics, r.op = "unsubscribe"
                 PROVE  x \in overtaken
      BY DEF ToResubscribe
    <3>1. 1 < j
      BY <1>2, <1>9
    <3> QED
      BY <1>2, <1>9, <3>1 DEF IInv, ResubscribedOnce
  <2>3. CASE ok
    <3>1. Decides(m, x)
      BY <1>4, <1>9, <2>3 DEF Decides, IsResubscription
    <3>2. Adds(m) <=> r.op = "subscribe"
      BY <1>4 DEF Adds
    <3>3. x \in server' <=> r.op = "subscribe"
      BY <1>1, <1>9, <2>3
    <3>4. r.op \in {"subscribe", "unsubscribe"}
      BY <1>2 DEF Requests
    <3> QED
      BY <1>6, <2>1, <2>2, <3>1, <3>2, <3>3, <3>4
  <2>4. CASE ~ok
    <3>1. ~Decides(m, x)
      BY <1>4, <2>4 DEF Decides
    <3>2. server' = server
      BY <1>1, <2>4
    <3> QED
      BY <1>5, <1>6, <2>1, <3>1, <3>2 DEF AgreesOn
  <2> QED
    BY <2>3, <2>4
<1> QED
  BY <1>7, <1>8, <1>9

LEMMA ServerAnswersIInv == ASSUME IInv, NEW ok \in BOOLEAN, ServerAnswers(ok) PROVE IInv'
<1> DEFINE r == Head(wire)
           m == Reply(r, ok)
           n == Len(replies) + 1
<1>1. /\ wire # <<>> /\ wire' = Tail(wire) /\ replies' = Append(replies, m)
      /\ server' \subseteq server \cup r.topics
      /\ UNCHANGED <<tracked, calls, up, sessions, pending, resumed, unsure, overtaken>>
  BY DEF ServerAnswers
<1>2. /\ wire \in Seq(Requests) /\ wire' \in Seq(Requests) /\ Len(wire) \in Nat
      /\ r = wire[1] /\ r \in Requests /\ r.topics \subseteq Topics
      /\ 1 \in DOMAIN wire /\ DOMAIN wire = 1..Len(wire) /\ DOMAIN wire' = 1..(Len(wire) - 1)
      /\ \A i \in DOMAIN wire' : wire'[i] = wire[i + 1] /\ i + 1 \in DOMAIN wire /\ i + 1 # 1
  <2>1. wire \in Seq(Requests)
    BY DEF IInv, TypeOK
  <2>2. r = wire[1] /\ r \in Requests
    BY <1>1, <2>1
  <2>3. r.topics \subseteq Topics
    BY <2>2 DEF Requests
  <2> HIDE DEF r
  <2> QED
    BY <1>1, <2>1, <2>2, <2>3
<1>3. up
  BY <1>1, OnlineIfUsed DEF IInv
<1>4. m \in Replies /\ m.kind = "reply" /\ m.request = r
  BY <1>2 DEF Reply, Replies
<1> HIDE DEF r, m
<1>5. /\ replies' \in Seq(Replies) /\ Len(replies) \in Nat
      /\ DOMAIN replies = 1..Len(replies) /\ DOMAIN replies' = 1..n
      /\ replies'[n] = m
      /\ \A i \in DOMAIN replies : replies'[i] = replies[i]
  BY <1>1, <1>4, MessageArrivesLast DEF IInv
<1>6. \A i \in DOMAIN replies' : IsReply(i)' =>
          \/ i = n /\ replies'[i].request = wire[1]
          \/ (i \in DOMAIN replies /\ IsReply(i) /\ replies'[i] = replies[i])
  BY <1>2, <1>4, <1>5 DEF IsReply
<1> HIDE DEF n
<1>7. TypeOK'
  BY <1>1, <1>2, <1>3, <1>5 DEF IInv, TypeOK
<1>8. AllExpected'
  BY <1>1, <1>2, <1>6 DEF IInv, AllExpected, Expected
<1>9. NoneTwice'
  <2>1. ASSUME NEW i \in DOMAIN wire', NEW j \in DOMAIN wire', wire'[i] = wire'[j]
        PROVE  i = j
    <3>1. i + 1 = j + 1
      BY <1>2, <2>1 DEF IInv, NoneTwice
    <3> QED
      BY <1>2, <3>1
  <2>2. ASSUME NEW i \in DOMAIN replies', NEW j \in DOMAIN replies', IsReply(i)', IsReply(j)',
               replies'[i].request = replies'[j].request
        PROVE  i = j
    BY <1>2, <1>6, <2>2 DEF IInv, NoneTwice
  <2>3. \A i \in DOMAIN wire', j \in DOMAIN replies' :
            IsReply(j)' => replies'[j].request # wire'[i]
    BY <1>2, <1>6 DEF IInv, NoneTwice
  <2> QED
    BY <2>1, <2>2, <2>3 DEF NoneTwice
<1>10. NoneAgain'
  <2>1. \A q : NotUnderWay(q) => NotUnderWay(q)'
    BY <1>2, <1>6 DEF NotUnderWay
  <2> QED
    BY <1>1, <2>1, KeptNoneAgain DEF IInv
<1>11. ResubscribedOnce'
  <2>1. ASSUME NEW i \in DOMAIN wire', NEW j \in DOMAIN wire', i < j,
               IsResubscription(wire[j])', wire'[i].op = "unsubscribe"
        PROVE  wire'[i].topics \cap wire'[j].topics \subseteq overtaken
    <3>1. i + 1 < j + 1
      BY <1>2, <2>1
    <3> QED
      BY <1>2, <2>1, <3>1 DEF IInv, ResubscribedOnce, IsResubscription
  <2>2. ASSUME NEW i \in DOMAIN wire', NEW j \in DOMAIN wire', i # j,
               IsResubscription(wire[i])', IsResubscription(wire[j])'
        PROVE  wire'[i].topics \cap wire'[j].topics = {}
    <3>1. i + 1 # j + 1
      BY <1>2, <2>2
    <3> QED
      BY <1>2, <2>2, <3>1 DEF IInv, ResubscribedOnce, IsResubscription
  <2>3. \A i \in DOMAIN wire' : IsResubscription(wire[i])' => wire'[i].op = "subscribe"
    BY <1>2 DEF IInv, ResubscribedOnce, IsResubscription
  <2> QED
    BY <1>1, <2>1, <2>2, <2>3 DEF ResubscribedOnce
<1>12. Agreement'
  <2> SUFFICES ASSUME NEW x \in Topics, x \notin unsure
               PROVE  AgreesOn(x)'
    BY <1>1 DEF Agreement
  <2>1. AgreesOn(x)
    BY <1>3 DEF IInv, Agreement
  <2>2. ASSUME x \notin overtaken,
               NEW i \in DOMAIN replies', replies'[i].kind = "event", replies'[i].topic = x
        PROVE  WillTrackAfter(i - 1, x)'
    <3>1. i \in DOMAIN replies /\ replies'[i] = replies[i]
      BY <1>4, <1>5, <2>2 DEF n
    <3>2. i - 1 \in 0..Len(replies)
      BY <1>5, <3>1
    <3>3. WillTrackAfter(i - 1, x)' <=> WillTrackAfter(i - 1, x)
      BY <1>1, <1>4, <3>2, MessageArrivesLast DEF IInv
    <3> QED
      BY <2>1, <2>2, <3>1, <3>3 DEF AgreesOn
  <2> QED
    BY <1>1, <2>2, AnswerAgrees DEF AgreesOn
<1> QED
  BY <1>7, <1>8, <1>9, <1>10, <1>11, <1>12 DEF IInv

LEMMA ResumeIInv == ASSUME IInv, Resume PROVE IInv'
<1>1. /\ resumed # <<>> /\ resumed' = <<>>
      /\ tracked' = NowTracked(tracked, resumed)
      /\ unsure' = unsure \cup TopicsOf({r \in Answered(FALSE) : r.by = Resubscription})
      /\ UNCHANGED <<up, sessions, pending, wire, replies, server, overtaken>>
  BY DEF Resume
<1>2. up
  BY <1>1 DEF IInv, TypeOK
<1>3. /\ calls' = [c \in Calls |-> calls'[c]]
      /\ \A c \in Calls : GoesOn(calls[c], calls'[c])
  <2>1. ASSUME NEW c \in Calls
        PROVE  \/ calls'[c] = calls[c]
               \/ calls'[c] = After(calls[c], TRUE)
               \/ calls'[c] = After(calls[c], FALSE)
    BY DEF Resume
  <2>2. ASSUME NEW c \in Calls, NEW ok \in BOOLEAN, calls'[c] = After(calls[c], ok)
        PROVE  GoesOn(calls[c], calls'[c])
    <3>1. calls[c].step = "spotsSent" => calls[c] \in InProgress
      BY UnderWayTypes DEF IInv, Steps
    <3> QED
      BY <2>2, <3>1 DEF After, GoesOn
  <2>3. \A c \in Calls : GoesOn(calls[c], calls'[c])
    BY <2>1, <2>2 DEF GoesOn
  <2>4. calls' = [c \in Calls |-> calls'[c]]
    BY DEF Resume
  <2> QED
    BY <2>3, <2>4
<1>4. tracked' \subseteq Topics /\ unsure \subseteq unsure' /\ unsure' \subseteq Topics
  BY <1>1 DEF IInv, TypeOK, NowTracked, TopicsOf
<1>5. TypeOK'
  <2>1. resumed' \in Seq(Replies) /\ \A i \in DOMAIN resumed' : resumed'[i].kind = "reply"
    BY <1>1
  <2>2. calls' \in [Calls -> {NotMade, Over} \cup InProgress]
    BY <1>3, GoneOnTypes
  <2> QED
    BY <1>1, <1>2, <1>4, <2>1, <2>2 DEF IInv, TypeOK
<1>6. NoneAgain'
  BY <1>1, <1>3, GoneOnNoneAgain, KeptNotUnderWay
<1>7. AllExpected' /\ NoneTwice' /\ ResubscribedOnce'
  BY <1>1, <1>4, KeptExpected, KeptNoneTwice, KeptOnce DEF IInv
<1>8. Agreement'
  <2> SUFFICES ASSUME NEW x \in Topics, x \notin unsure'
               PROVE  AgreesOn(x)'
    BY DEF Agreement
  <2>1. AgreesOn(x)
    BY <1>2, <1>4 DEF IInv, Agreement
  <2>2. NowTracked(tracked, resumed)' = NowTracked(tracked, resumed)
    <3>1. Len(resumed') = 0
      BY <1>1
    <3>2. NowTracked(tracked, resumed)' = {t \in Topics : TrackedAfter(tracked', resumed', 0, t)}
      BY <3>1 DEF NowTracked
    <3>3. \A t : TrackedAfter(tracked', resumed', 0, t) <=> t \in tracked'
      BY AfterNone
    <3> QED
      BY <1>1, <1>4, <3>2, <3>3
  <2>3. WillTrack(x)' <=> WillTrack(x)
    BY <1>1, <2>2 DEF WillTrack, WillTrackAfter
  <2>4. \A i : WillTrackAfter(i, x)' <=> WillTrackAfter(i, x)
    BY <1>1, <2>2 DEF WillTrackAfter
  <2>5. \A i \in DOMAIN resumed : ~Refused(resumed[i], x)
    <3> SUFFICES ASSUME NEW i \in DOMAIN resumed, Refused(resumed[i], x)
                 PROVE  FALSE
      OBVIOUS
    <3> DEFINE m == resumed[i]
    <3>1. m \in Replies /\ m.kind = "reply" /\ m \in ToSet(resumed)
      BY DEF IInv, TypeOK, ToSet
    <3> HIDE DEF m
    <3>2. m.ok = FALSE
      BY <3>1 DEF Refused, Replies, m
    <3>3. m.request \in Answered(FALSE)
      BY <3>1, <3>2 DEF Answered
    <3>4. m.request.by = Resubscription /\ x \in m.request.topics
      BY DEF Refused, IsResubscription, m
    <3> QED
      BY <1>1, <3>3, <3>4 DEF TopicsOf
  <2>6. WasRefused(x) => WasRefused(x)'
    BY <1>1, <2>5 DEF WasRefused
  <2>7. ToResubscribe(x)' <=> ToResubscribe(x)
    BY <1>1 DEF ToResubscribe
  <2> QED
    BY <1>1, <2>1, <2>3, <2>4, <2>6, <2>7 DEF AgreesOn
<1> QED
  BY <1>5, <1>6, <1>7, <1>8 DEF IInv

-----------------------------------------------------------------------------
(* Resubscription on a new connection.                                        *)

Resubscribes(s, topics) ==
    /\ s \in Seq(Requests)
    /\ \A i \in DOMAIN s : /\ IsResubscription(s[i]) /\ s[i].op = "subscribe"
                           /\ s[i].topics \subseteq topics
    /\ \A i, j \in DOMAIN s : i # j => s[i].topics \cap s[j].topics = {}
    /\ \A t \in topics : \E i \in DOMAIN s : t \in s[i].topics

LEMMA ResubscribesBoth ==
    ASSUME NEW s, NEW T, Resubscribes(s, T), NEW u, NEW U, Resubscribes(u, U), T \cap U = {}
    PROVE  Resubscribes(s \o u, T \cup U)
<1> DEFINE w == s \o u
<1>1. /\ s \in Seq(Requests) /\ u \in Seq(Requests) /\ w \in Seq(Requests)
      /\ DOMAIN s = 1..Len(s) /\ DOMAIN u = 1..Len(u) /\ DOMAIN w = 1..(Len(s) + Len(u))
      /\ Len(s) \in Nat /\ Len(u) \in Nat
      /\ \A i \in DOMAIN s : i \in DOMAIN w /\ w[i] = s[i]
      /\ \A i \in DOMAIN u : Len(s) + i \in DOMAIN w /\ w[Len(s) + i] = u[i]
  BY DEF Resubscribes
<1> HIDE DEF w
<1>2. \A i \in DOMAIN w \ DOMAIN s : i - Len(s) \in DOMAIN u /\ w[i] = u[i - Len(s)]
  <2> SUFFICES ASSUME NEW i \in DOMAIN w \ DOMAIN s
               PROVE  i - Len(s) \in DOMAIN u /\ w[i] = u[i - Len(s)]
    OBVIOUS
  <2>1. i - Len(s) \in DOMAIN u /\ Len(s) + (i - Len(s)) = i
    BY <1>1
  <2> QED
    BY <1>1, <2>1
<1>3. \A i \in DOMAIN w : /\ IsResubscription(w[i]) /\ w[i].op = "subscribe"
                          /\ w[i].topics \subseteq T \cup U
  BY <1>1, <1>2 DEF Resubscribes
<1>4. ASSUME NEW i \in DOMAIN w, NEW j \in DOMAIN w, i # j
      PROVE  w[i].topics \cap w[j].topics = {}
  <2>1. CASE i \in DOMAIN s /\ j \in DOMAIN s
    BY <1>1, <1>4, <2>1 DEF Resubscribes
  <2>2. CASE i \notin DOMAIN s /\ j \notin DOMAIN s
    <3>1. i - Len(s) # j - Len(s)
      BY <1>1, <1>4
    <3> QED
      BY <1>2, <2>2, <3>1 DEF Resubscribes
  <2>3. CASE i \in DOMAIN s /\ j \notin DOMAIN s
    BY <1>1, <1>2, <2>3 DEF Resubscribes
  <2>4. CASE i \notin DOMAIN s /\ j \in DOMAIN s
    BY <1>1, <1>2, <2>4 DEF Resubscribes
  <2> QED
    BY <2>1, <2>2, <2>3, <2>4
<1>5. \A t \in T \cup U : \E i \in DOMAIN w : t \in w[i].topics
  <2>1. ASSUME NEW t \in T  PROVE \E i \in DOMAIN w : t \in w[i].topics
    <3>1. PICK i \in DOMAIN s : t \in s[i].topics
      BY DEF Resubscribes
    <3> QED
      BY <1>1, <3>1
  <2>2. ASSUME NEW t \in U  PROVE \E i \in DOMAIN w : t \in w[i].topics
    <3>1. PICK i \in DOMAIN u : t \in u[i].topics
      BY DEF Resubscribes
    <3> QED
      BY <1>1, <3>1
  <2> QED
    BY <2>1, <2>2
<1> QED
  BY <1>1, <1>3, <1>4, <1>5 DEF Resubscribes, w

LEMMA BatchResubscribes ==
    ASSUME TypeOK, NEW kind \in Kinds
    PROVE  Resubscribes(Batch(kind), ResubscribeTopics(kind))
<1> DEFINE topics == ResubscribeTopics(kind)
           r == [by |-> Resubscription, op |-> "subscribe", topics |-> topics]
<1>1. topics \subseteq Topics
  BY DEF ResubscribeTopics, TypeOK
<1>2. Batch(kind) = IF topics = {} THEN <<>> ELSE <<r>>
  BY DEF Batch
<1>3. CASE topics = {}
  <2>1. Batch(kind) = <<>> /\ ResubscribeTopics(kind) = {}
    BY <1>2, <1>3
  <2>2. <<>> \in Seq(Requests) /\ DOMAIN <<>> = {}
    OBVIOUS
  <2>3. Resubscribes(<<>>, {})
    BY <2>2 DEF Resubscribes
  <2> QED
    BY <2>1, <2>3
<1>4. CASE topics # {}
  <2>1. r \in Requests
    BY <1>1, <1>4 DEF Requests
  <2>2. /\ r.by = Resubscription /\ r.op = "subscribe" /\ r.topics = topics
    OBVIOUS
  <2> HIDE DEF r, topics
  <2>3. DOMAIN <<r>> = {1} /\ <<r>>[1] = r /\ <<r>> \in Seq(Requests)
    BY <2>1
  <2>4. Resubscribes(<<r>>, topics)
    BY <2>2, <2>3 DEF Resubscribes, IsResubscription
  <2> QED
    BY <1>2, <1>4, <2>4 DEF topics
<1> QED
  BY <1>3, <1>4

LEMMA FiniteBars == ASSUME TypeOK PROVE Cardinality(ResubscribeTopics("bars")) \in Nat
<1> DEFINE all == {t \in Topics : t.kind = "bars"}
           f == [s \in Symbols |-> [kind |-> "bars", symbol |-> s]]
<1>1. f \in Surjection(Symbols, all)
  <2>1. f \in [Symbols -> all]
    BY DEF Topics, Kinds
  <2>2. ASSUME NEW t \in all  PROVE \E s \in Symbols : f[s] = t
    BY DEF Topics
  <2> QED
    BY <2>1, <2>2 DEF Surjection
<1>2. IsFiniteSet(all)
  BY <1>1, SymbolsAssumption, FS_Surjection
<1>3. ResubscribeTopics("bars") \in SUBSET all
  BY DEF ResubscribeTopics, TypeOK
<1> QED
  BY <1>2, <1>3, FS_Subset, FS_CardinalityType

LEMMA EachOfResubscribes ==
    ASSUME TypeOK, NEW order \in Orders(ResubscribeTopics("bars"))
    PROVE  Resubscribes(EachOf(order), ResubscribeTopics("bars"))
<1> DEFINE topics == ResubscribeTopics("bars")
           n == Cardinality(topics)
           w == EachOf(order)
<1>1. n \in Nat /\ topics \subseteq Topics
  BY FiniteBars DEF ResubscribeTopics, TypeOK
<1>2. /\ order \in [1..n -> topics]
      /\ \A i, j \in 1..n : order[i] = order[j] => i = j
      /\ \A t \in topics : \E i \in 1..n : order[i] = t
  <2>1. order \in Injection(1..n, topics) /\ order \in Surjection(1..n, topics)
    BY DEF Orders, Bijection
  <2> QED
    BY <2>1 DEF Injection, Surjection, IsInjective
<1>3. w = [i \in 1..n |-> [by |-> Resubscription, op |-> "subscribe", topics |-> {order[i]}]]
  BY <1>2 DEF EachOf
<1> HIDE DEF w, n, topics
<1>4. ASSUME NEW i \in 1..n
      PROVE  /\ w[i] \in Requests /\ w[i].by = Resubscription /\ w[i].op = "subscribe"
             /\ w[i].topics = {order[i]} /\ order[i] \in topics
  <2>1. order[i] \in topics /\ {order[i]} \in (SUBSET Topics) \ {{}}
    BY <1>1, <1>2
  <2> QED
    BY <1>3, <2>1 DEF Requests
<1>5. w \in Seq(Requests) /\ DOMAIN w = 1..n
  BY <1>1, <1>3, <1>4
<1>6. Resubscribes(w, topics)
  BY <1>2, <1>4, <1>5 DEF Resubscribes, IsResubscription
<1> QED
  BY <1>6 DEF w, topics

LEMMA ResubscribesTracked ==
    ASSUME TypeOK, NEW order \in Orders(ResubscribeTopics("bars"))
    PROVE  Resubscribes(Resubscriptions(order), tracked)
<1> DEFINE a == Batch("spot")
           b == Batch("depth")
           A == ResubscribeTopics("spot")
           B == ResubscribeTopics("depth")
           C == ResubscribeTopics("bars")
<1>1. Resubscriptions(order) = (a \o b) \o EachOf(order)
  BY DEF Resubscriptions
<1>2. Resubscribes(a, A) /\ Resubscribes(b, B)
  BY BatchResubscribes DEF Kinds
<1>3. Resubscribes(EachOf(order), C)
  BY EachOfResubscribes
<1>4. A \cap B = {} /\ (A \cup B) \cap C = {} /\ (A \cup B) \cup C = tracked
  BY DEF TypeOK, ResubscribeTopics, Topics, Kinds
<1> HIDE DEF a, b, A, B, C
<1>5. Resubscribes(a \o b, A \cup B)
  BY <1>2, <1>4, ResubscribesBoth
<1>6. Resubscribes((a \o b) \o EachOf(order), (A \cup B) \cup C)
  BY <1>3, <1>4, <1>5, ResubscribesBoth
<1> QED
  BY <1>1, <1>4, <1>6

\* The requests of the calls that go ahead: one for each of them.
LEMMA RequestsGoAhead ==
    ASSUME IInv, NEW ahead \in SUBSET Waiting, NEW first \in Orders(ahead)
    PROVE  /\ RequestsOf(first) \in Seq(Requests)
           /\ DOMAIN RequestsOf(first) = DOMAIN first
           /\ \A i \in DOMAIN first : /\ first[i] \in ahead
                                      /\ RequestsOf(first)[i] = RequestOf(first[i])
           /\ \A i, j \in DOMAIN first : first[i] = first[j] => i = j
<1> DEFINE n == Cardinality(ahead)
           w == RequestsOf(first)
<1>1. n \in Nat
  <2>1. ahead \in SUBSET (1..MaxCalls) /\ IsFiniteSet(1..MaxCalls)
    BY FS_Interval, BoundsAssumption DEF Waiting, Calls
  <2> QED
    BY <2>1, FS_Subset, FS_CardinalityType
<1>2. first \in [1..n -> ahead] /\ \A i, j \in 1..n : first[i] = first[j] => i = j
  <2>1. first \in Injection(1..n, ahead)
    BY DEF Orders, Bijection
  <2> QED
    BY <2>1 DEF Injection, IsInjective
<1>3. w = [i \in 1..n |-> RequestOf(first[i])]
  BY <1>2 DEF RequestsOf
<1>4. \A i \in 1..n : first[i] \in ahead /\ RequestOf(first[i]) \in Requests
  BY <1>2, RequestIsAbout
<1> HIDE DEF n, w
<1>5. w \in Seq(Requests) /\ DOMAIN w = 1..n /\ DOMAIN first = 1..n
  BY <1>1, <1>2, <1>3, <1>4
<1> QED
  BY <1>2, <1>3, <1>4, <1>5 DEF w

LEMMA AuthenticatedIInv == ASSUME IInv, Authenticated PROVE IInv'
<1>1. /\ ~up /\ up' = TRUE /\ sessions' = sessions + 1 /\ sessions < MaxSessions
      /\ pending' = ToSet(wire') /\ unsure' = {} /\ resumed = <<>>
      /\ UNCHANGED <<tracked, replies, resumed, server>>
  BY DEF Authenticated, EventLoopFree
<1>2. replies = <<>> /\ server = {} /\ tracked \subseteq Topics
  BY <1>1 DEF IInv, TypeOK
<1>3. PICK ahead \in SUBSET Waiting :
        /\ \E first \in Orders(ahead), order \in Orders(ResubscribeTopics("bars")) :
              wire' = RequestsOf(first) \o Resubscriptions(order)
        /\ calls' = [c \in Calls |-> IF c \in ahead THEN Sent(calls[c]) ELSE calls[c]]
        /\ overtaken' = {t \in tracked : \E c \in ahead :
                              calls[c].op = "unsubscribe" /\ t \in RequestOf(c).topics}
  BY DEF Authenticated
<1>4. PICK first \in Orders(ahead) : \E order \in Orders(ResubscribeTopics("bars")) :
              wire' = RequestsOf(first) \o Resubscriptions(order)
  BY <1>3
<1>5. PICK order \in Orders(ResubscribeTopics("bars")) :
              wire' = RequestsOf(first) \o Resubscriptions(order)
  BY <1>4
<1> DEFINE s == RequestsOf(first)
           u == Resubscriptions(order)
<1>6. Resubscribes(u, tracked)
  BY ResubscribesTracked DEF IInv
<1>7. /\ s \in Seq(Requests) /\ DOMAIN s = DOMAIN first
      /\ \A i \in DOMAIN s : first[i] \in ahead /\ s[i] = RequestOf(first[i])
      /\ \A i, j \in DOMAIN s : first[i] = first[j] => i = j
  BY RequestsGoAhead
<1> HIDE DEF s, u
<1>8. /\ wire' \in Seq(Requests) /\ Len(s) \in Nat /\ Len(u) \in Nat
      /\ DOMAIN s = 1..Len(s) /\ DOMAIN u = 1..Len(u)
      /\ DOMAIN wire' = 1..(Len(s) + Len(u))
      /\ \A i \in DOMAIN s : i \in DOMAIN wire' /\ wire'[i] = s[i]
      /\ \A i \in DOMAIN u : Len(s) + i \in DOMAIN wire' /\ wire'[Len(s) + i] = u[i]
      /\ \A i \in DOMAIN wire' \ DOMAIN s :
            i - Len(s) \in DOMAIN u /\ wire'[i] = u[i - Len(s)] /\ i > Len(s)
  <2>1. wire' = s \o u /\ s \in Seq(Requests) /\ u \in Seq(Requests)
    BY <1>5, <1>6, <1>7 DEF s, u, Resubscribes
  <2> QED
    BY <2>1
<1>9. ASSUME NEW i \in DOMAIN s
      PROVE  /\ wire'[i] = RequestOf(first[i]) /\ wire'[i].by = first[i]
             /\ wire'[i].op = calls[first[i]].op
             /\ first[i] \in ahead /\ first[i] \in Calls /\ ~IsResubscription(wire'[i])
  <2>1. wire'[i] = RequestOf(first[i]) /\ first[i] \in ahead /\ first[i] \in Calls
    BY <1>7, <1>8 DEF Waiting
  <2>2. RequestOf(first[i]).by = first[i] /\ RequestOf(first[i]).op = calls[first[i]].op
    BY DEF RequestOf
  <2>3. first[i] # Resubscription
    BY <2>1 DEF Calls, Resubscription
  <2> QED
    BY <2>1, <2>2, <2>3 DEF IsResubscription
<1>10. ASSUME NEW i \in DOMAIN wire' \ DOMAIN s
       PROVE  /\ IsResubscription(wire'[i]) /\ wire'[i].op = "subscribe"
              /\ wire'[i].topics \subseteq tracked /\ wire'[i].topics # {}
  <2>1. wire'[i] \in Requests
    BY <1>8
  <2> QED
    BY <1>6, <1>8, <2>1 DEF Resubscribes, Requests
<1>11. ASSUME NEW i \in DOMAIN wire' \ DOMAIN s, NEW j \in DOMAIN wire' \ DOMAIN s, i # j
       PROVE  wire'[i].topics \cap wire'[j].topics = {}
  <2>1. i - Len(s) # j - Len(s)
    BY <1>8, <1>11
  <2> QED
    BY <1>6, <1>8, <2>1 DEF Resubscribes
<1>12. ASSUME NEW c \in ahead
       PROVE  /\ c \in Waiting /\ c \in Calls /\ calls'[c] = Sent(calls[c])
              /\ calls'[c] \in InProgress
              /\ calls'[c].step \in {"spotsSent", "topicSent"}
              /\ calls'[c].op = calls[c].op /\ calls'[c].topic = calls[c].topic
  BY <1>3, SentCall DEF Waiting
<1>13. TypeOK'
  <2>1. pending' \subseteq Requests
    BY <1>1, <1>8 DEF ToSet
  <2>2. sessions' \in 0..MaxSessions
    <3>1. sessions \in 0..MaxSessions
      BY DEF IInv, TypeOK
    <3> QED
      BY <1>1, <3>1, BoundsAssumption
  <2>3. calls' \in [Calls -> {NotMade, Over} \cup InProgress]
    <3>1. \A c \in Calls : calls'[c] \in {NotMade, Over} \cup InProgress
      BY <1>3, <1>12 DEF IInv, TypeOK
    <3> QED
      BY <1>3, <3>1
  <2>4. overtaken' \subseteq Topics
    BY <1>2, <1>3
  <2> QED
    BY <1>1, <1>8, <2>1, <2>2, <2>3, <2>4 DEF IInv, TypeOK
<1>14. AllExpected'
  <2>1. \A i \in DOMAIN wire' : wire'[i] \in pending'
    BY <1>1 DEF ToSet
  <2> QED
    BY <1>1, <1>2, <2>1 DEF AllExpected, Expected, IsReply
<1>15. NoneTwice'
  <2>1. ASSUME NEW i \in DOMAIN wire', NEW j \in DOMAIN wire', wire'[i] = wire'[j]
        PROVE  i = j
    <3>1. i \in DOMAIN s <=> j \in DOMAIN s
      BY <1>9, <1>10, <2>1
    <3>2. CASE i \in DOMAIN s
      BY <1>7, <1>9, <2>1, <3>1, <3>2
    <3>3. CASE i \notin DOMAIN s
      BY <1>10, <1>11, <2>1, <3>1, <3>3
    <3> QED
      BY <3>2, <3>3
  <2> QED
    BY <1>1, <1>2, <2>1 DEF NoneTwice
<1>16. NoneAgain'
  <2>1. ASSUME NEW r, r.by \in Calls, r.by \notin ahead \/ r # RequestOf(r.by)
        PROVE  NotUnderWay(r)'
    <3>1. ASSUME NEW i \in DOMAIN wire', wire'[i] = r  PROVE NotUnderWay(r)'
      <4>1. r.by # Resubscription
        BY <2>1 DEF Calls, Resubscription
      <4>2. i \in DOMAIN s
        BY <1>10, <3>1, <4>1 DEF IsResubscription
      <4> QED
        BY <1>9, <2>1, <3>1, <4>2
    <3> QED
      BY <1>1, <1>2, <3>1 DEF NotUnderWay
  <2> SUFFICES ASSUME NEW c \in Calls
               PROVE  /\ calls'[c] = NotMade =>
                            \A r \in Requests : r.by = c => NotUnderWay(r)'
                      /\ calls'[c].step \in {"spots", "spotsSent"} =>
                            calls'[c].topic.kind = "bars"
                      /\ calls'[c].step \in {"spots", "spotsSent", "topic"} =>
                            NotUnderWay(RequestAbout(c, calls[c].topic))'
                      /\ calls'[c].step = "spots" =>
                            NotUnderWay(RequestAbout(c, SpotOf(calls[c].topic)))'
    BY DEF NoneAgain
  <2>2. \A x : RequestAbout(c, x)'.by = c
    BY DEF RequestAbout
  <2>3. CASE c \notin ahead
    <3>1. calls'[c] = calls[c]
      BY <1>3, <2>3
    <3> QED
      BY <2>1, <2>2, <2>3, <3>1 DEF IInv, NoneAgain
  <2>4. CASE c \in ahead
    <3>1. calls'[c] # NotMade
      BY <1>12, <2>4 DEF NotMade
    <3>2. \A x : RequestAbout(c, x)' = RequestAbout(c, x)
      BY <1>12, <2>4 DEF RequestAbout
    <3>3. ASSUME calls'[c].step = "spotsSent"
          PROVE  calls[c].topic.kind = "bars" /\ NotUnderWay(RequestAbout(c, calls[c].topic))'
      <4>1. calls[c].topic.kind = "bars" /\ RequestAbout(c, calls[c].topic) # RequestOf(c)
        BY <1>12, <2>4, <3>3, SentNotAgain
      <4> QED
        BY <1>12, <2>1, <2>2, <2>4, <3>2, <4>1
    <3> QED
      BY <1>12, <2>4, <3>1, <3>3
  <2> QED
    BY <2>3, <2>4
<1>17. ResubscribedOnce'
  <2>1. ASSUME NEW i \in DOMAIN wire', NEW j \in DOMAIN wire',
               IsResubscription(wire'[j]), wire'[i].op = "unsubscribe"
        PROVE  wire'[i].topics \cap wire'[j].topics \subseteq overtaken'
    <3>1. i \in DOMAIN s /\ j \notin DOMAIN s
      BY <1>9, <1>10, <2>1
    <3>2. wire'[j].topics \subseteq tracked
      BY <1>10, <3>1
    <3>3. wire'[i] = RequestOf(first[i]) /\ calls[first[i]].op = "unsubscribe"
          /\ first[i] \in ahead
      BY <1>9, <2>1, <3>1
    <3> QED
      BY <1>3, <3>2, <3>3
  <2>2. \A i \in DOMAIN wire' : IsResubscription(wire'[i]) => i \notin DOMAIN s
    BY <1>9
  <2> QED
    BY <1>10, <1>11, <2>1, <2>2 DEF ResubscribedOnce, IsResubscription
<1>18. Agreement'
  <2> SUFFICES ASSUME NEW x \in Topics  PROVE AgreesOn(x)'
    BY DEF Agreement
  <2>1. WillTrack(x)' <=> x \in tracked
    <3>1. Len(replies') = 0 /\ Len(resumed') = 0
      BY <1>1, <1>2
    <3>2. WillTrack(x)' <=> x \in NowTracked(tracked, resumed)'
      BY <3>1, AfterNone DEF WillTrack, WillTrackAfter
    <3>3. x \in NowTracked(tracked, resumed)' <=> TrackedAfter(tracked', resumed', 0, x)
      BY <3>1 DEF NowTracked
    <3> QED
      BY <1>1, <3>2, <3>3, AfterNone
  <2>2. ToResubscribe(x)' <=> x \in tracked
    <3>1. ASSUME x \in tracked  PROVE \E i \in DOMAIN wire' \ DOMAIN s : x \in wire'[i].topics
      <4>1. PICK i \in DOMAIN u : x \in u[i].topics
        BY <1>6, <3>1 DEF Resubscribes
      <4>2. Len(s) + i \in DOMAIN wire' \ DOMAIN s /\ wire'[Len(s) + i] = u[i]
        BY <1>8
      <4> QED
        BY <4>1, <4>2
    <3>2. ASSUME NEW i \in DOMAIN wire', IsResubscription(wire'[i]), x \in wire'[i].topics
          PROVE  x \in tracked
      <4>1. i \notin DOMAIN s
        BY <1>9, <3>2
      <4> QED
        BY <1>10, <3>2, <4>1
    <3> QED
      BY <1>10, <3>1, <3>2 DEF ToResubscribe, IsResubscription
  <2> QED
    BY <1>1, <1>2, <2>1, <2>2 DEF AgreesOn
<1> QED
  BY <1>13, <1>14, <1>15, <1>16, <1>17, <1>18 DEF IInv

-----------------------------------------------------------------------------
(* The theorems.                                                              *)

LEMMA InitIInv == ASSUME Init PROVE IInv
<1>1. TypeOK
  <2>1. sessions \in 0..MaxSessions
    BY BoundsAssumption DEF Init
  <2>2. wire = <<>> /\ replies = <<>> /\ resumed = <<>>
    BY DEF Init
  <2>3. wire \in Seq(Requests) /\ replies \in Seq(Replies) /\ resumed \in Seq(Replies)
    BY <2>2
  <2>4. DOMAIN resumed = {}
    BY <2>2
  <2>5. calls \in [Calls -> {NotMade, Over} \cup InProgress]
    BY DEF Init
  <2> QED
    BY <2>1, <2>2, <2>3, <2>4, <2>5 DEF Init, TypeOK
<1>2. AllExpected /\ NoneTwice /\ ResubscribedOnce /\ Agreement
  BY DEF Init, AllExpected, NoneTwice, ResubscribedOnce, Agreement
<1>3. NoneAgain
  BY DEF Init, NoneAgain, NotUnderWay, NotMade
<1> QED
  BY <1>1, <1>2, <1>3 DEF IInv

LEMMA NextIInv == ASSUME IInv, [Next]_vars PROVE IInv'
<1>1. CASE UNCHANGED vars
  <2>1. UNCHANGED <<tracked, calls, up, sessions, pending, wire, replies, resumed, server, unsure,
                  overtaken>>
    BY <1>1 DEF vars
  <2>2. TypeOK'
    BY <2>1 DEF IInv, TypeOK
  <2>3. NoneAgain'
    BY <2>1, KeptNoneAgain, KeptNotUnderWay DEF IInv
  <2> QED
    BY <2>1, <2>2, <2>3, KeptExpected, KeptNoneTwice, KeptOnce, KeptAgreement DEF IInv
<1>2. ASSUME NEW c \in Calls, NEW op \in {"subscribe", "unsubscribe"}, NEW t \in Topics,
             Call(c, op, t)
      PROVE  IInv'
  BY <1>2, CallIInv
<1>3. ASSUME NEW c \in Calls, Send(c)  PROVE IInv'
  BY <1>3, SendIInv
<1>4. ASSUME NEW c \in Calls, CallFails(c)  PROVE IInv'
  BY <1>4, CallFailsIInv
<1>5. CASE Authenticated
  BY <1>5, AuthenticatedIInv
<1>6. CASE Disconnected
  BY <1>6, DisconnectedIInv
<1>7. ASSUME NEW r \in pending, TimesOut(r)  PROVE IInv'
  BY <1>7, TimesOutIInv
<1>8. ASSUME NEW ok \in BOOLEAN, ServerAnswers(ok)  PROVE IInv'
  BY <1>8, ServerAnswersIInv
<1>9. ASSUME NEW t \in Topics, ServerPublishes(t)  PROVE IInv'
  BY <1>9, ServerPublishesIInv
<1>10. CASE Receive
  BY <1>10, ReceiveIInv
<1>11. CASE Resume
  BY <1>11, ResumeIInv
<1> QED
  BY <1>1, <1>2, <1>3, <1>4, <1>5, <1>6, <1>7, <1>8, <1>9, <1>10, <1>11 DEF Next

\* For any finite set of symbols and any number of calls, connections and messages: the
\* invariant behind the two theorems below holds in every reachable state.
THEOREM IInvHolds == Spec => []IInv
  BY InitIInv, NextIInv, PTL DEF Spec

\* Once the requests on a topic have settled without a timeout or a failed resubscription,
\* the server streams it if the client tracks it, and the client tracks what the server
\* streams but for a topic whose unsubscribe went ahead of its resubscription
\* (spotware-market-data.ts:143-249, 345-410; spotware-client.ts:119-125, 199).
THEOREM TrackedIsStreamedHolds == Spec => []TrackedIsStreamed
<1>1. IInv => TrackedIsStreamed
  <2> SUFFICES ASSUME IInv, up, NEW t \in Topics, ~UnderWay(t), t \notin unsure
               PROVE  /\ t \in tracked => t \in server
                      /\ t \in server => t \in tracked \cup overtaken
    BY DEF TrackedIsStreamed
  <2>1. AgreesOn(t)
    BY DEF IInv, Agreement
  <2>2. \A r : Expected(r) => t \notin r.topics
    BY DEF Expected, UnderWay
  <2>3. ~ToResubscribe(t)
    BY <2>2 DEF ToResubscribe, IInv, AllExpected
  <2>4. \A i \in DOMAIN replies : ~Decides(replies[i], t) /\ ~Refused(replies[i], t)
    BY <2>2 DEF Decides, Refused, IInv, AllExpected, IsReply
  <2>5. \A i \in DOMAIN resumed : ~Decides(resumed[i], t) /\ ~Refused(resumed[i], t)
    BY DEF Decides, Refused, UnderWay
  <2>6. ~WasRefused(t)
    BY <2>4, <2>5 DEF WasRefused
  <2>7. DOMAIN replies = 1..Len(replies) /\ DOMAIN resumed = 1..Len(resumed)
    BY DEF IInv, TypeOK
  <2>8. WillTrack(t) <=> t \in NowTracked(tracked, resumed)
    BY <2>4, <2>7 DEF WillTrack, WillTrackAfter, TrackedAfter
  <2>9. t \in NowTracked(tracked, resumed) <=> t \in tracked
    BY <2>5, <2>7 DEF NowTracked, TrackedAfter
  <2> QED
    BY <2>1, <2>3, <2>6, <2>8, <2>9 DEF AgreesOn
<1> QED
  BY <1>1, IInvHolds, PTL

\* When an event is handled, its topic is tracked by the calls answered before it, or a
\* request on it has failed without an answer, or its unsubscribe went ahead of its
\* resubscription (spotware-market-data.ts:309-343).
THEOREM NoStrayEventsHolds == Spec => []NoStrayEvents
<1>1. IInv => NoStrayEvents
  <2> SUFFICES ASSUME IInv, replies # <<>>, Head(replies).kind = "event",
                      Head(replies).topic \notin unsure \cup overtaken
               PROVE  Head(replies).topic \in NowTracked(tracked, resumed)
    BY DEF NoStrayEvents
  <2> DEFINE t == Head(replies).topic
  <2>1. replies[1] = Head(replies) /\ 1 \in DOMAIN replies /\ replies[1] \in Replies
    BY DEF IInv, TypeOK
  <2>2. up
    BY OnlineIfUsed DEF IInv
  <2>3. t \in Topics
    BY <2>1 DEF Replies
  <2>4. AgreesOn(t)
    BY <2>2, <2>3 DEF IInv, Agreement
  <2>5. WillTrackAfter(1 - 1, t) /\ 1 - 1 = 0
    BY <2>1, <2>4 DEF AgreesOn
  <2> QED
    BY <2>5, AfterNone DEF WillTrackAfter
<1> QED
  BY <1>1, IInvHolds, PTL
=============================================================================
