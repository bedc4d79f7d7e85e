---------------------------- MODULE OutboxProofs ----------------------------
(***************************************************************************)
(* Whatever the number of sends and connections: a message only goes out on  *)
(* the connection it was sent for, in order, and disconnect() forgets none   *)
(* that could still go out.  IInv is inductive.                              *)
(***************************************************************************)
EXTENDS Outbox, TLAPS

USE BoundsAssumption

-----------------------------------------------------------------------------
(* Sequences: what Append and Tail do to the members and to the order.       *)

LEMMA MembersOfAppend ==
    ASSUME NEW S, NEW s \in Seq(S), NEW e \in S
    PROVE  Append(s, e) \in Seq(S) /\ ToSet(Append(s, e)) = ToSet(s) \cup {e}
<1> DEFINE t == Append(s, e)
<1>1. /\ t \in Seq(S) /\ Len(t) = Len(s) + 1 /\ Len(s) \in Nat
      /\ t[Len(s) + 1] = e /\ \A i \in 1..Len(s) : t[i] = s[i]
  OBVIOUS
<1>2. DOMAIN t = 1..(Len(s) + 1) /\ DOMAIN s = 1..Len(s)
  BY <1>1
<1>3. QED
  BY <1>1, <1>2 DEF ToSet

LEMMA MembersOfTail ==
    ASSUME NEW S, NEW s \in Seq(S), s # <<>>
    PROVE  /\ Head(s) \in S /\ Tail(s) \in Seq(S)
           /\ ToSet(s) = {Head(s)} \cup ToSet(Tail(s))
<1> DEFINE t == Tail(s)
<1>1. /\ t \in Seq(S) /\ Len(s) \in Nat /\ Len(s) >= 1 /\ Len(t) = Len(s) - 1
      /\ Head(s) = s[1] /\ \A i \in 1..(Len(s) - 1) : t[i] = s[i + 1]
  OBVIOUS
<1>2. DOMAIN t = 1..(Len(s) - 1) /\ DOMAIN s = 1..Len(s)
  BY <1>1
<1>3. ToSet(s) \subseteq {Head(s)} \cup ToSet(t)
  <2> SUFFICES ASSUME NEW i \in 1..Len(s), i # 1 PROVE s[i] \in ToSet(t)
    BY <1>1, <1>2 DEF ToSet
  <2>1. i - 1 \in 1..(Len(s) - 1) /\ (i - 1) + 1 = i
    BY <1>1
  <2>2. QED
    BY <2>1, <1>1, <1>2 DEF ToSet
<1>4. {Head(s)} \cup ToSet(t) \subseteq ToSet(s)
  BY <1>1, <1>2 DEF ToSet
<1>5. QED
  BY <1>1, <1>3, <1>4

LEMMA MembersOfEmpty == ToSet(<<>>) = {}
BY DEF ToSet

LEMMA Members ==
    ASSUME NEW S, NEW s \in Seq(S)
    PROVE  ToSet(s) \subseteq S /\ \A i \in 1..Len(s) : s[i] \in ToSet(s)
BY DEF ToSet

LEMMA IncreasingAppend ==
    ASSUME NEW s \in Seq(Msgs), NEW e \in Msgs, Increasing(s), Before(ToSet(s), {e})
    PROVE  Increasing(Append(s, e))
<1> DEFINE t == Append(s, e)
           n == Len(s)
<1>1. /\ Len(t) = n + 1 /\ n \in Nat /\ t[n + 1] = e
      /\ \A i \in 1..n : t[i] = s[i] /\ s[i] \in ToSet(s)
  BY DEF ToSet
<1>2. ASSUME NEW i \in 1..(n + 1), NEW j \in 1..(n + 1), i < j, limiter[t[i]] = limiter[t[j]]
      PROVE  t[i] < t[j]
  <2>1. i \in 1..n
    BY <1>1, <1>2
  <2>2. CASE j = n + 1
    BY <2>1, <2>2, <1>1, <1>2 DEF Before
  <2>3. CASE j \in 1..n
    BY <2>1, <2>3, <1>1, <1>2 DEF Increasing
  <2>4. QED
    BY <2>2, <2>3, <1>1
<1>3. QED
  BY <1>1, <1>2 DEF Increasing

LEMMA IncreasingTail ==
    ASSUME NEW s \in Seq(Msgs), s # <<>>, Increasing(s)
    PROVE  Increasing(Tail(s)) /\ Before({Head(s)}, ToSet(Tail(s)))
<1> DEFINE t == Tail(s)
           n == Len(s)
<1>1. /\ n \in Nat /\ n >= 1 /\ Len(t) = n - 1 /\ Head(s) = s[1]
      /\ DOMAIN t = 1..(n - 1)
      /\ \A i \in 1..(n - 1) : t[i] = s[i + 1] /\ i + 1 \in 1..n
  OBVIOUS
<1>2. ASSUME NEW i \in 1..(n - 1), NEW j \in 1..(n - 1), i < j, limiter[t[i]] = limiter[t[j]]
      PROVE  t[i] < t[j]
  <2>1. i + 1 < j + 1 /\ i + 1 \in 1..n /\ j + 1 \in 1..n
    BY <1>1, <1>2
  <2>2. t[i] = s[i + 1] /\ t[j] = s[j + 1]
    BY <1>1
  <2>3. QED
    BY <2>1, <2>2, <1>2 DEF Increasing
<1>3. ASSUME NEW j \in 1..(n - 1), limiter[s[1]] = limiter[t[j]] PROVE s[1] < t[j]
  <2>1. 1 < j + 1 /\ 1 \in 1..n /\ j + 1 \in 1..n
    BY <1>1
  <2>2. QED
    BY <2>1, <1>1, <1>3 DEF Increasing
<1>4. QED
  BY <1>1, <1>2, <1>3 DEF Increasing, Before, ToSet

LEMMA IncreasingEmpty == Increasing(<<>>)
BY DEF Increasing

LEMMA IncreasingOne == ASSUME NEW m \in Msgs PROVE Increasing(<<m>>) /\ ToSet(<<m>>) = {m}
BY DEF Increasing, ToSet

-----------------------------------------------------------------------------
(* What IInv says of the messages on their way, where each can be.           *)

LEMMA WayTypes ==
    ASSUME IInv
    PROVE  /\ \A l \in Limiters : lines[l] \in Seq(Msgs) /\ ToSet(lines[l]) \subseteq Msgs
           /\ resumed \in Seq(Msgs) /\ ToSet(resumed) \subseteq Msgs
           /\ \A c \in Conns : stream[c] \in Seq(Msgs) /\ ToSet(stream[c]) \subseteq Msgs
<1>1. /\ \A l \in Limiters : lines[l] \in Seq(Msgs)
      /\ resumed \in Seq(Msgs)
      /\ \A c \in Conns : stream[c] \in Seq(Msgs)
  BY DEF IInv, TypeOK
<1>2. \A l \in Limiters : ToSet(lines[l]) \subseteq Msgs
  BY <1>1, Members
<1>3. ToSet(resumed) \subseteq Msgs
  BY <1>1, Members
<1>4. \A c \in Conns : ToSet(stream[c]) \subseteq Msgs
  BY <1>1, Members
<1>5. QED
  BY <1>1, <1>2, <1>3, <1>4

\* A new call is later than every message on its way.
LEMMA NewIsLast ==
    ASSUME IInv, NEW m \in Msgs, m = sends + 1
    PROVE  /\ \A x \in Msgs : OnTheWay(x) => x < m
           /\ given[m] = 0 /\ outcome[m] = "none" /\ sends \in Nat
<1>1. sends \in Nat /\ \A x \in Msgs : x \in Nat
  BY DEF IInv, TypeOK, Msgs
<1>2. \A x \in Msgs : OnTheWay(x) => x <= sends
  BY DEF IInv, CallInv
<1>3. m > sends
  BY <1>1
<1>4. given[m] = 0 /\ outcome[m] = "none"
  BY <1>3 DEF IInv, CallInv
<1>5. QED
  BY <1>1, <1>2, <1>4

\* OnOwnConnection, said of the members of the streams.
LEMMA OwnByMembers ==
    ASSUME \A c \in Conns : stream[c] \in Seq(Msgs)
    PROVE  OnOwnConnection <=> \A c \in Conns : \A m \in ToSet(stream[c]) : given[m] = c
<1>1. \A c \in Conns : DOMAIN stream[c] = 1..Len(stream[c])
  OBVIOUS
<1>2. QED
  BY <1>1 DEF OnOwnConnection, ToSet

(* Init establishes every part of the inductive invariant.                   *)
LEMMA InitIInv == Init => IInv
<1> SUFFICES ASSUME Init PROVE IInv
  OBVIOUS
<1>1. TypeOK
  BY DEF Init, TypeOK, Conn!Init, Conn!TypeOK, Limiters
<1>2. /\ \A l \in Limiters : lines[l] = <<>> /\ ToSet(lines[l]) = {}
      /\ resumed = <<>> /\ ToSet(resumed) = {}
      /\ \A c \in Conns : stream[c] = <<>> /\ ToSet(stream[c]) = {}
  BY MembersOfEmpty DEF Init
<1>4. CallInv
  BY <1>2 DEF Init, CallInv, OnTheWay, Conn!Init
<1>5. OnOwnConnection
  BY <1>2 DEF OnOwnConnection
<1>6. OrderInv
  BY <1>2, IncreasingEmpty DEF OrderInv, InOrder, Before
<1>7. OnlyTheGoneAreForgotten
  BY DEF Init, OnlyTheGoneAreForgotten, Forgotten, Msgs
<1>8. QED
  BY <1>1, <1>4, <1>5, <1>6, <1>7 DEF IInv

-----------------------------------------------------------------------------
(* Each action keeps the inductive invariant.                                *)

\* Who was let through had called: so it stays when there is one more call.
LEMMA PassedHadCalled ==
    ASSUME IInv
    PROVE  \A l \in Limiters : /\ passed[l] \in Seq(Msgs)
                              /\ \A x \in ToSet(passed[l]) : x \in Msgs /\ x <= sends + 1
<1>1. \A l \in Limiters : passed[l] \in Seq(Msgs)
  BY DEF IInv, TypeOK
<1>2. \A l \in Limiters : ToSet(passed[l]) \subseteq Msgs
  BY <1>1, Members
<1>3. \A l \in Limiters : \A x \in ToSet(passed[l]) : x <= sends
  BY DEF IInv, CallInv
<1>4. sends \in Nat /\ \A x \in Msgs : x \in Nat
  BY DEF IInv, TypeOK, Msgs
<1>5. ASSUME NEW l \in Limiters, NEW x \in ToSet(passed[l])
      PROVE  x \in Msgs /\ x <= sends + 1
  <2>1. x \in Msgs /\ x <= sends
    BY <1>2, <1>3
  <2>2. x \in Nat
    BY <1>4, <2>1
  <2>3. QED
    BY <1>4, <2>1, <2>2
<1>6. QED
  BY <1>1, <1>5

LEMMA SendThrowsIInv == ASSUME IInv, NEW m \in Msgs, SendThrows(m) PROVE IInv'
<1>1. /\ m = sends + 1 /\ sends' = m /\ link # "up"
      /\ outcome' = [outcome EXCEPT ![m] = "thrown"]
      /\ link' = link /\ wish' = wish /\ conn' = conn /\ limiter' = limiter
      /\ given' = given /\ lines' = lines /\ passed' = passed
      /\ resumed' = resumed /\ stream' = stream
  BY DEF SendThrows, connVars
<1>2. TypeOK'
  BY <1>1 DEF IInv, TypeOK, Conn!TypeOK, Msgs
<1>4. CallInv'
  <2>1. \A x \in Msgs : OnTheWay(x)' <=> OnTheWay(x)
    BY <1>1 DEF OnTheWay
  <2>2. given[m] = 0 /\ sends \in Nat /\ \A x \in Msgs : OnTheWay(x) => x < m
    BY <1>1, NewIsLast
  <2>3. \A x \in Msgs : x \in Nat
    BY DEF Msgs
  <2>4. \A x \in Msgs : OnTheWay(x)' => x <= sends' /\ given'[x] \in Conns
    BY <1>1, <2>1, <2>2, <2>3 DEF IInv, CallInv
  <2>5. \A x \in Msgs : x > sends' => given'[x] = 0 /\ outcome'[x] = "none"
    BY <1>1, <2>2, <2>3 DEF IInv, TypeOK, CallInv
  <2>6. \A x \in 1..sends' : given'[x] = 0 <=> outcome'[x] = "thrown"
    BY <1>1, <2>2 DEF IInv, TypeOK, CallInv, Msgs
  <2>7. \A l \in Limiters : \A x \in ToSet(passed'[l]) : x <= sends'
    BY <1>1, PassedHadCalled
  <2>8. QED
    BY <1>1, <2>4, <2>5, <2>6, <2>7 DEF IInv, CallInv
<1>5. OnOwnConnection'
  BY <1>1 DEF IInv, OnOwnConnection
<1>6. OrderInv'
  BY <1>1 DEF IInv, OrderInv, InOrder, Increasing, Before
<1>7. OnlyTheGoneAreForgotten'
  BY <1>1 DEF OnlyTheGoneAreForgotten, Live
<1>8. QED
  BY <1>2, <1>4, <1>5, <1>6, <1>7 DEF IInv

LEMMA SendPassesIInv == ASSUME IInv, NEW m \in Msgs, SendPasses(m) PROVE IInv'
<1> DEFINE k == limiter[m]
<1>1. /\ m = sends + 1 /\ sends' = m /\ link = "up"
      /\ given' = [given EXCEPT ![m] = conn]
      /\ passed' = [passed EXCEPT ![k] = Append(@, m)]
      /\ resumed' = Append(resumed, m) /\ lines[k] = <<>>
      /\ link' = link /\ wish' = wish /\ conn' = conn /\ limiter' = limiter
      /\ lines' = lines /\ stream' = stream /\ outcome' = outcome
  BY DEF SendPasses, CanPassAtOnce, connVars
<1>2. /\ k \in Limiters /\ conn \in Conns /\ given[m] = 0 /\ outcome[m] = "none"
      /\ given \in [Msgs -> 0..MaxConns] /\ sends \in Nat
  <2>1. k \in Limiters /\ given \in [Msgs -> 0..MaxConns] /\ conn \in Conns
    BY <1>1 DEF IInv, TypeOK, CallInv
  <2>2. QED
    BY <1>1, <2>1, NewIsLast
<1>3. resumed' \in Seq(Msgs) /\ ToSet(resumed') = ToSet(resumed) \cup {m}
  BY <1>1, WayTypes, MembersOfAppend
<1>4. TypeOK'
  <2>1. passed' \in [Limiters -> Seq(Msgs)]
    BY <1>1, <1>2 DEF IInv, TypeOK
  <2>2. given' \in [Msgs -> 0..MaxConns]
    BY <1>1, <1>2 DEF Conns
  <2>3. sends' \in 0..MaxSends
    BY <1>1 DEF Msgs
  <2>4. Conn!TypeOK'
    BY <1>1 DEF IInv, TypeOK, Conn!TypeOK
  <2>5. QED
    BY <1>1, <1>3, <2>1, <2>2, <2>3, <2>4 DEF IInv, TypeOK
<1>5. \A x \in Msgs : OnTheWay(x)' <=> OnTheWay(x) \/ x = m
  BY <1>1, <1>3 DEF OnTheWay
<1>6. (\A x \in Msgs : OnTheWay(x) => x < m) /\ (\A x \in Msgs : x \in Nat)
  BY <1>1, NewIsLast DEF Msgs
<1>7. CallInv'
  <2>1. ASSUME NEW x \in Msgs, OnTheWay(x)' PROVE x <= sends' /\ given'[x] \in Conns
    <3>1. CASE x = m
      BY <3>1, <1>1, <1>2, <1>6
    <3>2. CASE x # m
      <4>1. OnTheWay(x)
        BY <3>2, <2>1, <1>5
      <4>2. x < m /\ given[x] \in Conns
        BY <4>1, <1>6 DEF IInv, CallInv
      <4>3. given'[x] = given[x]
        BY <3>2, <1>1, <1>2
      <4>4. x <= m
        BY <4>2, <1>6
      <4>5. QED
        BY <4>2, <4>3, <4>4, <1>1
    <3>3. QED
      BY <3>1, <3>2
  <2>2. \A x \in Msgs : x > sends' => given'[x] = 0 /\ outcome'[x] = "none"
    BY <1>1, <1>2, <1>6 DEF IInv, CallInv
  <2>3. \A x \in 1..sends' : given'[x] = 0 <=> outcome'[x] = "thrown"
    <3>1. \A x \in 1..sends' : x \in Msgs /\ (x \in 1..sends \/ x = m)
      BY <1>1, <1>2 DEF Msgs
    <3>2. conn # 0
      BY <1>2 DEF Conns
    <3>3. QED
      BY <1>1, <1>2, <3>1, <3>2 DEF IInv, CallInv
  <2>4. \A x \in Msgs : given'[x] <= conn'
    <3>1. conn \in Nat
      BY <1>2 DEF Conns
    <3>2. \A x \in Msgs : given[x] <= conn
      BY DEF IInv, CallInv
    <3>3. \A x \in Msgs : given'[x] = IF x = m THEN conn ELSE given[x]
      BY <1>1, <1>2
    <3>4. QED
      BY <1>1, <3>1, <3>2, <3>3
  <2>5. ASSUME NEW l \in Limiters, NEW x \in ToSet(passed'[l]) PROVE x <= sends'
    <3>1. passed'[l] = passed[l] \/ (l = k /\ passed'[l] = Append(passed[l], m))
      BY <1>1, <1>2 DEF IInv, TypeOK
    <3>2. x \in ToSet(passed[l]) \/ x = m
      <4>1. ToSet(Append(passed[l], m)) = ToSet(passed[l]) \cup {m}
        BY PassedHadCalled, MembersOfAppend
      <4>2. QED
        BY <3>1, <4>1, <2>5
    <3>3. QED
      BY <3>2, <1>1, <1>2, PassedHadCalled
  <2>6. QED
    BY <1>1, <1>2, <2>1, <2>2, <2>3, <2>4, <2>5 DEF IInv, CallInv
<1>8. OnOwnConnection'
  <2>1. ASSUME NEW c \in Conns, NEW i \in 1..Len(stream[c]) PROVE given'[stream[c][i]] = c
    <3>1. stream[c][i] \in ToSet(stream[c]) /\ stream[c][i] \in Msgs
      BY WayTypes, Members
    <3>2. stream[c][i] # m
      BY <1>6, <3>1 DEF OnTheWay
    <3>3. QED
      BY <1>1, <1>2, <3>1, <3>2 DEF IInv, OnOwnConnection
  <2>2. QED
    BY <1>1, <2>1 DEF OnOwnConnection
<1>9. OrderInv'
  <2>1. Increasing(resumed')
    <3>1. Before(ToSet(resumed), {m})
      BY <1>6, WayTypes DEF OnTheWay, Before
    <3>2. Increasing(Append(resumed, m))
      BY <3>1, WayTypes, IncreasingAppend DEF IInv, OrderInv
    <3>3. QED
      BY <1>1, <3>2
  <2>2. \A c \in Conns : Before(ToSet(stream[c]), ToSet(resumed'))
    <3>1. \A c \in Conns : \A x \in ToSet(stream[c]) : x < m
      BY <1>6, WayTypes DEF OnTheWay
    <3>2. QED
      BY <1>3, <3>1 DEF IInv, OrderInv, Before
  <2>3. ASSUME NEW l \in Limiters PROVE Before(ToSet(resumed'), ToSet(lines[l]))
    <3>1. \A x \in ToSet(lines[l]) : limiter[x] = l
      BY DEF IInv, CallInv
    <3>2. l = k => ToSet(lines[l]) = {}
      BY <1>1, MembersOfEmpty
    <3>3. QED
      BY <1>3, <3>1, <3>2 DEF IInv, OrderInv, Before
  <2>4. QED
    BY <1>1, <2>1, <2>2, <2>3 DEF IInv, OrderInv, InOrder, Increasing, Before
<1>10. OnlyTheGoneAreForgotten'
  <2>1. m \in ToSet(resumed')
    BY <1>3
  <2>2. ASSUME NEW x \in Msgs, Forgotten(x)' PROVE ~Live(given[x])'
    <3>1. x # m
      BY <2>1, <2>2 DEF Forgotten, Waiting
    <3>2. Forgotten(x)
      BY <1>1, <1>2, <1>3, <2>2, <3>1 DEF Forgotten, Waiting, Written, Msgs
    <3>3. QED
      BY <1>1, <1>2, <3>1, <3>2 DEF IInv, OnlyTheGoneAreForgotten, Live
  <2>3. QED
    BY <2>2 DEF OnlyTheGoneAreForgotten
<1>11. QED
  BY <1>4, <1>7, <1>8, <1>9, <1>10 DEF IInv

LEMMA SendWaitsIInv == ASSUME IInv, NEW m \in Msgs, SendWaits(m) PROVE IInv'
<1> DEFINE k == limiter[m]
<1>1. /\ m = sends + 1 /\ sends' = m /\ link = "up"
      /\ given' = [given EXCEPT ![m] = conn]
      /\ lines' = [lines EXCEPT ![k] = Append(@, m)]
      /\ link' = link /\ wish' = wish /\ conn' = conn /\ limiter' = limiter
      /\ passed' = passed /\ resumed' = resumed /\ stream' = stream
      /\ outcome' = outcome
  BY DEF SendWaits, connVars
<1>2. /\ k \in Limiters /\ conn \in Conns /\ given[m] = 0 /\ outcome[m] = "none"
      /\ given \in [Msgs -> 0..MaxConns] /\ sends \in Nat
      /\ lines \in [Limiters -> Seq(Msgs)]
  <2>1. /\ k \in Limiters /\ given \in [Msgs -> 0..MaxConns] /\ conn \in Conns
        /\ lines \in [Limiters -> Seq(Msgs)]
    BY <1>1 DEF IInv, TypeOK, CallInv
  <2>2. QED
    BY <1>1, <2>1, NewIsLast
<1>3. /\ lines'[k] = Append(lines[k], m) /\ lines'[k] \in Seq(Msgs)
      /\ ToSet(lines'[k]) = ToSet(lines[k]) \cup {m}
      /\ \A l \in Limiters : l # k => lines'[l] = lines[l]
  <2>1. lines'[k] = Append(lines[k], m) /\ \A l \in Limiters : l # k => lines'[l] = lines[l]
    BY <1>1, <1>2
  <2>2. QED
    BY <2>1, <1>2, MembersOfAppend
<1>4. TypeOK'
  <2>1. lines' \in [Limiters -> Seq(Msgs)]
    BY <1>1, <1>2, <1>3
  <2>2. given' \in [Msgs -> 0..MaxConns]
    BY <1>1, <1>2 DEF Conns
  <2>3. sends' \in 0..MaxSends
    BY <1>1 DEF Msgs
  <2>4. Conn!TypeOK'
    BY <1>1 DEF IInv, TypeOK, Conn!TypeOK
  <2>5. QED
    BY <1>1, <2>1, <2>2, <2>3, <2>4 DEF IInv, TypeOK
<1>5. \A x \in Msgs : OnTheWay(x)' <=> OnTheWay(x) \/ x = m
  BY <1>1, <1>2, <1>3 DEF OnTheWay
<1>6. (\A x \in Msgs : OnTheWay(x) => x < m) /\ (\A x \in Msgs : x \in Nat)
  BY <1>1, NewIsLast DEF Msgs
<1>7. CallInv'
  <2> DEFINE g(x) == IF x = m THEN conn ELSE given[x]
  <2>1. (\A x \in Msgs : given'[x] = g(x)) /\ conn \in Nat /\ conn # 0
    BY <1>1, <1>2 DEF Conns
  <2>2. ASSUME NEW x \in Msgs, OnTheWay(x)' PROVE x <= sends' /\ given'[x] \in Conns
    <3>1. CASE x = m
      BY <3>1, <1>1, <1>2, <1>6, <2>1
    <3>2. CASE x # m
      <4>1. x < m /\ given[x] \in Conns
        BY <3>2, <2>2, <1>5, <1>6 DEF IInv, CallInv
      <4>2. x <= m
        BY <4>1, <1>6
      <4>3. QED
        BY <3>2, <4>1, <4>2, <2>1, <1>1
    <3>3. QED
      BY <3>1, <3>2
  <2>3. \A x \in Msgs : x > sends' => given'[x] = 0 /\ outcome'[x] = "none"
    BY <1>1, <1>2, <1>6 DEF IInv, CallInv
  <2>4. \A x \in 1..sends' : given'[x] = 0 <=> outcome'[x] = "thrown"
    <3>1. \A x \in 1..sends' : x \in Msgs /\ (x \in 1..sends \/ x = m)
      BY <1>1, <1>2 DEF Msgs
    <3>2. QED
      BY <1>1, <1>2, <2>1, <3>1 DEF IInv, CallInv
  <2>5. \A x \in Msgs : given'[x] <= conn'
    <3>1. \A x \in Msgs : given[x] <= conn
      BY DEF IInv, CallInv
    <3>2. QED
      BY <1>1, <2>1, <3>1
  <2>6. \A l \in Limiters : \A x \in ToSet(lines'[l]) : limiter'[x] = l
    BY <1>1, <1>3 DEF IInv, CallInv
  <2>7. link' = "up" => conn' \in Conns
    BY <1>1, <1>2
  <2>8. \A l \in Limiters : \A x \in ToSet(passed'[l]) : x <= sends'
    BY <1>1, PassedHadCalled
  <2>9. QED
    BY <2>2, <2>3, <2>4, <2>5, <2>6, <2>7, <2>8 DEF CallInv
<1>8. OnOwnConnection'
  <2>1. ASSUME NEW c \in Conns, NEW i \in 1..Len(stream[c]) PROVE given'[stream[c][i]] = c
    <3>1. stream[c][i] \in ToSet(stream[c]) /\ stream[c][i] \in Msgs
      BY WayTypes, Members
    <3>2. stream[c][i] # m
      BY <1>6, <3>1 DEF OnTheWay
    <3>3. QED
      BY <1>1, <1>2, <3>1, <3>2 DEF IInv, OnOwnConnection
  <2>2. QED
    BY <1>1, <2>1 DEF OnOwnConnection
<1>9. OrderInv'
  <2>1. Increasing(lines'[k])
    <3>1. Before(ToSet(lines[k]), {m})
      BY <1>2, <1>6, WayTypes DEF OnTheWay, Before
    <3>2. QED
      BY <1>2, <1>3, <3>1, IncreasingAppend DEF IInv, OrderInv
  <2>2. ASSUME NEW l \in Limiters PROVE Increasing(lines'[l])
    BY <2>1, <1>3 DEF IInv, OrderInv
  <2>3. ASSUME NEW l \in Limiters, NEW c \in Conns
        PROVE  Before(ToSet(stream[c]), ToSet(lines'[l]))
    <3>1. \A x \in ToSet(stream[c]) : x < m
      BY <1>6, WayTypes DEF OnTheWay
    <3>2. Before(ToSet(stream[c]), ToSet(lines[l]))
      BY DEF IInv, OrderInv
    <3>3. ToSet(lines'[l]) \subseteq ToSet(lines[l]) \cup {m}
      BY <1>3
    <3>4. QED
      BY <3>1, <3>2, <3>3 DEF Before
  <2>4. ASSUME NEW l \in Limiters PROVE Before(ToSet(resumed), ToSet(lines'[l]))
    <3>1. \A x \in ToSet(resumed) : x < m
      BY <1>6, WayTypes DEF OnTheWay
    <3>2. Before(ToSet(resumed), ToSet(lines[l]))
      BY DEF IInv, OrderInv
    <3>3. ToSet(lines'[l]) \subseteq ToSet(lines[l]) \cup {m}
      BY <1>3
    <3>4. QED
      BY <3>1, <3>2, <3>3 DEF Before
  <2>5. QED
    BY <1>1, <2>2, <2>3, <2>4 DEF IInv, OrderInv, InOrder, Increasing, Before
<1>10. OnlyTheGoneAreForgotten'
  <2>1. m \in ToSet(lines'[k])
    BY <1>3
  <2>2. ASSUME NEW x \in Msgs, Forgotten(x)' PROVE ~Live(given[x])'
    <3>1. x # m
      BY <1>1, <2>1, <2>2 DEF Forgotten, Waiting
    <3>2. limiter[x] \in Limiters
      BY DEF IInv, TypeOK
    <3>3. Forgotten(x)
      <4>1. ToSet(lines[limiter[x]]) \subseteq ToSet(lines'[limiter[x]])
        BY <1>3, <3>2
      <4>2. x <= sends
        BY <1>1, <1>2, <2>2, <3>1 DEF Forgotten, Msgs
      <4>3. QED
        BY <1>1, <2>2, <4>1, <4>2 DEF Forgotten, Waiting, Written
    <3>4. QED
      BY <1>1, <1>2, <3>1, <3>3 DEF IInv, OnlyTheGoneAreForgotten, Live
  <2>3. QED
    BY <2>2 DEF OnlyTheGoneAreForgotten
<1>11. QED
  BY <1>4, <1>7, <1>8, <1>9, <1>10 DEF IInv

LEMMA TickIInv == ASSUME IInv, NEW k \in Limiters, Tick(k) PROVE IInv'
<1> DEFINE h == Head(lines[k])
<1>1. /\ resumed = <<>> /\ lines[k] # <<>>
      /\ lines' = [lines EXCEPT ![k] = Tail(@)]
      /\ passed' = [passed EXCEPT ![k] = Append(@, h)]
      /\ resumed' = <<h>>
      /\ link' = link /\ wish' = wish /\ conn' = conn /\ sends' = sends
      /\ limiter' = limiter /\ given' = given /\ stream' = stream /\ outcome' = outcome
  BY DEF Tick, EventLoopFree, connVars, callVars
<1>2. lines \in [Limiters -> Seq(Msgs)] /\ passed \in [Limiters -> Seq(Msgs)]
  BY DEF IInv, TypeOK
<1>3. /\ h \in Msgs /\ lines'[k] = Tail(lines[k]) /\ lines'[k] \in Seq(Msgs)
      /\ ToSet(lines[k]) = {h} \cup ToSet(lines'[k])
      /\ \A l \in Limiters : l # k => lines'[l] = lines[l]
  <2>1. lines'[k] = Tail(lines[k]) /\ \A l \in Limiters : l # k => lines'[l] = lines[l]
    BY <1>1, <1>2
  <2>2. QED
    BY <2>1, <1>1, <1>2, MembersOfTail
<1>4. ToSet(resumed') = {h} /\ ToSet(resumed) = {} /\ resumed' \in Seq(Msgs)
  BY <1>1, <1>3, IncreasingOne, MembersOfEmpty
<1>5. \A l \in Limiters : ToSet(lines'[l]) \subseteq ToSet(lines[l])
  BY <1>3
<1>6. TypeOK'
  <2>1. lines' \in [Limiters -> Seq(Msgs)] /\ passed' \in [Limiters -> Seq(Msgs)]
    BY <1>1, <1>2, <1>3
  <2>2. QED
    BY <1>1, <1>4, <2>1 DEF IInv, TypeOK, Conn!TypeOK
<1>7. CallInv'
  <2>1. \A x \in Msgs : OnTheWay(x)' => OnTheWay(x)
    BY <1>1, <1>3, <1>4, <1>5 DEF OnTheWay
  <2>2. ASSUME NEW l \in Limiters, NEW x \in ToSet(passed'[l]) PROVE x <= sends'
    <3>1. passed'[l] = passed[l] \/ (l = k /\ passed'[l] = Append(passed[l], h))
      BY <1>1, <1>2
    <3>2. x \in ToSet(passed[l]) \/ x = h
      <4>1. ToSet(Append(passed[l], h)) = ToSet(passed[l]) \cup {h}
        BY <1>3, PassedHadCalled, MembersOfAppend
      <4>2. QED
        BY <3>1, <4>1, <2>2
    <3>3. h <= sends
      BY <1>3 DEF IInv, CallInv, OnTheWay
    <3>4. QED
      BY <3>2, <3>3, <1>1 DEF IInv, CallInv
  <2>3. QED
    BY <1>1, <1>5, <2>1, <2>2 DEF IInv, CallInv
<1>8. OnOwnConnection'
  BY <1>1 DEF IInv, OnOwnConnection
<1>9. OrderInv'
  <2>1. Increasing(lines'[k]) /\ Before({h}, ToSet(lines'[k])) /\ Increasing(<<h>>)
    BY <1>1, <1>2, <1>3, IncreasingTail, IncreasingOne DEF IInv, OrderInv
  <2>2. \A l \in Limiters : Increasing(lines'[l])
    BY <1>3, <2>1 DEF IInv, OrderInv
  <2>3. ASSUME NEW c \in Conns
        PROVE  /\ Before(ToSet(stream[c]), {h})
               /\ \A l \in Limiters : Before(ToSet(stream[c]), ToSet(lines'[l]))
    <3>1. \A l \in Limiters : Before(ToSet(stream[c]), ToSet(lines[l]))
      BY DEF IInv, OrderInv
    <3>2. QED
      BY <3>1, <1>3, <1>5 DEF Before
  <2>4. ASSUME NEW l \in Limiters PROVE Before({h}, ToSet(lines'[l]))
    <3>1. limiter[h] = k /\ \A x \in ToSet(lines'[l]) : limiter[x] = l
      BY <1>3, <1>5 DEF IInv, CallInv
    <3>2. QED
      BY <2>1, <3>1 DEF Before
  <2>5. QED
    BY <1>1, <1>4, <2>1, <2>2, <2>3, <2>4 DEF IInv, OrderInv, InOrder, Increasing, Before
<1>10. OnlyTheGoneAreForgotten'
  <2>1. ASSUME NEW x \in Msgs, Forgotten(x)' PROVE Forgotten(x)
    <3>1. limiter[x] \in Limiters
      BY DEF IInv, TypeOK
    <3>2. x \notin ToSet(lines[limiter[x]]) /\ x \notin ToSet(resumed)
      BY <1>1, <1>3, <1>4, <2>1, <3>1 DEF Forgotten, Waiting
    <3>3. QED
      BY <1>1, <2>1, <3>2 DEF Forgotten, Waiting, Written
  <2>2. QED
    BY <1>1, <2>1 DEF IInv, OnlyTheGoneAreForgotten, Live
<1>11. QED
  BY <1>6, <1>7, <1>8, <1>9, <1>10 DEF IInv

LEMMA WriteIInv == ASSUME IInv, Write PROVE IInv'
<1> DEFINE m == Head(resumed)
           c == given[m]
<1>1. /\ resumed # <<>> /\ resumed' = Tail(resumed)
      /\ \/ Live(c) /\ stream' = [stream EXCEPT ![c] = Append(@, m)] /\ outcome' = outcome
         \/ /\ ~Live(c) /\ outcome' = [outcome EXCEPT ![m] = "failed"]
            /\ stream' = stream
      /\ link' = link /\ wish' = wish /\ conn' = conn /\ sends' = sends
      /\ limiter' = limiter /\ given' = given /\ lines' = lines /\ passed' = passed
  BY DEF Write, SocketOf, connVars, callVars
<1>2. /\ m \in Msgs /\ resumed' \in Seq(Msgs)
      /\ ToSet(resumed) = {m} \cup ToSet(resumed')
      /\ Increasing(resumed') /\ Before({m}, ToSet(resumed'))
  BY <1>1, WayTypes, MembersOfTail, IncreasingTail DEF IInv, OrderInv
<1>3. c \in Conns /\ m <= sends
  BY <1>2 DEF IInv, CallInv, OnTheWay
<1>4. /\ stream \in [Conns -> Seq(Msgs)] /\ outcome \in [Msgs -> {"none", "thrown", "written", "failed"}]
      /\ limiter \in [Msgs -> Limiters]
  BY DEF IInv, TypeOK
<1>5. ASSUME NEW d \in Conns
      PROVE  /\ stream'[d] \in Seq(Msgs)
             /\ \/ stream'[d] = stream[d]
                \/ /\ d = c /\ stream'[d] = Append(stream[d], m)
                   /\ ToSet(stream'[d]) = ToSet(stream[d]) \cup {m}
  <2>1. stream'[d] = stream[d] \/ (d = c /\ stream'[d] = Append(stream[d], m))
    BY <1>1, <1>3, <1>4
  <2>2. stream[d] \in Seq(Msgs)
    BY <1>4
  <2>3. /\ Append(stream[d], m) \in Seq(Msgs)
        /\ ToSet(Append(stream[d], m)) = ToSet(stream[d]) \cup {m}
    BY <1>2, <2>2, MembersOfAppend
  <2>4. QED
    BY <2>1, <2>2, <2>3
<1>6. TypeOK'
  <2>1. stream' \in [Conns -> Seq(Msgs)]
    BY <1>1, <1>4, <1>5
  <2>2. outcome' \in [Msgs -> {"none", "thrown", "written", "failed"}]
    BY <1>1, <1>4
  <2>3. QED
    BY <1>1, <1>2, <2>1, <2>2 DEF IInv, TypeOK, Conn!TypeOK
<1>7. CallInv'
  <2>1. \A x \in Msgs : OnTheWay(x)' => OnTheWay(x)
    BY <1>1, <1>2, <1>5 DEF OnTheWay
  <2>2. \A x \in Msgs : outcome'[x] = outcome[x] \/ (x = m /\ outcome'[x] = "failed")
    BY <1>1, <1>4
  <2>3. outcome[m] # "thrown" /\ c # 0
    <3>1. m \in 1..sends
      BY <1>2, <1>3 DEF IInv, TypeOK, Msgs
    <3>2. c # 0
      BY <1>3 DEF Conns
    <3>3. QED
      BY <3>1, <3>2 DEF IInv, CallInv
  <2>4. \A x \in Msgs : x > sends => x # m
    BY <1>2, <1>3 DEF IInv, TypeOK, Msgs
  <2>5. \A x \in 1..sends : x \in Msgs
    BY DEF IInv, TypeOK, Msgs
  <2>6. \A x \in Msgs : x > sends => given'[x] = 0 /\ outcome'[x] = "none"
    BY <1>1, <2>2, <2>4 DEF IInv, CallInv
  <2>7. \A x \in 1..sends : given'[x] = 0 <=> outcome'[x] = "thrown"
    BY <1>1, <2>2, <2>3, <2>5 DEF IInv, CallInv
  <2>8. QED
    BY <1>1, <2>1, <2>6, <2>7 DEF IInv, CallInv
<1>8. OnOwnConnection'
  <2>1. ASSUME NEW d \in Conns, NEW x \in ToSet(stream'[d]) PROVE given[x] = d
    <3>1. CASE x \in ToSet(stream[d])
      BY <3>1, <1>4, OwnByMembers DEF IInv
    <3>2. CASE x \notin ToSet(stream[d])
      BY <3>2, <2>1, <1>5
    <3>3. QED
      BY <3>1, <3>2
  <2>2. ASSUME NEW d \in Conns, NEW i \in 1..Len(stream'[d]) PROVE given'[stream'[d][i]] = d
    <3>1. stream'[d][i] \in ToSet(stream'[d])
      BY <1>5, Members
    <3>2. QED
      BY <1>1, <2>1, <3>1
  <2>3. QED
    BY <2>2 DEF OnOwnConnection
<1>9. OrderInv'
  <2>1. /\ \A d \in Conns : Before(ToSet(stream[d]), {m})
        /\ \A l \in Limiters : Before({m}, ToSet(lines[l]))
        /\ \A l \in Limiters : Before(ToSet(resumed'), ToSet(lines[l]))
        /\ \A d \in Conns : Before(ToSet(stream[d]), ToSet(resumed'))
    BY <1>2 DEF IInv, OrderInv, Before
  <2>2. ASSUME NEW d \in Conns
        PROVE  /\ Increasing(stream'[d])
               /\ Before(ToSet(stream'[d]), ToSet(resumed'))
               /\ \A l \in Limiters : Before(ToSet(stream'[d]), ToSet(lines[l]))
    <3>1. CASE stream'[d] = stream[d]
      BY <3>1, <2>1 DEF IInv, OrderInv, InOrder
    <3>2. CASE /\ stream'[d] = Append(stream[d], m)
               /\ ToSet(stream'[d]) = ToSet(stream[d]) \cup {m}
      <4>1. Increasing(Append(stream[d], m))
        BY <1>2, <1>4, <2>1, IncreasingAppend DEF IInv, OrderInv, InOrder
      <4>2. \A l \in Limiters : Before(ToSet(stream[d]), ToSet(lines[l]))
        BY DEF IInv, OrderInv
      <4>3. Before(ToSet(stream'[d]), ToSet(resumed'))
        BY <1>2, <2>1, <3>2 DEF Before
      <4>4. \A l \in Limiters : Before(ToSet(stream'[d]), ToSet(lines[l]))
        BY <2>1, <3>2, <4>2 DEF Before
      <4>5. QED
        BY <3>2, <4>1, <4>3, <4>4
    <3>3. QED
      BY <1>5, <3>1, <3>2
  <2>3. QED
    BY <1>1, <1>2, <2>1, <2>2 DEF IInv, OrderInv, InOrder, Increasing, Before
<1>10. OnlyTheGoneAreForgotten'
  <2>1. ASSUME NEW x \in Msgs, Forgotten(x)' PROVE ~Live(given[x])
    <3>1. CASE x = m
      <4>1. ~Live(c) \/ m \in ToSet(stream'[c])
        <5>1. CASE Live(c)
          <6>1. stream'[c] = Append(stream[c], m) /\ stream[c] \in Seq(Msgs)
            BY <5>1, <1>1, <1>3, <1>4
          <6>2. QED
            BY <6>1, <1>2, MembersOfAppend
        <5>2. QED
          BY <5>1
      <4>2. QED
        BY <3>1, <4>1, <2>1, <1>3 DEF Forgotten, Written
    <3>2. CASE x # m
      <4>1. \A d \in Conns : x \notin ToSet(stream[d])
        BY <2>1, <1>5 DEF Forgotten, Written
      <4>2. outcome[x] = "none" /\ x <= sends
        BY <3>2, <2>1, <1>1, <1>4 DEF Forgotten
      <4>3. ~Waiting(x)
        BY <3>2, <2>1, <1>1, <1>2 DEF Forgotten, Waiting
      <4>4. QED
        BY <4>1, <4>2, <4>3 DEF IInv, OnlyTheGoneAreForgotten, Forgotten, Written
    <3>3. QED
      BY <3>1, <3>2
  <2>2. QED
    BY <1>1, <2>1 DEF OnlyTheGoneAreForgotten, Live
<1>11. QED
  BY <1>6, <1>7, <1>8, <1>9, <1>10 DEF IInv

LEMMA CallbackIInv == ASSUME IInv, NEW m \in Msgs, Flushed(m) \/ Unflushed(m) PROVE IInv'
<1>1. /\ Written(m)
      /\ \/ outcome' = [outcome EXCEPT ![m] = "written"]
         \/ outcome' = [outcome EXCEPT ![m] = "failed"]
      /\ link' = link /\ wish' = wish /\ conn' = conn /\ sends' = sends
      /\ limiter' = limiter /\ given' = given /\ lines' = lines /\ passed' = passed
      /\ resumed' = resumed /\ stream' = stream
  BY DEF Flushed, Unflushed, connVars, callVars
<1>2. /\ outcome \in [Msgs -> {"none", "thrown", "written", "failed"}]
      /\ \A x \in Msgs : x # m => outcome'[x] = outcome[x]
      /\ outcome'[m] \in {"written", "failed"}
      /\ outcome' \in [Msgs -> {"none", "thrown", "written", "failed"}]
  BY <1>1 DEF IInv, TypeOK
<1>3. TypeOK'
  BY <1>1, <1>2 DEF IInv, TypeOK, Conn!TypeOK
<1>4. m <= sends /\ given[m] \in Conns
  BY <1>1 DEF IInv, CallInv, OnTheWay, Written
<1>5. CallInv'
  <2>1. \A x \in Msgs : OnTheWay(x)' <=> OnTheWay(x)
    BY <1>1 DEF OnTheWay
  <2>2. \A x \in Msgs : x > sends => x # m
    BY <1>4 DEF IInv, TypeOK, Msgs
  <2>3. \A x \in 1..sends : x \in Msgs
    BY DEF IInv, TypeOK, Msgs
  <2>4. given[m] # 0
    BY <1>4 DEF Conns
  <2>5. \A x \in Msgs : x > sends => given'[x] = 0 /\ outcome'[x] = "none"
    BY <1>1, <1>2, <2>2 DEF IInv, CallInv
  <2>6. \A x \in 1..sends : given'[x] = 0 <=> outcome'[x] = "thrown"
    BY <1>1, <1>2, <2>3, <2>4 DEF IInv, CallInv
  <2>7. QED
    BY <1>1, <2>1, <2>5, <2>6 DEF IInv, CallInv
<1>6. OnOwnConnection' /\ OrderInv'
  BY <1>1 DEF IInv, OnOwnConnection, OrderInv, InOrder, Increasing, Before
<1>7. OnlyTheGoneAreForgotten'
  <2>1. \A x \in Msgs : Forgotten(x)' => Forgotten(x)
    BY <1>1, <1>2 DEF Forgotten, Waiting, Written
  <2>2. QED
    BY <1>1, <2>1 DEF IInv, OnlyTheGoneAreForgotten, Live
<1>8. QED
  BY <1>3, <1>5, <1>6, <1>7 DEF IInv

(* What the steps that belong to the connection share.                       *)
LEMMA ConnectionIInv ==
    ASSUME IInv, ConnectionStep \/ Establish \/ Disconnect \/ UNCHANGED vars
    PROVE  IInv'
<1>1. /\ sends' = sends /\ limiter' = limiter /\ given' = given /\ passed' = passed
      /\ resumed' = resumed /\ stream' = stream /\ outcome' = outcome
  BY DEF ConnectionStep, Establish, Disconnect, vars, callVars
<1>2. conn' \in 0..MaxConns /\ conn <= conn' /\ conn \in Nat
  BY DEF ConnectionStep, Establish, Disconnect, vars, connVars, IInv, TypeOK
<1>3. Conn!TypeOK' /\ (link' = "up" => conn' \in Conns)
  <2>1. CASE ConnectionStep
    BY <2>1 DEF ConnectionStep, Conn!Open, Conn!GiveUp, Conn!Lose, Conn!Report,
                IInv, TypeOK, CallInv, Conn!TypeOK
  <2>2. CASE Establish
    BY <2>2 DEF Establish, Conn!Establish, IInv, TypeOK, Conn!TypeOK, Conns
  <2>3. CASE Disconnect
    BY <2>3 DEF Disconnect, Conn!Close, IInv, TypeOK, CallInv, Conn!TypeOK
  <2>4. CASE UNCHANGED vars
    BY <2>4 DEF vars, connVars, IInv, TypeOK, CallInv, Conn!TypeOK
  <2>5. QED
    BY <2>1, <2>2, <2>3, <2>4
<1>4. \/ lines' = lines
      \/ Disconnect /\ \A l \in Limiters : lines'[l] = <<>> /\ ToSet(lines'[l]) = {}
  BY MembersOfEmpty DEF ConnectionStep, Establish, Disconnect, vars
<1>5. lines' \in [Limiters -> Seq(Msgs)]
  <2>1. CASE lines' = lines
    BY <2>1 DEF IInv, TypeOK
  <2>2. CASE Disconnect
    BY <2>2 DEF Disconnect
  <2>3. QED
    BY <1>4, <2>1, <2>2
<1>6. TypeOK'
  BY <1>1, <1>2, <1>3, <1>5 DEF IInv, TypeOK
<1>7. \A l \in Limiters : ToSet(lines'[l]) \subseteq ToSet(lines[l])
  BY <1>4
<1>8. CallInv'
  <2>1. \A x \in Msgs : OnTheWay(x)' => OnTheWay(x)
    BY <1>1, <1>7 DEF OnTheWay
  <2>2. \A x \in Msgs : given'[x] <= conn'
    <3>1. \A x \in Msgs : given[x] <= conn /\ given[x] \in Nat
      BY DEF IInv, CallInv, TypeOK
    <3>2. conn' \in Nat
      BY <1>2
    <3>3. QED
      BY <1>1, <1>2, <3>1, <3>2
  <2>3. QED
    BY <1>1, <1>3, <1>7, <2>1, <2>2 DEF IInv, CallInv
<1>9. OnOwnConnection'
  BY <1>1 DEF IInv, OnOwnConnection
<1>10. OrderInv'
  <2>1. \A l \in Limiters : Increasing(lines'[l])
    BY <1>4, IncreasingEmpty DEF IInv, OrderInv
  <2>2. \A l \in Limiters : Before(ToSet(resumed), ToSet(lines'[l]))
    BY <1>7 DEF IInv, OrderInv, Before
  <2>3. \A c \in Conns, l \in Limiters : Before(ToSet(stream[c]), ToSet(lines'[l]))
    BY <1>7 DEF IInv, OrderInv, Before
  <2>4. QED
    BY <1>1, <2>1, <2>2, <2>3 DEF IInv, OrderInv, InOrder, Increasing, Before
<1>11. OnlyTheGoneAreForgotten'
  <2>1. CASE Disconnect
    BY <2>1 DEF Disconnect, Conn!Close, OnlyTheGoneAreForgotten, Live
  <2>2. CASE Establish
    <3>1. conn' = conn + 1 /\ \A x \in Msgs : given[x] <= conn /\ given[x] \in Nat
      BY <2>2 DEF Establish, IInv, CallInv, TypeOK
    <3>2. QED
      BY <1>1, <1>2, <3>1 DEF OnlyTheGoneAreForgotten, Live
  <2>3. CASE ConnectionStep \/ UNCHANGED vars
    <3>1. conn' = conn /\ lines' = lines /\ (link' = "up" => link = "up")
      BY <2>3 DEF ConnectionStep, Conn!Open, Conn!GiveUp, Conn!Lose, Conn!Report,
                  vars, connVars
    <3>2. QED
      BY <1>1, <3>1
         DEF IInv, OnlyTheGoneAreForgotten, Forgotten, Waiting, Written, Live
  <2>4. QED
    BY <2>1, <2>2, <2>3
<1>12. QED
  BY <1>6, <1>8, <1>9, <1>10, <1>11 DEF IInv

-----------------------------------------------------------------------------
(* Both limiters are RateGates.  The queue of limiter l and whom it let       *)
(* through, after a step: what RateGate allows.                              *)
GateStep(l) ==
    \/ \E m \in Msgs \ (ToSet(lines[l]) \cup ToSet(passed[l])) :
          \/ lines[l] = <<>> /\ passed'[l] = Append(passed[l], m) /\ lines'[l] = lines[l]
          \/ lines'[l] = Append(lines[l], m) /\ passed'[l] = passed[l]
    \/ /\ lines[l] # <<>> /\ lines'[l] = Tail(lines[l])
       /\ passed'[l] = Append(passed[l], Head(lines[l]))
    \/ lines'[l] = <<>> /\ passed'[l] = passed[l]
    \/ lines'[l] = lines[l] /\ passed'[l] = passed[l]

LEMMA NextIsGateStep ==
    ASSUME IInv, [Next]_vars, NEW l \in Limiters
    PROVE  GateStep(l)
<1>1. lines \in [Limiters -> Seq(Msgs)] /\ passed \in [Limiters -> Seq(Msgs)]
  BY DEF IInv, TypeOK
<1>2. ASSUME NEW m \in Msgs, m = sends + 1, limiter[m] = l
      PROVE  m \notin ToSet(lines[l]) \cup ToSet(passed[l])
  <2>1. m \notin ToSet(lines[l])
    <3>1. OnTheWay(m) => m < m
      BY <1>2, NewIsLast
    <3>2. QED
      BY <3>1 DEF OnTheWay, Msgs
  <2>2. m \notin ToSet(passed[l])
    BY <1>2 DEF IInv, CallInv, TypeOK
  <2>3. QED
    BY <2>1, <2>2
<1>3. ASSUME NEW m \in Msgs, SendPasses(m) PROVE GateStep(l)
  <2>1. CASE limiter[m] = l
    BY <1>1, <1>2, <1>3, <2>1 DEF SendPasses, CanPassAtOnce, GateStep
  <2>2. CASE limiter[m] # l
    BY <1>1, <1>3, <2>2 DEF SendPasses, GateStep
  <2>3. QED
    BY <2>1, <2>2
<1>4. ASSUME NEW m \in Msgs, SendWaits(m) PROVE GateStep(l)
  <2>1. CASE limiter[m] = l
    BY <1>1, <1>2, <1>4, <2>1 DEF SendWaits, GateStep
  <2>2. CASE limiter[m] # l
    BY <1>1, <1>4, <2>2 DEF SendWaits, GateStep
  <2>3. QED
    BY <2>1, <2>2
<1>5. ASSUME NEW k \in Limiters, Tick(k) PROVE GateStep(l)
  <2>1. CASE k = l
    BY <1>1, <1>5, <2>1 DEF Tick, GateStep
  <2>2. CASE k # l
    BY <1>1, <1>5, <2>2 DEF Tick, GateStep
  <2>3. QED
    BY <2>1, <2>2
<1>6. CASE Disconnect
  BY <1>6 DEF Disconnect, GateStep
<1>7. CASE \/ \E m \in Msgs : SendThrows(m) \/ Flushed(m) \/ Unflushed(m)
           \/ Write \/ ConnectionStep \/ Establish \/ UNCHANGED vars
  BY <1>7 DEF SendThrows, Flushed, Unflushed, Write, ConnectionStep, Establish, vars, GateStep
<1>8. QED
  BY <1>3, <1>4, <1>5, <1>6, <1>7 DEF Next

LEMMA FiveStep == IInv /\ [Next]_vars => [FivePerSecond!Next]_FivePerSecond!gvars
<1> SUFFICES ASSUME IInv, [Next]_vars PROVE [FivePerSecond!Next]_FivePerSecond!gvars
  OBVIOUS
<1>1. GateStep("fivePerSecond")
  BY NextIsGateStep DEF Limiters
<1>2. QED
  BY <1>1 DEF GateStep, FivePerSecond!Next, FivePerSecond!Known, FivePerSecond!ToSet, ToSet,
     FivePerSecond!PassAtOnce, FivePerSecond!Wait, FivePerSecond!LetThrough,
     FivePerSecond!SendAway, FivePerSecond!gvars

LEMMA FiftyStep == IInv /\ [Next]_vars => [FiftyPerSecond!Next]_FiftyPerSecond!gvars
<1> SUFFICES ASSUME IInv, [Next]_vars PROVE [FiftyPerSecond!Next]_FiftyPerSecond!gvars
  OBVIOUS
<1>1. GateStep("fiftyPerSecond")
  BY NextIsGateStep DEF Limiters
<1>2. QED
  BY <1>1 DEF GateStep, FiftyPerSecond!Next, FiftyPerSecond!Known, FiftyPerSecond!ToSet, ToSet,
     FiftyPerSecond!PassAtOnce, FiftyPerSecond!Wait, FiftyPerSecond!LetThrough,
     FiftyPerSecond!SendAway, FiftyPerSecond!gvars

-----------------------------------------------------------------------------
(* The invariant holds in every reachable state, for any number of sends and *)
(* connections.                                                              *)
THEOREM Invariance == Spec => []IInv
<1>1. IInv /\ [Next]_vars => IInv'
  BY SendThrowsIInv, SendPassesIInv, SendWaitsIInv, TickIInv, WriteIInv, CallbackIInv,
     ConnectionIInv DEF Next
<1>2. QED
  BY InitIInv, <1>1, PTL DEF Spec

(* A message only goes out on the connection that was live when send() was   *)
(* called.                                                                   *)
THEOREM OnOwnConnectionHolds == Spec => []OnOwnConnection
<1>1. IInv => OnOwnConnection
  BY DEF IInv
<1>2. QED
  BY Invariance, <1>1, PTL

(* The messages of one limiter go out in the order of their send() calls.    *)
THEOREM InOrderHolds == Spec => []InOrder
<1>1. IInv => InOrder
  BY DEF IInv, OrderInv
<1>2. QED
  BY Invariance, <1>1, PTL

(* disconnect() forgets no message that could still go out.                  *)
THEOREM ForgottenHolds == Spec => []OnlyTheGoneAreForgotten
<1>1. IInv => OnlyTheGoneAreForgotten
  BY DEF IInv
<1>2. QED
  BY Invariance, <1>1, PTL

(* The transport uses both limiters only as RateGate, and hence RateLimiter, *)
(* allows.                                                                   *)
THEOREM GatesRespected == Spec => BothAreGates
<1>1. Init => FivePerSecond!Init /\ FiftyPerSecond!Init
  BY DEF Init, Limiters, FivePerSecond!Init, FiftyPerSecond!Init
<1>2. QED
  BY <1>1, FiveStep, FiftyStep, Invariance, PTL
     DEF Spec, BothAreGates, FivePerSecond!Spec, FiftyPerSecond!Spec
=============================================================================
