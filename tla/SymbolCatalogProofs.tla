------------------------ MODULE SymbolCatalogProofs ------------------------
(***************************************************************************)
(* What the caches hold, for any symbols, callers and number of requests:    *)
(* IInv is inductive.                                                        *)
(***************************************************************************)
EXTENDS SymbolCatalog, TLAPS

USE ListAssumption, MaxFetchesAssumption

(* The fields of a fetch, when it starts and when it ends.                   *)
LEMMA FetchFields == \A x \in Fetch : x.key \in Keys
BY DEF Fetch

LEMMA NewFetch ==
    ASSUME NEW k \in Keys, NEW forced \in BOOLEAN
    PROVE  [key |-> k, status |-> "pending", forced |-> forced] \in Fetch
BY DEF Fetch

LEMMA EndedFetch ==
    ASSUME NEW x \in Fetch, NEW s \in {"ok", "failed"}
    PROVE  LET y == [x EXCEPT !.status = s]
           IN  y \in Fetch /\ y.key = x.key /\ y.status = s
BY DEF Fetch

(* What TypeOK says of a fetch.                                              *)
LEMMA FetchTypes ==
    ASSUME TypeOK
    PROVE  /\ Len(fetches) \in Nat
           /\ \A f \in 1..Len(fetches) : fetches[f] \in Fetch /\ fetches[f].key \in Keys
           /\ \A k \in Keys : cache[k] # 0 => cache[k] \in 1..Len(fetches)
<1>1. \A f \in 1..Len(fetches) : fetches[f] \in Fetch
  BY DEF TypeOK
<1>2. \A k \in Keys : cache[k] # 0 => cache[k] \in 1..Len(fetches)
  BY DEF TypeOK
<1>3. Len(fetches) \in Nat
  BY DEF TypeOK
<1>4. QED
  BY <1>1, <1>2, <1>3, FetchFields

LEMMA InitIInv == Init => IInv
BY DEF Init, IInv, TypeOK, FailureNotCached, NewestIsCached, CachedUntilFailed

(* A new request becomes the newest of its key, and is what is cached; a     *)
(* symbol that had none cached has no other that did not fail.               *)
LEMMA NewFetchIInv ==
    ASSUME IInv, NEW c \in Callers, NEW k \in Keys, k # List => cache[k] = 0,
           NEW new \in Fetch, new.key = k, new.status = "pending",
           Len(fetches) < MaxFetches,
           fetches' = Append(fetches, new),
           cache' = [cache EXCEPT ![k] = Len(fetches')],
           awaits' = [awaits EXCEPT ![c] = Len(fetches')]
    PROVE  IInv'
<1> DEFINE n == Len(fetches)
<1>1. /\ n \in Nat /\ n < MaxFetches
      /\ fetches' \in Seq(Fetch) /\ Len(fetches') = n + 1
      /\ fetches'[n + 1] = new /\ \A f \in 1..n : fetches'[f] = fetches[f]
  BY DEF IInv, TypeOK
<1>2. /\ cache' = [cache EXCEPT ![k] = n + 1]
      /\ cache \in [Keys -> 0..MaxFetches]
      /\ awaits' = [awaits EXCEPT ![c] = n + 1]
  BY <1>1 DEF IInv, TypeOK
<1>3. cache'[k] = n + 1 /\ \A l \in Keys : l # k => cache'[l] = cache[l]
  BY <1>2
<1>4. \A l \in Keys : l # k /\ cache[l] # 0 => cache[l] \in 1..n
  BY FetchTypes DEF IInv
<1>5. TypeOK'
  <2>1. \A l \in Keys : cache'[l] # 0 =>
            cache'[l] <= Len(fetches') /\ fetches'[cache'[l]].key = l
    BY <1>1, <1>3, <1>4 DEF IInv, TypeOK
  <2>2. n + 1 \in 0..MaxFetches
    BY <1>1
  <2>3. cache' \in [Keys -> 0..MaxFetches] /\ awaits' \in [Callers -> 0..MaxFetches]
    BY <1>2, <2>2 DEF IInv, TypeOK
  <2>4. QED
    BY <1>1, <2>1, <2>3 DEF TypeOK
<1>6. FailureNotCached'
  BY <1>1, <1>3, <1>4 DEF IInv, FailureNotCached
<1>7. NewestIsCached'
  BY <1>1, <1>3, <1>4 DEF IInv, NewestIsCached
<1>8. CachedUntilFailed'
  <2>1. ASSUME NEW f \in 1..n, fetches[f].key # List, fetches[f].status # "failed"
        PROVE  cache'[fetches[f].key] = f
    <3>1. cache[fetches[f].key] = f /\ f # 0 /\ fetches[f].key \in Keys
      BY <2>1, FetchTypes DEF IInv, CachedUntilFailed
    <3>2. fetches[f].key # k
      BY <2>1, <3>1
    <3>3. QED
      BY <1>3, <3>1, <3>2
  <2>2. QED
    BY <1>1, <1>3, <2>1 DEF CachedUntilFailed
<1>9. QED
  BY <1>5, <1>6, <1>7, <1>8 DEF IInv

LEMMA StartFetchIInv ==
    ASSUME IInv, NEW c \in Callers, NEW k \in Keys, NEW forced \in BOOLEAN,
           StartFetch(c, k, forced), k # List => cache[k] = 0
    PROVE  IInv'
<1> DEFINE new == [key |-> k, status |-> "pending", forced |-> forced]
<1>1. new \in Fetch
  BY NewFetch
<1>2. new.key = k /\ new.status = "pending"
  OBVIOUS
<1>3. /\ Len(fetches) < MaxFetches
      /\ fetches' = Append(fetches, new)
      /\ cache' = [cache EXCEPT ![k] = Len(fetches')]
      /\ awaits' = [awaits EXCEPT ![c] = Len(fetches')]
  BY DEF StartFetch
<1> HIDE DEF new
<1>4. QED
  BY <1>1, <1>2, <1>3, NewFetchIInv

LEMMA GetIInv == ASSUME IInv, NEW c \in Callers, NEW k \in Keys, Get(c, k) PROVE IInv'
<1>1. CASE cache[k] = 0
  <2>1. StartFetch(c, k, FALSE)
    BY <1>1 DEF Get
  <2>2. QED
    BY <1>1, <2>1, StartFetchIInv
<1>2. CASE cache[k] # 0
  <2>1. awaits' = [awaits EXCEPT ![c] = cache[k]] /\ fetches' = fetches /\ cache' = cache
    BY <1>2 DEF Get
  <2>2. QED
    BY <2>1 DEF IInv, TypeOK, FailureNotCached, NewestIsCached, CachedUntilFailed
<1>3. QED
  BY <1>1, <1>2

LEMMA RefreshIInv == ASSUME IInv, NEW c \in Callers, Refresh(c) PROVE IInv'
<1>1. StartFetch(c, List, TRUE) /\ List \in Keys
  BY DEF Refresh, Keys
<1>2. QED
  BY <1>1, StartFetchIInv

(* The end of a fetch changes its status, and a failure clears its key.      *)
LEMMA EndIInv ==
    ASSUME IInv, NEW f \in 1..Len(fetches), FetchSucceeds(f) \/ FetchFails(f)
    PROVE  IInv'
<1> DEFINE k == fetches[f].key
<1>1. Len(fetches) \in Nat /\ fetches[f] \in Fetch /\ k \in Keys
  BY FetchTypes DEF IInv
<1>2. /\ fetches' \in Seq(Fetch) /\ Len(fetches') = Len(fetches)
      /\ \A g \in 1..Len(fetches) :
            fetches'[g].key = fetches[g].key /\ (g # f => fetches'[g] = fetches[g])
      /\ awaits' = awaits
      /\ \/ cache' = cache /\ fetches'[f].status = "ok" /\ fetches[f].status = "pending"
         \/ cache' = [cache EXCEPT ![k] = 0] /\ fetches'[f].status = "failed"
  <2>1. CASE FetchSucceeds(f)
    <3> DEFINE y == [fetches[f] EXCEPT !.status = "ok"]
    <3>1. y \in Fetch /\ y.key = k /\ y.status = "ok"
      BY <1>1, EndedFetch
    <3>2. /\ fetches' = [fetches EXCEPT ![f] = y] /\ awaits' = awaits /\ cache' = cache
          /\ fetches[f].status = "pending"
      BY <2>1 DEF FetchSucceeds
    <3> HIDE DEF y
    <3>3. QED
      BY <1>1, <3>1, <3>2 DEF IInv, TypeOK
  <2>2. CASE FetchFails(f)
    <3> DEFINE y == [fetches[f] EXCEPT !.status = "failed"]
    <3>1. y \in Fetch /\ y.key = k /\ y.status = "failed"
      BY <1>1, EndedFetch
    <3>2. /\ fetches' = [fetches EXCEPT ![f] = y] /\ awaits' = awaits
          /\ cache' = [cache EXCEPT ![k] = 0]
      BY <2>2 DEF FetchFails
    <3> HIDE DEF y
    <3>3. QED
      BY <1>1, <3>1, <3>2 DEF IInv, TypeOK
  <2>3. QED
    BY <2>1, <2>2
<1>3. /\ cache \in [Keys -> 0..MaxFetches]
      /\ cache' \in [Keys -> 0..MaxFetches]
      /\ \A l \in Keys : cache'[l] = cache[l] \/ (l = k /\ cache'[l] = 0)
      /\ fetches'[f].status = "failed" => cache'[k] = 0
  BY <1>1, <1>2 DEF IInv, TypeOK
<1>4. \A l \in Keys : cache[l] # 0 => cache[l] \in 1..Len(fetches)
  BY FetchTypes DEF IInv
<1>5. TypeOK'
  BY <1>2, <1>3, <1>4 DEF IInv, TypeOK
<1>6. FailureNotCached'
  <2> SUFFICES ASSUME NEW l \in Keys, cache'[l] # 0
               PROVE  fetches'[cache'[l]].status # "failed"
    BY DEF FailureNotCached
  <2>1. cache'[l] = cache[l] /\ cache[l] \in 1..Len(fetches) /\ fetches[cache[l]].key = l
    BY <1>3, <1>4 DEF IInv, TypeOK
  <2>2. CASE cache[l] = f
    BY <1>2, <1>3, <2>1, <2>2
  <2>3. CASE cache[l] # f
    BY <1>2, <2>1, <2>3 DEF IInv, FailureNotCached
  <2>4. QED
    BY <2>2, <2>3
<1>7. NewestIsCached'
  BY <1>2, <1>3 DEF IInv, NewestIsCached
<1>8. CachedUntilFailed'
  <2> SUFFICES ASSUME NEW g \in 1..Len(fetches), fetches'[g].key # List,
                      fetches'[g].status # "failed"
               PROVE  cache'[fetches'[g].key] = g
    BY <1>2 DEF CachedUntilFailed
  <2>1. cache[fetches[g].key] = g /\ fetches'[g].key = fetches[g].key
    BY <1>2 DEF IInv, CachedUntilFailed
  <2>2. fetches[g].key \in Keys
    BY FetchTypes DEF IInv
  <2>3. CASE cache' = cache
    BY <2>1, <2>3
  <2>4. CASE cache' = [cache EXCEPT ![k] = 0] /\ fetches'[f].status = "failed"
    <3>1. g # f
      BY <2>4
    <3>2. fetches[g].key # k
      <4>1. fetches[f].status # "failed"
        BY DEF FetchSucceeds, FetchFails
      <4>2. fetches[f].key # List => cache[k] = f
        BY <4>1 DEF IInv, CachedUntilFailed
      <4>3. QED
        BY <2>1, <3>1, <4>2
    <3>3. QED
      BY <1>3, <2>1, <2>2, <2>4, <3>2
  <2>5. QED
    BY <1>2, <2>3, <2>4
<1>9. QED
  BY <1>5, <1>6, <1>7, <1>8 DEF IInv

-----------------------------------------------------------------------------
(* The invariant holds in every reachable state.                             *)
THEOREM Invariance == Spec => []IInv
<1>1. IInv /\ UNCHANGED vars => IInv'
  BY DEF vars, IInv, TypeOK, FailureNotCached, NewestIsCached, CachedUntilFailed
<1>2. IInv /\ [Next]_vars => IInv'
  BY <1>1, GetIInv, RefreshIInv, EndIInv DEF Next
<1>3. QED
  BY InitIInv, <1>2, PTL DEF Spec

(* No caller is given a promise that was rejected before it called.          *)
THEOREM FailureNotCachedHolds == Spec => []FailureNotCached
<1>1. IInv => FailureNotCached
  BY DEF IInv
<1>2. QED
  BY Invariance, <1>1, PTL

(* The cache never goes back to an older fetch, however they overlap.        *)
THEOREM NewestIsCachedHolds == Spec => []NewestIsCached
<1>1. IInv => NewestIsCached
  BY DEF IInv
<1>2. QED
  BY Invariance, <1>1, PTL

(* No symbol ever has two requests that are in flight or succeeded: both     *)
(* would have to be the cached one.                                          *)
THEOREM OneFetchPerSymbolHolds == Spec => []OneFetchPerSymbol
<1>1. IInv => OneFetchPerSymbol
  BY DEF IInv, CachedUntilFailed, OneFetchPerSymbol
<1>2. QED
  BY Invariance, <1>1, PTL
=============================================================================
