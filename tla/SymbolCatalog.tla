---------------------------- MODULE SymbolCatalog ----------------------------
(***************************************************************************)
(* The caches of src/src/market-data/spotware-symbol-catalog.ts: the symbol  *)
(* list behind getAll(), findByName(), findById() and refresh(), and the     *)
(* full symbols behind getFullSymbol().  What is cached is the promise of a  *)
(* fetch, so concurrent callers share it; a fetch that fails clears the      *)
(* cache of its key when the failure arrives, whatever is cached by then.    *)
(***************************************************************************)
EXTENDS Integers, Sequences

CONSTANTS
    Symbols,     \* symbolIds given to getFullSymbol()
    List,        \* the key of symbolsPromise
    Callers,     \* bound: the calls a behaviour makes
    MaxFetches   \* bound: the requests it sends

ASSUME ListAssumption == List \notin Symbols
ASSUME MaxFetchesAssumption == MaxFetches \in Nat

Keys == Symbols \cup {List}

VARIABLES
    fetches,   \* history: the requests sent, as [key, status, forced]
    cache,     \* symbolsPromise and fullSymbolPromises: a fetch, or 0
    awaits     \* the fetch whose promise each caller has been given, or 0

vars == <<fetches, cache, awaits>>

Fetch == [key : Keys, status : {"pending", "ok", "failed"}, forced : BOOLEAN]

TypeOK ==
    /\ fetches \in Seq(Fetch)
    /\ cache \in [Keys -> 0..MaxFetches]
    /\ awaits \in [Callers -> 0..MaxFetches]
    /\ \A k \in Keys : cache[k] # 0 =>
          cache[k] <= Len(fetches) /\ fetches[cache[k]].key = k

Init ==
    /\ fetches = <<>>
    /\ cache = [k \in Keys |-> 0]
    /\ awaits = [c \in Callers |-> 0]

-----------------------------------------------------------------------------
\* Mutant of StartFetch: the promise is returned, but not cached.
MutStartFetch(c, k, forced) ==
    /\ Len(fetches) < MaxFetches
    /\ fetches' = Append(fetches, [key |-> k, status |-> "pending", forced |-> forced])
    /\ awaits' = [awaits EXCEPT ![c] = Len(fetches')]
    /\ UNCHANGED cache

\* Mutant of StartFetch: every promise lands in symbolsPromise.
MutStartFetchKey(c, k, forced) ==
    /\ Len(fetches) < MaxFetches
    /\ fetches' = Append(fetches, [key |-> k, status |-> "pending", forced |-> forced])
    /\ cache' = [cache EXCEPT ![List] = Len(fetches')]
    /\ awaits' = [awaits EXCEPT ![c] = Len(fetches')]

\* fetchSymbols and fetchFullSymbol up to their await, the caller caching the promise.
StartFetch(c, k, forced) ==
    /\ Len(fetches) < MaxFetches
    /\ fetches' = Append(fetches, [key |-> k, status |-> "pending", forced |-> forced])
    /\ cache' = [cache EXCEPT ![k] = Len(fetches')]
    /\ awaits' = [awaits EXCEPT ![c] = Len(fetches')]

\* getAll (k = List), findByName, findById, or getFullSymbol(k).
Get(c, k) ==
    /\ awaits[c] = 0
    /\ IF cache[k] = 0
       THEN StartFetch(c, k, FALSE)
       ELSE /\ awaits' = [awaits EXCEPT ![c] = cache[k]]
            /\ UNCHANGED <<fetches, cache>>

Refresh(c) ==
    /\ awaits[c] = 0
    /\ StartFetch(c, List, TRUE)

\* Mutant of FetchSucceeds: what is cached is the list, when it arrives.
MutFetchSucceeds(f) ==
    /\ fetches[f].status = "pending"
    /\ fetches' = [fetches EXCEPT ![f].status = "ok"]
    /\ cache' = [cache EXCEPT ![fetches[f].key] = f]
    /\ UNCHANGED awaits

FetchSucceeds(f) ==
    /\ fetches[f].status = "pending"
    /\ fetches' = [fetches EXCEPT ![f].status = "ok"]
    /\ UNCHANGED <<cache, awaits>>

\* Mutant of FetchFails: the failure stays cached.
MutFetchFails(f) ==
    /\ fetches[f].status = "pending"
    /\ fetches' = [fetches EXCEPT ![f].status = "failed"]
    /\ UNCHANGED <<cache, awaits>>

FetchFails(f) ==
    /\ fetches[f].status = "pending"
    /\ fetches' = [fetches EXCEPT ![f].status = "failed"]
    /\ cache' = [cache EXCEPT ![fetches[f].key] = 0]
    /\ UNCHANGED awaits

Next ==
    \/ \E c \in Callers :
          \/ \E k \in Keys : Get(c, k)
          \/ Refresh(c)
    \/ \E f \in 1..Len(fetches) : FetchSucceeds(f) \/ FetchFails(f)

Spec == Init /\ [][Next]_vars

-----------------------------------------------------------------------------
(* A failure is never cached: the promise a later caller is given has not     *)
(* been rejected, in whatever order overlapping fetches end.                 *)
FailureNotCached ==
    \A k \in Keys : cache[k] # 0 => fetches[cache[k]].status # "failed"

(* The cache never goes back: what is cached for a key is its newest fetch,   *)
(* so a call after refresh() is not served a list from before it.            *)
NewestIsCached ==
    \A k \in Keys, f \in 1..Len(fetches) :
        cache[k] # 0 /\ fetches[f].key = k => f <= cache[k]

(* Concurrent callers of getFullSymbol(id) share one request, also when an    *)
(* earlier one failed while others were being asked for.                     *)
OneFetchPerSymbol ==
    \A f, g \in 1..Len(fetches) :
        /\ fetches[f].key = fetches[g].key /\ fetches[f].key # List
        /\ fetches[f].status # "failed" /\ fetches[g].status # "failed"
        => f = g

-----------------------------------------------------------------------------
(* The inductive strengthening the proofs use: a symbol's fetch stays cached  *)
(* until it fails.                                                           *)
CachedUntilFailed ==
    \A f \in 1..Len(fetches) :
        fetches[f].key # List /\ fetches[f].status # "failed" => cache[fetches[f].key] = f

(* What every step preserves: the types, the two facts about the caches and   *)
(* the strengthening.                                                        *)
IInv == TypeOK /\ FailureNotCached /\ NewestIsCached /\ CachedUntilFailed
=============================================================================
