------------------------------ MODULE RateGate ------------------------------
(***************************************************************************)
(* What RateLimiter (src/src/transport/rate-limiter.ts) promises whoever     *)
(* calls schedule(), without the clock: callers wait in one line, nobody     *)
(* passes at once while others wait, one at a time is let through from the   *)
(* front, and dispose() sends the whole line away for good.                  *)
(***************************************************************************)
EXTENDS Sequences, SequencesExt

CONSTANT Callers

VARIABLES
    line,    \* the callers that wait
    passed   \* the callers let through, in that order

gvars == <<line, passed>>

Init == line = <<>> /\ passed = <<>>

PassAtOnce(c) ==
    /\ line = <<>>
    /\ passed' = Append(passed, c)
    /\ UNCHANGED line

Wait(c) ==
    /\ line' = Append(line, c)
    /\ UNCHANGED passed

LetThrough ==
    /\ line # <<>>
    /\ passed' = Append(passed, Head(line))
    /\ line' = Tail(line)

SendAway ==
    /\ line' = <<>>
    /\ UNCHANGED passed

Known == ToSet(line) \cup ToSet(passed)

Next ==
    \/ \E c \in Callers \ Known : PassAtOnce(c) \/ Wait(c)
    \/ LetThrough
    \/ SendAway

Spec == Init /\ [][Next]_gvars
=============================================================================
