--------------------------- MODULE ReconnectBackoff ---------------------------
(***************************************************************************)
(* calculateReconnectDelayMs of src/src/transport/reconnect-backoff.ts, with  *)
(* options in whole milliseconds.  growth is factor ** attempt, however large; *)
(* Math.random() is jitter / grain, a fraction below 1.                      *)
(***************************************************************************)
EXTENDS Integers

cappedDelay(baseDelayMs, growth, maxDelayMs) ==
    IF baseDelayMs * growth <= maxDelayMs THEN baseDelayMs * growth ELSE maxDelayMs

\* Math.round(capped / 2 + random * capped / 2): the floor of one half more.
withEqualJitter(capped, jitter, grain) ==
    (capped * (grain + jitter) + grain) \div (2 * grain)

calculateReconnectDelayMs(baseDelayMs, growth, maxDelayMs, jitter, grain) ==
    withEqualJitter(cappedDelay(baseDelayMs, growth, maxDelayMs), jitter, grain)
=============================================================================
