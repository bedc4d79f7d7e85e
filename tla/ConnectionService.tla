------------------------- MODULE ConnectionService -------------------------
(***************************************************************************)
(* What SpotwareTransport promises the code above it, as the 'connected' and *)
(* 'disconnected' events and the rules of connect() and disconnect() tell it *)
(* (src/src/transport/spotware-transport.ts, and README.md 392-393): at most *)
(* one connection, announced once when it is up and once when it is gone,    *)
(* only while the caller wants one.  SpotwareTransport implements it.        *)
(***************************************************************************)

VARIABLES
    link,   \* "down"; "up": announced and alive; "lost": dead, not yet announced
    wish    \* "no" connection wanted; "first" one asked for; "keep" one for good

cvars == <<link, wish>>

TypeOK == link \in {"down", "up", "lost"} /\ wish \in {"no", "first", "keep"}

Init == link = "down" /\ wish = "no"

\* connect(), when no connection is up.
Open ==
    /\ link = "down"
    /\ wish' = IF wish = "keep" THEN "keep" ELSE "first"
    /\ UNCHANGED link

\* disconnect().
Close ==
    /\ wish' = "no"
    /\ link' = IF link = "up" THEN "lost" ELSE link

\* A first attempt that fails is not retried; one that follows a success is.
GiveUp ==
    /\ link = "down" /\ wish = "first"
    /\ wish' = "no"
    /\ UNCHANGED link

\* 'connected'
Establish ==
    /\ link = "down" /\ wish # "no"
    /\ link' = "up" /\ wish' = "keep"

Lose ==
    /\ link = "up"
    /\ link' = "lost"
    /\ UNCHANGED wish

\* 'disconnected'
Report ==
    /\ link = "lost"
    /\ link' = "down"
    /\ UNCHANGED wish

Next == Open \/ Close \/ GiveUp \/ Establish \/ Lose \/ Report

Spec == Init /\ [][Next]_cvars
=============================================================================
