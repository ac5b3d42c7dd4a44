---------------------------- MODULE TokenBucket ----------------------------
(***************************************************************************)
(* What the login rate limiter promises whoever tries to log in: each      *)
(* server has a bucket of Burst attempts and wins one back in every        *)
(* Period, little by little and never beyond the brim.  An attempt is      *)
(* served when the bucket holds a whole one and refused only when it does  *)
(* not, and what one server serves or refuses costs the others nothing.    *)
(***************************************************************************)
EXTENDS Naturals

CONSTANTS Servers, Burst, Period, None

VARIABLES
    clock,
    credit,    \* server -> what its bucket holds, in shares of an attempt
    served,    \* server -> the attempts it has let through
    refused    \* the last refusal, unless its server has served since

bucketVars == <<clock, credit, served, refused>>

Brim == Burst * Period

Init == /\ clock = 0
        /\ credit = [s \in Servers |-> Brim]
        /\ served = [s \in Servers |-> 0]
        /\ refused = None

Take(s) ==
    /\ credit[s] >= Period
    /\ credit' = [credit EXCEPT ![s] = @ - Period]
    /\ served' = [served EXCEPT ![s] = @ + 1]
    /\ refused' = IF refused # None /\ refused.inc = s THEN None ELSE refused
    /\ UNCHANGED clock

TurnAway(s) ==
    /\ credit[s] < Period
    /\ refused' = [inc |-> s, at |-> clock]
    /\ UNCHANGED <<clock, credit, served>>

\* Time passes for every bucket.
Refill ==
    /\ clock' = clock + 1
    /\ credit' = [s \in Servers |-> IF credit[s] < Brim THEN credit[s] + 1 ELSE Brim]
    /\ UNCHANGED <<served, refused>>

Next == Refill \/ \E s \in Servers : Take(s) \/ TurnAway(s)

Spec == Init /\ [][Next]_bucketVars
=============================================================================
