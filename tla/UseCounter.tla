----------------------------- MODULE UseCounter -----------------------------
(***************************************************************************)
(* What a link with a limited number of uses promises: each server counts  *)
(* its uses down and never forgets, and a request that arrives while the   *)
(* link is alive is served exactly when a use is left at the moment it is  *)
(* redeemed.  There is no clock here, no entry that is dropped some day    *)
(* and nothing in between looking a count up and writing it back.          *)
(***************************************************************************)
EXTENDS Naturals

CONSTANTS Servers, Tokens, Requests, Limits, None

VARIABLES
    left,    \* server -> token -> uses left, None when they are not limited
    asked,   \* request -> the server and the token it came with, or None
    state    \* request -> "idle", "verified" or how it was answered

counterVars == <<left, asked, state>>

Init == /\ left = [m \in Servers |-> [t \in Tokens |-> None]]
        /\ asked = [r \in Requests |-> None]
        /\ state = [r \in Requests |-> "idle"]

\* A link is limited from its beginning, on every server alike.
Limit(t, n) ==
    /\ \A m \in Servers : left[m][t] = None
    /\ left' = [m \in Servers |-> [left[m] EXCEPT ![t] = n]]
    /\ UNCHANGED <<asked, state>>

Ask(r, m, t) ==
    /\ state[r] = "idle"
    /\ asked' = [asked EXCEPT ![r] = <<m, t>>]
    /\ \/ state' = [state EXCEPT ![r] = IF left[m][t] = None THEN "served"
                                                             ELSE "verified"]
       \/ state' = [state EXCEPT ![r] = "expired"]
    /\ UNCHANGED left

Redeem(r, m, t) ==
    /\ state[r] = "verified" /\ asked[r] = <<m, t>>
    /\ left[m][t] > 0
    /\ left' = [left EXCEPT ![m][t] = @ - 1]
    /\ state' = [state EXCEPT ![r] = "served"]
    /\ UNCHANGED asked

Refuse(r, m, t) ==
    /\ state[r] = "verified" /\ asked[r] = <<m, t>>
    /\ left[m][t] = 0
    /\ state' = [state EXCEPT ![r] = "refused"]
    /\ UNCHANGED <<left, asked>>

\* The requests that nobody has answered are gone with their server.
Reset ==
    /\ state' = [r \in Requests |->
                    IF state[r] = "verified" THEN "reset" ELSE state[r]]
    /\ UNCHANGED <<left, asked>>

Next ==
    \/ \E t \in Tokens, n \in Limits : Limit(t, n)
    \/ \E r \in Requests, m \in Servers, t \in Tokens :
         Ask(r, m, t) \/ Redeem(r, m, t) \/ Refuse(r, m, t)
    \/ Reset

Spec == Init /\ [][Next]_counterVars
=============================================================================
