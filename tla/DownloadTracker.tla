-------------------------- MODULE DownloadTracker --------------------------
(***************************************************************************)
(* Download tokens and the counting of their uses (src/auth.rs and the     *)
(* first half of download_handler in src/server.rs).                       *)
(*                                                                         *)
(* A token carries its expiry and, optionally, a number of uses.  Nothing  *)
(* about it is stored until it is used; then the download_tracker, a map   *)
(* whose entries expire by themselves, holds the count until one minute    *)
(* past the token's expiry.  Every incarnation of the server has a tracker *)
(* of its own, and a handler keeps the one it started with.                *)
(***************************************************************************)
EXTENDS Naturals

CONSTANTS
    Tokens,
    Requests,      \* requests to /download
    None,          \* no token, no limit
    Lifetimes,     \* expires_in_seconds of the tokens issued
    Limits,        \* max_uses of the tokens that have one
    Sec,           \* ticks in a second
    Grace,         \* ticks an entry outlives its token: one minute
    MaxDelay,      \* ticks between a handler's verification and its count
    MaxNow,        \* bound: the clock
    MaxRestarts    \* bound: incarnations of the server after the first

ASSUME NoneAssumption      == None \notin Tokens \cup Nat
ASSUME LifetimesAssumption == Lifetimes \subseteq Nat
ASSUME LimitsAssumption    == Limits \subseteq Nat
ASSUME SecAssumption       == Sec \in Nat \ {0}
ASSUME DelayAssumption     == Grace \in Nat /\ MaxDelay \in Nat
                              /\ MaxDelay + Sec <= Grace
ASSUME BoundsAssumption    == MaxNow \in Nat /\ MaxRestarts \in Nat

Trackers == 0..MaxRestarts

VARIABLES
    now,       \* the clock
    current,   \* the tracker of the server that listens
    exp,       \* token -> when it expires, None before it is issued
    limit,     \* token -> max_uses, None when it has none
    entry,     \* tracker -> token -> its count and until when it is kept
    rstate,    \* request -> progress of its handler
    rtoken,    \* request -> its token
    rtracker,  \* request -> the tracker its handler uses
    verified,  \* request -> when its token was verified
    grants     \* tracker -> token -> uses granted so far (history)

tokenVars   == <<exp, limit>>
requestVars == <<rstate, rtoken, rtracker, verified>>
vars == <<now, current, tokenVars, entry, requestVars, grants>>

Issued(t) == exp[t] # None

\* Mutant: a missing entry counts as one use.
CurrentUsesOrOne(m, t) == IF now < entry[m][t].until THEN entry[m][t].uses ELSE 1

\* TimedMap::get followed by unwrap_or_default.
CurrentUses(m, t) == IF now < entry[m][t].until THEN entry[m][t].uses ELSE 0

\* Mutant: the entry is kept no longer than the token.
DurationOfToken(t) == LET left == exp[t] - now
                      IN  IF now <= exp[t] THEN left - (left % Sec) ELSE 0

\* (track_until - now).num_seconds().max(0): whole seconds, cut off.
Duration(t) == LET left == exp[t] + Grace - now
               IN  IF now <= exp[t] + Grace THEN left - (left % Sec) ELSE 0

-----------------------------------------------------------------------------
Init ==
    /\ now = 0
    /\ current = 0
    /\ exp = [t \in Tokens |-> None]
    /\ limit = [t \in Tokens |-> None]
    /\ entry = [m \in Trackers |-> [t \in Tokens |-> [uses |-> 0, until |-> 0]]]
    /\ rstate = [r \in Requests |-> "idle"]
    /\ rtoken = [r \in Requests |-> None]
    /\ rtracker = [r \in Requests |-> 0]
    /\ verified = [r \in Requests |-> 0]
    /\ grants = [m \in Trackers |-> [t \in Tokens |-> 0]]

\* Mutant: the limit counts the uses after the first.
GenerateTokenPlusOne(t) ==
    /\ ~Issued(t)
    /\ \E s \in Lifetimes : exp' = [exp EXCEPT ![t] = now + s * Sec]
    /\ \E n \in Limits \cup {None} :
         limit' = [limit EXCEPT ![t] = IF n = None THEN None ELSE n + 1]
    /\ UNCHANGED <<now, current, entry, requestVars, grants>>

\* generate_token_with_options: by the command line, with any limit, or by
\* the admin panel, with a limit of one.
GenerateToken(t) ==
    /\ ~Issued(t)
    /\ \E s \in Lifetimes : exp' = [exp EXCEPT ![t] = now + s * Sec]
    /\ \E n \in Limits \cup {None} : limit' = [limit EXCEPT ![t] = n]
    /\ UNCHANGED <<now, current, entry, requestVars, grants>>

\* verify_token_and_get_claims refuses an expired token.  The parser decides
\* the very instant of expiry either way.
VerifyToken(r) ==
    /\ rstate[r] = "idle"
    /\ \E t \in Tokens :
         /\ Issued(t)
         /\ rtoken' = [rtoken EXCEPT ![r] = t]
         /\ \/ now <= exp[t] /\ rstate' = [rstate EXCEPT ![r] =
                                  IF limit[t] = None THEN "served" ELSE "verified"]
            \/ now >= exp[t] /\ rstate' = [rstate EXCEPT ![r] = "expired"]
    /\ rtracker' = [rtracker EXCEPT ![r] = current]
    /\ verified' = [verified EXCEPT ![r] = now]
    /\ UNCHANGED <<now, current, tokenVars, entry, grants>>

\* The section under the tracker's lock, when the uses are up.
RefuseUse(r) ==
    /\ rstate[r] = "verified"
    /\ CurrentUses(rtracker[r], rtoken[r]) >= limit[rtoken[r]]
    /\ rstate' = [rstate EXCEPT ![r] = "refused"]
    /\ UNCHANGED <<now, current, tokenVars, entry, rtoken, rtracker, verified,
                   grants>>

\* The same section when a use is left: it is taken before anything is known
\* about the file.
TakeUse(r) ==
    LET m == rtracker[r]
        t == rtoken[r]
    IN  /\ rstate[r] = "verified"
        /\ CurrentUses(m, t) < limit[t]
        /\ entry' = [entry EXCEPT ![m][t] = [uses  |-> CurrentUses(m, t) + 1,
                                             until |-> now + Duration(t)]]
        /\ rstate' = [rstate EXCEPT ![r] = "served"]
        /\ grants' = [grants EXCEPT ![m][t] = @ + 1]
        /\ UNCHANGED <<now, current, tokenVars, rtoken, rtracker, verified>>

\* The process dies and is started again: its handlers and trackers are gone.
Crash ==
    /\ current < MaxRestarts
    /\ current' = current + 1
    /\ rstate' = [r \in Requests |->
                    IF rstate[r] = "verified" THEN "reset" ELSE rstate[r]]
    /\ UNCHANGED <<now, tokenVars, entry, rtoken, rtracker, verified, grants>>

\* A reload in place: run_server starts again with a new tracker, the
\* handlers in flight finish with theirs.
RunServer ==
    /\ current < MaxRestarts
    /\ current' = current + 1
    /\ UNCHANGED <<now, tokenVars, entry, requestVars, grants>>

\* Time passes; a handler is never more than MaxDelay behind.
Tick ==
    /\ now < MaxNow
    /\ \A r \in Requests : rstate[r] = "verified" => now < verified[r] + MaxDelay
    /\ now' = now + 1
    /\ UNCHANGED <<current, tokenVars, entry, requestVars, grants>>

Next ==
    \/ \E t \in Tokens : GenerateToken(t)
    \/ \E r \in Requests : VerifyToken(r) \/ RefuseUse(r) \/ TakeUse(r)
    \/ Crash \/ RunServer \/ Tick

Spec == Init /\ [][Next]_vars

-----------------------------------------------------------------------------
RStates == {"idle", "verified", "served", "refused", "expired", "reset"}

TypeOK ==
    /\ now \in 0..MaxNow
    /\ current \in Trackers
    /\ exp \in [Tokens -> Nat \cup {None}]
    /\ limit \in [Tokens -> Limits \cup {None}]
    /\ entry \in [Trackers -> [Tokens -> [uses : Nat, until : Nat]]]
    /\ rstate \in [Requests -> RStates]
    /\ rtoken \in [Requests -> Tokens \cup {None}]
    /\ rtracker \in [Requests -> Trackers]
    /\ verified \in [Requests -> 0..MaxNow]
    /\ grants \in [Trackers -> [Tokens -> Nat]]

\* One incarnation of the server never lets a token be used more often than
\* it allows, although its count is kept only for a while: the minute the
\* entry outlives the token covers every handler that verified in time.
MaxUsesRespected == \A m \in Trackers, t \in Tokens :
    limit[t] # None => grants[m][t] <= limit[t]

\* Nobody is refused while a use is left.
RefusedOnlyWhenUsedUp == \A r \in Requests :
    rstate[r] = "refused" => grants[rtracker[r]][rtoken[r]] >= limit[rtoken[r]]

\* What a token's maker would count on.
Left(m, t) == IF limit[t] = None THEN None ELSE limit[t] - grants[m][t]

Counter == INSTANCE UseCounter WITH
    Servers <- Trackers,
    left    <- [m \in Trackers |-> [t \in Tokens |-> Left(m, t)]],
    asked   <- [r \in Requests |-> IF rstate[r] = "idle" THEN None
                                   ELSE <<rtracker[r], rtoken[r]>>],
    state   <- rstate

\* Verifying, looking the count up in a map whose entries expire, and writing
\* it back with a new lifetime are, in every order of requests, reloads,
\* restarts and the clock, a counter that never forgets.
ImplementsUseCounter == Counter!Spec

-----------------------------------------------------------------------------
(* The inductive invariant.                                                *)

\* A handler that will count verified a live token not long ago.
TimelyHandlers == \A r \in Requests : rstate[r] \in {"verified", "refused"} =>
    /\ rtoken[r] \in Tokens
    /\ Issued(rtoken[r])
    /\ limit[rtoken[r]] # None
    /\ rstate[r] = "verified" =>
         verified[r] <= exp[rtoken[r]] /\ now <= verified[r] + MaxDelay

\* An unissued token has no limit yet; the count is right for as long as a
\* handler can ask for it.
CountsKept == \A m \in Trackers, t \in Tokens :
    /\ ~Issued(t) => limit[t] = None
    /\ grants[m][t] = 0 => entry[m][t].uses = 0
    /\ grants[m][t] > 0 =>
         /\ Issued(t)
         /\ entry[m][t].uses = grants[m][t]
         /\ entry[m][t].until > exp[t] + MaxDelay

Inductive == TypeOK /\ TimelyHandlers /\ CountsKept /\ MaxUsesRespected
             /\ RefusedOnlyWhenUsedUp
=============================================================================
