----------------------------- MODULE AdminLogin -----------------------------
(***************************************************************************)
(* Logging in to the admin panel: the login rate limiter                   *)
(* (src/rate_limit.rs), the login and logout handlers and the middleware   *)
(* that asks for the session cookie (src/admin.rs, src/auth.rs).           *)
(*                                                                         *)
(* Every incarnation of the server has a limiter of its own; the key that  *)
(* signs sessions is the same for all.  Only who is logged in can ask for  *)
(* the next incarnation.                                                   *)
(*                                                                         *)
(* The limiter has one bucket, whoever tries to log in: it holds Burst     *)
(* attempts and wins back one in every Period.  It is kept, as the         *)
(* governor library keeps it, as the time at which it will be full again.  *)
(***************************************************************************)
EXTENDS Naturals, Sequences, FiniteSets

CONSTANTS
    Clients,      \* browsers
    None,         \* no attempt, no session, no answer
    Burst,        \* max_requests: five
    Period,       \* window, in ticks: a minute
    Day,          \* the life of a session
    Kept,         \* HTTPS: connections outlive their incarnation
    MaxNow,       \* bound: the clock
    MaxRestarts   \* bound: incarnations after the first

ASSUME LimiterAssumption == Burst \in Nat \ {0} /\ Period \in Nat \ {0}
ASSUME SessionAssumption == Day \in Nat /\ Kept \in BOOLEAN
ASSUME BoundsAssumption  == MaxNow \in Nat /\ MaxRestarts \in Nat

Incarnations == 0..MaxRestarts

VARIABLES
    now,        \* the clock
    current,    \* the incarnation that listens
    oldest,     \* the first incarnation of the running process
    pending,    \* reloads asked for, their signals still to be handled
    tat,        \* incarnation -> when its bucket is full again
    attempt,    \* client -> the attempt its limiter admitted
    session,    \* client -> its admin_token cookie
    told,       \* the last "try again in 1 minute"
    admitted,   \* incarnation -> when it admitted attempts (history)
    entered     \* somebody has logged in (history)

serverVars  == <<current, oldest, pending>>
clientVars  == <<attempt, session, told>>
historyVars == <<admitted, entered>>
vars == <<now, serverVars, tat, clientVars, historyVars>>

\* The incarnations a request can reach.
Reached == IF Kept THEN oldest..current ELSE {current}

-----------------------------------------------------------------------------
(* The limiter: governor's generic cell rate algorithm.                    *)

Tolerance == (Burst - 1) * Period

\* Mutant: room for an attempt too many.
FullOffByOne(i) == now + Tolerance + Period < tat[i]

Full(i) == now + Tolerance < tat[i]

\* Mutant: five attempts are won back in a period, not one.
RefilledPerBurst(i) ==
    (IF tat[i] < now THEN now ELSE tat[i]) + Period \div Burst

Refilled(i) == (IF tat[i] < now THEN now ELSE tat[i]) + Period

-----------------------------------------------------------------------------
Init ==
    /\ now = 0
    /\ current = 0 /\ oldest = 0 /\ pending = 0
    /\ tat = [i \in Incarnations |-> 0]
    /\ attempt = [c \in Clients |-> None]
    /\ session = [c \in Clients |-> None]
    /\ told = None
    /\ admitted = [i \in Incarnations |-> <<>>]
    /\ entered = FALSE

\* POST /admin/login gets past admin_login_rate_limit_middleware.
Admit(c, i) ==
    /\ attempt[c] = None /\ ~Full(i)
    /\ tat' = [tat EXCEPT ![i] = Refilled(i)]
    /\ attempt' = [attempt EXCEPT ![c] = i]
    /\ told' = IF told # None /\ told.inc = i THEN None ELSE told
    /\ admitted' = [admitted EXCEPT ![i] = Append(@, now)]
    /\ UNCHANGED <<now, serverVars, session, entered>>

\* Mutant: refused attempts drain the bucket too.
RefuseCounting(c, i) ==
    /\ attempt[c] = None /\ Full(i)
    /\ told' = [inc |-> i, at |-> now]
    /\ tat' = [tat EXCEPT ![i] = Refilled(i)]
    /\ UNCHANGED <<now, serverVars, attempt, session, historyVars>>

\* 429, retry-after: 60.
Refuse(c, i) ==
    /\ attempt[c] = None /\ Full(i)
    /\ told' = [inc |-> i, at |-> now]
    /\ UNCHANGED <<now, serverVars, tat, attempt, session, historyVars>>

\* Mutant: the attempt is forgotten before the session is made from it.
SucceedForgotten(c) ==
    /\ attempt[c] # None
    /\ attempt' = [attempt EXCEPT ![c] = None]
    /\ session' = [session EXCEPT ![c] = [inc |-> attempt'[c], issued |-> now]]
    /\ entered' = TRUE
    /\ UNCHANGED <<now, serverVars, tat, told, admitted>>

\* admin_login_handler, when the form has arrived with the password its
\* incarnation knows: a session of 24 hours.
Succeed(c) ==
    /\ attempt[c] # None
    /\ session' = [session EXCEPT ![c] = [inc |-> attempt[c], issued |-> now]]
    /\ attempt' = [attempt EXCEPT ![c] = None]
    /\ entered' = TRUE
    /\ UNCHANGED <<now, serverVars, tat, told, admitted>>

\* A wrong password, which leaves the cookie alone; a form that cannot be
\* read; a connection that is closed.
Fail(c) ==
    /\ attempt[c] # None
    /\ attempt' = [attempt EXCEPT ![c] = None]
    /\ UNCHANGED <<now, serverVars, tat, session, told, historyVars>>

\* Clears the cookie in the browser; the server keeps no sessions.
Logout(c) ==
    /\ session[c] # None
    /\ session' = [session EXCEPT ![c] = None]
    /\ UNCHANGED <<now, serverVars, tat, attempt, told, historyVars>>

\* verify_admin_token, with which admin_auth_middleware lets a request to a
\* protected route pass.  At the very instant of expiry either answer is
\* possible.
MayEnter(c) == session[c] # None /\ now <= session[c].issued + Day

\* Mutant: the route is merged outside the layer that asks for a session.
AskReloadUnprotected(c) ==
    /\ current + pending < MaxRestarts
    /\ pending' = pending + 1
    /\ UNCHANGED <<now, current, oldest, tat, clientVars, historyVars>>

\* The restart button, a new tunnel secret, a new certificate: protected
\* routes all three, whose handlers leave a task behind that sends the reload
\* signal half a second later.
AskReload(c) ==
    /\ MayEnter(c)
    /\ current + pending < MaxRestarts
    /\ pending' = pending + 1
    /\ UNCHANGED <<now, current, oldest, tat, clientVars, historyVars>>

-----------------------------------------------------------------------------
\* run_admin_server of the next incarnation, with a new limiter.
Start ==
    /\ current < MaxRestarts
    /\ current' = current + 1
    /\ UNCHANGED <<now, tat, session, told, historyVars>>

\* A reload in place: handlers in flight finish in the old incarnation.
\* Signals sent together are one reload.
Reload ==
    /\ pending > 0
    /\ Start
    /\ pending' \in 0..(pending - 1)
    /\ UNCHANGED <<oldest, attempt>>

\* The process is started again: handlers, signals and old limiters are gone.
Crash ==
    /\ Start
    /\ oldest' = current + 1
    /\ pending' = 0
    /\ attempt' = [c \in Clients |-> None]

Tick ==
    /\ now < MaxNow
    /\ now' = now + 1
    /\ UNCHANGED <<serverVars, tat, clientVars, historyVars>>

ClientNext(c) ==
    \/ \E i \in Reached : Admit(c, i) \/ Refuse(c, i)
    \/ Succeed(c) \/ Fail(c) \/ Logout(c) \/ AskReload(c)

ServerNext == Reload \/ Crash \/ Tick

Next == (\E c \in Clients : ClientNext(c)) \/ ServerNext

Spec == Init /\ [][Next]_vars
-----------------------------------------------------------------------------
Times == 0..MaxNow

TypeOK ==
    /\ now \in Times
    /\ current \in Incarnations /\ oldest \in 0..current
    /\ pending \in 0..MaxRestarts
    /\ tat \in [Incarnations -> Nat]
    /\ attempt \in [Clients -> Incarnations \cup {None}]
    /\ session \in [Clients -> [inc : Incarnations, issued : Times] \cup {None}]
    /\ told \in [inc : Incarnations, at : Times] \cup {None}
    /\ admitted \in [Incarnations -> Seq(Times)]
    /\ entered \in BOOLEAN

\* "Allow only 5 login attempts per minute" (rate_limit.rs:45), of one server
\* and every stretch of time: from one attempt to the fifth after it a minute
\* passes, to the sixth two, and so on.  So no server admits six in less than
\* a minute, wherever it begins, nor more in the long run than one a minute.
\* Full and refilled buckets, pauses and several clients make no difference.
LoginWindow == \A i \in Incarnations : \A j, k \in 1..Len(admitted[i]) :
    k - j >= Burst =>
        admitted[i][j] + (k - j - Burst + 1) * Period <= admitted[i][k]

\* The attempts that a server admitted in the period that begins at t, and
\* those that the process's servers did, the one that listens and those with
\* old connections.
AdmittedBy(i, t) ==
    {k \in DOMAIN admitted[i] : admitted[i][k] \in t..(t + Period - 1)}
AdmittedFrom(t) == UNION {{i} \X AdmittedBy(i, t) : i \in oldest..current}

\* The same of the whole process, while nobody has logged in: guessing alone
\* never gets anybody a second bucket, because only those who are logged in
\* get a new limiter made.  (Afterwards a reload brings one, and while old
\* connections last both can be used.)
OutsidersLimited ==
    ~entered => \A t \in Times : Cardinality(AdmittedFrom(t)) <= Burst

\* "Please try again in 1 minute" is true: when the minute is over, that
\* server has room for an attempt, unless it admitted another one meanwhile.
\* Trying again too early costs nothing.
RetryAfterHonest ==
    told # None /\ told.at + Period <= now => ~Full(told.inc)

\* What a bucket holds: what it lacks, it wins back by tat.
Credit(i) == Burst * Period - (IF tat[i] < now THEN 0 ELSE tat[i] - now)

\* Abstractly, whoever tries to log in.
Bucket == INSTANCE TokenBucket WITH
    Servers <- Incarnations,
    clock   <- now,
    credit  <- [i \in Incarnations |-> Credit(i)],
    served  <- [i \in Incarnations |-> Len(admitted[i])],
    refused <- told

\* One time for each bucket, compared and moved on the way governor does it,
\* does what a bucket does that is filled little by little: no attempt is
\* served that the bucket does not hold, none refused that it holds, and
\* nothing but time and attempts changes it, not even a restart.
ImplementsTokenBucket == Bucket!Spec
=============================================================================
