----------------------- MODULE DownloadTrackerProofs -----------------------
(***************************************************************************)
(* The use counts of DownloadTracker are right for every set of tokens,    *)
(* requests and limits, and for every delay of the handlers that the grace *)
(* period of the tracker's entries covers.                                 *)
(***************************************************************************)
EXTENDS DownloadTracker, TLAPS

USE NoneAssumption, LifetimesAssumption, LimitsAssumption, SecAssumption,
    DelayAssumption, BoundsAssumption DEF Trackers

-----------------------------------------------------------------------------
\* num_seconds cuts off less than a second.
LEMMA TruncationLosesLessThanASecond ==
    ASSUME NEW x \in Nat
    PROVE  /\ x - (x % Sec) \in Nat
           /\ x - (x % Sec) > x - Sec
OBVIOUS

\* An entry written for a handler that is at most MaxDelay behind outlives
\* every other such handler: now + Duration lies beyond exp + MaxDelay.
LEMMA EntryOutlivesHandlers ==
    ASSUME NEW t \in Tokens, exp[t] \in Nat, now \in Nat,
           now <= exp[t] + MaxDelay
    PROVE  /\ Duration(t) \in Nat
           /\ now + Duration(t) > exp[t] + MaxDelay
<1> DEFINE left == exp[t] + Grace - now
<1>1. left \in Nat /\ now <= exp[t] + Grace
  OBVIOUS
<1>2. left - (left % Sec) \in Nat /\ left - (left % Sec) > left - Sec
  BY <1>1, TruncationLosesLessThanASecond
<1>3. Duration(t) = left - (left % Sec)
  BY <1>1 DEF Duration
<1> HIDE DEF left
<1>4. left - Sec + now >= exp[t] + MaxDelay
  BY <1>1 DEF left
<1>5. left % Sec \in Nat
  BY <1>1
<1> QED
  BY <1>1, <1>2, <1>3, <1>4, <1>5

\* The invariant holds of a tracker without tokens.
LEMMA InitInductive == Init => Inductive
BY DEF Init, Inductive, TypeOK, RStates, TimelyHandlers, CountsKept,
       MaxUsesRespected, RefusedOnlyWhenUsedUp, Issued

-----------------------------------------------------------------------------
\* The values that counting compares are numbers.
LEMMA Numbers ==
    ASSUME TypeOK, NEW m \in Trackers, NEW t \in Tokens
    PROVE  /\ grants[m][t] \in Nat
           /\ limit[t] # None => limit[t] \in Nat
           /\ exp[t] # None => exp[t] \in Nat
<1>1. grants[m] \in [Tokens -> Nat]
  BY DEF TypeOK
<1>2. grants[m][t] \in Nat
  BY <1>1
<1>3. limit[t] \in Limits \cup {None} /\ exp[t] \in Nat \cup {None}
  BY DEF TypeOK
<1> QED
  BY <1>2, <1>3

\* A handler about to count finds the true count, in time.
LEMMA HandlerSeesItsCount ==
    ASSUME Inductive, NEW r \in Requests, rstate[r] = "verified"
    PROVE  LET m == rtracker[r]
               t == rtoken[r]
           IN  /\ m \in Trackers /\ t \in Tokens
               /\ exp[t] \in Nat /\ limit[t] \in Nat /\ grants[m][t] \in Nat
               /\ now <= exp[t] + MaxDelay
               /\ CurrentUses(m, t) = grants[m][t]
<1> DEFINE m == rtracker[r]
           t == rtoken[r]
<1>1. /\ m \in Trackers /\ t \in Tokens /\ exp[t] # None /\ limit[t] # None
      /\ verified[r] <= exp[t] /\ now <= verified[r] + MaxDelay
  BY DEF Inductive, TypeOK, TimelyHandlers, Issued
<1>2. /\ exp[t] \in Nat /\ limit[t] \in Nat /\ grants[m][t] \in Nat
      /\ verified[r] \in Nat /\ now \in Nat
  <2>1. verified[r] \in Nat /\ now \in Nat
    BY DEF Inductive, TypeOK
  <2> HIDE DEF m, t
  <2> QED
    BY <1>1, <2>1, Numbers DEF Inductive
<1>3. now <= exp[t] + MaxDelay
  BY <1>1, <1>2
<1>4. entry[m][t] \in [uses : Nat, until : Nat]
  BY <1>1 DEF Inductive, TypeOK
<1>5. CurrentUses(m, t) = grants[m][t]
  <2> HIDE DEF m, t
  <2>1. CASE grants[m][t] = 0
    BY <1>1, <1>4, <2>1 DEF Inductive, CountsKept, CurrentUses
  <2>2. CASE grants[m][t] > 0
    <3>1. entry[m][t].uses = grants[m][t] /\ entry[m][t].until > exp[t] + MaxDelay
      BY <1>1, <2>2 DEF Inductive, CountsKept
    <3>2. now < entry[m][t].until
      BY <1>2, <1>3, <1>4, <3>1
    <3> QED
      BY <3>1, <3>2 DEF CurrentUses
  <2> QED
    BY <1>2, <2>1, <2>2
<1> QED
  BY <1>1, <1>2, <1>3, <1>5

\* Every step keeps it.
LEMMA NextInductive == Inductive /\ [Next]_vars => Inductive'
<1> SUFFICES ASSUME Inductive, [Next]_vars PROVE Inductive'
  OBVIOUS
<1> USE DEF Inductive
<1>1. ASSUME NEW t \in Tokens, GenerateToken(t) PROVE Inductive'
  <2> USE <1>1 DEF GenerateToken
  <2>1. PICK s \in Lifetimes : exp' = [exp EXCEPT ![t] = now + s * Sec]
    OBVIOUS
  <2> DEFINE e == now + s * Sec
  <2>2. e \in Nat
    <3>1. now \in Nat /\ s \in Nat /\ Sec \in Nat
      BY DEF TypeOK
    <3>2. s * Sec \in Nat
      BY <3>1
    <3> QED
      BY <3>1, <3>2
  <2> HIDE DEF e
  <2>3. TypeOK'
    <3>1. exp' \in [Tokens -> Nat \cup {None}]
      BY <2>1, <2>2 DEF TypeOK, e
    <3>2. limit' \in [Tokens -> Limits \cup {None}]
      BY DEF TypeOK
    <3> QED
      BY <3>1, <3>2 DEF TypeOK, requestVars
  <2>4. TimelyHandlers'
    BY <2>1, <2>2 DEF TypeOK, TimelyHandlers, requestVars, Issued, e
  <2>5. CountsKept'
    <3>1. exp[t] = None /\ UNCHANGED <<entry, grants>>
      BY DEF Issued
    <3>2. exp'[t] # None /\ \A v \in Tokens : v # t => exp'[v] = exp[v] /\ limit'[v] = limit[v]
      BY <2>1, <2>2 DEF TypeOK, e
    <3> SUFFICES ASSUME NEW m \in Trackers, NEW v \in Tokens
                 PROVE  /\ exp'[v] = None => limit'[v] = None
                        /\ grants[m][v] = 0 => entry[m][v].uses = 0
                        /\ grants[m][v] > 0 =>
                             /\ exp'[v] # None
                             /\ entry[m][v].uses = grants[m][v]
                             /\ entry[m][v].until > exp'[v] + MaxDelay
      BY <3>1 DEF CountsKept, Issued
    <3>3. /\ exp[v] = None => limit[v] = None
          /\ grants[m][v] = 0 => entry[m][v].uses = 0
          /\ grants[m][v] > 0 =>
               /\ exp[v] # None
               /\ entry[m][v].uses = grants[m][v]
               /\ entry[m][v].until > exp[v] + MaxDelay
      BY DEF CountsKept, Issued
    <3>4. CASE v = t
      BY <3>1, <3>2, <3>3, <3>4
    <3>5. CASE v # t
      <4>1. exp'[v] = exp[v] /\ limit'[v] = limit[v]
        BY <3>2, <3>5
      <4> QED
        BY <3>3, <4>1
    <3> QED
      BY <3>4, <3>5
  <2>6. MaxUsesRespected'
    <3>1. \A m \in Trackers : grants[m][t] = 0
      BY DEF TypeOK, CountsKept
    <3>2. \A n \in Limits \cup {None} : n # None => n \in Nat
      OBVIOUS
    <3>3. limit'[t] \in Limits \cup {None}
      BY DEF TypeOK
    <3>4. \A v \in Tokens : v # t => limit'[v] = limit[v]
      BY DEF TypeOK
    <3>5. grants' = grants
      OBVIOUS
    <3> SUFFICES ASSUME NEW m \in Trackers, NEW v \in Tokens, limit'[v] # None
                 PROVE  grants[m][v] <= limit'[v]
      BY <3>5 DEF MaxUsesRespected
    <3>6. CASE v = t
      <4>1. limit'[t] \in Nat /\ grants[m][t] = 0
        BY <3>1, <3>2, <3>3, <3>6
      <4> QED
        BY <3>6, <4>1
    <3>7. CASE v # t
      <4>1. limit'[v] = limit[v] /\ grants[m][v] <= limit[v]
        BY <3>4, <3>7 DEF MaxUsesRespected
      <4> QED
        BY <4>1
    <3> QED
      BY <3>6, <3>7
  <2>7. RefusedOnlyWhenUsedUp'
    BY DEF TypeOK, TimelyHandlers, RefusedOnlyWhenUsedUp, requestVars, Issued
  <2> QED
    BY <2>3, <2>4, <2>5, <2>6, <2>7
<1>2. ASSUME NEW r \in Requests, VerifyToken(r) PROVE Inductive'
  <2> USE DEF tokenVars
  <2>0. PICK t \in Tokens, s \in {"verified", "served", "expired"} :
          /\ Issued(t)
          /\ rtoken' = [rtoken EXCEPT ![r] = t]
          /\ rstate' = [rstate EXCEPT ![r] = s]
          /\ s = "verified" => now <= exp[t] /\ limit[t] # None
          /\ rtracker' = [rtracker EXCEPT ![r] = current]
          /\ verified' = [verified EXCEPT ![r] = now]
          /\ UNCHANGED <<now, current, tokenVars, entry, grants>>
    BY <1>2 DEF VerifyToken
  <2>1. TypeOK'
    BY <2>0 DEF TypeOK, RStates
  <2>2. TimelyHandlers'
    <3> SUFFICES ASSUME NEW q \in Requests, rstate'[q] \in {"verified", "refused"}
                 PROVE  /\ rtoken'[q] \in Tokens
                        /\ Issued(rtoken'[q])
                        /\ limit[rtoken'[q]] # None
                        /\ rstate'[q] = "verified" =>
                             /\ verified'[q] <= exp[rtoken'[q]]
                             /\ now <= verified'[q] + MaxDelay
      BY <2>0 DEF TimelyHandlers, Issued
    <3>1. CASE q = r
      <4>1. rtoken'[r] = t /\ rstate'[r] = s /\ verified'[r] = now /\ now \in Nat
        BY <2>0 DEF TypeOK
      <4> QED
        BY <2>0, <3>1, <4>1
    <3>2. CASE q # r
      <4>1. rtoken'[q] = rtoken[q] /\ rstate'[q] = rstate[q] /\ verified'[q] = verified[q]
        BY <2>0, <3>2 DEF TypeOK
      <4> QED
        BY <4>1 DEF TimelyHandlers
    <3> QED
      BY <3>1, <3>2
  <2>3. CountsKept' /\ MaxUsesRespected'
    BY <2>0 DEF CountsKept, MaxUsesRespected, Issued
  <2>4. RefusedOnlyWhenUsedUp'
    BY <2>0 DEF TypeOK, RefusedOnlyWhenUsedUp
  <2> QED
    BY <2>1, <2>2, <2>3, <2>4
<1>3. ASSUME NEW r \in Requests, RefuseUse(r) PROVE Inductive'
  <2> USE <1>3 DEF RefuseUse, tokenVars
  <2>1. TypeOK'
    BY DEF TypeOK, RStates
  <2>2. TimelyHandlers'
    BY DEF TypeOK, TimelyHandlers, Issued
  <2>3. CountsKept' /\ MaxUsesRespected'
    BY DEF CountsKept, MaxUsesRespected, Issued
  <2>4. grants[rtracker[r]][rtoken[r]] >= limit[rtoken[r]]
    BY HandlerSeesItsCount
  <2>5. RefusedOnlyWhenUsedUp'
    BY <2>4 DEF TypeOK, RefusedOnlyWhenUsedUp
  <2> QED
    BY <2>1, <2>2, <2>3, <2>5
<1>4. ASSUME NEW r \in Requests, TakeUse(r) PROVE Inductive'
  <2> DEFINE m == rtracker[r]
             t == rtoken[r]
  <2>1. /\ rstate[r] = "verified"
        /\ CurrentUses(m, t) < limit[t]
        /\ entry' = [entry EXCEPT ![m][t] = [uses  |-> CurrentUses(m, t) + 1,
                                             until |-> now + Duration(t)]]
        /\ rstate' = [rstate EXCEPT ![r] = "served"]
        /\ grants' = [grants EXCEPT ![m][t] = @ + 1]
        /\ UNCHANGED <<now, current, exp, limit, rtoken, rtracker, verified>>
    BY <1>4 DEF TakeUse, tokenVars
  <2>2. /\ m \in Trackers /\ t \in Tokens /\ exp[t] \in Nat /\ limit[t] \in Nat
        /\ grants[m][t] \in Nat /\ now \in Nat /\ now <= exp[t] + MaxDelay
    <3>1. m \in Trackers /\ now \in Nat
      BY DEF TypeOK
    <3> QED
      BY <2>1, <3>1, HandlerSeesItsCount
  <2>3. CurrentUses(m, t) = grants[m][t]
    BY <2>1, HandlerSeesItsCount
  <2>4. Duration(t) \in Nat /\ now + Duration(t) > exp[t] + MaxDelay
    BY <2>2, EntryOutlivesHandlers
  <2> HIDE DEF m, t
  <2>5. TypeOK'
    <3>1. entry' \in [Trackers -> [Tokens -> [uses : Nat, until : Nat]]]
      <4> DEFINE e == [uses  |-> CurrentUses(m, t) + 1, until |-> now + Duration(t)]
      <4>1. e \in [uses : Nat, until : Nat]
        BY <2>2, <2>3, <2>4
      <4> HIDE DEF e
      <4>2. entry' = [entry EXCEPT ![m][t] = e]
        BY <2>1 DEF e
      <4> QED
        BY <2>2, <4>1, <4>2 DEF TypeOK
    <3>2. grants' \in [Trackers -> [Tokens -> Nat]]
      <4> DEFINE g == grants[m][t] + 1
      <4>1. g \in Nat
        BY <2>2
      <4>2. grants \in [Trackers -> [Tokens -> Nat]]
        BY DEF TypeOK
      <4>3. grants' = [grants EXCEPT ![m][t] = g]
        BY <2>1
      <4> HIDE DEF g
      <4> QED
        BY <2>2, <4>1, <4>2, <4>3
    <3>3. rstate' \in [Requests -> RStates]
      BY <2>1 DEF TypeOK, RStates
    <3> QED
      BY <2>1, <3>1, <3>2, <3>3 DEF TypeOK
  <2>6. TimelyHandlers'
    BY <2>1 DEF TypeOK, TimelyHandlers, Issued
  <2>7. /\ entry'[m][t] = [uses |-> grants[m][t] + 1, until |-> now + Duration(t)]
        /\ grants'[m][t] = grants[m][t] + 1
        /\ \A n \in Trackers, v \in Tokens : n # m \/ v # t =>
             entry'[n][v] = entry[n][v] /\ grants'[n][v] = grants[n][v]
    BY <2>1, <2>2, <2>3 DEF TypeOK
  <2>8. CountsKept'
    BY <2>1, <2>2, <2>4, <2>7 DEF CountsKept, Issued
  <2>9. MaxUsesRespected'
    BY <2>1, <2>2, <2>3, <2>7 DEF MaxUsesRespected
  <2>10. RefusedOnlyWhenUsedUp'
    <3> SUFFICES ASSUME NEW q \in Requests, rstate'[q] = "refused"
                 PROVE  grants'[rtracker[q]][rtoken[q]] >= limit[rtoken[q]]
      BY <2>1 DEF RefusedOnlyWhenUsedUp
    <3>1. rstate[q] = "refused"
      BY <2>1 DEF TypeOK
    <3>2. /\ rtracker[q] \in Trackers /\ rtoken[q] \in Tokens
          /\ limit[rtoken[q]] # None
          /\ grants[rtracker[q]][rtoken[q]] >= limit[rtoken[q]]
      BY <3>1 DEF TypeOK, TimelyHandlers, RefusedOnlyWhenUsedUp
    <3>3. limit[rtoken[q]] \in Nat /\ grants[rtracker[q]][rtoken[q]] \in Nat
      BY <3>2, Numbers
    <3> QED
      BY <2>2, <2>7, <3>2, <3>3
  <2> QED
    BY <2>5, <2>6, <2>8, <2>9, <2>10
<1>5. ASSUME Crash PROVE Inductive'
  <2> USE <1>5 DEF Crash, tokenVars
  <2>1. TypeOK'
    BY DEF TypeOK, RStates
  <2>2. TimelyHandlers' /\ RefusedOnlyWhenUsedUp'
    BY DEF TypeOK, TimelyHandlers, RefusedOnlyWhenUsedUp, Issued
  <2>3. CountsKept' /\ MaxUsesRespected'
    BY DEF CountsKept, MaxUsesRespected, Issued
  <2> QED
    BY <2>1, <2>2, <2>3
<1>6. ASSUME RunServer PROVE Inductive'
  BY <1>6 DEF RunServer, requestVars, tokenVars, TypeOK, TimelyHandlers,
              CountsKept, MaxUsesRespected, RefusedOnlyWhenUsedUp, Issued
<1>7. ASSUME Tick PROVE Inductive'
  <2> USE <1>7 DEF Tick, requestVars, tokenVars
  <2>1. TypeOK'
    BY DEF TypeOK
  <2>2. TimelyHandlers'
    BY DEF TypeOK, TimelyHandlers, Issued
  <2>3. CountsKept' /\ MaxUsesRespected' /\ RefusedOnlyWhenUsedUp'
    BY DEF CountsKept, MaxUsesRespected, RefusedOnlyWhenUsedUp, Issued
  <2> QED
    BY <2>1, <2>2, <2>3
<1>8. CASE UNCHANGED vars
  BY <1>8 DEF vars, requestVars, tokenVars, TypeOK, TimelyHandlers,
              CountsKept, MaxUsesRespected, RefusedOnlyWhenUsedUp, Issued
<1> QED
  BY <1>1, <1>2, <1>3, <1>4, <1>5, <1>6, <1>7, <1>8 DEF Next

-----------------------------------------------------------------------------
\* The counts, and the age of every handler that reads them, stay as the
\* tracker needs them.
THEOREM TrackerInductive == Spec => []Inductive
BY InitInductive, NextInductive, PTL DEF Spec

\* No incarnation of the server grants a token more uses than it allows, as
\* long as its handlers count within Grace - Sec of verifying.
THEOREM UsesBounded == Spec => []MaxUsesRespected
<1>1. Inductive => MaxUsesRespected
  BY DEF Inductive
<1> QED
  BY <1>1, TrackerInductive, PTL

\* Whoever is refused for want of uses came after all of them were granted.
THEOREM RefusalsJustified == Spec => []RefusedOnlyWhenUsedUp
<1>1. Inductive => RefusedOnlyWhenUsedUp
  BY DEF Inductive
<1> QED
  BY <1>1, TrackerInductive, PTL

\* Every count, lifetime and token a handler stores is of its type, however
\* often the entries of a tracker are written and expire.
THEOREM TrackerTypeCorrect == Spec => []TypeOK
<1>1. Inductive => TypeOK
  BY DEF Inductive
<1> QED
  BY <1>1, TrackerInductive, PTL

-----------------------------------------------------------------------------
(* The counter that never forgets.                                         *)

counters == [m \in Trackers |-> [t \in Tokens |-> Left(m, t)]]
Asked(r) == IF rstate[r] = "idle" THEN None ELSE <<rtracker[r], rtoken[r]>>
requests == [r \in Requests |-> Asked(r)]

\* A table of which one cell has changed.
LEMMA TableUpdate ==
    ASSUME NEW A, NEW B, NEW V, NEW f \in [A -> [B -> V]], NEW g \in [A -> [B -> V]],
           NEW a \in A, NEW b \in B, NEW k, g[a][b] = k,
           \A x \in A, y \in B : x # a \/ y # b => g[x][y] = f[x][y]
    PROVE  g = [f EXCEPT ![a][b] = k]
<1>1. g[a] = [f[a] EXCEPT ![b] = k]
  OBVIOUS
<1>2. \A x \in A : x # a => g[x] = f[x]
  <2> SUFFICES ASSUME NEW x \in A, x # a PROVE g[x] = f[x]
    OBVIOUS
  <2>1. g[x] \in [B -> V] /\ f[x] \in [B -> V] /\ \A y \in B : g[x][y] = f[x][y]
    OBVIOUS
  <2> QED
    BY <2>1
<1> QED
  BY <1>1, <1>2

\* A step in which limits and grants stay leaves the counters alone.
LEMMA SameCounters ==
    ASSUME UNCHANGED <<limit, grants>>
    PROVE  counters' = counters
BY DEF counters, Left

\* A request that has asked goes on asking for the same.
LEMMA SameRequests ==
    ASSUME UNCHANGED <<rtracker, rtoken>>,
           \A r \in Requests : rstate'[r] = "idle" <=> rstate[r] = "idle"
    PROVE  requests' = requests
BY DEF requests, Asked

\* A new limit begins with all its uses.
LEMMA GenerateLimits ==
    ASSUME Inductive, NEW t \in Tokens, GenerateToken(t)
    PROVE  Counter!Next \/ UNCHANGED Counter!counterVars
<1>1. PICK n \in Limits \cup {None} : limit' = [limit EXCEPT ![t] = n]
  BY DEF GenerateToken
<1>2. UNCHANGED <<rstate, rtoken, rtracker, grants>> /\ ~Issued(t)
  BY DEF GenerateToken, requestVars
<1>3. limit[t] = None /\ \A m \in Trackers : grants[m][t] = 0
  BY <1>2 DEF Inductive, TypeOK, CountsKept
<1>4. requests' = requests
  BY <1>2, SameRequests
<1>5. CASE n = None
  <2>1. limit' = limit
    BY <1>1, <1>3, <1>5 DEF Inductive, TypeOK
  <2>2. counters' = counters
    BY <1>2, <2>1, SameCounters
  <2> QED
    BY <1>2, <1>4, <2>2 DEF Counter!counterVars, counters, requests, Asked
<1>6. CASE n # None
  <2>1. n \in Limits /\ n \in Nat
    BY <1>6
  <2>2. ASSUME NEW m \in Trackers
        PROVE  [v \in Tokens |-> Left(m, v)]' = [counters[m] EXCEPT ![t] = n]
    <3>1. ASSUME NEW v \in Tokens
          PROVE  Left(m, v)' = IF v = t THEN n ELSE Left(m, v)
      <4>1. CASE v = t
        <5>1. limit'[t] = n /\ grants'[m][t] = 0
          BY <1>1, <1>2, <1>3 DEF Inductive, TypeOK
        <5>2. Left(m, t)' = n - 0
          BY <1>6, <5>1 DEF Left
        <5> QED
          BY <2>1, <4>1, <5>2
      <4>2. CASE v # t
        BY <1>1, <1>2, <4>2 DEF Inductive, TypeOK, Left
      <4> QED
        BY <4>1, <4>2
    <3>2. counters[m] = [v \in Tokens |-> Left(m, v)]
      BY DEF counters
    <3> QED
      BY <3>1, <3>2
  <2>3. counters' = [m \in Trackers |-> [counters[m] EXCEPT ![t] = n]]
    BY <2>2 DEF counters
  <2>4. \A m \in Trackers : counters[m][t] = None
    BY <1>3 DEF counters, Left
  <2>5. Counter!Limit(t, n)
    BY <1>2, <1>4, <2>3, <2>4 DEF Counter!Limit, counters, requests, Asked
  <2> QED
    BY <2>1, <2>5 DEF Counter!Next
<1> QED
  BY <1>5, <1>6

\* A verified request asks the server it reached.
LEMMA VerifyAsks ==
    ASSUME Inductive, NEW r \in Requests, VerifyToken(r)
    PROVE  Counter!Next
<1>1. PICK t \in Tokens :
        /\ rtoken' = [rtoken EXCEPT ![r] = t]
        /\ \/ rstate' = [rstate EXCEPT ![r] =
                            IF limit[t] = None THEN "served" ELSE "verified"]
           \/ rstate' = [rstate EXCEPT ![r] = "expired"]
  BY DEF VerifyToken
<1>2. /\ rstate[r] = "idle" /\ rtracker' = [rtracker EXCEPT ![r] = current]
      /\ UNCHANGED <<limit, grants>>
  BY DEF VerifyToken, tokenVars
<1>3. current \in Trackers
  BY DEF Inductive, TypeOK
<1>4. counters' = counters
  BY <1>2, SameCounters
<1>5. ASSUME NEW q \in Requests
      PROVE  Asked(q)' = IF q = r THEN <<current, t>> ELSE Asked(q)
  <2>1. CASE q = r
    <3>1. rstate'[r] # "idle" /\ rtracker'[r] = current /\ rtoken'[r] = t
      BY <1>1, <1>2 DEF Inductive, TypeOK
    <3> QED
      BY <2>1, <3>1 DEF Asked
  <2>2. CASE q # r
    BY <1>1, <1>2, <2>2 DEF Inductive, TypeOK, Asked
  <2> QED
    BY <2>1, <2>2
<1>6. requests' = [requests EXCEPT ![r] = <<current, t>>]
  BY <1>5 DEF requests
<1>7. (limit[t] = None) = (counters[current][t] = None)
  <2>1. counters[current][t] = Left(current, t)
    BY <1>3 DEF counters
  <2>2. limit[t] # None => limit[t] - grants[current][t] \in Nat
    <3>1. limit[t] # None => grants[current][t] <= limit[t]
      BY <1>3 DEF Inductive, MaxUsesRespected
    <3>2. grants[current][t] \in Nat /\ (limit[t] # None => limit[t] \in Nat)
      BY <1>3, Numbers DEF Inductive
    <3> QED
      BY <3>1, <3>2
  <2> QED
    BY <2>1, <2>2 DEF Left
<1>8. Counter!Ask(r, current, t)
  BY <1>1, <1>2, <1>4, <1>6, <1>7 DEF Counter!Ask, counters, requests, Asked
<1> QED
  BY <1>3, <1>8 DEF Counter!Next

\* What a handler finds in the map is what the counter says.
LEMMA HandlerSeesCounter ==
    ASSUME Inductive, NEW r \in Requests, rstate[r] = "verified"
    PROVE  LET m == rtracker[r]
               t == rtoken[r]
           IN  /\ m \in Trackers /\ t \in Tokens
               /\ Asked(r) = <<m, t>> /\ counters[m][t] = limit[t] - grants[m][t]
               /\ limit[t] \in Nat /\ grants[m][t] \in Nat
               /\ grants[m][t] <= limit[t]
               /\ CurrentUses(m, t) = grants[m][t]
<1> DEFINE m == rtracker[r]
           t == rtoken[r]
<1>1. /\ m \in Trackers /\ t \in Tokens
      /\ limit[t] \in Nat /\ grants[m][t] \in Nat
      /\ CurrentUses(m, t) = grants[m][t]
  BY HandlerSeesItsCount
<1>2. limit[t] # None
  BY <1>1
<1>3. grants[m][t] <= limit[t]
  BY <1>1, <1>2 DEF Inductive, MaxUsesRespected
<1>4. Asked(r) = <<m, t>>
  BY DEF Asked
<1>5. counters[m][t] = limit[t] - grants[m][t]
  BY <1>1, <1>2 DEF counters, Left
<1> QED
  BY <1>1, <1>3, <1>4, <1>5

\* A refusal is one of a counter with nothing left.
LEMMA RefuseRefuses ==
    ASSUME Inductive, NEW r \in Requests, RefuseUse(r)
    PROVE  Counter!Next
<1> DEFINE m == rtracker[r]
           t == rtoken[r]
<1>1. /\ rstate[r] = "verified" /\ CurrentUses(m, t) >= limit[t]
      /\ rstate' = [rstate EXCEPT ![r] = "refused"]
      /\ UNCHANGED <<limit, grants, rtracker, rtoken>>
  BY DEF RefuseUse, tokenVars
<1>2. /\ m \in Trackers /\ t \in Tokens
      /\ Asked(r) = <<m, t>> /\ counters[m][t] = limit[t] - grants[m][t]
      /\ limit[t] \in Nat /\ grants[m][t] \in Nat
      /\ grants[m][t] <= limit[t] /\ CurrentUses(m, t) = grants[m][t]
  BY <1>1, HandlerSeesCounter
<1> HIDE DEF m, t
<1>3. counters[m][t] = 0
  BY <1>1, <1>2
<1>4. counters' = counters
  BY <1>1, SameCounters
<1>5. requests' = requests
  BY <1>1, SameRequests DEF Inductive, TypeOK
<1>6. requests[r] = <<m, t>>
  BY <1>2 DEF requests
<1>7. Counter!Refuse(r, m, t)
  BY <1>1, <1>3, <1>4, <1>5, <1>6 DEF Counter!Refuse, counters, requests, Asked
<1> QED
  BY <1>2, <1>7 DEF Counter!Next

\* A use taken is one of a counter that has one left.
LEMMA TakeRedeems ==
    ASSUME Inductive, NEW r \in Requests, TakeUse(r)
    PROVE  Counter!Next
<1>0. PICK m \in Trackers, t \in Tokens : m = rtracker[r] /\ t = rtoken[r]
  BY HandlerSeesCounter DEF TakeUse
<1>1. /\ rstate[r] = "verified" /\ CurrentUses(m, t) < limit[t]
      /\ rstate' = [rstate EXCEPT ![r] = "served"]
      /\ grants' = [grants EXCEPT ![m][t] = @ + 1]
      /\ UNCHANGED <<limit, rtracker, rtoken>>
  BY <1>0 DEF TakeUse, tokenVars
<1>2. /\ m \in Trackers /\ t \in Tokens
      /\ Asked(r) = <<m, t>> /\ counters[m][t] = limit[t] - grants[m][t]
      /\ limit[t] \in Nat /\ grants[m][t] \in Nat
      /\ grants[m][t] <= limit[t] /\ CurrentUses(m, t) = grants[m][t]
  BY <1>0, <1>1, HandlerSeesCounter
<1>3. counters[m][t] > 0
  BY <1>1, <1>2
<1>4. /\ grants'[m][t] = grants[m][t] + 1
      /\ \A n \in Trackers, v \in Tokens : n # m \/ v # t => grants'[n][v] = grants[n][v]
  BY <1>1, <1>2 DEF Inductive, TypeOK
<1>5. Left(m, t)' = counters[m][t] - 1
  <2>1. Left(m, t)' = limit[t] - (grants[m][t] + 1)
    BY <1>1, <1>2, <1>4 DEF Left
  <2> QED
    BY <1>2, <2>1
<1>6. \A n \in Trackers, v \in Tokens : n # m \/ v # t => Left(n, v)' = counters[n][v]
  BY <1>1, <1>4 DEF Left, counters
<1>7. counters' = [counters EXCEPT ![m][t] = counters[m][t] - 1]
  <2> DEFINE k == counters[m][t] - 1
             V == {Left(n, v) : n \in Trackers, v \in Tokens}
                    \cup {Left(n, v)' : n \in Trackers, v \in Tokens}
  <2>1. /\ counters \in [Trackers -> [Tokens -> V]]
        /\ counters' \in [Trackers -> [Tokens -> V]]
    BY DEF counters
  <2>2. counters'[m][t] = k
    BY <1>5 DEF counters
  <2>3. \A n \in Trackers, v \in Tokens :
          n # m \/ v # t => counters'[n][v] = counters[n][v]
    BY <1>6 DEF counters
  <2> HIDE DEF k, V
  <2>4. counters' = [counters EXCEPT ![m][t] = k]
    BY <2>1, <2>2, <2>3, TableUpdate
  <2> QED
    BY <2>4 DEF k
<1>8. requests' = requests
  BY <1>1, SameRequests DEF Inductive, TypeOK
<1>9. requests[r] = <<m, t>>
  BY <1>2 DEF requests
<1>10. Counter!Redeem(r, m, t)
  BY <1>1, <1>3, <1>7, <1>8, <1>9 DEF Counter!Redeem, counters, requests, Asked
<1> QED
  BY <1>2, <1>10 DEF Counter!Next

\* No token is limited at first.
LEMMA InitCounter == Init => Counter!Init
BY DEF Init, Counter!Init, Left

\* Every step is one of the counters or leaves them alone.
LEMMA NextCounter == Inductive /\ [Next]_vars => [Counter!Next]_(Counter!counterVars)
<1> SUFFICES ASSUME Inductive, [Next]_vars
             PROVE  Counter!Next \/ UNCHANGED Counter!counterVars
  OBVIOUS
<1>1. ASSUME NEW t \in Tokens, GenerateToken(t)
      PROVE  Counter!Next \/ UNCHANGED Counter!counterVars
  BY <1>1, GenerateLimits
<1>2. ASSUME NEW r \in Requests, VerifyToken(r) \/ RefuseUse(r) \/ TakeUse(r)
      PROVE  Counter!Next
  BY <1>2, VerifyAsks, RefuseRefuses, TakeRedeems
<1>3. ASSUME Crash
      PROVE  Counter!Next
  <2>1. /\ rstate' = [r \in Requests |->
                        IF rstate[r] = "verified" THEN "reset" ELSE rstate[r]]
        /\ UNCHANGED <<limit, grants, rtracker, rtoken>>
    BY <1>3 DEF Crash, tokenVars
  <2>2. counters' = counters /\ requests' = requests
    BY <2>1, SameCounters, SameRequests
  <2>3. Counter!Reset
    BY <2>1, <2>2 DEF Counter!Reset, counters, requests, Asked
  <2> QED
    BY <2>3 DEF Counter!Next
<1>4. ASSUME RunServer \/ Tick \/ UNCHANGED vars
      PROVE  UNCHANGED Counter!counterVars
  <2>1. UNCHANGED <<limit, grants, rstate, rtracker, rtoken>>
    BY <1>4 DEF RunServer, Tick, vars, tokenVars, requestVars
  <2>2. counters' = counters /\ requests' = requests
    BY <2>1, SameCounters, SameRequests
  <2> QED
    BY <2>1, <2>2 DEF Counter!counterVars, counters, requests, Asked
<1> QED
  BY <1>1, <1>2, <1>3, <1>4 DEF Next

\* The download tracker, with entries that expire, whole seconds and handlers
\* that lag, is a counter that never forgets: within one incarnation a request
\* is served exactly when a use is left.
THEOREM TrackerImplementsUseCounter == Spec => ImplementsUseCounter
BY InitCounter, NextCounter, TrackerInductive, PTL
   DEF Spec, ImplementsUseCounter, Counter!Spec
=============================================================================
