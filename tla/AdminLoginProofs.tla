-------------------------- MODULE AdminLoginProofs --------------------------
(***************************************************************************)
(* What holds of logging in for every burst, period, session life and      *)
(* number of clients and restarts.                                         *)
(*                                                                         *)
(* The limiter keeps one time, tat, and no list of attempts.  LoginWindow  *)
(* speaks of the list, so the invariant ties the two together: with every  *)
(* attempt tat moves a period on, and so it is ahead of an attempt by a    *)
(* period for that attempt and each one since.                             *)
(***************************************************************************)
EXTENDS AdminLogin, FiniteSetTheorems, TLAPS

Span(n) == n * Period

\* tat is ahead of each attempt by a period for it and each one since.
Ahead == \A i \in Incarnations : \A k \in 1..Len(admitted[i]) :
    /\ admitted[i][k] <= now
    /\ admitted[i][k] + Span(Len(admitted[i]) - k + 1) <= tat[i]

\* A bucket is full again in Burst periods at the latest.
NeverFarAhead == \A i \in Incarnations : tat[i] <= now + Span(Burst)

\* As long as the refused server admits nobody, its bucket is not drained.
ToldInv == told # None => tat[told.inc] <= told.at + Span(Burst)

\* Until somebody logs in there are no sessions, so nobody asks for a reload,
\* and the process has the one server it began with.
OutsideInv == ~entered => /\ \A c \in Clients : session[c] = None
                          /\ pending = 0
                          /\ oldest = current

LimiterInv == Ahead /\ NeverFarAhead /\ ToldInv /\ LoginWindow

-----------------------------------------------------------------------------
(* Arithmetic of periods.                                                  *)

\* One period more.
LEMMA SpanStep ==
    ASSUME NEW n \in Nat
    PROVE  Span(n) \in Nat /\ Span(n + 1) = Span(n) + Period
<1>1. Period \in Nat
  BY LimiterAssumption
<1>2. (n + 1) * Period = n * Period + Period
  BY <1>1, SMT
<1>3. n * Period \in Nat
  BY <1>1, SMT
<1> QED
  BY <1>2, <1>3 DEF Span

\* The tolerance is a period short of the burst.
LEMMA ToleranceSpan ==
    /\ Tolerance \in Nat /\ Span(Burst) \in Nat /\ Period \in Nat \ {0}
    /\ Span(Burst) = Tolerance + Period
    /\ Span(1) = Period
<1>1. Burst \in Nat \ {0} /\ Period \in Nat \ {0}
  BY LimiterAssumption
<1>2. Burst - 1 \in Nat /\ (Burst - 1) + 1 = Burst
  BY <1>1, SMT
<1>3. Span(Burst - 1) \in Nat /\ Span((Burst - 1) + 1) = Span(Burst - 1) + Period
  BY <1>2, SpanStep
<1>4. Tolerance = Span(Burst - 1)
  BY DEF Tolerance, Span
<1>5. Span(Burst) \in Nat
  BY <1>1, SpanStep
<1>6. Span(1) = Period
  BY <1>1, SMT DEF Span
<1> QED
  BY <1>1, <1>2, <1>3, <1>4, <1>5, <1>6

\* Periods add up.
LEMMA SpanSum ==
    ASSUME NEW m \in Nat, NEW n \in Nat
    PROVE  Span(m + n) = Span(m) + Span(n)
<1>1. Period \in Nat
  BY LimiterAssumption
<1>2. (m + n) * Period = m * Period + n * Period
  BY <1>1, SMT
<1> QED
  BY <1>2 DEF Span

-----------------------------------------------------------------------------
\* A request reaches only incarnations that there have been.
LEMMA ReachedTyped ==
    ASSUME TypeOK
    PROVE  Reached \subseteq Incarnations
<1>1. current \in 0..MaxRestarts /\ oldest \in 0..current /\ MaxRestarts \in Nat
  BY BoundsAssumption DEF TypeOK, Incarnations
<1> QED
  BY <1>1 DEF Reached, Incarnations

\* What an admitted attempt does to the sequence of admissions.
LEMMA AdmitAppends ==
    ASSUME TypeOK, NEW c \in Clients, NEW i \in Incarnations, Admit(c, i)
    PROVE  /\ admitted' = [admitted EXCEPT ![i] = Append(admitted[i], now)]
           /\ Len(admitted'[i]) = Len(admitted[i]) + 1
           /\ admitted'[i][Len(admitted[i]) + 1] = now
           /\ \A k \in 1..Len(admitted[i]) : admitted'[i][k] = admitted[i][k]
           /\ \A j \in Incarnations \ {i} : admitted'[j] = admitted[j]
           /\ Len(admitted[i]) \in Nat
<1>1. admitted[i] \in Seq(Times) /\ now \in Times
  BY DEF TypeOK
<1>2. admitted' = [admitted EXCEPT ![i] = Append(admitted[i], now)]
  BY DEF Admit
<1>3. /\ admitted'[i] = Append(admitted[i], now)
      /\ \A j \in Incarnations \ {i} : admitted'[j] = admitted[j]
  BY <1>2 DEF TypeOK
<1> QED
  BY <1>1, <1>2, <1>3

\* The admission times and the clock are numbers.
LEMMA TimesTyped ==
    ASSUME TypeOK
    PROVE  /\ now \in Nat
           /\ \A i \in Incarnations : /\ tat[i] \in Nat
                                      /\ Len(admitted[i]) \in Nat
                                      /\ \A k \in 1..Len(admitted[i]) :
                                           admitted[i][k] \in Nat
<1>1. Times \subseteq Nat
  BY BoundsAssumption DEF Times
<1>2. ASSUME NEW i \in Incarnations
      PROVE  admitted[i] \in Seq(Times) /\ tat[i] \in Nat
  BY DEF TypeOK
<1>3. ASSUME NEW i \in Incarnations
      PROVE  /\ Len(admitted[i]) \in Nat
             /\ \A k \in 1..Len(admitted[i]) : admitted[i][k] \in Nat
  <2>1. Len(admitted[i]) \in Nat
    BY <1>2
  <2>2. ASSUME NEW k \in 1..Len(admitted[i])
        PROVE  admitted[i][k] \in Times
    BY <1>2
  <2> QED
    BY <1>1, <2>1, <2>2
<1>4. now \in Nat
  BY <1>1 DEF TypeOK
<1> QED
  BY <1>2, <1>3, <1>4

-----------------------------------------------------------------------------
(* Types.                                                                  *)

\* A server begins with typed values.
LEMMA InitTyped == Init => TypeOK
<1>1. 0 \in Times /\ 0 \in Incarnations
  BY BoundsAssumption DEF Times, Incarnations
<1> QED
  BY <1>1 DEF Init, TypeOK

\* Every step keeps the types.
LEMMA StepTyped == TypeOK /\ [Next]_vars => TypeOK'
<1> SUFFICES ASSUME TypeOK, [Next]_vars
             PROVE  TypeOK'
  OBVIOUS
<1>1. ASSUME NEW c \in Clients, NEW i \in Reached, Admit(c, i)
      PROVE  TypeOK'
  <2>1. i \in Incarnations
    BY ReachedTyped
  <2>2. Refilled(i) \in Nat
    BY <2>1, TimesTyped, LimiterAssumption DEF Refilled
  <2>3. tat' \in [Incarnations -> Nat]
    BY <1>1, <2>1, <2>2 DEF Admit, TypeOK
  <2>4. admitted' \in [Incarnations -> Seq(Times)]
    BY <1>1, <2>1 DEF Admit, TypeOK
  <2>5. attempt' \in [Clients -> Incarnations \cup {None}]
    BY <1>1, <2>1 DEF Admit, TypeOK
  <2>6. told' \in [inc : Incarnations, at : Times] \cup {None}
    BY <1>1 DEF Admit, TypeOK
  <2> QED
    BY <1>1, <2>3, <2>4, <2>5, <2>6 DEF Admit, TypeOK, serverVars
<1>2. ASSUME NEW c \in Clients, NEW i \in Reached, Refuse(c, i)
      PROVE  TypeOK'
  <2>1. i \in Incarnations
    BY ReachedTyped
  <2>2. told' \in [inc : Incarnations, at : Times] \cup {None}
    BY <1>2, <2>1 DEF Refuse, TypeOK
  <2> QED
    BY <1>2, <2>2 DEF Refuse, TypeOK, serverVars, historyVars
<1>3. ASSUME NEW c \in Clients, Succeed(c)
      PROVE  TypeOK'
  <2>1. attempt[c] \in Incarnations
    BY <1>3 DEF Succeed, TypeOK
  <2>2. [inc |-> attempt[c], issued |-> now] \in [inc : Incarnations, issued : Times]
    BY <2>1 DEF TypeOK
  <2>3. session' \in [Clients -> [inc : Incarnations, issued : Times] \cup {None}]
    BY <1>3, <2>2 DEF Succeed, TypeOK
  <2>4. attempt' \in [Clients -> Incarnations \cup {None}]
    BY <1>3 DEF Succeed, TypeOK
  <2> QED
    BY <1>3, <2>3, <2>4 DEF Succeed, TypeOK, serverVars
<1>4. ASSUME NEW c \in Clients, Fail(c) \/ Logout(c)
      PROVE  TypeOK'
  BY <1>4 DEF Fail, Logout, TypeOK, serverVars, historyVars
<1>8. ASSUME NEW c \in Clients, AskReload(c)
      PROVE  TypeOK'
  <2>1. pending' \in 0..MaxRestarts
    BY <1>8, BoundsAssumption DEF AskReload, TypeOK, Incarnations
  <2> QED
    BY <1>8, <2>1 DEF AskReload, TypeOK, clientVars, historyVars
<1>5. CASE Reload \/ Crash
  <2>1. current' \in Incarnations /\ oldest' \in 0..current'
    BY <1>5, BoundsAssumption DEF Reload, Crash, Start, TypeOK, Incarnations
  <2>2. attempt' \in [Clients -> Incarnations \cup {None}]
    BY <1>5 DEF Reload, Crash, TypeOK
  <2>3. pending' \in 0..MaxRestarts
    BY <1>5, BoundsAssumption DEF Reload, Crash, TypeOK
  <2> QED
    BY <1>5, <2>1, <2>2, <2>3 DEF Reload, Crash, Start, TypeOK, historyVars
<1>6. CASE Tick
  <2>1. now' \in Times
    BY <1>6, BoundsAssumption DEF Tick, TypeOK, Times
  <2> QED
    BY <1>6, <2>1 DEF Tick, TypeOK, serverVars, clientVars, historyVars
<1>7. CASE UNCHANGED vars
  BY <1>7 DEF TypeOK, vars, serverVars, clientVars, historyVars
<1> QED
  BY <1>1, <1>2, <1>3, <1>4, <1>5, <1>6, <1>7, <1>8 DEF Next, ClientNext, ServerNext

\* The types of the limiter, the sessions and the admissions hold in every
\* behaviour.
THEOREM LoginTyped == Spec => []TypeOK
<1>1. Init => TypeOK
  BY InitTyped
<1>2. TypeOK /\ [Next]_vars => TypeOK'
  BY StepTyped
<1> QED
  BY <1>1, <1>2, PTL DEF Spec

-----------------------------------------------------------------------------
(* The limiter.                                                            *)

\* Buckets begin full and nobody has been refused.
LEMMA InitLimited == Init => LimiterInv
<1> SUFFICES ASSUME Init
             PROVE  LimiterInv
  OBVIOUS
<1>1. \A i \in Incarnations : Len(admitted[i]) = 0 /\ tat[i] = 0
  BY DEF Init
<1>2. Ahead /\ LoginWindow
  BY <1>1, LimiterAssumption DEF Ahead, LoginWindow
<1>3. NeverFarAhead
  BY <1>1, ToleranceSpan DEF NeverFarAhead, Init
<1>4. ToldInv
  BY DEF ToldInv, Init
<1> QED
  BY <1>2, <1>3, <1>4 DEF LimiterInv

\* The bucket after an admission.
LEMMA AdmitRefills ==
    ASSUME TypeOK, NEW c \in Clients, NEW i \in Incarnations, Admit(c, i)
    PROVE  /\ now' = now
           /\ tat[i] <= now + Tolerance
           /\ tat'[i] \in Nat
           /\ tat[i] + Period <= tat'[i] /\ now + Period <= tat'[i]
           /\ tat'[i] <= now + Span(Burst)
           /\ \A j \in Incarnations \ {i} : tat'[j] = tat[j]
<1>1. tat[i] \in Nat /\ now \in Nat
  BY TimesTyped
<1>2. tat[i] <= now + Tolerance
  BY <1>1, ToleranceSpan DEF Admit, Full
<1>3. tat'[i] = Refilled(i) /\ \A j \in Incarnations \ {i} : tat'[j] = tat[j]
  BY DEF Admit, TypeOK
<1>4. /\ tat'[i] \in Nat
      /\ tat[i] + Period <= tat'[i] /\ now + Period <= tat'[i]
      /\ tat'[i] <= now + Span(Burst)
  BY <1>1, <1>2, <1>3, ToleranceSpan DEF Refilled
<1> QED
  BY <1>2, <1>3, <1>4 DEF Admit

\* One attempt more: whatever tat was ahead of, it is a period more so.
LEMMA AdmitAhead ==
    ASSUME TypeOK, Ahead, NEW c \in Clients, NEW i \in Incarnations, Admit(c, i)
    PROVE  Ahead'
<1> DEFINE L == Len(admitted[i])
<1>1. /\ L \in Nat /\ Len(admitted'[i]) = L + 1
      /\ now \in Nat /\ tat[i] \in Nat /\ tat'[i] \in Nat
  BY AdmitAppends, AdmitRefills, TimesTyped
<1>2. ASSUME NEW k \in 1..L
      PROVE  /\ admitted'[i][k] <= now'
             /\ admitted'[i][k] + Span(Len(admitted'[i]) - k + 1) <= tat'[i]
  <2>1. admitted'[i][k] = admitted[i][k] /\ admitted[i][k] \in Nat
    BY AdmitAppends, TimesTyped
  <2>2. admitted[i][k] <= now /\ admitted[i][k] + Span(L - k + 1) <= tat[i]
    BY DEF Ahead
  <2>3. L - k + 1 \in Nat /\ Len(admitted'[i]) - k + 1 = (L - k + 1) + 1
    <3> DEFINE m == Len(admitted'[i])
    <3>1. L \in Nat /\ m = L + 1
      BY <1>1
    <3> HIDE DEF m, L
    <3>2. L - k + 1 \in Nat /\ m - k + 1 = (L - k + 1) + 1
      BY <3>1
    <3> QED
      BY <3>2 DEF m
  <2>4. Span(L - k + 1) \in Nat
        /\ Span(Len(admitted'[i]) - k + 1) = Span(L - k + 1) + Period
    BY <2>3, SpanStep
  <2>5. now' = now /\ tat[i] + Period <= tat'[i] /\ Period \in Nat
    BY AdmitRefills, ToleranceSpan
  <2>6. admitted'[i][k] <= now'
    BY <2>1, <2>2, <2>5
  <2>7. admitted[i][k] + (Span(L - k + 1) + Period) <= tat'[i]
    <3> DEFINE a == admitted[i][k]
               s == Span(L - k + 1)
               t == tat[i]
               u == tat'[i]
    <3>1. a \in Nat /\ s \in Nat /\ t \in Nat /\ u \in Nat /\ Period \in Nat
      BY <1>1, <2>1, <2>4, <2>5
    <3>2. a + s <= t /\ t + Period <= u
      BY <2>2, <2>5
    <3> HIDE DEF a, s, t, u, L
    <3>3. a + (s + Period) <= u
      BY <3>1, <3>2
    <3> QED
      BY <3>3 DEF a, s, u
  <2>8. admitted'[i][k] + Span(Len(admitted'[i]) - k + 1) <= tat'[i]
    BY <2>1, <2>4, <2>7, Zenon
  <2> QED
    BY <2>6, <2>8
<1>3. /\ admitted'[i][L + 1] <= now'
      /\ admitted'[i][L + 1] + Span(1) <= tat'[i]
  <2>1. admitted'[i][L + 1] = now
    BY AdmitAppends
  <2> QED
    BY <1>1, <2>1, AdmitRefills, ToleranceSpan
<1>4. ASSUME NEW k \in 1..Len(admitted'[i])
      PROVE  /\ admitted'[i][k] <= now'
             /\ admitted'[i][k] + Span(Len(admitted'[i]) - k + 1) <= tat'[i]
  <2>1. CASE k \in 1..L
    BY <1>2, <2>1
  <2>2. CASE k = L + 1
    <3>1. Len(admitted'[i]) - k + 1 = 1
      BY <1>1, <2>2
    <3> QED
      BY <1>3, <2>2, <3>1
  <2> QED
    BY <1>1, <2>1, <2>2
<1>5. ASSUME NEW j \in Incarnations \ {i}, NEW k \in 1..Len(admitted'[j])
      PROVE  /\ admitted'[j][k] <= now'
             /\ admitted'[j][k] + Span(Len(admitted'[j]) - k + 1) <= tat'[j]
  <2>1. admitted'[j] = admitted[j] /\ tat'[j] = tat[j] /\ now' = now
    BY AdmitAppends, AdmitRefills
  <2> QED
    BY <2>1 DEF Ahead
<1> HIDE DEF L
<1> QED
  BY <1>4, <1>5 DEF Ahead

\* The attempt admitted now comes late enough after each earlier one: tat was
\* ahead of that one by a period for each since, and of the clock by no more
\* than the tolerance.
LEMMA AdmitSpaced ==
    ASSUME TypeOK, Ahead, NEW c \in Clients, NEW i \in Incarnations, Admit(c, i),
           NEW j \in 1..Len(admitted[i]), (Len(admitted[i]) + 1) - j >= Burst
    PROVE  admitted[i][j] + ((Len(admitted[i]) + 1) - j - Burst + 1) * Period <= now
<1> DEFINE L == Len(admitted[i])
           n == (L + 1) - j - Burst + 1
           a == admitted[i][j]
           t == tat[i]
<1>1. /\ L \in Nat /\ a \in Nat /\ t \in Nat /\ now \in Nat
      /\ Burst \in Nat \ {0} /\ Tolerance \in Nat
  BY TimesTyped, LimiterAssumption, ToleranceSpan
<1>2. n \in Nat /\ Burst - 1 \in Nat /\ L - j + 1 = n + (Burst - 1)
  <2>1. j \in 1..L /\ (L + 1) - j >= Burst
    OBVIOUS
  <2> HIDE DEF L
  <2> QED
    BY <1>1, <2>1
<1>3. Span(L - j + 1) = Span(n) + Tolerance /\ Span(n) \in Nat
  <2>1. Span(n + (Burst - 1)) = Span(n) + Span(Burst - 1) /\ Span(n) \in Nat
    BY <1>2, SpanSum, SpanStep
  <2> QED
    BY <1>2, <2>1 DEF Span, Tolerance
<1>4. a + Span(L - j + 1) <= t
  BY DEF Ahead
<1>5. t <= now + Tolerance
  BY AdmitRefills
<1>6. a + Span(n) <= now
  <2> HIDE DEF a, t, n, L
  <2> QED
    BY <1>1, <1>3, <1>4, <1>5
<1> QED
  BY <1>6 DEF Span

\* So every stretch of time keeps its limit.
LEMMA AdmitWindow ==
    ASSUME TypeOK, Ahead, LoginWindow,
           NEW c \in Clients, NEW i \in Incarnations, Admit(c, i)
    PROVE  LoginWindow'
<1> DEFINE L == Len(admitted[i])
<1>1. L \in Nat /\ Len(admitted'[i]) = L + 1 /\ Burst \in Nat \ {0}
  BY AdmitAppends, LimiterAssumption
<1>2. ASSUME NEW j \in 1..(L + 1), NEW k \in 1..(L + 1), k - j >= Burst
      PROVE  admitted'[i][j] + (k - j - Burst + 1) * Period <= admitted'[i][k]
  <2>1. j \in 1..L /\ admitted'[i][j] = admitted[i][j]
    <3>1. j \in 1..L
      BY <1>1, <1>2
    <3> QED
      BY <3>1, AdmitAppends
  <2>2. CASE k \in 1..L
    <3>1. admitted'[i][k] = admitted[i][k]
      BY <2>2, AdmitAppends
    <3>2. admitted[i][j] + (k - j - Burst + 1) * Period <= admitted[i][k]
      BY <1>2, <2>1, <2>2 DEF LoginWindow
    <3> QED
      BY <2>1, <3>1, <3>2, Zenon
  <2>3. CASE k = L + 1
    <3>1. admitted'[i][k] = now
      BY <2>3, AdmitAppends
    <3>2. admitted[i][j] + (k - j - Burst + 1) * Period <= now
      BY <1>2, <2>1, <2>3, AdmitSpaced
    <3> QED
      BY <2>1, <3>1, <3>2, Zenon
  <2> QED
    BY <1>1, <2>2, <2>3
<1>3. ASSUME NEW h \in Incarnations \ {i},
             NEW j \in 1..Len(admitted'[h]), NEW k \in 1..Len(admitted'[h]),
             k - j >= Burst
      PROVE  admitted'[h][j] + (k - j - Burst + 1) * Period <= admitted'[h][k]
  <2>1. admitted'[h] = admitted[h]
    BY AdmitAppends
  <2> QED
    BY <1>3, <2>1 DEF LoginWindow
<1>4. ASSUME NEW j \in 1..Len(admitted'[i]), NEW k \in 1..Len(admitted'[i]), k - j >= Burst
      PROVE  admitted'[i][j] + (k - j - Burst + 1) * Period <= admitted'[i][k]
  BY <1>1, <1>2, <1>4
<1> HIDE DEF L
<1> QED
  BY <1>3, <1>4 DEF LoginWindow

\* An admission keeps the limiter's invariant.
LEMMA AdmitLimited ==
    ASSUME TypeOK, LimiterInv, NEW c \in Clients, NEW i \in Incarnations, Admit(c, i)
    PROVE  LimiterInv'
<1>1. Ahead' /\ LoginWindow'
  BY AdmitAhead, AdmitWindow DEF LimiterInv
<1>2. NeverFarAhead'
  BY AdmitRefills DEF LimiterInv, NeverFarAhead
<1>3. ToldInv'
  <2>1. told' # None => told' = told /\ told # None /\ told.inc # i
    BY DEF Admit
  <2>2. ASSUME told' # None
        PROVE  tat'[told'.inc] <= told'.at + Span(Burst)
    <3>1. told.inc \in Incarnations \ {i}
      BY <2>1, <2>2 DEF TypeOK
    <3>2. tat'[told.inc] = tat[told.inc]
      BY <3>1, AdmitRefills
    <3> QED
      BY <2>1, <2>2, <3>2 DEF LimiterInv, ToldInv
  <2> QED
    BY <2>2 DEF ToldInv
<1> QED
  BY <1>1, <1>2, <1>3 DEF LimiterInv

\* A refusal keeps it, and is what ToldInv is about.
LEMMA RefuseLimited ==
    ASSUME TypeOK, LimiterInv, NEW c \in Clients, NEW i \in Incarnations, Refuse(c, i)
    PROVE  LimiterInv'
<1>1. UNCHANGED <<now, tat, admitted>>
  BY DEF Refuse, historyVars
<1>2. told'.inc = i /\ told'.at = now
  BY DEF Refuse
<1>3. ToldInv'
  BY <1>1, <1>2 DEF ToldInv, LimiterInv, NeverFarAhead
<1>4. Ahead' /\ NeverFarAhead' /\ LoginWindow'
  BY <1>1 DEF LimiterInv, Ahead, NeverFarAhead, LoginWindow
<1> QED
  BY <1>3, <1>4 DEF LimiterInv

\* Time only empties the limiter's account.
LEMMA TickLimited ==
    ASSUME TypeOK, LimiterInv, Tick
    PROVE  LimiterInv'
<1>1. /\ now' = now + 1 /\ now \in Nat
      /\ tat' = tat /\ admitted' = admitted /\ told' = told
  BY TimesTyped DEF Tick, clientVars, historyVars
<1>2. ASSUME NEW i \in Incarnations, NEW k \in 1..Len(admitted[i])
      PROVE  /\ admitted[i][k] <= now + 1
             /\ admitted[i][k] + Span(Len(admitted[i]) - k + 1) <= tat[i]
  <2>1. /\ admitted[i][k] <= now
        /\ admitted[i][k] + Span(Len(admitted[i]) - k + 1) <= tat[i]
    BY DEF LimiterInv, Ahead
  <2>2. admitted[i][k] \in Nat
    BY TimesTyped
  <2> QED
    BY <1>1, <2>1, <2>2
<1>3. NeverFarAhead'
  BY <1>1, TimesTyped, ToleranceSpan DEF LimiterInv, NeverFarAhead
<1>4. ToldInv' /\ LoginWindow'
  BY <1>1 DEF LimiterInv, ToldInv, LoginWindow
<1>5. Ahead'
  BY <1>1, <1>2 DEF Ahead
<1> QED
  BY <1>3, <1>4, <1>5 DEF LimiterInv

\* Every step keeps it.
LEMMA StepLimited == TypeOK /\ LimiterInv /\ [Next]_vars => LimiterInv'
<1> SUFFICES ASSUME TypeOK, LimiterInv, [Next]_vars
             PROVE  LimiterInv'
  OBVIOUS
<1>1. ASSUME NEW c \in Clients, NEW i \in Reached, Admit(c, i) \/ Refuse(c, i)
      PROVE  LimiterInv'
  BY <1>1, ReachedTyped, AdmitLimited, RefuseLimited
<1>2. CASE Tick
  BY <1>2, TickLimited
<1>3. ASSUME UNCHANGED <<now, tat, admitted, told>>
      PROVE  LimiterInv'
  BY <1>3 DEF LimiterInv, Ahead, NeverFarAhead, ToldInv, LoginWindow
<1>4. ASSUME NEW c \in Clients, Succeed(c) \/ Fail(c) \/ Logout(c) \/ AskReload(c)
      PROVE  LimiterInv'
  BY <1>3, <1>4 DEF Succeed, Fail, Logout, AskReload, clientVars, historyVars
<1>5. CASE Reload \/ Crash
  BY <1>3, <1>5 DEF Reload, Crash, Start, historyVars
<1>6. CASE UNCHANGED vars
  BY <1>3, <1>6 DEF vars, clientVars, historyVars
<1> QED
  BY <1>1, <1>2, <1>4, <1>5, <1>6 DEF Next, ClientNext, ServerNext

\* The limiter's invariant.
LEMMA LimiterHolds == Spec => [](TypeOK /\ LimiterInv)
<1>1. Init => TypeOK /\ LimiterInv
  BY InitTyped, InitLimited
<1>2. (TypeOK /\ LimiterInv) /\ [Next]_vars => (TypeOK /\ LimiterInv)'
  BY StepTyped, StepLimited
<1> QED
  BY <1>1, <1>2, PTL DEF Spec

\* No server admits more than Burst attempts in any stretch of time shorter
\* than a period, wherever the stretch begins.
THEOREM WindowKept == Spec => []LoginWindow
<1>1. TypeOK /\ LimiterInv => LoginWindow
  BY DEF LimiterInv
<1> QED
  BY <1>1, LimiterHolds, PTL

\* A refused client that comes back after a period finds room, unless another
\* attempt was admitted meanwhile.
THEOREM RetryAfterKept == Spec => []RetryAfterHonest
<1>1. TypeOK /\ LimiterInv => RetryAfterHonest
  <2> SUFFICES ASSUME TypeOK, LimiterInv, told # None, told.at + Period <= now
               PROVE  ~Full(told.inc)
    BY DEF RetryAfterHonest
  <2>1. told \in [inc : Incarnations, at : Times]
    BY DEF TypeOK
  <2>2. told.inc \in Incarnations /\ told.at \in Nat
    BY <2>1, BoundsAssumption DEF Times
  <2>3. tat[told.inc] \in Nat /\ now \in Nat
    BY <2>2, TimesTyped
  <2>4. tat[told.inc] <= told.at + Span(Burst)
    BY DEF LimiterInv, ToldInv
  <2> QED
    BY <2>2, <2>3, <2>4, ToleranceSpan DEF Full
<1> QED
  BY <1>1, LimiterHolds, PTL

-----------------------------------------------------------------------------
(* Before anybody has logged in.                                           *)

\* Only who is logged in begins a reload.
LEMMA StepOutside == TypeOK /\ OutsideInv /\ [Next]_vars => OutsideInv'
<1> SUFFICES ASSUME TypeOK, OutsideInv, [Next]_vars, ~entered'
             PROVE  /\ \A c \in Clients : session'[c] = None
                    /\ pending' = 0
                    /\ oldest' = current'
  BY DEF OutsideInv
<1>1. ~entered /\ entered \in BOOLEAN
  BY DEF TypeOK, Next, ClientNext, ServerNext, Admit, Refuse, Succeed, Fail, Logout,
         AskReload, Start, Reload, Crash, Tick, vars, historyVars
<1>2. /\ \A c \in Clients : session[c] = None
      /\ pending = 0
      /\ oldest = current
  BY <1>1 DEF OutsideInv
<1>3. ASSUME NEW c \in Clients, NEW i \in Reached, Admit(c, i) \/ Refuse(c, i)
      PROVE  UNCHANGED <<session, serverVars>>
  BY <1>3 DEF Admit, Refuse
<1>4. ASSUME NEW c \in Clients, Fail(c)
      PROVE  UNCHANGED <<session, serverVars>>
  BY <1>4 DEF Fail
<1>5. ASSUME NEW c \in Clients
      PROVE  ~Succeed(c) /\ ~Logout(c) /\ ~AskReload(c)
  BY <1>2 DEF Succeed, Logout, AskReload, MayEnter
<1>6. ~Reload
  BY <1>2 DEF Reload
<1>7. CASE Crash
  BY <1>2, <1>7 DEF Crash, Start
<1>8. CASE Tick \/ UNCHANGED vars
  BY <1>2, <1>8 DEF Tick, vars, clientVars, serverVars
<1> QED
  BY <1>2, <1>3, <1>4, <1>5, <1>6, <1>7, <1>8 DEF Next, ClientNext, ServerNext, serverVars

\* A non-empty set of numbers has a least one.
LEMMA LeastExists ==
    ASSUME NEW S, S \subseteq Nat, S # {}
    PROVE  \E m \in S : \A n \in S : m <= n
<1> DEFINE R == StrictSubsetOrdering(Nat)
           T == {0..n : n \in S}
<1>1. T \subseteq FiniteSubsetsOf(Nat) /\ T # {}
  <2>1. ASSUME NEW n \in S
        PROVE  0..n \in FiniteSubsetsOf(Nat)
    <3>1. n \in Nat /\ 0 \in Int /\ n \in Int
      OBVIOUS
    <3>2. IsFiniteSet(0..n)
      BY <3>1, FS_Interval
    <3>3. 0..n \subseteq Nat
      BY <3>1
    <3> QED
      BY <3>2, <3>3 DEF FiniteSubsetsOf
  <2> QED
    BY <2>1
<1>2. IsWellFoundedOn(R, FiniteSubsetsOf(Nat))
  BY FS_StrictSubsetOrderingWellFounded
<1>3. PICK X \in T : \A Y \in T : ~ (<<Y, X>> \in R)
  <2> HIDE DEF R, T
  <2> QED
    BY <1>1, <1>2, WFMin
<1>4. PICK m \in S : X = 0..m
  BY <1>3
<1>5. ASSUME NEW n \in S
      PROVE  m <= n
  <2>1. m \in Nat /\ n \in Nat
    OBVIOUS
  <2>2. SUFFICES ASSUME n < m
                 PROVE  FALSE
    BY <2>1
  <2>3. 0..n \subseteq 0..m /\ 0..n # 0..m
    <3>1. m \in 0..m /\ m \notin 0..n
      BY <2>1, <2>2
    <3> QED
      BY <2>1, <2>2, <3>1
  <2>4. 0..n \in SUBSET Nat /\ 0..m \in SUBSET Nat
    BY <2>1
  <2>5. <<0..n, 0..m>> \in R
    BY <2>3, <2>4 DEF StrictSubsetOrdering
  <2> QED
    BY <1>3, <1>4, <2>5
<1> QED
  BY <1>5

\* Of what one server admits, any period has Burst attempts at most: they
\* follow each other, and the one Burst after the first comes too late.
LEMMA PeriodLimited ==
    ASSUME TypeOK, LoginWindow, NEW i \in Incarnations, NEW t \in Times
    PROVE  IsFiniteSet(AdmittedBy(i, t)) /\ Cardinality(AdmittedBy(i, t)) <= Burst
<1> DEFINE S == AdmittedBy(i, t)
<1>1. /\ DOMAIN admitted[i] = 1..Len(admitted[i]) /\ Len(admitted[i]) \in Nat
      /\ Burst \in Nat \ {0} /\ Period \in Nat \ {0} /\ t \in Nat
  <2>1. admitted[i] \in Seq(Times)
    BY DEF TypeOK
  <2> QED
    BY <2>1, LimiterAssumption, BoundsAssumption DEF Times
<1>2. CASE S = {}
  <2> HIDE DEF S
  <2>1. IsFiniteSet(S) /\ Cardinality(S) = 0
    BY <1>2, FS_EmptySet
  <2>2. IsFiniteSet(S) /\ Cardinality(S) <= Burst
    BY <1>1, <2>1
  <2> QED
    BY <2>2 DEF S
<1>3. CASE S # {}
  <2>1. S \subseteq 1..Len(admitted[i]) /\ S \subseteq Nat
    BY <1>1 DEF AdmittedBy
  <2>2. PICK m \in S : \A k \in S : m <= k
    BY <1>3, <2>1, LeastExists, Zenon
  <2>3. ASSUME NEW k \in S
        PROVE  k \in m..(m + Burst - 1)
    <3>1. /\ k \in 1..Len(admitted[i]) /\ m \in 1..Len(admitted[i])
          /\ k \in Nat /\ m \in Nat /\ m <= k
      BY <2>1, <2>2
    <3>2. admitted[i][m] \in t..(t + Period - 1) /\ admitted[i][k] \in t..(t + Period - 1)
      BY DEF AdmittedBy
    <3>3. SUFFICES ASSUME k - m >= Burst
                   PROVE  FALSE
      BY <1>1, <3>1
    <3>4. admitted[i][m] + Span(k - m - Burst + 1) <= admitted[i][k]
      BY <3>1, <3>3 DEF LoginWindow, Span
    <3>5. Span(k - m - Burst + 1) \in Nat /\ Period <= Span(k - m - Burst + 1)
      <4>1. k - m - Burst \in Nat
        BY <1>1, <3>1, <3>3
      <4> DEFINE d == k - m - Burst
      <4> HIDE DEF d
      <4>2. Span(d + 1) = Span(d) + Period /\ Span(d) \in Nat
        BY <4>1, SpanStep DEF d
      <4>3. Span(d + 1) \in Nat /\ Period <= Span(d + 1)
        BY <1>1, <4>2
      <4> QED
        BY <4>3 DEF d
    <3>6. admitted[i][m] \in Nat /\ admitted[i][k] \in Nat
      BY <3>1, TimesTyped
    <3> DEFINE a == admitted[i][m]
               b == admitted[i][k]
               n == Span(k - m - Burst + 1)
    <3> HIDE DEF a, b, n, S
    <3>7. a \in t..(t + Period - 1) /\ b \in t..(t + Period - 1) /\ a + n <= b
          /\ n \in Nat /\ Period <= n /\ a \in Nat /\ b \in Nat
      BY <3>2, <3>4, <3>5, <3>6 DEF a, b, n
    <3> QED
      BY <1>1, <3>7
  <2>4. m \in Int /\ m + Burst - 1 \in Int /\ m <= m + Burst - 1
    BY <1>1, <2>1, <2>2
  <2>5. IsFiniteSet(m..(m + Burst - 1)) /\ Cardinality(m..(m + Burst - 1)) = Burst
    <3>1. (m + Burst - 1) - m + 1 = Burst
      BY <1>1, <2>4
    <3> QED
      BY <2>4, <3>1, FS_Interval
  <2>6. S \in SUBSET (m..(m + Burst - 1))
    BY <2>3
  <2> HIDE DEF S
  <2>7. IsFiniteSet(S) /\ Cardinality(S) <= Burst
    BY <2>5, <2>6, FS_Subset
  <2> QED
    BY <2>7 DEF S
<1> QED
  BY <1>2, <1>3, Zenon

\* As long as nobody has logged in, no period has more than Burst attempts,
\* whichever of the process's servers admits them: a second limiter takes a
\* reload, a reload a request to a protected route, and that a session.
THEOREM OutsidersKept == Spec => []OutsidersLimited
<1>1. Init => OutsideInv
  BY DEF Init, OutsideInv
<1>2. TypeOK /\ LimiterInv /\ OutsideInv => OutsidersLimited
  <2> SUFFICES ASSUME TypeOK, LimiterInv, OutsideInv, ~entered, NEW t \in Times
               PROVE  Cardinality(AdmittedFrom(t)) <= Burst
    BY DEF OutsidersLimited
  <2> DEFINE S == AdmittedBy(current, t)
  <2>1. oldest = current /\ current \in Incarnations /\ current \in Int
    BY BoundsAssumption DEF OutsideInv, TypeOK, Incarnations
  <2>2. oldest..current = {current}
    BY <2>1
  <2>3. AdmittedFrom(t) = {current} \X S
    BY <2>2, Zenon DEF AdmittedFrom
  <2>4. IsFiniteSet(S) /\ Cardinality(S) <= Burst
    BY <2>1, PeriodLimited DEF LimiterInv
  <2> HIDE DEF S
  <2>5. IsFiniteSet({current}) /\ Cardinality({current}) = 1
    BY FS_Singleton
  <2>6. Cardinality({current} \X S) = Cardinality({current}) * Cardinality(S)
    BY <2>4, <2>5, FS_Product
  <2>7. Cardinality(S) \in Nat
    BY <2>4, FS_CardinalityType
  <2>8. Cardinality({current} \X S) = Cardinality(S)
    <3> DEFINE n == Cardinality(S)
    <3> HIDE DEF n
    <3>1. 1 * n = n
      BY <2>7 DEF n
    <3> QED
      BY <2>5, <2>6, <3>1 DEF n
  <2> QED
    BY <2>3, <2>4, <2>8
<1>3. (TypeOK /\ OutsideInv) /\ [Next]_vars => OutsideInv'
  BY StepOutside
<1> QED
  BY <1>1, <1>2, <1>3, LoginTyped, LimiterHolds, PTL DEF Spec

-----------------------------------------------------------------------------
(* The token bucket.                                                       *)

Lack(i) == IF tat[i] < now THEN 0 ELSE tat[i] - now

credits == [i \in Incarnations |-> Credit(i)]

\* A bucket lacks no more than it can hold.
LEMMA CreditType ==
    ASSUME TypeOK, LimiterInv, NEW i \in Incarnations
    PROVE  /\ Lack(i) \in Nat /\ Lack(i) <= Span(Burst)
           /\ Credit(i) = Span(Burst) - Lack(i) /\ Credit(i) \in Nat
<1>1. tat[i] \in Nat /\ now \in Nat /\ Span(Burst) \in Nat
  BY TimesTyped, ToleranceSpan
<1>2. tat[i] <= now + Span(Burst)
  BY DEF LimiterInv, NeverFarAhead
<1>3. Lack(i) \in Nat /\ Lack(i) <= Span(Burst)
  BY <1>1, <1>2 DEF Lack
<1>4. Credit(i) = Span(Burst) - Lack(i)
  BY Zenon DEF Credit, Span, Lack
<1>5. Span(Burst) - Lack(i) \in Nat
  <2> DEFINE b == Span(Burst)
             l == Lack(i)
  <2>1. b \in Nat /\ l \in Nat /\ l <= b
    BY <1>1, <1>3
  <2> HIDE DEF b, l
  <2>2. b - l \in Nat
    BY <2>1
  <2> QED
    BY <2>2 DEF b, l
<1> QED
  BY <1>3, <1>4, <1>5

\* Full is for a bucket that does not hold a whole attempt.
LEMMA FullIsEmpty ==
    ASSUME TypeOK, LimiterInv, NEW i \in Incarnations
    PROVE  Full(i) <=> Credit(i) < Period
<1> DEFINE l == Lack(i)
           b == Span(Burst)
           t == tat[i]
<1>1. /\ t \in Nat /\ now \in Nat /\ b \in Nat /\ l \in Nat
      /\ Tolerance \in Nat /\ Period \in Nat /\ b = Tolerance + Period
      /\ l = (IF t < now THEN 0 ELSE t - now)
      /\ Credit(i) = b - l
  BY TimesTyped, ToleranceSpan, CreditType DEF Lack
<1> HIDE DEF l, b
<1>2. (now + Tolerance < t) <=> (b - l < Period)
  <2> HIDE DEF t
  <2> QED
    BY <1>1
<1> QED
  BY <1>1, <1>2 DEF Full

\* An admission takes an attempt from its bucket.
LEMMA AdmitTakes ==
    ASSUME TypeOK, LimiterInv, NEW c \in Clients, NEW i \in Incarnations, Admit(c, i)
    PROVE  credits' = [credits EXCEPT ![i] = Credit(i) - Period]
<1>1. now' = now /\ \A j \in Incarnations \ {i} : tat'[j] = tat[j]
  BY AdmitRefills
<1>2. \A j \in Incarnations \ {i} : Credit(j)' = Credit(j)
  BY <1>1 DEF Credit
<1>3. tat'[i] = Refilled(i)
  BY DEF Admit, TypeOK
<1>4. Credit(i)' = Credit(i) - Period
  <2> DEFINE l == Lack(i)
             b == Span(Burst)
             t == tat[i]
             u == tat'[i]
             m == IF u < now THEN 0 ELSE u - now
  <2>1. /\ t \in Nat /\ now \in Nat /\ b \in Nat /\ Period \in Nat
        /\ l = (IF t < now THEN 0 ELSE t - now)
        /\ u = (IF t < now THEN now ELSE t) + Period
        /\ Credit(i) = b - l
    BY <1>3, TimesTyped, ToleranceSpan, CreditType DEF Lack, Refilled
  <2>2. Credit(i)' = b - m
    BY <1>1, Zenon DEF Credit, Span
  <2> HIDE DEF l, b, t, u
  <2>3. m = l + Period /\ l \in Nat
    BY <2>1
  <2>4. b - m = (b - l) - Period
    <3> HIDE DEF m
    <3> QED
      BY <2>1, <2>3
  <2> QED
    BY <2>1, <2>2, <2>4
<1> QED
  BY <1>2, <1>4 DEF credits

\* A tick gives every bucket back what a tick is worth.
LEMMA TickRefills ==
    ASSUME TypeOK, LimiterInv, Tick, NEW i \in Incarnations
    PROVE  Credit(i)' = IF Credit(i) < Span(Burst) THEN Credit(i) + 1 ELSE Span(Burst)
<1> DEFINE l == Lack(i)
           b == Span(Burst)
           t == tat[i]
           m == IF t < now + 1 THEN 0 ELSE t - (now + 1)
<1>1. /\ t \in Nat /\ now \in Nat /\ b \in Nat /\ l \in Nat /\ l <= b
      /\ l = (IF t < now THEN 0 ELSE t - now)
      /\ Credit(i) = b - l
  BY TimesTyped, ToleranceSpan, CreditType DEF Lack
<1>2. now' = now + 1 /\ tat' = tat
  BY DEF Tick
<1>3. Credit(i)' = b - m
  BY <1>2, Zenon DEF Credit, Span
<1>4. b - m = IF b - l < b THEN (b - l) + 1 ELSE b
  <2> HIDE DEF l, b, t
  <2> QED
    BY <1>1
<1> QED
  BY <1>1, <1>3, <1>4

\* The buckets begin full.
LEMMA InitFillsBuckets == Init => Bucket!Init
<1> SUFFICES ASSUME Init PROVE Bucket!Init
  OBVIOUS
<1>1. \A i \in Incarnations : tat[i] = 0 /\ Len(admitted[i]) = 0
  BY DEF Init
<1>2. now = 0 /\ told = None
  BY DEF Init
<1>3. Burst * Period - 0 = Burst * Period
  <2>1. Burst * Period \in Nat
    BY ToleranceSpan DEF Span
  <2> QED
    BY <2>1
<1>4. \A i \in Incarnations : Credit(i) = Burst * Period
  BY <1>1, <1>2, <1>3 DEF Credit
<1> QED
  BY <1>1, <1>2, <1>4 DEF Bucket!Init, Bucket!Brim

\* Every step is one of the buckets or leaves them alone.
LEMMA StepBuckets ==
    TypeOK /\ LimiterInv /\ [Next]_vars => [Bucket!Next]_(Bucket!bucketVars)
<1> SUFFICES ASSUME TypeOK, LimiterInv, [Next]_vars
             PROVE  Bucket!Next \/ UNCHANGED Bucket!bucketVars
  OBVIOUS
<1>1. ASSUME NEW c \in Clients, NEW i \in Reached, Admit(c, i)
      PROVE  Bucket!Take(i) /\ i \in Incarnations
  <2>1. i \in Incarnations
    BY ReachedTyped
  <2>2. Credit(i) \in Nat /\ ~(Credit(i) < Period) /\ Period \in Nat
    BY <1>1, <2>1, CreditType, FullIsEmpty, ToleranceSpan DEF Admit
  <2>3. credits' = [credits EXCEPT ![i] = Credit(i) - Period]
    BY <1>1, <2>1, AdmitTakes
  <2>4. /\ Len(admitted'[i]) = Len(admitted[i]) + 1
        /\ \A j \in Incarnations \ {i} : admitted'[j] = admitted[j]
    BY <1>1, <2>1, AdmitAppends
  <2>5. [j \in Incarnations |-> Len(admitted[j])]'
          = [[j \in Incarnations |-> Len(admitted[j])] EXCEPT ![i] = @ + 1]
    BY <2>1, <2>4
  <2>6. now' = now
        /\ told' = IF told # None /\ told.inc = i THEN None ELSE told
    BY <1>1 DEF Admit
  <2>7. Credit(i) >= Period
    BY <2>2
  <2> QED
    BY <2>1, <2>3, <2>5, <2>6, <2>7 DEF Bucket!Take, credits
<1>2. ASSUME NEW c \in Clients, NEW i \in Reached, Refuse(c, i)
      PROVE  Bucket!TurnAway(i) /\ i \in Incarnations
  <2>1. i \in Incarnations
    BY ReachedTyped
  <2>2. Credit(i) < Period
    BY <1>2, <2>1, FullIsEmpty DEF Refuse
  <2>3. UNCHANGED <<now, tat, admitted>> /\ told' = [inc |-> i, at |-> now]
    BY <1>2 DEF Refuse, historyVars
  <2> QED
    BY <2>1, <2>2, <2>3 DEF Bucket!TurnAway, Credit
<1>3. ASSUME Tick
      PROVE  Bucket!Refill
  <2>1. now' = now + 1 /\ UNCHANGED <<admitted, told>>
    BY <1>3 DEF Tick, clientVars, historyVars
  <2>2. \A i \in Incarnations : Credit(i)' =
          IF Credit(i) < Burst * Period THEN Credit(i) + 1 ELSE Burst * Period
    BY <1>3, TickRefills DEF Span
  <2> QED
    BY <2>1, <2>2 DEF Bucket!Refill, Bucket!Brim
<1>4. ASSUME UNCHANGED <<now, tat, admitted, told>>
      PROVE  UNCHANGED Bucket!bucketVars
  BY <1>4 DEF Bucket!bucketVars, Credit
<1>5. ASSUME NEW c \in Clients, Succeed(c) \/ Fail(c) \/ Logout(c) \/ AskReload(c)
      PROVE  UNCHANGED Bucket!bucketVars
  BY <1>4, <1>5 DEF Succeed, Fail, Logout, AskReload, clientVars, historyVars
<1>6. ASSUME Reload \/ Crash \/ UNCHANGED vars
      PROVE  UNCHANGED Bucket!bucketVars
  BY <1>4, <1>6 DEF Reload, Crash, Start, vars, clientVars, historyVars
<1> QED
  BY <1>1, <1>2, <1>3, <1>5, <1>6 DEF Next, ClientNext, ServerNext, Bucket!Next

\* governor's arithmetic on one time for each server does exactly what a
\* bucket of Burst attempts does that is filled little by little.
THEOREM LimiterImplementsTokenBucket == Spec => ImplementsTokenBucket
<1>1. Init => Bucket!Init
  BY InitFillsBuckets
<1>2. TypeOK /\ LimiterInv /\ [Next]_vars => [Bucket!Next]_(Bucket!bucketVars)
  BY StepBuckets
<1> QED
  BY <1>1, <1>2, LimiterHolds, PTL DEF Spec, ImplementsTokenBucket, Bucket!Spec
=============================================================================
