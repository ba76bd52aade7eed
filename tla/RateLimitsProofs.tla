-------------------------- MODULE RateLimitsProofs --------------------------
(***************************************************************************)
(* The limiter keeps its types, a caller's own requests respect the        *)
(* cooldown whatever the other callers, the clock and the cleanup do, and  *)
(* the hourly and the daily limit are overrun by at most the other calls   *)
(* in flight.                                                              *)
(***************************************************************************)
EXTENDS RateLimits, FiniteSetTheorems, TLAPS

\* A caller that has passed the first check stored no row within its cooldown.
Passed(c) ==
  step[c] \in {"hourly", "daily", "record"} =>
    \A x \in granted : x.by = c /\ x.email = call[c].email => x.age > Cooldown

\* The cleanup deletes nothing of the last day.
DayKept == \A x \in granted : x.age <= Day => x \in rateLimitedRequest

CooldownInvariant ==
  /\ LimitsTypeOK
  /\ CooldownPerCaller
  /\ DayKept
  /\ \A c \in Callers : Passed(c)

\* Every step keeps the types.
LEMMA LimitsTypes == LimitsTypeOK /\ [LimitsNext]_limitVars => LimitsTypeOK'
<1> SUFFICES ASSUME LimitsTypeOK, [LimitsNext]_limitVars PROVE LimitsTypeOK'
  OBVIOUS
<1> USE WindowsAssumption DEF LimitsTypeOK, Checking, Calls, Rows, OldAge
<1>1. ASSUME NEW c \in Callers, NEW next \in Checking \cup {"idle", "record", "allowed"},
             next \in Checking \cup {"record"} => call[c] \in Calls, Goto(c, next)
      PROVE  LimitsTypeOK'
  BY <1>1 DEF Goto
<1>2. ASSUME NEW c \in Callers, Leave(c) PROVE LimitsTypeOK'
  BY <1>2 DEF Leave
<1>3. CASE \E c \in Callers : ForgotPassword(c)
  <2> PICK c \in Callers : ForgotPassword(c) BY <1>3
  <2>1. CASE \E email \in Emails, ip \in Ips : StartCheck(c, email, ip)
    BY <2>1 DEF StartCheck
  <2> QED BY <2>1, <1>2 DEF ForgotPassword
<1>4. CASE \E c \in Callers : CheckLimits(c)
  <2> PICK c \in Callers : CheckLimits(c) BY <1>4
  <2>1. CASE CheckCooldown(c) BY <2>1, <1>1, <1>2 DEF CheckCooldown
  <2>2. CASE CheckHourly(c) BY <2>2, <1>1, <1>2 DEF CheckHourly
  <2>3. CASE CheckDaily(c) BY <2>3, <1>2 DEF CheckDaily
  <2>4. CASE Record(c) BY <2>4 DEF Record
  <2> QED BY <2>1, <2>2, <2>3, <2>4 DEF CheckLimits
<1>5. CASE \E c \in Callers : Fail(c) BY <1>5, <1>2 DEF Fail
<1>6. CASE Tick BY <1>6 DEF Tick, Older
<1>7. CASE CleanupExpiredRateLimits BY <1>7 DEF CleanupExpiredRateLimits
<1>8. CASE UNCHANGED limitVars BY <1>8 DEF limitVars
<1>9. CASE \E c \in Callers : SkipLimits(c) BY <1>9, <1>1 DEF SkipLimits
<1> QED BY <1>3, <1>4, <1>5, <1>6, <1>7, <1>8, <1>9 DEF LimitsNext

\* The cooldown of a caller's own requests, step by step.
LEMMA CooldownNext ==
  CooldownInvariant /\ [LimitsNext]_limitVars => CooldownInvariant'
<1> SUFFICES ASSUME CooldownInvariant, [LimitsNext]_limitVars
             PROVE  CooldownInvariant'
  OBVIOUS
<1>0. LimitsTypeOK' BY LimitsTypes DEF CooldownInvariant
<1>t. LimitsTypeOK BY DEF CooldownInvariant
<1> USE WindowsAssumption
<1>1. ASSUME NEW c \in Callers, UNCHANGED <<rateLimitedRequest, granted>>,
             \A d \in Callers \ {c} : /\ step'[d] = step[d] /\ call'[d] = call[d]
                                      /\ elapsed'[d] = elapsed[d],
             Passed(c)'
      PROVE  CooldownInvariant'
  BY <1>0, <1>1 DEF CooldownInvariant, CooldownPerCaller, DayKept, Recent, Passed
<1>2. ASSUME NEW c \in Callers, Leave(c) PROVE CooldownInvariant'
  <2>1. Passed(c)' BY <1>2, <1>t DEF Leave, Passed, LimitsTypeOK
  <2> QED BY <2>1, <1>1, <1>2, <1>t DEF Leave, LimitsTypeOK
<1>3. ASSUME NEW c \in Callers, ForgotPassword(c) PROVE CooldownInvariant'
  <2>1. CASE \E email \in Emails, ip \in Ips : StartCheck(c, email, ip)
    <3>1. Passed(c)' BY <2>1, <1>t DEF StartCheck, Passed, LimitsTypeOK
    <3> QED BY <3>1, <2>1, <1>1, <1>t DEF StartCheck, LimitsTypeOK
  <2> QED BY <2>1, <1>2, <1>3 DEF ForgotPassword
<1>4. ASSUME NEW c \in Callers, CheckCooldown(c), step'[c] = "hourly",
             Goto(c, "hourly"), OfEmail(c, Cooldown) = {}
      PROVE  CooldownInvariant'
  <2>1. ASSUME NEW x \in granted, x.by = c, x.email = call[c].email
        PROVE  x.age > Cooldown
    <3>1. x \in Rows /\ x.age \in Nat /\ elapsed[c] \in Nat
      BY <1>t DEF LimitsTypeOK, Rows
    <3>2. CASE x \in rateLimitedRequest
      <4>1. x.age <= Cooldown + elapsed[c] => x \in OfEmail(c, Cooldown)
        BY <2>1, <3>2 DEF OfEmail, Within
      <4> QED BY <4>1, <3>1, <1>4
    <3>3. CASE x \notin rateLimitedRequest
      <4>1. ~(x.age <= Day) BY <3>3 DEF CooldownInvariant, DayKept
      <4> QED BY <4>1, <3>1
    <3> QED BY <3>2, <3>3
  <2>2. Passed(c)'
    BY <2>1, <1>4, <1>t DEF Goto, Passed, LimitsTypeOK
  <2> QED BY <2>2, <1>1, <1>4, <1>t DEF Goto, LimitsTypeOK
<1>5. ASSUME NEW c \in Callers, CheckHourly(c) PROVE CooldownInvariant'
  <2>1. CASE Goto(c, "daily")
    <3>1. Passed(c)'
      BY <2>1, <1>5, <1>t DEF Goto, CheckHourly, CooldownInvariant, Passed, LimitsTypeOK
    <3> QED BY <3>1, <2>1, <1>1, <1>t DEF Goto, LimitsTypeOK
  <2> QED BY <2>1, <1>2, <1>5 DEF CheckHourly
<1>6. ASSUME NEW c \in Callers, CheckDaily(c) PROVE CooldownInvariant'
  <2>1. CASE Leave(c) BY <2>1, <1>2
  <2>2. CASE ~Leave(c)
    <3>1. Passed(c)'
      BY <2>2, <1>6, <1>t
      DEF CheckDaily, CooldownInvariant, Passed, LimitsTypeOK, Rows, OldAge
    <3> QED BY <3>1, <2>2, <1>1, <1>6, <1>t DEF CheckDaily, LimitsTypeOK
  <2> QED BY <2>1, <2>2
<1>7. ASSUME NEW c \in Callers, Record(c) PROVE CooldownInvariant'
  <2> DEFINE row == [email |-> call[c].email, ip |-> call[c].ip, by |-> c, age |-> 0]
  <2>0. /\ rateLimitedRequest' = rateLimitedRequest \cup {row}
        /\ granted' = granted \cup {row}
        /\ step' = [step EXCEPT ![c] = "allowed"] /\ UNCHANGED <<call, elapsed>>
        /\ step[c] = "record"
    BY <1>7 DEF Record
  <2>r. row.by = c /\ row.email = call[c].email /\ row.age = 0
    OBVIOUS
  <2> HIDE DEF row
  <2>1. CooldownPerCaller'
    <3>1. ASSUME NEW x \in granted, x.age <= Cooldown, x.by = row.by PROVE x.email # row.email
      <4>1. x.age \in Int BY <1>t DEF LimitsTypeOK, Rows
      <4> QED BY <4>1, <3>1, <2>0, <2>r DEF CooldownInvariant, Passed
    <3> QED BY <3>1, <2>0 DEF CooldownInvariant, CooldownPerCaller, Recent
  <2>2. ASSUME NEW d \in Callers PROVE Passed(d)'
    BY <2>0, <2>r, <1>t DEF CooldownInvariant, Passed, LimitsTypeOK
  <2>3. DayKept' BY <2>0 DEF CooldownInvariant, DayKept
  <2> QED BY <2>1, <2>2, <2>3, <1>0 DEF CooldownInvariant
<1>8. CASE Tick
  <2>1. ASSUME NEW y \in granted'
        PROVE  \E x \in granted :
                 /\ y = [x EXCEPT !.age = @ + 1] /\ y.email = x.email /\ y.by = x.by
                 /\ y.age = x.age + 1 /\ x.age \in Nat /\ y.age <= Day
    BY <1>8, <2>1, <1>t DEF Tick, Older, LimitsTypeOK, Rows
  <2>2. CooldownPerCaller'
    BY <2>1 DEF CooldownInvariant, CooldownPerCaller, Recent
  <2>3. ASSUME NEW d \in Callers PROVE Passed(d)'
    BY <2>1, <1>8 DEF Tick, CooldownInvariant, Passed
  <2>4. DayKept'
    <3> SUFFICES ASSUME NEW y \in granted' PROVE y \in rateLimitedRequest'
      BY DEF DayKept
    <3>1. PICK x \in granted :
            y = [x EXCEPT !.age = @ + 1] /\ x.age \in Nat /\ x.age + 1 <= Day
      BY <2>1
    <3>2. x \in rateLimitedRequest /\ x.age < OldAge
      BY <3>1 DEF CooldownInvariant, DayKept, OldAge
    <3> QED BY <3>1, <3>2, <1>8 DEF Tick, Older
  <2> QED BY <2>2, <2>3, <2>4, <1>0 DEF CooldownInvariant
<1>9. CASE CleanupExpiredRateLimits
  BY <1>9, <1>0 DEF CleanupExpiredRateLimits, CooldownInvariant, CooldownPerCaller,
                    DayKept, Recent, Passed
<1>10. CASE UNCHANGED limitVars
  BY <1>10, <1>0 DEF limitVars, CooldownInvariant, CooldownPerCaller, DayKept, Recent,
                     Passed
<1>11. ASSUME NEW c \in Callers, CheckCooldown(c) PROVE CooldownInvariant'
  BY <1>11, <1>2, <1>4 DEF CheckCooldown, Goto, LimitsTypeOK, CooldownInvariant
<1>12. ASSUME NEW c \in Callers, SkipLimits(c) PROVE CooldownInvariant'
  <2>1. Passed(c)' BY <1>12, <1>t DEF SkipLimits, Goto, Passed, LimitsTypeOK
  <2> QED BY <2>1, <1>1, <1>12, <1>t DEF SkipLimits, Goto, LimitsTypeOK
<1> QED
  BY <1>2, <1>3, <1>5, <1>6, <1>7, <1>8, <1>9, <1>10, <1>11, <1>12
  DEF LimitsNext, CheckLimits, Fail

\* No request of one caller is let through within the cooldown of another of
\* its own for the same email (checkRateLimit and the create of its callers).
THEOREM OwnCooldownHolds == LimitsSpec => []CooldownPerCaller
<1>1. LimitsInit => CooldownInvariant
  BY WindowsAssumption
  DEF LimitsInit, CooldownInvariant, CooldownPerCaller, DayKept, Recent, Passed,
      LimitsTypeOK, Checking, Calls
<1>2. CooldownInvariant => CooldownPerCaller BY DEF CooldownInvariant
<1> QED BY <1>1, <1>2, CooldownNext, PTL DEF LimitsSpec

\* The limiter's state keeps its types.
THEOREM LimitsTypeCorrect == LimitsSpec => []LimitsTypeOK
<1>1. LimitsInit => LimitsTypeOK
  BY WindowsAssumption DEF LimitsInit, LimitsTypeOK, Checking, Calls
<1> QED BY <1>1, LimitsTypes, PTL DEF LimitsSpec

-----------------------------------------------------------------------------
\* The requests of an email stored in the last hour, of an ip in the last day,
\* and the callers that were counted against them and have still to store theirs.
StoredOf(e) == {x \in Recent(Hour) : x.email = e}
StoredFrom(i) == {x \in Recent(Day) : x.ip = i}
PassedHourly(e) == {c \in Callers : step[c] \in {"daily", "record"} /\ call[c].email = e}
PassedDaily(i) == {c \in Callers : step[c] = "record" /\ call[c].ip = i}

\* A caller that may still store is part of the overrun its row would cause.
HourlyRoom ==
  \A e \in Emails :
    Cardinality(StoredOf(e)) + Cardinality(PassedHourly(e))
      <= HourlyMax + Cardinality(Callers) - 1
DailyRoom ==
  \A i \in Ips :
    Cardinality(StoredFrom(i)) + Cardinality(PassedDaily(i))
      <= DailyMax + Cardinality(Callers) - 1

OverrunInvariant ==
  /\ CooldownInvariant
  /\ IsFiniteSet(rateLimitedRequest) /\ IsFiniteSet(granted)
  /\ HourlyRoom /\ DailyRoom

\* A sum of two cardinalities does not grow when neither set does.
LEMMA SumOfSubsets ==
  ASSUME NEW S, NEW T, IsFiniteSet(S), IsFiniteSet(T),
         NEW S0 \in SUBSET S, NEW T0 \in SUBSET T, NEW n \in Int,
         Cardinality(S) + Cardinality(T) <= n
  PROVE  Cardinality(S0) + Cardinality(T0) <= n
<1>1. /\ Cardinality(S) \in Nat /\ Cardinality(S0) \in Nat
      /\ Cardinality(S0) <= Cardinality(S)
  BY FS_Subset, FS_CardinalityType
<1>2. /\ Cardinality(T) \in Nat /\ Cardinality(T0) \in Nat
      /\ Cardinality(T0) <= Cardinality(T)
  BY FS_Subset, FS_CardinalityType
<1> QED BY <1>1, <1>2

\* Nor when one element moves from the second set to the first.
LEMMA SumOfMoved ==
  ASSUME NEW S, NEW T, NEW x, NEW c \in T, IsFiniteSet(S), IsFiniteSet(T),
         NEW n \in Int, Cardinality(S) + Cardinality(T) <= n
  PROVE  Cardinality(S \cup {x}) + Cardinality(T \ {c}) <= n
<1>1. /\ Cardinality(S) \in Nat
      /\ Cardinality(S \cup {x}) = IF x \in S THEN Cardinality(S) ELSE Cardinality(S) + 1
  BY FS_AddElement, FS_CardinalityType
<1>2. Cardinality(T) \in Nat /\ Cardinality(T \ {c}) = Cardinality(T) - 1
  BY FS_RemoveElement, FS_CardinalityType
<1> QED BY <1>1, <1>2

\* A limit that was not reached leaves room for every caller's row.
LEMMA SumBelowLimit ==
  ASSUME NEW S, NEW C, IsFiniteSet(C), NEW S0 \in SUBSET C, NEW max \in Nat,
         Cardinality(C) < max, NEW T0 \in SUBSET Callers
  PROVE  Cardinality(S0) + Cardinality(T0) <= max + Cardinality(Callers) - 1
<1>1. /\ Cardinality(C) \in Nat /\ Cardinality(S0) \in Nat
      /\ Cardinality(S0) <= Cardinality(C)
  BY FS_Subset, FS_CardinalityType
<1>2. /\ Cardinality(Callers) \in Nat /\ Cardinality(T0) \in Nat
      /\ Cardinality(T0) <= Cardinality(Callers)
  BY FS_Subset, FS_CardinalityType, CallersAssumption
<1> QED BY <1>1, <1>2

\* Rows that grow older do not become more.
LEMMA OlderIsNoMore ==
  ASSUME NEW S, NEW T, IsFiniteSet(S),
         \A y \in T : \E x \in S : y = [x EXCEPT !.age = x.age + 1]
  PROVE  IsFiniteSet(T) /\ Cardinality(T) <= Cardinality(S)
<1> DEFINE younger == [y \in T |-> CHOOSE x \in S : y = [x EXCEPT !.age = x.age + 1]]
<1>1. ASSUME NEW y \in T
      PROVE  /\ younger[y] \in S
             /\ y = [younger[y] EXCEPT !.age = younger[y].age + 1]
  OBVIOUS
<1>2. younger \in Injection(T, S)
  <2> HIDE DEF younger
  <2>1. younger \in [T -> S] BY <1>1 DEF younger
  <2>2. \A y, z \in T : younger[y] = younger[z] => y = z BY <1>1
  <2> QED BY <2>1, <2>2 DEF Injection, IsInjective
<1> QED BY <1>2, FS_Injection

\* The room of an email is there as long as neither its rows nor the callers
\* counted against them become more.
LEMMA HourlyKept ==
  ASSUME OverrunInvariant, NEW e \in Emails,
         Cardinality(StoredOf(e))' \in Nat,
         Cardinality(StoredOf(e))' <= Cardinality(StoredOf(e)),
         PassedHourly(e)' \subseteq PassedHourly(e)
  PROVE  Cardinality(StoredOf(e))' + Cardinality(PassedHourly(e))'
           <= HourlyMax + Cardinality(Callers) - 1
<1>1. Cardinality(StoredOf(e)) + Cardinality(PassedHourly(e))
        <= HourlyMax + Cardinality(Callers) - 1
  BY DEF OverrunInvariant, HourlyRoom
<1>2. IsFiniteSet(StoredOf(e)) /\ IsFiniteSet(PassedHourly(e))
  BY FS_Subset, CallersAssumption DEF OverrunInvariant, StoredOf, Recent, PassedHourly
<1>3. /\ Cardinality(PassedHourly(e))' \in Nat /\ Cardinality(PassedHourly(e)) \in Nat
      /\ Cardinality(PassedHourly(e))' <= Cardinality(PassedHourly(e))
  BY <1>2, FS_Subset, FS_CardinalityType
<1>4. /\ Cardinality(StoredOf(e)) \in Nat
      /\ HourlyMax + Cardinality(Callers) - 1 \in Int
  BY <1>2, FS_CardinalityType, CallersAssumption, WindowsAssumption
<1> QED BY <1>1, <1>3, <1>4

\* Likewise for an ip.
LEMMA DailyKept ==
  ASSUME OverrunInvariant, NEW i \in Ips,
         Cardinality(StoredFrom(i))' \in Nat,
         Cardinality(StoredFrom(i))' <= Cardinality(StoredFrom(i)),
         PassedDaily(i)' \subseteq PassedDaily(i)
  PROVE  Cardinality(StoredFrom(i))' + Cardinality(PassedDaily(i))'
           <= DailyMax + Cardinality(Callers) - 1
<1>1. Cardinality(StoredFrom(i)) + Cardinality(PassedDaily(i))
        <= DailyMax + Cardinality(Callers) - 1
  BY DEF OverrunInvariant, DailyRoom
<1>2. IsFiniteSet(StoredFrom(i)) /\ IsFiniteSet(PassedDaily(i))
  BY FS_Subset, CallersAssumption DEF OverrunInvariant, StoredFrom, Recent, PassedDaily
<1>3. /\ Cardinality(PassedDaily(i))' \in Nat /\ Cardinality(PassedDaily(i)) \in Nat
      /\ Cardinality(PassedDaily(i))' <= Cardinality(PassedDaily(i))
  BY <1>2, FS_Subset, FS_CardinalityType
<1>4. /\ Cardinality(StoredFrom(i)) \in Nat
      /\ DailyMax + Cardinality(Callers) - 1 \in Int
  BY <1>2, FS_CardinalityType, CallersAssumption, WindowsAssumption
<1> QED BY <1>1, <1>3, <1>4

\* A step that stores nothing keeps the sets of rows.
LEMMA StoredUnchanged ==
  ASSUME OverrunInvariant, granted' = granted
  PROVE  /\ \A e \in Emails : /\ StoredOf(e)' = StoredOf(e)
                              /\ Cardinality(StoredOf(e)) \in Nat
         /\ \A i \in Ips : /\ StoredFrom(i)' = StoredFrom(i)
                           /\ Cardinality(StoredFrom(i)) \in Nat
<1>1. ASSUME NEW e \in Emails PROVE Cardinality(StoredOf(e)) \in Nat
  BY FS_Subset, FS_CardinalityType DEF OverrunInvariant, StoredOf, Recent
<1>2. ASSUME NEW i \in Ips PROVE Cardinality(StoredFrom(i)) \in Nat
  BY FS_Subset, FS_CardinalityType DEF OverrunInvariant, StoredFrom, Recent
<1> QED BY <1>1, <1>2 DEF StoredOf, StoredFrom, Recent

\* A step that counts no caller anew and stores nothing keeps the room.
LEMMA RoomKept ==
  ASSUME CooldownInvariant', OverrunInvariant,
         rateLimitedRequest' \subseteq rateLimitedRequest, granted' = granted,
         \A e \in Emails : PassedHourly(e)' \subseteq PassedHourly(e),
         \A i \in Ips : PassedDaily(i)' \subseteq PassedDaily(i)
  PROVE  OverrunInvariant'
<1>1. IsFiniteSet(rateLimitedRequest)' /\ IsFiniteSet(granted)'
  BY FS_Subset DEF OverrunInvariant
<1>2. HourlyRoom'
  <2>1. ASSUME NEW e \in Emails
        PROVE  Cardinality(StoredOf(e))' + Cardinality(PassedHourly(e))'
                 <= HourlyMax + Cardinality(Callers) - 1
    <3>1. /\ StoredOf(e)' = StoredOf(e) /\ Cardinality(StoredOf(e)) \in Nat
      BY StoredUnchanged
    <3> QED BY <3>1, HourlyKept
  <2> QED BY <2>1 DEF HourlyRoom
<1>3. DailyRoom'
  <2>1. ASSUME NEW i \in Ips
        PROVE  Cardinality(StoredFrom(i))' + Cardinality(PassedDaily(i))'
                 <= DailyMax + Cardinality(Callers) - 1
    <3>1. /\ StoredFrom(i)' = StoredFrom(i) /\ Cardinality(StoredFrom(i)) \in Nat
      BY StoredUnchanged
    <3> QED BY <3>1, DailyKept
  <2> QED BY <2>1 DEF DailyRoom
<1> QED BY <1>1, <1>2, <1>3 DEF OverrunInvariant

\* The hourly check: what it counted holds every row of the last hour.
LEMMA CheckHourlyRoom ==
  ASSUME OverrunInvariant, CooldownInvariant', NEW c \in Callers, CheckHourly(c),
         Goto(c, "daily")
  PROVE  OverrunInvariant'
<1>t. LimitsTypeOK BY DEF OverrunInvariant, CooldownInvariant
<1>0. /\ step[c] = "hourly" /\ step' = [step EXCEPT ![c] = "daily"]
      /\ Cardinality(OfEmail(c, Hour)) < HourlyMax
      /\ UNCHANGED <<rateLimitedRequest, call, elapsed, granted>>
  BY <1>t DEF CheckHourly, Goto, Leave, LimitsTypeOK
<1>1. IsFiniteSet(rateLimitedRequest)' /\ IsFiniteSet(granted)'
  BY <1>0 DEF OverrunInvariant
<1>2. HourlyRoom'
  <2>1. ASSUME NEW e \in Emails
        PROVE  Cardinality(StoredOf(e))' + Cardinality(PassedHourly(e))'
                 <= HourlyMax + Cardinality(Callers) - 1
    <3>1. StoredOf(e)' = StoredOf(e) /\ Cardinality(StoredOf(e)) \in Nat
      BY <1>0, StoredUnchanged
    <3>2. CASE e = call[c].email
      <4>1. StoredOf(e) \subseteq OfEmail(c, Hour)
        <5> SUFFICES ASSUME NEW x \in granted, x.age <= Hour, x.email = call[c].email
                     PROVE  x \in rateLimitedRequest /\ x.age <= Hour + elapsed[c]
          BY <3>2 DEF StoredOf, Recent, OfEmail, Within
        <5>1. x.age \in Int /\ elapsed[c] \in Nat BY <1>t DEF LimitsTypeOK, Rows
        <5>2. x.age <= Day BY <5>1, WindowsAssumption
        <5> QED BY <5>1, <5>2, WindowsAssumption DEF OverrunInvariant, CooldownInvariant, DayKept
      <4>2. IsFiniteSet(OfEmail(c, Hour))
        BY FS_Subset DEF OverrunInvariant, OfEmail, Within
      <4>3. PassedHourly(e)' \subseteq Callers BY DEF PassedHourly
      <4>4. HourlyMax \in Nat BY WindowsAssumption
      <4> QED BY <3>1, <4>1, <4>2, <4>3, <4>4, <1>0, SumBelowLimit
    <3>3. CASE e # call[c].email
      <4>1. PassedHourly(e)' \subseteq PassedHourly(e)
        BY <1>0, <1>t, <3>3 DEF PassedHourly, LimitsTypeOK
      <4> QED BY <4>1, <3>1, HourlyKept
    <3> QED BY <3>2, <3>3
  <2> QED BY <2>1 DEF HourlyRoom
<1>3. DailyRoom'
  <2>1. ASSUME NEW i \in Ips
        PROVE  Cardinality(StoredFrom(i))' + Cardinality(PassedDaily(i))'
                 <= DailyMax + Cardinality(Callers) - 1
    <3>1. /\ StoredFrom(i)' = StoredFrom(i) /\ Cardinality(StoredFrom(i)) \in Nat
      BY <1>0, StoredUnchanged
    <3>2. PassedDaily(i)' \subseteq PassedDaily(i)
      BY <1>0, <1>t DEF PassedDaily, LimitsTypeOK
    <3> QED BY <3>1, <3>2, DailyKept
  <2> QED BY <2>1 DEF DailyRoom
<1> QED BY <1>1, <1>2, <1>3 DEF OverrunInvariant

\* The daily check likewise, for the rows of the last day.
LEMMA CheckDailyRoom ==
  ASSUME OverrunInvariant, CooldownInvariant', NEW c \in Callers, CheckDaily(c),
         ~Leave(c)
  PROVE  OverrunInvariant'
<1>t. LimitsTypeOK BY DEF OverrunInvariant, CooldownInvariant
<1>0. /\ step[c] = "daily" /\ step' = [step EXCEPT ![c] = "record"]
      /\ Cardinality(OfIp(c, Day)) < DailyMax
      /\ UNCHANGED <<rateLimitedRequest, call, granted>>
  BY DEF CheckDaily
<1>1. IsFiniteSet(rateLimitedRequest)' /\ IsFiniteSet(granted)'
  BY <1>0 DEF OverrunInvariant
<1>2. HourlyRoom'
  <2>1. ASSUME NEW e \in Emails
        PROVE  Cardinality(StoredOf(e))' + Cardinality(PassedHourly(e))'
                 <= HourlyMax + Cardinality(Callers) - 1
    <3>1. StoredOf(e)' = StoredOf(e) /\ Cardinality(StoredOf(e)) \in Nat
      BY <1>0, StoredUnchanged
    <3>2. PassedHourly(e)' \subseteq PassedHourly(e)
      BY <1>0, <1>t DEF PassedHourly, LimitsTypeOK
    <3> QED BY <3>1, <3>2, HourlyKept
  <2> QED BY <2>1 DEF HourlyRoom
<1>3. DailyRoom'
  <2>1. ASSUME NEW i \in Ips
        PROVE  Cardinality(StoredFrom(i))' + Cardinality(PassedDaily(i))'
                 <= DailyMax + Cardinality(Callers) - 1
    <3>1. /\ StoredFrom(i)' = StoredFrom(i) /\ Cardinality(StoredFrom(i)) \in Nat
      BY <1>0, StoredUnchanged
    <3>2. CASE i = call[c].ip
      <4>1. StoredFrom(i) \subseteq OfIp(c, Day)
        <5> SUFFICES ASSUME NEW x \in granted, x.age <= Day, x.ip = call[c].ip
                     PROVE  x \in rateLimitedRequest /\ x.age <= Day + elapsed[c]
          BY <3>2 DEF StoredFrom, Recent, OfIp, Within
        <5>1. x.age \in Int /\ elapsed[c] \in Nat BY <1>t DEF LimitsTypeOK, Rows
        <5> QED BY <5>1, WindowsAssumption DEF OverrunInvariant, CooldownInvariant, DayKept
      <4>2. IsFiniteSet(OfIp(c, Day)) BY FS_Subset DEF OverrunInvariant, OfIp, Within
      <4>3. PassedDaily(i)' \subseteq Callers BY DEF PassedDaily
      <4>4. DailyMax \in Nat BY WindowsAssumption
      <4> QED BY <3>1, <4>1, <4>2, <4>3, <4>4, <1>0, SumBelowLimit
    <3>3. CASE i # call[c].ip
      <4>1. PassedDaily(i)' \subseteq PassedDaily(i)
        BY <1>0, <1>t, <3>3 DEF PassedDaily, LimitsTypeOK
      <4> QED BY <4>1, <3>1, DailyKept
    <3> QED BY <3>2, <3>3
  <2> QED BY <2>1 DEF DailyRoom
<1> QED BY <1>1, <1>2, <1>3 DEF OverrunInvariant

\* A row is stored by a caller that was counted.
LEMMA RecordRoom ==
  ASSUME OverrunInvariant, CooldownInvariant', NEW c \in Callers, Record(c)
  PROVE  OverrunInvariant'
<1>t. LimitsTypeOK BY DEF OverrunInvariant, CooldownInvariant
<1> DEFINE row == [email |-> call[c].email, ip |-> call[c].ip, by |-> c, age |-> 0]
<1>0. /\ rateLimitedRequest' = rateLimitedRequest \cup {row}
      /\ granted' = granted \cup {row}
      /\ step' = [step EXCEPT ![c] = "allowed"] /\ UNCHANGED <<call, elapsed>>
      /\ step[c] = "record"
  BY DEF Record
<1>r. row.email = call[c].email /\ row.ip = call[c].ip /\ row.age = 0 OBVIOUS
<1> HIDE DEF row
<1>1. IsFiniteSet(rateLimitedRequest)' /\ IsFiniteSet(granted)'
  BY <1>0, FS_AddElement DEF OverrunInvariant
<1>f. /\ IsFiniteSet(granted) /\ IsFiniteSet(Callers)
      /\ HourlyMax + Cardinality(Callers) - 1 \in Int
      /\ DailyMax + Cardinality(Callers) - 1 \in Int
  BY FS_CardinalityType, CallersAssumption, WindowsAssumption DEF OverrunInvariant
<1>2. HourlyRoom'
  <2>1. ASSUME NEW e \in Emails
        PROVE  Cardinality(StoredOf(e))' + Cardinality(PassedHourly(e))'
                 <= HourlyMax + Cardinality(Callers) - 1
    <3>1. /\ IsFiniteSet(StoredOf(e)) /\ IsFiniteSet(PassedHourly(e))
          /\ Cardinality(StoredOf(e)) \in Nat
      BY <1>f, FS_Subset, FS_CardinalityType DEF StoredOf, Recent, PassedHourly
    <3>2. CASE e = call[c].email
      <4>1. StoredOf(e)' \subseteq StoredOf(e) \cup {row}
        BY <1>0 DEF StoredOf, Recent
      <4>2. PassedHourly(e)' \subseteq PassedHourly(e) \ {c}
        BY <1>0, <1>t DEF PassedHourly, LimitsTypeOK
      <4>3. c \in PassedHourly(e) BY <1>0, <3>2 DEF PassedHourly
      <4>4. Cardinality(StoredOf(e)) + Cardinality(PassedHourly(e))
              <= HourlyMax + Cardinality(Callers) - 1
        BY DEF OverrunInvariant, HourlyRoom
      <4>5. Cardinality(StoredOf(e) \cup {row}) + Cardinality(PassedHourly(e) \ {c})
              <= HourlyMax + Cardinality(Callers) - 1
        BY <4>3, <4>4, <3>1, <1>f, SumOfMoved
      <4>6. IsFiniteSet(StoredOf(e) \cup {row}) /\ IsFiniteSet(PassedHourly(e) \ {c})
        BY <3>1, FS_AddElement, FS_RemoveElement
      <4> QED BY <4>1, <4>2, <4>5, <4>6, <1>f, SumOfSubsets
    <3>3. CASE e # call[c].email
      <4>1. StoredOf(e)' = StoredOf(e) BY <1>0, <1>r, <3>3 DEF StoredOf, Recent
      <4>2. PassedHourly(e)' \subseteq PassedHourly(e)
        BY <1>0, <1>t DEF PassedHourly, LimitsTypeOK
      <4> QED BY <4>1, <4>2, <3>1, HourlyKept
    <3> QED BY <3>2, <3>3
  <2> QED BY <2>1 DEF HourlyRoom
<1>3. DailyRoom'
  <2>1. ASSUME NEW i \in Ips
        PROVE  Cardinality(StoredFrom(i))' + Cardinality(PassedDaily(i))'
                 <= DailyMax + Cardinality(Callers) - 1
    <3>1. /\ IsFiniteSet(StoredFrom(i)) /\ IsFiniteSet(PassedDaily(i))
          /\ Cardinality(StoredFrom(i)) \in Nat
      BY <1>f, FS_Subset, FS_CardinalityType DEF StoredFrom, Recent, PassedDaily
    <3>2. CASE i = call[c].ip
      <4>1. StoredFrom(i)' \subseteq StoredFrom(i) \cup {row}
        BY <1>0 DEF StoredFrom, Recent
      <4>2. PassedDaily(i)' \subseteq PassedDaily(i) \ {c}
        BY <1>0, <1>t DEF PassedDaily, LimitsTypeOK
      <4>3. c \in PassedDaily(i) BY <1>0, <3>2 DEF PassedDaily
      <4>4. Cardinality(StoredFrom(i)) + Cardinality(PassedDaily(i))
              <= DailyMax + Cardinality(Callers) - 1
        BY DEF OverrunInvariant, DailyRoom
      <4>5. Cardinality(StoredFrom(i) \cup {row}) + Cardinality(PassedDaily(i) \ {c})
              <= DailyMax + Cardinality(Callers) - 1
        BY <4>3, <4>4, <3>1, <1>f, SumOfMoved
      <4>6. IsFiniteSet(StoredFrom(i) \cup {row}) /\ IsFiniteSet(PassedDaily(i) \ {c})
        BY <3>1, FS_AddElement, FS_RemoveElement
      <4> QED BY <4>1, <4>2, <4>5, <4>6, <1>f, SumOfSubsets
    <3>3. CASE i # call[c].ip
      <4>1. StoredFrom(i)' = StoredFrom(i) BY <1>0, <1>r, <3>3 DEF StoredFrom, Recent
      <4>2. PassedDaily(i)' \subseteq PassedDaily(i)
        BY <1>0, <1>t DEF PassedDaily, LimitsTypeOK
      <4> QED BY <4>1, <4>2, <3>1, DailyKept
    <3> QED BY <3>2, <3>3
  <2> QED BY <2>1 DEF DailyRoom
<1> QED BY <1>1, <1>2, <1>3 DEF OverrunInvariant

\* The clock makes rows older, never more.
LEMMA TickRoom ==
  ASSUME OverrunInvariant, CooldownInvariant', Tick
  PROVE  OverrunInvariant'
<1>t. LimitsTypeOK BY DEF OverrunInvariant, CooldownInvariant
<1>0. /\ rateLimitedRequest' = Older(rateLimitedRequest)
      /\ granted' = {x \in Older(granted) : x.age <= Day}
      /\ UNCHANGED <<step, call>>
  BY DEF Tick
<1>o. ASSUME NEW S \in SUBSET Rows, NEW y \in Older(S)
      PROVE  \E x \in S : /\ y = [x EXCEPT !.age = x.age + 1] /\ x.age \in Nat
                          /\ y.age = x.age + 1 /\ y.email = x.email /\ y.ip = x.ip
  BY DEF Older, Rows
<1>1. IsFiniteSet(rateLimitedRequest)'
  <2>1. rateLimitedRequest \subseteq Rows /\ IsFiniteSet(rateLimitedRequest)
    BY <1>t DEF OverrunInvariant, LimitsTypeOK
  <2>2. \A y \in Older(rateLimitedRequest) :
          \E x \in rateLimitedRequest : y = [x EXCEPT !.age = x.age + 1]
    BY <2>1, <1>o
  <2> QED BY <2>1, <2>2, <1>0, OlderIsNoMore
<1>2. granted \subseteq Rows /\ IsFiniteSet(granted)
  BY <1>t DEF OverrunInvariant, LimitsTypeOK
<1>3. ASSUME NEW y \in granted'
      PROVE  \E x \in granted :
               /\ y = [x EXCEPT !.age = x.age + 1] /\ x.age \in Nat
               /\ y.age = x.age + 1 /\ y.email = x.email /\ y.ip = x.ip
  BY <1>0, <1>2, <1>3, <1>o
<1>4. IsFiniteSet(granted)'
  <2>1. \A y \in granted' : \E x \in granted : y = [x EXCEPT !.age = x.age + 1]
    BY <1>3
  <2> QED BY <2>1, <1>2, OlderIsNoMore
<1>5. HourlyRoom'
  <2>1. ASSUME NEW e \in Emails
        PROVE  Cardinality(StoredOf(e))' + Cardinality(PassedHourly(e))'
                 <= HourlyMax + Cardinality(Callers) - 1
    <3>1. ASSUME NEW y \in StoredOf(e)'
          PROVE  \E x \in StoredOf(e) : y = [x EXCEPT !.age = x.age + 1]
      <4>1. y \in granted' /\ y.age <= Hour /\ y.email = e
        BY <3>1 DEF StoredOf, Recent
      <4>2. PICK x \in granted :
              /\ y = [x EXCEPT !.age = x.age + 1] /\ x.age \in Nat
              /\ y.age = x.age + 1 /\ y.email = x.email
        BY <4>1, <1>3
      <4>3. x.age <= Hour BY <4>1, <4>2, WindowsAssumption
      <4> QED BY <4>1, <4>2, <4>3 DEF StoredOf, Recent
    <3>2. IsFiniteSet(StoredOf(e)) BY <1>2, FS_Subset DEF StoredOf, Recent
    <3>3. /\ IsFiniteSet(StoredOf(e)')
          /\ Cardinality(StoredOf(e)') <= Cardinality(StoredOf(e))
      BY <3>1, <3>2, OlderIsNoMore
    <3>4. Cardinality(StoredOf(e)') \in Nat BY <3>3, FS_CardinalityType
    <3>5. PassedHourly(e)' \subseteq PassedHourly(e) BY <1>0 DEF PassedHourly
    <3> QED BY <3>3, <3>4, <3>5, HourlyKept
  <2> QED BY <2>1 DEF HourlyRoom
<1>6. DailyRoom'
  <2>1. ASSUME NEW i \in Ips
        PROVE  Cardinality(StoredFrom(i))' + Cardinality(PassedDaily(i))'
                 <= DailyMax + Cardinality(Callers) - 1
    <3>1. ASSUME NEW y \in StoredFrom(i)'
          PROVE  \E x \in StoredFrom(i) : y = [x EXCEPT !.age = x.age + 1]
      <4>1. y \in granted' /\ y.age <= Day /\ y.ip = i
        BY <3>1 DEF StoredFrom, Recent
      <4>2. PICK x \in granted :
              /\ y = [x EXCEPT !.age = x.age + 1] /\ x.age \in Nat
              /\ y.age = x.age + 1 /\ y.ip = x.ip
        BY <4>1, <1>3
      <4>3. x.age <= Day BY <4>1, <4>2, WindowsAssumption
      <4> QED BY <4>1, <4>2, <4>3 DEF StoredFrom, Recent
    <3>2. IsFiniteSet(StoredFrom(i)) BY <1>2, FS_Subset DEF StoredFrom, Recent
    <3>3. /\ IsFiniteSet(StoredFrom(i)')
          /\ Cardinality(StoredFrom(i)') <= Cardinality(StoredFrom(i))
      BY <3>1, <3>2, OlderIsNoMore
    <3>4. Cardinality(StoredFrom(i)') \in Nat BY <3>3, FS_CardinalityType
    <3>5. PassedDaily(i)' \subseteq PassedDaily(i) BY <1>0 DEF PassedDaily
    <3> QED BY <3>3, <3>4, <3>5, DailyKept
  <2> QED BY <2>1 DEF DailyRoom
<1> QED BY <1>1, <1>4, <1>5, <1>6 DEF OverrunInvariant

\* No step overruns a limit by more than the callers in flight.
LEMMA OverrunNext ==
  OverrunInvariant /\ [LimitsNext]_limitVars => OverrunInvariant'
<1> SUFFICES ASSUME OverrunInvariant, [LimitsNext]_limitVars PROVE OverrunInvariant'
  OBVIOUS
<1>0. CooldownInvariant' BY CooldownNext DEF OverrunInvariant
<1>t. LimitsTypeOK BY DEF OverrunInvariant, CooldownInvariant
<1>1. ASSUME NEW c \in Callers, rateLimitedRequest' = rateLimitedRequest, granted' = granted,
             step'[c] \notin {"daily", "record"},
             \A d \in Callers \ {c} : step'[d] = step[d] /\ call'[d] = call[d]
      PROVE  OverrunInvariant'
  <2>1. \A e \in Emails : PassedHourly(e)' \subseteq PassedHourly(e)
    BY <1>1 DEF PassedHourly
  <2>2. \A i \in Ips : PassedDaily(i)' \subseteq PassedDaily(i)
    BY <1>1 DEF PassedDaily
  <2> QED BY <2>1, <2>2, <1>0, <1>1, RoomKept
<1>2. ASSUME NEW c \in Callers, Leave(c) PROVE OverrunInvariant'
  BY <1>1, <1>2, <1>t DEF Leave, LimitsTypeOK
<1>3. ASSUME NEW c \in Callers, ForgotPassword(c) PROVE OverrunInvariant'
  <2>1. CASE \E email \in Emails, ip \in Ips : StartCheck(c, email, ip)
    BY <2>1, <1>1, <1>t DEF StartCheck, LimitsTypeOK
  <2> QED BY <2>1, <1>2, <1>3 DEF ForgotPassword
<1>4. ASSUME NEW c \in Callers, CheckCooldown(c) PROVE OverrunInvariant'
  <2>1. CASE Goto(c, "hourly") BY <2>1, <1>1, <1>t DEF Goto, LimitsTypeOK
  <2> QED BY <2>1, <1>2, <1>4 DEF CheckCooldown
<1>5. ASSUME NEW c \in Callers, CheckHourly(c) PROVE OverrunInvariant'
  <2>1. CASE Goto(c, "daily") BY <2>1, <1>0, <1>5, CheckHourlyRoom
  <2> QED BY <2>1, <1>2, <1>5 DEF CheckHourly
<1>6. ASSUME NEW c \in Callers, CheckDaily(c) PROVE OverrunInvariant'
  BY <1>6, <1>0, <1>2, CheckDailyRoom
<1>7. ASSUME NEW c \in Callers, Record(c) PROVE OverrunInvariant'
  BY <1>7, <1>0, RecordRoom
<1>8. ASSUME NEW c \in Callers, SkipLimits(c) PROVE OverrunInvariant'
  BY <1>8, <1>1, <1>t DEF SkipLimits, Goto, LimitsTypeOK
<1>9. CASE Tick BY <1>9, <1>0, TickRoom
<1>10. ASSUME rateLimitedRequest' \subseteq rateLimitedRequest,
              UNCHANGED <<step, call, granted>>
       PROVE  OverrunInvariant'
  BY <1>10, <1>0, RoomKept DEF PassedHourly, PassedDaily
<1>11. CASE CleanupExpiredRateLimits
  BY <1>11, <1>10 DEF CleanupExpiredRateLimits
<1>12. CASE UNCHANGED limitVars BY <1>12, <1>10 DEF limitVars
<1> QED
  BY <1>2, <1>3, <1>4, <1>5, <1>6, <1>7, <1>8, <1>9, <1>11, <1>12
  DEF LimitsNext, CheckLimits, Fail

\* Nothing is stored, and nobody counted, at the start.
LEMMA OverrunInit == LimitsInit => OverrunInvariant
<1> SUFFICES ASSUME LimitsInit PROVE OverrunInvariant OBVIOUS
<1>1. CooldownInvariant
  BY WindowsAssumption
  DEF LimitsInit, CooldownInvariant, CooldownPerCaller, DayKept, Recent, Passed,
      LimitsTypeOK, Checking, Calls
<1>2. /\ \A e \in Emails : StoredOf(e) = {} /\ PassedHourly(e) = {}
      /\ \A i \in Ips : StoredFrom(i) = {} /\ PassedDaily(i) = {}
  BY DEF LimitsInit, StoredOf, PassedHourly, StoredFrom, PassedDaily, Recent
<1>3. Cardinality(Callers) \in Nat /\ Cardinality(Callers) # 0
  BY CallersAssumption, FS_EmptySet, FS_CardinalityType
<1>4. /\ IsFiniteSet({}) /\ Cardinality({}) = 0
  BY FS_EmptySet
<1>m. HourlyMax \in Nat /\ DailyMax \in Nat BY WindowsAssumption
<1>5. HourlyRoom
  <2>1. ASSUME NEW e \in Emails
        PROVE  Cardinality(StoredOf(e)) = 0 /\ Cardinality(PassedHourly(e)) = 0
    BY <1>2, <1>4
  <2> QED BY <2>1, <1>3, <1>m DEF HourlyRoom
<1>6. DailyRoom
  <2>1. ASSUME NEW i \in Ips
        PROVE  Cardinality(StoredFrom(i)) = 0 /\ Cardinality(PassedDaily(i)) = 0
    BY <1>2, <1>4
  <2> QED BY <2>1, <1>3, <1>m DEF DailyRoom
<1> QED BY <1>1, <1>4, <1>5, <1>6 DEF OverrunInvariant, LimitsInit

\* The limits an email and an ip have are overrun by at most the calls that
\* were in flight at once (checkRateLimit counts, its callers store later).
THEOREM HourlyOverrun == LimitsSpec => []HourlyBounded
<1>1. OverrunInvariant => HourlyBounded
  <2> SUFFICES ASSUME OverrunInvariant, NEW e \in Emails
               PROVE  Cardinality(StoredOf(e)) <= HourlyMax + Cardinality(Callers) - 1
    BY DEF HourlyBounded, StoredOf
  <2>1. Cardinality(StoredOf(e)) \in Nat /\ Cardinality(PassedHourly(e)) \in Nat
    BY FS_Subset, FS_CardinalityType, CallersAssumption
    DEF OverrunInvariant, StoredOf, Recent, PassedHourly
  <2>2. HourlyMax + Cardinality(Callers) - 1 \in Int
    BY FS_CardinalityType, CallersAssumption, WindowsAssumption
  <2> QED BY <2>1, <2>2 DEF OverrunInvariant, HourlyRoom
<1> QED BY <1>1, OverrunInit, OverrunNext, PTL DEF LimitsSpec

\* Likewise the daily limit of an ip, though the cleanup deletes rows meanwhile.
THEOREM DailyOverrun == LimitsSpec => []DailyBounded
<1>1. OverrunInvariant => DailyBounded
  <2> SUFFICES ASSUME OverrunInvariant, NEW i \in Ips
               PROVE  Cardinality(StoredFrom(i)) <= DailyMax + Cardinality(Callers) - 1
    BY DEF DailyBounded, StoredFrom
  <2>1. Cardinality(StoredFrom(i)) \in Nat /\ Cardinality(PassedDaily(i)) \in Nat
    BY FS_Subset, FS_CardinalityType, CallersAssumption
    DEF OverrunInvariant, StoredFrom, Recent, PassedDaily
  <2>2. DailyMax + Cardinality(Callers) - 1 \in Int
    BY FS_CardinalityType, CallersAssumption, WindowsAssumption
  <2> QED BY <2>1, <2>2 DEF OverrunInvariant, DailyRoom
<1> QED BY <1>1, OverrunInit, OverrunNext, PTL DEF LimitsSpec
=============================================================================
