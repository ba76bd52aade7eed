---------------------------- MODULE RateLimits ----------------------------
(***************************************************************************)
(* AuthService.checkRateLimit, the row its callers store once it lets them *)
(* through, and the hourly cleanup of those rows.  The check is three      *)
(* queries and the row is stored by a fourth statement: nothing holds      *)
(* other callers off in between.                                           *)
(*                                                                         *)
(* Time passes in ticks.  A stored row carries its age rather than its     *)
(* createdAt, and a caller how long ago it read the clock: the code takes  *)
(* `now' once, before its three queries.  Windows are in ticks as well.    *)
(* Rows of different request types never meet, so one type is modelled.    *)
(***************************************************************************)
EXTENDS Integers, FiniteSets

CONSTANTS
  Callers,      \* concurrent calls of the limited endpoints
  Emails, Ips,
  Cooldown,     \* RATE_LIMIT_COOLDOWN_MS
  Hour, Day,
  HourlyMax,    \* RATE_LIMIT_HOURLY_MAX
  DailyMax,     \* RATE_LIMIT_DAILY_MAX_PER_IP
  MaxSpan,      \* bound: ticks a caller may take from its clock to its last query
  NoCall

ASSUME WindowsAssumption ==
  /\ {Cooldown, Hour, Day, HourlyMax, DailyMax, MaxSpan} \subseteq Nat
  /\ Cooldown <= Hour /\ Hour <= Day

ASSUME CallersAssumption ==
  /\ IsFiniteSet(Callers) /\ Callers # {}
  /\ NoCall \notin [email : Emails, ip : Ips]

VARIABLES
  rateLimitedRequest,  \* the rows stored: [email, ip, by, age]
  step,                \* the query each caller executes next
  call,                \* its email and ip
  elapsed,             \* ticks since it read the clock
  granted              \* history: the rows stored in the last day, deleted or not

limitVars == <<rateLimitedRequest, step, call, elapsed, granted>>

\* No query reaches back further: older rows are left out of the state.
OldAge == Day + MaxSpan

\* `by' is no column: it tells apart rows that agree on all others.
Rows == [email : Emails, ip : Ips, by : Callers, age : 0..OldAge]
Calls == [email : Emails, ip : Ips]

\* A caller whose clock reading is still to be used.
Checking == {"cooldown", "hourly", "daily"}

LimitsTypeOK ==
  /\ rateLimitedRequest \subseteq Rows /\ granted \subseteq Rows
  /\ step \in [Callers -> Checking \cup {"idle", "record", "allowed"}]
  /\ call \in [Callers -> Calls \cup {NoCall}]
  /\ \A c \in Callers :
       step[c] \in Checking \cup {"record"} => call[c] \in Calls
  /\ elapsed \in [Callers -> 0..MaxSpan]

-----------------------------------------------------------------------------
LimitsInit ==
  /\ rateLimitedRequest = {} /\ granted = {}
  /\ step = [c \in Callers |-> "idle"]
  /\ call = [c \in Callers |-> NoCall]
  /\ elapsed = [c \in Callers |-> 0]

Goto(c, next) ==
  /\ step' = [step EXCEPT ![c] = next]
  /\ UNCHANGED <<rateLimitedRequest, call, elapsed, granted>>

\* The call is answered: 429, another error, or success.
Leave(c) ==
  /\ step' = [step EXCEPT ![c] = "idle"]
  /\ call' = [call EXCEPT ![c] = NoCall]
  /\ elapsed' = [elapsed EXCEPT ![c] = 0]
  /\ UNCHANGED <<rateLimitedRequest, granted>>

StartCheck(c, email, ip) ==
  /\ step[c] = "idle"
  /\ step' = [step EXCEPT ![c] = "cooldown"]
  /\ call' = [call EXCEPT ![c] = [email |-> email, ip |-> ip]]
  /\ UNCHANGED <<rateLimitedRequest, elapsed, granted>>

\* createdAt >= now - window, for the `now' the caller read.
Within(c, window) ==
  {x \in rateLimitedRequest : x.age <= window + elapsed[c]}

OfEmail(c, window) == {x \in Within(c, window) : x.email = call[c].email}
OfIp(c, window) == {x \in Within(c, window) : x.ip = call[c].ip}

\* (mutated form: the cooldown of one address is looked up by its ip as well)
CheckCooldown_PerIp(c) ==
  /\ step[c] = "cooldown"
  /\ IF OfEmail(c, Cooldown) \cap OfIp(c, Cooldown) = {}
     THEN Goto(c, "hourly") ELSE Leave(c)

CheckCooldown(c) ==
  /\ step[c] = "cooldown"
  /\ IF OfEmail(c, Cooldown) = {} THEN Goto(c, "hourly") ELSE Leave(c)

\* (mutated form: one request too many)
CheckHourly_OffByOne(c) ==
  /\ step[c] = "hourly"
  /\ IF Cardinality(OfEmail(c, Hour)) <= HourlyMax
     THEN Goto(c, "daily") ELSE Leave(c)

CheckHourly(c) ==
  /\ step[c] = "hourly"
  /\ IF Cardinality(OfEmail(c, Hour)) < HourlyMax
     THEN Goto(c, "daily") ELSE Leave(c)

CheckDaily(c) ==
  /\ step[c] = "daily"
  /\ IF Cardinality(OfIp(c, Day)) < DailyMax
     THEN /\ step' = [step EXCEPT ![c] = "record"]
          /\ elapsed' = [elapsed EXCEPT ![c] = 0]
          /\ UNCHANGED <<rateLimitedRequest, call, granted>>
     ELSE Leave(c)

\* The caller's create, with the database's clock.
Record(c) ==
  /\ step[c] = "record"
  /\ LET row == [email |-> call[c].email, ip |-> call[c].ip, by |-> c, age |-> 0]
     IN  /\ rateLimitedRequest' = rateLimitedRequest \cup {row}
         /\ granted' = granted \cup {row}
  /\ step' = [step EXCEPT ![c] = "allowed"]
  /\ UNCHANGED <<call, elapsed>>

\* The database fails or the process restarts under the call.
Fail(c) == step[c] # "idle" /\ Leave(c)

CheckLimits(c) == CheckCooldown(c) \/ CheckHourly(c) \/ CheckDaily(c) \/ Record(c)

-----------------------------------------------------------------------------
Older(rows) == {[x EXCEPT !.age = @ + 1] : x \in {y \in rows : y.age < OldAge}}

\* The environment's clock; MaxSpan bounds how long a check takes.
Tick ==
  /\ \A c \in Callers : step[c] \in Checking => elapsed[c] < MaxSpan
  /\ rateLimitedRequest' = Older(rateLimitedRequest)
  /\ granted' = {x \in Older(granted) : x.age <= Day}
  /\ elapsed' = [c \in Callers |->
                   IF step[c] \in Checking THEN elapsed[c] + 1 ELSE elapsed[c]]
  /\ UNCHANGED <<step, call>>

\* (mutated form: the cutoff is an hour ago)
CleanupExpiredRateLimits_AfterAnHour ==
  /\ rateLimitedRequest' = {x \in rateLimitedRequest : x.age <= Hour}
  /\ UNCHANGED <<step, call, elapsed, granted>>

\* deleteMany where createdAt < now - 24 hours.
CleanupExpiredRateLimits ==
  /\ rateLimitedRequest' = {x \in rateLimitedRequest : x.age <= Day}
  /\ UNCHANGED <<step, call, elapsed, granted>>

\* forgotPassword: the check and the row come before the look-up of the user;
\* whatever fails after them is logged and the call answered as a success.
ForgotPassword(c) ==
  \/ \E email \in Emails, ip \in Ips : StartCheck(c, email, ip)
  \/ step[c] = "allowed" /\ Leave(c)

\* (mutated form: the call that is not limited stores a row nevertheless)
SkipLimits_Records(c) == step[c] = "idle" /\ Goto(c, "record")

\* A call without an ip, as register makes it, is not limited.
SkipLimits(c) == step[c] = "idle" /\ Goto(c, "allowed")

LimitsNext ==
  \/ \E c \in Callers :
       ForgotPassword(c) \/ SkipLimits(c) \/ CheckLimits(c) \/ Fail(c)
  \/ Tick
  \/ CleanupExpiredRateLimits

LimitsSpec == LimitsInit /\ [][LimitsNext]_limitVars

-----------------------------------------------------------------------------
Recent(window) == {x \in granted : x.age <= window}

(***************************************************************************)
(* "1 request every 60 seconds", as far as it holds: two requests for one  *)
(* email that were stored within one cooldown were two calls at once.  A   *)
(* caller's own next request never passes, however slow its queries are.   *)
(***************************************************************************)
CooldownPerCaller ==
  \A x, y \in Recent(Cooldown) :
    x.email = y.email /\ x.by = y.by => x = y

(***************************************************************************)
(* The hourly limit of an email is overrun by at most the other calls in   *)
(* flight: each of them may have counted before any of them stored.        *)
(***************************************************************************)
HourlyBounded ==
  \A e \in Emails :
    Cardinality({x \in Recent(Hour) : x.email = e})
      <= HourlyMax + Cardinality(Callers) - 1

(***************************************************************************)
(* Likewise the daily limit of an ip, which the hourly deletion of rows    *)
(* must not widen.                                                         *)
(***************************************************************************)
DailyBounded ==
  \A i \in Ips :
    Cardinality({x \in Recent(Day) : x.ip = i})
      <= DailyMax + Cardinality(Callers) - 1
=============================================================================
