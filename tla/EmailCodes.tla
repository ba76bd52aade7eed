---------------------------- MODULE EmailCodes ----------------------------
(***************************************************************************)
(* The email verification codes of one user: sendVerificationCode, with    *)
(* its rate limit, and verifyEmail.  Codes are numbered in the order of    *)
(* createdAt, which the code's ORM takes when the sending transaction      *)
(* starts.  Whether what the user types is the code that is looked up is a *)
(* free choice; codes themselves are not modelled.                         *)
(***************************************************************************)
EXTENDS RateLimits

CONSTANTS
  Verifiers,    \* concurrent verifyEmail requests
  MaxAttempts,  \* VERIFICATION_MAX_ATTEMPTS
  MaxCodes,     \* bound: transactions that create a code
  NoCode

CodeIds == 1..MaxCodes
CodeRows == [used : BOOLEAN, attempts : 0..MaxAttempts, by : Callers]
PendingRows == [id : CodeIds, stale : SUBSET CodeIds]
SeenRows == [id : CodeIds, attempts : 0..MaxAttempts, match : BOOLEAN]

ASSUME CodesAssumption ==
  /\ MaxAttempts \in Nat \ {0} /\ MaxCodes \in Nat
  /\ NoCode \notin CodeRows \cup PendingRows \cup SeenRows

VARIABLES
  emailVerified,
  emailVerification,  \* the user's rows, by number
  nextId,             \* the number of the next transaction's row
  expired,            \* codes up to this number have expired
  pending,            \* a sender's open transaction: its row, the rows it found unused
  verifying,          \* the statement each verifier executes next
  seen,               \* the row it found, and whether it was sent that code
  registering         \* register's own send is still to come

codeVars == <<emailVerified, emailVerification, nextId, expired, pending,
              verifying, seen, registering>>
allVars == <<limitVars, codeVars>>

-----------------------------------------------------------------------------
Unused == {i \in CodeIds : emailVerification[i] # NoCode
                             /\ ~emailVerification[i].used}

CodesInit ==
  /\ LimitsInit
  /\ emailVerified = FALSE /\ registering = TRUE
  /\ emailVerification = [i \in CodeIds |-> NoCode]
  /\ nextId = 1 /\ expired = 0
  /\ pending = [c \in Callers |-> NoCode]
  /\ verifying = [v \in Verifiers |-> "idle"]
  /\ seen = [v \in Verifiers |-> NoCode]

\* A verified user is refused.  register passes no ip and so no limit.
SendVerificationCode(c) ==
  /\ ~emailVerified
  /\ \E email \in Emails, ip \in Ips : StartCheck(c, email, ip)
  /\ UNCHANGED codeVars

SendAtRegistration(c) ==
  /\ registering
  /\ registering' = FALSE
  /\ SkipLimits(c)
  /\ UNCHANGED <<emailVerified, emailVerification, nextId, expired, pending,
                 verifying, seen>>

Limited(c) == CheckLimits(c) /\ UNCHANGED codeVars

\* (mutated form: expired codes are left as they are)
FindUnused_Unexpired(c) ==
  /\ step[c] = "allowed" /\ pending[c] = NoCode /\ nextId <= MaxCodes
  /\ pending' = [pending EXCEPT ![c] =
       [id |-> nextId, stale |-> {i \in Unused : i > expired}]]
  /\ nextId' = nextId + 1
  /\ UNCHANGED <<limitVars, emailVerified, emailVerification, expired,
                 verifying, seen, registering>>

\* updateMany where used = false: the rows it sees are those committed when
\* it starts, even if it then waits for one of them.
FindUnused(c) ==
  /\ step[c] = "allowed" /\ pending[c] = NoCode /\ nextId <= MaxCodes
  /\ pending' = [pending EXCEPT ![c] = [id |-> nextId, stale |-> Unused]]
  /\ nextId' = nextId + 1
  /\ UNCHANGED <<limitVars, emailVerified, emailVerification, expired,
                 verifying, seen, registering>>

\* The transaction commits; writers that waited for its rows go on after it.
\* The mail follows: if it fails, the row stays.
CreateCode(c) ==
  /\ step[c] = "allowed" /\ pending[c] # NoCode
  /\ emailVerification' =
       [i \in CodeIds |->
          IF i = pending[c].id THEN [used |-> FALSE, attempts |-> 0, by |-> c]
          ELSE IF i \in pending[c].stale
          THEN [emailVerification[i] EXCEPT !.used = TRUE]
          ELSE emailVerification[i]]
  /\ pending' = [pending EXCEPT ![c] = NoCode]
  /\ Leave(c)
  /\ UNCHANGED <<emailVerified, nextId, expired, verifying, seen, registering>>

\* An error before the commit.
FailToSend(c) ==
  /\ Fail(c)
  /\ pending' = [pending EXCEPT ![c] = NoCode]
  /\ UNCHANGED <<emailVerified, emailVerification, nextId, expired, verifying,
                 seen, registering>>

-----------------------------------------------------------------------------
VerifyOnly ==
  UNCHANGED <<limitVars, nextId, expired, pending, registering>>

VerifyEmail(v) ==
  /\ verifying[v] = "idle" /\ ~emailVerified
  /\ verifying' = [verifying EXCEPT ![v] = "find"]
  /\ UNCHANGED <<emailVerified, emailVerification, seen>> /\ VerifyOnly

Valid == {i \in Unused : i > expired}

\* findFirst of the unused, unexpired codes, newest first.
FindVerification(v) ==
  /\ verifying[v] = "find"
  /\ IF Valid = {}
     THEN /\ verifying' = [verifying EXCEPT ![v] = "idle"]
          /\ UNCHANGED seen
     ELSE \E i \in Valid, match \in BOOLEAN :
            /\ \A j \in Valid : j <= i
            /\ seen' = [seen EXCEPT ![v] =
                 [id |-> i, attempts |-> emailVerification[i].attempts,
                  match |-> match]]
            /\ verifying' = [verifying EXCEPT ![v] = "decide"]
  /\ UNCHANGED <<emailVerified, emailVerification>> /\ VerifyOnly

Answer(v) ==
  /\ verifying' = [verifying EXCEPT ![v] = "idle"]
  /\ seen' = [seen EXCEPT ![v] = NoCode]
  /\ VerifyOnly

\* (mutated form: `used' is written FALSE rather than left alone)
RejectCode_WritesUsed(v) ==
  /\ verifying[v] = "decide"
  /\ ~seen[v].match \/ seen[v].attempts >= MaxAttempts
  /\ emailVerification' = [emailVerification EXCEPT
       ![seen[v].id].attempts = seen[v].attempts + 1,
       ![seen[v].id].used = seen[v].attempts + 1 >= MaxAttempts]
  /\ UNCHANGED emailVerified
  /\ Answer(v)

\* (mutated form: the code is used up one attempt late)
RejectCode_OffByOne(v) ==
  /\ verifying[v] = "decide"
  /\ ~seen[v].match \/ seen[v].attempts >= MaxAttempts
  /\ emailVerification' = [emailVerification EXCEPT
       ![seen[v].id].attempts =
          IF seen[v].attempts >= MaxAttempts THEN @ ELSE seen[v].attempts + 1,
       ![seen[v].id].used = @ \/ seen[v].attempts >= MaxAttempts]
  /\ UNCHANGED emailVerified
  /\ Answer(v)

\* Too many attempts were counted when the row was read, or the code is wrong:
\* one more is counted, from the number read, and the last one uses it up.
RejectCode(v) ==
  /\ verifying[v] = "decide"
  /\ ~seen[v].match \/ seen[v].attempts >= MaxAttempts
  /\ emailVerification' = [emailVerification EXCEPT
       ![seen[v].id].attempts =
          IF seen[v].attempts >= MaxAttempts THEN @ ELSE seen[v].attempts + 1,
       ![seen[v].id].used = @ \/ seen[v].attempts + 1 >= MaxAttempts]
  /\ UNCHANGED emailVerified
  /\ Answer(v)

\* One transaction; the tokens it then signs belong to the session.
AcceptCode(v) ==
  /\ verifying[v] = "decide"
  /\ seen[v].match /\ seen[v].attempts < MaxAttempts
  /\ emailVerification' = [emailVerification EXCEPT ![seen[v].id].used = TRUE]
  /\ emailVerified' = TRUE
  /\ Answer(v)

FailToVerify(v) ==
  /\ verifying[v] # "idle"
  /\ UNCHANGED <<emailVerified, emailVerification>>
  /\ Answer(v)

\* Ten minutes after it was created a code expires: the older ones first.
Expire ==
  /\ expired + 1 < nextId
  /\ expired' = expired + 1
  /\ UNCHANGED <<limitVars, emailVerified, emailVerification, nextId, pending,
                 verifying, seen, registering>>

CodesNext ==
  \/ \E c \in Callers :
       \/ SendVerificationCode(c) \/ SendAtRegistration(c) \/ Limited(c)
       \/ FindUnused(c) \/ CreateCode(c) \/ FailToSend(c)
  \/ \E v \in Verifiers :
       \/ VerifyEmail(v) \/ FindVerification(v) \/ RejectCode(v)
       \/ AcceptCode(v) \/ FailToVerify(v)
  \/ Expire
  \/ (Tick \/ CleanupExpiredRateLimits) /\ UNCHANGED codeVars

CodesSpec == CodesInit /\ [][CodesNext]_allVars

-----------------------------------------------------------------------------
(***************************************************************************)
(* "Sending a new code marks all previous unused codes": two codes can be  *)
(* unused together only if they were sent by calls that overlapped, so     *)
(* there are never more of them than calls in flight.                      *)
(***************************************************************************)
LiveCodesOverlap ==
  \A i, j \in Unused :
    emailVerification[i].by = emailVerification[j].by => i = j

(***************************************************************************)
(* A code that was used, superseded or used up never becomes usable again, *)
(* whatever an attempt writes that had read it before.                     *)
(***************************************************************************)
NoRevival ==
  \A i \in CodeIds :
    emailVerification[i] # NoCode /\ i \notin Unused => i \notin Unused'

UsedStaysUsed == [][NoRevival]_allVars

(***************************************************************************)
(* A code whose counter stands at the limit is used up, although attempts  *)
(* count from a number read earlier: the branch of verifyEmail that finds  *)
(* an unused code with all attempts spent is never needed.                 *)
(***************************************************************************)
ExhaustedIsUsed ==
  \A i \in Unused : emailVerification[i].attempts < MaxAttempts
=============================================================================
