------------------------------ MODULE Account ------------------------------
(***************************************************************************)
(* The users row behind a session: login with its lockout, refresh,        *)
(* logout, changePassword, and a password reset from the mailed link on.   *)
(* A login reads the row, compares a password, and writes what it computed *)
(* from that reading; a refresh and a reset read and write likewise.  Each *)
(* write is one UPDATE of the row, and any number of others may come       *)
(* between a reading and its write.                                        *)
(*                                                                         *)
(* Whether a password or a token matches the hash it is compared with is a *)
(* free choice, so the hashes themselves are left out: of a token only     *)
(* whether the column is null matters, of passwordHash nothing.  status is *)
(* left out because nothing in the code writes it.                         *)
(***************************************************************************)
EXTENDS Integers, FiniteSets

CONSTANTS
  Requests,     \* concurrent calls of login, refresh and reset-password
  MaxFailed,    \* LOGIN_MAX_FAILED_ATTEMPTS
  LockTicks,    \* LOGIN_LOCKOUT_DURATION_MS
  MaxLinks,     \* bound: reset links mailed
  NoLock, NoCount

ASSUME AccountAssumption ==
  /\ IsFiniteSet(Requests)
  /\ MaxFailed \in Nat \ {0} /\ LockTicks \in Nat \ {0} /\ MaxLinks \in Nat
  /\ NoLock \notin Nat /\ NoCount \notin Nat

VARIABLES
  refreshToken,          \* "null" or "hash"
  failedLoginAttempts,   \* numbers from MaxFailed on are alike to the code
  lockedUntil,           \* ticks left, 0 when past
  passwordResetToken,    \* the number of the link, 0 for null
  passwordResetExpired,
  links,                 \* links mailed so far
  request,               \* what each request read, and has missed since
  consecutive,           \* history: failures since the last login, if none overlapped
  uses                   \* history: how often each link reset the password

row == <<refreshToken, failedLoginAttempts, lockedUntil, passwordResetToken,
         passwordResetExpired>>
accountVars == <<row, links, request, consecutive, uses>>

\* What a request at each point is sensitive to: an update of another request
\* between its reading of the row and its own write.
Stages == {"idle", "login", "grant", "clear", "refresh", "reset"}
Watched == [stage \in Stages |->
  CASE stage = "login" -> {"counted", "locked"}
    [] stage \in {"grant", "clear"} -> {"locked"}
    [] stage = "refresh" -> {"ended"}
    [] OTHER -> {}]

RequestStates == [at : Stages, read : Nat, missed : SUBSET {"counted", "locked", "ended"}]
Idle == [at |-> "idle", read |-> 0, missed |-> {}]

AccountTypeOK ==
  /\ refreshToken \in {"null", "hash"}
  /\ failedLoginAttempts \in 0..MaxFailed
  /\ lockedUntil \in 0..LockTicks \cup {NoLock}
  /\ passwordResetToken \in 0..links /\ passwordResetExpired \in BOOLEAN
  /\ passwordResetToken = 0 => ~passwordResetExpired
  /\ links \in 0..MaxLinks
  /\ request \in [Requests -> RequestStates]
  /\ \A r \in Requests : request[r].at = "login" => request[r].read \in 0..MaxFailed
  /\ consecutive \in 0..MaxFailed \cup {NoCount}
  /\ uses \in [1..MaxLinks -> Nat]
  /\ \A n \in 1..MaxLinks : uses[n] > 0 => n <= links

-----------------------------------------------------------------------------
Locked == lockedUntil # NoLock /\ lockedUntil > 0

AccountInit ==
  /\ refreshToken = "null"
  /\ failedLoginAttempts = 0 /\ lockedUntil = NoLock
  /\ passwordResetToken = 0 /\ passwordResetExpired = FALSE /\ links = 0
  /\ request = [r \in Requests |-> Idle]
  /\ consecutive = 0 /\ uses = [n \in 1..MaxLinks |-> 0]

\* Where request r is next, and what its update means to the others.
Others(events) ==
  [q \in Requests |->
     [request[q] EXCEPT !.missed = @ \cup (events \cap Watched[request[q].at])]]

Moves(r, next, events) == request' = [Others(events) EXCEPT ![r] = next]

-----------------------------------------------------------------------------
\* (mutated form: the lock is not looked at)
StartLogin_Unlocked(r) ==
  /\ request[r].at = "idle"
  /\ Moves(r, [at |-> "login", read |-> failedLoginAttempts, missed |-> {}], {})
  /\ UNCHANGED <<row, links, consecutive, uses>>

\* login up to the comparison of passwords; a locked account is refused.
StartLogin(r) ==
  /\ request[r].at = "idle" /\ ~Locked
  /\ Moves(r, [at |-> "login", read |-> failedLoginAttempts, missed |-> {}], {})
  /\ UNCHANGED <<row, links, consecutive, uses>>

Failed(r) == IF request[r].read < MaxFailed THEN request[r].read + 1 ELSE MaxFailed

Recount(r) ==
  consecutive' =
    IF "counted" \in request[r].missed \/ consecutive = NoCount THEN NoCount
    ELSE IF consecutive < MaxFailed THEN consecutive + 1 ELSE MaxFailed

\* (mutated form: a failure below the limit writes lockedUntil: null)
LoginFails_Unlocks(r) ==
  /\ request[r].at = "login"
  /\ failedLoginAttempts' = Failed(r)
  /\ lockedUntil' = IF Failed(r) = MaxFailed THEN LockTicks ELSE NoLock
  /\ Moves(r, Idle, IF Failed(r) = MaxFailed THEN {"counted", "locked"} ELSE {"counted"})
  /\ Recount(r)
  /\ UNCHANGED <<refreshToken, passwordResetToken, passwordResetExpired, links, uses>>

\* (mutated form: the last failure locks the account without being counted)
LoginFails_LocksUncounted(r) ==
  /\ request[r].at = "login"
  /\ IF Failed(r) = MaxFailed
     THEN /\ lockedUntil' = LockTicks
          /\ Moves(r, Idle, {"locked"})
          /\ UNCHANGED failedLoginAttempts
     ELSE /\ failedLoginAttempts' = Failed(r)
          /\ Moves(r, Idle, {"counted"})
          /\ UNCHANGED lockedUntil
  /\ Recount(r)
  /\ UNCHANGED <<refreshToken, passwordResetToken, passwordResetExpired, links, uses>>

\* The wrong password: counted from the number read; the last one locks.
LoginFails(r) ==
  /\ request[r].at = "login"
  /\ failedLoginAttempts' = Failed(r)
  /\ IF Failed(r) = MaxFailed
     THEN lockedUntil' = LockTicks /\ Moves(r, Idle, {"counted", "locked"})
     ELSE UNCHANGED lockedUntil /\ Moves(r, Idle, {"counted"})
  /\ Recount(r)
  /\ UNCHANGED <<refreshToken, passwordResetToken, passwordResetExpired, links, uses>>

LoginMatches(r) ==
  /\ request[r].at = "login"
  /\ Moves(r, [at |-> "grant", read |-> 0, missed |-> request[r].missed \cap {"locked"}], {})
  /\ UNCHANGED <<row, links, consecutive, uses>>

\* (mutated form: the counter is left as it is)
ClearFailures_LockOnly(r) ==
  /\ request[r].at = "clear"
  /\ lockedUntil' = NoLock /\ consecutive' = 0
  /\ Moves(r, Idle, {"counted"})
  /\ UNCHANGED <<refreshToken, failedLoginAttempts, passwordResetToken,
                 passwordResetExpired, links, uses>>

\* The last update of a login, after that of its tokens.
ClearFailures(r) ==
  /\ request[r].at = "clear"
  /\ failedLoginAttempts' = 0 /\ lockedUntil' = NoLock /\ consecutive' = 0
  /\ Moves(r, Idle, {"counted"})
  /\ UNCHANGED <<refreshToken, passwordResetToken, passwordResetExpired, links, uses>>

\* (mutated form: a session that has ended is not looked at)
StartRefresh_AnyToken(r) ==
  /\ request[r].at = "idle"
  /\ Moves(r, [at |-> "refresh", read |-> 0, missed |-> {}], {})
  /\ UNCHANGED <<row, links, consecutive, uses>>

\* refresh up to the comparison of tokens.
StartRefresh(r) ==
  /\ request[r].at = "idle" /\ refreshToken # "null"
  /\ Moves(r, [at |-> "refresh", read |-> 0, missed |-> {}], {})
  /\ UNCHANGED <<row, links, consecutive, uses>>

\* generateTokens, for a login or a refresh.
GenerateTokens(r) ==
  /\ request[r].at \in {"grant", "refresh"}
  /\ refreshToken' = "hash"
  /\ Moves(r, IF request[r].at = "grant" THEN [request[r] EXCEPT !.at = "clear"] ELSE Idle, {})
  /\ UNCHANGED <<failedLoginAttempts, lockedUntil, passwordResetToken,
                 passwordResetExpired, links, consecutive, uses>>

\* The tokens of register, verifyEmail and submitOnboarding: they ask nothing
\* of the row's refreshToken.
Reissue ==
  /\ refreshToken' = "hash"
  /\ UNCHANGED <<failedLoginAttempts, lockedUntil, passwordResetToken,
                 passwordResetExpired, links, request, consecutive, uses>>

EndSession ==
  /\ refreshToken' = "null"
  /\ request' = Others({"ended"})
  /\ UNCHANGED <<failedLoginAttempts, lockedUntil, passwordResetToken,
                 passwordResetExpired, links, consecutive, uses>>

\* logout reads nothing of the row.
Logout == EndSession

\* changePassword, once the current password has matched.
ChangePassword == EndSession

-----------------------------------------------------------------------------
\* forgotPassword's update: a fresh token.
ForgotPassword ==
  /\ links < MaxLinks
  /\ links' = links + 1
  /\ passwordResetToken' = links + 1 /\ passwordResetExpired' = FALSE
  /\ UNCHANGED <<refreshToken, failedLoginAttempts, lockedUntil, request,
                 consecutive, uses>>

ExpireLink ==
  /\ passwordResetToken # 0 /\ ~passwordResetExpired
  /\ passwordResetExpired' = TRUE
  /\ UNCHANGED <<refreshToken, failedLoginAttempts, lockedUntil,
                 passwordResetToken, links, request, consecutive, uses>>

\* resetPassword finds the row by a token that has not expired.
StartReset(r) ==
  /\ request[r].at = "idle"
  /\ passwordResetToken # 0 /\ ~passwordResetExpired
  /\ Moves(r, [at |-> "reset", read |-> passwordResetToken, missed |-> {}], {})
  /\ UNCHANGED <<row, links, consecutive, uses>>

\* (mutated form: the link stays good until it expires)
ResetPassword_KeepsLink(r) ==
  /\ request[r].at = "reset"
  /\ refreshToken' = "null"
  /\ uses' = [uses EXCEPT ![request[r].read] = @ + 1]
  /\ Moves(r, Idle, {"ended"})
  /\ UNCHANGED <<failedLoginAttempts, lockedUntil, passwordResetToken,
                 passwordResetExpired, links, consecutive>>

\* (mutated form: passwordResetExpires is not cleared with its token)
ResetPassword_KeepsExpiry(r) ==
  /\ request[r].at = "reset"
  /\ refreshToken' = "null"
  /\ passwordResetToken' = 0
  /\ uses' = [uses EXCEPT ![request[r].read] = @ + 1]
  /\ Moves(r, Idle, {"ended"})
  /\ UNCHANGED <<failedLoginAttempts, lockedUntil, passwordResetExpired, links,
                 consecutive>>

\* Its update, after the new password is hashed, finds the row by id.
ResetPassword(r) ==
  /\ request[r].at = "reset"
  /\ refreshToken' = "null"
  /\ passwordResetToken' = 0 /\ passwordResetExpired' = FALSE
  /\ uses' = [uses EXCEPT ![request[r].read] = @ + 1]
  /\ Moves(r, Idle, {"ended"})
  /\ UNCHANGED <<failedLoginAttempts, lockedUntil, links, consecutive>>

\* An error, or a comparison that fails: nothing more is written.
GiveUp(r) ==
  /\ request[r].at # "idle"
  /\ Moves(r, Idle, {})
  /\ UNCHANGED <<row, links, consecutive, uses>>

Tick ==
  /\ Locked
  /\ lockedUntil' = lockedUntil - 1
  /\ UNCHANGED <<refreshToken, failedLoginAttempts, passwordResetToken,
                 passwordResetExpired, links, request, consecutive, uses>>

Login(r) == StartLogin(r) \/ LoginFails(r) \/ LoginMatches(r) \/ ClearFailures(r)

AccountNext ==
  \/ \E r \in Requests :
       \/ Login(r) \/ StartRefresh(r) \/ GenerateTokens(r)
       \/ StartReset(r) \/ ResetPassword(r) \/ GiveUp(r)
  \/ Reissue \/ Logout \/ ChangePassword \/ ForgotPassword \/ ExpireLink \/ Tick

AccountSpec == AccountInit /\ [][AccountNext]_accountVars

\* Time passes; nobody has to call.
AccountFairSpec == AccountSpec /\ WF_accountVars(Tick)

-----------------------------------------------------------------------------
(***************************************************************************)
(* "Failed attempts are tracked ...; after 10 consecutive failures the     *)
(* account is locked", as far as it holds: as long as no failure was       *)
(* counted from a reading that another attempt had overtaken, the counter  *)
(* is the number of failures since the last login, and at the limit the    *)
(* account has been locked.                                                *)
(***************************************************************************)
CountsConsecutive ==
  consecutive # NoCount =>
    /\ failedLoginAttempts = consecutive
    /\ consecutive = MaxFailed => lockedUntil # NoLock

(***************************************************************************)
(* A full counter always comes with a lock, even if it is past: no write   *)
(* of an old reading lifts the one and leaves the other.                   *)
(***************************************************************************)
FullCounterHasLock == failedLoginAttempts = MaxFailed => lockedUntil # NoLock

(***************************************************************************)
(* A lock in force is lifted before its time only by a login that had      *)
(* found the account open before it was locked.                            *)
(***************************************************************************)
LiftedEarly == Locked /\ lockedUntil' = NoLock
LiftedByEarlierLogin ==
  LiftedEarly => \E r \in Requests :
                   request[r].at = "clear" /\ "locked" \in request[r].missed
                   /\ request'[r] = Idle
LockStands == [][LiftedByEarlierLogin]_accountVars

(***************************************************************************)
(* A lock ends: refused attempts do not extend it, and only attempts under *)
(* way when it was set can.                                                *)
(***************************************************************************)
LockEnds == Locked ~> ~Locked

(***************************************************************************)
(* "Forces every device to fall through to INVALID_SESSION on the next     *)
(* refresh call", as far as it holds: a session that was ended comes back  *)
(* by a refresh only if that had read the row before the end.              *)
(***************************************************************************)
RefreshedByEarlierReading ==
  \A r \in Requests :
    /\ refreshToken = "null" /\ refreshToken' = "hash"
    /\ request[r].at = "refresh" /\ request'[r] # request[r]
    => "ended" \in request[r].missed
EndedStaysEnded == [][RefreshedByEarlierReading]_accountVars

(***************************************************************************)
(* How far "the link is now single-use" holds: a link that reset the       *)
(* password never stands in the row again, whatever resets and new links   *)
(* overlap, so only calls that had found it before its first use can use   *)
(* it again, each of them once.                                            *)
(***************************************************************************)
Finders(n) == {r \in Requests : request[r].at = "reset" /\ request[r].read = n}
UsedByEarlierFinders ==
  \A n \in 1..MaxLinks :
    uses[n] > 0 =>
      /\ n # passwordResetToken
      /\ uses[n] + Cardinality(Finders(n)) <= Cardinality(Requests)

-----------------------------------------------------------------------------
(* What the documentation says and the code does not do. *)

(***************************************************************************)
(* "After a successful reset, the same link cannot be reused": but a call  *)
(* of resetPassword that found the link before goes on, and updates by id. *)
(***************************************************************************)
LinksUsedOnce == \A n \in 1..MaxLinks : uses[n] <= 1
=============================================================================
