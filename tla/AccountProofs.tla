--------------------------- MODULE AccountProofs ---------------------------
(***************************************************************************)
(* What a request has missed since it read the row says how far its        *)
(* reading still holds; from that follow the promises of the lockout, of   *)
(* ended sessions and of reset links, for any number of requests.          *)
(***************************************************************************)
EXTENDS Account, FiniteSetTheorems, TLAPS

\* The reading of a request that missed nothing of the kind still holds.
ReadingHolds(q) ==
  /\ request[q].at = "login" /\ "counted" \notin request[q].missed
       => request[q].read = failedLoginAttempts
  /\ request[q].at \in {"login", "grant", "clear"} /\ "locked" \notin request[q].missed
       => ~Locked
  /\ request[q].at = "refresh" /\ "ended" \notin request[q].missed
       => refreshToken # "null"
  /\ request[q].at = "reset" => request[q].read \in 1..links

AccountInvariant ==
  /\ AccountTypeOK
  /\ CountsConsecutive
  /\ FullCounterHasLock
  /\ UsedByEarlierFinders
  /\ \A q \in Requests : ReadingHolds(q)

\* What Moves and Others do to each request.
LEMMA OthersShape ==
  ASSUME AccountTypeOK, NEW events \in SUBSET {"counted", "locked", "ended"}
  PROVE  /\ Others(events) \in [Requests -> RequestStates]
         /\ \A q \in Requests :
              /\ Others(events)[q].at = request[q].at
              /\ Others(events)[q].read = request[q].read
              /\ request[q].missed \subseteq Others(events)[q].missed
              /\ Others(events)[q].missed
                   = request[q].missed \cup (events \cap Watched[request[q].at])
  BY DEF Others, AccountTypeOK, RequestStates, Watched, Stages

\* What a step of one request does to the records of all: its own goes on, the
\* others note what they missed.
LEMMA MovesShape ==
  ASSUME AccountTypeOK, NEW events \in SUBSET {"counted", "locked", "ended"},
         NEW r \in Requests, NEW next \in RequestStates, Moves(r, next, events)
  PROVE  /\ request' \in [Requests -> RequestStates]
         /\ request'[r] = next
         /\ \A q \in Requests \ {r} : request'[q] = Others(events)[q]
  BY OthersShape DEF Moves

\* An update keeps the readings of the requests it tells the right events.
LEMMA ReadingsKept ==
  ASSUME AccountInvariant, NEW q \in Requests,
         NEW events \in SUBSET {"counted", "locked", "ended"},
         request'[q] = Others(events)[q],
         failedLoginAttempts' = failedLoginAttempts \/ "counted" \in events,
         Locked' => Locked \/ "locked" \in events,
         refreshToken' = "null" => refreshToken = "null" \/ "ended" \in events,
         1..links \subseteq 1..links'
  PROVE  ReadingHolds(q)'
<1>1. /\ request'[q].at = request[q].at
      /\ request'[q].read = request[q].read
      /\ request[q].missed \subseteq request'[q].missed
      /\ request'[q].missed
           = request[q].missed \cup (events \cap Watched[request[q].at])
  BY OthersShape DEF AccountInvariant
<1>2. ReadingHolds(q) BY DEF AccountInvariant
<1>3. ASSUME request[q].at = "login", "counted" \notin request'[q].missed
      PROVE  request[q].read = failedLoginAttempts'
  BY <1>1, <1>2, <1>3 DEF ReadingHolds, Watched, Stages
<1>4. ASSUME request[q].at \in {"login", "grant", "clear"},
             "locked" \notin request'[q].missed
      PROVE  ~Locked'
  BY <1>1, <1>2, <1>4 DEF ReadingHolds, Watched, Stages
<1>5. ASSUME request[q].at = "refresh", "ended" \notin request'[q].missed
      PROVE  refreshToken' # "null"
  BY <1>1, <1>2, <1>5 DEF ReadingHolds, Watched, Stages
<1>6. request[q].at = "reset" => request[q].read \in 1..links'
  BY <1>2 DEF ReadingHolds
<1> QED BY <1>1, <1>3, <1>4, <1>5, <1>6 DEF ReadingHolds

\* Types, step by step.
LEMMA AccountTypes == AccountInvariant /\ [AccountNext]_accountVars => AccountTypeOK'
<1> SUFFICES ASSUME AccountInvariant, [AccountNext]_accountVars PROVE AccountTypeOK'
  OBVIOUS
<1> USE AccountAssumption
<1>t. AccountTypeOK BY DEF AccountInvariant
<1>i. Idle \in RequestStates BY DEF Idle, RequestStates, Stages
<1>1. ASSUME NEW events \in SUBSET {"counted", "locked", "ended"},
             request' = Others(events) \/ \E r \in Requests : Moves(r, Idle, events)
      PROVE  /\ request' \in [Requests -> RequestStates]
             /\ \A q \in Requests :
                  request'[q].at = "login" => request'[q].read \in 0..MaxFailed
  <2>1. CASE request' = Others(events)
    BY <2>1, <1>t, OthersShape DEF AccountTypeOK
  <2>2. ASSUME NEW r \in Requests, Moves(r, Idle, events)
        PROVE  /\ request' \in [Requests -> RequestStates]
               /\ \A q \in Requests :
                    request'[q].at = "login" => request'[q].read \in 0..MaxFailed
    <3>1. /\ request' \in [Requests -> RequestStates]
          /\ request'[r] = Idle
          /\ \A q \in Requests \ {r} : request'[q] = Others(events)[q]
      BY <2>2, <1>t, <1>i, MovesShape
    <3>2. ASSUME NEW q \in Requests, request'[q].at = "login"
          PROVE  request'[q].read \in 0..MaxFailed
      BY <3>1, <3>2, <1>t, OthersShape DEF AccountTypeOK, Idle
    <3> QED BY <3>1, <3>2
  <2> QED BY <2>1, <2>2, <1>1
<1>2. ASSUME NEW r \in Requests, NEW next \in RequestStates,
             next.at = "login" => next.read \in 0..MaxFailed, Moves(r, next, {})
      PROVE  /\ request' \in [Requests -> RequestStates]
             /\ \A q \in Requests :
                  request'[q].at = "login" => request'[q].read \in 0..MaxFailed
  <2>1. /\ request' \in [Requests -> RequestStates]
        /\ request'[r] = next
        /\ \A q \in Requests \ {r} : request'[q] = Others({})[q]
    BY <1>2, <1>t, MovesShape
  <2>2. ASSUME NEW q \in Requests, request'[q].at = "login"
        PROVE  request'[q].read \in 0..MaxFailed
    <3>1. CASE q = r BY <2>1, <2>2, <3>1, <1>2
    <3>2. CASE q # r
      <4>1. request[q].at = "login" /\ request'[q].read = request[q].read
        BY <2>1, <2>2, <3>2, <1>t, OthersShape
      <4> QED BY <4>1, <1>t DEF AccountTypeOK
    <3> QED BY <3>1, <3>2
  <2> QED BY <2>1, <2>2
<1>3. ASSUME NEW r \in Requests, Login(r) \/ StartRefresh(r) \/ GenerateTokens(r)
                                 \/ StartReset(r) \/ ResetPassword(r) \/ GiveUp(r)
      PROVE  AccountTypeOK'
  <2>s. request[r] \in RequestStates BY <1>t DEF AccountTypeOK
  <2>1. CASE StartLogin(r)
    <3>1. [at |-> "login", read |-> failedLoginAttempts, missed |-> {}] \in RequestStates
      BY <1>t DEF RequestStates, Stages, AccountTypeOK
    <3> QED BY <2>1, <3>1, <1>2, <1>t DEF StartLogin, AccountTypeOK, row
  <2>2. CASE LoginFails(r)
    <3>1. Failed(r) \in 0..MaxFailed
      BY <2>2, <1>t DEF LoginFails, Failed, AccountTypeOK
    <3>2. \E events \in SUBSET {"counted", "locked", "ended"} : Moves(r, Idle, events)
      BY <2>2 DEF LoginFails
    <3>3. consecutive' \in 0..MaxFailed \cup {NoCount}
      BY <2>2, <1>t DEF LoginFails, Recount, AccountTypeOK
    <3>4. lockedUntil' \in 0..LockTicks \cup {NoLock}
      BY <2>2, <1>t DEF LoginFails, AccountTypeOK
    <3> QED BY <2>2, <3>1, <3>2, <3>3, <3>4, <1>1, <1>t DEF LoginFails, AccountTypeOK
  <2>3. CASE LoginMatches(r)
    <3>1. [at |-> "grant", read |-> 0, missed |-> request[r].missed \cap {"locked"}]
            \in RequestStates
      BY <2>s DEF RequestStates, Stages
    <3> QED BY <2>3, <3>1, <1>2, <1>t DEF LoginMatches, AccountTypeOK, row
  <2>4. CASE ClearFailures(r)
    <3>1. /\ request' \in [Requests -> RequestStates]
          /\ \A q \in Requests :
               request'[q].at = "login" => request'[q].read \in 0..MaxFailed
      BY <2>4, <1>1 DEF ClearFailures
    <3> QED BY <2>4, <3>1, <1>t DEF ClearFailures, AccountTypeOK
  <2>5. CASE StartRefresh(r)
    <3>1. [at |-> "refresh", read |-> 0, missed |-> {}] \in RequestStates
      BY DEF RequestStates, Stages
    <3> QED BY <2>5, <3>1, <1>2, <1>t DEF StartRefresh, AccountTypeOK, row
  <2>6. CASE GenerateTokens(r)
    <3>1. /\ [request[r] EXCEPT !.at = "clear"] \in RequestStates
          /\ [request[r] EXCEPT !.at = "clear"].at = "clear"
      BY <2>s DEF RequestStates, Stages
    <3>2. PICK next \in RequestStates : next.at # "login" /\ Moves(r, next, {})
      BY <2>6, <3>1, <1>i DEF GenerateTokens, Idle
    <3> QED BY <2>6, <3>2, <1>2, <1>t DEF GenerateTokens, AccountTypeOK
  <2>7. CASE StartReset(r)
    <3>1. [at |-> "reset", read |-> passwordResetToken, missed |-> {}] \in RequestStates
      BY <1>t DEF RequestStates, Stages, AccountTypeOK
    <3> QED BY <2>7, <3>1, <1>2, <1>t DEF StartReset, AccountTypeOK, row
  <2>8. CASE ResetPassword(r)
    <3>1. request[r].read \in 1..links
      BY <2>8 DEF AccountInvariant, ReadingHolds, ResetPassword
    <3>2. /\ request' \in [Requests -> RequestStates]
          /\ \A q \in Requests :
               request'[q].at = "login" => request'[q].read \in 0..MaxFailed
      BY <2>8, <1>1 DEF ResetPassword
    <3>3. /\ passwordResetToken' \in 0..links'
          /\ uses' \in [1..MaxLinks -> Nat]
          /\ \A n \in 1..MaxLinks : uses'[n] > 0 => n <= links'
      <4>1. /\ passwordResetToken' = 0 /\ links' = links
            /\ uses' = [uses EXCEPT ![request[r].read] = @ + 1]
        BY <2>8 DEF ResetPassword
      <4>2. /\ links \in 0..MaxLinks /\ uses \in [1..MaxLinks -> Nat]
            /\ \A n \in 1..MaxLinks : uses[n] > 0 => n <= links
        BY <1>t DEF AccountTypeOK
      <4> QED BY <4>1, <4>2, <3>1
    <3>4. passwordResetExpired' = FALSE /\ refreshToken' = "null"
      BY <2>8 DEF ResetPassword
    <3> QED BY <2>8, <3>2, <3>3, <3>4, <1>t DEF ResetPassword, AccountTypeOK
  <2>9. CASE GiveUp(r) BY <2>9, <1>1, <1>t DEF GiveUp, AccountTypeOK, row
  <2> QED BY <1>3, <2>1, <2>2, <2>3, <2>4, <2>5, <2>6, <2>7, <2>8, <2>9 DEF Login
<1>4. CASE Reissue BY <1>4, <1>t DEF Reissue, AccountTypeOK
<1>5. CASE Logout \/ ChangePassword
  <2>1. EndSession BY <1>5 DEF Logout, ChangePassword
  <2> QED BY <2>1, <1>1, <1>t DEF EndSession, AccountTypeOK
<1>6. CASE ForgotPassword
  <2>1. links + 1 \in 0..MaxLinks /\ links + 1 # 0 /\ links + 1 \in 0..(links + 1)
    BY <1>6, <1>t DEF ForgotPassword, AccountTypeOK
  <2>2. links \in Nat /\ links' = links + 1 /\ uses' = uses
    BY <1>6, <1>t DEF ForgotPassword, AccountTypeOK
  <2>3. \A n \in 1..MaxLinks : uses'[n] > 0 => n <= links'
    BY <2>2, <1>t DEF AccountTypeOK
  <2> QED BY <1>6, <2>1, <2>3, <1>t DEF ForgotPassword, AccountTypeOK
<1>7. CASE ExpireLink BY <1>7, <1>t DEF ExpireLink, AccountTypeOK
<1>8. CASE Tick BY <1>8, <1>t DEF Tick, Locked, AccountTypeOK
<1>9. CASE UNCHANGED accountVars BY <1>9, <1>t DEF accountVars, row, AccountTypeOK
<1> QED BY <1>3, <1>4, <1>5, <1>6, <1>7, <1>8, <1>9 DEF AccountNext

\* The readings, step by step.
LEMMA ReadingsNext ==
  AccountInvariant /\ [AccountNext]_accountVars => \A q \in Requests : ReadingHolds(q)'
<1> SUFFICES ASSUME AccountInvariant, [AccountNext]_accountVars, NEW q \in Requests
             PROVE  ReadingHolds(q)'
  OBVIOUS
<1> USE AccountAssumption
<1>t. AccountTypeOK BY DEF AccountInvariant
<1>i. Idle \in RequestStates BY DEF Idle, RequestStates, Stages
<1>s. request[q] \in RequestStates BY <1>t DEF AccountTypeOK
<1>n. links \in Nat BY <1>t DEF AccountTypeOK
<1>h. ReadingHolds(q) BY DEF AccountInvariant
<1>1. ASSUME NEW r \in Requests, NEW next \in RequestStates,
             NEW events \in SUBSET {"counted", "locked", "ended"},
             Moves(r, next, events),
             failedLoginAttempts' = failedLoginAttempts \/ "counted" \in events,
             Locked' => Locked \/ "locked" \in events,
             refreshToken' = "null" => refreshToken = "null" \/ "ended" \in events,
             links' = links,
             q = r => ReadingHolds(q)'
      PROVE  ReadingHolds(q)'
  <2>1. CASE q # r
    <3>1. request'[q] = Others(events)[q] BY <1>1, <1>t, <2>1, MovesShape
    <3> QED BY <3>1, <1>1, ReadingsKept
  <2> QED BY <2>1, <1>1
<1>2. ASSUME NEW r \in Requests, NEW next \in RequestStates,
             NEW events \in SUBSET {"counted", "locked", "ended"}, Moves(r, next, events)
      PROVE  request'[r] = next
  BY <1>2, <1>t, MovesShape
<1>3. ASSUME NEW r \in Requests, Login(r) \/ StartRefresh(r) \/ GenerateTokens(r)
                                 \/ StartReset(r) \/ ResetPassword(r) \/ GiveUp(r)
      PROVE  ReadingHolds(q)'
  <2>1. CASE StartLogin(r)
    <3> DEFINE next == [at |-> "login", read |-> failedLoginAttempts, missed |-> {}]
    <3>1. next \in RequestStates BY <1>t DEF RequestStates, Stages, AccountTypeOK
    <3>2. next.at = "login" /\ next.read = failedLoginAttempts OBVIOUS
    <3> HIDE DEF next
    <3>3. Moves(r, next, {}) /\ ~Locked /\ UNCHANGED <<row, links>>
      BY <2>1 DEF StartLogin, next
    <3>4. request'[r] = next BY <3>1, <3>3, <1>2
    <3>5. ReadingHolds(r)' BY <3>2, <3>3, <3>4 DEF ReadingHolds, row, Locked
    <3> QED BY <3>1, <3>3, <3>5, <1>1 DEF row, Locked
  <2>2. CASE LoginFails(r)
    <3>1. PICK events \in SUBSET {"counted", "locked", "ended"} :
            /\ "counted" \in events /\ Moves(r, Idle, events)
            /\ lockedUntil' = lockedUntil \/ "locked" \in events
      BY <2>2 DEF LoginFails
    <3>2. request'[r] = Idle BY <3>1, <1>i, <1>2
    <3>3. ReadingHolds(r)' BY <3>2 DEF ReadingHolds, Idle
    <3> QED BY <2>2, <3>1, <3>3, <1>i, <1>1 DEF LoginFails, Locked
  <2>3. CASE LoginMatches(r)
    <3> DEFINE next == [at |-> "grant", read |-> 0,
                        missed |-> request[r].missed \cap {"locked"}]
    <3>1. next \in RequestStates
      BY <1>t DEF RequestStates, Stages, AccountTypeOK
    <3>2. next.at = "grant" /\ ("locked" \notin next.missed => "locked" \notin request[r].missed)
      OBVIOUS
    <3> HIDE DEF next
    <3>3. Moves(r, next, {}) /\ UNCHANGED <<row, links>> /\ request[r].at = "login"
      BY <2>3 DEF LoginMatches, next
    <3>4. request'[r] = next BY <3>1, <3>3, <1>2
    <3>5. ReadingHolds(r)'
      BY <3>2, <3>3, <3>4 DEF ReadingHolds, row, Locked, AccountInvariant
    <3> QED BY <3>1, <3>3, <3>5, <1>1 DEF row, Locked
  <2>4. CASE ClearFailures(r)
    <3>1. request'[r] = Idle BY <2>4, <1>i, <1>2 DEF ClearFailures
    <3>2. ReadingHolds(r)' BY <3>1 DEF ReadingHolds, Idle
    <3> QED BY <2>4, <3>2, <1>i, <1>1 DEF ClearFailures, Locked
  <2>5. CASE StartRefresh(r)
    <3> DEFINE next == [at |-> "refresh", read |-> 0, missed |-> {}]
    <3>1. next \in RequestStates /\ next.at = "refresh" BY DEF RequestStates, Stages
    <3> HIDE DEF next
    <3>2. Moves(r, next, {}) /\ UNCHANGED <<row, links>> /\ refreshToken # "null"
      BY <2>5 DEF StartRefresh, next
    <3>3. request'[r] = next BY <3>1, <3>2, <1>2
    <3>4. ReadingHolds(r)' BY <3>1, <3>2, <3>3 DEF ReadingHolds, row
    <3> QED BY <3>1, <3>2, <3>4, <1>1 DEF row, Locked
  <2>6. CASE GenerateTokens(r)
    <3> DEFINE next == IF request[r].at = "grant" THEN [request[r] EXCEPT !.at = "clear"]
                       ELSE Idle
    <3>1. /\ next \in RequestStates /\ next.at \in {"clear", "idle"}
          /\ next.at = "clear" =>
               request[r].at = "grant" /\ next.missed = request[r].missed
      BY <1>t, <1>i DEF AccountTypeOK, RequestStates, Stages, Idle
    <3> HIDE DEF next
    <3>2. Moves(r, next, {}) BY <2>6 DEF GenerateTokens, next
    <3>3. /\ refreshToken' = "hash"
          /\ UNCHANGED <<failedLoginAttempts, lockedUntil, links>>
      BY <2>6 DEF GenerateTokens
    <3>4. request'[r] = next BY <3>1, <3>2, <1>2
    <3>5. ReadingHolds(r)'
      BY <3>1, <3>3, <3>4 DEF ReadingHolds, Locked, AccountInvariant
    <3> QED BY <3>1, <3>2, <3>3, <3>5, <1>1 DEF Locked
  <2>7. CASE StartReset(r)
    <3> DEFINE next == [at |-> "reset", read |-> passwordResetToken, missed |-> {}]
    <3>1. next \in RequestStates BY <1>t DEF RequestStates, Stages, AccountTypeOK
    <3>2. next.at = "reset" /\ next.read = passwordResetToken OBVIOUS
    <3> HIDE DEF next
    <3>3. Moves(r, next, {}) /\ passwordResetToken # 0 /\ UNCHANGED <<row, links>>
      BY <2>7 DEF StartReset, next
    <3>4. request'[r] = next BY <3>1, <3>3, <1>2
    <3>5. passwordResetToken \in 1..links
      BY <3>3, <1>t, <1>n DEF AccountTypeOK
    <3>6. ReadingHolds(r)' BY <3>2, <3>3, <3>4, <3>5 DEF ReadingHolds
    <3> QED BY <3>1, <3>3, <3>6, <1>1 DEF row, Locked
  <2>8. CASE ResetPassword(r)
    <3>1. request'[r] = Idle BY <2>8, <1>i, <1>2 DEF ResetPassword
    <3>2. ReadingHolds(r)' BY <3>1 DEF ReadingHolds, Idle
    <3> QED BY <2>8, <3>2, <1>i, <1>1 DEF ResetPassword, Locked
  <2>9. CASE GiveUp(r)
    <3>1. request'[r] = Idle BY <2>9, <1>i, <1>2 DEF GiveUp
    <3>2. ReadingHolds(r)' BY <3>1 DEF ReadingHolds, Idle
    <3> QED BY <2>9, <3>2, <1>i, <1>1 DEF GiveUp, row, Locked
  <2> QED BY <1>3, <2>1, <2>2, <2>3, <2>4, <2>5, <2>6, <2>7, <2>8, <2>9 DEF Login
<1>4. CASE Reissue BY <1>4, <1>h DEF Reissue, ReadingHolds, Locked
<1>5. CASE Logout \/ ChangePassword
  <2>1. EndSession BY <1>5 DEF Logout, ChangePassword
  <2>2. request'[q] = Others({"ended"})[q] BY <2>1 DEF EndSession
  <2> QED BY <2>1, <2>2, ReadingsKept DEF EndSession, Locked
<1>6. CASE ForgotPassword
  <2>1. 1..links \subseteq 1..(links + 1) BY <1>n
  <2> QED BY <2>1, <1>6, <1>h DEF ForgotPassword, ReadingHolds, Locked
<1>7. CASE ExpireLink BY <1>7, <1>h DEF ExpireLink, ReadingHolds, Locked
<1>8. CASE Tick BY <1>8, <1>h DEF Tick, ReadingHolds, Locked
<1>9. CASE UNCHANGED accountVars
  BY <1>9, <1>h DEF accountVars, row, ReadingHolds, Locked
<1> QED BY <1>3, <1>4, <1>5, <1>6, <1>7, <1>8, <1>9 DEF AccountNext

\* Who has found a link, step by step: a call that goes on had found it before,
\* or finds the one that stands in the row.
LEMMA FindersNext ==
  ASSUME AccountInvariant, [AccountNext]_accountVars, NEW q \in Requests,
         request'[q].at = "reset"
  PROVE  \/ request[q].at = "reset" /\ request'[q].read = request[q].read
         \/ request'[q].read = passwordResetToken
<1> USE AccountAssumption
<1>t. AccountTypeOK BY DEF AccountInvariant
<1>i. Idle \in RequestStates /\ Idle.at = "idle" BY DEF Idle, RequestStates, Stages
<1>s. request[q] \in RequestStates BY <1>t DEF AccountTypeOK
<1>1. ASSUME NEW r \in Requests, NEW next \in RequestStates,
             NEW events \in SUBSET {"counted", "locked", "ended"}, Moves(r, next, events),
             next.at # "reset" \/ next.read = passwordResetToken
      PROVE  \/ request[q].at = "reset" /\ request'[q].read = request[q].read
             \/ request'[q].read = passwordResetToken
  <2>1. CASE q = r BY <1>1, <2>1, <1>t, MovesShape
  <2>2. CASE q # r
    <3>1. request'[q] = Others(events)[q] BY <1>1, <2>2, <1>t, MovesShape
    <3> QED BY <3>1, <1>t, OthersShape
  <2> QED BY <2>1, <2>2
<1>2. ASSUME NEW r \in Requests, StartReset(r)
      PROVE  \/ request[q].at = "reset" /\ request'[q].read = request[q].read
             \/ request'[q].read = passwordResetToken
  <2> DEFINE next == [at |-> "reset", read |-> passwordResetToken, missed |-> {}]
  <2>1. next \in RequestStates /\ next.read = passwordResetToken
    BY <1>t DEF RequestStates, Stages, AccountTypeOK
  <2>2. Moves(r, next, {}) BY <1>2 DEF StartReset
  <2> HIDE DEF next
  <2> QED BY <2>1, <2>2, <1>1
<1>3. ASSUME NEW r \in Requests,
             LoginFails(r) \/ ClearFailures(r) \/ ResetPassword(r) \/ GiveUp(r)
      PROVE  \/ request[q].at = "reset" /\ request'[q].read = request[q].read
             \/ request'[q].read = passwordResetToken
  <2>1. \E events \in SUBSET {"counted", "locked", "ended"} : Moves(r, Idle, events)
    BY <1>3 DEF LoginFails, ClearFailures, ResetPassword, GiveUp
  <2> QED BY <2>1, <1>i, <1>1
<1>4. ASSUME NEW r \in Requests,
             StartLogin(r) \/ LoginMatches(r) \/ StartRefresh(r) \/ GenerateTokens(r)
      PROVE  \/ request[q].at = "reset" /\ request'[q].read = request[q].read
             \/ request'[q].read = passwordResetToken
  <2>1. request[r] \in RequestStates /\ failedLoginAttempts \in Nat
    BY <1>t DEF AccountTypeOK
  <2>2. \E next \in RequestStates : next.at # "reset" /\ Moves(r, next, {})
    <3>1. CASE StartLogin(r)
      <4>1. [at |-> "login", read |-> failedLoginAttempts, missed |-> {}] \in RequestStates
        BY <2>1 DEF RequestStates, Stages
      <4> QED BY <3>1, <4>1 DEF StartLogin
    <3>2. CASE LoginMatches(r)
      <4>1. [at |-> "grant", read |-> 0, missed |-> request[r].missed \cap {"locked"}]
              \in RequestStates
        BY <2>1 DEF RequestStates, Stages
      <4> QED BY <3>2, <4>1 DEF LoginMatches
    <3>3. CASE StartRefresh(r)
      <4>1. [at |-> "refresh", read |-> 0, missed |-> {}] \in RequestStates
        BY DEF RequestStates, Stages
      <4> QED BY <3>3, <4>1 DEF StartRefresh
    <3>4. CASE GenerateTokens(r)
      <4>1. /\ [request[r] EXCEPT !.at = "clear"] \in RequestStates
            /\ [request[r] EXCEPT !.at = "clear"].at = "clear"
        BY <2>1 DEF RequestStates, Stages
      <4> QED BY <3>4, <4>1, <1>i DEF GenerateTokens
    <3> QED BY <1>4, <3>1, <3>2, <3>3, <3>4
  <2> QED BY <2>2, <1>1
<1>5. CASE Logout \/ ChangePassword
  <2>1. request' = Others({"ended"}) BY <1>5 DEF Logout, ChangePassword, EndSession
  <2> QED BY <2>1, <1>t, OthersShape
<1>6. CASE Reissue \/ ForgotPassword \/ ExpireLink \/ Tick \/ UNCHANGED accountVars
  BY <1>6 DEF Reissue, ForgotPassword, ExpireLink, Tick, accountVars
<1> QED BY <1>2, <1>3, <1>4, <1>5, <1>6 DEF AccountNext, Login

\* The uses of links, step by step.
LEMMA UsesNext ==
  AccountInvariant /\ [AccountNext]_accountVars => UsedByEarlierFinders'
<1> SUFFICES ASSUME AccountInvariant, [AccountNext]_accountVars,
                    NEW n \in 1..MaxLinks, uses'[n] > 0
             PROVE  /\ n # passwordResetToken'
                    /\ uses'[n] + Cardinality(Finders(n)') <= Cardinality(Requests)
  BY DEF UsedByEarlierFinders
<1> USE AccountAssumption
<1>t. AccountTypeOK BY DEF AccountInvariant
<1>n. links \in Nat /\ uses[n] \in Nat BY <1>t DEF AccountTypeOK
<1>u. uses[n] > 0 =>
        /\ n # passwordResetToken
        /\ uses[n] + Cardinality(Finders(n)) <= Cardinality(Requests)
  BY DEF AccountInvariant, UsedByEarlierFinders
<1>f. Finders(n)' = {q \in Requests : request'[q].at = "reset" /\ request'[q].read = n}
  BY DEF Finders
<1>c. /\ IsFiniteSet(Finders(n)) /\ IsFiniteSet(Finders(n)')
      /\ Cardinality(Requests) \in Nat /\ Cardinality(Finders(n)) \in Nat
      /\ Cardinality(Finders(n)') \in Nat
  <2>1. Finders(n) \subseteq Requests /\ Finders(n)' \subseteq Requests
    BY <1>f DEF Finders
  <2> QED BY <2>1, FS_Subset, FS_CardinalityType
<1>1. ASSUME NEW r \in Requests, ResetPassword(r)
      PROVE  /\ n # passwordResetToken'
             /\ uses'[n] + Cardinality(Finders(n)') <= Cardinality(Requests)
  <2>1. /\ request[r].at = "reset" /\ request[r].read \in 1..links
        /\ passwordResetToken' = 0
        /\ uses' = [uses EXCEPT ![request[r].read] = @ + 1]
    BY <1>1 DEF ResetPassword, AccountInvariant, ReadingHolds
  <2>2. Finders(n)' = Finders(n) \ {r}
    <3>1. Idle \in RequestStates /\ Idle.at = "idle" BY DEF Idle, RequestStates, Stages
    <3>2. PICK events \in SUBSET {"counted", "locked", "ended"} : Moves(r, Idle, events)
      BY <1>1 DEF ResetPassword
    <3>3. /\ request'[r].at = "idle"
          /\ \A q \in Requests \ {r} : request'[q] = Others(events)[q]
      BY <3>1, <3>2, <1>t, MovesShape
    <3>4. \A q \in Requests \ {r} :
            request'[q].at = request[q].at /\ request'[q].read = request[q].read
      BY <3>3, <1>t, OthersShape
    <3> QED BY <3>3, <3>4, <1>f DEF Finders
  <2>3. CASE n = request[r].read
    <3>1. r \in Finders(n) BY <2>1, <2>3 DEF Finders
    <3>2. Cardinality(Finders(n)') = Cardinality(Finders(n)) - 1
      BY <2>2, <3>1, <1>c, FS_RemoveElement
    <3>3. Cardinality(Finders(n)) <= Cardinality(Requests)
      <4>1. Finders(n) \subseteq Requests BY DEF Finders
      <4> QED BY <4>1, FS_Subset
    <3>4. uses'[n] = uses[n] + 1 BY <2>1, <2>3, <1>t DEF AccountTypeOK
    <3> QED BY <2>1, <3>2, <3>3, <3>4, <1>n, <1>u, <1>c
  <2>4. CASE n # request[r].read
    <3>1. uses'[n] = uses[n] BY <2>1, <2>4, <1>t DEF AccountTypeOK
    <3>2. Cardinality(Finders(n)') <= Cardinality(Finders(n))
      BY <2>2, <1>c, FS_Subset
    <3> QED BY <2>1, <3>1, <3>2, <1>n, <1>u, <1>c
  <2> QED BY <2>3, <2>4
<1>2. ASSUME uses' = uses, n # passwordResetToken'
      PROVE  uses'[n] + Cardinality(Finders(n)') <= Cardinality(Requests)
  <2>1. Finders(n)' \subseteq Finders(n)
    BY <1>2, <1>u, <1>f, FindersNext DEF Finders
  <2>2. Cardinality(Finders(n)') <= Cardinality(Finders(n)) BY <2>1, <1>c, FS_Subset
  <2> QED BY <2>2, <1>2, <1>n, <1>u, <1>c
<1>3. ASSUME ForgotPassword
      PROVE  /\ n # passwordResetToken'
             /\ uses'[n] + Cardinality(Finders(n)') <= Cardinality(Requests)
  <2>1. uses' = uses /\ passwordResetToken' = links + 1 BY <1>3 DEF ForgotPassword
  <2>2. n <= links BY <2>1, <1>t DEF AccountTypeOK
  <2>3. n # passwordResetToken' BY <2>1, <2>2, <1>n
  <2> QED BY <2>1, <2>3, <1>2
<1>4. ASSUME UNCHANGED <<uses, passwordResetToken>>
      PROVE  /\ n # passwordResetToken'
             /\ uses'[n] + Cardinality(Finders(n)') <= Cardinality(Requests)
  BY <1>4, <1>2, <1>u
<1>5. ASSUME NEW r \in Requests, Login(r) \/ StartRefresh(r) \/ GenerateTokens(r)
                                 \/ StartReset(r) \/ GiveUp(r)
      PROVE  UNCHANGED <<uses, passwordResetToken>>
  BY <1>5
  DEF Login, StartLogin, LoginFails, LoginMatches, ClearFailures, StartRefresh,
      GenerateTokens, StartReset, GiveUp, row
<1>6. ASSUME Reissue \/ Logout \/ ChangePassword \/ ExpireLink \/ Tick
               \/ UNCHANGED accountVars
      PROVE  UNCHANGED <<uses, passwordResetToken>>
  BY <1>6 DEF Reissue, Logout, ChangePassword, EndSession, ExpireLink, Tick, accountVars, row
<1> QED BY <1>1, <1>3, <1>4, <1>5, <1>6 DEF AccountNext

\* The promises of the counter, step by step.
LEMMA AccountNextKeeps ==
  AccountInvariant /\ [AccountNext]_accountVars => AccountInvariant'
<1> SUFFICES ASSUME AccountInvariant, [AccountNext]_accountVars
             PROVE  AccountInvariant'
  OBVIOUS
<1> USE AccountAssumption
<1>t. AccountTypeOK BY DEF AccountInvariant
<1>0. AccountTypeOK' /\ UsedByEarlierFinders' /\ \A q \in Requests : ReadingHolds(q)'
  BY AccountTypes, UsesNext, ReadingsNext
<1>p. CountsConsecutive /\ FullCounterHasLock BY DEF AccountInvariant
<1> DEFINE Promises == CountsConsecutive /\ FullCounterHasLock
<1>2. ASSUME UNCHANGED <<failedLoginAttempts, lockedUntil, consecutive>> PROVE Promises'
  BY <1>2, <1>p DEF CountsConsecutive, FullCounterHasLock
<1>3. ASSUME NEW r \in Requests, LoginFails(r) PROVE Promises'
  <2>1. /\ failedLoginAttempts' = Failed(r)
        /\ Failed(r) = MaxFailed => lockedUntil' = LockTicks
        /\ Failed(r) # MaxFailed => lockedUntil' = lockedUntil
    BY <1>3 DEF LoginFails
  <2>2. LockTicks # NoLock OBVIOUS
  <2>3. FullCounterHasLock' BY <2>1, <2>2 DEF FullCounterHasLock
  <2>4. ASSUME consecutive' # NoCount PROVE failedLoginAttempts' = consecutive'
    <3>1. /\ "counted" \notin request[r].missed /\ consecutive # NoCount
          /\ consecutive' = IF consecutive < MaxFailed THEN consecutive + 1 ELSE MaxFailed
      BY <1>3, <2>4 DEF LoginFails, Recount
    <3>2. request[r].read = failedLoginAttempts
      BY <1>3, <3>1 DEF AccountInvariant, ReadingHolds, LoginFails
    <3> QED BY <2>1, <3>1, <3>2, <1>p DEF CountsConsecutive, Failed
  <2>5. CountsConsecutive' BY <2>3, <2>4 DEF CountsConsecutive, FullCounterHasLock
  <2> QED BY <2>3, <2>5
<1>4. ASSUME NEW r \in Requests, ClearFailures(r) PROVE Promises'
  BY <1>4 DEF ClearFailures, CountsConsecutive, FullCounterHasLock
<1>5. ASSUME Tick PROVE Promises'
  <2>1. lockedUntil' # NoLock BY <1>5, <1>t DEF Tick, Locked, AccountTypeOK
  <2> QED BY <2>1, <1>5, <1>p DEF Tick, CountsConsecutive, FullCounterHasLock
<1>6. ASSUME NEW r \in Requests,
             StartLogin(r) \/ LoginMatches(r) \/ StartRefresh(r) \/ GenerateTokens(r)
               \/ StartReset(r) \/ ResetPassword(r) \/ GiveUp(r)
      PROVE  Promises'
  BY <1>6, <1>2
  DEF StartLogin, LoginMatches, StartRefresh, GenerateTokens, StartReset, ResetPassword,
      GiveUp, row
<1>7. ASSUME Reissue \/ Logout \/ ChangePassword \/ ForgotPassword \/ ExpireLink
      PROVE  Promises'
  BY <1>7, <1>2 DEF Reissue, Logout, ChangePassword, EndSession, ForgotPassword, ExpireLink
<1>8. ASSUME UNCHANGED accountVars PROVE Promises'
  BY <1>8, <1>2 DEF accountVars, row
<1> QED
  BY <1>0, <1>3, <1>4, <1>5, <1>6, <1>7, <1>8 DEF AccountNext, Login, AccountInvariant

\* The invariant holds throughout.
LEMMA AccountInvariantHolds == AccountSpec => []AccountInvariant
<1>1. AccountInit => AccountInvariant
  <2> SUFFICES ASSUME AccountInit PROVE AccountInvariant
    OBVIOUS
  <2> USE AccountAssumption DEF AccountInit
  <2>1. Idle \in RequestStates /\ Idle.at = "idle" BY DEF Idle, RequestStates, Stages
  <2>2. AccountTypeOK
    <3>1. /\ request \in [Requests -> RequestStates]
          /\ \A q \in Requests : request[q].at = "idle"
      BY <2>1
    <3>2. 0 \in 0..MaxFailed /\ 0 \in 0..MaxLinks /\ 0 \in 0..0
      OBVIOUS
    <3>3. /\ uses \in [1..MaxLinks -> Nat]
          /\ \A n \in 1..MaxLinks : uses[n] > 0 => n <= links
      OBVIOUS
    <3>4. /\ refreshToken \in {"null", "hash"} /\ failedLoginAttempts \in 0..MaxFailed
          /\ lockedUntil \in 0..LockTicks \cup {NoLock}
          /\ consecutive \in 0..MaxFailed \cup {NoCount}
      OBVIOUS
    <3>5. /\ links \in 0..MaxLinks /\ passwordResetToken \in 0..links
          /\ passwordResetExpired \in BOOLEAN
          /\ passwordResetToken = 0 => ~passwordResetExpired
      BY <3>2
    <3> QED BY <3>1, <3>3, <3>4, <3>5 DEF AccountTypeOK
  <2>3. CountsConsecutive /\ FullCounterHasLock
    BY DEF CountsConsecutive, FullCounterHasLock
  <2>4. UsedByEarlierFinders BY DEF UsedByEarlierFinders
  <2>5. \A q \in Requests : ReadingHolds(q) BY <2>1 DEF ReadingHolds
  <2> QED BY <2>2, <2>3, <2>4, <2>5 DEF AccountInvariant
<1> QED BY <1>1, AccountNextKeeps, PTL DEF AccountSpec

\* The state of the account keeps its types (the users row and the requests).
THEOREM AccountTypeCorrect == AccountSpec => []AccountTypeOK
BY AccountInvariantHolds, PTL DEF AccountInvariant

\* login's counter is exact, and locks, unless failures overlapped.
THEOREM FailuresAreCounted == AccountSpec => []CountsConsecutive
BY AccountInvariantHolds, PTL DEF AccountInvariant

\* No update of login, from however old a reading, leaves a full counter unlocked.
THEOREM FullCountersHaveLocks == AccountSpec => []FullCounterHasLock
BY AccountInvariantHolds, PTL DEF AccountInvariant

\* resetPassword and forgotPassword: after its first use a link serves at most the
\* calls that had found it before, each of them once.
THEOREM LinksUsedInFlight == AccountSpec => []UsedByEarlierFinders
BY AccountInvariantHolds, PTL DEF AccountInvariant

\* login: nothing but an attempt that began before the lock lifts it early.
THEOREM LocksStand == AccountSpec => LockStands
<1>1. AccountInvariant /\ [AccountNext]_accountVars => [LiftedByEarlierLogin]_accountVars
  <2> SUFFICES ASSUME AccountInvariant, [AccountNext]_accountVars, LiftedEarly
               PROVE  LiftedByEarlierLogin
    BY DEF LiftedByEarlierLogin
  <2> USE AccountAssumption
  <2>t. AccountTypeOK BY DEF AccountInvariant
  <2>1. \A r \in Requests : ~LoginFails(r)
    BY DEF LiftedEarly, Locked, LoginFails
  <2>2. ~Tick BY <2>t DEF LiftedEarly, Locked, Tick, AccountTypeOK
  <2>3. PICK r \in Requests : ClearFailures(r)
    BY <2>1, <2>2
    DEF LiftedEarly, Locked, AccountNext, Login, StartLogin, LoginMatches, StartRefresh,
        GenerateTokens, StartReset, ResetPassword, GiveUp, Reissue, EndSession,
        Logout, ChangePassword, ForgotPassword, ExpireLink, accountVars, row
  <2>4. request[r].at = "clear" /\ "locked" \in request[r].missed
    BY <2>3 DEF ClearFailures, LiftedEarly, AccountInvariant, ReadingHolds
  <2>5. request'[r] = Idle
    <3>1. Idle \in RequestStates BY DEF Idle, RequestStates, Stages
    <3> QED BY <2>3, <3>1, <2>t, MovesShape DEF ClearFailures
  <2> QED BY <2>4, <2>5 DEF LiftedByEarlierLogin
<1> QED BY <1>1, AccountInvariantHolds, PTL DEF AccountSpec, LockStands

\* refresh brings back no session that was ended before it read the row.
THEOREM EndedSessionsStayEnded == AccountSpec => EndedStaysEnded
<1>1. AccountInvariant => RefreshedByEarlierReading
  BY DEF AccountInvariant, ReadingHolds, RefreshedByEarlierReading
<1> QED BY <1>1, AccountInvariantHolds, PTL DEF EndedStaysEnded
=============================================================================
