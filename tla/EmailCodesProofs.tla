-------------------------- MODULE EmailCodesProofs --------------------------
(***************************************************************************)
(* Sending and verifying codes implements the limiter, and two codes are   *)
(* unused together only if overlapping calls sent them.                    *)
(***************************************************************************)
EXTENDS EmailCodes, TLAPS

\* Every step of the codes is a step of the limiter, or none of its business.
LEMMA CodesStepLimits == [CodesNext]_allVars => [LimitsNext]_limitVars
<1> SUFFICES ASSUME [CodesNext]_allVars PROVE [LimitsNext]_limitVars
  OBVIOUS
<1>1. ASSUME NEW c \in Callers,
             \/ SendVerificationCode(c) \/ SendAtRegistration(c) \/ Limited(c)
             \/ FindUnused(c) \/ CreateCode(c) \/ FailToSend(c)
      PROVE  [LimitsNext]_limitVars
  BY <1>1 DEF SendVerificationCode, SendAtRegistration, Limited, FindUnused, CreateCode,
              FailToSend, LimitsNext, ForgotPassword
<1>2. ASSUME NEW v \in Verifiers,
             \/ VerifyEmail(v) \/ FindVerification(v) \/ RejectCode(v)
             \/ AcceptCode(v) \/ FailToVerify(v)
      PROVE  UNCHANGED limitVars
  BY <1>2 DEF VerifyEmail, FindVerification, RejectCode, AcceptCode, FailToVerify,
              Answer, VerifyOnly
<1>3. CASE Expire BY <1>3 DEF Expire
<1>4. CASE Tick \/ CleanupExpiredRateLimits BY <1>4 DEF LimitsNext
<1>5. CASE UNCHANGED allVars BY <1>5 DEF allVars
<1> QED BY <1>1, <1>2, <1>3, <1>4, <1>5 DEF CodesNext

\* sendVerificationCode is a caller of checkRateLimit like any other.
THEOREM CodesRespectLimits == CodesSpec => LimitsSpec
<1>1. CodesInit => LimitsInit BY DEF CodesInit
<1> QED BY <1>1, CodesStepLimits, PTL DEF CodesSpec, LimitsSpec

-----------------------------------------------------------------------------
\* The types of the codes, without the limiter's.
TableOK ==
  /\ emailVerification \in [CodeIds -> CodeRows \cup {NoCode}]
  /\ nextId \in 1..(MaxCodes + 1)
  /\ pending \in [Callers -> PendingRows \cup {NoCode}]
  /\ seen \in [Verifiers -> SeenRows \cup {NoCode}]
  /\ verifying \in [Verifiers -> {"idle", "find", "decide"}]
  /\ \A v \in Verifiers : verifying[v] = "decide" => seen[v] # NoCode

Owner(i) == emailVerification[i].by

\* A sender's open transaction has found every unused code of its own, and its
\* number is nobody else's.
OpenSend(c) ==
  pending[c] # NoCode =>
    /\ pending[c].id < nextId
    /\ emailVerification[pending[c].id] = NoCode
    /\ \A i \in pending[c].stale : emailVerification[i] # NoCode
    /\ \A i \in Unused : Owner(i) = c => i \in pending[c].stale
    /\ \A d \in Callers \ {c} : pending[d] # NoCode => pending[d].id # pending[c].id

CodesInvariant ==
  /\ TableOK
  /\ LiveCodesOverlap
  /\ \A i \in CodeIds : i >= nextId => emailVerification[i] = NoCode
  /\ \A v \in Verifiers : seen[v] # NoCode => emailVerification[seen[v].id] # NoCode
  /\ \A c \in Callers : OpenSend(c)

\* Marking a row used keeps it a row of its owner.
LEMMA UsedRow ==
  ASSUME NEW row \in CodeRows
  PROVE  LET new == [row EXCEPT !.used = TRUE]
         IN  new \in CodeRows /\ new # NoCode /\ new.used /\ new.by = row.by
<1> DEFINE new == [row EXCEPT !.used = TRUE]
<1>1. new \in CodeRows BY DEF CodeRows
<1>2. new.used = TRUE /\ new.by = row.by BY DEF CodeRows
<1> QED BY <1>1, <1>2, CodesAssumption

\* A step that sends nothing and creates nothing: rows keep their owners, and
\* none becomes unused.
OnlyUses ==
  /\ UNCHANGED <<nextId, pending>>
  /\ \A i \in CodeIds :
       /\ emailVerification'[i] = NoCode <=> emailVerification[i] = NoCode
       /\ i \in Unused' => i \in Unused /\ Owner(i)' = Owner(i)

\* A step that only uses codes keeps the invariant and revives none.
LEMMA UsesKeep ==
  ASSUME CodesInvariant, TableOK', OnlyUses,
         \A v \in Verifiers :
           seen'[v] # NoCode => emailVerification[seen'[v].id] # NoCode
  PROVE  CodesInvariant' /\ NoRevival
<1>1. Unused' \subseteq Unused BY DEF OnlyUses, Unused
<1>2. LiveCodesOverlap'
  BY <1>1 DEF OnlyUses, CodesInvariant, LiveCodesOverlap, Owner, Unused
<1>3. ASSUME NEW c \in Callers PROVE OpenSend(c)'
  BY <1>1, <1>3 DEF OnlyUses, CodesInvariant, OpenSend, TableOK, PendingRows, Unused
<1>4. \A i \in CodeIds : (i >= nextId => emailVerification[i] = NoCode)'
  BY DEF OnlyUses, CodesInvariant
<1>5. \A v \in Verifiers :
        (seen[v] # NoCode => emailVerification[seen[v].id] # NoCode)'
  BY DEF OnlyUses, TableOK, SeenRows
<1>6. NoRevival BY <1>1 DEF NoRevival
<1> QED BY <1>2, <1>3, <1>4, <1>5, <1>6 DEF CodesInvariant

\* What verifyEmail writes only uses codes.
LEMMA VerifyKeeps ==
  ASSUME CodesInvariant, NEW v \in Verifiers,
         RejectCode(v) \/ AcceptCode(v) \/ FailToVerify(v)
  PROVE  CodesInvariant' /\ NoRevival
<1> USE CodesAssumption DEF TableOK, SeenRows, CodeRows
<1>1. TableOK BY DEF CodesInvariant
<1>2. CASE RejectCode(v)
  <2>1. seen[v] \in SeenRows /\ emailVerification[seen[v].id] \in CodeRows
    BY <1>1, <1>2 DEF RejectCode, CodesInvariant
  <2>2. TableOK'
    <3>1. seen[v].attempts < MaxAttempts => seen[v].attempts + 1 \in 0..MaxAttempts
      BY <2>1
    <3> QED BY <1>1, <1>2, <2>1, <3>1 DEF RejectCode, Answer, VerifyOnly
  <2>3. \A i \in CodeIds : i # seen[v].id => emailVerification'[i] = emailVerification[i]
    BY <1>1, <1>2 DEF RejectCode
  <2>4. LET old == emailVerification[seen[v].id]  new == emailVerification'[seen[v].id]
        IN  new \in CodeRows /\ new.by = old.by /\ (old.used => new.used)
    BY <1>1, <1>2, <2>1, <2>2 DEF RejectCode
  <2>5. UNCHANGED <<nextId, pending>> BY <1>2 DEF RejectCode, Answer, VerifyOnly
  <2>6. OnlyUses
    BY <1>1, <2>1, <2>3, <2>4, <2>5 DEF OnlyUses, Unused, Owner
  <2> QED BY <1>1, <1>2, <2>2, <2>6, UsesKeep DEF RejectCode, Answer, CodesInvariant
<1>3. CASE AcceptCode(v)
  <2>1. seen[v] \in SeenRows /\ emailVerification[seen[v].id] \in CodeRows
    BY <1>1, <1>3 DEF AcceptCode, CodesInvariant
  <2>2. TableOK'
    BY <1>1, <1>3, <2>1 DEF AcceptCode, Answer, VerifyOnly
  <2>3. OnlyUses
    BY <1>1, <1>3, <2>1 DEF AcceptCode, Answer, VerifyOnly, OnlyUses, Unused, Owner
  <2> QED BY <1>1, <1>3, <2>2, <2>3, UsesKeep DEF AcceptCode, Answer, CodesInvariant
<1>4. CASE FailToVerify(v)
  <2>1. TableOK' BY <1>1, <1>4 DEF FailToVerify, Answer, VerifyOnly
  <2>2. OnlyUses BY <1>4 DEF FailToVerify, Answer, VerifyOnly, OnlyUses, Unused, Owner
  <2> QED BY <1>1, <1>4, <2>1, <2>2, UsesKeep DEF FailToVerify, Answer, CodesInvariant
<1> QED BY <1>2, <1>3, <1>4

\* Looking a code up reads a row that is there.
LEMMA LookUpKeeps ==
  ASSUME CodesInvariant, NEW v \in Verifiers, VerifyEmail(v) \/ FindVerification(v)
  PROVE  CodesInvariant' /\ NoRevival
<1>1. TableOK BY DEF CodesInvariant
<1>2. OnlyUses
  BY DEF VerifyEmail, FindVerification, VerifyOnly, OnlyUses, Unused, Owner
<1>3. CASE UNCHANGED seen /\ verifying'[v] # "decide"
                          /\ \A w \in Verifiers \ {v} : verifying'[w] = verifying[w]
  <2>1. TableOK'
    BY <1>1, <1>3 DEF VerifyEmail, FindVerification, VerifyOnly, TableOK
  <2> QED BY <1>2, <1>3, <2>1, UsesKeep DEF CodesInvariant
<1>4. CASE FindVerification(v) /\ Valid # {} /\ verifying[v] = "find"
  <2> PICK i \in Valid, match \in BOOLEAN :
        /\ seen' = [seen EXCEPT ![v] =
             [id |-> i, attempts |-> emailVerification[i].attempts, match |-> match]]
        /\ verifying' = [verifying EXCEPT ![v] = "decide"]
    BY <1>4 DEF FindVerification
  <2>1. i \in CodeIds /\ emailVerification[i] \in CodeRows
    BY <1>1 DEF Valid, Unused, TableOK
  <2>2. seen'[v] \in SeenRows
    BY <1>1, <2>1 DEF TableOK, CodeRows, SeenRows
  <2>3. seen'[v] # NoCode /\ seen'[v].id = i
    BY <1>1, <2>1, <2>2, CodesAssumption DEF TableOK
  <2>4. TableOK'
    BY <1>1, <1>4, <2>2, <2>3 DEF FindVerification, VerifyOnly, TableOK
  <2>5. \A w \in Verifiers :
          seen'[w] # NoCode => emailVerification[seen'[w].id] # NoCode
    BY <1>1, <2>1, <2>3, CodesAssumption DEF CodesInvariant, TableOK
  <2> QED BY <1>2, <2>4, <2>5, UsesKeep
<1> QED
  BY <1>1, <1>3, <1>4 DEF VerifyEmail, FindVerification, TableOK

\* A sender's transaction begins: it takes the next number.
LEMMA FindUnusedKeeps ==
  ASSUME CodesInvariant, NEW c \in Callers, FindUnused(c)
  PROVE  CodesInvariant' /\ NoRevival
<1> USE CodesAssumption
<1> DEFINE row == [id |-> nextId, stale |-> Unused]
<1>1. TableOK /\ nextId \in CodeIds BY DEF CodesInvariant, TableOK, FindUnused, CodeIds
<1>2. row \in PendingRows /\ row # NoCode /\ row.id = nextId /\ row.stale = Unused
  BY <1>1 DEF PendingRows, Unused
<1>3. /\ pending' = [pending EXCEPT ![c] = row] /\ nextId' = nextId + 1
      /\ UNCHANGED <<emailVerification, seen, verifying>>
  BY DEF FindUnused
<1> HIDE DEF row
<1>4. TableOK' BY <1>1, <1>2, <1>3 DEF TableOK, CodeIds
<1>5. LiveCodesOverlap' BY <1>3 DEF CodesInvariant, LiveCodesOverlap, Unused
<1>6. ASSUME NEW d \in Callers PROVE OpenSend(d)'
  <2>1. CASE d = c
    <3>1. pending'[d] = row BY <1>1, <1>3, <2>1 DEF TableOK
    <3>2. \A e \in Callers \ {d} : pending'[e] # NoCode => pending'[e].id < nextId
      BY <1>1, <1>3, <2>1 DEF TableOK, CodesInvariant, OpenSend
    <3>3. emailVerification[nextId] = NoCode
      BY <1>1 DEF CodesInvariant, CodeIds
    <3> QED BY <1>1, <1>2, <1>3, <3>1, <3>2, <3>3 DEF OpenSend, Unused, CodeIds
  <2>2. CASE d # c
    <3>1. pending'[d] = pending[d] /\ pending'[c] = row
      BY <1>1, <1>3, <2>2 DEF TableOK
    <3>2. pending[d] # NoCode => pending[d].id \in CodeIds
      BY <1>1 DEF TableOK, PendingRows
    <3>3. OpenSend(d) BY DEF CodesInvariant
    <3>4. \A e \in Callers \ {c} : pending'[e] = pending[e]
      BY <1>1, <1>3 DEF TableOK
    <3> QED BY <1>1, <1>2, <1>3, <3>1, <3>2, <3>3, <3>4, <2>2
            DEF OpenSend, Unused, CodeIds, Owner
  <2> QED BY <2>1, <2>2
<1>7. \A i \in CodeIds : (i >= nextId => emailVerification[i] = NoCode)'
  BY <1>1, <1>3 DEF CodesInvariant, CodeIds
<1>8. \A v \in Verifiers :
        (seen[v] # NoCode => emailVerification[seen[v].id] # NoCode)'
  BY <1>3 DEF CodesInvariant
<1>9. NoRevival BY <1>3 DEF NoRevival, Unused
<1> QED BY <1>4, <1>5, <1>6, <1>7, <1>8, <1>9 DEF CodesInvariant

\* The transaction commits: of its sender's codes only the new one is unused.
LEMMA CreateCodeKeeps ==
  ASSUME CodesInvariant, NEW c \in Callers, CreateCode(c)
  PROVE  CodesInvariant' /\ NoRevival
<1> USE CodesAssumption
<1> DEFINE n == pending[c].id
           new == [used |-> FALSE, attempts |-> 0, by |-> c]
<1>1. TableOK /\ pending[c] # NoCode BY DEF CodesInvariant, CreateCode
<1>2. /\ n \in CodeIds /\ n < nextId /\ emailVerification[n] = NoCode
      /\ pending[c].stale \subseteq CodeIds
      /\ \A i \in pending[c].stale : emailVerification[i] # NoCode
  BY <1>1 DEF TableOK, PendingRows, CodesInvariant, OpenSend
<1>3. new \in CodeRows /\ new # NoCode /\ new.by = c
  <2>1. 0 \in 0..MaxAttempts OBVIOUS
  <2>2. new \in CodeRows BY <2>1 DEF CodeRows
  <2> QED BY <2>2
<1> HIDE DEF new
<1>4. \A i \in CodeIds :
        /\ i = n => emailVerification'[i] = new
        /\ i \in pending[c].stale =>
             emailVerification'[i] = [emailVerification[i] EXCEPT !.used = TRUE]
        /\ i # n /\ i \notin pending[c].stale =>
             emailVerification'[i] = emailVerification[i]
  BY <1>2 DEF CreateCode, new
<1>5. /\ pending' = [pending EXCEPT ![c] = NoCode]
      /\ UNCHANGED <<nextId, seen, verifying>>
      /\ emailVerification' = [i \in CodeIds |-> emailVerification'[i]]
  BY DEF CreateCode
<1>6. ASSUME NEW i \in CodeIds
      PROVE  /\ emailVerification'[i] \in CodeRows \cup {NoCode}
             /\ emailVerification[i] # NoCode => emailVerification'[i] # NoCode
             /\ i # n /\ emailVerification[i] = NoCode => emailVerification'[i] = NoCode
  <2>1. emailVerification[i] \in CodeRows \cup {NoCode} BY <1>1 DEF TableOK
  <2>2. CASE i \in pending[c].stale
    <3>1. emailVerification[i] \in CodeRows /\ emailVerification[i] # NoCode
      BY <1>2, <2>1, <2>2
    <3>2. emailVerification'[i] = [emailVerification[i] EXCEPT !.used = TRUE]
      BY <1>4, <2>2
    <3>3. emailVerification'[i] \in CodeRows /\ emailVerification'[i] # NoCode
      BY <3>1, <3>2, UsedRow
    <3> QED BY <3>1, <3>3
  <2>3. CASE i = n
    <3>1. emailVerification'[i] = new BY <1>4, <2>3
    <3> QED BY <1>3, <3>1, <2>3
  <2>4. CASE i # n /\ i \notin pending[c].stale
    <3>1. emailVerification'[i] = emailVerification[i] BY <1>4, <2>4
    <3> QED BY <2>1, <3>1
  <2> QED BY <2>2, <2>3, <2>4
<1>7. TableOK' BY <1>1, <1>5, <1>6 DEF TableOK
<1>8. \A i \in Unused' : i # n => i \in Unused /\ i \notin pending[c].stale
                                  /\ emailVerification'[i] = emailVerification[i]
  <2>1. ASSUME NEW i \in Unused', i # n, i \in pending[c].stale PROVE FALSE
    <3>1. i \in CodeIds /\ emailVerification[i] \in CodeRows
      BY <1>1, <1>2, <2>1 DEF TableOK
    <3>2. emailVerification'[i].used BY <1>4, <2>1, <3>1, UsedRow
    <3> QED BY <2>1, <3>2 DEF Unused
  <2> QED BY <1>4, <2>1 DEF Unused
<1>9. emailVerification'[n].by = c BY <1>2, <1>3, <1>4
<1>10. \A i \in Unused' : i # n => Owner(i) # c
  BY <1>1, <1>8 DEF CodesInvariant, OpenSend
<1>11. LiveCodesOverlap'
  BY <1>8, <1>9, <1>10 DEF CodesInvariant, LiveCodesOverlap, Owner
<1>12. ASSUME NEW d \in Callers PROVE OpenSend(d)'
  <2>1. CASE d = c BY <1>1, <1>5, <2>1 DEF OpenSend, TableOK
  <2>2. CASE d # c
    <3>1. pending'[d] = pending[d] /\ pending'[c] = NoCode
      BY <1>1, <1>5, <2>2 DEF TableOK
    <3>2. OpenSend(d) BY DEF CodesInvariant
    <3>3. ASSUME pending[d] # NoCode
          PROVE  /\ pending[d].id # n /\ pending[d].id \in CodeIds
                 /\ pending[d].stale \subseteq CodeIds
      BY <1>1, <2>2, <3>2, <3>3 DEF OpenSend, TableOK, PendingRows
    <3>4. \A e \in Callers \ {c} : pending'[e] = pending[e]
      BY <1>1, <1>5 DEF TableOK
    <3>5. ASSUME pending[d] # NoCode, NEW i \in Unused', Owner(i)' = d
          PROVE  i \in pending[d].stale
      BY <1>8, <1>9, <2>2, <3>2, <3>5 DEF OpenSend, Owner
    <3>6. ASSUME pending[d] # NoCode
          PROVE  /\ emailVerification'[pending[d].id] = NoCode
                 /\ \A i \in pending[d].stale : emailVerification'[i] # NoCode
      BY <1>6, <3>2, <3>3, <3>6 DEF OpenSend
    <3> QED BY <1>5, <3>1, <3>2, <3>4, <3>5, <3>6 DEF OpenSend, Owner
  <2> QED BY <2>1, <2>2
<1>13. \A i \in CodeIds : (i >= nextId => emailVerification[i] = NoCode)'
  BY <1>1, <1>2, <1>5, <1>6 DEF CodesInvariant, TableOK, CodeIds
<1>14. \A v \in Verifiers :
        (seen[v] # NoCode => emailVerification[seen[v].id] # NoCode)'
  BY <1>1, <1>5, <1>6 DEF CodesInvariant, TableOK, SeenRows
<1>15. NoRevival BY <1>2, <1>8 DEF NoRevival
<1> QED BY <1>7, <1>11, <1>12, <1>13, <1>14, <1>15 DEF CodesInvariant

\* A failed sender's number stays without a row.
LEMMA FailToSendKeeps ==
  ASSUME CodesInvariant, NEW c \in Callers, FailToSend(c)
  PROVE  CodesInvariant' /\ NoRevival
<1>1. TableOK BY DEF CodesInvariant
<1>2. TableOK' BY <1>1 DEF FailToSend, TableOK
<1>3. \A d \in Callers : pending'[d] = pending[d] \/ pending'[d] = NoCode
  BY <1>1 DEF FailToSend, TableOK
<1>4. \A d \in Callers : OpenSend(d)'
  BY <1>3 DEF FailToSend, CodesInvariant, OpenSend, Unused, Owner
<1> QED BY <1>2, <1>4 DEF FailToSend, CodesInvariant, LiveCodesOverlap, Unused, NoRevival

\* Every step keeps the invariant and revives no code.
LEMMA CodesNextKeeps ==
  CodesInvariant /\ [CodesNext]_allVars => CodesInvariant' /\ NoRevival
<1> SUFFICES ASSUME CodesInvariant, [CodesNext]_allVars
             PROVE  CodesInvariant' /\ NoRevival
  OBVIOUS
<1>1. CASE UNCHANGED <<emailVerification, nextId, pending, verifying, seen>>
  BY <1>1 DEF CodesInvariant, TableOK, LiveCodesOverlap, OpenSend, Unused, Owner, NoRevival
<1>2. ASSUME NEW c \in Callers,
             SendVerificationCode(c) \/ SendAtRegistration(c) \/ Limited(c)
      PROVE  CodesInvariant' /\ NoRevival
  BY <1>1, <1>2 DEF SendVerificationCode, SendAtRegistration, Limited, codeVars
<1>3. CASE Expire BY <1>1, <1>3 DEF Expire
<1>4. CASE (Tick \/ CleanupExpiredRateLimits) /\ UNCHANGED codeVars
  BY <1>1, <1>4 DEF codeVars
<1>5. CASE UNCHANGED allVars BY <1>1, <1>5 DEF allVars, codeVars
<1> QED
  BY <1>2, <1>3, <1>4, <1>5, VerifyKeeps, LookUpKeeps, FindUnusedKeeps,
     CreateCodeKeeps, FailToSendKeeps DEF CodesNext

\* It holds at first.
LEMMA CodesInitially == CodesInit => CodesInvariant
  BY CodesAssumption
  DEF CodesInit, CodesInvariant, TableOK, LiveCodesOverlap, OpenSend, Unused, CodeIds

\* Counting from an attempt read earlier cannot leave a full counter unused.
LEMMA ExhaustedNext ==
  CodesInvariant /\ ExhaustedIsUsed /\ [CodesNext]_allVars => ExhaustedIsUsed'
<1> SUFFICES ASSUME CodesInvariant, ExhaustedIsUsed, [CodesNext]_allVars
             PROVE  ExhaustedIsUsed'
  OBVIOUS
<1> USE CodesAssumption
<1>1. TableOK BY DEF CodesInvariant
<1>2. CASE UNCHANGED emailVerification
  BY <1>2 DEF ExhaustedIsUsed, Unused
<1>3. ASSUME NEW c \in Callers, CreateCode(c) PROVE ExhaustedIsUsed'
  <2>1. ASSUME NEW i \in Unused' PROVE emailVerification'[i].attempts < MaxAttempts
    <3>1. i \in CodeIds BY <2>1 DEF Unused
    <3>2. CASE i = pending[c].id BY <1>3, <3>1, <3>2 DEF CreateCode
    <3>3. CASE i # pending[c].id /\ i \notin pending[c].stale
      <4>1. emailVerification'[i] = emailVerification[i]
        BY <1>3, <3>1, <3>3 DEF CreateCode
      <4> QED BY <2>1, <3>1, <4>1 DEF ExhaustedIsUsed, Unused
    <3>4. CASE i # pending[c].id /\ i \in pending[c].stale
      <4>1. emailVerification'[i] = [emailVerification[i] EXCEPT !.used = TRUE]
        BY <1>3, <3>1, <3>4 DEF CreateCode
      <4>2. emailVerification[i] \in CodeRows
        BY <1>1, <1>3, <3>1, <3>4 DEF CreateCode, CodesInvariant, OpenSend, TableOK
      <4> QED BY <2>1, <4>1, <4>2, UsedRow DEF Unused
    <3> QED BY <3>2, <3>3, <3>4
  <2> QED BY <2>1 DEF ExhaustedIsUsed
<1>4. ASSUME NEW v \in Verifiers, RejectCode(v) \/ AcceptCode(v) PROVE ExhaustedIsUsed'
  <2> DEFINE k == seen[v].id
  <2>1. seen[v] \in SeenRows /\ k \in CodeIds /\ emailVerification[k] \in CodeRows
    BY <1>1, <1>4 DEF RejectCode, AcceptCode, CodesInvariant, TableOK, SeenRows
  <2>2. \A i \in CodeIds : i # k => emailVerification'[i] = emailVerification[i]
    BY <1>1, <1>4 DEF RejectCode, AcceptCode, TableOK
  <2>3. ASSUME ~emailVerification'[k].used
        PROVE  emailVerification'[k].attempts < MaxAttempts
    <3>1. CASE AcceptCode(v)
      <4>1. emailVerification'[k] = [emailVerification[k] EXCEPT !.used = TRUE]
        BY <1>1, <2>1, <3>1 DEF AcceptCode, TableOK
      <4> QED BY <2>1, <2>3, <4>1, UsedRow
    <3>2. CASE RejectCode(v)
      <4>1. /\ seen[v].attempts + 1 >= MaxAttempts => emailVerification'[k].used
            /\ emailVerification'[k].attempts =
                 IF seen[v].attempts >= MaxAttempts THEN emailVerification[k].attempts
                 ELSE seen[v].attempts + 1
        BY <1>1, <2>1, <3>2 DEF RejectCode, TableOK, CodeRows
      <4>2. seen[v].attempts \in Nat BY <2>1 DEF SeenRows
      <4>3. ~(seen[v].attempts + 1 >= MaxAttempts) BY <2>3, <4>1
      <4>4. ~(seen[v].attempts >= MaxAttempts) BY <4>2, <4>3
      <4>5. emailVerification'[k].attempts = seen[v].attempts + 1 BY <4>1, <4>4
      <4> QED BY <4>2, <4>3, <4>5
    <3> QED BY <1>4, <3>1, <3>2
  <2> QED BY <2>2, <2>3 DEF ExhaustedIsUsed, Unused
<1>5. ASSUME NEW c \in Callers,
             \/ SendVerificationCode(c) \/ SendAtRegistration(c) \/ Limited(c)
             \/ FindUnused(c) \/ FailToSend(c)
      PROVE  UNCHANGED emailVerification
  BY <1>5 DEF SendVerificationCode, SendAtRegistration, Limited, FindUnused, FailToSend,
              codeVars
<1>6. ASSUME NEW v \in Verifiers, VerifyEmail(v) \/ FindVerification(v) \/ FailToVerify(v)
      PROVE  UNCHANGED emailVerification
  BY <1>6 DEF VerifyEmail, FindVerification, FailToVerify
<1>7. ASSUME Expire \/ UNCHANGED codeVars PROVE UNCHANGED emailVerification
  BY <1>7 DEF Expire, codeVars
<1> QED BY <1>2, <1>3, <1>4, <1>5, <1>6, <1>7 DEF CodesNext, allVars

\* However sends, verifications, failures and expiry interleave, two codes are
\* unused together only if different calls of sendVerificationCode made them.
THEOREM LiveCodesAlwaysOverlap == CodesSpec => []LiveCodesOverlap
<1>1. CodesInvariant => LiveCodesOverlap BY DEF CodesInvariant
<1> QED BY <1>1, CodesInitially, CodesNextKeeps, PTL DEF CodesSpec

\* No write of verifyEmail or sendVerificationCode, however old what it read,
\* brings a used code back.
THEOREM UsedCodesStayUsed == CodesSpec => UsedStaysUsed
<1> QED BY CodesInitially, CodesNextKeeps, PTL DEF CodesSpec, UsedStaysUsed

\* An unused code always has attempts left.
THEOREM ExhaustedCodesAreUsed == CodesSpec => []ExhaustedIsUsed
<1>1. CodesInit => ExhaustedIsUsed BY DEF CodesInit, ExhaustedIsUsed, Unused
<1>2. CodesInvariant /\ [CodesNext]_allVars => CodesInvariant' BY CodesNextKeeps
<1> QED BY <1>1, <1>2, CodesInitially, ExhaustedNext, PTL DEF CodesSpec
=============================================================================
