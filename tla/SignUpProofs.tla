---------------------------- MODULE SignUpProofs ----------------------------
(***************************************************************************)
(* Registrations and submissions of one address, however many run at once  *)
(* and wherever they end: the answers, the profile and the session belong  *)
(* to one submission, and every step keeps to what Membership promises.    *)
(* The argument: only the holder of the row has an open draft, and what    *)
(* that draft was begun from is still what is committed.                   *)
(***************************************************************************)
EXTENDS SignUp, TLAPS

Someone == Applicants \cup {Nobody}

Drafts == [parts : SUBSET Parts, profile : Someone, responses : SUBSET Applicants,
           refresh : Someone \cup {Session}]

Registering == {"profile", "role", "subscription"}
Submitting == {"answers", "rotate"}
Stages == {"idle", "user", "commit", "tokens", "claim", "event"} \cup Registering \cup Submitting

SignUpTypeOK ==
  /\ account \in Drafts
  /\ request \in [Applicants -> [at : Stages, draft : Drafts]]
  /\ holder \in Someone
  /\ events \in {0, 1}

\* What is committed: nothing, or a whole account.
AccountWhole ==
  /\ account.parts \in {{}, Parts}
  /\ account.profile # Nobody => account.parts = Parts
  /\ events = 1 => account.profile # Nobody

\* What the INSERT of the users row and its companions have put in the draft.
RegisteringDraft(r) ==
  /\ holder = r /\ account.parts = {}
  /\ request[r].draft.profile = Nobody /\ request[r].draft.refresh = Nobody
  /\ request[r].draft.responses = {}
  /\ request[r].draft.parts =
       CASE request[r].at = "profile" -> {"user"}
         [] request[r].at = "role" -> {"user", "profile"}
         [] request[r].at = "subscription" -> {"user", "profile", "role"}
         [] OTHER -> Parts
  /\ request[r].at = "subscription" => Plan

\* A claim that found the profile free: nobody can have filled it since.
SubmittingDraft(r) ==
  /\ holder = r /\ account.parts = Parts /\ account.profile = Nobody
  /\ request[r].draft.parts = Parts /\ request[r].draft.profile = r
  /\ request[r].at # "answers" => request[r].draft.responses = {r}
  /\ request[r].at = "commit" => request[r].draft.refresh = r

RequestConsistent(r) ==
  /\ request[r].at \in Registering => RegisteringDraft(r)
  /\ request[r].at \in Submitting => SubmittingDraft(r)
  /\ request[r].at = "commit" => RegisteringDraft(r) \/ SubmittingDraft(r)
  /\ request[r].at = "claim" => account.parts = Parts
  /\ request[r].at = "event" => account.profile = r /\ events = 0

SignUpInvariant ==
  /\ SignUpTypeOK
  /\ AccountWhole
  /\ OneSubmissionWins
  /\ \A r \in Applicants : RequestConsistent(r)
-----------------------------------------------------------------------------
\* The rows a request has not touched are as the table says.
LEMMA MissingTyped == Missing \in Drafts /\ Parts # {}
BY DEF Missing, Drafts, Parts, Someone

\* A step of one request that changes nothing but its own stage and draft, and
\* at most takes the row or gives back what it held, disturbs no other request.
LEMMA OwnStep ==
  ASSUME SignUpInvariant, NEW r \in Applicants, NEW at \in Stages, NEW draft \in Drafts,
         Go(r, at, draft), UNCHANGED <<account, events>>,
         holder' \in Someone, holder' = holder \/ holder \in {Nobody, r},
         RequestConsistent(r)'
  PROVE  SignUpInvariant'
<1> USE DEF SignUpInvariant
<1>1. request' \in [Applicants -> [at : Stages, draft : Drafts]]
  BY DEF Go, SignUpTypeOK
<1>2. ASSUME NEW q \in Applicants, q # r PROVE RequestConsistent(q)'
  <2>1. request'[q] = request[q] BY <1>2 DEF Go, SignUpTypeOK
  <2>2. holder = q => holder' = q BY <1>2, ApplicantsAssumption
  <2> QED
    BY <2>1, <2>2 DEF RequestConsistent, RegisteringDraft, SubmittingDraft
<1>3. AccountWhole' /\ OneSubmissionWins'
  BY DEF AccountWhole, OneSubmissionWins
<1> QED BY <1>1, <1>2, <1>3 DEF SignUpTypeOK

\* A request that ends, well or badly, holds nothing and leaves nothing behind.
LEMMA Ended ==
  ASSUME SignUpInvariant, NEW r \in Applicants, Done(r), UNCHANGED <<account, events>>,
         holder' \in Someone, holder' = holder \/ holder \in {Nobody, r}
  PROVE  SignUpInvariant'
<1>1. Go(r, "idle", Missing) BY DEF Done, Go, Ready
<1>2. request'[r].at = "idle" BY <1>1 DEF Go, SignUpInvariant, SignUpTypeOK
<1>3. RequestConsistent(r)'
  BY <1>2 DEF RequestConsistent, Registering, Submitting
<1> QED BY <1>1, <1>3, OwnStep, MissingTyped DEF Stages

-----------------------------------------------------------------------------
(* The steps of a registration. *)
LEMMA Registrations ==
  ASSUME SignUpInvariant, NEW r \in Applicants,
         \/ LookUp(r) \/ CreateUser(r) \/ CreatePart(r, "profile", "role")
         \/ CreatePart(r, "role", IF Plan THEN "subscription" ELSE "commit")
         \/ CreatePart(r, "subscription", "commit")
  PROVE  SignUpInvariant'
<1> USE DEF SignUpInvariant
<1>t. /\ request[r] \in [at : Stages, draft : Drafts] /\ account \in Drafts
      /\ holder \in Someone /\ r \in Someone /\ Nobody \in Someone
  BY DEF SignUpTypeOK, Someone
<1>g. ASSUME NEW at, NEW draft, Go(r, at, draft)
      PROVE  request'[r].at = at /\ request'[r].draft = draft
  BY <1>g DEF Go, SignUpTypeOK
<1>1. CASE LookUp(r)
  <2>1. RequestConsistent(r)'
    BY <1>1, <1>g DEF LookUp, RequestConsistent, Registering, Submitting
  <2> QED BY <1>1, <2>1, <1>t, OwnStep, MissingTyped DEF LookUp, Stages
<1>2. CASE CreateUser(r)
  <2>1. CASE account.parts = {}
    <3> DEFINE draft == [Missing EXCEPT !.parts = {"user"}]
    <3>1. draft \in Drafts BY MissingTyped DEF Drafts, Missing, Parts
    <3>2. Go(r, "profile", draft) /\ holder' = r /\ holder = Nobody
          /\ UNCHANGED <<account, events>>
      BY <1>2, <2>1 DEF CreateUser
    <3>3. RegisteringDraft(r)'
      BY <3>2, <2>1, <1>g DEF RegisteringDraft, Missing
    <3>4. RequestConsistent(r)'
      BY <3>2, <3>3, <1>g DEF RequestConsistent, Submitting
    <3> HIDE DEF draft
    <3> QED BY <3>1, <3>2, <3>4, <1>t, OwnStep DEF Stages, Registering
  <2>2. CASE account.parts # {}
    BY <1>2, <2>2, <1>t, Ended DEF CreateUser
  <2> QED BY <2>1, <2>2
<1>3. ASSUME NEW part \in Registering, NEW next \in Stages, CreatePart(r, part, next),
             \/ part = "profile" /\ next = "role"
             \/ part = "role" /\ Plan /\ next = "subscription"
             \/ part = "role" /\ ~Plan /\ next = "commit"
             \/ part = "subscription" /\ next = "commit"
      PROVE  SignUpInvariant'
  <2> DEFINE draft == [request[r].draft EXCEPT !.parts = @ \cup {part}]
  <2>1. RegisteringDraft(r) /\ request[r].at = part
    BY <1>3 DEF CreatePart, RequestConsistent
  <2>2. part \in Parts BY <1>3, <2>1 DEF Registering, RegisteringDraft, Parts
  <2>3. draft \in Drafts /\ draft.parts = request[r].draft.parts \cup {part}
        /\ draft.profile = Nobody /\ draft.refresh = Nobody /\ draft.responses = {}
    BY <2>1, <2>2, <1>t DEF Drafts, RegisteringDraft
  <2>4. Go(r, next, draft) /\ UNCHANGED <<account, holder, events>>
    BY <1>3 DEF CreatePart
  <2> HIDE DEF draft
  <2>6. request'[r].at = next /\ request'[r].draft = draft BY <2>4, <1>g
  <2>7. draft.parts = CASE next = "profile" -> {"user"}
         [] next = "role" -> {"user", "profile"}
         [] next = "subscription" -> {"user", "profile", "role"}
         [] OTHER -> Parts
    BY <2>1, <2>3, <1>3, ApplicantsAssumption DEF RegisteringDraft, Parts
  <2>8. RegisteringDraft(r)'
    BY <2>1, <2>3, <2>4, <2>6, <2>7, <1>3 DEF RegisteringDraft
  <2>9. RequestConsistent(r)'
    BY <2>6, <2>8, <1>3 DEF RequestConsistent, Submitting
  <2> QED BY <2>3, <2>4, <2>9, <1>t, OwnStep
<1> QED
  BY <1>1, <1>2, <1>3, ApplicantsAssumption DEF Registering, Stages
(* The steps of a submission inside its transaction, and its reading before. *)
LEMMA Submissions ==
  ASSUME SignUpInvariant, NEW r \in Applicants,
         Prefetch(r) \/ Claim(r) \/ WriteAnswers(r) \/ Rotate(r)
  PROVE  SignUpInvariant'
<1> USE DEF SignUpInvariant
<1>t. /\ request[r] \in [at : Stages, draft : Drafts] /\ account \in Drafts
      /\ holder \in Someone /\ r \in Someone /\ Nobody \in Someone
  BY DEF SignUpTypeOK, Someone
<1>g. ASSUME NEW at, NEW draft, Go(r, at, draft)
      PROVE  request'[r].at = at /\ request'[r].draft = draft
  BY <1>g DEF Go, SignUpTypeOK
<1>1. CASE Prefetch(r)
  <2>1. RequestConsistent(r)'
    BY <1>1, <1>g DEF Prefetch, RequestConsistent, Registering, Submitting, AccountWhole
  <2> QED BY <1>1, <2>1, <1>t, OwnStep, MissingTyped DEF Prefetch, Stages
<1>2. CASE Claim(r)
  <2>1. CASE account.profile = Nobody
    <3> DEFINE draft == [account EXCEPT !.profile = r]
    <3>1. draft \in Drafts /\ draft.parts = account.parts /\ draft.profile = r
      BY <1>t DEF Drafts
    <3>2. Go(r, "answers", draft) /\ holder' = r /\ holder = Nobody
          /\ UNCHANGED <<account, events>>
      BY <1>2, <2>1 DEF Claim
    <3> HIDE DEF draft
    <3>3. account.parts = Parts BY <1>2 DEF Claim, RequestConsistent
    <3>4. request'[r].at = "answers" /\ request'[r].draft = draft BY <3>2, <1>g
    <3>5. SubmittingDraft(r)' BY <3>1, <3>2, <3>3, <3>4, <2>1 DEF SubmittingDraft
    <3>6. RequestConsistent(r)' BY <3>4, <3>5 DEF RequestConsistent, Registering
    <3> QED BY <3>1, <3>2, <3>6, <1>t, OwnStep DEF Stages, Submitting
  <2>2. CASE account.profile # Nobody
    BY <1>2, <2>2, <1>t, Ended DEF Claim
  <2> QED BY <2>1, <2>2
<1>3. CASE WriteAnswers(r)
  <2> DEFINE draft == [request[r].draft EXCEPT !.responses = {r}]
  <2>1. SubmittingDraft(r) BY <1>3 DEF WriteAnswers, RequestConsistent, Submitting
  <2>2. /\ draft \in Drafts /\ draft.parts = request[r].draft.parts
        /\ draft.profile = request[r].draft.profile /\ draft.responses = {r}
    BY <1>t DEF Drafts
  <2>3. Go(r, "rotate", draft) /\ UNCHANGED <<account, holder, events>>
    BY <1>3 DEF WriteAnswers
  <2> HIDE DEF draft
  <2>4. request'[r].at = "rotate" /\ request'[r].draft = draft BY <2>3, <1>g
  <2>5. SubmittingDraft(r)' BY <2>1, <2>2, <2>3, <2>4 DEF SubmittingDraft
  <2>6. RequestConsistent(r)' BY <2>4, <2>5 DEF RequestConsistent, Registering
  <2> QED BY <2>2, <2>3, <2>6, <1>t, OwnStep DEF Stages, Submitting
<1>4. CASE Rotate(r)
  <2> DEFINE draft == [request[r].draft EXCEPT !.refresh = r]
  <2>1. SubmittingDraft(r) /\ request[r].at = "rotate"
    BY <1>4 DEF Rotate, RequestConsistent, Submitting
  <2>2. /\ draft \in Drafts /\ draft.parts = request[r].draft.parts
        /\ draft.profile = request[r].draft.profile /\ draft.refresh = r
        /\ draft.responses = request[r].draft.responses
    BY <1>t DEF Drafts
  <2>3. Go(r, "commit", draft) /\ UNCHANGED <<account, holder, events>>
    BY <1>4 DEF Rotate
  <2> HIDE DEF draft
  <2>4. request'[r].at = "commit" /\ request'[r].draft = draft BY <2>3, <1>g
  <2>5. SubmittingDraft(r)' BY <2>1, <2>2, <2>3, <2>4 DEF SubmittingDraft
  <2>6. RequestConsistent(r)' BY <2>4, <2>5 DEF RequestConsistent, Registering, Submitting
  <2> QED BY <2>2, <2>3, <2>6, <1>t, OwnStep DEF Stages
<1> QED BY <1>1, <1>2, <1>3, <1>4

\* Only the holder of the row commits, so no other draft is open.
LEMMA OnlyDraft ==
  ASSUME SignUpInvariant, NEW r \in Applicants, holder = r,
         NEW q \in Applicants, q # r
  PROVE  request[q].at \in {"idle", "user", "tokens", "claim", "event"}
BY DEF SignUpInvariant, SignUpTypeOK, RequestConsistent, RegisteringDraft,
       SubmittingDraft, Stages, Registering, Submitting

\* The commit of an onboarding keeps the invariant.
LEMMA Commits ==
  ASSUME SignUpInvariant, NEW r \in Applicants, CommitDraft(r)
  PROVE  SignUpInvariant'
<1> USE DEF SignUpInvariant
<1> DEFINE d == request[r].draft
           after == IF d.profile = Nobody THEN "tokens" ELSE "event"
<1>1. /\ request[r].at = "commit" /\ d \in Drafts /\ account \in Drafts
      /\ r \in Someone /\ Nobody \in Someone
  BY DEF CommitDraft, SignUpTypeOK, Someone
<1>2. /\ account' \in Drafts /\ account'.parts = d.parts
      /\ account'.profile = d.profile /\ account'.responses = d.responses
      /\ account'.refresh = IF d.refresh = r THEN r ELSE account.refresh
  BY <1>1 DEF CommitDraft, Drafts
<1>3. Go(r, after, Missing) /\ holder' = Nobody /\ UNCHANGED events
  BY DEF CommitDraft
<1>4. /\ request' \in [Applicants -> [at : Stages, draft : Drafts]]
      /\ request'[r].at = after /\ \A q \in Applicants \ {r} : request'[q] = request[q]
  BY <1>3, MissingTyped DEF Go, SignUpTypeOK, Stages
<1>5. SignUpTypeOK' BY <1>1, <1>2, <1>3, <1>4 DEF SignUpTypeOK
<1>6. RegisteringDraft(r) \/ SubmittingDraft(r)
  BY <1>1 DEF RequestConsistent
<1>7. /\ holder = r /\ d.parts = Parts /\ account.profile = Nobody /\ events = 0
  BY <1>1, <1>6, MissingTyped DEF RegisteringDraft, SubmittingDraft, AccountWhole, SignUpTypeOK
<1>8. AccountWhole' /\ OneSubmissionWins'
  BY <1>1, <1>2, <1>3, <1>6, <1>7, ApplicantsAssumption
  DEF AccountWhole, OneSubmissionWins, RegisteringDraft, SubmittingDraft
<1>9. RequestConsistent(r)'
  BY <1>1, <1>2, <1>3, <1>4, <1>6, <1>7, ApplicantsAssumption
  DEF RequestConsistent, RegisteringDraft, SubmittingDraft, Registering, Submitting
<1>10. ASSUME NEW q \in Applicants, q # r PROVE RequestConsistent(q)'
  <2>1. request[q].at \in {"idle", "user", "tokens", "claim", "event"}
    BY <1>7, <1>10, OnlyDraft
  <2>2. request[q].at # "event"
    BY <1>7, <1>10, ApplicantsAssumption DEF RequestConsistent
  <2> QED
    BY <2>1, <2>2, <1>2, <1>4, <1>7, <1>10
    DEF RequestConsistent, Registering, Submitting
<1> QED BY <1>5, <1>8, <1>9, <1>10

\* Every step of an applicant keeps the invariant.
LEMMA SignUpStep == SignUpInvariant /\ [SignUpNext]_signUpVars => SignUpInvariant'
<1> SUFFICES ASSUME SignUpInvariant, [SignUpNext]_signUpVars PROVE SignUpInvariant'
  OBVIOUS
<1> USE DEF SignUpInvariant
<1>1. ASSUME NEW r \in Applicants, SignIn(r) PROVE SignUpInvariant'
  <2>1. /\ account \in Drafts /\ account' = [account EXCEPT !.refresh = Session]
        /\ request[r].at = "tokens" /\ Done(r) /\ UNCHANGED <<holder, events>>
    BY <1>1 DEF SignIn, SignUpTypeOK
  <2>2. /\ account' \in Drafts /\ account'.parts = account.parts
        /\ account'.profile = account.profile /\ account'.responses = account.responses
        /\ account'.refresh = Session
    BY <2>1 DEF Drafts
  <2>3. /\ request' \in [Applicants -> [at : Stages, draft : Drafts]]
        /\ request'[r].at = "idle" /\ \A q \in Applicants \ {r} : request'[q] = request[q]
    BY <2>1, MissingTyped DEF Done, Ready, SignUpTypeOK, Stages
  <2>4. SignUpTypeOK' /\ AccountWhole' /\ OneSubmissionWins'
    BY <2>1, <2>2, <2>3 DEF SignUpTypeOK, AccountWhole, OneSubmissionWins
  <2>5. RequestConsistent(r)'
    BY <2>3 DEF RequestConsistent, Registering, Submitting
  <2>6. ASSUME NEW q \in Applicants, q # r PROVE RequestConsistent(q)'
    BY <2>1, <2>2, <2>3, <2>6 DEF RequestConsistent, RegisteringDraft, SubmittingDraft
  <2> QED BY <2>4, <2>5, <2>6
<1>2. ASSUME NEW r \in Applicants, Capture(r) PROVE SignUpInvariant'
  <2>1. /\ request[r].at = "event" /\ events' = events + 1 /\ Done(r)
        /\ UNCHANGED <<account, holder>> /\ events = 0 /\ account.profile = r
    BY <1>2 DEF Capture, RequestConsistent
  <2>2. /\ request' \in [Applicants -> [at : Stages, draft : Drafts]]
        /\ request'[r].at = "idle" /\ \A q \in Applicants \ {r} : request'[q] = request[q]
    BY <2>1, MissingTyped DEF Done, Ready, SignUpTypeOK, Stages
  <2>3. SignUpTypeOK' /\ AccountWhole' /\ OneSubmissionWins'
    BY <2>1, <2>2, ApplicantsAssumption DEF SignUpTypeOK, AccountWhole, OneSubmissionWins
  <2>4. RequestConsistent(r)'
    BY <2>2 DEF RequestConsistent, Registering, Submitting
  <2>5. ASSUME NEW q \in Applicants, q # r PROVE RequestConsistent(q)'
    BY <2>1, <2>2, <2>5 DEF RequestConsistent, RegisteringDraft, SubmittingDraft
  <2> QED BY <2>3, <2>4, <2>5
<1>3. ASSUME NEW r \in Applicants, AbortDraft(r) PROVE SignUpInvariant'
  BY <1>3, Ended DEF AbortDraft, SignUpTypeOK, Someone
<1>4. CASE UNCHANGED signUpVars
  BY <1>4 DEF signUpVars, SignUpTypeOK, AccountWhole, OneSubmissionWins,
              RequestConsistent, RegisteringDraft, SubmittingDraft
<1> QED
  BY <1>1, <1>2, <1>3, <1>4, Registrations, Submissions, Commits DEF SignUpNext

\* The invariant holds throughout.
LEMMA SignUpInductive == SignUpSpec => []SignUpInvariant
<1>1. SignUpInit => SignUpInvariant
  <2> SUFFICES ASSUME SignUpInit PROVE SignUpInvariant OBVIOUS
  <2>1. SignUpTypeOK
    BY MissingTyped DEF SignUpInit, SignUpTypeOK, Ready, Someone, Stages
  <2>2. AccountWhole /\ OneSubmissionWins
    BY DEF SignUpInit, AccountWhole, OneSubmissionWins, Missing
  <2>3. ASSUME NEW r \in Applicants PROVE RequestConsistent(r)
    <3>1. request[r].at = "idle" BY DEF SignUpInit, Ready
    <3> QED BY <3>1 DEF RequestConsistent, Registering, Submitting
  <2> QED BY <2>1, <2>2, <2>3 DEF SignUpInvariant
<1> QED BY <1>1, SignUpStep, PTL DEF SignUpSpec

\* The profile, the stored answers and, until somebody signs in, the session are
\* those of one submission (submitOnboarding's conditional updateMany).
THEOREM SubmissionsNeverMix == SignUpSpec => []OneSubmissionWins
<1>1. SignUpInvariant => OneSubmissionWins BY DEF SignUpInvariant
<1> QED BY <1>1, SignUpInductive, PTL

-----------------------------------------------------------------------------
\* What a step of the requests is for Membership.
LEMMA StepIsPromised ==
  SignUpInvariant /\ [SignUpNext]_signUpVars
    => [Promise!Next]_<<Member, account.profile, events>>
<1> SUFFICES ASSUME SignUpInvariant, [SignUpNext]_signUpVars
             PROVE  [Promise!Next]_<<Member, account.profile, events>>
  OBVIOUS
<1>1. CASE account'.parts = account.parts /\ account'.profile = account.profile
           /\ UNCHANGED events
  BY <1>1 DEF Member
<1>2. ASSUME NEW r \in Applicants, CommitDraft(r)
      PROVE  [Promise!Next]_<<Member, account.profile, events>>
  <2> DEFINE d == request[r].draft
  <2>1. /\ request[r].at = "commit" /\ d \in Drafts /\ account \in Drafts
        /\ RequestConsistent(r)
    BY <1>2 DEF CommitDraft, SignUpInvariant, SignUpTypeOK
  <2>2. account'.parts = d.parts /\ account'.profile = d.profile /\ UNCHANGED events
    BY <1>2, <2>1 DEF CommitDraft, Drafts
  <2>3. CASE RegisteringDraft(r)
    <3>1. Member = "none" BY <2>3 DEF RegisteringDraft, Member
    <3>2. account.profile = Nobody /\ account'.profile = Nobody
      BY <2>2, <2>3, MissingTyped DEF RegisteringDraft, SignUpInvariant, AccountWhole
    <3>3. Member' = "registered"
      BY <2>1, <2>2, <2>3, <3>2, MissingTyped DEF RegisteringDraft, Member
    <3> QED BY <2>2, <3>1, <3>2, <3>3 DEF Promise!Next, Promise!Register
  <2>4. CASE SubmittingDraft(r)
    <3>1. Member = "registered" BY <2>4, MissingTyped DEF SubmittingDraft, Member
    <3>2. account'.profile = r /\ account'.parts = Parts
      BY <2>2, <2>4 DEF SubmittingDraft
    <3>3. Member' = "onboarded"
      BY <3>2, MissingTyped, ApplicantsAssumption DEF Member
    <3> QED BY <2>2, <3>1, <3>2, <3>3 DEF Promise!Next, Promise!Onboard
  <2> QED BY <2>1, <2>3, <2>4 DEF RequestConsistent
<1>3. ASSUME NEW r \in Applicants, Capture(r)
      PROVE  [Promise!Next]_<<Member, account.profile, events>>
  <2>1. account.profile = r /\ events = 0 /\ events' = 1 /\ UNCHANGED account
    BY <1>3 DEF Capture, SignUpInvariant, RequestConsistent
  <2>2. Member = "onboarded" /\ Member' = Member
    BY <2>1, MissingTyped, ApplicantsAssumption DEF Member, SignUpInvariant, AccountWhole
  <2> QED BY <2>1, <2>2 DEF Promise!Next, Promise!Announce
<1>4. ASSUME NEW r \in Applicants, SignIn(r)
      PROVE  account'.parts = account.parts /\ account'.profile = account.profile
             /\ UNCHANGED events
  BY <1>4 DEF SignIn, SignUpInvariant, SignUpTypeOK, Drafts
<1>5. ASSUME NEW r \in Applicants,
             \/ LookUp(r) \/ CreateUser(r) \/ CreatePart(r, "profile", "role")
             \/ CreatePart(r, "role", IF Plan THEN "subscription" ELSE "commit")
             \/ CreatePart(r, "subscription", "commit")
             \/ Prefetch(r) \/ Claim(r) \/ WriteAnswers(r) \/ Rotate(r) \/ AbortDraft(r)
      PROVE  UNCHANGED <<account, events>>
  BY <1>5 DEF LookUp, CreateUser, CreatePart, Prefetch, Claim, WriteAnswers, Rotate,
              AbortDraft
<1>6. UNCHANGED signUpVars => UNCHANGED <<account, events>>
  BY DEF signUpVars
<1> QED BY <1>1, <1>2, <1>3, <1>4, <1>5, <1>6 DEF SignUpNext

\* Registrations and submissions, with their transactions, lock waits, refusals
\* and failures, only take the steps Membership allows: one whole account, one
\* onboarding by one submission, at most one onboarding_completed.
THEOREM SignUpKeepsPromise == SignUpSpec => ImplementsMembership
<1>1. SignUpInit => Promise!Init
  BY DEF SignUpInit, Missing, Member, Promise!Init
<1> QED
  BY <1>1, StepIsPromised, SignUpInductive, PTL
  DEF SignUpSpec, ImplementsMembership, Promise!Spec
=============================================================================
