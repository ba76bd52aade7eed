------------------------------- MODULE SignUp -------------------------------
(***************************************************************************)
(* register and submitOnboarding for one email address.  Each writes in a  *)
(* transaction: its statements go to a draft that CommitDraft publishes.   *)
(* Two registrations meet at the unique index of users.email, two          *)
(* submissions at the conditional updateMany of the profile.  Submissions  *)
(* are told apart by their request: its answers, its refresh token.        *)
(***************************************************************************)
EXTENDS Naturals

CONSTANTS
  Applicants,
  Nobody,   \* no request: a null column
  Plan,     \* whether a default plan is there to subscribe to
  Session   \* the refresh token of a registration

ASSUME ApplicantsAssumption == Nobody \notin Applicants /\ Plan \in BOOLEAN

VARIABLES
  account,  \* the rows of the address, committed: users, profile, role, ...
  request,  \* request[r]: where it is, and its draft of the rows
  holder,   \* who holds the index entry or the profile row
  events    \* onboarding_completed captured

signUpVars == <<account, request, holder, events>>

Parts == {"user", "profile", "role"} \cup IF Plan THEN {"subscription"} ELSE {}
Missing == [parts |-> {}, profile |-> Nobody, responses |-> {}, refresh |-> Nobody]
Ready == [at |-> "idle", draft |-> Missing]

SignUpInit ==
  /\ account = Missing
  /\ request = [r \in Applicants |-> Ready]
  /\ holder = Nobody /\ events = 0

Go(r, at, draft) == request' = [request EXCEPT ![r] = [at |-> at, draft |-> draft]]
Done(r) == request' = [request EXCEPT ![r] = Ready]

-----------------------------------------------------------------------------
(* register *)

\* findUnique finds nobody: hash the password, look the default plan up.
LookUp(r) ==
  /\ request[r] = Ready /\ account.parts = {}
  /\ Go(r, "user", Missing)
  /\ UNCHANGED <<account, holder, events>>

\* The INSERT waits for another one of the address to commit or roll back.
CreateUser(r) ==
  /\ request[r].at = "user" /\ holder = Nobody
  /\ IF account.parts = {}
     THEN holder' = r /\ Go(r, "profile", [Missing EXCEPT !.parts = {"user"}])
     ELSE UNCHANGED holder /\ Done(r)  \* P2002, an internal error
  /\ UNCHANGED <<account, events>>

\* userProfile, userRole, subscription.
CreatePart_Outside(r, part, next) ==  \* (mutated form: not on the transaction)
  /\ request[r].at = part
  /\ account' = [account EXCEPT !.parts = @ \cup {part}]
  /\ Go(r, next, [request[r].draft EXCEPT !.parts = @ \cup {part}])
  /\ UNCHANGED <<holder, events>>
CreatePart(r, part, next) ==
  /\ request[r].at = part
  /\ Go(r, next, [request[r].draft EXCEPT !.parts = @ \cup {part}])
  /\ UNCHANGED <<account, holder, events>>

\* generateTokens, after the transaction: its update waits for an open rotation
\* of the row. The verification code is EmailCodes'.
SignIn(r) ==
  /\ request[r].at = "tokens"
  /\ \A q \in Applicants : request[q].draft.refresh # q
  /\ account' = [account EXCEPT !.refresh = Session]
  /\ Done(r)
  /\ UNCHANGED <<holder, events>>

-----------------------------------------------------------------------------
(* submitOnboarding *)

\* The answers are valid; the user is read, the tokens signed and hashed.
Prefetch_Rotates(r) ==  \* (mutated form: stores the new token at once)
  /\ request[r] = Ready /\ account.parts # {}
  /\ account' = [account EXCEPT !.refresh = r]
  /\ Go(r, "claim", Missing)
  /\ UNCHANGED <<holder, events>>
Prefetch(r) ==
  /\ request[r] = Ready /\ account.parts # {}
  /\ Go(r, "claim", Missing)
  /\ UNCHANGED <<account, holder, events>>

\* updateMany where onboardingCompleted is false: waits for the row's lock and
\* then looks again. No row: 400, ONBOARDING_ALREADY_COMPLETED.
Claim(r) ==
  /\ request[r].at = "claim" /\ holder = Nobody
  /\ IF account.profile = Nobody
     THEN holder' = r /\ Go(r, "answers", [account EXCEPT !.profile = r])
     ELSE UNCHANGED holder /\ Done(r)
  /\ UNCHANGED <<account, events>>

\* deleteMany and createMany of the responses.
WriteAnswers(r) ==
  /\ request[r].at = "answers"
  /\ Go(r, "rotate", [request[r].draft EXCEPT !.responses = {r}])
  /\ UNCHANGED <<account, holder, events>>

Rotate(r) ==
  /\ request[r].at = "rotate"
  /\ Go(r, "commit", [request[r].draft EXCEPT !.refresh = r])
  /\ UNCHANGED <<account, holder, events>>

\* The event, after the transaction.
Capture(r) ==
  /\ request[r].at = "event"
  /\ events' = events + 1
  /\ Done(r)
  /\ UNCHANGED <<account, holder>>

-----------------------------------------------------------------------------
(* The transaction of either ends. Columns it did not write keep what others *)
(* committed meanwhile: the token of the registration.                       *)
CommitDraft(r) ==
  LET d == request[r].draft IN
  /\ request[r].at = "commit"
  /\ account' = [d EXCEPT !.refresh = IF @ = r THEN r ELSE account.refresh]
  /\ holder' = Nobody
  /\ Go(r, IF d.profile = Nobody THEN "tokens" ELSE "event", Missing)
  /\ UNCHANGED events

\* A failure or the end of the process, at any point: no part of the draft stays.
AbortDraft(r) ==
  /\ request[r] # Ready
  /\ holder' = IF holder = r THEN Nobody ELSE holder
  /\ Done(r)
  /\ UNCHANGED <<account, events>>

SignUpNext == \E r \in Applicants :
  \/ LookUp(r) \/ CreateUser(r) \/ CreatePart(r, "profile", "role")
  \/ CreatePart(r, "role", IF Plan THEN "subscription" ELSE "commit")
  \/ CreatePart(r, "subscription", "commit") \/ SignIn(r)
  \/ Prefetch(r) \/ Claim(r) \/ WriteAnswers(r) \/ Rotate(r) \/ Capture(r)
  \/ CommitDraft(r) \/ AbortDraft(r)

SignUpSpec == SignUpInit /\ [][SignUpNext]_signUpVars

-----------------------------------------------------------------------------
Member ==
  IF account.parts = {} THEN "none"
  ELSE IF account.parts # Parts THEN "broken"
  ELSE IF account.profile = Nobody THEN "registered"
  ELSE "onboarded"

\* Every step of registrations and submissions, doubled or cut short anywhere,
\* is one of the steps the abstract specification allows, or none.
Promise == INSTANCE Membership WITH
  Submissions <- Applicants, member <- Member, answers <- account.profile,
  announced <- events
ImplementsMembership == Promise!Spec

\* Profile, responses and session belong to the one submission that won, until
\* somebody signs in again: a loser neither mixes in answers nor logs it out.
OneSubmissionWins ==
  account.profile # Nobody =>
    /\ account.responses = {account.profile}
    /\ account.refresh \in {account.profile, Session}
=============================================================================
