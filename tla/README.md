# awamer-api: a TLA+ model of the learning platform's backend

The repository is a NestJS API (`src/src/`) over PostgreSQL (Prisma) and Redis.
This directory models its stateful core, checks it with TLC on small instances
and proves the main results with TLAPS for all instances.

## 1. Inventory

| Component | State it keeps | Operations | What is hard | What makes it correct |
|---|---|---|---|---|
| **Lesson completion** `progress/progress.service.ts`, `learning/learning.controller.ts` | `lesson_progress`, `section_progress`, `course_progress`, `path_progress`, `last_positions` | `completeLesson`: fast path, capture of certificates, then one transaction | overlapping requests of one learner at READ COMMITTED; rollback; retry | certificates exact; aggregates never overstate; inserts never collide; every request answered |
| **Certificates** `certificates/certificates.service.ts` | `certificates` (partial unique indexes) | `checkCourseEligibility`, `checkPathEligibility`, `issueCertificate`; listings | check then create; analytics inside the transaction; response classified from an older snapshot | issued exactly when due, announced when issued |
| **Enrollment** `enrollment/enrollment.service.ts` | `path_enrollments` (no unique index), `course_enrollments`, seed rows in the progress tables | `enrollInPath`, `enrollInCourse`, `hasAccessToCourse`; listings | double submit; failure half-way; enrolling while learning | one enrollment, seeded completely, progress never reset |
| **Route guards** `common/guards/*.ts` | none | `EnrollmentGuard`, `ContentAccessGuard` (stub), `RolesGuard`, ... | enrollment read long before it is used | only enrolled learners complete lessons |
| **Authentication** `auth/auth.service.ts` | users (lockout counter, refresh token hash), codes, rate-limit rows | register, login, refresh, logout, forgot/reset password, verify email | a doubled or half-done registration, read-modify-write counters, count-then-insert limits, refresh racing logout, racing codes | one whole account per address, lockout and limits effective, a session ends when it is ended, codes used once, a reset link by nobody who finds it after its use |
| **Users, onboarding** `users/users.service.ts` | profile, onboarding answers | `changePassword`, `submitOnboarding` | double submission (a conditional `updateMany` is the lock) | one winner; profile, answers, session and event are its own |
| **Cleanup** `tasks/cleanup.service.ts` | rate-limit rows | hourly delete | against the limit windows | never shortens a window |
| **Cache** `common/cache/*`, read by `content/paths`, `content/courses`, categories, tags | Redis keys, some without TTL | get/set/del, `invalidateOwner`, revalidation call | reader between write and invalidation; invalidation before the write (tags) | a list catches up; other pages are stale only after a race, a failure of Redis or an invalidation that was never made |
| **Categories, tags, marketing** `admin/categories`, `content/tags`, `content/marketing` | their tables, order numbers, tag associations | CRUD, reorder, replace | check outside the transaction, concurrent replace | the last list stands; ties and doubled names only from requests that overtook each other |
| **Fixture seed** `prisma/seed.ts` | rows of every content table | delete the fixture, then create it, statement by statement | dying half-way and being run again | a run that ends leaves every row once; nothing an earlier run left stops it, only a slug or an address somebody else holds |
| **Admin infrastructure, health, mail, error filter** | none | logging, formatting, I/O | - | - |
| **Stubs** lessons, quizzes, projects, subscriptions, payments, storage | none | none | - | - |

How they interact: an HTTP request passes its guards (they read the enrollment
tables), then one service method. Services meet in the database only, except
`ProgressService`, which calls `CertificatesService` within its transaction, which
in turn calls `AnalyticsService`. Transactions run at PostgreSQL's default READ
COMMITTED: a statement sees what was committed when it began and the
transaction's own writes; a write waits for an uncommitted write of the same row
(or unique key). No code takes explicit locks, so ordering rests entirely on the
row locks the writes happen to take. The hazards this leads to are listed, line by
line, in `PROJECT.json` ("hazards").

## 2. Modules

| Module | Models |
|---|---|
| `Content` | the catalogue (users, paths, courses, sections, lessons and the references between them) as constants, and `deriveStatus` |
| `LearnerTables` | the learner's tables as committed, the row locks, `hasAccessToCourse` |
| `Cascade` | `POST /learning/lessons/:id/complete`: guard, fast path, captures and the whole transaction, one action per statement |
| `CertificateLedger` | the abstract specification: a completion is one atomic step after which exactly the certificates due are held |
| `CascadeProperties` | what the cascade must guarantee, and what the documentation says of it |
| `CascadeInvariant` | the inductive invariants of the cascade: certificates, inserts, announcements, progress rows |
| `CascadeProofs`, `CertificateProofs` | types; everything `CascadeProperties` promises except liveness |
| `Enrollment`, `EnrollmentProperties` | the two enrollment transactions, one action per INSERT |
| `Learning` | the composition of `Cascade` and `Enrollment` over the same tables |
| `LearningProofs` | the theorems of enrollment and of the composition, the cascade's among them |
| `RateLimits` | `checkRateLimit`, the row its callers store, `forgotPassword` up to it, the hourly cleanup, time |
| `EmailCodes` | `sendVerificationCode` and `verifyEmail`, on top of `RateLimits` |
| `Account` | one `users` row: `login` with its lockout, `refresh`, `logout`, `changePassword`, reset links |
| `RateLimitsProofs`, `EmailCodesProofs`, `AccountProofs` | their theorems |
| `Discovery` | the six cached pages, `CacheService`, and what every kind of edit writes and deletes, in its order |
| `Categories` | the category table: checks of names and slugs, then the write |
| `Marketing` | the order of features, faqs or testimonials of one owner: numbering, single updates, `reorder` |
| `TagAssociations` | `ReplaceTagAssociationsHelper`, its transaction statement by statement |
| `SignUp` | `register` and `submitOnboarding` for one address |
| `Membership` | the abstract specification of `SignUp`: one atomic registration, one onboarding, one event |
| `Seed` | `prisma/seed.ts`, killed and restarted anywhere |
| `SignUpProofs`, `AdministrationProofs` | the refinement of `Membership`; the theorems of the cache, categories, marketing, tags and the seed |
| `MCCascade`, `MCEnrollment`, `MCLearning`, `MCRequests`, `MCRateLimits`, `MCEmailCodes`, `MCAccount` | contents and symmetry for TLC |
| `MCAdministration` | the six modules above it, explored one at a time |

**Transactions.** A request of `Cascade` has a program counter `pc[r]`, its
arguments `arg[r]`, what it has read (`local[r]`) and what its open transaction has
written (`own[r]`). The `Seen..` operators are the transaction's view: committed
rows overlaid with its own. `Commit` publishes the writes and releases the locks;
`Abort` (a failed statement, the five-second timeout of Prisma's interactive
transaction, a lost connection or process) drops them. A retry is another
`Receive`. In `Enrollment` what a transaction has inserted follows from where it
is, so there is no `own`.

**Rows.** A progress row is the number it counted; its total is a constant and
its status is `DeriveStatus` of the two. `lessonProgress` is a set because rows are
only written COMPLETED, `pathEnrollment` a count because nothing makes it unique.
`upsert` on a unique key is `INSERT .. ON CONFLICT DO UPDATE`: it waits for the
lock and then overwrites, with the values computed before it waited. A `create`
under a unique key waits as well and then fails if the row is there.

**Time and limits.** `RateLimits` counts time in ticks. A stored row carries its
age and a caller the time since it read the clock (`elapsed`), because the code
takes `now` once and then runs three queries. `granted` is a history variable: the
rows stored in the last day, whether the cleanup has deleted them or not; the limits are
stated over it, so that a deletion too early shows as one request too many.
`SkipLimits` is the call of `register`, which passes no ip. In `EmailCodes` a row's number is its place in the order of
`createdAt`; Prisma takes that value when the sending batch starts, so the number is
given by `FindUnused`, the batch's `updateMany`, and the row appears with
`CreateCode`, its commit. An attempt reads a row in `FindVerification` and writes it
back in `RejectCode` or `AcceptCode`. Whether the typed code is the one looked up is
a free choice, so hashing and comparing are not modelled. `by`, the slot that
made a row, is no column: it identifies rows and says which call a property is about.

**The account.** `Account` has one `users` row and requests that read it, compute
(compare a password, hash a token) and write it back. Hashes are left out: whether a
comparison succeeds is a free choice, and of `refreshToken` only "null or not" matters
to the code. A request carries which kinds of update it has missed since its reading.

**The cache.** Redis keys do not influence each other and neither do the tables a page
is made from, so `Discovery` watches one key and one table of it, any of them: the
initial state chooses. Of a cached page, and of what a reader holds, matters only whether the
table has been written since. An edit is a program (`Program`): a write of its table and deletions
of keys, in the order of its handler; a pattern is deleted in two steps, because keys are
collected by SCAN and then unlinked. Edits that neither write the watched table nor delete
the watched key are left out. Every call to Redis may fail, as may every write.
`excused` is a history variable: the entry was stored from a reading older than a
write, or a deletion of it failed.

**Transactions that meet in one row.** In `TagAssociations` a replacement deletes the rows its
snapshot shows and waits for the locks on them; rows it no longer finds were deleted by another
one, also if that one inserted the same key anew. In `SignUp` a transaction has a draft
of the rows it will publish, and `holder` is the request that holds the unique index entry of
the address or the profile row. In `Marketing`, Prisma's batch transaction locks row after
row in the order of the list, so two reorders may deadlock; PostgreSQL then aborts
one (`AbortOrder`).

**Overtaken requests.** Where the code checks in one statement and writes in another, a
request carries `overtaken` or `outdated`: whether a write of somebody else has come between.
The properties say what holds of the rows that were not written on such knowledge, and
so how far the checks carry.

**Composition.** `MCAdministration` EXTENDS the six modules. They share no variable:
`Discovery` knows of the tables only that they are written, `Seed` writes a fixture of fixed ids, and
neither decides anything from rows of the others. So steps of different areas commute, and
exploring the areas one at a time shows what exploring them together would.

**Merged or left out.** Reads of the catalogue (lessons of a section, courses of a
path) are constants. Reads that only build the response are not steps. The two
captures run on separate connections and are separate steps in either order.
A unique violation inside an open PostgreSQL transaction makes every later
statement fail, so the retry loop of `issueCertificate` ends in a rollback; a
collision of the random certificate code is covered by `Abort`. `completedAt` and
percentages are not modelled. Names that end in an underscore and a word
(`DoneLessons_Committed`) are mutated forms of the definition that follows them,
used to check that a property notices such a bug; no specification uses them.

## 3. What is checked with TLC

| Run | Instance | Shows |
|---|---|---|
| `cascade_catalogue` | 2 requests, a path of two courses (sections of 2, 1, 1 and 0 lessons), enrolled or not | `CourseCertificatesExact`, `PathCertificatesExact`, `InsertsNeverConflict`, `NeverOverstated`, `IssuanceAnnounced`, `ImplementsLedger` |
| `requests` | 2 completions over a path of two one-lesson courses, or 3 enrollments of one learner into it and a standalone course; strong fairness | `RequestsAnswered`: no deadlock on row locks, no starvation; `OneEnrollmentPerPath`, `EnrolledIffSeeded`, `RefusedOnlyWhenEnrolled`, `EnrollAnswered` |
| `learning` | 1 completion and 1 enrollment at a time, path and standalone course, from nobody enrolled | `AggregatesExact`, `PositionInScope`, `CompletedOnlyWhenEnrolled`, `SeedsKeepProgress`, types |
| `rate_limits` | 3 callers, one address, two ips; cooldown within a tick, hour and day of one and two ticks, limits of 2 | `CooldownPerCaller`, `HourlyBounded`, `DailyBounded`, types |
| `email_codes` | 2 senders, 2 verifiers, 2 codes of 2 attempts | `LiveCodesOverlap`, `ExhaustedIsUsed`, `UsedStaysUsed` |
| `account` | 3 requests, 2 failures to a lock of 2 ticks, 2 reset links | `CountsConsecutive`, `FullCounterHasLock`, `LockStands`, `LockEnds`, `EndedStaysEnded`, `UsedByEarlierFinders`, types |
| `administration` | 1 reader and 2 editors of a page; 2 administrators, 2 categories (one in use), 2 names, 2 slugs; 2 writers of 2 marketing rows; 2 replacements of 2 tags; 3 sign-up requests; the seed script | `StaleOnlyIfRaced`, `ListsCatchUp`, `NamesDoubledOnlyWhenOvertaken`, `TiesOnlyWhenOvertaken`, `LastReorderStands`, `LastListStands`, `OneSubmissionWins`, `ImplementsMembership`, `SeededOnce`, `OnlyTakenKeysStopIt` |
| `cascade_overlap` | 2 requests, a standalone course | **violated**: `AggregatesExact` |
| `cascade_events` | 2 requests, a path | **violated**: `EventsOnlyForIssued` |
| `enrollment_conflict` | 3 requests | **violated**: `DoubleEnrollIsConflict` |
| `account_links` | 3 requests, 2 reset links | **violated**: `LinksUsedOnce` |
| `discovery_stale` | 1 reader, 1 editor | **violated**: `TagsNotPreWrite` |

*Bounds.* There are no counters to cap: the state space is finite because a
lesson once completed takes the fast path and a request's slot is reused. Two
requests are what a race over one row needs, and three enrollments allow a
loser of a race to be followed by a late third; with more requests the
certificate results are theorems. One user is enough for the races, which are
between requests of one learner (rows of different users have different locks);
the theorems hold for any set of users. The catalogue has what the code
distinguishes: a section finished by two lessons, a course finished by two
sections, a section without lessons, a path finished by two courses, and a course
without a path.

`MaxSpan` bounds the ticks a check may take, and ages beyond the reach of every
query are dropped, which makes `rate_limits` finite for good. With windows of a
few ticks and limits of two, every limit is reached, passed by the others in flight, and
left again. `MaxCodes` and `MaxAttempts` of two let a resend, two attempts and the
last attempt race; what they show holds for every bound (section 4). In `account`
three requests are what it takes for two to lock the account under a third, and a
counter beyond `MaxFailed` is kept at it, since the code only asks whether it is
reached. `MaxLinks` bounds the reset links.

In `administration` one reader is enough for `Discovery`, because an entry is overwritten
blindly and a slow reader is the same as two of which one is fast; two editors
let a deletion of one fall between the steps of the other. Two categories, names and slugs make every clash
possible, a rename past a pending request included. Two rows are the smallest list
with an order, and the smallest on which two reorders can be mixed; `MaxOrder` = 3
leaves room for rows numbered past the end. Three sign-up requests let a winner, a loser and a
late one meet. `Seed` has no bound but that a second copy of a row stands for any more. The script
itself is the instance.

*Fairness.* `SF(Step(r))` for each request, never for `Receive` or `Abort`. Node
runs every continuation, and PostgreSQL queues the waiters of a row lock, so a
statement that is possible again and again is executed. Weak fairness would not
do: a waiter's step is disabled whenever another transaction holds the row.

`ListsCatchUp` needs `WF(Expire)` only: Redis drops a key whose TTL is over. A list may be stored
again, outdated again, at once, and so it is only promised to be right again and again.

`LockEnds` needs `WF(Tick)` only: time passes. No caller has to do anything, and
callers may go on trying for ever.

**What the lockout and a session's end promise.** `login` counts a failure from the
row it read before the password was compared. Overlapping failures are therefore
counted as one, or set the counter back, and "after 10 consecutive failures the
account is locked" (`docs/auth/login.md:18`) holds exactly as long as none overlapped
(`CountsConsecutive`). Likewise "forces every device to fall through to
`INVALID_SESSION` on the next refresh call" (`docs/auth/reset-password.md:167`) holds
of a refresh that reads the row after the end (`EndedStaysEnded`), while one under
way, a login under way, and the tokens that `verifyEmail` and `submitOnboarding` sign
for a caller with an access token write `refreshToken` once more.

**What a reset link promises.** `resetPassword` finds the row by its token, hashes the new password and
then updates by id. Calls that found the link before its first use therefore use it again
(`LinksUsedOnce` is violated). `UsedByEarlierFinders` says how far "single-use" holds: a used link never
stands in the row again, so that later calls do not find it, and its uses together with the calls still
on their way to use it are never more than the requests there are. `uses` is a history variable.

**What the limits promise.** A limit of *n* is really one of *n* plus the other
calls in flight, since all of them may count before any stores its row. It is no more
than that: a caller always sees its own last row, and the cleanup, whose cutoff is
the longest window, never widens one. Likewise two resends at once may leave two
usable codes, but never more than there are calls in flight. Attempts counted from
an old read can make the counter fall, but a full counter always means a used
code, so the branch of `verifyEmail` for an unused code with no attempts left
(`auth.service.ts:560`) is never taken.

**What the cache promises.** Lists have a TTL and catch up whatever happens (`ListsCatchUp`). For
the rest, editors who write first and delete afterwards (categories, associations,
marketing) leave a page behind only until they have deleted it, unless a reader that had read before the
write stores after the deletion, or Redis fails (`StaleOnlyIfRaced`); for keys without a TTL
that page then stays until the next edit. Some pages are never deleted at all: a changed category
deletes only `categories:all`, a changed tag no detail page, replaced associations neither
`tags:all` with its counts nor a detail page. The property names the pairs of page and table for
which the code does delete.

**What the checks promise.** Category names are kept apart by a query, orders by reading the
highest one, a reorder by comparing lists: each holds of requests that nobody overtook
(`NamesDoubledOnlyWhenOvertaken`, `TiesOnlyWhenOvertaken`) and of no others. A reorder or a
replacement of tags is all or nothing, and the last one stands (`LastReorderStands`), a replacement with
the exception that one which overlapped the one before may add to it (`LastListStands`).
These properties bound what their races do; they do not exclude the races, which the code has. At this
commit only tests call the helper behind `LastListStands`; `docs/admin/categories.md:335` accepts the race of names.

**What registration promises.** `SignUp` implements `Membership`: whatever overlaps or dies, an
address has no account or a whole one, and one submission is taken. The event may be
missing (the process dies after the commit) and is never captured twice. Without a default plan
the account has no subscription, as in the code; `Plan` says which.

**The seed script.** `cleanup` makes a run independent of where the last one died
(`SeededOnce`). It deletes every course and path of the fixture's categories, its own or not,
although the comment at `seed.ts:84` speaks of data this script creates. Its own rows it finds by
id, and others may hold their keys: an administrator the slug of a tag or a category, anybody who
registers the address of a user (`seed.ts:627`, `seed.ts:705`, under the unique `users.email`). Then every
run stops at that row, after it has deleted the fixture; a slug may be released, an address
never is, because nothing deletes users or changes their address. `OnlyTakenKeysStopIt` says that this is
all that stops a run. It is about one run at a time, and about others who leave the fixture's own
rows alone: an administrator who deletes its category while it runs stops it as well.
The certificate it gives its second user is one without the lessons; rows of the seed are therefore
not among the initial states of `Cascade`.

**What the violated properties mean.** Two completions that overlap leave
`section_progress` (and what is computed from it) short of the committed lessons:
the second counts before the first commits, waits for the row, and overwrites it
with the older count, and the fast path never recomputes. Certificates do not
suffer, because they are counted after the `course_progress` row is locked.
`certificate_issued` is captured before the commit and survives a rollback. A doubled path
enrollment is refused by the unique index of the seeded `path_progress` row, which
is not turned into a 409. A reset link works for every call that found it before its first use. And deleting the cached tags before the write lets a reader in between
store the old ones again, where nothing deletes them afterwards.

A certificate may also be listed in the answers of two calls: one captures the existing
certificates, waits for the other and then finds what that one issued. The comment at
`progress.service.ts:139` defines "newly issued" by that capture; `IssuanceAnnounced` states the
half that matters, that no certificate goes unannounced. Nor does it count events: one captured in a
transaction that rolled back is captured again when the learner retries.

## 4. What is proved with TLAPS

Every safety property and every action property a passing run checks is a theorem
(`AggregatesExact` under the hypothesis without which it is false). Each rests on an inductive
invariant, which TLC checked on a small instance before it was proved.

**Lesson completion**, for every content (finite), any users and any number of requests:

* `TypesHold`, `TypeCorrect`: `Spec => []TypeOK`, by an invariant that adds that an
  idle slot keeps nothing and that only a course of a path reaches the path steps.
* `CertificatesKept`: `Spec => []CertificateInvariant`; from it
  `CourseCertificatesAreExact` and `PathCertificatesAreExact`.
* `CascadeImplementsLedger`: `Spec => Ledger!Spec`. `Commit(r)` is
  `Complete(U(r), L(r))`, every other step a stutter.
* `NoConflict`, `PositionsInScope`: `Spec => []InsertsNeverConflict`, `[]PositionInScope`, by
  `InsertInvariant`. It says whose a lock on a certificate or a position is
  (`InsertLocks`), and that only cascades lock such a row at all (`CascadeLocks`). Two requests that insert in one scope would both hold its
  `course_progress` or `path_progress` row (`OneInScope`, `OneIssuer`).
* `CertificatesAnnounced`: `Spec => IssuanceAnnounced`, by `AnnouncementInvariant`: a certificate
  captured as present is committed, so one that is being written was not captured, and is listed.
* `ProgressNeverOverstated`: `Spec => []NeverOverstated`, by `ProgressInvariant`: what a request
  has counted is at most what it would count now, because lessons stay completed.
  A sum over rows that are not overstated is not overstated, one level up at a time.
* `ExactOneAtATime`: `Spec /\ []OneAtATime => []AggregatesExact`, by `ExactInvariant`.
  `OneAtATime` says that no learner has two requests open at once. Without it the
  property is false (`cascade_overlap`), so this is the most that can be said: nothing but an
  overlap of one learner's own requests makes a row wrong, neither a crash nor a
  retry nor other learners.

**Enrollment and the composition**, for any number of enrollments and completions at once:

* `OneEnrollmentHolds`, `SeededTogether`, `RefusalsAreTrue`, by `EnrollInvariant`: a transaction
  past an INSERT holds a row nobody has committed (`Inserted`), and nobody else's step
  changes that (`OthersKeepHeld`). That is why the unique index of the seeded
  `path_progress` row does what `path_enrollments` lacks.
* `OnlyEnrolledComplete`, `SeedsNeverReset`, by `LearnInvariant`: the same, kept by completions,
  which overwrite only rows they hold (`HoldsWrites`), and enrollments are never taken back.
* `ExactWhileEnrolling`: `ExactOneAtATime` of the composition. Zeros are seeded
  where nothing was completed.
* `CourseCertificatesWhileEnrolling`, `PathCertificatesWhileEnrolling`, `NoConflictWhileEnrolling`,
  `PositionsWhileEnrolling`, `NeverOverstatedWhileEnrolling`, `LedgerWhileEnrolling`,
  `AnnouncedWhileEnrolling`: what `Spec` promises, of `LearnSpec`, where learners enroll meanwhile.
  `Spec` starts from any enrollments but never adds one, so this does not follow from it.
* `OneEnrollmentWhileCompleting`, `SeededWhileCompleting`, `RefusalsWhileCompleting`: conversely, what
  `EnrollSpec` promises, of `LearnSpec`.

**Limits and codes**, for any callers, addresses, windows, limits, verifiers and numbers of codes:

* `LimitsTypeCorrect`, `OwnCooldownHolds`: `LimitsSpec => []CooldownPerCaller`. The
  strengthening says that a caller past its first query has stored nothing within
  the cooldown (`Passed`), and that the cleanup deletes nothing of the last day
  (`DayKept`), so that what the query sees is what was stored.
* `HourlyOverrun`, `DailyOverrun`: `LimitsSpec => []HourlyBounded`, `[]DailyBounded`, by
  `OverrunInvariant`. The bound alone is not inductive, because callers that have passed their
  count have still to store their rows. The strengthening (`HourlyRoom`, `DailyRoom`) counts
  these callers with the rows of the window. A caller passes only while fewer than *n* rows are
  there, so that all the callers together are at most one less than their number above *n*.
* `CodesRespectLimits`: `CodesSpec => LimitsSpec`, so the above holds of codes too.
* `LiveCodesAlwaysOverlap`, `UsedCodesStayUsed`, `ExhaustedCodesAreUsed`. The
  strengthening (`OpenSend`) says that an open send has found every unused code its own
  slot made: later codes of that slot can only come from itself.

**The account**, for any number of requests, limit, lock and number of links:

* `AccountTypeCorrect`, `FailuresAreCounted`, `FullCountersHaveLocks`,
  `LinksUsedInFlight`, `LocksStand`, `EndedSessionsStayEnded`. Each request carries what it
  has `missed` since it read the row; the strengthening (`ReadingHolds`) says that a
  reading is still true of the row as far as nothing of its kind was missed, and the
  lemma `ReadingsKept` that every update tells the others what it changed.
  For links (`FindersNext`, `UsesNext`): a use moves its call from those that have found the link to those that have used it,
  and while a link has a use it is not in the row, so nobody joins them; the requests are finitely many.

**Sign-up and administration**, for any number of requests, rows and names:

* `SignUpKeepsPromise`: `SignUp` implements `Membership`, step by step; `SubmissionsNeverMix`.
* `StaleExplained`, `NamesKeptApart`, `TiesExplained`, `ReorderStands`, `LastTagListStands`: what
  holds of requests nobody overtook. Their invariants (`SnapshotCurrent`, `NamesKnown`, `WriteKnown`) say that
  an open request which carries no mark of having been overtaken has read what is still
  there; that of the cache, that a page left behind without excuse has an editor on its way to
  delete it (`Effective`).

**The seed script**, after any number of runs cut short anywhere:

* `SeedOnce`, `TakenKeysAlone`: `SeedSpec => []SeededOnce`, `[]OnlyTakenKeysStopIt`, by `SeedInvariant`: while a run is on, what it
  has made is there once (`Filled`), and what it has yet to make is gone as soon as
  its table was deleted (`Cleaned`); between runs nothing is known. `MainScript` shows what the
  script is, function by function: the deletions, then every item of the fixture once
  (`MainIs`). `CleanupCovers` says that the deletions and their cascades reach everything but the
  plans, which are upserted, so nothing is created over what an earlier run left.
  `path` and `category` are deleted after what refers to them. The script has no parameter,
  so TLC reaches all its states as well; the proof says why the order of its deletions suffices.

*The argument for certificates.* Exactness alone is not inductive: a transaction about to commit
must be known to have decided well. `RequestInv(r)` says it has, as seen by itself:
past the `course_progress` upsert it holds that row's lock (`HoldsRows`); the
certificate it has or has not written agrees with "every lesson of the course is
completed in my view" (`CourseDecision`), and likewise for the path
(`PathDecision`). The step that matters is another request's commit
(`CommitOthers`): it can only change that view by a lesson of the same learner and
course, but then both would hold the same `course_progress` row. So counts made
under that lock stay true until the commit. The lemma `CountsDecide` links the
code's comparison of two cardinalities with "every one of them"; it needs the
content to be finite. Steps other than `Commit` are handled once
(`OthersKept`) for the requests they do not move.

*The argument for the composition.* An enrollment leaves the cascade's invariants alone because of
four things it never does (`LeavesCascades`, proved of each of its steps in `EnrollingLeaves`): it does
not touch a lesson, a certificate, a position or another request's locks; it locks no row that a
cascade inserts; it publishes a progress row only where none was, and that one says
nothing (`SeedsOnly`); and it takes no enrollment back. Each invariant of the cascade has
a lemma that needs no more than that (`CertificatesLeft`, `InsertsLeft`, `AnnouncementsLeft`, `ProgressLeft`).
The other way round a cascade adds progress rows too, but only of learners it found
enrolled (`Through`), so no seed is missing where an enrollment is not (`CompletingSeeds`).

*The argument for exact rows.* `Exact(r)` says that what a request counts and writes is what its own view
of the lessons gives. A level rests on the one below: `SectionsCountExact` shows that the section rows as
the request sees them (its own new one, the committed rest) are finished exactly when their lessons
are. The view differs from what is committed in the request's own section, course and path only
(`ElsewhereCommitted`), so its commit publishes exact rows; and it changes nobody's view but that
learner's, whose other requests `OneAtATime` excludes (`OthersExact`).

*What the proofs changed.* The first proof of `SignUpKeepsPromise` failed because two arms of a `CASE` in the
refinement mapping overlapped, which let TLC and the prover read it differently; it is now decided in order.
`InsertInvariant` was not inductive once learners also enroll: nothing in it kept an enrollment's lock off a
certificate, hence `CascadeLocks`. The labels in `Seed` have no blanks, which the SMT backend cannot read.

*Assumptions.* `ContentAssumption`, `FiniteContent`, `DisjointScopes` (ids of
courses and paths differ), `SentinelAssumption`, `RequestsAssumption`, `EnrollersAssumption`,
`DisjointTransactions` (a transaction is a completion or an enrollment); for the limiter
and the codes `WindowsAssumption` (windows are nested), `CallersAssumption` (finitely many, at
least one), `CodesAssumption`; `AccountAssumption` (finitely many requests); `ApplicantsAssumption` and `KeepAssumption` (the marks
for nobody and for "keep the old value" are not values), `OrderAssumption` (finitely many rows, with
room for each in the bound `MaxOrder`). TLC evaluates them on the runs.

*Only model-checked.* `RequestsAnswered`, `EnrollAnswered`, `LockEnds` and `ListsCatchUp`, because TLAPS
cannot prove liveness. The properties found violated have no proof, of course.

## 5. Plan

1. *Done:* content, tables, cascade with certificates, ledger, enrollment, their
   composition; types, certificate exactness and refinement proved.
2. *Done:* **accounts**: rate limits, cleanup, verification codes, lockout, sessions and
   resets, with their proofs; `register`.
3. *Done:* **onboarding** with registration, against the abstract `Membership`.
4. *Done:* **discovery cache**: readers, editors, invalidation before and after the write, TTL.
5. *Done:* **ordering, tag replacement, categories, fixture seed**.
6. *Done:* **proofs** of sign-up, administration, enrollment, its composition with completions, the limits, the
   seed script, and the rest of the cascade, also while learners enroll.

## 6. Not modelled

* Changes of the catalogue while learners are active (no endpoint changes sections or
  lessons) and deletion of users. What deleting a tag does to the associations of its owners. Edits of the
  fixture's own rows while the seed script runs.
* What only computes or formats: list filters and sorting, path and course statistics, DTO
  mapping, the query hash, the response envelope, the error filter. No state depends on it.
* Single statements nothing decides on: profile updates, the status of a testimonial, the
  order and status columns of a category. `completedAt` and percentages.
* `RevalidationHelper`: one HTTP request to the front end whose outcome is logged. `MarketingCleanupHelper`:
  nothing calls it.
* Mail, health checks, audit log lines, controllers, which pass arguments on.
* The stubs (lessons, quizzes, projects, subscriptions, payments, storage): empty services.

The components marked `partly` or `not_modelled` in `PROJECT.json` carry their reason there.
