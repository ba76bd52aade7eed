-------------------------------- MODULE Seed --------------------------------
(***************************************************************************)
(* prisma/seed.ts: a script of statements, each committed by itself, that  *)
(* first deletes what an earlier run left and then creates the fixture.  A *)
(* run may die between any two of them, and is then started again.  Rows   *)
(* are told apart by table and owner and are counted, because marketing    *)
(* rows and projects have no key that would refuse a second copy.  Beside  *)
(* the script, others take and release keys of the fixture: an admin the   *)
(* slug of a tag or a category, anybody an address.  No route of the       *)
(* application creates a path, a course or a plan, and nobody is taken to  *)
(* edit or delete the fixture's own rows.                                  *)
(***************************************************************************)
EXTENDS Naturals, Sequences

VARIABLES
  rows,  \* rows[i]: copies of item i, a second one stands for any more
  at,    \* the next statement; Stopped or Finished when no run is on
  taken  \* items a key of which somebody else's row has: slug or address

seedVars == <<rows, at, taken>>

PathId == "path"
InPath == {"data_analysis", "deep_learning"}
Courses == InPath \cup {"sql"}
Owners == {PathId} \cup Courses
Users == {"user1", "user2"}
Create(table, of) == [op |-> "create", item |-> <<table, of>>]
Upsert(of) == [op |-> "upsert", item |-> <<"plan", of>>]
DeleteMany(table) == [op |-> "delete", item |-> <<table, "all">>]

(* cleanup *)
Cleanup_CoursesKept ==  \* (mutated form: paths before their courses)
  <<DeleteMany("feature"), DeleteMany("faq"), DeleteMany("testimonial"), DeleteMany("user"),
    DeleteMany("path"), DeleteMany("course"), DeleteMany("tag"), DeleteMany("category")>>
Cleanup_NoFaqs ==  \* (mutated form: a marketing table is left out)
  <<DeleteMany("feature"), DeleteMany("testimonial"), DeleteMany("user"),
    DeleteMany("course"), DeleteMany("path"), DeleteMany("tag"), DeleteMany("category")>>
Cleanup ==
  <<DeleteMany("feature"), DeleteMany("faq"), DeleteMany("testimonial"), DeleteMany("user"),
    DeleteMany("course"), DeleteMany("path"), DeleteMany("tag"), DeleteMany("category")>>

SeedCategories == <<Create("category", "all")>>
SeedTags == <<Create("tag", "all")>>
SeedPlans == <<Upsert("free"), Upsert("monthly"), Upsert("quarterly"), Upsert("yearly")>>

SeedPath == <<
  Create("path", PathId), Create("feature", PathId), Create("faq", PathId),
  Create("testimonial", PathId)>>

(* A course with its tags, sections and lessons is one nested create. *)
SeedCourseDataAnalysis == <<
  Create("course", "data_analysis"), Create("feature", "data_analysis"),
  Create("faq", "data_analysis"), Create("testimonial", "data_analysis"),
  Create("project", "data_analysis")>>

SeedCourseDeepLearning == <<
  Create("course", "deep_learning"), Create("feature", "deep_learning"),
  Create("faq", "deep_learning")>>

SeedStandaloneCourse == <<
  Create("course", "sql"), Create("feature", "sql"), Create("faq", "sql"),
  Create("testimonial", "sql"), Create("project", "sql")>>

SeedUsersWithProgress == <<
  Create("user", "user1"), Create("first_lesson", "user1"),
  Create("second_lesson", "user1"), Create("section_progress", "user1"),
  Create("course_progress", "user1"), Create("path_progress", "user1"),
  Create("last_position", "user1"),
  Create("user", "user2"), Create("first_lesson", "user2"),
  Create("last_position", "user2"), Create("certificate", "user2")>>

Main ==
  Cleanup \o SeedCategories \o SeedTags \o SeedPlans \o SeedPath
    \o SeedCourseDataAnalysis \o SeedCourseDeepLearning \o SeedStandaloneCourse
    \o SeedUsersWithProgress

(* The items whose keys a route of the application can give to others. *)
SlugItems == {<<"tag", "all">>, <<"category", "all">>}
AddressItems == {<<"user", u>> : u \in Users}

Fixture == {Main[k].item : k \in {k \in DOMAIN Main : Main[k].op # "delete"}}
Stopped == 0
Finished == Len(Main) + 1

-----------------------------------------------------------------------------
Exists(table) == \E i \in Fixture : i[1] = table /\ rows[i] > 0

(* onDelete: what goes with a row, and what keeps it (Restrict). *)
Cascade(table) ==
  {i \in Fixture :
     \/ i[1] = table
     \/ table = "user" /\ i[2] \in Users
     \/ table = "course" /\ i[1] = "project"}
Restricted(table) ==
  \/ table = "path" /\ \E c \in InPath : rows[<<"course", c>>] > 0
  \/ table = "category" /\ (Exists("course") \/ Exists("path"))

HasKey(i) == i[1] \notin {"feature", "faq", "testimonial", "project"}

Refused(s) ==
  \/ s.op = "delete" /\ Restricted(s.item[1])
  \/ s.op = "create" /\ HasKey(s.item) /\ rows[s.item] > 0
  \/ s.op = "create" /\ s.item \in taken

Effect(s) ==
  CASE s.op = "delete" -> [i \in Fixture |-> IF i \in Cascade(s.item[1]) THEN 0 ELSE rows[i]]
    [] s.op = "upsert" -> [rows EXCEPT ![s.item] = 1]
    [] OTHER -> [rows EXCEPT ![s.item] = IF @ = 0 THEN 1 ELSE 2]

SeedInit == rows = [i \in Fixture |-> 0] /\ at = Stopped /\ taken = {}

Start ==
  /\ at \in {Stopped, Finished}
  /\ at' = 1 /\ UNCHANGED <<rows, taken>>

Statement ==
  /\ at \in DOMAIN Main /\ ~Refused(Main[at])
  /\ rows' = Effect(Main[at])
  /\ at' = at + 1 /\ UNCHANGED taken

\* A statement is refused, and the script exits with 1; or it is killed.
Exit ==
  /\ at \in DOMAIN Main
  /\ at' = Stopped /\ UNCHANGED <<rows, taken>>

\* The tags and categories services, under the unique slug.
TakeSlug(i) ==
  /\ i \in SlugItems \ taken /\ rows[i] = 0
  /\ taken' = taken \cup {i} /\ UNCHANGED <<rows, at>>
ReleaseSlug(i) ==
  /\ i \in SlugItems \cap taken
  /\ taken' = taken \ {i} /\ UNCHANGED <<rows, at>>

\* A registration, under the unique address, which nothing changes or deletes.
TakeAddress(i) ==
  /\ i \in AddressItems \ taken /\ rows[i] = 0
  /\ taken' = taken \cup {i} /\ UNCHANGED <<rows, at>>

SeedNext ==
  \/ Start \/ Statement \/ Exit
  \/ \E i \in Fixture : TakeSlug(i) \/ ReleaseSlug(i) \/ TakeAddress(i)
SeedSpec == SeedInit /\ [][SeedNext]_seedVars

\* After a run that ended, whatever runs were cut short before it, every row of
\* the fixture is there once.
SeededOnce == at = Finished => \A i \in Fixture : rows[i] = 1

\* What a run leaves, finished or cut short anywhere, never stops a later one: no
\* key is still there, no row still referred to. Only a slug or an address that
\* somebody else holds does; and as cleanup deletes by id, that stops every run
\* after it has deleted the fixture, as long as the key is held.
OnlyTakenKeysStopIt ==
  at \in DOMAIN Main /\ Refused(Main[at]) => Main[at].item \in taken
=============================================================================
