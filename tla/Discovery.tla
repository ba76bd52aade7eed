------------------------------ MODULE Discovery ------------------------------
(***************************************************************************)
(* The public pages and the Redis cache in front of them: readers that     *)
(* look a page up, build it from the database and store it, and editors    *)
(* that write a table and delete the pages made from it.  Keys do not      *)
(* influence each other, nor do the tables a page is built from, so one    *)
(* key and one table of it, any of them, are watched.  Of what was read of *)
(* the table only matters whether it is behind: written since.             *)
(***************************************************************************)
EXTENDS Naturals, Sequences

CONSTANTS
  Readers,  \* requests for the page
  Editors   \* requests of administrators

VARIABLES
  page,     \* the key watched
  source,   \* the table watched, one the page is built from
  entry,    \* the cached page: absent, current or behind
  excused,  \* history: stored behind, or a deletion of it failed
  reader,   \* reader[r]: idle, loading, or holding the table, current or behind
  editor    \* editor[e]: the table it edits and its position in the program

discoveryVars == <<page, source, entry, excused, reader, editor>>

AtRest == [table |-> "none", at |-> 0, found |-> FALSE]

(* CacheTTL: entries of these keys expire. *)
ListKeys_NoExpiry == {"paths:list"}  \* (mutated form: courses:list is set without a TTL)
ListKeys == {"paths:list", "courses:list"}
Keys == {"paths:list", "courses:list", "tags:all", "categories:all", "paths:detail", "courses:detail"}
PathMarketing == {"path features", "path faqs", "path testimonials"}
CourseMarketing == {"course features", "course faqs", "course testimonials"}
Tables == {"category", "tag", "path tags", "course tags"} \cup PathMarketing \cup CourseMarketing

(* The tables each public read is built from. Paths, courses and lessons   *)
(* are left out, because no handler writes them.                           *)
CategoriesPage == {"category"}
TagCounts == {"path tags", "course tags"}
TagsPage == {"tag"} \cup TagCounts
PathsPage == {"category", "tag", "path tags"}
CoursesPage == {"category", "tag", "course tags"}
PathPage == PathsPage \cup PathMarketing
CoursePage == CoursesPage \cup CourseMarketing

Sources(k) ==
  CASE k = "categories:all" -> CategoriesPage
    [] k = "tags:all" -> TagsPage
    [] k = "paths:list" -> PathsPage
    [] k = "courses:list" -> CoursesPage
    [] k = "paths:detail" -> PathPage
    [] k = "courses:detail" -> CoursePage

Write == [op |-> "write", key |-> "none"]
Del(k) == [op |-> "del", key |-> k]
(* delByPattern: a SCAN that collects the keys, then an UNLINK of them. *)
DelByPattern(k) == <<[op |-> "scan", key |-> k], [op |-> "unlink", key |-> k]>>
BothLists == DelByPattern("paths:list") \o DelByPattern("courses:list")

(* invalidateOwner. Nothing ever sets the three marketing keys. *)
InvalidateOwner_ListOnly(detail, list) ==  \* (mutated form: the details are forgotten)
  <<Del("marketing:features"), Del("marketing:faqs"), Del("marketing:testimonials")>>
    \o DelByPattern(list)
InvalidateOwner(detail, list) ==
  <<Del("marketing:features"), Del("marketing:faqs"), Del("marketing:testimonials")>>
    \o DelByPattern(detail) \o DelByPattern(list)

(* What a mutation of each kind does, in its order. *)
TagMutation == <<Del("tags:all"), Del("tags:admin:all")>> \o BothLists \o <<Write>>
CategoryMutation == <<Write, Del("categories:all")>>
TagReplacement == <<Write>> \o BothLists
FeatureMutation(detail, list) == <<Write>> \o InvalidateOwner(detail, list)
FaqMutation(detail, list) == <<Write>> \o InvalidateOwner(detail, list)
TestimonialMutation(detail, list) == <<Write>> \o InvalidateOwner(detail, list)

Program == [t \in Tables |->
  CASE t = "tag" -> TagMutation
    [] t = "category" -> CategoryMutation
    [] t \in TagCounts -> TagReplacement
    [] t = "path features" -> FeatureMutation("paths:detail", "paths:list")
    [] t = "path faqs" -> FaqMutation("paths:detail", "paths:list")
    [] t = "path testimonials" -> TestimonialMutation("paths:detail", "paths:list")
    [] t = "course features" -> FeatureMutation("courses:detail", "courses:list")
    [] t = "course faqs" -> FaqMutation("courses:detail", "courses:list")
    [] t = "course testimonials" -> TestimonialMutation("courses:detail", "courses:list")]

DiscoveryInit ==
  /\ page \in Keys /\ source \in Sources(page)
  /\ entry = "absent" /\ excused = FALSE
  /\ reader = [r \in Readers |-> "idle"]
  /\ editor = [e \in Editors |-> AtRest]

-----------------------------------------------------------------------------
(* Readers. A hit changes nothing. *)

(* CacheService.get finds nothing or fails. *)
Miss(r) ==
  /\ reader[r] = "idle"
  /\ reader' = [reader EXCEPT ![r] = "load"]
  /\ UNCHANGED <<page, source, entry, excused, editor>>

(* The query that reads the table, one of several, some of them parallel. *)
Load(r) ==
  /\ reader[r] = "load"
  /\ reader' = [reader EXCEPT ![r] = "current"]
  /\ UNCHANGED <<page, source, entry, excused, editor>>

(* The slug is unknown or not published, or a query fails. *)
Refuse(r) ==
  /\ reader[r] # "idle"
  /\ reader' = [reader EXCEPT ![r] = "idle"]
  /\ UNCHANGED <<page, source, entry, excused, editor>>

(* CacheService.set, which swallows a failure of Redis; then the answer. *)
Store(r) ==
  /\ reader[r] \in {"current", "behind"}
  /\ \/ entry' = reader[r] /\ excused' = (reader[r] = "behind")
     \/ UNCHANGED <<entry, excused>>
  /\ reader' = [reader EXCEPT ![r] = "idle"]
  /\ UNCHANGED <<page, source, editor>>

Expire ==
  /\ page \in ListKeys /\ entry # "absent"
  /\ entry' = "absent" /\ excused' = FALSE
  /\ UNCHANGED <<page, source, reader, editor>>

-----------------------------------------------------------------------------
(* Editors *)

Instruction(e) == Program[editor[e].table][editor[e].at]

Advance(e, found) ==
  editor' = [editor EXCEPT ![e] =
    IF @.at = Len(Program[@.table]) THEN AtRest
    ELSE [@ EXCEPT !.at = editor[e].at + 1, !.found = found]]

(* An edit that writes another table and deletes other keys has no effect  *)
(* here and is left out.                                                   *)
Concerns(t) == t = source \/ \E i \in DOMAIN Program[t] : Program[t][i].key = page

BeginEdit(e, t) ==
  /\ editor[e] = AtRest /\ Concerns(t)
  /\ editor' = [editor EXCEPT ![e].table = t, ![e].at = 1]
  /\ UNCHANGED <<page, source, entry, excused, reader>>

Outdated(v) == IF v = "current" THEN "behind" ELSE v

(* The statement that changes the table, committed. The associations a     *)
(* deleted tag takes along belong to the write of the tag.                 *)
WriteTable(e) ==
  /\ editor[e] # AtRest /\ Instruction(e) = Write
  /\ IF editor[e].table = source
     THEN /\ reader' = [r \in Readers |-> Outdated(reader[r])]
          /\ entry' = Outdated(entry)
     ELSE UNCHANGED <<reader, entry>>
  /\ Advance(e, FALSE)
  /\ UNCHANGED <<page, source, excused>>

(* P2002, P2025, a foreign key: the request ends here. *)
WriteRefused(e) ==
  /\ editor[e] # AtRest /\ Instruction(e) = Write
  /\ editor' = [editor EXCEPT ![e] = AtRest]
  /\ UNCHANGED <<page, source, entry, excused, reader>>

(* DEL of a key, SCAN for a pattern, UNLINK of what it found. *)
Delete(e) ==
  /\ editor[e] # AtRest /\ Instruction(e) # Write
  /\ LET o == Instruction(e)
         hit == o.key = page /\ (o.op = "del" \/ (o.op = "unlink" /\ editor[e].found)) IN
       /\ entry' = IF hit THEN "absent" ELSE entry
       /\ excused' = (excused /\ ~hit)
       /\ Advance(e, o.op = "scan" /\ o.key = page /\ entry # "absent")
  /\ UNCHANGED <<page, source, reader>>

(* The call to Redis fails: logged, and the request goes on. *)
DeleteFails(e) ==
  /\ editor[e] # AtRest /\ Instruction(e) # Write
  /\ excused' = (excused \/ (Instruction(e).key = page /\ entry # "absent"))
  /\ Advance(e, FALSE)
  /\ UNCHANGED <<page, source, entry, reader>>

-----------------------------------------------------------------------------
Reading(r) == Miss(r) \/ Load(r) \/ Refuse(r) \/ Store(r)
Editing(e) ==
  \/ \E t \in Tables : BeginEdit(e, t)
  \/ WriteTable(e) \/ WriteRefused(e) \/ Delete(e) \/ DeleteFails(e)

DiscoveryNext ==
  \/ \E r \in Readers : Reading(r)
  \/ \E e \in Editors : Editing(e)
  \/ Expire

(* Redis expires keys; nothing else need happen. *)
DiscoverySpec == DiscoveryInit /\ [][DiscoveryNext]_discoveryVars /\ WF_discoveryVars(Expire)

-----------------------------------------------------------------------------
(* e has written the table and will yet delete the page. *)
Pending(e) ==
  /\ editor[e].table = source
  /\ \E i \in 1 .. editor[e].at - 1 : Program[source][i] = Write
  /\ \E i \in editor[e].at .. Len(Program[source]) : Program[source][i].key = page

(* A page deleted by the editors of a table that write first is behind of  *)
(* that table only while one of them has still to delete it, if the reader *)
(* that stored it had read before the write and stored after it, or if     *)
(* Redis failed.                                                           *)
StaleOnlyIfRaced ==
  /\ entry = "behind" /\ ~excused
  /\ \/ page = "categories:all"
     \/ page \in {"paths:list", "courses:list"} /\ source \in TagCounts
     \/ source \in PathMarketing \cup CourseMarketing
  => \E e \in Editors : Pending(e)

(* Whatever races and failures do, a list is never behind for good: again  *)
(* and again it is gone or has all that is written (CacheTTL.LIST).        *)
ListsCatchUp == page \in {"paths:list", "courses:list"} => []<>(entry # "behind")

(* docs/cache/invalidation-flow.md:20: "the invalidation call is placed    *)
(* before the DB write so a subsequent reader cannot race the writer's     *)
(* commit to repopulate the cache with pre-write data": when no edit of    *)
(* a tag is under way, no reader stored an older reading and Redis did not *)
(* fail, the cached tags are those of the database.                        *)
TagsNotPreWrite ==
  /\ page = "tags:all" /\ source = "tag" /\ ~excused
  /\ \A e \in Editors : editor[e].table # "tag"
  => entry # "behind"
=============================================================================
