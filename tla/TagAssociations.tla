--------------------------- MODULE TagAssociations ---------------------------
(***************************************************************************)
(* ReplaceTagAssociationsHelper: the tags of one path or course replaced   *)
(* in a transaction, READ COMMITTED.  deleteMany deletes what its snapshot *)
(* shows, after waiting for the locks on those rows; createMany waits for  *)
(* any uncommitted row with the same key.  The cache is in Discovery.      *)
(***************************************************************************)
CONSTANTS Replacers, Tags

NoReplacement ==
  [at |-> "idle", want |-> {}, seen |-> {}, doomed |-> {}, overtaken |-> FALSE]

VARIABLES
  attached,   \* path_tags or course_tags of the owner, committed
  replacing,  \* replacing[r]: where its transaction is
  answered,   \* history: the list replaced last
  mixed       \* history: the replacement before that overlapped the last one

tagVars == <<attached, replacing, answered, mixed>>

TagsInit ==
  /\ attached = {}
  /\ replacing = [r \in Replacers |-> NoReplacement]
  /\ answered = {} /\ mixed = FALSE

\* validateAndDedupe has let the list pass; deleteMany takes its snapshot.
Seen_Listed(want) == attached \cap want  \* (mutated form: deletes the listed tags only)
Seen(want) == attached

Validate(r, want) ==
  /\ replacing[r] = NoReplacement
  /\ replacing' = [replacing EXCEPT ![r] = [@ EXCEPT
       !.at = "delete", !.want = want, !.seen = Seen(want)]]
  /\ UNCHANGED <<attached, answered, mixed>>

Others(r) == Replacers \ {r}

DeleteTags(r) ==
  /\ replacing[r].at = "delete"
  /\ \A q \in Others(r) : replacing[q].doomed \cap replacing[r].seen = {}
  /\ replacing' = [replacing EXCEPT ![r].at = "create", ![r].doomed = replacing[r].seen]
  /\ UNCHANGED <<attached, answered, mixed>>

Inserted(q) == IF replacing[q].at = "commit" THEN replacing[q].want ELSE {}

CreateTags(r) ==
  /\ replacing[r].at = "create"
  /\ \A q \in Others(r) :
       (replacing[q].doomed \cup Inserted(q)) \cap replacing[r].want = {}
  /\ replacing[r].want \cap (attached \ replacing[r].doomed) = {}
  /\ replacing' = [replacing EXCEPT ![r].at = "commit"]
  /\ UNCHANGED <<attached, answered, mixed>>

\* A row another one deleted is none of this snapshot's any more, even if the
\* same key is there again.
CommitTags(r) ==
  /\ replacing[r].at = "commit"
  /\ attached' = (attached \ replacing[r].doomed) \cup replacing[r].want
  /\ answered' = replacing[r].want
  /\ mixed' = replacing[r].overtaken
  /\ replacing' = [q \in Replacers |->
       IF q = r THEN NoReplacement
       ELSE [replacing[q] EXCEPT
              !.seen = @ \ replacing[r].doomed,
              !.overtaken = @ \/ replacing[q] # NoReplacement]]

\* P2002, a tag that is gone, a deadlock, a lost connection.
RollBack(r) ==
  /\ replacing[r] # NoReplacement
  /\ replacing' = [replacing EXCEPT ![r] = NoReplacement]
  /\ UNCHANGED <<attached, answered, mixed>>

TagsNext == \E r \in Replacers :
  \/ \E want \in SUBSET Tags : Validate(r, want)
  \/ DeleteTags(r) \/ CreateTags(r) \/ CommitTags(r) \/ RollBack(r)

TagsSpec == TagsInit /\ [][TagsNext]_tagVars

\* The owner has the tags of the last list, exactly, unless another replacement
\* committed while this one was under way (then it may have those of both).
LastListStands == mixed \/ attached = answered
=============================================================================
