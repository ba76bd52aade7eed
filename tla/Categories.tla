----------------------------- MODULE Categories -----------------------------
(***************************************************************************)
(* The administrators' writes of the category table.  A slug is unique by  *)
(* an index, a name only by a query before the write, so what a request    *)
(* found out about names may be outdated when it writes.  status and order *)
(* are left out: no decision reads them.                                   *)
(***************************************************************************)
CONSTANTS
  Admins, Ids, Names, Slugs,
  InUse,   \* categories that paths or courses reference
  Keep     \* a field the request leaves out

ASSUME KeepAssumption == Keep \notin Ids \cup Names \cup Slugs

NoCategory == [name |-> Keep, slug |-> Keep]
NoRequest == [at |-> "idle", id |-> Keep, name |-> Keep, slug |-> Keep, outdated |-> FALSE]

VARIABLES
  category,      \* the table
  editing,       \* editing[q]: where request q is and what it will write
  unchecked      \* history: rows whose name was written on outdated knowledge

categoryVars == <<category, editing, unchecked>>

CategoriesInit ==
  /\ category = [i \in Ids |-> NoCategory]
  /\ editing = [q \in Admins |-> NoRequest]
  /\ unchecked = {}

Existing == {i \in Ids : category[i] # NoCategory}
Named(n) == {i \in Existing : category[i].name = n}
WithSlug(g) == {i \in Existing : category[i].slug = g}

Close(q) == editing' = [editing EXCEPT ![q] = NoRequest]

\* create: findFirst by name, then findUnique by slug; a clash is a 409.
CheckNewName(q, n, g) ==
  /\ editing[q] = NoRequest /\ Named(n) = {}
  /\ editing' = [editing EXCEPT ![q] =
       [at |-> "slug", id |-> Keep, name |-> n, slug |-> g, outdated |-> FALSE]]
  /\ UNCHANGED <<category, unchecked>>

\* update: the row, then a query for the new name if it is another one. A row
\* read before the check, as here, may have been renamed since: that overtakes the request as well.
NameFree_Unasked(i, n) == TRUE  \* (mutated form: a rename is not checked)
NameFree(i, n) == n \in {Keep, category[i].name} \/ Named(n) \subseteq {i}

CheckUpdate(q, i, n, g) ==
  /\ editing[q] = NoRequest /\ i \in Existing /\ NameFree(i, n)
  /\ editing' = [editing EXCEPT ![q] =
       [at |-> "slug", id |-> i, name |-> n, slug |-> g, outdated |-> FALSE]]
  /\ UNCHANGED <<category, unchecked>>

CheckSlug(q) ==
  /\ editing[q].at = "slug"
  /\ IF WithSlug(editing[q].slug) \subseteq {editing[q].id}
     THEN editing' = [editing EXCEPT ![q].at = "write"]
     ELSE Close(q)
  /\ UNCHANGED <<category, unchecked>>

\* The row i gets its new values; a new name outdates what the others know.
Written(q, i, row) ==
  /\ category' = [category EXCEPT ![i] = row]
  /\ editing' = [p \in Admins |->
       IF p = q THEN NoRequest
       ELSE [editing[p] EXCEPT !.outdated =
               @ \/ (editing[p] # NoRequest /\ row.name # category[i].name)]]
  /\ unchecked' = IF editing[q].outdated THEN unchecked \cup {i}
                  ELSE IF row.name # category[i].name THEN unchecked \ {i} ELSE unchecked

Insert(q) ==
  /\ editing[q].at = "write" /\ editing[q].id = Keep
  /\ WithSlug(editing[q].slug) = {}
  /\ \E i \in Ids \ Existing :
       Written(q, i, [name |-> editing[q].name, slug |-> editing[q].slug])

Update(q) ==
  LET i == editing[q].id
      Or(new, old) == IF new = Keep THEN old ELSE new IN
  /\ editing[q].at = "write" /\ i \in Existing
  /\ WithSlug(editing[q].slug) \subseteq {i}
  /\ Written(q, i, [name |-> Or(editing[q].name, category[i].name),
                    slug |-> Or(editing[q].slug, category[i].slug)])

\* P2002 or P2025, neither of them mapped here: an internal error.
WriteFails(q) ==
  /\ editing[q].at = "write"
  /\ \/ ~(WithSlug(editing[q].slug) \subseteq {editing[q].id})
     \/ editing[q].id \notin Existing \cup {Keep}
  /\ Close(q)
  /\ UNCHANGED <<category, unchecked>>

\* A category in use is refused by the foreign keys (Restrict).
Remove(i) ==
  /\ i \in Existing \ InUse
  /\ category' = [category EXCEPT ![i] = NoCategory]
  /\ unchecked' = unchecked \ {i}
  /\ UNCHANGED editing

CategoriesNext ==
  \/ \E q \in Admins :
       \/ \E n \in Names, g \in Slugs : CheckNewName(q, n, g)
       \/ \E i \in Ids, n \in Names \cup {Keep}, g \in Slugs \cup {Keep} :
            CheckUpdate(q, i, n, g)
       \/ CheckSlug(q) \/ Insert(q) \/ Update(q) \/ WriteFails(q)
  \/ \E i \in Ids : Remove(i)

CategoriesSpec == CategoriesInit /\ [][CategoriesNext]_categoryVars

\* No index keeps names apart ("Category name already exists" is a query of the
\* service). Two categories have one name only if one of them was written by a
\* request that another write had overtaken since its check.
NamesDoubledOnlyWhenOvertaken ==
  \A i, j \in Existing \ unchecked : i # j => category[i].name # category[j].name
=============================================================================
