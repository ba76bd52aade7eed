------------------------ MODULE AdministrationProofs ------------------------
(***************************************************************************)
(* What the administrators' writes keep true, for any number of them: the  *)
(* tags of an owner, the names of the categories, the order of marketing   *)
(* rows, and the pages cached of what they wrote.  Last, the fixture they  *)
(* start from: what the seed leaves, whatever runs of it were cut short.   *)
(***************************************************************************)
EXTENDS Discovery, Categories, Marketing, TagAssociations, Seed, FiniteSetTheorems,
        SequenceTheorems, WellFoundedInduction, TLAPS

(***************************************************************************)
(* TagAssociations.  A replacement that no other has overtaken since its   *)
(* snapshot saw, and deletes, exactly the tags that are there.             *)
(***************************************************************************)
Replacements ==
  [at : {"idle", "delete", "create", "commit"}, want : SUBSET Tags,
   seen : SUBSET Tags, doomed : SUBSET Tags, overtaken : BOOLEAN]

TagsTypeOK ==
  /\ attached \subseteq Tags /\ answered \subseteq Tags /\ mixed \in BOOLEAN
  /\ replacing \in [Replacers -> Replacements]

SnapshotCurrent(r) ==
  replacing[r].at # "idle" /\ ~replacing[r].overtaken =>
    /\ replacing[r].seen = attached
    /\ replacing[r].at \in {"create", "commit"} => replacing[r].doomed = attached

TagsInvariant ==
  /\ TagsTypeOK
  /\ LastListStands
  /\ \A r \in Replacers : SnapshotCurrent(r)

\* A step that changes nothing but one replacement's own record.
LEMMA OwnReplacement ==
  ASSUME TagsInvariant, NEW r \in Replacers, NEW x \in Replacements,
         replacing' = [replacing EXCEPT ![r] = x],
         UNCHANGED <<attached, answered, mixed>>, SnapshotCurrent(r)'
  PROVE  TagsInvariant'
<1>1. ASSUME NEW q \in Replacers, q # r PROVE SnapshotCurrent(q)'
  BY <1>1 DEF TagsInvariant, TagsTypeOK, SnapshotCurrent
<1> QED BY <1>1 DEF TagsInvariant, TagsTypeOK, LastListStands

\* Every step of a replacement keeps the invariant.
LEMMA TagsStep == TagsInvariant /\ [TagsNext]_tagVars => TagsInvariant'
<1> SUFFICES ASSUME TagsInvariant, [TagsNext]_tagVars PROVE TagsInvariant'
  OBVIOUS
<1>t. TagsTypeOK BY DEF TagsInvariant
<1>1. ASSUME NEW r \in Replacers, NEW want \in SUBSET Tags, Validate(r, want)
      PROVE  TagsInvariant'
  <2> DEFINE x == [replacing[r] EXCEPT !.at = "delete", !.want = want, !.seen = attached]
  <2>1. /\ replacing' = [replacing EXCEPT ![r] = x] /\ replacing[r] = NoReplacement
        /\ UNCHANGED <<attached, answered, mixed>>
    BY <1>1 DEF Validate, Seen
  <2>2. x \in Replacements /\ x.at = "delete" /\ x.seen = attached
    BY <1>t DEF TagsTypeOK, Replacements
  <2> HIDE DEF x
  <2>3. SnapshotCurrent(r)' BY <2>1, <2>2, <1>t DEF SnapshotCurrent, TagsTypeOK
  <2> QED BY <2>1, <2>2, <2>3, OwnReplacement
<1>2. ASSUME NEW r \in Replacers, DeleteTags(r) PROVE TagsInvariant'
  <2> DEFINE x == [replacing[r] EXCEPT !.at = "create", !.doomed = replacing[r].seen]
  <2>1. /\ replacing' = [replacing EXCEPT ![r] = x] /\ replacing[r].at = "delete"
        /\ UNCHANGED <<attached, answered, mixed>>
    BY <1>2, <1>t DEF DeleteTags, TagsTypeOK, Replacements
  <2>2. /\ x \in Replacements /\ x.at = "create" /\ x.doomed = replacing[r].seen
        /\ x.seen = replacing[r].seen /\ x.overtaken = replacing[r].overtaken
    BY <1>t DEF TagsTypeOK, Replacements
  <2> HIDE DEF x
  <2>3. SnapshotCurrent(r)'
    BY <2>1, <2>2, <1>t DEF SnapshotCurrent, TagsInvariant, TagsTypeOK
  <2> QED BY <2>1, <2>2, <2>3, OwnReplacement
<1>3. ASSUME NEW r \in Replacers, CreateTags(r) PROVE TagsInvariant'
  <2> DEFINE x == [replacing[r] EXCEPT !.at = "commit"]
  <2>1. /\ replacing' = [replacing EXCEPT ![r] = x] /\ replacing[r].at = "create"
        /\ UNCHANGED <<attached, answered, mixed>>
    BY <1>3, <1>t DEF CreateTags, TagsTypeOK, Replacements
  <2>2. /\ x \in Replacements /\ x.at = "commit" /\ x.doomed = replacing[r].doomed
        /\ x.seen = replacing[r].seen /\ x.overtaken = replacing[r].overtaken
    BY <1>t DEF TagsTypeOK, Replacements
  <2> HIDE DEF x
  <2>3. SnapshotCurrent(r)'
    BY <2>1, <2>2, <1>t DEF SnapshotCurrent, TagsInvariant, TagsTypeOK
  <2> QED BY <2>1, <2>2, <2>3, OwnReplacement
<1>4. ASSUME NEW r \in Replacers, CommitTags(r) PROVE TagsInvariant'
  <2>1. ASSUME NEW q \in Replacers, q # r
        PROVE  /\ replacing'[q] \in Replacements /\ replacing'[q].at = replacing[q].at
               /\ replacing[q].at # "idle" => replacing'[q].overtaken
    <3>1. replacing[q] \in Replacements BY <1>t DEF TagsTypeOK
    <3>2. replacing'[q] = [replacing[q] EXCEPT
              !.seen = @ \ replacing[r].doomed,
              !.overtaken = @ \/ replacing[q] # NoReplacement]
      BY <1>4, <2>1 DEF CommitTags
    <3>3. replacing[q].at # "idle" => replacing[q] # NoReplacement
      BY DEF NoReplacement
    <3>4. /\ replacing'[q] \in Replacements /\ replacing'[q].at = replacing[q].at
          /\ replacing'[q].overtaken = (replacing[q].overtaken \/ replacing[q] # NoReplacement)
      BY <3>1, <3>2 DEF Replacements
    <3> QED BY <3>3, <3>4
  <2>2. replacing'[r] = NoReplacement /\ NoReplacement \in Replacements
        /\ NoReplacement.at = "idle"
    BY <1>4 DEF CommitTags, NoReplacement, Replacements
  <2>3. replacing' \in [Replacers -> Replacements]
    BY <1>4, <2>1, <2>2 DEF CommitTags
  <2>4. TagsTypeOK'
    BY <1>4, <1>t, <2>3 DEF CommitTags, TagsTypeOK, Replacements
  <2>5. \A q \in Replacers : SnapshotCurrent(q)'
    BY <2>1, <2>2 DEF SnapshotCurrent
  <2>6. LastListStands'
    BY <1>4, <1>t DEF CommitTags, LastListStands, TagsInvariant, TagsTypeOK,
                      SnapshotCurrent, Replacements
  <2> QED BY <2>4, <2>5, <2>6 DEF TagsInvariant
<1>5. ASSUME NEW r \in Replacers, RollBack(r) PROVE TagsInvariant'
  <2>1. NoReplacement \in Replacements BY DEF NoReplacement, Replacements
  <2>2. SnapshotCurrent(r)'
    BY <1>5, <1>t DEF RollBack, SnapshotCurrent, TagsTypeOK, NoReplacement
  <2> QED BY <1>5, <2>1, <2>2, OwnReplacement DEF RollBack
<1>6. CASE UNCHANGED tagVars
  BY <1>6 DEF tagVars, TagsInvariant, TagsTypeOK, LastListStands, SnapshotCurrent
<1> QED BY <1>1, <1>2, <1>3, <1>4, <1>5, <1>6 DEF TagsNext

\* The owner has the tags of the list replaced last, exactly, unless replacements
\* overlapped (replaceForPath and replaceForCourse, READ COMMITTED).
THEOREM LastTagListStands == TagsSpec => []LastListStands
<1>1. TagsInit => TagsInvariant
  <2> SUFFICES ASSUME TagsInit PROVE TagsInvariant OBVIOUS
  <2>1. NoReplacement \in Replacements BY DEF NoReplacement, Replacements
  <2>2. ASSUME NEW r \in Replacers PROVE SnapshotCurrent(r)
    BY DEF TagsInit, SnapshotCurrent, NoReplacement
  <2> QED BY <2>1, <2>2 DEF TagsInit, TagsInvariant, TagsTypeOK, LastListStands
<1>2. TagsInvariant => LastListStands BY DEF TagsInvariant
<1> QED BY <1>1, <1>2, TagsStep, PTL DEF TagsSpec
-----------------------------------------------------------------------------
(***************************************************************************)
(* Categories.  As long as no write has overtaken a request, what it found *)
(* out about names is still so: nobody has the name of a new category, and *)
(* a rename takes no name another category has.                            *)
(***************************************************************************)
Categorised == [name : Names, slug : Slugs]

Requests ==
  [at : {"idle", "slug", "write"}, id : Ids \cup {Keep}, name : Names \cup {Keep},
   slug : Slugs \cup {Keep}, outdated : BOOLEAN]

CategoriesTypeOK ==
  /\ category \in [Ids -> Categorised \cup {NoCategory}]
  /\ editing \in [Admins -> Requests]
  /\ unchecked \subseteq Existing

NamesKnown(q) ==
  editing[q].at # "idle" =>
    IF editing[q].id = Keep
    THEN /\ editing[q].name \in Names /\ editing[q].slug \in Slugs
         /\ ~editing[q].outdated => Named(editing[q].name) = {}
    ELSE ~editing[q].outdated /\ editing[q].id \in Existing =>
           NameFree(editing[q].id, editing[q].name)

CategoriesInvariant ==
  /\ CategoriesTypeOK
  /\ NamesDoubledOnlyWhenOvertaken
  /\ \A q \in Admins : NamesKnown(q)

\* A row has a name exactly if it exists.
LEMMA RowsOfExisting ==
  ASSUME CategoriesTypeOK, NEW i \in Ids
  PROVE  IF i \in Existing THEN category[i] \in Categorised /\ category[i].name # Keep
         ELSE category[i].name = Keep
BY KeepAssumption DEF CategoriesTypeOK, Existing, NoCategory, Categorised

\* A step that changes nothing but one request's own record.
LEMMA OwnRequest ==
  ASSUME CategoriesInvariant, NEW q \in Admins, NEW x \in Requests,
         editing' = [editing EXCEPT ![q] = x], UNCHANGED <<category, unchecked>>,
         NamesKnown(q)'
  PROVE  CategoriesInvariant'
<1>1. ASSUME NEW p \in Admins, p # q PROVE NamesKnown(p)'
  BY <1>1 DEF CategoriesInvariant, CategoriesTypeOK, NamesKnown, Named, NameFree, Existing
<1> QED
  BY <1>1 DEF CategoriesInvariant, CategoriesTypeOK, NamesDoubledOnlyWhenOvertaken, Existing

\* A request that is over is a request.
LEMMA NoRequestTyped == NoRequest \in Requests /\ NoRequest.at = "idle"
BY DEF NoRequest, Requests

\* A request that ends without writing.
LEMMA RequestClosed ==
  ASSUME CategoriesInvariant, NEW q \in Admins, Close(q), UNCHANGED <<category, unchecked>>
  PROVE  CategoriesInvariant'
<1>1. NamesKnown(q)'
  BY NoRequestTyped DEF Close, CategoriesInvariant, CategoriesTypeOK, NamesKnown
<1> QED BY <1>1, OwnRequest, NoRequestTyped DEF Close

\* A row written: the name is new to the table or the row had it already, or
\* the row counts as unchecked.
LEMMA RowWritten ==
  ASSUME CategoriesInvariant, NEW q \in Admins, NEW i \in Ids, NEW row \in Categorised,
         Written(q, i, row),
         \/ editing[q].outdated
         \/ row.name = category[i].name
         \/ Named(row.name) \subseteq {i}
  PROVE  CategoriesInvariant'
<1> USE DEF CategoriesInvariant
<1>t. /\ category \in [Ids -> Categorised \cup {NoCategory}]
      /\ editing \in [Admins -> Requests] /\ unchecked \subseteq Existing
  BY DEF CategoriesTypeOK
<1>1. /\ category' = [category EXCEPT ![i] = row]
      /\ unchecked' = IF editing[q].outdated THEN unchecked \cup {i}
                      ELSE IF row.name # category[i].name THEN unchecked \ {i}
                      ELSE unchecked
  BY DEF Written
<1>2. row.name # Keep /\ row # NoCategory
  BY KeepAssumption DEF Categorised, NoCategory
<1>3. Existing' = Existing \cup {i}
  BY <1>1, <1>2, <1>t DEF Existing
<1>4. ASSUME NEW p \in Admins
      PROVE  /\ editing'[p] \in Requests
             /\ editing'[p].at # "idle" =>
                  /\ p # q /\ editing[p].at = editing'[p].at
                  /\ editing'[p].id = editing[p].id /\ editing'[p].name = editing[p].name
                  /\ editing'[p].slug = editing[p].slug
                  /\ ~editing'[p].outdated =>
                       ~editing[p].outdated /\ row.name = category[i].name
  <2>1. CASE p = q BY <2>1, NoRequestTyped DEF Written
  <2>2. CASE p # q
    <3>1. editing'[p] = [editing[p] EXCEPT !.outdated =
               @ \/ (editing[p] # NoRequest /\ row.name # category[i].name)]
      BY <2>2 DEF Written
    <3>2. editing[p] \in Requests BY <1>t
    <3> QED BY <2>2, <3>1, <3>2, NoRequestTyped DEF Requests
  <2> QED BY <2>1, <2>2
<1>5. CategoriesTypeOK'
  <2>1. editing' \in [Admins -> Requests] BY <1>4 DEF Written
  <2>2. category' \in [Ids -> Categorised \cup {NoCategory}] BY <1>1, <1>t
  <2>3. unchecked' \subseteq Existing' BY <1>1, <1>3, <1>t
  <2> QED BY <2>1, <2>2, <2>3 DEF CategoriesTypeOK
<1>6. ASSUME row.name = category[i].name
      PROVE  /\ Existing' = Existing /\ \A j \in Ids : category'[j].name = category[j].name
             /\ \A n : Named(n)' = Named(n)
  <2>1. i \in Existing BY <1>6, <1>2, RowsOfExisting
  <2>2. Existing' = Existing BY <2>1, <1>3
  <2>3. \A j \in Ids : category'[j].name = category[j].name BY <1>1, <1>6, <1>t
  <2> QED BY <2>2, <2>3 DEF Named, Existing
<1>7. \A p \in Admins : NamesKnown(p)'
  <2> SUFFICES ASSUME NEW p \in Admins, editing'[p].at # "idle" PROVE NamesKnown(p)'
    BY DEF NamesKnown
  <2>1. CASE editing'[p].outdated
    BY <2>1, <1>4 DEF NamesKnown
  <2>2. CASE ~editing'[p].outdated
    <3>1. row.name = category[i].name /\ ~editing[p].outdated BY <2>2, <1>4
    <3>2. editing[p].id \in Ids \cup {Keep} BY <1>t DEF Requests
    <3> QED BY <1>4, <1>6, <3>1, <3>2 DEF NamesKnown, NameFree, Existing
  <2> QED BY <2>1, <2>2
<1>8. NamesDoubledOnlyWhenOvertaken'
  <2> SUFFICES ASSUME NEW j \in Existing' \ unchecked', NEW k \in Existing' \ unchecked',
                      j # k
               PROVE  category'[j].name # category'[k].name
    BY DEF NamesDoubledOnlyWhenOvertaken
  <2>0. Existing \subseteq Ids /\ j \in Ids /\ k \in Ids BY <1>3 DEF Existing
  <2>1. CASE row.name = category[i].name
    BY <2>0, <2>1, <1>1, <1>6 DEF NamesDoubledOnlyWhenOvertaken
  <2>2. CASE editing[q].outdated
    <3>1. j # i /\ k # i /\ j \in Existing \ unchecked /\ k \in Existing \ unchecked
      BY <2>2, <1>1, <1>3
    <3> QED BY <3>1, <2>0, <1>1, <1>t DEF NamesDoubledOnlyWhenOvertaken
  <2>3. CASE Named(row.name) \subseteq {i} /\ row.name # category[i].name
             /\ ~editing[q].outdated
    <3>1. unchecked' = unchecked \ {i} BY <2>3, <1>1
    <3>2. ASSUME NEW m \in Existing, m # i PROVE category[m].name # row.name
      BY <2>3, <3>2 DEF Named
    <3> QED BY <2>0, <3>1, <3>2, <1>1, <1>3, <1>t DEF NamesDoubledOnlyWhenOvertaken
  <2> QED BY <2>1, <2>2, <2>3
<1> QED BY <1>5, <1>7, <1>8

\* Every step of an administrator keeps the invariant.
LEMMA CategoriesStep ==
  CategoriesInvariant /\ [CategoriesNext]_categoryVars => CategoriesInvariant'
<1> SUFFICES ASSUME CategoriesInvariant, [CategoriesNext]_categoryVars
             PROVE  CategoriesInvariant'
  OBVIOUS
<1>t. /\ CategoriesTypeOK /\ editing \in [Admins -> Requests]
      /\ category \in [Ids -> Categorised \cup {NoCategory}] /\ Existing \subseteq Ids
      /\ \A q \in Admins : editing[q] \in Requests
  BY DEF CategoriesInvariant, CategoriesTypeOK, Existing
<1>1. ASSUME NEW q \in Admins, NEW n \in Names, NEW g \in Slugs, CheckNewName(q, n, g)
      PROVE  CategoriesInvariant'
  <2> DEFINE x == [at |-> "slug", id |-> Keep, name |-> n, slug |-> g, outdated |-> FALSE]
  <2>1. x \in Requests BY DEF Requests
  <2>2. NamesKnown(q)'
    BY <1>1, <1>t DEF CheckNewName, NamesKnown, Named, Existing
  <2> QED BY <1>1, <2>1, <2>2, OwnRequest DEF CheckNewName
<1>2. ASSUME NEW q \in Admins, NEW i \in Ids, NEW n \in Names \cup {Keep},
             NEW g \in Slugs \cup {Keep}, CheckUpdate(q, i, n, g)
      PROVE  CategoriesInvariant'
  <2> DEFINE x == [at |-> "slug", id |-> i, name |-> n, slug |-> g, outdated |-> FALSE]
  <2>1. x \in Requests BY DEF Requests
  <2>2. NamesKnown(q)'
    BY <1>2, <1>t, KeepAssumption DEF CheckUpdate, NamesKnown, NameFree, Named, Existing
  <2> QED BY <1>2, <2>1, <2>2, OwnRequest DEF CheckUpdate
<1>3. ASSUME NEW q \in Admins, CheckSlug(q) PROVE CategoriesInvariant'
  <2>1. CASE Close(q) BY <2>1, <1>3, RequestClosed DEF CheckSlug
  <2>2. CASE editing' = [editing EXCEPT ![q].at = "write"]
    <3> DEFINE x == [editing[q] EXCEPT !.at = "write"]
    <3>1. /\ x \in Requests /\ x.id = editing[q].id /\ x.name = editing[q].name
          /\ x.slug = editing[q].slug /\ x.outdated = editing[q].outdated
      BY <1>t DEF Requests
    <3>2. editing' = [editing EXCEPT ![q] = x] BY <2>2, <1>t
    <3> HIDE DEF x
    <3>3. editing[q].at # "idle" /\ UNCHANGED <<category, unchecked>>
      BY <1>3 DEF CheckSlug
    <3>4. NamesKnown(q)'
      BY <3>1, <3>2, <3>3, <1>t
      DEF CategoriesInvariant, NamesKnown, NameFree, Named, Existing
    <3> QED BY <3>1, <3>2, <3>3, <3>4, OwnRequest
  <2> QED BY <2>1, <2>2, <1>3 DEF CheckSlug
<1>4. ASSUME NEW q \in Admins, Insert(q) PROVE CategoriesInvariant'
  <2>1. PICK i \in Ids \ Existing :
          Written(q, i, [name |-> editing[q].name, slug |-> editing[q].slug])
    BY <1>4 DEF Insert
  <2>2. /\ editing[q].name \in Names /\ editing[q].slug \in Slugs
        /\ ~editing[q].outdated => Named(editing[q].name) = {}
    BY <1>4 DEF Insert, CategoriesInvariant, NamesKnown
  <2> DEFINE row == [name |-> editing[q].name, slug |-> editing[q].slug]
  <2>3. row \in Categorised /\ row.name = editing[q].name BY <2>2 DEF Categorised
  <2>4. editing[q].outdated \/ Named(row.name) \subseteq {i} BY <2>2, <2>3
  <2> HIDE DEF row
  <2>5. Written(q, i, row) BY <2>1 DEF row
  <2> QED BY <2>3, <2>4, <2>5, RowWritten
<1>5. ASSUME NEW q \in Admins, Update(q) PROVE CategoriesInvariant'
  <2> DEFINE i == editing[q].id
             Or(new, old) == IF new = Keep THEN old ELSE new
             row == [name |-> Or(editing[q].name, category[i].name),
                     slug |-> Or(editing[q].slug, category[i].slug)]
  <2>1. i \in Existing /\ Written(q, i, row) /\ editing[q].at = "write"
    BY <1>5 DEF Update
  <2>2. category[i] \in Categorised /\ i \in Ids /\ i # Keep
    BY <2>1, <1>t, RowsOfExisting, KeepAssumption
  <2>3. row \in Categorised /\ row.name = Or(editing[q].name, category[i].name)
    BY <2>2, <1>t DEF Requests, Categorised
  <2>4. editing[q].outdated \/ NameFree(i, editing[q].name)
    BY <2>1, <2>2 DEF CategoriesInvariant, NamesKnown
  <2>5. editing[q].outdated \/ row.name = category[i].name \/ Named(row.name) \subseteq {i}
    BY <2>3, <2>4 DEF NameFree
  <2> HIDE DEF row, i
  <2> QED BY <2>1, <2>2, <2>3, <2>5, RowWritten
<1>6. ASSUME NEW q \in Admins, WriteFails(q) PROVE CategoriesInvariant'
  BY <1>6, RequestClosed DEF WriteFails
<1>7. ASSUME NEW i \in Ids, Remove(i) PROVE CategoriesInvariant'
  <2>1. /\ category' = [category EXCEPT ![i] = NoCategory]
        /\ unchecked' = unchecked \ {i} /\ UNCHANGED editing
    BY <1>7 DEF Remove
  <2>2. Existing' = Existing \ {i} BY <2>1, <1>t DEF Existing
  <2>3. \A n : Named(n)' \subseteq Named(n) BY <2>1, <2>2, <1>t DEF Named
  <2>4. CategoriesTypeOK' BY <2>1, <2>2, <1>t DEF CategoriesTypeOK
  <2>5. ASSUME NEW q \in Admins PROVE NamesKnown(q)'
    <3>1. CASE editing[q].id = Keep
      BY <2>1, <2>3, <3>1 DEF CategoriesInvariant, NamesKnown
    <3>2. CASE editing[q].id # Keep /\ editing[q].id \in Existing'
      <4>1. editing[q].id # i /\ category'[editing[q].id] = category[editing[q].id]
        BY <2>1, <2>2, <3>2, <1>t
      <4> QED
        BY <2>1, <2>2, <2>3, <3>2, <4>1 DEF CategoriesInvariant, NamesKnown, NameFree
    <3> QED BY <2>1, <3>1, <3>2 DEF NamesKnown
  <2>6. NamesDoubledOnlyWhenOvertaken'
    BY <2>1, <2>2, <1>t DEF CategoriesInvariant, NamesDoubledOnlyWhenOvertaken
  <2> QED BY <2>4, <2>5, <2>6 DEF CategoriesInvariant
<1>8. CASE UNCHANGED categoryVars
  BY <1>8 DEF categoryVars, CategoriesInvariant, CategoriesTypeOK, NamesKnown,
              NamesDoubledOnlyWhenOvertaken, NameFree, Named, Existing
<1> QED
  BY <1>1, <1>2, <1>3, <1>4, <1>5, <1>6, <1>7, <1>8 DEF CategoriesNext

\* Two categories have one name only if a request that another had overtaken
\* wrote one of them (create and update ask for the name before they write).
THEOREM NamesKeptApart == CategoriesSpec => []NamesDoubledOnlyWhenOvertaken
<1>1. CategoriesInit => CategoriesInvariant
  <2> SUFFICES ASSUME CategoriesInit PROVE CategoriesInvariant OBVIOUS
  <2>1. Existing = {} /\ CategoriesTypeOK
    BY NoRequestTyped DEF CategoriesInit, Existing, CategoriesTypeOK
  <2>2. ASSUME NEW q \in Admins PROVE NamesKnown(q)
    BY NoRequestTyped DEF CategoriesInit, NamesKnown
  <2> QED BY <2>1, <2>2 DEF CategoriesInvariant, NamesDoubledOnlyWhenOvertaken
<1>2. CategoriesInvariant => NamesDoubledOnlyWhenOvertaken BY DEF CategoriesInvariant
<1> QED BY <1>1, <1>2, CategoriesStep, PTL DEF CategoriesSpec
-----------------------------------------------------------------------------
(***************************************************************************)
(* Marketing.  The rows a reorder has updated are locked by it, and a row  *)
(* that is locked is there: so when it commits, its whole list is renumbered. *)
(***************************************************************************)
Renumberings == {s \in Seq(Items) : Len(s) <= MaxOrder + 1}

Writes ==
  [at : {"idle", "insert", "reorder"}, list : Renumberings, done : Nat,
   order : Nat, overtaken : BOOLEAN]

MarketingTypeOK ==
  /\ order \in [Items -> Numbers \cup {Gone}]
  /\ last \in [Items -> Numbers \cup {Gone}]
  /\ lock \in [Items -> Writers \cup {Free}]
  /\ writer \in [Writers -> Writes]
  /\ arbitrary \subseteq Rows

\* The locks are those of the updates the open reorders have made.
LocksAreUpdates ==
  /\ \A i \in Items : lock[i] # Free => i \in Rows
  /\ \A i \in Items, w \in Writers :
       lock[i] = w <=>
         /\ writer[w].at = "reorder"
         /\ \E k \in 1 .. writer[w].done : k <= Len(writer[w].list) /\ writer[w].list[k] = i

\* What a create or a reorder found out holds until another overtakes it.
WriteKnown(w) ==
  /\ writer[w].at = "insert" => /\ writer[w].order \in Numbers
                                /\ ~writer[w].overtaken =>
                                     \A i \in Rows : order[i] < writer[w].order
  /\ writer[w].at = "reorder" /\ ~writer[w].overtaken =>
       Rows \subseteq {writer[w].list[k] : k \in DOMAIN writer[w].list}

MarketingInvariant ==
  /\ MarketingTypeOK
  /\ LocksAreUpdates
  /\ \A w \in Writers : WriteKnown(w)
  /\ \A i \in Items \ Rows : last[i] = Gone
  /\ LastReorderStands
  /\ TiesOnlyWhenOvertaken

\* The lists a reorder may be given fit into the order numbers.
LEMMA ListsTyped ==
  ASSUME NEW s \in Lists
  PROVE  s \in Renumberings
<1>1. PICK n \in 0 .. Cardinality(Items) : s \in [1 .. n -> Items]
  BY DEF Lists
<1>2. Cardinality(Items) \in Nat BY OrderAssumption, FS_CardinalityType
<1>3. n \in Nat /\ n <= MaxOrder + 1 BY <1>2, OrderAssumption
<1>4. s \in Seq(Items) BY <1>1, <1>3, SeqDef
<1> QED BY <1>1, <1>3, <1>4 DEF Renumberings

\* A write that is over is a write.
LEMMA NoWriteTyped == NoWrite \in Writes /\ NoWrite.at = "idle" /\ NoWrite.done = 0
BY EmptySeq, OrderAssumption DEF NoWrite, Writes, Renumberings

\* There is a highest of finitely many numbers.
LEMMA HighestExists ==
  ASSUME NEW S \in SUBSET Numbers, S # {}
  PROVE  \E n \in S : \A m \in S : m <= n
<1> DEFINE T == {MaxOrder - n : n \in S}
<1>0. \A n \in S : n \in Nat /\ n <= MaxOrder /\ MaxOrder - n \in Nat
  BY OrderAssumption DEF Numbers
<1>1. T \subseteq Nat /\ T # {} BY <1>0
<1>2. PICK x \in T : \A y \in T : <<y, x>> \notin OpToRel(<, Nat)
  <2> HIDE DEF T
  <2> QED BY <1>1, NatLessThanWellFounded, WFMin
<1>3. PICK n \in S : x = MaxOrder - n OBVIOUS
<1>4. ASSUME NEW m \in S PROVE m <= n
  <2>1. MaxOrder - m \in T /\ ~(MaxOrder - m < x)
    BY <1>1, <1>2 DEF OpToRel
  <2> QED BY <2>1, <1>0, <1>3, OrderAssumption
<1> QED BY <1>4

\* findFirst finds the highest row: the next order is above all.
LEMMA NextOrderAbove ==
  ASSUME MarketingTypeOK, NEW i \in Rows
  PROVE  order[i] < NextOrder
<1> DEFINE S == {order[j] : j \in Rows}
           Highest(n) == (\E j \in Rows : order[j] = n) /\ (\A j \in Rows : order[j] <= n)
<1>1. S \subseteq Numbers /\ S # {} BY DEF MarketingTypeOK, Rows
<1>2. \E n \in Numbers : Highest(n)
  <2>1. PICK n \in S : \A m \in S : m <= n BY <1>1, HighestExists
  <2> QED BY <1>1, <2>1
<1>3. NextOrder = 1 + CHOOSE n \in Numbers : Highest(n) BY DEF NextOrder
<1>4. (CHOOSE n \in Numbers : Highest(n)) \in Numbers
      /\ Highest(CHOOSE n \in Numbers : Highest(n))
  <2> HIDE DEF Highest
  <2> QED BY <1>2
<1> DEFINE high == CHOOSE n \in Numbers : Highest(n)
<1>5. high \in Numbers /\ order[i] <= high BY <1>4
<1>6. order[i] \in Numbers /\ NextOrder = 1 + high BY <1>1, <1>3
<1> HIDE DEF high
<1> QED BY <1>5, <1>6, OrderAssumption DEF Numbers
\* A step that changes nothing of the rows, one write's record and its locks.
LEMMA OwnWrite ==
  ASSUME MarketingInvariant, NEW w \in Writers, NEW x \in Writes,
         writer' = [writer EXCEPT ![w] = x], UNCHANGED <<order, arbitrary, last>>,
         lock' \in [Items -> Writers \cup {Free}], LocksAreUpdates', WriteKnown(w)'
  PROVE  MarketingInvariant'
<1> USE DEF MarketingInvariant
<1>1. Rows' = Rows BY DEF Rows
<1>2. ASSUME NEW v \in Writers, v # w PROVE WriteKnown(v)'
  BY <1>1, <1>2 DEF MarketingTypeOK, WriteKnown
<1>3. MarketingTypeOK' BY <1>1 DEF MarketingTypeOK
<1> QED
  BY <1>1, <1>2, <1>3 DEF LastReorderStands, TiesOnlyWhenOvertaken

\* The locks stay as they are while nobody's updates change, and no row goes
\* that is locked.
LEMMA LocksKept ==
  ASSUME MarketingTypeOK, LocksAreUpdates, UNCHANGED lock,
         \A i \in Items : lock[i] # Free /\ i \in Rows => i \in Rows',
         \A w \in Writers :
           \/ /\ writer'[w].at = writer[w].at /\ writer'[w].list = writer[w].list
              /\ writer'[w].done = writer[w].done
           \/ writer[w].at # "reorder" /\ (writer'[w].at # "reorder" \/ writer'[w].done = 0)
  PROVE  LocksAreUpdates'
<1>1. ASSUME NEW i \in Items, NEW w \in Writers
      PROVE  lock'[i] = w <=>
               /\ writer'[w].at = "reorder"
               /\ \E k \in 1 .. writer'[w].done :
                    k <= Len(writer'[w].list) /\ writer'[w].list[k] = i
  BY DEF LocksAreUpdates
<1> QED BY <1>1 DEF LocksAreUpdates

\* Commit or abort: the locks of one write go, the others' stay.
LEMMA LocksReleased ==
  ASSUME MarketingTypeOK, LocksAreUpdates, NEW w \in Writers,
         lock' = Unlocked(w), Rows' = Rows, writer'[w].at = "idle",
         \A v \in Writers \ {w} :
           /\ writer'[v].at = writer[v].at /\ writer'[v].list = writer[v].list
           /\ writer'[v].done = writer[v].done
  PROVE  lock' \in [Items -> Writers \cup {Free}] /\ LocksAreUpdates'
<1>1. ASSUME NEW i \in Items PROVE lock'[i] = IF lock[i] = w THEN Free ELSE lock[i]
  BY DEF Unlocked
<1>2. lock' \in [Items -> Writers \cup {Free}]
  BY DEF Unlocked, MarketingTypeOK
<1>3. ASSUME NEW i \in Items, NEW v \in Writers
      PROVE  lock'[i] = v <=>
               /\ writer'[v].at = "reorder"
               /\ \E k \in 1 .. writer'[v].done :
                    k <= Len(writer'[v].list) /\ writer'[v].list[k] = i
  <2>1. CASE v = w BY <2>1, <1>1, OrderAssumption
  <2>2. CASE v # w
    <3>1. lock'[i] = v <=> lock[i] = v BY <2>2, <1>1, OrderAssumption
    <3> QED BY <2>2, <3>1 DEF LocksAreUpdates
  <2> QED BY <2>1, <2>2
<1>4. ASSUME NEW i \in Items, lock'[i] # Free PROVE i \in Rows'
  BY <1>1, <1>4 DEF LocksAreUpdates
<1> QED BY <1>2, <1>3, <1>4 DEF LocksAreUpdates

\* What Overtake leaves of the others.
LEMMA Overtaking ==
  ASSUME MarketingTypeOK, NEW w \in Writers, NEW stages, writer' = Overtake(w, stages)
  PROVE  /\ writer' \in [Writers -> Writes] /\ writer'[w] = NoWrite
         /\ \A v \in Writers \ {w} :
              /\ writer'[v].at = writer[v].at /\ writer'[v].list = writer[v].list
              /\ writer'[v].done = writer[v].done /\ writer'[v].order = writer[v].order
              /\ writer'[v].overtaken <=> writer[v].overtaken \/ writer[v].at \in stages
<1>1. writer'[w] = NoWrite BY DEF Overtake
<1>2. ASSUME NEW v \in Writers, v # w
      PROVE  /\ writer'[v] \in Writes
             /\ writer'[v].at = writer[v].at /\ writer'[v].list = writer[v].list
             /\ writer'[v].done = writer[v].done /\ writer'[v].order = writer[v].order
             /\ writer'[v].overtaken <=> writer[v].overtaken \/ writer[v].at \in stages
  <2>1. writer'[v] = [writer[v] EXCEPT !.overtaken = @ \/ writer[v].at \in stages]
    BY <1>2 DEF Overtake
  <2>2. writer[v] \in Writes BY DEF MarketingTypeOK
  <2>3. (writer[v].overtaken \/ writer[v].at \in stages) \in BOOLEAN BY <2>2 DEF Writes
  <2> QED BY <2>1, <2>2, <2>3 DEF Writes
<1> QED BY <1>1, <1>2, NoWriteTyped DEF Overtake

-----------------------------------------------------------------------------
(* Creating a row, and changing or removing one by itself. *)
LEMMA RowsOneByOne ==
  ASSUME MarketingInvariant,
         \/ \E w \in Writers : ReadNextOrder(w) \/ CreateRow(w)
         \/ \E i \in Items : RemoveRow(i) \/ \E n \in Numbers : SetOrder(i, n)
  PROVE  MarketingInvariant'
<1> USE DEF MarketingInvariant
<1>t. /\ MarketingTypeOK /\ order \in [Items -> Numbers \cup {Gone}]
      /\ last \in [Items -> Numbers \cup {Gone}]
      /\ writer \in [Writers -> Writes] /\ \A w \in Writers : writer[w] \in Writes
      /\ Rows \subseteq Items /\ \A n \in Numbers : n \in Nat /\ n # Gone
  BY OrderAssumption DEF MarketingTypeOK, Rows, Numbers, Gone
<1>1. ASSUME NEW w \in Writers, ReadNextOrder(w) PROVE MarketingInvariant'
  <2> DEFINE x == [writer[w] EXCEPT !.at = "insert", !.order = NextOrder]
  <2>1. /\ writer' = [writer EXCEPT ![w] = x] /\ writer[w] = NoWrite
        /\ NextOrder \in Numbers /\ UNCHANGED <<order, lock, arbitrary, last>>
    BY <1>1, <1>t DEF ReadNextOrder
  <2>2. x \in Writes /\ x.at = "insert" /\ x.order = NextOrder
    BY <2>1, <1>t DEF Writes
  <2> HIDE DEF x
  <2>3. writer'[w] = x /\ \A v \in Writers \ {w} : writer'[v] = writer[v]
    BY <2>1, <1>t
  <2>4. Rows' = Rows BY <2>1 DEF Rows
  <2>5. LocksAreUpdates'
    BY <2>1, <2>2, <2>3, <2>4, LocksKept, NoWriteTyped
  <2>6. WriteKnown(w)'
    BY <2>1, <2>2, <2>3, <2>4, <1>t, NextOrderAbove DEF WriteKnown
  <2> QED BY <2>1, <2>2, <2>5, <2>6, OwnWrite DEF MarketingTypeOK
<1>2. ASSUME NEW w \in Writers, CreateRow(w) PROVE MarketingInvariant'
  <2>1. PICK i \in Items \ Rows :
          /\ order' = [order EXCEPT ![i] = writer[w].order]
          /\ arbitrary' = IF writer[w].overtaken THEN arbitrary \cup {i} ELSE arbitrary
    BY <1>2 DEF CreateRow
  <2>2. /\ writer[w].at = "insert" /\ writer' = Overtake(w, {"insert", "reorder"})
        /\ UNCHANGED <<lock, last>> /\ writer[w].order \in Numbers
        /\ ~writer[w].overtaken => \A j \in Rows : order[j] < writer[w].order
    BY <1>2 DEF CreateRow, WriteKnown
  <2>3. Rows' = Rows \cup {i} BY <2>1, <2>2, <1>t DEF Rows
  <2>4. MarketingTypeOK'
    <3>1. writer' \in [Writers -> Writes] BY <2>2, Overtaking
    <3>2. arbitrary' \subseteq Rows' BY <2>1, <2>3 DEF MarketingTypeOK
    <3>3. order' \in [Items -> Numbers \cup {Gone}] BY <2>1, <2>2, <1>t
    <3> QED BY <2>2, <3>1, <3>2, <3>3 DEF MarketingTypeOK
  <2>5. LocksAreUpdates' BY <2>2, <2>3, Overtaking, NoWriteTyped, LocksKept
  <2>6. ASSUME NEW v \in Writers PROVE WriteKnown(v)'
    <3>1. CASE v = w BY <3>1, <2>2, Overtaking, NoWriteTyped DEF WriteKnown
    <3>2. CASE v # w
      <4>1. /\ writer'[v].at = writer[v].at /\ writer'[v].order = writer[v].order
            /\ writer[v].at \in {"insert", "reorder"} => writer'[v].overtaken
        BY <3>2, <2>2, Overtaking
      <4> QED BY <4>1 DEF WriteKnown
    <3> QED BY <3>1, <3>2
  <2>7. LastReorderStands' /\ \A j \in Items \ Rows' : last'[j] = Gone
    BY <2>1, <2>2, <2>3, <1>t DEF LastReorderStands
  <2>8. TiesOnlyWhenOvertaken'
    <3> SUFFICES ASSUME NEW j \in Rows' \ arbitrary', NEW k \in Rows' \ arbitrary', j # k
                 PROVE  order'[j] # order'[k]
      BY DEF TiesOnlyWhenOvertaken
    <3>1. CASE writer[w].overtaken
      BY <3>1, <2>1, <2>3, <1>t DEF TiesOnlyWhenOvertaken
    <3>2. CASE ~writer[w].overtaken
      <4>1. \A m \in Rows : order'[m] = order[m] /\ order[m] \in Numbers
            /\ order[m] < writer[w].order /\ order[m] # writer[w].order
        BY <2>1, <2>2, <3>2, <1>t DEF Rows
      <4>2. order'[i] = writer[w].order BY <2>1, <1>t
      <4> QED
        BY <4>1, <4>2, <2>1, <2>3, <3>2 DEF TiesOnlyWhenOvertaken
    <3> QED BY <3>1, <3>2
  <2> QED BY <2>4, <2>5, <2>6, <2>7, <2>8
<1>3. ASSUME NEW i \in Items, RemoveRow(i) PROVE MarketingInvariant'
  <2>1. /\ i \in Rows /\ lock[i] = Free /\ order' = [order EXCEPT ![i] = Gone]
        /\ arbitrary' = arbitrary \ {i} /\ last' = [last EXCEPT ![i] = Gone]
        /\ UNCHANGED <<lock, writer>>
    BY <1>3 DEF RemoveRow
  <2>2. Rows' = Rows \ {i} BY <2>1, <1>t DEF Rows
  <2>3. MarketingTypeOK' BY <2>1, <2>2, <1>t DEF MarketingTypeOK
  <2>4. LocksAreUpdates' BY <2>1, <2>2, LocksKept
  <2>5. ASSUME NEW v \in Writers PROVE WriteKnown(v)'
    <3>1. \A j \in Rows' : j \in Rows /\ order'[j] = order[j] BY <2>1, <2>2, <1>t
    <3> QED BY <2>1, <2>2, <3>1 DEF WriteKnown
  <2>6. LastReorderStands' /\ \A j \in Items \ Rows' : last'[j] = Gone
    BY <2>1, <2>2, <1>t DEF LastReorderStands
  <2>7. TiesOnlyWhenOvertaken' BY <2>1, <2>2, <1>t DEF TiesOnlyWhenOvertaken
  <2> QED BY <2>3, <2>4, <2>5, <2>6, <2>7
<1>4. ASSUME NEW i \in Items, NEW n \in Numbers, SetOrder(i, n) PROVE MarketingInvariant'
  <2>1. /\ lock[i] = Free /\ order' = [order EXCEPT ![i] = n]
        /\ arbitrary' = arbitrary \cup {i} /\ last' = [last EXCEPT ![i] = Gone]
        /\ UNCHANGED lock
    BY <1>4 DEF SetOrder
  <2>2. Rows' = Rows \cup {i} BY <2>1, <1>t DEF Rows
  <2>3. ASSUME NEW v \in Writers
        PROVE  /\ writer'[v] \in Writes /\ writer'[v].at = writer[v].at
               /\ writer'[v].list = writer[v].list /\ writer'[v].done = writer[v].done
               /\ writer'[v].order = writer[v].order
               /\ writer[v].at = "insert" => writer'[v].overtaken
               /\ writer[v].at = "reorder" /\ ~writer'[v].overtaken =>
                    ~writer[v].overtaken /\ order[i] # Gone
    <3>1. writer'[v] = [writer[v] EXCEPT
       !.overtaken = @ \/ writer[v].at = "insert" \/ (order[i] = Gone /\ writer[v].at = "reorder")]
      BY <1>4 DEF SetOrder
    <3> QED BY <3>1, <1>t DEF Writes
  <2>4. MarketingTypeOK'
    <3>1. writer' \in [Writers -> Writes] BY <1>4, <2>3 DEF SetOrder
    <3> QED BY <3>1, <2>1, <2>2, <1>t DEF MarketingTypeOK
  <2>5. LocksAreUpdates' BY <2>1, <2>2, <2>3, LocksKept
  <2>6. ASSUME NEW v \in Writers PROVE WriteKnown(v)'
    <3>1. order[i] # Gone => Rows' = Rows BY <2>2 DEF Rows
    <3> QED BY <2>3, <3>1 DEF WriteKnown
  <2>7. LastReorderStands' /\ \A j \in Items \ Rows' : last'[j] = Gone
    BY <2>1, <2>2, <1>t DEF LastReorderStands
  <2>8. TiesOnlyWhenOvertaken' BY <2>1, <2>2, <1>t DEF TiesOnlyWhenOvertaken
  <2> QED BY <2>4, <2>5, <2>6, <2>7, <2>8
<1> QED BY <1>1, <1>2, <1>3, <1>4
-----------------------------------------------------------------------------
(* Reordering. *)
LEMMA Reorders ==
  ASSUME MarketingInvariant, NEW w \in Writers,
         \/ \E s \in Lists : CheckList(w, s)
         \/ UpdateNext(w) \/ CommitOrder(w) \/ AbortOrder(w)
  PROVE  MarketingInvariant'
<1> USE DEF MarketingInvariant
<1>t. /\ MarketingTypeOK /\ order \in [Items -> Numbers \cup {Gone}]
      /\ lock \in [Items -> Writers \cup {Free}]
      /\ writer \in [Writers -> Writes] /\ writer[w] \in Writes
      /\ \A n \in Numbers : n \in Nat /\ n # Gone
  BY OrderAssumption DEF MarketingTypeOK, Numbers, Gone
<1>1. ASSUME NEW s \in Lists, CheckList(w, s) PROVE MarketingInvariant'
  <2> DEFINE x == [writer[w] EXCEPT !.at = "reorder", !.list = s]
  <2>1. /\ writer' = [writer EXCEPT ![w] = x] /\ writer[w] = NoWrite
        /\ SameRows(s) /\ UNCHANGED <<order, lock, arbitrary, last>>
    BY <1>1, <1>t DEF CheckList
  <2>2. x \in Writes /\ x.at = "reorder" /\ x.list = s /\ x.done = 0
    BY <2>1, <1>t, ListsTyped, NoWriteTyped DEF Writes
  <2> HIDE DEF x
  <2>3. writer'[w] = x /\ \A v \in Writers \ {w} : writer'[v] = writer[v]
    BY <2>1, <1>t
  <2>4. Rows' = Rows BY <2>1 DEF Rows
  <2>5. LocksAreUpdates' BY <2>1, <2>2, <2>3, <2>4, LocksKept, NoWriteTyped
  <2>6. WriteKnown(w)' BY <2>1, <2>2, <2>3, <2>4 DEF WriteKnown, SameRows
  <2> QED BY <2>1, <2>2, <2>5, <2>6, OwnWrite, <1>t
<1>2. CASE UpdateNext(w)
  <2> DEFINE i == writer[w].list[writer[w].done + 1]
             x == [writer[w] EXCEPT !.done = @ + 1]
  <2>1. /\ writer[w].at = "reorder" /\ writer[w].done < Len(writer[w].list)
        /\ i \in Rows /\ lock[i] = Free /\ lock' = [lock EXCEPT ![i] = w]
        /\ writer' = [writer EXCEPT ![w] = x] /\ UNCHANGED <<order, arbitrary, last>>
    BY <1>2, <1>t DEF UpdateNext
  <2>2. /\ x \in Writes /\ x.at = "reorder" /\ x.list = writer[w].list
        /\ x.done = writer[w].done + 1 /\ x.overtaken = writer[w].overtaken
        /\ writer[w].done \in Nat /\ writer[w].list \in Seq(Items)
    <3>1. writer[w].done \in Nat /\ writer[w].done + 1 \in Nat BY <1>t DEF Writes
    <3>2. writer[w].list \in Seq(Items) BY <1>t DEF Writes, Renumberings
    <3> QED BY <2>1, <3>1, <3>2, <1>t DEF Writes
  <2>3. writer'[w] = x /\ \A v \in Writers \ {w} : writer'[v] = writer[v]
    BY <2>1, <1>t
  <2>4. Rows' = Rows /\ i \in Items BY <2>1 DEF Rows
  <2>5. \A j \in Items : lock'[j] = IF j = i THEN w ELSE lock[j]
    BY <2>1, <2>4, <1>t
  <2>6. ASSUME NEW j \in Items
        PROVE  (\E k \in 1 .. x.done : k <= Len(x.list) /\ x.list[k] = j) <=>
                 \/ j = i
                 \/ \E k \in 1 .. writer[w].done :
                      k <= Len(writer[w].list) /\ writer[w].list[k] = j
    <3>1. \A k : k \in 1 .. x.done <=> k \in 1 .. writer[w].done \/ k = writer[w].done + 1
      BY <2>2
    <3>2. Len(x.list) \in Nat BY <2>2, LenProperties
    <3>3. writer[w].done + 1 <= Len(x.list) BY <2>1, <2>2, <3>2
    <3> HIDE DEF x
    <3> QED BY <2>2, <3>1, <3>3
  <2> HIDE DEF x, i
  <2>7. ASSUME NEW j \in Items, NEW v \in Writers
        PROVE  lock'[j] = v <=>
                 /\ writer'[v].at = "reorder"
                 /\ \E k \in 1 .. writer'[v].done :
                      k <= Len(writer'[v].list) /\ writer'[v].list[k] = j
    <3>1. CASE v = w
      <4>1. lock'[j] = w <=> j = i \/ lock[j] = w BY <2>5
      <4>2. lock[j] = w <=> \E k \in 1 .. writer[w].done :
                              k <= Len(writer[w].list) /\ writer[w].list[k] = j
        BY <2>1 DEF LocksAreUpdates
      <4>3. writer'[v] = x /\ x.at = "reorder" BY <3>1, <2>2, <2>3
      <4> QED BY <3>1, <4>1, <4>2, <4>3, <2>6
    <3>2. CASE v # w
      <4>1. lock'[j] = v <=> lock[j] = v
        BY <3>2, <2>1, <2>5, OrderAssumption
      <4> QED BY <3>2, <4>1, <2>3 DEF LocksAreUpdates
    <3> QED BY <3>1, <3>2
  <2>8. LocksAreUpdates'
    BY <2>1, <2>4, <2>5, <2>7 DEF LocksAreUpdates
  <2>9. WriteKnown(w)' BY <2>1, <2>2, <2>3, <2>4 DEF WriteKnown
  <2> QED BY <2>1, <2>2, <2>4, <2>8, <2>9, <1>t, OwnWrite
<1>3. CASE CommitOrder(w)
  <2> DEFINE s == writer[w].list
             Position(i) == (CHOOSE k \in DOMAIN s : s[k] = i) - 1
             Listed(i) == \E k \in DOMAIN s : s[k] = i
  <2>1. /\ writer[w].at = "reorder" /\ writer[w].done = Len(s)
        /\ order' = [i \in Items |-> IF lock[i] = w THEN Position(i) ELSE order[i]]
        /\ arbitrary' = IF writer[w].overtaken THEN Rows ELSE {}
        /\ last' = [i \in Items |-> IF Listed(i) THEN Position(i) ELSE Gone]
        /\ lock' = Unlocked(w) /\ writer' = Overtake(w, {"insert"})
    BY <1>3 DEF CommitOrder
  <2>2. s \in Seq(Items) /\ Len(s) <= MaxOrder + 1 /\ Len(s) \in Nat
        /\ DOMAIN s = 1 .. Len(s)
    BY <1>t, LenProperties DEF Writes, Renumberings
  <2>3. ASSUME NEW i \in Items, Listed(i)
        PROVE  Position(i) \in Numbers /\ s[Position(i) + 1] = i
    <3> DEFINE k == CHOOSE k \in DOMAIN s : s[k] = i
    <3>1. k \in DOMAIN s /\ s[k] = i BY <2>3
    <3> HIDE DEF k
    <3>2. k - 1 \in Numbers /\ (k - 1) + 1 = k
      BY <3>1, <2>2, OrderAssumption DEF Numbers
    <3> QED BY <3>1, <3>2 DEF k
  <2> HIDE DEF Position
  <2>4. ASSUME NEW i \in Items PROVE Listed(i) <=> lock[i] = w
    BY <2>1, <2>2 DEF LocksAreUpdates
  <2>5. \A i \in Items : Listed(i) => i \in Rows
    BY <2>4, OrderAssumption DEF LocksAreUpdates
  <2> HIDE DEF Listed
  <2>6. /\ \A i \in Items : order'[i] = IF Listed(i) THEN Position(i) ELSE order[i]
        /\ \A i \in Items : last'[i] = IF Listed(i) THEN Position(i) ELSE Gone
    BY <2>1, <2>4
  <2>7. Rows' = Rows
    BY <2>3, <2>5, <2>6, <1>t DEF Rows
  <2>8. /\ writer' \in [Writers -> Writes] /\ writer'[w] = NoWrite
        /\ \A v \in Writers \ {w} :
              /\ writer'[v].at = writer[v].at /\ writer'[v].list = writer[v].list
              /\ writer'[v].done = writer[v].done /\ writer'[v].order = writer[v].order
              /\ writer'[v].overtaken <=> writer[v].overtaken \/ writer[v].at = "insert"
    BY <2>1, Overtaking
  <2>9. lock' \in [Items -> Writers \cup {Free}] /\ LocksAreUpdates'
    BY <2>1, <2>7, <2>8, LocksReleased, NoWriteTyped
  <2>10. MarketingTypeOK'
    <3>1. order' \in [Items -> Numbers \cup {Gone}] BY <2>1, <2>3, <2>4, <1>t
    <3>2. last' \in [Items -> Numbers \cup {Gone}] BY <2>1, <2>3
    <3> QED BY <3>1, <3>2, <2>1, <2>7, <2>8, <2>9 DEF MarketingTypeOK
  <2>11. ASSUME NEW v \in Writers PROVE WriteKnown(v)'
    <3>1. CASE v = w BY <3>1, <2>8, NoWriteTyped DEF WriteKnown
    <3>2. CASE v # w BY <3>2, <2>7, <2>8 DEF WriteKnown
    <3> QED BY <3>1, <3>2
  <2>12. LastReorderStands' /\ \A i \in Items \ Rows' : last'[i] = Gone
    <3>1. Rows' \subseteq Items BY DEF Rows
    <3> QED BY <3>1, <2>5, <2>6, <2>7 DEF LastReorderStands
  <2>13. TiesOnlyWhenOvertaken'
    <3> SUFFICES ASSUME NEW i \in Rows' \ arbitrary', NEW j \in Rows' \ arbitrary', i # j
                 PROVE  order'[i] # order'[j]
      BY DEF TiesOnlyWhenOvertaken
    <3>1. ~writer[w].overtaken BY <2>1, <2>7
    <3>2. i \in Items /\ j \in Items BY DEF Rows
    <3>3. Listed(i) /\ Listed(j)
      BY <2>1, <2>7, <3>1, <3>2 DEF WriteKnown, Listed
    <3> QED BY <2>3, <2>6, <3>2, <3>3
  <2> QED BY <2>9, <2>10, <2>11, <2>12, <2>13
<1>4. CASE AbortOrder(w)
  <2>1. /\ lock' = Unlocked(w) /\ writer' = [writer EXCEPT ![w] = NoWrite]
        /\ UNCHANGED <<order, arbitrary, last>>
    BY <1>4 DEF AbortOrder
  <2>2. writer'[w] = NoWrite /\ \A v \in Writers \ {w} : writer'[v] = writer[v]
    BY <2>1, <1>t
  <2>3. Rows' = Rows BY <2>1 DEF Rows
  <2>4. lock' \in [Items -> Writers \cup {Free}] /\ LocksAreUpdates'
    BY <2>1, <2>2, <2>3, LocksReleased, NoWriteTyped
  <2>5. WriteKnown(w)' BY <2>2, NoWriteTyped DEF WriteKnown
  <2> QED BY <2>1, <2>4, <2>5, OwnWrite, NoWriteTyped
<1> QED BY <1>1, <1>2, <1>3, <1>4

\* Every step of a writer keeps the invariant.
LEMMA MarketingStep ==
  MarketingInvariant /\ [MarketingNext]_marketingVars => MarketingInvariant'
<1> SUFFICES ASSUME MarketingInvariant, [MarketingNext]_marketingVars
             PROVE  MarketingInvariant'
  OBVIOUS
<1>1. CASE UNCHANGED marketingVars
  BY <1>1 DEF marketingVars, MarketingInvariant, MarketingTypeOK, LocksAreUpdates,
              WriteKnown, LastReorderStands, TiesOnlyWhenOvertaken, Rows
<1> QED BY <1>1, RowsOneByOne, Reorders DEF MarketingNext

\* The invariant holds throughout.
LEMMA MarketingInductive == MarketingSpec => []MarketingInvariant
<1>1. MarketingInit => MarketingInvariant
  <2> SUFFICES ASSUME MarketingInit PROVE MarketingInvariant OBVIOUS
  <2>1. Rows = {} BY DEF MarketingInit, Rows
  <2>2. MarketingTypeOK
    BY <2>1, NoWriteTyped DEF MarketingInit, MarketingTypeOK
  <2>3. LocksAreUpdates
    BY NoWriteTyped, OrderAssumption DEF MarketingInit, LocksAreUpdates
  <2>4. ASSUME NEW w \in Writers PROVE WriteKnown(w)
    BY NoWriteTyped DEF MarketingInit, WriteKnown
  <2> QED
    BY <2>1, <2>2, <2>3, <2>4
    DEF MarketingInit, MarketingInvariant, LastReorderStands, TiesOnlyWhenOvertaken
<1> QED BY <1>1, MarketingStep, PTL DEF MarketingSpec

\* The rows a reorder named keep the positions it gave them until they are
\* numbered one by one, however many reorders overlap (ReorderHelper: the
\* transaction's updates lock row after row).
THEOREM ReorderStands == MarketingSpec => []LastReorderStands
<1>1. MarketingInvariant => LastReorderStands BY DEF MarketingInvariant
<1> QED BY <1>1, MarketingInductive, PTL

\* Rows tie only where a request numbered one on an order another had changed,
\* or the caller chose it (create's findFirst and INSERT are two statements).
THEOREM TiesExplained == MarketingSpec => []TiesOnlyWhenOvertaken
<1>1. MarketingInvariant => TiesOnlyWhenOvertaken BY DEF MarketingInvariant
<1> QED BY <1>1, MarketingInductive, PTL
-----------------------------------------------------------------------------
(***************************************************************************)
(* Discovery.  The editors of these tables write first, and the position   *)
(* at which they delete the page is known: a DEL for the categories, a     *)
(* SCAN and the UNLINK of what it found for lists and details.             *)
(***************************************************************************)
WritesFirst ==
  \/ page = "categories:all"
  \/ page \in {"paths:list", "courses:list"} /\ source \in TagCounts
  \/ source \in PathMarketing \cup CourseMarketing

DeletedAt ==
  CASE page \in {"categories:all", "paths:list"} /\ source \in {"category"} \cup TagCounts -> 2
    [] page = "courses:list" -> 4
    [] OTHER -> 5

\* The program p of an editor writes, and then deletes key k at position d: at
\* once, or by a scan and an unlink.
WriteThenDelete(p, k, d) ==
  /\ Len(p) \in Nat /\ DOMAIN p = 1 .. Len(p) /\ d \in 2 .. Len(p) /\ p[1] = Write
  /\ \A i \in 2 .. Len(p) : p[i] # Write
  /\ \A i \in 1 .. d - 1 : p[i].key # k
  /\ \/ p[d] = Del(k)
     \/ /\ d + 1 <= Len(p) /\ p[d].op = "scan" /\ p[d].key = k
        /\ p[d + 1].op = "unlink" /\ p[d + 1].key = k
\* Two sequences joined, element by element.
LEMMA Joined ==
  ASSUME NEW S, NEW s \in Seq(S), NEW t \in Seq(S)
  PROVE  /\ s \o t \in Seq(S) /\ Len(s \o t) = Len(s) + Len(t)
         /\ \A i \in 1 .. Len(s) : (s \o t)[i] = s[i]
         /\ \A i \in 1 .. Len(t) : (s \o t)[Len(s) + i] = t[i]
<1>1. Len(s) \in Nat /\ Len(t) \in Nat BY LenProperties
<1>2. s \o t \in Seq(S) /\ Len(s \o t) = Len(s) + Len(t)
  BY ConcatProperties
<1>3. ASSUME NEW i \in 1 .. Len(s) PROVE (s \o t)[i] = s[i]
  BY <1>1, ConcatProperties
<1>4. ASSUME NEW i \in 1 .. Len(t) PROVE (s \o t)[Len(s) + i] = t[i]
  <2>1. /\ Len(s) + i \in 1 .. Len(s) + Len(t) /\ ~(Len(s) + i <= Len(s))
        /\ (Len(s) + i) - Len(s) = i
    BY <1>1
  <2> QED BY <2>1, ConcatProperties
<1> QED BY <1>2, <1>3, <1>4

Scan(k) == [op |-> "scan", key |-> k]
Unlink(k) == [op |-> "unlink", key |-> k]

\* A write and the deletion of two patterns, one instruction after the other.
LEMMA TwoPatterns ==
  ASSUME NEW j, NEW k, j # k, j # "none", k # "none"
  PROVE  /\ WriteThenDelete(<<Write>> \o (DelByPattern(j) \o DelByPattern(k)), j, 2)
         /\ WriteThenDelete(<<Write>> \o (DelByPattern(j) \o DelByPattern(k)), k, 4)
<1> DEFINE S == {Write, Scan(j), Unlink(j), Scan(k), Unlink(k)}
           h == <<Write>>
           a == DelByPattern(j)
           b == DelByPattern(k)
           r == a \o b
           p == h \o r
<1>1. /\ h \in Seq(S) /\ Len(h) = 1 /\ h[1] = Write
      /\ a \in Seq(S) /\ Len(a) = 2 /\ a[1] = Scan(j) /\ a[2] = Unlink(j)
      /\ b \in Seq(S) /\ Len(b) = 2 /\ b[1] = Scan(k) /\ b[2] = Unlink(k)
  <2>1. /\ Write \in S /\ Scan(j) \in S /\ Unlink(j) \in S
        /\ Scan(k) \in S /\ Unlink(k) \in S
    OBVIOUS
  <2>2. a = <<Scan(j), Unlink(j)>> /\ b = <<Scan(k), Unlink(k)>>
    BY DEF DelByPattern, Scan, Unlink
  <2> HIDE DEF S
  <2> QED BY <2>1, <2>2
<1> HIDE DEF h, a, b, S
<1>2. r \in Seq(S) /\ Len(r) = 4 /\ r[1] = a[1] /\ r[2] = a[2] /\ r[3] = b[1] /\ r[4] = b[2]
  <2>1. a \in Seq(S) /\ b \in Seq(S) BY <1>1
  <2>2. /\ r \in Seq(S) /\ Len(r) = Len(a) + Len(b) /\ \A i \in 1 .. Len(a) : r[i] = a[i]
        /\ \A i \in 1 .. Len(b) : r[Len(a) + i] = b[i]
    BY <2>1, Joined
  <2> HIDE DEF r
  <2> QED BY <2>2, <1>1
<1> HIDE DEF r
<1>3. /\ p \in Seq(S) /\ Len(p) = 5 /\ p[1] = h[1]
      /\ p[2] = r[1] /\ p[3] = r[2] /\ p[4] = r[3] /\ p[5] = r[4]
  <2>1. h \in Seq(S) /\ r \in Seq(S) BY <1>1, <1>2
  <2>2. /\ p \in Seq(S) /\ Len(p) = Len(h) + Len(r) /\ \A i \in 1 .. Len(h) : p[i] = h[i]
        /\ \A i \in 1 .. Len(r) : p[Len(h) + i] = r[i]
    BY <2>1, Joined
  <2> HIDE DEF p
  <2> QED BY <2>2, <1>1, <1>2
<1> HIDE DEF p
<1>4. /\ Len(p) = 5 /\ DOMAIN p = 1 .. 5 /\ p[1] = Write
      /\ p[2] = Scan(j) /\ p[3] = Unlink(j) /\ p[4] = Scan(k) /\ p[5] = Unlink(k)
  <2>1. DOMAIN p = 1 .. 5 BY <1>3, LenProperties
  <2> QED BY <1>1, <1>2, <1>3, <2>1
<1>5. \A i \in 2 .. 5 : p[i] # Write
  <2>1. \A l : Scan(l) # Write /\ Unlink(l) # Write BY DEF Scan, Unlink, Write
  <2> QED BY <2>1, <1>4
<1>6. /\ p[1].key = "none" /\ p[2].key = j /\ p[3].key = j /\ p[4].key = k /\ p[5].key = k
      /\ p[2].op = "scan" /\ p[3].op = "unlink" /\ p[4].op = "scan" /\ p[5].op = "unlink"
  BY <1>4 DEF Scan, Unlink, Write
<1>7. WriteThenDelete(p, j, 2) /\ WriteThenDelete(p, k, 4)
  BY <1>4, <1>5, <1>6 DEF WriteThenDelete
<1> QED BY <1>7 DEF p, r, h, a, b


\* replaceForPath and replaceForCourse write the tags before they delete.
LEMMA TagReplacementProgram ==
  /\ WriteThenDelete(TagReplacement, "paths:list", 2)
  /\ WriteThenDelete(TagReplacement, "courses:list", 4)
<1>1. \A j, k : j # k /\ j # "none" /\ k # "none" =>
        /\ WriteThenDelete(<<Write>> \o (DelByPattern(j) \o DelByPattern(k)), j, 2)
        /\ WriteThenDelete(<<Write>> \o (DelByPattern(j) \o DelByPattern(k)), k, 4)
  BY TwoPatterns
<1> QED BY <1>1 DEF TagReplacement, BothLists

\* The category mutations write before they delete.
LEMMA CategoryProgram == WriteThenDelete(CategoryMutation, "categories:all", 2)
<1>1. /\ CategoryMutation[1] = Write /\ CategoryMutation[2] = Del("categories:all")
      /\ Len(CategoryMutation) = 2 /\ DOMAIN CategoryMutation = 1 .. 2
  BY DEF CategoryMutation
<1>2. Write # Del("categories:all") /\ Write.key # "categories:all"
  BY DEF Write, Del
<1> QED BY <1>1, <1>2 DEF WriteThenDelete

\* The mutations of the three tables of marketing rows are one.
LEMMA MarketingProgram ==
  ASSUME NEW detail \in {"paths:detail", "courses:detail"}, NEW list
  PROVE  WriteThenDelete(<<Write>> \o InvalidateOwner(detail, list), detail, 5)
<1> DEFINE S == {Write, Del("marketing:features"), Del("marketing:faqs"),
                 Del("marketing:testimonials"),
                 Scan(detail), Unlink(detail), Scan(list), Unlink(list)}
           h == <<Write>>
           m == <<Del("marketing:features"), Del("marketing:faqs"), Del("marketing:testimonials")>>
           a == DelByPattern(detail)
           b == DelByPattern(list)
           q == m \o a
           r == q \o b
           p == h \o r
<1>0. p = <<Write>> \o InvalidateOwner(detail, list) BY DEF InvalidateOwner
<1>1. /\ h \in Seq(S) /\ Len(h) = 1 /\ h[1] = Write
      /\ m \in Seq(S) /\ Len(m) = 3
      /\ m[1] = Del("marketing:features") /\ m[2] = Del("marketing:faqs")
      /\ m[3] = Del("marketing:testimonials")
      /\ a \in Seq(S) /\ Len(a) = 2 /\ a[1] = Scan(detail) /\ a[2] = Unlink(detail)
      /\ b \in Seq(S) /\ Len(b) = 2 /\ b[1] = Scan(list) /\ b[2] = Unlink(list)
  <2>1. /\ Write \in S /\ Scan(detail) \in S /\ Unlink(detail) \in S
        /\ Scan(list) \in S /\ Unlink(list) \in S /\ Del("marketing:features") \in S
        /\ Del("marketing:faqs") \in S /\ Del("marketing:testimonials") \in S
    OBVIOUS
  <2>2. a = <<Scan(detail), Unlink(detail)>> /\ b = <<Scan(list), Unlink(list)>>
    BY DEF DelByPattern, Scan, Unlink
  <2> HIDE DEF S
  <2> QED BY <2>1, <2>2
<1> HIDE DEF h, m, a, b, S
<1>2. /\ q \in Seq(S) /\ Len(q) = 5 /\ q[1] = m[1] /\ q[2] = m[2] /\ q[3] = m[3]
      /\ q[4] = a[1] /\ q[5] = a[2]
  <2>1. m \in Seq(S) /\ a \in Seq(S) BY <1>1
  <2>2. /\ q \in Seq(S) /\ Len(q) = Len(m) + Len(a) /\ \A i \in 1 .. Len(m) : q[i] = m[i]
        /\ \A i \in 1 .. Len(a) : q[Len(m) + i] = a[i]
    BY <2>1, Joined
  <2> HIDE DEF q
  <2> QED BY <2>2, <1>1
<1> HIDE DEF q
<1>3. /\ r \in Seq(S) /\ Len(r) = 7
      /\ r[1] = q[1] /\ r[2] = q[2] /\ r[3] = q[3] /\ r[4] = q[4] /\ r[5] = q[5]
      /\ r[6] = b[1] /\ r[7] = b[2]
  <2>1. q \in Seq(S) /\ b \in Seq(S) BY <1>1, <1>2
  <2>2. /\ r \in Seq(S) /\ Len(r) = Len(q) + Len(b) /\ \A i \in 1 .. Len(q) : r[i] = q[i]
        /\ \A i \in 1 .. Len(b) : r[Len(q) + i] = b[i]
    BY <2>1, Joined
  <2> HIDE DEF r
  <2> QED BY <2>2, <1>1, <1>2
<1> HIDE DEF r
<1>4. /\ p \in Seq(S) /\ Len(p) = 8 /\ p[1] = h[1]
      /\ p[2] = r[1] /\ p[3] = r[2] /\ p[4] = r[3] /\ p[5] = r[4]
      /\ p[6] = r[5] /\ p[7] = r[6] /\ p[8] = r[7]
  <2>1. h \in Seq(S) /\ r \in Seq(S) BY <1>1, <1>3
  <2>2. /\ p \in Seq(S) /\ Len(p) = Len(h) + Len(r) /\ \A i \in 1 .. Len(h) : p[i] = h[i]
        /\ \A i \in 1 .. Len(r) : p[Len(h) + i] = r[i]
    BY <2>1, Joined
  <2> HIDE DEF p
  <2> QED BY <2>2, <1>1, <1>3
<1> HIDE DEF p
<1>5. DOMAIN p = 1 .. 8 BY <1>4, LenProperties
<1>6. /\ Len(p) = 8 /\ p[1] = Write
      /\ p[2] = Del("marketing:features") /\ p[3] = Del("marketing:faqs")
      /\ p[4] = Del("marketing:testimonials")
      /\ p[5] = Scan(detail) /\ p[6] = Unlink(detail) /\ p[7] = Scan(list) /\ p[8] = Unlink(list)
  BY <1>1, <1>2, <1>3, <1>4
<1>7. \A i \in 2 .. 8 : p[i] # Write
  <2>1. \A k : Scan(k) # Write /\ Unlink(k) # Write /\ Del(k) # Write
    BY DEF Scan, Unlink, Del, Write
  <2> QED BY <2>1, <1>6
<1>8. /\ p[1].key # detail /\ p[2].key # detail /\ p[3].key # detail /\ p[4].key # detail
      /\ p[5].key = detail /\ p[6].key = detail /\ p[5].op = "scan" /\ p[6].op = "unlink"
  BY <1>6 DEF Scan, Unlink, Write, Del
<1>9. WriteThenDelete(p, detail, 5)
  BY <1>5, <1>6, <1>7, <1>8 DEF WriteThenDelete
<1> QED BY <1>0, <1>9
\* An editor of any table of the watched page that writes first has the
\* program WriteThenDelete describes.
LEMMA WatchedProgram ==
  ASSUME page \in Keys, source \in Sources(page), WritesFirst
  PROVE  source \in Tables /\ WriteThenDelete(Program[source], page, DeletedAt)
<1> USE DEF Keys
<1>1. CASE page = "categories:all"
  <2>1. source = "category" BY <1>1 DEF Sources, CategoriesPage
  <2>2. Program["category"] = CategoryMutation
    BY DEF Program, Tables, TagCounts, PathMarketing, CourseMarketing
  <2>3. DeletedAt = 2 BY <1>1, <2>1 DEF DeletedAt
  <2> QED BY <1>1, <2>1, <2>2, <2>3, CategoryProgram DEF Tables
<1>2. CASE page \in {"paths:list", "courses:list"} /\ source \in TagCounts
  <2>1. Program[source] = TagReplacement
    BY <1>2 DEF Program, Tables, TagCounts
  <2>2. CASE page = "paths:list"
    <3>1. DeletedAt = 2 BY <1>2, <2>2 DEF DeletedAt
    <3> QED BY <1>2, <2>1, <2>2, <3>1, TagReplacementProgram DEF Tables, TagCounts
  <2>3. CASE page = "courses:list"
    <3>1. DeletedAt = 4 BY <1>2, <2>3 DEF DeletedAt
    <3> QED BY <1>2, <2>1, <2>3, <3>1, TagReplacementProgram DEF Tables, TagCounts
  <2> QED BY <1>2, <2>2, <2>3
<1>3. CASE source \in PathMarketing
  <2>1. page = "paths:detail"
    BY <1>3 DEF Sources, CategoriesPage, TagsPage, TagCounts, PathsPage, CoursesPage,
      PathPage, CoursePage, PathMarketing, CourseMarketing
  <2>2. Program[source] = <<Write>> \o InvalidateOwner("paths:detail", "paths:list")
    BY <1>3 DEF Program, Tables, PathMarketing, TagCounts, FeatureMutation, FaqMutation,
      TestimonialMutation
  <2>3. DeletedAt = 5 BY <2>1 DEF DeletedAt
  <2> QED BY <1>3, <2>1, <2>2, <2>3, MarketingProgram DEF Tables
<1>4. CASE source \in CourseMarketing
  <2>1. page = "courses:detail"
    BY <1>4 DEF Sources, CategoriesPage, TagsPage, TagCounts, PathsPage, CoursesPage,
      PathPage, CoursePage, PathMarketing, CourseMarketing
  <2>2. Program[source] = <<Write>> \o InvalidateOwner("courses:detail", "courses:list")
    BY <1>4 DEF Program, Tables, CourseMarketing, TagCounts, FeatureMutation, FaqMutation,
      TestimonialMutation
  <2>3. DeletedAt = 5 BY <2>1 DEF DeletedAt
  <2> QED BY <1>4, <2>1, <2>2, <2>3, MarketingProgram DEF Tables
<1> QED BY <1>1, <1>2, <1>3, <1>4 DEF WritesFirst

DiscoveryTypeOK ==
  /\ page \in Keys /\ source \in Sources(page)
  /\ entry \in {"absent", "current", "behind"} /\ excused \in BOOLEAN
  /\ reader \in [Readers -> {"idle", "load", "current", "behind"}]
  /\ editor \in [Editors -> [table : Tables \cup {"none"}, at : Nat, found : BOOLEAN]]

\* An editor of the watched table is somewhere in its program.
InProgram ==
  WritesFirst =>
    \A e \in Editors : editor[e].table = source => editor[e].at \in 1 .. Len(Program[source])

\* e has written, and unless Redis fails the page will be gone when it is done:
\* its deletion is to come, or the scan has found the page.
Effective(e) ==
  /\ editor[e].table = source
  /\ \/ editor[e].at \in 2 .. DeletedAt
     \/ /\ editor[e].at = DeletedAt + 1 /\ editor[e].found
        /\ Program[source][DeletedAt].op = "scan"

DiscoveryInvariant ==
  /\ DiscoveryTypeOK
  /\ InProgram
  /\ WritesFirst /\ entry = "behind" /\ ~excused => \E e \in Editors : Effective(e)

\* Where the watched table is edited, its program's facts in the terms of the
\* editor that runs it.
LEMMA EffectiveAt ==
  ASSUME DiscoveryInvariant, WritesFirst, NEW e \in Editors, editor[e].table = source
  PROVE  /\ editor[e].at \in 1 .. Len(Program[source]) /\ Len(Program[source]) \in Nat
         /\ editor[e] # AtRest
         /\ Instruction(e) = Program[source][editor[e].at]
         /\ Instruction(e) = Write <=> editor[e].at = 1
         /\ DeletedAt \in 2 .. Len(Program[source])
<1>1. source \in Tables /\ WriteThenDelete(Program[source], page, DeletedAt)
  BY WatchedProgram DEF DiscoveryInvariant, DiscoveryTypeOK
<1>2. source # "none" BY <1>1 DEF Tables, PathMarketing, CourseMarketing
<1> QED BY <1>1, <1>2 DEF DiscoveryInvariant, InProgram, Instruction, WriteThenDelete, AtRest

\* An editor on its way to delete the page has that deletion still to do.
LEMMA EffectiveIsPending ==
  ASSUME DiscoveryInvariant, WritesFirst, NEW e \in Editors, Effective(e)
  PROVE  Pending(e)
<1>1. WriteThenDelete(Program[source], page, DeletedAt)
  BY WatchedProgram DEF DiscoveryInvariant, DiscoveryTypeOK
<1>2. editor[e].table = source BY DEF Effective
<1>3. editor[e].at \in 2 .. DeletedAt + 1 /\ DeletedAt \in 2 .. Len(Program[source])
      /\ Len(Program[source]) \in Nat
  BY <1>2, EffectiveAt DEF Effective
<1>4. Program[source][1] = Write /\ 1 \in 1 .. editor[e].at - 1
  BY <1>1, <1>3 DEF WriteThenDelete
<1>5. CASE editor[e].at \in 2 .. DeletedAt
  <2>1. Program[source][DeletedAt].key = page BY <1>1 DEF WriteThenDelete, Del
  <2>2. DeletedAt \in editor[e].at .. Len(Program[source]) BY <1>3, <1>5
  <2> QED BY <1>2, <1>4, <2>1, <2>2 DEF Pending
<1>6. CASE editor[e].at = DeletedAt + 1 /\ Program[source][DeletedAt].op = "scan"
  <2>1. Program[source][DeletedAt + 1].key = page /\ DeletedAt + 1 <= Len(Program[source])
    BY <1>1, <1>6 DEF WriteThenDelete, Del
  <2>2. DeletedAt + 1 \in editor[e].at .. Len(Program[source]) BY <1>3, <1>6, <2>1
  <2> QED BY <1>2, <1>4, <2>1, <2>2 DEF Pending
<1> QED BY <1>5, <1>6 DEF Effective

\* A reader finds, loads or stores the page.
LEMMA ReadersPreserve ==
  ASSUME DiscoveryInvariant, NEW r \in Readers, Reading(r)
  PROVE  DiscoveryInvariant'
<1> USE DEF DiscoveryInvariant, DiscoveryTypeOK
<1>1. UNCHANGED <<page, source, editor>> /\ DiscoveryTypeOK'
  BY DEF Reading, Miss, Load, Refuse, Store
<1>2. InProgram' BY <1>1 DEF InProgram, WritesFirst
<1>3. entry' = "behind" /\ ~excused' => entry = "behind" /\ ~excused
  BY DEF Reading, Miss, Load, Refuse, Store
<1>4. (WritesFirst' => WritesFirst) /\ \A e \in Editors : Effective(e) => Effective(e)'
  BY <1>1 DEF WritesFirst, Effective, DeletedAt
<1> QED BY <1>1, <1>2, <1>3, <1>4

\* An editor of whatever tables, one instruction on.
LEMMA OneOn ==
  ASSUME NEW T, NEW x \in [table : T, at : Nat, found : BOOLEAN], NEW b \in BOOLEAN
  PROVE  LET next == [x EXCEPT !.at = @ + 1, !.found = b] IN
         /\ next \in [table : T, at : Nat, found : BOOLEAN]
         /\ next.table = x.table /\ next.at = x.at + 1 /\ next.found = b
<1> DEFINE y == [x EXCEPT !.at = @ + 1]
           z == [y EXCEPT !.found = b]
<1>1. y \in [table : T, at : Nat, found : BOOLEAN] /\ y.table = x.table /\ y.at = x.at + 1
  OBVIOUS
<1>2. [x EXCEPT !.at = @ + 1, !.found = b] = z OBVIOUS
<1> HIDE DEF y
<1>3. /\ z \in [table : T, at : Nat, found : BOOLEAN]
      /\ z.table = y.table /\ z.at = y.at /\ z.found = b
  BY <1>1
<1> QED BY <1>1, <1>2, <1>3

EditorStates == [table : Tables \cup {"none"}, at : Nat, found : BOOLEAN]

\* An editor goes on by one position of its program, or is done.
LEMMA Advances ==
  ASSUME editor \in [Editors -> EditorStates], NEW e \in Editors,
         NEW found \in BOOLEAN, Advance(e, found)
  PROVE  /\ editor' \in [Editors -> EditorStates]
         /\ \A f \in Editors \ {e} : editor'[f] = editor[f]
         /\ \/ editor[e].at = Len(Program[editor[e].table]) /\ editor'[e] = AtRest
            \/ /\ editor[e].at # Len(Program[editor[e].table])
               /\ editor'[e].table = editor[e].table /\ editor'[e].at = editor[e].at + 1
               /\ editor'[e].found = found
<1> DEFINE next == [editor[e] EXCEPT !.at = @ + 1, !.found = found]
           atEnd == editor[e].at = Len(Program[editor[e].table])
<1>1. AtRest \in EditorStates BY DEF AtRest, EditorStates
<1>2. /\ next \in EditorStates
      /\ next.table = editor[e].table /\ next.at = editor[e].at + 1 /\ next.found = found
  <2>1. editor[e] \in EditorStates OBVIOUS
  <2>2. editor[e] \in [table : Tables \cup {"none"}, at : Nat, found : BOOLEAN]
    BY <2>1 DEF EditorStates
  <2> QED BY <2>2, OneOn DEF EditorStates
<1>3. editor' = [editor EXCEPT ![e] = IF atEnd THEN AtRest ELSE next] BY DEF Advance
<1> HIDE DEF next, atEnd
<1>4. /\ editor' \in [Editors -> EditorStates]
      /\ \A f \in Editors \ {e} : editor'[f] = editor[f]
      /\ \/ atEnd /\ editor'[e] = AtRest
         \/ ~atEnd /\ editor'[e] = next
  BY <1>1, <1>2, <1>3
<1> QED BY <1>2, <1>4 DEF atEnd

\* What every step of an editor does to the editors.
EditorStep(e) ==
  \/ editor' = [editor EXCEPT ![e] = AtRest]
  \/ editor[e] = AtRest /\ \E t \in Tables : editor' = [editor EXCEPT ![e].table = t, ![e].at = 1]
  \/ editor[e] # AtRest /\ \E found \in BOOLEAN : Advance(e, found)

\* What a step of an editor can change.
LEMMA EditorsKeepType ==
  ASSUME DiscoveryInvariant, NEW e \in Editors, Editing(e)
  PROVE  DiscoveryTypeOK' /\ UNCHANGED <<page, source>> /\ EditorStep(e)
<1> USE DEF DiscoveryInvariant, DiscoveryTypeOK
<1>1. UNCHANGED <<page, source>> /\ EditorStep(e)
  <2>1. CASE \E t \in Tables : BeginEdit(e, t) BY <2>1 DEF BeginEdit, EditorStep
  <2>2. CASE WriteTable(e) BY <2>2 DEF WriteTable, EditorStep
  <2>3. CASE WriteRefused(e) BY <2>3 DEF WriteRefused, EditorStep
  <2>4. CASE Delete(e) BY <2>4 DEF Delete, EditorStep
  <2>5. CASE DeleteFails(e) BY <2>5 DEF DeleteFails, EditorStep
  <2> QED BY <2>1, <2>2, <2>3, <2>4, <2>5 DEF Editing
<1>2. editor' \in [Editors -> EditorStates]
  <2>1. AtRest \in EditorStates BY DEF AtRest, EditorStates
  <2>2. editor \in [Editors -> EditorStates] BY DEF EditorStates
  <2>3. CASE editor' = [editor EXCEPT ![e] = AtRest] BY <2>1, <2>2, <2>3
  <2>4. CASE \E t \in Tables : editor' = [editor EXCEPT ![e].table = t, ![e].at = 1]
    <3> PICK t \in Tables : editor' = [editor EXCEPT ![e].table = t, ![e].at = 1] BY <2>4
    <3> DEFINE begun == [[editor[e] EXCEPT !.table = t] EXCEPT !.at = 1]
    <3>1. begun \in EditorStates
      <4>1. [editor[e] EXCEPT !.table = t] \in EditorStates BY DEF EditorStates
      <4> QED BY <4>1 DEF EditorStates
    <3>2. editor' = [editor EXCEPT ![e] = begun] OBVIOUS
    <3> HIDE DEF begun
    <3> QED BY <2>2, <3>1, <3>2
  <2>5. CASE \E found \in BOOLEAN : Advance(e, found) BY <2>2, <2>5, Advances
  <2> QED BY <1>1, <2>3, <2>4, <2>5 DEF EditorStep
<1>3. entry' \in {"absent", "current", "behind"} /\ excused' \in BOOLEAN
  BY DEF Editing, BeginEdit, WriteTable, WriteRefused, Delete, DeleteFails, Outdated
<1>4. reader' \in [Readers -> {"idle", "load", "current", "behind"}]
  BY DEF Editing, BeginEdit, WriteTable, WriteRefused, Delete, DeleteFails, Outdated
<1> QED BY <1>1, <1>2, <1>3, <1>4 DEF EditorStates

\* No editor leaves the program of its table.
LEMMA EditorsStayInProgram ==
  ASSUME DiscoveryInvariant, NEW e \in Editors, EditorStep(e), UNCHANGED <<page, source>>
  PROVE  InProgram'
<1> USE DEF DiscoveryInvariant, DiscoveryTypeOK
<1> SUFFICES ASSUME WritesFirst, NEW f \in Editors, editor'[f].table = source
             PROVE  editor'[f].at \in 1 .. Len(Program[source])
  BY DEF InProgram, WritesFirst
<1>1. source \in Tables /\ WriteThenDelete(Program[source], page, DeletedAt)
  BY WatchedProgram
<1>2. source # "none" BY <1>1 DEF Tables, PathMarketing, CourseMarketing
<1>3. Len(Program[source]) \in Nat /\ 1 <= Len(Program[source])
  BY <1>1 DEF WriteThenDelete
<1>4. CASE f # e
  BY <1>4 DEF EditorStep, Advance, InProgram
<1>5. CASE f = e
  <2>1. CASE editor' = [editor EXCEPT ![e] = AtRest]
    BY <1>2, <1>5, <2>1 DEF AtRest
  <2>2. CASE \E t \in Tables : editor' = [editor EXCEPT ![e].table = t, ![e].at = 1]
    BY <1>3, <1>5, <2>2
  <2>3. CASE \E found \in BOOLEAN : Advance(e, found)
    <3>1. editor[e].table = source /\ editor'[e].at = editor[e].at + 1
          /\ editor[e].at # Len(Program[source])
      <4>1. editor \in [Editors -> EditorStates] BY DEF EditorStates
      <4>2. \/ editor[e].at = Len(Program[editor[e].table]) /\ editor'[e] = AtRest
            \/ /\ editor[e].at # Len(Program[editor[e].table])
               /\ editor'[e].table = editor[e].table /\ editor'[e].at = editor[e].at + 1
        BY <2>3, <4>1, Advances
      <4> QED BY <1>2, <1>5, <4>2 DEF AtRest
    <3>2. editor[e].at \in 1 .. Len(Program[source]) BY <3>1 DEF InProgram
    <3> QED BY <1>3, <1>5, <3>1, <3>2
  <2> QED BY <2>1, <2>2, <2>3 DEF EditorStep
<1> QED BY <1>4, <1>5
\* An effective editor that moves on without having reached the deletion of
\* the page stays effective.
LEMMA BeforeTheDeletion ==
  ASSUME DiscoveryInvariant, WritesFirst, NEW e \in Editors, NEW found \in BOOLEAN,
         Advance(e, found), UNCHANGED <<page, source>>,
         editor[e].table = source, editor[e].at \in 1 .. DeletedAt - 1
  PROVE  Effective(e)'
<1> USE DEF DiscoveryInvariant, DiscoveryTypeOK
<1>1. DeletedAt \in 2 .. Len(Program[source]) /\ Len(Program[source]) \in Nat
  BY EffectiveAt
<1>2. editor \in [Editors -> EditorStates] BY DEF EditorStates
<1>3. editor[e].at # Len(Program[source]) BY <1>1
<1>4. editor'[e].table = source /\ editor'[e].at = editor[e].at + 1
  BY <1>2, <1>3, Advances
<1>5. DeletedAt' = DeletedAt BY DEF DeletedAt
<1> QED BY <1>1, <1>4, <1>5 DEF Effective

\* As long as the page is behind, an editor is left that will delete it.
LEMMA EditorsLeaveOne ==
  ASSUME DiscoveryInvariant, NEW e \in Editors, Editing(e), UNCHANGED <<page, source>>,
         WritesFirst, entry' = "behind", ~excused'
  PROVE  \E f \in Editors : Effective(f)'
<1> USE DEF DiscoveryInvariant, DiscoveryTypeOK
<1> DEFINE p == Program[source]
           d == DeletedAt
<1>1. WriteThenDelete(p, page, d) BY WatchedProgram
<1>2. editor \in [Editors -> EditorStates] BY DEF EditorStates
<1>3. d' = d BY DEF DeletedAt
<1>4. ASSUME NEW f \in Editors, Effective(f), editor'[f] = editor[f]
      PROVE  Effective(f)'
  BY <1>3, <1>4 DEF Effective
<1>5. d \in 2 .. Len(p) /\ Len(p) \in Nat BY <1>1 DEF WriteThenDelete
<1>6. ASSUME NEW f \in Editors, Effective(f)
      PROVE  /\ editor[f] # AtRest /\ editor[f].table = source /\ Instruction(f) # Write
             /\ Instruction(f) = p[editor[f].at]
  <2>1. editor[f].table = source /\ editor[f].at # 1 BY <1>5, <1>6 DEF Effective
  <2> QED BY <2>1, EffectiveAt
<1> HIDE DEF p, d
<1>7. CASE \E t \in Tables : BeginEdit(e, t)
  <2>1. PICK f \in Editors : Effective(f) BY <1>7 DEF BeginEdit
  <2>2. f # e BY <1>6, <1>7, <2>1 DEF BeginEdit
  <2>3. editor'[f] = editor[f] BY <1>7, <2>2 DEF BeginEdit
  <2> QED BY <1>4, <2>1, <2>3
<1>8. CASE WriteTable(e)
  <2>1. CASE editor[e].table = source
    <3>1. editor[e].at = 1 BY <1>8, <2>1, EffectiveAt DEF WriteTable
    <3>2. editor[e].at \in 1 .. DeletedAt - 1 BY <1>5, <3>1 DEF d
    <3>3. Advance(e, FALSE) BY <1>8 DEF WriteTable
    <3> QED BY <2>1, <3>2, <3>3, BeforeTheDeletion
  <2>2. CASE editor[e].table # source
    <3>1. entry = "behind" /\ ~excused BY <1>8, <2>2 DEF WriteTable
    <3>2. PICK f \in Editors : Effective(f) BY <3>1
    <3>3. f # e BY <2>2, <3>2 DEF Effective
    <3>4. Advance(e, FALSE) BY <1>8 DEF WriteTable
    <3>5. editor'[f] = editor[f] BY <1>2, <3>3, <3>4, Advances
    <3> QED BY <1>4, <3>2, <3>5
  <2> QED BY <2>1, <2>2
<1>9. CASE WriteRefused(e)
  <2>1. PICK f \in Editors : Effective(f) BY <1>9 DEF WriteRefused
  <2>2. f # e BY <1>6, <1>9, <2>1 DEF WriteRefused
  <2>3. editor'[f] = editor[f] BY <1>9, <2>2 DEF WriteRefused
  <2> QED BY <1>4, <2>1, <2>3
<1>10. CASE Delete(e)
  <2> DEFINE o == Instruction(e)
             hit == o.key = page /\ (o.op = "del" \/ (o.op = "unlink" /\ editor[e].found))
  <2>1. /\ ~hit /\ entry = "behind" /\ ~excused
        /\ Advance(e, o.op = "scan" /\ o.key = page /\ entry # "absent")
    BY <1>10 DEF Delete
  <2>2. PICK f \in Editors : Effective(f) BY <2>1
  <2>3. CASE f # e
    <3>1. editor'[f] = editor[f] BY <1>2, <2>1, <2>3, Advances
    <3> QED BY <1>4, <2>2, <3>1
  <2>4. CASE f = e /\ editor[e].at \in 2 .. d - 1
    <3>1. editor[e].at \in 1 .. DeletedAt - 1 BY <1>5, <2>4 DEF d
    <3>2. editor[e].table = source BY <1>6, <2>2, <2>4
    <3> QED BY <2>1, <3>1, <3>2, BeforeTheDeletion
  <2>5. CASE f = e /\ editor[e].at = d
    <3>1. o = p[d] /\ editor[e].table = source BY <1>6, <2>2, <2>5
    <3>2. o # Del(page) BY <2>1 DEF Del
    <3>3. d + 1 <= Len(p) /\ o.op = "scan" /\ o.key = page
      BY <1>1, <3>1, <3>2 DEF WriteThenDelete
    <3>4. Advance(e, TRUE) BY <2>1, <3>3
    <3>5. editor[e].at # Len(Program[editor[e].table]) BY <1>5, <2>5, <3>1, <3>3 DEF p
    <3>6. editor'[e].table = source /\ editor'[e].at = d + 1 /\ editor'[e].found
      BY <1>2, <2>5, <3>1, <3>4, <3>5, Advances
    <3>7. Program[source][d].op = "scan" BY <3>1, <3>3 DEF p
    <3> QED BY <1>3, <3>6, <3>7 DEF Effective, d
  <2>6. CASE f = e /\ editor[e].at = d + 1
    <3>1. editor[e].found /\ p[d].op = "scan" BY <1>5, <2>2, <2>6 DEF Effective, d, p
    <3>2. p[d] # Del(page) BY <3>1 DEF Del
    <3>3. p[d + 1].op = "unlink" /\ p[d + 1].key = page BY <1>1, <3>2 DEF WriteThenDelete
    <3>4. o = p[d + 1] BY <1>6, <2>2, <2>6
    <3> QED BY <2>1, <3>1, <3>3, <3>4
  <2> QED BY <1>5, <2>2, <2>3, <2>4, <2>5, <2>6 DEF Effective, d
<1>11. CASE DeleteFails(e)
  <2>1. entry = "behind" /\ ~excused /\ Instruction(e).key # page /\ Advance(e, FALSE)
    BY <1>11 DEF DeleteFails
  <2>2. PICK f \in Editors : Effective(f) BY <2>1
  <2>3. CASE f # e
    <3>1. editor'[f] = editor[f] BY <1>2, <2>1, <2>3, Advances
    <3> QED BY <1>4, <2>2, <3>1
  <2>4. CASE f = e
    <3>1. Instruction(e) = p[editor[e].at] /\ editor[e].table = source BY <1>6, <2>2, <2>4
    <3>2. p[d].key = page BY <1>1 DEF WriteThenDelete, Del
    <3>3. p[d].op = "scan" => p[d + 1].key = page BY <1>1 DEF WriteThenDelete, Del
    <3>4. editor[e].at # d /\ ~(editor[e].at = d + 1 /\ p[d].op = "scan")
      BY <2>1, <3>1, <3>2, <3>3
    <3>5. editor[e].at \in 1 .. DeletedAt - 1
      BY <1>5, <2>2, <2>4, <3>4 DEF Effective, d, p
    <3> QED BY <2>1, <3>1, <3>5, BeforeTheDeletion
  <2> QED BY <2>3, <2>4
<1> QED BY <1>7, <1>8, <1>9, <1>10, <1>11 DEF Editing

\* The invariant of the cache holds throughout.
THEOREM DiscoveryInductive == DiscoverySpec => []DiscoveryInvariant
<1>1. DiscoveryInit => DiscoveryInvariant
  <2> SUFFICES ASSUME DiscoveryInit PROVE DiscoveryInvariant OBVIOUS
  <2>1. DiscoveryTypeOK BY DEF DiscoveryInit, DiscoveryTypeOK, AtRest
  <2>2. InProgram
    <3> SUFFICES ASSUME WritesFirst PROVE source # "none"
      BY DEF InProgram, DiscoveryInit, AtRest
    <3>1. source \in Tables BY WatchedProgram DEF DiscoveryInit
    <3> QED BY <3>1 DEF Tables, PathMarketing, CourseMarketing
  <2> QED BY <2>1, <2>2 DEF DiscoveryInvariant, DiscoveryInit
<1>2. DiscoveryInvariant /\ [DiscoveryNext]_discoveryVars => DiscoveryInvariant'
  <2> SUFFICES ASSUME DiscoveryInvariant, [DiscoveryNext]_discoveryVars
               PROVE  DiscoveryInvariant'
    OBVIOUS
  <2>1. CASE \E r \in Readers : Reading(r) BY <2>1, ReadersPreserve
  <2>2. ASSUME NEW e \in Editors, Editing(e) PROVE DiscoveryInvariant'
    <3>1. DiscoveryTypeOK' /\ UNCHANGED <<page, source>> /\ EditorStep(e)
      BY <2>2, EditorsKeepType
    <3>2. InProgram' BY <3>1, EditorsStayInProgram
    <3>3. WritesFirst' => WritesFirst BY <3>1 DEF WritesFirst
    <3>4. WritesFirst' /\ entry' = "behind" /\ ~excused' => \E f \in Editors : Effective(f)'
      BY <2>2, <3>1, <3>3, EditorsLeaveOne
    <3> QED BY <3>1, <3>2, <3>4 DEF DiscoveryInvariant
  <2>3. CASE Expire \/ UNCHANGED discoveryVars
    <3> USE DEF DiscoveryInvariant
    <3>1. UNCHANGED <<page, source, editor>> /\ DiscoveryTypeOK'
          /\ (entry' = "behind" => entry = "behind" /\ excused' = excused)
      BY <2>3 DEF Expire, discoveryVars, DiscoveryTypeOK
    <3>2. InProgram' BY <3>1 DEF InProgram, WritesFirst
    <3>3. (WritesFirst' => WritesFirst) /\ \A e \in Editors : Effective(e) => Effective(e)'
      BY <3>1 DEF WritesFirst, Effective, DeletedAt
    <3> QED BY <3>1, <3>2, <3>3
  <2> QED BY <2>1, <2>2, <2>3 DEF DiscoveryNext
<1> QED BY <1>1, <1>2, PTL DEF DiscoverySpec

\* A page whose tables' editors write first is behind only while one of them
\* has still to delete it, or when a reader stored an old reading or Redis
\* failed (the mutations' "this.cache.del", "this.cache.delByPattern").
THEOREM StaleExplained == DiscoverySpec => []StaleOnlyIfRaced
<1>1. DiscoveryInvariant => StaleOnlyIfRaced
  <2> SUFFICES ASSUME DiscoveryInvariant, entry = "behind", ~excused, WritesFirst
               PROVE  \E e \in Editors : Pending(e)
    BY DEF StaleOnlyIfRaced, WritesFirst
  <2>1. PICK e \in Editors : Effective(e) BY DEF DiscoveryInvariant
  <2> QED BY <2>1, EffectiveIsPending
<1> QED BY <1>1, DiscoveryInductive, PTL
-----------------------------------------------------------------------------
(***************************************************************************)
(* The fixture.  The script deletes by Cleanup and then makes every item   *)
(* once; each of its functions makes items of its own.                     *)
(***************************************************************************)
SeedTables ==
  {"category", "tag", "plan", "path", "feature", "faq", "testimonial", "course", "project",
   "user", "first_lesson", "second_lesson", "section_progress", "course_progress",
   "path_progress", "last_position", "certificate"}
SeedNames ==
  {"all", "free", "monthly", "quarterly", "yearly", PathId, "data_analysis",
   "deep_learning", "sql", "user1", "user2"}
Statements == [op : {"create", "upsert", "delete"}, item : SeedTables \X SeedNames]

\* p makes the items of I, each by one statement; plans are upserted.
Makes(p, I) ==
  /\ p \in Seq(Statements)
  /\ \A k \in 1 .. Len(p) : p[k].op = (IF p[k].item[1] = "plan" THEN "upsert" ELSE "create")
  /\ \A j, k \in 1 .. Len(p) : p[j].item = p[k].item => j = k
  /\ \A i : i \in I <=> \E k \in 1 .. Len(p) : p[k].item = i

\* p begins with Cleanup and goes on to make the items of I.
Script(p, I) ==
  /\ p \in Seq(Statements) /\ Len(p) \in Nat /\ Len(p) >= 8
  /\ \A k \in 1 .. 8 : p[k] = Cleanup[k]
  /\ \A k \in 9 .. Len(p) : p[k].op = (IF p[k].item[1] = "plan" THEN "upsert" ELSE "create")
  /\ \A j, k \in 9 .. Len(p) : p[j].item = p[k].item => j = k
  /\ \A i : i \in I <=> \E k \in 9 .. Len(p) : p[k].item = i

\* A script goes on with the statements of one more function, when these make
\* items it does not make yet.
LEMMA ScriptJoined ==
  ASSUME NEW p, NEW I, Script(p, I), NEW q, NEW J, Makes(q, J), I \cap J = {}
  PROVE  Script(p \o q, I \cup J)
<1> DEFINE m == p \o q
           n == Len(p)
<1>1. /\ p \in Seq(Statements) /\ q \in Seq(Statements)
      /\ n \in Nat /\ Len(q) \in Nat /\ n >= 8
  BY LenProperties DEF Script, Makes
<1>0. /\ \A k \in 9 .. n : p[k].op = (IF p[k].item[1] = "plan" THEN "upsert" ELSE "create")
      /\ \A j, k \in 9 .. n : p[j].item = p[k].item => j = k
      /\ \A i : i \in I <=> \E k \in 9 .. n : p[k].item = i
      /\ \A k \in 1 .. 8 : p[k] = Cleanup[k]
  BY DEF Script
<1>2. /\ m \in Seq(Statements) /\ Len(m) = n + Len(q)
      /\ \A k \in 1 .. n : m[k] = p[k]
      /\ \A k \in 1 .. Len(q) : m[n + k] = q[k]
  BY <1>1, Joined
<1> HIDE DEF m, n
<1>3. ASSUME NEW k \in 1 .. 8 PROVE m[k] = Cleanup[k]
  <2>1. k \in 1 .. n BY <1>1
  <2> QED BY <1>0, <1>2, <2>1
\* An element of m is one of p or one of q.
<1>4. ASSUME NEW k \in 9 .. Len(m)
      PROVE  \/ k \in 9 .. n /\ m[k] = p[k]
             \/ k - n \in 1 .. Len(q) /\ m[k] = q[k - n]
  <2>1. CASE k <= n BY <1>1, <1>2, <2>1
  <2>2. CASE k > n
    <3>1. k - n \in 1 .. Len(q) /\ n + (k - n) = k BY <1>1, <1>2, <2>2
    <3> QED BY <1>2, <3>1
  <2> QED BY <1>1, <2>1, <2>2
<1>5. /\ \A k \in 9 .. n : m[k] = p[k] /\ k \in 9 .. Len(m)
      /\ \A k \in 1 .. Len(q) : m[n + k] = q[k] /\ n + k \in 9 .. Len(m)
  BY <1>1, <1>2
<1>6. ASSUME NEW k \in 9 .. Len(m)
      PROVE  m[k].op = (IF m[k].item[1] = "plan" THEN "upsert" ELSE "create")
  <2>1. CASE k \in 9 .. n /\ m[k] = p[k] BY <1>0, <2>1
  <2>2. CASE k - n \in 1 .. Len(q) /\ m[k] = q[k - n] BY <2>2 DEF Makes
  <2> QED BY <1>4, <2>1, <2>2
<1>7. ASSUME NEW k \in 9 .. Len(m), NEW j \in 9 .. Len(m), m[j].item = m[k].item
      PROVE  j = k
  <2>1. CASE k \in 9 .. n /\ m[k] = p[k]
    <3>1. m[k].item \in I BY <1>0, <2>1
    <3>2. CASE j \in 9 .. n /\ m[j] = p[j] 
      <4>1. p[j].item = p[k].item BY <1>7, <2>1, <3>2
      <4> QED BY <1>0, <2>1, <3>2, <4>1
    <3>3. CASE j - n \in 1 .. Len(q) /\ m[j] = q[j - n]
      <4>1. m[j].item \in J BY <3>3 DEF Makes
      <4> QED BY <1>7, <3>1, <4>1
    <3> QED BY <1>4, <3>2, <3>3
  <2>2. CASE k - n \in 1 .. Len(q) /\ m[k] = q[k - n]
    <3>1. m[k].item \in J BY <2>2 DEF Makes
    <3>2. CASE j \in 9 .. n /\ m[j] = p[j]
      <4>1. m[j].item \in I BY <1>0, <3>2
      <4> QED BY <1>7, <3>1, <4>1
    <3>3. CASE j - n \in 1 .. Len(q) /\ m[j] = q[j - n]
      <4>1. j - n = k - n BY <1>7, <2>2, <3>3 DEF Makes
      <4>2. j \in Int /\ k \in Int /\ n \in Int BY <1>1, <1>2
      <4> QED BY <4>1, <4>2
    <3> QED BY <1>4, <3>2, <3>3
  <2> QED BY <1>4, <2>1, <2>2
<1>8. ASSUME NEW i PROVE i \in I \cup J <=> \E k \in 9 .. Len(m) : m[k].item = i
  <2>1. ASSUME i \in I PROVE \E k \in 9 .. Len(m) : m[k].item = i
    <3>1. PICK k \in 9 .. n : p[k].item = i BY <1>0, <2>1
    <3> QED BY <1>5, <3>1
  <2>2. ASSUME i \in J PROVE \E k \in 9 .. Len(m) : m[k].item = i
    <3>1. PICK k \in 1 .. Len(q) : q[k].item = i BY <2>2 DEF Makes
    <3>2. n + k \in 9 .. Len(m) /\ m[n + k].item = i BY <1>5, <3>1
    <3> QED BY <3>2
  <2>3. ASSUME NEW k \in 9 .. Len(m), m[k].item = i PROVE i \in I \cup J
    <3>1. CASE k \in 9 .. n /\ m[k] = p[k] BY <1>0, <2>3, <3>1
    <3>2. CASE k - n \in 1 .. Len(q) /\ m[k] = q[k - n] BY <2>3, <3>2 DEF Makes
    <3> QED BY <1>4, <3>1, <3>2
  <2> QED BY <2>1, <2>2, <2>3
<1>9. Len(m) \in Nat /\ Len(m) >= 8 BY <1>1, <1>2
<1>10. Script(m, I \cup J) BY <1>2, <1>3, <1>6, <1>7, <1>8, <1>9 DEF Script
<1> QED BY <1>10 DEF m

\* What the functions of the script make.
Plans ==
  {<<"plan", "free">>, <<"plan", "monthly">>, <<"plan", "quarterly">>, <<"plan", "yearly">>}
PathItems ==
  {<<"path", PathId>>, <<"feature", PathId>>, <<"faq", PathId>>, <<"testimonial", PathId>>}
CourseItems(c) ==
  {<<"course", c>>, <<"feature", c>>, <<"faq", c>>, <<"testimonial", c>>, <<"project", c>>}
BriefItems(c) == {<<"course", c>>, <<"feature", c>>, <<"faq", c>>}
UserItems ==
  {<<"user", "user1">>, <<"first_lesson", "user1">>, <<"second_lesson", "user1">>,
   <<"section_progress", "user1">>, <<"course_progress", "user1">>,
   <<"path_progress", "user1">>, <<"last_position", "user1">>,
   <<"user", "user2">>, <<"first_lesson", "user2">>, <<"last_position", "user2">>,
   <<"certificate", "user2">>}

\* The tables and owners that the statements name.
LEMMA Words ==
  /\ "category" \in SeedTables /\ "tag" \in SeedTables /\ "path" \in SeedTables
  /\ "feature" \in SeedTables
  /\ "faq" \in SeedTables /\ "testimonial" \in SeedTables /\ "course" \in SeedTables
  /\ "project" \in SeedTables /\ "user" \in SeedTables /\ "first_lesson" \in SeedTables
  /\ "second_lesson" \in SeedTables /\ "section_progress" \in SeedTables
  /\ "course_progress" \in SeedTables /\ "path_progress" \in SeedTables
  /\ "last_position" \in SeedTables /\ "certificate" \in SeedTables
  /\ "all" \in SeedNames /\ PathId \in SeedNames /\ "data_analysis" \in SeedNames
  /\ "deep_learning" \in SeedNames /\ "sql" \in SeedNames
  /\ "user1" \in SeedNames /\ "user2" \in SeedNames
BY DEF SeedTables, SeedNames

\* What a create says.
LEMMA StatementsOf ==
  \A t \in SeedTables, of \in SeedNames :
    /\ Create(t, of) \in Statements /\ Create(t, of).op = "create"
    /\ Create(t, of).item = <<t, of>> /\ Create(t, of).item[1] = t
    /\ Create(t, of).item[2] = of
BY DEF Create, Statements

\* seedPlans.
LEMMA PlansMade == Makes(SeedPlans, Plans)
<1> DEFINE p == SeedPlans
<1>1. Len(p) = 4 /\ p[1] = Upsert("free") /\ p[2] = Upsert("monthly")
      /\ p[3] = Upsert("quarterly") /\ p[4] = Upsert("yearly")
  BY DEF SeedPlans
<1>2. /\ \A of \in SeedNames : Upsert(of) \in Statements
      /\ \A of : Upsert(of).op = "upsert" /\ Upsert(of).item = <<"plan", of>>
  BY DEF Upsert, Statements, SeedTables
<1>3. p \in Seq(Statements)
  <2>1. /\ Upsert("free") \in Statements /\ Upsert("monthly") \in Statements
        /\ Upsert("quarterly") \in Statements /\ Upsert("yearly") \in Statements
    BY <1>2 DEF SeedNames
  <2> QED BY <2>1 DEF SeedPlans
<1> HIDE DEF p
<1>4. /\ p[1].item = <<"plan", "free">> /\ p[2].item = <<"plan", "monthly">>
      /\ p[3].item = <<"plan", "quarterly">> /\ p[4].item = <<"plan", "yearly">>
  BY <1>1, <1>2
<1>5. \A k \in 1 .. 4 : p[k].op = "upsert" /\ p[k].item[1] = "plan"
  BY <1>1, <1>2
<1>6. ASSUME NEW j \in 1 .. 4, NEW k \in 1 .. 4, p[j].item = p[k].item PROVE j = k
  BY <1>4, <1>6
<1>7. \A i : i \in Plans <=> \E k \in 1 .. 4 : p[k].item = i
  <2>1. Plans = {p[1].item, p[2].item, p[3].item, p[4].item}
    BY <1>4 DEF Plans
  <2> QED BY <2>1
<1> QED BY <1>1, <1>3, <1>5, <1>6, <1>7 DEF Makes, p

\* seedCategories.
LEMMA CategoriesMade == Makes(SeedCategories, {<<"category", "all">>})
<1> DEFINE p == SeedCategories
<1>1. Len(p) = 1
      /\ p[1] = Create("category", "all")
  BY DEF SeedCategories
<1>2. p \in Seq(Statements) BY StatementsOf, Words DEF SeedCategories
<1>3. /\ p[1].item = <<"category", "all">>
  BY <1>1, StatementsOf, Words
<1> HIDE DEF p
<1>4. \A k \in 1 .. 1 : p[k].op = "create" /\ p[k].item[1] # "plan"
  BY <1>1, <1>3, StatementsOf, Words
<1>5. ASSUME NEW j \in 1 .. 1, NEW k \in 1 .. 1, p[j].item = p[k].item PROVE j = k
  BY <1>3, <1>5
<1>6. \A i : i \in {<<"category", "all">>} <=> \E k \in 1 .. 1 : p[k].item = i
  BY <1>3
<1> QED BY <1>1, <1>2, <1>4, <1>5, <1>6 DEF Makes, p

\* seedTags.
LEMMA TagsMade == Makes(SeedTags, {<<"tag", "all">>})
<1> DEFINE p == SeedTags
<1>1. Len(p) = 1
      /\ p[1] = Create("tag", "all")
  BY DEF SeedTags
<1>2. p \in Seq(Statements) BY StatementsOf, Words DEF SeedTags
<1>3. /\ p[1].item = <<"tag", "all">>
  BY <1>1, StatementsOf, Words
<1> HIDE DEF p
<1>4. \A k \in 1 .. 1 : p[k].op = "create" /\ p[k].item[1] # "plan"
  BY <1>1, <1>3, StatementsOf, Words
<1>5. ASSUME NEW j \in 1 .. 1, NEW k \in 1 .. 1, p[j].item = p[k].item PROVE j = k
  BY <1>3, <1>5
<1>6. \A i : i \in {<<"tag", "all">>} <=> \E k \in 1 .. 1 : p[k].item = i
  BY <1>3
<1> QED BY <1>1, <1>2, <1>4, <1>5, <1>6 DEF Makes, p

\* seedPath.
LEMMA PathMade == Makes(SeedPath, PathItems)
<1> DEFINE p == SeedPath
<1>1. Len(p) = 4
      /\ p[1] = Create("path", PathId) /\ p[2] = Create("feature", PathId)
      /\ p[3] = Create("faq", PathId) /\ p[4] = Create("testimonial", PathId)
  BY DEF SeedPath
<1>2. p \in Seq(Statements) BY StatementsOf, Words DEF SeedPath
<1>3. /\ p[1].item = <<"path", PathId>> /\ p[2].item = <<"feature", PathId>>
      /\ p[3].item = <<"faq", PathId>> /\ p[4].item = <<"testimonial", PathId>>
  BY <1>1, StatementsOf, Words
<1> HIDE DEF p
<1>4. \A k \in 1 .. 4 : p[k].op = "create" /\ p[k].item[1] # "plan"
  BY <1>1, <1>3, StatementsOf, Words
<1>5. ASSUME NEW j \in 1 .. 4, NEW k \in 1 .. 4, p[j].item = p[k].item PROVE j = k
  BY <1>3, <1>5 DEF PathId
<1>6. \A i : i \in PathItems <=> \E k \in 1 .. 4 : p[k].item = i
  <2>1. PathItems = {p[1].item, p[2].item, p[3].item, p[4].item}
    BY <1>3 DEF PathItems
  <2> QED BY <2>1
<1> QED BY <1>1, <1>2, <1>4, <1>5, <1>6 DEF Makes, p

\* seedCourseDataAnalysis.
LEMMA DataAnalysisMade == Makes(SeedCourseDataAnalysis, CourseItems("data_analysis"))
<1> DEFINE p == SeedCourseDataAnalysis
<1>1. Len(p) = 5
      /\ p[1] = Create("course", "data_analysis") /\ p[2] = Create("feature", "data_analysis")
      /\ p[3] = Create("faq", "data_analysis") /\ p[4] = Create("testimonial", "data_analysis")
      /\ p[5] = Create("project", "data_analysis")
  BY DEF SeedCourseDataAnalysis
<1>2. p \in Seq(Statements) BY StatementsOf, Words DEF SeedCourseDataAnalysis
<1>3. /\ p[1].item = <<"course", "data_analysis">>
      /\ p[2].item = <<"feature", "data_analysis">>
      /\ p[3].item = <<"faq", "data_analysis">>
      /\ p[4].item = <<"testimonial", "data_analysis">>
      /\ p[5].item = <<"project", "data_analysis">>
  BY <1>1, StatementsOf, Words
<1> HIDE DEF p
<1>4. \A k \in 1 .. 5 : p[k].op = "create" /\ p[k].item[1] # "plan"
  BY <1>1, <1>3, StatementsOf, Words
<1>5. ASSUME NEW j \in 1 .. 5, NEW k \in 1 .. 5, p[j].item = p[k].item PROVE j = k
  BY <1>3, <1>5
<1>6. \A i : i \in CourseItems("data_analysis") <=> \E k \in 1 .. 5 : p[k].item = i
  <2>1. CourseItems("data_analysis") = {p[1].item, p[2].item, p[3].item, p[4].item,
          p[5].item}
    BY <1>3 DEF CourseItems
  <2> QED BY <2>1
<1> QED BY <1>1, <1>2, <1>4, <1>5, <1>6 DEF Makes, p

\* seedCourseDeepLearning.
LEMMA DeepLearningMade == Makes(SeedCourseDeepLearning, BriefItems("deep_learning"))
<1> DEFINE p == SeedCourseDeepLearning
<1>1. Len(p) = 3
      /\ p[1] = Create("course", "deep_learning") /\ p[2] = Create("feature", "deep_learning")
      /\ p[3] = Create("faq", "deep_learning")
  BY DEF SeedCourseDeepLearning
<1>2. p \in Seq(Statements) BY StatementsOf, Words DEF SeedCourseDeepLearning
<1>3. /\ p[1].item = <<"course", "deep_learning">>
      /\ p[2].item = <<"feature", "deep_learning">>
      /\ p[3].item = <<"faq", "deep_learning">>
  BY <1>1, StatementsOf, Words
<1> HIDE DEF p
<1>4. \A k \in 1 .. 3 : p[k].op = "create" /\ p[k].item[1] # "plan"
  BY <1>1, <1>3, StatementsOf, Words
<1>5. ASSUME NEW j \in 1 .. 3, NEW k \in 1 .. 3, p[j].item = p[k].item PROVE j = k
  BY <1>3, <1>5
<1>6. \A i : i \in BriefItems("deep_learning") <=> \E k \in 1 .. 3 : p[k].item = i
  <2>1. BriefItems("deep_learning") = {p[1].item, p[2].item, p[3].item}
    BY <1>3 DEF BriefItems
  <2> QED BY <2>1
<1> QED BY <1>1, <1>2, <1>4, <1>5, <1>6 DEF Makes, p

\* seedStandaloneCourse.
LEMMA StandaloneMade == Makes(SeedStandaloneCourse, CourseItems("sql"))
<1> DEFINE p == SeedStandaloneCourse
<1>1. Len(p) = 5
      /\ p[1] = Create("course", "sql") /\ p[2] = Create("feature", "sql")
      /\ p[3] = Create("faq", "sql") /\ p[4] = Create("testimonial", "sql")
      /\ p[5] = Create("project", "sql")
  BY DEF SeedStandaloneCourse
<1>2. p \in Seq(Statements) BY StatementsOf, Words DEF SeedStandaloneCourse
<1>3. /\ p[1].item = <<"course", "sql">> /\ p[2].item = <<"feature", "sql">>
      /\ p[3].item = <<"faq", "sql">> /\ p[4].item = <<"testimonial", "sql">>
      /\ p[5].item = <<"project", "sql">>
  BY <1>1, StatementsOf, Words
<1> HIDE DEF p
<1>4. \A k \in 1 .. 5 : p[k].op = "create" /\ p[k].item[1] # "plan"
  BY <1>1, <1>3, StatementsOf, Words
<1>5. ASSUME NEW j \in 1 .. 5, NEW k \in 1 .. 5, p[j].item = p[k].item PROVE j = k
  BY <1>3, <1>5
<1>6. \A i : i \in CourseItems("sql") <=> \E k \in 1 .. 5 : p[k].item = i
  <2>1. CourseItems("sql") = {p[1].item, p[2].item, p[3].item, p[4].item, p[5].item}
    BY <1>3 DEF CourseItems
  <2> QED BY <2>1
<1> QED BY <1>1, <1>2, <1>4, <1>5, <1>6 DEF Makes, p

\* seedUsersWithProgress.
LEMMA UsersMade == Makes(SeedUsersWithProgress, UserItems)
<1> DEFINE p == SeedUsersWithProgress
<1>1. Len(p) = 11
      /\ p[1] = Create("user", "user1") /\ p[2] = Create("first_lesson", "user1")
      /\ p[3] = Create("second_lesson", "user1") /\ p[4] = Create("section_progress", "user1")
      /\ p[5] = Create("course_progress", "user1") /\ p[6] = Create("path_progress", "user1")
      /\ p[7] = Create("last_position", "user1") /\ p[8] = Create("user", "user2")
      /\ p[9] = Create("first_lesson", "user2") /\ p[10] = Create("last_position", "user2")
      /\ p[11] = Create("certificate", "user2")
  BY DEF SeedUsersWithProgress
<1>2. p \in Seq(Statements) BY StatementsOf, Words DEF SeedUsersWithProgress
<1>3. /\ p[1].item = <<"user", "user1">> /\ p[2].item = <<"first_lesson", "user1">>
      /\ p[3].item = <<"second_lesson", "user1">>
      /\ p[4].item = <<"section_progress", "user1">>
      /\ p[5].item = <<"course_progress", "user1">> /\ p[6].item = <<"path_progress", "user1">>
      /\ p[7].item = <<"last_position", "user1">> /\ p[8].item = <<"user", "user2">>
      /\ p[9].item = <<"first_lesson", "user2">> /\ p[10].item = <<"last_position", "user2">>
      /\ p[11].item = <<"certificate", "user2">>
  BY <1>1, StatementsOf, Words
<1> HIDE DEF p
<1>4. \A k \in 1 .. 11 : p[k].op = "create" /\ p[k].item[1] # "plan"
  BY <1>1, <1>3, StatementsOf, Words
<1>5. ASSUME NEW j \in 1 .. 11, NEW k \in 1 .. 11, p[j].item = p[k].item PROVE j = k
  <2>1. /\ \A l \in 1 .. 7 : p[l].item[2] = "user1"
        /\ \A l \in 8 .. 11 : p[l].item[2] = "user2"
    BY <1>3
  <2>2. CASE j \in 1 .. 7 /\ k \in 1 .. 7 BY <1>3, <1>5, <2>2
  <2>3. CASE j \in 8 .. 11 /\ k \in 8 .. 11 BY <1>3, <1>5, <2>3
  <2> QED BY <1>5, <2>1, <2>2, <2>3
<1>6. \A i : i \in UserItems <=> \E k \in 1 .. 11 : p[k].item = i
  <2>1. UserItems = {p[1].item, p[2].item, p[3].item, p[4].item, p[5].item, p[6].item,
          p[7].item, p[8].item, p[9].item, p[10].item, p[11].item}
    BY <1>3 DEF UserItems
  <2> QED BY <2>1
<1> QED BY <1>1, <1>2, <1>4, <1>5, <1>6 DEF Makes, p

\* What the whole script makes.
SeedItems ==
  {} \cup {<<"category", "all">>} \cup {<<"tag", "all">>} \cup Plans \cup PathItems
    \cup CourseItems("data_analysis") \cup BriefItems("deep_learning") \cup CourseItems("sql")
    \cup UserItems

\* The script so far, after cleanup.
LEMMA CleanupFirst == Script(Cleanup, {})
<1>1. Len(Cleanup) = 8 BY DEF Cleanup
<1>2. /\ DeleteMany("feature") \in Statements /\ DeleteMany("faq") \in Statements
      /\ DeleteMany("testimonial") \in Statements /\ DeleteMany("user") \in Statements
      /\ DeleteMany("course") \in Statements /\ DeleteMany("path") \in Statements
      /\ DeleteMany("tag") \in Statements /\ DeleteMany("category") \in Statements
  BY Words DEF DeleteMany, Statements
<1>3. Cleanup \in Seq(Statements) BY <1>2 DEF Cleanup
<1> QED BY <1>1, <1>3 DEF Script

\* By whose they are, the functions make different items.
LEMMA ItemsApart ==
  /\ \A i \in {<<"category", "all">>} : i[1] = "category" /\ i[2] = "all"
  /\ \A i \in {<<"tag", "all">>} : i[1] = "tag" /\ i[2] = "all"
  /\ \A i \in Plans : i[1] = "plan" /\ i[2] \in {"free", "monthly", "quarterly", "yearly"}
  /\ \A i \in PathItems : i[2] = "path"
  /\ \A c, i : i \in CourseItems(c) \cup BriefItems(c) => i[2] = c
  /\ \A i \in UserItems : i[2] \in {"user1", "user2"}
<1>1. \A i \in Plans : i[1] = "plan" /\ i[2] \in {"free", "monthly", "quarterly", "yearly"}
  BY DEF Plans
<1>2. \A i \in PathItems : i[2] = "path" BY DEF PathItems, PathId
<1>3. \A c, i : i \in CourseItems(c) \cup BriefItems(c) => i[2] = c
  BY DEF CourseItems, BriefItems
<1>4. \A i \in UserItems : i[2] \in {"user1", "user2"} BY DEF UserItems
<1> QED BY <1>1, <1>2, <1>3, <1>4

\* The functions one after the other: main makes every item once.
LEMMA MainScript == Script(Main, SeedItems)
<1> DEFINE s1 == Cleanup \o SeedCategories
           s2 == s1 \o SeedTags
           s3 == s2 \o SeedPlans
           s4 == s3 \o SeedPath
           s5 == s4 \o SeedCourseDataAnalysis
           s6 == s5 \o SeedCourseDeepLearning
           s7 == s6 \o SeedStandaloneCourse
           i1 == {} \cup {<<"category", "all">>}
           i2 == i1 \cup {<<"tag", "all">>}
           i3 == i2 \cup Plans
           i4 == i3 \cup PathItems
           i5 == i4 \cup CourseItems("data_analysis")
           i6 == i5 \cup BriefItems("deep_learning")
           i7 == i6 \cup CourseItems("sql")
<1>1. /\ {} \cap {<<"category", "all">>} = {} /\ i1 \cap {<<"tag", "all">>} = {}
      /\ i2 \cap Plans = {} /\ i3 \cap PathItems = {}
      /\ i4 \cap CourseItems("data_analysis") = {}
      /\ i5 \cap BriefItems("deep_learning") = {}
      /\ i6 \cap CourseItems("sql") = {} /\ i7 \cap UserItems = {}
  BY ItemsApart
<1>2. Main = s7 \o SeedUsersWithProgress BY DEF Main
<1>3. SeedItems = i7 \cup UserItems BY DEF SeedItems
<1>4. Script(s1, i1) BY ONLY CleanupFirst, CategoriesMade, ScriptJoined, <1>1
<1> HIDE DEF s1, i1
<1>5. Script(s2, i2) BY ONLY <1>4, TagsMade, ScriptJoined, <1>1
<1> HIDE DEF s2, i2
<1>6. Script(s3, i3) BY ONLY <1>5, PlansMade, ScriptJoined, <1>1
<1> HIDE DEF s3, i3
<1>7. Script(s4, i4) BY ONLY <1>6, PathMade, ScriptJoined, <1>1
<1> HIDE DEF s4, i4
<1>8. Script(s5, i5) BY ONLY <1>7, DataAnalysisMade, ScriptJoined, <1>1
<1> HIDE DEF s5, i5
<1>9. Script(s6, i6) BY ONLY <1>8, DeepLearningMade, ScriptJoined, <1>1
<1> HIDE DEF s6, i6
<1>10. Script(s7, i7) BY ONLY <1>9, StandaloneMade, ScriptJoined, <1>1
<1> HIDE DEF s7, i7
<1> QED BY ONLY <1>2, <1>3, <1>10, UsersMade, ScriptJoined, <1>1

\* The script: what stands where in it.
Positions == 9 .. Len(Main)

\* What cleanup deletes, in its order.
LEMMA CleanupTables ==
  /\ Len(Cleanup) = 8 /\ \A d \in 1 .. 8 : Cleanup[d].op = "delete"
  /\ Cleanup[1].item[1] = "feature" /\ Cleanup[2].item[1] = "faq"
  /\ Cleanup[3].item[1] = "testimonial" /\ Cleanup[4].item[1] = "user"
  /\ Cleanup[5].item[1] = "course" /\ Cleanup[6].item[1] = "path"
  /\ Cleanup[7].item[1] = "tag" /\ Cleanup[8].item[1] = "category"
BY DEF Cleanup, DeleteMany

\* What stands where in main: the deletions, then each item of the fixture once.
LEMMA MainIs ==
  /\ Len(Main) \in Nat /\ Len(Main) >= 8 /\ DOMAIN Main = 1 .. Len(Main)
  /\ \A d \in 1 .. 8 : Main[d] = Cleanup[d] /\ Main[d].op = "delete"
  /\ \A k \in Positions :
       /\ Main[k].item \in Fixture
       /\ Main[k].op = (IF Main[k].item[1] = "plan" THEN "upsert" ELSE "create")
  /\ \A j, k \in Positions : Main[j].item = Main[k].item => j = k
  /\ \A i : i \in Fixture <=> \E k \in Positions : Main[k].item = i
  /\ Fixture = SeedItems
<1>1. Script(Main, SeedItems) BY MainScript
<1>2. /\ Main \in Seq(Statements) /\ Len(Main) \in Nat /\ Len(Main) >= 8
      /\ \A d \in 1 .. 8 : Main[d] = Cleanup[d]
      /\ \A k \in Positions : Main[k].op = (IF Main[k].item[1] = "plan" THEN "upsert" ELSE "create")
      /\ \A j, k \in Positions : Main[j].item = Main[k].item => j = k
      /\ \A i : i \in SeedItems <=> \E k \in Positions : Main[k].item = i
  BY <1>1 DEF Script, Positions
<1>3. DOMAIN Main = 1 .. Len(Main) BY <1>2, LenProperties
<1>4. \A d \in 1 .. 8 : Main[d].op = "delete" BY <1>2, CleanupTables
<1>5. ASSUME NEW i PROVE i \in Fixture <=> \E k \in Positions : Main[k].item = i
  <2>1. ASSUME NEW k \in Positions, Main[k].item = i PROVE i \in Fixture
    <3>1. k \in DOMAIN Main /\ Main[k].op # "delete" BY <1>2, <1>3, <2>1 DEF Positions
    <3> QED BY <2>1, <3>1 DEF Fixture
  <2>2. ASSUME i \in Fixture PROVE \E k \in Positions : Main[k].item = i
    <3>1. PICK k \in DOMAIN Main : Main[k].op # "delete" /\ Main[k].item = i
      BY <2>2 DEF Fixture
    <3>2. k \in Positions BY <1>2, <1>3, <1>4, <3>1 DEF Positions
    <3> QED BY <3>1, <3>2
  <2> QED BY <2>1, <2>2
<1>6. Fixture = SeedItems BY <1>2, <1>5
<1> QED BY <1>2, <1>3, <1>4, <1>5, <1>6

\* The cleanup reaches every table of the fixture except the plans.
LEMMA CleanupCovers ==
  ASSUME NEW i \in Fixture, i[1] # "plan"
  PROVE  \E d \in 1 .. 8 : i \in Cascade(Cleanup[d].item[1])
<1> DEFINE Kept == {"course", "feature", "faq", "testimonial", "project", "path"}
<1>1. i \in SeedItems BY MainIs
<1>2. \/ i[1] \in {"category", "tag"} \cup Kept
      \/ i[2] \in Users
  <2>1. \A x \in PathItems : x[1] \in Kept BY DEF PathItems
  <2>2. \A c, x : x \in CourseItems(c) \cup BriefItems(c) => x[1] \in Kept
    BY DEF CourseItems, BriefItems
  <2>3. \A x \in Plans : x[1] = "plan" BY ItemsApart
  <2>4. \A x \in UserItems : x[2] \in Users BY ItemsApart DEF Users
  <2> HIDE DEF Kept
  <2> QED BY <1>1, <2>1, <2>2, <2>3, <2>4, ItemsApart DEF SeedItems
<1>3. CASE i[2] \in Users BY <1>3, CleanupTables DEF Cascade
<1>4. CASE i[1] \in {"category", "tag"} BY <1>4, CleanupTables DEF Cascade
<1>5. CASE i[1] \in Kept BY <1>5, CleanupTables DEF Cascade
<1> QED BY <1>2, <1>3, <1>4, <1>5

\* The courses that refer to the path are of the fixture.
LEMMA CoursesOfThePath == \A c \in InPath : <<"course", c>> \in Fixture
BY MainIs DEF InPath, SeedItems, CourseItems, BriefItems

(***************************************************************************)
(* The runs.  While one is on, the items before the next statement are     *)
(* there once, and those it has yet to make are gone as soon as their      *)
(* table was deleted; between runs nothing is known of the rows.           *)
(***************************************************************************)
SeedTypeOK ==
  /\ rows \in [Fixture -> 0 .. 2] /\ at \in 0 .. Finished
  /\ taken \subseteq SlugItems \cup AddressItems
Filled == \A k \in Positions : k < at => rows[Main[k].item] = 1
Cleaned ==
  \A k \in Positions, d \in 1 .. 8 :
    d < at /\ at <= k /\ Main[k].item \in Cascade(Cleanup[d].item[1])
      => rows[Main[k].item] = 0
SeedInvariant == SeedTypeOK /\ (at # Stopped => Filled /\ Cleaned)

\* Before the first run.
LEMMA SeedInitially == SeedInit => SeedInvariant
BY MainIs DEF SeedInit, SeedInvariant, SeedTypeOK, Stopped, Finished

\* Before it is made, no copy of an item is left.
LEMMA MadeOfNothing ==
  ASSUME SeedInvariant, at \in Positions, Main[at].op = "create"
  PROVE  rows[Main[at].item] = 0
<1>1. Main[at].item \in Fixture /\ Main[at].item[1] # "plan" BY MainIs
<1>2. PICK d \in 1 .. 8 : Main[at].item \in Cascade(Cleanup[d].item[1])
  BY <1>1, CleanupCovers
<1>3. d < at /\ at <= at /\ at # Stopped BY DEF Positions, Stopped
<1> QED BY <1>2, <1>3 DEF SeedInvariant, Cleaned

\* A deletion of the cleanup.
LEMMA DeletionKeeps ==
  ASSUME SeedInvariant, Statement, at \in 1 .. 8
  PROVE  SeedInvariant'
<1> DEFINE t == Cleanup[at].item[1]
<1>1. Main[at] = Cleanup[at] /\ Main[at].op = "delete" BY MainIs
<1>2. /\ rows' = [i \in Fixture |-> IF i \in Cascade(t) THEN 0 ELSE rows[i]]
      /\ at' = at + 1 /\ taken' = taken
  BY <1>1 DEF Statement, Effect
<1>3. SeedTypeOK'
  BY <1>2, MainIs DEF SeedInvariant, SeedTypeOK, Finished
<1>4. Filled' BY <1>2 DEF Filled, Positions
<1>5. Cleaned'
  <2> SUFFICES ASSUME NEW k \in Positions, NEW d \in 1 .. 8, d < at + 1,
                      Main[k].item \in Cascade(Cleanup[d].item[1])
               PROVE  rows'[Main[k].item] = 0
    BY <1>2 DEF Cleaned, Cascade
  <2>1. Main[k].item \in Fixture BY MainIs
  <2>2. CASE d = at BY <1>2, <2>1, <2>2
  <2>3. CASE d < at
    <3>1. at <= k /\ at # Stopped BY DEF Positions, Stopped
    <3>2. rows[Main[k].item] = 0 BY <2>3, <3>1 DEF SeedInvariant, Cleaned
    <3> QED BY <1>2, <2>1, <3>2
  <2> QED BY <2>2, <2>3
<1> QED BY <1>3, <1>4, <1>5 DEF SeedInvariant

\* A statement that makes an item.
LEMMA MakingKeeps ==
  ASSUME SeedInvariant, Statement, at \in Positions
  PROVE  SeedInvariant'
<1> DEFINE i == Main[at].item
<1>1. i \in Fixture /\ Main[at].op \in {"create", "upsert"} BY MainIs
<1>2. rows \in [Fixture -> 0 .. 2] /\ at \in Nat /\ at # Stopped
  BY DEF SeedInvariant, SeedTypeOK, Positions, Stopped
<1>3. rows' = [rows EXCEPT ![i] = 1]
  <2>1. CASE Main[at].op = "upsert" BY <2>1 DEF Statement, Effect
  <2>2. CASE Main[at].op = "create"
    <3>1. rows[i] = 0 BY <2>2, MadeOfNothing
    <3> QED BY <1>1, <1>2, <2>2, <3>1 DEF Statement, Effect
  <2> QED BY <1>1, <2>1, <2>2
<1>4. at' = at + 1 /\ taken' = taken BY DEF Statement
<1>5. \A k \in Positions : k # at => Main[k].item # i BY MainIs
<1>6. \A k \in Positions : Main[k].item \in Fixture BY MainIs
<1> HIDE DEF i
<1>7. SeedTypeOK'
  BY <1>1, <1>2, <1>3, <1>4, MainIs DEF SeedInvariant, SeedTypeOK, Positions, Finished
<1>8. Filled'
  <2> SUFFICES ASSUME NEW k \in Positions, k < at + 1 PROVE rows'[Main[k].item] = 1
    BY <1>4 DEF Filled
  <2>1. CASE k = at BY <1>1, <1>2, <1>3, <2>1 DEF i
  <2>2. CASE k < at
    <3>1. rows[Main[k].item] = 1 BY <1>2, <2>2 DEF SeedInvariant, Filled
    <3> QED BY <1>2, <1>3, <1>5, <1>6, <2>2, <3>1
  <2> QED BY <1>2, <2>1, <2>2 DEF Positions
<1>9. Cleaned'
  <2> SUFFICES ASSUME NEW k \in Positions, NEW d \in 1 .. 8, at + 1 <= k,
                      Main[k].item \in Cascade(Cleanup[d].item[1])
               PROVE  rows'[Main[k].item] = 0
    BY <1>4 DEF Cleaned, Cascade
  <2>1. d < at /\ at <= k /\ k # at BY <1>2 DEF Positions
  <2>2. rows[Main[k].item] = 0 BY <1>2, <2>1 DEF SeedInvariant, Cleaned
  <2> QED BY <1>2, <1>3, <1>5, <1>6, <2>1, <2>2
<1> QED BY <1>7, <1>8, <1>9 DEF SeedInvariant

\* Every step of a run, and everybody else's, keeps the invariant.
LEMMA SeedStep == SeedInvariant /\ [SeedNext]_seedVars => SeedInvariant'
<1> SUFFICES ASSUME SeedInvariant, [SeedNext]_seedVars PROVE SeedInvariant'
  OBVIOUS
<1>1. CASE Start
  BY <1>1, MainIs DEF Start, SeedInvariant, SeedTypeOK, Filled, Cleaned, Positions, Finished
<1>2. CASE Statement
  <2>1. at \in 1 .. 8 \/ at \in Positions BY <1>2, MainIs DEF Statement, Positions
  <2> QED BY <1>2, <2>1, DeletionKeeps, MakingKeeps
<1>3. CASE Exit
  BY <1>3, MainIs DEF Exit, SeedInvariant, SeedTypeOK, Stopped, Finished
<1>4. ASSUME NEW i \in Fixture, TakeSlug(i) \/ ReleaseSlug(i) \/ TakeAddress(i)
      PROVE  SeedInvariant'
  <2>1. rows' = rows /\ at' = at /\ taken' \subseteq SlugItems \cup AddressItems
    BY <1>4 DEF TakeSlug, ReleaseSlug, TakeAddress, SeedInvariant, SeedTypeOK
  <2> QED BY <2>1 DEF SeedInvariant, SeedTypeOK, Filled, Cleaned, Cascade
<1>5. CASE UNCHANGED seedVars
  BY <1>5 DEF seedVars, SeedInvariant, SeedTypeOK, Filled, Cleaned, Cascade
<1> QED BY <1>1, <1>2, <1>3, <1>4, <1>5 DEF SeedNext

\* While a run is on, what it made is there once and what it will make is gone
\* as soon as its table was deleted, whatever runs were cut short before.
THEOREM SeedKept == SeedSpec => []SeedInvariant
BY SeedInitially, SeedStep, PTL DEF SeedSpec

\* After a run that ended every row of the fixture is there once.
THEOREM SeedOnce == SeedSpec => []SeededOnce
<1>1. SeedInvariant => SeededOnce
  <2> SUFFICES ASSUME SeedInvariant, at = Finished, NEW i \in Fixture PROVE rows[i] = 1
    BY DEF SeededOnce
  <2>1. PICK k \in Positions : Main[k].item = i BY MainIs
  <2>2. k < at /\ at # Stopped BY MainIs DEF Finished, Stopped, Positions
  <2> QED BY <2>1, <2>2 DEF SeedInvariant, Filled
<1> QED BY <1>1, SeedKept, PTL

\* No statement is refused except by a slug or an address of the fixture that
\* somebody else holds: keys and references of an earlier run never stop one.
THEOREM TakenKeysAlone == SeedSpec => []OnlyTakenKeysStopIt
<1>1. SeedInvariant => OnlyTakenKeysStopIt
  <2> SUFFICES ASSUME SeedInvariant, at \in DOMAIN Main, Refused(Main[at]),
                      Main[at].item \notin taken
               PROVE  FALSE
    BY DEF OnlyTakenKeysStopIt
  <2>1. at \in Nat /\ at # Stopped /\ (at \in 1 .. 8 \/ at \in Positions)
    BY MainIs DEF Positions, Stopped
  <2>2. CASE at \in 1 .. 8
    <3>1. Main[at] = Cleanup[at] /\ Main[at].op = "delete" BY <2>2, MainIs
    <3>2. Restricted(Cleanup[at].item[1]) BY <3>1 DEF Refused
    <3>3. ASSUME NEW i \in Fixture, NEW d \in 1 .. 8, d < at, i[1] = Cleanup[d].item[1]
          PROVE  rows[i] = 0
      <4>1. PICK k \in Positions : Main[k].item = i BY MainIs
      <4>2. at <= k BY <2>2 DEF Positions
      <4>3. i \in Cascade(Cleanup[d].item[1]) BY <3>3 DEF Cascade
      <4> QED BY <2>1, <3>3, <4>1, <4>2, <4>3 DEF SeedInvariant, Cleaned
    <3>4. CASE at = 6
      <4>1. PICK c \in InPath : rows[<<"course", c>>] > 0
        BY <3>2, <3>4, CleanupTables DEF Restricted
      <4>2. rows[<<"course", c>>] = 0
        <5>1. <<"course", c>> \in Fixture /\ <<"course", c>>[1] = Cleanup[5].item[1]
          BY CoursesOfThePath, CleanupTables
        <5> QED BY <3>3, <3>4, <5>1
      <4> QED BY <4>1, <4>2
    <3>5. CASE at = 8
      <4>1. PICK i \in Fixture : i[1] \in {"course", "path"} /\ rows[i] > 0
        BY <3>2, <3>5, CleanupTables DEF Restricted, Exists
      <4>2. i[1] = Cleanup[5].item[1] \/ i[1] = Cleanup[6].item[1]
        BY <4>1, CleanupTables
      <4>3. rows[i] = 0 BY <3>3, <3>5, <4>2
      <4> QED BY <4>1, <4>3
    <3>6. CASE at \notin {6, 8}
      <4>1. Cleanup[at].item[1] \notin {"path", "category"} BY <2>2, <3>6, CleanupTables
      <4> QED BY <3>2, <4>1 DEF Restricted
    <3> QED BY <3>4, <3>5, <3>6
  <2>3. CASE at \in Positions
    <3>1. Main[at].op = "create" /\ rows[Main[at].item] > 0
      BY <2>3, MainIs DEF Refused
    <3>2. rows[Main[at].item] = 0 BY <2>3, <3>1, MadeOfNothing
    <3> QED BY <3>1, <3>2
  <2> QED BY <2>1, <2>2, <2>3
<1> QED BY <1>1, SeedKept, PTL
=============================================================================
