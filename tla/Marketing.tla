------------------------------ MODULE Marketing ------------------------------
(***************************************************************************)
(* The order of the marketing rows of one owner: features, faqs and        *)
(* testimonials are three tables with the same operations, and this is any *)
(* of them.  create numbers a row after the last one it sees, reorder      *)
(* checks its list against the rows and then renumbers them in one         *)
(* transaction, whose updates lock row after row.  What a page shows of    *)
(* them is in Discovery.                                                   *)
(***************************************************************************)
EXTENDS Integers, Sequences, FiniteSets

CONSTANTS
  Writers, Items,
  MaxOrder,  \* bound: the highest order
  Free       \* the lock of a row nobody holds

\* The bound leaves room for the positions of a list of all rows.
ASSUME OrderAssumption ==
  /\ IsFiniteSet(Items) /\ MaxOrder \in Nat /\ Cardinality(Items) <= MaxOrder + 1
  /\ Free \notin Writers

Gone == -1
Numbers == 0 .. MaxOrder
NoWrite == [at |-> "idle", list |-> <<>>, done |-> 0, order |-> 0, overtaken |-> FALSE]

VARIABLES
  order,     \* the rows, committed
  lock,      \* lock[i]: the transaction that has updated row i
  writer,    \* writer[w]: where a create or reorder is
  arbitrary, \* history: rows numbered on outdated knowledge, or as the caller said
  last       \* history: the positions the last reorder gave, until changed one by one

marketingVars == <<order, lock, writer, arbitrary, last>>

MarketingInit ==
  /\ order = [i \in Items |-> Gone]
  /\ lock = [i \in Items |-> Free]
  /\ writer = [w \in Writers |-> NoWrite]
  /\ arbitrary = {} /\ last = [i \in Items |-> Gone]

Rows == {i \in Items : order[i] # Gone}

\* findFirst, orderBy order desc: one more than the highest.
NextOrder_Count == Cardinality(Rows)  \* (mutated form: the number of rows)
NextOrder ==
  IF Rows = {} THEN 0
  ELSE 1 + CHOOSE n \in Numbers :
             (\E i \in Rows : order[i] = n) /\ (\A i \in Rows : order[i] <= n)

\* A row that appears or is renumbered overtakes those that are at `stages`.
Overtake(w, stages) ==
  [v \in Writers |->
     IF v = w THEN NoWrite
     ELSE [writer[v] EXCEPT !.overtaken = @ \/ writer[v].at \in stages]]

ReadNextOrder(w) ==
  /\ writer[w] = NoWrite /\ NextOrder \in Numbers
  /\ writer' = [writer EXCEPT ![w].at = "insert", ![w].order = NextOrder]
  /\ UNCHANGED <<order, lock, arbitrary, last>>

CreateRow(w) ==
  /\ writer[w].at = "insert"
  /\ \E i \in Items \ Rows :
       /\ order' = [order EXCEPT ![i] = writer[w].order]
       /\ arbitrary' = IF writer[w].overtaken THEN arbitrary \cup {i} ELSE arbitrary
  /\ writer' = Overtake(w, {"insert", "reorder"})
  /\ UNCHANGED <<lock, last>>

\* update, and create, with an order in the body.
SetOrder(i, n) ==
  /\ lock[i] = Free
  /\ order' = [order EXCEPT ![i] = n]
  /\ arbitrary' = arbitrary \cup {i}
  /\ last' = [last EXCEPT ![i] = Gone]
  /\ writer' = [v \in Writers |-> [writer[v] EXCEPT
       !.overtaken = @ \/ writer[v].at = "insert" \/ (order[i] = Gone /\ writer[v].at = "reorder")]]
  /\ UNCHANGED lock

RemoveRow(i) ==
  /\ i \in Rows /\ lock[i] = Free
  /\ order' = [order EXCEPT ![i] = Gone]
  /\ arbitrary' = arbitrary \ {i}
  /\ last' = [last EXCEPT ![i] = Gone]
  /\ UNCHANGED <<lock, writer>>

Lists == {s \in UNION {[1..n -> Items] : n \in 0..Cardinality(Items)} :
            Cardinality({s[k] : k \in DOMAIN s}) = Len(s)}

\* assertNoDuplicates, fetchCurrentIds, assertSetEquality: otherwise a 400.
SameRows(s) == {s[k] : k \in DOMAIN s} = Rows

CheckList(w, s) ==
  /\ writer[w] = NoWrite /\ SameRows(s)
  /\ writer' = [writer EXCEPT ![w].at = "reorder", ![w].list = s]
  /\ UNCHANGED <<order, lock, arbitrary, last>>

\* One update of the transaction. It waits for the row's lock.
UpdateNext_Alone(w) ==  \* (mutated form: every update commits by itself)
  /\ writer[w].at = "reorder" /\ writer[w].done < Len(writer[w].list)
  /\ LET i == writer[w].list[writer[w].done + 1] IN
       /\ i \in Rows /\ order' = [order EXCEPT ![i] = writer[w].done]
  /\ writer' = [writer EXCEPT ![w].done = @ + 1]
  /\ UNCHANGED <<lock, arbitrary, last>>
UpdateNext(w) ==
  /\ writer[w].at = "reorder" /\ writer[w].done < Len(writer[w].list)
  /\ LET i == writer[w].list[writer[w].done + 1] IN
       /\ i \in Rows /\ lock[i] = Free
       /\ lock' = [lock EXCEPT ![i] = w]
  /\ writer' = [writer EXCEPT ![w].done = @ + 1]
  /\ UNCHANGED <<order, arbitrary, last>>

Unlocked(w) == [i \in Items |-> IF lock[i] = w THEN Free ELSE lock[i]]

CommitOrder(w) ==
  LET s == writer[w].list
      Position(i) == (CHOOSE k \in DOMAIN s : s[k] = i) - 1 IN
  /\ writer[w].at = "reorder" /\ writer[w].done = Len(s)
  /\ order' = [i \in Items |-> IF lock[i] = w THEN Position(i) ELSE order[i]]
  /\ arbitrary' = IF writer[w].overtaken THEN Rows ELSE {}
  /\ last' = [i \in Items |-> IF \E k \in DOMAIN s : s[k] = i THEN Position(i) ELSE Gone]
  /\ lock' = Unlocked(w)
  /\ writer' = Overtake(w, {"insert"})

\* P2025 because a row is gone, the victim of a deadlock, a lost connection.
AbortOrder(w) ==
  /\ writer[w].at = "reorder"
  /\ lock' = Unlocked(w)
  /\ writer' = [writer EXCEPT ![w] = NoWrite]
  /\ UNCHANGED <<order, arbitrary, last>>

MarketingNext ==
  \/ \E w \in Writers :
       \/ ReadNextOrder(w) \/ CreateRow(w)
       \/ \E s \in Lists : CheckList(w, s)
       \/ UpdateNext(w) \/ CommitOrder(w) \/ AbortOrder(w)
  \/ \E i \in Items : RemoveRow(i) \/ \E n \in Numbers : SetOrder(i, n)

MarketingSpec == MarketingInit /\ [][MarketingNext]_marketingVars

\* Two rows share an order only if one of them was numbered by a request that
\* another overtook, or by the caller: the lists sort ties by id, not as meant.
TiesOnlyWhenOvertaken ==
  \A i, j \in Rows \ arbitrary : i # j => order[i] # order[j]

\* The rows a reorder named keep the positions it gave them, except one that is
\* numbered alone, however many reorders overlapped: never a mixture of two lists.
LastReorderStands == \A i \in Rows : last[i] # Gone => order[i] = last[i]
=============================================================================
