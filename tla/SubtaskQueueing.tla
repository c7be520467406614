-------------------------- MODULE SubtaskQueueing --------------------------
(***************************************************************************)
(* How a queryset is cut into the lists of subtasks                        *)
(* (queue_subtasks_for_query).                                             *)
(*                                                                         *)
(* The items are counted first; from the count follow the number of        *)
(* subtasks, which is stored in the InstructorTask, and the number of      *)
(* queries.  Each query then reads the items after the last primary key    *)
(* seen and yields them in chunks.  Nothing of this happens in one         *)
(* transaction: items may come and go between any two of the queries.      *)
(*                                                                         *)
(* Source: lms/djangoapps/instructor_task/subtasks.py.                     *)
(***************************************************************************)
EXTENDS Integers, Sequences, FiniteSets

CONSTANTS
  Keys,           \* primary keys an item may have
  ItemsPerQuery, ItemsPerTask,
  MaxAdded,       \* bound: items that appear while queueing
  MaxRemoved      \* bound: items that disappear while queueing

ASSUME KeysAssumption == Keys \subseteq Nat \ {0} /\ IsFiniteSet(Keys)
ASSUME SizeAssumption == ItemsPerQuery \in Nat \ {0} /\ ItemsPerTask \in Nat \ {0}
ASSUME ChangeAssumption == MaxAdded \in Nat /\ MaxRemoved \in Nat

VARIABLES
  items,      \* keys of the items that are in the queryset now
  pc,         \* where queue_subtasks_for_query is
  total,      \* total_num_items
  available,  \* available_num_subtasks
  query,      \* query_number
  lastPk,     \* last_pk
  chunks,     \* the item lists that were queued, in order
  stayed,     \* history: items in the queryset ever since they were counted
  changes     \* how many items were added and removed

vars == <<items, pc, total, available, query, lastPk, chunks, stayed, changes>>

-----------------------------------------------------------------------------
CeilDiv(a, b) == (a + b - 1) \div b

SmallerOf(a, b) == IF a <= b THEN a ELSE b

\* Number of the elements of S below x.
Rank(x, S) == Cardinality({y \in S : y < x})

\* The elements of S from position i up to position j, j excluded.
SliceThrough(S, i, j) == {x \in S : i <= Rank(x, S) /\ Rank(x, S) <= j}  \* mutant
Slice(S, i, j) == {x \in S : i <= Rank(x, S) /\ Rank(x, S) < j}

NumberOfQueries(n) == CeilDiv(n, ItemsPerQuery)

\* Subtasks needed for the first q queries, when there are n items.
NumberOfSubtasksUpTo(n) ==
  LET f[q \in Nat] ==
        IF q = 0 THEN 0
        ELSE f[q - 1] + CeilDiv(SmallerOf(n - (q - 1) * ItemsPerQuery, ItemsPerQuery),
                                ItemsPerTask)
  IN  f

NumberOfSubtasks(n) == NumberOfSubtasksUpTo(n)[NumberOfQueries(n)]

Init ==
  /\ items \in SUBSET Keys
  /\ pc = "count"
  /\ total = 0 /\ available = 0 /\ query = 0 /\ lastPk = 0
  /\ chunks = <<>>
  /\ stayed = {}
  /\ changes = [added |-> 0, removed |-> 0]

\* item_queryset.count(); the row is saved with an id per planned subtask.
Count ==
  /\ pc = "count"
  /\ total' = Cardinality(items)
  /\ available' = NumberOfSubtasks(Cardinality(items))
  /\ stayed' = items
  /\ pc' = "first"
  /\ UNCHANGED <<items, query, lastPk, chunks, changes>>

Smallest(S) == CHOOSE x \in S : Rank(x, S) = 0
Largest(S)  == CHOOSE x \in S : Rank(x, S) = Cardinality(S) - 1

\* Without items there is no first one: IndexError.
FindFirst ==
  /\ pc = "first"
  /\ IF items = {}
       THEN pc' = "failed" /\ UNCHANGED lastPk
       ELSE /\ lastPk' = Smallest(items) - 1
            /\ pc' = IF NumberOfQueries(total) = 0 THEN "done" ELSE "query"
  /\ UNCHANGED <<items, total, available, query, chunks, stayed, changes>>

LastQuery == query = NumberOfQueries(total) - 1

\* What the current query returns: the last one takes all that is left.
Sublist ==
  LET after == {x \in items : x > lastPk} IN
  IF LastQuery THEN after ELSE Slice(after, 0, ItemsPerQuery)

TasksUncapped(n) == CeilDiv(n, ItemsPerTask)  \* mutant: more subtasks than ids
TasksThisQuery(n) == SmallerOf(available, CeilDiv(n, ItemsPerTask))

ChunkSize(n) == CeilDiv(n, TasksThisQuery(n))

\* item_sublist[-1] fails on an empty list.
QueryFails ==
  /\ pc = "query"
  /\ Sublist = {}
  /\ pc' = "failed"
  /\ UNCHANGED <<items, total, available, query, lastPk, chunks, stayed, changes>>

\* The chunks are slices of a list that has been read: no change of the items
\* comes between them.
Query ==
  LET n == Cardinality(Sublist)
      k == TasksThisQuery(n)
      c == ChunkSize(n)
  IN  /\ pc = "query"
      /\ Sublist # {}
      /\ lastPk' = Largest(Sublist)
      /\ available' = available - k
      /\ chunks' = chunks \o [i \in 1..k |-> Slice(Sublist, (i - 1) * c, (i - 1) * c + c)]
      /\ query' = query + 1
      /\ pc' = IF LastQuery THEN "done" ELSE "query"
      /\ UNCHANGED <<items, total, stayed, changes>>

\* An item comes into the queryset (a student enrolls) ...
Enroll(x) ==
  /\ changes.added < MaxAdded
  /\ x \notin items
  /\ items' = items \cup {x}
  /\ changes' = [changes EXCEPT !.added = @ + 1]
  /\ UNCHANGED <<pc, total, available, query, lastPk, chunks, stayed>>

\* ... or leaves it.
Unenroll(x) ==
  /\ changes.removed < MaxRemoved
  /\ x \in items
  /\ items' = items \ {x}
  /\ stayed' = stayed \ {x}
  /\ changes' = [changes EXCEPT !.removed = @ + 1]
  /\ UNCHANGED <<pc, total, available, query, lastPk, chunks>>

Next ==
  \/ Count \/ FindFirst \/ Query \/ QueryFails
  \/ \E x \in Keys : Enroll(x) \/ Unenroll(x)

Spec == Init /\ [][Next]_vars

-----------------------------------------------------------------------------
Queued == UNION {chunks[i] : i \in DOMAIN chunks}

TypeOK ==
  /\ items \in SUBSET Keys /\ stayed \in SUBSET Keys
  /\ pc \in {"count", "first", "query", "done", "failed"}
  /\ total \in Nat /\ available \in Nat /\ query \in Nat /\ lastPk \in Nat
  /\ chunks \in Seq(SUBSET Keys)
  /\ changes \in [added : 0..MaxAdded, removed : 0..MaxRemoved]

\* Whatever comes and goes between the queries, no item is handed to two subtasks, and
\* when the queueing ends every item that was there from the count on is in one:
\* neither the slicing nor the cursor last_pk repeats or skips one (subtasks.py:75-106).
QueuedOnce ==
  /\ \A i, j \in DOMAIN chunks : i # j => chunks[i] \cap chunks[j] = {}
  /\ pc = "done" => stayed \subseteq Queued

\* There is an id for every chunk (subtask_id_list[num_subtasks] never fails);
\* whenever items are left to distribute, a subtask to take them (no division by 0);
\* and when nobody leaves, a chunk for every id: otherwise the row waits for subtasks
\* that do not exist.  The docstring of _get_number_of_subtasks claims the last part
\* of every queueing (subtasks.py:39-40); with leavers it fails.
ChunksFitIds ==
  /\ Len(chunks) <= NumberOfSubtasks(total)
  /\ pc = "query" => available > 0
  /\ pc = "done" /\ changes.removed = 0 => Len(chunks) = NumberOfSubtasks(total)
=============================================================================
