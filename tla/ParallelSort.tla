---------------------------- MODULE ParallelSort ----------------------------
(***************************************************************************)
(* The merge sorts of Assignment2/sort.c (three threads beside the main    *)
(* one) and of Assignment1/psort.c and usort.c (a child process that sorts *)
(* one half in shared memory).  Sorting or merging a range takes two       *)
(* steps, from taking the range on to writing it back, so that what the    *)
(* actors do at the same time is visible.  merge is a library routine.     *)
(***************************************************************************)
EXTENDS Integers, FiniteSets, SequencesExt

CONSTANTS Keys,      \* the numbers to sort
          Lefts,     \* first indexes of the range to sort
          Lengths,   \* lengths of the range to sort
          Programs   \* among "sort", "psort" and "usort"

ASSUME SortAssumption ==
  /\ Keys \subseteq Int /\ Lefts \subseteq Nat /\ Lengths \subseteq Nat \ {0}
  /\ Programs \subseteq {"sort", "psort", "usort"}

VARIABLES program, left, right,
          arr, input,  \* the array, and as it was at the start
          shmem,       \* the shared segment, <<>> when there is none
          structs,     \* structs[i]: the range of thread i
          busy,        \* the range each actor works on, <<>> if none
          pc,          \* where each actor is
          forked       \* fork did not fail

vars == <<program, left, right, arr, input, shmem, structs, busy, pc, forked>>

Workers == 0 .. 2
Main == 3
Actors == 0 .. 3

Init ==
  /\ program \in Programs
  /\ left \in Lefts
  /\ \E n \in Lengths : right = left + n - 1
  /\ \E k \in Keys, s \in [1 .. right - left + 1 -> Keys] :
        arr = [i \in 1 .. left |-> k] \o s \o <<k>>
  /\ input = arr
  /\ shmem = <<>>
  /\ structs = [i \in Workers |-> <<>>]
  /\ busy = [i \in Actors |-> <<>>]
  /\ pc = [i \in Actors |-> IF i = Main THEN "call" ELSE "none"]
  /\ forked = TRUE

----------------------------------------------------------------------------
\* Element i of the C array is element i + 1 of its sequence.
At(a, i) == a[i + 1]
slice(a, l, r) == SubSeq(a, l + 1, r + 1)

\* Sequence s in the place of a[l .. r].
stored(a, l, r, s) == SubSeq(a, 1, l) \o s \o SubSeq(a, r + 2, Len(a))

merged[s, t \in Seq(Keys)] ==
  IF s = <<>> \/ t = <<>> THEN s \o t
  ELSE IF Head(s) <= Head(t) THEN <<Head(s)>> \o merged[Tail(s), t]
  ELSE <<Head(t)>> \o merged[s, Tail(t)]

\* merge of a[l .. m] and a[m + 1 .. r].
merge[a \in Seq(Keys), l, m, r \in Nat] ==
  stored(a, l, r, merged[slice(a, l, m), slice(a, m + 1, r)])

singleMergeSort[a \in Seq(Keys), l, r \in Nat] ==
  IF l >= r THEN a
  ELSE LET m == (l + r) \div 2
       IN  merge[singleMergeSort[singleMergeSort[a, l, m], m + 1, r], l, m, r]

\* An actor takes a range on; it ends up at the place it then works at.
Take(i, range, place) ==
  /\ busy' = [busy EXCEPT ![i] = range]
  /\ pc' = [pc EXCEPT ![i] = place]

----------------------------------------------------------------------------
\* The size of a segment, less one.
base_num == (right - left) \div 4

\* Small arrays are sorted in the main thread.
sort_small ==
  /\ program = "sort" /\ pc[Main] = "call" /\ right - left <= 4
  /\ arr' = singleMergeSort[arr, left, right]
  /\ pc' = [pc EXCEPT ![Main] = "done"]
  /\ UNCHANGED <<program, left, right, input, shmem, structs, busy, forked>>

\* Mutation: consecutive segments share an index.
segment_overlap(i) == <<left + i * base_num, left + (i + 1) * base_num>>

\* The range of thread i.
segment(i) == <<left + i * base_num + i, left + (i + 1) * base_num + i>>

\* The for loop that creates the threads, one iteration per step.
create_sorter(i) ==
  /\ program = "sort" /\ pc[Main] = "call" /\ right - left > 4
  /\ pc[i] = "none" /\ \A j \in Workers : j < i => pc[j] # "none"
  /\ structs' = [structs EXCEPT ![i] = segment(i)]
  /\ pc' = [pc EXCEPT ![i] = "Test"]
  /\ UNCHANGED <<program, left, right, arr, input, shmem, busy, forked>>

\* Test and Test2 copy their argument from structs when they first run.
worker_start(i) ==
  /\ pc[i] \in {"Test", "Test2"}
  /\ Take(i, structs[i], IF pc[i] = "Test" THEN "sorting" ELSE "merging")
  /\ UNCHANGED <<program, left, right, arr, input, shmem, structs, forked>>

\* Mutation: the middle of the first half is rounded up.
test2_mid_up(range) == (range[1] + range[2] + 1) \div 2

\* The middle Test2 computes from its range.
test2_mid(range) == (range[1] + range[2]) \div 2

worker_end(i) ==
  /\ program = "sort" /\ pc[i] \in {"sorting", "merging"}
  /\ arr' = IF pc[i] = "sorting" THEN singleMergeSort[arr, busy[i][1], busy[i][2]]
            ELSE merge[arr, busy[i][1], test2_mid(busy[i]), busy[i][2]]
  /\ Take(i, <<>>, "exited")
  /\ UNCHANGED <<program, left, right, input, shmem, structs, forked>>

\* The main thread sorts the last segment.
sort_last ==
  /\ program = "sort" /\ pc[Main] = "call" /\ right - left > 4
  /\ \A i \in Workers : pc[i] # "none"
  /\ Take(Main, <<left + 3 * base_num + 3, right>>, "sort_last")
  /\ UNCHANGED <<program, left, right, arr, input, shmem, structs, forked>>

sort_last_end ==
  /\ pc[Main] = "sort_last"
  /\ arr' = singleMergeSort[arr, busy[Main][1], busy[Main][2]]
  /\ Take(Main, <<>>, "join")
  /\ UNCHANGED <<program, left, right, input, shmem, structs, forked>>

\* Mutation: the loop joins one thread too many.
sorters_joined_four == \A i \in Actors : pc[i] = "exited"

\* The pthread_joins with all sorters return.
sorters_joined == \A i \in Workers : pc[i] = "exited"

\* structs[0] is used again, for a thread that merges the first half.
create_merger ==
  /\ pc[Main] = "join" /\ sorters_joined
  /\ structs' = [structs EXCEPT ![0] = <<left, left + 2 * base_num + 1>>]
  /\ pc' = [pc EXCEPT ![0] = "Test2", ![Main] = "merge"]
  /\ UNCHANGED <<program, left, right, arr, input, shmem, busy, forked>>

\* The main thread merges the second half.
merge_last ==
  /\ pc[Main] = "merge"
  /\ Take(Main, <<left + 2 * base_num + 2, right>>, "merge_last")
  /\ UNCHANGED <<program, left, right, arr, input, shmem, structs, forked>>

merge_last_end ==
  /\ pc[Main] = "merge_last"
  /\ arr' = merge[arr, busy[Main][1], left + 3 * base_num + 2, right]
  /\ Take(Main, <<>>, "join_merger")
  /\ UNCHANGED <<program, left, right, input, shmem, structs, forked>>

\* The merger is joined, and the halves are merged.
merge_halves ==
  /\ pc[Main] = "join_merger" /\ pc[0] = "exited"
  /\ arr' = merge[arr, left, left + 2 * base_num + 1, right]
  /\ pc' = [pc EXCEPT ![Main] = "done"]
  /\ UNCHANGED <<program, left, right, input, shmem, structs, busy, forked>>

----------------------------------------------------------------------------
\* Assignment1/psort.c and usort.c; worker 0 is the child process.
Child == 0
rel_mid == ((left + right) \div 2) - left + 1

\* usort returns at once when there is nothing to sort.
usort_nothing ==
  /\ program = "usort" /\ pc[Main] = "call" /\ right - left <= 0
  /\ pc' = [pc EXCEPT ![Main] = "done"]
  /\ UNCHANGED <<program, left, right, arr, input, shmem, structs, busy, forked>>

\* The left half is copied to the shared segment, then fork; the child sorts
\* the segment.  A failed fork is not told from the parent's return.
fork ==
  /\ program \in {"psort", "usort"} /\ pc[Main] = "call"
  /\ program = "usort" => right - left > 0
  /\ shmem' = slice(arr, left, left + rel_mid - 1)
  /\ forked' \in BOOLEAN
  /\ pc' = [pc EXCEPT ![Main] = "parent", ![Child] = IF forked' THEN "child" ELSE @]
  /\ UNCHANGED <<program, left, right, arr, input, structs, busy>>

child_sort ==
  /\ pc[Child] = "child"
  /\ shmem' = singleMergeSort[shmem, 0, rel_mid - 1]
  /\ pc' = [pc EXCEPT ![Child] = "exited"]
  /\ UNCHANGED <<program, left, right, arr, input, structs, busy, forked>>

parent_sort ==
  /\ pc[Main] = "parent"
  /\ arr' = singleMergeSort[arr, left + rel_mid, right]
  /\ pc' = [pc EXCEPT ![Main] = "wait"]
  /\ UNCHANGED <<program, left, right, input, shmem, structs, busy, forked>>

\* The loop that copies the sorted half back.
copied(a) == stored(a, left, left + rel_mid - 1, shmem)

\* wait returns when the child has exited, or at once if there is none.
parent_merge ==
  /\ pc[Main] = "wait" /\ (forked => pc[Child] = "exited")
  /\ arr' = merge[copied(arr), left, (left + right) \div 2, right]
  /\ shmem' = <<>>
  /\ pc' = [pc EXCEPT ![Main] = "done"]
  /\ UNCHANGED <<program, left, right, input, structs, busy, forked>>

----------------------------------------------------------------------------
Next ==
  \/ sort_small \/ sort_last \/ sort_last_end \/ create_merger
  \/ merge_last \/ merge_last_end \/ merge_halves
  \/ \E i \in Workers : create_sorter(i) \/ worker_start(i) \/ worker_end(i)
  \/ usort_nothing \/ fork \/ child_sort \/ parent_sort \/ parent_merge

\* Every thread and process that can take a step is run at last.
Spec == Init /\ [][Next]_vars /\ WF_vars(Next)

----------------------------------------------------------------------------
\* Types of the variables.
TypeOK ==
  /\ arr \in [1 .. Len(input) -> Keys] /\ shmem \in Seq(Keys)
  /\ \A i \in Actors : busy[i] = <<>> \/ busy[i] \in (left .. right + 1) \X (left .. right)
  /\ forked \in BOOLEAN

\* multiThreadedMergeSort or multiProcessMergeSort returns with the range sorted, if its fork did not fail.
SortedAtEnd ==
  pc[Main] = "done" /\ forked => \A i \in left .. right - 1 : At(arr, i) <= At(arr, i + 1)

Count(a, k) == Cardinality({i \in DOMAIN a : a[i] = k})

\* Whatever the interleaving, and even if fork failed, the call returns with
\* the numbers it was given, and with those outside the range untouched.
NothingLost ==
  pc[Main] = "done" =>
    /\ \A k \in Keys : Count(arr, k) = Count(input, k)
    /\ \A i \in 0 .. Len(arr) - 1 : i \notin left .. right => At(arr, i) = At(input, i)

\* Both: what multiThreadedMergeSort and multiProcessMergeSort return is the
\* input, sorted in the range, for every length and interleaving.
SortsInput == TypeOK /\ SortedAtEnd /\ NothingLost

\* Threads that work at the same time work on disjoint ranges of the array.
NoDataRace ==
  \A i, j \in Actors :
    i # j /\ busy[i] # <<>> /\ busy[j] # <<>> =>
      busy[i][1] .. busy[i][2] \cap busy[j][1] .. busy[j][2] = {}

\* multiThreadedMergeSort and multiProcessMergeSort return: nobody waits for a
\* thread or a process that was never created or has already been waited for.
Returns == <>(pc[Main] = "done")
=============================================================================
