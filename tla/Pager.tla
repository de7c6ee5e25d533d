------------------------------- MODULE Pager -------------------------------
(***************************************************************************)
(* Assignment5/pager.c: page replacement with five algorithms.  The        *)
(* simulator, a library outside the sources, requests pages one by one;    *)
(* sim_get_page tells it of a fault.  queue holds the resident pages; for  *)
(* LFU the other members of struct freq_page are uses and last.  bit_refs  *)
(* and freq_list come from a malloc of 4 MB that is not initialised: one   *)
(* of that size is mapped afresh, and so is zero.                          *)
(***************************************************************************)
EXTENDS Integers, FiniteSets, SequencesExt

CONSTANTS Pages,
          NoPage,
          Algorithms,    \* of enum algorithm
          Frames,        \* numbers of frames to try
          MaxRequests    \* bound: the length of a simulation

FIRST_IN_FIRST_OUT == 0
LEAST_RECENTLY_USED == 1
LEAST_FREQUENTLY_USED == 2
SECOND_CHANCE == 3
CIRCULAR_QUEUE == 4

ASSUME PagerAssumption ==
  /\ IsFiniteSet(Pages) /\ NoPage \notin Pages
  /\ Algorithms \subseteq FIRST_IN_FIRST_OUT .. CIRCULAR_QUEUE
  /\ Frames \subseteq Nat \ {0}
  /\ MaxRequests \in Nat

VARIABLES alg, max_size,
          queue,       \* the resident pages
          freq_list,   \* requests of each page, as the code counts them
          uses, last,  \* struct freq_page of the resident pages
          bit_refs,
          step,        \* number of requests so far
          live,        \* between pager_init and pager_destroy
          victim,      \* the page the last request evicted
          loaded_at, requested_at,  \* history: last load, last request, or 0
          passed_at,                \* history: last second chance, or 0
          requests, since_load      \* history: all requests of a page, those since its load

codeVars == <<queue, freq_list, uses, last, bit_refs>>
historyVars == <<victim, loaded_at, requested_at, passed_at, requests, since_load>>
vars == <<alg, max_size, codeVars, step, live, historyVars>>

Zero == [p \in Pages |-> 0]

\* pager_init
Init ==
  /\ alg \in Algorithms /\ max_size \in Frames
  /\ queue = <<>>
  /\ freq_list = Zero /\ uses = Zero /\ last = Zero /\ bit_refs = Zero
  /\ step = 0 /\ live = TRUE
  /\ victim = NoPage /\ loaded_at = Zero /\ requested_at = Zero /\ passed_at = Zero
  /\ requests = Zero /\ since_load = Zero

Resident == ToSet(queue)
Full == Len(queue) = max_size

----------------------------------------------------------------------------
\* Mutation: a hit leaves the page where it is.
hit_queue_kept(page) == queue

\* find_elem takes the page, which is there once, out of the queue under LRU,
\* and pager_request appends it.
hit_queue(page) ==
  LET at == CHOOSE i \in 1 .. Len(queue) : queue[i] = page
  IN  IF alg = LEAST_RECENTLY_USED THEN Append(RemoveAt(queue, at), page) ELSE queue

\* Mutation: the sense of the two algorithms is confused.
hit_bit_swapped == IF alg = SECOND_CHANCE THEN 0 ELSE 1

\* The reference bit of a page that was hit; CIRCULAR_QUEUE uses zero for it.
hit_bit == IF alg = SECOND_CHANCE THEN 1 ELSE 0

\* A request for a resident page, not under LFU.
hit(page) ==
  /\ page \in Resident
  /\ queue' = hit_queue(page)
  /\ bit_refs' = IF alg \in {SECOND_CHANCE, CIRCULAR_QUEUE}
                 THEN [bit_refs EXCEPT ![page] = hit_bit] ELSE bit_refs
  /\ victim' = NoPage
  /\ UNCHANGED <<loaded_at, passed_at>>

\* How many pages at the front of the queue the two clock algorithms pass,
\* flipping their bits and moving them to the end, before they evict one.
\* If all are passed, the first of them is evicted on the second turn.
passed ==
  LET chance(i) == bit_refs[queue[i]] = (IF alg = SECOND_CHANCE THEN 1 ELSE 0)
      stops == {i \in 1 .. Len(queue) : ~chance(i)}
  IN  IF alg \in {SECOND_CHANCE, CIRCULAR_QUEUE} THEN Min(stops \cup {Len(queue) + 1}) - 1 ELSE 0

\* A frame has to be freed.
evicts == Full

\* A request for a page that is not resident, not under LFU.
miss(page) ==
  LET front == SubSeq(queue, 1, passed)
      rotated == SubSeq(queue, passed + 1, Len(queue)) \o front
      asked == IF alg = CIRCULAR_QUEUE THEN [bit_refs EXCEPT ![page] = 0] ELSE bit_refs
  IN  /\ page \notin Resident
      /\ IF evicts
         THEN /\ victim' = Head(rotated)
              /\ queue' = Append(Tail(rotated), page)
              /\ bit_refs' = [p \in Pages |->
                                IF p \in ToSet(front) THEN 1 - bit_refs[p] ELSE asked[p]]
              /\ passed_at' = [p \in Pages |->
                                IF p \in ToSet(front) THEN step + 1 ELSE passed_at[p]]
         ELSE /\ victim' = NoPage
              /\ queue' = Append(queue, page)
              /\ bit_refs' = asked
              /\ UNCHANGED passed_at
      /\ loaded_at' = [loaded_at EXCEPT ![page] = step + 1]

\* Mutation: of two pages with equal uses the later one goes first.
sort_freq_later(q, us, ls) ==
  CHOOSE s \in SetToSeqs(ToSet(q)) :
    \A i, j \in 1 .. Len(q) :
      i < j => us[s[i]] < us[s[j]] \/ (us[s[i]] = us[s[j]] /\ ls[s[i]] > ls[s[j]])

\* queue_sort on sort_freq: by uses, then by last, which is never equal.
sort_freq(q, us, ls) ==
  CHOOSE s \in SetToSeqs(ToSet(q)) :
    \A i, j \in 1 .. Len(q) :
      i < j => us[s[i]] < us[s[j]] \/ (us[s[i]] = us[s[j]] /\ ls[s[i]] < ls[s[j]])

\* freq_list of the evicted page starts anew.
forget(freq) == [freq EXCEPT ![Head(queue)] = 0]

\* Any request under LFU.  A new page starts with its freq_list; the head of
\* the sorted queue is evicted for it.
request_lfu(page) ==
  LET freq == [freq_list EXCEPT ![page] = @ + 1]
      found == page \in Resident
      full == ~found /\ Full
      us == [uses EXCEPT ![page] = IF found THEN @ + 1 ELSE freq[page]]
      ls == [last EXCEPT ![page] = step]
      q == IF found THEN queue ELSE Append(IF full THEN Tail(queue) ELSE queue, page)
  IN  /\ freq_list' = IF full THEN forget(freq) ELSE freq
      /\ uses' = us /\ last' = ls
      /\ queue' = sort_freq(q, us, ls)
      /\ victim' = IF full THEN Head(queue) ELSE NoPage
      /\ loaded_at' = IF found THEN loaded_at ELSE [loaded_at EXCEPT ![page] = step + 1]
      /\ UNCHANGED <<bit_refs, passed_at>>

pager_request(page) ==
  /\ live /\ step < MaxRequests
  /\ IF alg = LEAST_FREQUENTLY_USED
     THEN request_lfu(page)
     ELSE (hit(page) \/ miss(page)) /\ UNCHANGED <<freq_list, uses, last>>
  /\ step' = step + 1
  /\ requested_at' = [requested_at EXCEPT ![page] = step + 1]
  /\ requests' = [requests EXCEPT ![page] = @ + 1]
  /\ since_load' = [since_load EXCEPT ![page] = IF page \in Resident THEN @ + 1 ELSE 1]
  /\ UNCHANGED <<alg, max_size, live>>

pager_destroy ==
  /\ live
  /\ live' = FALSE /\ queue' = <<>>
  /\ victim' = NoPage
  /\ UNCHANGED <<alg, max_size, freq_list, uses, last, bit_refs, step,
                 loaded_at, requested_at, passed_at, requests, since_load>>

Next == (\E page \in Pages : pager_request(page)) \/ pager_destroy

Spec == Init /\ [][Next]_vars

----------------------------------------------------------------------------
\* Types of the variables.
TypeOK ==
  /\ alg \in Algorithms /\ max_size \in Frames
  /\ queue \in Seq(Pages) /\ Len(queue) <= max_size
  /\ bit_refs \in [Pages -> 0 .. 1]
  /\ step \in 0 .. MaxRequests /\ live \in BOOLEAN
  /\ victim \in Pages \cup {NoPage}
  /\ \A f \in {freq_list, uses, last, loaded_at, requested_at, passed_at, requests, since_load} :
       f \in [Pages -> 0 .. MaxRequests]

\* The N pages with the latest time in f, out of those ever requested.
Latest(f, n) ==
  {p \in Pages : requests[p] > 0 /\ Cardinality({q \in Pages : f[q] > f[p]}) < n}

\* FIFO keeps the pages loaded last, LRU the pages requested last: what the
\* queue holds is what the definition of the algorithm says it holds, in no
\* more frames than there are.
ContentsAsDefined ==
  /\ TypeOK
  /\ live =>
       /\ Len(queue) = Cardinality(Resident)
       /\ alg = FIRST_IN_FIRST_OUT => Resident = Latest(loaded_at, max_size)
       /\ alg = LEAST_RECENTLY_USED => Resident = Latest(requested_at, max_size)

\* The page was requested since its last second chance; a load counts as a
\* request only for CIRCULAR_QUEUE.
Referenced(p) ==
  /\ requested_at[p] > passed_at[p]
  /\ alg = SECOND_CHANCE => requested_at[p] > loaded_at[p]

\* When the page was put at the back of the queue.
Turn(p) == IF passed_at[p] > loaded_at[p] THEN passed_at[p] ELSE loaded_at[p]

\* Under the two clock algorithms a page that was requested since it last had
\* a second chance is evicted only if all the resident ones were, and then it
\* is the one whose turn is first.
ClockVictim ==
  [][victim' # NoPage /\ alg \in {SECOND_CHANCE, CIRCULAR_QUEUE} =>
       /\ Referenced(victim') => \A p \in Resident : Referenced(p)
       /\ \A p \in Resident :
            (Referenced(p) <=> Referenced(victim')) => Turn(victim') <= Turn(p)]_vars

\* The page was requested before its last load: it has been evicted since.
Reloaded(p) == requests[p] > since_load[p]

\* LFU evicts a page with the fewest requests since its load, and among those
\* the one that was requested first.  That is not the "Infinite history" of
\* simulator.h: an eviction clears the counter (pager_request), so a page with
\* more requests in the whole simulation than one that stays may go, but only
\* if it had been evicted before.
LfuVictim ==
  [][alg = LEAST_FREQUENTLY_USED /\ victim' # NoPage =>
       \A p \in Resident :
         /\ \/ since_load[victim'] < since_load[p]
            \/ since_load[victim'] = since_load[p] /\ requested_at[victim'] <= requested_at[p]
         /\ requests[victim'] > requests[p] => Reloaded(victim')]_vars

\* "Infinite history" (enum algorithm): no page that stayed resident while LFU
\* evicted another for the last request had fewer requests in the whole
\* simulation than that one.
LfuInfiniteHistory ==
  alg = LEAST_FREQUENTLY_USED /\ victim # NoPage =>
    \A p \in Resident : requested_at[p] # step => requests[victim] <= requests[p]
=============================================================================
