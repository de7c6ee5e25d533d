------------------------------ MODULE Manpage ------------------------------
(***************************************************************************)
(* Assignment3_1/manpage.c: manpage() creates one thread per paragraph and *)
(* joins them; every thread runs print_page, which asks the (binary)       *)
(* library which paragraph is its own, waits on one shared condition       *)
(* variable until cur_page reaches it, shows it, advances cur_page and     *)
(* broadcasts after the unlock.                                             *)
(***************************************************************************)
EXTENDS Integers, Sequences

CONSTANTS Paragraphs,  \* how many there are: seven in the program
          NoThread,    \* "no thread owns the mutex", "id not asked for yet"
          MaxSpurious  \* bound: spurious returns of pthread_cond_wait

ASSUME ManpageAssumption ==
  /\ Paragraphs \in Nat
  /\ NoThread \notin Int
  /\ MaxSpurious \in Nat

VARIABLES main,      \* the two loops of manpage(), and their index i
          pc,        \* where each thread is in print_page
          pid,       \* print_page's local of the same name
          cur_page,  \* the paragraph whose turn it is
          owner,     \* owner of page_mut
          shown,     \* external: what showParagraph has put out so far
          spurious   \* spurious wake-ups so far

vars == <<main, pc, pid, cur_page, owner, shown, spurious>>

Threads == 0 .. Paragraphs - 1

PC == {"none", "start", "lock", "test", "wait", "woken", "show", "advance",
       "broadcast", "done"}

\* manpage() is entered: mutex and condition are initialised, i = 0.
Init ==
  /\ main = [at |-> "create", i |-> 0]
  /\ pc = [t \in Threads |-> "none"]
  /\ pid = [t \in Threads |-> NoThread]
  /\ cur_page = 0
  /\ owner = NoThread
  /\ shown = << >>
  /\ spurious = 0

----------------------------------------------------------------------------
Goto(t, from, to) == pc[t] = from /\ pc' = [pc EXCEPT ![t] = to]

\* One round of the first loop: the thread may run at once.
create ==
  /\ main.at = "create" /\ main.i < Paragraphs
  /\ Goto(main.i, "none", "start")
  /\ main' = [main EXCEPT !.i = @ + 1]
  /\ UNCHANGED <<pid, cur_page, owner, shown, spurious>>

\* The first loop ends and the second starts.
created ==
  /\ main.at = "create" /\ main.i = Paragraphs
  /\ main' = [at |-> "join", i |-> 0]
  /\ UNCHANGED <<pc, pid, cur_page, owner, shown, spurious>>

\* Mutation: the second loop does not wait.
join_none ==
  /\ main.at = "join" /\ main.i < Paragraphs
  /\ main' = [main EXCEPT !.i = @ + 1]
  /\ UNCHANGED <<pc, pid, cur_page, owner, shown, spurious>>

\* One round of the second loop: pthread_join returns when the thread has.
join ==
  /\ main.at = "join" /\ main.i < Paragraphs
  /\ pc[main.i] = "done"
  /\ main' = [main EXCEPT !.i = @ + 1]
  /\ UNCHANGED <<pc, pid, cur_page, owner, shown, spurious>>

return ==
  /\ main.at = "join" /\ main.i = Paragraphs
  /\ main' = [main EXCEPT !.at = "returned"]
  /\ UNCHANGED <<pc, pid, cur_page, owner, shown, spurious>>

----------------------------------------------------------------------------
\* External: an identifier in 0..6 for the current thread, no other's.
getParagraphId(t) ==
  /\ Goto(t, "start", "lock")
  /\ \E p \in Threads :
       /\ \A u \in Threads : pid[u] # p
       /\ pid' = [pid EXCEPT ![t] = p]
  /\ UNCHANGED <<main, cur_page, owner, shown, spurious>>

\* Mutation: the test is an if, so a woken thread does not repeat it.
MutexLock_if(t) ==
  /\ owner = NoThread
  /\ owner' = t
  /\ Goto(t, "lock", "test") \/ Goto(t, "woken", "show")
  /\ UNCHANGED <<main, pid, cur_page, shown, spurious>>

\* pthread_mutex_lock, and the return of pthread_cond_wait with the mutex.
MutexLock(t) ==
  /\ owner = NoThread
  /\ owner' = t
  /\ Goto(t, "lock", "test") \/ Goto(t, "woken", "test")
  /\ UNCHANGED <<main, pid, cur_page, shown, spurious>>

\* while (pid != cur_page) pthread_cond_wait(...)
print_page_wait(t) ==
  /\ pid[t] # cur_page
  /\ Goto(t, "test", "wait")
  /\ owner' = NoThread
  /\ UNCHANGED <<main, pid, cur_page, shown, spurious>>

\* The loop ends: it is this thread's turn.
print_page_turn(t) ==
  /\ pid[t] = cur_page
  /\ Goto(t, "test", "show")
  /\ UNCHANGED <<main, pid, cur_page, owner, shown, spurious>>

\* External: shows the paragraph of the current thread's identifier.
showParagraph(t) ==
  /\ Goto(t, "show", "advance")
  /\ shown' = Append(shown, pid[t])
  /\ UNCHANGED <<main, pid, cur_page, owner, spurious>>

\* cur_page += 1, then pthread_mutex_unlock.
print_page_advance(t) ==
  /\ Goto(t, "advance", "broadcast")
  /\ cur_page' = cur_page + 1
  /\ owner' = NoThread
  /\ UNCHANGED <<main, pid, shown, spurious>>

\* Mutation: pthread_cond_signal, which wakes one waiting thread.
print_page_signal(t) ==
  /\ pc[t] = "broadcast"
  /\ LET waiting == {u \in Threads : pc[u] = "wait"}
     IN  \/ /\ waiting = {}
            /\ pc' = [pc EXCEPT ![t] = "done"]
         \/ \E u \in waiting : pc' = [pc EXCEPT ![t] = "done", ![u] = "woken"]
  /\ UNCHANGED <<main, pid, cur_page, owner, shown, spurious>>

\* pthread_cond_broadcast without the mutex, and return.
print_page_broadcast(t) ==
  /\ pc[t] = "broadcast"
  /\ pc' = [u \in Threads |-> IF u = t THEN "done"
                              ELSE IF pc[u] = "wait" THEN "woken" ELSE pc[u]]
  /\ UNCHANGED <<main, pid, cur_page, owner, shown, spurious>>

\* POSIX lets pthread_cond_wait return without a wake-up.
SpuriousWakeup(t) ==
  /\ spurious < MaxSpurious
  /\ spurious' = spurious + 1
  /\ Goto(t, "wait", "woken")
  /\ UNCHANGED <<main, pid, cur_page, owner, shown>>

Main == create \/ created \/ join \/ return

print_page(t) ==
  \/ getParagraphId(t) \/ MutexLock(t) \/ print_page_wait(t) \/ print_page_turn(t)
  \/ showParagraph(t) \/ print_page_advance(t) \/ print_page_broadcast(t)

Terminated == main.at = "returned" /\ UNCHANGED vars

Next ==
  \/ Main
  \/ \E t \in Threads : print_page(t) \/ SpuriousWakeup(t)
  \/ Terminated

\* The main thread and every runnable thread run; none is assumed to be
\* given the mutex, and spurious wake-ups are finitely many.
Fairness == WF_vars(Main) /\ \A t \in Threads : WF_vars(print_page(t))

Spec == Init /\ [][Next]_vars /\ Fairness

----------------------------------------------------------------------------
\* Types of the variables.
TypeOK ==
  /\ main \in [at : {"create", "join", "returned"}, i : 0 .. Paragraphs]
  /\ pc \in [Threads -> PC]
  /\ pid \in [Threads -> Threads \cup {NoThread}]
  /\ cur_page \in 0 .. Paragraphs
  /\ owner \in Threads \cup {NoThread}
  /\ shown \in Seq(Threads)
  /\ spurious \in 0 .. MaxSpurious

\* The manual page appears in its order, without a gap or a repetition,
\* whatever order the threads are created, scheduled and woken in.
ShownInOrder == \A n \in DOMAIN shown : shown[n] = n - 1

\* print_page broadcasts after the unlock, so a thread may wait although its
\* turn has come and nobody holds the mutex; then a broadcast is due.
NoStrandedReader ==
  \A t \in Threads :
    pc[t] = "wait" /\ pid[t] = cur_page
      => \E u \in Threads : pc[u] = "broadcast"

\* manpage() returns, and by then the whole page has been shown.
WholePageShown ==
  /\ <>(main.at = "returned")
  /\ [](main.at = "returned" => Len(shown) = Paragraphs)
=============================================================================
