------------------------------ MODULE Threads ------------------------------
(***************************************************************************)
(* Lab2/pintos/src/threads/thread.c: the priority scheduler.  This module  *)
(* holds the scheduler's state and its internal operations as action       *)
(* fragments; Semaphore, Monitor and Alarm build their specifications out  *)
(* of them.                                                                *)
(*                                                                         *)
(* The kernel is a uniprocessor: code that runs with interrupts off is     *)
(* atomic up to a context switch, so each fragment is one step.  A failed  *)
(* ASSERT stops the kernel: panic records which one, and no step follows.  *)
(***************************************************************************)
EXTENDS Integers, SequencesExt

CONSTANTS Threads,       \* kernel threads, the idle thread excepted
          Main,          \* initial_thread
          Idle,          \* idle_thread
          Priorities,    \* priorities in use, out of PRI_MIN .. PRI_MAX
          PRI_DEFAULT,   \* the priority of main
          TIME_SLICE     \* timer ticks to give each thread

ASSUME ThreadsAssumption ==
  /\ Main \in Threads /\ Idle \notin Threads
  /\ Priorities \subseteq 0 .. 63 /\ PRI_DEFAULT \in Priorities
  /\ TIME_SLICE \in Nat \ {0}

VARIABLES ready_list,    \* threads in THREAD_READY state, by priority
          status,        \* status of each thread
          priority,      \* priority of each thread
          running,       \* running_thread()
          thread_ticks,  \* timer ticks since the last yield
          panic          \* "none", or the assertion that failed

threadVars == <<ready_list, status, priority, running, thread_ticks, panic>>

All == Threads \cup {Idle}

\* FREE stands for a page that holds no thread; the page of main is never
\* freed, so main stays DYING.
Status == {"FREE", "BLOCKED", "READY", "RUNNING", "DYING"}

\* The state after thread_init and thread_start: main runs, idle has set
\* idle_thread, has released main and has blocked.
ThreadsInit ==
  /\ ready_list = <<>>
  /\ status = [t \in All |-> CASE t = Main -> "RUNNING"
                               [] t = Idle -> "BLOCKED"
                               [] OTHER -> "FREE"]
  /\ priority = [t \in All |-> IF t = Idle THEN 0 ELSE PRI_DEFAULT]
  /\ running = Main
  /\ thread_ticks = 0
  /\ panic = "none"

ThreadsTypeOK ==
  /\ ready_list \in Seq(Threads)
  /\ status \in [All -> Status]
  /\ priority \in [All -> Priorities \cup {0}]
  /\ running \in All
  /\ thread_ticks \in 0 .. TIME_SLICE
  /\ panic \in {"none", "not_blocked", "yield_in_interrupt", "empty_list"}

----------------------------------------------------------------------------
\* Mutation: the new element goes before those of its own priority.
insert_lifo(prio, ls, t) ==
  LET lower == {i \in 1 .. Len(ls) : prio[ls[i]] <= prio[t]}
      list_end == Len(ls) + 1
  IN  InsertAt(ls, Min(lower \cup {list_end}), t)

\* Before the first element of a strictly lower priority, else at the end.
insert_ordered_thread_priority(prio, ls, t) ==
  LET lower == {i \in 1 .. Len(ls) : prio[ls[i]] < prio[t]}
      list_end == Len(ls) + 1
  IN  InsertAt(ls, Min(lower \cup {list_end}), t)

\* schedule(): next_thread_to_run, switch_threads and thread_schedule_tail.  rl and st are the ready list and the status on
\* entry, with the status of the running thread already changed.  The page
\* of a dying thread is freed by its successor.
schedule(rl, st) ==
  LET next == IF rl = <<>> THEN Idle ELSE Head(rl)
  IN  /\ running' = next
      /\ ready_list' = IF rl = <<>> THEN <<>> ELSE Tail(rl)
      /\ status' = [t \in All |->
            IF t = next THEN "RUNNING"
            ELSE IF t = running /\ st[t] = "DYING" /\ t # Main THEN "FREE"
            ELSE st[t]]
      /\ thread_ticks' = 0

\* Status BLOCKED, then schedule().
thread_block ==
  schedule(ready_list, [status EXCEPT ![running] = "BLOCKED"])

\* The running thread goes back to the ready list rl, the idle thread to no
\* list; prio are the priorities in force.
yield(prio, rl, st) ==
  schedule(IF running = Idle THEN rl
           ELSE insert_ordered_thread_priority(prio, rl, running),
           [st EXCEPT ![running] = "READY"])

thread_yield == yield(priority, ready_list, status)

\* A failed assertion, found with the ready list rl and the status st.
Panic(why, rl, st) ==
  /\ panic' = why
  /\ ready_list' = rl
  /\ status' = st
  /\ UNCHANGED <<running, thread_ticks>>

\* Mutation: the woken thread never preempts its waker.
unblock_no_preemption(prio, st, t, in_intr) ==
  /\ ready_list' = insert_ordered_thread_priority(prio, ready_list, t)
  /\ status' = [st EXCEPT ![t] = "READY"]
  /\ UNCHANGED <<running, thread_ticks, panic>>

\* T becomes READY, and preempts a running thread of lower priority other
\* than idle.  In an interrupt handler thread_yield's assertion fails then.
unblock(prio, st, t, in_intr) ==
  LET rl == insert_ordered_thread_priority(prio, ready_list, t)
      st2 == [st EXCEPT ![t] = "READY"]
      preempts == prio[t] > prio[running] /\ running # Idle
  IN  \/ /\ st[t] # "BLOCKED"
         /\ Panic("not_blocked", ready_list, st)
      \/ /\ st[t] = "BLOCKED" /\ preempts /\ in_intr
         /\ Panic("yield_in_interrupt", rl, st2)
      \/ /\ st[t] = "BLOCKED" /\ preempts /\ ~in_intr
         /\ yield(prio, rl, st2)
         /\ UNCHANGED panic
      \/ /\ st[t] = "BLOCKED" /\ ~preempts
         /\ ready_list' = rl
         /\ status' = st2
         /\ UNCHANGED <<running, thread_ticks, panic>>

thread_unblock(t, in_intr) == unblock(priority, status, t, in_intr)

----------------------------------------------------------------------------
\* What the lists are meant to satisfy.
NoDuplicates(ls) == \A i, j \in 1 .. Len(ls) : ls[i] = ls[j] => i = j

Descending(prio, ls) ==
  \A i, j \in 1 .. Len(ls) : i < j => prio[ls[i]] >= prio[ls[j]]

\* The ready list rl belongs to the status st: it holds the READY threads,
\* once each, by priority.
ListOK(prio, rl, st) ==
  /\ rl \in Seq(Threads)
  /\ NoDuplicates(rl)
  /\ Descending(prio, rl)
  /\ \A t \in Threads : st[t] = "READY" <=> t \in ToSet(rl)

\* The scheduler's state between two steps: the running thread, and no
\* other, is RUNNING.
SchedulerOK(prio, rl, st, cur) ==
  /\ ListOK(prio, rl, st)
  /\ \A t \in All : st[t] = "RUNNING" <=> t = cur

\* No ready thread outranks cur, unless it is the idle thread.
Outranked(prio, rl, cur) == cur # Idle => \A t \in ToSet(rl) : prio[t] <= prio[cur]
=============================================================================
