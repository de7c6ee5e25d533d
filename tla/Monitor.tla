------------------------------ MODULE Monitor ------------------------------
(***************************************************************************)
(* Lab2/pintos/src/threads/lock.c and condvar.c: one lock and one          *)
(* condition variable, used by all threads in any order, on top of the     *)
(* semaphores and the priority scheduler.  Each waiter of the condition    *)
(* variable has a semaphore of its own on its stack, named by the thread.  *)
(***************************************************************************)
EXTENDS Threads, FiniteSets

CONSTANTS LockSema,   \* the semaphore inside the lock
          NoSema, NoHolder

VARIABLES value, waiters, wait_on, halted,  \* as in Semaphore
          holder,        \* lock->holder
          cond_waiters,  \* cond->waiters: the threads whose elements are on it
          pc             \* where each thread is in lock.c and condvar.c

ASSUME MonitorAssumption ==
  /\ IsFiniteSet(Threads) /\ LockSema \notin Threads
  /\ NoSema \notin Threads \cup {LockSema} /\ NoHolder \notin Threads

Semas == Threads \cup {LockSema}
MaxValue == 2
S == INSTANCE Semaphore WITH IrqSemas <- {}

kernelVars == <<threadVars, value, waiters, wait_on, halted>>
monitorVars == <<holder, cond_waiters, pc>>
vars == <<kernelVars, monitorVars>>

\* "got" and "up_*" lie between the semaphore and the holder of the lock.
PC == {"out", "acquire", "got", "in", "up_out", "release", "up_down", "down", "broadcast"}

\* All threads exist; one of the highest priority runs, the others are ready.
Init ==
  /\ priority \in {p \in [All -> Priorities \cup {0}] :
                    p[Idle] = 0 /\ \A t \in Threads : p[t] \in Priorities}
  /\ running \in {t \in Threads : \A u \in Threads : priority[u] <= priority[t]}
  /\ status = [t \in All |-> CASE t = running -> "RUNNING" [] t = Idle -> "BLOCKED"
                               [] OTHER -> "READY"]
  /\ ready_list \in {ls \in SetToSeqs(Threads \ {running}) : Descending(priority, ls)}
  /\ thread_ticks = 0 /\ panic = "none" /\ halted = TRUE
  /\ value = [s \in Semas |-> IF s = LockSema THEN 1 ELSE 0]
  /\ waiters = [s \in Semas |-> <<>>]
  /\ wait_on = [t \in Threads |-> NoSema]
  /\ holder = NoHolder
  /\ cond_waiters = <<>>
  /\ pc = [t \in Threads |-> "out"]

----------------------------------------------------------------------------
\* The running thread is at a place in lock.c or condvar.c.
At(place) == panic = "none" /\ running # Idle /\ pc[running] = place
Goto(place) == pc' = [pc EXCEPT ![running] = place]

\* The caller enters lock_acquire; ASSERT (!lock_held_by_current_thread).
lock_acquire ==
  /\ At("out")
  /\ Goto("acquire")
  /\ UNCHANGED <<kernelVars, holder, cond_waiters>>

\* semaphore_down on the lock, until it succeeds.
lock_acquire_down ==
  /\ At("acquire")
  /\ S!semaphore_down(LockSema)
  /\ IF value[LockSema] > 0 THEN Goto("got") ELSE UNCHANGED pc
  /\ UNCHANGED <<holder, cond_waiters>>

lock_acquire_holder ==
  /\ At("got")
  /\ Goto("in")
  /\ holder' = running
  /\ UNCHANGED <<kernelVars, cond_waiters>>

\* lock_release called by the holder, or by condvar_wait: holder = NULL.
lock_release ==
  /\ At("in")
  /\ Goto("up_out")
  /\ holder' = NoHolder
  /\ UNCHANGED <<kernelVars, cond_waiters>>

\* semaphore_up on the lock, which may switch to the next holder.
lock_release_up ==
  /\ At("up_out") \/ At("up_down")
  /\ Goto(IF pc[running] = "up_out" THEN "out" ELSE "down")
  /\ S!up(LockSema, FALSE)
  /\ UNCHANGED <<holder, cond_waiters, halted>>

\* The priority condvar_wait compares with: that of the thread at the front
\* of the waiters of an element's semaphore.
FrontPriority(w) == priority[Head(waiters[w])]

\* Mutation: the element is appended, as in the stock kernel.
condvar_wait_fifo ==
  /\ At("in")
  /\ value' = [value EXCEPT ![running] = 0]
  /\ cond_waiters' = Append(cond_waiters, running)
  /\ Goto("release")
  /\ UNCHANGED <<threadVars, waiters, wait_on, halted, holder>>

\* condvar_wait up to list_insert: the scan stops at the first element whose
\* waiting thread has a lower priority.  An element on the way whose thread
\* has not reached its semaphore_down has no front: list_front panics.
condvar_wait ==
  LET n == Len(cond_waiters)
      lower == {i \in 1 .. n : /\ waiters[cond_waiters[i]] # <<>>
                               /\ priority[running] > FrontPriority(cond_waiters[i])}
      end == Min(lower \cup {n + 1})
      no_front == \E i \in 1 .. end - 1 : waiters[cond_waiters[i]] = <<>>
  IN  /\ At("in")
      /\ \/ /\ no_front
            /\ Panic("empty_list", ready_list, status)
            /\ UNCHANGED <<priority, value, cond_waiters, pc>>
         \/ /\ ~no_front
            /\ value' = [value EXCEPT ![running] = 0]
            /\ cond_waiters' = InsertAt(cond_waiters, end, running)
            /\ Goto("release")
            /\ UNCHANGED threadVars
      /\ UNCHANGED <<waiters, wait_on, halted, holder>>

\* The rest of condvar_wait: release the lock, go down on the own semaphore,
\* acquire the lock again.  Interrupts are on between the three calls.
condvar_wait_release ==
  /\ At("release")
  /\ Goto("up_down")
  /\ holder' = NoHolder
  /\ UNCHANGED <<kernelVars, cond_waiters>>

condvar_wait_down ==
  /\ At("down")
  /\ S!semaphore_down(running)
  /\ IF value[running] > 0 THEN Goto("acquire") ELSE UNCHANGED pc
  /\ UNCHANGED <<holder, cond_waiters>>

\* Mutation: the thread is unblocked if it is there, the semaphore untouched.
signal_without_value ==
  /\ cond_waiters' = Tail(cond_waiters)
  /\ LET w == Head(cond_waiters)
     IN  IF waiters[w] = <<>> THEN UNCHANGED <<threadVars, waiters>>
         ELSE /\ waiters' = [waiters EXCEPT ![w] = <<>>]
              /\ thread_unblock(w, FALSE)
              /\ UNCHANGED priority
  /\ UNCHANGED <<value, wait_on, halted, holder>>

\* Pop the front element, semaphore_up on its semaphore.
signal ==
  /\ cond_waiters' = Tail(cond_waiters)
  /\ S!up(Head(cond_waiters), FALSE)
  /\ UNCHANGED <<halted, holder>>

condvar_signal ==
  /\ At("in")
  /\ IF cond_waiters # <<>> THEN signal ELSE UNCHANGED <<kernelVars, holder, cond_waiters>>
  /\ UNCHANGED pc

\* while (!list_empty) condvar_signal: a woken thread of higher priority runs
\* between two iterations.
condvar_broadcast ==
  /\ At("in") \/ At("broadcast")
  /\ \/ /\ cond_waiters # <<>>
        /\ signal
        /\ Goto("broadcast")
     \/ /\ cond_waiters = <<>>
        /\ Goto("in")
        /\ UNCHANGED <<kernelVars, holder, cond_waiters>>

Kernel ==
  /\ S!timer_interrupt \/ S!idle
  /\ UNCHANGED monitorVars

Halt == panic # "none" /\ UNCHANGED vars

\* The running thread inside a library routine goes on with it.
Library ==
  \/ lock_acquire_down \/ lock_acquire_holder \/ lock_release_up
  \/ condvar_wait_release \/ condvar_wait_down
  \/ At("broadcast") /\ condvar_broadcast

Next ==
  \/ lock_acquire \/ lock_release
  \/ condvar_wait \/ condvar_signal \/ (At("in") /\ condvar_broadcast)
  \/ Library \/ Kernel \/ Halt

\* The timer ticks, a thread that is scheduled again and again gets on with
\* library code, and one that holds the lock does not hold it forever.
Fairness ==
  /\ WF_vars(Kernel)
  /\ \A t \in Threads : /\ SF_vars(running = t /\ Library)
                        /\ SF_vars(running = t /\ lock_release)

Spec == Init /\ [][Next]_vars /\ Fairness

----------------------------------------------------------------------------
\* Types of the variables.
TypeOK ==
  /\ S!TypeOK
  /\ holder \in Threads \cup {NoHolder}
  /\ cond_waiters \in Seq(Threads)
  /\ pc \in [Threads -> PC]

\* Threads between the return of lock_acquire and their next lock_release,
\* and those that own the lock's semaphore.
Inside == {t \in Threads : pc[t] \in {"in", "release", "broadcast"}}
Owners == Inside \cup {t \in Threads : pc[t] \in {"got", "up_out", "up_down"}}

\* The lock: at most one thread owns the semaphore, its value is one exactly
\* when none does, and the thread inside is the holder.
MutualExclusion ==
  /\ Cardinality(Owners) + value[LockSema] = 1
  /\ \A t \in Threads : holder = t <=> t \in Inside

\* A thread that a signal took off the condition variable finds its
\* semaphore up, whether it had reached semaphore_down by then or not.
NoLostSignal ==
  \A t \in Threads :
    pc[t] \in {"release", "up_down", "down"} /\ t \notin ToSet(cond_waiters)
      => value[t] = 1 /\ waiters[t] = <<>>

\* condvar_signal wakes a waiter that no other waiter outranks.
CondSorted == Descending(priority, cond_waiters)

\* The condition's list is in that order, and all state well-formed, at every
\* step of condvar_wait and condvar_signal.
CondConsistent == TypeOK /\ CondSorted

\* A thread whose element was signalled gets past its semaphore_down and on
\* to the lock, unless a thread outranks it or the kernel panics.
SignalledReturns ==
  \A t \in Threads :
    pc[t] = "down" /\ t \notin ToSet(cond_waiters)
      ~> \/ pc[t] = "acquire"
         \/ panic # "none" \/ \E u \in Threads : priority[u] > priority[t]

\* condvar.c: "Atomically releases LOCK and waits for COND": no other thread
\* finds an element of the list whose thread is not waiting yet.
NoPanic == panic = "none"
=============================================================================
