----------------------------- MODULE Semaphore -----------------------------
(***************************************************************************)
(* Lab2/pintos/src/threads/semaphore.c on top of the scheduler of          *)
(* thread.c: threads create each other, change their priority, yield,      *)
(* exit, and go down and up on semaphores in any order, while timer and    *)
(* device interrupts arrive whenever interrupts are on.                    *)
(***************************************************************************)
EXTENDS Threads, FiniteSets

CONSTANTS Semas,       \* the semaphores
          NoSema,      \* "not inside semaphore_down"
          IrqSemas,    \* those a device interrupt handler may go up on
          MaxValue     \* bound: no up beyond this value

ASSUME SemaphoreAssumption ==
  /\ IsFiniteSet(Threads)
  /\ NoSema \notin Semas
  /\ IrqSemas \subseteq Semas
  /\ MaxValue \in Nat \ {0}

VARIABLES value,      \* value of each semaphore
          waiters,    \* waiters of each semaphore, by priority
          wait_on,    \* the semaphore whose while loop a thread is in
          halted      \* the idle thread waits in hlt for an interrupt

semaVars == <<value, waiters, wait_on>>
vars == <<threadVars, semaVars, halted>>

Init ==
  /\ ThreadsInit
  /\ value \in [Semas -> 0 .. 1]
  /\ waiters = [s \in Semas |-> <<>>]
  /\ wait_on = [t \in Threads |-> NoSema]
  /\ halted = TRUE

\* A thread runs its own code, with interrupts on.
Preemptible ==
  /\ panic = "none"
  /\ running # Idle
  /\ wait_on[running] = NoSema

----------------------------------------------------------------------------
\* Mutation: an if instead of the while, no retest after the wake-up.
semaphore_down_if(s) ==
  /\ panic = "none" /\ running # Idle
  /\ wait_on[running] \in {NoSema, s}
  /\ \/ /\ value[s] = 0 /\ wait_on[running] = NoSema
        /\ waiters' = [waiters EXCEPT
                          ![s] = insert_ordered_thread_priority(priority, @, running)]
        /\ wait_on' = [wait_on EXCEPT ![running] = s]
        /\ thread_block
        /\ UNCHANGED <<priority, panic, value>>
     \/ /\ value[s] > 0 \/ wait_on[running] = s
        /\ value' = [value EXCEPT ![s] = @ - 1]
        /\ wait_on' = [wait_on EXCEPT ![running] = NoSema]
        /\ UNCHANGED <<threadVars, waiters>>
  /\ UNCHANGED halted

\* Mutation: the waiters are served in order of arrival.
semaphore_down_fifo(s) ==
  /\ panic = "none" /\ running # Idle
  /\ wait_on[running] \in {NoSema, s}
  /\ \/ /\ value[s] = 0
        /\ waiters' = [waiters EXCEPT ![s] = Append(@, running)]
        /\ wait_on' = [wait_on EXCEPT ![running] = s]
        /\ thread_block
        /\ UNCHANGED <<priority, panic, value>>
     \/ /\ value[s] > 0
        /\ value' = [value EXCEPT ![s] = @ - 1]
        /\ wait_on' = [wait_on EXCEPT ![running] = NoSema]
        /\ UNCHANGED <<threadVars, waiters>>
  /\ UNCHANGED halted

\* One pass through the while loop, on entry or after being unblocked: the
\* value may have been taken by another thread in the meantime.
semaphore_down(s) ==
  /\ panic = "none" /\ running # Idle
  /\ wait_on[running] \in {NoSema, s}
  /\ \/ /\ value[s] = 0
        /\ waiters' = [waiters EXCEPT
                          ![s] = insert_ordered_thread_priority(priority, @, running)]
        /\ wait_on' = [wait_on EXCEPT ![running] = s]
        /\ thread_block
        /\ UNCHANGED <<priority, panic, value>>
     \/ /\ value[s] > 0
        /\ value' = [value EXCEPT ![s] = @ - 1]
        /\ wait_on' = [wait_on EXCEPT ![running] = NoSema]
        /\ UNCHANGED <<threadVars, waiters>>
  /\ UNCHANGED halted

\* Mutation: the head of the waiters is not removed from the list.
up_keeps_waiter(s, in_intr) ==
  /\ value[s] < MaxValue
  /\ value' = [value EXCEPT ![s] = @ + 1]
  /\ IF waiters[s] = <<>> THEN UNCHANGED threadVars
     ELSE thread_unblock(Head(waiters[s]), in_intr) /\ UNCHANGED priority
  /\ UNCHANGED <<waiters, wait_on>>

\* Mutation: a thread is woken only by the up that makes the value one.
up_from_zero(s, in_intr) ==
  /\ value[s] < MaxValue
  /\ value' = [value EXCEPT ![s] = @ + 1]
  /\ IF waiters[s] = <<>> \/ value[s] > 0
     THEN UNCHANGED <<threadVars, waiters>>
     ELSE /\ waiters' = [waiters EXCEPT ![s] = Tail(@)]
          /\ thread_unblock(Head(waiters[s]), in_intr)
          /\ UNCHANGED priority
  /\ UNCHANGED wait_on

\* value++, then the waiter at the head is popped and unblocked.
up(s, in_intr) ==
  /\ value[s] < MaxValue
  /\ value' = [value EXCEPT ![s] = @ + 1]
  /\ IF waiters[s] = <<>>
     THEN UNCHANGED <<threadVars, waiters>>
     ELSE /\ waiters' = [waiters EXCEPT ![s] = Tail(@)]
          /\ thread_unblock(Head(waiters[s]), in_intr)
          /\ UNCHANGED priority
  /\ UNCHANGED wait_on

semaphore_up(s) == Preemptible /\ up(s, FALSE) /\ UNCHANGED halted

\* thread_yield called by a thread.
yield_call ==
  /\ Preemptible
  /\ thread_yield
  /\ UNCHANGED <<priority, panic, semaVars, halted>>

\* The new priority is in force when the thread is put back on the list.
thread_set_priority(p) ==
  /\ Preemptible
  /\ priority' = [priority EXCEPT ![running] = p]
  /\ yield(priority', ready_list, status)
  /\ UNCHANGED <<panic, semaVars, halted>>

\* init_thread on a free page, then thread_unblock; a failed palloc_get_page
\* returns TID_ERROR and changes nothing.
thread_create(u, p) ==
  /\ Preemptible
  /\ status[u] = "FREE"
  /\ priority' = [priority EXCEPT ![u] = p]
  /\ unblock(priority', [status EXCEPT ![u] = "BLOCKED"], u, FALSE)
  /\ UNCHANGED <<semaVars, halted>>

thread_exit ==
  /\ Preemptible
  /\ schedule(ready_list, [status EXCEPT ![running] = "DYING"])
  /\ UNCHANGED <<priority, panic, semaVars, halted>>

----------------------------------------------------------------------------
\* Interrupts are on: in a thread's own code, and in the idle loop outside
\* intr_disable .. hlt.
InterruptsOn == panic = "none" /\ (running # Idle => wait_on[running] = NoSema)

\* intr_handler around thread_tick: at the end of the time slice the running
\* thread yields on return.  An interrupt ends the hlt of the idle thread.
timer_interrupt ==
  /\ InterruptsOn
  /\ IF thread_ticks + 1 >= TIME_SLICE
     THEN thread_yield
     ELSE /\ thread_ticks' = thread_ticks + 1
          /\ UNCHANGED <<ready_list, status, running>>
  /\ halted' = (halted /\ running # Idle)
  /\ UNCHANGED <<priority, panic, semaVars>>

\* A device's handler goes up on the semaphore its driver waits for.
device_interrupt(s) ==
  /\ InterruptsOn
  /\ s \in IrqSemas
  /\ up(s, TRUE)
  /\ halted' = (halted /\ running # Idle)

\* The idle thread after its hlt: intr_disable, thread_block; when it is
\* scheduled again it goes to hlt.
idle ==
  /\ panic = "none" /\ running = Idle /\ ~halted
  /\ thread_block
  /\ halted' = TRUE
  /\ UNCHANGED <<priority, panic, semaVars>>

\* A panicked kernel stays as it is.
Halt == panic # "none" /\ UNCHANGED vars

Next ==
  \/ \E s \in Semas : semaphore_down(s) \/ semaphore_up(s) \/ device_interrupt(s)
  \/ yield_call
  \/ \E p \in Priorities : thread_set_priority(p)
  \/ \E u \in Threads, p \in Priorities : thread_create(u, p)
  \/ thread_exit
  \/ timer_interrupt
  \/ idle
  \/ Halt

\* The timer hardware keeps ticking, and code with interrupts off runs on.
Fairness ==
  /\ WF_vars(timer_interrupt)
  /\ WF_vars(idle)
  /\ WF_vars(running # Idle /\ \E s \in Semas : wait_on[running] = s /\ semaphore_down(s))

Spec == Init /\ [][Next]_vars /\ Fairness

----------------------------------------------------------------------------
\* Types of the variables.
TypeOK ==
  /\ ThreadsTypeOK
  /\ value \in [Semas -> 0 .. MaxValue]
  /\ waiters \in [Semas -> Seq(Threads)]
  /\ wait_on \in [Threads -> Semas \cup {NoSema}]
  /\ halted \in BOOLEAN

\* struct thread has one sharedelem for all lists: a thread is on the ready
\* list exactly when it is READY, and on the waiters of a semaphore exactly
\* when it is blocked in that semaphore's loop, once, and on one list only.
ListsMatchStatus ==
  /\ NoDuplicates(ready_list)
  /\ \A s \in Semas : NoDuplicates(waiters[s])
  /\ \A t \in Threads :
       /\ status[t] = "READY" <=> t \in ToSet(ready_list)
       /\ \A s \in Semas :
            t \in ToSet(waiters[s]) <=> status[t] = "BLOCKED" /\ wait_on[t] = s
  /\ status[running] = "RUNNING"

\* Every list insert_ordered_thread_priority keeps is sorted by the current
\* priorities, also after priorities have changed.
ListsSorted ==
  /\ Descending(priority, ready_list)
  /\ \A s \in Semas : Descending(priority, waiters[s])

\* The lists of the kernel, of ready threads and of waiters: well-formed,
\* disjoint, in step with the threads' status, and sorted.
ListsConsistent == TypeOK /\ ListsMatchStatus /\ ListsSorted

\* A thread other than idle runs only while no ready thread outranks it.
RunningHighest ==
  panic = "none" /\ running # Idle =>
    \A t \in ToSet(ready_list) : priority[t] <= priority[running]

\* Threads popped from the waiters of s that have not yet retested value.
Pending(s) ==
  {t \in Threads : wait_on[t] = s /\ t \notin ToSet(waiters[s])}

\* While threads wait, each unit of the value has a woken thread on its way
\* to it: no up is lost although a third thread may take the unit first.
NoLostWakeup ==
  \A s \in Semas : waiters[s] # <<>> => Cardinality(Pending(s)) >= value[s]

\* The thread an up removes from the waiters is outranked by none of those
\* it leaves there, whatever priorities changed since they queued.
WakesFirstOfHighest ==
  [][\A s \in Semas : Len(waiters'[s]) < Len(waiters[s]) =>
       \A i \in 2 .. Len(waiters[s]) :
         /\ waiters[s][1] \notin ToSet(waiters'[s])
         /\ priority[waiters[s][i]] <= priority[waiters[s][1]]]_vars

\* A ready thread that nobody outranks gets the processor, unless it loses
\* that rank or the kernel panics.
NoStarvation ==
  \A t \in Threads :
    status[t] = "READY" /\ (\A u \in Threads : status[u] # "FREE" => priority[u] <= priority[t])
      ~> \/ running = t \/ panic # "none"
         \/ \E u \in Threads : status[u] # "FREE" /\ priority[u] > priority[t]
=============================================================================
