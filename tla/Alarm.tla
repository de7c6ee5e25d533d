------------------------------- MODULE Alarm -------------------------------
(***************************************************************************)
(* Lab2/pintos/src/devices/timer.c: timer_sleep and timer_interrupt on the *)
(* priority scheduler.  timer_sleep walks and changes timer_list without   *)
(* turning interrupts off, so each of its accesses to the list is a step,  *)
(* and the list is modelled by the pointers of its elements.  The handler  *)
(* runs with interrupts off; its loop is one step per element, and nothing *)
(* else happens between them.                                              *)
(***************************************************************************)
EXTENDS Threads, FiniteSets

CONSTANTS HEAD, TAIL, NULL,  \* the sentinels of timer_list, the null pointer
          Sleepers,          \* threads that call timer_sleep
          SleptSets,         \* which of those have returned from one before
          Naps,              \* the lengths they sleep
          MaxTicks           \* bound: the clock stops here

ASSUME AlarmAssumption ==
  /\ IsFiniteSet(Threads) /\ HEAD # TAIL
  /\ {HEAD, TAIL} \cap Threads = {} /\ NULL \notin Threads \cup {HEAD, TAIL}
  /\ SleptSets \subseteq SUBSET Sleepers /\ Sleepers \subseteq Threads
  /\ Naps \subseteq Nat \ {0} /\ MaxTicks \in Nat

VARIABLES ticks,         \* timer ticks since the OS booted
          wake_up_tick,  \* of each thread
          next, prev,    \* the links of each timer_elem
          x,             \* the cursor of each thread inside timer_sleep
          pc,            \* where each thread is in timer_sleep
          intr,          \* the interrupt level each thread runs with
          irq,           \* progress of timer_interrupt: "none", "loop", "return"
          e,             \* the cursor of timer_interrupt
          yield_on_return,
          halted,        \* the idle thread waits in hlt for an interrupt
          exposed        \* history: a timer_sleep was called with interrupts on

listVars == <<next, prev>>
sleepVars == <<wake_up_tick, x, pc, intr, exposed>>
irqVars == <<ticks, irq, e, yield_on_return, halted>>
vars == <<threadVars, listVars, sleepVars, irqVars>>

Elems == Threads \cup {HEAD, TAIL}
PC == {"run", "scan", "same_tick", "insert", "link_prev", "link_next", "block", "asleep"}

\* All threads exist, in the order of their priorities.  timer_sleep returns
\* with interrupts off and nothing turns them on again for that thread.
Init ==
  /\ priority \in {p \in [All -> Priorities \cup {0}] :
                    p[Idle] = 0 /\ \A t \in Threads : p[t] \in Priorities}
  /\ running \in {t \in Threads : \A u \in Threads : priority[u] <= priority[t]}
  /\ status = [t \in All |-> CASE t = running -> "RUNNING" [] t = Idle -> "BLOCKED"
                               [] OTHER -> "READY"]
  /\ ready_list \in {ls \in SetToSeqs(Threads \ {running}) : Descending(priority, ls)}
  /\ thread_ticks = 0 /\ panic = "none"
  /\ ticks = 0
  /\ wake_up_tick = [t \in Threads |-> 0]
  /\ next = [n \in Elems |-> IF n = HEAD THEN TAIL ELSE NULL]
  /\ prev = [n \in Elems |-> IF n = TAIL THEN HEAD ELSE NULL]
  /\ x = [t \in Threads |-> NULL]
  /\ pc = [t \in Threads |-> "run"]
  /\ \E S \in SleptSets : intr = [t \in Threads |-> t \notin S]
  /\ exposed = FALSE
  /\ irq = "none" /\ e = NULL /\ yield_on_return = FALSE /\ halted = TRUE

----------------------------------------------------------------------------
\* The running thread, outside the handler, is at a place in timer_sleep.
At(place) == panic = "none" /\ irq = "none" /\ running # Idle /\ pc[running] = place
Goto(place) == pc' = [pc EXCEPT ![running] = place]
Cursor == x[running]
MoveTo(n) == x' = [x EXCEPT ![running] = n]

\* timer_sleep of N > 0 ticks, up to the loop; N <= 0 returns at once.
timer_sleep(n) ==
  /\ At("run") /\ running \in Sleepers
  /\ wake_up_tick' = [wake_up_tick EXCEPT ![running] = ticks + n]
  /\ MoveTo(HEAD) /\ Goto("scan")
  /\ exposed' = (exposed \/ intr[running])
  /\ UNCHANGED <<threadVars, listVars, intr, irqVars>>

\* One iteration of the for loop, HEAD standing for its initialisation: past
\* an element that wakes up earlier, into the inner loop at an equal one.
scan ==
  /\ At("scan")
  /\ \/ /\ Cursor = HEAD \/ (Cursor \in Threads /\ wake_up_tick[Cursor] < wake_up_tick[running])
        /\ MoveTo(next[Cursor])
        /\ UNCHANGED pc
     \/ /\ Cursor \in Threads
        /\ wake_up_tick[Cursor] = wake_up_tick[running]
        /\ Goto("same_tick")
        /\ UNCHANGED x
     \/ /\ Cursor = TAIL \/ (Cursor \in Threads /\ wake_up_tick[Cursor] > wake_up_tick[running])
        /\ Goto("insert")
        /\ UNCHANGED x
  /\ UNCHANGED <<threadVars, listVars, wake_up_tick, intr, exposed, irqVars>>

\* Mutation: the walk goes past equals and lower priorities as well.
scan_same_tick_end ==
  /\ At("same_tick")
  /\ IF Cursor = TAIL
     THEN Goto("insert") /\ UNCHANGED x
     ELSE MoveTo(next[Cursor]) /\ UNCHANGED pc
  /\ UNCHANGED <<threadVars, listVars, wake_up_tick, intr, exposed, irqVars>>

\* One iteration of the while loop: past every element of a higher priority,
\* whenever it wakes up.
scan_same_tick ==
  /\ At("same_tick")
  /\ IF Cursor = TAIL \/ priority[Cursor] <= priority[running]
     THEN Goto("insert") /\ UNCHANGED x
     ELSE MoveTo(next[Cursor]) /\ UNCHANGED pc
  /\ UNCHANGED <<threadVars, listVars, wake_up_tick, intr, exposed, irqVars>>

\* The assignments of list_insert before the cursor: the element's own links,
\* the link forward to it, the link back to it.
insert_elem ==
  /\ At("insert")
  /\ prev' = [prev EXCEPT ![running] = prev[Cursor]]
  /\ next' = [next EXCEPT ![running] = Cursor]
  /\ Goto("link_next")
  /\ UNCHANGED <<threadVars, wake_up_tick, x, intr, exposed, irqVars>>

insert_link_next ==
  /\ At("link_next")
  /\ next' = [next EXCEPT ![prev[Cursor]] = running]
  /\ Goto("link_prev")
  /\ UNCHANGED <<threadVars, prev, wake_up_tick, x, intr, exposed, irqVars>>

insert_link_prev ==
  /\ At("link_prev")
  /\ prev' = [prev EXCEPT ![Cursor] = running]
  /\ Goto("block")
  /\ UNCHANGED <<threadVars, next, wake_up_tick, x, intr, exposed, irqVars>>

\* intr_disable, thread_block.
sleep_block ==
  /\ At("block")
  /\ intr' = [intr EXCEPT ![running] = FALSE]
  /\ Goto("asleep")
  /\ thread_block
  /\ UNCHANGED <<priority, panic, listVars, wake_up_tick, x, exposed, irqVars>>

\* timer_sleep returns once the thread is scheduled again.
sleep_return ==
  /\ At("asleep")
  /\ Goto("run")
  /\ UNCHANGED <<threadVars, listVars, wake_up_tick, x, intr, exposed, irqVars>>

yield_call ==
  /\ At("run")
  /\ thread_yield
  /\ UNCHANGED <<priority, panic, listVars, sleepVars, irqVars>>

----------------------------------------------------------------------------
\* ticks++, thread_tick; an interrupt ends the hlt of the idle thread.
timer_interrupt ==
  /\ panic = "none" /\ irq = "none" /\ ticks < MaxTicks
  /\ running # Idle => intr[running]
  /\ ticks' = ticks + 1
  /\ thread_ticks' = IF thread_ticks < TIME_SLICE THEN thread_ticks + 1 ELSE thread_ticks
  /\ yield_on_return' = (thread_ticks + 1 >= TIME_SLICE)
  /\ e' = next[HEAD]
  /\ irq' = "loop"
  /\ halted' = (halted /\ running # Idle)
  /\ UNCHANGED <<ready_list, status, priority, running, panic, listVars, sleepVars>>

\* list_pop_front removes whatever element follows the head.
list_pop_front ==
  LET front == next[HEAD]
  IN  /\ next' = [next EXCEPT ![prev[front]] = next[front]]
      /\ prev' = [prev EXCEPT ![next[front]] = prev[front]]

\* Mutation: a thread is woken one tick too late.
Due_late == e # TAIL /\ ticks > wake_up_tick[e]

\* Mutation: the wake-up tick is not compared.
Due_always == e # TAIL

\* The handler's loop goes on: the element is due.
Due == e # TAIL /\ ticks >= wake_up_tick[e]

\* One iteration of the handler's loop: thread_unblock, then list_pop_front.
wake ==
  /\ panic = "none" /\ irq = "loop" /\ Due
  /\ thread_unblock(e, TRUE)
  /\ IF panic' = "none" THEN list_pop_front /\ e' = next[e] ELSE UNCHANGED <<listVars, e>>
  /\ UNCHANGED <<priority, sleepVars, ticks, irq, yield_on_return, halted>>

\* The loop ends at an element that is not due, or at the end of the list.
wake_end ==
  /\ panic = "none" /\ irq = "loop" /\ ~Due
  /\ irq' = "return"
  /\ UNCHANGED <<threadVars, listVars, sleepVars, ticks, e, yield_on_return, halted>>

\* The end of intr_handler: thread_yield when the time slice is over.
interrupt_return ==
  /\ panic = "none" /\ irq = "return"
  /\ IF yield_on_return
     THEN thread_yield ELSE UNCHANGED <<ready_list, status, running, thread_ticks>>
  /\ irq' = "none" /\ yield_on_return' = FALSE /\ e' = NULL
  /\ UNCHANGED <<priority, panic, listVars, sleepVars, ticks, halted>>

\* The idle thread after its hlt: intr_disable, thread_block.
idle ==
  /\ panic = "none" /\ irq = "none" /\ running = Idle /\ ~halted
  /\ thread_block
  /\ halted' = TRUE
  /\ UNCHANGED <<priority, panic, listVars, sleepVars, ticks, irq, e, yield_on_return>>

\* A panicked kernel stays as it is, and so does one at the clock's bound.
Halt ==
  /\ panic # "none" \/ ticks = MaxTicks
  /\ UNCHANGED vars

Next ==
  \/ \E n \in Naps : timer_sleep(n)
  \/ scan \/ scan_same_tick
  \/ insert_elem \/ insert_link_next \/ insert_link_prev
  \/ sleep_block \/ sleep_return \/ yield_call
  \/ timer_interrupt \/ wake \/ wake_end \/ interrupt_return
  \/ idle \/ Halt

Spec == Init /\ [][Next]_vars

----------------------------------------------------------------------------
\* Types of the variables.
TypeOK ==
  /\ ThreadsTypeOK
  /\ ticks \in 0 .. MaxTicks
  /\ \A t \in Threads : \E n \in Naps \cup {0} : wake_up_tick[t] \in 0 .. ticks + n
  /\ next \in [Elems -> Elems \cup {NULL}] /\ prev \in [Elems -> Elems \cup {NULL}]
  /\ x \in [Threads -> Elems \cup {NULL}] /\ pc \in [Threads -> PC]
  /\ intr \in [Threads -> BOOLEAN] /\ exposed \in BOOLEAN
  /\ irq \in {"none", "loop", "return"} /\ e \in Elems \cup {NULL}
  /\ yield_on_return \in BOOLEAN /\ halted \in BOOLEAN

\* Threads blocked in timer_sleep.
Asleep == {t \in Threads : pc[t] = "asleep" /\ status[t] = "BLOCKED"}

\* U wakes up at or after time W, and has a higher priority than T: what a
\* walk of timer_sleep may have gone past on behalf of T.
Outlasts(u, w, t) == wake_up_tick[u] >= w /\ priority[u] > priority[t]

\* Unless some timer_sleep has run with interrupts on, timer_list links the
\* sleeping threads and nothing else, forwards and backwards, whenever no
\* list_insert is under way.  It is in the order of the wake-up ticks but for
\* threads that the inner loop has taken past sleepers of a higher priority:
\* a thread that follows a later sleeper, one not due yet, follows one at
\* least as late that outranks it.
TimerListOrdered ==
  /\ ~exposed /\ panic = "none"
  /\ \A t \in Threads : pc[t] \notin {"link_next", "link_prev", "block"}
  => \E ls \in SetToSeqs(Asleep) :
       LET chain == <<HEAD>> \o ls \o <<TAIL>>
       IN  /\ \A i \in 1 .. Len(chain) - 1 :
                next[chain[i]] = chain[i + 1] /\ prev[chain[i + 1]] = chain[i]
           /\ \A i, j \in 1 .. Len(ls) :
                /\ i < j /\ wake_up_tick[ls[i]] > wake_up_tick[ls[j]]
                /\ wake_up_tick[ls[i]] > ticks
                => \E d \in 1 .. j - 1 : Outlasts(ls[d], wake_up_tick[ls[i]], ls[j])

\* That, and the types of all pointers, in every interleaving of timer_sleep
\* and timer_interrupt.
TimerListConsistent == TypeOK /\ TimerListOrdered

\* timer_sleep does not return before its ticks have passed, whatever races
\* there were on timer_list.
NeverEarly ==
  \A t \in Threads : pc[t] = "asleep" /\ t \notin Asleep => ticks >= wake_up_tick[t]

\* Unless some timer_sleep has run with interrupts on, a timer interrupt at or
\* after a thread's wake-up tick leaves it asleep only if a thread of a higher
\* priority sleeps longer: the one the inner loop of timer_sleep went past.
LateOnlyBehindHigher ==
  irq = "return" /\ ~exposed
    => \A t \in Asleep : ticks >= wake_up_tick[t]
                           => \E u \in Asleep : Outlasts(u, ticks + 1, t)

\* "Sleeps for approximately TICKS timer ticks" (timer_sleep): a timer
\* interrupt at or after a thread's wake-up tick does not leave it asleep, at
\* least when no timer_sleep has run with interrupts on.
OnTime == irq = "return" /\ ~exposed => \A t \in Asleep : ticks < wake_up_tick[t]

\* Sleeping and waking up fail no assertion of thread.c.
NoPanic == panic = "none"
=============================================================================
