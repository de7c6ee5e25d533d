----------------------------- MODULE Scheduler -----------------------------
(***************************************************************************)
(* Assignment4/scheduler.c: the callbacks of a CPU scheduler driven by a   *)
(* simulator.  The simulator is a library outside the sources: it calls    *)
(* sys_exec for every thread of a tick before tick, lets the thread it     *)
(* last dispatched exit or request I/O after a tick or more on the CPU,    *)
(* serves requests one by one in order, starting each in a later tick than *)
(* the one it was made in and completing it in a later tick than that, and *)
(* asks for the statistics when all threads are done.                      *)
(***************************************************************************)
EXTENDS Integers, FiniteSets, SequencesExt

CONSTANTS Threads,
          NULL,        \* the null pointer
          Algorithms,  \* among those of enum algorithm that are implemented
          Quanta,      \* quanta of round robin
          Priorities,  \* 0 = highest
          MaxTicks     \* bound: no tick after this one

FCFS == 0
ROUND_ROBIN == 1
NP_PRIORITY == 2
P_PRIORITY == 3

ASSUME SchedulerAssumption ==
  /\ IsFiniteSet(Threads) /\ NULL \notin Threads
  /\ Algorithms \subseteq FCFS .. P_PRIORITY
  /\ Quanta \subseteq Nat \ {0} /\ Priorities \subseteq Nat /\ MaxTicks \in Nat

VARIABLES alg, quant, priority,      \* fixed by the command line and the threads
          ready_queue, io_queue, done_queue,
          cur_t,                     \* the thread on the CPU
          io_t,                      \* the thread the device works for
          ticks, last_on_total,
          running_time, waiting_time, last_on, beg_time,  \* struct times
          report,                    \* what stats returned
          dispatched,                \* simulator: the thread on the CPU
          device,                    \* simulator: requests, in order
          started,                   \* simulator: the first of them has started
          fresh,                     \* simulator: requests made or started in this tick
          on_cpu,                    \* simulator: the thread has run for a tick
          waited                     \* history: ticks spent waiting, by thread

fixedVars == <<alg, quant, priority>>
queueVars == <<ready_queue, io_queue, done_queue, cur_t, io_t>>
timeVars == <<running_time, waiting_time, last_on, beg_time>>
simVars == <<dispatched, device, started, fresh, on_cpu>>
vars == <<fixedVars, queueVars, ticks, last_on_total, timeVars, report, simVars, waited>>

Zero == [t \in Threads |-> 0]

Init ==
  /\ alg \in Algorithms
  /\ quant \in Quanta /\ (alg # ROUND_ROBIN => quant = Min(Quanta))
  /\ priority \in [Threads -> Priorities]
  /\ alg \in {FCFS, ROUND_ROBIN} => priority = [t \in Threads |-> Min(Priorities)]
  /\ ready_queue = <<>> /\ io_queue = <<>> /\ done_queue = <<>>
  /\ cur_t = NULL /\ io_t = NULL
  /\ ticks = 0 /\ last_on_total = 0
  /\ running_time = Zero /\ waiting_time = Zero /\ last_on = Zero /\ beg_time = Zero
  /\ report = NULL
  /\ dispatched = NULL /\ device = <<>> /\ started = FALSE /\ fresh = {}
  /\ on_cpu = FALSE /\ waited = Zero

Known ==
  ToSet(ready_queue) \cup ToSet(io_queue) \cup ToSet(done_queue)
    \cup ({cur_t, io_t} \ {NULL})

----------------------------------------------------------------------------
\* queue_sort on sort_priority; the library does not say how it breaks ties.
priority_order(q) ==
  {p \in SetToSeqs(ToSet(q)) : \A i, j \in 1 .. Len(q) : i < j => priority[p[i]] <= priority[p[j]]}

\* Mutation: last_on is left as it was.
stamp_missing(t) == last_on

\* t->last_on = ticks
stamp(t) == [last_on EXCEPT ![t] = ticks]

\* T leaves the ready queue for the CPU: sim_dispatch, and the time on the
\* queue is added to its waiting time; since is when it was put there.
dispatch(t, since) ==
  /\ cur_t' = t
  /\ dispatched' = t
  /\ waiting_time' = [waiting_time EXCEPT ![t] = @ + ticks - since]

\* A new thread; the first-come algorithms run it at once on an idle CPU.
sys_exec(t) ==
  /\ report = NULL
  /\ t \notin Known
  /\ last_on' = stamp(t)
  /\ beg_time' = [beg_time EXCEPT ![t] = ticks]
  /\ IF ready_queue = <<>> /\ cur_t = NULL /\ alg \notin {NP_PRIORITY, P_PRIORITY}
     THEN cur_t' = t /\ dispatched' = t /\ on_cpu' = FALSE /\ UNCHANGED ready_queue
     ELSE /\ ready_queue' = Append(ready_queue, t)
          /\ UNCHANGED <<cur_t, dispatched, on_cpu>>
  /\ UNCHANGED <<fixedVars, io_queue, done_queue, io_t, ticks, last_on_total,
                 running_time, waiting_time, report, device, started, fresh, waited>>

\* last_on_total before the increment: priority preemption leaves it alone.
restart_total(takes, preempts) == IF takes /\ ~preempts THEN 0 ELSE last_on_total

\* Mutation: the quantum ends one tick late.
expired_late == alg = ROUND_ROBIN /\ cur_t # NULL /\ last_on_total > quant

\* The quantum of the running thread has run out.
expired == alg = ROUND_ROBIN /\ cur_t # NULL /\ last_on_total >= quant

\* Mutation: the larger number is taken for the higher priority.
outranks_inverted(t) == alg = P_PRIORITY /\ cur_t # NULL /\ priority[t] > priority[cur_t]

\* The head of the sorted ready queue preempts the running thread.
outranks(t) == alg = P_PRIORITY /\ cur_t # NULL /\ priority[t] < priority[cur_t]

\* The clock interrupt.  The ready queue is sorted under preemptive priority
\* scheduling, and under the other one if the CPU is idle; then its head gets
\* an idle CPU, or that of a thread it outranks or whose quantum has run out.
tick ==
  /\ report = NULL /\ ticks < MaxTicks
  /\ \E rq \in IF alg = P_PRIORITY \/ (alg = NP_PRIORITY /\ cur_t = NULL)
               THEN priority_order(ready_queue) ELSE {ready_queue} :
       LET preempts == rq # <<>> /\ outranks(Head(rq))
           takes == rq # <<>> /\ (cur_t = NULL \/ preempts \/ expired)
           total == restart_total(takes, preempts)
       IN  /\ IF takes
              THEN /\ dispatch(Head(rq), last_on[Head(rq)])
                   /\ last_on' = [t \in Threads |-> IF t \in {Head(rq), cur_t} THEN ticks ELSE last_on[t]]
                   /\ ready_queue' = IF cur_t = NULL THEN Tail(rq) ELSE Append(Tail(rq), cur_t)
              ELSE /\ ready_queue' = rq
                   /\ UNCHANGED <<cur_t, dispatched, waiting_time, last_on>>
           /\ last_on_total' = IF cur_t' # NULL THEN total + 1
                               ELSE IF total = quant THEN 0 ELSE total
  /\ ticks' = ticks + 1
  /\ fresh' = {} /\ on_cpu' = (cur_t' # NULL)
  /\ waited' = [t \in Threads |->
        IF \/ t \in ToSet(ready_queue')
           \/ t \in ToSet(device) \ fresh /\ (started => t # Head(device))
        THEN waited[t] + 1 ELSE waited[t]]
  /\ UNCHANGED <<fixedVars, io_queue, done_queue, io_t, running_time, beg_time, report, device, started>>

\* Mutation: the finished thread stays on the CPU.
sys_exit_keeps_cur ==
  /\ dispatched # NULL /\ on_cpu
  /\ running_time' = [running_time EXCEPT ![cur_t] = ticks - beg_time[cur_t]]
  /\ done_queue' = Append(done_queue, cur_t)
  /\ dispatched' = NULL /\ on_cpu' = FALSE
  /\ UNCHANGED <<fixedVars, ready_queue, io_queue, cur_t, io_t, ticks, last_on_total,
                 waiting_time, last_on, beg_time, report, device, started, fresh, waited>>

sys_exit ==
  /\ dispatched # NULL /\ on_cpu
  /\ running_time' = [running_time EXCEPT ![cur_t] = ticks - beg_time[cur_t]]
  /\ done_queue' = Append(done_queue, cur_t)
  /\ cur_t' = NULL /\ dispatched' = NULL /\ on_cpu' = FALSE
  /\ UNCHANGED <<fixedVars, ready_queue, io_queue, io_t, ticks, last_on_total,
                 waiting_time, last_on, beg_time, report, device, started, fresh, waited>>

\* sys_read and sys_write: the running thread goes to the device or queues.
sys_io ==
  /\ dispatched # NULL /\ on_cpu
  /\ last_on' = stamp(cur_t)
  /\ IF io_queue = <<>> /\ io_t = NULL
     THEN io_t' = cur_t /\ UNCHANGED io_queue
     ELSE io_queue' = Append(io_queue, cur_t) /\ UNCHANGED io_t
  /\ fresh' = fresh \cup {cur_t} /\ device' = Append(device, cur_t)
  /\ cur_t' = NULL /\ dispatched' = NULL /\ on_cpu' = FALSE
  /\ UNCHANGED <<fixedVars, ready_queue, done_queue, ticks, last_on_total,
                 running_time, waiting_time, beg_time, report, started, waited>>
\* The I/O of io_t is over: it goes to the ready queue, the next request to
\* the device, and an idle CPU to the head of the ready queue as it is.
io_complete ==
  LET rq == Append(ready_queue, io_t)
      times == stamp(io_t)
  IN  /\ device # <<>> /\ started /\ Head(device) \notin fresh
      /\ io_t' = IF io_queue = <<>> THEN NULL ELSE Head(io_queue)
      /\ io_queue' = IF io_queue = <<>> THEN <<>> ELSE Tail(io_queue)
      /\ started' = FALSE /\ device' = Tail(device)
      /\ IF cur_t = NULL
         THEN /\ dispatch(Head(rq), times[Head(rq)])
              /\ ready_queue' = Tail(rq)
              /\ last_on' = [times EXCEPT ![Head(rq)] = ticks]
              /\ on_cpu' = FALSE
         ELSE /\ ready_queue' = rq
              /\ last_on' = times
              /\ UNCHANGED <<cur_t, dispatched, waiting_time, on_cpu>>
      /\ UNCHANGED <<fixedVars, done_queue, ticks, last_on_total, running_time,
                     beg_time, report, fresh, waited>>

\* The device starts on the request of io_t; the tick of the request itself
\* is no waiting time.
io_starting ==
  /\ device # <<>> /\ ~started /\ Head(device) \notin fresh
  /\ started' = TRUE /\ fresh' = fresh \cup {Head(device)}
  /\ waiting_time' = [waiting_time EXCEPT ![io_t] = @ + (ticks - 1) - last_on[io_t]]
  /\ last_on' = stamp(io_t)
  /\ UNCHANGED <<fixedVars, queueVars, ticks, last_on_total, running_time, beg_time,
                 report, dispatched, device, on_cpu, waited>>

\* The means, in integer division; done_queue is emptied on the way.
stats ==
  LET n == Len(done_queue)
      total(f) == MapThenSumSet(LAMBDA i : f[done_queue[i]], 1 .. n)
  IN  /\ report = NULL /\ ToSet(done_queue) = Threads
      /\ report' = [turnaround_time |-> total(running_time) \div n,
                    waiting_time |-> total(waiting_time) \div n]
      /\ done_queue' = <<>>
      /\ UNCHANGED <<fixedVars, ready_queue, io_queue, cur_t, io_t, ticks, last_on_total,
                     timeVars, simVars, waited>>

\* The simulation is over, or at its bound.
Stop == (report # NULL \/ ticks = MaxTicks) /\ UNCHANGED vars

Next ==
  \/ \E t \in Threads : sys_exec(t)
  \/ tick \/ sys_exit \/ sys_io \/ io_complete \/ io_starting \/ stats \/ Stop

Spec == Init /\ [][Next]_vars

----------------------------------------------------------------------------
\* Types of the variables.
TypeOK ==
  /\ alg \in Algorithms /\ quant \in Quanta /\ priority \in [Threads -> Priorities]
  /\ ready_queue \in Seq(Threads) /\ io_queue \in Seq(Threads) /\ done_queue \in Seq(Threads)
  /\ cur_t \in Threads \cup {NULL} /\ io_t \in Threads \cup {NULL}
  /\ ticks \in 0 .. MaxTicks /\ last_on_total \in 0 .. MaxTicks
  /\ \A f \in {running_time, waiting_time, last_on, beg_time, waited} :
        f \in [Threads -> 0 .. MaxTicks]
  /\ dispatched \in Threads \cup {NULL} /\ device \in Seq(Threads) /\ started \in BOOLEAN
  /\ fresh \subseteq Threads /\ on_cpu \in BOOLEAN

\* No callback loses or doubles a thread.
EachThreadOnce ==
  Len(ready_queue) + Len(io_queue) + Len(done_queue)
       + (IF cur_t = NULL THEN 0 ELSE 1) + (IF io_t = NULL THEN 0 ELSE 1)
       = Cardinality(Known)

\* The callbacks ignore the thread they are called for: their own idea of the
\* thread that runs and of the one whose I/O starts or ends is the simulator's.
SimulatorAgrees ==
  /\ cur_t = dispatched
  /\ device = (IF io_t = NULL THEN <<>> ELSE <<io_t>>) \o io_queue

\* The scheduler's queues hold every thread once, in the places where the
\* simulator that calls it has them, over all orders of the callbacks.
QueuesConsistent == TypeOK /\ EachThreadOnce /\ SimulatorAgrees

\* The waiting time reported for a thread is the number of ticks it spent on
\* the ready queue or queueing for the device, however often it did so and
\* whichever callback ended the wait.
WaitingTimeExact ==
  \A t \in ToSet(done_queue) \cup ({cur_t} \ {NULL}) : waiting_time[t] = waited[t]

\* Under round robin no thread waits longer than a full quantum of each of
\* the others.
RoundRobinBound ==
  alg = ROUND_ROBIN =>
    \A t \in ToSet(ready_queue) :
      ticks - last_on[t] <= quant * (Cardinality(Threads) - 1)

\* After every tick the CPU of a preemptive priority scheduler is with a
\* thread that no ready thread outranks, and it is never idle with work left.
PriorityAfterTick ==
  [][ticks' # ticks =>
       /\ cur_t' = NULL => ready_queue' = <<>>
       /\ alg = P_PRIORITY /\ cur_t' # NULL =>
            \A t \in ToSet(ready_queue') : priority[t] >= priority[cur_t']]_vars

=============================================================================
