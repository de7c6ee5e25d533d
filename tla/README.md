# A verification of CSE130_git

The repository holds the programs of a course on operating systems: a parallel
merge sort with processes and with threads (`Assignment1`, `Assignment2`), a
cart controller and a paragraph printer on pthreads (`Assignment3_1`), a CPU
scheduler (`Assignment4`), a pager (`Assignment5`), file routines
(`Assignment6`), and three stages of a Pintos kernel (`Lab1`, `Lab2`, `Lab3`).
Every program is plugged into a simulator, a library or a kernel of the course;
the author's own code is the handful of files below, and those are what the
modules here translate, together with the parts of the distributed kernel that
they stand on: the loader and page directories of processes, and the file
system. Paths are relative to `src/`; `PROJECT.json` maps every
definition to its lines.

## Inventory

| part | its state | its operations | what makes it correct |
|---|---|---|---|
| cart controller, `Assignment3_1/cartman.c` | `locks`, `c_moves`, one mutex, one condition variable, a thread per cart | `arrive`, `cart_start`, `reserve2`, `release2` | the simulator never terminates the program, two carts under way share no junction, every cart crosses |
| priority scheduler, `Lab2/.../threads/thread.c` | `ready_list`, status and priority of each thread, `thread_ticks` | create, exit, block, unblock, yield, set priority, tick | a thread of the highest priority runs, equals take turns, each thread is on the one list its status names |
| semaphores, `Lab2/.../threads/semaphore.c` | value, waiters | `semaphore_down`, `semaphore_up` | no wake-up lost, waiters served by priority |
| locks and condition variables, `Lab2/.../threads/lock.c`, `condvar.c` | holder, a semaphore; waiters with a semaphore each | acquire, release; wait, signal, broadcast | mutual exclusion, no lost signal, signals by priority |
| alarm clock, `Lab2/.../devices/timer.c` | `ticks`, `timer_list`, wake-up ticks | `timer_sleep`, `timer_interrupt` | nobody wakes early or late, the list survives the interrupts |
| CPU scheduler, `Assignment4/scheduler.c` | ready, I/O and done queues, the running thread, tick stamps | the callbacks of `scheduler.h` | no thread lost, the policy obeyed, the statistics exact |
| pager, `Assignment5/pager.c` | the queue of pages, reference bits, counters | `pager_init`, `pager_request`, `pager_destroy` | the page evicted is the one the algorithm names |
| parallel sorts, `Assignment1/psort.c`, `usort.c`, `Assignment2/sort.c` | the array, a shared segment, the ranges of the threads | sort a range | sorted, nothing lost, no data race |
| paragraph printer, `Assignment3_1/manpage.c` | `cur_page`, a mutex, a condition variable | `manpage`, `print_page` by seven threads | paragraphs in order, all shown, no reader stranded |
| processes, `Lab3/.../userprog/process.c`, `elf.c`, `syscall.c` | the semaphore and the struct on the stack of `process_execute`, pages of two pools, page directories, the user stack | execute, load, start, wait, exit; the calls halt, exit, write | execute returns, every page has an owner, the CPU's page directory is alive, the arguments are the words of the command line |
| file system, `Lab3/.../filesys/` | inodes on the device and in memory, the free map, the root directory, open files | create, open, remove, read, write, seek, deny, allow, close, boot | no sector used twice or lost, contents read back, removal waits for the last close |
| file routines, `Assignment6/fileman.c` | files | read, append, copy, dir, tree | the bytes asked for |

How they interact: the paragraph printer, the sorts, the cart controller, the
CPU scheduler and the pager are separate programs, each called by (and calling
back into) a library of the course that is present as a binary only. In the
kernel the parts are stacked: locks and condition variables call semaphores,
semaphores and the alarm clock call the scheduler, and the timer interrupt
enters all of them from below. In Lab3 the boot thread runs the actions of the
kernel command line: each makes a process whose thread loads its program from
the file system, while the boot thread waits on a semaphore. The shared state is the threads' list elements:
the ready list and every waiters list link a thread by the one `sharedelem`.

What is hard in this code: interleavings at every lock, unlock and interrupt;
broadcasts that follow their unlock; a `thread_unblock` that may switch threads
in the middle of its caller; a list walked with interrupts on; state that is
kept in globals across callbacks; off-by-ones in ticks and ranges; a failing
`fork`; structures on the stack of a thread that another one wakes; a page
directory torn down under a timer interrupt; allocations of pages and sectors
that fail half way; files removed while they are open. `PROJECT.json` lists these hazards one by one, with the line and the
properties against each.

## Modules

| module | models | builds on |
|---|---|---|
| `Railway` | what the cart controller promises: a section is taken and given back in one step, and only when it is free | |
| `Cartman` | `cartman.c`, a step per lock, wait, unlock, broadcast and library call | refines `Railway` |
| `CartmanProofs` | its proofs | `Cartman` |
| `Threads` | the operations of `thread.c` on lists, status and the running thread, as operators | |
| `Semaphore` | a kernel of threads that create, yield, exit, change priority and use semaphores, with timer and device interrupts | `Threads` |
| `SemaphoreProofs` | its proofs, and lemmas about the operators of `Threads` | `Semaphore` |
| `Monitor` | `lock.c` and `condvar.c` | `Threads`, an instance of `Semaphore` |
| `MonitorProofs` | its proofs | `Monitor`, an instance of `SemaphoreProofs` |
| `Alarm` | `timer.c`, down to the pointers of `timer_list` | `Threads` |
| `AlarmProofs` | its proofs | `Alarm`, an instance of `SemaphoreProofs` |
| `Scheduler` | `Assignment4/scheduler.c` and the simulator that drives it | |
| `SchedulerProofs` | its proofs | `Scheduler` |
| `Pager` | `Assignment5/pager.c` under any sequence of requests | |
| `PagerProofs` | its proofs | `Pager` |
| `ParallelSort` | the three parallel sorts | |
| `Manpage` | `Assignment3_1/manpage.c`, a step per lock, wait, unlock, broadcast, join and library call | |
| `ManpageProofs` | its proofs | `Manpage` |
| `Arguments` | `push_command`: cutting the command line into words, as operators | |
| `Process` | `process.c` with the loader, page directories, pools and scheduler it uses | `Arguments` |
| `ProcessProofs` | its proofs, and those about `Arguments` | `Process` |
| `Inode` | `inode.c` and `free-map.c` as operators on an image of the device | |
| `FileStore` | what the file system promises: named files whose contents read back | |
| `FileSystem` | the calls of `filesys.h` and `file.h`, shutdown and boot | `Inode`, refines `FileStore` |

Each `MC` module gives its specification finite sets for TLC. Definitions whose
comment begins with "Mutation:" are not part of a model: they are plausible
faults, each of which makes a property below fail when it takes the place of the
definition after it.

### Cartman

`pc[c]` is where the thread of cart `c` stands: `"start"` before the mutex,
`"test"` at the `while`, `"wait"` in `pthread_cond_wait`, `"cross"` and
`"crossing"` around the library's `cross`, then the lock, the body, the unlock
and the broadcast of `release2`. `locks` is the program's array and `reserved`
the library's own book, against which `reserve`, `release` and `cross` check
their call; `cartman.h` says the system exits when a check fails, which is
`exited`. `CondWaitReturn` and `SpuriousWakeup` let a waiter go on to the mutex after a
broadcast or without one. `Opposite` is the case analysis of `cart_start`; a
cart whose junction is no end of its track does nothing, as in the code.

### Threads, Semaphore, Monitor

`insert_ordered_thread_priority`, `schedule`, `thread_block`, `thread_yield` and
`unblock` are the functions of those names. A thread is `FREE` before it is
created, then as in `enum thread_status`. `wait_on[t]` names the semaphore whose
`while` loop a thread is in, so a woken thread tests the value again as the code
does. `panic` holds the assertion that failed; the kernel then halts. A step
leaves interrupts off from `intr_disable` to the level's restoration, so the
function is one step, up to a switch of threads. An interrupt arrives between
steps, also under the idle thread. `up(s, in_irq)` is `semaphore_up` from a
thread or from a handler: a `thread_unblock` that yields there fails the
assertion of `thread_yield`.

`Monitor` runs the library with interrupts on: each call of a semaphore
operation is a step, and so is each change of `holder` (places `"got"`,
`"up_out"`, `"up_down"`), so a time slice may end between any two. Every thread
has a semaphore of its own, the one on the stack of `condvar_wait`.

### Alarm

`timer_sleep` neither turns interrupts off before it walks the list nor on again
after `thread_block`. Hence every access to the list is a step (`scan`,
`scan_same_tick`, and the stores of `list_insert`), `next` and `prev` are
the links themselves, and `intr[t]` is the interrupt level a thread runs with:
on until its first `timer_sleep`, off ever after. The handler runs with
interrupts off, one step per element it pops. `exposed` records that some
`timer_sleep` has run with interrupts on.

### Scheduler, Pager, ParallelSort

`Scheduler` has one action per callback. The simulator is a binary; what the
module assumes of it (who is told of what, in which order) is taken from
`simulator.h`, `scheduler.h` and the way the code uses it, and is written at the
head of the module. `Pager` has `pager_request` and `pager_destroy`; the state
beside the code's (`loaded_at`, `requested_at`, `passed_at`, `requests`, `since_load`) is
history, from which the properties say what each algorithm should have done.
In `ParallelSort` a range is taken on in one step and written back in another;
`structs` is read when a thread first runs, as `Test` and `Test2` do.
`Take`, `slice` and `stored` are the plumbing of that.

### Manpage

`main` stands in one of the two loops of `manpage()`; `pc[t]` is where a thread is
in `print_page`, as in `Cartman`. `getParagraphId` and `showParagraph` are library
calls: the first hands out each number once, the second adds to `shown`.

### Arguments, Process

`Process` is one machine: the boot thread (`main`, `call`, `s`), a thread for each
`run` action (`pc`), the idle thread, and the round-robin scheduler of Lab3
(`running`, `ready`, `io`). Every step may be followed by `timer_interrupt`, so
`process_exit` is three steps, as its comment about the order asks to be read.
`Switch` is `schedule` with `thread_schedule_tail`, which activates the page
directory of the thread it switches to (`cr3`). Pages are counted per pool, and
`held` says how many a call has not given back. A page that cannot be had is an
early return where the code tests for it (`cmdline_copy`, `cmdline2`, the page
directory, the segments), a thread that never comes to be in `thread_create`, and
a wild pointer where the code does not test (`cmd_no_args`, the 1000 offsets of
`push_command`): the machine is then `"crashed"` and no longer followed.
`elf_load_open` and `elf_load_map` may fail at any time, as files may be missing
or malformed. A user program runs until it makes a system call that ends it or
the machine.

A thread that prints may block, and then the next ready thread gets the CPU without
any timer interrupt: on the lock of the console, and whenever the queue of the serial
port is full (`console.c:87`, `intq.c:61`). Who holds the lock and what is in the queue
is left out: `console_wait` may happen wherever a thread prints (the boot thread
between its actions, a load that fails, `write` and `sys_exit` of a program), and
`console_wake` any time after it.

`Arguments` works on lines of characters because the cutting of the line is what
it is about: the loop of `push_command` is the recursive function `Loop`, the
stack is the bytes above `esp`, and `Words` is the reference definition.

### Inode, FileStore, FileSystem

An image of the device is the free map and, for each sector, what the buffer
cache returns for it. `Inode`'s operators take an image and return the one they
leave, with `ok` for the result, so that a failure half way keeps what had been
done: the sectors stay marked, the entries in memory stay filled in, the index
block is not written. A sector is read as the kind its reader expects. Sizes are
in cells of one directory entry, two to a sector, with one direct block and two
entries per index block in the checked instance, so that a file of seven cells
needs all three kinds of block.

`FileSystem` has one action per call. `open_inodes` are the inodes in memory, with
their own copy of the header as the code has it; the root's inode is opened and
closed within a call. `Restart` is an orderly shutdown and the next boot.
`FileStore` has names, contents and handles only; the refinement mapping reads
the contents through the inode in memory if the file is open and through the
device otherwise. Every call of `FileStore` also returns whether it succeeded, and one
that did not has changed nothing, so a call that returns true without having done
what was asked is no step of it.

`dir_create` leaves `in_use` of the parent's entry unset (`directory.c:80`), so what
the device is formatted with depends on a byte of the stack. `ParentEntries` says what
that entry may be, `ParentInUse` or `ParentFree`, and the runs take both. With the
second, the first file created goes to offset 0, where `lookup` never looks. The
abstract store has no such step: `ImplementsFileStore` names it, `CreateAtParent`, as
the one that is not what the store promises, and says that every other step is, on
such a device too. `restarted` tells the properties which step was a shutdown.

## What TLC checks

| run | instance | shows |
|---|---|---|
| `cartman` | 3 carts, 4 tracks, four arrivals that overlap, are disjoint, or are no end of their track; one spurious wake-up | no exit, exclusive crossings, no stranded cart, every cart crosses, refinement of `Railway` |
| `semaphore` | main, two more threads, idle; two priorities; two semaphores, one of a device; values to 2 | list membership and order, strict priority, wake-ups, turns among equals |
| `monitor` | 3 threads, two priorities | mutual exclusion, no lost signal, priority order, signalled threads return |
| `monitor_atomic` | the same | a violation: `condvar_wait` meets a waiter that is not waiting yet |
| `alarm` | 3 sleepers of two priorities, which differ or not, ticks to 4, naps of 1 and 2; all, two or none have slept before | list linked, and sorted but for threads behind a later one that outranks them; nobody early, nobody late but those |
| `alarm_race` | none has slept before | a violation: an interrupt inside `timer_sleep` |
| `scheduler` | 3 threads, 4 algorithms, quanta 1 and 2, two priorities, 5 ticks | no thread lost, exact waiting times, round robin's bound, priorities |
| `pager` | 4 pages, 1 to 3 frames, 5 algorithms, 8 requests | FIFO and LRU by definition, second chances in turn, LFU by the requests since the load, which forgets only what was evicted |
| `sort` | arrays of zeros and ones, lengths 1, 2, 5, 6, 7, 9, with and without an element to the left | sorted, nothing lost, disjoint ranges, the call returns |
| `manpage` | 4 paragraphs, two spurious wake-ups | order, no stranded reader, the whole page by the time `manpage` returns |
| `process` | 2 `run` actions, 0 to 13 free kernel pages, 3 user pages, programs of 2 pages; and all command lines of up to 5 characters on a machine with 8 pages | live page directory, live arguments, accounted pages, words on the stack, `process_execute` returns |
| `files` | 14 sectors, 2 names, 2 handles, files of 0, 3 and 7 cells, 6 calls; the parent's entry in use or not | sectors exclusive, no assertion fails, losses only where a call fails or a shutdown ends a removed file, refinement of `FileStore` |

Why the bounds are enough. Three carts are one that holds, one that waits and
one that gets in between. Three threads of two priorities are a running one, an
equal and a superior. The semaphores' waiters lists reach length two with one
thread left to signal. In `Alarm` three sleepers put an element at the front, in
the middle and at the end of the list, two naps order them either way, and two
priorities make the walk among sleepers of one tick stop or go past later ones.
Three threads fill the CPU, the device and a queue of the scheduler at once; five
ticks cover several quanta and more than one request. Eight requests fill
three frames, hit each and evict several times, for any history of
four pages. Zeros and ones are enough to see an order broken (a
merge only compares its elements); the lengths leave each remainder of the division by four
and take the small-array path. Threads and pages that do not differ are
interchangeable where the cfg says so; those runs check no liveness. Four
paragraphs are one that has its turn, two that wait for different turns and one
that has not started. Thirteen pages are one more than two loaded programs and
their leftovers take, so that every allocation is the failing one in some
behaviour; five characters hold two words with spaces before, between and after.
Six calls fill the fourteen sectors, overwrite the free map's header and boot
again, or create, open twice, remove, write, close and create again; the root
directory grows when the second file is created.

Each module's `TypeOK` is part of the first invariant of its run
(`ListsConsistent`, `QueuesConsistent`, `PagesAccounted` and so on) or is proved.

### Violations

The program does something else than its comments say in several places. Two of them
are runs of `PROJECT.json`, under "findings", with the trace that shows it:

- `monitor_atomic`: `condvar_wait` "atomically releases LOCK and waits"
  (`condvar.c:52`), but sorting the waiters needs the front of the list of each
  waiter's semaphore, which is empty until that waiter has gone down on it.
- `alarm_race`: `timer_sleep` asks for interrupts to be on (`timer.c:102`), but
  links its element before it turns them off.

Five more have a configuration of their own, beside the runs of `PROJECT.json`, in which
TLC finds the violation. Where something of the promise is left, the passing run of the
module states what:

- `Alarm_priority.cfg` (`OnTime`): `timer_sleep` "sleeps for approximately TICKS timer
  ticks" (`timer.c:102`), but once it has met a sleeper of its own tick it looks at
  priorities only and may go past sleepers of later ticks (`timer.c:118`); the
  handler stops at the first of those. `LateOnlyBehindHigher`, in the run `alarm`,
  says that a thread is late only while one that outranks it sleeps longer.
- `Pager_lfu.cfg` (`LfuInfiniteHistory`): `simulator.h:24` calls LFU's history
  infinite, but the code clears the counter of an evicted page. `LfuVictim` says that
  the victim is right by the requests since the load, and that a page with more
  requests in all than one that stays goes only if it had been evicted before.
- `Process_wait.cfg` (`RunWaits`): `run` is said to "wait for it to complete"
  (`init.c:354`), but `process_wait` returns at once. Nothing is left of that
  promise: a program that prints gives up the CPU by itself, so the boot thread may
  get ahead of it even without a timer interrupt.
- `FileSystem_parent.cfg` (`CreatedFound`): `filesys_create` "returns true if
  successful" (`filesys.c:51`), but also for a file at offset 0, which is "for parent
  directory" (`directory.c:76`, `:212`) and is never searched. `ImplementsFileStore`
  says that nothing else of the store is disturbed.
- `FileSystem_full.cfg` (`FreeMapReadable`): when an index block is needed and no
  sector is free, `inode.c:467` goes on with sector 0 and overwrites the free map's
  header; the next boot stops with "can't read free map". `NoPanic` and
  `LossOnlyOnFailure` say that this is the only way to either.

The models contain more such cases, which have no configuration of their own:

- `semaphore_up` "may be called from an interrupt handler" (`semaphore.c:84`), but
  `thread_unblock` yields to a thread that outranks the running one, and
  `thread_yield` asserts that there is no interrupt: `Semaphore` then panics.
- `process_execute` waits for ever if `thread_create` found no page
  (`process.c:209`), and each call leaves two or three pages allocated.
- A create that fails after its inode was made, also because the name exists,
  returns the header's sector only (`filesys.c:70`). `LossOnlyOnFailure` confines
  such losses to calls that report a failure.

The passing runs keep these faults in the model: `Semaphore` and `Monitor` go on
to a panic, in which the safety properties still hold, and `Alarm`'s list
properties speak of the behaviours without `exposed`.

### Fairness

- `Cartman`: weak fairness of each cart's thread. POSIX schedules every runnable
  thread; nothing is assumed about which waiter gets the mutex beyond that.
- `Semaphore`: weak fairness of the timer interrupt (hardware), of the idle
  thread, and of a woken thread's retest (code with interrupts off runs on). None
  of the threads' own calls is fair: a thread may compute for ever.
- `Monitor`: weak fairness of the kernel's own steps, strong fairness of a
  thread's steps inside the library and of its release of the lock: a thread
  scheduled again and again executes, and user code leaves its critical section.
- `ParallelSort`: weak fairness of the program as a whole; no step can be
  repeated, so this only says that the machine does not stop.
- `Manpage`: weak fairness of the main thread and of each thread, as in `Cartman`.
- `Process`: weak fairness of the timer and of the disk (hardware) and of waking a
  thread that waits for the console (the serial interrupt empties its queue, and who
  holds the lock gets on), strong
  fairness of the threads' steps in the kernel: the scheduler is round-robin, so a
  thread that is ready runs again and again, though the timer may take the CPU
  away before any single step. User programs are not fair.
- `Alarm`, `Scheduler`, `Pager` and `FileSystem` state safety only.

## What is proved

`CartmanProofs`, `SemaphoreProofs`, `MonitorProofs`, `AlarmProofs`,
`SchedulerProofs`, `PagerProofs`, `ManpageProofs` and `ProcessProofs` hold the theorems, for every
value of the constants that satisfies the assumptions named in the modules
(`CartmanAssumption`, `ThreadsAssumption`, `SemaphoreAssumption`,
`MonitorAssumption`, `AlarmAssumption`, `SchedulerAssumption`, `PagerAssumption`,
`ManpageAssumption`, `ProcessAssumption`): any carts, any ring, any
finite set of threads, any priorities in 0 .. 63, any semaphores, any naps and any last tick, any scheduling
algorithm, quantum and number of ticks, any finite set of pages and number of frames, any number of
paragraphs, any number of programs of any size, with any command line, on a machine with any memory. That
threads and pages are finitely many costs nothing: the simulators hold them in
arrays and lists, and a machine has no others. `AlarmAssumption` says of the
constants of `Alarm` that the two sentinels of the list, the null pointer and the
elements of the threads are different addresses; `ProcessAssumption` says of a
command line that it is a string of C, not empty here and without a zero inside, for
which the loader has room (128 characters): `push_command` keeps `argc` in a `char`
and has room for 1000 addresses, which is enough for such a line and no more.

Each invariant below was checked by TLC on the instance of its run before it was
proved. Where a proof needs an induction over numbers (the least member of a set
of naturals, a sum over a finite set, an insertion that keeps a list sorted), it
takes a least counterexample instead; that form is within the provers' reach. The same
form gives what a recursive function computes, once it is shown, by that argument
too, that there is such a function at all.

`CartmanProofs`. None of the safety properties is inductive alone: whether a
call of `reserve` finds the junction taken depends on the library's book, which
depends on `locks` only as long as threads change both under the mutex. `IInv`
therefore says, beside types, that the owner of the mutex is the one thread
between its lock and unlock (`MutexInv`) and that `locks`, `reserved` and the
positions of the threads tell the same story (`BooksAgree`). From it follow
`NeverExits`, `Exclusion`, `NoneStranded`, and, step by step, `Refinement`.

`SemaphoreProofs`. Lemmas about `Threads` first say what each list operation does to
the set, the order and the duplicates of a list; they are all that is
used of its recursion-free definitions, here and in the two modules that follow. `IInv` then ties the lists to `status`
and `wait_on`: the ready list is the set of ready threads, the waiters of a
semaphore are the blocked threads with that `wait_on`, every list is sorted, and
the running thread is unique and unoutranked unless the kernel has panicked. From
it `ListMembership`, `ListOrder`, `PriorityScheduling` and `PriorityWakeup`
follow; `WakeupsDelivered` is a second induction on top of it, with one counting argument
per action about the woken threads that have not yet tested the value.
`ListsAreConsistent` states types, membership and order in the form the run checks.

`MonitorProofs`. Locks and condition variables are built on `semaphore_down` and
`semaphore_up`, so the kernel's invariant is not proved again: `SemaphoreProofs` is
instantiated for the semaphores of the lock and of the waiting threads
(`KernelAssumptions`), and its lemmas about `down`, `up` and the kernel's own steps
are cited. On top of it `PlaceInv` says on which semaphore a thread at each place of the
library can block, `LockInv` that the lock's semaphore is 1 exactly when no thread
is between its `down` and its `up`, and `CondInv` that a waiter's own semaphore
is 0 while it is on the list and 1 from the signal until it has gone past. The order of the
waiters needs that the scan of `condvar_wait`, where it does not panic, inserts
where `insert_ordered_thread_priority` would.

`AlarmProofs`. Two invariants, one inside the other. `RaceInv` holds whatever
interleaves: it says of every link which kinds of pointer it can be (`PointerInv`),
and of the handler's cursor that it is an element or the tail, and either the front
of the list or held up behind a front that a race keeps from being removed
(`CursorInv`); so whenever the cursor is an element the list is not empty, and
`list_pop_front` has one to remove even while a `list_insert` is half done. `PointersValid` and `SleepsLongEnough` follow
from it with no further condition: the races of `alarm_race` can delay a thread or
lose its place, but follow no wild pointer and wake nobody early. `QuietInv` holds
as long as no `timer_sleep` has run with interrupts on (`~exposed`): only
the running thread is then inside `timer_sleep`, and the list is a chain of
distinct elements, linked both ways except for the stores its `list_insert` has
still to make, with the walk's cursor at a known position of the chain. That the
chain is sorted by ticks is not true, since the walk among sleepers of one tick
looks at priorities only. What is true for any priorities is `Ordered`: a thread that
follows a later sleeper also follows one, at least as late as that, which outranks it
(`Outlasts`). It is kept because the walk goes past such a sleeper only if it outranks
the thread, and the handler removes elements from the front only when they are due, which a later
sleeper that holds others up is not. `TimerListKept` is this order with the links; from
it follows `LateBehindHigher`, that a handler which stops at the first later
tick leaves asleep only threads behind one that outranks them. That nobody is left
at all is false (see `Alarm_priority.cfg`). The scheduler under it is not proved again:
`SemaphoreProofs` is instantiated for a kernel without semaphores.

`SchedulerProofs`. The callbacks act on the head of a queue without looking at
which thread they are for, so `QueuesConsistent` needs that the simulator and
the queues have each thread in the same one place. `WaitingTimeExact` needs
what `waiting_time` lacks while a thread still waits: the ticks since it was
enqueued. `RoundRobinBound` is the hard one, because `io_complete` puts a
thread on an idle CPU without restarting the count of the quantum. Its invariant
is a potential: what a thread has waited, plus a whole quantum for every thread
before it in the queue, plus what is left of the running thread's quantum, never
exceeds a quantum for each of the other threads.

`PagerProofs`. Every algorithm keeps the order of its queue as its only memory.
The invariant says what that order is (of loads under FIFO, of requests under LRU,
of turns under the clock), that pages which are not resident are earlier in it than all that are, that LFU's
counters are the requests since the load and the clock's bits the references since
the last chance. LFU sorts its queue at every request: that there is a sorted order at all is a
lemma, and that its first element is the right victim follows. `HistoryKept` says that the requests
since a load are some of all requests.

`ManpageProofs`. That the page appears in order needs to know that only one
thread is between its test and its unlock (`MutexInv`), that it has the turn
(`TurnInv`), and that `cur_page` counts what has been shown, except between
`showParagraph` and the increment, where it is one behind (`CountInv`).

`ProcessProofs`. A switch of threads gives the CPU the directory of the thread it
switches to, so `ActiveDirectoryLive` needs to know that of every thread, not only
of the one that runs: a `pagedir` that is set is live, and the CPU may be in a
directory its thread has forgotten only between the first two steps of
`process_exit` (`DirectoryInv`). `ArgumentsAlive` needs the value of the semaphore:
it stays 0 until the thread of the call has finished its start, so `process_execute`
cannot pass its `semaphore_down` before; and the threads of later calls do not
exist yet (`CallInv`). `PagesAccounted` needs to know how
many buffers a call holds at every step of it (`HeldInv`), that pages are mapped
only in a live directory (`SpaceInv`), and what one change does to a sum over all
calls (`SumChange`, `SumWithin`, about `SumFunction` of the community modules); the
pools then balance step by step (`PoolInv`), also after a panic.
`ArgumentsRight` is about data: for every command line there is room for, the addresses that
`push_command` computes backwards from the lengths are those at which a program
reads the words of the line. The invariant of the loop (`RoundInv`) says where the
word being passed ends, that `prev_space` is set exactly when that word is empty
and not the last, and (`Layout`) which bytes of the stack are which word. A line that ends in a space has
one more, empty word past its end (`Starts`); treated like the others it needs no case of
its own in the loop. `OrderUnique` then identifies the words pushed, last first,
with the reference definition, and `BelowBase` the sums of the lengths with the addresses.

Only model-checked: all liveness (`EveryCartCrosses`, `NoStarvation`,
`SignalledReturns`, `Returns`, `WholePageShown`, `ExecuteReturns`), which is beyond
the proof system; what the recursive sort computes for every input (`SortsInput`, an
induction over the data) and `NoDataRace` beside it; and the file system
(`SectorsExclusive`, `NoPanic`, `LossOnlyOnFailure` and the refinement of
`FileStore`), whose operators fold over the blocks of a file.

## Not modelled

- `merge.a`, `queue.a`, `cartman.a`, `simulator.a` and the like are binaries:
  they are external, and appear as the code's calls and callbacks need them.
- Most of Pintos as distributed (boot, memory, devices, libraries, utilities, its
  tests) is not the author's code and is modelled only where the parts above meet
  it. The repository holds it six times: `Lab1`, `Lab2` and `Lab3`, each with a
  pristine copy in `.pintos`. Nearly all lines of the repository are in those
  copies, which is why the share of lines the map covers is small.
- `Lab3/.../vm` is not compiled into the kernel of Lab3 but for stubs.
- `Lab3/.../filesys/cache.c`: the file system is modelled on top of it, on what its
  reads return; its eviction and write-back are not. `fsutil.c` prints or copies
  through the calls that are modelled. Directories below the root, the current
  directory and paths are left out: nothing in this kernel makes a directory.
- The file system's calls are one at a time. There is no lock around them, but the
  only threads that make them are the boot thread and, while it waits, the thread
  that loads a program. `elf_load` never closes the executable; its inode stays
  open, with writes denied, until the machine is switched off.
- A write of no bytes (`inode.c:336`), a file longer than the blocks of an inode can
  hold (an assertion, `inode.c:527`) and memory for the kernel's small structures are
  left out.
- `Assignment6/fileman.c` is a set of sequential loops over library calls, with no
  state between them.
- `Assignment3` and `Lab1` are earlier versions of `Assignment3_1` and of the
  alarm clock in `Lab2`.
- `timer_calibrate` and the busy-wait delays are hardware timing.
- `thread_set_priority` stores the priority and yields in one step: an interrupt
  between the two (`thread.c:353`) is left out. `ParallelSort` shares the elements
  of a segment; its size in bytes is rounded up to pages by the system.
- Failing `pthread_create`, `mmap`, `shmget` and `malloc` are left out: the code
  tests none of them.

## Plan

Done, in this order: `Cartman` with its refinement and proofs; `Threads` and
`Semaphore` with theirs; `Monitor`; `Alarm`; `Scheduler`; `Pager`;
`ParallelSort`; `Manpage` with its proofs; `Arguments` and `Process`,
with proofs; `Inode`,
`FileSystem` and its refinement of `FileStore`; the proofs of `Monitor`,
`Scheduler`, `Pager`, of the pages of `Process`, of `Alarm` and of `Arguments`. Next:

1. Proofs: disjoint segments and the absence of data races in `ParallelSort`.
2. The free map of `Inode`: that `inode_reserve` never hands out a marked sector, as
   lemmas about its operators, towards `SectorsExclusive`.
3. The buffer cache, refined against the store of sectors that `Inode` assumes.
4. An abstract semaphore and an abstract monitor that `Semaphore` and `Monitor`
   refine.
