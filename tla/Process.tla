------------------------------ MODULE Process ------------------------------
(***************************************************************************)
(* Lab3/pintos/src/userprog: the `run' actions of the kernel command line. *)
(* For each, the main thread calls process_execute, which copies the       *)
(* command line into pages of the kernel pool, creates a thread and waits  *)
(* on a semaphore of its own stack; the thread loads the program, ups the  *)
(* semaphore and becomes the process, until a system call or a fault ends  *)
(* it.  One CPU, round-robin: the timer may switch threads between any two *)
(* steps, and every switch activates the page directory of the thread it   *)
(* switches to.                                                            *)
(*                                                                         *)
(* Pages are counted, not named.  The small blocks of malloc (files,       *)
(* argument strings) are not counted.                                      *)
(***************************************************************************)
EXTENDS Arguments, Functions

CONSTANTS Runs,         \* number of `run' actions on the command line
          Boots,        \* machines: the free pages of the kernel pool at the
                        \* first action, and the command line of the actions
          UserPages,    \* pages of the user pool
          Segments,     \* pages a program maps, each with a page table
          Main, Idle,   \* the initial thread and the idle thread
          KernelDir     \* init_page_dir

\* The loader's room for the whole kernel command line.
LOADER_ARGS_LEN == 128

ASSUME ProcessAssumption ==
  /\ {Runs, UserPages, Segments} \subseteq Nat
  /\ \A b \in Boots :
       /\ b.kpages \in Nat
       /\ b.cmdline \in Seq(Chars) /\ Len(b.cmdline) \in 1 .. LOADER_ARGS_LEN
  /\ Main # Idle /\ {Main, Idle, KernelDir} \cap Nat = {}

VARIABLES machine,    \* "on", "off", or "crashed" (panic or wild pointer)
          running,    \* the thread on the CPU
          ready,      \* ready_list
          io,         \* threads blocked in ide.c, or on the console
          main,       \* where the main thread is
          call,       \* which process_execute it is in, or was in last
          s,          \* value of the semaphore on the main thread's stack
          pc,         \* where the thread of each call is
          held,       \* buffer pages of each call that are not freed
          loaded,     \* start_process's local of the same name
          pagedir,    \* is the thread's pagedir set (not NULL)?
          dir,        \* the page directory itself: "none", "live", "freed"
          mapped,     \* user pages (and page tables) in it
          cr3,        \* the page directory the CPU uses
          kfree,      \* free pages of the kernel pool
          ufree,      \* free pages of the user pool
          boot,       \* the machine, a member of Boots
          stack       \* argc, argv and strings on the user stack, once pushed

pools == <<held, kfree, ufree, boot>>
space == <<pagedir, dir, mapped, cr3, stack>>
sched == <<running, ready, io>>
vars == <<machine, sched, main, call, s, pc, loaded, space, pools>>

Procs == 1 .. Runs
Threads == Procs \cup {Main}

MainAt == {"actions", "copy", "cmdline2", "no_args", "create", "down",
           "waiting", "exited"}
NoStack == [argc |-> 0, argv |-> << >>, strs |-> << >>]
ProcAt == {"none", "start", "open", "segments", "free", "up", "user",
           "exit", "activate", "destroy", "dying", "dead"}

Init ==
  /\ machine = "on"
  /\ running = Main /\ ready = << >> /\ io = {}
  /\ main = "actions" /\ call = 0 /\ s = 0
  /\ pc = [p \in Procs |-> "none"]
  /\ held = [p \in Procs |-> 0]
  /\ loaded = [p \in Procs |-> FALSE]
  /\ pagedir = [p \in Procs |-> FALSE]
  /\ dir = [p \in Procs |-> "none"]
  /\ mapped = [p \in Procs |-> 0]
  /\ stack = [p \in Procs |-> NoStack]
  /\ cr3 = KernelDir
  /\ boot \in Boots /\ kfree = boot.kpages
  /\ ufree = UserPages

----------------------------------------------------------------------------
\* schedule() with ready list q: the first takes the CPU, else the idle
\* thread; thread_schedule_tail activates its page directory.
Switch(q) ==
  LET next == IF q = << >> THEN Idle ELSE Head(q)
  IN  /\ running' = next
      /\ ready' = IF q = << >> THEN q ELSE Tail(q)
      /\ cr3' = IF next \in Procs /\ pagedir[next] THEN next ELSE KernelDir

\* The timer's tick ends the time slice: thread_yield on return.  An idle CPU
\* takes whatever an interrupt has made ready.
timer_interrupt ==
  /\ machine = "on"
  /\ Switch(IF running = Idle THEN ready ELSE Append(ready, running))
  /\ UNCHANGED <<machine, io, main, call, s, pc, loaded, pagedir, dir, mapped, stack, pools>>

\* thread_block and thread_unblock of a thread that waits for a device.
Block(t) ==
  /\ machine = "on" /\ running = t
  /\ io' = io \cup {t}
  /\ Switch(ready)
  /\ UNCHANGED <<machine, main, call, s, pc, loaded, pagedir, dir, mapped, stack, pools>>

Unblock(t) ==
  /\ machine = "on" /\ t \in io
  /\ io' = io \ {t}
  /\ ready' = Append(ready, t)
  /\ UNCHANGED <<machine, running, main, call, s, pc, loaded, space, pools>>

\* Where a thread reads the executable, and where it prints: run_task and the
\* shutdown, elf_load that fails, write, sys_exit and a fault.
Reads(t) == t \in Procs /\ pc[t] \in {"open", "segments"}
Prints(t) == IF t = Main THEN main = "actions" ELSE pc[t] \in {"open", "segments", "user"}

\* ide_read: the thread blocks until the disk has answered.
elf_load_read(p) == Reads(p) /\ Block(p)

ide_interrupt(p) == Reads(p) /\ Unblock(p)

\* A thread that prints blocks while another has the console's lock, and each
\* time the queue of the serial port is full.  Who has the lock and what is in
\* the queue is left out: a thread may block at any character, and be woken by
\* the lock's release or by the serial interrupt.
console_wait(t) == Prints(t) /\ Block(t)

console_wake(t) == Prints(t) /\ Unblock(t)

----------------------------------------------------------------------------
(* The main thread: run_task and process_execute.                          *)

MainGoto(from, to) ==
  /\ machine = "on" /\ running = Main
  /\ main = from /\ main' = to

\* The next action on the command line calls process_execute.
run_task ==
  /\ call < Runs
  /\ MainGoto("actions", "copy")
  /\ call' = call + 1
  /\ UNCHANGED <<machine, sched, s, pc, loaded, space, pools>>

\* palloc_get_page for cmdline_copy and cmdline2: TID_ERROR if there is none,
\* and process_wait(TID_ERROR) returns at once.
copy_cmdline(from, to) ==
  /\ \/ kfree > 0 /\ MainGoto(from, to)
        /\ kfree' = kfree - 1
        /\ held' = [held EXCEPT ![call] = @ + 1]
     \/ kfree = 0 /\ MainGoto(from, "actions")
        /\ UNCHANGED <<kfree, held>>
  /\ UNCHANGED <<machine, sched, call, s, pc, loaded, space, ufree, boot>>

\* palloc_get_page for cmd_no_args is not checked: memcpy to a null pointer
\* is a fault in the kernel, which continues at a wild address.
copy_name ==
  /\ MainGoto("no_args", "create")
  /\ IF kfree > 0
     THEN /\ kfree' = kfree - 1
          /\ held' = [held EXCEPT ![call] = @ + 1]
          /\ UNCHANGED machine
     ELSE machine' = "crashed" /\ UNCHANGED <<kfree, held>>
  /\ s' = 0
  /\ UNCHANGED <<sched, call, pc, loaded, space, ufree, boot>>

\* thread_create needs a page for the thread; its result is not looked at.
thread_create ==
  /\ MainGoto("create", "down")
  /\ IF kfree > 0
     THEN /\ kfree' = kfree - 1
          /\ pc' = [pc EXCEPT ![call] = "start"]
          /\ ready' = Append(ready, call)
     ELSE UNCHANGED <<kfree, pc, ready>>
  /\ UNCHANGED <<machine, running, io, call, s, loaded, space, held, ufree, boot>>

\* Mutation: process_execute returns without waiting for its thread.
execute_unwaited ==
  /\ MainGoto("down", "actions")
  /\ UNCHANGED <<machine, sched, call, s, pc, loaded, space, pools>>

\* semaphore_down in process_execute; process_wait then returns -1 at once.
execute_down ==
  \/ /\ s > 0 /\ MainGoto("down", "actions")
     /\ s' = s - 1
     /\ UNCHANGED <<machine, sched, call, pc, loaded, space, pools>>
  \/ /\ s = 0 /\ MainGoto("down", "waiting")
     /\ Switch(ready)
     /\ UNCHANGED <<machine, io, call, s, pc, loaded, pagedir, dir, mapped, stack, pools>>

\* After the last action: shutdown powers off if -q was given, otherwise the
\* main thread exits (its page is not from the pool).
actions_done ==
  /\ call = Runs
  /\ \/ /\ MainGoto("actions", "actions")
        /\ machine' = "off" /\ UNCHANGED <<sched, cr3>>
     \/ /\ MainGoto("actions", "exited")
        /\ Switch(ready) /\ UNCHANGED <<machine, io>>
  /\ UNCHANGED <<call, s, pc, loaded, pagedir, dir, mapped, stack, pools>>

MainThread ==
  \/ run_task \/ copy_cmdline("copy", "cmdline2") \/ copy_cmdline("cmdline2", "no_args")
  \/ copy_name \/ thread_create \/ execute_down \/ actions_done

----------------------------------------------------------------------------
(* The thread of call p: start_process, elf_load, the process, its end.    *)

Goto(p, from, to) ==
  /\ machine = "on" /\ running = p
  /\ pc[p] = from /\ pc' = [pc EXCEPT ![p] = to]

\* elf_load starts: pagedir_create and process_activate.
elf_load_create(p) ==
  /\ \/ kfree > 0 /\ Goto(p, "start", "open")
        /\ kfree' = kfree - 1
        /\ pagedir' = [pagedir EXCEPT ![p] = TRUE]
        /\ dir' = [dir EXCEPT ![p] = "live"]
        /\ cr3' = p
     \/ kfree = 0 /\ Goto(p, "start", "free")
        /\ UNCHANGED <<kfree, pagedir, dir, cr3>>
  /\ UNCHANGED <<machine, sched, main, call, s, loaded, mapped, stack, held, ufree, boot>>

\* filesys_open and the headers: no such file, or not a valid executable.
\* The name ends at the first space; no executable has an empty one.
elf_load_open(p) ==
  /\ \/ boot.cmdline[1] # SPACE /\ Goto(p, "open", "segments")
     \/ Goto(p, "open", "free")
  /\ UNCHANGED <<machine, sched, main, call, s, loaded, space, pools>>

\* load_segment and setup_stack: a page of the user pool and a page table
\* for it, or the load fails and the user page goes back.
elf_load_map(p) ==
  /\ mapped[p] < Segments
  /\ \/ /\ ufree > 0 /\ kfree > 0 /\ Goto(p, "segments", "segments")
        /\ ufree' = ufree - 1 /\ kfree' = kfree - 1
        /\ mapped' = [mapped EXCEPT ![p] = @ + 1]
     \/ /\ Goto(p, "segments", "free")
        /\ UNCHANGED <<ufree, kfree, mapped>>
  /\ UNCHANGED <<machine, sched, main, call, s, loaded, pagedir, dir, cr3, stack, held, boot>>

\* push_command: malloc of 1000 offsets takes a page, and neither the result
\* is looked at nor the page ever freed; then the stack is built.
push_command(p) ==
  /\ mapped[p] = Segments
  /\ Goto(p, "segments", "free")
  /\ loaded' = [loaded EXCEPT ![p] = TRUE]
  /\ IF kfree > 0
     THEN /\ kfree' = kfree - 1
          /\ held' = [held EXCEPT ![p] = @ + 1]
          /\ stack' = [stack EXCEPT ![p] = StackOf(boot.cmdline)]
          /\ UNCHANGED machine
     ELSE machine' = "crashed" /\ UNCHANGED <<kfree, held, stack>>
  /\ UNCHANGED <<sched, main, call, s, pagedir, dir, mapped, cr3, ufree, boot>>

\* Mutation: the name is freed only if the program was loaded.
free_name_if_loaded(p) ==
  /\ Goto(p, "free", "up")
  /\ kfree' = IF loaded[p] THEN kfree + 1 ELSE kfree
  /\ held' = [held EXCEPT ![p] = IF loaded[p] THEN @ - 1 ELSE @]
  /\ UNCHANGED <<machine, sched, main, call, s, loaded, space, ufree, boot>>

\* palloc_free_page(cmd_no_args)
free_name(p) ==
  /\ Goto(p, "free", "up")
  /\ kfree' = kfree + 1
  /\ held' = [held EXCEPT ![p] = @ - 1]
  /\ UNCHANGED <<machine, sched, main, call, s, loaded, space, ufree, boot>>

\* Mutation: the semaphore is upped only if the program was loaded.
start_process_up_if_loaded(p) ==
  /\ Goto(p, "up", IF loaded[p] THEN "user" ELSE "exit")
  /\ s' = IF loaded[p] THEN s + 1 ELSE s
  /\ IF main = "waiting" /\ loaded[p]
     THEN main' = "down" /\ ready' = Append(ready, Main)
     ELSE UNCHANGED <<main, ready>>
  /\ UNCHANGED <<machine, running, io, call, loaded, space, pools>>

\* semaphore_up on the parent's semaphore wakes the parent but does not
\* switch to it; then the process runs, or thread_exit.
start_process_up(p) ==
  /\ Goto(p, "up", IF loaded[p] THEN "user" ELSE "exit")
  /\ s' = s + 1
  /\ IF main = "waiting"
     THEN main' = "down" /\ ready' = Append(ready, Main)
     ELSE UNCHANGED <<main, ready>>
  /\ UNCHANGED <<machine, running, io, call, loaded, space, pools>>

\* SYS_EXIT, a system call that is not implemented, or a fault in user code.
\* SYS_WRITE returns to the program once it has printed.
user_exit(p) ==
  /\ Goto(p, "user", "exit")
  /\ UNCHANGED <<machine, sched, main, call, s, loaded, space, pools>>

\* SYS_HALT powers off; an argument that umem_read or umem_check finds bad
\* fails an assertion of the kernel.
user_stops_machine(p) ==
  /\ Goto(p, "user", "user")
  /\ machine' \in {"off", "crashed"}
  /\ UNCHANGED <<sched, main, call, s, loaded, space, pools>>

\* Mutation: process_exit leaves the thread's pagedir as it is.
process_exit_uncleared(p) ==
  /\ \/ pagedir[p] /\ Goto(p, "exit", "activate")
     \/ ~pagedir[p] /\ Goto(p, "exit", "dying")
  /\ UNCHANGED <<machine, sched, main, call, s, loaded, space, pools>>

\* process_exit: cur->pagedir = NULL comes first ...
process_exit(p) ==
  /\ \/ pagedir[p] /\ Goto(p, "exit", "activate")
     \/ ~pagedir[p] /\ Goto(p, "exit", "dying")
  /\ pagedir' = [pagedir EXCEPT ![p] = FALSE]
  /\ UNCHANGED <<machine, sched, main, call, s, loaded, dir, mapped, cr3, stack, pools>>

\* ... then pagedir_activate(NULL) ...
pagedir_activate(p) ==
  /\ Goto(p, "activate", "destroy")
  /\ cr3' = KernelDir
  /\ UNCHANGED <<machine, sched, main, call, s, loaded, pagedir, dir, mapped, stack, pools>>

\* ... and pagedir_destroy: the pages, their tables and the directory.
pagedir_destroy(p) ==
  /\ Goto(p, "destroy", "dying")
  /\ dir' = [dir EXCEPT ![p] = "freed"]
  /\ mapped' = [mapped EXCEPT ![p] = 0]
  /\ stack' = [stack EXCEPT ![p] = NoStack]
  /\ ufree' = ufree + mapped[p]
  /\ kfree' = kfree + mapped[p] + 1
  /\ UNCHANGED <<machine, sched, main, call, s, loaded, pagedir, cr3, held, boot>>

\* The rest of thread_exit: the thread that runs next frees the page.
thread_exit(p) ==
  /\ Goto(p, "dying", "dead")
  /\ Switch(ready)
  /\ kfree' = kfree + 1
  /\ UNCHANGED <<machine, io, main, call, s, loaded, pagedir, dir, mapped, stack, held, ufree, boot>>

Load(p) ==
  \/ elf_load_create(p) \/ elf_load_open(p) \/ elf_load_map(p) \/ push_command(p)
Exit(p) ==
  \/ process_exit(p) \/ pagedir_activate(p) \/ pagedir_destroy(p) \/ thread_exit(p)
KernelThread(p) == Load(p) \/ free_name(p) \/ start_process_up(p) \/ Exit(p)
UserProgram(p) == user_exit(p) \/ user_stops_machine(p)

\* A machine that is off, or runs wild, is not followed any further.
Stopped == machine # "on" /\ UNCHANGED vars

Next ==
  \/ timer_interrupt \/ MainThread \/ Stopped
  \/ \E t \in Threads : console_wait(t) \/ console_wake(t)
  \/ \E p \in Procs : ide_interrupt(p) \/ elf_load_read(p) \/ KernelThread(p) \/ UserProgram(p)

\* The timer ticks, the disk answers and the console gets on.  Every thread gets its time slices
\* again and again, and gets on in them: strong fairness, because the timer
\* disables its next step meanwhile.  A process may stay in user mode.
Fairness ==
  /\ WF_vars(timer_interrupt)
  /\ SF_vars(MainThread)
  /\ \A t \in Threads : WF_vars(console_wake(t))
  /\ \A p \in Procs :
       /\ WF_vars(ide_interrupt(p))
       /\ SF_vars(KernelThread(p))

Spec == Init /\ [][Next]_vars /\ Fairness

----------------------------------------------------------------------------
\* Types of the variables.
TypeOK ==
  /\ machine \in {"on", "off", "crashed"}
  /\ running \in Threads \cup {Idle}
  /\ ready \in Seq(Threads) /\ io \in SUBSET Threads
  /\ main \in MainAt /\ call \in 0 .. Runs /\ s \in 0 .. 1
  /\ pc \in [Procs -> ProcAt]
  /\ held \in [Procs -> 0 .. 4]
  /\ loaded \in [Procs -> BOOLEAN]
  /\ pagedir \in [Procs -> BOOLEAN]
  /\ dir \in [Procs -> {"none", "live", "freed"}]
  /\ mapped \in [Procs -> 0 .. Segments]
  /\ cr3 \in Procs \cup {KernelDir}
  /\ boot \in Boots /\ kfree \in 0 .. boot.kpages
  /\ ufree \in 0 .. UserPages

\* process_exit's comment: the CPU never uses a page directory that has been
\* freed, wherever the timer interrupts the exit and whoever runs next.
ActiveDirectoryLive == cr3 \in Procs => dir[cr3] = "live"

\* start_process reads the arguments and the semaphore on the stack of its
\* parent: until it has upped it, the parent is still in that call.
ArgumentsAlive ==
  \A p \in Procs :
    pc[p] \in {"start", "open", "segments", "free", "up"}
      => call = p /\ main \in {"down", "waiting"}

KernelPagesOf(p) ==
  held[p] + (IF pc[p] \in {"none", "dead"} THEN 0 ELSE 1)
          + (IF dir[p] = "live" THEN 1 + mapped[p] ELSE 0)

KernelPages == [p \in Procs |-> KernelPagesOf(p)]

\* Every page that is not free belongs to a call, a thread or an address
\* space; what a call never gives back is the two copies of its command line
\* and, once the program was loaded, the offsets of push_command.
PagesAccounted ==
  /\ TypeOK
  /\ kfree + SumFunction(KernelPages) = boot.kpages
  /\ ufree + SumFunction(mapped) = UserPages
  /\ \A p \in Procs :
       pc[p] = "dead" => held[p] = (IF loaded[p] THEN 3 ELSE 2)

\* A program finds argc words at the addresses in argv, the words of its
\* command line in their order; spaces at the end of the line count as one
\* empty argument more.
ArgumentsPushed ==
  \A p \in Procs :
    LET words == Words(boot.cmdline) \o
                   (IF Last(boot.cmdline) = SPACE THEN << << >> >> ELSE << >>)
    IN  stack[p] # NoStack =>
          /\ stack[p].argc = Len(words)
          /\ \A i \in 1 .. Len(words) : StringAt(stack[p].strs, stack[p].argv[i]) = words[i]

\* init.c's usage: `run' runs the program and waits for it to complete.  The
\* main thread does not go on to the next action while the program still runs.
RunWaits ==
  \A p \in Procs :
    call > p \/ (call = p /\ main \in {"actions", "exited"}) => pc[p] # "user"

\* process_execute returns whether or not the program could be loaded, unless
\* the machine stops or there was no page left for the thread.
ExecuteReturns ==
  \A p \in Procs :
    call = p /\ main = "down"
      ~> \/ main = "actions" \/ call # p \/ main = "exited"
         \/ machine # "on" \/ pc[p] = "none"
=============================================================================
