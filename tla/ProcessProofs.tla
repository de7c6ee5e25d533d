--------------------------- MODULE ProcessProofs ---------------------------
(***************************************************************************)
(* Safety of the processes, for any number of programs, any pools of pages *)
(* and any program sizes: the CPU never uses a page directory that was     *)
(* freed, a thread that still starts finds the stack frame of              *)
(* process_execute that it was given, no page is lost, and a program finds *)
(* its arguments where they should be, for every command line.             *)
(***************************************************************************)
EXTENDS Process, SequenceTheorems, FiniteSetTheorems, WellFoundedInduction, TLAPS

\* The types of what the two invariants speak of.
Types ==
  /\ call \in 0 .. Runs /\ s \in 0 .. 1
  /\ pc \in [Procs -> ProcAt]
  /\ pagedir \in [Procs -> BOOLEAN]
  /\ dir \in [Procs -> {"none", "live", "freed"}]
  /\ cr3 \in Procs \cup {KernelDir}

\* A thread that a switch would give a page directory has a live one; the
\* directory of a thread that ends is reached by the CPU only until
\* pagedir_activate, and is freed only after it.
DirectoryInv ==
  \A p \in Procs :
    /\ pagedir[p] => dir[p] = "live"
    /\ pc[p] \in {"activate", "destroy", "dying", "dead"} => ~pagedir[p]
    /\ pc[p] = "activate" => dir[p] = "live"
    /\ cr3 = p => pagedir[p] \/ pc[p] = "activate"

Starting == {"start", "open", "segments", "free", "up"}

\* A starting thread is that of the current call, whose semaphore it has not
\* upped; before thread_create the semaphore has been initialised, and the
\* threads of this call and of later ones do not exist.
CallInv ==
  /\ main \in {"copy", "cmdline2", "no_args", "create", "down", "waiting"} => call \in Procs
  /\ main = "create" => s = 0
  /\ \A p \in Procs :
       /\ pc[p] \in Starting => call = p /\ main \in {"down", "waiting"} /\ s = 0
       /\ p > call \/ (p = call /\ main \in {"copy", "cmdline2", "no_args", "create"})
            => pc[p] = "none"

PastStart == {"user", "exit", "activate", "destroy", "dying"}

\* The types of what schedule() handles.
SchedTypes ==
  /\ running \in Threads \cup {Idle}
  /\ ready \in Seq(Threads)
  /\ io \in SUBSET Threads

\* The types of the rest.
PageTypes ==
  /\ machine \in {"on", "off", "crashed"}
  /\ main \in MainAt
  /\ held \in [Procs -> 0 .. 4]
  /\ loaded \in [Procs -> BOOLEAN]
  /\ mapped \in [Procs -> 0 .. Segments]
  /\ boot \in Boots /\ kfree \in Nat /\ ufree \in Nat

\* The page of push_command's offsets, once the program is loaded.
Offsets(p) == IF loaded[p] THEN 1 ELSE 0

\* The buffer pages of a call, by how far it got: two copies of the command
\* line and the name, then the offsets, then no longer the name.
HeldInv ==
  /\ \A p \in Procs : pc[p] = "dead" => held[p] = 2 + Offsets(p)
  /\ machine = "on" =>
       /\ \A p \in Procs :
            /\ pc[p] \in {"none", "start", "open", "segments"} => ~loaded[p]
            /\ pc[p] \in {"start", "open", "segments"} => held[p] = 3
            /\ pc[p] = "free" => held[p] = 3 + Offsets(p)
            /\ pc[p] \in PastStart \cup {"up"} => held[p] = 2 + Offsets(p)
            /\ p > call \/ (p = call /\ main = "copy") => held[p] = 0
            /\ p = call /\ main = "cmdline2" => held[p] = 1
            /\ p = call /\ main = "no_args" => held[p] = 2
            /\ p = call /\ main = "create" => held[p] = 3

\* Only a directory that exists maps pages, and pagedir_destroy is called for
\* one that does.
SpaceInv ==
  \A p \in Procs :
    /\ pc[p] \in {"none", "start"} => dir[p] = "none"
    /\ pc[p] \in {"open", "segments", "destroy"} => dir[p] = "live"
    /\ dir[p] # "live" => mapped[p] = 0

\* No page is lost, and none is free while it is in use.
PoolInv ==
  /\ kfree + SumFunction(KernelPages) = boot.kpages
  /\ ufree + SumFunction(mapped) = UserPages

PageInv == PageTypes /\ HeldInv /\ SpaceInv /\ PoolInv

IInv == Types /\ DirectoryInv /\ CallInv

----------------------------------------------------------------------------
\* No process has the identity of the kernel's page directory.
LEMMA KernelDirApart == KernelDir \notin Procs /\ Runs \in Nat
BY ProcessAssumption DEF Procs

\* Before the first action there is no process.
LEMMA InitInv == Init => IInv
BY KernelDirApart DEF Init, IInv, Types, DirectoryInv, CallInv, Starting, ProcAt, Procs

\* A switch of threads gives the CPU the directory of the thread it switches
\* to, or the kernel's.
LEMMA SwitchDir ==
  ASSUME NEW q, Switch(q), Types
  PROVE  /\ cr3' \in Procs \cup {KernelDir}
         /\ \A p \in Procs : cr3' = p => pagedir[p]
BY KernelDirApart DEF Switch, Types

\* What a switch does to DirectoryInv if nothing else of it changes.
LEMMA SwitchInv ==
  ASSUME IInv, NEW q, Switch(q), UNCHANGED <<pc, pagedir, dir>>
  PROVE  DirectoryInv' /\ cr3' \in Procs \cup {KernelDir}
BY SwitchDir DEF IInv, DirectoryInv

----------------------------------------------------------------------------
\* A thread waits for the disk or the console, or has waited long enough.
Waits == \E t \in Threads : Block(t) \/ Unblock(t)

LEMMA DeviceWaits ==
  ASSUME \/ \E t \in Threads : console_wait(t) \/ console_wake(t)
         \/ \E p \in Procs : ide_interrupt(p) \/ elf_load_read(p)
  PROVE  Waits
BY DEF Waits, Threads, console_wait, console_wake, ide_interrupt, elf_load_read

\* The timer and a wait switch threads, or make one ready.
LEMMA InterruptStep ==
  ASSUME IInv, timer_interrupt \/ Waits
  PROVE  IInv'
<1>1. CASE timer_interrupt
  <2>1. UNCHANGED <<main, call, s, pc, pagedir, dir>>
    BY <1>1 DEF timer_interrupt
  <2>2. PICK q : Switch(q)
    BY <1>1 DEF timer_interrupt
  <2>3. DirectoryInv' /\ cr3' \in Procs \cup {KernelDir}
    BY <2>1, <2>2, SwitchInv
  <2> QED  BY <2>1, <2>3 DEF IInv, Types, CallInv
<1>2. CASE \E t \in Threads : Unblock(t)
  <2>1. UNCHANGED <<main, call, s, pc, pagedir, dir, cr3>>
    BY <1>2 DEF Unblock, space
  <2> QED  BY <2>1 DEF IInv, Types, DirectoryInv, CallInv
<1>3. CASE \E t \in Threads : Block(t)
  <2>1. UNCHANGED <<main, call, s, pc, pagedir, dir>> /\ Switch(ready)
    BY <1>3 DEF Block
  <2>2. DirectoryInv' /\ cr3' \in Procs \cup {KernelDir}
    BY <2>1, SwitchInv
  <2> QED  BY <2>1, <2>2 DEF IInv, Types, CallInv
<1> QED  BY <1>1, <1>2, <1>3 DEF Waits

\* The steps of process_execute: the frame is left only after the semaphore
\* was upped, which the thread of the call does as the last of its start.
LEMMA MainStep == ASSUME IInv, MainThread PROVE IInv'
<1> USE KernelDirApart
<1>1. CASE run_task
  <2>1. /\ UNCHANGED <<s, pc, pagedir, dir, cr3>>
        /\ main = "actions" /\ main' = "copy"
        /\ call < Runs /\ call' = call + 1
    BY <1>1 DEF run_task, MainGoto, space
  <2>2. call' \in Procs /\ call' \in Nat
    BY <2>1 DEF IInv, Types, Procs
  <2>3. \A p \in Procs : p > call' \/ p = call' => p > call
    BY <2>1, <2>2 DEF IInv, Types, Procs
  <2> QED  BY <2>1, <2>2, <2>3 DEF IInv, Types, DirectoryInv, CallInv
<1>2. CASE copy_cmdline("copy", "cmdline2") \/ copy_cmdline("cmdline2", "no_args")
  <2>1. /\ UNCHANGED <<call, s, pc, pagedir, dir, cr3>>
        /\ main \in {"copy", "cmdline2"}
        /\ main' \in {"cmdline2", "no_args", "actions"}
    BY <1>2 DEF copy_cmdline, MainGoto, space
  <2> QED  BY <2>1 DEF IInv, Types, DirectoryInv, CallInv
<1>3. CASE copy_name
  <2>1. /\ UNCHANGED <<call, pc, pagedir, dir, cr3>>
        /\ main = "no_args" /\ main' = "create" /\ s' = 0
    BY <1>3 DEF copy_name, MainGoto, space
  <2> QED  BY <2>1 DEF IInv, Types, DirectoryInv, CallInv
<1>4. CASE thread_create
  <2>1. /\ UNCHANGED <<call, s, pagedir, dir, cr3>>
        /\ main = "create" /\ main' = "down"
        /\ pc' = pc \/ pc' = [pc EXCEPT ![call] = "start"]
    BY <1>4 DEF thread_create, MainGoto, space
  <2>2. call \in Procs /\ s = 0 /\ pc[call] = "none" /\ \A p \in Procs : pc[p] \notin Starting
    BY <2>1 DEF IInv, CallInv
  <2>3. /\ pc' \in [Procs -> ProcAt]
        /\ \A p \in Procs : pc'[p] = pc[p] \/ (p = call /\ pc'[p] = "start")
    BY <2>1, <2>2 DEF IInv, Types, ProcAt
  <2>4. Types'
    BY <2>1, <2>3 DEF IInv, Types
  <2>5. CallInv'
    BY <2>1, <2>2, <2>3 DEF IInv, Types, CallInv, Procs
  <2> QED  BY <2>1, <2>2, <2>3, <2>4, <2>5 DEF IInv, DirectoryInv
<1>5. CASE execute_down
  <2>1. CASE s > 0 /\ UNCHANGED cr3
    <3>1. /\ UNCHANGED <<call, pc, pagedir, dir, cr3>>
          /\ main = "down" /\ main' = "actions" /\ s' = s - 1
      BY <1>5, <2>1, SwitchDir DEF execute_down, MainGoto, space
    <3> QED  BY <3>1, <2>1 DEF IInv, Types, DirectoryInv, CallInv
  <2>2. CASE s = 0
    <3>1. /\ UNCHANGED <<call, s, pc, pagedir, dir>> /\ Switch(ready)
          /\ main = "down" /\ main' = "waiting"
      BY <1>5, <2>2 DEF execute_down, MainGoto
    <3>2. DirectoryInv' /\ cr3' \in Procs \cup {KernelDir}
      BY <3>1, SwitchInv
    <3> QED  BY <3>1, <3>2 DEF IInv, Types, CallInv
  <2> QED  BY <1>5, <2>1, <2>2 DEF execute_down, space
<1>6. CASE actions_done
  <2>1. /\ UNCHANGED <<call, s, pc, pagedir, dir>>
        /\ main = "actions" /\ main' \in {"actions", "exited"}
        /\ UNCHANGED cr3 \/ Switch(ready)
    BY <1>6 DEF actions_done, MainGoto
  <2>2. DirectoryInv' /\ cr3' \in Procs \cup {KernelDir}
    BY <2>1, SwitchInv DEF IInv, Types, DirectoryInv
  <2> QED  BY <2>1, <2>2 DEF IInv, Types, CallInv
<1> QED  BY <1>1, <1>2, <1>3, <1>4, <1>5, <1>6 DEF MainThread

----------------------------------------------------------------------------
\* A thread that goes on, and does not start anew, keeps CallInv.
LEMMA MoveInv ==
  ASSUME IInv, NEW p \in Procs, NEW from, NEW to \in ProcAt,
         Goto(p, from, to), from # "none", to \in Starting => from \in Starting,
         UNCHANGED <<main, call, s>>
  PROVE  /\ CallInv' /\ pc' \in [Procs -> ProcAt]
         /\ pc[p] = from /\ pc'[p] = to
         /\ \A q \in Procs : q # p => pc'[q] = pc[q]
<1>1. pc' \in [Procs -> ProcAt] /\ pc[p] = from /\ pc'[p] = to
  BY DEF IInv, Types, Goto
<1>2. \A q \in Procs : q # p => pc'[q] = pc[q]
  BY DEF IInv, Types, Goto
<1>3. CallInv'
  BY <1>1, <1>2 DEF IInv, CallInv
<1> QED  BY <1>1, <1>2, <1>3

\* Loading and starting: the directory is created before it is activated, and
\* the semaphore is upped by the only thread that still starts.
LEMMA StartStep ==
  ASSUME IInv, NEW p \in Procs, Load(p) \/ free_name(p) \/ start_process_up(p)
  PROVE  IInv'
<1> USE KernelDirApart
<1>1. CASE elf_load_create(p)
  <2>1. UNCHANGED <<main, call, s>>
    BY <1>1 DEF elf_load_create
  <2>2. CASE Goto(p, "start", "open") /\ cr3' = p
             /\ pagedir' = [pagedir EXCEPT ![p] = TRUE] /\ dir' = [dir EXCEPT ![p] = "live"]
    <3>1. /\ CallInv' /\ pc' \in [Procs -> ProcAt]
          /\ pc[p] = "start" /\ pc'[p] = "open"
          /\ \A q \in Procs : q # p => pc'[q] = pc[q]
      BY <2>1, <2>2, MoveInv DEF ProcAt, Starting
    <3>2. /\ pagedir' \in [Procs -> BOOLEAN] /\ dir' \in [Procs -> {"none", "live", "freed"}]
          /\ pagedir'[p] = TRUE /\ dir'[p] = "live"
          /\ \A q \in Procs : q # p => pagedir'[q] = pagedir[q] /\ dir'[q] = dir[q]
      BY <2>2 DEF IInv, Types
    <3>3. Types'
      BY <2>1, <2>2, <3>1, <3>2 DEF IInv, Types
    <3>4. DirectoryInv'
      BY <2>2, <3>1, <3>2 DEF IInv, DirectoryInv
    <3> QED  BY <3>1, <3>3, <3>4 DEF IInv
  <2>3. CASE Goto(p, "start", "free") /\ UNCHANGED <<pagedir, dir, cr3>>
    <3>1. /\ CallInv' /\ pc' \in [Procs -> ProcAt]
          /\ pc[p] = "start" /\ pc'[p] = "free"
          /\ \A q \in Procs : q # p => pc'[q] = pc[q]
      BY <2>1, <2>3, MoveInv DEF ProcAt, Starting
    <3> QED  BY <2>1, <2>3, <3>1 DEF IInv, Types, DirectoryInv
  <2> QED  BY <1>1, <2>2, <2>3 DEF elf_load_create
<1>2. CASE elf_load_open(p) \/ elf_load_map(p) \/ push_command(p) \/ free_name(p)
  <2>1. UNCHANGED <<main, call, s, pagedir, dir, cr3>>
    BY <1>2 DEF elf_load_open, elf_load_map, push_command, free_name, space
  <2>2. PICK from \in Starting, to \in Starting : Goto(p, from, to)
    BY <1>2 DEF elf_load_open, elf_load_map, push_command, free_name, Starting
  <2>3. /\ CallInv' /\ pc' \in [Procs -> ProcAt]
        /\ pc[p] = from /\ pc'[p] = to
        /\ \A q \in Procs : q # p => pc'[q] = pc[q]
    BY <2>1, <2>2, MoveInv DEF ProcAt, Starting
  <2> QED  BY <2>1, <2>2, <2>3 DEF IInv, Types, DirectoryInv, Starting
<1>3. CASE start_process_up(p)
  <2>1. /\ UNCHANGED <<call, pagedir, dir, cr3>> /\ s' = s + 1
        /\ main' = (IF main = "waiting" THEN "down" ELSE main)
    BY <1>3 DEF start_process_up, space
  <2>2. PICK to \in {"user", "exit"} : Goto(p, "up", to)
    BY <1>3 DEF start_process_up
  <2>3. /\ pc' \in [Procs -> ProcAt] /\ pc[p] = "up" /\ pc'[p] = to
        /\ \A q \in Procs : q # p => pc'[q] = pc[q]
    BY <2>2 DEF IInv, Types, Goto, ProcAt
  <2>4. Types'
    BY <2>1, <2>3 DEF IInv, Types, CallInv, Starting
  <2>5. \A q \in Procs : pc'[q] \notin Starting
    BY <2>2, <2>3 DEF IInv, CallInv, Starting
  <2>6. main \in {"down", "waiting"} /\ call = p /\ main' = "down"
    BY <2>1, <2>3 DEF IInv, CallInv, Starting
  <2>7. CallInv'
    BY <2>1, <2>3, <2>5, <2>6 DEF IInv, Types, CallInv, Procs
  <2>8. DirectoryInv'
    BY <2>1, <2>2, <2>3 DEF IInv, DirectoryInv
  <2> QED  BY <2>4, <2>7, <2>8 DEF IInv
<1> QED  BY <1>1, <1>2, <1>3 DEF Load

\* The process and its end, in the order process_exit's comment asks for: the
\* thread forgets the directory, the CPU leaves it, and only then it is freed.
LEMMA EndStep ==
  ASSUME IInv, NEW p \in Procs, UserProgram(p) \/ Exit(p)
  PROVE  IInv'
<1> USE KernelDirApart
<1>1. CASE UserProgram(p)
  <2>1. UNCHANGED <<main, call, s, pagedir, dir, cr3>>
    BY <1>1 DEF UserProgram, user_exit, user_stops_machine, space
  <2>2. PICK to \in {"user", "exit"} : Goto(p, "user", to)
    BY <1>1 DEF UserProgram, user_exit, user_stops_machine
  <2>3. /\ CallInv' /\ pc' \in [Procs -> ProcAt]
        /\ pc[p] = "user" /\ pc'[p] = to
        /\ \A q \in Procs : q # p => pc'[q] = pc[q]
    BY <2>1, <2>2, MoveInv DEF ProcAt, Starting
  <2> QED  BY <2>1, <2>2, <2>3 DEF IInv, Types, DirectoryInv
<1>2. CASE process_exit(p)
  <2>1. /\ UNCHANGED <<main, call, s, dir, cr3>>
        /\ pagedir' = [pagedir EXCEPT ![p] = FALSE]
    BY <1>2 DEF process_exit
  <2>2. PICK to \in {"activate", "dying"} :
          Goto(p, "exit", to) /\ (to = "activate" <=> pagedir[p])
    BY <1>2 DEF process_exit
  <2>3. /\ CallInv' /\ pc' \in [Procs -> ProcAt]
        /\ pc[p] = "exit" /\ pc'[p] = to
        /\ \A q \in Procs : q # p => pc'[q] = pc[q]
    BY <2>1, <2>2, MoveInv DEF ProcAt, Starting
  <2>4. /\ pagedir' \in [Procs -> BOOLEAN] /\ pagedir'[p] = FALSE
        /\ \A q \in Procs : q # p => pagedir'[q] = pagedir[q]
    BY <2>1 DEF IInv, Types
  <2>5. Types'
    BY <2>1, <2>3, <2>4 DEF IInv, Types
  <2>6. DirectoryInv'
    BY <2>1, <2>2, <2>3, <2>4 DEF IInv, DirectoryInv
  <2> QED  BY <2>3, <2>5, <2>6 DEF IInv
<1>3. CASE pagedir_activate(p)
  <2>1. UNCHANGED <<main, call, s, pagedir, dir>> /\ cr3' = KernelDir
    BY <1>3 DEF pagedir_activate
  <2>2. /\ CallInv' /\ pc' \in [Procs -> ProcAt]
        /\ pc[p] = "activate" /\ pc'[p] = "destroy"
        /\ \A q \in Procs : q # p => pc'[q] = pc[q]
    BY <1>3, <2>1, MoveInv DEF pagedir_activate, ProcAt, Starting
  <2> QED  BY <2>1, <2>2 DEF IInv, Types, DirectoryInv
<1>4. CASE pagedir_destroy(p)
  <2>1. /\ UNCHANGED <<main, call, s, pagedir, cr3>>
        /\ dir' = [dir EXCEPT ![p] = "freed"]
    BY <1>4 DEF pagedir_destroy
  <2>2. /\ CallInv' /\ pc' \in [Procs -> ProcAt]
        /\ pc[p] = "destroy" /\ pc'[p] = "dying"
        /\ \A q \in Procs : q # p => pc'[q] = pc[q]
    BY <1>4, <2>1, MoveInv DEF pagedir_destroy, ProcAt, Starting
  <2>3. /\ dir' \in [Procs -> {"none", "live", "freed"}]
        /\ \A q \in Procs : q # p => dir'[q] = dir[q]
    BY <2>1 DEF IInv, Types
  <2>4. ~pagedir[p] /\ cr3 # p
    BY <2>2 DEF IInv, DirectoryInv
  <2>5. Types'
    BY <2>1, <2>2, <2>3 DEF IInv, Types
  <2>6. DirectoryInv'
    BY <2>1, <2>2, <2>3, <2>4 DEF IInv, DirectoryInv
  <2> QED  BY <2>2, <2>5, <2>6 DEF IInv
<1>5. CASE thread_exit(p)
  <2>1. UNCHANGED <<main, call, s, pagedir, dir>> /\ Switch(ready)
    BY <1>5 DEF thread_exit
  <2>2. /\ CallInv' /\ pc' \in [Procs -> ProcAt]
        /\ pc[p] = "dying" /\ pc'[p] = "dead"
        /\ \A q \in Procs : q # p => pc'[q] = pc[q]
    BY <1>5, <2>1, MoveInv DEF thread_exit, ProcAt, Starting
  <2>3. cr3' \in Procs \cup {KernelDir} /\ \A q \in Procs : cr3' = q => pagedir[q]
    BY <2>1, SwitchDir DEF IInv
  <2> QED  BY <2>1, <2>2, <2>3 DEF IInv, Types, DirectoryInv
<1> QED  BY <1>1, <1>2, <1>3, <1>4, <1>5 DEF Exit

\* Every step keeps the inductive invariant.
LEMMA StepInv == ASSUME IInv, [Next]_vars PROVE IInv'
<1>1. CASE timer_interrupt \/ Waits
  BY <1>1, InterruptStep
<1>2. CASE MainThread
  BY <1>2, MainStep
<1>4. CASE \E p \in Procs : KernelThread(p) \/ UserProgram(p)
  BY <1>4, StartStep, EndStep DEF KernelThread
<1>5. CASE UNCHANGED vars
  <2>1. UNCHANGED <<main, call, s, pc, pagedir, dir, cr3>>
    BY <1>5 DEF vars, space
  <2> QED  BY <2>1 DEF IInv, Types, DirectoryInv, CallInv
<1> QED  BY <1>1, <1>2, <1>4, <1>5, DeviceWaits DEF Next, Stopped

----------------------------------------------------------------------------
\* Neither the main thread nor the idle one is the thread of a call.
LEMMA ThreadsApart == Main \notin Procs /\ Idle \notin Procs
BY ProcessAssumption DEF Procs

\* A switch takes the thread from the list.
LEMMA SwitchTypes ==
  ASSUME NEW q \in Seq(Threads), Switch(q)
  PROVE  running' \in Threads \cup {Idle} /\ ready' \in Seq(Threads)
BY DEF Switch

\* Every step keeps the types of the scheduler's variables.
LEMMA StepSched == ASSUME IInv, SchedTypes, [Next]_vars PROVE SchedTypes'
<1>1. CASE timer_interrupt
  <2>1. PICK q \in Seq(Threads) : Switch(q)
    <3> DEFINE q == IF running = Idle THEN ready ELSE Append(ready, running)
    <3>1. q \in Seq(Threads)
      BY DEF SchedTypes
    <3>2. Switch(q)
      BY <1>1 DEF timer_interrupt
    <3> HIDE DEF q
    <3> QED  BY <3>1, <3>2
  <2> QED  BY <1>1, <2>1, SwitchTypes DEF timer_interrupt, SchedTypes
<1>2. CASE UNCHANGED sched
  BY <1>2 DEF sched, SchedTypes
<1>3. CASE Switch(ready) /\ UNCHANGED io
  BY <1>3, SwitchTypes DEF SchedTypes
<1>4. ASSUME NEW p \in Threads, ready' = Append(ready, p), UNCHANGED running,
             io' \in SUBSET io
      PROVE  SchedTypes'
  BY <1>4 DEF SchedTypes
<1>5. CASE Waits
  <2>1. CASE \E t \in Threads : Unblock(t)
    BY <1>4, <2>1 DEF Unblock
  <2>2. CASE \E t \in Threads : Block(t)
    BY <2>2, SwitchTypes DEF Block, SchedTypes
  <2> QED  BY <1>5, <2>1, <2>2 DEF Waits
<1>6. CASE MainThread
  <2>1. CASE thread_create
    <3>1. call \in Threads
      BY <2>1 DEF thread_create, MainGoto, IInv, CallInv, Threads
    <3> QED  BY <1>2, <1>4, <2>1, <3>1 DEF thread_create, sched
  <2>2. CASE MainThread /\ ~thread_create
    BY <1>2, <1>3, <2>2 DEF MainThread, run_task, copy_cmdline, copy_name, execute_down,
                            actions_done
  <2> QED  BY <1>6, <2>1, <2>2
<1>8. ASSUME NEW p \in Procs, KernelThread(p) \/ UserProgram(p) PROVE SchedTypes'
  <2>1. CASE start_process_up(p)
    <3>1. Main \in Threads
      BY DEF Threads
    <3> QED  BY <1>2, <1>4, <2>1, <3>1 DEF start_process_up, sched
  <2>2. CASE Load(p) \/ free_name(p) \/ UserProgram(p)
    BY <1>2, <2>2 DEF Load, elf_load_create, elf_load_open, elf_load_map, push_command, free_name,
                      UserProgram, user_exit, user_stops_machine
  <2>3. CASE Exit(p)
    BY <1>2, <1>3, <2>3 DEF Exit, process_exit, pagedir_activate, pagedir_destroy, thread_exit
  <2> QED  BY <1>8, <2>1, <2>2, <2>3 DEF KernelThread
<1> QED  BY <1>1, <1>2, <1>5, <1>6, <1>8, DeviceWaits DEF Next, Stopped, vars

----------------------------------------------------------------------------
(* Sums over the calls.                                                    *)

\* A set of natural numbers has a least member.
LEMMA NatHasMin ==
  ASSUME NEW S \in SUBSET Nat, S # {}
  PROVE  \E n \in S : \A m \in S : n <= m
<1>1. \E n \in S : \A m \in S : ~ (<<m, n>> \in OpToRel(<, Nat))
  BY NatLessThanWellFounded, WFMin
<1>2. PICK n \in S : \A m \in S : ~ (<<m, n>> \in OpToRel(<, Nat))
  BY <1>1
<1>3. \A m \in S : ~ (m < n)
  BY <1>2 DEF OpToRel
<1> QED
  BY <1>3

\* How SumFunction adds: an element's value, and the sum over the others.
First(e) == CHOOSE x \in e : TRUE

Adds(w, D, g) ==
  g = [e \in D |-> IF e = {} THEN 0 ELSE w[First(e)] + g[e \ {First(e)}]]

\* There are partial sums over the sets of up to n elements, for every n.
LEMMA PartialSums ==
  ASSUME NEW S, IsFiniteSet(S), NEW w \in [S -> Int], NEW n0 \in Nat
  PROVE  \E g : Adds(w, {e \in SUBSET S : Cardinality(e) <= n0}, g)
<1> DEFINE D(n) == {e \in SUBSET S : Cardinality(e) <= n}
           Bad == {n \in Nat : \A g : ~ Adds(w, D(n), g)}
<1>1. \A e \in SUBSET S : IsFiniteSet(e) /\ Cardinality(e) \in Nat
  BY FS_Subset, FS_CardinalityType
<1>2. \A e \in SUBSET S : Cardinality(e) = 0 <=> e = {}
  BY <1>1, FS_EmptySet
<1>0. Bad = {} => \E g : Adds(w, D(n0), g)
  <2> HIDE DEF D
  <2> QED  OBVIOUS
<1> SUFFICES ASSUME Bad # {} PROVE FALSE
  BY <1>0
<1>3. PICK n \in Bad : \A m \in Bad : n <= m
  <2>1. Bad \in SUBSET Nat
    OBVIOUS
  <2> HIDE DEF Bad
  <2> QED  BY <2>1, NatHasMin
<1>4. n \in Nat /\ \A g : ~ Adds(w, D(n), g)
  BY <1>3
<1>5. n # 0
  <2> SUFFICES ASSUME n = 0 PROVE FALSE
    OBVIOUS
  <2>1. \A e \in D(0) : e = {}
    BY <1>1, <1>2
  <2>2. Adds(w, D(0), [e \in D(0) |-> 0])
    <3> HIDE DEF D
    <3> QED  BY <2>1 DEF Adds
  <2> QED  BY <1>4, <2>2
<1>6. n - 1 \in Nat /\ n - 1 \notin Bad
  <2>1. n - 1 \in Nat /\ ~ (n <= n - 1)
    BY <1>4, <1>5
  <2> HIDE DEF Bad
  <2> QED  BY <1>3, <2>1
<1>7. PICK g : Adds(w, D(n - 1), g)
  BY <1>6
<1> DEFINE h == [e \in D(n) |-> IF e = {} THEN 0 ELSE w[First(e)] + g[e \ {First(e)}]]
<1>8. ASSUME NEW e \in D(n), e # {}
      PROVE  e \ {First(e)} \in D(n - 1) /\ e \ {First(e)} \in D(n)
  <2>1. First(e) \in e
    BY <1>8 DEF First
  <2>2. e \in SUBSET S /\ Cardinality(e) \in Nat /\ IsFiniteSet(e) /\ Cardinality(e) <= n
    BY <1>1
  <2>3. Cardinality(e \ {First(e)}) = Cardinality(e) - 1
    BY <2>1, <2>2, FS_RemoveElement
  <2>4. e \ {First(e)} \in SUBSET S
    BY <2>2
  <2>5. Cardinality(e) - 1 <= n - 1 /\ Cardinality(e) - 1 <= n
    BY <1>4, <2>2
  <2> QED  BY <2>3, <2>4, <2>5
<1>9. \A e \in D(n - 1) : h[e] = g[e]
  <2>1. D(n - 1) \subseteq D(n)
    BY <1>1, <1>4
  <2>2. \A e \in D(n - 1) : g[e] = IF e = {} THEN 0 ELSE w[First(e)] + g[e \ {First(e)}]
    <3> HIDE DEF D, h
    <3> QED  BY <1>7 DEF Adds
  <2> HIDE DEF D
  <2> QED  BY <2>1, <2>2
<1>10. Adds(w, D(n), h)
  <2>1. \A e \in D(n) : e # {} => g[e \ {First(e)}] = h[e \ {First(e)}]
    <3> HIDE DEF D, h
    <3> QED  BY <1>8, <1>9
  <2> HIDE DEF D
  <2>2. h = [e \in D(n) |-> IF e = {} THEN 0 ELSE w[First(e)] + h[e \ {First(e)}]]
    <3> DEFINE k == [e \in D(n) |-> IF e = {} THEN 0 ELSE w[First(e)] + h[e \ {First(e)}]]
    <3> HIDE DEF h
    <3>1. \A e \in D(n) : (IF e = {} THEN 0 ELSE w[First(e)] + g[e \ {First(e)}])
                          = (IF e = {} THEN 0 ELSE w[First(e)] + h[e \ {First(e)}])
      BY <2>1
    <3> QED  BY <3>1 DEF h
  <2> HIDE DEF h
  <2> QED  BY <2>2 DEF Adds
<1> QED  BY <1>4, <1>10

\* SumFunction is the last of the partial sums.
LEMMA SumDef ==
  ASSUME NEW S, IsFiniteSet(S), NEW w \in [S -> Int]
  PROVE  \E g : Adds(w, SUBSET S, g) /\ SumFunction(w) = g[S]
<1>1. DOMAIN w = S
  OBVIOUS
<1>2. \E g : Adds(w, SUBSET S, g)
  <2> DEFINE n == Cardinality(S)
  <2>1. n \in Nat /\ \A e \in SUBSET S : Cardinality(e) <= n
    BY FS_Subset, FS_CardinalityType
  <2>2. {e \in SUBSET S : Cardinality(e) <= n} = SUBSET S
    BY <2>1
  <2>3. PICK g : Adds(w, {e \in SUBSET S : Cardinality(e) <= n}, g)
    <3> HIDE DEF n
    <3> QED  BY <2>1, PartialSums
  <2>4. Adds(w, SUBSET S, g)
    BY <2>2, <2>3, Zenon
  <2> QED  BY <2>4
<1> DEFINE c == CHOOSE g : Adds(w, SUBSET S, g)
<1>3. Adds(w, SUBSET S, c)
  BY <1>2
<1>4. SumFunction(w) = c[S]
  BY <1>1 DEF SumFunction, SumFunctionOnSet, FoldFunctionOnSet, MapThenFoldSet, Adds, First
<1> QED  BY <1>3, <1>4

\* One change changes the sum by as much.
LEMMA SumChange ==
  ASSUME NEW S, IsFiniteSet(S), NEW w \in [S -> Int], NEW v \in [S -> Int], NEW p \in S,
         \A q \in S : q # p => v[q] = w[q]
  PROVE  SumFunction(v) = SumFunction(w) + v[p] - w[p] /\ SumFunction(w) \in Int
<1>1. PICK g : Adds(w, SUBSET S, g) /\ SumFunction(w) = g[S]
  BY SumDef
<1>2. PICK h : Adds(v, SUBSET S, h) /\ SumFunction(v) = h[S]
  BY SumDef
<1> DEFINE Good(e) == g[e] \in Int /\ h[e] = g[e] + IF p \in e THEN v[p] - w[p] ELSE 0
           Bad == {Cardinality(e) : e \in {u \in SUBSET S : ~Good(u)}}
<1>3. \A e \in SUBSET S : IsFiniteSet(e) /\ Cardinality(e) \in Nat
  BY FS_Subset, FS_CardinalityType
<1>4. ASSUME Bad # {} PROVE FALSE
  <2>1. Bad \in SUBSET Nat
    BY <1>3
  <2>2. PICK n \in Bad : \A m \in Bad : n <= m
    <3> HIDE DEF Bad
    <3> QED  BY <1>4, <2>1, NatHasMin
  <2>3. PICK e \in SUBSET S : ~Good(e) /\ n = Cardinality(e)
    BY <2>2
  <2>4. e # {}
    <3>1. g[{}] = 0 /\ h[{}] = 0
      BY <1>1, <1>2 DEF Adds
    <3>2. Good({})
      BY <3>1
    <3> HIDE DEF Good
    <3> QED  BY <2>3, <3>2
  <2> DEFINE x == First(e)
             r == e \ {x}
  <2>5. x \in e /\ x \in S /\ r \in SUBSET S
    BY <2>4 DEF First
  <2>6. g[e] = w[x] + g[r] /\ h[e] = v[x] + h[r]
    BY <1>1, <1>2, <2>4 DEF Adds
  <2>7. Cardinality(r) = n - 1 /\ n \in Nat
    BY <1>3, <2>3, <2>5, FS_RemoveElement
  <2>8. p \in r <=> p \in e /\ p # x
    OBVIOUS
  <2>9. Good(r)
    <3> SUFFICES ASSUME ~Good(r) PROVE FALSE
      OBVIOUS
    <3>1. n - 1 \in Bad
      BY <2>5, <2>7
    <3> HIDE DEF Bad
    <3> QED  BY <2>2, <2>7, <3>1
  <2> HIDE DEF x, r
  <2>10. w[x] \in Int /\ v[x] \in Int /\ w[p] \in Int /\ v[p] \in Int
    BY <2>5
  <2>11. Good(e)
    <3>1. CASE p = x
      BY <2>5, <2>6, <2>8, <2>9, <2>10, <3>1
    <3>2. CASE p # x
      <4>1. v[x] = w[x]
        BY <2>5, <3>2
      <4> QED  BY <2>6, <2>8, <2>9, <2>10, <3>2, <4>1
    <3> QED  BY <3>1, <3>2
  <2> QED  BY <2>3, <2>11
<1>5. Good(S)
  BY <1>4
<1> QED  BY <1>1, <1>2, <1>5

\* A set of numbers that holds zero and the sum of any two of its members
\* holds the sum of any number of them.
LEMMA SumWithin ==
  ASSUME NEW S, IsFiniteSet(S), NEW T \in SUBSET Int, NEW w \in [S -> T],
         0 \in T, \A a, b \in T : a + b \in T
  PROVE  SumFunction(w) \in T
<1>1. PICK g : Adds(w, SUBSET S, g) /\ SumFunction(w) = g[S]
  <2>1. w \in [S -> Int]
    OBVIOUS
  <2> QED  BY <2>1, SumDef
<1> DEFINE Bad == {Cardinality(e) : e \in {u \in SUBSET S : g[u] \notin T}}
<1>2. \A e \in SUBSET S : IsFiniteSet(e) /\ Cardinality(e) \in Nat
  BY FS_Subset, FS_CardinalityType
<1>3. ASSUME Bad # {} PROVE FALSE
  <2>1. Bad \in SUBSET Nat
    BY <1>2
  <2>2. PICK n \in Bad : \A m \in Bad : n <= m
    <3> HIDE DEF Bad
    <3> QED  BY <1>3, <2>1, NatHasMin
  <2>3. PICK e \in SUBSET S : g[e] \notin T /\ n = Cardinality(e)
    BY <2>2
  <2>4. e # {}
    BY <1>1, <2>3 DEF Adds
  <2> DEFINE x == First(e)
             r == e \ {x}
  <2>5. x \in e /\ x \in S /\ r \in SUBSET S
    BY <2>4 DEF First
  <2>6. g[e] = w[x] + g[r]
    BY <1>1, <2>4 DEF Adds
  <2>7. Cardinality(r) = n - 1 /\ n \in Nat
    BY <1>2, <2>3, <2>5, FS_RemoveElement
  <2>8. g[r] \notin T
    BY <2>3, <2>5, <2>6
  <2>9. n - 1 \in Bad
    BY <2>5, <2>7, <2>8
  <2> HIDE DEF Bad
  <2> QED  BY <2>2, <2>7, <2>9
<1> QED  BY <1>1, <1>3

----------------------------------------------------------------------------
(* The pages of the two pools.                                             *)

\* The number of pages of a call, and that it is one.
LEMMA KernelPagesType ==
  ASSUME PageTypes
  PROVE  /\ IsFiniteSet(Procs)
         /\ KernelPages \in [Procs -> Int] /\ KernelPages \in [Procs -> Nat]
         /\ mapped \in [Procs -> Int] /\ mapped \in [Procs -> Nat]
<1>1. Segments \in Nat /\ Runs \in Nat
  BY ProcessAssumption
<1>2. IsFiniteSet(Procs)
  BY <1>1, FS_Interval DEF Procs
<1>3. \A p \in Procs : held[p] \in Nat /\ mapped[p] \in Nat
  BY <1>1 DEF PageTypes
<1>4. \A p \in Procs : KernelPagesOf(p) \in Nat
  BY <1>3 DEF KernelPagesOf
<1>5. mapped \in [Procs -> Nat]
  BY <1>3 DEF PageTypes
<1>6. KernelPages \in [Procs -> Nat]
  BY <1>4 DEF KernelPages
<1> QED  BY <1>2, <1>5, <1>6

\* A step of one call that moves pages between it and the pools.
LEMMA PoolMove ==
  ASSUME PageTypes, PageTypes', PoolInv, NEW p \in Procs, UNCHANGED boot,
         \A q \in Procs : q # p => /\ held'[q] = held[q] /\ pc'[q] = pc[q]
                                   /\ dir'[q] = dir[q] /\ mapped'[q] = mapped[q],
         kfree' + KernelPagesOf(p)' = kfree + KernelPagesOf(p),
         ufree' + mapped'[p] = ufree + mapped[p]
  PROVE  PoolInv'
<1>1. /\ IsFiniteSet(Procs)
      /\ KernelPages \in [Procs -> Int] /\ KernelPages' \in [Procs -> Int]
      /\ mapped \in [Procs -> Int] /\ mapped' \in [Procs -> Int]
  <2>1. Segments \in Nat
    BY ProcessAssumption
  <2>2. \A q \in Procs : held'[q] \in Nat /\ mapped'[q] \in Nat
    BY <2>1 DEF PageTypes
  <2>3. \A q \in Procs : KernelPagesOf(q)' \in Nat
    BY <2>2 DEF KernelPagesOf
  <2>4. KernelPages' \in [Procs -> Int] /\ mapped' \in [Procs -> Int]
    BY <2>2, <2>3 DEF KernelPages, PageTypes
  <2> QED  BY <2>4, KernelPagesType
<1>2. \A q \in Procs : KernelPages[q] = KernelPagesOf(q) /\ KernelPages'[q] = KernelPagesOf(q)'
  BY DEF KernelPages
<1>3. \A q \in Procs : q # p => KernelPages'[q] = KernelPages[q]
  BY <1>2 DEF KernelPagesOf
<1>4. /\ SumFunction(KernelPages') = SumFunction(KernelPages) + KernelPages'[p] - KernelPages[p]
      /\ SumFunction(KernelPages) \in Int
  BY <1>1, <1>3, SumChange
<1>5. /\ SumFunction(mapped') = SumFunction(mapped) + mapped'[p] - mapped[p]
      /\ SumFunction(mapped) \in Int
  BY <1>1, SumChange
<1>6. kfree' + KernelPages'[p] = kfree + KernelPages[p]
  BY <1>2
<1>7. {kfree, ufree, kfree', ufree', KernelPages[p], KernelPages'[p], mapped[p], mapped'[p]} \subseteq Int
  BY <1>1 DEF PageTypes
<1>8. kfree' + SumFunction(KernelPages') = boot.kpages
  BY <1>4, <1>6, <1>7 DEF PoolInv
<1>9. ufree' + SumFunction(mapped') = UserPages
  BY <1>5, <1>7 DEF PoolInv
<1> QED  BY <1>8, <1>9 DEF PoolInv

\* A step that leaves the pages where they are.
LEMMA PoolKept ==
  ASSUME PoolInv, UNCHANGED <<held, dir, mapped, kfree, ufree, boot>>,
         \A p \in Procs : pc'[p] \in {"none", "dead"} <=> pc[p] \in {"none", "dead"}
  PROVE  PoolInv'
<1>1. \A p \in Procs : KernelPagesOf(p)' = KernelPagesOf(p)
  BY DEF KernelPagesOf
<1>2. KernelPages' = KernelPages
  BY <1>1 DEF KernelPages
<1> QED  BY <1>2 DEF PoolInv

\* At first the pages are all free.
LEMMA InitPages == Init => PageInv
<1> SUFFICES ASSUME Init PROVE PageInv
  OBVIOUS
<1>1. PageTypes
  BY ProcessAssumption DEF Init, PageTypes, MainAt
<1>2. HeldInv /\ SpaceInv
  BY ProcessAssumption DEF Init, HeldInv, SpaceInv, PastStart, Procs
<1>3. \A p \in Procs : KernelPages[p] = 0 /\ mapped[p] = 0
  BY DEF Init, KernelPages, KernelPagesOf
<1>4. KernelPages \in [Procs -> {0}] /\ mapped \in [Procs -> {0}] /\ IsFiniteSet(Procs)
  BY <1>1, <1>3, KernelPagesType
<1>5. SumFunction(KernelPages) \in {0} /\ SumFunction(mapped) \in {0}
  <2>1. {0} \in SUBSET Int /\ 0 \in {0} /\ \A a, b \in {0} : a + b \in {0}
    OBVIOUS
  <2> QED  BY <1>4, <2>1, SumWithin
<1>6. PoolInv
  BY <1>5, ProcessAssumption DEF Init, PoolInv
<1> QED  BY <1>1, <1>2, <1>6 DEF PageInv

\* The timer, and a wait for the disk or the console.
LEMMA SwitchPages ==
  ASSUME PageInv, UNCHANGED <<machine, main, call, pc, loaded, dir, mapped, pools>>
  PROVE  PageInv'
<1>1. UNCHANGED <<held, kfree, ufree, boot>>
  BY DEF pools
<1>2. PoolInv'
  BY <1>1, PoolKept DEF PageInv
<1> QED  BY <1>1, <1>2 DEF PageInv, PageTypes, HeldInv, Offsets, SpaceInv

\* The steps of process_execute.
LEMMA MainPages == ASSUME IInv, PageInv, MainThread PROVE PageInv'
<1> USE DEF PageInv
<1>1. CASE run_task \/ execute_down \/ actions_done
  <2>1. /\ UNCHANGED <<pc, loaded, dir, mapped, held, kfree, ufree, boot>>
        /\ machine = "on" /\ machine' \in {"on", "off"} /\ main' \in MainAt
    BY <1>1 DEF run_task, execute_down, actions_done, MainGoto, space, pools, MainAt
  <2>2. PoolInv'
    BY <2>1, PoolKept
  <2>3. PageTypes' /\ SpaceInv'
    BY <2>1 DEF PageTypes, SpaceInv
  <2>4. \/ call' = call + 1 /\ main' = "copy"
        \/ call' = call /\ main' \in {"actions", "waiting", "exited"}
    BY <1>1 DEF run_task, execute_down, actions_done, MainGoto
  <2>5. \A p \in Procs : /\ p > call' \/ (p = call' /\ main' = "copy") => p > call
                         /\ main' \notin {"cmdline2", "no_args", "create"}
    BY <2>4 DEF IInv, Types, Procs
  <2>6. HeldInv'
    BY <2>1, <2>5 DEF HeldInv, Offsets
  <2> QED  BY <2>2, <2>3, <2>6
<1>2. CASE copy_cmdline("copy", "cmdline2") \/ copy_cmdline("cmdline2", "no_args") \/ copy_name
  <2>1. /\ UNCHANGED <<call, pc, loaded, dir, mapped, ufree, boot>>
        /\ main \in {"copy", "cmdline2", "no_args"} /\ machine = "on"
    BY <1>2 DEF copy_cmdline, copy_name, MainGoto, space
  <2>2. call \in Procs /\ pc[call] = "none"
    BY <2>1 DEF IInv, CallInv
  <2>3. CASE /\ kfree > 0 /\ kfree' = kfree - 1 /\ held' = [held EXCEPT ![call] = @ + 1]
             /\ UNCHANGED machine
             /\ <<main, main'>> \in {<<"copy", "cmdline2">>, <<"cmdline2", "no_args">>,
                                     <<"no_args", "create">>}
    <3>1. /\ held[call] \in 0 .. 2 /\ held'[call] = held[call] + 1
          /\ \A p \in Procs : p # call => held'[p] = held[p]
      BY <2>1, <2>2, <2>3 DEF PageTypes, HeldInv
    <3>2. PageTypes'
      BY <2>1, <2>2, <2>3, <3>1 DEF PageTypes, MainAt
    <3>3. HeldInv'
      BY <2>1, <2>2, <2>3, <3>1 DEF IInv, Types, HeldInv, Offsets, PastStart, Procs
    <3>4. kfree' + KernelPagesOf(call)' = kfree + KernelPagesOf(call)
      <4>1. mapped[call] \in Nat
        BY <2>2, KernelPagesType
      <4> QED  BY <2>1, <2>2, <2>3, <3>1, <4>1 DEF PageTypes, KernelPagesOf
    <3>5. ufree' + mapped'[call] = ufree + mapped[call]
      BY <2>1
    <3>6. PoolInv'
      BY <2>1, <2>2, <3>1, <3>2, <3>4, <3>5, PoolMove
    <3> QED  BY <2>1, <3>2, <3>3, <3>6 DEF SpaceInv
  <2>4. CASE /\ UNCHANGED <<kfree, held>>
             /\ \/ main' = "actions" /\ UNCHANGED machine
                \/ main' = "create" /\ machine' = "crashed"
    <3>1. PoolInv'
      BY <2>1, <2>4, PoolKept
    <3>2. PageTypes'
      BY <2>1, <2>4 DEF PageTypes, MainAt
    <3>3. HeldInv'
      BY <2>1, <2>4 DEF HeldInv, Offsets
    <3> QED  BY <2>1, <3>1, <3>2, <3>3 DEF SpaceInv
  <2> QED  BY <1>2, <2>3, <2>4 DEF copy_cmdline, copy_name, MainGoto
<1>3. CASE thread_create
  <2>1. /\ UNCHANGED <<machine, call, loaded, dir, mapped, held, ufree, boot>>
        /\ main = "create" /\ main' = "down" /\ machine = "on"
    BY <1>3 DEF thread_create, MainGoto, space
  <2>2. call \in Procs /\ pc[call] = "none"
    BY <2>1 DEF IInv, CallInv
  <2>3. CASE kfree > 0 /\ kfree' = kfree - 1 /\ pc' = [pc EXCEPT ![call] = "start"]
    <3>1. pc'[call] = "start" /\ \A p \in Procs : p # call => pc'[p] = pc[p]
      BY <2>2, <2>3 DEF IInv, Types
    <3>2. PageTypes'
      BY <2>1, <2>3 DEF PageTypes, MainAt
    <3>3. HeldInv'
      BY <2>1, <2>2, <3>1 DEF HeldInv, Offsets, PastStart
    <3>4. SpaceInv'
      BY <2>1, <2>2, <3>1 DEF SpaceInv
    <3>5. kfree' + KernelPagesOf(call)' = kfree + KernelPagesOf(call)
      <4>1. mapped[call] \in Nat /\ held[call] \in Nat
        BY <2>2, KernelPagesType DEF PageTypes
      <4> QED  BY <2>1, <2>2, <2>3, <3>1, <4>1 DEF PageTypes, KernelPagesOf
    <3>6. PoolInv'
      BY <2>1, <2>2, <3>1, <3>2, <3>5, PoolMove
    <3> QED  BY <3>2, <3>3, <3>4, <3>6
  <2>4. CASE UNCHANGED <<kfree, pc>>
    <3>1. PoolInv'
      BY <2>1, <2>4, PoolKept
    <3>2. HeldInv'
      BY <2>1, <2>4 DEF HeldInv, Offsets
    <3> QED  BY <2>1, <2>4, <3>1, <3>2 DEF PageTypes, SpaceInv, MainAt
  <2> QED  BY <1>3, <2>3, <2>4 DEF thread_create
<1> QED  BY <1>1, <1>2, <1>3 DEF MainThread

\* A step of the thread of call p, and what it has to show of that call.
LEMMA MovePages ==
  ASSUME IInv, PageInv, NEW p \in Procs, NEW from, NEW to \in ProcAt, Goto(p, from, to),
         UNCHANGED <<call, boot>>, PageTypes',
         main' = main \/ main' = "down",
         \A q \in Procs : q # p => /\ held'[q] = held[q] /\ loaded'[q] = loaded[q]
                                   /\ dir'[q] = dir[q] /\ mapped'[q] = mapped[q],
         from # "none", to # "none",
         to \in {"start", "open", "segments"} => held'[p] = 3 /\ ~loaded'[p],
         machine' = "on" /\ to = "free" => held'[p] = 3 + Offsets(p)',
         to \in PastStart \cup {"up", "dead"} => held'[p] = 2 + Offsets(p)',
         to = "start" => dir'[p] = "none",
         to \in {"open", "segments", "destroy"} => dir'[p] = "live",
         dir'[p] # "live" => mapped'[p] = 0,
         kfree' + KernelPagesOf(p)' = kfree + KernelPagesOf(p),
         ufree' + mapped'[p] = ufree + mapped[p]
  PROVE  PageInv'
<1>1. /\ machine = "on" /\ pc[p] = from /\ pc'[p] = to
      /\ \A q \in Procs : q # p => pc'[q] = pc[q]
  BY DEF Goto, IInv, Types
<1>2. PoolInv'
  BY <1>1, PoolMove DEF PageInv
<1>3. SpaceInv'
  BY <1>1 DEF PageInv, SpaceInv
<1>4. \A q \in Procs : q # p => Offsets(q)' = Offsets(q)
  BY DEF Offsets
<1>5. p <= call /\ ~(p = call /\ main \in {"copy", "cmdline2", "no_args", "create"})
  BY <1>1 DEF IInv, Types, CallInv, Procs
<1>6. ASSUME NEW q \in Procs, q = p
      PROVE  /\ pc'[q] = "dead" => held'[q] = 2 + Offsets(q)'
             /\ machine' = "on" =>
                  /\ pc'[q] \in {"none", "start", "open", "segments"} => ~loaded'[q]
                  /\ pc'[q] \in {"start", "open", "segments"} => held'[q] = 3
                  /\ pc'[q] = "free" => held'[q] = 3 + Offsets(q)'
                  /\ pc'[q] \in PastStart \cup {"up"} => held'[q] = 2 + Offsets(q)'
                  /\ ~(q > call')
                  /\ q = call' => main' \notin {"copy", "cmdline2", "no_args", "create"}
  BY <1>1, <1>5, <1>6 DEF IInv, Types, Procs
<1>7. ASSUME NEW q \in Procs, q # p
      PROVE  /\ UNCHANGED call /\ held'[q] = held[q] /\ loaded'[q] = loaded[q] /\ pc'[q] = pc[q]
             /\ Offsets(q)' = Offsets(q)
             /\ main' = main \/ main' = "down"
  BY <1>1, <1>4, <1>7
<1>8. HeldInv'
  BY <1>1, <1>6, <1>7 DEF PageInv, HeldInv
<1> QED  BY <1>2, <1>3, <1>8 DEF PageInv

\* A step of the thread that moves no page.
LEMMA QuietPages ==
  ASSUME IInv, PageInv, NEW p \in Procs, NEW from, NEW to, Goto(p, from, to),
         UNCHANGED <<call, loaded, dir, mapped, pools>>,
         main' = main \/ main' = "down", machine' \in {"on", "off", "crashed"},
         \/ from \in {"start", "open", "segments"} /\ to = "free"
         \/ from = "open" /\ to = "segments"
         \/ from \in PastStart \cup {"up"} /\ to \in PastStart \ {"destroy"}
         \/ from = "activate" /\ to = "destroy"
  PROVE  PageInv'
<1>1. UNCHANGED <<held, kfree, ufree, boot>> /\ machine = "on" /\ pc[p] = from /\ pc'[p] = to
  BY DEF pools, Goto, IInv, Types
<1>2. to \in ProcAt /\ from \notin {"none", "dead"} /\ to \notin {"none", "dead", "start"}
  BY DEF ProcAt, PastStart
<1>3. PageTypes' /\ Offsets(p)' = Offsets(p)
  BY <1>1 DEF PageInv, PageTypes, MainAt, Offsets
<1>4. /\ to = "segments" => held'[p] = 3 /\ ~loaded'[p]
      /\ to = "free" => held'[p] = 3 + Offsets(p)'
      /\ to \in PastStart \cup {"up"} => held'[p] = 2 + Offsets(p)'
      /\ to \notin {"open", "dead"}
  BY <1>1, <1>3 DEF PageInv, HeldInv, Offsets, PastStart
<1>5. /\ to \in {"segments", "destroy"} => dir'[p] = "live"
      /\ dir'[p] # "live" => mapped'[p] = 0
  BY <1>1 DEF PageInv, SpaceInv, IInv, DirectoryInv, PastStart
<1>6. KernelPagesOf(p)' = KernelPagesOf(p)
  BY <1>1, <1>2 DEF KernelPagesOf
<1> QED  BY <1>1, <1>2, <1>3, <1>4, <1>5, <1>6, MovePages

\* Loading: the directory, the segments with their page tables, the offsets.
LEMMA LoadPages == ASSUME IInv, PageInv, NEW p \in Procs, Load(p) PROVE PageInv'
<1> USE DEF PageInv
<1>0. /\ \A st \in {"open", "segments", "free"} : st \in ProcAt /\ st \notin {"none", "dead", "start"}
      /\ held[p] \in Nat /\ mapped[p] \in Nat /\ Segments \in Nat
      /\ kfree \in Nat /\ ufree \in Nat
  <2>1. Segments \in Nat
    BY ProcessAssumption, Zenon
  <2> QED  BY <2>1, KernelPagesType DEF PageTypes, ProcAt
<1>1. CASE elf_load_create(p)
  <2>1. UNCHANGED <<machine, main, call, loaded, mapped, held, ufree, boot>>
    BY <1>1 DEF elf_load_create
  <2>2. CASE kfree > 0 /\ kfree' = kfree - 1 /\ Goto(p, "start", "open")
             /\ dir' = [dir EXCEPT ![p] = "live"]
    <3>1. /\ pc[p] = "start" /\ pc'[p] = "open" /\ machine = "on"
          /\ dir[p] = "none" /\ dir'[p] = "live" /\ held[p] = 3 /\ ~loaded[p]
          /\ \A q \in Procs : q # p => dir'[q] = dir[q]
      BY <2>2 DEF Goto, IInv, Types, HeldInv, SpaceInv
    <3>2. mapped[p] = 0
      BY <3>1 DEF SpaceInv
    <3>3. kfree' + KernelPagesOf(p)' = kfree + KernelPagesOf(p)
      BY <1>0, <2>1, <2>2, <3>1, <3>2 DEF KernelPagesOf
    <3>4. PageTypes'
      BY <1>0, <2>1, <2>2 DEF PageTypes
    <3> QED  BY <1>0, <2>1, <2>2, <3>1, <3>3, <3>4, MovePages DEF PastStart
  <2>3. CASE Goto(p, "start", "free") /\ UNCHANGED <<kfree, dir>>
    <3>1. UNCHANGED pools /\ machine' \in {"on", "off", "crashed"}
      BY <2>1, <2>3 DEF pools, PageTypes
    <3> QED  BY <2>1, <2>3, <3>1, QuietPages
  <2> QED  BY <1>1, <2>2, <2>3 DEF elf_load_create
<1>2. CASE elf_load_open(p)
  <2>1. /\ UNCHANGED <<main, call, loaded, dir, mapped, pools>>
        /\ machine' \in {"on", "off", "crashed"}
        /\ Goto(p, "open", "segments") \/ Goto(p, "open", "free")
    BY <1>2 DEF elf_load_open, space, PageTypes
  <2> QED  BY <2>1, QuietPages
<1>3. CASE elf_load_map(p)
  <2>1. UNCHANGED <<machine, main, call, loaded, dir, held, boot>> /\ mapped[p] < Segments
    BY <1>3 DEF elf_load_map
  <2>2. CASE /\ ufree > 0 /\ kfree > 0 /\ Goto(p, "segments", "segments")
             /\ ufree' = ufree - 1 /\ kfree' = kfree - 1
             /\ mapped' = [mapped EXCEPT ![p] = @ + 1]
    <3>1. /\ pc[p] = "segments" /\ pc'[p] = "segments" /\ machine = "on"
          /\ dir[p] = "live" /\ held[p] = 3 /\ ~loaded[p]
      BY <2>2 DEF Goto, IInv, Types, HeldInv, SpaceInv
    <3>2. mapped'[p] = mapped[p] + 1 /\ \A q \in Procs : q # p => mapped'[q] = mapped[q]
      BY <2>2 DEF PageTypes
    <3>3. kfree' + KernelPagesOf(p)' = kfree + KernelPagesOf(p)
      BY <1>0, <2>1, <2>2, <3>1, <3>2 DEF KernelPagesOf
    <3>4. ufree' + mapped'[p] = ufree + mapped[p]
      BY <1>0, <2>2, <3>2
    <3>5. mapped[p] + 1 \in 0 .. Segments
      BY <1>0, <2>1
    <3>6. PageTypes'
      BY <1>0, <2>1, <2>2, <3>5 DEF PageTypes
    <3> QED  BY <1>0, <2>1, <2>2, <3>1, <3>2, <3>3, <3>4, <3>6, MovePages DEF PastStart
  <2>3. CASE Goto(p, "segments", "free") /\ UNCHANGED <<ufree, kfree, mapped>>
    <3>1. UNCHANGED pools /\ machine' \in {"on", "off", "crashed"}
      BY <2>1, <2>3 DEF pools, PageTypes
    <3> QED  BY <2>1, <2>3, <3>1, QuietPages
  <2> QED  BY <1>3, <2>2, <2>3 DEF elf_load_map
<1>4. CASE push_command(p)
  <2>1. /\ UNCHANGED <<main, call, dir, mapped, ufree, boot>> /\ Goto(p, "segments", "free")
        /\ loaded' = [loaded EXCEPT ![p] = TRUE]
        /\ \/ /\ kfree > 0 /\ kfree' = kfree - 1 /\ UNCHANGED machine
              /\ held' = [held EXCEPT ![p] = @ + 1]
           \/ machine' = "crashed" /\ UNCHANGED <<kfree, held>>
    BY <1>4 DEF push_command
  <2>2. /\ pc[p] = "segments" /\ pc'[p] = "free" /\ held[p] = 3 /\ dir[p] = "live"
        /\ loaded'[p] = TRUE /\ \A q \in Procs : q # p => loaded'[q] = loaded[q]
    BY <2>1 DEF Goto, IInv, Types, PageTypes, HeldInv, SpaceInv
  <2>3. /\ \A q \in Procs : q # p => held'[q] = held[q]
        /\ \/ held'[p] = 4 /\ kfree' = kfree - 1
           \/ held'[p] = 3 /\ kfree' = kfree /\ machine' # "on"
    BY <2>1, <2>2 DEF PageTypes
  <2>4. PageTypes'
    BY <1>0, <2>1, <2>2 DEF PageTypes
  <2>5. kfree' + KernelPagesOf(p)' = kfree + KernelPagesOf(p)
    BY <1>0, <2>1, <2>2, <2>3 DEF KernelPagesOf
  <2>6. machine' = "on" => held'[p] = 3 + Offsets(p)'
    BY <2>2, <2>3 DEF Offsets
  <2> QED  BY <1>0, <2>1, <2>2, <2>3, <2>4, <2>5, <2>6, MovePages DEF PastStart
<1> QED  BY <1>1, <1>2, <1>3, <1>4 DEF Load

\* From the end of the load to the end of the thread.
LEMMA RunPages ==
  ASSUME IInv, PageInv, NEW p \in Procs,
         free_name(p) \/ start_process_up(p) \/ UserProgram(p) \/ Exit(p)
  PROVE  PageInv'
<1> USE DEF PageInv
<1>0. held[p] \in Nat /\ mapped[p] \in Nat /\ Segments \in Nat /\ kfree \in Nat /\ ufree \in Nat
  <2>1. Segments \in Nat
    BY ProcessAssumption
  <2> QED  BY <2>1 DEF PageTypes
<1>1. CASE free_name(p)
  <2>1. /\ UNCHANGED <<machine, main, call, loaded, dir, mapped, ufree, boot>>
        /\ Goto(p, "free", "up") /\ kfree' = kfree + 1 /\ held' = [held EXCEPT ![p] = @ - 1]
    BY <1>1 DEF free_name, space
  <2>2. pc[p] = "free" /\ pc'[p] = "up" /\ held[p] = 3 + Offsets(p) /\ Offsets(p)' = Offsets(p)
    BY <2>1 DEF Goto, IInv, Types, HeldInv, Offsets
  <2>3. /\ held'[p] = 2 + Offsets(p)' /\ held'[p] = held[p] - 1
        /\ \A q \in Procs : q # p => held'[q] = held[q]
    BY <2>1, <2>2 DEF PageTypes, Offsets
  <2>4. PageTypes'
    BY <1>0, <2>1, <2>2 DEF PageTypes, Offsets
  <2>5. kfree' + KernelPagesOf(p)' = kfree + KernelPagesOf(p)
    BY <1>0, <2>1, <2>2, <2>3 DEF KernelPagesOf
  <2>6. dir'[p] # "live" => mapped'[p] = 0
    BY <2>1 DEF SpaceInv
  <2> QED  BY <1>0, <2>1, <2>2, <2>3, <2>4, <2>5, <2>6, MovePages DEF ProcAt
<1>2. CASE start_process_up(p) \/ UserProgram(p) \/ process_exit(p) \/ pagedir_activate(p)
  <2>1. /\ UNCHANGED <<call, loaded, dir, mapped, pools>>
        /\ main' = main \/ main' = "down"
        /\ machine' \in {"on", "off", "crashed"}
    BY <1>2 DEF start_process_up, UserProgram, user_exit, user_stops_machine, process_exit,
                pagedir_activate, space, PageTypes
  <2>2. \/ \E from \in PastStart \cup {"up"}, to \in PastStart \ {"destroy"} : Goto(p, from, to)
        \/ Goto(p, "activate", "destroy")
    BY <1>2 DEF start_process_up, UserProgram, user_exit, user_stops_machine, process_exit,
                pagedir_activate, PastStart
  <2> QED  BY <2>1, <2>2, QuietPages
<1>3. CASE pagedir_destroy(p)
  <2>1. /\ UNCHANGED <<machine, main, call, loaded, held, boot>> /\ Goto(p, "destroy", "dying")
        /\ dir' = [dir EXCEPT ![p] = "freed"] /\ mapped' = [mapped EXCEPT ![p] = 0]
        /\ ufree' = ufree + mapped[p] /\ kfree' = kfree + mapped[p] + 1
    BY <1>3 DEF pagedir_destroy
  <2>2. /\ pc[p] = "destroy" /\ pc'[p] = "dying" /\ dir[p] = "live"
        /\ held[p] = 2 + Offsets(p) /\ Offsets(p)' = Offsets(p)
    BY <2>1 DEF Goto, IInv, Types, HeldInv, SpaceInv, Offsets, PastStart
  <2>3. /\ dir'[p] = "freed" /\ mapped'[p] = 0
        /\ \A q \in Procs : q # p => dir'[q] = dir[q] /\ mapped'[q] = mapped[q]
    BY <2>1 DEF IInv, Types, PageTypes
  <2>4. PageTypes'
    BY <1>0, <2>1 DEF PageTypes
  <2>5. kfree' + KernelPagesOf(p)' = kfree + KernelPagesOf(p)
    BY <1>0, <2>1, <2>2, <2>3 DEF KernelPagesOf
  <2>6. ufree' + mapped'[p] = ufree + mapped[p]
    BY <1>0, <2>1, <2>3
  <2> QED  BY <1>0, <2>1, <2>2, <2>3, <2>4, <2>5, <2>6, MovePages DEF ProcAt
<1>4. CASE thread_exit(p)
  <2>1. /\ UNCHANGED <<machine, main, call, loaded, dir, mapped, held, ufree, boot>>
        /\ Goto(p, "dying", "dead") /\ kfree' = kfree + 1
    BY <1>4 DEF thread_exit
  <2>2. /\ pc[p] = "dying" /\ pc'[p] = "dead"
        /\ held[p] = 2 + Offsets(p) /\ Offsets(p)' = Offsets(p)
    BY <2>1 DEF Goto, IInv, Types, HeldInv, Offsets, PastStart
  <2>3. PageTypes'
    BY <1>0, <2>1 DEF PageTypes
  <2>4. kfree' + KernelPagesOf(p)' = kfree + KernelPagesOf(p)
    BY <1>0, <2>1, <2>2 DEF KernelPagesOf
  <2>5. dir'[p] # "live" => mapped'[p] = 0
    BY <2>1 DEF SpaceInv
  <2> QED  BY <1>0, <2>1, <2>2, <2>3, <2>4, <2>5, MovePages DEF ProcAt
<1> QED  BY <1>1, <1>2, <1>3, <1>4 DEF Exit

\* Every step keeps the account of the pages.
LEMMA StepPages == ASSUME IInv, PageInv, [Next]_vars PROVE PageInv'
<1>1. CASE timer_interrupt \/ UNCHANGED vars \/ Waits
  <2>1. UNCHANGED <<machine, main, call, pc, loaded, dir, mapped, pools>>
    BY <1>1 DEF timer_interrupt, Waits, Block, Unblock, vars, space
  <2> QED  BY <2>1, SwitchPages
<1>2. CASE MainThread
  BY <1>2, MainPages
<1>3. CASE \E p \in Procs : KernelThread(p) \/ UserProgram(p)
  BY <1>3, LoadPages, RunPages DEF KernelThread
<1> QED  BY <1>1, <1>2, <1>3, DeviceWaits DEF Next, Stopped

----------------------------------------------------------------------------
(* The arguments: what push_command leaves on the stack.                   *)

\* Where a word begins: at a character other than a space, at the beginning of
\* the line or after a space; and past the end of a line that ends in a space,
\* where push_command finds an empty word.
Starts(line) ==
  {i \in 1 .. Len(line) + 1 :
     (i <= Len(line) => line[i] # SPACE) /\ (i > 1 => line[i - 1] = SPACE)}

\* A word from i to j that cannot be made longer at its end.
IsWord(line, i, j) ==
  /\ i \in Starts(line) /\ j \in i - 1 .. Len(line) /\ (i <= Len(line) => i <= j)
  /\ \A k \in i .. j : line[k] # SPACE
  /\ j < Len(line) => line[j + 1] = SPACE

\* base[k] counts the bytes of the first k strings.
IsBase(offs, base) ==
  /\ base \in [0 .. Len(offs) -> Nat] /\ base[0] = 0
  /\ \A k \in 1 .. Len(offs) : base[k] = base[k - 1] + offs[k]

\* The k-th string pushed is the word from from[k] to to[k], with a zero after
\* it, and the words are those that begin after lim, the last one first.
Layout(line, strs, offs, from, to, base, lim) ==
  /\ from \in [1 .. Len(offs) -> Nat] /\ to \in [1 .. Len(offs) -> Nat]
  /\ IsBase(offs, base) /\ base[Len(offs)] = Len(strs)
  /\ \A k \in 1 .. Len(offs) :
       /\ IsWord(line, from[k], to[k])
       /\ offs[k] = to[k] - from[k] + 2
       /\ base[k] <= Len(strs)
       /\ \A j \in 1 .. offs[k] - 1 : strs[Len(strs) - base[k] + j] = line[from[k] + j - 1]
       /\ strs[Len(strs) - base[k] + offs[k]] = NUL
  /\ \A k, l \in 1 .. Len(offs) : k < l => from[l] < from[k]
  /\ \A i \in Starts(line) : i > lim <=> \E k \in 1 .. Len(offs) : from[k] = i

\* What is on the stack: characters and zeros.
Bytes == Chars \cup {NUL}

\* The characters of a line are bytes of the stack.
LEMMA SeqBytes == Seq(Chars) \subseteq Seq(Bytes)
<1>1. Chars \subseteq Bytes
  BY DEF Bytes
<1> QED  BY <1>1

\* The word that begins at i is the one before those that begin after lim.
NextWord(line, i, lim, lim2) ==
  /\ i <= lim /\ i > lim2
  /\ \A k \in Starts(line) : k > lim2 <=> (k > lim \/ k = i)

\* A string is pushed below the others.
LEMMA PushLayout ==
  ASSUME NEW line \in Seq(Chars), NEW strs \in Seq(Bytes), NEW offs \in Seq(Nat),
         NEW from, NEW to, NEW base, NEW lim \in Nat, NEW lim2 \in Nat,
         Layout(line, strs, offs, from, to, base, lim),
         NEW i \in Nat, NEW j \in Nat, IsWord(line, i, j), NextWord(line, i, lim, lim2)
  PROVE  LET w == SubSeq(line, i, j)
             strs2 == w \o <<NUL>> \o strs
             offs2 == Append(offs, Len(w) + 1)
         IN  /\ strs2 \in Seq(Bytes) /\ offs2 \in Seq(Nat)
             /\ \E f, t, b : Layout(line, strs2, offs2, f, t, b, lim2)
<1> DEFINE w == SubSeq(line, i, j)
           strs2 == w \o <<NUL>> \o strs
           offs2 == Append(offs, Len(w) + 1)
<1> SUFFICES /\ strs2 \in Seq(Bytes) /\ offs2 \in Seq(Nat)
             /\ \E f, t, b : Layout(line, strs2, offs2, f, t, b, lim2)
  OBVIOUS
<1> HIDE DEF w, strs2, offs2
<1> DEFINE m == Len(offs)
           n == Len(strs)
           d == j - i + 2
           f == [k \in 1 .. m + 1 |-> IF k = m + 1 THEN i ELSE from[k]]
           t == [k \in 1 .. m + 1 |-> IF k = m + 1 THEN j ELSE to[k]]
           b == [k \in 0 .. m + 1 |-> IF k = m + 1 THEN n + d ELSE base[k]]
<1>0. /\ from \in [1 .. m -> Nat] /\ to \in [1 .. m -> Nat]
      /\ base \in [0 .. m -> Nat] /\ base[0] = 0 /\ base[m] = n
      /\ \A k \in 1 .. m : base[k] = base[k - 1] + offs[k]
      /\ \A k, l \in 1 .. m : k < l => from[l] < from[k]
      /\ \A k \in Starts(line) : k > lim <=> \E l \in 1 .. m : from[l] = k
  BY DEF Layout, IsBase
<1>w. \A k \in 1 .. m :
        /\ IsWord(line, from[k], to[k])
        /\ offs[k] = to[k] - from[k] + 2
        /\ base[k] <= n
        /\ \A h \in 1 .. offs[k] - 1 : strs[n - base[k] + h] = line[from[k] + h - 1]
        /\ strs[n - base[k] + offs[k]] = NUL
  BY DEF Layout
<1>1. m \in Nat /\ n \in Nat /\ d \in Nat /\ d >= 1 /\ d = j - i + 2
      /\ i >= 1 /\ j <= Len(line) /\ i - 1 <= j
  BY DEF IsWord, Starts
<1>2. w \in Seq(Bytes) /\ Len(w) = d - 1 /\ \A k \in 1 .. d - 1 : w[k] = line[i + k - 1]
  <2>1. Len(line) \in Nat /\ \A k \in 1 .. Len(line) : line[k] \in Chars
    OBVIOUS
  <2>2. w \in Seq(Chars)
    BY <1>1, <2>1, SubSeqProperties DEF w
  <2>3. Len(w) = d - 1
    BY <1>1, <2>1, SubSeqProperties DEF w
  <2>4. \A k \in 1 .. d - 1 : w[k] = line[i + k - 1]
    BY <1>1, <2>1, SubSeqProperties DEF w
  <2>5. w \in Seq(Bytes)
    BY <2>2, SeqBytes
  <2> QED  BY <2>3, <2>4, <2>5
<1> HIDE DEF d
<1>3. /\ strs2 \in Seq(Bytes) /\ Len(strs2) = n + d
      /\ \A k \in 1 .. d - 1 : strs2[k] = w[k]
      /\ strs2[d] = NUL
      /\ \A k \in 1 .. n : strs2[d + k] = strs[k]
  <2> DEFINE v == w \o <<NUL>>
  <2>1. v \in Seq(Bytes) /\ Len(v) = d /\ v[d] = NUL /\ \A k \in 1 .. d - 1 : v[k] = w[k]
    <3>2. v = Append(w, NUL)
      BY <1>2 DEF NUL, Bytes
    <3>3. NUL \in Bytes
      BY DEF NUL, Bytes
    <3>4. Len(w) + 1 = d
      BY <1>1, <1>2
    <3> HIDE DEF v
    <3>5. v \in Seq(Bytes) /\ Len(v) = d /\ v[d] = NUL
      BY <1>2, <3>2, <3>3, <3>4, AppendProperties
    <3>6. \A k \in 1 .. Len(w) : v[k] = w[k]
      BY <1>2, <3>2, <3>3, AppendProperties
    <3> QED  BY <1>2, <3>5, <3>6
  <2>2. strs2 = v \o strs
    BY DEF strs2
  <2> HIDE DEF v
  <2>3. strs2 \in Seq(Bytes) /\ Len(strs2) = d + n
    BY <2>1, <2>2, ConcatProperties
  <2>9. \A k \in 1 .. d + n : strs2[k] = IF k <= d THEN v[k] ELSE strs[k - d]
    BY <2>1, <2>2, ConcatProperties
  <2> HIDE DEF n
  <2>4. \A k \in 1 .. d : strs2[k] = v[k]
    <3> TAKE k \in 1 .. d
    <3>1. k \in 1 .. d + n /\ k <= d
      BY <1>1
    <3> QED  BY <2>9, <3>1
  <2>5. \A k \in 1 .. n : strs2[d + k] = strs[k]
    <3> TAKE k \in 1 .. n
    <3>1. d + k \in 1 .. d + n /\ ~ (d + k <= d) /\ d + k - d = k
      BY <1>1
    <3>2. \A h \in 1 .. d + n : ~ (h <= d) => strs2[h] = strs[h - d]
      BY <2>9
    <3>3. PICK h \in 1 .. d + n : h = d + k /\ ~ (h <= d) /\ h - d = k
      BY <1>1, <3>1
    <3>4. strs2[h] = strs[h - d]
      BY <3>2, <3>3
    <3> QED  BY <3>3, <3>4
  <2>6. d \in 1 .. d /\ \A k \in 1 .. d - 1 : k \in 1 .. d
    BY <1>1
  <2>7. strs2[d] = NUL /\ \A k \in 1 .. d - 1 : strs2[k] = w[k]
    BY <2>1, <2>4, <2>6
  <2>8. d + n = n + d
    BY <1>1
  <2> QED  BY <2>3, <2>5, <2>7, <2>8
<1>4. offs2 \in Seq(Nat) /\ Len(offs2) = m + 1 /\ offs2[m + 1] = d
      /\ \A k \in 1 .. m : offs2[k] = offs[k]
  BY <1>1, <1>2, AppendProperties, SMTT(30) DEF offs2
<1> HIDE DEF m, n
<1>5. f \in [1 .. m + 1 -> Nat] /\ t \in [1 .. m + 1 -> Nat]
  <2>1. \A k \in 1 .. m + 1 : k # m + 1 => from[k] \in Nat /\ to[k] \in Nat
    BY <1>0, <1>1, SMTT(30)
  <2> QED  BY <2>1
<1>6. b \in [0 .. m + 1 -> Nat]
  <2>1. \A k \in 0 .. m + 1 : k # m + 1 => base[k] \in Nat
    BY <1>0, <1>1
  <2>2. n + d \in Nat
    BY <1>1
  <2> QED  BY <2>1, <2>2
<1>7. f[m + 1] = i /\ t[m + 1] = j /\ b[m + 1] = n + d
  BY <1>1
<1>8. \A k \in 1 .. m : f[k] = from[k] /\ t[k] = to[k]
  BY <1>1
<1>9. \A k \in 0 .. m : b[k] = base[k]
  BY <1>1
<1>10. \A k \in 1 .. m + 1 : k \in 1 .. m \/ k = m + 1
  BY <1>1
<1> HIDE DEF f, t, b
<1>11. IsBase(offs2, b)
  <2>1. ASSUME NEW k \in 1 .. m  PROVE  b[k] = b[k - 1] + offs2[k]
    <3>1. k \in 0 .. m /\ k - 1 \in 0 .. m
      BY <1>1
    <3>2. b[k] = base[k] /\ b[k - 1] = base[k - 1]
      BY <1>9, <3>1
    <3>3. base[k] = base[k - 1] + offs[k] /\ offs2[k] = offs[k]
      BY <1>0, <1>4
    <3> QED  BY <3>2, <3>3
  <2>2. b[0] = 0 /\ b[m] = n
    <3>1. 0 \in 0 .. m /\ m \in 0 .. m
      BY <1>1
    <3> QED  BY <1>0, <1>9, <3>1
  <2>3. b[m + 1] = b[m] + offs2[m + 1]
    BY <1>1, <1>4, <1>7, <2>2
  <2>4. \A k \in 1 .. m + 1 : b[k] = b[k - 1] + offs2[k]
    <3> TAKE k \in 1 .. m + 1
    <3>1. CASE k = m + 1
      <4>1. k - 1 = m
        BY <1>1, <3>1
      <4> QED  BY <2>3, <3>1, <4>1
    <3> QED  BY <1>10, <2>1, <3>1
  <2>5. Len(offs2) = m + 1
    BY <1>4
  <2> QED  BY <1>6, <2>2, <2>4, <2>5 DEF IsBase
<1> DEFINE N == Len(strs2)
<1>n. N = n + d /\ N \in Nat
  BY <1>1, <1>3
<1> HIDE DEF N
<1>12. ASSUME NEW k \in 1 .. m + 1
       PROVE  /\ IsWord(line, f[k], t[k])
              /\ offs2[k] = t[k] - f[k] + 2
              /\ b[k] <= N
              /\ \A h \in 1 .. offs2[k] - 1 : strs2[N - b[k] + h] = line[f[k] + h - 1]
              /\ strs2[N - b[k] + offs2[k]] = NUL
  <2>1. CASE k = m + 1
    <3>1. f[k] = i /\ t[k] = j /\ b[k] = N /\ offs2[k] = d
      BY <1>4, <1>7, <1>n, <2>1
    <3>2. N - N = 0
      BY <1>n
    <3>3. \A h \in 1 .. d - 1 : strs2[0 + h] = line[i + h - 1]
      <4> TAKE h \in 1 .. d - 1
      <4>1. 0 + h = h
        BY <1>1
      <4>2. strs2[h] = w[h] /\ w[h] = line[i + h - 1]
        BY <1>2, <1>3
      <4> QED  BY <4>1, <4>2
    <3>4. strs2[0 + d] = NUL
      <4>1. 0 + d = d
        BY <1>1
      <4> QED  BY <1>3, <4>1
    <3>5. d = j - i + 2 /\ N <= N
      BY <1>1, <1>n
    <3> QED  BY <3>1, <3>2, <3>3, <3>4, <3>5
  <2>2. CASE k \in 1 .. m
    <3>1. f[k] = from[k] /\ t[k] = to[k] /\ b[k] = base[k] /\ offs2[k] = offs[k]
      <4>1. k \in 0 .. m
        BY <1>1, <2>2
      <4> QED  BY <1>4, <1>8, <1>9, <2>2, <4>1
    <3>2. IsWord(line, from[k], to[k]) /\ offs[k] = to[k] - from[k] + 2 /\ base[k] <= n
      BY <1>w, <2>2
    <3>3. base[k] \in Nat /\ base[k - 1] \in Nat /\ base[k] = base[k - 1] + offs[k]
      BY <1>0, <1>1, <2>2, SMTT(30)
    <3>4. offs[k] \in Nat /\ offs[k] >= 1
      <4>1. from[k] \in Nat /\ to[k] \in Nat
        BY <1>0, <2>2
      <4>2. to[k] >= from[k] - 1
        BY <3>2, <4>1 DEF IsWord
      <4>3. \A x, y \in Nat : y >= x - 1 => y - x + 2 \in Nat /\ y - x + 2 >= 1
        OBVIOUS
      <4> QED  BY <3>2, <4>1, <4>2, <4>3
    <3>5. ASSUME NEW h \in 1 .. offs[k]
          PROVE  strs2[N - base[k] + h] = strs[n - base[k] + h]
      <4>1. n - base[k] + h \in 1 .. n
        <5>1. \A x, y, z, u \in Nat : u <= x /\ u = y + z /\ h <= z => x - u + h \in 1 .. x
          OBVIOUS
        <5>2. h <= offs[k]
          BY <3>4
        <5> QED  BY <1>1, <3>2, <3>3, <3>4, <5>1, <5>2
      <4>2. strs2[d + (n - base[k] + h)] = strs[n - base[k] + h]
        BY <1>3, <4>1
      <4>3. d + (n - base[k] + h) = N - base[k] + h
        BY <1>1, <1>n, <3>3, <3>4, SMTT(30)
      <4> QED  BY <4>2, <4>3
    <3>6. \A h \in 1 .. offs[k] - 1 : strs2[N - base[k] + h] = line[from[k] + h - 1]
      <4> TAKE h \in 1 .. offs[k] - 1
      <4>1. h \in 1 .. offs[k]
        BY <3>4
      <4>2. strs[n - base[k] + h] = line[from[k] + h - 1]
        BY <1>w, <2>2
      <4> QED  BY <3>5, <4>1, <4>2
    <3>7. strs2[N - base[k] + offs[k]] = NUL
      <4>1. offs[k] \in 1 .. offs[k]
        BY <3>4
      <4>2. strs[n - base[k] + offs[k]] = NUL
        BY <1>w, <2>2
      <4> QED  BY <3>5, <4>1, <4>2
    <3>8. base[k] <= N
      BY <1>1, <1>n, <3>2, <3>3
    <3> QED  BY <3>1, <3>2, <3>6, <3>7, <3>8
  <2> QED  BY <1>10, <2>1, <2>2
<1>13. ASSUME NEW k \in 1 .. m + 1, NEW l \in 1 .. m + 1, k < l  PROVE  f[l] < f[k]
  <2>1. k \in 1 .. m
    BY <1>1, <1>13
  <2>2. f[k] = from[k] /\ from[k] \in Nat
    BY <1>0, <1>8, <2>1
  <2>3. CASE l \in 1 .. m
    <3>1. f[l] = from[l] /\ from[l] < from[k]
      BY <1>0, <1>8, <1>13, <2>1, <2>3
    <3> QED  BY <2>2, <3>1
  <2>4. CASE l = m + 1
    <3>1. from[k] \in Starts(line)
      BY <1>w, <2>1 DEF IsWord
    <3>2. from[k] > lim
      BY <1>0, <2>1, <3>1
    <3>3. i <= lim
      BY DEF NextWord
    <3> QED  BY <1>7, <2>2, <2>4, <3>2, <3>3
  <2> QED  BY <1>10, <2>3, <2>4
<1>14. \A k \in Starts(line) : k > lim2 <=> \E l \in 1 .. m + 1 : f[l] = k
  <2> TAKE k \in Starts(line)
  <2>1. k > lim <=> \E l \in 1 .. m : from[l] = k
    BY <1>0
  <2>2. (\E l \in 1 .. m + 1 : f[l] = k) <=> ((\E l \in 1 .. m : from[l] = k) \/ k = i)
    <3>1. m + 1 \in 1 .. m + 1 /\ \A l \in 1 .. m : l \in 1 .. m + 1
      BY <1>1
    <3> QED  BY <1>7, <1>8, <1>10, <3>1
  <2> QED  BY <2>1, <2>2 DEF NextWord
<1>15. b[m + 1] = Len(strs2) /\ Len(strs2) = n + d /\ Len(offs2) = m + 1
  BY <1>1, <1>3, <1>4, <1>7
<1>16. Layout(line, strs2, offs2, f, t, b, lim2)
  <2>1. \A k \in 1 .. Len(offs2) :
          /\ IsWord(line, f[k], t[k])
          /\ offs2[k] = t[k] - f[k] + 2
          /\ b[k] <= Len(strs2)
          /\ \A h \in 1 .. offs2[k] - 1 : strs2[Len(strs2) - b[k] + h] = line[f[k] + h - 1]
          /\ strs2[Len(strs2) - b[k] + offs2[k]] = NUL
    <3>1. Len(offs2) = m + 1
      BY <1>15
    <3> QED  BY <1>12, <3>1 DEF N
  <2>2. \A k, l \in 1 .. Len(offs2) : k < l => f[l] < f[k]
    BY <1>13, <1>15
  <2>3. \A k \in Starts(line) : k > lim2 <=> \E l \in 1 .. Len(offs2) : f[l] = k
    BY <1>14, <1>15
  <2>4. f \in [1 .. Len(offs2) -> Nat] /\ t \in [1 .. Len(offs2) -> Nat]
    BY <1>5, <1>15
  <2>5. b[Len(offs2)] = Len(strs2)
    BY <1>15
  <2> QED  BY <1>11, <2>1, <2>2, <2>3, <2>4, <2>5, Zenon DEF Layout
<1> QED  BY <1>3, <1>4, <1>16

\* The locals of push_command.
LoopState == [end : Int, prev_space : BOOLEAN, stack : Seq(Bytes), offsets : Seq(Nat)]

\* The loop of push_command with start_ind = start: what lies behind start up
\* to end is part of one word, and the words behind that are on the stack.
RoundInv(line, start, st) ==
  /\ st \in LoopState
  /\ st.end \in start .. Len(line) - 1
  /\ \A i \in start + 2 .. st.end + 1 : line[i] # SPACE
  /\ st.end + 1 < Len(line) => line[st.end + 2] = SPACE
  /\ st.prev_space <=> (st.end = start /\ start + 1 < Len(line))
  /\ \E from, to, base : Layout(line, st.stack, st.offsets, from, to, base, st.end + 2)

\* A round keeps it.
LEMMA RoundStep ==
  ASSUME NEW line \in Seq(Chars), NEW q \in Nat, q >= 1, q < Len(line),
         NEW st, RoundInv(line, q, st)
  PROVE  RoundInv(line, q - 1, Round(line, q, st))
<1> DEFINE n == Len(line)
           e == st.end
           new == Round(line, q, st)
<1>1. st \in LoopState /\ e \in Int /\ e >= q /\ e < n /\ n \in Nat
  BY DEF RoundInv, LoopState
<1>2. \A i \in q + 2 .. e + 1 : line[i] # SPACE
  BY DEF RoundInv
<1>3. e + 1 < n => line[e + 2] = SPACE
  BY DEF RoundInv
<1>4. st.prev_space <=> (e = q /\ q + 1 < n)
  BY DEF RoundInv
<1>5. PICK from, to, base : Layout(line, st.stack, st.offsets, from, to, base, e + 2)
  BY DEF RoundInv
<1>6. CASE line[q + 1] # SPACE
  <2>1. new = [st EXCEPT !.prev_space = FALSE]
    BY <1>6 DEF Round
  <2>2. new \in LoopState /\ new.end = e /\ new.prev_space = FALSE
        /\ new.stack = st.stack /\ new.offsets = st.offsets
    BY <1>1, <2>1 DEF LoopState
  <2> HIDE DEF new, e, n
  <2>3. \A i \in (q - 1) + 2 .. e + 1 : line[i] # SPACE
    BY <1>1, <1>2, <1>6
  <2>4. e \in q - 1 .. n - 1 /\ ~ (e = q - 1)
    BY <1>1
  <2>5. RoundInv(line, q - 1, new)
    BY <1>3, <1>5, <2>2, <2>3, <2>4 DEF RoundInv, n
  <2> QED  BY <2>5 DEF new
<1>7. CASE line[q + 1] = SPACE /\ st.prev_space
  <2>1. new = [st EXCEPT !.end = q - 1]
    BY <1>7 DEF Round
  <2>2. new \in LoopState /\ new.end = q - 1 /\ new.prev_space = st.prev_space
        /\ new.stack = st.stack /\ new.offsets = st.offsets
    BY <1>1, <2>1 DEF LoopState
  <2>3. e = q /\ q + 1 < n /\ line[q + 2] = SPACE
    BY <1>1, <1>3, <1>4, <1>7
  <2> HIDE DEF new, e, n
  <2>4. q + 2 \notin Starts(line)
    BY <1>1, <2>3 DEF Starts, n
  <2>5. \A i \in Starts(line) : i > q + 1 <=> i > q + 2
    <3>1. Starts(line) \subseteq Int
      BY DEF Starts
    <3> QED  BY <2>4, <3>1
  <2>6. Layout(line, new.stack, new.offsets, from, to, base, q + 1)
    BY <1>5, <2>2, <2>3, <2>5 DEF Layout
  <2>7. new.end + 2 = q + 1 /\ new.end + 1 = q /\ new.end \in q - 1 .. n - 1
    BY <1>1, <2>2
  <2>8. \A i \in (q - 1) + 2 .. q : FALSE
    OBVIOUS
  <2>9. line[new.end + 2] = SPACE
    BY <1>7, <2>7
  <2>10. new.prev_space <=> (new.end = q - 1 /\ q - 1 + 1 < Len(line))
    BY <1>7, <2>2
  <2>11. \A i \in (q - 1) + 2 .. new.end + 1 : line[i] # SPACE
    BY <2>7, <2>8
  <2>12. RoundInv(line, q - 1, new)
    BY <2>2, <2>6, <2>7, <2>9, <2>10, <2>11 DEF RoundInv, n
  <2> QED  BY <2>12 DEF new
<1>8. CASE line[q + 1] = SPACE /\ ~ st.prev_space
  <2> DEFINE w == SubSeq(line, q + 2, e + 1)
             strs2 == w \o <<NUL>> \o st.stack
             offs2 == Append(st.offsets, Len(w) + 1)
  <2>1. new = [[st EXCEPT !.stack = strs2, !.offsets = offs2]
                 EXCEPT !.end = q - 1, !.prev_space = TRUE]
    BY <1>8 DEF Round, Pushed
  <2>2. q + 1 < n => e >= q + 1
    BY <1>1, <1>4, <1>8
  <2>3. IsWord(line, q + 2, e + 1)
    <3>1. q + 2 \in Starts(line)
      <4>1. q + 2 <= n => line[q + 2] # SPACE
        BY <1>1, <1>2, <2>2
      <4>2. q + 2 \in 1 .. n + 1 /\ (q + 2) - 1 = q + 1
        BY <1>1
      <4> QED  BY <1>8, <4>1, <4>2 DEF Starts
    <3>2. e + 1 \in (q + 2) - 1 .. n /\ (q + 2 <= n => q + 2 <= e + 1)
      BY <1>1, <2>2
    <3>3. e + 1 < n => line[(e + 1) + 1] = SPACE
      BY <1>1, <1>3
    <3> QED  BY <1>2, <3>1, <3>2, <3>3 DEF IsWord
  <2>4. NextWord(line, q + 2, e + 2, q + 1)
    <3>1. q + 2 <= e + 2 /\ q + 2 > q + 1
      BY <1>1
    <3>2. ASSUME NEW k \in Starts(line)
          PROVE  k > q + 1 <=> (k > e + 2 \/ k = q + 2)
      <4>1. k \in Int /\ k <= n + 1
        BY <1>1 DEF Starts
      <4>2. ~ (k \in q + 3 .. e + 2)
        <5> SUFFICES ASSUME k \in q + 3 .. e + 2 PROVE FALSE
          OBVIOUS
        <5>1. k - 1 \in q + 2 .. e + 1 /\ k > 1
          BY <1>1, <4>1
        <5>2. line[k - 1] # SPACE
          BY <1>2, <5>1
        <5> QED  BY <5>1, <5>2 DEF Starts
      <4> QED  BY <1>1, <4>1, <4>2
    <3> QED  BY <3>1, <3>2 DEF NextWord
  <2>5. st.stack \in Seq(Bytes) /\ st.offsets \in Seq(Nat)
    BY <1>1 DEF LoopState
  <2>6. strs2 \in Seq(Bytes) /\ offs2 \in Seq(Nat)
        /\ \E f, t, b : Layout(line, strs2, offs2, f, t, b, q + 1)
    <3>1. q + 2 \in Nat /\ e + 1 \in Nat /\ e + 2 \in Nat /\ q + 1 \in Nat
      BY <1>1
    <3> HIDE DEF e
    <3> QED  BY <1>5, <2>3, <2>4, <2>5, <3>1, PushLayout
  <2> HIDE DEF strs2, offs2
  <2>7. new \in LoopState /\ new.end = q - 1 /\ new.prev_space = TRUE
        /\ new.stack = strs2 /\ new.offsets = offs2
    <3> DEFINE mid == [st EXCEPT !.stack = strs2, !.offsets = offs2]
    <3>1. mid \in LoopState /\ mid.stack = strs2 /\ mid.offsets = offs2
      BY <1>1, <2>6 DEF LoopState
    <3>2. new = [mid EXCEPT !.end = q - 1, !.prev_space = TRUE]
      BY <2>1
    <3>3. q - 1 \in Int
      OBVIOUS
    <3> HIDE DEF mid, new, strs2, offs2, e, n
    <3>4. new.end = q - 1 /\ new.prev_space = TRUE
      BY <3>1, <3>2 DEF LoopState
    <3>5. new.stack = mid.stack /\ new.offsets = mid.offsets
      BY <3>1, <3>2 DEF LoopState
    <3>6. new \in LoopState
      BY <3>1, <3>2, <3>3 DEF LoopState
    <3> QED  BY <3>1, <3>4, <3>5, <3>6
  <2> HIDE DEF new, e, n
  <2>8. new.end + 2 = q + 1 /\ new.end + 1 = q /\ new.end \in q - 1 .. n - 1
    BY <1>1, <2>7
  <2>9. \A i \in (q - 1) + 2 .. new.end + 1 : line[i] # SPACE
    BY <2>8
  <2>10. line[new.end + 2] = SPACE
    BY <1>8, <2>8
  <2>11. new.prev_space <=> (new.end = q - 1 /\ q - 1 + 1 < Len(line))
    BY <2>7
  <2>12. \E f, t, b : Layout(line, new.stack, new.offsets, f, t, b, new.end + 2)
    BY <2>6, <2>7, <2>8
  <2>13. RoundInv(line, q - 1, new)
    BY <2>7, <2>8, <2>9, <2>10, <2>11, <2>12 DEF RoundInv, n
  <2> QED  BY <2>13 DEF new
<1> QED  BY <1>6, <1>7, <1>8

\* The state of the loop at every index, as in Loop.
IsLoop(line, lo, at) ==
  at = [start \in lo .. Len(line) - 1 |->
          IF start = Len(line) - 1
          THEN [end |-> start, prev_space |-> FALSE, stack |-> << >>, offsets |-> << >>]
          ELSE Round(line, start + 1, at[start + 1])]

\* The rounds from the last index down to any other have a result.
LEMMA LoopExists ==
  ASSUME NEW line, Len(line) \in Nat, Len(line) > 0
  PROVE  \E at : IsLoop(line, 0, at)
<1> DEFINE n == Len(line)
           Bad == {k \in Nat : k < n /\ \A at : ~ IsLoop(line, n - 1 - k, at)}
<1>1. Bad = {} => \E at : IsLoop(line, 0, at)
  <2>1. n - 1 \in Nat /\ n - 1 < n /\ n - 1 - (n - 1) = 0
    OBVIOUS
  <2> QED  BY <2>1
<1> SUFFICES ASSUME Bad # {} PROVE FALSE
  BY <1>1
<1>2. PICK k \in Bad : \A m \in Bad : k <= m
  <2>1. Bad \in SUBSET Nat
    OBVIOUS
  <2> HIDE DEF Bad
  <2> QED  BY <2>1, NatHasMin
<1>3. k \in Nat /\ k < n /\ \A at : ~ IsLoop(line, n - 1 - k, at)
  BY <1>2
<1>4. CASE k = 0
  <2> DEFINE at == [start \in n - 1 .. n - 1 |->
                      [end |-> start, prev_space |-> FALSE, stack |-> << >>, offsets |-> << >>]]
  <2>1. \A start \in n - 1 .. n - 1 : start = n - 1
    OBVIOUS
  <2>2. IsLoop(line, n - 1, at)
    BY <2>1 DEF IsLoop
  <2>3. n - 1 - k = n - 1
    BY <1>4
  <2> QED  BY <1>3, <2>2, <2>3
<1>5. CASE k # 0
  <2>1. k - 1 \in Nat /\ k - 1 < n /\ ~ (k <= k - 1)
    BY <1>3, <1>5
  <2>2. k - 1 \notin Bad
    <3> HIDE DEF Bad
    <3> QED  BY <1>2, <2>1
  <2>3. PICK g : IsLoop(line, n - 1 - (k - 1), g)
    BY <2>1, <2>2
  <2> DEFINE lo == n - 1 - k
             First0(start) == [end |-> start, prev_space |-> FALSE, stack |-> << >>, offsets |-> << >>]
             at == [start \in lo .. n - 1 |->
                      IF start = n - 1 THEN First0(start) ELSE Round(line, start + 1, g[start + 1])]
  <2>4. lo \in Int /\ lo < n - 1 /\ lo >= 0 /\ n - 1 - (k - 1) = lo + 1
    BY <1>3, <1>5
  <2>5. g = [start \in lo + 1 .. n - 1 |->
               IF start = n - 1 THEN First0(start) ELSE Round(line, start + 1, g[start + 1])]
    BY <2>3, <2>4 DEF IsLoop
  <2> HIDE DEF lo, n, First0
  <2>6. \A start \in lo + 1 .. n - 1 : at[start] = g[start]
    <3> TAKE start \in lo + 1 .. n - 1
    <3>1. start \in lo .. n - 1
      BY <1>3, <2>4
    <3>2. at[start] = IF start = n - 1 THEN First0(start) ELSE Round(line, start + 1, g[start + 1])
      BY <3>1
    <3>3. g[start] = IF start = n - 1 THEN First0(start) ELSE Round(line, start + 1, g[start + 1])
      BY <2>5
    <3> QED  BY <3>2, <3>3
  <2>7. \A start \in lo .. n - 1 : start # n - 1 => at[start + 1] = g[start + 1]
    <3> TAKE start \in lo .. n - 1
    <3> HAVE start # n - 1
    <3>1. start + 1 \in lo + 1 .. n - 1
      <4>1. n \in Nat
        BY DEF n
      <4> QED  BY <2>4, <4>1
    <3> HIDE DEF at
    <3> QED  BY <2>6, <3>1
  <2>8. at = [start \in lo .. n - 1 |->
                IF start = n - 1 THEN First0(start) ELSE Round(line, start + 1, at[start + 1])]
    <3> DEFINE h == at
    <3>1. \A start \in lo .. n - 1 : start # n - 1 => h[start + 1] = g[start + 1]
      BY <2>7
    <3> HIDE DEF h
    <3>2. at = [start \in lo .. n - 1 |->
                  IF start = n - 1 THEN First0(start) ELSE Round(line, start + 1, h[start + 1])]
      BY <3>1
    <3> QED  BY <3>2 DEF h
  <2> HIDE DEF at
  <2>9. IsLoop(line, lo, at)
    BY <2>8 DEF IsLoop, n, First0
  <2> QED  BY <1>3, <2>9 DEF lo
<1> QED  BY <1>4, <1>5

\* The loop ends with its invariant at index 0.
LEMMA LoopInv ==
  ASSUME NEW line \in Seq(Chars), line # << >>
  PROVE  RoundInv(line, 0, Loop(line))
<1> DEFINE n == Len(line)
           at == CHOOSE g : IsLoop(line, 0, g)
<1>1. n \in Nat /\ n > 0
  BY EmptySeq
<1>2. IsLoop(line, 0, at)
  BY <1>1, LoopExists
<1>3. Loop(line) = at[0]
  BY DEF Loop, IsLoop
<1> HIDE DEF at
<1>4. at[n - 1] = [end |-> n - 1, prev_space |-> FALSE, stack |-> << >>, offsets |-> << >>]
  BY <1>1, <1>2 DEF IsLoop
<1>5. \A start \in 0 .. n - 1 : start # n - 1 => at[start] = Round(line, start + 1, at[start + 1])
  BY <1>1, <1>2 DEF IsLoop
<1>6. RoundInv(line, n - 1, at[n - 1])
  <2> DEFINE st == at[n - 1]
  <2>1. st \in LoopState /\ st.end = n - 1 /\ st.prev_space = FALSE /\ st.stack = << >> /\ st.offsets = << >>
    BY <1>1, <1>4 DEF LoopState
  <2> HIDE DEF st
  <2>2. Layout(line, << >>, << >>, << >>, << >>, [k \in {0} |-> 0], n + 1)
    <3> DEFINE b == [k \in {0} |-> 0]
    <3>1. << >> \in [1 .. 0 -> Nat] /\ Len(<< >>) = 0 /\ 0 .. 0 = {0}
      OBVIOUS
    <3>2. b \in [{0} -> Nat] /\ b[0] = 0
      OBVIOUS
    <3>3. \A k \in 1 .. 0 : FALSE
      OBVIOUS
    <3> HIDE DEF b
    <3>4. IsBase(<< >>, b)
      BY <3>1, <3>2, <3>3 DEF IsBase
    <3>5. \A i \in Starts(line) : ~ (i > n + 1)
      BY <1>1 DEF Starts
    <3> HIDE DEF n
    <3> QED  BY <3>1, <3>2, <3>3, <3>4, <3>5 DEF Layout, b
  <2>3. n - 1 + 2 = n + 1 /\ ~ (n - 1 + 1 < n) /\ \A i \in n - 1 + 2 .. n - 1 + 1 : FALSE
    BY <1>1
  <2>4. \E f, t, b : Layout(line, st.stack, st.offsets, f, t, b, st.end + 2)
    BY <2>1, <2>2, <2>3
  <2>5. st.end \in n - 1 .. n - 1 /\ ~ (st.end + 1 < n)
    BY <1>1, <2>1
  <2>6. \A i \in n - 1 + 2 .. st.end + 1 : line[i] # SPACE
    BY <2>1, <2>3
  <2>7. st.prev_space <=> (st.end = n - 1 /\ n - 1 + 1 < n)
    BY <2>1, <2>3
  <2>8. RoundInv(line, n - 1, st)
    BY <2>1, <2>4, <2>5, <2>6, <2>7 DEF RoundInv
  <2> QED  BY <2>8 DEF st
<1> DEFINE Bad == {k \in Nat : k < n /\ ~ RoundInv(line, n - 1 - k, at[n - 1 - k])}
<1>7. Bad = {}
  <2> SUFFICES ASSUME Bad # {} PROVE FALSE
    OBVIOUS
  <2>1. PICK k \in Bad : \A m \in Bad : k <= m
    <3>1. Bad \in SUBSET Nat
      OBVIOUS
    <3> HIDE DEF Bad
    <3> QED  BY <3>1, NatHasMin
  <2>2. k \in Nat /\ k < n /\ ~ RoundInv(line, n - 1 - k, at[n - 1 - k])
    BY <2>1
  <2>3. k # 0
    <3>1. n - 1 - 0 = n - 1
      BY <1>1
    <3> QED  BY <1>6, <2>2, <3>1
  <2>4. k - 1 \in Nat /\ k - 1 < n /\ ~ (k <= k - 1)
    BY <1>1, <2>2, <2>3
  <2>5. k - 1 \notin Bad
    <3> HIDE DEF Bad
    <3> QED  BY <2>1, <2>4
  <2>6. RoundInv(line, n - 1 - (k - 1), at[n - 1 - (k - 1)])
    BY <2>4, <2>5
  <2> DEFINE q == n - 1 - (k - 1)
  <2>7. q \in Nat /\ q >= 1 /\ q < n /\ q - 1 = n - 1 - k /\ q - 1 \in 0 .. n - 1
        /\ q - 1 # n - 1 /\ q - 1 + 1 = q
    BY <1>1, <2>2, <2>3
  <2>8. RoundInv(line, q, at[q])
    BY <2>6
  <2> HIDE DEF q
  <2>9. RoundInv(line, q - 1, Round(line, q, at[q]))
    BY <2>7, <2>8, RoundStep
  <2>10. at[q - 1] = Round(line, q, at[q])
    BY <1>5, <2>7
  <2> QED  BY <2>2, <2>7, <2>9, <2>10
<1>8. n - 1 \in Nat /\ n - 1 < n /\ n - 1 - (n - 1) = 0
  BY <1>1
<1>9. RoundInv(line, 0, at[0])
  BY <1>7, <1>8
<1> QED  BY <1>3, <1>9

\* The strings of a line that does not begin with a space.
LEMMA StringsLayout ==
  ASSUME NEW line \in Seq(Chars), line # << >>, line[1] # SPACE
  PROVE  LET st == Strings(line)
         IN  /\ st.stack \in Seq(Bytes) /\ st.offsets \in Seq(Nat)
             /\ \E from, to, base : Layout(line, st.stack, st.offsets, from, to, base, 0)
<1> DEFINE n == Len(line)
           lp == Loop(line)
           e == lp.end
<1>1. RoundInv(line, 0, lp) /\ n \in Nat /\ n > 0
  BY LoopInv, EmptySeq
<1> HIDE DEF lp
<1>2. lp \in LoopState /\ e \in Int /\ e >= 0 /\ e < n
  BY <1>1 DEF RoundInv, LoopState
<1>3. \A i \in 0 + 2 .. e + 1 : line[i] # SPACE
  BY <1>1 DEF RoundInv
<1>4. e + 1 < n => line[e + 2] = SPACE
  BY <1>1 DEF RoundInv
<1>5. PICK from, to, base : Layout(line, lp.stack, lp.offsets, from, to, base, e + 2)
  BY <1>1 DEF RoundInv
<1>6. lp.stack \in Seq(Bytes) /\ lp.offsets \in Seq(Nat)
  BY <1>2 DEF LoopState
<1> HIDE DEF e, n
<1>7. IsWord(line, 1, e + 1)
  <2>1. 1 \in Starts(line)
    BY <1>1 DEF Starts, n
  <2>2. e + 1 \in 1 - 1 .. n /\ 1 <= e + 1
    BY <1>1, <1>2
  <2>3. \A k \in 1 .. e + 1 : line[k] # SPACE
    BY <1>2, <1>3
  <2>4. e + 1 < n => line[e + 1 + 1] = SPACE
    <3>1. e + 1 + 1 = e + 2
      BY <1>2
    <3> QED  BY <1>4, <3>1
  <2> QED  BY <2>1, <2>2, <2>3, <2>4 DEF IsWord, n
<1>8. NextWord(line, 1, e + 2, 0)
  <2>1. ASSUME NEW k \in Starts(line)
        PROVE  k > 0 <=> (k > e + 2 \/ k = 1)
    <3>1. k \in Int /\ k >= 1
      BY DEF Starts
    <3>2. ~ (k \in 2 .. e + 2)
      <4> SUFFICES ASSUME k \in 2 .. e + 2 PROVE FALSE
        OBVIOUS
      <4>1. k > 1 /\ (k = 2 \/ k - 1 \in 2 .. e + 1)
        BY <1>2, <3>1
      <4>2. line[k - 1] # SPACE
        BY <1>3, <4>1
      <4> QED  BY <4>1, <4>2 DEF Starts
    <3> QED  BY <1>2, <3>1, <3>2
  <2>2. 1 <= e + 2 /\ 1 > 0
    BY <1>2
  <2> QED  BY <2>1, <2>2 DEF NextWord
<1> DEFINE w == SubSeq(line, 1, e + 1)
           strs2 == w \o <<NUL>> \o lp.stack
           offs2 == Append(lp.offsets, Len(w) + 1)
<1>9. strs2 \in Seq(Bytes) /\ offs2 \in Seq(Nat)
      /\ \E f, t, b : Layout(line, strs2, offs2, f, t, b, 0)
  <2>1. e + 1 \in Nat /\ e + 2 \in Nat /\ 0 \in Nat /\ 1 \in Nat
    BY <1>2
  <2> QED  BY <1>5, <1>6, <1>7, <1>8, <2>1, PushLayout
<1> HIDE DEF strs2, offs2
<1>10. Strings(line) = [lp EXCEPT !.stack = strs2, !.offsets = offs2]
  BY DEF Strings, Pushed, lp, strs2, offs2, e
<1>11. Strings(line).stack = strs2 /\ Strings(line).offsets = offs2
  BY <1>2, <1>10 DEF LoopState
<1> QED  BY <1>9, <1>11

\* What the addresses are computed from.
LEMMA BelowBase ==
  ASSUME NEW offs \in Seq(Nat), NEW base, IsBase(offs, base), NEW n \in 0 .. Len(offs)
  PROVE  Below(offs, n) = base[n]
<1> DEFINE IsSum(g) == g = [k \in 0 .. n |-> IF k = 0 THEN 0 ELSE g[k - 1] + offs[k]]
           sum == CHOOSE g : IsSum(g)
           b == [k \in 0 .. n |-> base[k]]
<1>1. /\ \A k \in 0 .. n : base[k] \in Nat
      /\ \A k \in 0 .. n : k # 0 => base[k] = base[k - 1] + offs[k]
      /\ base[0] = 0 /\ n \in Nat
  BY SMTT(30) DEF IsBase
<1>2. \A k \in 0 .. n : k # 0 => k - 1 \in 0 .. n
  BY <1>1
<1>3. IsSum(b)
  <2>1. \A k \in 0 .. n : b[k] = IF k = 0 THEN 0 ELSE b[k - 1] + offs[k]
    BY <1>1, <1>2
  <2> DEFINE c == b
  <2>2. \A k \in 0 .. n : base[k] = IF k = 0 THEN 0 ELSE c[k - 1] + offs[k]
    BY <2>1
  <2> HIDE DEF c
  <2>3. b = [k \in 0 .. n |-> IF k = 0 THEN 0 ELSE c[k - 1] + offs[k]]
    BY <2>2
  <2> QED  BY <2>3 DEF c
<1>4. IsSum(sum)
  <2> HIDE DEF IsSum, b
  <2> QED  BY <1>3
<1>5. Below(offs, n) = sum[n]
  BY DEF Below
<1> HIDE DEF sum, b
<1>6. \A k \in 0 .. n : sum[k] = IF k = 0 THEN 0 ELSE sum[k - 1] + offs[k]
  BY <1>4
<1> DEFINE Bad == {k \in Nat : k <= n /\ sum[k] # base[k]}
<1>7. Bad = {}
  <2> SUFFICES ASSUME Bad # {} PROVE FALSE
    OBVIOUS
  <2>1. PICK k \in Bad : \A m \in Bad : k <= m
    <3>1. Bad \in SUBSET Nat
      OBVIOUS
    <3> HIDE DEF Bad
    <3> QED  BY <3>1, NatHasMin
  <2>2. k \in 0 .. n /\ sum[k] # base[k]
    BY <1>1, <2>1
  <2>3. k # 0
    BY <1>1, <1>6, <2>2
  <2>4. k - 1 \in Nat /\ k - 1 <= n /\ ~ (k <= k - 1)
    BY <1>1, <2>2, <2>3
  <2>5. k - 1 \notin Bad
    <3> HIDE DEF Bad
    <3> QED  BY <2>1, <2>4
  <2>6. sum[k - 1] = base[k - 1]
    BY <2>4, <2>5
  <2> QED  BY <1>1, <1>6, <2>2, <2>3, <2>6
<1>8. sum[n] = base[n]
  BY <1>1, <1>7
<1> QED  BY <1>5, <1>8

\* A sequence of c numbers that ascends, and takes every value in S.
Ascending(c, o) == \A k, l \in 1 .. c : k < l => o[k] < o[l]
Onto(c, o, S) == \A x \in S : \E k \in 1 .. c : o[k] = x

\* There is one ascending order of a set of numbers.
LEMMA OrderUnique ==
  ASSUME NEW c \in Nat, NEW S, S \subseteq Int, NEW o \in [1 .. c -> S], NEW u \in [1 .. c -> S],
         Ascending(c, o), Ascending(c, u), Onto(c, o, S), Onto(c, u, S)
  PROVE  o = u
<1> DEFINE Bad == {k \in Nat : k \in 1 .. c /\ o[k] # u[k]}
<1>0. \A k \in 1 .. c : o[k] \in Int /\ u[k] \in Int
  OBVIOUS
<1>1. Bad = {} => o = u
  OBVIOUS
<1> SUFFICES ASSUME Bad # {} PROVE FALSE
  BY <1>1
<1>2. PICK k \in Bad : \A m \in Bad : k <= m
  <2>1. Bad \in SUBSET Nat
    OBVIOUS
  <2> HIDE DEF Bad
  <2> QED  BY <2>1, NatHasMin
<1>3. k \in 1 .. c /\ o[k] # u[k]
  BY <1>2
<1>4. \A m \in 1 .. c : m < k => o[m] = u[m]
  BY <1>2
<1>5. PICK l \in 1 .. c : u[l] = o[k]
  BY <1>3 DEF Onto
<1>6. PICK r \in 1 .. c : o[r] = u[k]
  BY <1>3 DEF Onto
<1>7. ~ (l < k)
  BY <1>0, <1>3, <1>4, <1>5 DEF Ascending
<1>8. ~ (r < k)
  BY <1>0, <1>3, <1>4, <1>6 DEF Ascending
<1>9. u[l] >= u[k]
  <2>1. l = k \/ k < l
    BY <1>3, <1>7
  <2> QED  BY <1>0, <1>3, <2>1 DEF Ascending
<1>10. o[r] >= o[k]
  <2>1. r = k \/ k < r
    BY <1>3, <1>8
  <2> QED  BY <1>0, <1>3, <2>1 DEF Ascending
<1> QED  BY <1>0, <1>3, <1>5, <1>6, <1>9, <1>10

\* An ascending sequence of all the places where words begin is WordOrder.
LEMMA OrderIs ==
  ASSUME NEW line \in Seq(Chars), NEW c \in Nat, NEW o \in [1 .. c -> WordStarts(line)],
         Ascending(c, o), Onto(c, o, WordStarts(line))
  PROVE  WordOrder(line) = o
<1> DEFINE S == WordStarts(line)
           Sorted(u) == \A a, b \in DOMAIN u : a < b => u[a] < u[b]
           D == 1 .. Cardinality(S)
           v == WordOrder(line)
<1>1. S \subseteq Int
  BY DEF WordStarts
<1>2. \A k, l \in 1 .. c : k # l => o[k] # o[l]
  BY <1>1 DEF Ascending
<1>3. IsFiniteSet(1 .. c) /\ Cardinality(1 .. c) = c
  BY FS_Interval
<1>4. IsFiniteSet(S) /\ Cardinality(S) = c
  <2>1. o \in Injection(1 .. c, S)
    BY <1>2 DEF Injection, IsInjective
  <2>2. o \in Surjection(1 .. c, S)
    BY DEF Surjection, Onto
  <2>3. ExistsBijection(1 .. c, S)
    BY <2>1, <2>2 DEF ExistsBijection, Bijection
  <2> QED  BY <1>3, <2>3, FS_Bijection
<1> HIDE DEF S
<1>5. o \in SetToSeqs(S) /\ Sorted(o)
  BY <1>2, <1>4 DEF SetToSeqs, Ascending, S
<1>6. v = CHOOSE u \in SetToSeqs(S) : Sorted(u)
  BY DEF WordOrder, S
<1>7. v \in SetToSeqs(S) /\ Sorted(v)
  <2> HIDE DEF Sorted, v
  <2> QED  BY <1>5, <1>6
<1> HIDE DEF v
<1>8. v \in [1 .. c -> S] /\ \A k, l \in 1 .. c : k # l => v[k] # v[l]
  BY <1>4, <1>7 DEF SetToSeqs
<1>9. Ascending(c, v)
  BY <1>7, <1>8 DEF Ascending
<1>10. Onto(c, v, S)
  <2>1. v \in Injection(1 .. c, S)
    BY <1>8 DEF Injection, IsInjective
  <2>2. v \in Surjection(1 .. c, S)
    BY <1>3, <1>4, <2>1, FS_Injection
  <2> QED  BY <2>2 DEF Surjection, Onto
<1>11. o \in [1 .. c -> S] /\ Onto(c, o, S)
  BY DEF S
<1>12. v = o
  BY <1>1, <1>8, <1>9, <1>10, <1>11, OrderUnique
<1> QED  BY <1>12 DEF v

\* A word ends in one place.
LEMMA EndIs ==
  ASSUME NEW line \in Seq(Chars), NEW i \in Nat, NEW j \in Nat,
         IsWord(line, i, j), i <= Len(line)
  PROVE  WordEnd(line, i) = j /\ i \in WordStarts(line)
<1> DEFINE n == Len(line)
           E(h) == (\A k \in i .. h : line[k] # SPACE) /\ (h < n => line[h + 1] = SPACE)
<1>1. j \in i .. n /\ E(j) /\ n \in Nat /\ i >= 1
  BY DEF IsWord, Starts
<1>2. ASSUME NEW h \in i .. n, E(h) PROVE h = j
  <2>1. ~ (h < j)
    <3> SUFFICES ASSUME h < j PROVE FALSE
      OBVIOUS
    <3>1. h < n /\ h + 1 \in i .. j
      BY <1>1
    <3> QED  BY <1>1, <1>2, <3>1
  <2>2. ~ (j < h)
    <3> SUFFICES ASSUME j < h PROVE FALSE
      OBVIOUS
    <3>1. j < n /\ j + 1 \in i .. h
      BY <1>1
    <3> QED  BY <1>1, <1>2, <3>1
  <2> QED  BY <1>1, <2>1, <2>2
<1>3. WordEnd(line, i) = CHOOSE h \in i .. n : E(h)
  BY DEF WordEnd
<1>4. i \in WordStarts(line)
  BY <1>1 DEF IsWord, Starts, WordStarts
<1> HIDE DEF E
<1> QED  BY <1>1, <1>2, <1>3, <1>4

\* The arguments a program should find.
WordsOf(line) ==
  Words(line) \o (IF Last(line) = SPACE THEN << << >> >> ELSE << >>)

\* If o is the order of the words' beginnings, these are the words.
LEMMA WordsFrom ==
  ASSUME NEW line \in Seq(Chars), NEW c \in Nat, NEW o \in [1 .. c -> WordStarts(line)],
         Ascending(c, o), Onto(c, o, WordStarts(line))
  PROVE  Words(line) = [k \in 1 .. c |-> SubSeq(line, o[k], WordEnd(line, o[k]))]
<1>1. WordOrder(line) = o
  BY OrderIs
<1>2. o \in Seq(WordStarts(line)) /\ Len(o) = c
  <2>1. o \in Seq(WordStarts(line))
    BY SeqDef
  <2> QED  BY <2>1
<1> QED  BY <1>1, <1>2 DEF Words

\* The words of the line are those pushed, in the opposite order.
LEMMA WordsAre ==
  ASSUME NEW line \in Seq(Chars), line # << >>, NEW strs, NEW offs \in Seq(Nat),
         NEW from, NEW to, NEW base, Layout(line, strs, offs, from, to, base, 0)
  PROVE  /\ Len(WordsOf(line)) = Len(offs)
         /\ \A k \in 1 .. Len(offs) :
              WordsOf(line)[Len(offs) + 1 - k] = SubSeq(line, from[k], to[k])
<1> DEFINE n == Len(line)
           m == Len(offs)
           ws == Words(line)
           wrd(k) == SubSeq(line, from[k], to[k])
<1>1. n \in Nat /\ n > 0 /\ m \in Nat
  BY EmptySeq
<1>2. from \in [1 .. m -> Nat] /\ to \in [1 .. m -> Nat]
      /\ \A k, l \in 1 .. m : k < l => from[l] < from[k]
  BY DEF Layout
<1>3. \A k \in 1 .. m : IsWord(line, from[k], to[k])
  BY DEF Layout
<1>4. \A i \in Starts(line) : \E k \in 1 .. m : from[k] = i
  <2>1. \A i \in Starts(line) : i > 0
    BY DEF Starts
  <2> QED  BY <2>1 DEF Layout
<1>5. \A k \in 1 .. m : from[k] <= n =>
        WordEnd(line, from[k]) = to[k] /\ from[k] \in WordStarts(line)
  BY <1>2, <1>3, EndIs
<1>6. WordStarts(line) \subseteq Starts(line) /\ \A i \in WordStarts(line) : i \in Int /\ i <= n
  BY <1>1 DEF WordStarts, Starts
<1>7. \A k \in 1 .. m : wrd(k) \in Seq(Chars)
  <2> TAKE k \in 1 .. m
  <2>1. from[k] \in Nat /\ to[k] \in Nat /\ from[k] >= 1 /\ to[k] <= n
    BY <1>1, <1>2, <1>3 DEF IsWord, Starts
  <2>2. \A i \in from[k] .. to[k] : line[i] \in Chars
    BY <1>1, <2>1, ElementOfSeq
  <2> QED  BY <2>1, <2>2, SubSeqProperties
<1>8. ASSUME NEW c \in Nat, c <= m, \A k \in 1 .. m : from[k] <= n <=> k > m - c
      PROVE  ws \in Seq(Seq(Chars)) /\ Len(ws) = c /\ \A k \in 1 .. c : ws[k] = wrd(m + 1 - k)
  <2> DEFINE o == [k \in 1 .. c |-> from[m + 1 - k]]
  <2>1. \A k \in 1 .. c : m + 1 - k \in 1 .. m /\ m + 1 - k > m - c
    BY <1>1, <1>8
  <2>2. \A k \in 1 .. c : from[m + 1 - k] <= n
    BY <1>8, <2>1
  <2>3. o \in [1 .. c -> WordStarts(line)]
    BY <1>5, <2>1, <2>2
  <2>4. Ascending(c, o)
    <3>1. ASSUME NEW k \in 1 .. c, NEW l \in 1 .. c, k < l PROVE o[k] < o[l]
      <4>1. m + 1 - l < m + 1 - k
        BY <1>1, <3>1
      <4>2. from[m + 1 - k] < from[m + 1 - l]
        BY <1>2, <2>1, <4>1
      <4> QED  BY <4>2
    <3> QED  BY <3>1 DEF Ascending
  <2>5. Onto(c, o, WordStarts(line))
    <3> SUFFICES ASSUME NEW x \in WordStarts(line) PROVE \E k \in 1 .. c : o[k] = x
      BY DEF Onto
    <3>1. x \in Starts(line) /\ x <= n
      BY <1>6
    <3>2. PICK k \in 1 .. m : from[k] = x
      BY <1>4, <3>1
    <3>3. k > m - c
      BY <1>8, <3>1, <3>2
    <3>4. m + 1 - k \in 1 .. c /\ m + 1 - (m + 1 - k) = k
      BY <1>1, <1>8, <3>3
    <3>5. o[m + 1 - k] = from[m + 1 - (m + 1 - k)]
      BY <3>4
    <3> QED  BY <3>2, <3>4, <3>5
  <2>6. ws = [k \in 1 .. c |-> SubSeq(line, o[k], WordEnd(line, o[k]))]
    <3> HIDE DEF o
    <3> QED  BY <2>3, <2>4, <2>5, WordsFrom
  <2>7. \A k \in 1 .. c : SubSeq(line, o[k], WordEnd(line, o[k])) = wrd(m + 1 - k)
    <3> TAKE k \in 1 .. c
    <3>1. o[k] = from[m + 1 - k] /\ WordEnd(line, from[m + 1 - k]) = to[m + 1 - k]
      BY <1>5, <2>1, <2>2
    <3> HIDE DEF o
    <3> QED  BY <3>1
  <2> HIDE DEF o, wrd, ws
  <2>8. ws = [k \in 1 .. c |-> wrd(m + 1 - k)]
    BY <2>6, <2>7
  <2>9. ws \in [1 .. c -> Seq(Chars)]
    BY <1>7, <2>1, <2>8
  <2>10. ws \in Seq(Seq(Chars)) /\ Len(ws) = c
    <3>1. ws \in Seq(Seq(Chars))
      BY <2>9, SeqDef
    <3> QED  BY <2>9, <3>1
  <2> QED  BY <2>8, <2>10
<1>9. CASE line[n] = SPACE
  <2>1. n + 1 \in Starts(line)
    BY <1>1, <1>9 DEF Starts
  <2>2. \A k \in 1 .. m : from[k] \in Nat /\ from[k] <= n + 1
    BY <1>1, <1>2, <1>3 DEF IsWord, Starts
  <2>3. m >= 1 /\ from[1] = n + 1
    <3>1. PICK k \in 1 .. m : from[k] = n + 1
      BY <1>4, <2>1
    <3>2. m >= 1 /\ 1 \in 1 .. m
      BY <1>1
    <3>3. ~ (1 < k)
      BY <1>1, <1>2, <2>2, <3>1, <3>2
    <3>4. k = 1
      BY <3>3
    <3> QED  BY <3>1, <3>2, <3>4
  <2>4. m - 1 \in Nat /\ m - 1 <= m
    BY <1>1, <2>3
  <2>5. \A k \in 1 .. m : from[k] <= n <=> k > m - (m - 1)
    <3> TAKE k \in 1 .. m
    <3>1. m - (m - 1) = 1 /\ 1 \in 1 .. m /\ (k = 1 \/ 1 < k)
      BY <1>1
    <3>2. CASE k = 1
      BY <1>1, <2>3, <3>1, <3>2
    <3>3. CASE 1 < k
      <4>1. from[k] < from[1]
        BY <1>2, <3>1, <3>3
      <4>2. from[k] \in Nat
        BY <1>2
      <4> QED  BY <1>1, <2>3, <3>1, <3>3, <4>1, <4>2
    <3> QED  BY <3>1, <3>2, <3>3
  <2>6. ws \in Seq(Seq(Chars)) /\ Len(ws) = m - 1 /\ \A k \in 1 .. m - 1 : ws[k] = wrd(m + 1 - k)
    BY <1>8, <2>4, <2>5
  <2>7. wrd(1) = << >>
    <3>1. to[1] \in Nat /\ to[1] <= n /\ from[1] = n + 1
      <4>1. 1 \in 1 .. m
        BY <1>1, <2>3
      <4> QED  BY <1>2, <1>3, <2>3, <4>1 DEF IsWord
    <3> QED  BY <1>1, <3>1, SubSeqEmpty
  <2>8. WordsOf(line) = Append(ws, << >>)
    <3>1. Last(line) = SPACE
      BY <1>9 DEF Last
    <3>2. << >> \in Seq(Chars)
      BY EmptySeq
    <3> HIDE DEF ws
    <3>3. ws \o << << >> >> = Append(ws, << >>)
      BY <2>6, <3>2
    <3> QED  BY <3>1, <3>3 DEF WordsOf, ws
  <2> HIDE DEF ws, wrd
  <2>9. Len(WordsOf(line)) = m /\ WordsOf(line)[m] = << >>
        /\ \A k \in 1 .. m - 1 : WordsOf(line)[k] = ws[k]
    <3>1. << >> \in Seq(Chars) /\ Len(ws) + 1 = m
      BY <1>1, <2>6, EmptySeq
    <3> QED  BY <2>6, <2>8, <3>1, AppendProperties
  <2>10. ASSUME NEW k \in 1 .. m PROVE WordsOf(line)[m + 1 - k] = wrd(k)
    <3>1. CASE k = 1
      <4>1. m + 1 - k = m
        BY <1>1, <3>1
      <4> QED  BY <2>7, <2>9, <3>1, <4>1
    <3>2. CASE k # 1
      <4>1. m + 1 - k \in 1 .. m - 1 /\ m + 1 - (m + 1 - k) = k
        BY <1>1, <3>2
      <4>2. WordsOf(line)[m + 1 - k] = ws[m + 1 - k]
        BY <2>9, <4>1
      <4>3. ws[m + 1 - k] = wrd(m + 1 - (m + 1 - k))
        BY <2>6, <4>1
      <4> QED  BY <4>1, <4>2, <4>3
    <3> QED  BY <3>1, <3>2
  <2> QED  BY <2>9, <2>10 DEF wrd
<1>10. CASE line[n] # SPACE
  <2>1. \A k \in 1 .. m : from[k] \in Nat /\ from[k] <= n
    <3> TAKE k \in 1 .. m
    <3>1. from[k] \in Starts(line) /\ from[k] \in Nat
      BY <1>2, <1>3 DEF IsWord
    <3>2. n + 1 \notin Starts(line)
      BY <1>1, <1>10 DEF Starts
    <3>3. from[k] <= n + 1
      BY <3>1 DEF Starts
    <3> QED  BY <1>1, <3>1, <3>2, <3>3
  <2>2. \A k \in 1 .. m : from[k] <= n <=> k > m - m
    BY <1>1, <2>1
  <2>3. ws \in Seq(Seq(Chars)) /\ Len(ws) = m /\ \A k \in 1 .. m : ws[k] = wrd(m + 1 - k)
    <3>1. m <= m
      BY <1>1
    <3> QED  BY <1>1, <1>8, <2>2, <3>1
  <2>4. WordsOf(line) = ws
    <3>1. Last(line) # SPACE
      BY <1>10 DEF Last
    <3> HIDE DEF ws
    <3>2. ws \o << >> = ws
      BY <2>3, ConcatEmptySeq
    <3> QED  BY <3>1, <3>2 DEF WordsOf, ws
  <2> HIDE DEF ws, wrd
  <2>5. ASSUME NEW k \in 1 .. m PROVE WordsOf(line)[m + 1 - k] = wrd(k)
    <3>1. m + 1 - k \in 1 .. m /\ m + 1 - (m + 1 - k) = k
      BY <1>1
    <3>2. ws[m + 1 - k] = wrd(m + 1 - (m + 1 - k))
      BY <2>3, <3>1
    <3> QED  BY <2>4, <3>1, <3>2
  <2> QED  BY <2>3, <2>4, <2>5 DEF wrd
<1> QED  BY <1>9, <1>10

\* At the address of a string a program reads the word.
LEMMA StringIs ==
  ASSUME NEW line \in Seq(Chars), NEW strs \in Seq(Bytes), NEW offs \in Seq(Nat),
         NEW from, NEW to, NEW base, Layout(line, strs, offs, from, to, base, 0),
         NEW k \in 1 .. Len(offs)
  PROVE  StringAt(strs, Len(strs) - base[k]) = SubSeq(line, from[k], to[k])
<1> DEFINE N == Len(strs)
           x == from[k]
           y == to[k]
           bk == base[k]
           addr == N - bk
           d == offs[k]
           last == addr + d
           ends == {j \in addr + 1 .. N : strs[j] = NUL}
<1>1. x \in Nat /\ y \in Nat /\ N \in Nat
  <2>1. from \in [1 .. Len(offs) -> Nat] /\ to \in [1 .. Len(offs) -> Nat]
    BY DEF Layout
  <2>2. N \in Nat
    BY LenProperties
  <2> QED  BY <2>1, <2>2
<1>0. bk \in Nat /\ d <= bk
  <2>1. base \in [0 .. Len(offs) -> Nat] /\ base[k] = base[k - 1] + offs[k]
    BY DEF Layout, IsBase
  <2>2. k \in 0 .. Len(offs) /\ k - 1 \in 0 .. Len(offs)
    OBVIOUS
  <2>3. base[k] \in Nat /\ base[k - 1] \in Nat /\ offs[k] \in Nat
    <3>1. offs[k] \in Nat
      BY ElementOfSeq
    <3> QED  BY <2>1, <2>2, <3>1
  <2> QED  BY <2>1, <2>3
<1>2. IsWord(line, x, y) /\ d = y - x + 2 /\ bk <= N
  BY DEF Layout
<1>3. \A j \in 1 .. d - 1 : strs[addr + j] = line[x + j - 1]
  BY DEF Layout
<1>4. strs[last] = NUL
  BY DEF Layout
<1> HIDE DEF d, N, x, y, bk
<1>5. x >= 1 /\ y <= Len(line) /\ x - 1 <= y /\ Len(line) \in Nat
  BY <1>1, <1>2 DEF IsWord, Starts
<1>6. d \in Nat /\ d >= 1 /\ addr \in Nat /\ last \in addr + 1 .. N
  BY <1>0, <1>1, <1>2, <1>5
<1> HIDE DEF addr, last
<1>7. last = addr + d
  BY DEF last
<1>8. \A j \in 1 .. d - 1 : line[x + j - 1] \in Chars
  <2> TAKE j \in 1 .. d - 1
  <2>1. x + j - 1 \in 1 .. Len(line)
    BY <1>1, <1>2, <1>5, <1>6
  <2> QED  BY <2>1, ElementOfSeq
<1>9. \A j \in addr + 1 .. last - 1 : strs[j] # NUL
  <2> TAKE j \in addr + 1 .. last - 1
  <2>1. j - addr \in 1 .. d - 1 /\ addr + (j - addr) = j
    BY <1>6, <1>7
  <2>2. strs[j] \in Chars
    BY <1>3, <1>8, <2>1
  <2>3. NUL \notin Chars
    BY DEF Chars, NUL
  <2> QED  BY <2>2, <2>3
<1>10. last \in ends /\ \A j \in ends : last <= j
  BY <1>4, <1>6, <1>7, <1>9
<1>11. ASSUME NEW j \in ends, \A h \in ends : j <= h PROVE j = last
  BY <1>6, <1>10, <1>11
<1>12. StringAt(strs, addr) = SubSeq(strs, addr + 1, last - 1)
  <2> DEFINE first == CHOOSE j \in ends : \A h \in ends : j <= h
  <2>1. first = last
    <3> HIDE DEF ends
    <3> QED  BY <1>10, <1>11
  <2>2. StringAt(strs, addr) = SubSeq(strs, addr + 1, first - 1)
    BY DEF StringAt, N
  <2> HIDE DEF first
  <2> QED  BY <2>1, <2>2
<1> DEFINE a == SubSeq(strs, addr + 1, last - 1)
           w == SubSeq(line, x, y)
<1>13. a \in Seq(Chars) /\ Len(a) = d - 1 /\ \A j \in 1 .. d - 1 : a[j] = strs[addr + j]
  <2>1. \A j \in addr + 1 .. last - 1 : strs[j] \in Chars
    <3> TAKE j \in addr + 1 .. last - 1
    <3>1. j - addr \in 1 .. d - 1 /\ addr + (j - addr) = j
      BY <1>6, <1>7
    <3> QED  BY <1>3, <1>8, <3>1
  <2>2. addr + 1 \in Int /\ last - 1 \in Int /\ (last - 1) - (addr + 1) + 1 = d - 1
    BY <1>6, <1>7
  <2>3. a \in Seq(Chars) /\ Len(a) = IF addr + 1 <= last - 1 THEN (last - 1) - (addr + 1) + 1 ELSE 0
    BY <2>1, <2>2, SubSeqProperties
  <2>4. \A j \in 1 .. (last - 1) - (addr + 1) + 1 : a[j] = strs[(addr + 1) + j - 1]
    BY <2>1, <2>2, SubSeqProperties, SMTT(30)
  <2>5. \A j \in 1 .. d - 1 : (addr + 1) + j - 1 = addr + j
    BY <1>6
  <2> HIDE DEF a
  <2>6. Len(a) = d - 1
    BY <1>6, <1>7, <2>3
  <2> QED  BY <2>2, <2>3, <2>4, <2>5, <2>6
<1>14. w \in Seq(Chars) /\ Len(w) = d - 1 /\ \A j \in 1 .. d - 1 : w[j] = line[x + j - 1]
  <2>1. \A j \in x .. y : line[j] \in Chars
    BY <1>1, <1>5, ElementOfSeq
  <2>0. x \in Int /\ y \in Int
    BY <1>1
  <2>2. w \in Seq(Chars) /\ Len(w) = IF x <= y THEN y - x + 1 ELSE 0
    BY <2>0, <2>1, SubSeqProperties
  <2>6. \A j \in 1 .. y - x + 1 : w[j] = line[x + j - 1]
    BY <2>0, <2>1, SubSeqProperties
  <2>3. y - x + 1 = d - 1
    BY <1>1, <1>2
  <2> HIDE DEF w
  <2>4. Len(w) = d - 1
    <3>1. (IF x <= y THEN y - x + 1 ELSE 0) = d - 1
      BY <1>1, <1>5, <1>6, <2>3
    <3> QED  BY <2>2, <3>1
  <2>5. \A j \in 1 .. d - 1 : w[j] = line[x + j - 1]
    BY <2>3, <2>6
  <2> QED  BY <2>2, <2>4, <2>5
<1> HIDE DEF a, w
<1>15. a = w
  <2>1. \A j \in 1 .. Len(a) : a[j] = w[j]
    BY <1>3, <1>13, <1>14
  <2> QED  BY <1>13, <1>14, <2>1, SeqEqual
<1> QED  BY <1>12, <1>15 DEF a, w, addr, N, x, y, bk

\* The size of an interval.
LEMMA CountTo == ASSUME NEW k \in Nat PROVE IsFiniteSet(1 .. k) /\ Cardinality(1 .. k) = k
<1>1. 1 \in Int /\ k \in Int
  OBVIOUS
<1>2. IsFiniteSet(1 .. k) /\ Cardinality(1 .. k) = IF 1 > k THEN 0 ELSE k - 1 + 1
  BY <1>1, FS_Interval
<1>3. (IF 1 > k THEN 0 ELSE k - 1 + 1) = k
  OBVIOUS
<1> QED  BY <1>2, <1>3

\* A char holds the number of words of a short line.
LEMMA FitsChar == ASSUME NEW k \in Nat, NEW n \in Nat, k <= n + 1, n <= 128 PROVE k % 256 = k
OBVIOUS

\* A line has no more words than characters, but for an empty one at its end:
\* the words begin at different places.
LEMMA FewWords ==
  ASSUME NEW line \in Seq(Chars), NEW strs \in Seq(Bytes), NEW offs \in Seq(Nat),
         NEW from, NEW to, NEW base, Layout(line, strs, offs, from, to, base, 0)
  PROVE  Len(offs) <= Len(line) + 1
<1> DEFINE m == Len(offs)
           n == Len(line) + 1
<1>1. m \in Nat /\ n \in Nat
  OBVIOUS
<1>2. from \in [1 .. m -> 1 .. n]
  BY DEF Layout, IsWord, Starts
<1>3. \A k, l \in 1 .. m : k < l => from[l] < from[k]
  BY DEF Layout
<1> HIDE DEF m, n
<1>4. \A k, l \in 1 .. m : k # l => from[k] # from[l]
  BY <1>1, <1>2, <1>3
<1>5. /\ IsFiniteSet(1 .. m) /\ Cardinality(1 .. m) = m
      /\ IsFiniteSet(1 .. n) /\ Cardinality(1 .. n) = n
  BY <1>1, CountTo
<1>6. m <= n
  <2> SUFFICES ASSUME n < m PROVE FALSE
    BY <1>1
  <2> QED  BY <1>2, <1>4, <1>5, FS_PigeonHole
<1> QED  BY <1>6 DEF m, n

\* What the bounds on the length of a line say.
LEMMA ShortLine ==
  ASSUME NEW line \in Seq(Chars), Len(line) \in 1 .. 128
  PROVE  line # << >> /\ Len(line) \in Nat /\ Len(line) <= 128
<1>1. Len(line) \in Nat /\ Len(line) <= 128 /\ Len(line) # 0
  <2>1. \A n \in 1 .. 128 : n \in Nat /\ n <= 128 /\ n # 0
    OBVIOUS
  <2> QED  BY <2>1, Zenon
<1>2. line # << >>
  <2> SUFFICES ASSUME line = << >> PROVE FALSE
    OBVIOUS
  <2>1. Len(line) = 0
    OBVIOUS
  <2> QED  BY <1>1, <2>1
<1> QED  BY <1>1, <1>2

\* push_command leaves the words of the line where argv says.
LEMMA StackRight ==
  ASSUME NEW line \in Seq(Chars), Len(line) \in 1 .. 128, line[1] # SPACE
  PROVE  /\ StackOf(line).argc = Len(WordsOf(line))
         /\ \A i \in 1 .. Len(WordsOf(line)) :
              StringAt(StackOf(line).strs, StackOf(line).argv[i]) = WordsOf(line)[i]
<1> DEFINE st == Strings(line)
           offs == st.offsets
           strs == st.stack
           m == Len(offs)
           sk == StackOf(line)
<1>0. line # << >> /\ Len(line) \in Nat /\ Len(line) <= 128
  BY ShortLine
<1>1. strs \in Seq(Bytes) /\ offs \in Seq(Nat)
      /\ \E from, to, base : Layout(line, strs, offs, from, to, base, 0)
  BY <1>0, StringsLayout
<1>2. /\ sk.argc = m % 256 /\ sk.strs = strs
      /\ \A i \in 1 .. m : sk.argv[i] = Len(strs) - Below(offs, m + 1 - i)
  BY DEF StackOf
<1> HIDE DEF st, offs, strs, sk
<1>3. PICK from, to, base : Layout(line, strs, offs, from, to, base, 0)
  BY <1>1
<1>4. m \in Nat /\ IsBase(offs, base)
  BY <1>1, <1>3 DEF Layout
<1>5. Len(WordsOf(line)) = m
  BY <1>0, <1>1, <1>3, WordsAre
<1>7. sk.argc = m
  <2>1. m <= Len(line) + 1
    BY <1>1, <1>3, FewWords
  <2> HIDE DEF m
  <2>3. m % 256 = m
    BY <1>0, <1>4, <2>1, FitsChar
  <2> QED  BY <1>2, <2>3
<1>6. ASSUME NEW i \in 1 .. m
      PROVE  StringAt(sk.strs, sk.argv[i]) = WordsOf(line)[i]
  <2> DEFINE k == m + 1 - i
  <2>1. k \in 1 .. m /\ k \in 0 .. m /\ m + 1 - k = i
    BY <1>4
  <2>2. sk.argv[i] = Len(strs) - Below(offs, k)
    BY <1>2
  <2> HIDE DEF k
  <2>3. Below(offs, k) = base[k]
    BY <1>1, <1>4, <2>1, BelowBase
  <2>4. StringAt(strs, Len(strs) - base[k]) = SubSeq(line, from[k], to[k])
    BY <1>0, <1>1, <1>3, <2>1, StringIs
  <2>5. WordsOf(line)[m + 1 - k] = SubSeq(line, from[k], to[k])
    BY <1>0, <1>1, <1>3, <2>1, WordsAre
  <2> QED  BY <1>2, <2>1, <2>2, <2>3, <2>4, <2>5
<1> QED  BY <1>5, <1>6, <1>7 DEF sk

\* A program's stack is what push_command made of the command line, if
\* anything; it was made for a line that begins with the name of a program.
StackInv ==
  /\ boot \in Boots
  /\ stack \in [Procs -> {NoStack, StackOf(boot.cmdline)}]
  /\ \A p \in Procs : pc[p] = "segments" \/ stack[p] # NoStack => boot.cmdline[1] # SPACE

\* At first there is no stack.
LEMMA InitStack == Init => StackInv
BY DEF Init, StackInv

\* Most steps leave the stacks alone, and nobody gets to load_segment.
LEMMA QuietStack ==
  ASSUME StackInv, UNCHANGED <<boot, stack>>,
         \A p \in Procs : pc'[p] = "segments" => pc[p] = "segments"
  PROVE  StackInv'
BY DEF StackInv

\* A step of a thread moves that thread only.
LEMMA GotoStack ==
  ASSUME IInv, NEW p \in Procs, NEW from, NEW to, Goto(p, from, to)
  PROVE  /\ pc[p] = from /\ pc'[p] = to
         /\ \A q \in Procs : q # p => pc'[q] = pc[q]
BY DEF IInv, Types, Goto

\* Only elf_load_open, push_command and pagedir_destroy have to be looked at.
LEMMA StepStack == ASSUME IInv, StackInv, [Next]_vars PROVE StackInv'
<1>1. CASE timer_interrupt \/ UNCHANGED vars \/ Waits
  <2>1. UNCHANGED <<pc, boot, stack>>
    BY <1>1 DEF timer_interrupt, Waits, Block, Unblock, vars, space, pools
  <2> QED  BY <2>1, QuietStack
<1>2. CASE MainThread
  <2>1. UNCHANGED <<boot, stack>>
    BY <1>2 DEF MainThread, run_task, copy_cmdline, copy_name, thread_create, execute_down,
                actions_done, space, pools
  <2>2. UNCHANGED pc \/ pc' = [pc EXCEPT ![call] = "start"]
    BY <1>2 DEF MainThread, run_task, copy_cmdline, copy_name, thread_create, execute_down,
                actions_done
  <2>3. \A p \in Procs : pc'[p] = "segments" => pc[p] = "segments"
    BY <2>2 DEF IInv, Types
  <2> QED  BY <2>1, <2>3, QuietStack
<1>3. ASSUME NEW p \in Procs, elf_load_open(p) PROVE StackInv'
  <2>1. UNCHANGED <<boot, stack>>
    BY <1>3 DEF elf_load_open, space, pools
  <2>2. CASE boot.cmdline[1] # SPACE
    BY <2>1, <2>2 DEF StackInv
  <2>3. CASE Goto(p, "open", "free")
    <3>1. \A q \in Procs : pc'[q] = "segments" => pc[q] = "segments"
      BY <2>3, GotoStack
    <3> QED  BY <2>1, <3>1, QuietStack
  <2> QED  BY <1>3, <2>2, <2>3 DEF elf_load_open
<1>4. ASSUME NEW p \in Procs, push_command(p) PROVE StackInv'
  <2>1. Goto(p, "segments", "free") /\ UNCHANGED boot
    BY <1>4 DEF push_command
  <2>2. pc[p] = "segments" /\ \A q \in Procs : pc'[q] = "segments" => pc[q] = "segments"
    BY <2>1, GotoStack
  <2>3. boot.cmdline[1] # SPACE
    BY <2>2 DEF StackInv
  <2>4. stack' = stack \/ stack' = [stack EXCEPT ![p] = StackOf(boot.cmdline)]
    BY <1>4 DEF push_command
  <2>5. stack' \in [Procs -> {NoStack, StackOf(boot.cmdline)}]
    BY <2>4 DEF StackInv
  <2> QED  BY <2>1, <2>3, <2>5 DEF StackInv
<1>5. ASSUME NEW p \in Procs, pagedir_destroy(p) PROVE StackInv'
  <2>1. Goto(p, "destroy", "dying") /\ UNCHANGED boot /\ stack' = [stack EXCEPT ![p] = NoStack]
    BY <1>5 DEF pagedir_destroy
  <2>2. \A q \in Procs : pc'[q] = "segments" => pc[q] = "segments"
    BY <2>1, GotoStack
  <2>3. stack' \in [Procs -> {NoStack, StackOf(boot.cmdline)}]
        /\ \A q \in Procs : stack'[q] # NoStack => stack[q] # NoStack
    BY <2>1 DEF StackInv
  <2> QED  BY <2>1, <2>2, <2>3 DEF StackInv
<1>6. ASSUME NEW p \in Procs,
             \/ elf_load_create(p) \/ elf_load_map(p) \/ free_name(p) \/ start_process_up(p)
             \/ UserProgram(p) \/ process_exit(p) \/ pagedir_activate(p) \/ thread_exit(p)
      PROVE  StackInv'
  <2>1. UNCHANGED <<boot, stack>>
    BY <1>6 DEF elf_load_create, elf_load_map, free_name, start_process_up, UserProgram, user_exit,
                user_stops_machine, process_exit, pagedir_activate, thread_exit, space, pools
  <2>2. \E from, to : Goto(p, from, to) /\ (to = "segments" => from = "segments")
    BY <1>6 DEF elf_load_create, elf_load_map, free_name, start_process_up, UserProgram, user_exit,
                user_stops_machine, process_exit, pagedir_activate, thread_exit
  <2>3. \A q \in Procs : pc'[q] = "segments" => pc[q] = "segments"
    BY <2>2, GotoStack
  <2> QED  BY <2>1, <2>3, QuietStack
<1> QED  BY <1>1, <1>2, <1>3, <1>4, <1>5, <1>6, DeviceWaits
         DEF Next, Stopped, KernelThread, Load, Exit

----------------------------------------------------------------------------
\* The inductive invariant holds in every reachable state of process.c.
THEOREM Invariance == Spec => []IInv
BY InitInv, StepInv, PTL DEF Spec

\* process_exit and thread_schedule_tail: whatever the timer interrupts, the
\* CPU never uses a page directory that pagedir_destroy has freed.
THEOREM DirectoryLive == Spec => []ActiveDirectoryLive
<1>1. IInv => ActiveDirectoryLive
  BY DEF IInv, Types, DirectoryInv, ActiveDirectoryLive
<1> QED  BY <1>1, Invariance, PTL

\* process_execute and start_process: as long as the thread still starts, the
\* stack frame of its parent, with its arguments and semaphore, is there.
THEOREM ArgumentsLive == Spec => []ArgumentsAlive
<1>1. IInv => ArgumentsAlive
  BY DEF IInv, CallInv, Starting, ArgumentsAlive
<1> QED  BY <1>1, Invariance, PTL

\* palloc, process.c and pagedir.c: whatever allocation fails, a page is free
\* or belongs to a call, a thread or an address space, never to two, and an
\* ended program has left exactly the buffers that nobody frees.
THEOREM PagesKept == Spec => []PagesAccounted
<1>1. Init => SchedTypes
  BY DEF Init, SchedTypes, Threads
<1>2. IInv /\ SchedTypes /\ PageInv => PagesAccounted
  <2> SUFFICES ASSUME IInv, SchedTypes, PageInv PROVE PagesAccounted
    OBVIOUS
  <2>1. /\ IsFiniteSet(Procs) /\ KernelPages \in [Procs -> Nat] /\ mapped \in [Procs -> Nat]
    BY KernelPagesType DEF PageInv
  <2>2. SumFunction(KernelPages) \in Nat /\ SumFunction(mapped) \in Nat
    <3>1. Nat \in SUBSET Int /\ 0 \in Nat /\ \A a, b \in Nat : a + b \in Nat
      OBVIOUS
    <3> QED  BY <2>1, <3>1, SumWithin
  <2>3. boot.kpages \in Nat /\ UserPages \in Nat
    BY ProcessAssumption DEF PageInv, PageTypes
  <2>4. kfree \in 0 .. boot.kpages /\ ufree \in 0 .. UserPages
    BY <2>2, <2>3 DEF PageInv, PageTypes, PoolInv
  <2>5. TypeOK
    BY <2>4 DEF TypeOK, IInv, Types, SchedTypes, PageInv, PageTypes
  <2>6. \A p \in Procs : pc[p] = "dead" => held[p] = (IF loaded[p] THEN 3 ELSE 2)
    BY DEF PageInv, HeldInv, Offsets
  <2> QED  BY <2>5, <2>6 DEF PagesAccounted, PageInv, PoolInv
<1> QED  BY <1>1, <1>2, InitPages, Invariance, StepSched, StepPages, PTL DEF Spec

\* push_command: whatever the command line, a program that was started finds
\* at the addresses in argv the words of the line, in their order.
THEOREM ArgumentsRight == Spec => []ArgumentsPushed
<1>1. IInv /\ StackInv => ArgumentsPushed
  <2> SUFFICES ASSUME StackInv, NEW p \in Procs, stack[p] # NoStack
               PROVE  /\ stack[p].argc = Len(WordsOf(boot.cmdline))
                      /\ \A i \in 1 .. Len(WordsOf(boot.cmdline)) :
                           StringAt(stack[p].strs, stack[p].argv[i]) = WordsOf(boot.cmdline)[i]
    BY DEF ArgumentsPushed, WordsOf
  <2>1. boot.cmdline \in Seq(Chars) /\ Len(boot.cmdline) \in 1 .. 128
    BY ProcessAssumption DEF StackInv, LOADER_ARGS_LEN
  <2>2. boot.cmdline[1] # SPACE /\ stack[p] = StackOf(boot.cmdline)
    BY DEF StackInv
  <2> QED  BY <2>1, <2>2, StackRight
<1> QED  BY <1>1, Invariance, InitStack, StepStack, PTL DEF Spec
=============================================================================
