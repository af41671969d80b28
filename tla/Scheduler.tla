----------------------------- MODULE Scheduler -----------------------------
(***************************************************************************)
(* The thread scheduler and the process life cycle of CrecentKernel:       *)
(* kernel/scheduler.cpp, the fork/exit/yield/read/waitpid system calls of  *)
(* kernel/syscall.cpp, the interrupt dispatcher of kernel/idt.cpp and the  *)
(* two kernel threads of kernel/main.cpp that steer them.                  *)
(*                                                                         *)
(* There is one CPU.  System calls and interrupt handlers run with         *)
(* interrupts off and are therefore one step, except where they call       *)
(* schedule(): there the rest of the call becomes a step of its own, taken *)
(* when the thread is dispatched again (pc "read", "wait").  Kernel        *)
(* threads and user code run with interrupts on, so an IRQ may fall        *)
(* between any two of their steps; pc cuts the GUI thread's blocking       *)
(* sequence where such an IRQ makes a difference.                          *)
(*                                                                         *)
(* A thread control block (TCB) is named by its thread id.  heap records   *)
(* what kmalloc and kfree have made of the block.                          *)
(***************************************************************************)
EXTENDS Integers, FiniteSets, SequencesExt

CONSTANTS Boot,         \* processes that exist when interrupts are enabled
          MaxTid,       \* bound: the largest thread id fork may hand out
          AnyPid        \* TRUE: processes wait for any pid, as the code lets
                        \* them; FALSE: only for children they forked

ASSUME BootAssumption == Boot \in Nat \ {0} /\ MaxTid \in Nat /\ MaxTid > Boot
ASSUME FlagAssumption == AnyPid \in BOOLEAN

Tids   == 0 .. MaxTid
Main   == 0              \* the boot thread
Gui    == Boot + 1       \* the compositor thread, created last
Nobody == -1             \* a null Thread pointer
NoPid  == 0              \* waiting_for_pid of a thread that waits for nobody

VARIABLES
  current,   \* current_thread
  runq,      \* run_queue_head ... run_queue_tail
  st,        \* Thread::state, "unborn" before the TCB exists
  heap,      \* the TCB and its kernel stack as the allocator sees them
  all,       \* the threads linked from all_threads_head
  parent,    \* Thread::parent_id
  wfp,       \* Thread::waiting_for_pid
  toFree,    \* thread_to_free and stack_to_free, always set together
  nextId,    \* next_thread_id
  pc,        \* where a thread resumes when it is dispatched
  waitArg,   \* the pid argument of a waitpid in progress
  guiPtr,    \* gui_thread_ptr
  alarm,     \* gui_thread_wake_tsc: "none" is 0, "due" is a TSC value passed
  complete,  \* gui_demo_complete
  halted     \* the CPU is in a hlt loop with interrupts off

vars == <<current, runq, st, heap, all, parent, wfp, toFree, nextId, pc,
          waitArg, guiPtr, alarm, complete, halted>>

States   == {"unborn", "runnable", "running", "blocked", "terminated"}
Ready    == {"runnable", "running"}
Alive    == Ready \cup {"blocked"}
HeapView == {"unborn", "live", "freed", "corrupt"}

\* Resume points at which the CPU has interrupts enabled (main and GUI code,
\* user mode), and those inside a system call, where it has not.
GuiPcs     == {"start", "leave", "poll", "armed", "asleep"}
OpenPcs    == {"main", "user"} \cup GuiPcs
SyscallPcs == {"read", "wait"}

-----------------------------------------------------------------------------
(* The run queue and the global list.                                      *)

\* Seeded fault: the tail of the queue instead of the head.
TailFirst(q) == Len(q)

\* dequeue() takes the first PRIORITY_HIGH thread, else the head.  Only the
\* registered GUI thread has that priority.
DequeueIndex(q) ==
  IF \E i \in DOMAIN q : q[i] = guiPtr
    THEN CHOOSE i \in DOMAIN q :
           q[i] = guiPtr /\ \A j \in DOMAIN q : q[j] = guiPtr => i <= j
    ELSE 1

\* all_threads is a stack of threads in the order of their ids, so a scan of
\* it meets the newest first.  The set of such scans of S has one member.
NewestFirst(S) ==
  { w \in [1 .. Cardinality(S) -> S] :
      ToSet(w) = S /\ \A i, j \in DOMAIN w : i < j => w[i] > w[j] }

\* kfree of the stack and delete of the TCB of every thread in T.
Free(h, T) ==
  [t \in Tids |-> IF t \notin T THEN h[t]
                  ELSE IF h[t] = "live" THEN "freed" ELSE "corrupt"]

\* What schedule() and thread_exit() release on entry.
Reclaimed == IF toFree = Nobody THEN {} ELSE {toFree}

-----------------------------------------------------------------------------
(* schedule(), entered with thread states s and run queue q.               *)

Schedule(s, q) ==
  LET running == s[current] = "running"
      s1 == IF running THEN [s EXCEPT ![current] = "runnable"] ELSE s
      q1 == IF running THEN Append(q, current) ELSE q
      i  == DequeueIndex(q1)
  IN  /\ heap' = Free(heap, Reclaimed)
      /\ toFree' = Nobody
      /\ IF q1 = << >>
           THEN /\ st' = [s1 EXCEPT ![current] =
                            IF s1[current] = "runnable" THEN "running" ELSE @]
                /\ UNCHANGED current
                /\ runq' = q1
           ELSE /\ st' = [s1 EXCEPT ![q1[i]] = "running"]
                /\ current' = q1[i]
                /\ runq' = RemoveAt(q1, i)

-----------------------------------------------------------------------------
(* Interrupts.                                                             *)

InterruptsOn == ~halted /\ pc[current] \in OpenPcs

GuiSleeping == guiPtr # Nobody /\ st[guiPtr] = "blocked"

\* Seeded fault: the wake-up marks the thread and does not queue it.
WakeNoEnqueue ==
  Schedule(IF GuiSleeping THEN [st EXCEPT ![guiPtr] = "runnable"] ELSE st, runq)

\* scheduler_wake_gui_thread(), followed by schedule().
WakeGuiAndSchedule ==
  IF GuiSleeping
    THEN Schedule([st EXCEPT ![guiPtr] = "runnable"], Append(runq, guiPtr))
    ELSE Schedule(st, runq)

\* Vector 32: fire the GUI deadline if it has passed, then preempt.
TimerIrq ==
  /\ InterruptsOn
  /\ IF alarm = "due"
       THEN alarm' = "none" /\ WakeGuiAndSchedule
       ELSE UNCHANGED alarm /\ Schedule(st, runq)
  /\ UNCHANGED <<all, parent, wfp, nextId, pc, waitArg, guiPtr, complete, halted>>

\* Vectors 33 and 44: keyboard and mouse wake the GUI thread and preempt.
InputIrq ==
  /\ InterruptsOn
  /\ WakeGuiAndSchedule
  /\ UNCHANGED <<all, parent, wfp, nextId, pc, waitArg, guiPtr, alarm,
                 complete, halted>>

\* The time stamp counter reaches the armed deadline.
Tick ==
  /\ ~halted
  /\ alarm = "armed"
  /\ alarm' = "due"
  /\ UNCHANGED <<current, runq, st, heap, all, parent, wfp, toFree, nextId,
                 pc, waitArg, guiPtr, complete, halted>>

-----------------------------------------------------------------------------
(* The boot thread: yield until the demo is complete, then fault.          *)

MainYield ==
  /\ ~halted
  /\ pc[current] = "main"
  /\ ~complete
  /\ Schedule(st, runq)
  /\ UNCHANGED <<all, parent, wfp, nextId, pc, waitArg, guiPtr, alarm,
                 complete, halted>>

MainHalt ==
  /\ ~halted
  /\ pc[current] = "main"
  /\ complete
  /\ halted' = TRUE
  /\ UNCHANGED <<current, runq, st, heap, all, parent, wfp, toFree, nextId,
                 pc, waitArg, guiPtr, alarm, complete>>

HltLoop == halted /\ UNCHANGED vars

-----------------------------------------------------------------------------
(* The GUI thread.  It polls input and draws while at "poll".              *)

GuiAt(p) == ~halted /\ current = Gui /\ pc[Gui] = p

GuiOnly(from, to) ==
  /\ GuiAt(from)
  /\ pc' = [pc EXCEPT ![Gui] = to]
  /\ UNCHANGED <<all, parent, wfp, nextId, waitArg, halted>>

\* Register as the high-priority thread; return from the thread function if
\* there is no framebuffer.
GuiStart ==
  /\ \E to \in {"poll", "leave"} : GuiOnly("start", to)
  /\ guiPtr' = Gui
  /\ UNCHANGED <<current, runq, st, heap, toFree, alarm, complete>>

\* 'q' was typed.
GuiQuit ==
  /\ GuiOnly("poll", "poll")
  /\ complete' = TRUE
  /\ UNCHANGED <<current, runq, st, heap, toFree, guiPtr, alarm>>

\* "Restart" or "Shut Down" was chosen from the menu: cli; hlt.
GuiShutdown ==
  /\ GuiAt("poll")
  /\ halted' = TRUE
  /\ UNCHANGED <<current, runq, st, heap, all, parent, wfp, toFree, nextId,
                 pc, waitArg, guiPtr, alarm, complete>>

\* No input pending and the next frame lies ahead: arm the deadline,
GuiArm ==
  /\ GuiOnly("poll", "armed")
  /\ alarm' = "armed"
  /\ UNCHANGED <<current, runq, st, heap, toFree, guiPtr, complete>>

\* declare itself blocked,
GuiBlock ==
  /\ GuiOnly("armed", "asleep")
  /\ st' = [st EXCEPT ![Gui] = "blocked"]
  /\ UNCHANGED <<current, runq, heap, toFree, guiPtr, alarm, complete>>

\* and give the CPU away; when schedule() returns it polls again.
GuiSleep ==
  /\ GuiOnly("asleep", "poll")
  /\ Schedule(st, runq)
  /\ UNCHANGED <<guiPtr, alarm, complete>>

-----------------------------------------------------------------------------
(* System calls of processes.  A process at "user" runs its own code.      *)

InUser(t) == ~halted /\ current = t /\ pc[t] = "user"

SysYield(t) ==
  /\ InUser(t)
  /\ Schedule(st, runq)
  /\ UNCHANGED <<all, parent, wfp, nextId, pc, waitArg, guiPtr, alarm,
                 complete, halted>>

\* read(0, ...): poll the keyboard and the serial line, and schedule() as long
\* as neither has a character.
SysReadWait(t) ==
  /\ ~halted /\ current = t /\ pc[t] \in {"user", "read"}
  /\ pc' = [pc EXCEPT ![t] = "read"]
  /\ Schedule(st, runq)
  /\ UNCHANGED <<all, parent, wfp, nextId, waitArg, guiPtr, alarm, complete,
                 halted>>

SysReadDone(t) ==
  /\ ~halted /\ current = t /\ pc[t] = "read"
  /\ pc' = [pc EXCEPT ![t] = "user"]
  /\ UNCHANGED <<current, runq, st, heap, all, parent, wfp, toFree, nextId,
                 waitArg, guiPtr, alarm, complete, halted>>

\* fork: a new TCB, registered in all_threads and queued.
SysFork(t) ==
  /\ InUser(t)
  /\ nextId <= MaxTid
  /\ nextId' = nextId + 1
  /\ st' = [st EXCEPT ![nextId] = "runnable"]
  /\ heap' = [heap EXCEPT ![nextId] = "live"]
  /\ parent' = [parent EXCEPT ![nextId] = t]
  /\ wfp' = [wfp EXCEPT ![nextId] = NoPid]
  /\ pc' = [pc EXCEPT ![nextId] = "user"]
  /\ all' = all \cup {nextId}
  /\ runq' = Append(runq, nextId)
  /\ UNCHANGED <<current, toFree, waitArg, guiPtr, alarm, complete, halted>>

\* Seeded faults: exit wakes every blocked thread; exit wakes nobody.
AllBlocked == {x \in all : st[x] = "blocked"}
NoWaiters  == {}

\* The threads thread_exit() wakes, the children it hands to the boot thread,
\* and the dead ones among those, which it reaps.
Waiters == {x \in all : st[x] = "blocked" /\ wfp[x] = current}
Orphans == {x \in all : parent[x] = current}

\* Seeded faults: reap orphans whatever their state; never reap one.
AllOrphans == Orphans
NoOrphans  == {}

Zombies == {x \in Orphans : st[x] = "terminated"}

\* Seeded fault: orphans are left with a null parent.
NullParent == Nobody

Adopter == Main

\* Seeded fault: an exiting thread is parked even if its parent will reap it.
AlwaysParked == current

\* A detached thread is parked for the next schedule() to free; any other
\* stays as a zombie.
Parked == IF parent[current] = Main THEN current ELSE Nobody

\* thread_exit() of the current thread.
ThreadExit ==
  LET s1 == [x \in Tids |-> IF x = current THEN "terminated"
                            ELSE IF x \in Waiters THEN "runnable" ELSE st[x]]
  IN  \E woken \in NewestFirst(Waiters) :
        LET q1 == runq \o woken
            i  == DequeueIndex(q1)
        IN  /\ heap' = Free(Free(heap, Reclaimed), Zombies)
            /\ all' = all \ Zombies
            /\ parent' = [x \in Tids |-> IF x \in Orphans THEN Adopter ELSE parent[x]]
            /\ wfp' = [x \in Tids |-> IF x \in Waiters THEN NoPid ELSE wfp[x]]
            /\ IF q1 = << >>
                 THEN /\ halted' = TRUE
                      /\ st' = s1
                      /\ runq' = q1
                      /\ toFree' = Nobody
                      /\ UNCHANGED current
                 ELSE /\ st' = [s1 EXCEPT ![q1[i]] = "running"]
                      /\ current' = q1[i]
                      /\ runq' = RemoveAt(q1, i)
                      /\ toFree' = Parked
                      /\ UNCHANGED halted
            /\ UNCHANGED <<nextId, pc, waitArg, guiPtr, alarm, complete>>

SysExit(t) == InUser(t) /\ ThreadExit

GuiLeave == GuiAt("leave") /\ ThreadExit

\* scheduler_waitpid(): a pid that is not listed is -ECHILD; a zombie is reaped
\* at once; otherwise the caller blocks until the thread exits.
MayWaitFor(t, p) == AnyPid \/ parent[p] = t

Reap(p) ==
  /\ all' = all \ {p}
  /\ heap' = Free(heap, {p})

SysWaitReap(t, p) ==
  /\ InUser(t)
  /\ p \in all /\ MayWaitFor(t, p)
  /\ st[p] = "terminated"
  /\ Reap(p)
  /\ UNCHANGED <<current, runq, st, parent, wfp, toFree, nextId, pc, waitArg,
                 guiPtr, alarm, complete, halted>>

SysWaitBlock(t, p) ==
  /\ InUser(t)
  /\ p \in all /\ MayWaitFor(t, p)
  /\ st[p] # "terminated"
  /\ wfp' = [wfp EXCEPT ![t] = p]
  /\ waitArg' = [waitArg EXCEPT ![t] = p]
  /\ pc' = [pc EXCEPT ![t] = "wait"]
  /\ Schedule([st EXCEPT ![t] = "blocked"], runq)
  /\ UNCHANGED <<all, parent, nextId, guiPtr, alarm, complete, halted>>

\* The rest of waitpid once the thread has been woken and dispatched.
SysWaitWoken(t) ==
  LET p == waitArg[t]
  IN  /\ ~halted /\ current = t /\ pc[t] = "wait"
      /\ IF p \in all /\ st[p] = "terminated"
           THEN Reap(p)
           ELSE UNCHANGED <<all, heap>>
      /\ pc' = [pc EXCEPT ![t] = "user"]
      /\ UNCHANGED <<current, runq, st, parent, wfp, toFree, nextId, waitArg,
                     guiPtr, alarm, complete, halted>>

-----------------------------------------------------------------------------
(* The state in which main() has created its threads and executes sti.     *)

BootTids == 0 .. Gui

Init ==
  /\ current = Main
  /\ runq = [i \in 1 .. Gui |-> i]
  /\ st = [t \in Tids |-> IF t = Main THEN "running"
                          ELSE IF t \in BootTids THEN "runnable" ELSE "unborn"]
  /\ heap = [t \in Tids |-> IF t \in BootTids THEN "live" ELSE "unborn"]
  /\ all = BootTids
  /\ parent = [t \in Tids |-> Main]
  /\ wfp = [t \in Tids |-> NoPid]
  /\ toFree = Nobody
  /\ nextId = Gui + 1
  /\ pc = [t \in Tids |-> IF t = Main THEN "main"
                          ELSE IF t = Gui THEN "start" ELSE "user"]
  /\ waitArg = [t \in Tids |-> NoPid]
  /\ guiPtr = Nobody
  /\ alarm = "none"
  /\ complete = FALSE
  /\ halted = FALSE

GuiStep == GuiStart \/ GuiQuit \/ GuiShutdown \/ GuiArm \/ GuiBlock \/ GuiSleep \/ GuiLeave

Syscall(t) ==
  \/ SysYield(t) \/ SysReadWait(t) \/ SysReadDone(t) \/ SysFork(t) \/ SysExit(t)
  \/ SysWaitWoken(t)
  \/ \E p \in Tids : SysWaitReap(t, p) \/ SysWaitBlock(t, p)

Next ==
  \/ TimerIrq \/ InputIrq \/ Tick
  \/ MainYield \/ MainHalt \/ HltLoop
  \/ GuiStep
  \/ \E t \in Tids : Syscall(t)

Spec == Init /\ [][Next]_vars

\* The timer is periodic and latched by the local APIC, so it is delivered
\* whenever interrupts keep coming on; time passes; code that holds the CPU
\* with interrupts off, and the GUI thread's straight-line code, runs on.  A
\* frame is drawn in less than a frame period often enough that the GUI thread
\* goes to sleep again and again, and input IRQs do not hit the few instructions
\* between GuiBlock and GuiSleep every time.  Nothing is assumed of user code.
Fairness ==
  /\ SF_vars(TimerIrq)
  /\ WF_vars(Tick)
  /\ WF_vars(\E t \in Tids : pc[t] \in SyscallPcs /\
               (SysReadWait(t) \/ SysReadDone(t) \/ SysWaitWoken(t)))
  /\ WF_vars(GuiStart \/ GuiBlock \/ GuiSleep \/ GuiLeave)
  /\ SF_vars(GuiArm)
  /\ SF_vars(GuiSleep /\ st[Gui] = "blocked")

FairSpec == Spec /\ Fairness

-----------------------------------------------------------------------------
(* Safety.                                                                 *)

\* The values every variable ranges over.
TypeOK ==
  /\ current \in Tids
  /\ runq \in Seq(Tids)
  /\ st \in [Tids -> States]
  /\ heap \in [Tids -> HeapView]
  /\ all \subseteq Tids
  /\ parent \in [Tids -> Tids]
  /\ wfp \in [Tids -> Tids]
  /\ toFree \in Tids \cup {Nobody}
  /\ nextId \in Gui + 1 .. MaxTid + 1
  /\ pc \in [Tids -> OpenPcs \cup SyscallPcs]
  /\ waitArg \in [Tids -> Tids]
  /\ guiPtr \in {Nobody, Gui}
  /\ alarm \in {"none", "armed", "due"}
  /\ complete \in BOOLEAN
  /\ halted \in BOOLEAN

\* The run queue holds every RUNNABLE thread exactly once and nothing else.
\* schedule(), thread_exit(), fork and the interrupt-side wake-up all append to
\* it; the window is a GUI thread that is woken by an IRQ after it set its
\* state to BLOCKED and before it called schedule().
RunQueueExact ==
  /\ \A i, j \in DOMAIN runq : runq[i] = runq[j] => i = j
  /\ \A t \in Tids : st[t] = "runnable" <=> \E i \in DOMAIN runq : runq[i] = t

\* At most one thread is RUNNING, and it is current_thread.  current_thread is
\* RUNNING, or it is the GUI thread on its way into schedule().  In particular
\* schedule() never returns to a caller that has blocked: a waitpid that fell
\* through the "no other runnable threads" path would go on as BLOCKED.
CpuOwner ==
  /\ \A t \in Tids : st[t] = "running" => t = current
  /\ \/ st[current] = "running"
     \/ current = Gui /\ st[Gui] = "blocked" /\ pc[Gui] = "asleep"

\* Queue, CPU and thread states agree: a thread that is ready is waiting for the
\* CPU or owns it, never both, and no other thread does either.
QueueAndCpu == RunQueueExact /\ CpuOwner

\* A thread that owns the CPU, waits for it or can still be woken has not had
\* its stack and TCB freed.
SchedulableIsLive ==
  \A t \in Tids : st[t] \in Alive => heap[t] = "live"

\* The TCB and stack parked for schedule() to free belong to a thread that has
\* ended, that does not own the CPU, and that nobody has freed before.
DeferredFreeIsSafe ==
  toFree # Nobody =>
    toFree # current /\ st[toFree] = "terminated" /\ heap[toFree] = "live"

\* No stack and no TCB is freed twice ("reclaim its resources",
\* scheduler.hpp:53; "reclaim its TCB", scheduler.hpp:59).
NoDoubleFree == \A t \in Tids : heap[t] # "corrupt"

\* The reaper in schedule(), waitpid and the reaping of orphans never free what
\* another of them frees, or what still runs.
FreesSafe == DeferredFreeIsSafe /\ NoDoubleFree

\* A thread blocked in waitpid waits for a listed thread that has yet to exit:
\* the wake-up cannot have been missed.
WaitTargetPending ==
  \A t \in Tids : st[t] = "blocked" /\ wfp[t] # NoPid =>
    wfp[t] \in all /\ st[wfp[t]] \in Alive

\* "After waking up, the child is guaranteed to be terminated!"
\* (scheduler.cpp:492) - and is still there to be reaped.
WokenFindsZombie ==
  \A t \in Tids : pc[t] = "wait" /\ st[t] \in Ready =>
    /\ waitArg[t] \in all
    /\ st[waitArg[t]] = "terminated"
    /\ heap[waitArg[t]] = "live"

\* A zombie that is not parked for schedule() to free has a live parent that
\* can still reap it, so no TCB is lost when parents exit first.
ZombieHasParent ==
  \A t \in Tids :
    st[t] = "terminated" /\ heap[t] = "live" /\ t # toFree =>
      /\ t \in all
      /\ parent[t] # Main
      /\ st[parent[t]] \in Alive

\* A zombie meets its parent: it is there when the waiter it woke comes back,
\* and while nobody waits for it somebody still can.
ZombiesKept == WokenFindsZombie /\ ZombieHasParent

\* What the proofs need beyond these: the boot thread can always run, so a
\* switch always finds a thread; resume points and waitpid belong to the
\* right threads; ids at or above next_thread_id are unused; every thread
\* that has not ended is listed; only an ended thread is parked to be freed.
Supporting ==
  /\ st[Main] \in Ready
  /\ \A t \in Tids : (pc[t] = "main" <=> t = Main) /\ (pc[t] \in GuiPcs <=> t = Gui)
  /\ wfp[Gui] = NoPid
  /\ \A t \in Tids : st[t] = "unborn" <=> t >= nextId
  /\ \A t \in Tids : st[t] \in Alive => t \in all
  /\ \A t \in all : st[t] # "unborn"
  /\ toFree # Nobody => st[toFree] = "terminated"

\* The inductive invariant.
IInv ==
  TypeOK /\ RunQueueExact /\ CpuOwner /\ SchedulableIsLive /\ WaitTargetPending
    /\ Supporting

\* Who will free a dead thread, as long as processes wait only for their own
\* children: nothing is freed twice; the parked thread is detached and not freed
\* yet; the parent of a listed thread is another thread, and can still run; a
\* zombie with such a parent is whole, and one without is parked; a thread in
\* waitpid still has its child, and comes back only when the child has ended.
Custody ==
  /\ NoDoubleFree
  /\ toFree # Nobody => heap[toFree] = "live" /\ parent[toFree] = Main
  /\ \A t \in all : st[parent[t]] \in Alive
  /\ \A t \in Tids \ {Main} : parent[t] # t
  /\ \A t \in all : st[t] = "terminated" /\ parent[t] # Main => heap[t] = "live"
  /\ \A t \in Tids : st[t] = "terminated" /\ heap[t] = "live" =>
       t = toFree \/ (t \in all /\ parent[t] # Main)
  /\ \A t \in Tids : pc[t] = "wait" =>
       /\ waitArg[t] \in all /\ parent[waitArg[t]] = t
       /\ IF st[t] = "blocked" THEN wfp[t] = waitArg[t]
                              ELSE st[waitArg[t]] = "terminated"

-----------------------------------------------------------------------------
(* Liveness.                                                               *)

\* Round-robin under one high-priority thread: every runnable thread gets the
\* CPU.
RunnableRuns ==
  \A t \in Tids : st[t] = "runnable" ~> st[t] = "running" \/ halted

\* A parent whose child has exited comes back from waitpid.
WaiterReturns ==
  \A t, c \in Tids :
    pc[t] = "wait" /\ waitArg[t] = c /\ st[c] = "terminated"
      ~> pc[t] = "user" \/ halted

\* "Block until the next frame deadline or until mouse/keyboard input is
\* received" (main.cpp:547): without input, the deadline ends the sleep.
GuiWakesUp == st[Gui] = "blocked" ~> st[Gui] # "blocked" \/ halted

=============================================================================
