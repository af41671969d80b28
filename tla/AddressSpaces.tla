--------------------------- MODULE AddressSpaces ---------------------------
(***************************************************************************)
(* Physical frames and who points at them: the user address spaces of      *)
(* kernel/vmm.cpp, the frame pool of kernel/pmm.cpp as its callers see it, *)
(* and the system calls that build and share address spaces: fork, execve  *)
(* (with elf_load of kernel/elf.cpp), shm_get, shm_at, and the reaping of  *)
(* a thread's kernel stack.                                                *)
(*                                                                         *)
(* A system call runs with interrupts off, so no two overlap; its loops    *)
(* are cut into one step per frame taken or given back, with op, caller,   *)
(* child, todo, seg and idx as the local variables of the call.            *)
(*                                                                         *)
(* A place is a pointer to a frame that some kernel structure holds; at    *)
(* gives the frame each place points at.                                   *)
(***************************************************************************)
EXTENDS Integers, Sequences

CONSTANTS
  Frames,      \* the physical frames of the pool
  MaxPid,      \* bound: processes are 1 .. MaxPid, process 1 exists at boot
  Pages,       \* user pages, in address order
  Slots,       \* table entries below the first PDPT, see Walk
  Walk,        \* the entries on the way to a page that need a table each
  Image,       \* the pages execve maps: the segments and the stack
  StackPage,   \* the first page of the stack
  Segs,        \* indices of shm_segments
  Keys,        \* keys processes pass to shm_get
  MaxLen,      \* bound: pages of a segment
  BootLayout,  \* the frames in use when system calls begin
  BootPools    \* the frame lists the memory map may leave at that time

None == 0      \* a null physical address

Procs  == 1 .. MaxPid
Boot   == 0             \* the address space the boot processes share
New    == -1            \* the address space elf_load is building
NoKey  == -1            \* the key of a segment whose ref_count is 0
Spaces == {New, Boot} \cup Procs

\* A space's PML4 and its PDPT for the low 512 GB, the tables below them, its
\* pages; the frames of a segment and of a kernel stack; the frame a loop has
\* just taken.
Root(s)    == <<"root", s, 0>>
Low(s)     == <<"low", s, 0>>
Tab(s, x)  == <<"tab", s, x>>
Page(s, v) == <<"page", s, v>>
Shm(g, i)  == <<"shm", g, i>>
Stk(p, i)  == <<"stk", p, i>>
Tmp        == <<"tmp", 0, 0>>

PagePlaces == {Page(s, v) : s \in Spaces, v \in Pages}
ShmPlaces  == {Shm(g, i) : g \in Segs, i \in 1 .. MaxLen}
SpacePlaces(s) ==
  {Root(s), Low(s)} \cup {Tab(s, x) : x \in Slots} \cup {Page(s, v) : v \in Pages}
Places ==
  (UNION {SpacePlaces(s) : s \in Spaces}) \cup ShmPlaces
    \cup {Stk(p, i) : p \in Procs, i \in 1 .. 2} \cup {Tmp}

Distinct(q) == \A i, j \in DOMAIN q : q[i] = q[j] => i = j

ASSUME NumbersAssumption ==
  /\ Frames \subseteq Nat \ {None}
  /\ MaxPid \in Nat \ {0} /\ MaxLen \in Nat
  /\ Pages \subseteq Nat /\ Image \subseteq Pages
  /\ Walk \in [Pages -> Seq(Slots)]
  /\ NoKey \notin Keys
ASSUME BootAssumption ==
  /\ BootLayout \in [Places -> Frames \cup {None}]
  /\ \A a, b \in Places :
       BootLayout[a] = BootLayout[b] /\ BootLayout[a] # None => a = b
  /\ \A q \in BootPools :
       /\ q \in Seq(Frames) /\ Distinct(q)
       /\ \A i \in DOMAIN q, a \in Places : BootLayout[a] # q[i]
  /\ \A a \in ShmPlaces \cup {Tmp} : BootLayout[a] = None
  /\ \A i \in 1 .. 2 : BootLayout[Stk(1, i)] # None
  /\ \A s \in Spaces \ {Boot} : \A a \in SpacePlaces(s) : BootLayout[a] = None
  /\ \A p \in Procs \ {1}, i \in 1 .. 2 : BootLayout[Stk(p, i)] = None

VARIABLES
  free,     \* the list from free_list_head on
  at,       \* the frame each place points at
  life,     \* "unborn", "alive", "zombie" or "gone"
  spaceOf,  \* Thread::pml4_phys, as the space it is the root of
  segKey,   \* shm_segments[g].key, or NoKey while ref_count is 0
  segLen,   \* shm_segments[g].page_count
  op, caller, child, todo, seg, idx,  \* the call in progress
  short,    \* it met an empty frame list
  fault     \* the kernel has stopped: "gp", or has overwritten page 0: "page0"

job  == <<op, caller, child, todo, seg, idx, short>>
procs == <<life, spaceOf>>
segs == <<segKey, segLen>>
vars == <<free, at, procs, segs, job, fault>>

Lives == {"unborn", "alive", "zombie", "gone"}
Ops   == {"idle", "fork", "exec", "shmget", "shmundo", "shmat", "reap"}

-----------------------------------------------------------------------------
(* The frame list.                                                         *)

\* Seeded fault: the list head does not move.
TakeKeep(a) ==
  /\ free # << >>
  /\ at' = [at EXCEPT ![a] = Head(free)]
  /\ UNCHANGED free

\* pmm_alloc_frame() into place a.
Take(a) ==
  /\ free # << >>
  /\ at' = [at EXCEPT ![a] = Head(free)]
  /\ free' = Tail(free)

\* Seeded fault: the frame is taken for unaligned and ignored.
GiveIgnore(a) == at' = [at EXCEPT ![a] = None] /\ UNCHANGED free

\* pmm_free_frame() of the frame at place a.
Give(a) ==
  /\ free' = <<at[a]>> \o free
  /\ at' = [at EXCEPT ![a] = None]

-----------------------------------------------------------------------------
(* System calls, between two steps of each other.                          *)

Running(o) == fault = "none" /\ op = o

Begin(o, p, c, pages, g) ==
  /\ op' = o /\ caller' = p /\ child' = c /\ todo' = pages /\ seg' = g
  /\ idx' = 0 /\ short' = FALSE

Return ==
  /\ op' = "idle"
  /\ UNCHANGED <<caller, child, todo, seg, idx, short>>

Mapped(s) == {v \in Pages : at[Page(s, v)] # None}

\* Seeded fault: only the low 512 GB are cloned.
ClonedLow(s) == Mapped(s) \ {StackPage}

\* The pages vmm_clone_user_space() visits.
Cloned(s) == Mapped(s)

\* The space the loops of fork, execve and shm_at map pages into.
Target == IF op = "fork" THEN child ELSE IF op = "exec" THEN New ELSE spaceOf[caller]

\* The next page of the loop, and the frame it is to be mapped to.
IsNext(v) == v \in todo /\ \A w \in todo : v <= w
Source    == IF op = "shmat" THEN Shm(seg, idx + 1) ELSE Tmp

\* fork and execve have a PDPT; a page waits to be mapped; the first entry on
\* the way to it that lacks a table.
Building     == fault = "none" /\ op \in {"fork", "exec"} /\ at[Low(Target)] # None
Pending      == \/ Building /\ todo # {} /\ at[Tmp] # None
                \/ Running("shmat") /\ todo # {}
Missing(v)   == {i \in DOMAIN Walk[v] : at[Tab(Target, Walk[v][i])] = None}
FirstMissing(v, i) == i \in Missing(v) /\ \A j \in Missing(v) : i <= j

\* vmm_create_user_address_space(): a PML4 ...
ForkBegin(p, c) ==
  /\ Running("idle")
  /\ life[p] = "alive" /\ life[c] = "unborn"
  /\ \A q \in Procs : q < c => life[q] # "unborn"
  /\ Take(Root(c))
  /\ Begin("fork", p, c, Cloned(spaceOf[p]), 0)
  /\ UNCHANGED <<procs, segs, fault>>

ExecBegin(p) ==
  /\ Running("idle")
  /\ life[p] = "alive"
  /\ Take(Root(New))
  /\ Begin("exec", p, 0, Image, 0)
  /\ UNCHANGED <<procs, segs, fault>>

\* ... and a PDPT for the copied identity mappings, which is not checked: with
\* no frame left, physical page 0 is zeroed and used.
LowTable ==
  /\ fault = "none" /\ op \in {"fork", "exec"} /\ at[Low(Target)] = None
  /\ IF free = << >>
       THEN fault' = "page0" /\ UNCHANGED <<free, at>>
       ELSE Take(Low(Target)) /\ UNCHANGED fault
  /\ UNCHANGED <<procs, segs, job>>

\* elf_load() gives up through vmm_destroy_user_address_space(), which passes
\* phys_to_virt pointers to pmm_free_frame(): a general protection fault at the
\* first page directory.
Destroy == fault' = "gp"

\* Skip the page at hand: fork copies what it can and says nothing.
Skip(v) == todo' = todo \ {v} /\ short' = TRUE /\ UNCHANGED <<op, caller, child, seg, idx>>

\* A frame for the next page.
PageFrame ==
  /\ Building /\ at[Tmp] = None
  /\ \E v \in Pages :
       /\ IsNext(v)
       /\ \/ /\ Take(Tmp)
             /\ UNCHANGED <<job, fault>>
          \/ /\ free = << >> /\ op = "fork"
             /\ Skip(v)
             /\ UNCHANGED <<free, at, fault>>
          \/ /\ free = << >> /\ op = "exec"
             /\ Destroy
             /\ UNCHANGED <<free, at, job>>
  /\ UNCHANGED <<procs, segs>>

\* vmm_map_page_in_pml4(): a table on the way.  When it fails, fork has lost the
\* page's frame, elf_load frees it and gives up, shm_at stops half-way.
Table ==
  /\ Pending
  /\ \E v \in Pages : \E i \in DOMAIN Walk[v] :
       /\ IsNext(v)
       /\ FirstMissing(v, i)
       /\ \/ /\ Take(Tab(Target, Walk[v][i]))
             /\ UNCHANGED <<job, fault>>
          \/ /\ free = << >> /\ op = "fork"
             /\ at' = [at EXCEPT ![Tmp] = None]
             /\ Skip(v)
             /\ UNCHANGED <<free, fault>>
          \/ /\ free = << >> /\ op = "exec"
             /\ Give(Tmp)
             /\ Destroy
             /\ UNCHANGED job
          \/ /\ free = << >> /\ op = "shmat"
             /\ Return
             /\ UNCHANGED <<free, at, fault>>
  /\ UNCHANGED <<procs, segs>>

\* The entry itself.  It may overwrite one that is present.
MapPage ==
  /\ Pending
  /\ \E v \in Pages :
       /\ IsNext(v)
       /\ Missing(v) = {}
       /\ at' = [at EXCEPT ![Page(Target, v)] = at[Source], ![Tmp] = None]
       /\ todo' = todo \ {v}
  /\ idx' = IF op = "shmat" THEN idx + 1 ELSE idx
  /\ UNCHANGED <<free, procs, segs, op, caller, child, seg, short, fault>>

\* A program header that cannot be read: the stack comes after the segments.
BadHeader ==
  /\ Building /\ op = "exec" /\ at[Tmp] = None /\ at[Page(New, StackPage)] = None
  /\ Destroy
  /\ UNCHANGED <<free, at, procs, segs, job>>

\* fork: the child's kernel stack, two frames of kmalloc(4096); without it the
\* new address space is destroyed.
ForkStack ==
  /\ Building /\ op = "fork" /\ todo = {} /\ idx < 2
  /\ \/ /\ Take(Stk(child, idx + 1))
        /\ idx' = idx + 1
        /\ UNCHANGED <<fault, op, caller, child, todo, seg, short>>
     \/ /\ free = << >>
        /\ Destroy
        /\ UNCHANGED <<free, at, job>>
  /\ UNCHANGED <<procs, segs>>

ForkDone ==
  /\ Building /\ op = "fork" /\ todo = {} /\ idx = 2
  /\ life' = [life EXCEPT ![child] = "alive"]
  /\ spaceOf' = [spaceOf EXCEPT ![child] = child]
  /\ Return
  /\ UNCHANGED <<free, at, segs, fault>>

\* execve: the thread switches to the space elf_load built.  Nobody keeps a
\* pointer to the old one.
Relocate(p, a) ==
  IF a \in SpacePlaces(New) THEN None
  ELSE IF a \in SpacePlaces(p) THEN at[<<a[1], New, a[3]>>]
  ELSE at[a]

ExecDone ==
  /\ Building /\ op = "exec" /\ todo = {}
  /\ at' = [a \in Places |-> Relocate(caller, a)]
  /\ spaceOf' = [spaceOf EXCEPT ![caller] = caller]
  /\ Return
  /\ UNCHANGED <<free, life, segs, fault>>

-----------------------------------------------------------------------------
(* Shared memory.                                                          *)

\* shm_get() of a key nobody has: the first unused segment.
ShmGet(p, k, n) ==
  /\ Running("idle")
  /\ life[p] = "alive"
  /\ \A g \in Segs : segKey[g] # k
  /\ \E g \in Segs :
       /\ segKey[g] = NoKey /\ \A h \in Segs : h < g => segKey[h] # NoKey
       /\ segKey' = [segKey EXCEPT ![g] = k]
       /\ segLen' = [segLen EXCEPT ![g] = n]
       /\ Begin("shmget", p, 0, {}, g)
  /\ UNCHANGED <<free, at, procs, fault>>

ShmFrame ==
  /\ Running("shmget") /\ idx < segLen[seg]
  /\ \/ /\ Take(Shm(seg, idx + 1))
        /\ idx' = idx + 1
        /\ UNCHANGED <<op, caller, child, todo, seg, short>>
     \/ /\ free = << >>
        /\ op' = "shmundo"
        /\ UNCHANGED <<free, at, caller, child, todo, seg, idx, short>>
  /\ UNCHANGED <<procs, segs, fault>>

\* Seeded fault: the roll-back does not advance.
TakenAll == 1 .. idx

\* The frames the roll-back of a shm_get has still to free.
Taken == {i \in 1 .. idx : at[Shm(seg, i)] # None}

ShmUndo ==
  /\ Running("shmundo")
  /\ \E i \in Taken : (\A j \in Taken : i <= j) /\ Give(Shm(seg, i))
  /\ UNCHANGED <<procs, segs, job, fault>>

\* Seeded fault: the segment stays in the table.
ShmFailedKeeps ==
  /\ Running("shmundo")
  /\ Taken = {}
  /\ Return
  /\ UNCHANGED <<free, at, procs, segs, fault>>

ShmFailed ==
  /\ Running("shmundo")
  /\ Taken = {}
  /\ segKey' = [segKey EXCEPT ![seg] = NoKey]
  /\ Return
  /\ UNCHANGED <<free, at, procs, segLen, fault>>

ShmDone ==
  /\ Running("shmget") /\ idx = segLen[seg]
  /\ Return
  /\ UNCHANGED <<free, at, procs, segs, fault>>

ShmAt(p, g, v) ==
  /\ Running("idle")
  /\ life[p] = "alive"
  /\ segKey[g] # NoKey
  /\ v .. v + segLen[g] - 1 \subseteq Pages
  /\ Begin("shmat", p, 0, v .. v + segLen[g] - 1, g)
  /\ UNCHANGED <<free, at, procs, segs, fault>>

ShmAtDone ==
  /\ Running("shmat") /\ todo = {}
  /\ Return
  /\ UNCHANGED <<free, at, procs, segs, fault>>

-----------------------------------------------------------------------------
(* The end of a process.                                                   *)

Exit(p) ==
  /\ Running("idle")
  /\ life[p] = "alive"
  /\ life' = [life EXCEPT ![p] = "zombie"]
  /\ UNCHANGED <<free, at, spaceOf, segs, job, fault>>

\* kfree(stack_limit) and delete of the TCB, by waitpid, by the exit of the
\* parent or by schedule().  The address space is not destroyed: the call is
\* commented out.
ReapBegin(p) ==
  /\ Running("idle")
  /\ life[p] = "zombie"
  /\ Begin("reap", 0, p, {}, 0)
  /\ UNCHANGED <<free, at, procs, segs, fault>>

ReapFrame ==
  /\ Running("reap") /\ idx < 2
  /\ Give(Stk(child, idx + 1))
  /\ idx' = idx + 1
  /\ UNCHANGED <<procs, segs, op, caller, child, todo, seg, short, fault>>

ReapDone ==
  /\ Running("reap") /\ idx = 2
  /\ life' = [life EXCEPT ![child] = "gone"]
  /\ at' = [a \in Places |-> IF a \in SpacePlaces(child) THEN None ELSE at[a]]
  /\ Return
  /\ UNCHANGED <<free, spaceOf, segs, fault>>

-----------------------------------------------------------------------------

Init ==
  /\ at = BootLayout
  /\ free \in BootPools
  /\ life = [p \in Procs |-> IF p = 1 THEN "alive" ELSE "unborn"]
  /\ spaceOf = [p \in Procs |-> Boot]
  /\ segKey = [g \in Segs |-> NoKey]
  /\ segLen = [g \in Segs |-> 0]
  /\ op = "idle" /\ caller = 0 /\ child = 0 /\ todo = {} /\ seg = 0 /\ idx = 0
  /\ short = FALSE
  /\ fault = "none"

Fork == (\E p, c \in Procs : ForkBegin(p, c)) \/ ForkStack \/ ForkDone
Exec == (\E p \in Procs : ExecBegin(p)) \/ BadHeader \/ ExecDone
Build == LowTable \/ PageFrame \/ Table \/ MapPage
SharedMemory ==
  \/ \E p \in Procs, k \in Keys, n \in 1 .. MaxLen : ShmGet(p, k, n)
  \/ \E p \in Procs, g \in Segs, v \in Pages : ShmAt(p, g, v)
  \/ ShmFrame \/ ShmUndo \/ ShmFailed \/ ShmDone \/ ShmAtDone
End == (\E p \in Procs : Exit(p) \/ ReapBegin(p)) \/ ReapFrame \/ ReapDone

Next == Fork \/ Exec \/ Build \/ SharedMemory \/ End

Spec == Init /\ [][Next]_vars

-----------------------------------------------------------------------------
(* Properties.                                                             *)

\* The values every variable ranges over.
TypeOK ==
  /\ free \in Seq(Frames)
  /\ at \in [Places -> Frames \cup {None}]
  /\ life \in [Procs -> Lives]
  /\ spaceOf \in [Procs -> {Boot} \cup Procs]
  /\ segKey \in [Segs -> Keys \cup {NoKey}]
  /\ segLen \in [Segs -> 0 .. MaxLen]
  /\ op \in Ops
  /\ caller \in Procs \cup {0} /\ child \in Procs \cup {0}
  /\ op \in {"exec", "shmat"} => caller \in Procs
  /\ op \in {"fork", "reap"} => child \in Procs
  /\ op \in {"shmget", "shmundo", "shmat"} => seg \in Segs
  /\ todo \subseteq Pages
  /\ idx \in Nat
  /\ short \in BOOLEAN
  /\ fault \in {"none", "gp", "page0"}

InUse == {a \in Places : at[a] # None}

\* No frame is on the free list twice, and none that is on it is still in use
\* as a table, a page, a part of a segment or of a kernel stack.
FreeListSound ==
  /\ Distinct(free)
  /\ \A i \in DOMAIN free, a \in InUse : at[a] # free[i]

\* Every frame in use has one use: two places point at the same frame only if
\* both are pages, or one is, and the frame belongs to one segment.  So address
\* spaces share memory through shm_at alone: not through fork, not through
\* tables, not through a frame that a failed call gave back.
FrameExclusive ==
  \A a, b \in InUse :
    a # b /\ at[a] = at[b] =>
      /\ a \in PagePlaces \/ b \in PagePlaces
      /\ {a, b} \subseteq PagePlaces \cup ShmPlaces
      /\ \E c \in ShmPlaces : at[c] = at[a]

\* Every frame has one use: it is free, once, or it holds one thing, or it is
\* shared memory.
FramesSound == FreeListSound /\ FrameExclusive

\* A segment that shm_get has handed out has all its frames, whatever failed
\* calls came before.
SegmentsWhole ==
  \A g \in Segs :
    segKey[g] # NoKey /\ ~(seg = g /\ op \in {"shmget", "shmundo"}) =>
      \A i \in 1 .. segLen[g] : at[Shm(g, i)] # None

\* The two together, which is what every call relies on when it starts.
MemorySound == FramesSound /\ SegmentsWhole

\* A fork that never met an empty frame list gives the child a page wherever
\* the parent has one, and nowhere else.
ForkComplete ==
  [][op = "fork" /\ op' = "idle" /\ ~short =>
       Mapped(child)' = Mapped(spaceOf[caller])]_vars

\* What the proofs need beyond these.  An unused segment holds no frame.
UnusedEmpty ==
  \A g \in Segs : segKey[g] = NoKey => \A i \in 1 .. MaxLen : at[Shm(g, i)] = None

\* While a segment is built or rolled back its frames are among the first idx,
\* and no page shows them.
SegmentInProgress ==
  op \in {"shmget", "shmundo"} =>
    /\ idx <= segLen[seg] /\ segKey[seg] # NoKey
    /\ \A i \in 1 .. MaxLen : i > idx => at[Shm(seg, i)] = None
    /\ op = "shmget" => \A i \in 1 .. idx : at[Shm(seg, i)] # None
    /\ \A i \in 1 .. MaxLen, a \in PagePlaces :
         at[Shm(seg, i)] # None => at[a] # at[Shm(seg, i)]

\* The pages shm_at has still to map go with the frames it has still to show.
AttachInStep ==
  op = "shmat" => \E v \in Pages : todo = v + idx .. v + segLen[seg] - 1

\* The kernel stack of a process is there from its birth until it is reaped.
StacksHeld ==
  /\ op = "fork" => \A i \in 1 .. 2 : i <= idx => at[Stk(child, i)] # None
  /\ op = "reap" => \A i \in 1 .. 2 : i > idx => at[Stk(child, i)] # None
  /\ \A p \in Procs : life[p] \in {"alive", "zombie"} /\ ~(op = "reap" /\ p = child) =>
       \A i \in 1 .. 2 : at[Stk(p, i)] # None

Supporting == UnusedEmpty /\ SegmentInProgress /\ AttachInStep /\ StacksHeld

\* The inductive invariant.
IInv == TypeOK /\ FreeListSound /\ FrameExclusive /\ SegmentsWhole /\ Supporting

\* What the action properties need beside IInv.  No frame stands in a space
\* nobody has built, so building one takes no frame from its place.
Vacant(s)  == \A a \in SpacePlaces(s) : at[a] = None
NewVacant  == op # "exec" => Vacant(New)
UnbornVacant ==
  \A p \in Procs : life[p] = "unborn" /\ ~(op = "fork" /\ p = child) =>
    Vacant(p) /\ \A i \in 1 .. 2 : at[Stk(p, i)] = None

\* A process is in the boot space or in its own, and what it calls, it calls
\* alive.
OwnSpaces == \A p \in Procs : spaceOf[p] \in {Boot, p}
CallerAlive ==
  op \in {"fork", "exec", "shmat"} => caller \in Procs /\ life[caller] = "alive"

\* The pages a loop has still to fill are empty, and so is the rest of the
\* child's stack; until fork skips a page the child has what todo lacks.
Unfilled == op \in {"fork", "exec"} => \A v \in todo : at[Page(Target, v)] = None
CopyInStep ==
  op = "fork" =>
    /\ caller # child
    /\ \A i \in 1 .. 2 : i > idx => at[Stk(child, i)] = None
    /\ todo \subseteq Mapped(spaceOf[caller])
    /\ ~short => Mapped(child) = Mapped(spaceOf[caller]) \ todo

Copying ==
  NewVacant /\ UnbornVacant /\ OwnSpaces /\ CallerAlive /\ Unfilled /\ CopyInStep

Lost == {f \in Frames : /\ \A i \in DOMAIN free : free[i] # f
                        /\ \A a \in InUse : at[a] # f}

\* Frames drop out of use without being freed only when an address space is
\* left behind (execve, the end of a thread), when shm_at maps over a page, or
\* when fork runs out of frames; a shm_get that fails gives everything back.
LossOnlyKnown ==
  [][Lost' # Lost =>
       \/ op \in {"exec", "reap"} /\ op' = "idle"
       \/ op = "shmat"
       \/ op = "fork" /\ free = << >>]_vars

=============================================================================
