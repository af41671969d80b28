---------------------------- MODULE Descriptors ----------------------------
(***************************************************************************)
(* File descriptors as the kernel keeps them (syscall.cpp, scheduler.cpp): *)
(* every TCB holds a pool of File structures with reference counts and a   *)
(* table of pointers into it. open takes the first free number and, on its *)
(* own, the first free structure; fork copies structure i when number i is *)
(* in use. The calls run with interrupts off.                              *)
(***************************************************************************)
EXTENDS Integers

CONSTANTS Pids,     \* thread ids
          Boot,     \* the processes the kernel starts
          Nodes,    \* VFS nodes, the three of the console among them
          MaxFd,    \* Thread::MAX_FILE_DESCRIPTORS
          MaxOffset \* bound on file offsets

Null == -1

VARIABLES status,   \* as in OpenFiles
          pool,     \* pool[p][j]: Thread::fd_pool
          tab,      \* tab[p][i]: Thread::fd_table, an index into the pool or Null
          answer    \* rax of the last call

vars == <<status, pool, tab, answer>>

Fds     == 0 .. MaxFd - 1
Unused  == [node |-> "none", off |-> 0, ref |-> 0]
Std(i)  == CASE i = 0 -> "stdin" [] i = 1 -> "stdout" [] i = 2 -> "stderr"
Console == {Std(i) : i \in 0 .. 2}
Regular == Nodes \ (Console \cup {"none"})
EBADF   == -9
EMFILE  == -24
Errors  == {EBADF, -14, -2, -1} \* EBADF, EFAULT, ENOENT and fork's -1

ASSUME SizesAssumption == MaxFd \in Nat /\ MaxFd >= 3 /\ MaxOffset \in Nat
ASSUME BootAssumption  == Boot \subseteq Pids
ASSUME NodesAssumption == Console \subseteq Nodes /\ "none" \notin Nodes

\* What entry i of a table shows.
Entry(p, i) == IF tab[p][i] = Null THEN [node |-> "none", off |-> 0]
               ELSE [node |-> pool[p][tab[p][i]].node, off |-> pool[p][tab[p][i]].off]
files == [p \in Pids |-> [i \in Fds |-> Entry(p, i)]]

Abstract == INSTANCE OpenFiles WITH files <- files, status <- status, answer <- answer

-----------------------------------------------------------------------------

StdPool == [j \in Fds |-> IF j \in 0 .. 2 THEN [node |-> Std(j), off |-> 0, ref |-> 1]
                          ELSE Unused]
StdTab  == [i \in Fds |-> IF i \in 0 .. 2 THEN i ELSE Null]
NoPool  == [j \in Fds |-> Unused]
NoTab   == [i \in Fds |-> Null]

Init ==
  /\ status = [p \in Pids |-> IF p \in Boot THEN "alive" ELSE "new"]
  /\ pool = [p \in Pids |-> IF p \in Boot THEN StdPool ELSE NoPool]
  /\ tab = [p \in Pids |-> IF p \in Boot THEN StdTab ELSE NoTab]
  /\ answer = 0

Lowest(S)      == CHOOSE i \in S : \A j \in S : i <= j
FreeNumbers(p) == {i \in Fds : tab[p][i] = Null}
FreeSlots(p)   == {j \in Fds : pool[p][j].ref = 0}
FirstSlot(p)   == Lowest(FreeSlots(p))

\* Descriptor fd passes the checks read, write and close begin with.
Valid(p, fd) == fd \in Fds /\ tab[p][fd] # Null
FileAt(p, fd) == pool[p][tab[p][fd]]

\* sys_open on a path that VFS::open resolved to node n.
Open(p, n) ==
  /\ status[p] = "alive"
  /\ IF FreeNumbers(p) = {} \/ FreeSlots(p) = {}
       THEN answer' = EMFILE /\ UNCHANGED <<pool, tab>>
       ELSE LET fd == Lowest(FreeNumbers(p)) IN
            /\ pool' = [pool EXCEPT ![p][FirstSlot(p)] = [node |-> n, off |-> 0, ref |-> 1]]
            /\ tab' = [tab EXCEPT ![p][fd] = FirstSlot(p)]
            /\ answer' = fd
  /\ UNCHANGED status

\* The structure once a reference is gone.
Released(f) == IF f.ref = 1 THEN Unused ELSE [f EXCEPT !.ref = f.ref - 1]

Close(p, fd) ==
  /\ status[p] = "alive"
  /\ IF Valid(p, fd) /\ FileAt(p, fd).ref > 0
       THEN /\ pool' = [pool EXCEPT ![p][tab[p][fd]] = Released(FileAt(p, fd))]
            /\ tab' = [tab EXCEPT ![p][fd] = Null]
            /\ answer' = 0
       ELSE answer' = EBADF /\ UNCHANGED <<pool, tab>>
  /\ UNCHANGED status

\* A call fails: no such file or descriptor, a bad buffer, the wrong end of the
\* console, an error of the file system, no memory for a child.
Refuse(p, e) ==
  /\ status[p] = "alive"
  /\ answer' = e
  /\ UNCHANGED <<status, pool, tab>>

\* The structure after a call that moved k bytes and left it on node n.
Advanced(f, n, k) == [f EXCEPT !.node = n, !.off = f.off + k]

\* sys_read on a node of a file system.
Read(p, fd, k) ==
  /\ status[p] = "alive"
  /\ Valid(p, fd) /\ FileAt(p, fd).node \in Regular
  /\ FileAt(p, fd).off + k <= MaxOffset
  /\ pool' = [pool EXCEPT ![p][tab[p][fd]] = Advanced(FileAt(p, fd), FileAt(p, fd).node, k)]
  /\ answer' = k
  /\ UNCHANGED <<status, tab>>

\* sys_write on such a node; VFS::write may put the file on a new node.
Write(p, fd, n, k) ==
  /\ status[p] = "alive"
  /\ Valid(p, fd) /\ FileAt(p, fd).node \in Regular
  /\ FileAt(p, fd).off + k <= MaxOffset
  /\ pool' = [pool EXCEPT ![p][tab[p][fd]] = Advanced(FileAt(p, fd), n, k)]
  /\ answer' = k
  /\ UNCHANGED <<status, tab>>

\* sys_read of a line from the keyboard, sys_write of text to the screen.
\* (sys_write on stdin calls through the address (VFSNode*)1: it fails as in
\* Refuse or the machine stops, after which there are no steps.)
Talk(p, fd, k) ==
  /\ status[p] = "alive"
  /\ Valid(p, fd) /\ FileAt(p, fd).node \in Console
  /\ answer' = k
  /\ UNCHANGED <<status, pool, tab>>

CopiedRewound(p) ==
  [i \in Fds |-> IF tab[p][i] = Null THEN Unused ELSE [pool[p][i] EXCEPT !.off = 0, !.ref = 1]]
CopiedCounted(p) ==
  [i \in Fds |-> IF tab[p][i] = Null THEN Unused ELSE [pool[p][i] EXCEPT !.ref = @ + 1]]

\* sys_fork copies by number: structure i for descriptor i.
CopiedPool(p) ==
  [i \in Fds |-> IF tab[p][i] = Null THEN Unused ELSE [pool[p][i] EXCEPT !.ref = 1]]
CopiedTab(p)  == [i \in Fds |-> IF tab[p][i] = Null THEN Null ELSE i]

Fork(p, c) ==
  /\ status[p] = "alive" /\ status[c] = "new"
  /\ status' = [status EXCEPT ![c] = "alive"]
  /\ pool' = [pool EXCEPT ![c] = CopiedPool(p)]
  /\ tab' = [tab EXCEPT ![c] = CopiedTab(p)]
  /\ answer' = 0

\* The TCB is freed with everything in it.
Exit(p) ==
  /\ status[p] = "alive"
  /\ status' = [status EXCEPT ![p] = "gone"]
  /\ pool' = [pool EXCEPT ![p] = NoPool]
  /\ tab' = [tab EXCEPT ![p] = NoTab]
  /\ UNCHANGED answer

Next ==
  \E p \in Pids :
    \/ \E n \in Regular : Open(p, n)
    \/ \E fd \in -1 .. MaxFd :
         \/ Close(p, fd)
         \/ \E k \in 0 .. MaxOffset :
              \/ Read(p, fd, k)
              \/ Talk(p, fd, k)
              \/ \E n \in Regular : Write(p, fd, n, k)
    \/ \E e \in Errors : Refuse(p, e)
    \/ \E c \in Pids : Fork(p, c)
    \/ Exit(p)

Spec == Init /\ [][Next]_vars

-----------------------------------------------------------------------------

\* The variables have their types; a reference count is 0 or 1.
TypeOK ==
  /\ status \in [Pids -> {"new", "alive", "gone"}]
  /\ pool \in [Pids -> [Fds -> [node : Nodes \cup {"none"}, off : 0 .. MaxOffset, ref : {0, 1}]]]
  /\ tab \in [Pids -> [Fds -> Fds \cup {Null}]]

\* Descriptor i is closed, or uses structure i: the number and the structure
\* open picks independently are always the same, whatever was opened, closed
\* and forked before. fork relies on it when it copies by number.
Aligned ==
  \A p \in Pids, i \in Fds :
    IF tab[p][i] = Null THEN pool[p][i] = Unused
    ELSE tab[p][i] = i /\ pool[p][i].ref = 1 /\ pool[p][i].node # "none"

\* Pools, counts and pointers give each process its own table of open files:
\* EMFILE comes only when every number is taken, a closed number is free at
\* once, a child starts with its parent's files and offsets, and no call of
\* another process moves them.
Implements == Abstract!Spec
=============================================================================
