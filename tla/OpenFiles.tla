----------------------------- MODULE OpenFiles -----------------------------
(***************************************************************************)
(* What the file system calls promise a process: a table of its own from   *)
(* descriptors to open files, the lowest free number for the next one, and *)
(* for a child a copy that moves on independently.                         *)
(***************************************************************************)
EXTENDS Integers

CONSTANTS Pids,     \* thread ids
          Boot,     \* the processes started by the kernel
          Nodes,    \* VFS nodes
          MaxFd,    \* Thread::MAX_FILE_DESCRIPTORS
          MaxOffset \* bound on file offsets

VARIABLES status,   \* status[p]: not yet created, alive, ended
          files,    \* files[p][fd]: the open file, or Closed
          answer    \* what the last call returned

vars == <<status, files, answer>>

Fds    == 0 .. MaxFd - 1
Closed == [node |-> "none", off |-> 0]

\* The three nodes of the console, (VFSNode*)1 to 3.
Std(i)   == CASE i = 0 -> "stdin" [] i = 1 -> "stdout" [] i = 2 -> "stderr"
Console  == {Std(i) : i \in 0 .. 2}
\* Nodes of file systems.
Regular  == Nodes \ (Console \cup {"none"})

EBADF  == -9
EMFILE == -24
Errors == {EBADF, -14, -2, -1}

Started == [i \in Fds |-> IF i \in 0 .. 2 THEN [node |-> Std(i), off |-> 0] ELSE Closed]
Nothing == [i \in Fds |-> Closed]

Init ==
  /\ status = [p \in Pids |-> IF p \in Boot THEN "alive" ELSE "new"]
  /\ files = [p \in Pids |-> IF p \in Boot THEN Started ELSE Nothing]
  /\ answer = 0

IsOpen(p, fd) == fd \in Fds /\ files[p][fd] # Closed
Lowest(S)     == CHOOSE i \in S : \A j \in S : i <= j

\* The lowest free number, or EMFILE when every number is in use.
Open(p, n) ==
  LET free == {i \in Fds : ~IsOpen(p, i)}
  IN  /\ status[p] = "alive"
      /\ IF free = {}
           THEN answer' = EMFILE /\ UNCHANGED files
           ELSE /\ answer' = Lowest(free)
                /\ files' = [files EXCEPT ![p][Lowest(free)] = [node |-> n, off |-> 0]]
      /\ UNCHANGED status

Close(p, fd) ==
  /\ status[p] = "alive"
  /\ IF IsOpen(p, fd)
       THEN answer' = 0 /\ files' = [files EXCEPT ![p][fd] = Closed]
       ELSE answer' = EBADF /\ UNCHANGED files
  /\ UNCHANGED status

\* A call that moves k bytes, and may leave the descriptor on another node.
Transfer(p, fd, n, k) ==
  /\ status[p] = "alive"
  /\ IsOpen(p, fd)
  /\ answer' = k
  /\ files' = [files EXCEPT ![p][fd] = [node |-> n, off |-> files[p][fd].off + k]]
  /\ UNCHANGED status

\* A call that fails leaves every table as it was.
Refuse(p, e) ==
  /\ status[p] = "alive"
  /\ answer' = e
  /\ UNCHANGED <<status, files>>

\* Console input and output.
Talk(p, fd, k) ==
  /\ status[p] = "alive"
  /\ IsOpen(p, fd) /\ files[p][fd].node \in Console
  /\ answer' = k
  /\ UNCHANGED <<status, files>>

\* The child has the files of its parent at the parent's offsets.
Fork(p, c) ==
  /\ status[p] = "alive" /\ status[c] = "new"
  /\ status' = [status EXCEPT ![c] = "alive"]
  /\ files' = [files EXCEPT ![c] = files[p]]
  /\ answer' = 0

Exit(p) ==
  /\ status[p] = "alive"
  /\ status' = [status EXCEPT ![p] = "gone"]
  /\ files' = [files EXCEPT ![p] = Nothing]
  /\ UNCHANGED answer

Next ==
  \E p \in Pids :
    \/ \E n \in Regular : Open(p, n)
    \/ \E fd \in -1 .. MaxFd :
         \/ Close(p, fd)
         \/ \E n \in Regular, k \in 0 .. MaxOffset : Transfer(p, fd, n, k)
         \/ \E k \in 0 .. MaxOffset : Talk(p, fd, k)
    \/ \E e \in Errors : Refuse(p, e)
    \/ \E c \in Pids : Fork(p, c)
    \/ Exit(p)

Spec == Init /\ [][Next]_vars
=============================================================================
