------------------------- MODULE DescriptorsProofs -------------------------
(***************************************************************************)
(* Proofs about Descriptors: types, the alignment of numbers and           *)
(* structures, and that the kernel's tables implement OpenFiles, for any   *)
(* number of processes, descriptors and nodes.                             *)
(***************************************************************************)
EXTENDS Descriptors, WellFoundedInduction, TLAPS

\* A non-empty set of numbers has a lowest one.
LEMMA LowestExists ==
  ASSUME NEW S \in SUBSET Nat, S # {}
  PROVE  Lowest(S) \in S /\ \A j \in S : Lowest(S) <= j
<1> DEFINE Less == {ss \in Nat \X Nat : ss[1] < ss[2]}
<1>1. IsWellFoundedOn(Less, Nat)
  BY NatLessThanWellFounded DEF OpToRel
<1> HIDE DEF Less
<1>2. PICK x \in S : \A y \in S : ~ (<<y, x>> \in Less)
  BY <1>1, WFMin
<1>3. ASSUME NEW y \in S PROVE x <= y
  <2>1. x \in Nat /\ y \in Nat
    OBVIOUS
  <2>2. y < x => <<y, x>> \in Less
    BY <2>1 DEF Less
  <2> QED BY <1>2, <2>1, <2>2
<1> QED BY <1>3 DEF Lowest

LEMMA NodeFacts ==
  /\ \A i \in 0 .. 2 : Std(i) \in Nodes /\ Std(i) # "none"
  /\ Regular \subseteq Nodes /\ "none" \notin Regular
  /\ Abstract!Regular = Regular /\ Abstract!Console = Console
  /\ Abstract!Fds = Fds /\ Fds \subseteq Nat /\ 0 .. 2 \subseteq Fds
  /\ Null \notin Fds
BY NodesAssumption, SizesAssumption
   DEF Std, Console, Regular, Fds, Null, Abstract!Regular, Abstract!Console, Abstract!Std,
       Abstract!Fds

IInv == TypeOK /\ Aligned

\* In a well-kept process a number is free when the structure of that number is,
\* and a descriptor in use shows the node of its structure.
LEMMA AlignedFacts ==
  ASSUME IInv, NEW p \in Pids
  PROVE  /\ FreeSlots(p) = FreeNumbers(p)
         /\ \A i \in Fds : tab[p][i] # Null => tab[p][i] = i
         /\ \A i \in Fds : (files[p][i] = Abstract!Closed) <=> (tab[p][i] = Null)
         /\ \A i \in Fds : tab[p][i] # Null =>
                files[p][i] = [node |-> pool[p][i].node, off |-> pool[p][i].off]
<1>1. \A i \in Fds : tab[p][i] = Null => pool[p][i] = Unused
  BY DEF IInv, Aligned
<1>2. \A i \in Fds : tab[p][i] # Null =>
         tab[p][i] = i /\ pool[p][i].ref = 1 /\ pool[p][i].node # "none"
  BY DEF IInv, Aligned
<1>3. FreeSlots(p) = FreeNumbers(p)
  BY <1>1, <1>2 DEF FreeSlots, FreeNumbers, Unused
<1>4. \A i \in Fds : files[p][i] = Entry(p, i)
  BY DEF files
<1>5. ASSUME NEW i \in Fds, tab[p][i] # Null
      PROVE  /\ files[p][i] = [node |-> pool[p][i].node, off |-> pool[p][i].off]
             /\ files[p][i].node # "none"
  BY <1>2, <1>4, <1>5 DEF Entry
<1>6. ASSUME NEW i \in Fds PROVE (files[p][i] = Abstract!Closed) <=> (tab[p][i] = Null)
  <2>1. CASE tab[p][i] = Null
    BY <2>1, <1>4 DEF Entry, Abstract!Closed
  <2>2. CASE tab[p][i] # Null
    <3>1. Abstract!Closed.node = "none" /\ files[p][i].node # "none"
      BY <2>2, <1>5 DEF Abstract!Closed
    <3> QED BY <3>1, <2>2
  <2> QED BY <2>1, <2>2
<1> QED BY <1>2, <1>3, <1>5, <1>6

\* A step that changes number i of process p only, and leaves entry and structure
\* of that number fitting together, keeps the invariant, and changes that number
\* only in the files of the processes.
LEMMA PutSound ==
  ASSUME IInv, TypeOK', NEW p \in Pids, NEW i \in Fds,
         \A q \in Pids, j \in Fds : q # p \/ j # i =>
            pool'[q][j] = pool[q][j] /\ tab'[q][j] = tab[q][j],
         tab'[p][i] = Null => pool'[p][i] = Unused,
         tab'[p][i] # Null => tab'[p][i] = i /\ pool'[p][i].ref = 1 /\ pool'[p][i].node # "none"
  PROVE  IInv' /\ files' = [files EXCEPT ![p][i] = Entry(p, i)']
<1>1. Aligned
  BY DEF IInv
<1>2. Aligned'
  <2> SUFFICES ASSUME NEW q \in Pids, NEW j \in Fds
               PROVE  IF tab'[q][j] = Null THEN pool'[q][j] = Unused
                      ELSE tab'[q][j] = j /\ pool'[q][j].ref = 1 /\ pool'[q][j].node # "none"
    BY DEF Aligned
  <2>1. CASE q = p /\ j = i
    BY <2>1
  <2>2. CASE q # p \/ j # i
    BY <2>2, <1>1 DEF Aligned
  <2> QED BY <2>1, <2>2
<1>3. ASSUME NEW q \in Pids, NEW j \in Fds, q # p \/ j # i
      PROVE  Entry(q, j)' = Entry(q, j)
  <2>1. tab[q][j] # Null => tab[q][j] = j
    BY <1>1 DEF Aligned
  <2> QED BY <2>1, <1>3 DEF Entry
<1>4. files' = [files EXCEPT ![p][i] = Entry(p, i)']
  <2> DEFINE v == Entry(p, i)'
  <2>1. files' = [q \in Pids |-> [j \in Fds |-> Entry(q, j)']]
    BY DEF files
  <2>2. \A q \in Pids, j \in Fds : Entry(q, j)' = IF q = p /\ j = i THEN v ELSE Entry(q, j)
    BY <1>3
  <2> HIDE DEF v
  <2>3. files' = [q \in Pids |-> [j \in Fds |-> IF q = p /\ j = i THEN v ELSE Entry(q, j)]]
    BY <2>1, <2>2
  <2>4. [files EXCEPT ![p][i] = v]
        = [q \in Pids |-> [j \in Fds |-> IF q = p /\ j = i THEN v ELSE Entry(q, j)]]
    BY DEF files
  <2>5. files' = [files EXCEPT ![p][i] = v]
    BY <2>3, <2>4
  <2> QED BY <2>5 DEF v
<1> QED BY <1>2, <1>4 DEF IInv

THEOREM Initially == Init => IInv
<1> SUFFICES ASSUME Init PROVE TypeOK /\ Aligned
  BY DEF IInv
<1>1. /\ StdPool \in [Fds -> [node : Nodes \cup {"none"}, off : 0 .. MaxOffset, ref : {0, 1}]]
      /\ NoPool \in [Fds -> [node : Nodes \cup {"none"}, off : 0 .. MaxOffset, ref : {0, 1}]]
  BY NodeFacts, SizesAssumption DEF StdPool, NoPool, Unused
<1>2. StdTab \in [Fds -> Fds \cup {Null}] /\ NoTab \in [Fds -> Fds \cup {Null}]
  BY DEF StdTab, NoTab
<1>3. TypeOK
  BY <1>1, <1>2 DEF Init, TypeOK
<1>4. Aligned
  BY NodeFacts DEF Init, Aligned, StdPool, StdTab, NoPool, NoTab, Unused, Null
<1> QED BY <1>3, <1>4

-----------------------------------------------------------------------------
(* The calls: each keeps the invariant and is a step of OpenFiles.         *)

LEMMA OpenStep ==
  ASSUME IInv, NEW p \in Pids, NEW n \in Regular, Open(p, n)
  PROVE  IInv' /\ Abstract!Open(p, n)
<1> DEFINE F == FreeNumbers(p)
           fd == Lowest(F)
<1>1. FreeSlots(p) = F /\ {i \in Abstract!Fds : ~Abstract!IsOpen(p, i)} = F
  BY ZenonT(60), AlignedFacts, NodeFacts DEF FreeNumbers, Abstract!IsOpen
<1>2. Abstract!Lowest(F) = fd /\ FirstSlot(p) = fd
  BY <1>1 DEF Abstract!Lowest, Lowest, FirstSlot
<1>3. CASE F = {}
  <2>1. answer' = EMFILE /\ UNCHANGED <<status, pool, tab>> /\ status[p] = "alive"
    BY <1>3, <1>1 DEF Open
  <2>2. IInv' /\ files' = files
    BY <2>1 DEF IInv, TypeOK, Aligned, files, Entry
  <2> QED BY <2>1, <2>2, <1>1, <1>3 DEF Abstract!Open, Abstract!EMFILE, EMFILE
<1>4. CASE F # {}
  <2>1. F \subseteq Nat /\ F \subseteq Fds
    BY NodeFacts DEF FreeNumbers
  <2>2. PICK i \in Fds : i = fd
    BY <2>1, <1>4, LowestExists
  <2> HIDE DEF F, fd
  <2>3. /\ status[p] = "alive" /\ status' = status /\ answer' = i
        /\ pool' = [pool EXCEPT ![p][i] = [node |-> n, off |-> 0, ref |-> 1]]
        /\ tab' = [tab EXCEPT ![p][i] = i]
    BY <1>1, <1>2, <1>4, <2>2 DEF Open, F, fd
  <2> DEFINE f == [node |-> n, off |-> 0, ref |-> 1]
  <2>4. /\ f \in [node : Nodes \cup {"none"}, off : 0 .. MaxOffset, ref : {0, 1}]
        /\ f.ref = 1 /\ f.node # "none" /\ f.node = n /\ f.off = 0
    BY NodeFacts, SizesAssumption
  <2>5. pool' = [pool EXCEPT ![p][i] = f] /\ i # Null
    BY <2>3, NodeFacts
  <2> HIDE DEF f
  <2>6. TypeOK' /\ pool'[p][i] = f /\ tab'[p][i] = i
    BY <2>3, <2>4, <2>5 DEF IInv, TypeOK
  <2>7. \A q \in Pids, j \in Fds : q # p \/ j # i =>
           pool'[q][j] = pool[q][j] /\ tab'[q][j] = tab[q][j]
    BY <2>3, <2>5 DEF IInv, TypeOK
  <2>8. IInv' /\ files' = [files EXCEPT ![p][i] = Entry(p, i)']
    BY <2>4, <2>5, <2>6, <2>7, PutSound
  <2>9. Entry(p, i)' = [node |-> n, off |-> 0]
    BY <2>4, <2>5, <2>6 DEF Entry
  <2>10. files' = [files EXCEPT ![p][fd] = [node |-> n, off |-> 0]] /\ answer' = fd
    BY <2>2, <2>3, <2>8, <2>9
  <2> QED BY <2>3, <2>8, <2>10, <1>1, <1>2, <1>4 DEF Abstract!Open
<1> QED BY <1>3, <1>4

\* A call that leaves the tables alone.
LEMMA QuietStep ==
  ASSUME IInv, UNCHANGED <<status, pool, tab>>
  PROVE  IInv' /\ files' = files
BY DEF IInv, TypeOK, Aligned, files, Entry

LEMMA CloseStep ==
  ASSUME IInv, NEW p \in Pids, NEW fd \in -1 .. MaxFd, Close(p, fd)
  PROVE  IInv' /\ Abstract!Close(p, fd)
<1>1. status[p] = "alive" /\ status' = status
  BY DEF Close
<1>2. Valid(p, fd) <=> Abstract!IsOpen(p, fd)
  BY AlignedFacts, NodeFacts DEF Valid, Abstract!IsOpen
<1>3. Valid(p, fd) => /\ fd \in Fds /\ tab[p][fd] = fd /\ FileAt(p, fd).ref = 1
                      /\ FileAt(p, fd) = pool[p][fd]
  BY DEF Valid, FileAt, IInv, Aligned
<1>4. CASE Valid(p, fd)
  <2>1. Unused \in [node : Nodes \cup {"none"}, off : 0 .. MaxOffset, ref : {0, 1}]
    BY SizesAssumption DEF Unused
  <2>2. /\ pool' = [pool EXCEPT ![p][fd] = Unused]
        /\ tab' = [tab EXCEPT ![p][fd] = Null] /\ answer' = 0
    BY <1>3, <1>4 DEF Close, Released
  <2>4. TypeOK' /\ pool'[p][fd] = Unused /\ tab'[p][fd] = Null
    BY <1>1, <1>3, <1>4, <2>1, <2>2 DEF IInv, TypeOK
  <2>5. \A q \in Pids, j \in Fds : q # p \/ j # fd =>
           pool'[q][j] = pool[q][j] /\ tab'[q][j] = tab[q][j]
    BY <1>3, <1>4, <2>2 DEF IInv, TypeOK
  <2>6. IInv' /\ files' = [files EXCEPT ![p][fd] = Entry(p, fd)']
    BY <1>3, <1>4, <2>4, <2>5, PutSound
  <2>7. Entry(p, fd)' = Abstract!Closed
    BY <2>4 DEF Entry, Abstract!Closed
  <2> QED BY <2>2, <2>6, <2>7, <1>1, <1>2, <1>4 DEF Abstract!Close
<1>5. CASE ~Valid(p, fd)
  <2>1. UNCHANGED <<status, pool, tab>> /\ answer' = EBADF
    BY <1>1, <1>5 DEF Close
  <2> QED BY <2>1, <1>1, <1>2, <1>5, QuietStep DEF Abstract!Close, EBADF, Abstract!EBADF
<1> QED BY <1>4, <1>5

\* Reads and writes: the structure of the descriptor gets a new node and offset.
LEMMA MoveStep ==
  ASSUME IInv, NEW p \in Pids, NEW fd \in -1 .. MaxFd, NEW n \in Regular,
         NEW k \in 0 .. MaxOffset,
         status[p] = "alive", Valid(p, fd), FileAt(p, fd).off + k <= MaxOffset,
         pool' = [pool EXCEPT ![p][tab[p][fd]] = Advanced(FileAt(p, fd), n, k)],
         answer' = k, status' = status, tab' = tab
  PROVE  IInv' /\ Abstract!Transfer(p, fd, n, k)
<1>1. /\ fd \in Fds /\ tab[p][fd] = fd /\ FileAt(p, fd) = pool[p][fd] /\ pool[p][fd].ref = 1
      /\ fd # Null
  BY NodeFacts DEF Valid, FileAt, IInv, Aligned
<1>2. pool[p][fd] \in [node : Nodes \cup {"none"}, off : 0 .. MaxOffset, ref : {0, 1}]
  BY <1>1 DEF IInv, TypeOK
<1> DEFINE f == Advanced(pool[p][fd], n, k)
<1>3. /\ f \in [node : Nodes \cup {"none"}, off : 0 .. MaxOffset, ref : {0, 1}]
      /\ f.ref = 1 /\ f.node = n /\ f.node # "none" /\ f.off = pool[p][fd].off + k
  <2>1. pool[p][fd].off + k \in 0 .. MaxOffset
    BY <1>1, <1>2, SizesAssumption
  <2>2. n \in Nodes /\ n # "none"
    BY NodeFacts
  <2> QED BY <1>1, <1>2, <2>1, <2>2 DEF Advanced
<1>4. pool' = [pool EXCEPT ![p][fd] = f]
  BY <1>1
<1> HIDE DEF f
<1>5. TypeOK' /\ pool'[p][fd] = f /\ tab'[p][fd] = fd
  BY <1>1, <1>3, <1>4 DEF IInv, TypeOK
<1>6. \A q \in Pids, j \in Fds : q # p \/ j # fd =>
         pool'[q][j] = pool[q][j] /\ tab'[q][j] = tab[q][j]
  BY <1>1, <1>4 DEF IInv, TypeOK
<1>7. IInv' /\ files' = [files EXCEPT ![p][fd] = Entry(p, fd)']
  BY <1>1, <1>3, <1>5, <1>6, PutSound
<1>8. files[p][fd] # Abstract!Closed /\ files[p][fd] = [node |-> pool[p][fd].node, off |-> pool[p][fd].off]
  BY <1>1, AlignedFacts
<1>9. Abstract!IsOpen(p, fd)
  BY <1>1, <1>8, NodeFacts DEF Abstract!IsOpen
<1>10. Entry(p, fd)' = [node |-> n, off |-> files[p][fd].off + k]
  BY <1>1, <1>3, <1>5, <1>8 DEF Entry
<1> QED BY <1>7, <1>9, <1>10 DEF Abstract!Transfer

\* A step that gives process c a table of its own, aligned.
LEMMA TableSound ==
  ASSUME IInv, TypeOK', NEW c \in Pids,
         \A q \in Pids \ {c} : pool'[q] = pool[q] /\ tab'[q] = tab[q],
         \A j \in Fds : IF tab'[c][j] = Null THEN pool'[c][j] = Unused
                        ELSE tab'[c][j] = j /\ pool'[c][j].ref = 1 /\ pool'[c][j].node # "none"
  PROVE  IInv' /\ files' = [files EXCEPT ![c] = [j \in Fds |-> Entry(c, j)']]
<1>1. Aligned'
  <2> SUFFICES ASSUME NEW q \in Pids, NEW j \in Fds
               PROVE  IF tab'[q][j] = Null THEN pool'[q][j] = Unused
                      ELSE tab'[q][j] = j /\ pool'[q][j].ref = 1 /\ pool'[q][j].node # "none"
    BY DEF Aligned
  <2>1. CASE q = c
    BY <2>1
  <2>2. CASE q # c
    BY <2>2 DEF IInv, Aligned
  <2> QED BY <2>1, <2>2
<1>2. files' = [files EXCEPT ![c] = [j \in Fds |-> Entry(c, j)']]
  <2>1. ASSUME NEW q \in Pids \ {c}, NEW j \in Fds PROVE Entry(q, j)' = Entry(q, j)
    BY DEF Entry
  <2>2. files' = [q \in Pids |-> [j \in Fds |-> Entry(q, j)']]
    BY DEF files
  <2> DEFINE v == [j \in Fds |-> Entry(c, j)']
  <2>3. \A q \in Pids : [j \in Fds |-> Entry(q, j)'] = IF q = c THEN v ELSE [j \in Fds |-> Entry(q, j)]
    BY <2>1
  <2> HIDE DEF v
  <2>4. files' = [q \in Pids |-> IF q = c THEN v ELSE [j \in Fds |-> Entry(q, j)]]
    BY <2>2, <2>3
  <2>5. files' = [files EXCEPT ![c] = v]
    BY <2>4 DEF files
  <2> QED BY <2>5 DEF v
<1> QED BY <1>1, <1>2 DEF IInv

LEMMA ForkStep ==
  ASSUME IInv, NEW p \in Pids, NEW c \in Pids, Fork(p, c)
  PROVE  IInv' /\ Abstract!Fork(p, c)
<1>1. TypeOK /\ Aligned /\ p # c
  BY DEF IInv, Fork
<1>2. \A i \in Fds : tab[p][i] # Null => tab[p][i] = i /\ pool[p][i].ref = 1 /\ pool[p][i].node # "none"
  BY <1>1 DEF Aligned
<1>3. CopiedPool(p) \in [Fds -> [node : Nodes \cup {"none"}, off : 0 .. MaxOffset, ref : {0, 1}]]
  <2> SUFFICES ASSUME NEW i \in Fds
               PROVE  (IF tab[p][i] = Null THEN Unused ELSE [pool[p][i] EXCEPT !.ref = 1])
                        \in [node : Nodes \cup {"none"}, off : 0 .. MaxOffset, ref : {0, 1}]
    BY DEF CopiedPool
  <2>1. pool[p][i] \in [node : Nodes \cup {"none"}, off : 0 .. MaxOffset, ref : {0, 1}]
    BY <1>1 DEF TypeOK
  <2>2. Unused \in [node : Nodes \cup {"none"}, off : 0 .. MaxOffset, ref : {0, 1}]
    BY SizesAssumption DEF Unused
  <2> QED BY <2>1, <2>2
<1>4. CopiedTab(p) \in [Fds -> Fds \cup {Null}]
  BY DEF CopiedTab
<1>5. TypeOK'
  BY <1>1, <1>3, <1>4 DEF Fork, TypeOK
<1>6. /\ pool'[c] = CopiedPool(p) /\ tab'[c] = CopiedTab(p)
      /\ \A q \in Pids \ {c} : pool'[q] = pool[q] /\ tab'[q] = tab[q]
  BY <1>1 DEF Fork, TypeOK
<1>7. ASSUME NEW j \in Fds
      PROVE  /\ tab'[c][j] = IF tab[p][j] = Null THEN Null ELSE j
             /\ pool'[c][j] = IF tab[p][j] = Null THEN Unused ELSE [pool[p][j] EXCEPT !.ref = 1]
  BY <1>6 DEF CopiedPool, CopiedTab
<1>8. ASSUME NEW j \in Fds
      PROVE  IF tab'[c][j] = Null THEN pool'[c][j] = Unused
             ELSE tab'[c][j] = j /\ pool'[c][j].ref = 1 /\ pool'[c][j].node # "none"
  <2>1. pool[p][j] \in [node : Nodes \cup {"none"}, off : 0 .. MaxOffset, ref : {0, 1}] /\ j # Null
    BY <1>1, NodeFacts DEF TypeOK
  <2>2. CASE tab[p][j] = Null
    BY <2>2, <1>7
  <2>3. CASE tab[p][j] # Null
    <3>1. tab'[c][j] = j /\ pool'[c][j] = [pool[p][j] EXCEPT !.ref = 1]
      BY <2>3, <1>7
    <3>2. pool'[c][j].ref = 1 /\ pool'[c][j].node = pool[p][j].node
      BY <2>1, <3>1
    <3>3. pool[p][j].node # "none"
      BY <2>3, <1>2
    <3> QED BY <2>1, <3>1, <3>2, <3>3
  <2> QED BY <2>2, <2>3
<1>9. ASSUME NEW j \in Fds PROVE Entry(c, j)' = Entry(p, j)
  <2>1. pool[p][j] \in [node : Nodes \cup {"none"}, off : 0 .. MaxOffset, ref : {0, 1}] /\ j # Null
    BY <1>1, NodeFacts DEF TypeOK
  <2>2. CASE tab[p][j] = Null
    BY <2>2, <1>7 DEF Entry
  <2>3. CASE tab[p][j] # Null
    <3>1. /\ tab'[c][j] = j /\ tab[p][j] = j
          /\ pool'[c][j] = [pool[p][j] EXCEPT !.ref = 1]
      BY <2>3, <1>2, <1>7
    <3>2. pool'[c][j].node = pool[p][j].node /\ pool'[c][j].off = pool[p][j].off
      BY <2>1, <3>1
    <3> QED BY <3>1, <3>2, <2>1 DEF Entry
  <2> QED BY <2>2, <2>3
<1>10. IInv' /\ files' = [files EXCEPT ![c] = [j \in Fds |-> Entry(c, j)']]
  BY <1>5, <1>6, <1>8, TableSound
<1>11. [j \in Fds |-> Entry(c, j)'] = files[p]
  BY <1>9 DEF files
<1> QED BY <1>10, <1>11 DEF Fork, Abstract!Fork

LEMMA ExitStep ==
  ASSUME IInv, NEW p \in Pids, Exit(p)
  PROVE  IInv' /\ Abstract!Exit(p)
<1>1. /\ NoPool \in [Fds -> [node : Nodes \cup {"none"}, off : 0 .. MaxOffset, ref : {0, 1}]]
      /\ NoTab \in [Fds -> Fds \cup {Null}]
  BY SizesAssumption DEF NoPool, NoTab, Unused
<1>2. TypeOK'
  BY <1>1 DEF Exit, IInv, TypeOK
<1>3. /\ pool'[p] = NoPool /\ tab'[p] = NoTab
      /\ \A q \in Pids \ {p} : pool'[q] = pool[q] /\ tab'[q] = tab[q]
  BY DEF Exit, IInv, TypeOK
<1>4. \A j \in Fds : tab'[p][j] = Null /\ pool'[p][j] = Unused
  BY <1>3 DEF NoPool, NoTab
<1>5. IInv' /\ files' = [files EXCEPT ![p] = [j \in Fds |-> Entry(p, j)']]
  BY <1>2, <1>3, <1>4, TableSound
<1>6. [j \in Fds |-> Entry(p, j)'] = Abstract!Nothing
  BY <1>4, NodeFacts DEF Entry, Abstract!Nothing, Abstract!Closed
<1> QED BY <1>5, <1>6 DEF Exit, Abstract!Exit

\* Every step keeps the invariant and is a step of OpenFiles, or changes nothing
\* it shows.
THEOREM StepRefines ==
  ASSUME IInv, [Next]_vars
  PROVE  IInv' /\ [Abstract!Next]_(Abstract!vars)
<1>1. CASE UNCHANGED vars
  BY <1>1, QuietStep DEF vars, Abstract!vars
<1>2. ASSUME NEW p \in Pids, NEW n \in Regular, Open(p, n)
      PROVE  IInv' /\ Abstract!Next
  BY <1>2, OpenStep, NodeFacts DEF Abstract!Next
<1>3. ASSUME NEW p \in Pids, NEW fd \in -1 .. MaxFd, Close(p, fd)
      PROVE  IInv' /\ Abstract!Next
  BY <1>3, CloseStep DEF Abstract!Next
<1>4. ASSUME NEW p \in Pids, NEW fd \in -1 .. MaxFd, NEW k \in 0 .. MaxOffset, Read(p, fd, k)
      PROVE  IInv' /\ Abstract!Next
  <2>1. PICK n \in Regular : n = FileAt(p, fd).node
    BY <1>4 DEF Read
  <2>2. pool' = [pool EXCEPT ![p][tab[p][fd]] = Advanced(FileAt(p, fd), n, k)]
    BY <1>4, <2>1 DEF Read
  <2>3. IInv' /\ Abstract!Transfer(p, fd, n, k)
    BY <1>4, <2>2, MoveStep DEF Read
  <2> QED BY <2>3, NodeFacts DEF Abstract!Next
<1>5. ASSUME NEW p \in Pids, NEW fd \in -1 .. MaxFd, NEW k \in 0 .. MaxOffset, NEW n \in Regular,
             Write(p, fd, n, k)
      PROVE  IInv' /\ Abstract!Next
  <2>1. IInv' /\ Abstract!Transfer(p, fd, n, k)
    BY <1>5, MoveStep DEF Write
  <2> QED BY <2>1, NodeFacts DEF Abstract!Next
<1>6. ASSUME NEW p \in Pids, NEW fd \in -1 .. MaxFd, NEW k \in 0 .. MaxOffset, Talk(p, fd, k)
      PROVE  IInv' /\ Abstract!Next
  <2>1. /\ fd \in Fds /\ tab[p][fd] # Null /\ tab[p][fd] = fd
        /\ pool[p][fd].node \in Console
    BY <1>6 DEF Talk, Valid, FileAt, IInv, Aligned
  <2>2. files[p][fd] # Abstract!Closed /\ files[p][fd].node \in Console
    <3>1. files[p][fd] = [node |-> pool[p][fd].node, off |-> pool[p][fd].off]
      BY <2>1, AlignedFacts
    <3>2. files[p][fd].node = pool[p][fd].node
      BY <3>1
    <3> QED BY <2>1, <3>2, AlignedFacts
  <2>3. Abstract!IsOpen(p, fd) /\ files[p][fd].node \in Abstract!Console
    BY <2>1, <2>2, NodeFacts DEF Abstract!IsOpen
  <2>4. IInv' /\ files' = files
    BY <1>6, QuietStep DEF Talk
  <2>5. Abstract!Talk(p, fd, k)
    BY <1>6, <2>3, <2>4 DEF Talk, Abstract!Talk
  <2> QED BY <2>4, <2>5 DEF Abstract!Next
<1>7. ASSUME NEW p \in Pids, NEW e \in Errors, Refuse(p, e) PROVE IInv' /\ Abstract!Next
  <2>1. IInv' /\ files' = files
    BY <1>7, QuietStep DEF Refuse
  <2>2. Abstract!Refuse(p, e)
    BY <1>7, <2>1 DEF Refuse, Abstract!Refuse
  <2>3. e \in Abstract!Errors
    BY DEF Errors, Abstract!Errors, EBADF, Abstract!EBADF
  <2> QED BY <2>1, <2>2, <2>3 DEF Abstract!Next
<1>8. ASSUME NEW p \in Pids, NEW c \in Pids, Fork(p, c) PROVE IInv' /\ Abstract!Next
  BY <1>8, ForkStep DEF Abstract!Next
<1>9. ASSUME NEW p \in Pids, Exit(p) PROVE IInv' /\ Abstract!Next
  BY <1>9, ExitStep DEF Abstract!Next
<1> QED
  BY <1>1, <1>2, <1>3, <1>4, <1>5, <1>6, <1>7, <1>8, <1>9 DEF Next

\* Types and the alignment of numbers and structures hold in every state.
THEOREM Invariance == Spec => []IInv
<1>1. IInv /\ [Next]_vars => IInv'
  BY StepRefines
<1> QED BY Initially, <1>1, PTL DEF Spec

\* Counts are 0 or 1, pointers stay in the pool and offsets in their bound,
\* whatever is opened, closed and forked (sys_open, sys_close, sys_fork).
THEOREM TypeCorrect == Spec => []TypeOK
<1>1. IInv => TypeOK
  BY DEF IInv
<1> QED BY Invariance, <1>1, PTL

\* Descriptor i always uses structure i, so that fork may copy by number.
THEOREM DescriptorsAligned == Spec => []Aligned
<1>1. IInv => Aligned
  BY DEF IInv
<1> QED BY Invariance, <1>1, PTL

\* The tables of the kernel implement the open files a process is promised.
THEOREM Refinement == Spec => Implements
<1>1. Init => Abstract!Init
  <2> SUFFICES ASSUME Init PROVE Abstract!Init
    OBVIOUS
  <2>1. ASSUME NEW p \in Pids, NEW i \in Fds
        PROVE  Entry(p, i) = IF p \in Boot THEN Abstract!Started[i] ELSE Abstract!Nothing[i]
    BY NodeFacts DEF Init, Entry, StdPool, StdTab, NoPool, NoTab, Unused,
       Abstract!Started, Abstract!Nothing, Abstract!Closed, Std, Abstract!Std, Null
  <2>2. /\ Abstract!Started = [i \in Fds |-> Abstract!Started[i]]
        /\ Abstract!Nothing = [i \in Fds |-> Abstract!Nothing[i]]
    BY NodeFacts DEF Abstract!Started, Abstract!Nothing
  <2>3. files = [p \in Pids |-> IF p \in Boot THEN Abstract!Started ELSE Abstract!Nothing]
    BY <2>1, <2>2 DEF files
  <2> QED BY <2>3 DEF Init, Abstract!Init
<1>2. IInv /\ [Next]_vars => [Abstract!Next]_(Abstract!vars)
  BY StepRefines
<1> QED BY <1>1, <1>2, Invariance, PTL DEF Spec, Implements, Abstract!Spec
=============================================================================
