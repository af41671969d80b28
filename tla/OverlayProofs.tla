--------------------------- MODULE OverlayProofs ---------------------------
(***************************************************************************)
(* Proofs about the node table of module Overlay, its open files and the   *)
(* disk under it, for tables of any size, any disk, any number of buffers, *)
(* and any paths and handles.                                              *)
(***************************************************************************)
EXTENDS Overlay, SequenceTheorems, WellFoundedInduction, TLAPS

\* A set of numbers that has a member has a first one.
LEMMA LeastExists ==
  ASSUME NEW S \in SUBSET Nat, S # {}
  PROVE  \E i \in S : \A j \in S : i <= j
  <1> DEFINE Less == {ss \in Nat \X Nat : ss[1] < ss[2]}
  <1>1. IsWellFoundedOn(Less, Nat)
    BY NatLessThanWellFounded DEF OpToRel
  <1> HIDE DEF Less
  <1>2. PICK x \in S : \A y \in S : ~ (<<y, x>> \in Less)
    BY <1>1, WFMin
  <1>3. ASSUME NEW y \in S PROVE x <= y
    <2>1. x \in Nat /\ y \in Nat
      OBVIOUS
    <2>2. y < x => <<y, x>> \in Less
      BY <2>1 DEF Less
    <2> QED BY <1>2, <2>1, <2>2
  <1> QED BY <1>3

LEMMA FirstExists ==
  ASSUME NEW S \in SUBSET Nat, S # {}
  PROVE  First(S) \in S
  BY LeastExists DEF First

-----------------------------------------------------------------------------
(* Tables.                                                                 *)

Shaped(d) == d = [name |-> d.name, type |-> d.type, size |-> d.size, cap |-> d.cap, buf |-> d.buf]

Whole(f) ==
  /\ DOMAIN f = {"node", "count", "loaded", "heap"}
  /\ f.node = [i \in Slots |-> f.node[i]] /\ \A i \in Slots : Shaped(f.node[i])
  /\ f.count \in 0 .. MaxNodes /\ f.heap \subseteq Bufs

Owned(f) ==
  \A i \in Live(f) : f.node[i].buf # NoBuf =>
    /\ f.node[i].buf \in f.heap \cup {Static}
    /\ \A j \in Live(f) : f.node[j].buf = f.node[i].buf => j = i

Unique(f) ==
  ~RenameToTaken => \A i, j \in Live(f) : f.node[i].name = f.node[j].name => i = j

Table(f) == Whole(f) /\ Owned(f) /\ Unique(f)

\* Buffer b is allocated and no node has it.
Fresh(f, b) == b \in f.heap /\ \A i \in Live(f) : f.node[i].buf # b

\* Such a buffer is still one after a change of table f to g.
Spared(f, g) == \A x : Fresh(f, x) => Fresh(g, x)

\* Names, buffers and their number are those of f.
SameTable(f, g) ==
  /\ Whole(g) /\ g.count = f.count /\ g.heap = f.heap
  /\ \A i \in Slots : g.node[i].name = f.node[i].name /\ g.node[i].buf = f.node[i].buf

LEMMA LiveSlots ==
  ASSUME NEW f, Whole(f)
  PROVE  /\ Live(f) \subseteq Slots /\ Live(f) = {i \in Slots : i < f.count}
         /\ f.count \in Nat /\ f.count <= MaxNodes /\ (f.count # MaxNodes => f.count \in Slots)
  BY TableAssumption DEF Whole, Live, Slots

LEMMA SameIsTable ==
  ASSUME NEW f, NEW g, Table(f), SameTable(f, g)
  PROVE  Table(g) /\ \A b : Fresh(f, b) => Fresh(g, b)
  <1>1. Live(g) = Live(f) /\ Live(f) \subseteq Slots
    BY LiveSlots DEF Table, SameTable, Live
  <1>2. Owned(g)
    BY <1>1 DEF Table, Owned, SameTable
  <1>3. Unique(g)
    BY <1>1 DEF Table, Unique, SameTable
  <1>4. \A b : Fresh(f, b) => Fresh(g, b)
    BY <1>1 DEF Fresh, SameTable
  <1> QED BY <1>2, <1>3, <1>4 DEF Table, SameTable

\* What is loaded from the disk is no part of the table.
LEMMA LoadedSame ==
  ASSUME NEW f, Table(f), NEW l
  PROVE  SameTable(f, [f EXCEPT !.loaded = l])
  <1> DEFINE g == [f EXCEPT !.loaded = l]
  <1>1. DOMAIN f = {"node", "count", "loaded", "heap"}
    BY DEF Table, Whole
  <1>2. /\ g.node = f.node /\ g.count = f.count /\ g.heap = f.heap
        /\ DOMAIN g = {"node", "count", "loaded", "heap"}
    BY <1>1
  <1> HIDE DEF g
  <1>3. Whole(g)
    BY <1>2 DEF Table, Whole
  <1> QED BY <1>2, <1>3 DEF SameTable, g

LEMMA TableSame ==
  ASSUME NEW f, Table(f)
  PROVE  SameTable(f, f)
  BY DEF Table, SameTable

\* One node with its name and buffer kept.
LEMMA NodeSame ==
  ASSUME NEW f, Table(f), NEW i, NEW d,
         i \in Slots => Shaped(d) /\ d.name = f.node[i].name /\ d.buf = f.node[i].buf
  PROVE  SameTable(f, [f EXCEPT !.node[i] = d])
  <1> DEFINE g == [f EXCEPT !.node[i] = d]
  <1>1. /\ DOMAIN f = {"node", "count", "loaded", "heap"}
        /\ f.node = [j \in Slots |-> f.node[j]]
    BY DEF Table, Whole
  <1>2. /\ g.node = [f.node EXCEPT ![i] = d] /\ g.count = f.count /\ g.heap = f.heap
        /\ DOMAIN g = {"node", "count", "loaded", "heap"}
    BY <1>1
  <1> HIDE DEF g
  <1>3. \A j \in Slots : g.node[j] = IF j = i THEN d ELSE f.node[j]
    BY <1>1, <1>2
  <1>4. g.node = [j \in Slots |-> g.node[j]]
    BY <1>1, <1>2
  <1>5. Whole(g)
    BY <1>2, <1>3, <1>4 DEF Table, Whole
  <1> QED BY <1>2, <1>3, <1>5 DEF SameTable, g

LEMMA SizeSame ==
  ASSUME NEW f, Table(f), NEW at, NEW n
  PROVE  SameTable(f, SetSize(f, at, n))
  <1>1. CASE at[1] = "ram"
    <2>1. PICK i : i = at[2]
      OBVIOUS
    <2> DEFINE d == [f.node[i] EXCEPT !.size = n]
    <2>2. SetSize(f, at, n) = [f EXCEPT !.node[i] = d]
      BY <1>1, <2>1 DEF SetSize
    <2>3. ASSUME i \in Slots
          PROVE  Shaped(d) /\ d.name = f.node[i].name /\ d.buf = f.node[i].buf
      <3>1. Shaped(f.node[i])
        BY <2>3 DEF Table, Whole
      <3> QED BY <3>1 DEF Shaped
    <2> HIDE DEF d
    <2> QED BY <2>2, <2>3, NodeSame
  <1>2. CASE at[1] # "ram"
    <2>1. PICK l : SetSize(f, at, n) = [f EXCEPT !.loaded = l]
      BY <1>2 DEF SetSize
    <2> QED BY <2>1, LoadedSame
  <1> QED BY <1>1, <1>2

LEMMA TypeSame ==
  ASSUME NEW f, Table(f), NEW at, NEW t
  PROVE  SameTable(f, SetType(f, at, t))
  <1>1. CASE at[1] = "ram"
    <2>1. PICK i : i = at[2]
      OBVIOUS
    <2> DEFINE d == [f.node[i] EXCEPT !.type = t]
    <2>2. SetType(f, at, t) = [f EXCEPT !.node[i] = d]
      BY <1>1, <2>1 DEF SetType
    <2>3. ASSUME i \in Slots
          PROVE  Shaped(d) /\ d.name = f.node[i].name /\ d.buf = f.node[i].buf
      <3>1. Shaped(f.node[i])
        BY <2>3 DEF Table, Whole
      <3> QED BY <3>1 DEF Shaped
    <2> HIDE DEF d
    <2> QED BY <2>2, <2>3, NodeSame
  <1>2. CASE at[1] # "ram"
    <2>1. PICK l : SetType(f, at, t) = [f EXCEPT !.loaded = l]
      BY <1>2 DEF SetType
    <2> QED BY <2>1, LoadedSame
  <1> QED BY <1>1, <1>2

-----------------------------------------------------------------------------
(* Looking up, allocating and creating.                                    *)

LEMMA PointersDiffer ==
  \A i : Ram(i) # Nil /\ OnDisk(i) # Nil
  BY DEF Ram, OnDisk, Nil

LEMMA LookupTable ==
  ASSUME NEW f, Table(f), NEW p
  PROVE  /\ SameTable(f, Lookup(f, p).f) /\ Table(Lookup(f, p).f)
         /\ \A b : Fresh(f, b) => Fresh(Lookup(f, p).f, b)
         /\ Lookup(f, p).at = Nil => Match(f, p) = {}
  <1>1. CASE Match(f, p) # {}
    <2>1. Lookup(f, p).f = f /\ Lookup(f, p).at # Nil
      BY <1>1, PointersDiffer DEF Lookup
    <2> QED BY <2>1, TableSame
  <1>2. CASE Match(f, p) = {}
    <2>1. PICK l : Lookup(f, p).f = [f EXCEPT !.loaded = l] \/ Lookup(f, p).f = f
      BY <1>2 DEF Lookup
    <2>2. SameTable(f, Lookup(f, p).f)
      BY <2>1, LoadedSame, TableSame
    <2> QED BY <1>2, <2>2, SameIsTable
  <1> QED BY <1>1, <1>2

\* What a heap that grows or shrinks by a fresh buffer does to the table.
LEMMA HeapTable ==
  ASSUME NEW f, Table(f), NEW H \in SUBSET Bufs,
         \A i \in Live(f) : f.node[i].buf \in f.heap => f.node[i].buf \in H
  PROVE  LET g == [f EXCEPT !.heap = H]
         IN  Table(g) /\ g.heap = H /\ g.node = f.node /\ g.count = f.count
  <1> DEFINE g == [f EXCEPT !.heap = H]
  <1>1. DOMAIN f = {"node", "count", "loaded", "heap"}
    BY DEF Table, Whole
  <1>2. /\ g.node = f.node /\ g.count = f.count /\ g.heap = H
        /\ DOMAIN g = {"node", "count", "loaded", "heap"}
    BY <1>1
  <1> HIDE DEF g
  <1>3. Live(g) = Live(f)
    BY <1>2 DEF Live
  <1>4. Whole(g)
    BY <1>2 DEF Table, Whole
  <1>5. Owned(g)
    BY <1>2, <1>3 DEF Table, Owned
  <1>6. Unique(g)
    BY <1>2, <1>3 DEF Table, Unique
  <1> QED BY <1>2, <1>4, <1>5, <1>6 DEF Table, g

LEMMA AllocTable ==
  ASSUME NEW f, Table(f)
  PROVE  LET a == Alloc(f)
         IN  /\ Table(a.f) /\ (a.buf = NoBuf \/ Fresh(a.f, a.buf))
             /\ \A x : Fresh(f, x) => Fresh(a.f, x) /\ x # a.buf
  <1>1. CASE Bufs \ f.heap = {}
    BY <1>1, TableAssumption DEF Alloc, Fresh, Table, Whole
  <1>2. CASE Bufs \ f.heap # {}
    <2>1. PICK b \in Bufs \ f.heap : Alloc(f) = [f |-> [f EXCEPT !.heap = f.heap \cup {b}], buf |-> b]
      <3>1. DOMAIN f = {"node", "count", "loaded", "heap"}
        BY DEF Table, Whole
      <3>2. (CHOOSE b \in Bufs \ f.heap : TRUE) \in Bufs \ f.heap
        BY <1>2
      <3> QED BY <1>2, <3>1, <3>2 DEF Alloc
    <2>2. f.heap \cup {b} \in SUBSET Bufs
      BY DEF Table, Whole
    <2> DEFINE g == [f EXCEPT !.heap = f.heap \cup {b}]
    <2>3. Table(g) /\ g.heap = f.heap \cup {b} /\ g.node = f.node /\ g.count = f.count
      BY <2>2, HeapTable
    <2> HIDE DEF g
    <2>4. Fresh(g, b)
      <3>1. b # NoBuf /\ b # Static /\ b \notin f.heap
        BY TableAssumption
      <3>2. \A i \in Live(f) : f.node[i].buf # b
        BY <3>1 DEF Table, Owned
      <3> QED BY <2>3, <3>2 DEF Fresh, Live
    <2>5. Alloc(f).f = g /\ Alloc(f).buf = b
      BY <2>1 DEF g
    <2>6. \A x : Fresh(f, x) => Fresh(g, x) /\ x # b
      BY <2>3 DEF Fresh, Live
    <2> QED BY <2>3, <2>4, <2>5, <2>6
  <1> QED BY <1>1, <1>2

\* A buffer that no node has can be given back.
LEMMA FreshBack ==
  ASSUME NEW f, Table(f), NEW b, b = NoBuf \/ Fresh(f, b)
  PROVE  /\ Table([f EXCEPT !.heap = f.heap \ {b}])
         /\ \A x : Fresh(f, x) /\ x # b => Fresh([f EXCEPT !.heap = f.heap \ {b}], x)
  <1>1. f.heap \ {b} \in SUBSET Bufs
    BY DEF Table, Whole
  <1>2. \A i \in Live(f) : f.node[i].buf \in f.heap => f.node[i].buf \in f.heap \ {b}
    BY TableAssumption DEF Fresh, Table, Whole
  <1> DEFINE g == [f EXCEPT !.heap = f.heap \ {b}]
  <1>3. Table(g) /\ g.heap = f.heap \ {b} /\ g.node = f.node /\ g.count = f.count
    BY <1>1, <1>2, HeapTable
  <1> HIDE DEF g
  <1>4. \A x : Fresh(f, x) /\ x # b => Fresh(g, x)
    BY <1>3 DEF Fresh, Live
  <1> QED BY <1>3, <1>4 DEF g

\* A node with a fresh buffer, or none, and a path that is not taken.
LEMMA AddedTable ==
  ASSUME NEW f, Table(f), NEW p, Match(f, p) = {}, NEW b, b = NoBuf \/ Fresh(f, b), NEW c,
         f.count # MaxNodes
  PROVE  /\ Table(Added(f, p, b, c).f) /\ Added(f, p, b, c).at # Nil
         /\ \A x : Fresh(f, x) /\ x # b => Fresh(Added(f, p, b, c).f, x)
  <1> DEFINE d == Node(p, "file", c, b)
             k == f.count
             g == [f EXCEPT !.node[k] = d, !.count = k + 1]
  <1>1. Added(f, p, b, c).f = g /\ Added(f, p, b, c).at = Ram(k)
    <2>1. DOMAIN f = {"node", "count", "loaded", "heap"}
      BY DEF Table, Whole
    <2> QED BY <2>1 DEF Added
  <1>2. /\ DOMAIN f = {"node", "count", "loaded", "heap"}
        /\ f.node = [j \in Slots |-> f.node[j]]
    BY DEF Table, Whole
  <1>3. /\ g.node = [f.node EXCEPT ![k] = d] /\ g.count = k + 1 /\ g.heap = f.heap
        /\ DOMAIN g = {"node", "count", "loaded", "heap"}
    BY <1>2
  <1>4. Shaped(d) /\ d.name = p /\ d.buf = b
    BY DEF Shaped, Node
  <1> HIDE DEF g, d
  <1>5. \A j \in Slots : g.node[j] = IF j = k THEN d ELSE f.node[j]
    BY <1>2, <1>3
  <1>6. g.node = [j \in Slots |-> g.node[j]]
    BY <1>2, <1>3
  <1>7. k \in Nat /\ k \in Slots /\ k + 1 <= MaxNodes /\ Live(f) \subseteq Slots /\ k \notin Live(f)
    BY LiveSlots, TableAssumption DEF Table, Live, Slots
  <1>8. Live(g) = Live(f) \cup {k}
    BY <1>3, <1>7 DEF Live
  <1>9. Whole(g)
    BY <1>3, <1>4, <1>5, <1>6, <1>7, TableAssumption DEF Table, Whole
  <1>10. \A j \in Live(f) : g.node[j] = f.node[j]
    BY <1>5, <1>7
  <1>11. g.node[k] = d
    BY <1>5, <1>7
  <1>12. Owned(g)
    <2>1. ASSUME NEW i \in Live(g), g.node[i].buf # NoBuf
          PROVE  /\ g.node[i].buf \in g.heap \cup {Static}
                 /\ \A j \in Live(g) : g.node[j].buf = g.node[i].buf => j = i
      <3>1. CASE i = k
        <4>1. g.node[i].buf = b /\ Fresh(f, b)
          BY <1>4, <1>11, <2>1, <3>1
        <4> QED BY <1>3, <1>8, <1>10, <3>1, <4>1 DEF Fresh
      <3>2. CASE i # k
        <4>1. i \in Live(f) /\ g.node[i] = f.node[i]
          BY <1>8, <1>10, <3>2
        <4>2. g.node[k].buf # g.node[i].buf
          BY <1>4, <1>11, <2>1, <4>1 DEF Fresh
        <4> QED BY <1>3, <1>8, <1>10, <2>1, <4>1, <4>2 DEF Table, Owned
      <3> QED BY <3>1, <3>2
    <2> QED BY <2>1 DEF Owned
  <1>13. Unique(g)
    <2>1. \A j \in Live(f) : f.node[j].name # p
      BY DEF Match
    <2>2. ASSUME ~RenameToTaken, NEW i \in Live(g), NEW j \in Live(g),
                 g.node[i].name = g.node[j].name
          PROVE  i = j
      <3>1. CASE i \in Live(f) /\ j \in Live(f)
        BY <1>10, <2>2, <3>1 DEF Table, Unique
      <3>2. CASE i = k \/ j = k
        BY <1>4, <1>8, <1>10, <1>11, <2>1, <2>2, <3>2
      <3> QED BY <1>8, <3>1, <3>2
    <2> QED BY <2>2 DEF Unique
  <1>14. \A x : Fresh(f, x) /\ x # b => Fresh(g, x)
    BY <1>3, <1>4, <1>8, <1>10, <1>11 DEF Fresh
  <1> QED BY <1>1, <1>9, <1>12, <1>13, <1>14, PointersDiffer DEF Table

\* create_file() keeps the table sound; when it refuses it has not touched it.
LEMMA CreateTable ==
  ASSUME NEW f, Table(f), NEW p, NEW b, b = NoBuf \/ Fresh(f, b), NEW c
  PROVE  /\ Table(Create(f, p, b, c).f)
         /\ Create(f, p, b, c).at = Nil => Create(f, p, b, c).f = f
         /\ \A x : Fresh(f, x) /\ x # b => Fresh(Create(f, p, b, c).f, x)
  <1>1. CASE f.count = MaxNodes
    BY <1>1 DEF Create
  <1>2. CASE f.count # MaxNodes
    <2> DEFINE o == Lookup(f, p)
    <2>1. /\ SameTable(f, o.f) /\ Table(o.f) /\ (b = NoBuf \/ Fresh(o.f, b)) /\ Spared(f, o.f)
          /\ o.at = Nil => Match(f, p) = {}
      BY LookupTable DEF Spared
    <2>2. CASE o.at # Nil
      BY <1>2, <2>1, <2>2 DEF Create, Spared
    <2>3. CASE o.at = Nil
      <3>1. Create(f, p, b, c) = Added(o.f, p, b, c)
        BY <1>2, <2>3 DEF Create
      <3> HIDE DEF o
      <3>2. o.f.count # MaxNodes
        BY <1>2, <2>1 DEF SameTable
      <3>3. Match(o.f, p) = {}
        <4>1. Match(f, p) = {} /\ Live(o.f) = Live(f) /\ Live(f) \subseteq Slots
          BY <2>1, <2>3, LiveSlots DEF SameTable, Live, Table
        <4> QED BY <2>1, <4>1 DEF Match, SameTable
      <3>4. PICK g : g = o.f /\ Table(g) /\ (b = NoBuf \/ Fresh(g, b)) /\ Match(g, p) = {}
                     /\ g.count # MaxNodes /\ Spared(f, g)
        BY <2>1, <3>2, <3>3
      <3>5. /\ Table(Added(g, p, b, c).f) /\ Added(g, p, b, c).at # Nil
            /\ \A x : Fresh(f, x) /\ x # b => Fresh(Added(g, p, b, c).f, x)
        BY <3>4, AddedTable DEF Spared
      <3> QED BY <3>1, <3>4, <3>5
    <2> QED BY <2>2, <2>3
  <1> QED BY <1>1, <1>2

-----------------------------------------------------------------------------
(* Removing a node.                                                        *)

\* Where the nodes of a table go when node i leaves it.
LEMMA TakeOutMoves ==
  ASSUME NEW f, Table(f), NEW i \in Live(f), NEW g, g = TakeOut(f, i)
  PROVE  /\ DOMAIN g = {"node", "count", "loaded", "heap"} /\ g.node = [j \in Slots |-> g.node[j]]
         /\ g.count = f.count - 1 /\ g.heap = f.heap \ {f.node[i].buf}
         /\ \A j \in Live(g) : j \in Slots /\ j + 1 \in Slots
         /\ \A j \in Live(g) : g.node[j] = f.node[IF i <= j THEN j + 1 ELSE j]
         /\ \A j \in Slots : j \notin Live(g) => g.node[j] = f.node[j]
  <1> DEFINE N == [j \in Slots |-> IF i <= j /\ j < f.count - 1 THEN f.node[j + 1] ELSE f.node[j]]
  <1>1. DOMAIN f = {"node", "count", "loaded", "heap"}
    BY DEF Table, Whole
  <1>2. /\ DOMAIN g = {"node", "count", "loaded", "heap"} /\ g.node = N
        /\ g.count = f.count - 1 /\ g.heap = f.heap \ {f.node[i].buf}
    BY <1>1 DEF TakeOut, Shifted
  <1>3. N = [j \in Slots |-> N[j]]
    OBVIOUS
  <1>4. f.count \in Nat /\ f.count <= MaxNodes /\ MaxNodes \in Nat
    BY LiveSlots, TableAssumption DEF Table
  <1>5. \A j \in Live(g) : j \in Slots /\ j + 1 \in Slots /\ j < f.count - 1
    BY <1>2, <1>4 DEF Live, Slots
  <1>6. \A j \in Slots : j \notin Live(g) => ~(j < f.count - 1)
    BY <1>2, <1>4 DEF Live, Slots
  <1>7. \A j \in Live(g) : g.node[j] = f.node[IF i <= j THEN j + 1 ELSE j]
    BY <1>2, <1>5
  <1>8. \A j \in Slots : j \notin Live(g) => g.node[j] = f.node[j]
    BY <1>2, <1>6
  <1> QED BY <1>2, <1>3, <1>5, <1>7, <1>8

\* The part of it that a turn of the deletion loop relies on.
LEMMA TakenOut ==
  ASSUME NEW f, Table(f), NEW i \in Live(f), NEW g, g = TakeOut(f, i)
  PROVE  g.count = f.count - 1 /\ \A j \in Live(g) : g.node[j] = f.node[IF i <= j THEN j + 1 ELSE j]
  <1> DEFINE old(j) == IF i <= j THEN j + 1 ELSE j
  <1>1. /\ DOMAIN g = {"node", "count", "loaded", "heap"} /\ g.node = [j \in Slots |-> g.node[j]]
        /\ g.count = f.count - 1 /\ g.heap = f.heap \ {f.node[i].buf}
        /\ \A j \in Live(g) : j \in Slots /\ j + 1 \in Slots
        /\ \A j \in Live(g) : g.node[j] = f.node[old(j)]
        /\ \A j \in Slots : j \notin Live(g) => g.node[j] = f.node[j]
    BY TakeOutMoves
  <1> QED BY <1>1

LEMMA TakeOutTable ==
  ASSUME NEW f, Table(f), NEW i \in Live(f)
  PROVE  Table(TakeOut(f, i)) /\ Spared(f, TakeOut(f, i))
  <1> DEFINE old(j) == IF i <= j THEN j + 1 ELSE j
  <1>1. PICK g : g = TakeOut(f, i)
    OBVIOUS
  <1>2. /\ DOMAIN g = {"node", "count", "loaded", "heap"} /\ g.node = [j \in Slots |-> g.node[j]]
        /\ g.count = f.count - 1 /\ g.heap = f.heap \ {f.node[i].buf}
        /\ \A j \in Live(g) : j \in Slots /\ j + 1 \in Slots
        /\ \A j \in Live(g) : g.node[j] = f.node[old(j)]
        /\ \A j \in Slots : j \notin Live(g) => g.node[j] = f.node[j]
    BY <1>1, TakeOutMoves
  <1>3. f.count \in Nat /\ i \in Nat /\ i < f.count /\ f.count <= MaxNodes /\ MaxNodes \in Nat
    BY LiveSlots, TableAssumption DEF Table, Live
  <1>4. \A j \in Live(g) : old(j) \in Live(f) /\ old(j) # i /\ j \in Nat
    BY <1>2, <1>3 DEF Live
  <1>5. \A j, k \in Live(g) : old(j) = old(k) => j = k
    BY <1>3, <1>4
  <1>6. Live(f) \subseteq Slots
    BY LiveSlots DEF Table
  <1> HIDE DEF old
  <1>7. Whole(g)
    <2>1. ASSUME NEW j \in Slots PROVE Shaped(g.node[j])
      <3>1. CASE j \in Live(g)
        BY <1>2, <1>4, <1>6, <3>1 DEF Table, Whole
      <3>2. CASE j \notin Live(g)
        BY <1>2, <3>2 DEF Table, Whole
      <3> QED BY <3>1, <3>2
    <2>2. g.count \in 0 .. MaxNodes
      BY <1>2, <1>3
    <2>3. g.heap \subseteq Bufs
      BY <1>2 DEF Table, Whole
    <2> QED BY <1>2, <2>1, <2>2, <2>3 DEF Whole
  <1>8. Owned(g)
    <2>1. ASSUME NEW j \in Live(g), g.node[j].buf # NoBuf
          PROVE  /\ g.node[j].buf \in g.heap \cup {Static}
                 /\ \A k \in Live(g) : g.node[k].buf = g.node[j].buf => k = j
      <3>1. /\ old(j) \in Live(f) /\ old(j) # i /\ g.node[j] = f.node[old(j)]
        BY <1>2, <1>4
      <3>2. /\ f.node[old(j)].buf \in f.heap \cup {Static}
            /\ \A k \in Live(f) : f.node[k].buf = f.node[old(j)].buf => k = old(j)
        BY <2>1, <3>1 DEF Table, Owned
      <3>3. f.node[i].buf # f.node[old(j)].buf
        BY <3>1, <3>2
      <3>4. ASSUME NEW k \in Live(g), g.node[k].buf = g.node[j].buf PROVE k = j
        <4>1. old(k) = old(j)
          BY <1>2, <1>4, <3>1, <3>2, <3>4
        <4> QED BY <1>5, <4>1
      <3> QED BY <1>2, <3>1, <3>2, <3>3, <3>4
    <2> QED BY <2>1 DEF Owned
  <1>9. Unique(g)
    <2>1. ASSUME ~RenameToTaken, NEW j \in Live(g), NEW k \in Live(g), g.node[j].name = g.node[k].name
          PROVE  j = k
      <3>1. old(j) = old(k)
        <4>1. PICK x \in Live(f), y \in Live(f) : x = old(j) /\ y = old(k)
          BY <1>4
        <4>2. f.node[x].name = f.node[y].name
          BY <1>2, <2>1, <4>1
        <4> QED BY <2>1, <4>1, <4>2 DEF Table, Unique
      <3> QED BY <1>5, <3>1
    <2> QED BY <2>1 DEF Unique
  <1>10. Spared(f, g)
    BY <1>2, <1>4 DEF Spared, Fresh
  <1> QED BY <1>1, <1>7, <1>8, <1>9, <1>10 DEF Table

LEMMA FirstMatch ==
  ASSUME NEW f, Table(f), NEW p, Match(f, p) # {}
  PROVE  First(Match(f, p)) \in Live(f) /\ f.node[First(Match(f, p))].name = p
  <1>1. Match(f, p) \in SUBSET Nat
    BY DEF Match, Live
  <1>2. First(Match(f, p)) \in Match(f, p)
    BY <1>1, FirstExists
  <1> QED BY <1>2 DEF Match

LEMMA TakeOutPathTable ==
  ASSUME NEW f, Table(f), NEW p
  PROVE  Table(TakeOutPath(f, p)) /\ Spared(f, TakeOutPath(f, p))
  <1>1. CASE Match(f, p) = {}
    BY <1>1 DEF TakeOutPath, Spared
  <1>2. CASE Match(f, p) # {}
    <2>1. PICK i \in Live(f) : i = First(Match(f, p))
      BY <1>2, FirstMatch
    <2> QED BY <1>2, <2>1, TakeOutTable DEF TakeOutPath
  <1> QED BY <1>1, <1>2

-----------------------------------------------------------------------------
(* The operations.                                                         *)

LEMMA PlainWriteTable ==
  ASSUME NEW f, Table(f), NEW at, NEW o, NEW n
  PROVE  Table(PlainWrite(f, at, o, n).f) /\ Spared(f, PlainWrite(f, at, o, n).f)
  <1>1. CASE at[1] = "ram"
    <2>1. PICK s : RamWrite(f, at[2], o, n).f = f \/ RamWrite(f, at[2], o, n).f = SetSize(f, Ram(at[2]), s)
      BY DEF RamWrite
    <2>2. Table(RamWrite(f, at[2], o, n).f) /\ Spared(f, RamWrite(f, at[2], o, n).f)
      BY <2>1, SizeSame, SameIsTable DEF Spared
    <2> QED BY <1>1, <2>2 DEF PlainWrite
  <1>2. CASE at[1] # "ram"
    <2>1. PICK l : DiskWrite(f, at[2], o, n).f = f \/ DiskWrite(f, at[2], o, n).f = [f EXCEPT !.loaded = l]
      <3>1. PICK k, len : \/ DiskWrite(f, at[2], o, n).f = f
                          \/ DiskWrite(f, at[2], o, n).f =
                               [f EXCEPT !.loaded[k].size = len, !.loaded[k].info = len]
        BY DEF DiskWrite
      <3>2. [f EXCEPT !.loaded[k].size = len, !.loaded[k].info = len]
              = [f EXCEPT !.loaded = [f.loaded EXCEPT ![k].size = len, ![k].info = len]]
        BY DEF Table, Whole
      <3> QED BY <3>1, <3>2
    <2>2. Table(DiskWrite(f, at[2], o, n).f) /\ Spared(f, DiskWrite(f, at[2], o, n).f)
      BY <2>1, LoadedSame, SameIsTable DEF Spared
    <2> QED BY <1>2, <2>2 DEF PlainWrite
  <1> QED BY <1>1, <1>2

\* A promotion that fails gives its buffer back; one that finds the node in the
\* table keeps the one that node has.
LEMMA PromoteTable ==
  ASSUME NEW f, Table(f), NEW k, NEW o, NEW n
  PROVE  Table(Promote(f, k, o, n).f) /\ Spared(f, Promote(f, k, o, n).f)
  <1>1. PICK a, c, p, s : /\ a = Alloc(f) /\ s = o + n
                          /\ p = <<"disk", f.loaded[k].entry[Len(f.loaded[k].entry)]>>
                          /\ c = Create(a.f, p, a.buf, s)
    OBVIOUS
  <1>2. /\ Table(a.f) /\ (a.buf = NoBuf \/ Fresh(a.f, a.buf))
        /\ \A x : Fresh(f, x) => Fresh(a.f, x) /\ x # a.buf
    BY <1>1, AllocTable
  <1>3. /\ Table(c.f) /\ (c.at = Nil => c.f = a.f)
        /\ \A x : Fresh(f, x) => Fresh(c.f, x) /\ x # a.buf
    BY <1>1, <1>2, CreateTable
  <1>4. CASE a.buf = NoBuf \/ f.loaded[k].size > f.loaded[k].info
    <2>1. Promote(f, k, o, n).f = f
      BY <1>1, <1>4 DEF Promote
    <2> QED BY <2>1 DEF Spared
  <1>5. CASE ~(a.buf = NoBuf \/ f.loaded[k].size > f.loaded[k].info) /\ c.at = Nil
    <2>1. Promote(f, k, o, n).f = [c.f EXCEPT !.heap = c.f.heap \ {a.buf}]
      BY <1>1, <1>5 DEF Promote
    <2>2. Fresh(c.f, a.buf)
      BY <1>2, <1>3, <1>5
    <2> QED BY <1>3, <2>1, <2>2, FreshBack DEF Spared
  <1>6. CASE ~(a.buf = NoBuf \/ f.loaded[k].size > f.loaded[k].info) /\ c.at # Nil
    <2>1. Promote(f, k, o, n) = PlainWrite(SetSize(c.f, c.at, f.loaded[k].size), c.at, o, n)
      BY <1>1, <1>6 DEF Promote
    <2>2. PICK g : g = SetSize(c.f, c.at, f.loaded[k].size) /\ Table(g) /\ Spared(c.f, g)
      BY <1>3, SizeSame, SameIsTable DEF Spared
    <2>3. Table(PlainWrite(g, c.at, o, n).f) /\ Spared(g, PlainWrite(g, c.at, o, n).f)
      BY <2>2, PlainWriteTable
    <2> QED BY <1>3, <2>1, <2>2, <2>3 DEF Spared
  <1> QED BY <1>4, <1>5, <1>6

LEMMA WriteAtTable ==
  ASSUME NEW f, Table(f), NEW at, NEW o, NEW n
  PROVE  Table(WriteAt(f, at, o, n).f) /\ Spared(f, WriteAt(f, at, o, n).f)
  BY PromoteTable, PlainWriteTable DEF WriteAt

LEMMA AddItemTable ==
  ASSUME NEW f, Table(f), NEW p, NEW t, NEW room
  PROVE  Table(AddItem(f, p, t, room)) /\ Spared(f, AddItem(f, p, t, room))
  <1>1. PICK o, a, d, e : /\ o = Lookup(f, p) /\ a = Alloc(o.f) /\ d = Create(o.f, p, NoBuf, 0)
                          /\ e = Create(a.f, p, a.buf, 1)
    OBVIOUS
  <1>2. Table(o.f) /\ Spared(f, o.f)
    BY <1>1, LookupTable DEF Spared
  <1>3. /\ Table(a.f) /\ (a.buf = NoBuf \/ Fresh(a.f, a.buf))
        /\ \A x : Fresh(f, x) => Fresh(a.f, x) /\ x # a.buf
    BY <1>1, <1>2, AllocTable DEF Spared
  <1>4. Table(d.f) /\ Spared(f, d.f)
    <2>1. ~Fresh(o.f, NoBuf)
      BY <1>2, TableAssumption DEF Fresh, Table, Whole
    <2> QED BY <1>1, <1>2, <2>1, CreateTable DEF Spared
  <1>5. Table(e.f) /\ Spared(f, e.f)
    BY <1>1, <1>3, CreateTable DEF Spared
  <1>6. Table(SetType(d.f, d.at, "dir")) /\ Spared(f, SetType(d.f, d.at, "dir"))
    BY <1>4, TypeSame, SameIsTable DEF Spared
  <1>7. AddItem(f, p, t, room) \in {f, o.f, d.f, SetType(d.f, d.at, "dir"), a.f, e.f}
    BY <1>1 DEF AddItem
  <1>8. Spared(f, f) /\ Spared(f, a.f)
    BY <1>3 DEF Spared
  <1> QED BY <1>2, <1>3, <1>4, <1>5, <1>6, <1>7, <1>8

LEMMA PastedTable ==
  ASSUME NEW f, Table(f), NEW src, NEW dest, NEW room
  PROVE  Table(Pasted(f, src, dest, room)) /\ Spared(f, Pasted(f, src, dest, room))
  <1>1. PICK a, c, g, s, ty, r :
          /\ a = Alloc(f) \/ a = [f |-> f, buf |-> NoBuf]
          /\ c = Create(a.f, dest, a.buf, s)
          /\ g = c.f \/ g = SetSize(SetType(c.f, c.at, ty), c.at, r)
          /\ Pasted(f, src, dest, room) = AddItem(g, dest, Deref(g, src).type, room)
    BY ZenonT(60) DEF Pasted
  <1>2. /\ Table(a.f) /\ (a.buf = NoBuf \/ Fresh(a.f, a.buf))
        /\ \A x : Fresh(f, x) => Fresh(a.f, x) /\ x # a.buf
    <2>1. CASE a = Alloc(f)
      BY <2>1, AllocTable
    <2>2. CASE a = [f |-> f, buf |-> NoBuf]
      <3>1. ~Fresh(f, NoBuf)
        BY TableAssumption DEF Fresh, Table, Whole
      <3> QED BY <2>2, <3>1
    <2> QED BY <1>1, <2>1, <2>2
  <1>3. Table(c.f) /\ Spared(f, c.f)
    BY <1>1, <1>2, CreateTable DEF Spared
  <1>4. PICK h : h = SetType(c.f, c.at, ty) /\ Table(h) /\ Spared(f, h)
    BY <1>3, TypeSame, SameIsTable DEF Spared
  <1>5. Table(SetSize(h, c.at, r)) /\ Spared(f, SetSize(h, c.at, r))
    BY <1>4, SizeSame, SameIsTable DEF Spared
  <1>6. Table(g) /\ Spared(f, g)
    BY <1>1, <1>3, <1>4, <1>5
  <1>7. PICK ty2 : Pasted(f, src, dest, room) = AddItem(g, dest, ty2, room)
    BY <1>1
  <1> QED BY <1>6, <1>7, AddItemTable DEF Spared

LEMMA RenamedTable ==
  ASSUME NEW f, Table(f), NEW i, NEW q, RenameToTaken \/ Match(f, q) = {}
  PROVE  Table([f EXCEPT !.node[i].name = q]) /\ Spared(f, [f EXCEPT !.node[i].name = q])
  <1> DEFINE g == [f EXCEPT !.node[i].name = q]
             d == [f.node[i] EXCEPT !.name = q]
  <1>1. DOMAIN f = {"node", "count", "loaded", "heap"} /\ f.node = [j \in Slots |-> f.node[j]]
    BY DEF Table, Whole
  <1>2. /\ DOMAIN g = {"node", "count", "loaded", "heap"} /\ g.node = [f.node EXCEPT ![i] = d]
        /\ g.count = f.count /\ g.heap = f.heap
    BY <1>1
  <1>3. i \in Slots => Shaped(d) /\ d.name = q /\ d.buf = f.node[i].buf
    <2>1. ASSUME i \in Slots PROVE Shaped(f.node[i])
      BY <2>1 DEF Table, Whole
    <2> QED BY <2>1 DEF Shaped
  <1> HIDE DEF g, d
  <1>4. \A j \in Slots : g.node[j] = IF j = i THEN d ELSE f.node[j]
    BY <1>1, <1>2
  <1>5. g.node = [j \in Slots |-> g.node[j]]
    BY <1>1, <1>2
  <1>6. Live(g) = Live(f) /\ Live(f) \subseteq Slots
    BY <1>2, LiveSlots DEF Live, Table
  <1>7. Whole(g)
    BY <1>2, <1>3, <1>4, <1>5 DEF Table, Whole
  <1>8. Owned(g)
    <2>1. \A j \in Live(g) : g.node[j].buf = f.node[j].buf
      BY <1>3, <1>4, <1>6
    <2> QED BY <1>2, <1>6, <2>1 DEF Table, Owned
  <1>9. Unique(g)
    <2>1. ASSUME ~RenameToTaken, NEW j \in Live(g), NEW k \in Live(g), g.node[j].name = g.node[k].name
          PROVE  j = k
      <3>1. \A l \in Live(f) : f.node[l].name # q
        BY <2>1 DEF Match
      <3>2. CASE j = i \/ k = i
        BY <1>3, <1>4, <1>6, <2>1, <3>1, <3>2
      <3>3. CASE j # i /\ k # i
        BY <1>4, <1>6, <2>1, <3>3 DEF Table, Unique
      <3> QED BY <3>2, <3>3
    <2> QED BY <2>1 DEF Unique
  <1>10. Spared(f, g)
    BY <1>2, <1>3, <1>4, <1>6 DEF Spared, Fresh
  <1> QED BY <1>7, <1>8, <1>9, <1>10 DEF Table, g

-----------------------------------------------------------------------------
(* The invariant.                                                          *)

\* What the loop over the table has passed is not in the folder.
DoomSound ==
  /\ DOMAIN doomed = {"dir", "i"} /\ doomed.i \in Nat
  /\ \A j \in Live(fs) : j < doomed.i => ~Under(fs.node[j].name, doomed.dir)

\* The player's buffer is allocated, and no node has it.
PlayerSound == song = NoBuf \/ Fresh(fs, song)

IInv == Table(fs) /\ PlayerSound /\ DoomSound

LEMMA InitIInv ==
  ASSUME Init
  PROVE  IInv
  <1> DEFINE N == [i \in Slots |-> IF i = 0
                       THEN [Node(BootFile, "file", 1, Static) EXCEPT !.size = 1]
                       ELSE Node(NoPath, "file", 0, NoBuf)]
  <1>1. /\ DOMAIN fs = {"node", "count", "loaded", "heap"} /\ fs.node = N /\ fs.count = 1
        /\ fs.heap = {}
    BY DEF Init
  <1>2. MaxNodes \in Nat /\ MaxNodes >= 1 /\ 0 \in Slots
    BY TableAssumption DEF Slots
  <1>3. N = [i \in Slots |-> N[i]] /\ \A i \in Slots : Shaped(N[i])
    BY DEF Node, Shaped
  <1>4. N[0].buf = Static
    BY <1>2 DEF Node
  <1> HIDE DEF N
  <1>5. Live(fs) = {0}
    BY <1>1 DEF Live
  <1>6. Table(fs)
    BY <1>1, <1>2, <1>3, <1>4, <1>5 DEF Table, Whole, Owned, Unique
  <1>7. DoomSound
    BY <1>5 DEF Init, NoDoom, DoomSound
  <1> QED BY <1>6, <1>7 DEF Init, IInv, PlayerSound

\* While no folder is under deletion the table may change in any sound way.
LEMMA QuietStep ==
  ASSUME IInv, Quiet, Table(fs'), doomed' = doomed,
         song' = NoBuf \/ Fresh(fs', song') \/ (song' = song /\ Spared(fs, fs'))
  PROVE  IInv'
  <1>1. DOMAIN doomed = {"dir", "i"} /\ doomed.i = 0
    BY DEF Quiet, NoDoom
  <1>2. \A j \in Live(fs') : ~(j < 0)
    BY DEF Live
  <1>3. PlayerSound'
    BY DEF IInv, PlayerSound, Spared
  <1> QED BY <1>1, <1>2, <1>3 DEF IInv, DoomSound

LEMMA ProgramStep ==
  ASSUME IInv, NEW h \in Handles,
         \/ Close(h)
         \/ \E p \in Files : Open(h, p)
         \/ \E o \in 0 .. MaxSize - 1 : \E n \in 1 .. MaxSize - o : Write(h, o, n)
  PROVE  IInv'
  <1>1. PICK f : f = fs /\ Table(f)
    BY DEF IInv
  <1>2. CASE Close(h)
    BY <1>1, <1>2, QuietStep DEF Close, IInv, Spared
  <1>3. ASSUME NEW p \in Files, Open(h, p) PROVE IInv'
    <2>1. fs' = Lookup(f, p).f /\ Quiet /\ doomed' = doomed /\ song' = song
      BY <1>1, <1>3 DEF Open
    <2> QED BY <1>1, <2>1, LookupTable, QuietStep DEF Spared
  <1>4. ASSUME NEW o, NEW n, Write(h, o, n) PROVE IInv'
    <2>1. fs' = WriteAt(f, open[h], o, n).f /\ Quiet /\ doomed' = doomed /\ song' = song
      BY <1>1, <1>4 DEF Write
    <2>2. Table(WriteAt(f, open[h], o, n).f) /\ Spared(f, WriteAt(f, open[h], o, n).f)
      BY <1>1, WriteAtTable
    <2> QED BY <1>1, <2>1, <2>2, QuietStep
  <1> QED BY <1>2, <1>3, <1>4

LEMMA SaveStep ==
  ASSUME IInv, NEW p \in Files, NEW n, Save(p, n)
  PROVE  IInv'
  <1>1. PICK f, o : f = fs /\ Table(f) /\ o = Lookup(f, p)
    BY DEF IInv
  <1>2. Quiet /\ doomed' = doomed /\ song' = song /\ (fs' = o.f \/ fs' = WriteAt(o.f, o.at, 0, n).f)
    BY <1>1 DEF Save
  <1>3. Table(o.f) /\ Spared(f, o.f)
    BY <1>1, LookupTable DEF Spared
  <1>4. Table(WriteAt(o.f, o.at, 0, n).f) /\ Spared(f, WriteAt(o.f, o.at, 0, n).f)
    BY <1>3, WriteAtTable DEF Spared
  <1> QED BY <1>1, <1>2, <1>3, <1>4, QuietStep

\* A Finder window and the player's notes are only looked up.
LEMMA LookStep ==
  ASSUME IInv, NEW p \in Files, Browse(p) \/ PlayNotes(p)
  PROVE  IInv'
  <1>1. PICK f : f = fs /\ Table(f)
    BY DEF IInv
  <1>2. fs' = Lookup(f, p).f /\ Quiet /\ doomed' = doomed /\ song' = song
    BY <1>1 DEF Browse, PlayNotes
  <1> QED BY <1>1, <1>2, LookupTable, QuietStep DEF Spared

\* The player gives its buffer back before it takes another.
LEMMA SoundStep ==
  ASSUME IInv, ClosePlayer \/ \E p, kind : PlaySound(p, kind)
  PROVE  IInv'
  <1>1. PICK f, b : f = fs /\ b = song /\ Table(f) /\ (b = NoBuf \/ Fresh(f, b))
    BY DEF IInv, PlayerSound
  <1>2. ASSUME NEW g, Table(g), b = NoBuf \/ Fresh(g, b)
        PROVE  Table(Silenced(g))
    <2>1. Silenced(g) = [g EXCEPT !.heap = g.heap \ {b}]
      BY <1>1 DEF Silenced
    <2>2. Table([g EXCEPT !.heap = g.heap \ {b}])
      BY <1>2, FreshBack
    <2> QED BY <2>1, <2>2
  <1>3. ASSUME NEW p, NEW kind, PlaySound(p, kind) PROVE IInv'
    <2>1. PICK o, h, a : o = Lookup(f, p) /\ h = Silenced(o.f) /\ a = Alloc(h)
      OBVIOUS
    <2>2. Table(o.f) /\ Spared(f, o.f)
      BY <1>1, <2>1, LookupTable DEF Spared
    <2>3. Table(h)
      BY <1>1, <1>2, <2>1, <2>2 DEF Spared
    <2>4. Table(a.f) /\ (a.buf = NoBuf \/ Fresh(a.f, a.buf))
      BY <2>1, <2>3, AllocTable
    <2>5. /\ Quiet /\ doomed' = doomed
          /\ \/ fs' = o.f /\ song' = song
             \/ fs' = a.f /\ song' = a.buf
             \/ fs' = h /\ song' = NoBuf
      BY <1>1, <1>3, <2>1 DEF PlaySound
    <2> QED BY <1>1, <2>2, <2>3, <2>4, <2>5, QuietStep
  <1>4. CASE ClosePlayer
    BY <1>1, <1>2, <1>4, QuietStep DEF ClosePlayer
  <1> QED BY <1>3, <1>4

LEMMA NewItemStep ==
  ASSUME IInv, NEW p \in Items, NEW t, NewItem(p, t)
  PROVE  IInv'
  <1>1. PICK f : f = fs /\ Table(f)
    BY DEF IInv
  <1>2. fs' = AddItem(f, p, t, TRUE) /\ Quiet /\ doomed' = doomed /\ song' = song
    BY <1>1 DEF NewItem
  <1> QED BY <1>1, <1>2, AddItemTable, QuietStep

LEMMA DeleteStep ==
  ASSUME IInv, NEW p \in Items, NEW t, Delete(p, t)
  PROVE  IInv'
  <1>1. PICK f : f = fs /\ Table(f)
    BY DEF IInv
  <1>2. fs' = TakeOutPath(f, p) /\ song' = song /\ doomed'.i = 0 /\ DOMAIN doomed' = {"dir", "i"}
    BY <1>1 DEF Delete, NoDoom
  <1>3. Table(fs') /\ Spared(fs, fs')
    BY <1>1, <1>2, TakeOutPathTable
  <1>4. \A j \in Live(fs') : ~(j < 0)
    BY DEF Live
  <1>5. PlayerSound'
    BY <1>2, <1>3 DEF IInv, PlayerSound, Spared
  <1> QED BY <1>2, <1>3, <1>4, <1>5 DEF IInv, DoomSound

LEMMA RenameStep ==
  ASSUME IInv, NEW p \in Items, NEW q \in Items, Rename(p, q)
  PROVE  IInv'
  <1>1. PICK f : f = fs /\ Table(f)
    BY DEF IInv
  <1>2. PICK i : /\ fs' = [f EXCEPT !.node[i].name = q] /\ Quiet /\ doomed' = doomed /\ song' = song
                 /\ RenameToTaken \/ Match(f, q) = {}
    BY <1>1 DEF Rename
  <1> QED BY <1>1, <1>2, RenamedTable, QuietStep

LEMMA PasteStep ==
  ASSUME IInv, NEW p, NEW q, NEW cut, NEW room, Paste(p, cut, q, room)
  PROVE  IInv'
  <1>1. PICK f, o, g : /\ f = fs /\ Table(f) /\ o = Lookup(f, p)
                       /\ g = Pasted(TakeOutPath(o.f, q), o.at, q, room)
    BY DEF IInv
  <1>2. fs' \in {o.f, g, TakeOutPath(g, p)} /\ Quiet /\ doomed' = doomed /\ song' = song
    BY <1>1 DEF Paste
  <1>3. Table(o.f) /\ Spared(f, o.f)
    BY <1>1, LookupTable DEF Spared
  <1>4. PICK h : h = TakeOutPath(o.f, q) /\ Table(h) /\ Spared(f, h)
    BY <1>3, TakeOutPathTable DEF Spared
  <1>5. Table(g) /\ Spared(f, g)
    BY <1>1, <1>4, PastedTable DEF Spared
  <1>6. Table(TakeOutPath(g, p)) /\ Spared(f, TakeOutPath(g, p))
    BY <1>5, TakeOutPathTable DEF Spared
  <1> QED BY <1>1, <1>2, <1>3, <1>5, <1>6, QuietStep

\* One turn: the nodes outside the folder stay, and what the loop has passed is
\* outside, though the table moves under it.
LEMMA TurnStep ==
  ASSUME IInv, Turn
  PROVE  /\ IInv'
         /\ \A d \in Outside : \E i \in Live(fs') : fs'.node[i] = d
         /\ Quiet' => \A i \in Live(fs) : ~Under(fs.node[i].name, doomed.dir)
  <1>0. song' = song
    BY DEF Turn
  <1>1. PICK f, dir, n : /\ f = fs /\ dir = doomed.dir /\ n = doomed.i /\ Table(f) /\ n \in Nat
                         /\ DOMAIN doomed = {"dir", "i"}
                         /\ \A j \in Live(f) : j < n => ~Under(f.node[j].name, dir)
    BY DEF IInv, DoomSound
  <1>2. f.count \in Nat /\ \A j : j \in Live(f) <=> j \in Nat /\ j < f.count
    BY <1>1, LiveSlots DEF Table, Live
  <1>3. CASE n >= f.count
    <2>1. fs' = fs /\ doomed' = NoDoom
      BY <1>1, <1>3 DEF Turn
    <2>2. \A i \in Live(f) : ~Under(f.node[i].name, dir)
      BY <1>1, <1>2, <1>3
    <2>3. DoomSound'
      <3>1. DOMAIN NoDoom = {"dir", "i"} /\ NoDoom.i = 0
        BY DEF NoDoom
      <3>2. \A j \in Live(fs') : ~(j < 0)
        BY <1>1, <1>2, <2>1
      <3> QED BY <2>1, <3>1, <3>2 DEF DoomSound
    <2> QED BY <1>0, <1>1, <2>1, <2>2, <2>3 DEF IInv, Outside, PlayerSound
  <1>4. CASE n < f.count /\ Under(f.node[n].name, dir)
    <2>1. n \in Live(f)
      BY <1>1, <1>2, <1>4
    <2>2. PICK g : g = TakeOut(f, n) /\ g = fs' /\ doomed' = doomed
      BY <1>1, <1>2, <1>4 DEF Turn
    <2>3. Table(g) /\ Spared(f, g)
      BY <1>1, <2>1, <2>2, TakeOutTable
    <2>4. /\ g.count = f.count - 1
          /\ \A j \in Live(g) : g.node[j] = f.node[IF n <= j THEN j + 1 ELSE j]
      <3>1. PICK k \in Live(f) : k = n
        BY <2>1
      <3>2. /\ g.count = f.count - 1
            /\ \A j \in Live(g) : g.node[j] = f.node[IF k <= j THEN j + 1 ELSE j]
        <4>1. g = TakeOut(f, k)
          BY <2>2, <3>1
        <4>2. Table(f)
          BY <1>1
        <4> QED BY <4>1, <4>2, TakenOut
      <3> QED BY <3>1, <3>2
    <2>5. \A j : j \in Live(g) <=> j \in Nat /\ j < f.count - 1
      BY <1>2, <2>4 DEF Live
    <2>6. DoomSound'
      <3>1. ASSUME NEW j \in Live(g), j < n PROVE ~Under(g.node[j].name, dir)
        <4>1. j \in Live(f) /\ ~(n <= j)
          BY <1>1, <1>2, <2>5, <3>1
        <4>2. g.node[j] = f.node[j]
          BY <2>4, <4>1
        <4> QED BY <1>1, <3>1, <4>1, <4>2
      <3> QED BY <1>1, <2>2, <3>1 DEF DoomSound
    <2>7. ASSUME NEW i \in Live(f), ~Under(f.node[i].name, dir)
          PROVE  \E j \in Live(g) : g.node[j] = f.node[i]
      <3>1. i # n /\ i \in Nat /\ i < f.count
        BY <1>2, <1>4, <2>7
      <3>2. CASE i < n
        <4>1. i \in Live(g) /\ ~(n <= i)
          BY <1>1, <1>2, <1>4, <2>5, <3>1, <3>2
        <4> QED BY <2>4, <4>1
      <3>3. CASE i > n
        <4>1. PICK j \in Nat : j = i - 1 /\ j + 1 = i /\ n <= j /\ j < f.count - 1
          BY <1>1, <1>2, <3>1, <3>3
        <4>2. j \in Live(g)
          BY <2>5, <4>1
        <4>3. g.node[j] = f.node[i]
          BY <2>4, <4>1, <4>2
        <4> QED BY <4>2, <4>3
      <3> QED BY <1>1, <3>1, <3>2, <3>3
    <2>8. \A d \in Outside : \E i \in Live(fs') : fs'.node[i] = d
      BY <1>1, <2>2, <2>7 DEF Outside
    <2>9. ~Quiet'
      BY <2>2 DEF Turn, Quiet
    <2>10. PlayerSound'
      BY <1>0, <1>1, <2>2, <2>3 DEF IInv, PlayerSound, Spared
    <2> QED BY <2>2, <2>3, <2>6, <2>8, <2>9, <2>10 DEF IInv
  <1>5. CASE n < f.count /\ ~Under(f.node[n].name, dir)
    <2>1. fs' = fs /\ doomed' = [doomed EXCEPT !.i = n + 1]
      BY <1>1, <1>2, <1>5 DEF Turn
    <2>2. DOMAIN doomed' = {"dir", "i"} /\ doomed'.i = n + 1 /\ doomed'.dir = dir
      BY <1>1, <2>1
    <2>3. ~Quiet'
      <3>1. n + 1 # 0
        BY <1>1
      <3> QED BY <2>2, <3>1 DEF Quiet, NoDoom
    <2>4. DoomSound'
      <3>1. ASSUME NEW j \in Live(f), j < n + 1 PROVE ~Under(f.node[j].name, dir)
        <4>1. j < n \/ j = n
          BY <1>1, <1>2, <3>1
        <4> QED BY <1>1, <1>5, <4>1
      <3> QED BY <1>1, <2>1, <2>2, <3>1 DEF DoomSound
    <2> QED BY <1>0, <1>1, <2>1, <2>3, <2>4 DEF IInv, Outside, PlayerSound
  <1> QED BY <1>1, <1>2, <1>3, <1>4, <1>5

LEMMA NextIInv ==
  ASSUME IInv, [Next]_vars
  PROVE  IInv'
  <1>1. CASE UNCHANGED vars
    BY <1>1 DEF vars, IInv, DoomSound, PlayerSound
  <1>2. CASE Turn
    BY <1>2, TurnStep
  <1>3. CASE ClosePlayer \/ \E p \in Files, kind \in {"short", "sound", "other"} : PlaySound(p, kind)
    BY <1>3, SoundStep
  <1>4. CASE \E h \in Handles : \/ Close(h) \/ \E p \in Files : Open(h, p)
                               \/ \E o \in 0 .. MaxSize - 1 : \E n \in 1 .. MaxSize - o : Write(h, o, n)
    BY <1>4, ProgramStep
  <1>5. CASE \/ \E p \in Files, n \in 1 .. MaxSize : Save(p, n)
             \/ \E p \in Files : Browse(p) \/ PlayNotes(p)
    BY <1>5, SaveStep, LookStep
  <1>6. CASE \/ \E p \in Items, t \in {"file", "dir"} : NewItem(p, t) \/ Delete(p, t)
             \/ \E p, q \in Items : Rename(p, q)
             \/ \E p \in Items \cup Files, q \in Items, cut, room \in BOOLEAN : Paste(p, cut, q, room)
    BY <1>6, NewItemStep, DeleteStep, RenameStep, PasteStep
  <1> QED BY <1>1, <1>2, <1>3, <1>4, <1>5, <1>6 DEF Next

\* The inductive invariant of the node table and of the deletion loop.
THEOREM Invariance == Spec => []IInv
  <1> QED BY InitIInv, NextIInv, PTL DEF Spec

\* Whatever files are made, renamed, copied, moved and deleted in whatever
\* order, and whatever of it fails: one buffer per file, one node per path.
THEOREM TableCorrect == Spec => []TableSound
  <1>1. IInv => TableSound
    BY DEF IInv, Table, Owned, Unique, TableSound, BuffersOwned, PathsUnique, PlayerSound, Fresh
  <1> QED BY <1>1, Invariance, PTL

\* Only the loop itself runs while a folder is under deletion.
LEMMA OnlyTurn ==
  ASSUME Next, ~Quiet
  PROVE  Turn
  BY DEF Next, Close, Open, Write, Save, Browse, PlayNotes, PlaySound, ClosePlayer, NewItem,
         Delete, Rename, Paste

\* Deleting a folder removes what lies in it and nothing else.
THEOREM DeletionCorrect == Spec => TreeDeleted
  <1>1. ASSUME IInv, [Next]_vars
        PROVE  [~Quiet => /\ \A d \in Outside : \E i \in Live(fs') : fs'.node[i] = d
                          /\ Quiet' => \A i \in Live(fs) : ~Under(fs.node[i].name, doomed.dir)]_vars
    BY <1>1, OnlyTurn, TurnStep
  <1> QED BY <1>1, Invariance, PTL DEF Spec, TreeDeleted

-----------------------------------------------------------------------------
(* Types, and what is loaded from the disk.                                *)

LoadedNode == [entry : Entries, type : {"file", "dir"}, size : Nat, info : Nat]

Typed(f) ==
  /\ \A i \in Slots : /\ f.node[i].type \in {"file", "dir"} /\ f.node[i].size \in Nat
                      /\ f.node[i].cap \in Nat /\ f.node[i].buf \in Bufs \cup {NoBuf, Static}
  /\ f.loaded \in Seq(LoadedNode) /\ Len(f.loaded) <= MaxLoaded

\* A pointer of a File.
Points(f, at) ==
  at = Nil \/ (\E i \in Slots : at = Ram(i)) \/ \E k \in 1 .. Len(f.loaded) : at = OnDisk(k)

\* A contiguous file that is loaded has the size it has on the disk.
Exact(ld) ==
  \A k \in 1 .. Len(ld) : DiskEntry[ld[k].entry].contiguous =>
    ld[k].size = ld[k].info /\ ld[k].info = Len(DiskEntry[ld[k].entry].chain)

\* From f to g types are kept and what pointers point to stays loaded.
Grown(f, g) ==
  /\ Typed(g) /\ Len(f.loaded) <= Len(g.loaded)
  /\ Sheltered /\ Exact(f.loaded) => Exact(g.loaded)

LEMMA GrownOn ==
  ASSUME NEW f, Typed(f), NEW g, Grown(f, g), NEW h, Grown(g, h)
  PROVE  Grown(f, h)
  <1>1. Len(f.loaded) \in Nat /\ Len(g.loaded) \in Nat /\ Len(h.loaded) \in Nat
    BY LenProperties DEF Grown, Typed
  <1> QED BY <1>1 DEF Grown

LEMMA GrownSelf ==
  ASSUME NEW f, Typed(f)
  PROVE  Grown(f, f)
  BY LenProperties DEF Grown, Typed

LEMMA PointsOn ==
  ASSUME NEW f, Typed(f), NEW g, Grown(f, g), NEW at, Points(f, at)
  PROVE  Points(g, at)
  <1>1. Len(f.loaded) \in Nat /\ Len(g.loaded) \in Nat /\ Len(f.loaded) <= Len(g.loaded)
    BY LenProperties DEF Grown, Typed
  <1>2. \A k \in 1 .. Len(f.loaded) : k \in 1 .. Len(g.loaded)
    BY <1>1
  <1> QED BY <1>2 DEF Points

\* The same nodes loaded, and every node in a slot one that was in some slot.
LEMMA SameLoaded ==
  ASSUME NEW f, Typed(f), NEW g, g.loaded = f.loaded,
         \A i \in Slots : \E j \in Slots : g.node[i] = f.node[j]
  PROVE  Grown(f, g)
  <1>1. Typed(g)
    BY DEF Typed
  <1>2. Len(f.loaded) \in Nat
    BY LenProperties DEF Typed
  <1> QED BY <1>1, <1>2 DEF Grown

\* How far the walk along a path has come.
Walked(ld, w) ==
  /\ DOMAIN w = {"dir", "at", "loaded"}
  /\ w.loaded \in Seq(LoadedNode) /\ Len(w.loaded) <= MaxLoaded /\ Len(ld) <= Len(w.loaded)
  /\ Exact(ld) => Exact(w.loaded)
  /\ w.at = Nil \/ \E k \in 1 .. Len(w.loaded) : w.at = OnDisk(k)

LEMMA ComponentWalks ==
  ASSUME NEW ld \in Seq(LoadedNode), NEW w, Walked(ld, w), NEW c
  PROVE  Walked(ld, Component(w, c))
  <1> DEFINE e == Append(w.dir, c)
             known == {k \in 1 .. Len(w.loaded) : /\ w.loaded[k].type = DiskEntry[e].type
                                                  /\ w.loaded[k].entry[Len(w.loaded[k].entry)] = c}
             size == Len(DiskEntry[e].chain)
             new == [entry |-> e, type |-> DiskEntry[e].type, size |-> size, info |-> size]
             v == [w EXCEPT !.loaded = Append(@, new)]
  <1>1. /\ DOMAIN w = {"dir", "at", "loaded"} /\ w.loaded \in Seq(LoadedNode)
        /\ Len(w.loaded) \in Nat /\ Len(ld) \in Nat /\ MaxLoaded \in Nat
    BY LenProperties, DiskAssumption DEF Walked
  <1>2. ASSUME NEW u, Walked(ld, u), NEW k \in 1 .. Len(u.loaded)
        PROVE  Walked(ld, Reached(u, k))
    <2>1. /\ DOMAIN Reached(u, k) = {"dir", "at", "loaded"}
          /\ Reached(u, k).loaded = u.loaded /\ Reached(u, k).at = OnDisk(k)
      BY <1>2 DEF Reached, Walked
    <2> QED BY <1>2, <2>1 DEF Walked
  <1>3. CASE w.dir = NoPath \/ e \notin Entries \/ (known = {} /\ Len(w.loaded) = MaxLoaded)
    <2>1. Component(w, c) = Missing(w)
      BY <1>3 DEF Component
    <2>2. /\ DOMAIN Missing(w) = {"dir", "at", "loaded"}
          /\ Missing(w).loaded = w.loaded /\ Missing(w).at = Nil
      BY <1>1 DEF Missing
    <2> QED BY <2>1, <2>2 DEF Walked
  <1>4. CASE ~(w.dir = NoPath \/ e \notin Entries) /\ known # {}
    <2>1. Component(w, c) = Reached(w, First(known))
      BY <1>4 DEF Component
    <2>2. known \in SUBSET Nat
      BY <1>1
    <2>3. First(known) \in known
      BY <1>4, <2>2, FirstExists
    <2>4. First(known) \in 1 .. Len(w.loaded)
      BY <2>3
    <2> QED BY <1>2, <2>1, <2>4
  <1>5. CASE ~(w.dir = NoPath \/ e \notin Entries) /\ known = {} /\ Len(w.loaded) # MaxLoaded
    <2>1. Component(w, c) = Reached(v, Len(w.loaded) + 1)
      BY <1>5 DEF Component
    <2>2. e \in Entries /\ DiskEntry[e].type \in {"file", "dir"} /\ size \in Nat
      BY <1>5, LenProperties, DiskAssumption
    <2>3. new \in LoadedNode /\ new.entry = e /\ new.size = size /\ new.info = size
      BY <2>2 DEF LoadedNode
    <2>4. DOMAIN v = {"dir", "at", "loaded"} /\ v.loaded = Append(w.loaded, new) /\ v.at = w.at
      BY <1>1
    <2> HIDE DEF new, v
    <2>5. /\ v.loaded \in Seq(LoadedNode) /\ Len(v.loaded) = Len(w.loaded) + 1
          /\ \A k \in 1 .. Len(w.loaded) : v.loaded[k] = w.loaded[k]
          /\ v.loaded[Len(w.loaded) + 1] = new
      BY <1>1, <2>3, <2>4, AppendProperties
    <2>6. Exact(ld) => Exact(v.loaded)
      <3>1. SUFFICES ASSUME Exact(w.loaded), NEW k \in 1 .. Len(v.loaded),
                            DiskEntry[v.loaded[k].entry].contiguous
                     PROVE  /\ v.loaded[k].size = v.loaded[k].info
                            /\ v.loaded[k].info = Len(DiskEntry[v.loaded[k].entry].chain)
        BY DEF Exact, Walked
      <3>2. CASE k = Len(w.loaded) + 1
        BY <2>3, <2>5, <3>2
      <3>3. CASE k # Len(w.loaded) + 1
        <4>1. k \in 1 .. Len(w.loaded)
          BY <1>1, <2>5, <3>3
        <4> QED BY <2>5, <3>1, <4>1 DEF Exact
      <3> QED BY <3>2, <3>3
    <2>7. Len(v.loaded) <= MaxLoaded /\ Len(ld) <= Len(v.loaded)
      BY <1>1, <1>5, <2>5 DEF Walked
    <2>8. \A k \in 1 .. Len(w.loaded) : k \in 1 .. Len(v.loaded)
      BY <1>1, <2>5
    <2>9. Walked(ld, v)
      BY <2>4, <2>5, <2>6, <2>7, <2>8 DEF Walked
    <2>10. Len(w.loaded) + 1 \in 1 .. Len(v.loaded)
      BY <1>1, <2>5
    <2> QED BY <1>2, <2>1, <2>9, <2>10
  <1> QED BY <1>3, <1>4, <1>5

\* finddir(): the walk, a recursive function, exists for every path and stays
\* within the types.
Start(ld, p) == [dir |-> <<p[1]>>, at |-> Nil, loaded |-> ld]
IsWalk(g, ld, p, n) ==
  g = [i \in 1 .. n |-> IF i = 1 THEN Start(ld, p) ELSE Component(g[i - 1], p[i])]

LEMMA WalkExists ==
  ASSUME NEW ld, NEW p, NEW n \in Nat
  PROVE  \E g : IsWalk(g, ld, p, n)
  <1> DEFINE Bad == {m \in Nat : ~\E g : IsWalk(g, ld, p, m)}
  <1>1. SUFFICES ASSUME Bad # {} PROVE FALSE
    OBVIOUS
  <1>2. PICK m \in Bad : \A j \in Bad : m <= j
    <2>1. Bad \in SUBSET Nat
      OBVIOUS
    <2> HIDE DEF Bad
    <2> QED BY <1>1, <2>1, LeastExists
  <1>3. m # 0
    <2> DEFINE g == [i \in 1 .. 0 |-> Nil]
    <2>1. IsWalk(g, ld, p, 0)
      BY DEF IsWalk
    <2> QED BY <1>2, <2>1
  <1>4. m - 1 \in Nat /\ m - 1 \notin Bad
    BY <1>2, <1>3
  <1>5. PICK g : IsWalk(g, ld, p, m - 1)
    BY <1>4
  <1> DEFINE h == [i \in 1 .. m |-> IF i = 1 THEN Start(ld, p) ELSE Component(g[i - 1], p[i])]
  <1>6. \A i \in 1 .. m - 1 : h[i] = g[i]
    BY <1>4, <1>5 DEF IsWalk
  <1>7. \A i \in 1 .. m : i # 1 => i - 1 \in 1 .. m - 1
    BY <1>4
  <1>8. h = [i \in 1 .. m |-> IF i = 1 THEN Start(ld, p) ELSE Component(h[i - 1], p[i])]
    BY <1>6, <1>7
  <1> HIDE DEF h
  <1>9. IsWalk(h, ld, p, m)
    BY <1>8 DEF IsWalk
  <1> QED BY <1>2, <1>9

\* The last component's walk.
LEMMA FinddirWalks ==
  ASSUME NEW ld \in Seq(LoadedNode), Len(ld) <= MaxLoaded, NEW p, Len(p) \in Nat \ {0}
  PROVE  /\ Walked(ld, Finddir(ld, p))
         /\ Len(p) = 2 => Finddir(ld, p) = Component(Start(ld, p), p[2])
  <1> DEFINE n == Len(p)
             g == CHOOSE x : IsWalk(x, ld, p, n)
  <1>1. IsWalk(g, ld, p, n)
    BY WalkExists
  <1>2. Finddir(ld, p) = g[n]
    BY DEF Finddir, IsWalk, Start
  <1> HIDE DEF g
  <1>3. /\ 1 \in 1 .. n => g[1] = Start(ld, p)
        /\ \A i \in 1 .. n : i # 1 => g[i] = Component(g[i - 1], p[i])
    BY <1>1 DEF IsWalk
  <1>4. Walked(ld, Start(ld, p))
    <2>1. /\ DOMAIN Start(ld, p) = {"dir", "at", "loaded"} /\ Start(ld, p).loaded = ld
          /\ Start(ld, p).at = Nil
      BY DEF Start
    <2> QED BY <2>1, LenProperties DEF Walked
  <1> DEFINE Bad == {i \in 1 .. n : ~Walked(ld, g[i])}
  <1>5. Bad = {}
    <2>1. SUFFICES ASSUME Bad # {} PROVE FALSE
      OBVIOUS
    <2>2. PICK i \in Bad : \A j \in Bad : i <= j
      <3>1. Bad \in SUBSET Nat
        OBVIOUS
      <3> HIDE DEF Bad
      <3> QED BY <2>1, <3>1, LeastExists
    <2>3. i \in 1 .. n /\ ~Walked(ld, g[i])
      BY <2>2
    <2>4. i # 1
      BY <1>3, <1>4, <2>3
    <2>5. i - 1 \in 1 .. n /\ i - 1 \notin Bad
      BY <2>2, <2>3, <2>4
    <2>6. Walked(ld, g[i - 1])
      BY <2>5
    <2>7. Walked(ld, Component(g[i - 1], p[i]))
      BY <2>6, ComponentWalks
    <2> QED BY <1>3, <2>3, <2>4, <2>7
  <1>6. n \in 1 .. n
    OBVIOUS
  <1>7. Walked(ld, g[n])
    BY <1>5, <1>6
  <1>8. n = 2 => g[n] = Component(Start(ld, p), p[2])
    <2>1. ASSUME n = 2 PROVE g[2] = Component(g[1], p[2]) /\ g[1] = Start(ld, p)
      <3>1. 1 \in 1 .. n /\ 2 \in 1 .. n /\ 2 # 1 /\ 2 - 1 = 1
        BY <2>1
      <3>2. g[2] = Component(g[2 - 1], p[2])
        BY <1>3, <3>1
      <3> QED BY <1>3, <3>1, <3>2
    <2> QED BY <2>1
  <1> QED BY <1>2, <1>7, <1>8

-----------------------------------------------------------------------------
\* A sound table with nodes of the right types.
Good(f) == Table(f) /\ Typed(f)

LEMMA LookupGrown ==
  ASSUME NEW f, Good(f), NEW p, Len(p) \in Nat \ {0}
  PROVE  /\ Good(Lookup(f, p).f) /\ Grown(f, Lookup(f, p).f) /\ Points(Lookup(f, p).f, Lookup(f, p).at)
         /\ p[1] # "disk" => Lookup(f, p).at = Nil \/ Lookup(f, p).at[1] = "ram"
  <1>1. Typed(f) /\ Table(f)
    BY DEF Good
  <1>2. Table(Lookup(f, p).f)
    BY <1>1, LookupTable
  <1>3. CASE Match(f, p) # {}
    <2>1. PICK i \in Slots : Lookup(f, p) = [f |-> f, at |-> Ram(i)]
      BY <1>1, <1>3, FirstMatch, LiveSlots DEF Lookup, Table
    <2>2. Points(f, Ram(i)) /\ Ram(i)[1] = "ram"
      BY DEF Points, Ram
    <2> QED BY <1>1, <1>2, <2>1, <2>2, GrownSelf DEF Good
  <1>4. CASE Match(f, p) = {} /\ p[1] = "disk"
    <2>1. PICK w : w = Finddir(f.loaded, p)
      OBVIOUS
    <2>2. Walked(f.loaded, w)
      BY <1>1, <2>1, FinddirWalks DEF Typed
    <2>3. PICK g : g = [f EXCEPT !.loaded = w.loaded] /\ Lookup(f, p) = [f |-> g, at |-> w.at]
      BY <1>4, <2>1 DEF Lookup
    <2>4. g.loaded = w.loaded /\ g.node = f.node
      <3>1. DOMAIN f = {"node", "count", "loaded", "heap"}
        BY <1>1 DEF Table, Whole
      <3> QED BY <2>3, <3>1
    <2>5. Grown(f, g) /\ Points(g, w.at)
      BY <1>1, <2>2, <2>4 DEF Walked, Grown, Typed, Points
    <2>6. Table(g) /\ Typed(g)
      BY <1>2, <2>3, <2>5 DEF Grown
    <2> QED BY <1>4, <2>3, <2>5, <2>6 DEF Good
  <1>5. CASE Match(f, p) = {} /\ p[1] # "disk"
    <2>1. Lookup(f, p) = [f |-> f, at |-> Nil]
      BY <1>5 DEF Lookup
    <2> QED BY <1>1, <1>2, <2>1, GrownSelf DEF Good, Points
  <1> QED BY <1>3, <1>4, <1>5

LEMMA AppendPair ==
  ASSUME NEW x, NEW c
  PROVE  Append(<<x>>, c) = <<x, c>>
  <1>1. <<x>> \in Seq({x, c}) /\ <<x, c>> \in Seq({x, c}) /\ Len(<<x>>) = 1 /\ Len(<<x, c>>) = 2
    OBVIOUS
  <1>2. /\ Append(<<x>>, c) \in Seq({x, c}) /\ Len(Append(<<x>>, c)) = 2
        /\ Append(<<x>>, c)[1] = x /\ Append(<<x>>, c)[2] = c
    BY <1>1, AppendProperties
  <1>3. \A i \in 1 .. 2 : i = 1 \/ i = 2
    OBVIOUS
  <1>4. \A i \in 1 .. 2 : Append(<<x>>, c)[i] = <<x, c>>[i]
    BY <1>2, <1>3
  <1> QED BY <1>1, <1>2, <1>4, SeqEqual

\* In the root of the disk, no lookup finds a contiguous file when the disk
\* shelters those.
LEMMA LookupRoot ==
  ASSUME NEW f, Good(f), NEW c, NEW p, p = <<"disk", c>>, Sheltered, NEW k,
         Lookup(f, p).at = OnDisk(k)
  PROVE  ~DiskEntry[Lookup(f, p).f.loaded[k].entry].contiguous
  <1>1. Typed(f) /\ Table(f)
    BY DEF Good
  <1>2. Match(f, p) = {} /\ p[1] = "disk" /\ Len(p) = 2 /\ p[2] = c
    BY DEF Lookup, OnDisk, Ram
  <1>3. PICK w : w = Start(f.loaded, p)
    OBVIOUS
  <1>4. /\ DOMAIN w = {"dir", "at", "loaded"} /\ w.dir = <<"disk">> /\ w.loaded = f.loaded
        /\ Append(w.dir, c) = p
    <2>1. p[1] = "disk" /\ Append(<<"disk">>, c) = p
      BY AppendPair
    <2> QED BY <1>3, <2>1 DEF Start
  <1>5. PICK u : u = Component(w, c) /\ u = Finddir(f.loaded, p)
    BY <1>1, <1>2, <1>3, FinddirWalks DEF Typed
  <1>6. Lookup(f, p).f.loaded = u.loaded /\ u.at = OnDisk(k)
    <2>1. Lookup(f, p) = [f |-> [f EXCEPT !.loaded = u.loaded], at |-> u.at]
      BY <1>2, <1>5 DEF Lookup
    <2>2. DOMAIN f = {"node", "count", "loaded", "heap"}
      BY <1>1 DEF Table, Whole
    <2> QED BY <2>1, <2>2
  <1> DEFINE known == {i \in 1 .. Len(f.loaded) : /\ f.loaded[i].type = DiskEntry[p].type
                                                  /\ f.loaded[i].entry[Len(f.loaded[i].entry)] = c}
             size == Len(DiskEntry[p].chain)
             new == [entry |-> p, type |-> DiskEntry[p].type, size |-> size, info |-> size]
             v == [w EXCEPT !.loaded = Append(@, new)]
  <1>7. p \in Entries /\ u # Missing(w)
    <2>1. Missing(w).at = Nil
      BY <1>4 DEF Missing
    <2>2. u # Missing(w)
      BY <1>6, <2>1, PointersDiffer
    <2> QED BY <1>4, <1>5, <2>2 DEF Component
  <1>8. ASSUME NEW q \in Entries, q[Len(q)] = c PROVE ~DiskEntry[q].contiguous
    BY <1>7, <1>8 DEF Sheltered
  <1>9. CASE known # {}
    <2>1. PICK i \in known : i = First(known)
      <3>1. known \in SUBSET Nat
        OBVIOUS
      <3> QED BY <1>9, <3>1, FirstExists
    <2>2. u = Reached(w, i)
      BY <1>4, <1>5, <1>7, <1>9, <2>1 DEF Component
    <2>3. u.at = OnDisk(i) /\ u.loaded = f.loaded
      BY <1>4, <2>2 DEF Reached
    <2>4. i = k
      BY <1>6, <2>3 DEF OnDisk
    <2>5. f.loaded[i].entry \in Entries
      <3>1. f.loaded \in Seq(LoadedNode) /\ i \in 1 .. Len(f.loaded)
        BY <1>1 DEF Typed
      <3>2. f.loaded[i] \in LoadedNode
        BY <3>1, ElementOfSeq
      <3> QED BY <3>2 DEF LoadedNode
    <2> QED BY <1>6, <1>8, <2>1, <2>3, <2>4, <2>5
  <1>10. CASE known = {}
    <2>1. u = Reached(v, Len(f.loaded) + 1)
      BY <1>4, <1>5, <1>7, <1>10 DEF Component
    <2>2. DOMAIN v = {"dir", "at", "loaded"} /\ v.loaded = Append(f.loaded, new)
      BY <1>4
    <2> HIDE DEF v
    <2>3. u.at = OnDisk(Len(f.loaded) + 1) /\ u.loaded = Append(f.loaded, new)
      BY <2>1, <2>2 DEF Reached
    <2>4. k = Len(f.loaded) + 1
      BY <1>6, <2>3 DEF OnDisk
    <2>5. Append(f.loaded, new)[Len(f.loaded) + 1].entry = p
      BY <1>1, <2>4, LenProperties DEF Typed
    <2> QED BY ZenonT(60), <1>2, <1>6, <1>7, <1>8, <2>3, <2>4, <2>5
  <1> QED BY <1>9, <1>10

\* A change of the sizes or the types of nodes.
LEMMA SizeGrown ==
  ASSUME NEW f, Good(f), NEW at, Points(f, at), at # Nil, NEW n \in Nat,
         at[1] = "ram" \/ ~Sheltered \/ ~DiskEntry[f.loaded[at[2]].entry].contiguous
  PROVE  /\ Good(SetSize(f, at, n)) /\ Grown(f, SetSize(f, at, n))
         /\ \A k \in 1 .. Len(f.loaded) : SetSize(f, at, n).loaded[k].entry = f.loaded[k].entry
  <1>1. PICK g : g = SetSize(f, at, n)
    OBVIOUS
  <1>2. /\ Typed(f) /\ Table(f) /\ DOMAIN f = {"node", "count", "loaded", "heap"}
        /\ f.node = [i \in Slots |-> f.node[i]] /\ \A i \in Slots : Shaped(f.node[i])
    BY DEF Good, Table, Whole
  <1>3. Table(g)
    BY <1>1, <1>2, SizeSame, SameIsTable
  <1>4. CASE at[1] = "ram"
    <2>1. PICK i \in Slots : at = Ram(i) /\ at[2] = i
      BY <1>4 DEF Points, Ram, OnDisk
    <2>2. g.loaded = f.loaded /\ g.node = [f.node EXCEPT ![i] = [f.node[i] EXCEPT !.size = n]]
      BY <1>1, <1>2, <1>4, <2>1 DEF SetSize
    <2>3. \A j \in Slots : /\ g.node[j].type = f.node[j].type /\ g.node[j].cap = f.node[j].cap
                           /\ g.node[j].buf = f.node[j].buf
                           /\ g.node[j].size = n \/ g.node[j].size = f.node[j].size
      BY <1>2, <2>2 DEF Shaped
    <2>4. Typed(g)
      BY <1>2, <2>2, <2>3 DEF Typed
    <2> QED BY SMTT(60), <1>1, <1>3, <2>2, <2>4, <1>2, LenProperties DEF Good, Grown, Typed
  <1>5. CASE at[1] # "ram"
    <2>1. PICK k \in 1 .. Len(f.loaded) : at = OnDisk(k) /\ at[2] = k
      BY <1>5 DEF Points, Ram, OnDisk
    <2>2. g.node = f.node /\ g.loaded = [f.loaded EXCEPT ![k] = [f.loaded[k] EXCEPT !.size = n]]
      BY <1>1, <1>2, <1>5, <2>1 DEF SetSize
    <2>3. f.loaded \in Seq(LoadedNode) /\ f.loaded[k] \in LoadedNode
      BY <1>2, ElementOfSeq DEF Typed
    <2>4. PICK d : d = [f.loaded[k] EXCEPT !.size = n]
      OBVIOUS
    <2>5. d \in LoadedNode /\ d.entry = f.loaded[k].entry
      BY <2>3, <2>4 DEF LoadedNode
    <2>6. /\ g.loaded \in Seq(LoadedNode) /\ Len(g.loaded) = Len(f.loaded)
          /\ \A j \in 1 .. Len(f.loaded) : g.loaded[j] = IF j = k THEN d ELSE f.loaded[j]
      BY <2>2, <2>3, <2>4, <2>5, ExceptSeq
    <2>7. Typed(g)
      BY <1>2, <2>2, <2>6 DEF Typed
    <2>8. Sheltered /\ Exact(f.loaded) => Exact(g.loaded)
      BY SMTT(60), <1>5, <2>1, <2>5, <2>6 DEF Exact
    <2>9. \A j \in 1 .. Len(f.loaded) : g.loaded[j].entry = f.loaded[j].entry
      BY <2>5, <2>6
    <2> QED BY <1>1, <1>3, <2>6, <2>7, <2>8, <2>9, LenProperties DEF Good, Grown, Typed
  <1> QED BY <1>4, <1>5

LEMMA TypeGrown ==
  ASSUME NEW f, Good(f), NEW at, Points(f, at), at # Nil, NEW t \in {"file", "dir"}
  PROVE  Good(SetType(f, at, t)) /\ Grown(f, SetType(f, at, t))
  <1>1. PICK g : g = SetType(f, at, t)
    OBVIOUS
  <1>2. /\ Typed(f) /\ Table(f) /\ DOMAIN f = {"node", "count", "loaded", "heap"}
        /\ f.node = [i \in Slots |-> f.node[i]] /\ \A i \in Slots : Shaped(f.node[i])
    BY DEF Good, Table, Whole
  <1>3. Table(g)
    BY <1>1, <1>2, TypeSame, SameIsTable
  <1>4. CASE at[1] = "ram"
    <2>1. PICK i \in Slots : at = Ram(i) /\ at[2] = i
      BY <1>4 DEF Points, Ram, OnDisk
    <2>2. g.loaded = f.loaded /\ g.node = [f.node EXCEPT ![i] = [f.node[i] EXCEPT !.type = t]]
      BY <1>1, <1>2, <1>4, <2>1 DEF SetType
    <2>3. \A j \in Slots : /\ g.node[j].size = f.node[j].size /\ g.node[j].cap = f.node[j].cap
                           /\ g.node[j].buf = f.node[j].buf
                           /\ g.node[j].type = t \/ g.node[j].type = f.node[j].type
      BY <1>2, <2>2 DEF Shaped
    <2>4. Typed(g)
      BY <1>2, <2>2, <2>3 DEF Typed
    <2> QED BY <1>1, <1>3, <2>2, <2>4, <1>2, LenProperties DEF Good, Grown, Typed
  <1>5. CASE at[1] # "ram"
    <2>1. PICK k \in 1 .. Len(f.loaded) : at = OnDisk(k) /\ at[2] = k
      BY <1>5 DEF Points, Ram, OnDisk
    <2>2. g.node = f.node /\ g.loaded = [f.loaded EXCEPT ![k] = [f.loaded[k] EXCEPT !.type = t]]
      BY <1>1, <1>2, <1>5, <2>1 DEF SetType
    <2>3. f.loaded \in Seq(LoadedNode) /\ f.loaded[k] \in LoadedNode
      BY <1>2, ElementOfSeq DEF Typed
    <2>4. PICK d : d = [f.loaded[k] EXCEPT !.type = t]
      OBVIOUS
    <2>5. /\ d \in LoadedNode /\ d.entry = f.loaded[k].entry /\ d.size = f.loaded[k].size
          /\ d.info = f.loaded[k].info
      BY <2>3, <2>4 DEF LoadedNode
    <2>6. /\ g.loaded \in Seq(LoadedNode) /\ Len(g.loaded) = Len(f.loaded)
          /\ \A j \in 1 .. Len(f.loaded) : g.loaded[j] = IF j = k THEN d ELSE f.loaded[j]
      BY <2>2, <2>3, <2>4, <2>5, ExceptSeq
    <2>7. Typed(g)
      BY <1>2, <2>2, <2>6 DEF Typed
    <2>8. Exact(f.loaded) => Exact(g.loaded)
      BY <2>1, <2>5, <2>6 DEF Exact
    <2> QED BY <1>1, <1>3, <2>6, <2>7, <2>8, LenProperties DEF Good, Grown, Typed
  <1> QED BY <1>4, <1>5

\* Buffers taken and given back leave nodes and what is loaded alone.
LEMMA HeapGrown ==
  ASSUME NEW f, Table(f), Typed(f), NEW H
  PROVE  Grown(f, [f EXCEPT !.heap = H])
  <1>1. DOMAIN f = {"node", "count", "loaded", "heap"}
    BY DEF Table, Whole
  <1>2. PICK g : g = [f EXCEPT !.heap = H]
    OBVIOUS
  <1>3. g.loaded = f.loaded /\ g.node = f.node
    BY <1>1, <1>2
  <1> QED BY <1>2, <1>3, SameLoaded

LEMMA AllocGrown ==
  ASSUME NEW f, Good(f)
  PROVE  /\ Good(Alloc(f).f) /\ Grown(f, Alloc(f).f) /\ Alloc(f).buf \in Bufs \cup {NoBuf}
         /\ Alloc(f).buf = NoBuf \/ Fresh(Alloc(f).f, Alloc(f).buf)
  <1>1. PICK a : a = Alloc(f)
    OBVIOUS
  <1>2. Table(f) /\ Typed(f)
    BY DEF Good
  <1>3. Table(a.f) /\ (a.buf = NoBuf \/ Fresh(a.f, a.buf))
    BY <1>1, <1>2, AllocTable
  <1>4. Grown(f, a.f) /\ a.buf \in Bufs \cup {NoBuf}
    <2>1. CASE Bufs \ f.heap = {}
      BY <1>1, <1>2, <2>1, GrownSelf DEF Alloc
    <2>2. CASE Bufs \ f.heap # {}
      <3>1. PICK H : a.f = [f EXCEPT !.heap = H] /\ a.buf \in Bufs
        BY <1>1, <2>2 DEF Alloc
      <3> QED BY <1>2, <3>1, HeapGrown
    <2> QED BY <2>1, <2>2
  <1> QED BY <1>1, <1>3, <1>4 DEF Good, Grown

LEMMA AddedGrown ==
  ASSUME NEW f, Good(f), f.count # MaxNodes, NEW p, NEW b \in Bufs \cup {NoBuf}, NEW cap \in Nat
  PROVE  Grown(f, Added(f, p, b, cap).f) /\ Points(Added(f, p, b, cap).f, Added(f, p, b, cap).at)
  <1>1. PICK g, d : g = Added(f, p, b, cap).f /\ d = Node(p, "file", cap, b)
    OBVIOUS
  <1>2. /\ Typed(f) /\ Table(f) /\ DOMAIN f = {"node", "count", "loaded", "heap"}
        /\ f.node = [i \in Slots |-> f.node[i]] /\ f.count \in Slots
    BY LiveSlots DEF Good, Table, Whole
  <1>3. g.loaded = f.loaded /\ g.node = [f.node EXCEPT ![f.count] = d]
    BY <1>1, <1>2 DEF Added
  <1>4. d.type = "file" /\ d.size = 0 /\ d.cap = cap /\ d.buf = b
    BY <1>1 DEF Node
  <1>5. \A i \in Slots : g.node[i] = d \/ g.node[i] = f.node[i]
    BY <1>2, <1>3
  <1>6. Typed(g)
    BY <1>2, <1>3, <1>4, <1>5 DEF Typed
  <1>7. Grown(f, g)
    BY <1>2, <1>3, <1>6, LenProperties DEF Grown, Typed
  <1>8. Added(f, p, b, cap).at = Ram(f.count)
    BY DEF Added
  <1> QED BY <1>1, <1>2, <1>7, <1>8 DEF Points

\* create_file(): what it finds on the disk is what the lookup finds.
LEMMA CreateGrown ==
  ASSUME NEW f, Good(f), NEW p, Len(p) \in Nat \ {0}, NEW b \in Bufs \cup {NoBuf},
         b = NoBuf \/ Fresh(f, b), NEW cap \in Nat, NEW c, c = Create(f, p, b, cap)
  PROVE  /\ Good(c.f) /\ Grown(f, c.f) /\ Points(c.f, c.at)
         /\ c.at = Nil \/ c.at[1] = "ram" \/ (p[1] = "disk" /\ c = Lookup(f, p))
  <1>1. Table(f) /\ Typed(f)
    BY DEF Good
  <1>2. Table(c.f)
    BY <1>1, CreateTable
  <1>3. CASE f.count = MaxNodes
    BY <1>1, <1>2, <1>3, GrownSelf DEF Create, Good, Points
  <1>4. CASE f.count # MaxNodes
    <2>1. PICK o : o = Lookup(f, p)
      OBVIOUS
    <2>2. /\ Good(o.f) /\ Grown(f, o.f) /\ Points(o.f, o.at) /\ o.f.count = f.count
          /\ p[1] # "disk" => o.at = Nil \/ o.at[1] = "ram"
      BY <1>1, <2>1, LookupGrown, LookupTable DEF SameTable
    <2>3. CASE o.at # Nil
      BY <1>2, <1>4, <2>1, <2>2, <2>3 DEF Create
    <2>4. CASE o.at = Nil
      <3>1. c = Added(o.f, p, b, cap)
        BY <1>4, <2>1, <2>4 DEF Create
      <3>2. Grown(o.f, c.f) /\ Points(c.f, c.at)
        BY <1>4, <2>2, <3>1, AddedGrown
      <3>3. c.at[1] = "ram"
        BY <3>1 DEF Added, Ram
      <3>4. Grown(f, c.f) /\ Typed(c.f)
        BY <1>1, <2>2, <3>2, GrownOn DEF Grown
      <3> QED BY <1>2, <3>2, <3>3, <3>4 DEF Good
    <2> QED BY <2>3, <2>4
  <1> QED BY <1>3, <1>4

LEMMA TakeOutGrown ==
  ASSUME NEW f, Good(f), NEW i \in Live(f)
  PROVE  Grown(f, TakeOut(f, i))
  <1>1. PICK g : g = TakeOut(f, i)
    OBVIOUS
  <1>2. Table(f) /\ Typed(f) /\ DOMAIN f = {"node", "count", "loaded", "heap"}
    BY DEF Good, Table, Whole
  <1>3. /\ g.loaded = f.loaded
        /\ g.node = [j \in Slots |-> IF i <= j /\ j < f.count - 1 THEN f.node[j + 1] ELSE f.node[j]]
    BY <1>1, <1>2 DEF TakeOut, Shifted
  <1>4. f.count \in Nat /\ f.count <= MaxNodes
    BY <1>2, LiveSlots DEF Table
  <1>5. \A j \in Slots : j < f.count - 1 => j + 1 \in Slots
    BY <1>4, TableAssumption DEF Slots
  <1>6. \A j \in Slots : \E k \in Slots : g.node[j] = f.node[k]
    BY <1>3, <1>5
  <1> QED BY <1>1, <1>2, <1>3, <1>6, SameLoaded

LEMMA TakeOutPathGrown ==
  ASSUME NEW f, Good(f), NEW p
  PROVE  Good(TakeOutPath(f, p)) /\ Grown(f, TakeOutPath(f, p))
  <1>1. Table(f) /\ Typed(f) /\ Table(TakeOutPath(f, p))
    BY TakeOutPathTable DEF Good
  <1>2. CASE Match(f, p) = {}
    BY <1>1, <1>2, GrownSelf DEF TakeOutPath, Good
  <1>3. CASE Match(f, p) # {}
    <2>1. PICK i \in Live(f) : TakeOutPath(f, p) = TakeOut(f, i)
      BY <1>1, <1>3, FirstMatch DEF TakeOutPath
    <2> QED BY <1>1, <2>1, TakeOutGrown DEF Good, Grown
  <1> QED BY <1>2, <1>3

-----------------------------------------------------------------------------
(* Which clusters a file reaches.                                          *)

\* A cluster of an entry's chain is no other entry's.
LEMMA ChainOwner ==
  ASSUME NEW e \in Entries, NEW i \in 1 .. Len(DiskEntry[e].chain)
  PROVE  DiskEntry[e].chain[i] \in Clusters /\ OwnerOf(DiskEntry[e].chain[i]) = e
  <1>1. PICK c : c = DiskEntry[e].chain[i]
    OBVIOUS
  <1>2. \A p \in Entries : /\ DiskEntry[p].chain \in Seq(Clusters)
                           /\ DOMAIN DiskEntry[p].chain = 1 .. Len(DiskEntry[p].chain)
    BY LenProperties, DiskAssumption
  <1>3. e \in Owners(c)
    BY <1>1, <1>2 DEF Owners
  <1>4. ASSUME NEW p \in Owners(c) PROVE p = e
    <2>1. p \in Entries /\ \E j \in DOMAIN DiskEntry[p].chain : DiskEntry[p].chain[j] = c
      BY <1>4 DEF Owners
    <2>2. PICK j \in 1 .. Len(DiskEntry[p].chain) : DiskEntry[p].chain[j] = c
      BY <1>2, <2>1
    <2> QED BY <1>1, <2>1, <2>2, DiskAssumption
  <1>5. OwnerOf(c) = e
    BY <1>3, <1>4 DEF OwnerOf
  <1>6. c \in Clusters
    BY <1>1, <1>2, ElementOfSeq
  <1> QED BY <1>1, <1>5, <1>6

\* Within the chain of a file, and along any other, only clusters of its own
\* are reached.
LEMMA ReachOwn ==
  ASSUME NEW e \in Entries, NEW o \in Nat, NEW n \in Nat,
         DiskEntry[e].contiguous => o + n <= Len(DiskEntry[e].chain),
         NEW c \in Reach(e, o, n)
  PROVE  OwnerOf(c) = e /\ c \in Clusters
  <1>1. PICK s, len : s = DiskEntry[e].chain /\ len = Len(s) /\ len \in Nat
    BY LenProperties, DiskAssumption
  <1>2. \A i \in 1 .. len : OwnerOf(s[i]) = e /\ s[i] \in Clusters
    BY <1>1, ChainOwner
  <1>3. CASE DiskEntry[e].contiguous
    <2>1. PICK i \in o .. o + n - 1 : c = s[1] + i
      BY <1>1, <1>3 DEF Reach, Run
    <2>2. i + 1 \in 1 .. len /\ 1 \in 1 .. len
      BY <1>1, <1>3, <2>1
    <2>3. s[i + 1] = s[1] + (i + 1) - 1
      BY <1>1, <1>3, <2>2, DiskAssumption
    <2>4. s[1] \in Int
      <3>1. Clusters \subseteq Int
        BY DiskAssumption
      <3> QED BY <1>2, <2>2, <3>1
    <2>5. s[i + 1] = c
      BY <2>1, <2>3, <2>4
    <2> QED BY <1>2, <2>2, <2>5
  <1>4. CASE ~DiskEntry[e].contiguous
    <2>1. PICK i \in o .. Least(o + n, len) - 1 : c = s[i + 1]
      BY <1>1, <1>4 DEF Reach, Chain
    <2>2. Least(o + n, len) \in Int /\ Least(o + n, len) <= len
      BY <1>1 DEF Least
    <2>3. i + 1 \in 1 .. len
      BY <1>1, <2>1, <2>2
    <2> QED BY <1>2, <2>1, <2>3
  <1> QED BY <1>3, <1>4

\* What a write w does to table f: types are kept, and where the disk shelters
\* its contiguous files, only clusters of the file itself are hit.
Kept(f, w) ==
  /\ Good(w.f) /\ Grown(f, w.f) /\ Points(w.f, w.at) /\ w.at # Nil
  /\ Sheltered /\ Exact(f.loaded) =>
       \A c \in w.hit : OwnerOf(c) = w.f.loaded[w.at[2]].entry

LEMMA KeptOn ==
  ASSUME NEW f, Good(f), NEW g, Grown(f, g), NEW w, Kept(g, w)
  PROVE  Kept(f, w)
  <1>1. Typed(f)
    BY DEF Good
  <1>2. Grown(f, w.f)
    BY <1>1, GrownOn DEF Kept
  <1> QED BY <1>2 DEF Kept, Grown

LEMMA RamWriteKept ==
  ASSUME NEW f, Good(f), NEW i \in Slots, NEW o \in Nat, NEW n \in Nat
  PROVE  Kept(f, RamWrite(f, i, o, n))
  <1>1. PICK w : w = RamWrite(f, i, o, n)
    OBVIOUS
  <1>2. f.node[i].cap \in Nat /\ f.node[i].size \in Nat /\ Typed(f)
    BY DEF Good, Typed
  <1> DEFINE m == IF f.node[i].buf = NoBuf THEN 0 ELSE Most(0, Least(n, f.node[i].cap - o))
             size == Most(f.node[i].size, o + m)
  <1>3. size \in Nat
    BY <1>2 DEF Most, Least
  <1>4. w.f = (IF m = 0 THEN f ELSE SetSize(f, Ram(i), size)) /\ w.at = Ram(i) /\ w.hit = {}
    BY <1>1 DEF RamWrite
  <1> HIDE DEF m, size
  <1>5. Ram(i)[1] = "ram" /\ Ram(i) # Nil /\ Points(f, Ram(i))
    BY PointersDiffer DEF Ram, Points
  <1>6. Good(w.f) /\ Grown(f, w.f)
    BY <1>2, <1>3, <1>4, <1>5, SizeGrown, GrownSelf
  <1>7. Points(w.f, w.at)
    BY <1>4 DEF Points
  <1> QED BY <1>1, <1>4, <1>5, <1>6, <1>7 DEF Kept

LEMMA DiskWriteKept ==
  ASSUME NEW f, Good(f), NEW k \in 1 .. Len(f.loaded), NEW o \in Nat, NEW n \in Nat,
         Sheltered /\ Exact(f.loaded) /\ DiskEntry[f.loaded[k].entry].contiguous =>
           o + n <= f.loaded[k].size
  PROVE  Kept(f, DiskWrite(f, k, o, n))
  <1>1. PICK w, d, e : w = DiskWrite(f, k, o, n) /\ d = f.loaded[k] /\ e = d.entry
    OBVIOUS
  <1>2. /\ Typed(f) /\ Table(f) /\ DOMAIN f = {"node", "count", "loaded", "heap"}
        /\ f.loaded \in Seq(LoadedNode) /\ Len(f.loaded) \in Nat
    BY LenProperties DEF Good, Typed, Table, Whole
  <1>3. d \in LoadedNode
    BY <1>1, <1>2, ElementOfSeq
  <1>4. e \in Entries /\ d.info \in Nat /\ d.size \in Nat
    BY <1>1, <1>3 DEF LoadedNode
  <1> DEFINE m == IF DiskEntry[e].contiguous THEN n
                  ELSE Most(0, Least(n, Len(DiskEntry[e].chain) - o))
  <1>5. m \in Nat /\ (DiskEntry[e].contiguous => m = n)
    <2>1. Len(DiskEntry[e].chain) \in Nat
      BY <1>4, LenProperties, DiskAssumption
    <2> QED BY <2>1 DEF Most, Least
  <1>6. /\ w.at = OnDisk(k) /\ w.hit = Reach(e, o, n)
        /\ w.f = IF m > 0 /\ o + m > d.info
                   THEN [f EXCEPT !.loaded[k].size = o + m, !.loaded[k].info = o + m] ELSE f
    BY <1>1 DEF DiskWrite
  <1> HIDE DEF m
  <1>7. Points(f, OnDisk(k)) /\ OnDisk(k) # Nil /\ OnDisk(k)[2] = k
    BY PointersDiffer DEF Points, OnDisk
  <1>8. ASSUME Sheltered, Exact(f.loaded), DiskEntry[e].contiguous
        PROVE  o + n <= d.info /\ o + n <= Len(DiskEntry[e].chain)
    BY <1>1, <1>8 DEF Exact
  <1>9. ASSUME Sheltered, Exact(f.loaded) PROVE \A c \in w.hit : OwnerOf(c) = e
    BY <1>4, <1>6, <1>8, <1>9, ReachOwn
  <1>10. CASE w.f = f
    BY <1>1, <1>2, <1>6, <1>7, <1>9, <1>10, GrownSelf DEF Kept
  <1>11. CASE w.f # f
    <2>0. PICK len \in Nat : len = o + m
      BY <1>5
    <2>1. PICK g, x : g = w.f /\ x = [d EXCEPT !.size = len, !.info = len]
      OBVIOUS
    <2>2. g = [f EXCEPT !.loaded[k].size = len, !.loaded[k].info = len] /\ len > d.info
      BY <1>6, <1>11, <2>0, <2>1
    <2>3. PICK l : l = [f.loaded EXCEPT ![k].size = len, ![k].info = len] /\ g = [f EXCEPT !.loaded = l]
      <3>1. [f EXCEPT !.loaded[k].size = len, !.loaded[k].info = len]
              = [f EXCEPT !.loaded = [f.loaded EXCEPT ![k].size = len, ![k].info = len]]
        BY <1>2
      <3> QED BY <2>2, <3>1
    <2>4. x \in LoadedNode /\ x.entry = e
      <3>1. DOMAIN d = {"entry", "type", "size", "info"}
        BY <1>3 DEF LoadedNode
      <3>2. x.entry = d.entry /\ x.type = d.type /\ x.size = len /\ x.info = len
        BY <2>1, <3>1
      <3>3. x = [entry |-> d.entry, type |-> d.type, size |-> len, info |-> len]
        BY <1>3, <2>1 DEF LoadedNode
      <3> QED BY <1>1, <1>3, <2>1, <3>2, <3>3 DEF LoadedNode
    <2>12. g.node = f.node /\ g.loaded = [f.loaded EXCEPT ![k] = x]
      <3>1. g.node = f.node /\ g.loaded = l
        BY <1>2, <2>3
      <3>2. [f.loaded EXCEPT ![k].size = len, ![k].info = len]
              = [f.loaded EXCEPT ![k] = [f.loaded[k] EXCEPT !.size = len, !.info = len]]
        BY <1>2
      <3> QED BY <1>1, <2>1, <2>3, <3>1, <3>2
    <2>5. /\ g.loaded \in Seq(LoadedNode) /\ Len(g.loaded) = Len(f.loaded)
          /\ \A j \in 1 .. Len(f.loaded) : g.loaded[j] = IF j = k THEN x ELSE f.loaded[j]
      BY <1>2, <2>4, <2>12, ExceptSeq
    <2>6. Typed(g)
      BY <1>2, <2>5, <2>12 DEF Typed
    <2>7. ASSUME Sheltered, Exact(f.loaded) PROVE Exact(g.loaded)
      <3>1. ~DiskEntry[e].contiguous
        BY <1>4, <1>5, <1>8, <2>0, <2>2, <2>7
      <3> QED BY <2>4, <2>5, <2>7, <3>1 DEF Exact
    <2>8. Grown(f, g)
      BY <1>2, <2>5, <2>6, <2>7 DEF Grown
    <2>9. Table(g)
      <3>1. SameTable(f, [f EXCEPT !.loaded = l])
        BY <1>2, LoadedSame
      <3> QED BY <1>2, <2>3, <3>1, SameIsTable
    <2>10. Points(g, OnDisk(k)) /\ g.loaded[k].entry = e
      BY <2>4, <2>5 DEF Points
    <2> QED BY <1>1, <1>6, <1>7, <1>9, <2>1, <2>6, <2>8, <2>9, <2>10 DEF Kept, Good
  <1> QED BY <1>10, <1>11

LEMMA PlainWriteKept ==
  ASSUME NEW f, Good(f), NEW at, Points(f, at), at # Nil, NEW o \in Nat, NEW n \in Nat,
         at[1] # "ram" /\ Sheltered /\ DiskEntry[f.loaded[at[2]].entry].contiguous =>
           o + n <= f.loaded[at[2]].size
  PROVE  Kept(f, PlainWrite(f, at, o, n))
  <1>1. CASE at[1] = "ram"
    <2>1. PICK i \in Slots : at[2] = i
      BY <1>1 DEF Points, Ram, OnDisk
    <2> QED BY <1>1, <2>1, RamWriteKept DEF PlainWrite
  <1>2. CASE at[1] # "ram"
    <2>1. PICK k \in 1 .. Len(f.loaded) : at[2] = k
      BY <1>2 DEF Points, Ram, OnDisk
    <2> QED BY <1>2, <2>1, DiskWriteKept DEF PlainWrite
  <1> QED BY <1>1, <1>2

\* The node that takes the contents of a growing file is one of the table, or
\* a file of the disk that is not contiguous.
LEMMA PromoteKept ==
  ASSUME NEW f, Good(f), NEW k \in 1 .. Len(f.loaded), NEW o \in Nat, NEW n \in Nat
  PROVE  Kept(f, Promote(f, k, o, n))
  <1>1. PICK a, q, x, p, c : /\ a = Alloc(f) /\ x = o + n
                             /\ q = f.loaded[k].entry[Len(f.loaded[k].entry)] /\ p = <<"disk", q>>
                             /\ c = Create(a.f, p, a.buf, x)
    OBVIOUS
  <1>2. /\ Typed(f) /\ f.loaded[k].size \in Nat
    <2>1. Typed(f) /\ f.loaded \in Seq(LoadedNode)
      BY DEF Good, Typed
    <2>2. f.loaded[k] \in LoadedNode
      BY <2>1, ElementOfSeq
    <2> QED BY <2>1, <2>2 DEF LoadedNode
  <1>3. /\ Good(a.f) /\ Grown(f, a.f) /\ a.buf \in Bufs \cup {NoBuf}
        /\ a.buf = NoBuf \/ Fresh(a.f, a.buf)
    BY <1>1, AllocGrown
  <1>4. /\ Good(c.f) /\ Grown(a.f, c.f) /\ Points(c.f, c.at)
        /\ c.at = Nil \/ c.at[1] = "ram" \/ c = Lookup(a.f, p)
    <2>1. x \in Nat /\ Len(p) \in Nat \ {0}
      BY <1>1
    <2>2. PICK g, b : g = a.f /\ b = a.buf
      OBVIOUS
    <2>3. /\ Good(g) /\ b \in Bufs \cup {NoBuf} /\ (b = NoBuf \/ Fresh(g, b))
          /\ c = Create(g, p, b, x)
      BY <1>1, <1>3, <2>2
    <2>4. /\ Good(c.f) /\ Grown(g, c.f) /\ Points(c.f, c.at)
          /\ c.at = Nil \/ c.at[1] = "ram" \/ (p[1] = "disk" /\ c = Lookup(g, p))
      BY <2>1, <2>3, CreateGrown
    <2> QED BY <2>2, <2>4
  <1>5. Grown(f, c.f)
    BY <1>2, <1>3, <1>4, GrownOn
  <1>6. ASSUME NEW g, Good(g), Grown(f, g), NEW w, w = [f |-> g, at |-> OnDisk(k), n |-> 0, hit |-> {}]
        PROVE  Kept(f, w)
    <2>1. Points(f, OnDisk(k)) /\ OnDisk(k) # Nil
      BY PointersDiffer DEF Points
    <2>2. Points(g, OnDisk(k))
      BY <1>2, <1>6, <2>1, PointsOn
    <2> QED BY <1>6, <2>1, <2>2 DEF Kept
  <1>7. CASE a.buf = NoBuf \/ f.loaded[k].size > f.loaded[k].info
    <2>1. Promote(f, k, o, n) = [f |-> f, at |-> OnDisk(k), n |-> 0, hit |-> {}]
      BY <1>1, <1>7 DEF Promote
    <2> QED BY <1>2, <1>6, <2>1, GrownSelf
  <1>8. CASE ~(a.buf = NoBuf \/ f.loaded[k].size > f.loaded[k].info) /\ c.at = Nil
    <2>1. PICK g : g = [c.f EXCEPT !.heap = c.f.heap \ {a.buf}]
      OBVIOUS
    <2>2. Promote(f, k, o, n) = [f |-> g, at |-> OnDisk(k), n |-> 0, hit |-> {}]
      BY <1>1, <1>8, <2>1 DEF Promote
    <2>3. Table(a.f) /\ Table(c.f) /\ Typed(c.f)
      BY <1>3, <1>4 DEF Good
    <2>4. c.f = a.f
      BY <1>1, <1>3, <1>8, <2>3, CreateTable
    <2>5. Table(g)
      BY <1>3, <2>1, <2>3, <2>4, FreshBack
    <2>6. Grown(c.f, g)
      BY <2>1, <2>3, HeapGrown
    <2>7. Grown(f, g) /\ Good(g)
      BY <1>2, <1>5, <2>5, <2>6, GrownOn DEF Good, Grown
    <2> QED BY <1>6, <2>2, <2>7
  <1>9. CASE ~(a.buf = NoBuf \/ f.loaded[k].size > f.loaded[k].info) /\ c.at # Nil
    <2>1. PICK h : h = c.f /\ Good(h) /\ Points(h, c.at)
      BY <1>4
    <2>2. PICK g : g = SetSize(h, c.at, f.loaded[k].size)
      OBVIOUS
    <2>3. Promote(f, k, o, n) = PlainWrite(g, c.at, o, n)
      BY <1>1, <1>9, <2>1, <2>2 DEF Promote
    <2>4. ASSUME c.at[1] # "ram", Sheltered
          PROVE  /\ c.at[2] \in 1 .. Len(h.loaded)
                 /\ ~DiskEntry[h.loaded[c.at[2]].entry].contiguous
      <3>1. PICK i \in 1 .. Len(h.loaded) : c.at = OnDisk(i) /\ c.at[2] = i
        BY <1>9, <2>1, <2>4 DEF Points, Ram, OnDisk
      <3>2. Lookup(a.f, p).at = OnDisk(i) /\ Lookup(a.f, p).f = h
        BY <1>4, <1>9, <2>1, <2>4, <3>1
      <3>3. ~DiskEntry[Lookup(a.f, p).f.loaded[i].entry].contiguous
        BY <1>1, <1>3, <2>4, <3>2, LookupRoot
      <3> QED BY <3>1, <3>2, <3>3
    <2>5. /\ Good(g) /\ Grown(h, g)
          /\ \A j \in 1 .. Len(h.loaded) : g.loaded[j].entry = h.loaded[j].entry
      <3>1. PICK at, s : at = c.at /\ s = f.loaded[k].size
        OBVIOUS
      <3>2. /\ s \in Nat /\ at # Nil /\ Points(h, at) /\ g = SetSize(h, at, s)
            /\ at[1] = "ram" \/ ~Sheltered \/ ~DiskEntry[h.loaded[at[2]].entry].contiguous
        BY <1>2, <1>9, <2>1, <2>2, <2>4, <3>1
      <3>3. Good(h) /\ s \in Nat /\ at # Nil /\ Points(h, at)
        BY <2>1, <3>2
      <3>4. at[1] = "ram" \/ ~Sheltered \/ ~DiskEntry[h.loaded[at[2]].entry].contiguous
        BY <3>2
      <3>5. /\ Good(SetSize(h, at, s)) /\ Grown(h, SetSize(h, at, s))
            /\ \A j \in 1 .. Len(h.loaded) : SetSize(h, at, s).loaded[j].entry = h.loaded[j].entry
        BY <3>3, <3>4, SizeGrown
      <3> QED BY <3>2, <3>5
    <2>6. Points(g, c.at)
      BY <2>1, <2>5, PointsOn DEF Good
    <2>7. ASSUME c.at[1] # "ram", Sheltered PROVE ~DiskEntry[g.loaded[c.at[2]].entry].contiguous
      BY <2>4, <2>5, <2>7
    <2>8. Kept(g, PlainWrite(g, c.at, o, n))
      <3>1. PICK at : at = c.at
        OBVIOUS
      <3>2. /\ at # Nil /\ Points(g, at)
            /\ at[1] # "ram" /\ Sheltered => ~DiskEntry[g.loaded[at[2]].entry].contiguous
        BY <1>9, <2>6, <2>7, <3>1
      <3> QED BY <2>5, <3>1, <3>2, PlainWriteKept
    <2>9. Grown(f, g)
      BY <1>2, <1>5, <2>1, <2>5, GrownOn
    <2> QED BY <2>3, <2>8, <2>9, KeptOn
  <1> QED BY <1>7, <1>8, <1>9

LEMMA WriteAtKept ==
  ASSUME NEW f, Good(f), NEW at, Points(f, at), at # Nil, NEW o \in Nat, NEW n \in Nat
  PROVE  Kept(f, WriteAt(f, at, o, n))
  <1>1. CASE at[1] = "disk" /\ o + n > f.loaded[at[2]].size
    <2>1. PICK k \in 1 .. Len(f.loaded) : at[2] = k
      BY <1>1 DEF Points, Ram, OnDisk, Nil
    <2> QED BY <1>1, <2>1, PromoteKept DEF WriteAt
  <1>2. CASE ~(at[1] = "disk" /\ o + n > f.loaded[at[2]].size)
    <2>1. ASSUME at[1] # "ram" PROVE o + n <= f.loaded[at[2]].size
      <3>1. PICK k \in 1 .. Len(f.loaded) : at[2] = k /\ at[1] = "disk"
        BY <2>1 DEF Points, Ram, OnDisk
      <3>2. f.loaded[k] \in LoadedNode
        BY ElementOfSeq DEF Good, Typed
      <3>3. f.loaded[k].size \in Nat
        BY <3>2 DEF LoadedNode
      <3> QED BY <1>2, <3>1, <3>3
    <2>2. Kept(f, PlainWrite(f, at, o, n))
      BY <2>1, PlainWriteKept
    <2> QED BY <1>2, <2>2 DEF WriteAt
  <1> QED BY <1>1, <1>2

LEMMA AddItemGrown ==
  ASSUME NEW f, Good(f), NEW p, Len(p) \in Nat \ {0}, NEW t, NEW room
  PROVE  Good(AddItem(f, p, t, room)) /\ Grown(f, AddItem(f, p, t, room))
  <1>1. PICK o, a, d, e : /\ o = Lookup(f, p) /\ a = Alloc(o.f) /\ d = Create(o.f, p, NoBuf, 0)
                          /\ e = Create(a.f, p, a.buf, 1)
    OBVIOUS
  <1>2. Typed(f) /\ Grown(f, f)
    BY GrownSelf DEF Good
  <1>3. Good(o.f) /\ Grown(f, o.f)
    BY <1>1, LookupGrown
  <1>4. /\ Good(a.f) /\ Grown(o.f, a.f) /\ a.buf \in Bufs \cup {NoBuf}
        /\ a.buf = NoBuf \/ Fresh(a.f, a.buf)
    BY <1>1, <1>3, AllocGrown
  <1>5. Good(d.f) /\ Grown(o.f, d.f) /\ Points(d.f, d.at)
    BY <1>1, <1>3, CreateGrown
  <1>6. Good(e.f) /\ Grown(a.f, e.f)
    BY <1>1, <1>4, CreateGrown
  <1>7. Grown(f, a.f) /\ Grown(f, d.f)
    BY <1>2, <1>3, <1>4, <1>5, GrownOn
  <1>8. Grown(f, e.f)
    BY <1>2, <1>6, <1>7, GrownOn
  <1>9. \/ AddItem(f, p, t, room) \in {f, o.f, d.f, a.f, e.f}
        \/ d.at # Nil /\ AddItem(f, p, t, room) = SetType(d.f, d.at, "dir")
    BY <1>1 DEF AddItem
  <1>10. CASE d.at # Nil /\ AddItem(f, p, t, room) = SetType(d.f, d.at, "dir")
    <2>1. PICK g : g = SetType(d.f, d.at, "dir") /\ Good(g) /\ Grown(d.f, g)
      BY <1>5, <1>10, TypeGrown
    <2> QED BY <1>2, <1>7, <1>10, <2>1, GrownOn
  <1> QED BY <1>2, <1>3, <1>4, <1>5, <1>6, <1>7, <1>8, <1>9, <1>10

LEMMA DerefTyped ==
  ASSUME NEW f, Good(f), NEW at, Points(f, at), at # Nil
  PROVE  Deref(f, at).type \in {"file", "dir"} /\ Deref(f, at).size \in Nat
  <1>1. Typed(f)
    BY DEF Good
  <1>2. CASE at[1] = "ram"
    <2>1. PICK i \in Slots : at[2] = i
      BY <1>2 DEF Points, Ram, OnDisk
    <2> QED BY <1>1, <1>2, <2>1 DEF Deref, Typed
  <1>3. CASE at[1] # "ram"
    <2>1. PICK k \in 1 .. Len(f.loaded) : at[2] = k
      BY <1>3 DEF Points, Ram, OnDisk
    <2>2. f.loaded[k] \in LoadedNode
      BY <1>1, ElementOfSeq DEF Typed
    <2> QED BY <1>3, <2>1, <2>2 DEF Deref, LoadedNode
  <1> QED BY <1>2, <1>3

\* The pointer to the source stays good while the copy is made.
LEMMA PastedGrown ==
  ASSUME NEW f, Good(f), NEW src, Points(f, src), src # Nil,
         NEW dest, Len(dest) \in Nat \ {0}, Sheltered => dest[1] # "disk", NEW room
  PROVE  Good(Pasted(f, src, dest, room)) /\ Grown(f, Pasted(f, src, dest, room))
  <1>1. PICK d, a, x, c :
          /\ d = Deref(f, src) /\ x = d.size + 1
          /\ a = IF d.size > 0 /\ (src[1] = "ram" => d.buf # NoBuf) THEN Alloc(f)
                 ELSE [f |-> f, buf |-> NoBuf]
          /\ c = Create(a.f, dest, a.buf, x)
    OBVIOUS
  <1>2. Typed(f) /\ x \in Nat
    BY <1>1, DerefTyped DEF Good
  <1>3. PICK g, b : /\ g = a.f /\ b = a.buf /\ Good(g) /\ Grown(f, g) /\ b \in Bufs \cup {NoBuf}
                    /\ b = NoBuf \/ Fresh(g, b)
    BY <1>1, <1>2, AllocGrown, GrownSelf
  <1>4. PICK h, at : /\ h = c.f /\ at = c.at /\ Good(h) /\ Grown(g, h) /\ Points(h, at)
                     /\ Sheltered => at = Nil \/ at[1] = "ram"
    <2>1. /\ Good(g) /\ b \in Bufs \cup {NoBuf} /\ (b = NoBuf \/ Fresh(g, b))
          /\ c = Create(g, dest, b, x) /\ x \in Nat
      BY <1>1, <1>2, <1>3
    <2>2. /\ Good(c.f) /\ Grown(g, c.f) /\ Points(c.f, c.at)
          /\ c.at = Nil \/ c.at[1] = "ram" \/ (dest[1] = "disk" /\ c = Lookup(g, dest))
      BY <2>1, CreateGrown
    <2> QED BY <2>2
  <1>5. Grown(f, h)
    BY <1>2, <1>3, <1>4, GrownOn
  <1>6. PICK t, r : /\ t = SetType(h, at, Deref(h, src).type)
                    /\ r = IF at = Nil THEN h ELSE SetSize(t, at, Deref(t, src).size)
    OBVIOUS
  <1>7. Pasted(f, src, dest, room) = AddItem(r, dest, Deref(r, src).type, room)
    BY ZenonT(60), <1>1, <1>4, <1>6 DEF Pasted
  <1>8. Good(r) /\ Grown(f, r)
    <2>1. CASE at = Nil
      BY <1>4, <1>5, <1>6, <2>1
    <2>2. CASE at # Nil
      <3>1. PICK ty \in {"file", "dir"} : ty = Deref(h, src).type
        BY <1>2, <1>4, <1>5, PointsOn, DerefTyped
      <3>2. Good(t) /\ Grown(h, t)
        BY <1>4, <1>6, <2>2, <3>1, TypeGrown
      <3>3. Grown(f, t) /\ Points(t, at)
        BY <1>2, <1>4, <1>5, <3>2, GrownOn, PointsOn DEF Good
      <3>4. PICK n \in Nat : n = Deref(t, src).size
        BY <1>2, <3>2, <3>3, PointsOn, DerefTyped
      <3>5. at[1] = "ram" \/ ~Sheltered
        BY <1>4, <2>2
      <3>6. r = SetSize(t, at, n)
        BY <1>6, <2>2, <3>4
      <3>7. Good(r) /\ Grown(t, r)
        BY <2>2, <3>2, <3>3, <3>5, <3>6, SizeGrown
      <3> QED BY <1>2, <3>3, <3>7, GrownOn
    <2> QED BY <2>1, <2>2
  <1>9. PICK ty : Pasted(f, src, dest, room) = AddItem(r, dest, ty, room)
    BY <1>7
  <1>10. Good(AddItem(r, dest, ty, room)) /\ Grown(r, AddItem(r, dest, ty, room))
    BY <1>8, AddItemGrown
  <1> QED BY <1>2, <1>8, <1>9, <1>10, GrownOn

-----------------------------------------------------------------------------
(* The invariant of what is loaded, of the pointers and of the disk.       *)

Held ==
  /\ Typed(fs) /\ song \in Bufs \cup {NoBuf}
  /\ open = [h \in Handles |-> open[h]] /\ \A h \in Handles : Points(fs, open[h])
  /\ Sheltered => Exact(fs.loaded) /\ disk = [c \in Clusters |-> OwnerOf(c)]

LEMMA InitHeld ==
  ASSUME Init
  PROVE  Held
  <1> DEFINE first == [Node(BootFile, "file", 1, Static) EXCEPT !.size = 1]
             N == [i \in Slots |-> IF i = 0 THEN first ELSE Node(NoPath, "file", 0, NoBuf)]
  <1>1. fs.node = N /\ fs.loaded = <<>>
    BY DEF Init
  <1>2. first.type = "file" /\ first.size = 1 /\ first.cap = 1 /\ first.buf = Static
    BY DEF Node
  <1> HIDE DEF first
  <1>3. \A i \in Slots : /\ N[i].type = "file" /\ N[i].size \in Nat /\ N[i].cap \in Nat
                         /\ N[i].buf \in {NoBuf, Static}
    BY <1>2 DEF Node
  <1> HIDE DEF N
  <1>4. Typed(fs) /\ Exact(fs.loaded)
    <2>1. fs.loaded \in Seq(LoadedNode) /\ Len(fs.loaded) = 0 /\ 0 <= MaxLoaded
      BY <1>1, DiskAssumption
    <2> QED BY <1>1, <1>3, <2>1 DEF Typed, Exact
  <1>5. \A h \in Handles : Points(fs, open[h])
    BY DEF Init, Points
  <1> QED BY <1>4, <1>5 DEF Init, Held

\* A step that leaves the disk and the open files alone.
LEMMA HeldGrows ==
  ASSUME Held, Grown(fs, fs'), disk' = disk, open' = open, song' \in Bufs \cup {NoBuf}
  PROVE  Held'
  <1>1. Typed(fs)' /\ (Sheltered => Exact(fs.loaded)')
    BY DEF Held, Grown
  <1>2. \A h \in Handles : Points(fs, open[h])'
    BY PointsOn DEF Held
  <1> QED BY <1>1, <1>2 DEF Held

\* A write changes the disk under the file it is meant for, and no other.
LEMMA HeldWrites ==
  ASSUME Held, NEW f, Good(f), Grown(fs, f), NEW w, Kept(f, w), fs' = w.f, disk' = Hit(w)
  PROVE  /\ Grown(fs, fs') /\ Points(fs', w.at)
         /\ Sheltered => Exact(fs'.loaded) /\ disk' = [c \in Clusters |-> OwnerOf(c)]
  <1>1. Typed(fs) /\ Grown(f, fs')
    BY DEF Held, Kept
  <1>2. Grown(fs, fs') /\ Points(fs', w.at)
    BY <1>1, GrownOn DEF Kept
  <1>3. ASSUME Sheltered
        PROVE  Exact(fs'.loaded) /\ disk' = [c \in Clusters |-> OwnerOf(c)]
    <2>1. Exact(f.loaded) /\ Exact(fs'.loaded) /\ disk = [c \in Clusters |-> OwnerOf(c)]
      BY <1>2, <1>3 DEF Held, Grown
    <2>2. \A c \in w.hit : OwnerOf(c) = w.f.loaded[w.at[2]].entry
      BY <1>3, <2>1 DEF Kept
    <2> QED BY <2>1, <2>2 DEF Hit
  <1> QED BY <1>2, <1>3

LEMMA HeldPrograms ==
  ASSUME IInv, Held, NEW h \in Handles,
         \/ Close(h)
         \/ \E p \in Files : Open(h, p)
         \/ \E o \in 0 .. MaxSize - 1 : \E n \in 1 .. MaxSize - o : Write(h, o, n)
  PROVE  Held'
  <1>1. PICK f, at : f = fs /\ Good(f) /\ Typed(f) /\ at = open[h] /\ Points(f, at)
    BY DEF IInv, Held, Good
  <1>2. ASSUME NEW x, open' = [open EXCEPT ![h] = x], Grown(f, fs'), Points(fs', x)
        PROVE  open' = [i \in Handles |-> open'[i]] /\ \A i \in Handles : Points(fs', open'[i])
    <2>1. open = [i \in Handles |-> open[i]] /\ \A i \in Handles : Points(fs', open[i])
      BY <1>1, <1>2, PointsOn DEF Held
    <2> QED BY <1>2, <2>1
  <1>3. CASE Close(h)
    <2>1. open' = [open EXCEPT ![h] = Nil] /\ Grown(f, fs') /\ Points(fs', Nil)
      BY <1>1, <1>3, GrownSelf DEF Close, Points
    <2>2. open' = [i \in Handles |-> open'[i]] /\ \A i \in Handles : Points(fs', open'[i])
      BY <1>2, <2>1
    <2> QED BY <1>3, <2>2 DEF Close, Held
  <1>4. ASSUME NEW p \in Files, Open(h, p) PROVE Held'
    <2>1. PICK o : o = Lookup(f, p) /\ Grown(f, o.f) /\ Points(o.f, o.at)
      BY <1>1, LookupGrown, PathsAssumption
    <2>2. fs' = o.f /\ open' = [open EXCEPT ![h] = o.at] /\ disk' = disk /\ song' = song
      BY <1>1, <1>4, <2>1 DEF Open
    <2>3. open' = [i \in Handles |-> open'[i]] /\ \A i \in Handles : Points(fs', open'[i])
      BY <1>2, <2>1, <2>2
    <2> QED BY <1>1, <2>1, <2>2, <2>3 DEF Held, Grown
  <1>5. ASSUME NEW o \in 0 .. MaxSize - 1, NEW n \in 1 .. MaxSize - o, Write(h, o, n) PROVE Held'
    <2>1. o \in Nat /\ n \in Nat
      BY PathsAssumption
    <2>2. PICK w : /\ w = WriteAt(f, at, o, n) /\ fs' = w.f /\ disk' = Hit(w) /\ song' = song
                   /\ open' = [open EXCEPT ![h] = w.at] /\ at # Nil
      BY <1>1, <1>5 DEF Write
    <2>3. Kept(f, w)
      BY <1>1, <2>1, <2>2, WriteAtKept
    <2>4. /\ Grown(fs, fs') /\ Points(fs', w.at)
          /\ Sheltered => Exact(fs'.loaded) /\ disk' = [c \in Clusters |-> OwnerOf(c)]
      BY <1>1, <2>2, <2>3, GrownSelf, HeldWrites
    <2>5. open' = [i \in Handles |-> open'[i]] /\ \A i \in Handles : Points(fs', open'[i])
      BY <1>1, <1>2, <2>2, <2>4
    <2> QED BY <2>2, <2>4, <2>5 DEF Held, Grown
  <1> QED BY <1>3, <1>4, <1>5

LEMMA HeldSave ==
  ASSUME IInv, Held, NEW p \in Files, NEW n \in 1 .. MaxSize, Save(p, n)
  PROVE  Held'
  <1>1. PICK f, o : /\ f = fs /\ Good(f) /\ Typed(f) /\ o = Lookup(f, p)
                    /\ n \in Nat /\ Len(p) \in Nat \ {0}
    BY PathsAssumption DEF IInv, Held, Good
  <1>2. PICK g, at : g = o.f /\ at = o.at /\ Good(g) /\ Grown(f, g) /\ Points(g, at)
    BY <1>1, LookupGrown
  <1>3. CASE at = Nil
    <2>1. fs' = g /\ disk' = disk /\ open' = open /\ song' = song
      BY <1>1, <1>2, <1>3 DEF Save
    <2> QED BY <1>1, <1>2, <2>1, HeldGrows DEF Held
  <1>4. CASE at # Nil
    <2>1. PICK w : w = WriteAt(g, at, 0, n) /\ Kept(g, w)
      BY <1>1, <1>2, <1>4, WriteAtKept
    <2>2. fs' = w.f /\ disk' = Hit(w) /\ open' = open /\ song' = song
      BY <1>1, <1>2, <1>4, <2>1 DEF Save
    <2>3. /\ Grown(fs, fs')
          /\ Sheltered => Exact(fs'.loaded) /\ disk' = [c \in Clusters |-> OwnerOf(c)]
      BY <1>1, <1>2, <2>1, <2>2, HeldWrites
    <2>4. \A h \in Handles : Points(fs', open'[h])
      BY <1>1, <2>2, <2>3, PointsOn DEF Held
    <2> QED BY <2>2, <2>3, <2>4 DEF Held, Grown
  <1> QED BY <1>3, <1>4

LEMMA HeldSound ==
  ASSUME IInv, Held, \/ ClosePlayer
                     \/ \E p \in Files : Browse(p) \/ PlayNotes(p)
                     \/ \E p \in Files, kind \in {"short", "sound", "other"} : PlaySound(p, kind)
  PROVE  Held'
  <1>1. PICK f : f = fs /\ Good(f) /\ Typed(f) /\ Table(f)
    BY DEF IInv, Held, Good
  <1>2. song \in Bufs \cup {NoBuf} /\ NoBuf \in Bufs \cup {NoBuf}
    BY DEF Held
  <1>3. ASSUME NEW g, Table(g), song = NoBuf \/ Fresh(g, song), Typed(g)
        PROVE  Good(Silenced(g)) /\ Grown(g, Silenced(g))
    <2>1. Silenced(g) = [g EXCEPT !.heap = g.heap \ {song}]
      BY DEF Silenced
    <2>2. Table(Silenced(g))
      BY <1>3, <2>1, FreshBack
    <2>3. Grown(g, Silenced(g))
      BY <1>3, <2>1, HeapGrown
    <2> QED BY <2>2, <2>3 DEF Good, Grown
  <1>4. ASSUME NEW p \in Files
        PROVE  /\ Good(Lookup(f, p).f) /\ Grown(f, Lookup(f, p).f) /\ Table(Lookup(f, p).f)
               /\ Typed(Lookup(f, p).f) /\ (song = NoBuf \/ Fresh(Lookup(f, p).f, song))
    <2>1. Good(Lookup(f, p).f) /\ Grown(f, Lookup(f, p).f)
      BY <1>1, LookupGrown, PathsAssumption
    <2>2. song = NoBuf \/ Fresh(Lookup(f, p).f, song)
      BY <1>1, LookupTable DEF IInv, PlayerSound
    <2> QED BY <2>1, <2>2 DEF Good
  <1>5. CASE ClosePlayer
    <2>1. fs' = Silenced(f) /\ disk' = disk /\ open' = open /\ song' = NoBuf
      BY <1>1, <1>5 DEF ClosePlayer
    <2>2. Grown(f, Silenced(f))
      BY <1>1, <1>3 DEF IInv, PlayerSound
    <2> QED BY <1>1, <1>2, <2>1, <2>2, HeldGrows
  <1>6. ASSUME NEW p \in Files, Browse(p) \/ PlayNotes(p) PROVE Held'
    <2>1. fs' = Lookup(f, p).f /\ disk' = disk /\ open' = open /\ song' = song
      BY <1>1, <1>6 DEF Browse, PlayNotes
    <2> QED BY <1>1, <1>2, <1>4, <2>1, HeldGrows
  <1>7. ASSUME NEW p \in Files, NEW kind, PlaySound(p, kind) PROVE Held'
    <2>1. PICK o, g, a : o = Lookup(f, p).f /\ g = Silenced(o) /\ a = Alloc(g)
      OBVIOUS
    <2>2. /\ disk' = disk /\ open' = open
          /\ \/ fs' = o /\ song' = song
             \/ fs' = a.f /\ song' = a.buf
             \/ fs' = g /\ song' = NoBuf
      BY <1>1, <1>7, <2>1 DEF PlaySound
    <2>3. Good(o) /\ Grown(f, o) /\ Good(g) /\ Grown(o, g)
      BY <1>3, <1>4, <2>1
    <2>4. Grown(g, a.f) /\ a.buf \in Bufs \cup {NoBuf}
      BY <2>1, <2>3, AllocGrown
    <2>5. Grown(f, g)
      BY <1>1, <2>3, GrownOn
    <2>6. Grown(f, a.f)
      BY <1>1, <2>4, <2>5, GrownOn
    <2> QED BY <1>1, <1>2, <2>2, <2>3, <2>4, <2>5, <2>6, HeldGrows
  <1> QED BY <1>5, <1>6, <1>7

LEMMA HeldFolders ==
  ASSUME IInv, Held,
         \/ \E p \in Items, t \in {"file", "dir"} : NewItem(p, t) \/ Delete(p, t)
         \/ \E p, q \in Items : Rename(p, q)
         \/ \E p \in Items \cup Files, q \in Items, cut, room \in BOOLEAN : Paste(p, cut, q, room)
         \/ Turn
  PROVE  Held'
  <1>1. PICK f : f = fs /\ Good(f) /\ Typed(f) /\ Table(f)
    BY DEF IInv, Held, Good
  <1>2. ASSUME Grown(f, fs'), disk' = disk, open' = open, song' = song
        PROVE  Held'
    BY <1>1, <1>2, HeldGrows DEF Held
  <1>3. ASSUME NEW p \in Items, NEW t, NewItem(p, t) \/ Delete(p, t) PROVE Held'
    <2>1. CASE NewItem(p, t)
      <3>1. fs' = AddItem(f, p, t, TRUE) /\ disk' = disk /\ open' = open /\ song' = song
        BY <1>1, <2>1 DEF NewItem
      <3> QED BY <1>1, <1>2, <3>1, AddItemGrown, PathsAssumption
    <2>2. CASE Delete(p, t)
      BY <1>1, <1>2, <2>2, TakeOutPathGrown DEF Delete
    <2> QED BY <1>3, <2>1, <2>2
  <1>4. ASSUME NEW p \in Items, NEW q \in Items, Rename(p, q) PROVE Held'
    <2>1. PICK i \in Slots : /\ fs' = [f EXCEPT !.node[i].name = q]
                             /\ disk' = disk /\ open' = open /\ song' = song
      BY <1>1, <1>4, FirstMatch, LiveSlots DEF Rename, Table
    <2>2. /\ DOMAIN f = {"node", "count", "loaded", "heap"} /\ Shaped(f.node[i])
          /\ f.node = [j \in Slots |-> f.node[j]]
      BY <1>1 DEF Table, Whole
    <2>3. PICK g, d : g = fs' /\ d = [f.node[i] EXCEPT !.name = q]
      OBVIOUS
    <2>4. g.loaded = f.loaded /\ g.node = [f.node EXCEPT ![i] = d]
      BY <2>1, <2>2, <2>3
    <2>5. /\ d.type = f.node[i].type /\ d.size = f.node[i].size
          /\ d.cap = f.node[i].cap /\ d.buf = f.node[i].buf
      BY <2>2, <2>3 DEF Shaped
    <2>6. \A j \in Slots : g.node[j] = IF j = i THEN d ELSE f.node[j]
      BY <2>2, <2>4
    <2>7. Typed(g)
      BY <1>1, <2>4, <2>5, <2>6 DEF Typed
    <2>8. Grown(f, g)
      BY <1>1, <2>4, <2>7, LenProperties DEF Grown, Typed
    <2> QED BY <1>2, <2>1, <2>3, <2>8
  <1>5. ASSUME NEW p \in Items \cup Files, NEW q \in Items, NEW cut, NEW room, Paste(p, cut, q, room)
        PROVE  Held'
    <2>1. PICK o, at, h, g : /\ o = Lookup(f, p).f /\ at = Lookup(f, p).at
                             /\ h = TakeOutPath(o, q) /\ g = Pasted(h, at, q, room)
      OBVIOUS
    <2>2. /\ disk' = disk /\ open' = open /\ song' = song
          /\ (at = Nil /\ fs' = o) \/ (at # Nil /\ fs' \in {g, TakeOutPath(g, p)})
      BY <1>1, <1>5, <2>1 DEF Paste
    <2>3. Good(o) /\ Typed(o) /\ Grown(f, o) /\ Points(o, at)
      <3>1. Len(p) \in Nat \ {0}
        BY PathsAssumption
      <3> QED BY <1>1, <2>1, <3>1, LookupGrown DEF Good
    <2>4. CASE at = Nil
      BY <1>2, <2>2, <2>3, <2>4
    <2>5. CASE at # Nil
      <3>1. Good(h) /\ Grown(o, h) /\ Points(h, at)
        BY <2>1, <2>3, TakeOutPathGrown, PointsOn
      <3>2. Len(q) \in Nat \ {0} /\ (Sheltered => q[1] # "disk")
        BY PathsAssumption DEF Sheltered
      <3>3. Good(g) /\ Grown(h, g)
        BY <2>1, <2>5, <3>1, <3>2, PastedGrown
      <3>4. Grown(g, TakeOutPath(g, p))
        BY <3>3, TakeOutPathGrown
      <3>5. Grown(f, h)
        BY <1>1, <2>3, <3>1, GrownOn
      <3>6. Grown(f, g)
        BY <1>1, <3>3, <3>5, GrownOn
      <3>7. Grown(f, TakeOutPath(g, p))
        BY <1>1, <3>4, <3>6, GrownOn
      <3> QED BY <1>2, <2>2, <2>5, <3>6, <3>7
    <2> QED BY <2>4, <2>5
  <1>6. CASE Turn
    <2>1. disk' = disk /\ open' = open /\ song' = song
      BY <1>6 DEF Turn
    <2>2. PICK i : i = doomed.i /\ i \in Nat
      BY DEF IInv, DoomSound
    <2>0. f.count \in Nat
      BY <1>1, LiveSlots DEF Table
    <2>3. fs' = f \/ (fs' = TakeOut(f, i) /\ i < f.count)
      BY <1>1, <1>6, <2>0, <2>2 DEF Turn
    <2>4. CASE fs' = f
      BY <1>1, <1>2, <2>1, <2>4, GrownSelf
    <2>5. CASE fs' = TakeOut(f, i) /\ i < f.count
      <3>1. i \in Live(f)
        BY <1>1, <2>0, <2>2, <2>5 DEF Live
      <3> QED BY <1>1, <1>2, <2>1, <2>5, <3>1, TakeOutGrown
    <2> QED BY <2>3, <2>4, <2>5
  <1> QED BY <1>3, <1>4, <1>5, <1>6

LEMMA NextHeld ==
  ASSUME IInv, Held, [Next]_vars
  PROVE  Held'
  <1>1. CASE UNCHANGED vars
    BY <1>1 DEF vars, Held
  <1>2. CASE \E h \in Handles : \/ Close(h) \/ \E p \in Files : Open(h, p)
                               \/ \E o \in 0 .. MaxSize - 1 : \E n \in 1 .. MaxSize - o : Write(h, o, n)
    BY <1>2, HeldPrograms
  <1>3. CASE \E p \in Files, n \in 1 .. MaxSize : Save(p, n)
    BY <1>3, HeldSave
  <1>4. CASE \/ \E p \in Files : Browse(p) \/ PlayNotes(p)
             \/ \E p \in Files, kind \in {"short", "sound", "other"} : PlaySound(p, kind)
             \/ ClosePlayer
    BY <1>4, HeldSound
  <1>5. CASE \/ \E p \in Items, t \in {"file", "dir"} : NewItem(p, t) \/ Delete(p, t)
             \/ \E p, q \in Items : Rename(p, q)
             \/ \E p \in Items \cup Files, q \in Items, cut, room \in BOOLEAN : Paste(p, cut, q, room)
             \/ Turn
    BY <1>5, HeldFolders
  <1> QED BY <1>1, <1>2, <1>3, <1>4, <1>5 DEF Next

\* The inductive invariant of what is loaded, of open files and of the disk.
THEOREM HoldsAlways == Spec => []Held
  <1> QED BY InitIInv, InitHeld, NextHeld, Invariance, PTL DEF Spec

\* Every pointer of an open file points to a slot of the table or to a loaded
\* node of the disk, every node has its types and every buffer is one that
\* kmalloc() can hand out, whatever is done with the files.
THEOREM TypeCorrect == Spec => []TypeOK
  <1>1. ASSUME IInv, Held PROVE TypeOK
    <2>1. /\ fs.count \in 0 .. MaxNodes /\ fs.heap \subseteq Bufs
      BY <1>1 DEF IInv, Table, Whole
    <2>2. ASSUME NEW k \in 1 .. Len(fs.loaded) PROVE fs.loaded[k].entry \in Entries
      <3>1. fs.loaded[k] \in LoadedNode
        BY <1>1, ElementOfSeq DEF Held, Typed
      <3> QED BY <3>1 DEF LoadedNode
    <2>3. \A i \in Slots : /\ fs.node[i].type \in {"file", "dir"} /\ fs.node[i].size >= 0
                           /\ fs.node[i].buf \in Bufs \cup {NoBuf, Static}
      BY <1>1 DEF Held, Typed
    <2>4. \A h \in Handles : open[h] \in {Nil} \cup {Ram(i) : i \in Slots}
                                          \cup {OnDisk(k) : k \in 1 .. Len(fs.loaded)}
      BY <1>1 DEF Held, Points
    <2> QED BY <1>1, <2>1, <2>2, <2>3, <2>4 DEF TypeOK, Held, Typed
  <1> QED BY <1>1, Invariance, HoldsAlways, PTL

\* On a disk that shelters its contiguous files, clusters hold the data of the
\* file they belong to, and a read finds nothing else, whatever is written.
THEOREM DiskCorrect ==
  ASSUME Sheltered
  PROVE  Spec => []DiskIntact
  <1>1. ASSUME Held PROVE DiskIntact
    <2>1. /\ fs.loaded \in Seq(LoadedNode) /\ Exact(fs.loaded)
          /\ disk = [c \in Clusters |-> OwnerOf(c)]
      BY <1>1 DEF Held, Typed
    <2>2. ASSUME NEW k \in 1 .. Len(fs.loaded), NEW o \in 0 .. MaxSize, NEW n \in 1 .. MaxSize,
                 NEW c \in DiskRead(fs, k, o, n)
          PROVE  disk[c] = fs.loaded[k].entry
      <3>1. PICK d, e : d = fs.loaded[k] /\ e = d.entry /\ d \in LoadedNode
        BY <2>1, ElementOfSeq
      <3>2. e \in Entries /\ d.info \in Nat /\ o \in Nat /\ n \in Nat
        BY <3>1, PathsAssumption DEF LoadedNode
      <3>3. PICK m : m = Least(n, d.info - o)
        OBVIOUS
      <3>4. o < d.info /\ c \in Reach(e, o, m)
        BY <2>2, <3>1, <3>2, <3>3 DEF DiskRead
      <3>5. m \in Nat /\ o + m <= d.info
        BY <3>2, <3>3, <3>4 DEF Least
      <3>6. DiskEntry[e].contiguous => o + m <= Len(DiskEntry[e].chain)
        BY <2>1, <3>1, <3>5 DEF Exact
      <3>7. OwnerOf(c) = e /\ c \in Clusters
        BY <3>2, <3>4, <3>5, <3>6, ReachOwn
      <3> QED BY <2>1, <3>1, <3>7
    <2> QED BY <2>1, <2>2 DEF DiskIntact
  <1> QED BY <1>1, HoldsAlways, PTL
=============================================================================
