------------------------------ MODULE Overlay ------------------------------
(***************************************************************************)
(* The files of the system (fs/vfs.cpp, fs/exfat.cpp) and the file manager *)
(* that works on them (kernel/wm.cpp): the table of RAM nodes, which       *)
(* File handles point into, lies over the disk mounted at /disk; a write   *)
(* past the end of a disk file is to move it to the table.                 *)
(*                                                                         *)
(* System calls run with interrupts off and the GUI thread, once           *)
(* preempted, runs again before any process: each operation is one step,   *)
(* and deletion of a folder, a loop over the shrinking table, is one step  *)
(* per turn with nothing in between. A path is the sequence of its names.  *)
(* Sizes count clusters.                                                   *)
(***************************************************************************)
EXTENDS Integers, Sequences, SequencesExt

CONSTANTS
  MaxNodes,  \* VFS::MAX_NODES
  MaxLoaded, \* MAX_EXFAT_NODES
  Bufs,      \* what kmalloc can hand out
  DiskEntry, \* DiskEntry[p]: type, clusters and layout of the disk's entry p
  Clusters,  \* the disk's clusters
  Items,     \* paths that users can give to files and folders
  Files,     \* paths that programs and the editor open
  Handles,   \* open files of programs
  BootFile,  \* "/test.txt"
  MaxSize,   \* bound: offsets and lengths, in clusters
  RenameToTaken \* whether users rename to a name that exists

NoBuf  == "none"
Static == "static" \* test_file_buffer, which kfree() refuses
NoPath == <<>>
Nil    == <<"nil", 0>>
Ram(i) == <<"ram", i>>
OnDisk(k) == <<"disk", k>>
Slots  == 0 .. MaxNodes - 1
Entries == DOMAIN DiskEntry

ASSUME TableAssumption ==
  MaxNodes \in Nat \ {0} /\ NoBuf \notin Bufs /\ Static \notin Bufs

\* A disk without damage: no cluster belongs to two entries, and those of a
\* contiguous entry follow one another.
ASSUME DiskAssumption ==
  /\ MaxLoaded \in Nat /\ Clusters \subseteq Nat
  /\ \A p \in Entries :
       /\ DiskEntry[p].type \in {"file", "dir"} /\ DiskEntry[p].chain \in Seq(Clusters)
       /\ DiskEntry[p].contiguous =>
            \A i \in 1 .. Len(DiskEntry[p].chain) :
              DiskEntry[p].chain[i] = DiskEntry[p].chain[1] + i - 1
  /\ \A p, q \in Entries : \A i \in 1 .. Len(DiskEntry[p].chain), j \in 1 .. Len(DiskEntry[q].chain) :
       DiskEntry[p].chain[i] = DiskEntry[q].chain[j] => p = q

ASSUME PathsAssumption ==
  MaxSize \in Nat /\ \A p \in Files \cup Items : Len(p) \in Nat \ {0}

Node(p, t, c, b) == [name |-> p, type |-> t, size |-> 0, cap |-> c, buf |-> b]

VARIABLES
  fs,     \* node, count: child_nodes[] and node_count, with what lies in the
          \* slots past it; loaded: exfat_nodes[]; heap: allocated buffers
  disk,   \* disk[c]: the file whose data cluster c holds
  open,   \* open[h]: the node of a File; module Descriptors has the rest
  song,   \* audio_wav_data: the buffer of the audio player
  doomed  \* the folder under deletion, and the loop's index

vars == <<fs, disk, open, song, doomed>>

NoDoom == [dir |-> NoPath, i |-> 0]

Owners(c) == {p \in Entries : \E i \in DOMAIN DiskEntry[p].chain : DiskEntry[p].chain[i] = c}
OwnerOf(c) == IF Owners(c) = {} THEN NoPath ELSE CHOOSE p \in Owners(c) : TRUE

\* The boot code has made one file, /test.txt.
Init ==
  /\ fs = [node |-> [i \in Slots |-> IF i = 0
                         THEN [Node(BootFile, "file", 1, Static) EXCEPT !.size = 1]
                         ELSE Node(NoPath, "file", 0, NoBuf)],
           count |-> 1, loaded |-> <<>>, heap |-> {}]
  /\ disk = [c \in Clusters |-> OwnerOf(c)]
  /\ open = [h \in Handles |-> Nil]
  /\ song = NoBuf
  /\ doomed = NoDoom

-----------------------------------------------------------------------------
(* Looking up, creating and removing nodes.                                *)

First(S) == CHOOSE i \in S : \A j \in S : i <= j
Live(f) == 0 .. f.count - 1
Match(f, p) == {i \in Live(f) : f.node[i].name = p}

\* One component of finddir(): the entry of directory w.dir with that name, by
\* way of the loaded nodes, which are known by name and type alone.
Missing(w) == [w EXCEPT !.at = Nil, !.dir = NoPath]
Reached(w, k) ==
  [w EXCEPT !.at = OnDisk(k),
            !.dir = IF w.loaded[k].type = "dir" THEN w.loaded[k].entry ELSE NoPath]
Component(w, c) ==
  LET e == Append(w.dir, c)
      known == {k \in 1 .. Len(w.loaded) : /\ w.loaded[k].type = DiskEntry[e].type
                                           /\ w.loaded[k].entry[Len(w.loaded[k].entry)] = c}
      size == Len(DiskEntry[e].chain)
      new == [entry |-> e, type |-> DiskEntry[e].type, size |-> size, info |-> size]
  IN  IF w.dir = NoPath \/ e \notin Entries THEN Missing(w)
      ELSE IF known # {} THEN Reached(w, First(known))
      ELSE IF Len(w.loaded) = MaxLoaded THEN Missing(w)
      ELSE Reached([w EXCEPT !.loaded = Append(@, new)], Len(w.loaded) + 1)

\* finddir() of the mounted disk for the names after the first.
Finddir(ld, p) ==
  LET walk[i \in 1 .. Len(p)] ==
        IF i = 1 THEN [dir |-> <<p[1]>>, at |-> Nil, loaded |-> ld]
        ELSE Component(walk[i - 1], p[i])
  IN  walk[Len(p)]

\* VFS::open(): the table first, then the disk. The node, and what is loaded.
Lookup(f, p) ==
  IF Match(f, p) # {} THEN [f |-> f, at |-> Ram(First(Match(f, p)))]
  ELSE IF p[1] = "disk"
    THEN LET w == Finddir(f.loaded, p) IN [f |-> [f EXCEPT !.loaded = w.loaded], at |-> w.at]
  ELSE [f |-> f, at |-> Nil]

\* VFS::create_file(): a full table refuses, what exists is returned. Seeded
\* faults: without the first check, without the second.
Added(f, p, b, cap) ==
  [f |-> [f EXCEPT !.node[f.count] = Node(p, "file", cap, b), !.count = @ + 1],
   at |-> Ram(f.count)]
CreateFull(f, p, b, cap) ==
  LET o == Lookup(f, p) IN IF o.at # Nil THEN o ELSE Added(o.f, p, b, cap)
CreateAnew(f, p, b, cap) ==
  IF f.count = MaxNodes THEN [f |-> f, at |-> Nil] ELSE Added(f, p, b, cap)
Create(f, p, b, cap) ==
  LET o == Lookup(f, p)
  IN  IF f.count = MaxNodes THEN [f |-> f, at |-> Nil]
      ELSE IF o.at # Nil THEN o
      ELSE Added(o.f, p, b, cap)

\* kmalloc(): NoBuf when there is none left.
Alloc(f) ==
  IF Bufs \ f.heap = {} THEN [f |-> f, buf |-> NoBuf]
  ELSE LET b == CHOOSE b \in Bufs \ f.heap : TRUE
       IN  [f |-> [f EXCEPT !.heap = @ \cup {b}], buf |-> b]

\* The node at i is freed and the later ones move down. Seeded fault: the last
\* one stays where it is.
Shifted(f, i, top) ==
  [f EXCEPT !.heap = @ \ {f.node[i].buf}, !.count = @ - 1,
            !.node = [j \in Slots |-> IF i <= j /\ j < top THEN f.node[j + 1] ELSE f.node[j]]]
TakeOutShort(f, i) == Shifted(f, i, f.count - 2)
TakeOut(f, i) == Shifted(f, i, f.count - 1)
TakeOutPath(f, p) == IF Match(f, p) = {} THEN f ELSE TakeOut(f, First(Match(f, p)))

\* A node as a pointer finds it now.
Deref(f, at) == IF at[1] = "ram" THEN f.node[at[2]] ELSE f.loaded[at[2]]
SetSize(f, at, n) == IF at[1] = "ram" THEN [f EXCEPT !.node[at[2]].size = n]
                     ELSE [f EXCEPT !.loaded[at[2]].size = n]
SetType(f, at, t) == IF at[1] = "ram" THEN [f EXCEPT !.node[at[2]].type = t]
                     ELSE [f EXCEPT !.loaded[at[2]].type = t]

-----------------------------------------------------------------------------
(* Reading and writing at offset o; n clusters.                            *)

Least(a, b) == IF a < b THEN a ELSE b
Most(a, b)  == IF a < b THEN b ELSE a

\* Clusters a disk file reaches from index o on: those of its chain, but any
\* that follow its first one when the disk says it is contiguous. Seeded fault:
\* the flag is read the wrong way round.
Run(e, o, n) == {DiskEntry[e].chain[1] + i : i \in o .. o + n - 1} \cap Clusters
Chain(e, o, n) ==
  {DiskEntry[e].chain[i + 1] : i \in o .. Least(o + n, Len(DiskEntry[e].chain)) - 1}
ReachSwapped(e, o, n) ==
  IF DiskEntry[e].contiguous THEN Chain(e, o, n) ELSE Run(e, o, n)
Reach(e, o, n) ==
  IF DiskEntry[e].contiguous THEN Run(e, o, n) ELSE Chain(e, o, n)

RamWrite(f, i, o, n) ==
  LET d == f.node[i]
      m == IF d.buf = NoBuf THEN 0 ELSE Most(0, Least(n, d.cap - o))
  IN  [f |-> IF m = 0 THEN f ELSE SetSize(f, Ram(i), Most(d.size, o + m)),
       at |-> Ram(i), n |-> m, hit |-> {}]

DiskWrite(f, k, o, n) ==
  LET d == f.loaded[k]
      m == IF DiskEntry[d.entry].contiguous THEN n
           ELSE Most(0, Least(n, Len(DiskEntry[d.entry].chain) - o))
      hit == Reach(d.entry, o, n)
      len == o + m
  IN  [f |-> IF m > 0 /\ len > d.info
               THEN [f EXCEPT !.loaded[k].size = len, !.loaded[k].info = len] ELSE f,
       at |-> OnDisk(k), n |-> m, hit |-> hit]

PlainWrite(f, at, o, n) ==
  IF at[1] = "ram" THEN RamWrite(f, at[2], o, n) ELSE DiskWrite(f, at[2], o, n)

\* A write that would grow a disk file: its contents go to a buffer for a node
\* "/disk/" and its name, which create_file() may find to exist.
Promote(f, k, o, n) ==
  LET d == f.loaded[k]
      a == Alloc(f)
      c == Create(a.f, <<"disk", d.entry[Len(d.entry)]>>, a.buf, o + n)
      failed(g) == [f |-> g, at |-> OnDisk(k), n |-> 0, hit |-> {}]
  IN  IF a.buf = NoBuf \/ d.size > d.info THEN failed(f)
      ELSE IF c.at = Nil THEN failed([c.f EXCEPT !.heap = @ \ {a.buf}])
      ELSE PlainWrite(SetSize(c.f, c.at, d.size), c.at, o, n)

\* What a read takes from the disk: nothing past the size in the file's info.
DiskRead(f, k, o, n) ==
  LET d == f.loaded[k]
  IN  IF o >= d.info THEN {} ELSE Reach(d.entry, o, Least(n, d.info - o))

\* VFS::write()
WriteAt(f, at, o, n) ==
  IF at[1] = "disk" /\ o + n > f.loaded[at[2]].size THEN Promote(f, at[2], o, n)
  ELSE PlainWrite(f, at, o, n)

Hit(w) == [c \in Clusters |-> IF c \in w.hit THEN w.f.loaded[w.at[2]].entry ELSE disk[c]]

-----------------------------------------------------------------------------
(* Programs. A read changes nothing.                                       *)

Quiet == doomed = NoDoom

Open(h, p) ==
  /\ Quiet /\ open[h] = Nil
  /\ LET o == Lookup(fs, p) IN fs' = o.f /\ open' = [open EXCEPT ![h] = o.at]
  /\ UNCHANGED <<disk, song, doomed>>

Close(h) ==
  /\ Quiet /\ open[h] # Nil
  /\ open' = [open EXCEPT ![h] = Nil]
  /\ UNCHANGED <<fs, disk, song, doomed>>

Write(h, o, n) ==
  /\ Quiet /\ open[h] # Nil
  /\ LET w == WriteAt(fs, open[h], o, n)
     IN  fs' = w.f /\ disk' = Hit(w) /\ open' = [open EXCEPT ![h] = w.at]
  /\ UNCHANGED <<song, doomed>>

-----------------------------------------------------------------------------
(* The file manager and the editor.                                        *)

\* The editor writes its n clusters of text from the start.
Save(p, n) ==
  /\ Quiet
  /\ LET o == Lookup(fs, p)
         w == WriteAt(o.f, o.at, 0, n)
     IN  IF o.at = Nil THEN fs' = o.f /\ UNCHANGED disk
         ELSE fs' = w.f /\ disk' = Hit(w)
  /\ UNCHANGED <<open, song, doomed>>

\* add_item(): a node, if there is none of that name. room: the list of icons
\* is not full.
AddItem(f, p, t, room) ==
  LET o == Lookup(f, p)
      a == Alloc(o.f)
      d == Create(o.f, p, NoBuf, 0)
  IN  IF ~room THEN f
      ELSE IF o.at # Nil THEN o.f
      ELSE IF t = "dir" THEN IF d.at = Nil THEN d.f ELSE SetType(d.f, d.at, "dir")
      ELSE IF a.buf = NoBuf THEN a.f ELSE Create(a.f, p, a.buf, 1).f

NewItem(p, t) ==
  /\ Quiet
  /\ fs' = AddItem(fs, p, t, TRUE)
  /\ UNCHANGED <<disk, open, song, doomed>>

\* rename_item(): the node alone; what a folder holds keeps its path.
Rename(p, q) ==
  /\ Quiet
  /\ Front(p) = Front(q)
  /\ RenameToTaken \/ Match(fs, q) = {}
  /\ Match(fs, p) # {}
  /\ fs' = [fs EXCEPT !.node[First(Match(fs, p))].name = q]
  /\ UNCHANGED <<disk, open, song, doomed>>

\* The source src is a pointer from before the removal of what has the
\* destination's name.
Pasted(f, src, dest, room) ==
  LET d == Deref(f, src)
      a == IF d.size > 0 /\ (src[1] = "ram" => d.buf # NoBuf) THEN Alloc(f)
           ELSE [f |-> f, buf |-> NoBuf]
      c == Create(a.f, dest, a.buf, d.size + 1)
      typed == SetType(c.f, c.at, Deref(c.f, src).type)
      g == IF c.at = Nil THEN c.f ELSE SetSize(typed, c.at, Deref(typed, src).size)
  IN  AddItem(g, dest, Deref(g, src).type, room)

\* Copy and cut remember path p, which is looked up when it is pasted.
Paste(p, cut, dest, room) ==
  /\ Quiet
  /\ Last(dest) = Last(p)
  /\ LET o == Lookup(fs, p)
         f == Pasted(TakeOutPath(o.f, dest), o.at, dest, room)
     IN  fs' = IF o.at = Nil THEN o.f ELSE IF cut THEN TakeOutPath(f, p) ELSE f
  /\ UNCHANGED <<disk, open, song, doomed>>

\* A Finder window lists folder p, the player opens the notes in file p.
Browse(p) ==
  /\ Quiet
  /\ fs' = Lookup(fs, p).f
  /\ UNCHANGED <<disk, open, song, doomed>>

PlayNotes(p) ==
  /\ Quiet
  /\ fs' = Lookup(fs, p).f
  /\ UNCHANGED <<disk, open, song, doomed>>

\* The player takes a buffer for the recording in file p. A file that is
\* "short" leaves it the last one; one that is not a recording, none.
Silenced(f) == [f EXCEPT !.heap = @ \ {song}]
PlaySound(p, kind) ==
  /\ Quiet
  /\ LET o == Lookup(fs, p)
         a == Alloc(Silenced(o.f))
     IN  IF o.at = Nil \/ kind = "short" \/ Deref(o.f, o.at).size = 0
           THEN fs' = o.f /\ UNCHANGED song
         ELSE IF kind = "sound" THEN fs' = a.f /\ song' = a.buf
         ELSE fs' = Silenced(o.f) /\ song' = NoBuf
  /\ UNCHANGED <<disk, open, doomed>>

ClosePlayer ==
  /\ Quiet
  /\ fs' = Silenced(fs) /\ song' = NoBuf
  /\ UNCHANGED <<disk, open, doomed>>

Under(p, dir) == Len(p) > Len(dir) /\ SubSeq(p, 1, Len(dir)) = dir

Delete(p, t) ==
  /\ Quiet
  /\ Match(fs, p) # {} => fs.node[First(Match(fs, p))].type = t
  /\ fs' = TakeOutPath(fs, p)
  /\ doomed' = IF t = "dir" THEN [dir |-> p, i |-> 0] ELSE NoDoom
  /\ UNCHANGED <<disk, open, song>>

\* One turn of the loop over the table. Seeded fault: the index moves on after
\* a removal too.
TurnSkip ==
  /\ ~Quiet
  /\ IF doomed.i >= fs.count THEN fs' = fs /\ doomed' = NoDoom
     ELSE IF Under(fs.node[doomed.i].name, doomed.dir)
       THEN fs' = TakeOut(fs, doomed.i) /\ doomed' = [doomed EXCEPT !.i = @ + 1]
     ELSE fs' = fs /\ doomed' = [doomed EXCEPT !.i = @ + 1]
  /\ UNCHANGED <<disk, open, song>>

Turn ==
  /\ ~Quiet
  /\ IF doomed.i >= fs.count THEN fs' = fs /\ doomed' = NoDoom
     ELSE IF Under(fs.node[doomed.i].name, doomed.dir)
       THEN fs' = TakeOut(fs, doomed.i) /\ UNCHANGED doomed
     ELSE fs' = fs /\ doomed' = [doomed EXCEPT !.i = @ + 1]
  /\ UNCHANGED <<disk, open, song>>

-----------------------------------------------------------------------------

Next ==
  \/ \E h \in Handles :
       \/ Close(h)
       \/ \E p \in Files : Open(h, p)
       \/ \E o \in 0 .. MaxSize - 1 : \E n \in 1 .. MaxSize - o : Write(h, o, n)
  \/ \E p \in Files, n \in 1 .. MaxSize : Save(p, n)
  \/ \E p \in Files : Browse(p) \/ PlayNotes(p)
  \/ \E p \in Files, kind \in {"short", "sound", "other"} : PlaySound(p, kind)
  \/ ClosePlayer
  \/ \E p \in Items, t \in {"file", "dir"} : NewItem(p, t) \/ Delete(p, t)
  \/ \E p, q \in Items : Rename(p, q)
  \/ \E p \in Items \cup Files, q \in Items, cut, room \in BOOLEAN : Paste(p, cut, q, room)
  \/ Turn

Spec == Init /\ [][Next]_vars

-----------------------------------------------------------------------------
(* Properties.                                                             *)

TypeOK ==
  /\ fs.count \in 0 .. MaxNodes
  /\ \A i \in Slots : fs.node[i].type \in {"file", "dir"} /\ fs.node[i].size >= 0
                      /\ fs.node[i].buf \in Bufs \cup {NoBuf, Static}
  /\ Len(fs.loaded) <= MaxLoaded
  /\ \A k \in 1 .. Len(fs.loaded) : fs.loaded[k].entry \in Entries
  /\ fs.heap \subseteq Bufs
  /\ song \in Bufs \cup {NoBuf}
  /\ \A h \in Handles : open[h] \in {Nil} \cup {Ram(i) : i \in Slots}
                                      \cup {OnDisk(k) : k \in 1 .. Len(fs.loaded)}

\* However files are created, renamed, copied, moved, played and deleted, and
\* whatever fails for want of memory or room: the buffer of a file is allocated,
\* and no two files share one, nor does the player with a file.
BuffersOwned ==
  /\ song # NoBuf => song \in fs.heap /\ \A i \in Live(fs) : fs.node[i].buf # song
  /\ \A i \in Live(fs) : fs.node[i].buf # NoBuf =>
       /\ fs.node[i].buf \in fs.heap \cup {Static}
       /\ \A j \in Live(fs) : fs.node[j].buf = fs.node[i].buf => j = i

\* No path is taken twice, so that what a lookup finds is the file of that
\* name; provided users do not rename to a name that exists.
PathsUnique ==
  ~RenameToTaken => \A i, j \in Live(fs) : fs.node[i].name = fs.node[j].name => i = j

\* The table of nodes after any sequence of its operations, failed ones too:
\* one buffer per file, one node per path.
TableSound == BuffersOwned /\ PathsUnique

\* Nodes not in the folder under deletion.
Outside == {fs.node[i] : i \in {j \in Live(fs) : ~Under(fs.node[j].name, doomed.dir)}}

\* Deletion of a folder takes away what lies in it and nothing else, though
\* the table moves under the loop.
TreeDeleted ==
  [][~Quiet => /\ \A d \in Outside : \E i \in Live(fs') : fs'.node[i] = d
               /\ Quiet' => \A i \in Live(fs) : ~Under(fs.node[i].name, doomed.dir)]_vars

\* What DiskIntact depends on: a contiguous file that grows finds no entry of its
\* name in the root of the disk, where create_file() would find it instead of
\* making a node, and the file manager works on its own folders.
Sheltered ==
  /\ \A p \in Entries : DiskEntry[p].contiguous => <<"disk", p[Len(p)]>> \notin Entries
  /\ \A p \in Items : p[1] # "disk"

\* "Resizing exFAT file. Promoting to RAM Copy-on-Write overlay" (fs/vfs.cpp:293):
\* the clusters of a file on the disk hold that file's data, whatever is written
\* past the end of another, and a read of a file finds nothing else.
DiskIntact ==
  /\ \A c \in Clusters : disk[c] = OwnerOf(c)
  /\ \A k \in 1 .. Len(fs.loaded), o \in 0 .. MaxSize, n \in 1 .. MaxSize :
       \A c \in DiskRead(fs, k, o, n) : disk[c] = fs.loaded[k].entry

=============================================================================
