--------------------------- MODULE RestartProofs ---------------------------
(***************************************************************************)
(* Machine-checked proofs about module Restart, for any number of icons,   *)
(* any names, any length of the buffer for desktop.cfg and any number of   *)
(* dumps on their way.                                                     *)
(***************************************************************************)
EXTENDS Restart, SequenceTheorems, TLAPS

-----------------------------------------------------------------------------
(* Lines and what is read back of them.                                    *)

LEMMA PosFields ==
  ASSUME NEW p \in Numerals \X Numerals
  PROVE  p[1] \in Numerals /\ p[2] \in Numerals /\ p = <<p[1], p[2]>>
  OBVIOUS

LEMMA IconFields ==
  ASSUME NEW it \in Icons
  PROVE  /\ it = [name |-> it.name, kind |-> it.kind, path |-> it.path, pos |-> it.pos]
         /\ it.name \in Seq(Words) /\ it.path \in Seq(Words)
         /\ it.kind \in Kinds /\ it.kind \in Words
         /\ it.pos \in Numerals \X Numerals
  <1>1. it \in [name : Seq(Words), kind : Kinds, path : Seq(Words), pos : Numerals \X Numerals]
    BY DEF Icons
  <1>2. it = [name |-> it.name, kind |-> it.kind, path |-> it.path, pos |-> it.pos]
    BY <1>1
  <1>3. it.name \in Seq(Words) /\ it.path \in Seq(Words) /\ it.kind \in Kinds
    BY <1>1
  <1>4. it.pos \in Numerals \X Numerals
    BY <1>1
  <1>5. it.kind \in Words
    BY <1>3, IconsAssumption
  <1> QED BY <1>2, <1>3, <1>4, <1>5

LEMMA PosIsSeq ==
  ASSUME NEW p \in Numerals \X Numerals
  PROVE  p \in Seq(Words) /\ Len(p) = 2
  <1>1. PICK a \in Numerals, b \in Numerals : p = <<a, b>>
    BY PosFields
  <1>2. a \in Words /\ b \in Words
    BY IconsAssumption
  <1>3. <<a, b>> \in Seq(Words) /\ Len(<<a, b>>) = 2
    BY <1>2
  <1> QED BY <1>1, <1>3

LEMMA LineIsSeq ==
  ASSUME NEW it \in Icons
  PROVE  Line(it) \in Seq(Words)
  <1>1. it.name \in Seq(Words) /\ it.path \in Seq(Words) /\ it.kind \in Words /\ it.pos \in Seq(Words)
    BY IconFields, PosIsSeq
  <1>2. PICK a \in Seq(Words), k \in Words, b \in Seq(Words), p \in Seq(Words) :
          a = it.name /\ k = it.kind /\ b = it.path /\ p = it.pos
    BY <1>1
  <1>3. a \o <<k>> \o b \o p \in Seq(Words)
    OBVIOUS
  <1> QED BY <1>2, <1>3 DEF Line

LEMMA WordType ==
  ASSUME NEW l \in Seq(Words), NEW i
  PROVE  Word(l, i) \in Words
  <1>1. CASE i \in DOMAIN l
    <2>1. l[i] \in Words
      BY <1>1, ElementOfSeq, LenProperties
    <2> QED BY <1>1, <2>1 DEF Word
  <1>2. CASE i \notin DOMAIN l
    BY <1>2, IconsAssumption DEF Word
  <1> QED BY <1>1, <1>2

LEMMA NumberType ==
  ASSUME NEW w
  PROVE  Number(w) \in Numerals /\ (w \in Numerals => Number(w) = w)
  BY RestartAssumption DEF Number

\* Whatever a line holds, one word becomes the name, one the path, and the
\* kind and the numbers are valid.
LEMMA ItemType ==
  ASSUME NEW l \in Seq(Words)
  PROVE  Item(l) \in Icons /\ Len(Item(l).name) = 1 /\ Len(Item(l).path) = 1
  <1> DEFINE y == IF Word(l, 4) \in Numerals \cup {""} THEN Number(Word(l, 5)) ELSE "0"
             k == IF Word(l, 2) \in {"DIR", "TERM"} THEN Word(l, 2) ELSE "FILE"
  <1>1. Word(l, 1) \in Words /\ Word(l, 3) \in Words
    BY WordType
  <1>2. k \in Kinds
    BY DEF Kinds
  <1>3. Number(Word(l, 4)) \in Numerals /\ y \in Numerals
    BY NumberType, RestartAssumption
  <1>4. Item(l) = [name |-> <<Word(l, 1)>>, kind |-> k, path |-> <<Word(l, 3)>>,
                   pos |-> <<Number(Word(l, 4)), y>>]
    BY DEF Item
  <1> HIDE DEF y, k
  <1>5. /\ <<Word(l, 1)>> \in Seq(Words) /\ <<Word(l, 3)>> \in Seq(Words)
        /\ Len(<<Word(l, 1)>>) = 1 /\ Len(<<Word(l, 3)>>) = 1
    BY <1>1
  <1>6. <<Number(Word(l, 4)), y>> \in Numerals \X Numerals
    BY <1>3
  <1> QED BY <1>2, <1>4, <1>5, <1>6 DEF Icons

LEMMA WordsConcat ==
  ASSUME NEW s \in Seq(Words), NEW t \in Seq(Words)
  PROVE  /\ s \o t \in Seq(Words) /\ Len(s \o t) = Len(s) + Len(t)
         /\ \A i \in 1 .. Len(s) + Len(t) : (s \o t)[i] = IF i <= Len(s) THEN s[i] ELSE t[i - Len(s)]
  BY ConcatProperties

\* An icon without blanks comes back as it was.
LEMMA PlainReturns ==
  ASSUME NEW it \in Icons, Len(it.name) = 1, Len(it.path) = 1
  PROVE  Item(Line(it)) = it
  <1>1. PICK a \in Seq(Words), k \in Words, b \in Seq(Words), p \in Seq(Words) :
          a = it.name /\ k = it.kind /\ b = it.path /\ p = it.pos
    BY IconFields, PosIsSeq
  <1>2. Len(a) = 1 /\ Len(b) = 1 /\ Len(p) = 2
    BY <1>1, IconFields, PosIsSeq
  <1>3. PICK l : l = a \o <<k>> \o b \o p
    OBVIOUS
  <1>4. /\ l \in Seq(Words) /\ Len(l) = 5
        /\ l[1] = a[1] /\ l[2] = k /\ l[3] = b[1] /\ l[4] = p[1] /\ l[5] = p[2]
    <2>1. PICK o \in Seq(Words) : o = <<k>> /\ Len(o) = 1 /\ o[1] = k
      <3>1. <<k>> \in Seq(Words) /\ Len(<<k>>) = 1 /\ <<k>>[1] = k
        OBVIOUS
      <3> QED BY <3>1
    <2>2. PICK m \in Seq(Words) : m = a \o o
      BY WordsConcat
    <2>3. Len(m) = 2 /\ m[1] = a[1] /\ m[2] = k
      <3>1. Len(m) = Len(a) + Len(o) /\ \A i \in 1 .. Len(a) + Len(o) : m[i] = IF i <= Len(a) THEN a[i] ELSE o[i - Len(a)]
        BY <2>2, WordsConcat
      <3> QED BY <1>2, <2>1, <3>1
    <2>4. PICK n \in Seq(Words) : n = m \o b
      BY WordsConcat
    <2>5. Len(n) = 3 /\ n[1] = m[1] /\ n[2] = m[2] /\ n[3] = b[1]
      <3>1. Len(n) = Len(m) + Len(b) /\ \A i \in 1 .. Len(m) + Len(b) : n[i] = IF i <= Len(m) THEN m[i] ELSE b[i - Len(m)]
        BY <2>4, WordsConcat
      <3> QED BY <1>2, <2>3, <3>1
    <2>6. PICK q \in Seq(Words) : q = n \o p
      BY WordsConcat
    <2>7. Len(q) = 5 /\ q[1] = n[1] /\ q[2] = n[2] /\ q[3] = n[3] /\ q[4] = p[1] /\ q[5] = p[2]
      <3>1. Len(q) = Len(n) + Len(p) /\ \A i \in 1 .. Len(n) + Len(p) : q[i] = IF i <= Len(n) THEN n[i] ELSE p[i - Len(n)]
        BY <2>6, WordsConcat
      <3> QED BY <1>2, <2>5, <3>1
    <2>8. l = q
      BY <1>3, <2>1, <2>2, <2>4, <2>6
    <2> QED BY <2>3, <2>5, <2>7, <2>8
  <1>5. DOMAIN l = 1 .. 5
    BY <1>4, LenProperties
  <1>6. /\ Word(l, 1) = a[1] /\ Word(l, 2) = k /\ Word(l, 3) = b[1]
        /\ Word(l, 4) = p[1] /\ Word(l, 5) = p[2]
    BY <1>4, <1>5 DEF Word
  <1>7. a = <<a[1]>> /\ b = <<b[1]>>
    BY <1>2
  <1>8. k \in Kinds /\ p[1] \in Numerals /\ p[2] \in Numerals /\ p = <<p[1], p[2]>>
    BY <1>1, IconFields, PosFields
  <1>9. Item(l) = [name |-> a, kind |-> k, path |-> b, pos |-> p]
    <2>1. (IF k \in {"DIR", "TERM"} THEN k ELSE "FILE") = k
      BY <1>8 DEF Kinds
    <2>2. Number(p[1]) = p[1] /\ Number(p[2]) = p[2]
      BY <1>8, NumberType
    <2>3. Item(l) = [name |-> <<a[1]>>, kind |-> IF k \in {"DIR", "TERM"} THEN k ELSE "FILE",
                     path |-> <<b[1]>>,
                     pos |-> <<Number(p[1]), IF p[1] \in Numerals \cup {""} THEN Number(p[2]) ELSE "0">>]
      BY <1>6 DEF Item
    <2>4. (IF p[1] \in Numerals \cup {""} THEN Number(p[2]) ELSE "0") = p[2]
      BY <1>8, <2>2
    <2> QED BY <1>7, <1>8, <2>1, <2>2, <2>3, <2>4
  <1>10. Line(it) = l
    BY <1>1, <1>3 DEF Line
  <1>11. it = [name |-> a, kind |-> k, path |-> b, pos |-> p]
    BY <1>1, IconFields
  <1> QED BY <1>9, <1>10, <1>11

LEMMA ReloadFacts ==
  ASSUME NEW s \in Seq(Icons)
  PROVE  /\ Reload(s) \in Seq(Icons) /\ Len(Reload(s)) = Len(s)
         /\ \A i \in DOMAIN s : Reload(s)[i] = Item(Line(s[i]))
  <1> DEFINE n == Len(s)
  <1>1. n \in Nat /\ DOMAIN s = 1 .. n
    BY LenProperties
  <1>2. Reload(s) = [i \in 1 .. n |-> Item(Line(s[i]))]
    BY <1>1 DEF Reload
  <1>3. \A i \in 1 .. n : Item(Line(s[i])) \in Icons
    BY ElementOfSeq, LineIsSeq, ItemType
  <1> HIDE DEF n
  <1>4. Reload(s) \in Seq(Icons)
    BY <1>1, <1>2, <1>3, IsASeq
  <1>5. Len(Reload(s)) = n
    BY <1>1, <1>2, <1>4, LenProperties
  <1> QED BY <1>1, <1>2, <1>4, <1>5 DEF n

\* One restart settles what the next one brings back.
LEMMA ReloadSettles ==
  ASSUME NEW s \in Seq(Icons)
  PROVE  /\ Reload(Reload(s)) = Reload(s)
         /\ \A i \in DOMAIN s : Len(s[i].name) = 1 /\ Len(s[i].path) = 1 => Reload(s)[i] = s[i]
  <1>1. PICK r \in Seq(Icons) : r = Reload(s)
    BY ReloadFacts
  <1>2. Len(r) = Len(s) /\ Len(s) \in Nat /\ DOMAIN s = 1 .. Len(s) /\ DOMAIN r = 1 .. Len(s)
    BY <1>1, ReloadFacts, LenProperties
  <1>3. \A i \in 1 .. Len(s) : s[i] \in Icons /\ r[i] \in Icons /\ r[i] = Item(Line(s[i]))
    BY <1>1, <1>2, ReloadFacts, ElementOfSeq
  <1>4. PICK q \in Seq(Icons) : q = Reload(r)
    BY ReloadFacts
  <1>5. Len(q) = Len(s) /\ \A i \in 1 .. Len(s) : q[i] = Item(Line(r[i]))
    BY <1>2, <1>4, ReloadFacts
  <1>6. \A i \in 1 .. Len(s) : Len(r[i].name) = 1 /\ Len(r[i].path) = 1
    BY <1>3, LineIsSeq, ItemType
  <1>7. \A i \in 1 .. Len(s) : q[i] = r[i]
    BY <1>3, <1>5, <1>6, PlainReturns
  <1>8. q = r
    BY <1>2, <1>5, <1>7, SeqEqual
  <1>9. \A i \in DOMAIN s : Len(s[i].name) = 1 /\ Len(s[i].path) = 1 => r[i] = s[i]
    BY <1>2, <1>3, PlainReturns
  <1> QED BY <1>1, <1>4, <1>8, <1>9

LEMMA LinesType ==
  ASSUME NEW s \in Seq(Icons)
  PROVE  Lines(s) \in Seq(Seq(Words)) /\ Len(Lines(s)) = Len(s)
  <1> DEFINE n == Len(s)
  <1>1. n \in Nat /\ DOMAIN s = 1 .. n
    BY LenProperties
  <1>2. Lines(s) = [i \in 1 .. n |-> Line(s[i])]
    BY <1>1 DEF Lines
  <1>3. \A i \in 1 .. n : Line(s[i]) \in Seq(Words)
    BY ElementOfSeq, LineIsSeq
  <1> HIDE DEF n
  <1>4. Lines(s) \in Seq(Seq(Words))
    BY <1>1, <1>2, <1>3, IsASeq
  <1>5. Len(Lines(s)) = n
    BY <1>1, <1>2, <1>4, LenProperties
  <1> QED BY <1>4, <1>5 DEF n

LEMMA ItemsType ==
  ASSUME NEW lines \in Seq(Seq(Words))
  PROVE  /\ [i \in DOMAIN lines |-> Item(lines[i])] \in Seq(Icons)
         /\ Len([i \in DOMAIN lines |-> Item(lines[i])]) = Len(lines)
  <1> DEFINE n == Len(lines)
             r == [i \in DOMAIN lines |-> Item(lines[i])]
  <1>1. n \in Nat /\ DOMAIN lines = 1 .. n
    BY LenProperties
  <1>2. r = [i \in 1 .. n |-> Item(lines[i])]
    BY <1>1
  <1>3. \A i \in 1 .. n : Item(lines[i]) \in Icons
    <2> SUFFICES ASSUME NEW i \in 1 .. n
                 PROVE  Item(lines[i]) \in Icons
      OBVIOUS
    <2>1. lines[i] \in Seq(Words)
      BY ElementOfSeq
    <2> QED BY <2>1, ItemType
  <1> HIDE DEF n, r
  <1>4. r \in Seq(Icons)
    BY <1>1, <1>2, <1>3, IsASeq
  <1>5. Len(r) = n
    BY <1>1, <1>2, <1>4, LenProperties
  <1> QED BY <1>4, <1>5 DEF n, r

LEMMA SliceType ==
  ASSUME NEW S, NEW s \in Seq(S), NEW m \in Int, NEW n \in Int, 1 <= m, n <= Len(s)
  PROVE  SubSeq(s, m, n) \in Seq(S) /\ Len(SubSeq(s, m, n)) = IF m <= n THEN n - m + 1 ELSE 0
  <1>1. \A i \in m .. n : i \in 1 .. Len(s)
    BY LenProperties
  <1>2. \A i \in m .. n : s[i] \in S
    BY <1>1, ElementOfSeq
  <1> QED BY <1>2, SubSeqProperties

LEMMA LoadableType ==
  ASSUME NEW s \in Seq(Seq(Words)), Len(s) <= MaxIcons, NEW t \in Loadable(s)
  PROVE  t \in Seq(Seq(Words)) /\ Len(t) <= MaxIcons
  <1>1. CASE Len(s) <= Buffer
    BY <1>1 DEF Loadable
  <1>2. CASE ~(Len(s) <= Buffer)
    <2>1. Len(s) \in Nat /\ Buffer \in Nat /\ MaxIcons \in Nat /\ Buffer + 1 <= Len(s) /\ Buffer + 1 \in 1 .. Len(s)
      BY <1>2, LenProperties, RestartAssumption
    <2>2. PICK whole \in Seq(Seq(Words)) : whole = SubSeq(s, 1, Buffer) /\ Len(whole) = Buffer
      <3>1. /\ SubSeq(s, 1, Buffer) \in Seq(Seq(Words))
            /\ Len(SubSeq(s, 1, Buffer)) = IF 1 <= Buffer THEN Buffer - 1 + 1 ELSE 0
        BY <2>1, SliceType
      <3>2. Len(SubSeq(s, 1, Buffer)) = Buffer
        BY <2>1, <3>1
      <3> QED BY <3>1, <3>2
    <2>3. PICK next \in Seq(Words) : next = s[Buffer + 1]
      BY <2>1, ElementOfSeq
    <2>4. t = whole \/ \E j \in DOMAIN next : t = Append(whole, SubSeq(next, 1, j))
      BY <1>2, <2>2, <2>3 DEF Loadable
    <2>5. CASE t = whole
      BY <2>1, <2>2, <2>5
    <2>6. CASE \E j \in DOMAIN next : t = Append(whole, SubSeq(next, 1, j))
      <3>1. PICK j \in DOMAIN next : t = Append(whole, SubSeq(next, 1, j))
        BY <2>6
      <3>2. PICK cut \in Seq(Words) : cut = SubSeq(next, 1, j)
        <4>1. j \in Int /\ 1 <= j /\ j <= Len(next)
          BY LenProperties
        <4>2. SubSeq(next, 1, j) \in Seq(Words)
          BY <4>1, SliceType
        <4> QED BY <4>2
      <3>3. t \in Seq(Seq(Words)) /\ Len(t) = Len(whole) + 1
        BY <3>1, <3>2, AppendProperties
      <3> QED BY <2>1, <2>2, <3>3
    <2> QED BY <2>4, <2>5, <2>6
  <1> QED BY <1>1, <1>2

-----------------------------------------------------------------------------
(* The inductive invariant: what every variable may hold, and where the look *)
(* on the screen is to be found.                                             *)

Cfgs  == {c \in [look : Looks, lines : Seq(Seq(Words)), ok : BOOLEAN] : Len(c.lines) <= MaxIcons}
Dumps == [cfg : Cfgs, text : (Contents \ {"empty"}) \cup {"none"}]
Jobs  == {Idle} \cup [step : {"files", "cfg", "tar"}, dump : Dumps]

MachineTyped ==
  /\ up \in BOOLEAN /\ look \in Looks
  /\ icons \in Seq(Icons) /\ Len(icons) <= MaxIcons
  /\ \A f \in DOMAIN ram : ram[f] \in Contents \cup {"dir"}

HostTyped ==
  /\ sent \in Seq(Dumps) /\ job \in Jobs /\ Pending <= MaxSent
  /\ archive \in Cfgs /\ lost \in BOOLEAN
  /\ host \in Contents \cup {"none"}

(* Of what was printed, read and archived, the newest that is not lost shows
   the look on the screen. *)
Newest ==
  up /\ (sent # <<>> \/ job # Idle \/ ~lost) =>
    look = IF sent # <<>> THEN sent[Len(sent)].cfg.look
           ELSE IF job # Idle THEN job.dump.cfg.look ELSE archive.look

IInv == MachineTyped /\ HostTyped /\ Newest

-----------------------------------------------------------------------------
(* Dumps and files.                                                          *)

LEMMA NoCfgType == NoCfg \in Cfgs
  <1>1. NoCfg.lines = <<>> /\ <<>> \in Seq(Seq(Words)) /\ Len(<<>>) = 0
    BY DEF NoCfg
  <1> QED BY <1>1, RestartAssumption DEF NoCfg, Cfgs

LEMMA JobFacts ==
  ASSUME NEW j \in Jobs
  PROVE  /\ j # Idle <=> j.step # "idle"
         /\ j # Idle => j \in [step : {"files", "cfg", "tar"}, dump : Dumps]
  BY DEF Jobs, Idle

LEMMA DumpType ==
  ASSUME NEW s \in Seq(Icons), Len(s) <= MaxIcons, NEW l \in Looks,
         NEW f, \A x \in DOMAIN f : f[x] \in Contents \cup {"dir"}
  PROVE  Dump(s, l, f) \in Dumps /\ Dump(s, l, f).cfg.look = l
  <1>1. PICK ls \in Seq(Seq(Words)) : ls = Lines(s) /\ Len(ls) <= MaxIcons
    BY LinesType
  <1>2. PICK c : c = [look |-> l, lines |-> ls, ok |-> TRUE]
    OBVIOUS
  <1>3. c \in Cfgs /\ c.look = l
    BY <1>1, <1>2 DEF Cfgs
  <1>4. PICK t : t = IF Watched \in DOMAIN f /\ f[Watched] \notin {"dir", "empty"} THEN f[Watched] ELSE "none"
    OBVIOUS
  <1>5. t \in (Contents \ {"empty"}) \cup {"none"}
    BY <1>4
  <1>6. Dump(s, l, f) = [cfg |-> c, text |-> t]
    BY <1>1, <1>2, <1>4 DEF Dump
  <1> QED BY <1>3, <1>5, <1>6 DEF Dumps

LEMMA FreshType ==
  ASSUME NEW it
  PROVE  Fresh(it) \in Contents \cup {"dir"}
  BY DEF Fresh, Contents

LEMMA FilesType ==
  ASSUME NEW s
  PROVE  \A f \in DOMAIN Files(s) : Files(s)[f] \in Contents \cup {"dir"}
  BY FreshType DEF Files

LEMMA PutType ==
  ASSUME NEW f, NEW k, NEW v \in Contents \cup {"dir"},
         \A x \in DOMAIN f : f[x] \in Contents \cup {"dir"}
  PROVE  \A x \in DOMAIN Put(f, k, v) : Put(f, k, v)[x] \in Contents \cup {"dir"}
  BY DEF Put

LEMMA PartType ==
  ASSUME NEW f, NEW S \in SUBSET DOMAIN f,
         \A x \in DOMAIN f : f[x] \in Contents \cup {"dir"}
  PROVE  \A x \in DOMAIN Part(f, S) : Part(f, S)[x] \in Contents \cup {"dir"}
  BY DEF Part

LEMMA RemoveType ==
  ASSUME NEW s \in Seq(Icons), NEW i \in DOMAIN s
  PROVE  RemoveAt(s, i) \in Seq(Icons) /\ Len(RemoveAt(s, i)) <= Len(s)
  <1>1. i \in 1 .. Len(s) /\ Len(s) \in Nat
    BY LenProperties
  <1>2. PICK a \in Seq(Icons) : a = SubSeq(s, 1, i - 1) /\ Len(a) = i - 1
    <2>1. i - 1 \in Int /\ 1 \in Int /\ 1 <= 1 /\ i - 1 <= Len(s)
      BY <1>1
    <2>2. /\ SubSeq(s, 1, i - 1) \in Seq(Icons)
          /\ Len(SubSeq(s, 1, i - 1)) = IF 1 <= i - 1 THEN (i - 1) - 1 + 1 ELSE 0
      BY <2>1, SliceType
    <2>3. Len(SubSeq(s, 1, i - 1)) = i - 1
      BY <1>1, <2>2
    <2> QED BY <2>2, <2>3
  <1>3. PICK b \in Seq(Icons) : b = SubSeq(s, i + 1, Len(s)) /\ Len(b) = Len(s) - i
    <2>1. i + 1 \in Int /\ Len(s) \in Int /\ 1 <= i + 1 /\ Len(s) <= Len(s)
      BY <1>1
    <2>2. /\ SubSeq(s, i + 1, Len(s)) \in Seq(Icons)
          /\ Len(SubSeq(s, i + 1, Len(s))) = IF i + 1 <= Len(s) THEN Len(s) - (i + 1) + 1 ELSE 0
      BY <2>1, SliceType
    <2>3. Len(SubSeq(s, i + 1, Len(s))) = Len(s) - i
      BY <1>1, <2>2
    <2> QED BY <2>2, <2>3
  <1>4. a \o b \in Seq(Icons) /\ Len(a \o b) = Len(a) + Len(b)
    BY ConcatProperties
  <1>5. RemoveAt(s, i) = a \o b
    BY <1>2, <1>3 DEF RemoveAt
  <1>6. Len(a) + Len(b) <= Len(s)
    BY <1>1, <1>2, <1>3
  <1> QED BY <1>4, <1>5, <1>6

LEMMA ReplaceType ==
  ASSUME NEW s \in Seq(Icons), NEW i \in DOMAIN s, NEW it \in Icons
  PROVE  [s EXCEPT ![i] = it] \in Seq(Icons) /\ Len([s EXCEPT ![i] = it]) = Len(s)
  <1>1. i \in 1 .. Len(s)
    BY LenProperties
  <1> QED BY <1>1, ExceptSeq

-----------------------------------------------------------------------------
(* Every step keeps it.                                                      *)

LEMMA InitKeeps == Init => IInv
  <1> SUFFICES ASSUME Init PROVE IInv
    OBVIOUS
  <1>1. MachineTyped
    BY FilesType, IconsAssumption, RestartAssumption DEF Init, MachineTyped
  <1>2. HostTyped
    <2>1. sent = <<>> /\ <<>> \in Seq(Dumps) /\ Len(<<>>) = 0
      BY DEF Init
    <2>2. job = Idle /\ job \in Jobs
      BY DEF Init, Jobs
    <2>3. Pending <= MaxSent
      BY <2>1, <2>2, RestartAssumption DEF Pending
    <2>4. archive \in Cfgs /\ lost \in BOOLEAN /\ host \in Contents \cup {"none"}
      BY NoCfgType DEF Init
    <2> QED BY <2>1, <2>2, <2>3, <2>4 DEF HostTyped
  <1>3. Newest
    BY DEF Init, Newest, NoCfg
  <1> QED BY <1>1, <1>2, <1>3 DEF IInv

\* A step of the machine that prints a dump.
LEMMA PersistKeeps ==
  ASSUME IInv, Running, MachineTyped', Persist
  PROVE  IInv'
  <1>1. PICK d : d = Dump(icons', look', ram') /\ d \in Dumps /\ d.cfg.look = look'
    BY DumpType DEF MachineTyped
  <1>2. /\ sent \in Seq(Dumps) /\ Len(sent) \in Nat /\ sent' = Append(sent, d)
        /\ job' = job /\ host' = host /\ archive' = archive /\ lost' = lost
    BY <1>1, LenProperties DEF IInv, HostTyped, Persist, Running
  <1>3. sent' \in Seq(Dumps) /\ Len(sent') = Len(sent) + 1 /\ sent'[Len(sent')] = d
    BY <1>1, <1>2, AppendProperties
  <1>4. Pending' <= MaxSent
    BY <1>2, <1>3, RestartAssumption DEF Running, Pending
  <1>5. HostTyped'
    BY <1>2, <1>3, <1>4 DEF IInv, HostTyped
  <1>6. sent' # <<>>
    BY <1>2, <1>3
  <1>7. Newest'
    BY <1>1, <1>3, <1>6 DEF Newest
  <1> QED BY <1>5, <1>7 DEF IInv

\* One that prints nothing.
LEMMA QuietKeeps ==
  ASSUME IInv, Running, MachineTyped', look' = look, sent' = sent
  PROVE  IInv'
  <1>1. job' = job /\ host' = host /\ archive' = archive /\ lost' = lost /\ up' = up
    BY DEF Running
  <1>2. HostTyped'
    BY <1>1 DEF IInv, HostTyped, Pending
  <1>3. Newest'
    BY <1>1 DEF IInv, Newest
  <1> QED BY <1>2, <1>3 DEF IInv

LEMMA ChooseLookKeeps ==
  ASSUME IInv, ChooseLook
  PROVE  IInv'
  <1>1. MachineTyped'
    BY DEF IInv, MachineTyped, ChooseLook, Running
  <1> QED BY <1>1, PersistKeeps DEF ChooseLook

LEMMA MoveKeeps ==
  ASSUME IInv, NEW i \in DOMAIN icons, Move(i)
  PROVE  IInv'
  <1>1. PICK p \in Places : icons' = [icons EXCEPT ![i].pos = p]
    BY DEF Move
  <1>2. icons \in Seq(Icons) /\ icons[i] \in Icons
    <2>1. icons \in Seq(Icons) /\ i \in 1 .. Len(icons)
      BY LenProperties DEF IInv, MachineTyped
    <2> QED BY <2>1, ElementOfSeq
  <1>3. PICK it : it = [icons[i] EXCEPT !.pos = p]
    OBVIOUS
  <1>4. it \in Icons
    <2>1. p \in Numerals \X Numerals
      BY IconsAssumption
    <2> QED BY <1>2, <1>3, <2>1 DEF Icons
  <1>5. icons' = [icons EXCEPT ![i] = it]
    BY <1>1, <1>3
  <1>6. icons' \in Seq(Icons) /\ Len(icons') = Len(icons)
    BY <1>2, <1>4, <1>5, ReplaceType
  <1>7. MachineTyped'
    BY <1>6 DEF IInv, MachineTyped, Move, Running
  <1> QED BY <1>7, PersistKeeps DEF Move

LEMMA NewKeeps ==
  ASSUME IInv, NEW kind \in {"DIR", "FILE"}, NEW menu \in BOOLEAN, New(kind, menu)
  PROVE  IInv'
  <1>0. PICK n \in Names, d \in Folders, p \in Places :
          /\ icons' = Append(icons, [name |-> n, kind |-> kind, path |-> d, pos |-> p])
          /\ ram' = Created([name |-> n, kind |-> kind, path |-> d, pos |-> p])
    BY DEF New
  <1>1. PICK it :
          /\ it = [name |-> n, kind |-> kind, path |-> d, pos |-> p]
          /\ icons' = Append(icons, it) /\ ram' = Created(it)
    BY <1>0
  <1>2. it \in Icons
    <2>1. n \in Seq(Words) /\ d \in Seq(Words) /\ p \in Numerals \X Numerals /\ kind \in Kinds
      BY IconsAssumption DEF Kinds
    <2> QED BY <1>1, <2>1 DEF Icons
  <1>3. icons' \in Seq(Icons) /\ Len(icons') <= MaxIcons
    <2>1. icons \in Seq(Icons) /\ Len(icons) < MaxIcons /\ Len(icons) \in Nat /\ MaxIcons \in Nat
      BY LenProperties, RestartAssumption DEF IInv, MachineTyped, New
    <2>2. icons' \in Seq(Icons) /\ Len(icons') = Len(icons) + 1
      BY <1>1, <1>2, <2>1, AppendProperties
    <2> QED BY <2>1, <2>2
  <1>4. \A f \in DOMAIN ram' : ram'[f] \in Contents \cup {"dir"}
    <2>1. PICK v \in Contents \cup {"dir"} : v = Fresh(it)
      BY FreshType
    <2>2. ram' = ram \/ ram' = Put(ram, File(it), v)
      BY <1>1, <2>1 DEF Created
    <2>3. \A f \in DOMAIN ram : ram[f] \in Contents \cup {"dir"}
      BY DEF IInv, MachineTyped
    <2> QED BY <2>2, <2>3, PutType
  <1>5. MachineTyped' /\ look' = look
    BY <1>3, <1>4 DEF IInv, MachineTyped, New, Running
  <1>6. Running /\ (Persist \/ sent' = sent)
    BY DEF New
  <1> QED BY <1>5, <1>6, PersistKeeps, QuietKeeps

LEMMA RenameKeeps ==
  ASSUME IInv, NEW i \in DOMAIN icons, NEW enter \in BOOLEAN, Rename(i, enter)
  PROVE  IInv'
  <1>0. PICK n \in Names :
          LET to == [icons[i] EXCEPT !.name = n] IN
          /\ icons' = [icons EXCEPT ![i] = to]
          /\ ram' = IF enter /\ File(icons[i]) \in DOMAIN ram
                      THEN Put(Part(ram, DOMAIN ram \ {File(icons[i])}), File(to), ram[File(icons[i])])
                      ELSE ram
    BY DEF Rename
  <1>1. PICK to :
          /\ to = [icons[i] EXCEPT !.name = n]
          /\ icons' = [icons EXCEPT ![i] = to]
          /\ ram' = IF enter /\ File(icons[i]) \in DOMAIN ram
                      THEN Put(Part(ram, DOMAIN ram \ {File(icons[i])}), File(to), ram[File(icons[i])])
                      ELSE ram
    BY <1>0
  <1>2. icons \in Seq(Icons) /\ icons[i] \in Icons
    <2>1. icons \in Seq(Icons) /\ i \in 1 .. Len(icons)
      BY LenProperties DEF IInv, MachineTyped
    <2> QED BY <2>1, ElementOfSeq
  <1>3. to \in Icons
    <2>1. n \in Seq(Words)
      BY IconsAssumption
    <2> QED BY <1>1, <1>2, <2>1 DEF Icons
  <1>4. icons' \in Seq(Icons) /\ Len(icons') = Len(icons)
    BY <1>1, <1>2, <1>3, ReplaceType
  <1>5. \A f \in DOMAIN ram' : ram'[f] \in Contents \cup {"dir"}
    <2>1. \A f \in DOMAIN ram : ram[f] \in Contents \cup {"dir"}
      BY DEF IInv, MachineTyped
    <2>2. CASE ram' = ram
      BY <2>1, <2>2
    <2>3. CASE ram' # ram
      <3>1. PICK v \in Contents \cup {"dir"} : v = ram[File(icons[i])]
        BY <1>1, <2>1, <2>3
      <3>2. PICK S \in SUBSET DOMAIN ram : S = DOMAIN ram \ {File(icons[i])}
        OBVIOUS
      <3>3. PICK rest : rest = Part(ram, S)
        OBVIOUS
      <3>4. \A f \in DOMAIN rest : rest[f] \in Contents \cup {"dir"}
        BY <2>1, <3>3, PartType
      <3>5. ram' = Put(rest, File(to), v)
        BY <1>1, <2>3, <3>1, <3>2, <3>3
      <3> QED BY <3>4, <3>5, PutType
    <2> QED BY <2>2, <2>3
  <1>6. MachineTyped' /\ look' = look /\ sent' = sent
    BY <1>4, <1>5 DEF IInv, MachineTyped, Rename, Running
  <1> QED BY <1>6, QuietKeeps DEF Rename

LEMMA DeleteKeeps ==
  ASSUME IInv, NEW i \in DOMAIN icons, Delete(i)
  PROVE  IInv'
  <1>1. icons' \in Seq(Icons) /\ Len(icons') <= MaxIcons
    <2>1. icons \in Seq(Icons) /\ Len(icons) <= MaxIcons /\ Len(icons) \in Nat /\ MaxIcons \in Nat
      BY LenProperties, RestartAssumption DEF IInv, MachineTyped
    <2>2. icons' \in Seq(Icons) /\ Len(icons') <= Len(icons)
      BY <2>1, RemoveType DEF Delete
    <2>3. Len(icons') \in Nat
      BY <2>2, LenProperties
    <2> QED BY <2>1, <2>2, <2>3
  <1>2. \A f \in DOMAIN ram' : ram'[f] \in Contents \cup {"dir"}
    <2>1. \A f \in DOMAIN ram : ram[f] \in Contents \cup {"dir"}
      BY DEF IInv, MachineTyped
    <2>2. PICK S \in SUBSET DOMAIN ram : ram' = Part(ram, S)
      BY DEF Delete
    <2> QED BY <2>1, <2>2, PartType
  <1>3. MachineTyped'
    BY <1>1, <1>2 DEF IInv, MachineTyped, Delete, Running
  <1> QED BY <1>3, PersistKeeps DEF Delete

LEMMA EditKeeps ==
  ASSUME IInv, NEW f \in DOMAIN ram, Edit(f)
  PROVE  IInv'
  <1>1. PICK t \in Texts : ram' = [ram EXCEPT ![f] = t]
    BY DEF Edit
  <1>2. \A x \in DOMAIN ram' : ram'[x] \in Contents \cup {"dir"}
    BY <1>1 DEF IInv, MachineTyped, Contents
  <1>3. MachineTyped' /\ look' = look /\ sent' = sent
    BY <1>2 DEF IInv, MachineTyped, Edit, Running
  <1> QED BY <1>3, QuietKeeps DEF Edit

LEMMA OffTyped ==
  ASSUME Off
  PROVE  MachineTyped' /\ Newest'
  <1>1. icons' \in Seq(Icons) /\ Len(icons') <= MaxIcons
    BY RestartAssumption DEF Off
  <1>2. DOMAIN ram' = {}
    BY DEF Off
  <1> QED BY <1>1, <1>2, RestartAssumption DEF Off, MachineTyped, Newest

LEMMA HaltKeeps ==
  ASSUME IInv, Halt
  PROVE  IInv'
  <1>1. HostTyped'
    BY DEF IInv, HostTyped, Halt, Pending
  <1> QED BY <1>1, OffTyped DEF IInv, Halt

LEMMA BootKeeps ==
  ASSUME IInv, Boot
  PROVE  IInv'
  <1>1. /\ archive \in Cfgs /\ archive.look \in Looks /\ archive.lines \in Seq(Seq(Words))
        /\ Len(archive.lines) <= MaxIcons
    BY DEF IInv, HostTyped, Cfgs
  <1>2. PICK lines \in Loadable(archive.lines) :
          icons' = IF archive.ok THEN [i \in DOMAIN lines |-> Item(lines[i])] ELSE Defaults
    BY DEF Boot
  <1>3. lines \in Seq(Seq(Words)) /\ Len(lines) <= MaxIcons
    BY <1>1, <1>2, LoadableType
  <1>4. icons' \in Seq(Icons) /\ Len(icons') <= MaxIcons
    BY <1>2, <1>3, ItemsType, IconsAssumption
  <1>5. MachineTyped'
    BY <1>1, <1>4, FilesType DEF MachineTyped, Boot
  <1>6. HostTyped'
    BY DEF IInv, HostTyped, Boot, Pending
  <1>7. Newest'
    BY DEF Boot, Newest
  <1> QED BY <1>5, <1>6, <1>7 DEF IInv

LEMMA ReceiveKeeps ==
  ASSUME IInv, Receive
  PROVE  IInv'
  <1>1. job \in Jobs /\ sent \in Seq(Dumps) /\ sent # <<>> /\ job = Idle /\ Pending <= MaxSent /\ Len(sent) \in Nat
    BY JobFacts, LenProperties DEF IInv, HostTyped, Receive
  <1>2. PICK d \in Dumps : d = Head(sent)
    BY <1>1, HeadTailProperties
  <1>3. sent' \in Seq(Dumps) /\ Len(sent') = Len(sent) - 1 /\ sent' = Tail(sent) /\ Len(sent) > 0
    BY <1>1, HeadTailProperties, EmptySeq DEF Receive
  <1>4. job' = [step |-> "files", dump |-> d] /\ job' \in Jobs /\ job' # Idle
    BY <1>2 DEF Receive, Jobs, Idle
  <1>5. Pending' <= MaxSent
    BY <1>1, <1>3, <1>4, RestartAssumption DEF Pending
  <1>6. MachineTyped' /\ HostTyped'
    BY <1>3, <1>4, <1>5 DEF IInv, MachineTyped, HostTyped, Receive, machine
  <1>7. Newest'
    <2>1. SUFFICES ASSUME up' PROVE look' = IF sent' # <<>> THEN sent'[Len(sent')].cfg.look ELSE d.cfg.look
      BY <1>4 DEF Newest
    <2>2. look' = look /\ up
      BY <2>1 DEF Receive, machine
    <2>3. look = sent[Len(sent)].cfg.look
      BY <1>1, <2>2 DEF IInv, Newest
    <2>4. CASE sent' = <<>>
      <3>1. Len(sent) = 1
        <4>1. Len(sent') = 0
          BY <2>4
        <4> QED BY <1>1, <1>3, <4>1
      <3>2. d = sent[Len(sent)]
        BY <1>1, <1>2, <3>1
      <3> QED BY <2>2, <2>3, <2>4, <3>2
    <2>5. CASE sent' # <<>>
      <3>1. sent'[Len(sent')] = sent[Len(sent)]
        BY <1>1, <1>3, <2>5, HeadTailProperties, EmptySeq
      <3> QED BY <2>2, <2>3, <2>5, <3>1
    <2> QED BY <2>4, <2>5
  <1> QED BY <1>6, <1>7 DEF IInv

\* The host goes on with the dump it has read.
LEMMA AdvanceKeeps ==
  ASSUME IInv, NEW step \in {"cfg", "tar"}, job.step # "idle", job' = [job EXCEPT !.step = step],
         host' \in Contents \cup {"none"}, UNCHANGED <<machine, sent, archive, lost>>
  PROVE  IInv'
  <1>1. job \in [step : {"files", "cfg", "tar"}, dump : Dumps] /\ job # Idle
    BY JobFacts DEF IInv, HostTyped
  <1>2. job' \in [step : {"files", "cfg", "tar"}, dump : Dumps] /\ job'.dump = job.dump /\ job'.step # "idle"
    BY <1>1
  <1>3. job' \in Jobs /\ job' # Idle
    BY <1>2 DEF Jobs, Idle
  <1>4. Pending' = Pending
    BY <1>1, <1>3 DEF Pending
  <1>5. MachineTyped' /\ HostTyped'
    BY <1>3, <1>4 DEF IInv, MachineTyped, HostTyped, machine
  <1>6. Newest'
    BY <1>1, <1>2, <1>3 DEF IInv, Newest, machine
  <1> QED BY <1>5, <1>6 DEF IInv

LEMMA WriteFilesKeeps ==
  ASSUME IInv, WriteFiles
  PROVE  IInv' /\ (host' = "empty" => host = "empty")
  <1>1. job \in [step : {"files", "cfg", "tar"}, dump : Dumps]
    BY JobFacts DEF IInv, HostTyped, WriteFiles
  <1>2. job.dump.text \in (Contents \ {"empty"}) \cup {"none"}
    BY <1>1 DEF Dumps
  <1>3. host' \in Contents \cup {"none"} /\ (host' = "empty" => host = "empty")
    BY <1>2 DEF IInv, HostTyped, WriteFiles
  <1> QED BY <1>3, AdvanceKeeps DEF WriteFiles

LEMMA WriteCfgKeeps ==
  ASSUME IInv, WriteCfg
  PROVE  IInv'
  <1>1. host' \in Contents \cup {"none"}
    BY DEF IInv, HostTyped, WriteCfg
  <1> QED BY <1>1, AdvanceKeeps DEF WriteCfg

LEMMA RebuildKeeps ==
  ASSUME IInv, Rebuild
  PROVE  IInv'
  <1>1. job \in [step : {"files", "cfg", "tar"}, dump : Dumps] /\ job # Idle
    BY JobFacts DEF IInv, HostTyped, Rebuild
  <1>2. job.dump.cfg \in Cfgs
    BY <1>1 DEF Dumps
  <1>3. archive' \in Cfgs /\ lost' \in BOOLEAN /\ job' \in Jobs
    BY <1>2 DEF IInv, HostTyped, Rebuild, Jobs
  <1>4. Pending' <= MaxSent
    <2>1. Len(sent) \in Nat /\ Len(sent) + 1 <= MaxSent /\ sent' = sent /\ job' = Idle
      BY <1>1, LenProperties DEF IInv, HostTyped, Pending, Rebuild
    <2> QED BY <2>1, RestartAssumption DEF Pending
  <1>5. MachineTyped' /\ HostTyped'
    BY <1>3, <1>4 DEF IInv, MachineTyped, HostTyped, Rebuild, machine
  <1>6. Newest'
    BY <1>1 DEF IInv, Newest, Rebuild, machine
  <1> QED BY <1>5, <1>6 DEF IInv

LEMMA InterruptKeeps ==
  ASSUME IInv, Interrupt
  PROVE  IInv' /\ (host' = "empty" => host = "empty" \/ lost')
  <1>1. sent' = <<>> /\ sent' \in Seq(Dumps) /\ Len(sent') = 0 /\ job' = Idle /\ job' \in Jobs
    BY DEF Interrupt, Jobs
  <1>2. Pending' <= MaxSent
    BY <1>1, RestartAssumption DEF Pending
  <1>3. archive' \in Cfgs
    BY NoCfgType DEF IInv, HostTyped, Interrupt
  <1>4. host' \in Contents \cup {"none"}
    BY DEF IInv, HostTyped, Interrupt, Contents
  <1>5. HostTyped'
    BY <1>1, <1>2, <1>3, <1>4 DEF HostTyped, Interrupt
  <1>6. host' = "empty" => host = "empty" \/ lost'
    <2>1. job.step # "files" \/ job # Idle
      BY DEF Idle
    <2> QED BY <2>1 DEF Interrupt
  <1> QED BY <1>5, <1>6, OffTyped DEF IInv, Interrupt

LEMMA StutterKeeps ==
  ASSUME IInv, UNCHANGED vars
  PROVE  IInv'
  BY DEF IInv, MachineTyped, HostTyped, Newest, Pending, vars, machine

\* The invariant, and no step blanks a file of the host that is not blank.
LEMMA StepKeeps ==
  ASSUME IInv, [Next]_vars
  PROVE  IInv' /\ (host' = "empty" => host = "empty" \/ lost')
  <1>1. ASSUME Running, IInv' PROVE IInv' /\ (host' = "empty" => host = "empty" \/ lost')
    BY <1>1 DEF Running
  <1>2. CASE ChooseLook
    BY <1>1, <1>2, ChooseLookKeeps DEF ChooseLook
  <1>3. CASE Halt
    BY <1>3, HaltKeeps DEF Halt
  <1>4. CASE Boot
    BY <1>4, BootKeeps DEF Boot
  <1>5. CASE \E i \in DOMAIN icons : Move(i)
    BY <1>1, <1>5, MoveKeeps DEF Move
  <1>6. CASE \E i \in DOMAIN icons : Delete(i)
    BY <1>1, <1>6, DeleteKeeps DEF Delete
  <1>7. CASE \E i \in DOMAIN icons, enter \in BOOLEAN : Rename(i, enter)
    BY <1>1, <1>7, RenameKeeps DEF Rename
  <1>8. CASE \E kind \in {"DIR", "FILE"}, menu \in BOOLEAN : New(kind, menu)
    BY <1>1, <1>8, NewKeeps DEF New
  <1>9. CASE \E f \in DOMAIN ram : Edit(f)
    BY <1>1, <1>9, EditKeeps DEF Edit
  <1>10. CASE Receive
    BY <1>10, ReceiveKeeps DEF Receive
  <1>11. CASE WriteFiles
    BY <1>11, WriteFilesKeeps
  <1>12. CASE WriteCfg
    BY <1>12, WriteCfgKeeps DEF WriteCfg
  <1>13. CASE Rebuild
    BY <1>13, RebuildKeeps DEF Rebuild
  <1>14. CASE Interrupt
    BY <1>14, InterruptKeeps
  <1>15. CASE UNCHANGED vars
    BY <1>15, StutterKeeps DEF vars
  <1> QED BY <1>2, <1>3, <1>4, <1>5, <1>6, <1>7, <1>8, <1>9, <1>10, <1>11, <1>12, <1>13, <1>14, <1>15 DEF Next

LEMMA InvariantHolds == Spec => []IInv
  <1>1. IInv /\ [Next]_vars => IInv'
    BY StepKeeps
  <1> QED BY <1>1, InitKeeps, PTL DEF Spec

-----------------------------------------------------------------------------
(* The theorems.                                                             *)

(* The desktop never holds more icons than desktop_items, an icon read back
   from desktop.cfg is a valid one even when the buffer cut its line, and the
   bound on the dumps holds. *)
THEOREM TypeCorrect == Spec => []TypeOK
  <1>1. ASSUME IInv PROVE TypeOK
    <2>1. \A i \in DOMAIN icons : icons[i].kind \in Kinds /\ Len(icons[i].pos) = 2
      <3> SUFFICES ASSUME NEW i \in DOMAIN icons
                   PROVE  icons[i].kind \in Kinds /\ Len(icons[i].pos) = 2
        OBVIOUS
      <3>1. icons \in Seq(Icons) /\ i \in 1 .. Len(icons)
        BY <1>1, LenProperties DEF IInv, MachineTyped
      <3>2. PICK it \in Icons : it = icons[i]
        BY <3>1, ElementOfSeq
      <3> QED BY <3>2, IconFields, PosIsSeq
    <2> QED BY <1>1, <2>1 DEF IInv, MachineTyped, HostTyped, TypeOK
  <1> QED BY <1>1, InvariantHolds, PTL

(* Whatever icons users make, a second restart changes nothing that the first
   one left, and icons without blanks come back as they were: the printing of
   desktop.cfg and its parsing in WindowManager::init agree on them. *)
THEOREM IconsSettleCorrect == Spec => []IconsSettle
  <1>1. ASSUME IInv PROVE IconsSettle
    BY <1>1, ReloadSettles DEF IInv, MachineTyped, IconsSettle
  <1> QED BY <1>1, InvariantHolds, PTL

(* When nothing is on its way and nothing was lost, desktop.cfg in test.tar
   holds the look on the screen, however dumps, interrupts, failing runs of
   tar and restarts are interleaved. *)
THEOREM LookCorrect == Spec => []LookKept
  <1>1. IInv => LookKept
    BY DEF IInv, Newest, LookKept
  <1> QED BY <1>1, InvariantHolds, PTL

(* No restart blanks a text that has reached the host, unless the script was
   interrupted. *)
THEOREM TextsCorrect == Spec => TextsKept
  <1>1. IInv /\ [Next]_vars => [(host \in Texts /\ host' = "empty") => lost']_vars
    <2> SUFFICES ASSUME IInv, [Next]_vars, host \in Texts, host' = "empty" PROVE lost'
      OBVIOUS
    <2>1. host # "empty"
      BY RestartAssumption
    <2> QED BY <2>1, StepKeeps
  <1> QED BY <1>1, InvariantHolds, PTL DEF Spec, TextsKept
=============================================================================
