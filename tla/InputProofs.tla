---------------------------- MODULE InputProofs ----------------------------
(***************************************************************************)
(* Machine-checked proofs about module Input, for rings of any size, any   *)
(* keys and characters, and any number of interrupts.                      *)
(***************************************************************************)
EXTENDS Input, SequenceTheorems, WellFoundedInduction, TLAPS

-----------------------------------------------------------------------------
(* The rings as queues.                                                   *)

Sizes == {n \in Nat : n >= 2}
Cells(size) == 0 .. size - 1

Slots   == Cells(KbdSize)
Letters == Chars \cup {NoChar}

\* What the rings hold.
Contents == {Letters, Events}

\* The slot after i.
After(i, size) == IF i + 1 = size THEN 0 ELSE i + 1

\* The i-th entry from head h on.
Slot(h, i, size) == IF h + i - 1 < size THEN h + i - 1 ELSE h + i - 1 - size

RingOf(buf, h, t, size) == [i \in 1 .. Fill(h, t, size) |-> buf[Slot(h, i, size)]]

LEMMA RingFacts ==
  ASSUME NEW size \in Sizes, NEW buf, NEW h \in Cells(size),
         NEW t \in Cells(size)
  PROVE  /\ Fill(h, t, size) \in Cells(size) /\ Fill(h, t, size) \in Nat
         /\ \A i \in 1 .. Fill(h, t, size) :
              Slot(h, i, size) \in Cells(size) /\ RingOf(buf, h, t, size)[i] = buf[Slot(h, i, size)]
  <1> DEFINE n == Fill(h, t, size)
  <1>1. size \in Nat /\ size >= 2
    BY DEF Sizes
  <1>2. n \in Cells(size) /\ n \in Nat
    BY <1>1 DEF Cells, Fill
  <1> HIDE DEF n
  <1>3. \A i \in 1 .. n : Slot(h, i, size) \in Cells(size)
    BY <1>1, <1>2 DEF Cells, Slot
  <1> QED BY <1>2, <1>3 DEF n, RingOf

LEMMA RingIsSeq ==
  ASSUME NEW size \in Sizes, NEW S \in Contents, NEW buf \in [Cells(size) -> S], NEW h \in Cells(size),
         NEW t \in Cells(size)
  PROVE  RingOf(buf, h, t, size) \in Seq(S) /\ Len(RingOf(buf, h, t, size)) = Fill(h, t, size)
  <1> DEFINE n == Fill(h, t, size)
  <1>1. n \in Nat
    BY RingFacts
  <1>2. \A i \in 1 .. n : buf[Slot(h, i, size)] \in S
    BY RingFacts
  <1>3. RingOf(buf, h, t, size) = [i \in 1 .. n |-> buf[Slot(h, i, size)]]
    BY DEF RingOf
  <1> HIDE DEF n
  <1>4. RingOf(buf, h, t, size) \in Seq(S)
    BY <1>1, <1>2, <1>3, IsASeq
  <1>5. Len(RingOf(buf, h, t, size)) = n
    BY <1>1, <1>3, <1>4, LenProperties
  <1> QED BY <1>4, <1>5 DEF n

\* kbd_head = kbd_tail is the empty queue.
LEMMA RingEmpty ==
  ASSUME NEW size \in Sizes, NEW buf, NEW h \in Cells(size)
  PROVE  RingOf(buf, h, h, size) = <<>>
  BY DEF RingOf, Fill, Cells, Sizes

\* Storing at the tail appends, and there is room for size - 1.
LEMMA PushAppends ==
  ASSUME NEW size \in Sizes, NEW S \in Contents, NEW buf \in [Cells(size) -> S], NEW h \in Cells(size),
         NEW t \in Cells(size), NEW c \in S, After(t, size) # h
  PROVE  /\ After(t, size) \in Cells(size)
         /\ Len(RingOf(buf, h, t, size)) < size - 1
         /\ RingOf([buf EXCEPT ![t] = c], h, After(t, size), size) = Append(RingOf(buf, h, t, size), c)
  <1> DEFINE q == RingOf(buf, h, t, size)
             new == [buf EXCEPT ![t] = c]
             r == RingOf(new, h, After(t, size), size)
             n == Fill(h, t, size)
  <1>1. size \in Nat /\ size >= 2
    BY DEF Sizes
  <1>2. After(t, size) \in Cells(size)
    BY <1>1 DEF Cells, After
  <1>3. n \in Nat /\ n < size - 1 /\ Fill(h, After(t, size), size) = n + 1
    BY <1>1 DEF Cells, Fill, After
  <1>4. new \in [Cells(size) -> S] /\ \A k \in Cells(size) : new[k] = IF k = t THEN c ELSE buf[k]
    OBVIOUS
  <1> HIDE DEF new, r, n
  <1>5. /\ q \in Seq(S) /\ Len(q) = n
        /\ \A i \in 1 .. n : Slot(h, i, size) \in Cells(size) /\ q[i] = buf[Slot(h, i, size)]
    BY RingFacts, RingIsSeq DEF n
  <1>6. /\ r \in Seq(S) /\ Len(r) = n + 1
        /\ \A i \in 1 .. n + 1 : Slot(h, i, size) \in Cells(size) /\ r[i] = new[Slot(h, i, size)]
    <2>1. PICK u : u = After(t, size)
      OBVIOUS
    <2>2. u \in Cells(size) /\ Fill(h, u, size) = n + 1
      BY <1>2, <1>3, <2>1
    <2>3. \A i \in 1 .. Fill(h, u, size) :
            Slot(h, i, size) \in Cells(size) /\ RingOf(new, h, u, size)[i] = new[Slot(h, i, size)]
      BY <2>2, RingFacts
    <2>4. RingOf(new, h, u, size) \in Seq(S) /\ Len(RingOf(new, h, u, size)) = Fill(h, u, size)
      BY <1>4, <2>2, RingIsSeq
    <2> QED BY <2>1, <2>2, <2>3, <2>4 DEF r
  <1>7. \A i \in 1 .. n : Slot(h, i, size) # t
    BY <1>1, <1>3 DEF Cells, Slot, Fill, n
  <1>8. Slot(h, n + 1, size) = t
    BY <1>1, <1>3 DEF Cells, Slot, Fill, n
  <1> HIDE DEF q
  <1>9. /\ Append(q, c) \in Seq(S) /\ Len(Append(q, c)) = n + 1
        /\ \A i \in 1 .. n : Append(q, c)[i] = q[i]
        /\ Append(q, c)[n + 1] = c
    BY <1>5, AppendProperties
  <1>10. \A i \in 1 .. n + 1 : r[i] = Append(q, c)[i]
    <2> SUFFICES ASSUME NEW i \in 1 .. n + 1 PROVE r[i] = Append(q, c)[i]
      OBVIOUS
    <2>1. CASE i = n + 1
      BY <2>1, <1>4, <1>6, <1>8, <1>9
    <2>2. CASE i # n + 1
      <3>1. i \in 1 .. n
        BY <2>2, <1>3
      <3> QED BY <3>1, <1>4, <1>5, <1>6, <1>7, <1>9
    <2> QED BY <2>1, <2>2
  <1>11. r = Append(q, c)
    BY <1>6, <1>9, <1>10, SeqEqual
  <1> QED BY <1>2, <1>3, <1>5, <1>11 DEF q, r, new

\* Taking the entry at the head, whatever is left in its slot.
LEMMA TakeTails ==
  ASSUME NEW size \in Sizes, NEW S \in Contents, NEW buf \in [Cells(size) -> S],
         NEW new \in [Cells(size) -> S], NEW h \in Cells(size), NEW t \in Cells(size),
         NEW u \in Cells(size), u = After(h, size), h # t,
         \A k \in Cells(size) : k # h => new[k] = buf[k]
  PROVE  /\ RingOf(buf, h, t, size) # <<>> /\ Head(RingOf(buf, h, t, size)) = buf[h]
         /\ RingOf(new, u, t, size) = Tail(RingOf(buf, h, t, size))
  <1> DEFINE q == RingOf(buf, h, t, size)
             n == Fill(h, t, size)
  <1>1. size \in Nat /\ size >= 2
    BY DEF Sizes
  <1>3. n \in Nat /\ n > 0 /\ n < size /\ Fill(u, t, size) = n - 1
    BY <1>1 DEF Cells, Fill, After
  <1> HIDE DEF n
  <1>4. q \in Seq(S) /\ Len(q) = n
    BY SMTT(60), RingIsSeq DEF n
  <1>5. \A i \in 1 .. n : Slot(h, i, size) \in Cells(size) /\ q[i] = buf[Slot(h, i, size)]
    BY RingFacts DEF n
  <1>7. /\ RingOf(new, u, t, size) \in Seq(S) /\ Len(RingOf(new, u, t, size)) = n - 1
        /\ \A i \in 1 .. n - 1 :
             Slot(u, i, size) \in Cells(size) /\ RingOf(new, u, t, size)[i] = new[Slot(u, i, size)]
    <2>1. Fill(u, t, size) = n - 1
      BY <1>3
    <2>2. \A i \in 1 .. Fill(u, t, size) :
            Slot(u, i, size) \in Cells(size) /\ RingOf(new, u, t, size)[i] = new[Slot(u, i, size)]
      BY RingFacts
    <2>3. RingOf(new, u, t, size) \in Seq(S) /\ Len(RingOf(new, u, t, size)) = Fill(u, t, size)
      BY RingIsSeq
    <2> QED BY <2>1, <2>2, <2>3
  <1>8. \A i \in 1 .. n - 1 : Slot(u, i, size) = Slot(h, i + 1, size) /\ Slot(u, i, size) # h
    BY <1>1, <1>3 DEF Cells, Slot, After
  <1>9. Slot(h, 1, size) = h
    BY <1>1 DEF Cells, Slot
  <1> HIDE DEF q
  <1>10. q # <<>> /\ Head(q) = buf[h]
    <2>1. q # <<>>
      BY <1>3, <1>4, EmptySeq
    <2>2. Head(q) = q[1]
      BY <1>4, <2>1, HeadTailProperties
    <2>3. 1 \in 1 .. n
      BY <1>3
    <2> QED BY <1>5, <1>9, <2>1, <2>2, <2>3
  <1>11. /\ Tail(q) \in Seq(S) /\ Len(Tail(q)) = n - 1
         /\ \A i \in 1 .. n - 1 : Tail(q)[i] = q[i + 1]
    BY <1>4, <1>10, HeadTailProperties
  <1>12. \A i \in 1 .. n - 1 : RingOf(new, u, t, size)[i] = Tail(q)[i]
    <2> SUFFICES ASSUME NEW i \in 1 .. n - 1 PROVE RingOf(new, u, t, size)[i] = Tail(q)[i]
      OBVIOUS
    <2>1. i + 1 \in 1 .. n
      BY <1>3
    <2>2. RingOf(new, u, t, size)[i] = buf[Slot(u, i, size)]
      BY <1>7, <1>8
    <2>3. Tail(q)[i] = buf[Slot(h, i + 1, size)]
      BY <1>5, <1>11, <2>1
    <2> QED BY <1>8, <2>2, <2>3
  <1>13. RingOf(new, u, t, size) = Tail(q)
    BY <1>7, <1>11, <1>12, SeqEqual
  <1> QED BY <1>10, <1>13 DEF q
-----------------------------------------------------------------------------
(* The invariant.                                                          *)

Pend == [dx : Nat, left : BOOLEAN, pending : BOOLEAN]

KbdTypes ==
  /\ kbuf \in [Slots -> Letters]
  /\ khead \in Slots /\ ktail \in Slots
  /\ delivered \in [c : Letters, bit : {0, 1}]

MouseTypes ==
  /\ mbuf \in [0 .. MouseSize - 1 -> Events]
  /\ mhead \in 0 .. MouseSize - 1 /\ mtail \in 0 .. MouseSize - 1
  /\ dec \in [cycle : 0 .. 2, left : BOOLEAN, p : 0 .. 3, ok : BOOLEAN]
  /\ accepted \in [dx : Int, left : BOOLEAN]
  /\ garbage \in Nat

OtherTypes ==
  /\ wire \in [p : 0 .. 2, i : 0 .. 2, left : BOOLEAN]
  /\ shift \in BOOLEAN /\ armed \in BOOLEAN /\ told \in BOOLEAN
  /\ reader \in [on : BOOLEAN, n : 0 .. Count - 1]
  /\ input \in Nat /\ faults \in Nat

Guis ==
  [pc : Pcs, step : Nat \ {0}, ev : Events, c : Letters, acc : Pend, def : Pend, key : Letters]

GuiTypes == gui \in Guis

Halves == {"demokey+", "key+", "harvestkey+"}

\* Between the two halves of poll_keyboard() the entry read is still the one
\* at the head: interrupts only append, and nobody else polls.
InHand ==
  gui.pc \in Halves => khead # ktail /\ gui.c = kbuf[khead]

IInv == KbdTypes /\ MouseTypes /\ OtherTypes /\ GuiTypes /\ InHand

\* What a step may do to the promise of KeyQueue.
Allowed == [Keys!Next]_<<KbdQueue, delivered>>

LEMMA QueueIsRing == /\ KbdQueue = RingOf(kbuf, khead, ktail, KbdSize)
                     /\ KbdQueue' = RingOf(kbuf', khead', ktail', KbdSize)
  BY DEF KbdQueue, RingOf, Slot

-----------------------------------------------------------------------------
(* What steps do to the keyboard.                                          *)

KbdIdle == UNCHANGED <<kbuf, khead, ktail, delivered>>

LEMMA IdleStep ==
  ASSUME IInv, KbdIdle
  PROVE  KbdTypes' /\ Allowed
  <1>1. KbdQueue' = KbdQueue
    BY DEF KbdQueue, KbdIdle
  <1> QED BY <1>1 DEF IInv, KbdTypes, KbdIdle, Allowed

\* kbd_push() of a character: it is appended or refused.
LEMMA PushStep ==
  ASSUME IInv, NEW c \in Chars, KbdPush(c), UNCHANGED <<khead, delivered>>
  PROVE  /\ KbdTypes' /\ Allowed
         /\ khead # ktail => khead' # ktail' /\ kbuf'[khead'] = kbuf[khead]
  <1>1. CASE KSucc(ktail) # khead
    <2>1. kbuf \in [Slots -> Letters] /\ khead \in Slots /\ ktail \in Slots /\ c \in Letters
      BY DEF IInv, KbdTypes, Letters
    <2>2. kbuf' = [kbuf EXCEPT ![ktail] = c] /\ ktail' = KSucc(ktail) /\ khead' = khead
      BY <1>1 DEF KbdPush
    <2>3. /\ KSucc(ktail) \in Slots
          /\ Len(RingOf(kbuf, khead, ktail, KbdSize)) < KbdSize - 1
          /\ RingOf([kbuf EXCEPT ![ktail] = c], khead, KSucc(ktail), KbdSize)
               = Append(RingOf(kbuf, khead, ktail, KbdSize), c)
      <3>2. PICK b \in [Slots -> Letters], h \in Slots, t \in Slots : b = kbuf /\ h = khead /\ t = ktail
        BY <2>1
      <3>3. c \in Letters /\ KSucc(t) # h
        BY <1>1, <2>1, <3>2
      <3>4. PICK size \in Sizes, S \in Contents : size = KbdSize /\ S = Letters
        BY SizesAssumption DEF Sizes, Contents
      <3>5. /\ After(t, size) = KSucc(t)
            /\ b \in [Cells(size) -> S] /\ h \in Cells(size) /\ t \in Cells(size) /\ c \in S
        BY <3>3, <3>4, SizesAssumption DEF After, KSucc, Slots
      <3>6. After(t, size) # h
        BY <3>3, <3>5
      <3>7. /\ After(t, size) \in Cells(size) /\ Len(RingOf(b, h, t, size)) < size - 1
            /\ RingOf([b EXCEPT ![t] = c], h, After(t, size), size) = Append(RingOf(b, h, t, size), c)
        BY ZenonT(60), <3>5, <3>6, PushAppends
      <3> QED BY <3>2, <3>4, <3>5, <3>7 DEF Slots
    <2>4. KbdQueue' = Append(KbdQueue, c) /\ Len(KbdQueue) < KbdSize - 1
      BY <2>2, <2>3, QueueIsRing
    <2>5. Keys!Accept(c)
      BY <2>4 DEF Keys!Accept
    <2> QED BY <1>1, <2>1, <2>2, <2>3, <2>5 DEF Allowed, Keys!Next, KbdTypes, IInv
  <1>2. CASE ~(KSucc(ktail) # khead)
    <2>1. KbdIdle
      BY <1>2 DEF KbdPush, KbdIdle
    <2> QED BY <2>1, IdleStep DEF KbdIdle
  <1> QED BY <1>1, <1>2

\* Somebody takes the character at the head.
LEMMA TakeStep ==
  ASSUME IInv, khead # ktail,
         khead' = KSucc(khead), kbuf' = [kbuf EXCEPT ![khead] = NoChar], ktail' = ktail,
         delivered' = [c |-> kbuf[khead], bit |-> 1 - delivered.bit]
  PROVE  KbdTypes' /\ Allowed
  <1>1. kbuf \in [Slots -> Letters] /\ khead \in Slots /\ ktail \in Slots /\ NoChar \in Letters
    BY DEF IInv, KbdTypes, Letters
  <1>2. /\ KSucc(khead) \in Slots
        /\ RingOf(kbuf, khead, ktail, KbdSize) # <<>> /\ Head(RingOf(kbuf, khead, ktail, KbdSize)) = kbuf[khead]
        /\ RingOf([kbuf EXCEPT ![khead] = NoChar], KSucc(khead), ktail, KbdSize)
             = Tail(RingOf(kbuf, khead, ktail, KbdSize))
    <2>2. PICK b \in [Slots -> Letters], h \in Slots, t \in Slots : b = kbuf /\ h = khead /\ t = ktail
      BY <1>1
    <2>3. PICK d \in Letters : d = NoChar
      BY <1>1
    <2>4. h # t
      BY <2>2
    <2>5. PICK size \in Sizes, S \in Contents : size = KbdSize /\ S = Letters
      BY SizesAssumption DEF Sizes, Contents
    <2>6. PICK new, u : new = [b EXCEPT ![h] = d] /\ u = KSucc(h)
      OBVIOUS
    <2>7. /\ u = After(h, size) /\ u \in Cells(size)
          /\ h \in Cells(size) /\ t \in Cells(size) /\ h # t
      BY <2>4, <2>5, <2>6, SizesAssumption DEF After, KSucc, Slots, Cells
    <2>8. /\ b \in [Cells(size) -> S] /\ new \in [Cells(size) -> S]
          /\ \A k \in Cells(size) : k # h => new[k] = b[k]
      BY <2>5, <2>6 DEF Slots
    <2>9. /\ RingOf(b, h, t, size) # <<>> /\ Head(RingOf(b, h, t, size)) = b[h]
          /\ RingOf(new, u, t, size) = Tail(RingOf(b, h, t, size))
      BY <2>7, <2>8, TakeTails
    <2> QED BY <2>2, <2>3, <2>5, <2>6, <2>7, <2>9 DEF Slots
  <1>3. KbdQueue # <<>> /\ Head(KbdQueue) = kbuf[khead] /\ KbdQueue' = Tail(KbdQueue)
    BY <1>2, QueueIsRing
  <1>4. Keys!Deliver
    BY <1>3 DEF Keys!Deliver
  <1>5. kbuf[khead] \in Letters /\ 1 - delivered.bit \in {0, 1}
    BY <1>1 DEF IInv, KbdTypes
  <1> QED BY <1>1, <1>2, <1>4, <1>5 DEF Allowed, Keys!Next, KbdTypes

\* A step of the GUI thread, or of anyone else, that leaves the keyboard alone
\* and leaves the GUI thread outside a poll of it.
LEMMA QuietStep ==
  ASSUME IInv, KbdIdle, gui' \in Guis, gui'.pc \notin Halves
  PROVE  KbdTypes' /\ GuiTypes' /\ InHand' /\ Allowed
  BY IdleStep DEF GuiTypes, InHand

-----------------------------------------------------------------------------
(* What steps do to the mouse.                                             *)

LEMMA MousePushTypes ==
  ASSUME IInv, NEW e \in Events, MousePush(e)
  PROVE  /\ mbuf' \in [0 .. MouseSize - 1 -> Events] /\ mtail' \in 0 .. MouseSize - 1
         /\ accepted' \in [dx : Int, left : BOOLEAN]
  <1>1. CASE MSucc(mtail) # mhead
    <2>1. /\ mbuf' = [mbuf EXCEPT ![mtail] = e] /\ mtail' = MSucc(mtail)
          /\ accepted' = [dx |-> accepted.dx + e.dx, left |-> e.left]
      BY <1>1 DEF MousePush
    <2>2. accepted'.dx \in Int /\ e.left \in BOOLEAN /\ accepted.dx + e.dx \in Int
      BY <2>1 DEF IInv, MouseTypes, Events
    <2>3. MSucc(mtail) \in 0 .. MouseSize - 1
      BY SizesAssumption DEF IInv, MouseTypes, MSucc
    <2>4. mbuf' \in [0 .. MouseSize - 1 -> Events]
      BY <2>1 DEF IInv, MouseTypes
    <2> QED BY <2>1, <2>2, <2>3, <2>4
  <1>2. CASE ~(MSucc(mtail) # mhead)
    BY <1>2 DEF MousePush, IInv, MouseTypes
  <1> QED BY <1>1, <1>2

LEMMA DecodeTypes ==
  ASSUME IInv, NEW p \in 0 .. 3, NEW i \in 0 .. 2, NEW left \in BOOLEAN, Decode(p, i, left),
         mhead' = mhead
  PROVE  MouseTypes'
  <1>1. dec \in [cycle : 0 .. 2, left : BOOLEAN, p : 0 .. 3, ok : BOOLEAN]
    BY DEF IInv, MouseTypes
  <1>2. CASE dec.cycle = 0
    <2>1. UNCHANGED <<mbuf, mtail, accepted, garbage>>
      BY <1>2 DEF Decode
    <2>2. dec' = IF i = 0 THEN [cycle |-> 1, left |-> left, p |-> p, ok |-> TRUE] ELSE dec
      BY <1>2 DEF Decode
    <2>3. dec' \in [cycle : 0 .. 2, left : BOOLEAN, p : 0 .. 3, ok : BOOLEAN]
      BY <1>1, <2>2
    <2> QED BY <2>1, <2>3 DEF IInv, MouseTypes
  <1>3. CASE dec.cycle = 1
    <2>1. UNCHANGED <<mbuf, mtail, accepted, garbage>>
      BY <1>3 DEF Decode
    <2>2. dec' = [dec EXCEPT !.cycle = 2, !.ok = dec.ok /\ p = dec.p /\ i = 1]
      BY <1>3 DEF Decode
    <2>3. PICK o \in BOOLEAN : o = (dec.ok /\ p = dec.p /\ i = 1)
      OBVIOUS
    <2>4. dec' = [dec EXCEPT !.cycle = 2, !.ok = o]
      BY <2>2, <2>3
    <2>5. dec' = [cycle |-> 2, left |-> dec.left, p |-> dec.p, ok |-> o]
      BY <1>1, <2>4
    <2>6. dec' \in [cycle : 0 .. 2, left : BOOLEAN, p : 0 .. 3, ok : BOOLEAN]
      BY <1>1, <2>5
    <2> QED BY <2>1, <2>6 DEF IInv, MouseTypes
  <1>4. CASE dec.cycle # 0 /\ dec.cycle # 1
    <2> DEFINE good == dec.ok /\ p = dec.p /\ i = 2
    <2>1. /\ dec' = NoBytes /\ garbage' = IF good THEN garbage ELSE garbage + 1
          /\ MousePush([dx |-> IF good THEN 1 ELSE 2, left |-> dec.left])
      BY <1>4 DEF Decode
    <2>2. PICK e : e = [dx |-> IF good THEN 1 ELSE 2, left |-> dec.left]
      OBVIOUS
    <2>3. e \in Events
      BY <1>1, <2>2 DEF Events
    <2>4. MousePush(e)
      BY <2>1, <2>2
    <2>5. /\ mbuf' \in [0 .. MouseSize - 1 -> Events] /\ mtail' \in 0 .. MouseSize - 1
          /\ accepted' \in [dx : Int, left : BOOLEAN]
      BY <2>3, <2>4, MousePushTypes
    <2>6. garbage' \in Nat
      BY <2>1 DEF IInv, MouseTypes
    <2>7. dec' \in [cycle : 0 .. 2, left : BOOLEAN, p : 0 .. 3, ok : BOOLEAN]
      BY <2>1 DEF NoBytes
    <2> QED BY <2>5, <2>6, <2>7 DEF IInv, MouseTypes
  <1> QED BY <1>2, <1>3, <1>4

LEMMA MergeInPend ==
  ASSUME NEW a \in Pend, NEW e \in Events
  PROVE  Merge(a, e) \in Pend
  BY DEF Merge, Pend, Events

-----------------------------------------------------------------------------
(* Each action keeps the invariant and the promise of KeyQueue.            *)

Kept == IInv' /\ Allowed

\* A handler may wake the GUI thread; it does not move it otherwise.
LEMMA WokenStep ==
  ASSUME IInv, gui' = Woken
  PROVE  gui' \in Guis /\ (gui'.pc \in Halves => gui.pc \in Halves /\ gui' = gui)
  <1>1. gui \in Guis
    BY DEF IInv, GuiTypes
  <1>2. [gui EXCEPT !.pc = "harvest"] \in Guis
    BY <1>1 DEF Guis, Pcs
  <1>3. [gui EXCEPT !.pc = "harvest"].pc = "harvest"
    BY <1>1 DEF Guis
  <1> QED BY <1>1, <1>2, <1>3 DEF Woken, Halves

\* What an interrupt that leaves the keyboard alone does to the GUI thread.
LEMMA IrqStep ==
  ASSUME IInv, KbdIdle, gui' = Woken
  PROVE  KbdTypes' /\ GuiTypes' /\ InHand' /\ Allowed
  <1>1. KbdTypes' /\ Allowed
    BY IdleStep
  <1>2. GuiTypes'
    BY WokenStep DEF GuiTypes
  <1>3. InHand'
    BY WokenStep DEF IInv, InHand, KbdIdle
  <1> QED BY <1>1, <1>2, <1>3

LEMMA KeyIrqStep ==
  ASSUME IInv, NEW code \in Codes \cup {Shift}, NEW release \in BOOLEAN, KeyIrq(code, release)
  PROVE  Kept
  <1>1. /\ UNCHANGED <<khead, delivered, mouse, armed, told, reader>>
        /\ gui' = Woken /\ input' = input + 1
    BY DEF KeyIrq
  <1>2. MouseTypes' /\ input' \in Nat /\ faults' = faults
    BY <1>1 DEF IInv, MouseTypes, OtherTypes, mouse
  <1>3. CASE code = Shift
    <2>1. KbdIdle /\ shift' \in BOOLEAN
      BY <1>1, <1>3 DEF KeyIrq, KbdIdle
    <2>2. OtherTypes'
      BY <1>1, <1>2, <2>1 DEF IInv, OtherTypes, mouse
    <2> QED BY <1>1, <1>2, <2>1, <2>2, IrqStep DEF Kept, IInv
  <1>4. CASE code # Shift /\ release
    <2>1. KbdIdle /\ shift' = shift
      BY <1>1, <1>4 DEF KeyIrq, KbdIdle
    <2>2. OtherTypes'
      BY <1>1, <1>2, <2>1 DEF IInv, OtherTypes, mouse
    <2> QED BY <1>1, <1>2, <2>1, <2>2, IrqStep DEF Kept, IInv
  <1>5. CASE code # Shift /\ ~release
    <2>1. KbdPush(IF shift THEN Shifted[code] ELSE Plain[code]) /\ shift' = shift
      BY <1>5 DEF KeyIrq
    <2>2. PICK c \in Chars : KbdPush(c)
      BY <1>5, <2>1 DEF Chars
    <2>3. /\ KbdTypes' /\ Allowed
          /\ khead # ktail => khead' # ktail' /\ kbuf'[khead'] = kbuf[khead]
      BY <1>1, <2>2, PushStep
    <2>4. GuiTypes' /\ InHand'
      BY <1>1, <2>3, WokenStep DEF IInv, GuiTypes, InHand
    <2>5. OtherTypes'
      BY <1>1, <1>2, <2>1 DEF IInv, OtherTypes, mouse
    <2> QED BY <1>2, <2>3, <2>4, <2>5 DEF Kept, IInv
  <1> QED BY <1>3, <1>4, <1>5

LEMMA SendsTypes ==
  ASSUME IInv, NEW left \in BOOLEAN, Sends(left)
  PROVE  wire' \in [p : 0 .. 2, i : 0 .. 2, left : BOOLEAN] /\ input' \in Nat
  <1>1. wire.p \in 0 .. 2 /\ wire.i \in 0 .. 2 /\ input \in Nat
    BY DEF IInv, OtherTypes
  <1>2. (wire.p + 1) % 3 \in 0 .. 2 /\ (wire.i + 1) % 3 \in 0 .. 2
    BY <1>1
  <1> QED BY <1>1, <1>2 DEF Sends

LEMMA MouseIrqStep ==
  ASSUME IInv, NEW left \in BOOLEAN, MouseIrq(left)
  PROVE  Kept
  <1>1. /\ Sends(left) /\ Decode(wire.p, wire.i, left) /\ gui' = Woken
        /\ UNCHANGED <<keyboard, mhead, armed, told, reader, faults>>
    BY DEF MouseIrq
  <1>2. KbdIdle /\ shift' = shift
    BY <1>1 DEF KbdIdle, keyboard
  <1>3. PICK p \in 0 .. 3, i \in 0 .. 2 : p = wire.p /\ i = wire.i
    BY DEF IInv, OtherTypes
  <1>4. Decode(p, i, left)
    BY <1>1, <1>3
  <1>5. MouseTypes'
    BY <1>1, <1>4, DecodeTypes
  <1>6. OtherTypes'
    BY <1>1, <1>2, SendsTypes DEF IInv, OtherTypes
  <1> QED BY <1>1, <1>2, <1>5, <1>6, IrqStep DEF Kept, IInv

LEMMA LoseByteStep ==
  ASSUME IInv, NEW left \in BOOLEAN, LoseByte(left)
  PROVE  Kept
  <1>1. /\ Sends(left) /\ faults' = faults + 1
        /\ UNCHANGED <<keyboard, mbuf, mhead, mtail, dec, gui, armed, told, accepted,
                       reader, garbage>>
    BY DEF LoseByte
  <1>2. KbdIdle /\ shift' = shift
    BY <1>1 DEF KbdIdle, keyboard
  <1>3. MouseTypes'
    BY <1>1 DEF IInv, MouseTypes
  <1>4. OtherTypes'
    BY <1>1, <1>2, SendsTypes DEF IInv, OtherTypes
  <1>5. GuiTypes' /\ InHand'
    BY <1>1, <1>2 DEF IInv, GuiTypes, InHand, KbdIdle
  <1> QED BY <1>2, <1>3, <1>4, <1>5, IdleStep DEF Kept, IInv

LEMMA TimerIrqStep ==
  ASSUME IInv, TimerIrq
  PROVE  Kept
  <1>1. /\ armed' = FALSE /\ gui' = Woken
        /\ UNCHANGED <<keyboard, mouse, told, reader, input>>
    BY DEF TimerIrq
  <1>2. KbdIdle /\ shift' = shift
    BY <1>1 DEF KbdIdle, keyboard
  <1>3. MouseTypes' /\ OtherTypes'
    BY <1>1, <1>2 DEF IInv, MouseTypes, OtherTypes, mouse
  <1> QED BY <1>1, <1>2, <1>3, IrqStep DEF Kept, IInv

-----------------------------------------------------------------------------
(* The GUI thread.                                                         *)

\* Only the program counter moves.
LEMMA GoStep ==
  ASSUME IInv, NEW x \in Pcs, Go(x)
  PROVE  gui' \in Guis /\ gui'.pc = x
  BY DEF Go, IInv, GuiTypes, Guis

LEMMA SelfTestStep ==
  ASSUME IInv, SelfTest
  PROVE  Kept
  <1>1. PICK x \in {"test44", "inject"} : Go(x)
    BY DEF SelfTest
  <1>2. gui' \in Guis /\ gui'.pc \notin Halves
    BY <1>1, GoStep DEF Pcs, Halves
  <1>3. CASE /\ \E c \in Codes : KbdPush(IF shift THEN Shifted[c] ELSE Plain[c])
             /\ UNCHANGED <<mouse, shift, khead, delivered, armed, told, reader, input>>
    <2>1. PICK k \in Codes : KbdPush(IF shift THEN Shifted[k] ELSE Plain[k])
      BY <1>3
    <2>2. PICK c \in Chars : KbdPush(c)
      BY <2>1 DEF Chars
    <2>3. KbdTypes' /\ Allowed
      BY <1>3, <2>2, PushStep
    <2>4. MouseTypes' /\ OtherTypes'
      BY <1>3 DEF IInv, MouseTypes, OtherTypes, mouse
    <2> QED BY <1>2, <2>3, <2>4 DEF Kept, IInv, GuiTypes, InHand
  <1>4. CASE /\ shift' \in BOOLEAN
             /\ UNCHANGED <<mouse, kbuf, ktail, khead, delivered, armed, told, reader, input>>
    <2>1. KbdIdle
      BY <1>4 DEF KbdIdle
    <2>2. MouseTypes' /\ OtherTypes'
      BY <1>4 DEF IInv, MouseTypes, OtherTypes, mouse
    <2> QED BY <1>2, <2>1, <2>2, QuietStep DEF Kept, IInv
  <1>5. CASE /\ \E i \in 0 .. 2, l \in BOOLEAN : Decode(3, i, l)
             /\ faults' = faults + 1
             /\ UNCHANGED <<keyboard, mhead, wire, armed, told, reader, input>>
    <2>1. KbdIdle
      BY <1>5 DEF KbdIdle, keyboard
    <2>2. PICK p \in 0 .. 3, i \in 0 .. 2, l \in BOOLEAN : Decode(p, i, l)
      BY <1>5
    <2>3. MouseTypes'
      BY <1>5, <2>2, DecodeTypes
    <2>4. OtherTypes'
      BY <1>5 DEF IInv, OtherTypes, keyboard
    <2> QED BY <1>2, <2>1, <2>3, <2>4, QuietStep DEF Kept, IInv
  <1>6. \/ /\ \E c \in Codes : KbdPush(IF shift THEN Shifted[c] ELSE Plain[c])
           /\ UNCHANGED <<mouse, shift, khead, delivered, armed, told, reader, input>>
        \/ /\ shift' \in BOOLEAN
           /\ UNCHANGED <<mouse, kbuf, ktail, khead, delivered, armed, told, reader, input>>
        \/ /\ \E i \in 0 .. 2, l \in BOOLEAN : Decode(3, i, l)
           /\ faults' = faults + 1
           /\ UNCHANGED <<keyboard, mhead, wire, armed, told, reader, input>>
    <2>1. shift \in BOOLEAN
      BY DEF IInv, OtherTypes
    <2> QED BY <2>1 DEF SelfTest, keyboard
  <1> QED BY <1>3, <1>4, <1>5, <1>6

LEMMA InjectStep ==
  ASSUME IInv, Inject
  PROVE  Kept
  <1>1. UNCHANGED <<khead, shift, delivered, mhead, dec, wire, faults, garbage, armed, told,
                    reader, input>>
    BY DEF Inject
  <1>2. OtherTypes'
    BY <1>1 DEF IInv, OtherTypes
  <1>3. gui \in Guis /\ gui.step \in Nat /\ gui.step > 0
    BY DEF IInv, GuiTypes, Guis
  <1>4. CASE gui.step <= Len(Demo)
    <2>1. /\ MousePush([dx |-> 1, left |-> Demo[gui.step]])
          /\ gui' = [gui EXCEPT !.pc = "demo", !.step = gui.step + 1]
          /\ UNCHANGED <<kbuf, ktail>>
      BY <1>4 DEF Inject
    <2>2. Demo[gui.step] \in BOOLEAN
      <3>1. PICK k \in 1 .. Len(Demo) : k = gui.step
        BY <1>3, <1>4, TablesAssumption
      <3> QED BY <3>1, TablesAssumption
    <2>3. PICK e \in Events : MousePush(e)
      BY <2>1, <2>2 DEF Events
    <2>4. MouseTypes'
      BY <1>1, <2>3, MousePushTypes DEF IInv, MouseTypes
    <2>5. gui' \in Guis /\ gui'.pc \notin Halves
      <3>1. PICK k \in Nat \ {0} : k = gui.step + 1
        BY <1>3
      <3>2. gui' = [gui EXCEPT !.pc = "demo", !.step = k]
        BY <2>1, <3>1
      <3> QED BY <1>3, <3>2 DEF Guis, Pcs, Halves
    <2> QED BY <1>1, <1>2, <2>1, <2>4, <2>5, QuietStep DEF Kept, IInv, KbdIdle
  <1>5. CASE ~(gui.step <= Len(Demo))
    <2>1. KbdPush(DemoKey) /\ gui' = [gui EXCEPT !.pc = "demokey"] /\ UNCHANGED <<mbuf, mtail, accepted>>
      BY <1>5 DEF Inject
    <2>2. PICK c \in Chars : KbdPush(c)
      BY <2>1 DEF Chars
    <2>3. KbdTypes' /\ Allowed
      BY <1>1, <2>2, PushStep
    <2>4. gui' \in Guis /\ gui'.pc \notin Halves
      BY <1>3, <2>1 DEF Guis, Pcs, Halves
    <2>5. MouseTypes'
      BY <1>1, <2>1 DEF IInv, MouseTypes
    <2> QED BY <1>2, <2>3, <2>4, <2>5 DEF Kept, IInv, GuiTypes, InHand
  <1> QED BY <1>4, <1>5

\* The rest of the state when only the GUI thread's locals change.
LEMMA LocalStep ==
  ASSUME IInv, gui' \in Guis, gui'.pc \notin Halves,
         UNCHANGED <<keyboard, mouse, told, reader, input>>, armed' \in BOOLEAN
  PROVE  Kept
  <1>1. KbdIdle /\ shift' = shift
    BY DEF KbdIdle, keyboard
  <1>2. MouseTypes' /\ OtherTypes'
    BY <1>1 DEF IInv, MouseTypes, OtherTypes, mouse
  <1> QED BY <1>1, <1>2, QuietStep DEF Kept, IInv

LEMMA ReadMouseStep ==
  ASSUME IInv, NEW pc, NEW out \in Pcs \ Halves, NEW got \in Pcs \ Halves, ReadMouse(pc, out, got)
  PROVE  Kept
  <1>1. gui \in Guis /\ mbuf[mhead] \in Events /\ armed \in BOOLEAN
    BY DEF IInv, GuiTypes, MouseTypes, OtherTypes
  <1>2. \/ gui' = [gui EXCEPT !.pc = out]
        \/ gui' = [gui EXCEPT !.pc = got, !.ev = mbuf[mhead]]
    BY DEF ReadMouse
  <1>3. gui' \in Guis /\ gui'.pc \notin Halves
    BY <1>1, <1>2 DEF Guis
  <1>4. UNCHANGED <<keyboard, mouse, armed, told, reader, input>>
    BY DEF ReadMouse
  <1> QED BY <1>1, <1>3, <1>4, LocalStep

LEMMA TakeMouseStep ==
  ASSUME IInv, NEW pc, NEW acc \in Pend, NEW def \in Pend, NEW to \in Pcs \ Halves,
         TakeMouse(pc, acc, def, to)
  PROVE  Kept
  <1>1. /\ mhead' = MSucc(mhead) /\ mbuf' = [mbuf EXCEPT ![mhead] = NoEvent]
        /\ gui' = [gui EXCEPT !.pc = to, !.acc = acc, !.def = def, !.ev = NoEvent]
        /\ UNCHANGED <<keyboard, mtail, dec, wire, accepted, faults, garbage, armed, told,
                       reader, input>>
    BY DEF TakeMouse
  <1>2. NoEvent \in Events
    BY DEF NoEvent, Events
  <1>3. gui' \in Guis /\ gui'.pc \notin Halves
    BY <1>1, <1>2 DEF Guis, IInv, GuiTypes
  <1>4. MSucc(mhead) \in 0 .. MouseSize - 1
    BY SizesAssumption DEF IInv, MouseTypes, MSucc
  <1>5. MouseTypes'
    BY <1>1, <1>2, <1>4 DEF IInv, MouseTypes
  <1>6. KbdIdle /\ OtherTypes'
    BY <1>1 DEF IInv, OtherTypes, KbdIdle, keyboard
  <1> QED BY <1>3, <1>5, <1>6, QuietStep DEF Kept, IInv

LEMMA HandleMouseStep ==
  ASSUME IInv, NEW pc, NEW to \in Pcs \ Halves, HandleMouse(pc, to)
  PROVE  Kept
  <1>1. /\ gui' = [gui EXCEPT !.pc = to, !.acc = None]
        /\ UNCHANGED <<keyboard, mbuf, mhead, mtail, dec, wire, faults, garbage, armed,
                       reader, input>>
    BY DEF HandleMouse
  <1>2. \/ told' = gui.acc.left /\ accepted' = [accepted EXCEPT !.dx = accepted.dx - gui.acc.dx]
        \/ UNCHANGED <<told, accepted>>
    BY DEF HandleMouse
  <1>3. gui.acc \in Pend /\ gui \in Guis
    BY DEF IInv, GuiTypes, Guis
  <1>4. told' \in BOOLEAN
    BY <1>2, <1>3 DEF Pend, IInv, OtherTypes
  <1>5. accepted' \in [dx : Int, left : BOOLEAN]
    <2>1. accepted \in [dx : Int, left : BOOLEAN] /\ accepted.dx - gui.acc.dx \in Int
      BY <1>3 DEF Pend, IInv, MouseTypes
    <2> QED BY <1>2, <2>1
  <1>6. gui' \in Guis /\ gui'.pc \notin Halves
    BY <1>1, <1>3 DEF Guis, None, Pend
  <1>7. MouseTypes' /\ OtherTypes' /\ KbdIdle
    BY <1>1, <1>4, <1>5 DEF IInv, MouseTypes, OtherTypes, KbdIdle, keyboard
  <1> QED BY <1>6, <1>7, QuietStep DEF Kept, IInv

LEMMA ReadKeyStep ==
  ASSUME IInv, NEW pc, NEW out \in Pcs \ Halves, NEW got \in Halves, ReadKey(pc, out, got)
  PROVE  Kept
  <1>1. gui \in Guis /\ kbuf[khead] \in Letters /\ armed \in BOOLEAN
    BY DEF IInv, GuiTypes, KbdTypes, OtherTypes
  <1>2. UNCHANGED <<keyboard, mouse, armed, told, reader, input>>
    BY DEF ReadKey
  <1>3. CASE khead = ktail
    <2>1. gui' \in Guis /\ gui'.pc \notin Halves
      BY <1>1, <1>3 DEF ReadKey, Guis
    <2> QED BY <1>1, <1>2, <2>1, LocalStep
  <1>4. CASE khead # ktail
    <2>1. gui' = [gui EXCEPT !.pc = got, !.c = kbuf[khead]]
      BY <1>4 DEF ReadKey
    <2>2. gui' \in Guis /\ gui'.c = kbuf[khead]
      BY <1>1, <2>1 DEF Guis, Pcs, Halves
    <2>3. KbdIdle /\ MouseTypes' /\ OtherTypes'
      BY <1>2 DEF KbdIdle, keyboard, mouse, IInv, MouseTypes, OtherTypes
    <2>4. InHand'
      BY <1>4, <2>2, <2>3 DEF InHand, KbdIdle
    <2> QED BY <2>2, <2>3, <2>4, IdleStep DEF Kept, IInv, GuiTypes
  <1> QED BY <1>3, <1>4

\* The half that stores the head: what it returns is still at the head.
LEMMA TakeKeyStep ==
  ASSUME IInv, NEW pc \in Halves, NEW key \in Letters, NEW to \in Pcs \ Halves, TakeKey(pc, key, to)
  PROVE  Kept
  <1>1. /\ gui.pc = pc
        /\ khead' = KSucc(khead) /\ kbuf' = [kbuf EXCEPT ![khead] = NoChar]
        /\ delivered' = [c |-> gui.c, bit |-> 1 - delivered.bit]
        /\ gui' = [gui EXCEPT !.pc = to, !.key = key, !.c = NoChar]
        /\ UNCHANGED <<ktail, shift, mouse, armed, told, reader, input>>
    BY DEF TakeKey, At
  <1>2. khead # ktail /\ gui.c = kbuf[khead]
    BY <1>1 DEF IInv, InHand
  <1>3. KbdTypes' /\ Allowed
    BY <1>1, <1>2, TakeStep
  <1>4. gui' \in Guis /\ gui'.pc \notin Halves
    BY <1>1 DEF Guis, IInv, GuiTypes, Letters
  <1>5. MouseTypes' /\ OtherTypes'
    BY <1>1 DEF IInv, MouseTypes, OtherTypes, mouse
  <1> QED BY <1>3, <1>4, <1>5 DEF Kept, IInv, GuiTypes, InHand

LEMMA LoopTopStep ==
  ASSUME IInv, LoopTop
  PROVE  Kept
  <1>1. gui \in Guis /\ armed \in BOOLEAN
    BY DEF IInv, GuiTypes, OtherTypes
  <1>2. gui' = [gui EXCEPT !.pc = "drain", !.acc = gui.def, !.def = None]
    BY DEF LoopTop
  <1>3. gui' \in Guis /\ gui'.pc \notin Halves
    BY <1>1, <1>2 DEF Guis, Pcs, Halves, None, Pend
  <1> QED BY <1>1, <1>3, LocalStep DEF LoopTop

LEMMA DeferredKeyStep ==
  ASSUME IInv, DeferredKey
  PROVE  Kept
  <1>1. gui \in Guis /\ armed \in BOOLEAN
    BY DEF IInv, GuiTypes, OtherTypes
  <1>2. gui' = [gui EXCEPT !.pc = "frame", !.key = NoChar]
    BY DEF DeferredKey
  <1>3. gui' \in Guis /\ gui'.pc \notin Halves
    BY <1>1, <1>2 DEF Guis, Pcs, Halves, Letters
  <1> QED BY <1>1, <1>3, LocalStep DEF DeferredKey

LEMMA RestStep ==
  ASSUME IInv, Frame \/ Sleep
  PROVE  Kept
  <1>1. PICK x \in {"arm", "harvest", "block", "switch", "asleep"} : Go(x)
    BY DEF Frame, Sleep
  <1>2. gui' \in Guis /\ gui'.pc \notin Halves
    BY <1>1, GoStep DEF Pcs, Halves
  <1>3. armed' \in BOOLEAN /\ UNCHANGED <<keyboard, mouse, told, reader, input>>
    BY DEF Frame, Sleep, IInv, OtherTypes
  <1> QED BY <1>2, <1>3, LocalStep

LEMMA GuiStepKeeps ==
  ASSUME IInv, GuiStep
  PROVE  Kept
  <1>1. gui.acc \in Pend /\ gui.def \in Pend /\ gui.ev \in Events /\ gui.c \in Letters /\ NoChar \in Letters
    BY DEF IInv, GuiTypes, Guis, Letters
  <1>2. PICK a \in Pend, d \in Pend, a1 \in Pend, d1 \in Pend :
          a = gui.acc /\ d = gui.def /\ a1 = Merge(gui.acc, gui.ev) /\ d1 = Merge(gui.def, gui.ev)
    BY <1>1, MergeInPend
  <1>3. PICK k \in Letters, n \in Letters : k = gui.c /\ n = NoChar
    BY <1>1
  <1>4. CASE SelfTest \/ Inject \/ LoopTop \/ DeferredKey \/ Frame \/ Sleep
    BY <1>4, SelfTestStep, InjectStep, LoopTopStep, DeferredKeyStep, RestStep
  <1>5. CASE \/ ReadMouse("demo", "inject", "demo+") \/ ReadMouse("drain", "handle", "drain+")
             \/ ReadMouse("harvest", "harvestkey", "harvest+")
    BY <1>5, ReadMouseStep DEF Pcs, Halves
  <1>6. CASE \/ TakeMouse("demo+", a1, d, "demohandle") \/ TakeMouse("drain+", a1, d, "drain")
             \/ TakeMouse("harvest+", a, d1, "harvest")
    BY <1>6, TakeMouseStep DEF Pcs, Halves
  <1>7. CASE HandleMouse("demohandle", "inject") \/ HandleMouse("handle", "key")
    BY <1>7, HandleMouseStep DEF Pcs, Halves
  <1>8. CASE \/ ReadKey("demokey", "top", "demokey+") \/ ReadKey("key", "frame", "key+")
             \/ ReadKey("harvestkey", "top", "harvestkey+")
    BY <1>8, ReadKeyStep DEF Pcs, Halves
  <1>9. CASE \/ TakeKey("demokey+", n, "top") \/ TakeKey("key+", n, "frame")
             \/ TakeKey("harvestkey+", k, "top")
    BY <1>9, TakeKeyStep DEF Pcs, Halves
  <1> QED BY <1>2, <1>3, <1>4, <1>5, <1>6, <1>7, <1>8, <1>9 DEF GuiStep

-----------------------------------------------------------------------------
(* The console read.                                                       *)

LEMMA TypedTypes ==
  ASSUME IInv, NEW c
  PROVE  Typed(c) \in [on : BOOLEAN, n : 0 .. Count - 1]
  <1>1. reader.n \in 0 .. Count - 1 /\ Count \in Nat /\ Count > 0
    BY SizesAssumption DEF IInv, OtherTypes
  <1> DEFINE n == IF c # Erase THEN reader.n + 1 ELSE IF reader.n > 0 THEN reader.n - 1 ELSE 0
  <1>2. n \in 0 .. Count
    BY <1>1
  <1>3. Typed(c) = IF c = Newline \/ n = Count THEN [on |-> FALSE, n |-> 0] ELSE [on |-> TRUE, n |-> n]
    BY DEF Typed
  <1> HIDE DEF n
  <1> QED BY <1>1, <1>2, <1>3

LEMMA ConsoleReadStep ==
  ASSUME IInv, ConsoleRead
  PROVE  Kept
  <1>1. reader' = [on |-> TRUE, n |-> 0] /\ UNCHANGED <<keyboard, mouse, gui, armed, told, input>>
    BY DEF ConsoleRead
  <1>2. KbdIdle /\ MouseTypes'
    BY <1>1 DEF KbdIdle, keyboard, mouse, IInv, MouseTypes
  <1>3. reader' \in [on : BOOLEAN, n : 0 .. Count - 1]
    BY <1>1, SizesAssumption
  <1>4. OtherTypes'
    BY <1>1, <1>3 DEF IInv, OtherTypes, keyboard, mouse
  <1>5. GuiTypes' /\ InHand'
    BY <1>1, <1>2 DEF IInv, GuiTypes, InHand, KbdIdle
  <1> QED BY <1>2, <1>4, <1>5, IdleStep DEF Kept, IInv

\* The read polls only while the GUI thread sleeps, so never between the two
\* halves of that thread's own poll.
LEMMA ConsolePollStep ==
  ASSUME IInv, ConsolePoll
  PROVE  Kept
  <1>1. gui.pc = "asleep" /\ UNCHANGED <<ktail, shift, mouse, gui, armed, told, input>>
    BY DEF ConsolePoll, At
  <1>2. reader' \in [on : BOOLEAN, n : 0 .. Count - 1]
    BY TypedTypes DEF ConsolePoll
  <1>3. MouseTypes' /\ OtherTypes'
    BY <1>1, <1>2 DEF IInv, MouseTypes, OtherTypes, mouse
  <1>4. GuiTypes' /\ InHand'
    BY <1>1 DEF IInv, GuiTypes, InHand, Halves
  <1>5. CASE khead # ktail
    <2>1. /\ khead' = KSucc(khead) /\ kbuf' = [kbuf EXCEPT ![khead] = NoChar]
          /\ delivered' = [c |-> kbuf[khead], bit |-> 1 - delivered.bit]
      BY <1>5 DEF ConsolePoll
    <2>2. KbdTypes' /\ Allowed
      BY <1>1, <1>5, <2>1, TakeStep
    <2> QED BY <1>3, <1>4, <2>2 DEF Kept, IInv
  <1>6. CASE khead = ktail
    <2>1. KbdIdle
      BY <1>1, <1>6 DEF ConsolePoll, KbdIdle
    <2> QED BY <1>3, <1>4, <2>1, IdleStep DEF Kept, IInv
  <1> QED BY <1>5, <1>6

-----------------------------------------------------------------------------
(* Theorems.                                                               *)

LEMMA InitIInv == Init => IInv
  <1> SUFFICES ASSUME Init PROVE IInv
    OBVIOUS
  <1>1. KbdTypes
    BY SizesAssumption DEF Init, KbdTypes, Slots, Cells, Letters
  <1>2. MouseTypes
    BY SizesAssumption DEF Init, MouseTypes, NoEvent, Events, NoBytes
  <1>3. OtherTypes
    <2>1. wire \in [p : 0 .. 2, i : 0 .. 2, left : BOOLEAN]
      <3>1. wire \in [p : {0}, i : 0 .. 2, left : {FALSE}]
        BY DEF Init
      <3>2. PICK i \in 0 .. 2 : wire = [p |-> 0, i |-> i, left |-> FALSE]
        BY <3>1, Zenon
      <3> QED BY <3>2
    <2>2. reader \in [on : BOOLEAN, n : 0 .. Count - 1]
      BY SizesAssumption DEF Init
    <2>3. shift = FALSE /\ armed = FALSE /\ told = FALSE /\ input = 0 /\ faults = 0
      BY DEF Init
    <2> QED BY <2>1, <2>2, <2>3 DEF OtherTypes
  <1>4. gui \in Guis /\ gui.pc = "test33"
    BY DEF Init, Guis, Pcs, NoEvent, Events, Letters, None, Pend
  <1> QED BY <1>1, <1>2, <1>3, <1>4 DEF IInv, GuiTypes, InHand, Halves

LEMMA NextKeeps == IInv /\ [Next]_vars => IInv' /\ Allowed
  <1> SUFFICES ASSUME IInv, [Next]_vars PROVE Kept
    BY DEF Kept
  <1>1. CASE \E code \in Codes \cup {Shift}, release \in BOOLEAN : KeyIrq(code, release)
    BY <1>1, KeyIrqStep
  <1>2. CASE \E left \in BOOLEAN : MouseIrq(left) \/ LoseByte(left)
    BY <1>2, MouseIrqStep, LoseByteStep
  <1>3. CASE TimerIrq \/ GuiStep \/ ConsoleRead \/ ConsolePoll
    BY <1>3, TimerIrqStep, GuiStepKeeps, ConsoleReadStep, ConsolePollStep
  <1>4. CASE UNCHANGED vars
    <2>1. KbdIdle /\ UNCHANGED <<shift, mouse, gui, armed, told, reader, input>>
      BY <1>4 DEF vars, keyboard, KbdIdle
    <2>2. MouseTypes' /\ OtherTypes' /\ GuiTypes' /\ InHand'
      BY <2>1 DEF IInv, MouseTypes, OtherTypes, GuiTypes, InHand, KbdIdle, mouse
    <2> QED BY <2>1, <2>2, IdleStep DEF Kept, IInv
  <1> QED BY <1>1, <1>2, <1>3, <1>4 DEF Next

\* The invariant of the proof: types, and the entry a poll has read is still
\* at the head when it stores the head.
THEOREM Invariance == Spec => []IInv
  <1>1. Init => IInv
    BY InitIInv
  <1>2. IInv /\ [Next]_vars => IInv'
    BY NextKeeps
  <1> QED BY <1>1, <1>2, PTL DEF Spec

\* Rings of any size are only ever indexed inside their bounds.
THEOREM TypeCorrect == Spec => []TypeOK
  <1>1. IInv => TypeOK
    <2> SUFFICES ASSUME IInv PROVE TypeOK
      OBVIOUS
    <2>1. /\ gui.pc \in Pcs /\ gui.ev \in Events /\ gui.c \in Letters /\ gui.key \in Letters
      BY DEF IInv, GuiTypes, Guis
    <2> QED BY <2>1 DEF IInv, KbdTypes, MouseTypes, OtherTypes, TypeOK, Slots, Cells, Letters
  <1> QED BY <1>1, Invariance, PTL

\* The ring of the keyboard, its interrupt handler, the two halves of the GUI
\* thread's poll and the console read implement the queue of KeyQueue.
THEOREM KeyRingIsQueue == Spec => Implements
  <1>1. Init => Keys!Init
    <2> SUFFICES ASSUME Init PROVE Keys!Init
      OBVIOUS
    <2>1. khead = ktail /\ khead \in Slots
      BY SizesAssumption DEF Init, Slots, Cells
    <2>2. PICK h \in Slots : h = khead
      BY <2>1
    <2>3. RingOf(kbuf, h, h, KbdSize) = <<>>
      BY RingEmpty, SizesAssumption DEF Slots, Sizes, Cells
    <2>4. KbdQueue = <<>>
      BY <2>1, <2>2, <2>3, QueueIsRing
    <2> QED BY <2>4 DEF Init, Keys!Init
  <1>2. IInv /\ [Next]_vars => [Keys!Next]_<<KbdQueue, delivered>>
    BY NextKeeps DEF Allowed
  <1> QED BY <1>1, <1>2, Invariance, PTL DEF Spec, Implements, Keys!Spec

-----------------------------------------------------------------------------
(* The decoder of the mouse.                                               *)

\* The decoder waits for a first byte, or holds the start of the very packet
\* the mouse is sending.
Aligned == dec.cycle = 0 \/ (dec.ok /\ dec.cycle = wire.i /\ dec.p = wire.p)

\* Out of step, it owes one garbled event to a byte lost or read twice.
Synced == garbage + (IF Aligned THEN 0 ELSE 1) <= faults

DecoderIdle == UNCHANGED <<dec, wire, garbage, faults>>

\* Whatever byte the decoder is given, it pays for being out of step with at
\* most one event, and is in step again when it does.
LEMMA DecodePays ==
  ASSUME IInv, NEW p \in 0 .. 3, NEW i \in 0 .. 2, NEW left \in BOOLEAN, Decode(p, i, left)
  PROVE  /\ garbage' \in Nat
         /\ garbage' = garbage \/ (garbage' = garbage + 1 /\ dec'.cycle = 0)
         /\ dec.cycle = 0 => garbage' = garbage
  <1>1. garbage \in Nat
    BY DEF IInv, MouseTypes
  <1>2. CASE dec.cycle = 0 \/ dec.cycle = 1
    BY <1>1, <1>2 DEF Decode
  <1>3. CASE dec.cycle # 0 /\ dec.cycle # 1
    BY <1>1, <1>3 DEF Decode, NoBytes
  <1> QED BY <1>2, <1>3

\* The next byte of the packet in hand keeps the decoder in step and counts as
\* no fault.
LEMMA DecodeInStep ==
  ASSUME IInv, Aligned, NEW left \in BOOLEAN, Sends(left), Decode(wire.p, wire.i, left)
  PROVE  Aligned' /\ garbage' = garbage
  <1>1. /\ wire.p \in 0 .. 2 /\ wire.i \in 0 .. 2 /\ dec.cycle \in 0 .. 2
        /\ dec \in [cycle : 0 .. 2, left : BOOLEAN, p : 0 .. 3, ok : BOOLEAN]
    BY DEF IInv, OtherTypes, MouseTypes
  <1>2. /\ wire'.p = (IF wire.i = 2 THEN (wire.p + 1) % 3 ELSE wire.p)
        /\ wire'.i = (wire.i + 1) % 3
    BY DEF Sends
  <1>3. CASE dec.cycle = 0
    <2>1. garbage' = garbage
      BY <1>3 DEF Decode
    <2>2. CASE wire.i = 0
      <3>1. dec' = [cycle |-> 1, left |-> left, p |-> wire.p, ok |-> TRUE]
        BY <1>3, <2>2 DEF Decode
      <3> QED BY <1>1, <1>2, <2>1, <2>2, <3>1 DEF Aligned
    <2>3. CASE wire.i # 0
      BY <1>3, <2>1, <2>3 DEF Decode, Aligned
    <2> QED BY <2>2, <2>3
  <1>4. CASE dec.cycle = 1
    <2>1. dec.ok /\ wire.i = 1 /\ dec.p = wire.p
      BY <1>4 DEF Aligned
    <2>2. /\ garbage' = garbage
          /\ dec' = [dec EXCEPT !.cycle = 2, !.ok = dec.ok /\ wire.p = dec.p /\ wire.i = 1]
      BY <1>4 DEF Decode
    <2>3. dec'.cycle = 2 /\ dec'.p = dec.p /\ dec'.ok
      BY <1>1, <2>1, <2>2
    <2>4. wire'.i = 2 /\ wire'.p = wire.p
      BY <1>1, <1>2, <2>1
    <2> QED BY <2>1, <2>2, <2>3, <2>4 DEF Aligned
  <1>5. CASE dec.cycle = 2
    <2>1. dec.ok /\ wire.i = 2 /\ dec.p = wire.p
      BY <1>5 DEF Aligned
    <2> QED BY <1>5, <2>1 DEF Decode, NoBytes, Aligned
  <1> QED BY <1>1, <1>3, <1>4, <1>5

LEMMA SyncedKept == IInv /\ Synced /\ [Next]_vars => Synced'
  <1> SUFFICES ASSUME IInv, Synced, [Next]_vars PROVE Synced'
    OBVIOUS
  <1>1. garbage \in Nat /\ faults \in Nat
    BY DEF IInv, MouseTypes, OtherTypes
  <1>0. /\ garbage' \in Nat
        /\ Aligned' => garbage' <= faults'
        /\ ~Aligned' => garbage' + 1 <= faults'
        => Synced'
    <2> HIDE DEF Aligned
    <2>1. CASE Aligned'
      BY <2>1 DEF Synced
    <2>2. CASE ~Aligned'
      BY <2>2 DEF Synced
    <2> QED BY <2>1, <2>2
  <1>2. CASE DecoderIdle
    BY <1>2 DEF DecoderIdle, Synced, Aligned
  <1>3. ASSUME NEW left \in BOOLEAN, MouseIrq(left) PROVE Synced'
    <2>1. Sends(left) /\ Decode(wire.p, wire.i, left) /\ faults' = faults
      BY <1>3 DEF MouseIrq
    <2>2. CASE Aligned
      <3>1. Aligned' /\ garbage' = garbage
        BY <2>1, <2>2, DecodeInStep
      <3> QED BY <1>1, <2>1, <2>2, <3>1 DEF Synced
    <2>3. CASE ~Aligned
      <3>1. PICK p \in 0 .. 3, i \in 0 .. 2 : p = wire.p /\ i = wire.i
        BY DEF IInv, OtherTypes
      <3>2. Decode(p, i, left)
        BY <2>1, <3>1
      <3>3. /\ garbage' \in Nat
            /\ garbage' = garbage \/ (garbage' = garbage + 1 /\ dec'.cycle = 0)
        BY <3>2, DecodePays
      <3>4. dec'.cycle = 0 => Aligned'
        BY DEF Aligned
      <3>5. garbage + 1 <= faults
        BY <1>1, <2>3 DEF Synced
      <3>6. (Aligned' => garbage' <= faults') /\ (~Aligned' => garbage' + 1 <= faults')
        <4>1. CASE garbage' = garbage
          BY <1>1, <2>1, <3>5, <4>1
        <4>2. CASE garbage' = garbage + 1 /\ Aligned'
          BY <1>1, <2>1, <3>5, <4>2
        <4> QED BY <3>3, <3>4, <4>1, <4>2, Zenon
      <3> QED BY <3>3, <3>6, <1>0
    <2> QED BY <2>2, <2>3
  <1>4. ASSUME NEW left \in BOOLEAN, LoseByte(left) PROVE Synced'
    BY <1>1, <1>4 DEF LoseByte, Synced
  <1>5. ASSUME NEW i \in 0 .. 2, NEW l \in BOOLEAN, Decode(3, i, l), faults' = faults + 1
        PROVE  Synced'
    <2>1. PICK p \in 0 .. 3 : Decode(p, i, l)
      BY <1>5
    <2>2. /\ garbage' \in Nat
          /\ garbage' = garbage \/ (garbage' = garbage + 1 /\ dec'.cycle = 0)
      BY <2>1, DecodePays
    <2>3. dec'.cycle = 0 => Aligned'
      BY DEF Aligned
    <2>4. garbage <= faults
      BY <1>1 DEF Synced
    <2>5. (Aligned' => garbage' <= faults') /\ (~Aligned' => garbage' + 1 <= faults')
      <3>1. CASE garbage' = garbage
        BY <1>1, <1>5, <2>4, <3>1
      <3>2. CASE garbage' = garbage + 1 /\ Aligned'
        BY <1>1, <1>5, <2>4, <3>2
      <3> QED BY <2>2, <2>3, <3>1, <3>2, Zenon
    <2> QED BY <2>2, <2>5, <1>0
  <1>6. CASE GuiStep
    <2>1. CASE SelfTest
      <3>1. \/ DecoderIdle
            \/ (\E i \in 0 .. 2, l \in BOOLEAN : Decode(3, i, l)) /\ faults' = faults + 1
        BY <2>1 DEF SelfTest, DecoderIdle, mouse
      <3> QED BY <1>2, <1>5, <3>1
    <2>2. CASE \/ Inject \/ LoopTop \/ DeferredKey \/ Frame \/ Sleep
      BY <1>2, <2>2 DEF Inject, LoopTop, DeferredKey, Frame, Sleep, DecoderIdle, mouse
    <2>3. CASE HandleMouse("demohandle", "inject") \/ HandleMouse("handle", "key")
      BY <1>2, <2>3 DEF HandleMouse, DecoderIdle
    <2>4. CASE \/ TakeMouse("demo+", Merge(gui.acc, gui.ev), gui.def, "demohandle")
               \/ TakeMouse("drain+", Merge(gui.acc, gui.ev), gui.def, "drain")
               \/ TakeMouse("harvest+", gui.acc, Merge(gui.def, gui.ev), "harvest")
      BY <1>2, <2>4 DEF TakeMouse, DecoderIdle
    <2>5. CASE \/ TakeKey("demokey+", NoChar, "top") \/ TakeKey("key+", NoChar, "frame")
               \/ TakeKey("harvestkey+", gui.c, "top")
      BY <1>2, <2>5 DEF TakeKey, DecoderIdle, mouse
    <2>6. CASE \/ ReadMouse("demo", "inject", "demo+") \/ ReadMouse("drain", "handle", "drain+")
               \/ ReadMouse("harvest", "harvestkey", "harvest+")
      BY <1>2, <2>6 DEF ReadMouse, DecoderIdle, mouse
    <2>7. CASE \/ ReadKey("demokey", "top", "demokey+") \/ ReadKey("key", "frame", "key+")
               \/ ReadKey("harvestkey", "top", "harvestkey+")
      BY <1>2, <2>7 DEF ReadKey, DecoderIdle, mouse
    <2> QED BY <1>6, <2>1, <2>2, <2>3, <2>4, <2>5, <2>6, <2>7 DEF GuiStep
  <1>7. CASE \E code \in Codes \cup {Shift}, release \in BOOLEAN : KeyIrq(code, release)
    BY <1>2, <1>7 DEF KeyIrq, DecoderIdle, mouse
  <1>8. CASE TimerIrq \/ ConsoleRead \/ ConsolePoll \/ UNCHANGED vars
    BY <1>2, <1>8 DEF TimerIrq, ConsoleRead, ConsolePoll, vars, DecoderIdle, mouse, keyboard
  <1> QED BY <1>3, <1>4, <1>6, <1>7, <1>8 DEF Next

\* A byte lost, or read twice by the boot test, spoils at most one event of
\* the mouse, however long it runs.
THEOREM DecoderResyncs == Spec => []Resync
  <1>1. Init => Synced
    BY DEF Init, NoBytes, Synced, Aligned
  <1>2. Synced /\ IInv => Resync
    BY DEF Synced, Resync, IInv, MouseTypes, OtherTypes
  <1> QED BY <1>1, <1>2, SyncedKept, Invariance, PTL DEF Spec
-----------------------------------------------------------------------------
(* The motion in a queue of entries.                                       *)

\* A set of numbers that has a member has a first one.
LEMMA LeastExists ==
  ASSUME NEW S \in SUBSET Nat, S # {}
  PROVE  \E i \in S : \A j \in S : i <= j
  <1> DEFINE Less == {ss \in Nat \X Nat : ss[1] < ss[2]}
  <1>1. IsWellFoundedOn(Less, Nat)
    BY NatLessThanWellFounded DEF OpToRel
  <1> HIDE DEF Less
  <1>2. PICK x \in S : \A y \in S : ~ (<<y, x>> \in Less)
    BY <1>1, WFMin
  <1>3. ASSUME NEW y \in S PROVE x <= y
    <2>1. x \in Nat /\ y \in Nat
      OBVIOUS
    <2>2. y < x => <<y, x>> \in Less
      BY <2>1 DEF Less
    <2> QED BY <1>2, <2>1, <2>2
  <1> QED BY <1>3

\* g[i] is the motion of the first i entries of q.
IsSum(g, q, n) == g = [i \in 0 .. n |-> IF i = 0 THEN 0 ELSE g[i - 1] + q[i].dx]

LEMMA SumExists ==
  ASSUME NEW q, NEW n \in Nat
  PROVE  \E g : IsSum(g, q, n)
  <1> DEFINE Bad == {m \in Nat : ~\E g : IsSum(g, q, m)}
  <1>1. SUFFICES ASSUME Bad # {} PROVE FALSE
    OBVIOUS
  <1>2. PICK m \in Bad : \A j \in Bad : m <= j
    <2>1. Bad \in SUBSET Nat
      OBVIOUS
    <2> HIDE DEF Bad
    <2> QED BY <1>1, <2>1, LeastExists
  <1>3. m # 0
    <2> DEFINE g == [i \in 0 .. 0 |-> 0]
    <2>1. IsSum(g, q, 0)
      BY DEF IsSum
    <2> QED BY <1>2, <2>1
  <1>4. m - 1 \in Nat /\ m - 1 \notin Bad
    BY <1>2, <1>3
  <1>5. PICK g : IsSum(g, q, m - 1)
    BY <1>4
  <1> DEFINE h == [i \in 0 .. m |-> IF i = 0 THEN 0 ELSE g[i - 1] + q[i].dx]
  <1>6. \A i \in 0 .. m - 1 : h[i] = g[i]
    <2> SUFFICES ASSUME NEW i \in 0 .. m - 1
                 PROVE  h[i] = g[i]
      OBVIOUS
    <2>1. i \in 0 .. m
      BY <1>4
    <2>2. h[i] = IF i = 0 THEN 0 ELSE g[i - 1] + q[i].dx
      BY <2>1
    <2>3. g = [j \in 0 .. m - 1 |-> IF j = 0 THEN 0 ELSE g[j - 1] + q[j].dx]
      BY <1>5 DEF IsSum
    <2> HIDE DEF h
    <2>4. g[i] = IF i = 0 THEN 0 ELSE g[i - 1] + q[i].dx
      BY <2>3
    <2> QED BY <2>2, <2>4
  <1>7. \A i \in 0 .. m : i # 0 => i - 1 \in 0 .. m - 1
    BY <1>4
  <1>8. h = [i \in 0 .. m |-> IF i = 0 THEN 0 ELSE h[i - 1] + q[i].dx]
    BY <1>6, <1>7
  <1> HIDE DEF h
  <1>9. IsSum(h, q, m)
    BY <1>8 DEF IsSum
  <1> QED BY <1>2, <1>9

\* Sums that start alike and grow alike are alike.
LEMMA SumsAgree ==
  ASSUME NEW n \in Nat, NEW g, NEW h,
         g[0] = h[0], \A i \in 1 .. n : g[i - 1] = h[i - 1] => g[i] = h[i]
  PROVE  g[n] = h[n]
  <1> DEFINE Bad == {i \in 0 .. n : g[i] # h[i]}
  <1>1. SUFFICES ASSUME Bad # {} PROVE FALSE
    OBVIOUS
  <1>2. PICK m \in Bad : \A j \in Bad : m <= j
    <2>1. Bad \in SUBSET Nat
      OBVIOUS
    <2> HIDE DEF Bad
    <2> QED BY <1>1, <2>1, LeastExists
  <1>3. m \in 1 .. n /\ g[m] # h[m] /\ m - 1 \notin Bad
    BY <1>2
  <1>4. g[m - 1] = h[m - 1]
    BY <1>3
  <1> QED BY <1>3, <1>4

\* What Motion computes.
Sums(g, q) ==
  /\ \A i \in 0 .. Len(q) : g[i] \in Nat
  /\ g[0] = 0
  /\ \A i \in 1 .. Len(q) : g[i] = g[i - 1] + q[i].dx
  /\ Motion(q) = g[Len(q)]

LEMMA MotionSums ==
  ASSUME NEW q \in Seq(Events)
  PROVE  \E g : Sums(g, q)
  <1> DEFINE n == Len(q)
             g == CHOOSE x : IsSum(x, q, n)
  <1>1. n \in Nat /\ \A i \in 1 .. n : q[i] \in Events
    BY ElementOfSeq, LenProperties
  <1>2. IsSum(g, q, n)
    BY <1>1, SumExists
  <1>3. Motion(q) = g[n]
    BY DEF Motion, IsSum
  <1> HIDE DEF g
  <1>4. g[0] = 0 /\ \A i \in 1 .. n : g[i] = g[i - 1] + q[i].dx
    BY <1>1, <1>2 DEF IsSum
  <1> DEFINE Bad == {i \in 0 .. n : g[i] \notin Nat}
  <1>5. Bad = {}
    <2>1. SUFFICES ASSUME Bad # {} PROVE FALSE
      OBVIOUS
    <2>2. PICK i \in Bad : \A j \in Bad : i <= j
      <3>1. Bad \in SUBSET Nat
        BY <1>1
      <3> HIDE DEF Bad
      <3> QED BY <2>1, <3>1, LeastExists
    <2>3. i \in 1 .. n /\ g[i] \notin Nat /\ i - 1 \notin Bad
      BY <1>1, <1>4, <2>2
    <2>4. g[i - 1] \in Nat /\ q[i].dx \in Nat
      BY <1>1, <2>3 DEF Events
    <2> QED BY <1>4, <2>3, <2>4
  <1> QED BY <1>1, <1>3, <1>4, <1>5 DEF Sums

LEMMA MotionType ==
  ASSUME NEW q \in Seq(Events)
  PROVE  Motion(q) \in Nat
  BY MotionSums, LenProperties DEF Sums

LEMMA MotionEmpty == Motion(<<>>) = 0
  <1>1. PICK q \in Seq(Events) : q = <<>> /\ Len(q) = 0
    BY EmptySeq
  <1>2. PICK g : Sums(g, q)
    BY MotionSums
  <1> QED BY <1>1, <1>2 DEF Sums

LEMMA MotionAppend ==
  ASSUME NEW q \in Seq(Events), NEW e \in Events
  PROVE  Motion(Append(q, e)) = Motion(q) + e.dx
  <1>1. PICK r : r = Append(q, e)
    OBVIOUS
  <1>2. /\ r \in Seq(Events) /\ Len(r) = Len(q) + 1 /\ Len(q) \in Nat
        /\ \A i \in 1 .. Len(q) : r[i] = q[i]
        /\ r[Len(q) + 1] = e
    BY <1>1, AppendProperties, LenProperties
  <1>3. PICK g : Sums(g, q)
    BY MotionSums
  <1>4. PICK h : Sums(h, r)
    BY <1>2, MotionSums
  <1>5. PICK n \in Nat : n = Len(q)
    BY <1>2
  <1>6. g[0] = h[0] /\ \A i \in 1 .. n : g[i - 1] = h[i - 1] => g[i] = h[i]
    BY <1>2, <1>3, <1>4, <1>5 DEF Sums
  <1>7. g[n] = h[n]
    BY <1>6, SumsAgree
  <1>8. h[n + 1] = h[n] + e.dx
    <2>1. n + 1 \in 1 .. Len(r) /\ (n + 1) - 1 = n
      BY <1>2, <1>5
    <2> QED BY <1>2, <1>4, <1>5, <2>1 DEF Sums
  <1> QED BY <1>1, <1>2, <1>3, <1>4, <1>5, <1>7, <1>8 DEF Sums

LEMMA MotionTail ==
  ASSUME NEW q \in Seq(Events), q # <<>>
  PROVE  Motion(q) = Head(q).dx + Motion(Tail(q))
  <1>1. PICK r : r = Tail(q)
    OBVIOUS
  <1>2. /\ r \in Seq(Events) /\ Len(r) = Len(q) - 1 /\ Len(q) \in Nat /\ Len(q) > 0
        /\ \A i \in 1 .. Len(q) - 1 : r[i] = q[i + 1]
        /\ Head(q) = q[1]
    BY <1>1, HeadTailProperties, LenProperties, EmptySeq
  <1>3. PICK g : Sums(g, q)
    BY MotionSums
  <1>4. PICK h : Sums(h, r)
    BY <1>2, MotionSums
  <1>5. PICK n \in Nat : n = Len(r)
    BY <1>2
  <1>6. q[1] \in Events
    BY <1>2, ElementOfSeq
  <1>7. PICK d \in Nat : d = q[1].dx
    BY <1>6 DEF Events
  <1> DEFINE a == [i \in 0 .. n |-> g[i + 1]]
             b == [i \in 0 .. n |-> h[i] + d]
  <1>8. a[0] = b[0]
    <2>1. g[1] = g[0] + q[1].dx
      <3>1. 1 \in 1 .. Len(q)
        BY <1>2
      <3> QED BY <1>3, <3>1 DEF Sums
    <2>2. g[0] = 0 /\ h[0] = 0
      BY <1>3, <1>4 DEF Sums
    <2> QED BY <1>7, <2>1, <2>2
  <1>9. ASSUME NEW i \in 1 .. n, a[i - 1] = b[i - 1] PROVE a[i] = b[i]
    <2>1. a[i - 1] = g[i] /\ a[i] = g[i + 1] /\ b[i - 1] = h[i - 1] + d /\ b[i] = h[i] + d
      OBVIOUS
    <2>2. i + 1 \in 1 .. Len(q) /\ i \in 1 .. Len(q) - 1 /\ i \in 1 .. Len(r) /\ (i + 1) - 1 = i
      BY <1>2, <1>5
    <2>3. g[i + 1] = g[i] + q[i + 1].dx /\ g[i] \in Nat
      BY <1>3, <2>2 DEF Sums
    <2>4. h[i] = h[i - 1] + r[i].dx /\ h[i - 1] \in Nat /\ r[i] = q[i + 1]
      BY <1>2, <1>4, <2>2 DEF Sums
    <2>5. q[i + 1] \in Events
      BY <2>2, ElementOfSeq
    <2>6. q[i + 1].dx \in Nat
      BY <2>5 DEF Events
    <2> QED BY SMTT(60), <1>9, <2>1, <2>3, <2>4, <2>6
  <1>10. a[n] = g[n + 1] /\ b[n] = h[n] + d
    OBVIOUS
  <1> HIDE DEF a, b
  <1>11. a[n] = b[n]
    BY <1>8, <1>9, SumsAgree
  <1>12. g[n + 1] = Motion(q) /\ h[n] = Motion(r) /\ h[n] \in Nat
    BY <1>2, <1>3, <1>4, <1>5 DEF Sums
  <1>13. Motion(q) = h[n] + d
    BY <1>10, <1>11, <1>12
  <1>14. Head(q).dx = d /\ Motion(Tail(q)) = h[n]
    BY <1>1, <1>2, <1>7, <1>12
  <1>15. h[n] + d = d + h[n]
    BY <1>12
  <1> QED BY <1>13, <1>14, <1>15

-----------------------------------------------------------------------------
(* The ring of the mouse.                                                  *)

LEMMA MouseIsRing == /\ MouseQueue = RingOf(mbuf, mhead, mtail, MouseSize)
                     /\ MouseQueue' = RingOf(mbuf', mhead', mtail', MouseSize)
  BY DEF MouseQueue, RingOf, Slot

LEMMA MouseIsSeq ==
  ASSUME IInv
  PROVE  MouseQueue \in Seq(Events) /\ (MouseQueue = <<>> <=> mhead = mtail)
  <1>1. PICK size \in Sizes, S \in Contents : size = MouseSize /\ S = Events
    BY SizesAssumption DEF Sizes, Contents
  <1>2. PICK b, h, t : b = mbuf /\ h = mhead /\ t = mtail
    OBVIOUS
  <1>3. b \in [Cells(size) -> S] /\ h \in Cells(size) /\ t \in Cells(size)
    BY <1>1, <1>2 DEF IInv, MouseTypes, Cells
  <1>4. RingOf(b, h, t, size) \in Seq(S) /\ Len(RingOf(b, h, t, size)) = Fill(h, t, size)
    BY <1>3, RingIsSeq
  <1>5. Fill(h, t, size) = 0 <=> h = t
    BY <1>3 DEF Fill, Cells, Sizes
  <1> QED BY <1>1, <1>2, <1>4, <1>5, MouseIsRing, EmptySeq

\* An entry is put in the ring.
LEMMA MousePushed ==
  ASSUME IInv, NEW e \in Events, MousePush(e), mhead' = mhead, MSucc(mtail) # mhead
  PROVE  /\ MouseQueue' = Append(MouseQueue, e)
         /\ accepted' = [dx |-> accepted.dx + e.dx, left |-> e.left]
         /\ mhead # mtail => mhead' # mtail' /\ mbuf'[mhead'] = mbuf[mhead]
  <1>1. /\ mbuf' = [mbuf EXCEPT ![mtail] = e] /\ mtail' = MSucc(mtail)
        /\ accepted' = [dx |-> accepted.dx + e.dx, left |-> e.left]
    BY DEF MousePush
  <1>2. PICK size \in Sizes, S \in Contents : size = MouseSize /\ S = Events
    BY SizesAssumption DEF Sizes, Contents
  <1>3. PICK b, h, t, c : b = mbuf /\ h = mhead /\ t = mtail /\ c = e
    OBVIOUS
  <1>4. /\ b \in [Cells(size) -> S] /\ h \in Cells(size) /\ t \in Cells(size) /\ c \in S
        /\ After(t, size) = MSucc(t) /\ After(t, size) # h
    BY <1>2, <1>3 DEF IInv, MouseTypes, Cells, After, MSucc
  <1>5. RingOf([b EXCEPT ![t] = c], h, After(t, size), size) = Append(RingOf(b, h, t, size), c)
    BY ZenonT(60), <1>4, PushAppends
  <1>6. MouseQueue' = Append(MouseQueue, e)
    BY <1>1, <1>2, <1>3, <1>4, <1>5, MouseIsRing
  <1>7. mhead # mtail => mhead' # mtail' /\ mbuf'[mhead'] = mbuf[mhead]
    BY <1>1 DEF IInv, MouseTypes
  <1> QED BY <1>1, <1>6, <1>7

\* The entry at the head is taken out.
LEMMA MouseTaken ==
  ASSUME IInv, mhead # mtail, mhead' = MSucc(mhead), mtail' = mtail,
         mbuf' = [mbuf EXCEPT ![mhead] = NoEvent]
  PROVE  MouseQueue # <<>> /\ Head(MouseQueue) = mbuf[mhead] /\ MouseQueue' = Tail(MouseQueue)
  <1>1. PICK size \in Sizes, S \in Contents : size = MouseSize /\ S = Events
    BY SizesAssumption DEF Sizes, Contents
  <1>2. PICK b, h, t, new, u : /\ b = mbuf /\ h = mhead /\ t = mtail
                               /\ new = [mbuf EXCEPT ![mhead] = NoEvent] /\ u = MSucc(mhead)
    OBVIOUS
  <1>3. /\ b \in [Cells(size) -> S] /\ new \in [Cells(size) -> S]
        /\ \A k \in Cells(size) : k # h => new[k] = b[k]
    BY <1>1, <1>2 DEF IInv, MouseTypes, Cells, NoEvent, Events
  <1>4. /\ u = After(h, size) /\ u \in Cells(size)
        /\ h \in Cells(size) /\ t \in Cells(size) /\ h # t
    BY <1>1, <1>2, SizesAssumption DEF IInv, MouseTypes, Cells, After, MSucc
  <1>5. /\ RingOf(b, h, t, size) # <<>> /\ Head(RingOf(b, h, t, size)) = b[h]
        /\ RingOf(new, u, t, size) = Tail(RingOf(b, h, t, size))
    BY <1>3, <1>4, TakeTails
  <1> QED BY <1>1, <1>2, <1>5, MouseIsRing

-----------------------------------------------------------------------------
(* What is on its way to the window manager.                               *)

\* Where the GUI thread may hold what it polled in this round, where what it
\* polled in the last one, and where it has read an entry it has not taken.
Gathering == {"demohandle", "drain", "drain+", "handle"}
Deferring == {"harvest", "harvest+", "harvestkey", "harvestkey+", "top"}
Taking    == {"demo+", "drain+", "harvest+"}

\* The window manager is told of one batch before the next is gathered.
OneBatch ==
  /\ gui.pc \notin Gathering => gui.acc = None
  /\ gui.pc \notin Deferring => gui.def = None
  /\ ~gui.acc.pending => gui.acc.dx = 0
  /\ ~gui.def.pending => gui.def.dx = 0

\* Between the two halves of poll_mouse() the entry read is still at the head.
EntryInHand == gui.pc \in Taking => mhead # mtail /\ gui.ev = mbuf[mhead]

\* The buttons as the last entry on its way has them.
Latest(q, def, acc, t) ==
  IF q # <<>> THEN q[Len(q)].left
  ELSE IF def.pending THEN def.left ELSE IF acc.pending THEN acc.left ELSE t

ButtonsKept == Latest(MouseQueue, gui.def, gui.acc, told) = accepted.left

OnItsWay == OneBatch /\ EntryInHand /\ MotionConserved /\ ButtonsKept

\* What is on its way for given contents of the ring.
LEMMA QueueFixes ==
  ASSUME IInv, IInv', NEW q \in Seq(Events), MouseQueue' = q,
         OneBatch', EntryInHand',
         accepted'.dx = gui'.acc.dx + gui'.def.dx + Motion(q),
         Latest(q, gui'.def, gui'.acc, told') = accepted'.left
  PROVE  OnItsWay'
  BY DEF OnItsWay, MotionConserved, ButtonsKept

\* A step that moves the GUI thread without touching what it holds.
Calm ==
  /\ gui'.acc = gui.acc /\ gui'.def = gui.def /\ told' = told
  /\ gui.pc \in Gathering => gui'.pc \in Gathering
  /\ gui.pc \in Deferring => gui'.pc \in Deferring
  /\ gui'.pc \in Taking => gui.pc \in Taking /\ gui'.ev = gui.ev

MouseIdle == UNCHANGED <<mbuf, mhead, mtail, accepted>>

LEMMA CalmIdle ==
  ASSUME IInv, OnItsWay, Calm, MouseIdle
  PROVE  OnItsWay'
  <1>1. MouseQueue' = MouseQueue
    BY DEF MouseQueue, MouseIdle
  <1>2. OneBatch' /\ EntryInHand'
    BY DEF OnItsWay, OneBatch, EntryInHand, Calm, MouseIdle
  <1> QED BY <1>1, <1>2 DEF OnItsWay, MotionConserved, ButtonsKept, Calm, MouseIdle

LEMMA LastAppend ==
  ASSUME NEW q \in Seq(Events), NEW e \in Events
  PROVE  /\ Append(q, e) \in Seq(Events) /\ Append(q, e) # <<>>
         /\ Append(q, e)[Len(Append(q, e))] = e
  BY AppendProperties, LenProperties, EmptySeq

LEMMA CalmPush ==
  ASSUME IInv, IInv', OnItsWay, Calm, NEW e \in Events, MousePush(e), mhead' = mhead
  PROVE  OnItsWay'
  <1>1. CASE MSucc(mtail) = mhead
    BY <1>1, CalmIdle DEF MousePush, MouseIdle
  <1>2. CASE MSucc(mtail) # mhead
    <2>1. /\ MouseQueue' = Append(MouseQueue, e)
          /\ accepted' = [dx |-> accepted.dx + e.dx, left |-> e.left]
          /\ mhead # mtail => mhead' # mtail' /\ mbuf'[mhead'] = mbuf[mhead]
      BY <1>2, MousePushed
    <2>2. PICK p \in Seq(Events) : p = MouseQueue
      BY MouseIsSeq
    <2>3. PICK q \in Seq(Events) : q = Append(p, e)
      BY LastAppend
    <2>4. OneBatch' /\ EntryInHand'
      BY <2>1 DEF OnItsWay, OneBatch, EntryInHand, Calm
    <2>5. Motion(q) = Motion(p) + e.dx /\ Motion(p) \in Nat
      BY <2>3, MotionAppend, MotionType
    <2>6. /\ gui.acc.dx \in Nat /\ gui.def.dx \in Nat /\ e.dx \in Nat
          /\ accepted.dx = gui.acc.dx + gui.def.dx + Motion(p)
      BY <2>2 DEF OnItsWay, MotionConserved, IInv, GuiTypes, Guis, Pend, Events
    <2>7. accepted'.dx = gui'.acc.dx + gui'.def.dx + Motion(q)
      BY SMTT(60), <2>1, <2>5, <2>6 DEF Calm
    <2>8. Latest(q, gui'.def, gui'.acc, told') = accepted'.left
      BY <2>1, <2>3, LastAppend DEF Latest
    <2>9. MouseQueue' = q
      BY <2>1, <2>2, <2>3
    <2> QED BY <2>4, <2>7, <2>8, <2>9, QueueFixes
  <1> QED BY <1>1, <1>2

LEMMA CalmDecode ==
  ASSUME IInv, IInv', OnItsWay, Calm, NEW p \in 0 .. 3, NEW i \in 0 .. 2, NEW left \in BOOLEAN,
         Decode(p, i, left), mhead' = mhead
  PROVE  OnItsWay'
  <1>1. CASE dec.cycle = 0 \/ dec.cycle = 1
    <2>1. MouseIdle
      BY <1>1 DEF Decode, MouseIdle
    <2> QED BY <2>1, CalmIdle
  <1>2. CASE dec.cycle # 0 /\ dec.cycle # 1
    <2>1. PICK good \in BOOLEAN : good = (dec.ok /\ p = dec.p /\ i = 2)
      OBVIOUS
    <2>2. MousePush([dx |-> IF good THEN 1 ELSE 2, left |-> dec.left])
      BY <1>2, <2>1 DEF Decode
    <2>3. PICK e : e = [dx |-> IF good THEN 1 ELSE 2, left |-> dec.left]
      OBVIOUS
    <2>4. e \in Events
      BY <2>3 DEF Events, IInv, MouseTypes
    <2>5. MousePush(e)
      BY <2>2, <2>3
    <2> QED BY <2>4, <2>5, CalmPush
  <1> QED BY <1>1, <1>2

\* A handler that wakes the GUI thread does not touch what it holds.
LEMMA WokenCalm ==
  ASSUME IInv, gui' = Woken, told' = told
  PROVE  Calm
  <1>1. gui \in Guis
    BY DEF IInv, GuiTypes
  <1>2. CASE GuiBlocked
    <2>1. gui' = [gui EXCEPT !.pc = "harvest"] /\ gui.pc \in {"switch", "asleep"}
      BY <1>2 DEF Woken, GuiBlocked
    <2> QED BY <1>1, <2>1 DEF Calm, Guis, Gathering, Deferring, Taking
  <1>3. CASE ~GuiBlocked
    BY <1>3 DEF Woken, Calm
  <1> QED BY <1>2, <1>3

\* The thread finds the ring empty, or reads the entry at the head.
LEMMA ReadMouseOnItsWay ==
  ASSUME IInv, OnItsWay, NEW pc, NEW out \in Pcs \ Taking, NEW got \in Pcs,
         ReadMouse(pc, out, got),
         pc \in Gathering => out \in Gathering /\ got \in Gathering,
         pc \in Deferring => out \in Deferring /\ got \in Deferring
  PROVE  OnItsWay'
  <1>1. /\ gui.pc = pc /\ MouseIdle /\ told' = told
        /\ gui' = IF mhead = mtail THEN [gui EXCEPT !.pc = out]
                  ELSE [gui EXCEPT !.pc = got, !.ev = mbuf[mhead]]
    BY DEF ReadMouse, At, MouseIdle, mouse
  <1>2. gui \in Guis
    BY DEF IInv, GuiTypes
  <1>3. CASE mhead = mtail
    <2>1. Calm
      BY <1>1, <1>2, <1>3 DEF Calm, Guis
    <2> QED BY <1>1, <2>1, CalmIdle
  <1>4. CASE mhead # mtail
    <2>1. /\ gui'.pc = got /\ gui'.ev = mbuf[mhead] /\ gui'.acc = gui.acc /\ gui'.def = gui.def
      BY <1>1, <1>2, <1>4 DEF Guis
    <2>2. MouseQueue' = MouseQueue
      BY <1>1 DEF MouseQueue, MouseIdle
    <2>3. OneBatch'
      BY <1>1, <2>1 DEF OnItsWay, OneBatch
    <2>4. EntryInHand'
      BY <1>1, <1>4, <2>1 DEF EntryInHand, MouseIdle
    <2> QED BY <1>1, <2>1, <2>2, <2>3, <2>4 DEF OnItsWay, MotionConserved, ButtonsKept, MouseIdle
  <1> QED BY <1>3, <1>4

\* What remains in the ring when its first entry is taken.
LEMMA LastTail ==
  ASSUME NEW q \in Seq(Events), q # <<>>
  PROVE  /\ Tail(q) \in Seq(Events)
         /\ Tail(q) = <<>> => q[Len(q)] = Head(q)
         /\ Tail(q) # <<>> => Tail(q)[Len(Tail(q))] = q[Len(q)]
  <1>1. PICK r : r = Tail(q)
    OBVIOUS
  <1>2. /\ r \in Seq(Events) /\ Len(r) = Len(q) - 1 /\ Len(q) \in Nat /\ Len(q) > 0
        /\ \A i \in 1 .. Len(q) - 1 : r[i] = q[i + 1]
        /\ Head(q) = q[1]
    BY <1>1, HeadTailProperties, LenProperties, EmptySeq
  <1>3. CASE r = <<>>
    <2>1. Len(q) = 1
      BY <1>2, <1>3, EmptySeq
    <2> QED BY <1>1, <1>2, <1>3, <2>1
  <1>4. CASE r # <<>>
    <2>1. Len(r) \in 1 .. Len(q) - 1 /\ Len(r) + 1 = Len(q)
      BY <1>2, <1>4, EmptySeq
    <2>2. r[Len(r)] = q[Len(r) + 1]
      BY <1>2, <2>1
    <2> QED BY <1>1, <1>2, <1>4, <2>1, <2>2
  <1> QED BY <1>3, <1>4

\* The entry in hand leaves the ring: its motion and its buttons go to what is
\* gathered or deferred.
LEMMA TakeMouseOnItsWay ==
  ASSUME IInv, IInv', OnItsWay, NEW pc \in Taking, NEW acc \in Pend, NEW def \in Pend,
         NEW to \in Pcs \ Taking, TakeMouse(pc, acc, def, to),
         \/ /\ acc = Merge(gui.acc, gui.ev) /\ def = gui.def
            /\ pc \notin Deferring /\ to \in Gathering \ Deferring
         \/ /\ acc = gui.acc /\ def = Merge(gui.def, gui.ev)
            /\ pc \notin Gathering /\ to \in Deferring \ Gathering
  PROVE  OnItsWay'
  <1>1. /\ gui.pc = pc /\ mhead' = MSucc(mhead) /\ mbuf' = [mbuf EXCEPT ![mhead] = NoEvent]
        /\ gui' = [gui EXCEPT !.pc = to, !.acc = acc, !.def = def, !.ev = NoEvent]
        /\ mtail' = mtail /\ accepted' = accepted /\ told' = told
    BY DEF TakeMouse, At
  <1>2. gui \in Guis /\ gui.acc \in Pend /\ gui.def \in Pend /\ gui.ev \in Events
    BY DEF IInv, GuiTypes, Guis
  <1>3. gui'.pc = to /\ gui'.acc = acc /\ gui'.def = def
    BY <1>1, <1>2 DEF Guis
  <1>4. mhead # mtail /\ gui.ev = mbuf[mhead]
    BY <1>1 DEF OnItsWay, EntryInHand
  <1>5. PICK p \in Seq(Events) : p = MouseQueue
    BY MouseIsSeq
  <1>6. p # <<>> /\ Head(p) = gui.ev /\ MouseQueue' = Tail(p)
    BY <1>1, <1>4, <1>5, MouseTaken
  <1>7. PICK q \in Seq(Events) : q = Tail(p)
    BY <1>6, LastTail
  <1>8. /\ q = <<>> => p[Len(p)] = gui.ev
        /\ q # <<>> => q[Len(q)] = p[Len(p)]
    BY <1>6, <1>7, LastTail
  <1>9. Motion(p) = gui.ev.dx + Motion(q) /\ Motion(q) \in Nat
    BY <1>6, <1>7, MotionTail, MotionType
  <1>10. /\ accepted.dx = gui.acc.dx + gui.def.dx + Motion(p)
         /\ p[Len(p)].left = accepted.left
    BY <1>5, <1>6 DEF OnItsWay, MotionConserved, ButtonsKept, Latest
  <1>11. /\ gui.acc.dx \in Nat /\ gui.def.dx \in Nat /\ gui.ev.dx \in Nat
    BY <1>2 DEF Pend, Events
  <1>12. EntryInHand'
    BY <1>3 DEF EntryInHand
  <1>13. CASE /\ acc = Merge(gui.acc, gui.ev) /\ def = gui.def
              /\ pc \notin Deferring /\ to \in Gathering \ Deferring
    <2>1. def = None /\ None.pending = FALSE /\ None.dx = 0
      BY <1>1, <1>13 DEF OnItsWay, OneBatch, None
    <2>2. acc.pending = TRUE /\ acc.dx = gui.acc.dx + gui.ev.dx /\ acc.left = gui.ev.left
      BY <1>13 DEF Merge
    <2>3. OneBatch'
      BY <1>3, <1>13, <2>1, <2>2 DEF OneBatch
    <2>4. accepted'.dx = gui'.acc.dx + gui'.def.dx + Motion(q)
      BY <1>1, <1>3, <1>9, <1>10, <1>11, <1>13, <2>2
    <2>5. Latest(q, gui'.def, gui'.acc, told') = accepted'.left
      BY <1>1, <1>3, <1>8, <1>10, <2>1, <2>2 DEF Latest
    <2> QED BY <1>6, <1>7, <1>12, <2>3, <2>4, <2>5, QueueFixes
  <1>14. CASE /\ acc = gui.acc /\ def = Merge(gui.def, gui.ev)
              /\ pc \notin Gathering /\ to \in Deferring \ Gathering
    <2>1. acc = None /\ None.pending = FALSE /\ None.dx = 0
      BY <1>1, <1>14 DEF OnItsWay, OneBatch, None
    <2>2. def.pending = TRUE /\ def.dx = gui.def.dx + gui.ev.dx /\ def.left = gui.ev.left
      BY <1>14 DEF Merge
    <2>3. OneBatch'
      BY <1>3, <1>14, <2>1, <2>2 DEF OneBatch
    <2>4. accepted'.dx = gui'.acc.dx + gui'.def.dx + Motion(q)
      BY <1>1, <1>3, <1>9, <1>10, <1>11, <1>14, <2>2
    <2>5. Latest(q, gui'.def, gui'.acc, told') = accepted'.left
      BY <1>1, <1>3, <1>8, <1>10, <2>1, <2>2 DEF Latest
    <2> QED BY <1>6, <1>7, <1>12, <2>3, <2>4, <2>5, QueueFixes
  <1> QED BY <1>13, <1>14

\* The window manager is told of what was gathered.
LEMMA HandleMouseOnItsWay ==
  ASSUME IInv, IInv', OnItsWay, NEW pc \in Pcs \ Deferring,
         NEW to \in Pcs \ (Gathering \cup Deferring \cup Taking), HandleMouse(pc, to)
  PROVE  OnItsWay'
  <1>1. /\ gui.pc = pc /\ gui' = [gui EXCEPT !.pc = to, !.acc = None]
        /\ UNCHANGED <<mbuf, mhead, mtail>>
    BY DEF HandleMouse, At
  <1>2. gui \in Guis /\ gui.acc \in Pend /\ accepted \in [dx : Int, left : BOOLEAN]
    BY DEF IInv, GuiTypes, Guis, MouseTypes
  <1>3. gui'.pc = to /\ gui'.acc = None /\ gui'.def = gui.def /\ gui.def = None
    BY <1>1, <1>2 DEF Guis, OnItsWay, OneBatch
  <1>4. None.pending = FALSE /\ None.dx = 0
    BY DEF None
  <1>5. PICK q \in Seq(Events) : q = MouseQueue
    BY MouseIsSeq
  <1>6. MouseQueue' = q
    BY <1>1, <1>5 DEF MouseQueue
  <1>7. OneBatch' /\ EntryInHand'
    BY <1>3, <1>4 DEF OneBatch, EntryInHand
  <1>8. /\ accepted.dx = gui.acc.dx + gui.def.dx + Motion(q)
        /\ Latest(q, gui.def, gui.acc, told) = accepted.left
        /\ Motion(q) \in Nat /\ gui.acc.dx \in Nat
    BY <1>2, <1>5, MotionType DEF OnItsWay, MotionConserved, ButtonsKept, Pend
  <1>9. CASE gui.acc.pending
    <2>1. told' = gui.acc.left /\ accepted' = [accepted EXCEPT !.dx = accepted.dx - gui.acc.dx]
      BY <1>9 DEF HandleMouse
    <2>2. accepted'.dx = accepted.dx - gui.acc.dx /\ accepted'.left = accepted.left
      BY <1>2, <2>1
    <2>3. accepted'.dx = gui'.acc.dx + gui'.def.dx + Motion(q)
      BY <1>3, <1>4, <1>8, <2>2
    <2>4. Latest(q, gui'.def, gui'.acc, told') = accepted'.left
      BY <1>3, <1>4, <1>8, <1>9, <2>1, <2>2 DEF Latest
    <2> QED BY <1>6, <1>7, <2>3, <2>4, QueueFixes
  <1>10. CASE ~gui.acc.pending
    <2>1. told' = told /\ accepted' = accepted
      BY <1>10 DEF HandleMouse
    <2>2. gui.acc.dx = 0
      BY <1>10 DEF OnItsWay, OneBatch
    <2>3. accepted'.dx = gui'.acc.dx + gui'.def.dx + Motion(q)
      BY <1>3, <1>4, <1>8, <2>1, <2>2
    <2>4. Latest(q, gui'.def, gui'.acc, told') = accepted'.left
      BY <1>3, <1>4, <1>8, <1>10, <2>1 DEF Latest
    <2> QED BY <1>6, <1>7, <2>3, <2>4, QueueFixes
  <1> QED BY <1>9, <1>10

\* What was deferred is the first of the new round.
LEMMA LoopTopOnItsWay ==
  ASSUME IInv, IInv', OnItsWay, LoopTop
  PROVE  OnItsWay'
  <1>1. /\ gui.pc = "top" /\ gui' = [gui EXCEPT !.pc = "drain", !.acc = gui.def, !.def = None]
        /\ MouseIdle /\ told' = told
    BY DEF LoopTop, At, MouseIdle, mouse
  <1>2. gui \in Guis /\ gui.acc \in Pend /\ gui.def \in Pend
    BY DEF IInv, GuiTypes, Guis
  <1>3. /\ gui'.pc = "drain" /\ gui'.acc = gui.def /\ gui'.def = None
        /\ gui.acc = None
    BY <1>1, <1>2 DEF Guis, OnItsWay, OneBatch, Gathering
  <1>4. None.pending = FALSE /\ None.dx = 0
    BY DEF None
  <1>5. PICK q \in Seq(Events) : q = MouseQueue
    BY MouseIsSeq
  <1>6. MouseQueue' = q
    BY <1>1, <1>5 DEF MouseQueue, MouseIdle
  <1>7. OneBatch' /\ EntryInHand'
    BY <1>3, <1>4 DEF OnItsWay, OneBatch, EntryInHand, Gathering, Taking
  <1>8. /\ accepted.dx = gui.acc.dx + gui.def.dx + Motion(q)
        /\ Latest(q, gui.def, gui.acc, told) = accepted.left
        /\ Motion(q) \in Nat /\ gui.def.dx \in Nat
    BY <1>2, <1>5, MotionType DEF OnItsWay, MotionConserved, ButtonsKept, Pend
  <1>9. accepted'.dx = gui'.acc.dx + gui'.def.dx + Motion(q)
    BY <1>1, <1>3, <1>4, <1>8 DEF MouseIdle
  <1>10. Latest(q, gui'.def, gui'.acc, told') = accepted'.left
    BY <1>1, <1>3, <1>4, <1>8 DEF Latest, MouseIdle
  <1> QED BY <1>6, <1>7, <1>9, <1>10, QueueFixes

LEMMA SelfTestOnItsWay ==
  ASSUME IInv, IInv', OnItsWay, SelfTest
  PROVE  OnItsWay'
  <1>1. /\ gui.pc \in {"test33", "test44"} /\ told' = told /\ mhead' = mhead
        /\ Go("test44") \/ Go("inject")
    BY DEF SelfTest, At, mouse
  <1>2. Calm
    <2>1. gui' = [gui EXCEPT !.pc = "test44"] \/ gui' = [gui EXCEPT !.pc = "inject"]
      BY <1>1 DEF Go
    <2> QED BY <1>1, <2>1 DEF IInv, GuiTypes, Guis, Calm, Gathering, Deferring, Taking
  <1>3. CASE MouseIdle
    BY <1>2, <1>3, CalmIdle
  <1>4. CASE \E i \in 0 .. 2, l \in BOOLEAN : Decode(3, i, l)
    <2>1. PICK p \in 0 .. 3, i \in 0 .. 2, l \in BOOLEAN : Decode(p, i, l)
      BY <1>4
    <2> QED BY <1>1, <1>2, <2>1, CalmDecode
  <1> QED BY <1>3, <1>4 DEF SelfTest, MouseIdle, mouse

LEMMA InjectOnItsWay ==
  ASSUME IInv, IInv', OnItsWay, Inject
  PROVE  OnItsWay'
  <1>1. gui.pc = "inject" /\ told' = told /\ mhead' = mhead /\ gui \in Guis
    BY DEF Inject, At, IInv, GuiTypes
  <1>2. CASE gui.step <= Len(Demo)
    <2>1. /\ MousePush([dx |-> 1, left |-> Demo[gui.step]])
          /\ gui' = [gui EXCEPT !.pc = "demo", !.step = gui.step + 1]
      BY <1>2 DEF Inject
    <2>2. Demo[gui.step] \in BOOLEAN
      <3>1. PICK k \in 1 .. Len(Demo) : k = gui.step
        BY <1>1, <1>2, TablesAssumption DEF Guis
      <3> QED BY <3>1, TablesAssumption
    <2>3. PICK e \in Events : MousePush(e)
      BY <2>1, <2>2 DEF Events
    <2>4. Calm
      BY <1>1, <2>1 DEF Guis, Calm, Gathering, Deferring, Taking
    <2> QED BY <1>1, <2>3, <2>4, CalmPush
  <1>3. CASE ~(gui.step <= Len(Demo))
    <2>1. gui' = [gui EXCEPT !.pc = "demokey"] /\ MouseIdle
      BY <1>1, <1>3 DEF Inject, MouseIdle
    <2>2. Calm
      BY <1>1, <2>1 DEF Guis, Calm, Gathering, Deferring, Taking
    <2> QED BY <2>1, <2>2, CalmIdle
  <1> QED BY <1>2, <1>3

\* The rest of the GUI thread's steps, and those of the keyboard.
LEMMA CalmSteps ==
  ASSUME IInv, OnItsWay,
         \/ DeferredKey \/ Frame \/ Sleep
         \/ ReadKey("demokey", "top", "demokey+") \/ ReadKey("key", "frame", "key+")
         \/ ReadKey("harvestkey", "top", "harvestkey+")
         \/ TakeKey("demokey+", NoChar, "top") \/ TakeKey("key+", NoChar, "frame")
         \/ TakeKey("harvestkey+", gui.c, "top")
  PROVE  OnItsWay'
  <1>1. gui \in Guis
    BY DEF IInv, GuiTypes
  <1>2. CASE DeferredKey
    <2>1. Calm /\ MouseIdle
      BY <1>1, <1>2 DEF DeferredKey, At, Guis, Calm, MouseIdle, mouse, Gathering, Deferring, Taking
    <2> QED BY <2>1, CalmIdle
  <1>3. CASE Frame \/ Sleep
    <2>1. Calm /\ MouseIdle
      BY <1>1, <1>3 DEF Frame, Sleep, Go, At, Guis, Calm, MouseIdle, mouse, Gathering, Deferring, Taking
    <2> QED BY <2>1, CalmIdle
  <1>4. ASSUME NEW pc, NEW out, NEW got, ReadKey(pc, out, got), out \notin Taking, got \notin Taking,
               pc \notin Gathering, pc \in Deferring => {out, got} \subseteq Deferring
        PROVE  OnItsWay'
    <2>1. /\ gui.pc = pc /\ MouseIdle /\ told' = told
          /\ \/ gui' = [gui EXCEPT !.pc = out]
             \/ gui' = [gui EXCEPT !.pc = got, !.c = kbuf[khead]]
      BY <1>4 DEF ReadKey, At, MouseIdle, mouse
    <2>2. Calm
      BY <1>1, <1>4, <2>1 DEF Guis, Calm
    <2> QED BY <2>1, <2>2, CalmIdle
  <1>5. ASSUME NEW pc, NEW key, NEW to, TakeKey(pc, key, to), to \notin Taking,
               pc \notin Gathering, pc \in Deferring => to \in Deferring
        PROVE  OnItsWay'
    <2>1. /\ gui.pc = pc /\ MouseIdle /\ told' = told
          /\ gui' = [gui EXCEPT !.pc = to, !.key = key, !.c = NoChar]
      BY <1>5 DEF TakeKey, At, MouseIdle, mouse
    <2>2. Calm
      BY <1>1, <1>5, <2>1 DEF Guis, Calm
    <2> QED BY <2>1, <2>2, CalmIdle
  <1>6. CASE ReadKey("demokey", "top", "demokey+") \/ ReadKey("key", "frame", "key+")
    BY <1>4, <1>6 DEF Gathering, Deferring, Taking
  <1>7. CASE ReadKey("harvestkey", "top", "harvestkey+")
    BY <1>4, <1>7 DEF Gathering, Deferring, Taking
  <1>8. CASE TakeKey("demokey+", NoChar, "top") \/ TakeKey("key+", NoChar, "frame")
    BY <1>5, <1>8 DEF Gathering, Deferring, Taking
  <1>9. CASE TakeKey("harvestkey+", gui.c, "top")
    BY <1>5, <1>9 DEF Gathering, Deferring, Taking
  <1> QED BY <1>2, <1>3, <1>6, <1>7, <1>8, <1>9

LEMMA GuiStepOnItsWay ==
  ASSUME IInv, IInv', OnItsWay, GuiStep
  PROVE  OnItsWay'
  <1>1. gui.acc \in Pend /\ gui.def \in Pend /\ gui.ev \in Events
    BY DEF IInv, GuiTypes, Guis
  <1>2. Merge(gui.acc, gui.ev) \in Pend /\ Merge(gui.def, gui.ev) \in Pend
    BY <1>1, MergeInPend
  <1>3. CASE SelfTest \/ Inject \/ LoopTop
    BY <1>3, SelfTestOnItsWay, InjectOnItsWay, LoopTopOnItsWay
  <1>4. CASE \/ DeferredKey \/ Frame \/ Sleep
             \/ ReadKey("demokey", "top", "demokey+") \/ ReadKey("key", "frame", "key+")
             \/ ReadKey("harvestkey", "top", "harvestkey+")
             \/ TakeKey("demokey+", NoChar, "top") \/ TakeKey("key+", NoChar, "frame")
             \/ TakeKey("harvestkey+", gui.c, "top")
    BY <1>4, CalmSteps
  <1>5. CASE ReadMouse("demo", "inject", "demo+")
    BY <1>5, ReadMouseOnItsWay DEF Pcs, Gathering, Deferring, Taking
  <1>6. CASE ReadMouse("drain", "handle", "drain+")
    BY <1>6, ReadMouseOnItsWay DEF Pcs, Gathering, Deferring, Taking
  <1>7. CASE ReadMouse("harvest", "harvestkey", "harvest+")
    BY <1>7, ReadMouseOnItsWay DEF Pcs, Gathering, Deferring, Taking
  <1>8. CASE TakeMouse("demo+", Merge(gui.acc, gui.ev), gui.def, "demohandle")
    BY <1>1, <1>2, <1>8, TakeMouseOnItsWay DEF Pcs, Gathering, Deferring, Taking
  <1>9. CASE TakeMouse("drain+", Merge(gui.acc, gui.ev), gui.def, "drain")
    BY <1>1, <1>2, <1>9, TakeMouseOnItsWay DEF Pcs, Gathering, Deferring, Taking
  <1>10. CASE TakeMouse("harvest+", gui.acc, Merge(gui.def, gui.ev), "harvest")
    BY <1>1, <1>2, <1>10, TakeMouseOnItsWay DEF Pcs, Gathering, Deferring, Taking
  <1>11. CASE HandleMouse("demohandle", "inject") \/ HandleMouse("handle", "key")
    BY <1>11, HandleMouseOnItsWay DEF Pcs, Gathering, Deferring, Taking
  <1> QED BY <1>3, <1>4, <1>5, <1>6, <1>7, <1>8, <1>9, <1>10, <1>11 DEF GuiStep

LEMMA OnItsWayKept == IInv /\ IInv' /\ OnItsWay /\ [Next]_vars => OnItsWay'
  <1> SUFFICES ASSUME IInv, IInv', OnItsWay, [Next]_vars PROVE OnItsWay'
    OBVIOUS
  <1>1. CASE \E code \in Codes \cup {Shift}, release \in BOOLEAN : KeyIrq(code, release)
    <2>1. gui' = Woken /\ told' = told /\ MouseIdle
      BY <1>1 DEF KeyIrq, MouseIdle, mouse
    <2> QED BY <2>1, WokenCalm, CalmIdle
  <1>2. ASSUME NEW left \in BOOLEAN, MouseIrq(left) PROVE OnItsWay'
    <2>1. /\ Decode(wire.p, wire.i, left) /\ gui' = Woken /\ told' = told /\ mhead' = mhead
      BY <1>2 DEF MouseIrq
    <2>2. PICK p \in 0 .. 3, i \in 0 .. 2 : p = wire.p /\ i = wire.i
      BY DEF IInv, OtherTypes
    <2>3. Decode(p, i, left)
      BY <2>1, <2>2
    <2> QED BY <2>1, <2>3, WokenCalm, CalmDecode
  <1>3. ASSUME NEW left \in BOOLEAN, LoseByte(left) PROVE OnItsWay'
    <2>1. Calm /\ MouseIdle
      BY <1>3 DEF LoseByte, Calm, MouseIdle
    <2> QED BY <2>1, CalmIdle
  <1>4. CASE TimerIrq
    <2>1. gui' = Woken /\ told' = told /\ MouseIdle
      BY <1>4 DEF TimerIrq, MouseIdle, mouse
    <2> QED BY <2>1, WokenCalm, CalmIdle
  <1>5. CASE GuiStep
    BY <1>5, GuiStepOnItsWay
  <1>6. CASE ConsoleRead \/ ConsolePoll \/ UNCHANGED vars
    <2>1. Calm /\ MouseIdle
      BY <1>6 DEF ConsoleRead, ConsolePoll, vars, Calm, MouseIdle, mouse
    <2> QED BY <2>1, CalmIdle
  <1> QED BY <1>1, <1>2, <1>3, <1>4, <1>5, <1>6 DEF Next

\* What the ring of the mouse took reaches the window manager whole, for rings
\* of any size and any number of events: no motion is lost or counted twice when
\* entries are merged, deferred to the next round or polled while handlers put
\* in more, and the buttons it is told last are those of the last entry.
THEOREM MouseCorrect == Spec => []MouseExact
  <1>1. Init => OnItsWay
    <2> SUFFICES ASSUME Init PROVE OnItsWay
      OBVIOUS
    <2>1. IInv
      BY InitIInv
    <2>2. gui.pc = "test33" /\ gui.acc = None /\ gui.def = None /\ mhead = mtail
      BY DEF Init
    <2>3. MouseQueue = <<>>
      BY <2>1, <2>2, MouseIsSeq
    <2>4. accepted.dx = 0 /\ accepted.left = FALSE /\ told = FALSE
      BY DEF Init, NoEvent
    <2>5. None.dx = 0 /\ None.pending = FALSE
      BY DEF None
    <2>6. OneBatch /\ EntryInHand
      BY <2>2, <2>5 DEF OneBatch, EntryInHand, Taking
    <2>7. MotionConserved
      BY <2>2, <2>3, <2>4, <2>5, MotionEmpty DEF MotionConserved
    <2>8. ButtonsKept
      BY <2>2, <2>3, <2>4, <2>5 DEF ButtonsKept, Latest
    <2> QED BY <2>6, <2>7, <2>8 DEF OnItsWay
  <1>2. OnItsWay => MouseExact
    BY DEF OnItsWay, ButtonsKept, Latest, MouseExact, ButtonsCurrent
  <1> QED BY <1>1, <1>2, OnItsWayKept, Invariance, PTL DEF Spec
=============================================================================
