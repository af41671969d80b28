------------------------ MODULE AddressSpacesProofs ------------------------
(***************************************************************************)
(* The frame ownership of AddressSpaces holds for any pool of frames, any  *)
(* number of processes, pages, segments and keys, and any boot layout.     *)
(*                                                                         *)
(* Every step does one of five things to the pointers: it takes a frame    *)
(* into a place, gives one back, forgets some, maps a page, or moves the   *)
(* space execve has built.  One lemma for each says that the free list and *)
(* the exclusive use of frames survive it.                                 *)
(*                                                                         *)
(* The second half proves the two action properties from Copying: a space  *)
(* being built starts empty and is filled page by page, so a fork that     *)
(* ends has every page, and a frame taken goes to an empty place.          *)
(***************************************************************************)
EXTENDS AddressSpaces, TLAPS, SequenceTheorems

Typed == free \in Seq(Frames) /\ at \in [Places -> Frames \cup {None}]
Sound == FreeListSound /\ FrameExclusive

-----------------------------------------------------------------------------
(* Places.                                                                 *)

\* Which pointers are places, and which of them are pages or segment frames.
LEMMA PlaceFacts ==
  /\ \A s \in Spaces : /\ Root(s) \in Places /\ Low(s) \in Places
                       /\ SpacePlaces(s) \subseteq Places
  /\ \A s \in Spaces, x \in Slots : Tab(s, x) \in Places
  /\ PagePlaces \subseteq Places /\ ShmPlaces \subseteq Places
  /\ \A s \in Spaces, v \in Pages : Page(s, v) \in PagePlaces
  /\ \A g \in Segs, i \in 1 .. MaxLen : Shm(g, i) \in ShmPlaces
  /\ \A p \in Procs, i \in 1 .. 2 : Stk(p, i) \in Places
  /\ Tmp \in Places
<1>1. \A s \in Spaces : SpacePlaces(s) \subseteq Places
  BY DEF Places
<1>2. \A s \in Spaces : Root(s) \in SpacePlaces(s) /\ Low(s) \in SpacePlaces(s)
  BY DEF SpacePlaces
<1>3. \A s \in Spaces, x \in Slots : Tab(s, x) \in SpacePlaces(s)
  BY DEF SpacePlaces
<1>4. \A s \in Spaces, v \in Pages : Page(s, v) \in SpacePlaces(s) /\ Page(s, v) \in PagePlaces
  BY DEF SpacePlaces, PagePlaces
<1>5. PagePlaces \subseteq Places
  BY <1>1, <1>4 DEF PagePlaces
<1>6. ShmPlaces \subseteq Places /\ Tmp \in Places
  BY DEF Places
<1>7. \A g \in Segs, i \in 1 .. MaxLen : Shm(g, i) \in ShmPlaces
  BY DEF ShmPlaces
<1>8. \A p \in Procs, i \in 1 .. 2 : Stk(p, i) \in Places
  BY DEF Places
<1> QED BY <1>1, <1>2, <1>3, <1>4, <1>5, <1>6, <1>7, <1>8

\* The kinds do not overlap.
LEMMA PlaceKinds ==
  /\ \A s, x : /\ Root(s) \notin PagePlaces \cup ShmPlaces
               /\ Low(s) \notin PagePlaces \cup ShmPlaces
               /\ Tab(s, x) \notin PagePlaces \cup ShmPlaces
               /\ Stk(s, x) \notin PagePlaces \cup ShmPlaces
  /\ Tmp \notin PagePlaces \cup ShmPlaces
  /\ PagePlaces \cap ShmPlaces = {}
  /\ \A p, i, q, j : Stk(p, i) = Stk(q, j) => p = q /\ i = j
  /\ \A p, i, q, j : Shm(p, i) = Shm(q, j) => p = q /\ i = j
  /\ \A p, i, s : /\ Stk(p, i) \notin SpacePlaces(s) /\ Stk(p, i) # Tmp
                  /\ Shm(p, i) \notin SpacePlaces(s)
                  /\ \A x : Stk(p, i) # Root(x) /\ Stk(p, i) # Low(x)
                  /\ \A x, y : Stk(p, i) # Tab(x, y) /\ Stk(p, i) # Shm(x, y)
BY DEF Root, Low, Tab, Stk, Tmp, PagePlaces, ShmPlaces, Page, Shm, SpacePlaces

-----------------------------------------------------------------------------
(* What the steps do to the pointers.                                      *)

\* A frame taken off the list is in use at one place only.
LEMMA TakeSound ==
  ASSUME Typed, Sound, NEW a \in Places, a \in ShmPlaces => at[a] = None, Take(a)
  PROVE  /\ Typed' /\ Sound'
         /\ at'[a] \in Frames /\ at'[a] # None
         /\ \A b \in Places \ {a} : at'[b] = at[b] /\ at'[b] # at'[a]
<1> DEFINE f == Head(free)
<1>1. free # << >> /\ at' = [at EXCEPT ![a] = f] /\ free' = Tail(free)
  BY DEF Take
<1>2. Len(free) \in Nat /\ Len(free) > 0 /\ f = free[1] /\ f \in Frames
  BY <1>1 DEF Typed
<1>3. /\ free' \in Seq(Frames)
      /\ Len(free') = Len(free) - 1
      /\ \A i \in 1 .. Len(free) - 1 : free'[i] = free[i + 1]
  BY <1>1, HeadTailProperties DEF Typed
<1>4. DOMAIN free = 1 .. Len(free) /\ DOMAIN free' = 1 .. Len(free) - 1
  BY <1>3, LenProperties DEF Typed
<1>5. f # None
  BY <1>2, NumbersAssumption DEF None
<1>6. at'[a] = f /\ \A b \in Places \ {a} : at'[b] = at[b]
  BY <1>1 DEF Typed
<1>7. \A b \in Places : at[b] # f
  BY <1>2, <1>4, <1>5 DEF Sound, FreeListSound, InUse
<1> HIDE DEF f
<1>8. Typed'
  BY <1>1, <1>2, <1>3 DEF Typed
<1>9. Distinct(free)'
  BY <1>2, <1>3, <1>4, SMTT(30) DEF Sound, FreeListSound, Distinct
<1>10. \A i \in DOMAIN free' : free'[i] # f
  BY <1>2, <1>3, <1>4, SMTT(30) DEF Sound, FreeListSound, Distinct
<1>11. FreeListSound'
  <2> SUFFICES ASSUME NEW i \in DOMAIN free', NEW b \in Places, at'[b] # None
               PROVE  at'[b] # free'[i]
    BY <1>9 DEF FreeListSound, InUse
  <2>1. CASE b = a
    BY <2>1, <1>6, <1>10
  <2>2. CASE b # a
    BY <2>2, <1>2, <1>3, <1>4, <1>6 DEF Sound, FreeListSound, InUse
  <2> QED BY <2>1, <2>2
<1>12. FrameExclusive'
  <2> SUFFICES ASSUME NEW b \in Places, NEW c \in Places, b # c, at'[b] = at'[c], at'[b] # None
               PROVE  /\ b \in PagePlaces \/ c \in PagePlaces
                      /\ {b, c} \subseteq PagePlaces \cup ShmPlaces
                      /\ \E d \in ShmPlaces : at'[d] = at'[b]
    BY DEF FrameExclusive, InUse
  <2>1. b # a /\ c # a
    BY <1>6, <1>7
  <2>2. at[b] = at[c] /\ at[b] # None
    BY <1>6, <2>1
  <2>3. /\ b \in PagePlaces \/ c \in PagePlaces
        /\ {b, c} \subseteq PagePlaces \cup ShmPlaces
        /\ \E d \in ShmPlaces : at[d] = at[b]
    BY <2>2 DEF Sound, FrameExclusive, InUse
  <2>4. PICK d \in ShmPlaces : at[d] = at[b]
    BY <2>3
  <2>5. d # a
    BY <2>2, <2>4
  <2>6. at'[d] = at'[b]
    BY <1>6, <2>1, <2>4, <2>5, PlaceFacts
  <2> QED BY <2>3, <2>6
<1> QED BY <1>2, <1>5, <1>6, <1>7, <1>8, <1>11, <1>12 DEF Sound

\* A frame given back was in use at one place only, and is in use no more.
LEMMA GiveSound ==
  ASSUME Typed, Sound, NEW a \in Places, at[a] # None, Give(a),
         \A b \in Places \ {a} : at[b] # at[a]
  PROVE  /\ Typed' /\ Sound'
         /\ at'[a] = None
         /\ \A b \in Places \ {a} : at'[b] = at[b]
<1> DEFINE f == at[a]
<1>1. free' = <<f>> \o free /\ at' = [at EXCEPT ![a] = None]
  BY DEF Give
<1>2. f \in Frames
  BY DEF Typed
<1>3. at'[a] = None /\ \A b \in Places \ {a} : at'[b] = at[b]
  BY <1>1 DEF Typed
<1>4. <<f>> \in Seq(Frames) /\ Len(<<f>>) = 1 /\ <<f>>[1] = f
  BY <1>2
<1>5. Len(free) \in Nat /\ DOMAIN free = 1 .. Len(free)
  BY LenProperties DEF Typed
<1>6. /\ free' \in Seq(Frames) /\ Len(free') = Len(free) + 1
      /\ \A i \in 1 .. Len(free) + 1 : free'[i] = IF i <= 1 THEN <<f>>[i] ELSE free[i - 1]
  BY <1>1, <1>4, <1>5, ConcatProperties DEF Typed
<1>7. DOMAIN free' = 1 .. Len(free) + 1
  BY <1>6, LenProperties
<1>8. /\ free'[1] = f
      /\ \A i \in 1 .. Len(free) + 1 : i # 1 => free'[i] = free[i - 1] /\ i - 1 \in DOMAIN free
  BY <1>4, <1>5, <1>6
<1>9. \A i \in DOMAIN free : free[i] # f
  BY DEF Sound, FreeListSound, InUse
<1> HIDE DEF f
<1>10. Typed'
  BY <1>1, <1>6 DEF Typed
<1>11. Distinct(free')
  <2> SUFFICES ASSUME NEW i \in DOMAIN free', NEW j \in DOMAIN free', free'[i] = free'[j]
               PROVE  i = j
    BY DEF Distinct
  <2>1. CASE i = 1 \/ j = 1
    BY <2>1, <1>7, <1>8, <1>9
  <2>2. CASE i # 1 /\ j # 1
    <3>1. free[i - 1] = free[j - 1] /\ i - 1 \in DOMAIN free /\ j - 1 \in DOMAIN free
      BY <2>2, <1>7, <1>8
    <3>2. i - 1 = j - 1
      BY <3>1 DEF Sound, FreeListSound, Distinct
    <3> QED BY <3>2, <1>5, <1>7
  <2> QED BY <2>1, <2>2
<1>12. \A i \in DOMAIN free', b \in Places : at'[b] # None => at'[b] # free'[i]
  <2> SUFFICES ASSUME NEW i \in DOMAIN free', NEW b \in Places, at'[b] # None
               PROVE  at'[b] # free'[i]
    OBVIOUS
  <2>1. b # a /\ at'[b] = at[b]
    BY <1>3
  <2>2. CASE i = 1
    BY <2>1, <2>2, <1>8 DEF f
  <2>3. CASE i # 1
    BY <2>1, <2>3, <1>7, <1>8 DEF Sound, FreeListSound, InUse
  <2> QED BY <2>2, <2>3
<1>13. FreeListSound'
  BY <1>11, <1>12 DEF FreeListSound, InUse
<1>14. FrameExclusive'
  <2> SUFFICES ASSUME NEW b \in Places, NEW c \in Places, b # c, at'[b] = at'[c], at'[b] # None
               PROVE  /\ b \in PagePlaces \/ c \in PagePlaces
                      /\ {b, c} \subseteq PagePlaces \cup ShmPlaces
                      /\ \E d \in ShmPlaces : at'[d] = at'[b]
    BY DEF FrameExclusive, InUse
  <2>1. b # a /\ c # a /\ at[b] = at[c] /\ at[b] # None /\ at'[b] = at[b]
    BY <1>3
  <2>2. /\ b \in PagePlaces \/ c \in PagePlaces
        /\ {b, c} \subseteq PagePlaces \cup ShmPlaces
        /\ \E d \in ShmPlaces : at[d] = at[b]
    BY <2>1 DEF Sound, FrameExclusive, InUse
  <2>3. PICK d \in ShmPlaces : at[d] = at[b]
    BY <2>2
  <2>4. d # a
    BY <2>1, <2>3
  <2> QED BY <1>3, <2>1, <2>2, <2>3, <2>4, PlaceFacts
<1> QED BY <1>3, <1>10, <1>13, <1>14 DEF Sound

\* Forgetting pointers outside the segments.
LEMMA DropSound ==
  ASSUME Typed, Sound, UNCHANGED free, at' \in [Places -> Frames \cup {None}],
         \A b \in Places : at'[b] = at[b] \/ at'[b] = None,
         \A d \in ShmPlaces : at'[d] = at[d]
  PROVE  Typed' /\ Sound'
<1>1. Typed'
  BY DEF Typed
<1>2. FreeListSound'
  BY DEF Sound, FreeListSound, InUse, Distinct
<1>3. FrameExclusive'
  BY DEF Sound, FrameExclusive, InUse
<1> QED BY <1>1, <1>2, <1>3 DEF Sound

\* A page is mapped: to the frame the loop has just taken, or to a frame of a
\* segment.
LEMMA MapSound ==
  ASSUME Typed, Sound, UNCHANGED free,
         NEW p \in PagePlaces, NEW src \in ShmPlaces \cup {Tmp},
         at' = [at EXCEPT ![p] = at[src], ![Tmp] = None]
  PROVE  Typed' /\ Sound'
<1>1. p \in Places /\ src \in Places /\ Tmp \in Places /\ p # Tmp /\ p # src
  BY PlaceFacts, PlaceKinds
<1>2. at' \in [Places -> Frames \cup {None}]
  BY <1>1 DEF Typed
<1>3. /\ at'[p] = at[src] /\ at'[Tmp] = None
      /\ \A b \in Places \ {p, Tmp} : at'[b] = at[b]
  BY <1>1 DEF Typed
<1>4. Typed'
  BY <1>2 DEF Typed
<1>5. FreeListSound'
  BY ZenonT(60), <1>1, <1>3 DEF Sound, FreeListSound, InUse, Distinct
<1>6. \A d \in ShmPlaces : d \in Places /\ at'[d] = at[d]
  BY <1>3, PlaceFacts, PlaceKinds
<1>7. ASSUME NEW c \in Places, c # p, at'[c] = at'[p], at'[p] # None
      PROVE  c \in PagePlaces \cup ShmPlaces /\ \E d \in ShmPlaces : at'[d] = at'[p]
  <2>1. at[c] = at[src] /\ at[c] # None
    BY <1>3, <1>7
  <2>2. CASE c = src
    BY <2>2, <1>3, <1>6, <1>7
  <2>3. CASE c # src
    <3>1. c \in InUse /\ src \in InUse
      BY <2>1, <1>1 DEF InUse
    <3>2. /\ {c, src} \subseteq PagePlaces \cup ShmPlaces
          /\ \E d \in ShmPlaces : at[d] = at[c]
      BY <3>1, <2>1, <2>3 DEF Sound, FrameExclusive
    <3>3. PICK d \in ShmPlaces : at[d] = at[c]
      BY <3>2
    <3>4. at'[d] = at'[p]
      BY <3>3, <2>1, <1>3, <1>6
    <3> QED BY <3>2, <3>4
  <2> QED BY <2>2, <2>3
<1>8. FrameExclusive'
  <2> SUFFICES ASSUME NEW b \in Places, NEW c \in Places, b # c, at'[b] = at'[c], at'[b] # None
               PROVE  /\ b \in PagePlaces \/ c \in PagePlaces
                      /\ {b, c} \subseteq PagePlaces \cup ShmPlaces
                      /\ \E d \in ShmPlaces : at'[d] = at'[b]
    BY DEF FrameExclusive, InUse
  <2>1. CASE b = p \/ c = p
    BY <2>1, <1>7
  <2>2. CASE b # p /\ c # p
    <3>1. at'[b] = at[b] /\ at'[c] = at[c]
      BY <2>2, <1>3
    <3> QED BY <3>1, <1>6 DEF Sound, FrameExclusive, InUse
  <2> QED BY <2>1, <2>2
<1> QED BY <1>4, <1>5, <1>8 DEF Sound

\* Pointers move: every place in use shows what one place showed before, no two
\* the frame of the same place, and pages move to pages.
LEMMA MoveSound ==
  ASSUME Typed, Sound, UNCHANGED free, at' \in [Places -> Frames \cup {None}],
         NEW from \in [Places -> Places],
         \A b \in Places : at'[b] # None =>
           /\ at'[b] = at[from[b]]
           /\ from[b] \in PagePlaces => b \in PagePlaces
           /\ from[b] \in ShmPlaces => b \in ShmPlaces,
         \A b, c \in Places :
           at'[b] # None /\ at'[c] # None /\ from[b] = from[c] => b = c,
         \A d \in ShmPlaces : at'[d] = at[d]
  PROVE  Typed' /\ Sound'
<1>1. Typed'
  BY DEF Typed
<1>2. FreeListSound'
  BY DEF Sound, FreeListSound, InUse, Distinct
<1>3. FrameExclusive'
  <2> SUFFICES ASSUME NEW b \in Places, NEW c \in Places, b # c, at'[b] = at'[c], at'[b] # None
               PROVE  /\ b \in PagePlaces \/ c \in PagePlaces
                      /\ {b, c} \subseteq PagePlaces \cup ShmPlaces
                      /\ \E d \in ShmPlaces : at'[d] = at'[b]
    BY DEF FrameExclusive, InUse
  <2>1. from[b] # from[c] /\ from[b] \in Places /\ from[c] \in Places
    OBVIOUS
  <2>2. at[from[b]] = at[from[c]] /\ at[from[b]] # None /\ at[from[b]] = at'[b]
    OBVIOUS
  <2>3. /\ from[b] \in PagePlaces \/ from[c] \in PagePlaces
        /\ {from[b], from[c]} \subseteq PagePlaces \cup ShmPlaces
        /\ \E d \in ShmPlaces : at[d] = at[from[b]]
    BY <2>1, <2>2 DEF Sound, FrameExclusive, InUse
  <2> QED BY <2>2, <2>3
<1> QED BY <1>1, <1>2, <1>3 DEF Sound

-----------------------------------------------------------------------------
(* The steps.                                                              *)

\* Steps of calls that build no segment, and leave segments as they are.
LEMMA SegmentsQuiet ==
  ASSUME IInv, UNCHANGED segs,
         op \notin {"shmget", "shmundo"}, op' \notin {"shmget", "shmundo"},
         \A d \in ShmPlaces : at'[d] = at[d]
  PROVE  SegmentsWhole' /\ UnusedEmpty' /\ SegmentInProgress'
<1>1. /\ \A g \in Segs, i \in 1 .. MaxLen : at'[Shm(g, i)] = at[Shm(g, i)]
      /\ segKey' = segKey /\ segLen' = segLen
  BY PlaceFacts DEF segs
<1>2. \A g \in Segs : segLen[g] \in 0 .. MaxLen
  BY DEF IInv, TypeOK
<1>3. SegmentsWhole'
  BY <1>1, <1>2, NumbersAssumption DEF IInv, SegmentsWhole
<1>4. UnusedEmpty'
  BY <1>1 DEF IInv, Supporting, UnusedEmpty
<1>5. SegmentInProgress'
  BY DEF SegmentInProgress
<1> QED BY <1>3, <1>4, <1>5

\* A step that takes a frame for something other than a segment, in a call that
\* builds none.
LEMMA TakeQuiet ==
  ASSUME IInv, NEW a \in Places \ ShmPlaces, Take(a), UNCHANGED segs,
         op \notin {"shmget", "shmundo"}, op' \notin {"shmget", "shmundo"}
  PROVE  /\ Typed' /\ Sound' /\ SegmentsWhole' /\ UnusedEmpty' /\ SegmentInProgress'
         /\ at'[a] # None
         /\ \A b \in Places \ {a} : at'[b] = at[b]
<1>1. Typed /\ Sound
  BY DEF IInv, TypeOK, Typed, Sound
<1>2. /\ Typed' /\ Sound' /\ at'[a] # None
      /\ \A b \in Places \ {a} : at'[b] = at[b]
  BY <1>1, TakeSound
<1>3. \A d \in ShmPlaces : at'[d] = at[d]
  BY <1>2, PlaceFacts
<1>4. SegmentsWhole' /\ UnusedEmpty' /\ SegmentInProgress'
  BY <1>3, SegmentsQuiet
<1> QED BY <1>2, <1>4

\* fork and execve begin.
LEMMA BeginPreserves ==
  ASSUME IInv,
         \/ \E p, c \in Procs : ForkBegin(p, c)
         \/ \E p \in Procs : ExecBegin(p)
  PROVE  IInv'
<1> PICK s \in Spaces, p \in Procs, c \in Procs \cup {0} :
      /\ op = "idle" /\ Take(Root(s)) /\ UNCHANGED <<procs, segs, fault>>
      /\ \/ c \in Procs /\ op' = "fork" /\ todo' = Cloned(spaceOf[p])
         \/ op' = "exec" /\ todo' = Image
      /\ caller' = p /\ child' = c /\ seg' = 0 /\ idx' = 0 /\ short' = FALSE
  BY DEF ForkBegin, ExecBegin, Begin, Running, Spaces
<1>1. Root(s) \in Places \ ShmPlaces
  BY PlaceFacts, PlaceKinds
<1>2. /\ Typed' /\ Sound' /\ SegmentsWhole' /\ UnusedEmpty' /\ SegmentInProgress'
      /\ \A b \in Places \ {Root(s)} : at'[b] = at[b]
  BY <1>1, TakeQuiet
<1>3. \A q \in Procs, i \in 1 .. 2 : at'[Stk(q, i)] = at[Stk(q, i)]
  BY <1>2, PlaceFacts, PlaceKinds
<1>4. todo' \subseteq Pages
  BY NumbersAssumption DEF Cloned, Mapped
<1>5. TypeOK'
  BY <1>2, <1>4 DEF IInv, TypeOK, Typed, procs, segs, Ops
<1>6. StacksHeld'
  BY <1>3 DEF IInv, Supporting, StacksHeld, procs
<1>7. AttachInStep'
  BY DEF AttachInStep
<1> QED BY <1>2, <1>5, <1>6, <1>7 DEF IInv, Sound, Supporting

\* The space a loop builds is one of the spaces.
LEMMA TargetSpace ==
  ASSUME TypeOK, op \in {"fork", "exec", "shmat"}
  PROVE  Target \in Spaces
BY DEF TypeOK, Target, Spaces

\* The PDPT of a new space.
LEMMA LowTablePreserves ==
  ASSUME IInv, LowTable
  PROVE  IInv'
<1>1. Low(Target) \in Places \ ShmPlaces
  BY TargetSpace, PlaceFacts, PlaceKinds DEF IInv, LowTable
<1>2. CASE UNCHANGED <<free, at>>
  BY <1>2 DEF IInv, LowTable, TypeOK, FreeListSound, FrameExclusive, InUse, SegmentsWhole,
    Supporting, UnusedEmpty, SegmentInProgress, AttachInStep, StacksHeld, procs, segs, job
<1>3. CASE Take(Low(Target)) /\ UNCHANGED fault
  <2>1. /\ Typed' /\ Sound' /\ SegmentsWhole' /\ UnusedEmpty' /\ SegmentInProgress'
        /\ \A b \in Places \ {Low(Target)} : at'[b] = at[b]
    BY <1>1, <1>3, TakeQuiet DEF LowTable, job
  <2>2. \A q \in Procs, i \in 1 .. 2 : at'[Stk(q, i)] = at[Stk(q, i)]
    BY <2>1, PlaceFacts, PlaceKinds
  <2>3. TypeOK'
    BY <2>1, <1>3 DEF IInv, TypeOK, Typed, LowTable, procs, segs, job
  <2>4. StacksHeld'
    BY <2>2 DEF IInv, TypeOK, Supporting, StacksHeld, LowTable, procs, job
  <2>5. AttachInStep'
    BY DEF AttachInStep, LowTable, job
  <2> QED BY <2>1, <2>3, <2>4, <2>5 DEF IInv, Sound, Supporting
<1> QED BY <1>2, <1>3 DEF LowTable

\* A step that changes neither frames nor the segment table, inside a call that
\* builds or shows no segment.
LEMMA LocalPreserves ==
  ASSUME IInv, UNCHANGED <<free, at, procs, segs>>,
         op \in {"fork", "exec"}, UNCHANGED <<op, caller, child, seg, idx>>,
         todo' \subseteq Pages, short' \in BOOLEAN, fault' \in {"none", "gp", "page0"}
  PROVE  IInv'
<1>1. TypeOK'
  BY DEF IInv, TypeOK, procs, segs
<1>2. FreeListSound' /\ FrameExclusive' /\ SegmentsWhole' /\ UnusedEmpty'
  BY DEF IInv, FreeListSound, FrameExclusive, InUse, SegmentsWhole, Supporting, UnusedEmpty, segs
<1>3. SegmentInProgress' /\ AttachInStep'
  BY DEF SegmentInProgress, AttachInStep
<1>4. StacksHeld'
  BY DEF IInv, Supporting, StacksHeld, procs
<1> QED BY <1>1, <1>2, <1>3, <1>4 DEF IInv, Supporting

\* A page's frame.
LEMMA PageFramePreserves ==
  ASSUME IInv, PageFrame
  PROVE  IInv'
<1>1. op \in {"fork", "exec"} /\ UNCHANGED <<procs, segs>>
  BY DEF PageFrame, Building
<1>2. Tmp \in Places \ ShmPlaces
  BY PlaceFacts, PlaceKinds
<1>3. CASE Take(Tmp) /\ UNCHANGED <<job, fault>>
  <2>1. /\ Typed' /\ Sound' /\ SegmentsWhole' /\ UnusedEmpty' /\ SegmentInProgress'
        /\ \A b \in Places \ {Tmp} : at'[b] = at[b]
    BY <1>1, <1>2, <1>3, TakeQuiet DEF job
  <2>2. \A q \in Procs, i \in 1 .. 2 : at'[Stk(q, i)] = at[Stk(q, i)]
    BY <2>1, PlaceFacts, PlaceKinds
  <2>3. TypeOK'
    BY <2>1, <1>1, <1>3 DEF IInv, TypeOK, Typed, procs, segs, job
  <2>4. StacksHeld'
    BY <2>2, <1>1, <1>3 DEF IInv, TypeOK, Supporting, StacksHeld, procs, job
  <2>5. AttachInStep'
    BY <1>1, <1>3 DEF AttachInStep, job
  <2> QED BY <2>1, <2>3, <2>4, <2>5 DEF IInv, Sound, Supporting
<1>4. CASE \E v \in Pages : Skip(v) /\ UNCHANGED <<free, at, fault>>
  BY <1>1, <1>4, LocalPreserves DEF Skip, IInv, TypeOK
<1>5. CASE Destroy /\ UNCHANGED <<free, at, job>>
  BY <1>1, <1>5, LocalPreserves DEF Destroy, job, IInv, TypeOK
<1> QED BY <1>3, <1>4, <1>5 DEF PageFrame

\* A table on the way to a page.
LEMMA TablePreserves ==
  ASSUME IInv, Table
  PROVE  IInv'
<1>1. op \in {"fork", "exec", "shmat"} /\ UNCHANGED <<procs, segs>>
  BY DEF Table, Pending, Building, Running
<1>2. Tmp \in Places \ ShmPlaces
  BY PlaceFacts, PlaceKinds
<1>3. PICK v \in Pages : \E i \in DOMAIN Walk[v] :
        \/ /\ Take(Tab(Target, Walk[v][i]))
           /\ UNCHANGED <<job, fault>>
        \/ /\ op = "fork"
           /\ at' = [at EXCEPT ![Tmp] = None]
           /\ Skip(v)
           /\ UNCHANGED <<free, fault>>
        \/ /\ op = "exec"
           /\ Give(Tmp)
           /\ Destroy
           /\ UNCHANGED job
        \/ /\ op = "shmat"
           /\ Return
           /\ UNCHANGED <<free, at, fault>>
  BY DEF Table
<1>4. Typed /\ Sound
  BY DEF IInv, TypeOK, Typed, Sound
<1>5. ASSUME NEW i \in DOMAIN Walk[v], Take(Tab(Target, Walk[v][i])), UNCHANGED <<job, fault>>
      PROVE  IInv'
  <2> DEFINE a == Tab(Target, Walk[v][i])
  <2>1. Walk[v][i] \in Slots
    BY NumbersAssumption
  <2>2. a \in Places \ ShmPlaces
    BY <1>1, <2>1, TargetSpace, PlaceFacts, PlaceKinds DEF IInv
  <2>3. /\ Typed' /\ Sound' /\ SegmentsWhole' /\ UnusedEmpty' /\ SegmentInProgress'
        /\ \A b \in Places \ {a} : at'[b] = at[b]
    BY <1>1, <1>5, <2>2, TakeQuiet DEF job
  <2>4. \A q \in Procs, j \in 1 .. 2 : at'[Stk(q, j)] = at[Stk(q, j)]
    BY <2>3, PlaceFacts, PlaceKinds
  <2>5. TypeOK'
    BY <2>3, <1>1, <1>5 DEF IInv, TypeOK, Typed, procs, segs, job
  <2>6. StacksHeld'
    BY <2>4, <1>1, <1>5 DEF IInv, TypeOK, Supporting, StacksHeld, procs, job
  <2>7. AttachInStep'
    BY <1>1, <1>5 DEF IInv, Supporting, AttachInStep, job, segs
  <2> QED BY <2>3, <2>5, <2>6, <2>7 DEF IInv, Sound, Supporting
<1>6. ASSUME at'[Tmp] = None, \A b \in Places \ {Tmp} : at'[b] = at[b],
             Typed', Sound', op \in {"fork", "exec"}, UNCHANGED <<op, caller, child, seg, idx>>,
             todo' \subseteq Pages, short' \in BOOLEAN, fault' \in {"none", "gp", "page0"}
      PROVE  IInv'
  <2>1. \A d \in ShmPlaces : at'[d] = at[d]
    BY <1>2, <1>6, PlaceFacts
  <2>2. SegmentsWhole' /\ UnusedEmpty' /\ SegmentInProgress'
    BY <1>1, <1>6, <2>1, SegmentsQuiet
  <2>3. \A q \in Procs, j \in 1 .. 2 : at'[Stk(q, j)] = at[Stk(q, j)]
    BY <1>6, PlaceFacts, PlaceKinds
  <2>4. TypeOK'
    BY <1>1, <1>6 DEF IInv, TypeOK, Typed, procs, segs
  <2>5. StacksHeld'
    BY <1>1, <1>6, <2>3 DEF IInv, TypeOK, Supporting, StacksHeld, procs
  <2>6. AttachInStep'
    BY <1>6 DEF AttachInStep
  <2> QED BY <1>6, <2>2, <2>4, <2>5, <2>6 DEF IInv, Sound, Supporting
<1>7. CASE op = "fork" /\ at' = [at EXCEPT ![Tmp] = None] /\ Skip(v) /\ UNCHANGED <<free, fault>>
  <2>1. at'[Tmp] = None /\ \A b \in Places \ {Tmp} : at'[b] = at[b]
    BY <1>2, <1>4, <1>7 DEF Typed
  <2>2. at' \in [Places -> Frames \cup {None}]
    BY <1>4, <1>7 DEF Typed
  <2>3. \A d \in ShmPlaces : at'[d] = at[d]
    BY <1>2, <2>1, PlaceFacts
  <2>4. Typed' /\ Sound'
    BY <1>2, <1>4, <1>7, <2>1, <2>2, <2>3, DropSound
  <2> QED BY <1>6, <1>7, <2>1, <2>4 DEF Skip, IInv, TypeOK
<1>8. CASE op = "exec" /\ Give(Tmp) /\ Destroy /\ UNCHANGED job
  <2>1. at[Tmp] # None
    BY <1>8 DEF Table, Pending, Running
  <2>2. \A b \in Places \ {Tmp} : at[b] # at[Tmp]
    BY <2>1, <1>2, <1>4, PlaceKinds DEF Sound, FrameExclusive, InUse
  <2>3. /\ Typed' /\ Sound' /\ at'[Tmp] = None
        /\ \A b \in Places \ {Tmp} : at'[b] = at[b]
    BY <1>2, <1>4, <1>8, <2>1, <2>2, GiveSound
  <2> QED BY <1>6, <1>8, <2>3 DEF Destroy, job, IInv, TypeOK
<1>9. CASE op = "shmat" /\ Return /\ UNCHANGED <<free, at, fault>>
  <2>1. op' = "idle" /\ UNCHANGED <<free, at, fault, procs, segs, caller, child, todo, seg, idx, short>>
    BY <1>1, <1>9 DEF Return
  <2>2. TypeOK'
    BY <2>1 DEF IInv, TypeOK, procs, segs, Ops
  <2>3. FreeListSound' /\ FrameExclusive'
    BY <2>1 DEF IInv, FreeListSound, FrameExclusive, InUse
  <2>4. SegmentsWhole' /\ UnusedEmpty' /\ SegmentInProgress'
    BY <1>9, <2>1, SegmentsQuiet
  <2>5. AttachInStep' /\ StacksHeld'
    BY <1>9, <2>1 DEF IInv, Supporting, AttachInStep, StacksHeld, procs
  <2> QED BY <2>2, <2>3, <2>4, <2>5 DEF IInv, Supporting
<1> QED BY <1>3, <1>5, <1>7, <1>8, <1>9

\* The entry of a page.
LEMMA MapPagePreserves ==
  ASSUME IInv, MapPage
  PROVE  IInv'
<1>1. /\ op \in {"fork", "exec", "shmat"}
      /\ UNCHANGED <<free, procs, segs, op, caller, child, seg, short, fault>>
      /\ idx' = IF op = "shmat" THEN idx + 1 ELSE idx
  BY DEF MapPage, Pending, Building, Running
<1>2. PICK v \in Pages :
        /\ IsNext(v)
        /\ at' = [at EXCEPT ![Page(Target, v)] = at[Source], ![Tmp] = None]
        /\ todo' = todo \ {v}
  BY DEF MapPage
<1>3. Page(Target, v) \in PagePlaces
  BY <1>1, TargetSpace, PlaceFacts DEF IInv
<1>4. ASSUME op = "shmat"
      PROVE  /\ idx + 1 \in 1 .. segLen[seg] /\ seg \in Segs /\ segLen[seg] \in 0 .. MaxLen
             /\ \E w \in Pages : todo' = w + (idx + 1) .. w + segLen[seg] - 1
  <2>1. seg \in Segs /\ segLen[seg] \in 0 .. MaxLen /\ idx \in Nat
    BY <1>4 DEF IInv, TypeOK
  <2>2. PICK w \in Pages : todo = w + idx .. w + segLen[seg] - 1
    BY <1>4 DEF IInv, Supporting, AttachInStep
  <2>3. w \in Nat /\ segLen[seg] \in Nat
    BY <2>1, NumbersAssumption
  <2>4. v \in todo /\ \A u \in todo : v <= u
    BY <1>2 DEF IsNext
  <2>5. v \in Int /\ w + idx <= v /\ v <= w + segLen[seg] - 1
    BY <2>1, <2>2, <2>3, <2>4
  <2>6. w + idx \in todo
    BY <2>1, <2>2, <2>3, <2>5
  <2>7. v = w + idx
    BY <2>1, <2>3, <2>4, <2>5, <2>6
  <2>8. todo' = w + (idx + 1) .. w + segLen[seg] - 1
    BY <1>2, <2>1, <2>2, <2>3, <2>7
  <2> QED BY <2>1, <2>3, <2>5, <2>7, <2>8
<1>5. Source \in ShmPlaces \cup {Tmp}
  <2>1. CASE op = "shmat"
    <3>1. idx + 1 \in 1 .. MaxLen /\ seg \in Segs
      BY <2>1, <1>4, NumbersAssumption
    <3> QED BY <2>1, <3>1, PlaceFacts DEF Source
  <2>2. CASE op # "shmat"
    BY <2>2 DEF Source
  <2> QED BY <2>1, <2>2
<1>6. Typed /\ Sound
  BY DEF IInv, TypeOK, Typed, Sound
<1>7. Typed' /\ Sound'
  BY <1>1, <1>2, <1>3, <1>5, <1>6, MapSound
<1>8. \A b \in Places \ PagePlaces : b # Tmp => at'[b] = at[b]
  BY <1>2, <1>3, <1>6 DEF Typed
<1>9. \A d \in ShmPlaces : at'[d] = at[d]
  BY <1>8, PlaceFacts, PlaceKinds
<1>10. \A q \in Procs, i \in 1 .. 2 : at'[Stk(q, i)] = at[Stk(q, i)]
  BY <1>8, PlaceFacts, PlaceKinds
<1>11. SegmentsWhole' /\ UnusedEmpty' /\ SegmentInProgress'
  BY <1>1, <1>9, SegmentsQuiet
<1>12. idx' \in Nat /\ todo' \subseteq Pages
  BY <1>1, <1>2 DEF IInv, TypeOK
<1>13. TypeOK'
  BY <1>1, <1>7, <1>12 DEF IInv, TypeOK, Typed, procs, segs
<1>14. StacksHeld'
  <2>1. op \in {"fork", "reap"} => child \in Procs /\ idx' = idx
    BY <1>1 DEF IInv, TypeOK
  <2> QED BY <1>1, <1>10, <2>1 DEF IInv, Supporting, StacksHeld, procs
<1>15. AttachInStep'
  <2> SUFFICES ASSUME op = "shmat"
               PROVE  \E w \in Pages : todo' = w + idx' .. w + segLen'[seg'] - 1
    BY <1>1 DEF AttachInStep
  <2> QED BY <1>1, <1>4 DEF segs
<1> QED BY <1>7, <1>11, <1>13, <1>14, <1>15 DEF IInv, Sound, Supporting

\* A program header that cannot be read.
LEMMA BadHeaderPreserves ==
  ASSUME IInv, BadHeader
  PROVE  IInv'
BY LocalPreserves DEF BadHeader, Building, Destroy, job, IInv, TypeOK

\* The kernel stack of a child.
LEMMA ForkStackPreserves ==
  ASSUME IInv, ForkStack
  PROVE  IInv'
<1>1. op = "fork" /\ idx \in 0 .. 1 /\ child \in Procs /\ UNCHANGED <<procs, segs>>
  BY DEF ForkStack, Building, IInv, TypeOK
<1>2. CASE Destroy /\ UNCHANGED <<free, at, job>>
  BY <1>1, <1>2, LocalPreserves DEF Destroy, job, IInv, TypeOK
<1>3. CASE /\ Take(Stk(child, idx + 1)) /\ idx' = idx + 1
           /\ UNCHANGED <<fault, op, caller, child, todo, seg, short>>
  <2> DEFINE a == Stk(child, idx + 1)
  <2>1. a \in Places \ ShmPlaces
    BY <1>1, PlaceFacts, PlaceKinds
  <2>2. /\ Typed' /\ Sound' /\ SegmentsWhole' /\ UnusedEmpty' /\ SegmentInProgress'
        /\ at'[a] # None
        /\ \A b \in Places \ {a} : at'[b] = at[b]
    BY <1>1, <1>3, <2>1, TakeQuiet
  <2>3. \A q \in Procs, j \in 1 .. 2 : at[Stk(q, j)] # None => at'[Stk(q, j)] # None
    BY <2>2, PlaceFacts
  <2>4. TypeOK'
    BY <1>1, <1>3, <2>2 DEF IInv, TypeOK, Typed, procs, segs
  <2>5. StacksHeld'
    BY <1>1, <1>3, <2>2, <2>3 DEF IInv, Supporting, StacksHeld, procs
  <2>6. AttachInStep'
    BY <1>1, <1>3 DEF AttachInStep
  <2> QED BY <2>2, <2>4, <2>5, <2>6 DEF IInv, Sound, Supporting
<1> QED BY <1>2, <1>3 DEF ForkStack

\* The child is runnable.
LEMMA ForkDonePreserves ==
  ASSUME IInv, ForkDone
  PROVE  IInv'
<1>1. /\ op = "fork" /\ idx = 2 /\ op' = "idle" /\ child \in Procs
      /\ life' = [life EXCEPT ![child] = "alive"]
      /\ spaceOf' = [spaceOf EXCEPT ![child] = child]
      /\ UNCHANGED <<free, at, segs, fault, caller, child, todo, seg, idx, short>>
  BY DEF ForkDone, Building, Return, IInv, TypeOK
<1>2. TypeOK'
  BY <1>1 DEF IInv, TypeOK, segs, Ops, Lives
<1>3. FreeListSound' /\ FrameExclusive'
  BY <1>1 DEF IInv, FreeListSound, FrameExclusive, InUse
<1>4. SegmentsWhole' /\ UnusedEmpty' /\ SegmentInProgress'
  BY <1>1, SegmentsQuiet
<1>5. AttachInStep'
  BY <1>1 DEF AttachInStep
<1>6. StacksHeld'
  BY <1>1 DEF IInv, TypeOK, Supporting, StacksHeld
<1> QED BY <1>2, <1>3, <1>4, <1>5, <1>6 DEF IInv, Supporting

\* execve moves the pointers of the space it has built to its caller's, and
\* forgets those the caller's space held.
LEMMA ExecDonePreserves ==
  ASSUME IInv, ExecDone
  PROVE  IInv'
<1>1. /\ op = "exec" /\ op' = "idle" /\ caller \in Procs
      /\ at' = [a \in Places |-> Relocate(caller, a)]
      /\ spaceOf' = [spaceOf EXCEPT ![caller] = caller]
      /\ UNCHANGED <<free, life, segs, fault, caller, child, todo, seg, idx, short>>
  BY DEF ExecDone, Building, Return, IInv, TypeOK
<1>2. caller \in Spaces /\ New \in Spaces /\ caller # New
  BY <1>1, NumbersAssumption DEF Spaces, Procs, New
<1> DEFINE moved(a) == <<a[1], New, a[3]>>
           from == [a \in Places |-> IF a \in SpacePlaces(caller) THEN moved(a) ELSE a]
<1>3. \A a \in SpacePlaces(caller) :
        /\ a[2] = caller /\ a = <<a[1], caller, a[3]>>
        /\ moved(a) \in SpacePlaces(New)
        /\ a \in PagePlaces <=> moved(a) \in PagePlaces
        /\ a \notin ShmPlaces /\ moved(a) \notin ShmPlaces
  BY <1>2 DEF SpacePlaces, Root, Low, Tab, Page, PagePlaces, ShmPlaces, Shm
<1>4. from \in [Places -> Places]
  BY <1>2, <1>3, PlaceFacts
<1>5. \A a \in Places : at'[a] # None => a \notin SpacePlaces(New) /\ at'[a] = at[from[a]]
  BY <1>1 DEF Relocate
<1>6. \A b, c \in Places :
        at'[b] # None /\ at'[c] # None /\ from[b] = from[c] => b = c
  <2> SUFFICES ASSUME NEW b \in Places, NEW c \in Places,
                      b \notin SpacePlaces(New), c \notin SpacePlaces(New), from[b] = from[c]
               PROVE  b = c
    BY <1>5
  <2>1. CASE b \in SpacePlaces(caller) /\ c \in SpacePlaces(caller)
    <3>1. b[1] = c[1] /\ b[3] = c[3]
      BY <2>1
    <3> QED BY <2>1, <3>1, <1>3
  <2>2. CASE b \notin SpacePlaces(caller) \/ c \notin SpacePlaces(caller)
    BY <2>2, <1>3
  <2> QED BY <2>1, <2>2
<1>7. \A a \in Places : at'[a] # None =>
        /\ at'[a] = at[from[a]]
        /\ from[a] \in PagePlaces => a \in PagePlaces
        /\ from[a] \in ShmPlaces => a \in ShmPlaces
  BY <1>3, <1>5
<1>8. \A a \in Places : a \notin SpacePlaces(New) \cup SpacePlaces(caller) => at'[a] = at[a]
  BY <1>1 DEF Relocate
<1>9. \A d \in ShmPlaces : d \in Places /\ at'[d] = at[d]
  <2>1. \A d \in ShmPlaces : d \notin SpacePlaces(New) \cup SpacePlaces(caller)
    BY PlaceKinds DEF ShmPlaces
  <2> QED BY <1>8, <2>1, PlaceFacts
<1>10. \A q \in Procs, i \in 1 .. 2 : at'[Stk(q, i)] = at[Stk(q, i)]
  BY <1>8, PlaceFacts, PlaceKinds
<1>11. Typed /\ Sound
  BY DEF IInv, TypeOK, Typed, Sound
<1>12. at' \in [Places -> Frames \cup {None}]
  <2>1. \A a \in Places : at'[a] = None \/ at'[a] = at[from[a]]
    BY <1>5
  <2>2. \A a \in Places : at'[a] \in Frames \cup {None}
    BY <2>1, <1>4, <1>11 DEF Typed
  <2> QED BY <1>1, <2>2
<1> HIDE DEF from
<1>13. Typed' /\ Sound'
  BY <1>1, <1>4, <1>6, <1>7, <1>9, <1>11, <1>12, MoveSound
<1>14. SegmentsWhole' /\ UnusedEmpty' /\ SegmentInProgress'
  BY <1>1, <1>9, SegmentsQuiet
<1>15. TypeOK'
  BY <1>1, <1>13 DEF IInv, TypeOK, Typed, segs, Ops
<1>16. AttachInStep' /\ StacksHeld'
  BY <1>1, <1>10 DEF IInv, Supporting, AttachInStep, StacksHeld
<1> QED BY <1>13, <1>14, <1>15, <1>16 DEF IInv, Sound, Supporting

\* shm_get begins.
LEMMA ShmGetPreserves ==
  ASSUME IInv, NEW p \in Procs, NEW k \in Keys, NEW n \in 1 .. MaxLen, ShmGet(p, k, n)
  PROVE  IInv'
<1>1. PICK g \in Segs :
        /\ op = "idle" /\ segKey[g] = NoKey
        /\ segKey' = [segKey EXCEPT ![g] = k] /\ segLen' = [segLen EXCEPT ![g] = n]
        /\ op' = "shmget" /\ caller' = p /\ child' = 0 /\ todo' = {} /\ seg' = g
        /\ idx' = 0 /\ short' = FALSE
        /\ UNCHANGED <<free, at, procs, fault>>
  BY DEF ShmGet, Begin, Running
<1>2. n \in 0 .. MaxLen /\ n \in Nat /\ k # NoKey
  BY NumbersAssumption
<1>3. /\ segKey'[g] = k /\ segLen'[g] = n
      /\ \A h \in Segs \ {g} : segKey'[h] = segKey[h] /\ segLen'[h] = segLen[h]
  BY <1>1 DEF IInv, TypeOK
<1>4. TypeOK'
  BY <1>1, <1>2 DEF IInv, TypeOK, procs, Ops
<1>5. FreeListSound' /\ FrameExclusive'
  BY <1>1 DEF IInv, FreeListSound, FrameExclusive, InUse
<1>6. \A i \in 1 .. MaxLen : at[Shm(g, i)] = None
  BY <1>1 DEF IInv, Supporting, UnusedEmpty
<1>7. SegmentsWhole'
  BY <1>1, <1>3 DEF IInv, SegmentsWhole
<1>8. UnusedEmpty'
  BY <1>1, <1>3, <1>2 DEF IInv, Supporting, UnusedEmpty
<1>9. SegmentInProgress'
  BY <1>1, <1>2, <1>3, <1>6 DEF SegmentInProgress
<1>10. AttachInStep' /\ StacksHeld'
  BY <1>1 DEF IInv, Supporting, AttachInStep, StacksHeld, procs
<1> QED BY <1>4, <1>5, <1>7, <1>8, <1>9, <1>10 DEF IInv, Supporting

\* A frame of a segment, or none left.
LEMMA ShmFramePreserves ==
  ASSUME IInv, ShmFrame
  PROVE  IInv'
<1>1. /\ op = "shmget" /\ idx < segLen[seg] /\ seg \in Segs
      /\ UNCHANGED <<procs, segs, fault>>
      /\ idx \in Nat /\ segLen[seg] \in 0 .. MaxLen
  BY DEF ShmFrame, Running, IInv, TypeOK
<1>2. idx + 1 \in 1 .. MaxLen /\ idx + 1 <= segLen[seg]
  BY <1>1, NumbersAssumption
<1>3. /\ segKey[seg] # NoKey
      /\ \A i \in 1 .. MaxLen : i > idx => at[Shm(seg, i)] = None
      /\ \A i \in 1 .. idx : at[Shm(seg, i)] # None
      /\ \A i \in 1 .. MaxLen, b \in PagePlaces :
           at[Shm(seg, i)] # None => at[b] # at[Shm(seg, i)]
  BY <1>1 DEF IInv, Supporting, SegmentInProgress
<1>4. CASE /\ op' = "shmundo"
           /\ UNCHANGED <<free, at, caller, child, todo, seg, idx, short>>
  <2>1. TypeOK'
    BY <1>1, <1>4 DEF IInv, TypeOK, procs, segs, Ops
  <2>2. FreeListSound' /\ FrameExclusive' /\ SegmentsWhole' /\ UnusedEmpty'
    BY <1>1, <1>4 DEF IInv, FreeListSound, FrameExclusive, InUse, SegmentsWhole, Supporting,
      UnusedEmpty, segs
  <2>3. SegmentInProgress'
    BY <1>1, <1>3, <1>4 DEF SegmentInProgress, segs
  <2>4. AttachInStep' /\ StacksHeld'
    BY <1>1, <1>4 DEF IInv, Supporting, AttachInStep, StacksHeld, procs
  <2> QED BY <2>1, <2>2, <2>3, <2>4 DEF IInv, Supporting
<1>5. CASE /\ Take(Shm(seg, idx + 1)) /\ idx' = idx + 1
           /\ UNCHANGED <<op, caller, child, todo, seg, short>>
  <2> DEFINE a == Shm(seg, idx + 1)
  <2>1. a \in ShmPlaces /\ a \in Places /\ at[a] = None
    BY <1>1, <1>2, <1>3, PlaceFacts
  <2>2. Typed /\ Sound
    BY DEF IInv, TypeOK, Typed, Sound
  <2>3. /\ Typed' /\ Sound' /\ at'[a] # None
        /\ \A b \in Places \ {a} : at'[b] = at[b] /\ at'[b] # at'[a]
    BY <1>5, <2>1, <2>2, TakeSound
  <2>4. \A g \in Segs, i \in 1 .. MaxLen :
          /\ Shm(g, i) \in Places
          /\ g # seg \/ i # idx + 1 => at'[Shm(g, i)] = at[Shm(g, i)]
    BY <2>3, PlaceFacts, PlaceKinds
  <2>5. \A b \in PagePlaces : at'[b] = at[b] /\ at'[b] # at'[a]
    BY <2>1, <2>3, PlaceFacts, PlaceKinds
  <2>6. \A q \in Procs, j \in 1 .. 2 : at'[Stk(q, j)] = at[Stk(q, j)]
    BY <2>3, PlaceFacts, PlaceKinds
  <2>7. TypeOK'
    BY <1>1, <1>5, <2>3 DEF IInv, TypeOK, Typed, procs, segs
  <2>8. SegmentsWhole'
    <3> SUFFICES ASSUME NEW g \in Segs, segKey[g] # NoKey, g # seg, NEW i \in 1 .. segLen[g]
                 PROVE  at'[Shm(g, i)] # None
      BY <1>1, <1>5 DEF SegmentsWhole, segs
    <3>1. i \in 1 .. MaxLen
      BY NumbersAssumption DEF IInv, TypeOK
    <3>2. at[Shm(g, i)] # None
      BY DEF IInv, SegmentsWhole
    <3> QED BY <2>4, <3>1, <3>2
  <2>9. UnusedEmpty'
    BY <1>1, <1>3, <2>4 DEF IInv, Supporting, UnusedEmpty, segs
  <2>10. SegmentInProgress'
    <3>1. \A i \in 1 .. MaxLen : i > idx + 1 => at'[Shm(seg, i)] = None
      BY <1>1, <1>3, <2>4
    <3>2. \A i \in 1 .. idx + 1 : i \in 1 .. MaxLen
      BY <1>2, NumbersAssumption
    <3>3. \A i \in 1 .. idx + 1 : at'[Shm(seg, i)] # None
      <4> SUFFICES ASSUME NEW i \in 1 .. idx + 1 PROVE at'[Shm(seg, i)] # None
        OBVIOUS
      <4>1. CASE i = idx + 1
        BY <4>1, <2>3
      <4>2. CASE i # idx + 1
        <5>1. i \in 1 .. idx
          BY <4>2, <1>1
        <5> QED BY <4>2, <5>1, <1>1, <1>3, <2>4, <3>2
      <4> QED BY <4>1, <4>2
    <3>4. \A i \in 1 .. MaxLen, b \in PagePlaces :
            at'[Shm(seg, i)] # None => at'[b] # at'[Shm(seg, i)]
      BY <1>1, <1>3, <2>4, <2>5
    <3> QED BY <1>1, <1>2, <1>3, <1>5, <3>1, <3>3, <3>4 DEF SegmentInProgress, segs
  <2>11. AttachInStep' /\ StacksHeld'
    BY <1>1, <1>5, <2>6 DEF IInv, Supporting, AttachInStep, StacksHeld, procs
  <2> QED BY <2>3, <2>7, <2>8, <2>9, <2>10, <2>11 DEF IInv, Sound, Supporting
<1> QED BY <1>4, <1>5 DEF ShmFrame

\* The roll-back of a segment frees a frame.
LEMMA ShmUndoPreserves ==
  ASSUME IInv, ShmUndo
  PROVE  IInv'
<1>1. /\ op = "shmundo" /\ seg \in Segs /\ idx \in Nat /\ segLen[seg] \in 0 .. MaxLen
      /\ UNCHANGED <<procs, segs, job, fault>>
  BY DEF ShmUndo, Running, IInv, TypeOK
<1>2. /\ segKey[seg] # NoKey /\ idx <= segLen[seg]
      /\ \A i \in 1 .. MaxLen : i > idx => at[Shm(seg, i)] = None
      /\ \A i \in 1 .. MaxLen, b \in PagePlaces :
           at[Shm(seg, i)] # None => at[b] # at[Shm(seg, i)]
  BY <1>1 DEF IInv, Supporting, SegmentInProgress
<1>3. PICK n \in 1 .. idx : at[Shm(seg, n)] # None /\ Give(Shm(seg, n))
  BY DEF ShmUndo, Taken
<1> DEFINE a == Shm(seg, n)
<1>4. n \in 1 .. MaxLen
  BY <1>1, <1>2, NumbersAssumption
<1>5. a \in ShmPlaces /\ a \in Places /\ a \notin PagePlaces
  BY <1>1, <1>4, PlaceFacts, PlaceKinds
<1>6. Typed /\ Sound
  BY DEF IInv, TypeOK, Typed, Sound
<1>7. \A b \in Places \ {a} : at[b] # at[a]
  <2> SUFFICES ASSUME NEW b \in Places, b # a, at[b] = at[a] PROVE FALSE
    OBVIOUS
  <2>1. b \in PagePlaces
    BY <1>3, <1>5, <1>6 DEF Sound, FrameExclusive, InUse
  <2> QED BY <2>1, <1>2, <1>3, <1>4
<1>8. /\ Typed' /\ Sound' /\ at'[a] = None
      /\ \A b \in Places \ {a} : at'[b] = at[b]
  BY <1>3, <1>5, <1>6, <1>7, GiveSound
<1>9. \A g \in Segs, i \in 1 .. MaxLen :
        /\ Shm(g, i) \in Places
        /\ g # seg \/ i # n => at'[Shm(g, i)] = at[Shm(g, i)]
  BY <1>8, PlaceFacts, PlaceKinds
<1>10. \A b \in PagePlaces : at'[b] = at[b]
  BY <1>5, <1>8, PlaceFacts
<1>11. \A q \in Procs, j \in 1 .. 2 : at'[Stk(q, j)] = at[Stk(q, j)]
  BY <1>8, PlaceFacts, PlaceKinds
<1>12. TypeOK'
  BY <1>1, <1>8 DEF IInv, TypeOK, Typed, procs, segs, job
<1>13. SegmentsWhole'
  <2> SUFFICES ASSUME NEW g \in Segs, segKey[g] # NoKey, g # seg, NEW i \in 1 .. segLen[g]
               PROVE  at'[Shm(g, i)] # None
    BY <1>1 DEF SegmentsWhole, segs, job
  <2>1. i \in 1 .. MaxLen
    BY NumbersAssumption DEF IInv, TypeOK
  <2>2. at[Shm(g, i)] # None
    BY DEF IInv, SegmentsWhole
  <2> QED BY <1>9, <2>1, <2>2
<1>14. UnusedEmpty'
  BY <1>1, <1>2, <1>9 DEF IInv, Supporting, UnusedEmpty, segs
<1>15. SegmentInProgress'
  <2>1. \A i \in 1 .. MaxLen : at'[Shm(seg, i)] = None \/ at'[Shm(seg, i)] = at[Shm(seg, i)]
    BY <1>1, <1>8, <1>9
  <2>2. \A i \in 1 .. MaxLen : i > idx => at'[Shm(seg, i)] = None
    BY <1>2, <2>1
  <2>3. \A i \in 1 .. MaxLen, b \in PagePlaces :
          at'[Shm(seg, i)] # None => at'[b] # at'[Shm(seg, i)]
    BY <1>2, <1>10, <2>1
  <2> QED BY <1>1, <1>2, <2>2, <2>3 DEF SegmentInProgress, segs, job
<1>16. AttachInStep' /\ StacksHeld'
  BY <1>1, <1>11 DEF IInv, Supporting, AttachInStep, StacksHeld, procs, job
<1> QED BY <1>8, <1>12, <1>13, <1>14, <1>15, <1>16 DEF IInv, Sound, Supporting

\* shm_get fails once everything is given back, or succeeds with all frames.
LEMMA ShmEndPreserves ==
  ASSUME IInv, ShmFailed \/ ShmDone
  PROVE  IInv'
<1>1. /\ op \in {"shmget", "shmundo"} /\ op' = "idle"
      /\ seg \in Segs /\ idx \in Nat /\ segLen[seg] \in 0 .. MaxLen
      /\ UNCHANGED <<free, at, procs, fault, segLen, caller, child, todo, seg, idx, short>>
  BY DEF ShmFailed, ShmDone, Running, Return, segs, IInv, TypeOK
<1>2. FreeListSound' /\ FrameExclusive'
  BY <1>1 DEF IInv, FreeListSound, FrameExclusive, InUse
<1>3. SegmentInProgress' /\ AttachInStep' /\ StacksHeld'
  BY <1>1 DEF IInv, Supporting, SegmentInProgress, AttachInStep, StacksHeld, procs
<1>4. CASE ShmFailed
  <2>1. segKey' = [segKey EXCEPT ![seg] = NoKey] /\ Taken = {} /\ op = "shmundo"
    BY <1>4 DEF ShmFailed, Running
  <2>2. \A i \in 1 .. MaxLen : at[Shm(seg, i)] = None
    <3>1. \A i \in 1 .. MaxLen : i > idx => at[Shm(seg, i)] = None
      BY <2>1 DEF IInv, Supporting, SegmentInProgress
    <3>2. \A i \in 1 .. idx : at[Shm(seg, i)] = None
      BY <2>1 DEF Taken
    <3> QED BY <1>1, <3>1, <3>2
  <2>3. TypeOK'
    BY <1>1, <2>1 DEF IInv, TypeOK, procs, Ops
  <2>4. /\ segKey'[seg] = NoKey
        /\ \A g \in Segs \ {seg} : segKey'[g] = segKey[g]
    BY <1>1, <2>1 DEF IInv, TypeOK
  <2>5. SegmentsWhole'
    BY <1>1, <2>4 DEF IInv, SegmentsWhole
  <2>6. UnusedEmpty'
    BY <1>1, <2>2, <2>4 DEF IInv, Supporting, UnusedEmpty
  <2> QED BY <1>2, <1>3, <2>3, <2>5, <2>6 DEF IInv, Supporting
<1>5. CASE ShmDone
  <2>1. op = "shmget" /\ idx = segLen[seg] /\ segKey' = segKey
    BY <1>5 DEF ShmDone, Running, segs
  <2>2. TypeOK'
    BY <1>1, <2>1 DEF IInv, TypeOK, procs, Ops
  <2>3. \A i \in 1 .. segLen[seg] : at[Shm(seg, i)] # None
    BY <2>1 DEF IInv, Supporting, SegmentInProgress
  <2>4. SegmentsWhole'
    BY <1>1, <2>1, <2>3 DEF IInv, SegmentsWhole
  <2>5. UnusedEmpty'
    BY <1>1, <2>1 DEF IInv, Supporting, UnusedEmpty
  <2> QED BY <1>2, <1>3, <2>2, <2>4, <2>5 DEF IInv, Supporting
<1> QED BY <1>4, <1>5

\* shm_at begins and ends; a thread exits; its stack is about to be freed.
LEMMA BorderPreserves ==
  ASSUME IInv,
         \/ \E p \in Procs, g \in Segs, v \in Pages : ShmAt(p, g, v)
         \/ ShmAtDone
         \/ \E p \in Procs : Exit(p) \/ ReapBegin(p)
  PROVE  IInv'
<1>1. /\ op \in {"idle", "shmat"} /\ op' \in {"idle", "shmat", "reap"}
      /\ UNCHANGED <<free, at, spaceOf, segs, fault>>
  BY DEF ShmAt, ShmAtDone, Exit, ReapBegin, Begin, Return, Running, procs, job
<1>2. FreeListSound' /\ FrameExclusive'
  BY <1>1 DEF IInv, FreeListSound, FrameExclusive, InUse
<1>3. SegmentsWhole' /\ UnusedEmpty' /\ SegmentInProgress'
  BY <1>1, SegmentsQuiet
<1>4. CASE \E p \in Procs, g \in Segs, v \in Pages : ShmAt(p, g, v)
  <2>1. PICK p \in Procs, g \in Segs, v \in Pages : ShmAt(p, g, v)
    BY <1>4
  <2>2. /\ op' = "shmat" /\ caller' = p /\ child' = 0 /\ seg' = g /\ idx' = 0 /\ short' = FALSE
        /\ todo' = v .. v + segLen[g] - 1 /\ todo' \subseteq Pages
        /\ op = "idle" /\ UNCHANGED procs
    BY <2>1 DEF ShmAt, Begin, Running
  <2>3. TypeOK'
    BY <1>1, <2>2 DEF IInv, TypeOK, procs, segs, Ops
  <2>4. AttachInStep'
    <3>1. v + 0 = v
      BY NumbersAssumption
    <3> QED BY <1>1, <2>2, <3>1 DEF AttachInStep, segs
  <2>5. StacksHeld'
    BY <1>1, <2>2 DEF IInv, Supporting, StacksHeld, procs
  <2> QED BY <1>2, <1>3, <2>3, <2>4, <2>5 DEF IInv, Supporting
<1>5. CASE ShmAtDone
  <2>1. TypeOK'
    BY <1>5 DEF IInv, TypeOK, ShmAtDone, Running, Return, procs, segs, Ops
  <2>2. AttachInStep' /\ StacksHeld'
    BY <1>5 DEF IInv, Supporting, StacksHeld, AttachInStep, ShmAtDone, Running, Return, procs
  <2> QED BY <1>2, <1>3, <2>1, <2>2 DEF IInv, Supporting
<1>6. CASE \E p \in Procs : Exit(p)
  <2>1. PICK p \in Procs : Exit(p)
    BY <1>6
  <2>2. TypeOK'
    BY <2>1 DEF IInv, TypeOK, Exit, Running, segs, job, Ops, Lives
  <2>3. AttachInStep' /\ StacksHeld'
    BY <2>1 DEF IInv, TypeOK, Supporting, StacksHeld, AttachInStep, Exit, Running, job
  <2> QED BY <1>2, <1>3, <2>2, <2>3 DEF IInv, Supporting
<1>7. CASE \E p \in Procs : ReapBegin(p)
  <2>1. PICK p \in Procs : ReapBegin(p)
    BY <1>7
  <2>2. TypeOK'
    BY <2>1 DEF IInv, TypeOK, ReapBegin, Begin, Running, procs, segs, Ops
  <2>3. AttachInStep'
    BY <2>1 DEF AttachInStep, ReapBegin, Begin
  <2>4. StacksHeld'
    BY <2>1 DEF IInv, Supporting, StacksHeld, ReapBegin, Begin, Running, procs
  <2> QED BY <1>2, <1>3, <2>2, <2>3, <2>4 DEF IInv, Supporting
<1> QED BY <1>4, <1>5, <1>6, <1>7

\* A frame of a kernel stack goes back to the list.
LEMMA ReapFramePreserves ==
  ASSUME IInv, ReapFrame
  PROVE  IInv'
<1>1. /\ op = "reap" /\ idx \in 0 .. 1 /\ child \in Procs /\ idx' = idx + 1
      /\ Give(Stk(child, idx + 1))
      /\ UNCHANGED <<procs, segs, op, caller, child, todo, seg, short, fault>>
  BY DEF ReapFrame, Running, IInv, TypeOK
<1> DEFINE a == Stk(child, idx + 1)
<1>2. a \in Places /\ a \notin PagePlaces \cup ShmPlaces
  BY <1>1, PlaceFacts, PlaceKinds
<1>3. at[a] # None
  BY <1>1 DEF IInv, Supporting, StacksHeld
<1>4. Typed /\ Sound
  BY DEF IInv, TypeOK, Typed, Sound
<1>5. \A b \in Places \ {a} : at[b] # at[a]
  BY <1>2, <1>3, <1>4 DEF Sound, FrameExclusive, InUse
<1>6. /\ Typed' /\ Sound' /\ at'[a] = None
      /\ \A b \in Places \ {a} : at'[b] = at[b]
  BY <1>1, <1>2, <1>3, <1>4, <1>5, GiveSound
<1>7. \A d \in ShmPlaces : at'[d] = at[d]
  BY <1>2, <1>6, PlaceFacts
<1>8. \A q \in Procs, j \in 1 .. 2 : q # child \/ j # idx + 1 => at'[Stk(q, j)] = at[Stk(q, j)]
  BY <1>6, PlaceFacts, PlaceKinds
<1>9. SegmentsWhole' /\ UnusedEmpty' /\ SegmentInProgress'
  BY <1>1, <1>7, SegmentsQuiet
<1>10. TypeOK'
  BY <1>1, <1>6 DEF IInv, TypeOK, Typed, procs, segs
<1>11. AttachInStep'
  BY <1>1 DEF AttachInStep
<1>12. StacksHeld'
  BY <1>1, <1>8 DEF IInv, Supporting, StacksHeld, procs
<1> QED BY <1>6, <1>9, <1>10, <1>11, <1>12 DEF IInv, Sound, Supporting

\* The thread is gone, and nobody points at its address space.
LEMMA ReapDonePreserves ==
  ASSUME IInv, ReapDone
  PROVE  IInv'
<1>1. /\ op = "reap" /\ op' = "idle" /\ child \in Procs
      /\ life' = [life EXCEPT ![child] = "gone"]
      /\ at' = [a \in Places |-> IF a \in SpacePlaces(child) THEN None ELSE at[a]]
      /\ UNCHANGED <<free, spaceOf, segs, fault, caller, child, todo, seg, idx, short>>
  BY DEF ReapDone, Running, Return, IInv, TypeOK
<1>2. Typed /\ Sound
  BY DEF IInv, TypeOK, Typed, Sound
<1>3. \A a \in Places : /\ at'[a] = at[a] \/ at'[a] = None
                        /\ a \notin SpacePlaces(child) => at'[a] = at[a]
  BY <1>1
<1>4. at' \in [Places -> Frames \cup {None}]
  BY <1>1, <1>2 DEF Typed
<1>5. \A d \in ShmPlaces : d \notin SpacePlaces(child)
  BY PlaceKinds DEF ShmPlaces
<1>6. \A d \in ShmPlaces : at'[d] = at[d]
  BY <1>3, <1>5, PlaceFacts
<1>7. \A q \in Procs, i \in 1 .. 2 : at'[Stk(q, i)] = at[Stk(q, i)]
  BY <1>3, PlaceFacts, PlaceKinds
<1>8. Typed' /\ Sound'
  BY <1>1, <1>2, <1>3, <1>4, <1>6, DropSound
<1>9. SegmentsWhole' /\ UnusedEmpty' /\ SegmentInProgress'
  BY <1>1, <1>6, SegmentsQuiet
<1>10. TypeOK'
  BY <1>1, <1>8 DEF IInv, TypeOK, Typed, segs, Ops, Lives
<1>11. AttachInStep'
  BY <1>1 DEF AttachInStep
<1>12. StacksHeld'
  <2> SUFFICES ASSUME NEW p \in Procs, life'[p] \in {"alive", "zombie"}, NEW i \in 1 .. 2
               PROVE  at'[Stk(p, i)] # None
    BY <1>1 DEF StacksHeld
  <2>1. p # child /\ life'[p] = life[p]
    BY <1>1 DEF IInv, TypeOK
  <2> QED BY <2>1, <1>7 DEF IInv, Supporting, StacksHeld
<1> QED BY <1>8, <1>9, <1>10, <1>11, <1>12 DEF IInv, Sound, Supporting

-----------------------------------------------------------------------------
(* The theorems.                                                           *)

\* The state in which system calls begin.
LEMMA InitEstablishes == Init => IInv
<1> SUFFICES ASSUME Init PROVE IInv
  OBVIOUS
<1>1. /\ at = BootLayout /\ free \in BootPools /\ op = "idle"
      /\ life = [p \in Procs |-> IF p = 1 THEN "alive" ELSE "unborn"]
      /\ segKey = [g \in Segs |-> NoKey]
  BY DEF Init
<1>2. /\ free \in Seq(Frames) /\ Distinct(free)
      /\ \A i \in DOMAIN free, a \in Places : at[a] # free[i]
      /\ at \in [Places -> Frames \cup {None}]
      /\ \A a, b \in Places : at[a] = at[b] /\ at[a] # None => a = b
      /\ \A a \in ShmPlaces : at[a] = None
      /\ \A i \in 1 .. 2 : at[Stk(1, i)] # None
  BY <1>1, BootAssumption
<1>3. TypeOK
  <2>1. free \in Seq(Frames) /\ at \in [Places -> Frames \cup {None}] /\ MaxLen \in Nat
    BY <1>2, NumbersAssumption
  <2>2. /\ life \in [Procs -> Lives] /\ spaceOf \in [Procs -> {Boot} \cup Procs]
        /\ segKey \in [Segs -> Keys \cup {NoKey}] /\ segLen \in [Segs -> 0 .. MaxLen]
    BY <2>1 DEF Init, Lives
  <2> QED BY <2>1, <2>2 DEF Init, TypeOK, Ops
<1>4. FreeListSound /\ FrameExclusive
  BY <1>2 DEF FreeListSound, FrameExclusive, InUse
<1>5. SegmentsWhole
  BY <1>1 DEF SegmentsWhole
<1>6. UnusedEmpty
  BY <1>2, PlaceFacts DEF UnusedEmpty
<1>7. SegmentInProgress /\ AttachInStep /\ StacksHeld
  BY <1>1, <1>2 DEF SegmentInProgress, AttachInStep, StacksHeld
<1> QED BY <1>3, <1>4, <1>5, <1>6, <1>7 DEF IInv, Supporting

\* Every step, and a step that changes nothing, preserves the invariant.
LEMMA NextPreserves == IInv /\ [Next]_vars => IInv'
<1> SUFFICES ASSUME IInv, [Next]_vars PROVE IInv'
  OBVIOUS
<1>1. CASE Fork
  BY <1>1, BeginPreserves, ForkStackPreserves, ForkDonePreserves DEF Fork
<1>2. CASE Exec
  BY <1>2, BeginPreserves, BadHeaderPreserves, ExecDonePreserves DEF Exec
<1>3. CASE Build
  BY <1>3, LowTablePreserves, PageFramePreserves, TablePreserves, MapPagePreserves DEF Build
<1>4. CASE SharedMemory
  BY <1>4, ShmGetPreserves, BorderPreserves, ShmFramePreserves, ShmUndoPreserves,
    ShmEndPreserves DEF SharedMemory
<1>5. CASE End
  BY <1>5, BorderPreserves, ReapFramePreserves, ReapDonePreserves DEF End
<1>6. CASE UNCHANGED vars
  <2>1. UNCHANGED <<free, at, life, spaceOf, segKey, segLen, op, caller, child, todo, seg, idx,
                    short, fault>>
    BY <1>6 DEF vars, procs, segs, job
  <2>2. TypeOK' /\ FreeListSound' /\ FrameExclusive' /\ SegmentsWhole'
    BY <2>1 DEF IInv, TypeOK, FreeListSound, FrameExclusive, InUse, SegmentsWhole
  <2>3. Supporting'
    BY <2>1 DEF IInv, Supporting, UnusedEmpty, SegmentInProgress, AttachInStep, StacksHeld
  <2> QED BY <2>2, <2>3 DEF IInv
<1> QED BY <1>1, <1>2, <1>3, <1>4, <1>5, <1>6 DEF Next

\* The inductive invariant holds in every behaviour, for any frames, processes,
\* pages, tables on the way to them, segments, keys and boot layout.
THEOREM Invariance == Spec => []IInv
BY InitEstablishes, NextPreserves, PTL DEF Spec

\* The variables keep their types: no system call leaves a null frame on the
\* free list or a pointer to something that is not a frame of the pool.
THEOREM TypeCorrect == Spec => []TypeOK
<1>1. IInv => TypeOK
  BY DEF IInv
<1> QED BY <1>1, Invariance, PTL

\* No frame is on the free list twice, or while it is in use: what
\* pmm_alloc_frame() hands out is nobody's, whatever sequence of fork, execve,
\* shm_get, shm_at and exit came before, completed or failed.
THEOREM FreeListCorrect == Spec => []FreeListSound
<1>1. IInv => FreeListSound
  BY DEF IInv
<1> QED BY <1>1, Invariance, PTL

\* Two places share a frame only by shm_at: page tables, kernel stacks and
\* private pages belong to one space each.
THEOREM FramesExclusive == Spec => []FrameExclusive
<1>1. IInv => FrameExclusive
  BY DEF IInv
<1> QED BY <1>1, Invariance, PTL

\* Every frame has one use at a time, in every reachable state of any machine,
\* and a segment that is in the table and not being built has all its frames: no
\* frame is handed out twice, whatever calls failed half-way before.
THEOREM MemoryCorrect == Spec => []MemorySound
<1>1. IInv => MemorySound
  BY DEF IInv, MemorySound, FramesSound
<1> QED BY <1>1, Invariance, PTL

-----------------------------------------------------------------------------
(* What a step does to the spaces that fork and execve build.              *)

\* Two spaces have no place in common.
LEMMA SpacesApart ==
  ASSUME NEW s, NEW t, s # t
  PROVE  SpacePlaces(s) \cap SpacePlaces(t) = {}
BY DEF SpacePlaces, Root, Low, Tab, Page

\* The places that belong to no space.
LEMMA OutsideSpaces ==
  ASSUME NEW s
  PROVE  /\ Tmp \notin SpacePlaces(s)
         /\ \A d \in ShmPlaces : d \notin SpacePlaces(s)
         /\ \A v \in Pages : Page(s, v) \in SpacePlaces(s)
BY DEF SpacePlaces, Root, Low, Tab, Page, Tmp, ShmPlaces, Shm

\* New is the space of no process, and no process is in it.
LEMMA NewApart == New \notin Procs /\ Boot \notin Procs /\ New # Boot
BY NumbersAssumption DEF New, Boot, Procs

\* A step that fills places of one space s only, where s is being built or has
\* its process, leaves what is not built empty.
LEMMA VacancyKept ==
  ASSUME TypeOK, Copying, NEW s,
         s = New => op = "exec",
         s \in Procs => life[s] # "unborn" \/ (op = "fork" /\ s = child),
         \A t \in Spaces \ {s} : \A a \in SpacePlaces(t) : at'[a] \in {at[a], None},
         \A p \in Procs, i \in 1 .. 2 :
           at'[Stk(p, i)] \in {at[Stk(p, i)], None} \/ (op = "fork" /\ p = child),
         UNCHANGED spaceOf,
         \/ UNCHANGED <<life, op, caller, child>>
         \/ /\ \A p \in Procs : life'[p] = "unborn" => life[p] = "unborn"
            /\ op \notin {"fork", "exec"} /\ op' \notin {"fork", "exec", "shmat"}
  PROVE  NewVacant' /\ UnbornVacant' /\ OwnSpaces' /\ CallerAlive'
<1>1. NewVacant'
  <2>1. SUFFICES ASSUME op' # "exec" PROVE \A a \in SpacePlaces(New) : at'[a] = None
    BY DEF NewVacant, Vacant
  <2>2. op # "exec" /\ s # New /\ New \in Spaces
    BY <2>1 DEF Spaces
  <2>3. \A a \in SpacePlaces(New) : at[a] = None
    BY <2>2 DEF Copying, NewVacant, Vacant
  <2> QED BY <2>2, <2>3
<1>2. UnbornVacant'
  <2>1. SUFFICES ASSUME NEW p \in Procs, life'[p] = "unborn", ~(op' = "fork" /\ p = child')
                 PROVE  /\ \A a \in SpacePlaces(p) : at'[a] = None
                        /\ \A i \in 1 .. 2 : at'[Stk(p, i)] = None
    BY DEF UnbornVacant, Vacant
  <2>2. life[p] = "unborn" /\ ~(op = "fork" /\ p = child) /\ p \in Spaces
    BY <2>1 DEF Spaces
  <2>3. /\ \A a \in SpacePlaces(p) : at[a] = None
        /\ \A i \in 1 .. 2 : at[Stk(p, i)] = None
    BY <2>2 DEF Copying, UnbornVacant, Vacant
  <2>4. p # s
    BY <2>2
  <2>5. \A a \in SpacePlaces(p) : at'[a] \in {at[a], None}
    BY <2>2, <2>4
  <2>6. \A i \in 1 .. 2 : at'[Stk(p, i)] \in {at[Stk(p, i)], None}
    BY <2>2
  <2> QED BY <2>3, <2>5, <2>6
<1>3. OwnSpaces'
  BY DEF Copying, OwnSpaces
<1>4. CallerAlive'
  BY DEF Copying, CallerAlive
<1> QED BY <1>1, <1>2, <1>3, <1>4

\* A step of fork or execve that maps no page: it goes on, or skips a page and
\* says so in short.
LEMMA LoopKept ==
  ASSUME Copying, op \in {"fork", "exec"},
         UNCHANGED <<spaceOf, op, caller, child>>, todo' \subseteq todo,
         short' = TRUE \/ UNCHANGED <<short, todo>>,
         \A a \in PagePlaces : at'[a] = at[a],
         op = "fork" => \A i \in 1 .. 2 :
           i > idx' => i > idx /\ at'[Stk(child, i)] = at[Stk(child, i)],
         TypeOK
  PROVE  Unfilled' /\ CopyInStep'
<1>1. Target' = Target /\ Target \in Spaces
  BY TargetSpace DEF Target
<1>2. \A v \in Pages, s \in Spaces : at'[Page(s, v)] = at[Page(s, v)]
  BY PlaceFacts
<1>3. Unfilled'
  BY <1>1, <1>2 DEF Copying, Unfilled, TypeOK
<1>4. ASSUME op = "fork" PROVE CopyInStep'
  <2>1. child \in Spaces /\ caller \in Procs /\ spaceOf[caller] \in Spaces
    BY <1>4 DEF TypeOK, Copying, CallerAlive, Spaces
  <2>2. \A s \in Spaces : Mapped(s)' = {v \in Pages : at'[Page(s, v)] # None}
    BY DEF Mapped
  <2>3. /\ {v \in Pages : at'[Page(child, v)] # None} = Mapped(child)
        /\ {v \in Pages : at'[Page(spaceOf[caller], v)] # None} = Mapped(spaceOf[caller])
    BY <1>2, <2>1 DEF Mapped
  <2>4. /\ caller # child /\ todo \subseteq Mapped(spaceOf[caller])
        /\ \A i \in 1 .. 2 : i > idx => at[Stk(child, i)] = None
        /\ ~short => Mapped(child) = Mapped(spaceOf[caller]) \ todo
    BY <1>4 DEF Copying, CopyInStep
  <2> DEFINE A == {v \in Pages : at'[Page(child', v)] # None}
             B == {v \in Pages : at'[Page(spaceOf'[caller'], v)] # None}
  <2>5. A = Mapped(child) /\ B = Mapped(spaceOf[caller])
    BY <2>3
  <2>6. /\ caller' # child' /\ todo' \subseteq B
        /\ \A i \in 1 .. 2 : i > idx' => at'[Stk(child', i)] = None
        /\ ~short' => A = B \ todo'
    BY <1>4, <2>4, <2>5
  <2> QED BY <2>6 DEF CopyInStep, Mapped
<1>5. CASE op # "fork"
  BY <1>3, <1>5 DEF CopyInStep
<1> QED BY <1>3, <1>4, <1>5

\* Outside fork and execve the last two parts say nothing.
LEMMA LoopOver ==
  ASSUME op' \notin {"fork", "exec"}
  PROVE  Unfilled' /\ CopyInStep'
BY DEF Unfilled, CopyInStep

-----------------------------------------------------------------------------
(* The steps, for Copying.                                                 *)

\* A frame taken into a place leaves the others alone.
LEMMA TakeAlone ==
  ASSUME TypeOK, NEW a \in Places, Take(a)
  PROVE  \A b \in Places \ {a} : at'[b] = at[b]
BY DEF Take, TypeOK

\* A frame given back likewise.
LEMMA GiveAlone ==
  ASSUME TypeOK, NEW a \in Places, Give(a)
  PROVE  at'[a] = None /\ \A b \in Places \ {a} : at'[b] = at[b]
BY DEF Give, TypeOK

\* The space a loop of fork or execve builds is not that of anyone else.
LEMMA TargetBuilt ==
  ASSUME TypeOK, Copying, op \in {"fork", "exec", "shmat"}
  PROVE  /\ Target = New => op = "exec"
         /\ Target \in Procs => life[Target] # "unborn" \/ (op = "fork" /\ Target = child)
<1>1. CASE op = "fork"
  BY <1>1, NewApart DEF Target, TypeOK
<1>2. CASE op = "exec"
  BY <1>2, NewApart DEF Target
<1>3. CASE op = "shmat"
  <2>1. caller \in Procs /\ life[caller] = "alive" /\ spaceOf[caller] \in {Boot, caller}
    BY <1>3 DEF Copying, CallerAlive, OwnSpaces
  <2>2. Target = spaceOf[caller]
    BY <1>3 DEF Target
  <2> QED BY <2>1, <2>2, NewApart
<1> QED BY <1>1, <1>2, <1>3

\* A step of a loop that changes places of its target and Tmp only.
LEMMA TargetOnly ==
  ASSUME TypeOK, Copying, op \in {"fork", "exec", "shmat"},
         NEW a \in SpacePlaces(Target) \cup {Tmp},
         \A b \in Places \ {a, Tmp} : at'[b] = at[b],
         UNCHANGED <<procs, op, caller, child>>
  PROVE  NewVacant' /\ UnbornVacant' /\ OwnSpaces' /\ CallerAlive'
<1>1. /\ Target = New => op = "exec"
      /\ Target \in Procs => life[Target] # "unborn" \/ (op = "fork" /\ Target = child)
  BY TargetBuilt
<1> DEFINE s == Target
<1>2. \A t \in Spaces \ {s} : \A b \in SpacePlaces(t) : at'[b] \in {at[b], None}
  <2> SUFFICES ASSUME NEW t \in Spaces \ {s}, NEW b \in SpacePlaces(t)
               PROVE  at'[b] = at[b]
    OBVIOUS
  <2>1. b \in Places /\ b # Tmp
    BY PlaceFacts, OutsideSpaces
  <2>2. b \notin SpacePlaces(s)
    BY SpacesApart
  <2> QED BY <2>1, <2>2
<1>3. \A p \in Procs, i \in 1 .. 2 : at'[Stk(p, i)] \in {at[Stk(p, i)], None}
  BY PlaceFacts, PlaceKinds
<1> HIDE DEF s
<1> QED BY <1>1, <1>2, <1>3, VacancyKept DEF procs, s

\* fork begins: the child has nothing, all of the parent's pages wait.
LEMMA ForkBeginCopies ==
  ASSUME TypeOK, Copying, NEW p \in Procs, NEW c \in Procs, ForkBegin(p, c)
  PROVE  Copying'
<1>1. /\ op = "idle" /\ life[p] = "alive" /\ life[c] = "unborn" /\ p # c
      /\ UNCHANGED <<life, spaceOf>> /\ Take(Root(c))
      /\ op' = "fork" /\ caller' = p /\ child' = c /\ todo' = Mapped(spaceOf[p])
      /\ idx' = 0
  BY DEF ForkBegin, Running, Begin, procs, Cloned
<1>2. c \in Spaces /\ New \in Spaces /\ c # New /\ spaceOf[p] \in Spaces
  BY NewApart DEF Spaces, TypeOK
<1>3. Root(c) \in Places /\ Root(c) \in SpacePlaces(c)
  BY <1>2, PlaceFacts DEF SpacePlaces
<1>4. \A b \in Places \ {Root(c)} : at'[b] = at[b]
  BY <1>1, <1>3, TakeAlone
<1>5. \A t \in Spaces \ {c} : \A b \in SpacePlaces(t) : at'[b] = at[b]
  <2> SUFFICES ASSUME NEW t \in Spaces \ {c}, NEW b \in SpacePlaces(t) PROVE at'[b] = at[b]
    OBVIOUS
  <2>1. b \in Places
    BY PlaceFacts
  <2>2. b # Root(c)
    BY <1>3, SpacesApart
  <2> QED BY <1>4, <2>1, <2>2
<1>6. \A q \in Procs, i \in 1 .. 2 : at'[Stk(q, i)] = at[Stk(q, i)]
  BY <1>4, PlaceFacts, PlaceKinds
<1>7. \A t \in Spaces, v \in Pages : at'[Page(t, v)] = at[Page(t, v)]
  BY <1>4, PlaceFacts, PlaceKinds
<1>8. /\ \A b \in SpacePlaces(c) : at[b] = None
      /\ \A i \in 1 .. 2 : at[Stk(c, i)] = None
  BY <1>1 DEF Copying, UnbornVacant, Vacant
<1>9. NewVacant'
  BY <1>1, <1>2, <1>5 DEF Copying, NewVacant, Vacant
<1>10. UnbornVacant'
  <2>1. SUFFICES ASSUME NEW q \in Procs, life[q] = "unborn", q # c
                 PROVE  /\ \A b \in SpacePlaces(q) : at'[b] = None
                        /\ \A i \in 1 .. 2 : at'[Stk(q, i)] = None
    BY <1>1 DEF UnbornVacant, Vacant
  <2>2. /\ \A b \in SpacePlaces(q) : at[b] = None
        /\ \A i \in 1 .. 2 : at[Stk(q, i)] = None
    BY <1>1, <2>1 DEF Copying, UnbornVacant, Vacant
  <2>3. q \in Spaces
    BY DEF Spaces
  <2> QED BY <1>5, <1>6, <2>1, <2>2, <2>3
<1>11. OwnSpaces' /\ CallerAlive'
  BY <1>1 DEF Copying, OwnSpaces, CallerAlive
<1>12. \A v \in Pages : at'[Page(c, v)] = None
  BY <1>2, <1>7, <1>8, OutsideSpaces
<1>13. Unfilled'
  BY <1>1, <1>12 DEF Unfilled, Target, Mapped
<1>14. CopyInStep'
  <2> DEFINE A == {v \in Pages : at'[Page(child', v)] # None}
             B == {v \in Pages : at'[Page(spaceOf'[caller'], v)] # None}
  <2>1. A = {} /\ B = todo'
    BY <1>1, <1>2, <1>7, <1>12 DEF Mapped
  <2>2. /\ caller' # child' /\ todo' \subseteq B
        /\ \A i \in 1 .. 2 : at'[Stk(child', i)] = None
        /\ A = B \ todo'
    BY <1>1, <1>6, <1>8, <2>1
  <2> QED BY <2>2 DEF CopyInStep, Mapped
<1> QED BY <1>9, <1>10, <1>11, <1>13, <1>14 DEF Copying

\* execve begins: elf_load has nothing yet.
LEMMA ExecBeginCopies ==
  ASSUME TypeOK, Copying, NEW p \in Procs, ExecBegin(p)
  PROVE  Copying'
<1>1. /\ op = "idle" /\ life[p] = "alive"
      /\ UNCHANGED <<life, spaceOf>> /\ Take(Root(New))
      /\ op' = "exec" /\ caller' = p /\ todo' = Image
  BY DEF ExecBegin, Running, Begin, procs
<1>2. New \in Spaces /\ Root(New) \in Places
  BY PlaceFacts DEF Spaces
<1>3. \A b \in Places \ {Root(New)} : at'[b] = at[b]
  BY <1>1, <1>2, TakeAlone
<1>4. \A q \in Procs, i \in 1 .. 2 : at'[Stk(q, i)] = at[Stk(q, i)]
  BY <1>3, PlaceFacts, PlaceKinds
<1>5. \A v \in Pages : at'[Page(New, v)] = at[Page(New, v)]
  BY <1>2, <1>3, PlaceFacts, PlaceKinds
<1>6. UnbornVacant'
  <2>1. SUFFICES ASSUME NEW q \in Procs, life[q] = "unborn"
                 PROVE  /\ \A b \in SpacePlaces(q) : at'[b] = None
                        /\ \A i \in 1 .. 2 : at'[Stk(q, i)] = None
    BY <1>1 DEF UnbornVacant, Vacant
  <2>2. /\ \A b \in SpacePlaces(q) : at[b] = None
        /\ \A i \in 1 .. 2 : at[Stk(q, i)] = None
    BY <1>1, <2>1 DEF Copying, UnbornVacant, Vacant
  <2>3. q \in Spaces /\ q # New
    BY NewApart DEF Spaces
  <2>4. Root(New) \in SpacePlaces(New) /\ SpacePlaces(q) \subseteq Places
    BY <2>3, PlaceFacts DEF SpacePlaces
  <2>5. Root(New) \notin SpacePlaces(q)
    BY <2>3, <2>4, SpacesApart
  <2> QED BY <1>3, <1>4, <2>2, <2>4, <2>5
<1>7. NewVacant' /\ OwnSpaces' /\ CallerAlive' /\ CopyInStep'
  BY <1>1 DEF Copying, NewVacant, OwnSpaces, CallerAlive, CopyInStep
<1>8. \A v \in Pages : at[Page(New, v)] = None
  BY <1>1, OutsideSpaces DEF Copying, NewVacant, Vacant
<1>9. Unfilled'
  BY <1>1, <1>5, <1>8, NumbersAssumption DEF Unfilled, Target
<1> QED BY <1>6, <1>7, <1>9 DEF Copying

\* The steps of a loop that map no page.
LEMMA BuildCopies ==
  ASSUME TypeOK, Copying, LowTable \/ PageFrame \/ BadHeader
  PROVE  Copying'
<1>1. /\ op \in {"fork", "exec"} /\ UNCHANGED <<procs, op, caller, child, idx>>
      /\ todo' \subseteq todo /\ (short' = TRUE \/ UNCHANGED <<short, todo>>)
  BY DEF LowTable, PageFrame, BadHeader, Building, Skip, job
<1>2. Low(Target) \in SpacePlaces(Target) /\ Low(Target) \in Places /\ Tmp \in Places
  BY <1>1, TargetSpace, PlaceFacts DEF SpacePlaces
<1>3. \/ UNCHANGED at
      \/ Take(Low(Target))
      \/ Take(Tmp)
  BY DEF LowTable, PageFrame, BadHeader, Skip
<1>4. PICK a \in SpacePlaces(Target) \cup {Tmp} :
        /\ a \in Places /\ a \notin PagePlaces
        /\ \A q \in Procs, i \in 1 .. 2 : a # Stk(q, i)
        /\ \A b \in Places \ {a} : at'[b] = at[b]
  <2>1. Tmp \notin PagePlaces /\ Low(Target) \notin PagePlaces
    BY PlaceKinds
  <2>2. \A q \in Procs, i \in 1 .. 2 : Tmp # Stk(q, i) /\ Low(Target) # Stk(q, i)
    BY PlaceKinds
  <2>3. CASE UNCHANGED at
    BY <1>2, <2>1, <2>2, <2>3
  <2>4. CASE Take(Low(Target))
    BY <1>2, <2>1, <2>2, <2>4, TakeAlone
  <2>5. CASE Take(Tmp)
    BY <1>2, <2>1, <2>2, <2>5, TakeAlone
  <2> QED BY <1>3, <2>3, <2>4, <2>5
<1>5. NewVacant' /\ UnbornVacant' /\ OwnSpaces' /\ CallerAlive'
  BY <1>1, <1>4, TargetOnly
<1>6. Unfilled' /\ CopyInStep'
  <2>1. \A b \in PagePlaces : at'[b] = at[b]
    BY <1>4, PlaceFacts
  <2>2. ASSUME op = "fork", NEW i \in 1 .. 2
        PROVE  i > idx' => i > idx /\ at'[Stk(child, i)] = at[Stk(child, i)]
    BY <1>1, <1>4, <2>2, PlaceFacts DEF TypeOK
  <2> QED BY <1>1, <2>1, <2>2, LoopKept DEF procs
<1> QED BY <1>5, <1>6 DEF Copying

\* A table on the way to a page.
LEMMA TableCopies ==
  ASSUME TypeOK, Copying, Table
  PROVE  Copying'
<1>1. op \in {"fork", "exec", "shmat"} /\ UNCHANGED procs
  BY DEF Table, Pending, Building, Running
<1>2. PICK v \in Pages : \E i \in DOMAIN Walk[v] :
        \/ /\ Take(Tab(Target, Walk[v][i]))
           /\ UNCHANGED <<job, fault>>
        \/ /\ free = << >> /\ op = "fork"
           /\ at' = [at EXCEPT ![Tmp] = None]
           /\ Skip(v)
           /\ UNCHANGED <<free, fault>>
        \/ /\ free = << >> /\ op = "exec"
           /\ Give(Tmp)
           /\ Destroy
           /\ UNCHANGED job
        \/ /\ free = << >> /\ op = "shmat"
           /\ Return
           /\ UNCHANGED <<free, at, fault>>
  BY DEF Table
<1>3. \A i \in DOMAIN Walk[v] : Walk[v][i] \in Slots
  BY NumbersAssumption
<1>4. CASE op = "shmat" /\ Return /\ UNCHANGED at
  <2>1. op' \notin {"fork", "exec", "shmat"} /\ UNCHANGED <<life, spaceOf>>
    BY <1>1, <1>4 DEF Return, procs
  <2>2. NewVacant' /\ UnbornVacant' /\ OwnSpaces' /\ CallerAlive'
    BY <1>1, <1>4, <2>1, TargetBuilt, VacancyKept
  <2> QED BY <2>1, <2>2, LoopOver DEF Copying
<1>5. CASE /\ UNCHANGED <<op, caller, child, idx>> /\ todo' \subseteq todo
           /\ short' = TRUE \/ UNCHANGED <<short, todo>>
           /\ \E a \in SpacePlaces(Target) \cup {Tmp} :
                /\ a \in Places /\ a \notin PagePlaces
                /\ \A q \in Procs, i \in 1 .. 2 : a # Stk(q, i)
                /\ \A b \in Places \ {a} : at'[b] = at[b]
  <2>1. PICK a \in SpacePlaces(Target) \cup {Tmp} :
          /\ a \in Places /\ a \notin PagePlaces
          /\ \A q \in Procs, i \in 1 .. 2 : a # Stk(q, i)
          /\ \A b \in Places \ {a} : at'[b] = at[b]
    BY <1>5
  <2>2. NewVacant' /\ UnbornVacant' /\ OwnSpaces' /\ CallerAlive'
    BY <1>1, <1>5, <2>1, TargetOnly
  <2>3. \A b \in PagePlaces : at'[b] = at[b]
    BY <2>1, PlaceFacts
  <2>4. ASSUME op = "fork", NEW i \in 1 .. 2
        PROVE  i > idx' => i > idx /\ at'[Stk(child, i)] = at[Stk(child, i)]
    BY <1>5, <2>1, <2>4, PlaceFacts DEF TypeOK
  <2>5. Unfilled' /\ CopyInStep'
    <3>1. CASE op = "shmat"
      BY <1>5, <3>1, LoopOver
    <3>2. CASE op \in {"fork", "exec"}
      BY <1>5, <2>3, <2>4, <3>2, <1>1, LoopKept DEF procs
    <3> QED BY <1>1, <3>1, <3>2
  <2> QED BY <2>2, <2>5 DEF Copying
<1>6. PICK i \in DOMAIN Walk[v] :
        \/ Take(Tab(Target, Walk[v][i])) /\ UNCHANGED job
        \/ at' = [at EXCEPT ![Tmp] = None] /\ Skip(v)
        \/ Give(Tmp) /\ UNCHANGED job
        \/ op = "shmat" /\ Return /\ UNCHANGED at
  BY <1>2
<1>7. /\ Tmp \in Places /\ Tmp \notin PagePlaces
      /\ \A q \in Procs, j \in 1 .. 2 : Tmp # Stk(q, j)
  BY PlaceFacts, PlaceKinds
<1>8. CASE Take(Tab(Target, Walk[v][i])) /\ UNCHANGED job
  <2> DEFINE a == Tab(Target, Walk[v][i])
  <2>1. Target \in Spaces /\ Walk[v][i] \in Slots
    BY <1>1, <1>3, <1>6, TargetSpace
  <2>2. /\ a \in SpacePlaces(Target) /\ a \in Places /\ a \notin PagePlaces
        /\ \A q \in Procs, j \in 1 .. 2 : a # Stk(q, j)
    BY <2>1, PlaceFacts, PlaceKinds DEF SpacePlaces
  <2>3. \A b \in Places \ {a} : at'[b] = at[b]
    BY <1>8, <2>2, TakeAlone
  <2> QED BY <1>5, <1>8, <2>2, <2>3 DEF job
<1>9. CASE at' = [at EXCEPT ![Tmp] = None] /\ Skip(v)
  <2>1. \A b \in Places \ {Tmp} : at'[b] = at[b]
    BY <1>9 DEF TypeOK
  <2> QED BY <1>5, <1>7, <1>9, <2>1 DEF Skip
<1>10. CASE Give(Tmp) /\ UNCHANGED job
  <2>1. \A b \in Places \ {Tmp} : at'[b] = at[b]
    BY <1>7, <1>10, GiveAlone
  <2> QED BY <1>5, <1>7, <1>10, <2>1 DEF job
<1> QED BY <1>4, <1>6, <1>8, <1>9, <1>10

\* A page is mapped.
LEMMA MapPageCopies ==
  ASSUME TypeOK, Copying, MapPage
  PROVE  Copying'
<1>1. /\ op \in {"fork", "exec", "shmat"}
      /\ UNCHANGED <<procs, op, caller, child, short>>
      /\ op # "shmat" => idx' = idx /\ at[Tmp] # None
  BY DEF MapPage, Pending, Building, Running
<1>2. PICK v \in Pages :
        /\ IsNext(v)
        /\ at' = [at EXCEPT ![Page(Target, v)] = at[Source], ![Tmp] = None]
        /\ todo' = todo \ {v}
  BY DEF MapPage
<1> DEFINE a == Page(Target, v)
<1>3. a \in Places /\ a \in PagePlaces /\ a # Tmp /\ a \in SpacePlaces(Target)
  BY <1>1, TargetSpace, PlaceFacts, PlaceKinds DEF SpacePlaces
<1>4. /\ \A b \in Places \ {a, Tmp} : at'[b] = at[b]
      /\ at'[a] = at[Source]
  BY <1>2, <1>3 DEF TypeOK
<1>5. NewVacant' /\ UnbornVacant' /\ OwnSpaces' /\ CallerAlive'
  BY <1>1, <1>3, <1>4, TargetOnly
<1>6. \A s \in Spaces, w \in Pages : Page(s, w) # a => at'[Page(s, w)] = at[Page(s, w)]
  BY <1>4, PlaceFacts, PlaceKinds
<1>7. \A s, w : Page(s, w) = a => s = Target /\ w = v
  BY DEF Page
<1>8. v \in todo /\ todo \subseteq Pages /\ Target \in Spaces
  BY <1>1, <1>2, TargetSpace DEF IsNext, TypeOK
<1>9. ASSUME op \in {"fork", "exec"} PROVE Unfilled'
  <2>1. Target' = Target
    BY <1>1, <1>9 DEF Target
  <2>2. \A w \in todo : at[Page(Target, w)] = None
    BY <1>9 DEF Copying, Unfilled
  <2>3. \A w \in todo \ {v} : at'[Page(Target, w)] = None
    BY <1>6, <1>7, <1>8, <2>2
  <2> QED BY <1>2, <2>1, <2>3 DEF Unfilled
<1>10. ASSUME op = "fork" PROVE CopyInStep'
  <2>1. /\ child \in Procs /\ caller \in Procs /\ spaceOf[caller] \in {Boot, caller}
        /\ Target = child /\ Source = Tmp /\ at[Tmp] # None
    BY <1>1, <1>10 DEF TypeOK, Copying, CallerAlive, OwnSpaces, Target, Source
  <2>2. /\ caller # child /\ todo \subseteq Mapped(spaceOf[caller])
        /\ \A i \in 1 .. 2 : i > idx => at[Stk(child, i)] = None
        /\ ~short => Mapped(child) = Mapped(spaceOf[caller]) \ todo
    BY <1>10 DEF Copying, CopyInStep
  <2>3. spaceOf[caller] # child /\ child \in Spaces /\ spaceOf[caller] \in Spaces
    BY <2>1, <2>2, NewApart DEF Spaces
  <2> DEFINE A == {w \in Pages : at'[Page(child', w)] # None}
             B == {w \in Pages : at'[Page(spaceOf'[caller'], w)] # None}
  <2>4. UNCHANGED <<child, caller, spaceOf>>
    BY <1>1 DEF procs
  <2>5. B = Mapped(spaceOf[caller])
    BY <1>6, <1>7, <2>1, <2>3, <2>4 DEF Mapped
  <2>6. A = Mapped(child) \cup {v}
    <3>1. at'[Page(child, v)] # None
      BY <1>4, <2>1
    <3>2. \A w \in Pages \ {v} : at'[Page(child, w)] = at[Page(child, w)]
      BY <1>6, <1>7, <2>3
    <3> QED BY <2>4, <3>1, <3>2 DEF Mapped
  <2>7. \A i \in 1 .. 2 : at'[Stk(child, i)] = at[Stk(child, i)]
    BY <1>3, <1>4, <2>1, PlaceFacts, PlaceKinds
  <2>8. /\ caller' # child' /\ todo' \subseteq B
        /\ \A i \in 1 .. 2 : i > idx' => at'[Stk(child', i)] = None
        /\ ~short' => A = B \ todo'
    BY <1>1, <1>2, <1>8, <1>10, <2>2, <2>4, <2>5, <2>6, <2>7
  <2> QED BY <2>8 DEF CopyInStep, Mapped
<1>11. Unfilled' /\ CopyInStep'
  <2>1. op \notin {"fork", "exec"} => Unfilled'
    BY <1>1 DEF Unfilled
  <2>2. op # "fork" => CopyInStep'
    BY <1>1 DEF CopyInStep
  <2> QED BY <1>9, <1>10, <2>1, <2>2
<1> QED BY <1>5, <1>11 DEF Copying

\* The kernel stack of a child.
LEMMA ForkStackCopies ==
  ASSUME TypeOK, Copying, ForkStack
  PROVE  Copying'
<1>1. /\ op = "fork" /\ child \in Procs /\ idx \in 0 .. 1 /\ todo = {}
      /\ UNCHANGED <<procs, op, caller, child, todo, short>>
  BY DEF ForkStack, Building, TypeOK, job
<1>2. \/ UNCHANGED <<at, idx>>
      \/ Take(Stk(child, idx + 1)) /\ idx' = idx + 1
  BY DEF ForkStack, job
<1> DEFINE a == Stk(child, idx + 1)
<1>3. a \in Places /\ a \notin PagePlaces /\ \A s : a \notin SpacePlaces(s)
  BY <1>1, PlaceFacts, PlaceKinds
<1>4. \A b \in Places \ {a} : at'[b] = at[b]
  BY <1>2, <1>3, TakeAlone
<1>5. \A t \in Spaces : \A b \in SpacePlaces(t) : at'[b] = at[b]
  BY <1>3, <1>4, PlaceFacts
<1>6. \A q \in Procs, i \in 1 .. 2 : Stk(q, i) # a => at'[Stk(q, i)] = at[Stk(q, i)]
  BY <1>4, PlaceFacts
<1>7. \A q, i : Stk(q, i) = a => q = child /\ i = idx + 1
  BY PlaceKinds
<1>8. NewVacant' /\ UnbornVacant' /\ OwnSpaces' /\ CallerAlive'
  <2>1. \A q \in Procs, i \in 1 .. 2 :
          at'[Stk(q, i)] \in {at[Stk(q, i)], None} \/ (op = "fork" /\ q = child)
    BY <1>1, <1>6, <1>7
  <2>2. child # New
    BY <1>1, NewApart
  <2> QED BY <1>1, <1>5, <2>1, <2>2, VacancyKept DEF procs
<1>9. Unfilled' /\ CopyInStep'
  <2>1. \A b \in PagePlaces : at'[b] = at[b]
    BY <1>3, <1>4, PlaceFacts
  <2>2. ASSUME NEW i \in 1 .. 2
        PROVE  i > idx' => i > idx /\ at'[Stk(child, i)] = at[Stk(child, i)]
    BY <1>1, <1>2, <1>6, <1>7
  <2> QED BY <1>1, <2>1, <2>2, LoopKept DEF procs
<1> QED BY <1>8, <1>9 DEF Copying

\* fork and execve end.
LEMMA DoneCopies ==
  ASSUME TypeOK, Copying, ForkDone \/ ExecDone
  PROVE  Copying'
<1>1. CASE ForkDone
  <2>1. /\ op = "fork" /\ op' = "idle" /\ child \in Procs /\ UNCHANGED at
        /\ life' = [life EXCEPT ![child] = "alive"]
        /\ spaceOf' = [spaceOf EXCEPT ![child] = child]
    BY <1>1 DEF ForkDone, Building, Return, TypeOK
  <2>2. NewVacant'
    BY <2>1 DEF Copying, NewVacant, Vacant
  <2>3. \A q \in Procs : life'[q] = "unborn" => life[q] = "unborn" /\ q # child
    BY <2>1 DEF TypeOK
  <2>4. UnbornVacant'
    BY <2>1, <2>3 DEF Copying, UnbornVacant, Vacant
  <2>5. OwnSpaces' /\ CallerAlive'
    BY <2>1 DEF Copying, OwnSpaces, CallerAlive, TypeOK
  <2> QED BY <2>1, <2>2, <2>4, <2>5, LoopOver DEF Copying
<1>2. CASE ExecDone
  <2>1. /\ op = "exec" /\ op' = "idle" /\ caller \in Procs /\ life[caller] = "alive"
        /\ at' = [a \in Places |-> Relocate(caller, a)] /\ UNCHANGED life
        /\ spaceOf' = [spaceOf EXCEPT ![caller] = caller]
    BY <1>2 DEF ExecDone, Building, Return, TypeOK, Copying, CallerAlive
  <2>2. NewVacant'
    <3>1. New \in Spaces
      BY DEF Spaces
    <3>2. \A a \in SpacePlaces(New) : at'[a] = None
      BY <2>1, <3>1, PlaceFacts DEF Relocate
    <3> QED BY <3>2 DEF NewVacant, Vacant
  <2>3. UnbornVacant'
    <3>1. SUFFICES ASSUME NEW q \in Procs, life[q] = "unborn"
                   PROVE  /\ \A a \in SpacePlaces(q) : at'[a] = None
                          /\ \A i \in 1 .. 2 : at'[Stk(q, i)] = None
      BY <2>1 DEF UnbornVacant, Vacant
    <3>2. /\ \A a \in SpacePlaces(q) : at[a] = None
          /\ \A i \in 1 .. 2 : at[Stk(q, i)] = None
      BY <2>1, <3>1 DEF Copying, UnbornVacant, Vacant
    <3>3. q # caller /\ q \in Spaces
      BY <2>1, <3>1 DEF Spaces
    <3>4. \A a \in SpacePlaces(q) : a \in Places /\ a \notin SpacePlaces(caller)
      BY <3>3, PlaceFacts, SpacesApart
    <3>5. \A a \in SpacePlaces(q) : at'[a] \in {None, at[a]}
      BY <2>1, <3>4 DEF Relocate
    <3>6. \A i \in 1 .. 2 : at'[Stk(q, i)] \in {None, at[Stk(q, i)]}
      BY <2>1, PlaceFacts, PlaceKinds DEF Relocate
    <3> QED BY <3>2, <3>5, <3>6
  <2>4. OwnSpaces' /\ CallerAlive'
    BY <2>1 DEF Copying, OwnSpaces, CallerAlive, TypeOK
  <2> QED BY <2>1, <2>2, <2>3, <2>4, LoopOver DEF Copying
<1> QED BY <1>1, <1>2

\* A step that fills no place of a space and no kernel stack, and begins
\* neither fork, execve nor shm_at.
LEMMA ElsewhereCopies ==
  ASSUME TypeOK, Copying, op \notin {"fork", "exec"}, op' \notin {"fork", "exec", "shmat"},
         \A a \in Places \ ShmPlaces : at'[a] \in {at[a], None},
         UNCHANGED spaceOf,
         \A p \in Procs : life'[p] = "unborn" => life[p] = "unborn"
  PROVE  Copying'
<1>1. \A t \in Spaces : \A b \in SpacePlaces(t) : at'[b] \in {at[b], None}
  BY PlaceFacts, OutsideSpaces
<1>2. \A p \in Procs, i \in 1 .. 2 : at'[Stk(p, i)] \in {at[Stk(p, i)], None}
  BY PlaceFacts, PlaceKinds
<1>3. Boot # New /\ Boot \notin Procs
  BY NewApart
<1>4. NewVacant' /\ UnbornVacant' /\ OwnSpaces' /\ CallerAlive'
  BY <1>1, <1>2, <1>3, VacancyKept
<1> QED BY <1>4, LoopOver DEF Copying

\* shm_get, the end of shm_at, and the end of a process.
LEMMA OtherCopies ==
  ASSUME IInv, Copying,
         \/ \E p \in Procs, k \in Keys, n \in 1 .. MaxLen : ShmGet(p, k, n)
         \/ ShmFrame \/ ShmUndo \/ ShmFailed \/ ShmDone \/ ShmAtDone
         \/ \E p \in Procs : Exit(p) \/ ReapBegin(p)
         \/ ReapFrame \/ ReapDone
  PROVE  Copying'
<1>1. TypeOK
  BY DEF IInv
<1>2. CASE \/ \E p \in Procs, k \in Keys, n \in 1 .. MaxLen : ShmGet(p, k, n)
           \/ ShmFailed \/ ShmDone \/ ShmAtDone
           \/ \E p \in Procs : Exit(p) \/ ReapBegin(p)
  <2>1. /\ op \notin {"fork", "exec"} /\ op' \notin {"fork", "exec", "shmat"}
        /\ UNCHANGED <<at, spaceOf>>
        /\ UNCHANGED life \/ \E p \in Procs : life' = [life EXCEPT ![p] = "zombie"]
    BY <1>2 DEF ShmGet, ShmFailed, ShmDone, ShmAtDone, Exit, ReapBegin, Begin, Return,
      Running, procs, job
  <2>2. \A p \in Procs : life'[p] = "unborn" => life[p] = "unborn"
    BY <1>1, <2>1 DEF TypeOK
  <2> QED BY <1>1, <2>1, <2>2, ElsewhereCopies
<1>3. CASE ShmFrame
  <2>1. /\ op = "shmget" /\ op' \in {"shmget", "shmundo"} /\ UNCHANGED procs
        /\ idx \in Nat /\ seg \in Segs /\ idx < segLen[seg] /\ segLen[seg] \in 0 .. MaxLen
        /\ UNCHANGED at \/ Take(Shm(seg, idx + 1))
    BY <1>1, <1>3 DEF ShmFrame, Running, TypeOK
  <2>2. Shm(seg, idx + 1) \in ShmPlaces /\ Shm(seg, idx + 1) \in Places
    <3>1. idx + 1 \in 1 .. MaxLen
      BY <2>1, NumbersAssumption
    <3> QED BY <2>1, <3>1, PlaceFacts
  <2>3. \A a \in Places \ ShmPlaces : at'[a] = at[a]
    BY <1>1, <2>1, <2>2, TakeAlone
  <2> QED BY <1>1, <2>1, <2>3, ElsewhereCopies DEF procs
<1>4. CASE ShmUndo
  <2>1. PICK i \in Taken : Give(Shm(seg, i))
    BY <1>4 DEF ShmUndo
  <2>2. op = "shmundo" /\ UNCHANGED <<procs, job>> /\ seg \in Segs
    BY <1>1, <1>4 DEF ShmUndo, Running, TypeOK
  <2>3. i \in 1 .. MaxLen
    <3>1. idx \in Nat /\ idx <= segLen[seg] /\ segLen[seg] \in 0 .. MaxLen
      BY <1>1, <2>2 DEF IInv, Supporting, SegmentInProgress, TypeOK
    <3>2. i \in 1 .. idx
      BY <2>1 DEF Taken
    <3> QED BY <3>1, <3>2, NumbersAssumption
  <2>4. Shm(seg, i) \in Places /\ Shm(seg, i) \in ShmPlaces
    BY <2>2, <2>3, PlaceFacts
  <2>5. \A a \in Places \ ShmPlaces : at'[a] = at[a]
    BY <1>1, <2>1, <2>4, GiveAlone
  <2> QED BY <1>1, <2>2, <2>5, ElsewhereCopies DEF procs, job
<1>5. CASE ReapFrame
  <2>1. /\ op = "reap" /\ op' = op /\ UNCHANGED procs /\ child \in Procs
        /\ idx \in Nat /\ idx < 2 /\ Give(Stk(child, idx + 1))
    BY <1>1, <1>5 DEF ReapFrame, Running, TypeOK
  <2>2. Stk(child, idx + 1) \in Places
    BY <2>1, PlaceFacts
  <2>3. \A a \in Places : at'[a] \in {at[a], None}
    BY <1>1, <2>1, <2>2, GiveAlone
  <2> QED BY <1>1, <2>1, <2>3, ElsewhereCopies DEF procs
<1>6. CASE ReapDone
  <2>1. /\ op = "reap" /\ op' = "idle" /\ UNCHANGED spaceOf
        /\ life' = [life EXCEPT ![child] = "gone"]
        /\ at' = [a \in Places |-> IF a \in SpacePlaces(child) THEN None ELSE at[a]]
    BY <1>6 DEF ReapDone, Running, Return
  <2>2. \A a \in Places : at'[a] \in {at[a], None}
    BY <2>1
  <2>3. \A p \in Procs : life'[p] = "unborn" => life[p] = "unborn"
    BY <1>1, <2>1 DEF TypeOK
  <2> QED BY <1>1, <2>1, <2>2, <2>3, ElsewhereCopies
<1> QED BY <1>2, <1>3, <1>4, <1>5, <1>6

\* shm_at begins.
LEMMA ShmAtCopies ==
  ASSUME Copying, NEW p \in Procs, NEW g \in Segs, NEW v \in Pages, ShmAt(p, g, v)
  PROVE  Copying'
<1>1. /\ op = "idle" /\ op' = "shmat" /\ caller' = p /\ life[p] = "alive"
      /\ UNCHANGED <<at, life, spaceOf>>
  BY DEF ShmAt, Running, Begin, procs
<1>2. NewVacant' /\ UnbornVacant'
  BY <1>1 DEF Copying, NewVacant, UnbornVacant, Vacant
<1>3. OwnSpaces' /\ CallerAlive'
  BY <1>1 DEF Copying, OwnSpaces, CallerAlive
<1> QED BY <1>1, <1>2, <1>3, LoopOver DEF Copying

\* At boot only the boot space and the first process's stack hold frames.
LEMMA CopyingAtFirst == Init => Copying
<1> SUFFICES ASSUME Init PROVE Copying
  OBVIOUS
<1>1. /\ at = BootLayout /\ op = "idle" /\ spaceOf = [p \in Procs |-> Boot]
      /\ life = [p \in Procs |-> IF p = 1 THEN "alive" ELSE "unborn"]
  BY DEF Init
<1>2. \A s \in Spaces \ {Boot} : Vacant(s)
  BY <1>1, BootAssumption DEF Vacant
<1>3. NewVacant
  BY <1>2, NewApart DEF NewVacant, Spaces
<1>4. UnbornVacant
  <2>1. SUFFICES ASSUME NEW p \in Procs, p # 1
                 PROVE  Vacant(p) /\ \A i \in 1 .. 2 : at[Stk(p, i)] = None
    BY <1>1 DEF UnbornVacant
  <2>2. p \in Spaces \ {Boot}
    BY NewApart DEF Spaces
  <2> QED BY <1>1, <1>2, <2>1, <2>2, BootAssumption
<1>5. OwnSpaces /\ CallerAlive /\ Unfilled /\ CopyInStep
  BY <1>1 DEF OwnSpaces, CallerAlive, Unfilled, CopyInStep
<1> QED BY <1>3, <1>4, <1>5 DEF Copying

\* Every step keeps it.
LEMMA CopyingKept == IInv /\ Copying /\ [Next]_vars => Copying'
<1> SUFFICES ASSUME IInv, Copying, [Next]_vars PROVE Copying'
  OBVIOUS
<1>1. TypeOK
  BY DEF IInv
<1>2. CASE Fork
  BY <1>1, <1>2, ForkBeginCopies, ForkStackCopies, DoneCopies DEF Fork
<1>3. CASE Exec
  BY <1>1, <1>3, ExecBeginCopies, BuildCopies, DoneCopies DEF Exec
<1>4. CASE Build
  BY <1>1, <1>4, BuildCopies, TableCopies, MapPageCopies DEF Build
<1>5. CASE SharedMemory
  BY <1>5, ShmAtCopies, OtherCopies DEF SharedMemory
<1>6. CASE End
  BY <1>6, OtherCopies DEF End
<1>7. CASE UNCHANGED vars
  BY <1>7 DEF vars, procs, job, Copying, NewVacant, UnbornVacant, Vacant, OwnSpaces,
    CallerAlive, Unfilled, CopyInStep, Target, Mapped
<1> QED BY <1>2, <1>3, <1>4, <1>5, <1>6, <1>7 DEF Next

\* What fork and execve build starts empty and fills page by page, in every
\* reachable state.
THEOREM CopyingHolds == Spec => []Copying
BY CopyingAtFirst, CopyingKept, Invariance, PTL DEF Spec

\* A fork that ends well has copied every page: nothing is left in todo, and
\* what is not in todo the child has.
THEOREM ForkCompleteCorrect == Spec => ForkComplete
<1>1. IInv /\ Copying /\ [Next]_vars =>
        [op = "fork" /\ op' = "idle" /\ ~short =>
           Mapped(child)' = Mapped(spaceOf[caller])]_vars
  <2> SUFFICES ASSUME IInv, Copying, Next, op = "fork", op' = "idle", ~short
               PROVE  Mapped(child)' = Mapped(spaceOf[caller])
    OBVIOUS
  <2>1. ForkDone
    <3>1. Fork \/ Build
      BY DEF Next, Exec, SharedMemory, End, ExecBegin, BadHeader, ExecDone, ShmGet, ShmAt,
        ShmFrame, ShmUndo, ShmFailed, ShmDone, ShmAtDone, Exit, ReapBegin, ReapFrame, ReapDone,
        Running, Building
    <3>2. ~Build
      BY DEF Build, LowTable, PageFrame, Table, MapPage, Skip, job
    <3> QED BY <3>1, <3>2 DEF Fork, ForkBegin, ForkStack, Running, job
  <2>2. todo = {} /\ UNCHANGED <<at, child>>
    BY <2>1 DEF ForkDone, Return
  <2>3. Mapped(child)' = Mapped(child)
    BY <2>2 DEF Mapped
  <2>4. Mapped(child) = Mapped(spaceOf[caller])
    BY <2>2 DEF Copying, CopyInStep
  <2> QED BY <2>3, <2>4
<1> QED BY <1>1, Invariance, CopyingHolds, PTL DEF Spec, ForkComplete

-----------------------------------------------------------------------------
(* Frames nobody has.                                                      *)

\* What keeps the frames on the list and in use together keeps Lost.
LEMMA LostKept ==
  ASSUME \A f \in Frames :
           ((\E i \in DOMAIN free : free[i] = f) \/ \E a \in Places : at[a] = f)
             <=> ((\E i \in DOMAIN free' : free'[i] = f) \/ \E a \in Places : at'[a] = f)
  PROVE  Lost' = Lost
<1>1. \A f \in Frames : f # None
  BY NumbersAssumption
<1>2. Lost = {f \in Frames : ~((\E i \in DOMAIN free : free[i] = f) \/ \E a \in Places : at[a] = f)}
  BY <1>1 DEF Lost, InUse
<1>3. Lost' = {f \in Frames :
        ~((\E i \in DOMAIN free' : free'[i] = f) \/ \E a \in Places : at'[a] = f)}
  BY <1>1 DEF Lost, InUse
<1> QED BY <1>2, <1>3

\* A frame that goes from the list into an empty place is not lost, and no other.
LEMMA TakeKeeps ==
  ASSUME Typed, NEW a \in Places, at[a] = None, Take(a)
  PROVE  Lost' = Lost
<1>1. free # << >> /\ at' = [at EXCEPT ![a] = Head(free)] /\ free' = Tail(free)
  BY DEF Take
<1>2. /\ free \in Seq(Frames) /\ Len(free) \in Nat /\ Len(free) > 0
      /\ Head(free) = free[1] /\ DOMAIN free = 1 .. Len(free)
  BY <1>1 DEF Typed
<1>3. /\ DOMAIN free' = 1 .. Len(free) - 1
      /\ \A i \in 1 .. Len(free) - 1 : free'[i] = free[i + 1]
  BY <1>1, <1>2
<1>4. at'[a] = free[1] /\ \A b \in Places \ {a} : at'[b] = at[b]
  BY <1>1, <1>2 DEF Typed
<1>5. ASSUME NEW f \in Frames
      PROVE  ((\E i \in DOMAIN free : free[i] = f) \/ \E b \in Places : at[b] = f)
               <=> ((\E i \in DOMAIN free' : free'[i] = f) \/ \E b \in Places : at'[b] = f)
  <2>1. f # None
    BY NumbersAssumption
  <2>2. ASSUME NEW i \in DOMAIN free, free[i] = f
        PROVE  (\E j \in DOMAIN free' : free'[j] = f) \/ \E b \in Places : at'[b] = f
    <3>1. CASE i = 1
      BY <1>4, <2>2, <3>1
    <3>2. CASE i # 1
      <4>1. i - 1 \in 1 .. Len(free) - 1
        BY <1>2, <2>2, <3>2
      <4>2. free'[i - 1] = free[(i - 1) + 1] /\ (i - 1) + 1 = i
        BY <1>2, <1>3, <4>1
      <4> QED BY <1>3, <2>2, <4>1, <4>2
    <3> QED BY <3>1, <3>2
  <2>3. ASSUME NEW b \in Places, at[b] = f PROVE at'[b] = f
    BY <1>4, <2>1, <2>3
  <2>4. ASSUME NEW i \in DOMAIN free', free'[i] = f
        PROVE  \E j \in DOMAIN free : free[j] = f
    <3>1. i + 1 \in DOMAIN free
      BY <1>2, <1>3
    <3> QED BY <1>3, <2>4, <3>1
  <2>5. ASSUME NEW b \in Places, at'[b] = f
        PROVE  (\E j \in DOMAIN free : free[j] = f) \/ at[b] = f
    <3>1. CASE b = a
      <4>1. 1 \in DOMAIN free
        BY <1>2
      <4> QED BY <1>4, <2>5, <3>1, <4>1
    <3>2. CASE b # a
      BY <1>4, <2>5, <3>2
    <3> QED BY <3>1, <3>2
  <2> QED BY <2>2, <2>3, <2>4, <2>5
<1> QED BY <1>5, LostKept

\* A frame that is given back is not lost, and no other.
LEMMA GiveKeeps ==
  ASSUME Typed, NEW a \in Places, at[a] # None, Give(a)
  PROVE  Lost' = Lost
<1>1. free' = <<at[a]>> \o free /\ at' = [at EXCEPT ![a] = None]
  BY DEF Give
<1>2. free \in Seq(Frames) /\ at[a] \in Frames /\ Len(free) \in Nat /\ DOMAIN free = 1 .. Len(free)
  BY DEF Typed
<1>3. /\ DOMAIN free' = 1 .. Len(free) + 1 /\ free'[1] = at[a]
      /\ \A i \in 2 .. Len(free) + 1 : free'[i] = free[i - 1]
  BY <1>1, <1>2
<1>4. at'[a] = None /\ \A b \in Places \ {a} : at'[b] = at[b]
  BY <1>1 DEF Typed
<1>5. ASSUME NEW f \in Frames
      PROVE  ((\E i \in DOMAIN free : free[i] = f) \/ \E b \in Places : at[b] = f)
               <=> ((\E i \in DOMAIN free' : free'[i] = f) \/ \E b \in Places : at'[b] = f)
  <2>1. f # None
    BY NumbersAssumption
  <2>2. ASSUME NEW i \in DOMAIN free, free[i] = f PROVE \E j \in DOMAIN free' : free'[j] = f
    <3>1. i + 1 \in 2 .. Len(free) + 1 /\ i + 1 \in DOMAIN free' /\ (i + 1) - 1 = i
      BY <1>2, <1>3
    <3> QED BY <1>3, <2>2, <3>1
  <2>3. ASSUME NEW b \in Places, at[b] = f
        PROVE  (\E j \in DOMAIN free' : free'[j] = f) \/ at'[b] = f
    <3>1. 1 \in DOMAIN free'
      BY <1>2, <1>3
    <3> QED BY <1>3, <1>4, <2>3, <3>1
  <2>4. ASSUME NEW i \in DOMAIN free', free'[i] = f
        PROVE  (\E j \in DOMAIN free : free[j] = f) \/ at[a] = f
    <3>1. CASE i = 1
      BY <1>3, <2>4, <3>1
    <3>2. CASE i # 1
      <4>1. i - 1 \in DOMAIN free /\ i \in 2 .. Len(free) + 1
        BY <1>2, <1>3, <3>2
      <4> QED BY <1>3, <2>4, <4>1
    <3> QED BY <3>1, <3>2
  <2>5. ASSUME NEW b \in Places, at'[b] = f PROVE at[b] = f
    BY <1>4, <2>1, <2>5
  <2> QED BY <2>2, <2>3, <2>4, <2>5
<1> QED BY <1>5, LostKept

\* A page that was empty takes the frame at hand: nothing is lost.
LEMMA MapKeeps ==
  ASSUME Typed, NEW p \in Places, p # Tmp, at[p] = None, UNCHANGED free,
         at' = [at EXCEPT ![p] = at[Tmp], ![Tmp] = None]
  PROVE  Lost' = Lost
<1>1. Tmp \in Places
  BY PlaceFacts
<1>2. at'[p] = at[Tmp] /\ at'[Tmp] = None /\ \A b \in Places \ {p, Tmp} : at'[b] = at[b]
  BY <1>1 DEF Typed
<1>3. \A f \in Frames : (\E b \in Places : at[b] = f) <=> (\E b \in Places : at'[b] = f)
  <2> SUFFICES ASSUME NEW f \in Frames
               PROVE  (\E b \in Places : at[b] = f) <=> (\E b \in Places : at'[b] = f)
    OBVIOUS
  <2>1. f # None
    BY NumbersAssumption
  <2>2. ASSUME NEW b \in Places, at[b] = f PROVE \E c \in Places : at'[c] = f
    BY <1>1, <1>2, <2>1, <2>2
  <2>3. ASSUME NEW b \in Places, at'[b] = f PROVE \E c \in Places : at[c] = f
    BY <1>1, <1>2, <2>1, <2>3
  <2> QED BY <2>2, <2>3
<1> QED BY <1>3, LostKept

\* Neither the list nor a place changes.
LEMMA StillKeeps ==
  ASSUME UNCHANGED <<free, at>>
  PROVE  Lost' = Lost
BY DEF Lost, InUse

Known ==
  \/ op \in {"exec", "reap"} /\ op' = "idle"
  \/ op = "shmat"
  \/ op = "fork" /\ free = << >>

\* fork and execve lose nothing, except fork when the list is empty, and execve
\* the space it leaves.
LEMMA ForkExecLose ==
  ASSUME IInv, Copying, Fork \/ Exec \/ Build
  PROVE  Lost' = Lost \/ Known
<1>1. TypeOK /\ Typed
  BY DEF IInv, TypeOK, Typed
<1>2. ASSUME NEW p \in Procs, NEW c \in Procs, ForkBegin(p, c) PROVE Lost' = Lost
  <2>1. /\ op = "idle" /\ life[c] = "unborn" /\ Take(Root(c)) /\ c \in Spaces
    BY <1>2 DEF ForkBegin, Running, Spaces
  <2>2. Root(c) \in SpacePlaces(c) /\ Root(c) \in Places
    BY <2>1, PlaceFacts DEF SpacePlaces
  <2>3. at[Root(c)] = None
    BY <2>1, <2>2 DEF Copying, UnbornVacant, Vacant
  <2> QED BY <1>1, <2>1, <2>2, <2>3, TakeKeeps
<1>3. ASSUME NEW p \in Procs, ExecBegin(p) PROVE Lost' = Lost
  <2>1. op = "idle" /\ Take(Root(New)) /\ New \in Spaces
    BY <1>3 DEF ExecBegin, Running, Spaces
  <2>2. Root(New) \in SpacePlaces(New) /\ Root(New) \in Places
    BY <2>1, PlaceFacts DEF SpacePlaces
  <2>3. at[Root(New)] = None
    BY <2>1, <2>2 DEF Copying, NewVacant, Vacant
  <2> QED BY <1>1, <2>1, <2>2, <2>3, TakeKeeps
<1>4. CASE ForkStack
  <2>1. /\ op = "fork" /\ child \in Procs /\ idx \in 0 .. 1
        /\ UNCHANGED <<free, at>> \/ Take(Stk(child, idx + 1))
    BY <1>1, <1>4 DEF ForkStack, Building, TypeOK
  <2>2. Stk(child, idx + 1) \in Places
    BY <2>1, PlaceFacts
  <2>3. at[Stk(child, idx + 1)] = None
    BY <2>1 DEF Copying, CopyInStep
  <2> QED BY <1>1, <2>1, <2>2, <2>3, TakeKeeps, StillKeeps
<1>5. CASE ForkDone \/ BadHeader
  BY <1>5, StillKeeps DEF ForkDone, BadHeader
<1>6. CASE ExecDone
  BY <1>6 DEF Known, ExecDone, Building, Return
<1>7. CASE LowTable
  <2>1. /\ op \in {"fork", "exec"} /\ at[Low(Target)] = None
        /\ UNCHANGED <<free, at>> \/ Take(Low(Target))
    BY <1>7 DEF LowTable
  <2>2. Low(Target) \in Places
    BY <1>1, <2>1, TargetSpace, PlaceFacts
  <2> QED BY <1>1, <2>1, <2>2, TakeKeeps, StillKeeps
<1>8. CASE PageFrame
  <2>1. /\ at[Tmp] = None
        /\ UNCHANGED <<free, at>> \/ Take(Tmp)
    BY <1>8 DEF PageFrame
  <2>2. Tmp \in Places
    BY PlaceFacts
  <2> QED BY <1>1, <2>1, <2>2, TakeKeeps, StillKeeps
<1>9. CASE Table
  <2>1. op = "shmat" \/ (op \in {"fork", "exec"} /\ at[Tmp] # None)
    <3>1. Pending
      BY <1>9 DEF Table
    <3> QED BY <3>1 DEF Pending, Building, Running
  <2>2. PICK v \in Pages : \E i \in DOMAIN Walk[v] :
          /\ FirstMissing(v, i)
          /\ \/ Take(Tab(Target, Walk[v][i]))
             \/ free = << >> /\ op = "fork"
             \/ Give(Tmp)
             \/ op = "shmat"
    BY <1>9 DEF Table
  <2>3. PICK i \in DOMAIN Walk[v] :
          /\ at[Tab(Target, Walk[v][i])] = None
          /\ \/ Take(Tab(Target, Walk[v][i]))
             \/ free = << >> /\ op = "fork"
             \/ Give(Tmp)
             \/ op = "shmat"
    BY <2>2 DEF FirstMissing, Missing
  <2>4. CASE Take(Tab(Target, Walk[v][i]))
    <3>1. Walk[v][i] \in Slots /\ Target \in Spaces
      BY <1>1, <2>1, <2>3, TargetSpace, NumbersAssumption
    <3>2. Tab(Target, Walk[v][i]) \in Places
      BY <3>1, PlaceFacts
    <3> QED BY <1>1, <2>3, <2>4, <3>2, TakeKeeps
  <2>5. CASE Give(Tmp) /\ op # "shmat"
    BY <1>1, <2>1, <2>5, PlaceFacts, GiveKeeps
  <2> QED BY <2>3, <2>4, <2>5 DEF Known
<1>10. CASE MapPage
  <2>1. CASE op = "shmat"
    BY <2>1 DEF Known
  <2>2. CASE op # "shmat"
    <3>1. op \in {"fork", "exec"} /\ UNCHANGED free
      BY <1>10, <2>2 DEF MapPage, Pending, Building, Running
    <3>2. PICK v \in todo : at' = [at EXCEPT ![Page(Target, v)] = at[Tmp], ![Tmp] = None]
      BY <1>10, <2>2 DEF MapPage, IsNext, Source
    <3>3. v \in Pages /\ Target \in Spaces
      BY <1>1, <3>1, TargetSpace DEF TypeOK
    <3>4. Page(Target, v) \in Places /\ Page(Target, v) # Tmp
      BY <3>3, PlaceFacts, PlaceKinds
    <3>5. at[Page(Target, v)] = None
      BY <3>1 DEF Copying, Unfilled
    <3> QED BY <1>1, <3>1, <3>2, <3>4, <3>5, MapKeeps
  <2> QED BY <2>1, <2>2
<1>11. CASE Fork
  BY <1>2, <1>4, <1>5, <1>11 DEF Fork
<1>12. CASE Exec
  BY <1>3, <1>5, <1>6, <1>12 DEF Exec
<1>13. CASE Build
  BY <1>7, <1>8, <1>9, <1>10, <1>13 DEF Build
<1> QED BY <1>11, <1>12, <1>13

\* Of the rest shm_at and the end of a process lose frames: shm_get, done or
\* rolled back, does not.
LEMMA OthersLose ==
  ASSUME IInv, SharedMemory \/ End
  PROVE  Lost' = Lost \/ Known
<1>1. TypeOK /\ Typed
  BY DEF IInv, TypeOK, Typed
<1>2. CASE \/ \E p \in Procs, k \in Keys, n \in 1 .. MaxLen : ShmGet(p, k, n)
           \/ \E p \in Procs, g \in Segs, v \in Pages : ShmAt(p, g, v)
           \/ ShmFailed \/ ShmDone \/ ShmAtDone
           \/ \E p \in Procs : Exit(p) \/ ReapBegin(p)
  BY <1>2, StillKeeps DEF ShmGet, ShmAt, ShmFailed, ShmDone, ShmAtDone, Exit, ReapBegin
<1>3. CASE ShmFrame
  <2>1. /\ op = "shmget" /\ seg \in Segs /\ idx \in Nat
        /\ idx < segLen[seg] /\ segLen[seg] \in 0 .. MaxLen
        /\ UNCHANGED <<free, at>> \/ Take(Shm(seg, idx + 1))
    BY <1>1, <1>3 DEF ShmFrame, Running, TypeOK
  <2>2. idx + 1 \in 1 .. MaxLen /\ idx + 1 > idx
    BY <2>1, NumbersAssumption
  <2>3. at[Shm(seg, idx + 1)] = None
    BY <2>1, <2>2 DEF IInv, Supporting, SegmentInProgress
  <2>4. Shm(seg, idx + 1) \in Places
    BY <2>1, <2>2, PlaceFacts
  <2> QED BY <1>1, <2>1, <2>3, <2>4, TakeKeeps, StillKeeps
<1>4. CASE ShmUndo
  <2>1. op = "shmundo" /\ seg \in Segs
    BY <1>1, <1>4 DEF ShmUndo, Running, TypeOK
  <2>2. PICK i \in 1 .. idx : at[Shm(seg, i)] # None /\ Give(Shm(seg, i))
    BY <1>4 DEF ShmUndo, Taken
  <2>3. i \in 1 .. MaxLen
    <3>1. idx \in Nat /\ idx <= segLen[seg] /\ segLen[seg] \in 0 .. MaxLen
      BY <1>1, <2>1 DEF IInv, Supporting, SegmentInProgress, TypeOK
    <3> QED BY <3>1, NumbersAssumption
  <2>4. Shm(seg, i) \in Places
    BY <2>1, <2>3, PlaceFacts
  <2> QED BY <1>1, <2>2, <2>4, GiveKeeps
<1>5. CASE ReapFrame
  <2>1. /\ op = "reap" /\ child \in Procs /\ idx \in 0 .. 1 /\ Give(Stk(child, idx + 1))
    BY <1>1, <1>5 DEF ReapFrame, Running, TypeOK
  <2>2. idx + 1 \in 1 .. 2 /\ idx + 1 > idx
    BY <2>1
  <2>3. at[Stk(child, idx + 1)] # None
    BY <2>1, <2>2 DEF IInv, Supporting, StacksHeld
  <2>4. Stk(child, idx + 1) \in Places
    BY <2>1, <2>2, PlaceFacts
  <2> QED BY <1>1, <2>1, <2>3, <2>4, GiveKeeps
<1>6. CASE ReapDone
  BY <1>6 DEF Known, ReapDone, Running, Return
<1> QED BY <1>2, <1>3, <1>4, <1>5, <1>6 DEF SharedMemory, End

\* The leaks are the ones named: a fork that finds its frames, a shm_get done or
\* rolled back, and an execve up to the switch lose none of the pool.
THEOREM LossCorrect == Spec => LossOnlyKnown
<1>1. IInv /\ Copying /\ [Next]_vars =>
        [Lost' # Lost =>
           \/ op \in {"exec", "reap"} /\ op' = "idle"
           \/ op = "shmat"
           \/ op = "fork" /\ free = << >>]_vars
  BY ForkExecLose, OthersLose DEF Next, Known
<1> QED BY <1>1, Invariance, CopyingHolds, PTL DEF Spec, LossOnlyKnown

=============================================================================
