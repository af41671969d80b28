--------------------------- MODULE DesktopProofs ---------------------------
(***************************************************************************)
(* Machine-checked proofs about the window manager: modules Windows, for   *)
(* any number of windows, any sizes and any scales, Menus, for any number  *)
(* of icons, and Screen, for any geometry.                                 *)
(***************************************************************************)
EXTENDS Windows, Menus, Screen, SequenceTheorems, WellFoundedInduction, TLAPS

(***************************************************************************)
(* Windows.                                                                *)
(***************************************************************************)

-----------------------------------------------------------------------------
(* The list of windows as a data structure.                                *)

\* s lists each element of S once.
Lists(s, S) ==
  /\ s \in Seq(S)
  /\ \A i, j \in DOMAIN s : s[i] = s[j] => i = j
  /\ \A v \in S : \E i \in DOMAIN s : s[i] = v

\* Taking one node out of the list leaves the others, each once.
LEMMA UnlinkedLists ==
  ASSUME NEW S, NEW s, Lists(s, S), NEW w \in S
  PROVE  Lists(Unlinked(s, CHOOSE k \in DOMAIN s : s[k] = w), S \ {w})
  <1>1. PICK k \in DOMAIN s : k = CHOOSE n \in DOMAIN s : s[n] = w
    BY DEF Lists
  <1>2. s[k] = w
    BY <1>1 DEF Lists
  <1> DEFINE r == Unlinked(s, k)
  <1>3. /\ Len(s) \in Nat /\ DOMAIN s = 1 .. Len(s) /\ k \in 1 .. Len(s)
        /\ \A i \in 1 .. Len(s) : s[i] \in S
    BY LenProperties, ElementOfSeq DEF Lists
  <1>4. /\ DOMAIN r = 1 .. Len(s) - 1
        /\ \A i \in 1 .. Len(s) - 1 : r[i] = IF i < k THEN s[i] ELSE s[i + 1]
    BY <1>3 DEF r, Unlinked
  <1> HIDE DEF r
  <1>5. \A i \in 1 .. Len(s) - 1 : r[i] \in S \ {w}
    <2> SUFFICES ASSUME NEW i \in 1 .. Len(s) - 1 PROVE r[i] \in S \ {w}
      OBVIOUS
    <2>1. CASE i < k
      BY <2>1, <1>2, <1>3, <1>4 DEF Lists
    <2>2. CASE ~(i < k)
      <3>1. i + 1 \in 1 .. Len(s) /\ i + 1 # k
        BY <2>2, <1>3
      <3> QED BY <3>1, <2>2, <1>2, <1>3, <1>4 DEF Lists
    <2> QED BY <2>1, <2>2
  <1>6. r \in Seq(S \ {w})
    <2>1. r = [i \in 1 .. Len(s) - 1 |-> r[i]]
      <3>1. r = [i \in 1 .. Len(s) - 1 |-> s[IF i < k THEN i ELSE i + 1]]
        BY DEF r, Unlinked
      <3> QED BY <3>1
    <2>2. Len(s) - 1 \in Nat
      BY <1>3
    <2> QED BY <2>1, <2>2, <1>5, IsASeq
  <1>7. \A i, j \in DOMAIN r : r[i] = r[j] => i = j
    <2> SUFFICES ASSUME NEW i \in DOMAIN r, NEW j \in DOMAIN r, r[i] = r[j] PROVE i = j
      OBVIOUS
    <2> DEFINE a == IF i < k THEN i ELSE i + 1
               b == IF j < k THEN j ELSE j + 1
    <2>1. a \in DOMAIN s /\ b \in DOMAIN s /\ s[a] = s[b]
      BY <1>3, <1>4
    <2>2. a = b
      BY <2>1 DEF Lists
    <2> QED BY <2>2, <1>3, <1>4
  <1>8. \A v \in S \ {w} : \E i \in DOMAIN r : r[i] = v
    <2> SUFFICES ASSUME NEW v \in S \ {w} PROVE \E i \in DOMAIN r : r[i] = v
      OBVIOUS
    <2>1. PICK j \in 1 .. Len(s) : s[j] = v
      BY <1>3 DEF Lists
    <2>2. j # k
      BY <2>1, <1>2
    <2>3. CASE j < k
      <3>1. j \in 1 .. Len(s) - 1
        BY <2>3, <1>3
      <3> QED BY <3>1, <2>1, <2>3, <1>4
    <2>4. CASE j > k
      <3>1. j - 1 \in 1 .. Len(s) - 1 /\ ~(j - 1 < k) /\ (j - 1) + 1 = j
        BY <2>4, <1>3
      <3> QED BY <3>1, <2>1, <1>4
    <2> QED BY <2>2, <2>3, <2>4, <1>3
  <1> QED BY ZenonT(60), <1>1, <1>6, <1>7, <1>8 DEF Lists, r

\* A new node at the end.
LEMMA AppendLists ==
  ASSUME NEW S, NEW s, Lists(s, S), NEW w, w \notin S
  PROVE  Lists(Append(s, w), S \cup {w})
  <1> DEFINE r == Append(s, w)
  <1>1. /\ Len(s) \in Nat /\ DOMAIN s = 1 .. Len(s)
        /\ \A i \in 1 .. Len(s) : s[i] \in S
    BY LenProperties, ElementOfSeq DEF Lists
  <1>2. s \in Seq(S \cup {w})
    BY <1>1, SeqMonotonic, S \subseteq S \cup {w} DEF Lists
  <1>3. /\ r \in Seq(S \cup {w}) /\ DOMAIN r = 1 .. Len(s) + 1
        /\ \A i \in 1 .. Len(s) : r[i] = s[i]
        /\ r[Len(s) + 1] = w
    BY <1>1, <1>2, AppendProperties, LenProperties
  <1> HIDE DEF r
  <1>4. \A i, j \in DOMAIN r : r[i] = r[j] => i = j
    BY <1>1, <1>3 DEF Lists
  <1>5. \A v \in S \cup {w} : \E i \in DOMAIN r : r[i] = v
    <2> SUFFICES ASSUME NEW v \in S \cup {w} PROVE \E i \in DOMAIN r : r[i] = v
      OBVIOUS
    <2>1. CASE v = w
      BY <2>1, <1>1, <1>3
    <2>2. CASE v \in S
      <3>1. PICK j \in 1 .. Len(s) : s[j] = v
        BY <2>2, <1>1 DEF Lists
      <3> QED BY <3>1, <1>1, <1>3
    <2> QED BY <2>1, <2>2
  <1> QED BY <1>3, <1>4, <1>5 DEF Lists, r

\* The last node is one of them.
LEMMA FrontListed ==
  ASSUME NEW S, NEW s, Lists(s, S)
  PROVE  Front(s) \in S \cup {0}
  <1>1. Len(s) \in Nat /\ DOMAIN s = 1 .. Len(s) /\ \A i \in 1 .. Len(s) : s[i] \in S
    BY LenProperties, ElementOfSeq DEF Lists
  <1>2. CASE s = <<>>
    BY <1>2 DEF Front
  <1>3. CASE s # <<>>
    <2>1. Len(s) # 0
      BY <1>3, EmptySeq DEF Lists
    <2> QED BY <2>1, <1>1, <1>3 DEF Front
  <1> QED BY <1>2, <1>3
-----------------------------------------------------------------------------
(* Windows, their list and the active one, as values.                      *)

Records ==
  [kind : Kinds \cup {"closed"}, size : Nat, orig : Nat, alloc : Nat,
   max : BOOLEAN, min : BOOLEAN, drag : BOOLEAN, ev : {"none", "key"}]

OpenOf(ws) == {w \in Ids : ws[w].kind # "closed"}

\* A window's record: a closed one is empty, and one with a buffer is a
\* program's or is dragged.
Proper(w) ==
  /\ w \in Records
  /\ w.kind = "closed" => w = Closed
  /\ w.alloc # 0 => w.kind = "program" \/ w.drag

\* The list holds the open windows, the active one is open, and ids from n on
\* have not been given.
Sound(ws, s, a, n) ==
  /\ ws \in [Ids -> Records] /\ \A w \in Ids : Proper(ws[w])
  /\ Lists(s, OpenOf(ws))
  /\ a \in OpenOf(ws) \cup {0}
  /\ n \in 1 .. MaxWin + 1 /\ \A w \in Ids : w >= n => ws[w].kind = "closed"

\* A drag needs the button, is of the active window and excludes the other kind.
Drags ==
  ~swallowed =>
    /\ resizing => pressed /\ active # 0
    /\ \A w \in Ids : win[w].drag => pressed /\ w = active /\ ~resizing

IInv ==
  /\ Sound(win, order, active, nextId)
  /\ Drags
  /\ scale \in Scales /\ {resizing, pressed, swallowed} \subseteq BOOLEAN

\* A record that changes, but not its kind.
LEMMA UpdateSound ==
  ASSUME NEW ws, NEW s, NEW a, NEW n, Sound(ws, s, a, n),
         NEW us \in [Ids -> Records],
         \A w \in Ids : us[w].kind = ws[w].kind /\ Proper(us[w])
  PROVE  Sound(us, s, a, n)
  <1>1. OpenOf(us) = OpenOf(ws)
    BY DEF OpenOf
  <1> QED BY <1>1 DEF Sound

\* Another window becomes active, or none.
LEMMA ActiveSound ==
  ASSUME NEW ws, NEW s, NEW a, NEW n, Sound(ws, s, a, n), NEW b \in OpenOf(ws) \cup {0}
  PROVE  Sound(ws, s, b, n)
  BY DEF Sound

\* A window comes to the front.
LEMMA RaiseSound ==
  ASSUME NEW ws, NEW s, NEW a, NEW n, Sound(ws, s, a, n), NEW w \in OpenOf(ws)
  PROVE  Sound(ws, Append(Unlinked(s, CHOOSE k \in DOMAIN s : s[k] = w), w), a, n)
  <1> DEFINE r == Unlinked(s, CHOOSE k \in DOMAIN s : s[k] = w)
  <1>1. Lists(r, OpenOf(ws) \ {w})
    BY UnlinkedLists DEF Sound
  <1>2. (OpenOf(ws) \ {w}) \cup {w} = OpenOf(ws)
    OBVIOUS
  <1> HIDE DEF r
  <1>3. Lists(Append(r, w), (OpenOf(ws) \ {w}) \cup {w})
    BY <1>1, AppendLists
  <1>4. Lists(Append(r, w), OpenOf(ws))
    BY <1>2, <1>3
  <1> QED BY <1>4 DEF Sound, r

\* A window closes; when it was the active one, the front one follows.
LEMMA CloseSound ==
  ASSUME NEW ws, NEW s, NEW a, NEW n, Sound(ws, s, a, n), NEW w \in OpenOf(ws),
         NEW r, r = Unlinked(s, CHOOSE k \in DOMAIN s : s[k] = w)
  PROVE  Sound([ws EXCEPT ![w] = Closed], r, IF a = w THEN Front(r) ELSE a, n)
  <1> DEFINE us == [ws EXCEPT ![w] = Closed]
  <1>1. Lists(r, OpenOf(ws) \ {w})
    BY UnlinkedLists DEF Sound
  <1>2. Closed \in Records /\ Proper(Closed) /\ Closed.kind = "closed"
    BY DEF Closed, Records, Proper, Kinds
  <1>3. us \in [Ids -> Records] /\ \A v \in Ids : us[v] = IF v = w THEN Closed ELSE ws[v]
    BY <1>2 DEF Sound
  <1> HIDE DEF us
  <1>4. OpenOf(us) = OpenOf(ws) \ {w}
    BY <1>2, <1>3 DEF OpenOf
  <1>5. \A v \in Ids : Proper(us[v]) /\ (v >= n => us[v].kind = "closed")
    BY <1>2, <1>3 DEF Sound
  <1>6. (IF a = w THEN Front(r) ELSE a) \in OpenOf(us) \cup {0}
    BY <1>1, <1>4, FrontListed DEF Sound
  <1> QED BY <1>1, <1>3, <1>4, <1>5, <1>6 DEF Sound, us

\* A new window in front.
LEMMA CreateSound ==
  ASSUME NEW ws, NEW s, NEW a, NEW n, Sound(ws, s, a, n), n <= MaxWin,
         NEW w \in Records, Proper(w), w.kind # "closed"
  PROVE  Sound([ws EXCEPT ![n] = w], Append(s, n), a, n + 1)
  <1> DEFINE us == [ws EXCEPT ![n] = w]
  <1>1. n \in Ids /\ MaxWin \in Nat /\ n \notin OpenOf(ws) /\ n + 1 \in 1 .. MaxWin + 1
    BY WindowsAssumption DEF Sound, Ids, OpenOf
  <1>2. us \in [Ids -> Records] /\ \A v \in Ids : us[v] = IF v = n THEN w ELSE ws[v]
    BY <1>1 DEF Sound
  <1> HIDE DEF us
  <1>3. OpenOf(us) = OpenOf(ws) \cup {n}
    BY <1>1, <1>2 DEF OpenOf
  <1>4. Lists(Append(s, n), OpenOf(us))
    BY <1>1, <1>3, AppendLists DEF Sound
  <1>5. \A v \in Ids : Proper(us[v]) /\ (v >= n + 1 => us[v].kind = "closed")
    BY <1>1, <1>2 DEF Sound, Ids
  <1> QED BY <1>1, <1>2, <1>3, <1>4, <1>5 DEF Sound, us

-----------------------------------------------------------------------------
(* What the handlers make of a record.                                     *)

LEMMA RecordsChange ==
  ASSUME NEW w \in Records, Proper(w)
  PROVE  /\ Zoomed(w) \in Records /\ Zoomed(w).kind = w.kind /\ Zoomed(w).drag = w.drag
         /\ Dropped(w) \in Records /\ Dropped(w).kind = w.kind /\ ~Dropped(w).drag
         /\ Grabbed(w) \in Records /\ Grabbed(w).kind = w.kind /\ Grabbed(w).drag
         /\ Proper(Dropped(w))
         /\ w.kind # "closed" => Proper(Zoomed(w)) /\ Proper(Grabbed(w))
  <1>1. Full \in Nat
    BY WindowsAssumption
  <1>2. /\ Zoomed(w) \in Records /\ Zoomed(w).kind = w.kind /\ Zoomed(w).drag = w.drag
        /\ Zoomed(w).alloc = w.alloc
    BY <1>1 DEF Zoomed, Records
  <1>3. /\ Dropped(w) \in Records /\ Dropped(w).kind = w.kind /\ ~Dropped(w).drag
        /\ Dropped(w).alloc # 0 => w.alloc # 0 /\ ~w.drag
    BY DEF Dropped, Records
  <1>4. Grabbed(w) \in Records /\ Grabbed(w).kind = w.kind /\ Grabbed(w).drag
    BY DEF Grabbed, Records
  <1>5. w.kind = "closed" => Dropped(w) = Closed
    BY DEF Proper, Dropped, Closed
  <1> QED BY <1>2, <1>3, <1>4, <1>5 DEF Proper
-----------------------------------------------------------------------------
(* Parts of the handlers. Calmly: no window starts to be dragged.          *)

Calmly == \A v \in Ids : win'[v].drag => win[v].drag

Soundly == Sound(win', order', active', nextId')

\* A new window, added to a list that is sound.
LEMMA CreateInSound ==
  ASSUME NEW ws, NEW list, NEW b, Sound(ws, list, b, nextId), scale \in Scales,
         NEW kind \in Kinds, NEW size \in Sizes, NEW alloc \in {0, size},
         alloc # 0 => kind = "program",
         CreateIn(ws, list, kind, size, alloc), active' = b
  PROVE  Soundly /\ \A v \in Ids : win'[v].drag => ws[v].drag
  <1> DEFINE w == [Closed EXCEPT !.kind = kind, !.size = size * scale,
                                 !.orig = size, !.alloc = alloc]
  <1>1. size \in Nat /\ scale \in Nat /\ size * scale \in Nat /\ alloc \in Nat
    BY WindowsAssumption
  <1>2. w \in Records /\ w.kind = kind /\ w.alloc = alloc /\ ~w.drag
    BY <1>1 DEF w, Closed, Records
  <1> HIDE DEF w
  <1>3. Proper(w) /\ w.kind # "closed"
    BY <1>2 DEF Proper, Kinds
  <1>4. /\ nextId <= MaxWin /\ order' = Append(list, nextId)
        /\ win' = [ws EXCEPT ![nextId] = w] /\ nextId' = nextId + 1
    BY DEF CreateIn, w
  <1>5. Sound([ws EXCEPT ![nextId] = w], Append(list, nextId), b, nextId + 1)
    BY <1>2, <1>3, <1>4, CreateSound
  <1>6. nextId \in Ids /\ ws \in [Ids -> Records]
    BY <1>4 DEF Sound, Ids
  <1> QED BY <1>2, <1>4, <1>5, <1>6 DEF Soundly

LEMMA OpenInSound ==
  ASSUME NEW ws, NEW list, NEW b, Sound(ws, list, b, nextId), scale \in Scales,
         OpenIn(ws, list), active' = b
  PROVE  Soundly /\ \A v \in Ids : win'[v].drag => ws[v].drag
  <1>1. PICK kind \in Kinds \ {"program"}, size \in Sizes : CreateIn(ws, list, kind, size, 0)
    BY DEF OpenIn
  <1> QED BY <1>1, CreateInSound

\* Raising a window.
LEMMA RaisedSound ==
  ASSUME Sound(win, order, active, nextId), NEW w \in OpenOf(win)
  PROVE  Sound(win, Raised(w), active, nextId)
  BY RaiseSound DEF Raised, Without

\* A record changes, the window comes to the front or not.
LEMMA OneChangeSound ==
  ASSUME NEW s, NEW b, Sound(win, s, b, nextId),
         NEW w \in Ids, NEW r \in Records, r.kind = win[w].kind, Proper(r)
  PROVE  Sound([win EXCEPT ![w] = r], s, b, nextId)
  <1>1. /\ [win EXCEPT ![w] = r] \in [Ids -> Records]
        /\ \A v \in Ids : [win EXCEPT ![w] = r][v] = IF v = w THEN r ELSE win[v]
    BY DEF Sound
  <1>2. \A v \in Ids : Proper(win[v])
    BY DEF Sound
  <1> QED BY <1>1, <1>2, UpdateSound

\* The windows in the list are the open ones.
LEMMA ListedAreOpen ==
  ASSUME NEW ws, NEW s, NEW b, NEW n, Sound(ws, s, b, n)
  PROVE  {s[i] : i \in DOMAIN s} = OpenOf(ws)
  <1>1. Len(s) \in Nat /\ DOMAIN s = 1 .. Len(s) /\ \A i \in 1 .. Len(s) : s[i] \in OpenOf(ws)
    BY LenProperties, ElementOfSeq DEF Sound, Lists
  <1> QED BY <1>1 DEF Sound, Lists

LEMMA MinimizeSound ==
  ASSUME Sound(win, order, active, nextId), NEW w \in OpenOf(win), Minimize(w)
  PROVE  Soundly /\ Calmly
  <1>1. w \in Ids /\ win \in [Ids -> Records] /\ Proper(win[w])
    BY DEF Sound, OpenOf
  <1>2. PICK r : r = [win[w] EXCEPT !.min = TRUE]
    OBVIOUS
  <1>3. /\ r \in Records /\ r.kind = win[w].kind /\ r.alloc = win[w].alloc
        /\ r.drag = win[w].drag
    <2>1. win[w] \in Records
      BY <1>1
    <2> QED BY <1>2, <2>1 DEF Records
  <1>4. Proper(r)
    BY <1>1, <1>3 DEF Proper, OpenOf
  <1>5. win' = [win EXCEPT ![w] = r]
    BY <1>2 DEF Minimize
  <1>6. Sound([win EXCEPT ![w] = r], order, active, nextId)
    BY <1>1, <1>3, <1>4, OneChangeSound
  <1>7. Soundly
    BY <1>5, <1>6 DEF Minimize, Soundly
  <1> QED BY <1>1, <1>3, <1>5, <1>7 DEF Calmly

LEMMA ZoomSound ==
  ASSUME NEW s, NEW b, Sound(win, s, b, nextId), NEW w \in OpenOf(win),
         win' = [win EXCEPT ![w] = Zoomed(win[w])], order' = s, active' = b, nextId' = nextId
  PROVE  Soundly /\ Calmly
  <1>1. w \in Ids /\ win \in [Ids -> Records] /\ Proper(win[w]) /\ win[w].kind # "closed"
    BY DEF Sound, OpenOf
  <1>2. PICK r \in Records : /\ r = Zoomed(win[w]) /\ r.kind = win[w].kind
                             /\ r.drag = win[w].drag /\ Proper(r)
    BY <1>1, RecordsChange
  <1>3. Soundly
    BY <1>1, <1>2, OneChangeSound DEF Soundly
  <1> QED BY <1>1, <1>2, <1>3 DEF Calmly
-----------------------------------------------------------------------------
(* What menus, the dock and a press do.                                    *)

LEMMA MenuActionSound ==
  ASSUME IInv, MenuAction
  PROVE  Soundly /\ Calmly
  <1>1. Sound(win, order, active, nextId) /\ scale \in Scales
    BY DEF IInv
  <1>2. CASE UNCHANGED windows
    BY <1>1, <1>2 DEF windows, Soundly, Calmly
  <1>3. CASE OpenIn(win, order) /\ UNCHANGED active
    BY <1>1, <1>3, OpenInSound DEF Calmly
  <1>4. CASE order' = <<>> /\ win' = [w \in Ids |-> Closed] /\ active' = 0 /\ UNCHANGED nextId
    <2>1. Closed \in Records /\ Proper(Closed) /\ Closed.kind = "closed" /\ ~Closed.drag
      BY DEF Closed, Records, Proper, Kinds
    <2>2. win' \in [Ids -> Records] /\ \A w \in Ids : win'[w] = Closed
      BY <1>4, <2>1
    <2>3. OpenOf(win') = {}
      BY <2>1, <2>2 DEF OpenOf
    <2>4. Lists(<<>>, {})
      BY EmptySeq DEF Lists
    <2>5. Lists(order', OpenOf(win'))
      BY <1>4, <2>3, <2>4
    <2>6. nextId' \in 1 .. MaxWin + 1
      BY <1>1, <1>4 DEF Sound
    <2> QED BY <1>4, <2>1, <2>2, <2>3, <2>5, <2>6 DEF Soundly, Sound, Calmly
  <1>5. CASE active # 0 /\ Minimize(active)
    <2>1. active \in OpenOf(win)
      BY <1>1, <1>5 DEF Sound
    <2> QED BY <1>1, <1>5, <2>1, MinimizeSound
  <1>6. CASE active # 0 /\ win' = [win EXCEPT ![active] = Zoomed(@)]
                      /\ UNCHANGED <<order, nextId, active>>
    <2>1. active \in OpenOf(win)
      BY <1>1, <1>6 DEF Sound
    <2> QED BY <1>1, <1>6, <2>1, ZoomSound
  <1>7. CASE active' = 0 /\ UNCHANGED <<order, win, nextId>>
    BY <1>1, <1>7, ActiveSound DEF Soundly, Calmly
  <1> QED BY <1>2, <1>3, <1>4, <1>5, <1>6, <1>7 DEF MenuAction

LEMMA FocusSound ==
  ASSUME Sound(win, order, active, nextId), NEW w \in OpenOf(win), Focus(w)
  PROVE  Soundly /\ Calmly
  <1>1. w \in Ids /\ win \in [Ids -> Records] /\ Proper(win[w])
    BY DEF Sound, OpenOf
  <1>2. PICK r : r = [win[w] EXCEPT !.min = FALSE]
    OBVIOUS
  <1>3. /\ r \in Records /\ r.kind = win[w].kind /\ r.alloc = win[w].alloc
        /\ r.drag = win[w].drag
    <2>1. win[w] \in Records
      BY <1>1
    <2> QED BY <1>2, <2>1 DEF Records
  <1>4. Proper(r)
    BY <1>1, <1>3 DEF Proper, OpenOf
  <1>5. win' = [win EXCEPT ![w] = r] /\ order' = Raised(w) /\ UNCHANGED <<nextId, active>>
    BY <1>2 DEF Focus
  <1>6. Sound(win, Raised(w), active, nextId)
    BY RaisedSound
  <1>7. Soundly
    BY <1>1, <1>3, <1>4, <1>5, <1>6, OneChangeSound DEF Soundly
  <1> QED BY <1>1, <1>3, <1>5, <1>7 DEF Calmly

LEMMA FocusOrCreateSound ==
  ASSUME IInv, FocusOrCreate
  PROVE  Soundly /\ Calmly
  <1>1. Sound(win, order, active, nextId) /\ scale \in Scales
    BY DEF IInv
  <1>2. ASSUME NEW i \in DOMAIN order, Focus(order[i])
        PROVE  Soundly /\ Calmly
    <2>1. order[i] \in OpenOf(win)
      BY <1>1, ListedAreOpen
    <2> QED BY <1>1, <1>2, <2>1, FocusSound
  <1>3. ASSUME NEW kind \in {"app", "settings"}, NEW size \in Sizes,
               CreateIn(win, order, kind, size, 0), UNCHANGED active
        PROVE  Soundly /\ Calmly
    BY <1>1, <1>3, CreateInSound DEF Kinds, Calmly
  <1> QED BY <1>2, <1>3 DEF FocusOrCreate

LEMMA PressDesktopSound ==
  ASSUME IInv, PressDesktop
  PROVE  Soundly /\ Calmly
  <1>1. Sound(win, order, 0, nextId) /\ scale \in Scales /\ active' = 0
    BY ActiveSound DEF IInv, PressDesktop
  <1>2. CASE OpenIn(win, order)
    BY <1>1, <1>2, OpenInSound DEF Calmly
  <1>3. CASE UNCHANGED <<order, win, nextId>>
    BY <1>1, <1>3 DEF Soundly, Calmly
  <1> QED BY <1>2, <1>3 DEF PressDesktop

\* A new scale changes the size of windows without a buffer.
LEMMA RescaledSound ==
  ASSUME NEW s, NEW b, Sound(win, s, b, nextId), NEW f \in Scales,
         win' = Rescaled(f), order' = s, active' = b, nextId' = nextId
  PROVE  Soundly /\ Calmly
  <1>1. f \in Nat /\ win \in [Ids -> Records]
    BY WindowsAssumption DEF Sound
  <1>2. ASSUME NEW w \in Ids
        PROVE  /\ win'[w] \in Records /\ win'[w].kind = win[w].kind
               /\ win'[w].drag = win[w].drag /\ Proper(win'[w])
    <2>1. win'[w] = IF win[w].alloc = 0 THEN [win[w] EXCEPT !.size = win[w].orig * f] ELSE win[w]
      BY DEF Rescaled
    <2>2. win[w] \in Records /\ Proper(win[w])
      BY DEF Sound
    <2>3. win[w].orig \in Nat
      BY <2>2 DEF Records
    <2>4. win[w].orig * f \in Nat
      BY <1>1, <2>3
    <2>5. CASE win[w].alloc # 0
      BY <2>1, <2>2, <2>5
    <2>6. CASE win[w].alloc = 0 /\ win[w].kind # "closed"
      BY <2>1, <2>2, <2>4, <2>6 DEF Records, Proper
    <2>7. CASE win[w].alloc = 0 /\ win[w].kind = "closed"
      <3>1. win[w] = Closed
        BY <2>2, <2>7 DEF Proper
      <3>2. win[w].orig * f = 0
        BY <3>1, <1>1 DEF Closed
      <3>3. win'[w] = Closed
        BY <3>1, <3>2, <2>1 DEF Closed
      <3> QED BY <3>1, <3>3, <2>2
    <2> QED BY <2>5, <2>6, <2>7
  <1>3. win' \in [Ids -> Records]
    <2>1. win' = [w \in Ids |-> win'[w]]
      BY DEF Rescaled
    <2> QED BY <2>1, <1>2
  <1>4. Soundly
    BY <1>2, <1>3, UpdateSound DEF Soundly
  <1> QED BY <1>2, <1>4 DEF Calmly
LEMMA CloseWindowSound ==
  ASSUME Sound(win, order, active, nextId), NEW w \in OpenOf(win), Close(w)
  PROVE  Soundly /\ Calmly
  <1>1. w \in Ids /\ win \in [Ids -> Records]
    BY DEF Sound, OpenOf
  <1>2. PICK r : r = Without(w)
    OBVIOUS
  <1>3. /\ win' = [win EXCEPT ![w] = Closed] /\ order' = r /\ UNCHANGED nextId
        /\ active' = IF active = w THEN Front(r) ELSE active
    BY <1>2 DEF Close
  <1>4. Sound([win EXCEPT ![w] = Closed], r, IF active = w THEN Front(r) ELSE active, nextId)
    BY <1>2, CloseSound DEF Without
  <1>5. Soundly
    BY <1>3, <1>4 DEF Soundly
  <1>6. ~Closed.drag
    BY DEF Closed
  <1> QED BY <1>1, <1>3, <1>5, <1>6 DEF Calmly

\* A click in the area of a window.
LEMMA PressClientSound ==
  ASSUME IInv, NEW w \in OpenOf(win), PressClient(w)
  PROVE  Soundly /\ Calmly /\ scale' \in Scales
  <1>1. Sound(win, order, active, nextId) /\ scale \in Scales /\ active' = w
    BY DEF IInv, PressClient
  <1>2. Sound(win, Raised(w), w, nextId)
    BY <1>1, RaisedSound, ActiveSound
  <1>3. CASE order' = Raised(w) /\ UNCHANGED <<win, nextId, scale>>
    BY <1>1, <1>2, <1>3 DEF Soundly, Calmly
  <1>4. CASE PressSettings(w)
    <2>1. PICK f \in Scales : f = scale'
      BY <1>4 DEF PressSettings
    <2>2. /\ win' = Rescaled(f) /\ order' = Raised(w) /\ nextId' = nextId
      BY <1>4, <2>1 DEF PressSettings
    <2> QED BY <1>1, <1>2, <2>1, <2>2, RescaledSound
  <1>5. CASE OpenFile(w)
    <2>1. OpenIn(win, Raised(w)) /\ scale' = scale
      BY <1>5 DEF OpenFile
    <2>2. Soundly /\ \A v \in Ids : win'[v].drag => win[v].drag
      BY <1>1, <1>2, <2>1, OpenInSound
    <2> QED BY <1>1, <2>1, <2>2 DEF Calmly
  <1> QED BY <1>3, <1>4, <1>5 DEF PressClient

\* The title bar: this window starts to be dragged, and no other.
LEMMA PressTitleSound ==
  ASSUME Sound(win, order, active, nextId), NEW w \in OpenOf(win), PressTitle(w)
  PROVE  Soundly /\ active' = w /\ \A v \in Ids : win'[v].drag => v = w \/ win[v].drag
  <1>1. w \in Ids /\ win \in [Ids -> Records] /\ Proper(win[w]) /\ win[w].kind # "closed"
    BY DEF Sound, OpenOf
  <1>2. PICK r \in Records : r = Grabbed(win[w]) /\ r.kind = win[w].kind /\ Proper(r)
    BY <1>1, RecordsChange
  <1>3. Sound(win, Raised(w), w, nextId)
    BY RaisedSound, ActiveSound
  <1>4. /\ win' = [win EXCEPT ![w] = r] /\ order' = Raised(w) /\ active' = w /\ nextId' = nextId
    BY <1>2 DEF PressTitle
  <1>5. Sound([win EXCEPT ![w] = r], Raised(w), w, nextId)
    BY <1>1, <1>2, <1>3, OneChangeSound
  <1> QED BY <1>1, <1>4, <1>5 DEF Soundly

-----------------------------------------------------------------------------
(* The handlers.                                                           *)

LEMMA InitSound == Init => IInv
  <1> SUFFICES ASSUME Init PROVE IInv
    OBVIOUS
  <1>1. MaxWin \in Nat
    BY WindowsAssumption
  <1>2. Closed \in Records /\ Proper(Closed) /\ Closed.kind = "closed" /\ ~Closed.drag
    BY DEF Closed, Records, Proper, Kinds
  <1>3. win \in [Ids -> Records] /\ \A w \in Ids : win[w] = Closed
    BY <1>2 DEF Init
  <1>4. OpenOf(win) = {}
    BY <1>2, <1>3 DEF OpenOf
  <1>5. Lists(<<>>, {})
    BY EmptySeq DEF Lists
  <1>6. Lists(order, OpenOf(win))
    BY <1>4, <1>5 DEF Init
  <1>7. Sound(win, order, active, nextId)
    BY <1>1, <1>2, <1>3, <1>6 DEF Sound, Init
  <1> QED BY <1>2, <1>3, <1>7 DEF IInv, Drags, Init

LEMMA PressPreserves ==
  ASSUME IInv, Press
  PROVE  IInv'
  <1>1. /\ Sound(win, order, active, nextId) /\ scale \in Scales
        /\ {resizing, pressed, swallowed} \subseteq BOOLEAN
        /\ ~pressed /\ pressed' = TRUE /\ swallowed' = swallowed
    BY DEF IInv, Press
  <1>2. ~swallowed => ~resizing /\ \A v \in Ids : ~win[v].drag
    BY <1>1 DEF IInv, Drags
  <1>3. ASSUME Soundly, Calmly, resizing' = resizing, scale' \in Scales
        PROVE  IInv'
    BY <1>1, <1>2, <1>3 DEF IInv, Drags, Soundly, Calmly
  <1>4. ASSUME NEW w \in OpenOf(win), PressWindow(w)
        PROVE  IInv'
    <2>1. CASE PressGrip(w)
      <3>1. Sound(win, Raised(w), w, nextId)
        BY <1>1, RaisedSound, ActiveSound
      <3>2. Soundly
        BY <2>1, <3>1 DEF PressGrip, Soundly
      <3>3. w # 0
        BY DEF OpenOf, Ids
      <3> QED BY <1>1, <1>2, <2>1, <3>2, <3>3 DEF PressGrip, IInv, Drags, Soundly
    <2>2. CASE PressTitle(w)
      <3>1. Soundly /\ active' = w /\ \A v \in Ids : win'[v].drag => v = w \/ win[v].drag
        BY <1>1, <2>2, PressTitleSound
      <3>2. resizing' = resizing /\ scale' = scale
        BY <2>2 DEF PressTitle
      <3> QED BY <1>1, <1>2, <3>1, <3>2 DEF IInv, Drags, Soundly
    <2>3. CASE PressZoom(w)
      <3>1. Sound(win, Raised(w), active, nextId)
        BY <1>1, RaisedSound
      <3>2. /\ win' = [win EXCEPT ![w] = Zoomed(win[w])] /\ order' = Raised(w)
            /\ UNCHANGED <<nextId, active, resizing, scale>>
        BY <2>3 DEF PressZoom
      <3>3. Soundly /\ Calmly
        BY <3>1, <3>2, ZoomSound
      <3> QED BY <1>1, <1>3, <3>2, <3>3
    <2>4. CASE Close(w) /\ UNCHANGED <<resizing, scale>>
      BY <1>1, <1>3, <2>4, CloseWindowSound
    <2>5. CASE Minimize(w) /\ UNCHANGED <<resizing, scale>>
      BY <1>1, <1>3, <2>5, MinimizeSound
    <2>6. CASE PressClient(w) /\ UNCHANGED resizing
      BY <1>3, <2>6, PressClientSound
    <2> QED BY <1>4, <2>1, <2>2, <2>3, <2>4, <2>5, <2>6 DEF PressWindow
  <1>5. CASE (MenuAction \/ FocusOrCreate \/ PressDesktop) /\ UNCHANGED <<resizing, scale>>
    BY <1>1, <1>3, <1>5, MenuActionSound, FocusOrCreateSound, PressDesktopSound
  <1>6. WindowIds = OpenOf(win)
    BY <1>1, ListedAreOpen DEF WindowIds
  <1> QED BY <1>4, <1>5, <1>6 DEF Press

\* Both kinds of drag end with what Put makes of the windows.
LEMMA PutSound ==
  ASSUME IInv
  PROVE  /\ Sound(Put, order, active, nextId)
         /\ \A v \in Ids : Put[v].drag => win[v].drag /\ v # active
  <1>1. Sound(win, order, active, nextId) /\ win \in [Ids -> Records]
    BY DEF IInv, Sound
  <1>2. CASE active = 0
    BY <1>1, <1>2 DEF Put, Ids
  <1>3. CASE active # 0
    <2>1. active \in Ids /\ Proper(win[active]) /\ win[active].kind # "closed"
      BY <1>1, <1>3 DEF Sound, OpenOf
    <2>2. /\ Dropped(win[active]) \in Records /\ Proper(Dropped(win[active]))
          /\ Dropped(win[active]).kind = win[active].kind /\ ~Dropped(win[active]).drag
      BY <1>1, <2>1, RecordsChange
    <2>3. win[active].size \div scale \in Nat
      <3>1. win[active].size \in Nat
        BY <2>1 DEF Proper, Records
      <3>2. scale \in Nat \ {0}
        BY WindowsAssumption DEF IInv
      <3> QED BY <3>1, <3>2
    <2>4. PICK r : r = IF resizing
                         THEN [Dropped(win[active]) EXCEPT !.orig = win[active].size \div scale]
                         ELSE Dropped(win[active])
      OBVIOUS
    <2>5. r \in Records /\ r.kind = win[active].kind /\ ~r.drag /\ Proper(r)
      BY <2>1, <2>2, <2>3, <2>4 DEF Records, Proper
    <2>6. Put = [win EXCEPT ![active] = r]
      BY <1>3, <2>4 DEF Put
    <2>7. Sound([win EXCEPT ![active] = r], order, active, nextId)
      BY <1>1, <2>1, <2>5, OneChangeSound
    <2> QED BY <1>1, <2>1, <2>5, <2>6, <2>7
  <1> QED BY <1>2, <1>3

LEMMA ReleasePreserves ==
  ASSUME IInv, Release
  PROVE  IInv'
  <1>1. /\ Sound(Put, order, active, nextId)
        /\ \A v \in Ids : Put[v].drag => win[v].drag /\ v # active
    BY PutSound
  <1>2. active' = active /\ scale' = scale /\ scale \in Scales
    BY DEF Release, IInv
  <1>3. Soundly /\ \A v \in Ids : win'[v].drag => Put[v].drag
    <2>1. CASE win' = Put /\ UNCHANGED <<order, nextId>>
      BY <1>1, <1>2, <2>1 DEF Soundly
    <2>2. CASE OpenIn(Put, order)
      BY <1>1, <1>2, <2>2, OpenInSound
    <2> QED BY <2>1, <2>2 DEF Release
  <1>4. ~swallowed => (resizing => active # 0) /\ \A v \in Ids : win[v].drag => v = active
    BY DEF IInv, Drags
  <1>5. swallowed' = swallowed /\ resizing' = (resizing /\ active = 0) /\ pressed' = FALSE
    BY DEF Release
  <1> QED BY <1>1, <1>2, <1>3, <1>4, <1>5 DEF IInv, Drags, Soundly
\* A right press in the same event: if a drag was under way, swallowed says so.
LEMMA ReleaseSwallowedPreserves ==
  ASSUME IInv, ReleaseSwallowed
  PROVE  IInv'
  <1>1. Soundly
    BY DEF IInv, ReleaseSwallowed, windows, Soundly
  <1>2. /\ win' = win /\ active' = active /\ resizing' = resizing /\ scale' = scale
        /\ pressed' = FALSE /\ swallowed' = (swallowed \/ Dragging \/ Sizing)
    BY DEF ReleaseSwallowed, windows
  <1>3. ASSUME ~swallowed'
        PROVE  ~resizing /\ \A v \in Ids : ~win[v].drag
    <2>1. ~swallowed /\ ~Dragging /\ ~Sizing
      BY <1>2, <1>3
    <2>2. ~resizing
      BY <2>1 DEF IInv, Drags, Sizing
    <2>3. \A v \in Ids : win[v].drag => v = active /\ v # 0
      BY <2>1 DEF IInv, Drags, Ids
    <2> QED BY <2>1, <2>2, <2>3 DEF Dragging
  <1>4. swallowed' \in BOOLEAN
    BY <1>2 DEF IInv, Dragging, Sizing
  <1> QED BY <1>1, <1>2, <1>3, <1>4 DEF IInv, Drags, Soundly

\* A window changes, but not its kind, its buffer and its being dragged.
LEMMA RecordPreserves ==
  ASSUME IInv, NEW w \in Ids, win[w].kind # "closed", NEW r \in Records,
         r.kind = win[w].kind, r.alloc = win[w].alloc, r.drag = win[w].drag,
         win' = [win EXCEPT ![w] = r],
         UNCHANGED <<order, nextId, active, resizing, pressed, scale, swallowed>>
  PROVE  IInv'
  <1>1. win \in [Ids -> Records] /\ Proper(win[w])
    BY DEF IInv, Sound
  <1>2. Proper(r)
    BY <1>1 DEF Proper
  <1>3. Sound([win EXCEPT ![w] = r], order, active, nextId)
    BY <1>2, OneChangeSound DEF IInv
  <1>4. Sound(win', order', active', nextId')
    BY <1>3
  <1>5. \A v \in Ids : win'[v].drag = win[v].drag
    BY <1>1
  <1> QED BY <1>4, <1>5 DEF IInv, Drags

LEMMA ResizePreserves ==
  ASSUME IInv, Resize
  PROVE  IInv'
  <1>1. PICK size \in Sizes : win' = [win EXCEPT ![active].size = size]
    BY DEF Resize
  <1>2. active \in Ids /\ win[active] \in Records /\ win[active].kind # "closed"
    BY DEF IInv, Sound, OpenOf, Resize, Sizing
  <1>3. size \in Nat
    BY WindowsAssumption
  <1>4. PICK r : r = [win[active] EXCEPT !.size = size]
    OBVIOUS
  <1>5. /\ r \in Records /\ r.kind = win[active].kind /\ r.alloc = win[active].alloc
        /\ r.drag = win[active].drag
    BY <1>2, <1>3, <1>4 DEF Records
  <1>6. win' = [win EXCEPT ![active] = r]
    BY <1>1, <1>4
  <1> QED BY <1>2, <1>5, <1>6, RecordPreserves DEF Resize

\* A key fills the slot for events, a program empties it.
LEMMA EventPreserves ==
  ASSUME IInv, NEW w \in Ids, win[w].kind # "closed", NEW e \in {"none", "key"},
         win' = [win EXCEPT ![w].ev = e],
         UNCHANGED <<order, nextId, active, resizing, pressed, scale, swallowed>>
  PROVE  IInv'
  <1>1. win[w] \in Records
    BY DEF IInv, Sound
  <1>2. PICK r : r = [win[w] EXCEPT !.ev = e]
    OBVIOUS
  <1>3. /\ r \in Records /\ r.kind = win[w].kind /\ r.alloc = win[w].alloc
        /\ r.drag = win[w].drag
    BY <1>1, <1>2 DEF Records
  <1>4. win' = [win EXCEPT ![w] = r]
    BY <1>2
  <1> QED BY <1>3, <1>4, RecordPreserves

LEMMA KeyPreserves ==
  ASSUME IInv, Key
  PROVE  IInv'
  <1>1. active \in Ids /\ win[active].kind # "closed"
    BY DEF IInv, Sound, OpenOf, Key
  <1> QED BY <1>1, EventPreserves DEF Key

LEMMA GetEventPreserves ==
  ASSUME IInv, NEW w \in Ids, GetEvent(w)
  PROVE  IInv'
  <1>1. Proper(win[w]) /\ win[w].ev # "none"
    BY DEF IInv, Sound, GetEvent
  <1>2. win[w].kind # "closed"
    BY <1>1 DEF Proper, Closed
  <1> QED BY <1>2, EventPreserves DEF GetEvent

LEMMA CreateWindowPreserves ==
  ASSUME IInv, CreateWindow
  PROVE  IInv'
  <1>1. PICK size \in Sizes : CreateIn(win, order, "program", size, size)
    BY DEF CreateWindow
  <1>2. UNCHANGED <<active, resizing, pressed, scale, swallowed>>
    BY DEF CreateWindow
  <1>3. Soundly /\ Calmly
    BY <1>1, <1>2, CreateInSound DEF IInv, Kinds, Calmly
  <1> QED BY <1>2, <1>3 DEF IInv, Drags, Soundly, Calmly

\* No handler and no system call breaks the invariant.
LEMMA NextPreserves == IInv /\ [Next]_vars => IInv'
  <1> SUFFICES ASSUME IInv, [Next]_vars PROVE IInv'
    OBVIOUS
  <1>1. CASE UNCHANGED vars
    BY <1>1 DEF vars, windows, IInv, Drags
  <1>2. CASE Press
    BY <1>2, PressPreserves
  <1>3. CASE Resize
    BY <1>3, ResizePreserves
  <1>4. CASE Release
    BY <1>4, ReleasePreserves
  <1>5. CASE ReleaseSwallowed
    BY <1>5, ReleaseSwallowedPreserves
  <1>6. CASE Key
    BY <1>6, KeyPreserves
  <1>7. CASE CreateWindow
    BY <1>7, CreateWindowPreserves
  <1>8. CASE \E w \in Ids : GetEvent(w)
    BY <1>8, GetEventPreserves
  <1> QED BY <1>1, <1>2, <1>3, <1>4, <1>5, <1>6, <1>7, <1>8 DEF Next

-----------------------------------------------------------------------------
(* Theorems.                                                               *)

\* What every handler of the mouse and the keyboard and every window system
\* call keeps: sound lists and records, drags that belong to the button.
THEOREM Invariance == Spec => []IInv
  <1>1. Init => IInv
    BY InitSound
  <1>2. IInv /\ [Next]_vars => IInv'
    BY NextPreserves
  <1> QED BY <1>1, <1>2, PTL DEF Spec

\* Types, and create_window() and destroy_window() leave the records of closed
\* windows empty.
THEOREM TypeCorrect == Spec => []TypeOK
  <1>1. IInv => TypeOK
    <2> SUFFICES ASSUME IInv PROVE TypeOK
      OBVIOUS
    <2>1. win \in [Ids -> Records] /\ \A w \in Ids : Proper(win[w])
      BY DEF IInv, Sound
    <2>2. order \in Seq(Ids)
      <3>1. order \in Seq(OpenOf(win)) /\ OpenOf(win) \subseteq Ids
        BY DEF IInv, Sound, Lists, OpenOf
      <3> QED BY <3>1, SeqMonotonic
    <2>3. active \in Ids \cup {0} /\ nextId \in 1 .. MaxWin + 1
      BY DEF IInv, Sound, OpenOf
    <2>4. \A w \in Ids : win[w].kind = "closed" => win[w] = Closed
      BY <2>1 DEF Proper
    <2> QED BY <2>1, <2>2, <2>3, <2>4 DEF TypeOK, IInv, Records
  <1> QED BY <1>1, Invariance, PTL

\* However windows are raised, closed, focused and created, the linked list
\* holds each open one once and active_window is one of them.
THEOREM ListCorrect == Spec => []ListExact
  <1>1. IInv => ListExact
    <2> SUFFICES ASSUME IInv PROVE ListExact
      OBVIOUS
    <2>1. WindowIds = OpenOf(win)
      BY ListedAreOpen DEF IInv, WindowIds
    <2> QED BY <2>1 DEF ListExact, IInv, Sound, Lists, OpenOf
  <1> QED BY <1>1, Invariance, PTL

\* handle_mouse_move() ends each drag and each resizing with the release of
\* the button, unless a right press in the same event took it.
THEOREM DragsCorrect == Spec => []DragsEnd
  <1>1. IInv => DragsEnd
    BY DEF IInv, Drags, DragsEnd
  <1> QED BY <1>1, Invariance, PTL

\* Grabbing and dropping a window allocate and free its picture in pairs.
THEOREM BuffersCorrect == Spec => []BuffersAccounted
  <1>1. IInv => BuffersAccounted
    BY DEF IInv, Sound, Proper, BuffersAccounted
  <1> QED BY <1>1, Invariance, PTL

(***************************************************************************)
(* Menus.                                                                  *)
(***************************************************************************)
-----------------------------------------------------------------------------
(* Recursion over 0 .. n.                                                  *)

\* A set of numbers that has a member has a first one.
LEMMA LeastExists ==
  ASSUME NEW S \in SUBSET Nat, S # {}
  PROVE  \E i \in S : \A j \in S : i <= j
  <1> DEFINE Less == {ss \in Nat \X Nat : ss[1] < ss[2]}
  <1>1. IsWellFoundedOn(Less, Nat)
    BY NatLessThanWellFounded DEF OpToRel
  <1> HIDE DEF Less
  <1>2. PICK x \in S : \A y \in S : ~ (<<y, x>> \in Less)
    BY <1>1, WFMin
  <1>3. ASSUME NEW y \in S PROVE x <= y
    <2>1. x \in Nat /\ y \in Nat
      OBVIOUS
    <2>2. y < x => <<y, x>> \in Less
      BY <2>1 DEF Less
    <2> QED BY <1>2, <2>1, <2>2
  <1> QED BY <1>3

\* What holds of 0 and passes from each number to the next holds up to n.
LEMMA Reaches ==
  ASSUME NEW n \in Nat, NEW S, 0 \in S, \A i \in 1 .. n : i - 1 \in S => i \in S
  PROVE  \A i \in 0 .. n : i \in S
  <1> DEFINE Bad == {i \in 0 .. n : i \notin S}
  <1>1. SUFFICES ASSUME Bad # {} PROVE FALSE
    OBVIOUS
  <1>2. PICK m \in Bad : \A j \in Bad : m <= j
    <2>1. Bad \in SUBSET Nat
      OBVIOUS
    <2> HIDE DEF Bad
    <2> QED BY <1>1, <2>1, LeastExists
  <1>3. m \in 1 .. n /\ m - 1 \in 0 .. n /\ ~(m <= m - 1)
    BY <1>2
  <1>4. m - 1 \in S
    BY <1>2, <1>3
  <1> QED BY <1>2, <1>3, <1>4

\* g starts with x, and F says how it goes on.
Follows(g, x, F, n) == g[0] = x /\ \A i \in 1 .. n : g[i] = F[<<i, g[i - 1]>>]

LEMMA RecursionExists ==
  ASSUME NEW n \in Nat, NEW V, NEW x \in V, NEW F \in [(1 .. n) \X V -> V]
  PROVE  \E g \in [0 .. n -> V] : Follows(g, x, F, n)
  <1> DEFINE S == {m \in 0 .. n : \E g \in [0 .. m -> V] : Follows(g, x, F, m)}
  <1>1. 0 \in S
    <2> DEFINE g == [i \in 0 .. 0 |-> x]
    <2>1. g \in [0 .. 0 -> V] /\ Follows(g, x, F, 0)
      BY DEF Follows
    <2> QED BY <2>1
  <1>2. ASSUME NEW m \in 1 .. n, m - 1 \in S PROVE m \in S
    <2>1. PICK g \in [0 .. m - 1 -> V] : Follows(g, x, F, m - 1)
      BY <1>2
    <2> DEFINE h == [i \in 0 .. m |-> IF i = m THEN F[<<m, g[m - 1]>>] ELSE g[i]]
    <2>2. F[<<m, g[m - 1]>>] \in V
      <3>1. <<m, g[m - 1]>> \in (1 .. n) \X V
        OBVIOUS
      <3> QED BY <3>1
    <2>3. h \in [0 .. m -> V]
      BY <2>2
    <2>4. \A i \in 0 .. m - 1 : h[i] = g[i]
      OBVIOUS
    <2>5. h[m] = F[<<m, g[m - 1]>>]
      OBVIOUS
    <2> HIDE DEF h
    <2>6. \A i \in 1 .. m : h[i] = F[<<i, h[i - 1]>>]
      <3> SUFFICES ASSUME NEW i \in 1 .. m PROVE h[i] = F[<<i, h[i - 1]>>]
        OBVIOUS
      <3>1. i - 1 \in 0 .. m - 1 /\ h[i - 1] = g[i - 1]
        BY <2>4
      <3>2. CASE i = m
        BY <2>5, <3>1, <3>2
      <3>3. CASE i # m
        <4>1. i \in 1 .. m - 1 /\ i \in 0 .. m - 1
          BY <3>3
        <4>2. g[i] = F[<<i, g[i - 1]>>]
          BY <2>1, <4>1 DEF Follows
        <4> QED BY <2>4, <3>1, <4>1, <4>2
      <3> QED BY <3>2, <3>3
    <2>7. h[0] = x
      BY <2>1, <2>4 DEF Follows
    <2>8. Follows(h, x, F, m)
      BY <2>6, <2>7 DEF Follows
    <2> QED BY <2>3, <2>8
  <1>3. n \in S
    <2> HIDE DEF S
    <2> QED BY <1>1, <1>2, Reaches
  <1> QED BY <1>3

-----------------------------------------------------------------------------
(* Icons.                                                                  *)

Icons == [kind : IconKinds, sel : BOOLEAN]

\* Taking icons out leaves icons, and no more than there were.
LEMMA KeptType ==
  ASSUME NEW s \in Seq(Icons), NEW gone
  PROVE  Kept(s, gone) \in Seq(Icons) /\ Len(Kept(s, gone)) <= Len(s)
  <1>1. PICK n \in Nat : n = Len(s)
    BY LenProperties
  <1> DEFINE V == Seq(Icons)
             Eq(g) == g = [i \in 0 .. n |-> IF i = 0 THEN <<>> ELSE IF i \in gone THEN g[i - 1]
                                            ELSE Append(g[i - 1], s[i])]
             F == [p \in (1 .. n) \X V |-> IF p[1] \in gone THEN p[2] ELSE Append(p[2], s[p[1]])]
             left == CHOOSE g : Eq(g)
  <1>2. \A i \in 1 .. n : s[i] \in Icons
    BY <1>1, ElementOfSeq
  <1>3. F \in [(1 .. n) \X V -> V]
    BY <1>2, AppendProperties
  <1>4. \A i \in 1 .. n, v \in V : F[<<i, v>>] = IF i \in gone THEN v ELSE Append(v, s[i])
    OBVIOUS
  <1> HIDE DEF F
  <1>5. PICK g \in [0 .. n -> V] : Follows(g, <<>>, F, n)
    <2>1. <<>> \in V
      OBVIOUS
    <2> HIDE DEF V
    <2> QED BY <1>3, <2>1, RecursionExists
  <1>6. Eq(g)
    <2>1. g = [i \in 0 .. n |-> g[i]]
      OBVIOUS
    <2>2. \A i \in 0 .. n : g[i] = IF i = 0 THEN <<>> ELSE IF i \in gone THEN g[i - 1]
                                   ELSE Append(g[i - 1], s[i])
      <3>1. \A i \in 1 .. n : i - 1 \in 0 .. n /\ g[i - 1] \in V
        OBVIOUS
      <3>2. \A i \in 1 .. n : g[i] = F[<<i, g[i - 1]>>]
        BY <1>5 DEF Follows
      <3>3. \A i \in 1 .. n : g[i] = IF i \in gone THEN g[i - 1] ELSE Append(g[i - 1], s[i])
        BY <1>4, <3>1, <3>2
      <3>4. g[0] = <<>>
        BY <1>5 DEF Follows
      <3>5. \A i \in 0 .. n : i = 0 \/ i \in 1 .. n
        OBVIOUS
      <3> QED BY <3>3, <3>4, <3>5
    <2> QED BY <2>1, <2>2
  <1>7. Eq(left)
    BY <1>6
  <1>8. Kept(s, gone) = left[n]
    BY <1>1 DEF Kept
  <1> HIDE DEF left
  <1>9. /\ left[0] = <<>>
        /\ \A i \in 1 .. n : left[i] = IF i \in gone THEN left[i - 1] ELSE Append(left[i - 1], s[i])
    <2>1. left = [i \in 0 .. n |-> IF i = 0 THEN <<>> ELSE IF i \in gone THEN left[i - 1]
                                  ELSE Append(left[i - 1], s[i])]
      BY <1>7
    <2>2. ASSUME NEW i \in 0 .. n
          PROVE  left[i] = IF i = 0 THEN <<>> ELSE IF i \in gone THEN left[i - 1]
                           ELSE Append(left[i - 1], s[i])
      BY <2>1
    <2>3. 0 \in 0 .. n /\ \A i \in 1 .. n : i \in 0 .. n /\ i # 0
      OBVIOUS
    <2> QED BY <2>2, <2>3
  <1> DEFINE S == {i \in 0 .. n : left[i] \in Seq(Icons) /\ Len(left[i]) <= i}
  <1>10. 0 \in S
    <2>1. left[0] \in Seq(Icons) /\ Len(left[0]) = 0
      BY <1>9, EmptySeq
    <2> QED BY <2>1
  <1>11. ASSUME NEW i \in 1 .. n, i - 1 \in S PROVE i \in S
    <2>1. left[i - 1] \in Seq(Icons) /\ Len(left[i - 1]) <= i - 1 /\ Len(left[i - 1]) \in Nat
      BY <1>11, LenProperties
    <2>2. CASE i \in gone
      BY <1>9, <2>1, <2>2
    <2>3. CASE i \notin gone
      <3>1. PICK a \in Seq(Icons) : a = left[i - 1]
        BY <2>1
      <3>2. PICK it \in Icons : it = s[i]
        BY <1>2
      <3>3. Append(a, it) \in Seq(Icons) /\ Len(Append(a, it)) = Len(a) + 1
        BY AppendProperties
      <3>4. left[i] = Append(a, it)
        BY <1>9, <2>3, <3>1, <3>2
      <3>5. Len(left[i]) = Len(a) + 1 /\ left[i] \in Seq(Icons)
        BY <3>3, <3>4
      <3>6. Len(a) \in Nat /\ Len(a) <= i - 1
        BY <2>1, <3>1
      <3>7. Len(left[i]) <= i
        BY <3>5, <3>6
      <3> QED BY <3>5, <3>7
    <2> QED BY <2>2, <2>3
  <1>12. n \in S
    <2> HIDE DEF S
    <2>1. \A i \in 1 .. n : i - 1 \in S => i \in S
      BY <1>11
    <2>2. \A i \in 0 .. n : i \in S
      BY <1>10, <2>1, Reaches
    <2> QED BY <2>2
  <1> QED BY <1>1, <1>8, <1>12

LEMMA AddedType ==
  ASSUME NEW s \in Seq(Icons), Len(s) <= MaxIcons, NEW kind \in IconKinds
  PROVE  Added(s, kind) \in Seq(Icons) /\ Len(Added(s, kind)) <= MaxIcons
  <1>1. PICK it \in Icons : it = [kind |-> kind, sel |-> FALSE]
    BY DEF Icons
  <1>2. Len(s) \in Nat /\ MaxIcons \in Nat
    BY LenProperties, MenusAssumption
  <1>3. Append(s, it) \in Seq(Icons) /\ Len(Append(s, it)) = Len(s) + 1
    BY AppendProperties
  <1> QED BY <1>1, <1>2, <1>3 DEF Added

LEMMA UnusbType ==
  ASSUME NEW s \in Seq(Icons)
  PROVE  Unusb(s) \in Seq(Icons) /\ Len(Unusb(s)) <= Len(s)
  BY KeptType DEF Unusb

LEMMA SelectType ==
  ASSUME icons \in Seq(Icons), NEW S
  PROVE  SelectOnly(S) \in Seq(Icons) /\ Len(SelectOnly(S)) = Len(icons)
  <1>1. PICK n \in Nat : n = Len(icons) /\ DOMAIN icons = 1 .. n
    BY LenProperties
  <1>2. SelectOnly(S) = [i \in 1 .. n |-> [icons[i] EXCEPT !.sel = i \in S]]
    BY <1>1 DEF SelectOnly
  <1>3. \A i \in 1 .. n : [icons[i] EXCEPT !.sel = i \in S] \in Icons
    <2> SUFFICES ASSUME NEW i \in 1 .. n PROVE [icons[i] EXCEPT !.sel = i \in S] \in Icons
      OBVIOUS
    <2>1. icons[i] \in Icons
      BY <1>1, ElementOfSeq
    <2>2. (i \in S) \in BOOLEAN
      OBVIOUS
    <2>3. \A b \in BOOLEAN : [icons[i] EXCEPT !.sel = b] \in Icons
      BY <2>1 DEF Icons
    <2> QED BY <2>2, <2>3, Zenon
  <1>4. SelectOnly(S) \in Seq(Icons)
    BY <1>2, <1>3, IsASeq
  <1>5. DOMAIN SelectOnly(S) = 1 .. n
    BY <1>2
  <1> QED BY <1>1, <1>4, <1>5, LenProperties

-----------------------------------------------------------------------------
(* Items. Which of a menu can be chosen depends on the clipboard alone.      *)

ItemsOf(t, clip, ejects) ==
  CASE t = 0   -> <<Act("window"), Act("halt"), Act("halt")>>
    [] t \in {1, 3, 8} -> <<Act("window"), Act("window")>>
    [] t = 2   -> <<SubMenu(100), Act("window"), SubMenu(101), Act("none")>>
    [] t = 4   -> <<Greyed, Greyed, Act("cut"), Act("copy")>>
    [] t = 5   -> <<Act("none"), Act("none")>>
    [] t = 6   -> <<Act("none"), Act("none"), Act("none"), Act("none")>>
    [] t = 7   -> <<Act("window"), Act("window"), Act("none")>>
    [] t = 9   -> <<Act("copy"), Act("cut"), Act("none"), Act("delete")>>
    [] t = 10  -> <<[Act("paste") EXCEPT !.on = clip], SubMenu(100)>>
    [] t = 11  -> <<Act("window"), Act("none"), Act(IF ejects THEN "eject" ELSE "delete"), Act("none")>>
    [] t = 100 -> <<Act("dir"), Act("file")>>
    [] t = 101 -> <<Act("none"), Act("none"), Act("none"), Act("none")>>

AllTypes == {0, 1, 2, 3, 4, 5, 6, 7, 8, 9, 10, 11, 100, 101}

Count(t) ==
  IF t \in {0, 7} THEN 3 ELSE IF t \in {1, 3, 5, 8, 10, 100} THEN 2 ELSE 4

Choosable(t, clip, i) ==
  i \in 1 .. Count(t) /\ ~(t = 4 /\ i \in {1, 2}) /\ (t = 10 /\ i = 1 => clip)

LEMMA ItemsFacts ==
  ASSUME NEW t \in AllTypes, NEW clip \in BOOLEAN, NEW ejects
  PROVE  /\ DOMAIN ItemsOf(t, clip, ejects) = 1 .. Count(t) /\ Count(t) \in 1 .. 4
         /\ \A i \in 1 .. Count(t) : /\ ItemsOf(t, clip, ejects)[i].on <=> Choosable(t, clip, i)
                                     /\ ItemsOf(t, clip, ejects)[i].sub \in {0, 100, 101}
  <1>1. CASE t = 0
    <2>1. ItemsOf(t, clip, ejects) = <<Act("window"), Act("halt"), Act("halt")>>
      BY <1>1 DEF ItemsOf
    <2> QED BY <1>1, <2>1 DEF Count, Choosable, Act, Greyed, SubMenu
  <1>2. CASE t \in {1, 3, 8}
    <2>1. ItemsOf(t, clip, ejects) = <<Act("window"), Act("window")>>
      BY <1>2 DEF ItemsOf
    <2> QED BY <1>2, <2>1 DEF Count, Choosable, Act, Greyed, SubMenu
  <1>3. CASE t = 2
    <2>1. ItemsOf(t, clip, ejects) = <<SubMenu(100), Act("window"), SubMenu(101), Act("none")>>
      BY <1>3 DEF ItemsOf
    <2> QED BY <1>3, <2>1 DEF Count, Choosable, Act, Greyed, SubMenu
  <1>4. CASE t = 4
    <2>1. ItemsOf(t, clip, ejects) = <<Greyed, Greyed, Act("cut"), Act("copy")>>
      BY <1>4 DEF ItemsOf
    <2> QED BY <1>4, <2>1 DEF Count, Choosable, Act, Greyed, SubMenu
  <1>5. CASE t = 5
    <2>1. ItemsOf(t, clip, ejects) = <<Act("none"), Act("none")>>
      BY <1>5 DEF ItemsOf
    <2> QED BY <1>5, <2>1 DEF Count, Choosable, Act, Greyed, SubMenu
  <1>6. CASE t \in {6, 101}
    <2>1. ItemsOf(t, clip, ejects) = <<Act("none"), Act("none"), Act("none"), Act("none")>>
      BY <1>6 DEF ItemsOf
    <2> QED BY <1>6, <2>1 DEF Count, Choosable, Act, Greyed, SubMenu
  <1>7. CASE t = 7
    <2>1. ItemsOf(t, clip, ejects) = <<Act("window"), Act("window"), Act("none")>>
      BY <1>7 DEF ItemsOf
    <2> QED BY <1>7, <2>1 DEF Count, Choosable, Act, Greyed, SubMenu
  <1>8. CASE t = 9
    <2>1. ItemsOf(t, clip, ejects) = <<Act("copy"), Act("cut"), Act("none"), Act("delete")>>
      BY <1>8 DEF ItemsOf
    <2> QED BY <1>8, <2>1 DEF Count, Choosable, Act, Greyed, SubMenu
  <1>9. CASE t = 10
    <2>1. ItemsOf(t, clip, ejects) = <<[Act("paste") EXCEPT !.on = clip], SubMenu(100)>>
      BY <1>9 DEF ItemsOf
    <2>2. [Act("paste") EXCEPT !.on = clip].on = clip /\ [Act("paste") EXCEPT !.on = clip].sub = 0
      BY DEF Act
    <2> QED BY <1>9, <2>1, <2>2 DEF Count, Choosable, Act, Greyed, SubMenu
  <1>10. CASE t = 11
    <2>1. PICK a : a = IF ejects THEN "eject" ELSE "delete"
      OBVIOUS
    <2>2. ItemsOf(t, clip, ejects) = <<Act("window"), Act("none"), Act(a), Act("none")>>
      BY <1>10, <2>1 DEF ItemsOf
    <2> QED BY <1>10, <2>2 DEF Count, Choosable, Act, Greyed, SubMenu
  <1>11. CASE t = 100
    <2>1. ItemsOf(t, clip, ejects) = <<Act("dir"), Act("file")>>
      BY <1>11 DEF ItemsOf
    <2> QED BY <1>11, <2>1 DEF Count, Choosable, Act, Greyed, SubMenu
  <1> QED BY <1>1, <1>2, <1>3, <1>4, <1>5, <1>6, <1>7, <1>8, <1>9, <1>10, <1>11 DEF AllTypes

LEMMA ItemsAre ==
  ASSUME NEW t \in AllTypes, clipboard \in BOOLEAN
  PROVE  /\ DOMAIN Items(t) = 1 .. Count(t) /\ Len(Items(t)) = Count(t) /\ Count(t) \in 1 .. 4
         /\ \A i \in 1 .. Count(t) : Items(t)[i].sub \in {0, 100, 101}
         /\ \A i : Offers(t, i) <=> Choosable(t, clipboard, i)
  <1>1. Items(t) = ItemsOf(t, clipboard, UsbSelected)
    BY DEF Items, ItemsOf
  <1>2. PICK u : u = UsbSelected
    OBVIOUS
  <1>3. PICK its : its = ItemsOf(t, clipboard, u)
    OBVIOUS
  <1>4. /\ DOMAIN its = 1 .. Count(t) /\ Count(t) \in 1 .. 4
        /\ \A i \in 1 .. Count(t) : (its[i].on <=> Choosable(t, clipboard, i)) /\ its[i].sub \in {0, 100, 101}
    BY <1>3, ItemsFacts
  <1>5. Items(t) = its
    BY <1>1, <1>2, <1>3
  <1>6. \A i : Choosable(t, clipboard, i) => i \in 1 .. Count(t)
    BY DEF Choosable
  <1>7. Len(its) = Count(t)
    BY <1>4
  <1> QED BY <1>4, <1>5, <1>6, <1>7 DEF Offers

-----------------------------------------------------------------------------
(* The inductive invariant.                                                  *)

MenuRecords == [on : BOOLEAN, type : Types \cup {0}, hover : 0 .. 4]
SubRecords  == [on : BOOLEAN, type : {0, 100, 101}, hover : 0 .. 4]

Pointing(m, clip) == m.on /\ m.hover # 0 => Choosable(m.type, clip, m.hover)

MenusFit ==
  /\ menu \in MenuRecords /\ sub \in SubRecords
  /\ Pointing(menu, clipboard) /\ Pointing(sub, clipboard)

DiskFits ==
  /\ icons \in Seq(Icons) /\ Len(icons) <= MaxIcons
  /\ usb \in BOOLEAN /\ clipboard \in BOOLEAN

DragsFit ==
  /\ held \in Nat /\ selecting \in BOOLEAN /\ lostDrop \in BOOLEAN
  /\ buttons \in [left : BOOLEAN, right : BOOLEAN]
  /\ IconDragsEnd

MenusInv == MenusFit /\ DiskFits /\ DragsFit /\ halted \in BOOLEAN

LEMMA TypesAre ==
  /\ Types \cup {0} \subseteq AllTypes /\ {0, 100, 101} \subseteq AllTypes
  /\ \A t \in {100, 101} : \A c1, c2 \in BOOLEAN : \A i :
       Choosable(t, c1, i) <=> Choosable(t, c2, i)
  BY MenusAssumption DEF Types, AllTypes, Choosable

LEMMA NoMenuFits ==
  /\ NoMenu \in MenuRecords /\ NoMenu \in SubRecords /\ \A c : Pointing(NoMenu, c)
  BY DEF NoMenu, MenuRecords, SubRecords, Pointing

LEMMA MenusInitFits == MenusInit => MenusInv
  <1> SUFFICES ASSUME MenusInit PROVE MenusInv
    OBVIOUS
  <1>1. MenusFit
    BY NoMenuFits DEF MenusInit, MenusFit
  <1>2. icons \in Seq(Icons)
    <2>1. \A i \in 1 .. Len(FirstIcons) : FirstIcons[i] \in Icons
      <3> SUFFICES ASSUME NEW i \in 1 .. Len(FirstIcons) PROVE FirstIcons[i] \in Icons
        OBVIOUS
      <3>1. FirstIcons[i] \in [kind : IconKinds, sel : {FALSE}]
        BY MenusAssumption, ElementOfSeq
      <3> QED BY <3>1 DEF Icons
    <2>2. Len(FirstIcons) \in Nat /\ FirstIcons = [i \in 1 .. Len(FirstIcons) |-> FirstIcons[i]]
      BY MenusAssumption, LenProperties
    <2>3. [i \in 1 .. Len(FirstIcons) |-> FirstIcons[i]] \in Seq(Icons)
      BY <2>1, <2>2, IsASeq
    <2> QED BY <2>2, <2>3 DEF MenusInit
  <1>3. DiskFits
    BY <1>2, MenusAssumption DEF MenusInit, DiskFits
  <1>4. DragsFit /\ halted \in BOOLEAN
    <2>1. Len(icons) \in Nat
      BY <1>2, LenProperties
    <2>2. held \in Nat /\ held <= Len(icons) /\ held = 0
      BY <2>1 DEF MenusInit
    <2>3. selecting = FALSE /\ lostDrop \in BOOLEAN /\ selecting \in BOOLEAN /\ halted \in BOOLEAN
      BY DEF MenusInit
    <2>4. buttons \in [left : BOOLEAN, right : BOOLEAN]
      BY DEF MenusInit
    <2>5. IconDragsEnd
      BY <2>2, <2>3 DEF IconDragsEnd
    <2> QED BY <2>2, <2>3, <2>4, <2>5 DEF DragsFit
  <1> QED BY <1>1, <1>3, <1>4 DEF MenusInv

-----------------------------------------------------------------------------
(* Every part of the handler keeps it.                                       *)

LEMMA CutFits ==
  ASSUME DiskFits, NEW finder \in BOOLEAN, Cut(finder)
  PROVE  DiskFits'
  BY DEF DiskFits, Cut

LEMMA DeleteFits ==
  ASSUME DiskFits, NEW finder \in BOOLEAN, Delete(finder)
  PROVE  DiskFits'
  <1>1. icons' = icons \/ \E gone : icons' = Kept(icons, gone)
    BY DEF Delete
  <1>2. icons' \in Seq(Icons) /\ Len(icons') <= MaxIcons
    <2>1. CASE icons' = icons
      BY <2>1 DEF DiskFits
    <2>2. CASE \E gone : icons' = Kept(icons, gone)
      <3>1. icons' \in Seq(Icons) /\ Len(icons') <= Len(icons)
        BY <2>2, KeptType DEF DiskFits
      <3> QED BY <3>1, MenusAssumption, LenProperties DEF DiskFits
    <2> QED BY <1>1, <2>1, <2>2
  <1> QED BY <1>2 DEF DiskFits, Delete

LEMMA PasteFits ==
  ASSUME DiskFits, Paste
  PROVE  DiskFits'
  <1>1. CASE UNCHANGED <<icons, clipboard>>
    BY <1>1 DEF DiskFits, Paste
  <1>2. CASE ~UNCHANGED <<icons, clipboard>>
    <2>1. PICK old, src, k : /\ k \in {"dir", "file"} /\ icons' = Kept(Added(Kept(icons, old), k), src)
                             /\ clipboard' = FALSE \/ clipboard' = clipboard
      BY <1>2 DEF Paste
    <2>2. PICK a : a = Kept(icons, old)
      OBVIOUS
    <2>3. a \in Seq(Icons) /\ Len(a) <= Len(icons) /\ Len(icons) <= MaxIcons /\ Len(icons) \in Nat
      BY <2>2, KeptType, LenProperties DEF DiskFits
    <2>4. Len(a) <= MaxIcons /\ Len(a) \in Nat /\ MaxIcons \in Nat
      BY <2>3, LenProperties, MenusAssumption
    <2>5. PICK b : b = Added(a, k)
      OBVIOUS
    <2>6. b \in Seq(Icons) /\ Len(b) <= MaxIcons /\ Len(b) \in Nat
      BY <2>1, <2>3, <2>4, <2>5, AddedType, LenProperties DEF IconKinds
    <2>7. icons' \in Seq(Icons) /\ Len(icons') <= Len(b)
      BY <2>1, <2>2, <2>5, <2>6, KeptType
    <2>8. Len(icons') \in Nat
      BY <2>7, LenProperties
    <2>9. icons' \in Seq(Icons) /\ Len(icons') <= MaxIcons
      BY <2>4, <2>6, <2>7, <2>8
    <2> QED BY <2>1, <2>9 DEF DiskFits, Paste
  <1> QED BY <1>1, <1>2

LEMMA UnusbFits ==
  ASSUME DiskFits
  PROVE  Unusb(icons) \in Seq(Icons) /\ Len(Unusb(icons)) <= MaxIcons
  <1>1. PICK u : u = Unusb(icons)
    OBVIOUS
  <1>2. u \in Seq(Icons) /\ Len(u) <= Len(icons) /\ Len(icons) \in Nat /\ Len(u) \in Nat
    BY <1>1, UnusbType, LenProperties DEF DiskFits
  <1>3. Len(icons) <= MaxIcons /\ MaxIcons \in Nat
    BY MenusAssumption DEF DiskFits
  <1> QED BY <1>1, <1>2, <1>3

LEMMA ExecuteFits ==
  ASSUME DiskFits, NEW a, Execute(a)
  PROVE  DiskFits' /\ halted' \in BOOLEAN
  <1>1. PICK finder \in BOOLEAN :
          CASE a \in {"dir", "file"} -> icons' = Added(icons, a) /\ UNCHANGED <<usb, clipboard>>
            [] a \in {"cut", "copy"} -> Cut(finder)
            [] a = "delete" -> Delete(finder)
            [] a = "paste" -> Paste
            [] a = "eject" -> icons' = Unusb(icons) /\ usb' = FALSE /\ UNCHANGED clipboard
            [] OTHER -> UNCHANGED disk
    BY DEF Execute
  <1>2. CASE a \in {"dir", "file"}
    <2>1. icons' = Added(icons, a) /\ UNCHANGED <<usb, clipboard>>
      BY <1>1, <1>2
    <2>2. icons' \in Seq(Icons) /\ Len(icons') <= MaxIcons
      BY <1>2, <2>1, AddedType DEF DiskFits, IconKinds
    <2> QED BY <2>1, <2>2 DEF DiskFits, Execute
  <1>3. CASE a \in {"cut", "copy"}
    BY <1>1, <1>3, CutFits DEF Execute
  <1>4. CASE a = "delete"
    BY <1>1, <1>4, DeleteFits DEF Execute
  <1>5. CASE a = "paste"
    BY <1>1, <1>5, PasteFits DEF Execute
  <1>6. CASE a = "eject"
    <2>1. icons' = Unusb(icons) /\ usb' = FALSE /\ UNCHANGED clipboard
      BY <1>1, <1>6
    <2> QED BY <2>1, UnusbFits DEF DiskFits, Execute
  <1>7. CASE a \notin {"dir", "file", "cut", "copy", "delete", "paste", "eject"}
    <2>1. UNCHANGED disk
      BY <1>1, <1>7
    <2> QED BY <2>1 DEF DiskFits, disk, Execute
  <1> QED BY <1>2, <1>3, <1>4, <1>5, <1>6, <1>7

LEMMA OpenFits ==
  ASSUME NEW type \in Types, OpenMenu(type)
  PROVE  menu' \in MenuRecords /\ \A c : Pointing(menu', c)
  BY DEF OpenMenu, MenuRecords, Pointing

LEMMA RightClickFits ==
  ASSUME MenusInv, RightClick
  PROVE  MenusFit' /\ DiskFits' /\ halted' \in BOOLEAN /\ Len(icons') = Len(icons)
  <1>1. menu' \in MenuRecords /\ \A c : Pointing(menu', c)
    BY OpenFits DEF RightClick, Types
  <1>2. sub' = sub /\ clipboard' = clipboard /\ usb' = usb /\ halted' = halted
    BY DEF RightClick
  <1>3. icons' \in Seq(Icons) /\ Len(icons') = Len(icons)
    BY SelectType DEF RightClick, MenusInv, DiskFits
  <1>4. MenusFit'
    BY <1>1, <1>2 DEF MenusInv, MenusFit
  <1> QED BY <1>2, <1>3, <1>4 DEF MenusInv, DiskFits

LEMMA NoneOpenFits ==
  ASSUME NoneOpen
  PROVE  MenusFit'
  BY NoMenuFits DEF NoneOpen, MenusFit

LEMMA ClickMenuFits ==
  ASSUME MenusInv, ClickMenu
  PROVE  MenusFit' /\ DiskFits' /\ halted' \in BOOLEAN
  <1>1. CASE ClickSub
    <2>1. MenusFit'
      BY <1>1, NoneOpenFits DEF ClickSub
    <2>2. CASE sub.hover # 0
      BY <1>1, <2>1, <2>2, ExecuteFits DEF ClickSub, MenusInv
    <2>3. CASE sub.hover = 0
      BY <1>1, <2>1, <2>3 DEF ClickSub, MenusInv, DiskFits, disk
    <2> QED BY <2>2, <2>3
  <1>2. CASE ClickMain
    <2>1. CASE menu.hover # 0 /\ Items(menu.type)[menu.hover].sub = 0
      BY <1>2, <2>1, NoneOpenFits, ExecuteFits DEF ClickMain, MenusInv
    <2>2. CASE ~(menu.hover # 0 /\ Items(menu.type)[menu.hover].sub = 0)
      BY <1>2, <2>2 DEF ClickMain, MenusInv, MenusFit, DiskFits, menus, disk
    <2> QED BY <2>1, <2>2
  <1>3. CASE NoneOpen /\ UNCHANGED <<disk, halted>>
    BY <1>3, NoneOpenFits DEF MenusInv, DiskFits, disk
  <1> QED BY <1>1, <1>2, <1>3 DEF ClickMenu

LEMMA ClickBelowFits ==
  ASSUME MenusInv, ClickBelow
  PROVE  MenusFit' /\ DiskFits' /\ halted' \in BOOLEAN
  <1>1. sub' = sub /\ clipboard' = clipboard /\ halted' = halted
    BY DEF ClickBelow, ClickBar, ClickUsb, ClickIcon, ClickDesktop, ClickWindow, disk
  <1>2. menu' \in MenuRecords /\ \A c : Pointing(menu', c)
    <2>1. CASE menu' = NoMenu
      BY <2>1, NoMenuFits
    <2>2. CASE ClickBar
      BY <2>2, OpenFits DEF ClickBar, Types
    <2> QED BY <2>1, <2>2 DEF ClickBelow, ClickUsb, ClickIcon, ClickDesktop, ClickWindow
  <1>3. MenusFit'
    BY <1>1, <1>2 DEF MenusInv, MenusFit
  <1>4. usb' \in BOOLEAN
    BY DEF ClickBelow, ClickBar, ClickUsb, ClickIcon, ClickDesktop, ClickWindow, disk, MenusInv, DiskFits
  <1>5. icons' \in Seq(Icons) /\ Len(icons') <= MaxIcons
    <2>1. CASE icons' = icons
      BY <2>1 DEF MenusInv, DiskFits
    <2>2. CASE icons' = Unusb(icons)
      BY <2>2, UnusbFits DEF MenusInv
    <2>3. CASE \E k \in IconKinds : icons' = Added(icons, k)
      BY <2>3, AddedType DEF MenusInv, DiskFits
    <2>4. CASE \E S : icons' = SelectOnly(S)
      BY <2>4, SelectType DEF MenusInv, DiskFits
    <2>5. ClickBar => icons' = icons
      BY DEF ClickBar, disk
    <2>6. ClickUsb => icons' = Unusb(icons) \/ \E k \in IconKinds : icons' = Added(icons, k)
      BY DEF ClickUsb, IconKinds
    <2>7. ClickIcon \/ ClickDesktop => \E S : icons' = SelectOnly(S)
      BY DEF ClickIcon, ClickDesktop
    <2>8. ClickWindow => icons' = icons \/ \E k \in IconKinds : icons' = Added(icons, k)
      BY DEF ClickWindow, IconKinds
    <2> QED BY <2>1, <2>2, <2>3, <2>4, <2>5, <2>6, <2>7, <2>8 DEF ClickBelow
  <1> QED BY <1>1, <1>3, <1>4, <1>5 DEF MenusInv, DiskFits

LEMMA SelectIconsFits ==
  ASSUME MenusInv, SelectIcons
  PROVE  MenusFit' /\ DiskFits' /\ halted' \in BOOLEAN /\ Len(icons') = Len(icons)
  <1>1. menu' = menu /\ sub' = sub /\ clipboard' = clipboard /\ usb' = usb /\ halted' = halted
    BY DEF SelectIcons, menus
  <1>2. icons' \in Seq(Icons) /\ Len(icons') = Len(icons)
    BY SelectType DEF SelectIcons, MenusInv, DiskFits
  <1> QED BY <1>1, <1>2 DEF MenusInv, MenusFit, DiskFits

\* An item is hovered only where there is one that can be chosen, and a submenu
\* that opens has none hovered.
LEMMA HoverFits ==
  ASSUME MenusInv, NEW i, NEW j, Hover(i, j), UNCHANGED <<disk, halted>>
  PROVE  MenusFit' /\ DiskFits' /\ halted' \in BOOLEAN
  <1>1. /\ menu \in MenuRecords /\ sub \in SubRecords /\ clipboard \in BOOLEAN
        /\ Pointing(menu, clipboard) /\ Pointing(sub, clipboard)
        /\ clipboard' = clipboard
    BY DEF MenusInv, MenusFit, DiskFits, disk
  <1>2. menu.type \in AllTypes /\ sub.type \in AllTypes
    BY <1>1, TypesAre DEF MenuRecords, SubRecords
  <1>3. \A h : (Offers(menu.type, h) <=> Choosable(menu.type, clipboard, h))
               /\ (Offers(menu.type, h) => h \in 1 .. 4 /\ Items(menu.type)[h].sub \in {0, 100, 101})
    <2>1. PICK t \in AllTypes : t = menu.type
      BY <1>2
    <2>2. /\ Count(t) \in 1 .. 4
          /\ \A h \in 1 .. Count(t) : Items(t)[h].sub \in {0, 100, 101}
          /\ \A h : Offers(t, h) <=> Choosable(t, clipboard, h)
      BY <1>1, ItemsAre
    <2>3. \A h : Choosable(t, clipboard, h) => h \in 1 .. Count(t)
      BY DEF Choosable
    <2> QED BY <2>1, <2>2, <2>3
  <1>4. \A h : (Offers(sub.type, h) <=> Choosable(sub.type, clipboard, h))
               /\ (Offers(sub.type, h) => h \in 1 .. 4)
    <2>1. PICK t \in AllTypes : t = sub.type
      BY <1>2
    <2>2. Count(t) \in 1 .. 4 /\ \A h : Offers(t, h) <=> Choosable(t, clipboard, h)
      BY <1>1, ItemsAre
    <2>3. \A h : Choosable(t, clipboard, h) => h \in 1 .. Count(t)
      BY DEF Choosable
    <2> QED BY <2>1, <2>2, <2>3
  <1> DEFINE item == IF j > 0 /\ Offers(menu.type, j) THEN j ELSE 0
             to   == IF item = 0 THEN 0 ELSE Items(menu.type)[item].sub
             left == IF sub.on /\ j = -1 THEN NoMenu ELSE sub
             new  == [on |-> TRUE, type |-> to, hover |-> 0]
             over == IF i > 0 /\ Offers(sub.type, i) THEN i ELSE 0
  <1>5. \/ ~menu.on /\ menu' = menu /\ sub' = sub
        \/ sub' = [sub EXCEPT !.hover = over] /\ menu' = menu
        \/ /\ menu' = [menu EXCEPT !.hover = item]
           /\ sub' \in {new, left, NoMenu}
    BY DEF Hover, menus
  <1>6. item \in 0 .. 4 /\ (item # 0 => Choosable(menu.type, clipboard, item)) /\ to \in {0, 100, 101}
    BY <1>3
  <1>7. over \in 0 .. 4 /\ (over # 0 => Choosable(sub.type, clipboard, over))
    BY <1>4
  <1>8. left \in SubRecords /\ Pointing(left, clipboard)
    BY <1>1, NoMenuFits
  <1>9. new \in SubRecords /\ Pointing(new, clipboard)
    BY <1>6 DEF SubRecords, Pointing
  <1> HIDE DEF item, to, left, new, over
  <1>10. MenusFit'
    <2>1. CASE menu' = menu /\ sub' = sub
      BY <1>1, <2>1 DEF MenusFit
    <2>2. CASE sub' = [sub EXCEPT !.hover = over] /\ menu' = menu
      <3>1. sub' \in SubRecords /\ Pointing(sub', clipboard)
        BY <1>1, <1>7, <2>2 DEF SubRecords, Pointing
      <3> QED BY <1>1, <2>2, <3>1 DEF MenusFit
    <2>3. CASE menu' = [menu EXCEPT !.hover = item] /\ sub' \in {new, left, NoMenu}
      <3>1. menu' \in MenuRecords /\ Pointing(menu', clipboard)
        BY <1>1, <1>6, <2>3 DEF MenuRecords, Pointing
      <3>2. sub' \in SubRecords /\ Pointing(sub', clipboard)
        BY <1>8, <1>9, <2>3, NoMenuFits
      <3> QED BY <1>1, <3>1, <3>2 DEF MenusFit
    <2> QED BY <1>5, <2>1, <2>2, <2>3
  <1> QED BY <1>10 DEF MenusInv, DiskFits, disk

LEMMA MouseFits ==
  ASSUME MenusInv, NEW left \in BOOLEAN, NEW right \in BOOLEAN, Mouse(left, right)
  PROVE  MenusInv'
  <1> DEFINE rightDown == right /\ ~buttons.right
             leftDown  == left /\ ~buttons.left
             leftUp    == ~left /\ buttons.left
             busy      == held # 0 \/ selecting
  <1>1. /\ buttons' = [left |-> left, right |-> right]
        /\ buttons' \in [left : BOOLEAN, right : BOOLEAN] /\ buttons'.left = left
    BY DEF Mouse
  <1>2. /\ held \in Nat /\ selecting \in BOOLEAN /\ lostDrop \in BOOLEAN
        /\ ~lostDrop => (busy => buttons.left) /\ held <= Len(icons) /\ ~(held # 0 /\ selecting)
    BY DEF MenusInv, DragsFit, IconDragsEnd
  <1>3. CASE rightDown /\ RightClick /\ lostDrop' = (lostDrop \/ (leftUp /\ busy))
    <2>1. held' = held /\ selecting' = selecting
      BY <1>3 DEF RightClick, drags
    <2>2. MenusFit' /\ DiskFits' /\ halted' \in BOOLEAN /\ Len(icons') = Len(icons)
      BY <1>3, RightClickFits
    <2>3. DragsFit'
      BY <1>1, <1>2, <1>3, <2>1, <2>2 DEF DragsFit, IconDragsEnd
    <2> QED BY <2>2, <2>3 DEF MenusInv
  <1>4. CASE UNCHANGED lostDrop /\ leftDown /\ menu.on /\ ~rightDown /\ ClickMenu
    <2>1. MenusFit' /\ DiskFits' /\ halted' \in BOOLEAN
      BY <1>4, ClickMenuFits
    <2>2. held' = held /\ selecting' = selecting
      BY <1>4 DEF ClickMenu, drags
    <2>3. Len(icons') \in Nat
      BY <2>1, LenProperties DEF DiskFits
    <2>4. DragsFit'
      BY <1>1, <1>2, <1>4, <2>2, <2>3 DEF DragsFit, IconDragsEnd
    <2> QED BY <2>1, <2>4 DEF MenusInv
  <1>5. CASE UNCHANGED lostDrop /\ leftDown /\ (rightDown \/ ~menu.on) /\ ClickBelow
    <2>1. MenusFit' /\ DiskFits' /\ halted' \in BOOLEAN
      BY <1>5, ClickBelowFits
    <2>2. Len(icons') \in Nat
      BY <2>1, LenProperties DEF DiskFits
    <2>3. ~lostDrop => held = 0 /\ ~selecting
      BY <1>2, <1>5
    <2>4. CASE ClickBar \/ ClickUsb \/ ClickWindow
      <3>1. held' = held /\ selecting' = selecting
        BY <2>4 DEF ClickBar, ClickUsb, ClickWindow, drags
      <3>2. DragsFit'
        BY <1>1, <1>2, <1>5, <2>2, <2>3, <3>1 DEF DragsFit, IconDragsEnd
      <3> QED BY <2>1, <3>2 DEF MenusInv
    <2>5. CASE ClickIcon
      <3>1. PICK i \in DOMAIN icons : icons' = SelectOnly({i}) /\ held' \in {held, i}
        BY <2>5 DEF ClickIcon
      <3>2. Len(icons') = Len(icons) /\ i \in 1 .. Len(icons)
        BY <3>1, SelectType, LenProperties DEF MenusInv, DiskFits
      <3>3. selecting' = selecting
        BY <2>5 DEF ClickIcon
      <3>4. held' \in Nat /\ (~lostDrop => held' <= Len(icons'))
        BY <1>2, <3>1, <3>2
      <3>5. DragsFit'
        BY <1>1, <1>2, <1>5, <2>3, <3>3, <3>4 DEF DragsFit, IconDragsEnd
      <3> QED BY <2>1, <3>5 DEF MenusInv
    <2>6. CASE ClickDesktop
      <3>1. held' = held /\ selecting' = TRUE
        BY <2>6 DEF ClickDesktop
      <3>2. DragsFit'
        BY <1>1, <1>2, <1>5, <2>2, <2>3, <3>1 DEF DragsFit, IconDragsEnd
      <3> QED BY <2>1, <3>2 DEF MenusInv
    <2> QED BY <1>5, <2>4, <2>5, <2>6 DEF ClickBelow
  <1>6. CASE UNCHANGED lostDrop /\ leftUp /\ busy /\ Drop
    <2>1. held' = 0 /\ selecting' = FALSE /\ UNCHANGED <<menus, disk, halted>>
      BY <1>6 DEF Drop
    <2>2. MenusFit' /\ DiskFits' /\ halted' \in BOOLEAN /\ Len(icons') = Len(icons)
      BY <2>1 DEF MenusInv, MenusFit, DiskFits, menus, disk
    <2>3. Len(icons') \in Nat
      BY <2>2, LenProperties DEF DiskFits
    <2>4. DragsFit'
      <3>1. held' \in Nat /\ held' <= Len(icons')
        BY <2>1, <2>3
      <3>2. IconDragsEnd'
        BY <2>1, <3>1 DEF IconDragsEnd
      <3>3. lostDrop' \in BOOLEAN /\ selecting' \in BOOLEAN
        BY <1>2, <1>6, <2>1
      <3> QED BY <1>1, <3>1, <3>2, <3>3 DEF DragsFit
    <2> QED BY <2>2, <2>4 DEF MenusInv
  <1>7. CASE UNCHANGED lostDrop /\ ~leftDown /\ left /\ selecting /\ held = 0 /\ SelectIcons
    <2>1. MenusFit' /\ DiskFits' /\ halted' \in BOOLEAN /\ Len(icons') = Len(icons)
      BY <1>7, SelectIconsFits
    <2>2. held' = held /\ selecting' = selecting
      BY <1>7 DEF SelectIcons, drags
    <2>3. DragsFit'
      BY <1>1, <1>2, <1>7, <2>1, <2>2 DEF DragsFit, IconDragsEnd
    <2> QED BY <2>1, <2>3 DEF MenusInv
  <1>8. CASE /\ UNCHANGED lostDrop /\ ~leftDown /\ ~(leftUp /\ busy)
             /\ IF rightDown THEN menu' = NoMenu /\ UNCHANGED <<sub, disk, drags, halted>> ELSE Move
    <2>1. UNCHANGED <<disk, drags, halted>>
      BY <1>8 DEF Move
    <2>2. MenusFit' /\ DiskFits' /\ halted' \in BOOLEAN
      <3>1. CASE menu' = NoMenu /\ UNCHANGED <<sub, disk, halted>>
        BY <3>1, NoMenuFits DEF MenusInv, MenusFit, DiskFits, disk
      <3>2. CASE Move
        BY <3>2, HoverFits DEF Move
      <3> QED BY <1>8, <3>1, <3>2
    <2>3. held' = held /\ selecting' = selecting /\ icons' = icons
      BY <2>1 DEF disk, drags
    <2>4. DragsFit'
      BY <1>1, <1>2, <1>8, <2>3 DEF DragsFit, IconDragsEnd
    <2> QED BY <2>2, <2>4 DEF MenusInv
  <1> QED BY <1>3, <1>4, <1>5, <1>6, <1>7, <1>8 DEF Mouse

\* Whatever the buttons do, menus are those that have items and point at items
\* that may be chosen, icons fit desktop_items, and drags belong to a button.
THEOREM MenusInvariance == MenusSpec => []MenusInv
  <1>1. ASSUME MenusInv, UNCHANGED menusVars PROVE MenusInv'
    BY <1>1 DEF MenusInv, MenusFit, DiskFits, DragsFit, IconDragsEnd, menusVars, menus, disk, drags
  <1>2. MenusInv /\ [MenusNext]_menusVars => MenusInv'
    BY <1>1, MouseFits DEF MenusNext
  <1> QED BY <1>2, MenusInitFits, PTL DEF MenusSpec

(* Whatever the mouse does, the list of icons never outgrows desktop_items and
   the menus that open are those that have items. *)
THEOREM MenusTypeCorrect == MenusSpec => []MenusTypeOK
  <1>1. ASSUME MenusInv PROVE MenusTypeOK
    BY <1>1 DEF MenusInv, MenusFit, DiskFits, DragsFit, MenuRecords, SubRecords, Icons, MenusTypeOK
  <1> QED BY <1>1, MenusInvariance, PTL

(* A click always executes an item that the menu shows and that may be chosen,
   though the menu is filled anew after the pointer was there; and the icon a
   motion would drag exists, as long as no release came with a right click. *)
THEOREM PointersCorrect == MenusSpec => []PointersValid
  <1>1. ASSUME MenusInv PROVE PointersValid
    <2>1. menu.type \in AllTypes /\ sub.type \in AllTypes /\ clipboard \in BOOLEAN
      BY <1>1, TypesAre DEF MenusInv, MenusFit, DiskFits, MenuRecords, SubRecords
    <2>2. \A h : Choosable(menu.type, clipboard, h) => Offers(menu.type, h)
      BY <2>1, ItemsAre
    <2>3. \A h : Choosable(sub.type, clipboard, h) => Offers(sub.type, h)
      BY <2>1, ItemsAre
    <2>4. HoverOffered
      BY <1>1, <2>2, <2>3 DEF MenusInv, MenusFit, Pointing, HoverOffered
    <2> QED BY <1>1, <2>4 DEF MenusInv, DragsFit, PointersValid
  <1> QED BY <1>1, MenusInvariance, PTL

(***************************************************************************)
(* The screen.                                                             *)
(***************************************************************************)
-----------------------------------------------------------------------------
(* Rectangles.                                                               *)

Solid == {r \in Rects : r.w > 0 /\ r.h > 0}

LEMMA CellsAre == \A c \in Screen : c[1] \in Int /\ c[2] \in Int
  BY ScreenAssumption DEF Screen

LEMMA JoinedGood ==
  ASSUME NEW a \in Rects, NEW b \in Rects
  PROVE  /\ Joined(a, b) \in Rects
         /\ a \in Solid /\ b \in Solid => Joined(a, b) \in Solid
         /\ \A c \in Screen : In(c, a) \/ In(c, b) => In(c, Joined(a, b))
  <1>1. /\ a.x \in Int /\ a.y \in Int /\ a.w \in Int /\ a.h \in Int
        /\ b.x \in Int /\ b.y \in Int /\ b.w \in Int /\ b.h \in Int
    BY DEF Rects
  <1> DEFINE j == Joined(a, b)
  <1>2. /\ j = [x |-> j.x, y |-> j.y, w |-> j.w, h |-> j.h]
        /\ j.x = Lesser(a.x, b.x) /\ j.y = Lesser(a.y, b.y)
        /\ j.w = Greater(a.x + a.w, b.x + b.w) - Lesser(a.x, b.x)
        /\ j.h = Greater(a.y + a.h, b.y + b.h) - Lesser(a.y, b.y)
    BY DEF Joined
  <1> HIDE DEF j
  <1>3. j.x \in Int /\ j.y \in Int /\ j.w \in Int /\ j.h \in Int
    BY <1>1, <1>2 DEF Lesser, Greater
  <1>4. j \in Rects
    BY <1>2, <1>3 DEF Rects
  <1>5. a \in Solid /\ b \in Solid => j \in Solid
    BY <1>1, <1>2, <1>4 DEF Solid, Lesser, Greater
  <1>6. ASSUME NEW c \in Screen, In(c, a) \/ In(c, b) PROVE In(c, j)
    <2>1. c[1] \in Int /\ c[2] \in Int
      BY CellsAre
    <2> QED BY <1>1, <1>2, <1>6, <2>1 DEF In, Lesser, Greater
  <1> QED BY <1>4, <1>5, <1>6 DEF j

LEMMA ExpandedGood ==
  ASSUME NEW r \in Rects, NEW p \in Nat
  PROVE  /\ Expanded(r, p) \in Rects
         /\ \A c \in Screen : In(c, r) => In(c, Expanded(r, p))
         /\ \A q \in Nat, c \in Screen : p <= q /\ In(c, Expanded(r, p)) => In(c, Expanded(r, q))
  <1>1. r.x \in Int /\ r.y \in Int /\ r.w \in Int /\ r.h \in Int
    BY DEF Rects
  <1>2. Expanded(r, p) \in Rects
    BY <1>1 DEF Rects, Expanded
  <1>3. ASSUME NEW c \in Screen, In(c, r) PROVE In(c, Expanded(r, p))
    <2>1. c[1] \in Int /\ c[2] \in Int
      BY CellsAre
    <2> QED BY <1>1, <1>3, <2>1 DEF In, Expanded
  <1>4. ASSUME NEW q \in Nat, NEW c \in Screen, p <= q, In(c, Expanded(r, p))
        PROVE  In(c, Expanded(r, q))
    <2>1. c[1] \in Int /\ c[2] \in Int
      BY CellsAre
    <2> QED BY <1>1, <1>4, <2>1 DEF In, Expanded
  <1> QED BY <1>2, <1>3, <1>4

-----------------------------------------------------------------------------
(* Lists of rectangles. Whatever is added, nothing falls off.                *)

DirtyLists == {l \in Seq(Solid) : Len(l) <= MaxRects}

Owed(m) == Covered(m.list) \cup Cells(m.r)

LEMMA TakenOutGood ==
  ASSUME NEW list \in DirtyLists, NEW i \in DOMAIN list
  PROVE  /\ TakenOut(list, i) \in DirtyLists
         /\ Covered(list) \subseteq Covered(TakenOut(list, i)) \cup Cells(list[i])
  <1>1. PICK n \in Nat : n = Len(list) /\ n <= MaxRects /\ DOMAIN list = 1 .. n
    BY LenProperties DEF DirtyLists
  <1>2. \A k \in 1 .. n : list[k] \in Solid
    BY <1>1, ElementOfSeq DEF DirtyLists
  <1> DEFINE t == TakenOut(list, i)
  <1>3. t = [k \in 1 .. n - 1 |-> IF k < i THEN list[k] ELSE list[k + 1]]
    BY <1>1 DEF TakenOut
  <1>4. n - 1 \in Nat /\ i \in 1 .. n
    BY <1>1
  <1> HIDE DEF t
  <1>5. \A k \in 1 .. n - 1 : t[k] \in Solid
    <2> SUFFICES ASSUME NEW k \in 1 .. n - 1 PROVE t[k] \in Solid
      OBVIOUS
    <2>1. k \in 1 .. n /\ k + 1 \in 1 .. n
      BY <1>4
    <2>2. t[k] = IF k < i THEN list[k] ELSE list[k + 1]
      BY <1>3
    <2> QED BY <1>2, <2>1, <2>2
  <1>6. t \in Seq(Solid) /\ Len(t) = n - 1 /\ DOMAIN t = 1 .. n - 1
    <2>1. t = [k \in 1 .. n - 1 |-> t[k]]
      BY <1>3
    <2>2. t \in Seq(Solid)
      BY <1>4, <1>5, <2>1, IsASeq
    <2>3. DOMAIN t = 1 .. n - 1
      BY <2>1
    <2> QED BY <1>4, <2>2, <2>3, LenProperties
  <1>7. t \in DirtyLists
    BY <1>1, <1>4, <1>6, ScreenAssumption DEF DirtyLists
  <1>8. ASSUME NEW c \in Screen, NEW k \in 1 .. n, In(c, list[k]), k # i PROVE \E e \in DOMAIN t : In(c, t[e])
    <2>1. CASE k < i
      <3>1. k \in 1 .. n - 1 /\ t[k] = list[k]
        BY <1>3, <1>4, <2>1
      <3> QED BY <1>6, <1>8, <3>1
    <2>2. CASE k > i
      <3>1. k - 1 \in 1 .. n - 1 /\ ~(k - 1 < i) /\ (k - 1) + 1 = k
        BY <1>4, <2>2
      <3>2. t[k - 1] = list[k]
        BY <1>3, <3>1
      <3> QED BY <1>6, <1>8, <3>1, <3>2
    <2> QED BY <1>4, <1>8, <2>1, <2>2
  <1>9. Covered(list) \subseteq Covered(t) \cup Cells(list[i])
    <2> SUFFICES ASSUME NEW c \in Covered(list) PROVE c \in Covered(t) \cup Cells(list[i])
      OBVIOUS
    <2>1. c \in Screen
      BY DEF Covered
    <2>2. PICK k \in 1 .. n : In(c, list[k])
      BY <1>1 DEF Covered
    <2>3. CASE k = i
      BY <2>1, <2>2, <2>3 DEF Cells
    <2>4. CASE k # i
      <3>1. \E e \in DOMAIN t : In(c, t[e])
        BY <1>8, <2>1, <2>2, <2>4
      <3> QED BY <2>1, <3>1 DEF Covered
    <2> QED BY <2>3, <2>4
  <1> QED BY <1>7, <1>9 DEF t

Merges == [list : DirtyLists, r : Solid]

LEMMA RoundGood ==
  ASSUME NEW m \in Merges
  PROVE  Round(m) \in Merges /\ Owed(m) \subseteq Owed(Round(m))
  <1> DEFINE meets == {i \in DOMAIN m.list : Intersects(m.list[i], m.r)}
             first == CHOOSE i \in meets : \A j \in meets : i <= j
  <1>1. CASE meets = {}
    BY <1>1 DEF Round
  <1>2. CASE meets # {}
    <2>1. m.list \in Seq(Solid) /\ m.list \in DirtyLists /\ m.r \in Solid
      BY DEF Merges, DirtyLists
    <2>2. meets \in SUBSET Nat
      BY <2>1, LenProperties
    <2>3. \E i \in meets : \A j \in meets : i <= j
      <3> HIDE DEF meets
      <3> QED BY <1>2, <2>2, LeastExists
    <2>4. first \in meets
      <3> HIDE DEF meets
      <3> QED BY <2>3
    <2>5. Round(m) = [list |-> TakenOut(m.list, first), r |-> Joined(m.list[first], m.r)]
      BY <1>2 DEF Round
    <2>6. first \in DOMAIN m.list
      BY <2>4
    <2> HIDE DEF first, meets
    <2>7. PICK i \in DOMAIN m.list : i = first
      BY <2>6
    <2>8. PICK l \in DirtyLists : l = m.list
      BY <2>1
    <2>9. TakenOut(l, i) \in DirtyLists /\ Covered(l) \subseteq Covered(TakenOut(l, i)) \cup Cells(l[i])
      BY <2>7, <2>8, TakenOutGood
    <2>10. l[i] \in Solid /\ l[i] \in Rects /\ m.r \in Rects
      <3>1. l \in Seq(Solid) /\ i \in 1 .. Len(l)
        BY <2>1, <2>7, <2>8, LenProperties
      <3>2. l[i] \in Solid
        BY <3>1, ElementOfSeq
      <3> QED BY <2>1, <3>2 DEF Solid
    <2>11. /\ Joined(l[i], m.r) \in Solid
           /\ \A c \in Screen : In(c, l[i]) \/ In(c, m.r) => In(c, Joined(l[i], m.r))
      BY <2>1, <2>10, JoinedGood
    <2>12. Cells(l[i]) \cup Cells(m.r) \subseteq Cells(Joined(l[i], m.r))
      BY <2>11 DEF Cells
    <2>13. Round(m) = [list |-> TakenOut(l, i), r |-> Joined(l[i], m.r)]
      BY <2>5, <2>7, <2>8
    <2> QED BY <2>8, <2>9, <2>11, <2>12, <2>13 DEF Merges, Owed
  <1> QED BY <1>1, <1>2

LEMMA MergedGood ==
  ASSUME NEW list \in DirtyLists, NEW r \in Solid
  PROVE  /\ Merged(list, r) \in Merges
         /\ Covered(list) \cup Cells(r) \subseteq Owed(Merged(list, r))
  <1>1. PICK n \in Nat : n = Len(list)
    BY LenProperties DEF DirtyLists
  <1> DEFINE m0 == [list |-> list, r |-> r]
             Eq(g) == g = [i \in 0 .. n |-> IF i = 0 THEN [list |-> list, r |-> r] ELSE Round(g[i - 1])]
             F == [p \in (1 .. n) \X Merges |-> Round(p[2])]
             after == CHOOSE g : Eq(g)
  <1>2. m0 \in Merges /\ Owed(m0) = Covered(list) \cup Cells(r)
    BY DEF Merges, Owed
  <1>3. F \in [(1 .. n) \X Merges -> Merges]
    BY RoundGood
  <1>4. \A i \in 1 .. n, v \in Merges : F[<<i, v>>] = Round(v)
    OBVIOUS
  <1> HIDE DEF F
  <1>5. PICK g \in [0 .. n -> Merges] : Follows(g, m0, F, n)
    <2> HIDE DEF m0
    <2> QED BY <1>2, <1>3, RecursionExists
  <1>6. Eq(g)
    <2>1. g = [i \in 0 .. n |-> g[i]]
      OBVIOUS
    <2>2. \A i \in 0 .. n : g[i] = IF i = 0 THEN m0 ELSE Round(g[i - 1])
      <3>1. \A i \in 1 .. n : i - 1 \in 0 .. n /\ g[i - 1] \in Merges
        OBVIOUS
      <3>2. \A i \in 1 .. n : g[i] = F[<<i, g[i - 1]>>]
        BY <1>5 DEF Follows
      <3>3. \A i \in 1 .. n : g[i] = Round(g[i - 1])
        BY <1>4, <3>1, <3>2
      <3>4. g[0] = m0
        BY <1>5 DEF Follows
      <3>5. \A i \in 0 .. n : i = 0 \/ i \in 1 .. n
        OBVIOUS
      <3> HIDE DEF m0
      <3> QED BY <3>3, <3>4, <3>5
    <2> QED BY <2>1, <2>2
  <1>7. Eq(after)
    BY <1>6
  <1>8. Merged(list, r) = after[n]
    BY <1>1 DEF Merged
  <1> HIDE DEF after
  <1>9. after[0] = m0 /\ \A i \in 1 .. n : after[i] = Round(after[i - 1])
    <2>1. after = [i \in 0 .. n |-> IF i = 0 THEN m0 ELSE Round(after[i - 1])]
      BY <1>7
    <2> HIDE DEF m0
    <2>2. ASSUME NEW i \in 0 .. n PROVE after[i] = IF i = 0 THEN m0 ELSE Round(after[i - 1])
      BY <2>1
    <2>3. 0 \in 0 .. n /\ \A i \in 1 .. n : i \in 0 .. n /\ i # 0
      OBVIOUS
    <2> QED BY <2>2, <2>3
  <1> DEFINE S == {i \in 0 .. n : after[i] \in Merges /\ Owed(m0) \subseteq Owed(after[i])}
  <1>10. 0 \in S
    BY <1>2, <1>9
  <1>11. ASSUME NEW i \in 1 .. n, i - 1 \in S PROVE i \in S
    <2>1. PICK m \in Merges : m = after[i - 1]
      BY <1>11
    <2>2. Round(m) \in Merges /\ Owed(m) \subseteq Owed(Round(m))
      BY RoundGood
    <2>3. after[i] = Round(m) /\ Owed(m0) \subseteq Owed(m)
      BY <1>9, <1>11, <2>1
    <2> HIDE DEF m0
    <2> QED BY <2>2, <2>3
  <1>12. n \in S
    <2> HIDE DEF S
    <2>1. \A i \in 1 .. n : i - 1 \in S => i \in S
      BY <1>11
    <2>2. \A i \in 0 .. n : i \in S
      BY <1>10, <2>1, Reaches
    <2> QED BY <2>2
  <1> QED BY <1>2, <1>8, <1>12

\* A full list swallows the new rectangle, it does not drop it.
LEMMA AddGood ==
  ASSUME NEW list \in DirtyLists, NEW r \in Rects
  PROVE  /\ Add(list, r) \in DirtyLists
         /\ Covered(list) \cup Cells(r) \subseteq Covered(Add(list, r))
  <1>1. r.w \in Int /\ r.h \in Int /\ r.x \in Int /\ r.y \in Int
    BY DEF Rects
  <1>2. CASE r.w <= 0 \/ r.h <= 0
    <2>1. Add(list, r) = list
      BY <1>2 DEF Add
    <2>2. ASSUME NEW c \in Screen, In(c, r) PROVE FALSE
      <3>1. c[1] \in Int /\ c[2] \in Int
        BY CellsAre
      <3> QED BY <1>1, <1>2, <2>2, <3>1 DEF In
    <2>3. Cells(r) = {}
      BY <2>2 DEF Cells
    <2> QED BY <2>1, <2>3
  <1>3. CASE ~(r.w <= 0 \/ r.h <= 0)
    <2>1. r \in Solid
      BY <1>1, <1>3 DEF Solid
    <2> DEFINE m == Merged(list, r)
    <2>2. m \in Merges /\ Covered(list) \cup Cells(r) \subseteq Owed(m)
      BY <2>1, MergedGood
    <2>3. Add(list, r) = IF Len(m.list) < MaxRects THEN Append(m.list, m.r)
                         ELSE [m.list EXCEPT ![1] = Joined(m.list[1], m.r)]
      BY <1>3 DEF Add
    <2> HIDE DEF m
    <2>4. PICK l \in DirtyLists, q \in Solid : l = m.list /\ q = m.r
      BY <2>2 DEF Merges
    <2>5. Covered(list) \cup Cells(r) \subseteq Covered(l) \cup Cells(q)
      BY <2>2, <2>4 DEF Owed
    <2>6. PICK n \in Nat : n = Len(l) /\ n <= MaxRects /\ DOMAIN l = 1 .. n
      BY LenProperties DEF DirtyLists
    <2>7. l \in Seq(Solid) /\ \A k \in 1 .. n : l[k] \in Solid
      BY <2>6, ElementOfSeq DEF DirtyLists
    <2>8. MaxRects \in Nat \ {0}
      BY ScreenAssumption
    <2>9. CASE n < MaxRects
      <3>1. Add(list, r) = Append(l, q)
        BY <2>3, <2>4, <2>6, <2>9
      <3> DEFINE a == Append(l, q)
      <3>2. /\ a \in Seq(Solid) /\ Len(a) = n + 1 /\ a[n + 1] = q
            /\ \A k \in 1 .. n : a[k] = l[k]
        BY <2>6, <2>7, AppendProperties
      <3> HIDE DEF a
      <3>3. DOMAIN a = 1 .. n + 1
        BY <3>2, LenProperties
      <3>4. a \in DirtyLists
        BY <2>6, <2>8, <2>9, <3>2 DEF DirtyLists
      <3>5. Covered(l) \subseteq Covered(a)
        <4>1. \A k \in 1 .. n : k \in DOMAIN a /\ a[k] = l[k]
          BY <3>2, <3>3
        <4> QED BY <2>6, <4>1 DEF Covered
      <3>6. Cells(q) \subseteq Covered(a)
        <4>1. n + 1 \in DOMAIN a
          BY <3>3
        <4> QED BY <3>2, <4>1 DEF Covered, Cells
      <3> QED BY <2>5, <3>1, <3>4, <3>5, <3>6 DEF a
    <2>10. CASE ~(n < MaxRects)
      <3> DEFINE a == [l EXCEPT ![1] = Joined(l[1], q)]
      <3>1. Add(list, r) = a
        BY <2>3, <2>4, <2>6, <2>10
      <3>2. 1 \in 1 .. n
        BY <2>8, <2>10
      <3>3. l[1] \in Rects /\ l[1] \in Solid /\ q \in Rects
        BY <2>7, <3>2 DEF Solid
      <3>4. /\ Joined(l[1], q) \in Solid
            /\ \A c \in Screen : In(c, l[1]) \/ In(c, q) => In(c, Joined(l[1], q))
        BY <3>3, JoinedGood
      <3>5. l = [k \in 1 .. n |-> l[k]]
        BY <2>6, <2>7, LenProperties
      <3>6. /\ a = [k \in 1 .. n |-> a[k]] /\ a[1] = Joined(l[1], q) /\ DOMAIN a = 1 .. n
            /\ \A k \in 1 .. n : k # 1 => a[k] = l[k]
        BY <3>2, <3>5
      <3> HIDE DEF a
      <3>7. \A k \in 1 .. n : a[k] \in Solid
        BY <2>7, <3>4, <3>6
      <3>8. a \in Seq(Solid)
        BY <3>6, <3>7, IsASeq
      <3>9. Len(a) = n
        BY <3>6, <3>8, LenProperties
      <3>10. a \in DirtyLists
        BY <2>6, <3>8, <3>9 DEF DirtyLists
      <3>11. Cells(q) \subseteq Covered(a)
        BY <3>2, <3>4, <3>6 DEF Covered, Cells
      <3>12. Covered(l) \subseteq Covered(a)
        <4> SUFFICES ASSUME NEW c \in Covered(l) PROVE c \in Covered(a)
          OBVIOUS
        <4>1. PICK k \in 1 .. n : c \in Screen /\ In(c, l[k])
          BY <2>6 DEF Covered
        <4>2. In(c, a[k])
          BY <3>4, <3>6, <4>1
        <4> QED BY <3>6, <4>1, <4>2 DEF Covered
      <3> QED BY <2>5, <3>1, <3>10, <3>11, <3>12
    <2> QED BY <2>9, <2>10
  <1> QED BY <1>2, <1>3

LEMMA AddAllGood ==
  ASSUME NEW list \in DirtyLists, NEW rs \in Seq(Rects)
  PROVE  /\ AddAll(list, rs) \in DirtyLists
         /\ Covered(list) \cup Covered(rs) \subseteq Covered(AddAll(list, rs))
  <1>1. PICK n \in Nat : n = Len(rs) /\ DOMAIN rs = 1 .. n
    BY LenProperties
  <1>2. \A i \in 1 .. n : rs[i] \in Rects
    BY <1>1, ElementOfSeq
  <1>3. \A i \in 1 .. n, l \in DirtyLists : Add(l, rs[i]) \in DirtyLists
    BY <1>2, AddGood
  <1> DEFINE Eq(g) == g = [i \in 0 .. n |-> IF i = 0 THEN list ELSE Add(g[i - 1], rs[i])]
             F == [p \in (1 .. n) \X DirtyLists |-> Add(p[2], rs[p[1]])]
             added == CHOOSE g : Eq(g)
  <1>4. F \in [(1 .. n) \X DirtyLists -> DirtyLists]
    BY <1>3
  <1>5. \A i \in 1 .. n, v \in DirtyLists : F[<<i, v>>] = Add(v, rs[i])
    OBVIOUS
  <1> HIDE DEF F
  <1>6. PICK g \in [0 .. n -> DirtyLists] : Follows(g, list, F, n)
    BY <1>4, RecursionExists
  <1>7. Eq(g)
    <2>1. g = [i \in 0 .. n |-> g[i]]
      OBVIOUS
    <2>2. \A i \in 0 .. n : g[i] = IF i = 0 THEN list ELSE Add(g[i - 1], rs[i])
      <3>1. \A i \in 1 .. n : i - 1 \in 0 .. n /\ g[i - 1] \in DirtyLists
        OBVIOUS
      <3>2. \A i \in 1 .. n : g[i] = F[<<i, g[i - 1]>>]
        BY <1>6 DEF Follows
      <3>3. \A i \in 1 .. n : g[i] = Add(g[i - 1], rs[i])
        BY <1>5, <3>1, <3>2
      <3>4. g[0] = list
        BY <1>6 DEF Follows
      <3>5. \A i \in 0 .. n : i = 0 \/ i \in 1 .. n
        OBVIOUS
      <3> QED BY <3>3, <3>4, <3>5
    <2> QED BY <2>1, <2>2
  <1>8. Eq(added)
    BY <1>7
  <1>9. AddAll(list, rs) = added[n]
    BY <1>1 DEF AddAll
  <1> HIDE DEF added
  <1>10. added[0] = list /\ \A i \in 1 .. n : added[i] = Add(added[i - 1], rs[i])
    <2>1. added = [i \in 0 .. n |-> IF i = 0 THEN list ELSE Add(added[i - 1], rs[i])]
      BY <1>8
    <2>2. ASSUME NEW i \in 0 .. n PROVE added[i] = IF i = 0 THEN list ELSE Add(added[i - 1], rs[i])
      BY <2>1
    <2>3. 0 \in 0 .. n /\ \A i \in 1 .. n : i \in 0 .. n /\ i # 0
      OBVIOUS
    <2> QED BY <2>2, <2>3
  <1> DEFINE S == {i \in 0 .. n : /\ added[i] \in DirtyLists /\ Covered(list) \subseteq Covered(added[i])
                                /\ \A j \in 1 .. i : Cells(rs[j]) \subseteq Covered(added[i])}
  <1>11. 0 \in S
    BY <1>10
  <1>12. ASSUME NEW i \in 1 .. n, i - 1 \in S PROVE i \in S
    <2>1. PICK l \in DirtyLists : l = added[i - 1]
      BY <1>12
    <2>2. PICK r \in Rects : r = rs[i]
      BY <1>2
    <2>3. Add(l, r) \in DirtyLists /\ Covered(l) \cup Cells(r) \subseteq Covered(Add(l, r))
      BY AddGood
    <2>4. added[i] = Add(l, r)
      BY <1>10, <2>1, <2>2
    <2>5. Covered(list) \subseteq Covered(l) /\ \A j \in 1 .. i - 1 : Cells(rs[j]) \subseteq Covered(l)
      BY <1>12, <2>1
    <2>6. \A j \in 1 .. i : j = i \/ j \in 1 .. i - 1
      OBVIOUS
    <2>7. \A j \in 1 .. i : Cells(rs[j]) \subseteq Covered(added[i])
      BY <2>2, <2>3, <2>4, <2>5, <2>6
    <2> QED BY <2>3, <2>4, <2>5, <2>7
  <1>13. n \in S
    <2> HIDE DEF S
    <2>1. \A i \in 1 .. n : i - 1 \in S => i \in S
      BY <1>12
    <2>2. \A i \in 0 .. n : i \in S
      BY <1>11, <2>1, Reaches
    <2> QED BY <2>2
  <1>14. Covered(rs) \subseteq Covered(added[n])
    <2> SUFFICES ASSUME NEW c \in Covered(rs) PROVE c \in Covered(added[n])
      OBVIOUS
    <2>1. PICK j \in 1 .. n : c \in Screen /\ In(c, rs[j])
      BY <1>1 DEF Covered
    <2>2. c \in Cells(rs[j])
      BY <2>1 DEF Cells
    <2> QED BY <1>13, <2>2
  <1> QED BY <1>9, <1>13, <1>14

-----------------------------------------------------------------------------
(* Windows that glide.                                                       *)

LEMMA GlidedGood ==
  ASSUME NEW w \in WindowRecords
  PROVE  /\ Glided(w) \in WindowRecords /\ Glided(w).min = w.min
         /\ w.rect.x = w.target.x /\ w.rect.y = w.target.y => Glided(w).rect = w.rect
  <1>1. /\ w.rect \in Rects /\ w.target \in Rects /\ w.min \in BOOLEAN
        /\ w.rect.x \in Int /\ w.rect.y \in Int /\ w.target.x \in Int /\ w.target.y \in Int
    BY DEF WindowRecords, Rects
  <1>2. \A d \in Int : Third(d) \in Int
    BY DEF Third
  <1>3. Third(0) = 0
    BY DEF Third
  <1> DEFINE x == w.rect.x + Third(w.target.x - w.rect.x)
             y == w.rect.y + Third(w.target.y - w.rect.y)
             to == [w.rect EXCEPT !.x = x, !.y = y]
  <1>4. x \in Int /\ y \in Int
    BY <1>1, <1>2
  <1>5. to \in Rects
    <2> HIDE DEF x, y
    <2> QED BY <1>1, <1>4 DEF Rects
  <1>6. Glided(w) = [w EXCEPT !.rect = to]
    BY <1>1 DEF Glided, WindowRecords, Rects
  <1>7. w.rect.x = w.target.x /\ w.rect.y = w.target.y => to = w.rect
    <2>1. \A d \in Int : d - d = 0 /\ d + 0 = d
      OBVIOUS
    <2>2. w.rect.x = w.target.x => x = w.rect.x
      BY <1>1, <1>3, <2>1
    <2>3. w.rect.y = w.target.y => y = w.rect.y
      BY <1>1, <1>3, <2>1
    <2> HIDE DEF x, y
    <2> QED BY <1>1, <2>2, <2>3 DEF Rects
  <1> HIDE DEF to
  <1> QED BY <1>1, <1>5, <1>6, <1>7 DEF WindowRecords

Moves(w) == ~(w.rect.x = w.target.x /\ w.rect.y = w.target.y)

\* The places a gliding window leaves and comes to are in its trail.
LEMMA TrailGood ==
  ASSUME NEW w \in WindowRecords
  PROVE  /\ Trail(w) \in Seq(Rects)
         /\ Moves(w) => Cells(Expanded(w.rect, Pad)) \cup Cells(Expanded(Glided(w).rect, Pad))
                           \subseteq Covered(Trail(w))
  <1>1. w.rect \in Rects /\ Glided(w).rect \in Rects /\ Pad \in Nat
    BY GlidedGood, ScreenAssumption DEF WindowRecords
  <1>2. PICK a \in Rects, b \in Rects : a = Expanded(w.rect, Pad) /\ b = Expanded(Glided(w).rect, Pad)
    BY <1>1, ExpandedGood
  <1>3. CASE ~Moves(w)
    BY <1>3 DEF Trail, Moves
  <1>4. CASE Moves(w)
    <2>1. Trail(w) = <<a, b>>
      BY <1>2, <1>4 DEF Trail, Moves
    <2>2. <<a, b>> \in Seq(Rects) /\ DOMAIN <<a, b>> = 1 .. 2 /\ <<a, b>>[1] = a /\ <<a, b>>[2] = b
      OBVIOUS
    <2>3. Cells(a) \cup Cells(b) \subseteq Covered(<<a, b>>)
      BY <2>2 DEF Cells, Covered
    <2> QED BY <1>2, <2>1, <2>2, <2>3
  <1> QED BY <1>3, <1>4

LEMMA TrailingGood ==
  ASSUME NEW list \in DirtyLists, wins \in Seq(WindowRecords)
  PROVE  /\ Trailing(list) \in DirtyLists /\ Covered(list) \subseteq Covered(Trailing(list))
         /\ \A i \in DOMAIN wins : Covered(Trail(wins[i])) \subseteq Covered(Trailing(list))
  <1>1. PICK n \in Nat : n = Len(wins) /\ DOMAIN wins = 1 .. n
    BY LenProperties
  <1>2. \A i \in 1 .. n : Trail(wins[i]) \in Seq(Rects)
    BY <1>1, ElementOfSeq, TrailGood
  <1>3. \A i \in 1 .. n, l \in DirtyLists : AddAll(l, Trail(wins[i])) \in DirtyLists
    BY <1>2, AddAllGood
  <1> DEFINE Eq(g) == g = [i \in 0 .. n |-> IF i = 0 THEN list ELSE AddAll(g[i - 1], Trail(wins[i]))]
             F == [p \in (1 .. n) \X DirtyLists |-> AddAll(p[2], Trail(wins[p[1]]))]
             queued == CHOOSE g : Eq(g)
  <1>4. F \in [(1 .. n) \X DirtyLists -> DirtyLists]
    BY <1>3
  <1>5. \A i \in 1 .. n, v \in DirtyLists : F[<<i, v>>] = AddAll(v, Trail(wins[i]))
    OBVIOUS
  <1> HIDE DEF F
  <1>6. PICK g \in [0 .. n -> DirtyLists] : Follows(g, list, F, n)
    BY <1>4, RecursionExists
  <1>7. Eq(g)
    <2>1. g = [i \in 0 .. n |-> g[i]]
      OBVIOUS
    <2>2. \A i \in 0 .. n : g[i] = IF i = 0 THEN list ELSE AddAll(g[i - 1], Trail(wins[i]))
      <3>1. \A i \in 1 .. n : i - 1 \in 0 .. n /\ g[i - 1] \in DirtyLists
        OBVIOUS
      <3>2. \A i \in 1 .. n : g[i] = F[<<i, g[i - 1]>>]
        BY <1>6 DEF Follows
      <3>3. \A i \in 1 .. n : g[i] = AddAll(g[i - 1], Trail(wins[i]))
        BY <1>5, <3>1, <3>2
      <3>4. g[0] = list
        BY <1>6 DEF Follows
      <3>5. \A i \in 0 .. n : i = 0 \/ i \in 1 .. n
        OBVIOUS
      <3> QED BY <3>3, <3>4, <3>5
    <2> QED BY <2>1, <2>2
  <1>8. Eq(queued)
    BY <1>7
  <1>9. Trailing(list) = queued[n]
    BY <1>1 DEF Trailing
  <1> HIDE DEF queued
  <1>10. queued[0] = list /\ \A i \in 1 .. n : queued[i] = AddAll(queued[i - 1], Trail(wins[i]))
    <2>1. queued = [i \in 0 .. n |-> IF i = 0 THEN list ELSE AddAll(queued[i - 1], Trail(wins[i]))]
      BY <1>8
    <2>2. ASSUME NEW i \in 0 .. n PROVE queued[i] = IF i = 0 THEN list ELSE AddAll(queued[i - 1], Trail(wins[i]))
      BY <2>1
    <2>3. 0 \in 0 .. n /\ \A i \in 1 .. n : i \in 0 .. n /\ i # 0
      OBVIOUS
    <2> QED BY <2>2, <2>3
  <1> DEFINE S == {i \in 0 .. n : /\ queued[i] \in DirtyLists /\ Covered(list) \subseteq Covered(queued[i])
                                /\ \A j \in 1 .. i : Covered(Trail(wins[j])) \subseteq Covered(queued[i])}
  <1>11. 0 \in S
    BY <1>10
  <1>12. ASSUME NEW i \in 1 .. n, i - 1 \in S PROVE i \in S
    <2>1. PICK l \in DirtyLists : l = queued[i - 1]
      BY <1>12
    <2>2. PICK rs \in Seq(Rects) : rs = Trail(wins[i])
      BY <1>2
    <2>3. AddAll(l, rs) \in DirtyLists /\ Covered(l) \cup Covered(rs) \subseteq Covered(AddAll(l, rs))
      BY AddAllGood
    <2>4. queued[i] = AddAll(l, rs)
      BY <1>10, <2>1, <2>2
    <2>5. /\ Covered(list) \subseteq Covered(l)
          /\ \A j \in 1 .. i - 1 : Covered(Trail(wins[j])) \subseteq Covered(l)
      BY <1>12, <2>1
    <2>6. \A j \in 1 .. i : j = i \/ j \in 1 .. i - 1
      OBVIOUS
    <2>7. \A j \in 1 .. i : Covered(Trail(wins[j])) \subseteq Covered(queued[i])
      BY <2>2, <2>3, <2>4, <2>5, <2>6
    <2> QED BY <2>3, <2>4, <2>5, <2>7
  <1>13. n \in S
    <2> HIDE DEF S
    <2>1. \A i \in 1 .. n : i - 1 \in S => i \in S
      BY <1>12
    <2>2. \A i \in 0 .. n : i \in S
      BY <1>11, <2>1, Reaches
    <2> QED BY <2>2
  <1> QED BY <1>1, <1>9, <1>13

-----------------------------------------------------------------------------
(* What a cell looks like. Where no window that changes its place or size was
   or is within reach, windows look as before: also those that one in front
   hid and hides no more.                                                    *)

LEMMA InsideReaches ==
  ASSUME NEW a \in Rects, NEW b \in Rects, Inside(a, b), NEW c \in Screen, In(c, Expanded(a, Pad))
  PROVE  In(c, Expanded(b, Pad))
  <1>1. /\ a.x \in Int /\ a.y \in Int /\ a.w \in Int /\ a.h \in Int
        /\ b.x \in Int /\ b.y \in Int /\ b.w \in Int /\ b.h \in Int
        /\ Pad \in Int /\ c[1] \in Int /\ c[2] \in Int
    BY CellsAre, ScreenAssumption DEF Rects
  <1>2. /\ c[1] >= a.x - Pad /\ c[1] < a.x - Pad + (a.w + 2 * Pad)
        /\ c[2] >= a.y - Pad /\ c[2] < a.y - Pad + (a.h + 2 * Pad)
    BY DEF In, Expanded
  <1>3. /\ c[1] >= b.x - Pad /\ c[1] < b.x - Pad + (b.w + 2 * Pad)
        /\ c[2] >= b.y - Pad /\ c[2] < b.y - Pad + (b.h + 2 * Pad)
    BY <1>1, <1>2 DEF Inside
  <1> QED BY <1>3 DEF In, Expanded

SameKind ==
  /\ wins \in Seq(WindowRecords) /\ wins' \in Seq(WindowRecords) /\ Len(wins') = Len(wins)
  /\ UNCHANGED <<focused, drag>>
  /\ \A i \in DOMAIN wins : wins'[i].min = wins[i].min

\* No window that changes its place or size was or is within reach of c.
FarFrom(c) ==
  \A j \in DOMAIN wins : wins'[j].rect # wins[j].rect =>
    ~In(c, Expanded(wins[j].rect, Pad)) /\ ~In(c, Expanded(wins'[j].rect, Pad))

LEMMA WindowsLookSame ==
  ASSUME SameKind, NEW c \in Screen, FarFrom(c)
  PROVE  WindowsAt(c)' = WindowsAt(c)
  <1>1. PICK n \in Nat : /\ n = Len(wins) /\ DOMAIN wins = 1 .. n
                         /\ n = Len(wins') /\ DOMAIN wins' = 1 .. n
    BY LenProperties DEF SameKind
  <1>2. \A i \in 1 .. n : wins[i] \in WindowRecords /\ wins'[i] \in WindowRecords
    BY <1>1, ElementOfSeq DEF SameKind
  <1>3. \A i \in 1 .. n : wins[i].rect \in Rects /\ wins'[i].rect \in Rects /\ wins'[i].min = wins[i].min
    BY <1>1, <1>2 DEF SameKind, WindowRecords
  <1>4. ASSUME NEW i \in 1 .. n
        PROVE  /\ In(c, Reach(i)) => In(c, Expanded(wins[i].rect, Pad))
               /\ In(c, Reach(i)') => In(c, Expanded(wins'[i].rect, Pad))
    <2>1. Pad \in Nat /\ Shadow \in Nat /\ Shadow <= Pad
      BY ScreenAssumption
    <2>2. ASSUME NEW r \in Rects
          PROVE  In(c, r) \/ In(c, Expanded(r, Shadow)) => In(c, Expanded(r, Pad))
      BY <2>1, ExpandedGood
    <2>3. /\ Reach(i) = wins[i].rect \/ Reach(i) = Expanded(wins[i].rect, Shadow)
          /\ Reach(i)' = wins'[i].rect \/ Reach(i)' = Expanded(wins'[i].rect, Shadow)
      BY DEF Reach
    <2> QED BY <1>3, <2>2, <2>3
  <1>5. ASSUME NEW i \in 1 .. n, wins'[i].rect # wins[i].rect
        PROVE  ~Painted(i, c) /\ ~Painted(i, c)'
    <2>1. ~In(c, Reach(i)) /\ ~In(c, Reach(i)')
      BY <1>1, <1>4, <1>5 DEF FarFrom
    <2> QED BY <2>1 DEF Painted
  <1>6. \A i : Dragged(i)' <=> Dragged(i)
    BY DEF Dragged, SameKind
  <1>7. ASSUME NEW i \in 1 .. n, wins'[i].rect = wins[i].rect, In(c, Reach(i))
        PROVE  Occluded(i)' <=> Occluded(i)
    <2>1. In(c, Expanded(wins[i].rect, Pad))
      BY <1>4, <1>7
    <2> DEFINE hides(j)  == ~wins[j].min /\ ~Dragged(j) /\ Inside(wins[i].rect, wins[j].rect)
               hidesNow(j) == ~wins'[j].min /\ ~Dragged(j)' /\ Inside(wins'[i].rect, wins'[j].rect)
    <2>2. ASSUME NEW j \in i + 1 .. n PROVE hidesNow(j) <=> hides(j)
      <3>1. j \in 1 .. n
        OBVIOUS
      <3>2. CASE wins'[j].rect = wins[j].rect
        BY <1>3, <1>6, <1>7, <3>1, <3>2
      <3>3. CASE wins'[j].rect # wins[j].rect
        <4>1. ~In(c, Expanded(wins[j].rect, Pad)) /\ ~In(c, Expanded(wins'[j].rect, Pad))
          BY <1>1, <3>1, <3>3 DEF FarFrom
        <4>2. ~Inside(wins[i].rect, wins[j].rect)
          BY <1>3, <2>1, <3>1, <4>1, InsideReaches
        <4>3. ~Inside(wins[i].rect, wins'[j].rect)
          BY <1>3, <2>1, <3>1, <4>1, InsideReaches
        <4> QED BY <1>7, <4>2, <4>3
      <3> QED BY <3>2, <3>3
    <2>3. Occluded(i) <=> \E j \in i + 1 .. n : hides(j)
      BY <1>1 DEF Occluded
    <2>4. Occluded(i)' <=> \E j \in i + 1 .. n : hidesNow(j)
      BY <1>1 DEF Occluded
    <2> HIDE DEF hides, hidesNow
    <2> QED BY <2>2, <2>3, <2>4
  <1>8. ASSUME NEW i \in 1 .. n PROVE Painted(i, c)' <=> Painted(i, c)
    <2>1. CASE wins'[i].rect # wins[i].rect
      BY <1>5, <2>1
    <2>2. CASE wins'[i].rect = wins[i].rect
      <3>1. Reach(i)' = Reach(i)
        BY <2>2 DEF Reach, Busy, SameKind
      <3>2. CASE In(c, Reach(i))
        <4>1. Occluded(i)' <=> Occluded(i)
          BY <1>7, <2>2, <3>2
        <4> QED BY <1>3, <3>1, <4>1 DEF Painted
      <3>3. CASE ~In(c, Reach(i))
        BY <3>1, <3>3 DEF Painted
      <3> QED BY <3>2, <3>3
    <2> QED BY <2>1, <2>2
  <1>9. {i \in 1 .. n : Painted(i, c)'} = {i \in 1 .. n : Painted(i, c)}
    BY <1>8
  <1> DEFINE P == {i \in 1 .. n : Painted(i, c)}
             look(i) == [dx |-> c[1] - wins[i].rect.x, dy |-> c[2] - wins[i].rect.y,
                         w |-> wins[i].rect.w, h |-> wins[i].rect.h, active |-> i = focused]
             lookNow(i) == [dx |-> c[1] - wins'[i].rect.x, dy |-> c[2] - wins'[i].rect.y,
                            w |-> wins'[i].rect.w, h |-> wins'[i].rect.h, active |-> i = focused']
  <1>10. WindowsAt(c) = [i \in P |-> look(i)]
    BY <1>1 DEF WindowsAt
  <1>11. WindowsAt(c)' = [i \in {k \in 1 .. n : Painted(k, c)'} |-> lookNow(i)]
    BY <1>1 DEF WindowsAt
  <1>12. \A i \in P : lookNow(i) = look(i)
    <2> SUFFICES ASSUME NEW i \in P PROVE lookNow(i) = look(i)
      OBVIOUS
    <2>1. wins'[i].rect = wins[i].rect
      BY <1>5
    <2> QED BY <2>1 DEF SameKind
  <1> HIDE DEF P, look, lookNow
  <1> QED BY <1>9, <1>10, <1>11, <1>12 DEF P

-----------------------------------------------------------------------------
(* The inductive invariant.                                                  *)

Popups == [on : BOOLEAN, hover : {0, 1}, sub : BOOLEAN, subhover : {0, 1}]

SceneTyped ==
  /\ wins \in Seq(WindowRecords) /\ focused \in 0 .. Len(wins)
  /\ drag \in {"window", "size"} => focused # 0
  /\ popup \in Popups /\ icon \in Spots /\ pointer \in Places

PicturesTyped ==
  /\ pending \in DirtyLists
  /\ back \subseteq Screen /\ shown \subseteq Screen /\ hidden \subseteq Screen /\ missed \subseteq Screen

ScreenInv == SceneTyped /\ PicturesTyped /\ NothingForgotten

LEMMA EmptyList == <<>> \in DirtyLists /\ Covered(<<>>) = {} /\ CutOut(<<>>) = {}
  <1>1. <<>> \in Seq(Solid) /\ Len(<<>>) = 0
    BY EmptySeq
  <1>2. <<>> \in DirtyLists
    BY <1>1, ScreenAssumption DEF DirtyLists
  <1>3. DOMAIN <<>> = {}
    OBVIOUS
  <1>4. Covered(<<>>) = {}
    BY <1>3 DEF Covered
  <1> QED BY <1>2, <1>4 DEF CutOut

LEMMA ScreenInitGood == ScreenInit => ScreenInv
  <1> SUFFICES ASSUME ScreenInit PROVE ScreenInv
    OBVIOUS
  <1>1. wins \in Seq(WindowRecords) /\ focused = Len(wins) /\ Len(wins) \in Nat
    BY ScreenAssumption, LenProperties DEF ScreenInit
  <1>2. SceneTyped
    BY <1>1 DEF ScreenInit, SceneTyped, Popups, NoPopup
  <1>3. PicturesTyped
    BY EmptyList DEF ScreenInit, PicturesTyped
  <1>4. NothingForgotten
    BY DEF ScreenInit, NothingForgotten
  <1> QED BY <1>2, <1>3, <1>4 DEF ScreenInv

-----------------------------------------------------------------------------
(* Drawing and spoiling.                                                     *)

Bad == Screen \ (back \cap shown \cap hidden)

LEMMA CutOutIsCovered == ASSUME NEW list PROVE CutOut(list) \subseteq Covered(list) /\ CutOut(list) \subseteq Screen
  BY DEF CutOut, Covered

LEMMA DrawGood ==
  ASSUME PicturesTyped, NEW list, NEW changed, Draw(list, changed)
  PROVE  /\ back' \subseteq Screen /\ shown' \subseteq Screen /\ hidden' \subseteq Screen
         /\ missed' \subseteq Screen
         /\ missed' = (missed \ Covered(list)) \cup CutOut(list)
         /\ Bad' \subseteq ((Bad \cup changed) \ Covered(list)) \cup CutOut(list)
  <1> DEFINE C == Covered(list)
             K == CutOut(list)
  <1>1. C \subseteq Screen /\ K \subseteq Screen
    BY CutOutIsCovered DEF Covered
  <1>2. back' = ((back \ changed) \cup C) \ K /\ missed' = (missed \ C) \cup K
    BY DEF Draw, Paint, Copied
  <1>3. \/ /\ shown' = ((hidden \ changed) \cup C) \ K /\ hidden' = ((shown \ changed) \cup C) \ K
        \/ shown' = ((shown \ changed) \cup C) \ K /\ hidden' = ((hidden \ changed) \cup C) \ K
    <2>1. CASE list = <<>>
      <3>1. C = {} /\ K = {}
        BY <2>1, EmptyList
      <3>2. shown' = shown \ changed /\ hidden' = hidden \ changed
        BY <2>1 DEF Draw
      <3> HIDE DEF C, K
      <3> QED BY <3>1, <3>2
    <2>2. CASE list # <<>>
      BY <2>2 DEF Draw, Copied
    <2> QED BY <2>1, <2>2
  <1> HIDE DEF C, K
  <1>4. /\ back' \subseteq Screen /\ shown' \subseteq Screen /\ hidden' \subseteq Screen
        /\ missed' \subseteq Screen
    BY <1>1, <1>2, <1>3 DEF PicturesTyped
  <1>5. ASSUME NEW c \in Screen, c \notin K, c \in C \/ c \in back \cap shown \cap hidden,
               c \in C \/ c \notin changed
        PROVE  c \in back' /\ c \in shown' /\ c \in hidden'
    BY <1>2, <1>3, <1>5
  <1>6. Bad' \subseteq ((Bad \cup changed) \ C) \cup K
    <2> SUFFICES ASSUME NEW c \in Screen, ~(c \in back' /\ c \in shown' /\ c \in hidden')
                 PROVE  c \in ((Bad \cup changed) \ C) \cup K
      BY DEF Bad, Screen
    <2> QED BY <1>5 DEF Bad
  <1> QED BY <1>2, <1>4, <1>6 DEF C, K

LEMMA SpoilGood ==
  ASSUME PicturesTyped, NEW changed, Spoil(changed)
  PROVE  /\ back' \subseteq Screen /\ shown' \subseteq Screen /\ hidden' \subseteq Screen
         /\ Bad' \subseteq Bad \cup changed
  BY DEF PicturesTyped, Spoil, Bad, Screen

LEMMA HastenGood ==
  ASSUME PicturesTyped, NEW changed, Hasten(changed)
  PROVE  /\ back' \subseteq Screen /\ shown' \subseteq Screen /\ hidden' \subseteq Screen
         /\ Bad' \subseteq Bad \cup changed
  <1>1. PICK arrived \in SUBSET (back \cap shown) :
          shown' = IF Busy THEN shown \ changed ELSE (shown \ changed) \cup arrived
    BY DEF Hasten
  <1>2. back' = back \ changed /\ hidden' = hidden \ changed
    BY DEF Hasten
  <1> QED BY <1>1, <1>2 DEF PicturesTyped, Bad, Screen

LEMMA DrawAllGood ==
  ASSUME PicturesTyped, DrawAll
  PROVE  PicturesTyped' /\ NothingForgotten'
  BY DEF PicturesTyped, DrawAll, NothingForgotten, Screen, DirtyLists, Solid, Rects

-----------------------------------------------------------------------------
(* A motion of the pointer: what it changes is in its damage.                *)

LEMMA ConcatCovers ==
  ASSUME NEW a \in Seq(Rects), NEW b \in Seq(Rects)
  PROVE  a \o b \in Seq(Rects) /\ Covered(a \o b) = Covered(a) \cup Covered(b)
  <1>1. PICK m \in Nat, n \in Nat : m = Len(a) /\ DOMAIN a = 1 .. m /\ n = Len(b) /\ DOMAIN b = 1 .. n
    BY LenProperties
  <1> DEFINE s == a \o b
  <1>2. /\ s \in Seq(Rects) /\ Len(s) = m + n
        /\ \A k \in 1 .. m + n : s[k] = IF k <= m THEN a[k] ELSE b[k - m]
    BY <1>1, ConcatProperties
  <1> HIDE DEF s
  <1>3. DOMAIN s = 1 .. m + n
    BY <1>2, LenProperties
  <1>4. ASSUME NEW c \in Covered(s) PROVE c \in Covered(a) \cup Covered(b)
    <2>1. PICK k \in 1 .. m + n : c \in Screen /\ In(c, s[k])
      BY <1>3 DEF Covered
    <2>2. CASE k <= m
      <3>1. k \in 1 .. m /\ In(c, a[k])
        BY <1>2, <2>1, <2>2
      <3> QED BY <1>1, <2>1, <3>1 DEF Covered
    <2>3. CASE ~(k <= m)
      <3>1. k - m \in 1 .. n /\ In(c, b[k - m])
        BY <1>2, <2>1, <2>3
      <3> QED BY <1>1, <2>1, <3>1 DEF Covered
    <2> QED BY <2>2, <2>3
  <1>5. ASSUME NEW c \in Covered(a) PROVE c \in Covered(s)
    <2>1. PICK k \in 1 .. m : c \in Screen /\ In(c, a[k])
      BY <1>1 DEF Covered
    <2>2. k \in 1 .. m + n /\ s[k] = a[k]
      BY <1>2
    <2> QED BY <1>3, <2>1, <2>2 DEF Covered
  <1>6. ASSUME NEW c \in Covered(b) PROVE c \in Covered(s)
    <2>1. PICK k \in 1 .. n : c \in Screen /\ In(c, b[k])
      BY <1>1 DEF Covered
    <2>2. k + m \in 1 .. m + n /\ ~(k + m <= m) /\ (k + m) - m = k
      OBVIOUS
    <2>3. s[k + m] = b[k]
      BY <1>2, <2>2
    <2> QED BY <1>3, <2>1, <2>2, <2>3 DEF Covered
  <1> QED BY <1>2, <1>4, <1>5, <1>6 DEF s

LEMMA OneCovers ==
  ASSUME NEW r \in Rects
  PROVE  <<r>> \in Seq(Rects) /\ Covered(<<r>>) = Cells(r)
  <1>1. <<r>> \in Seq(Rects) /\ DOMAIN <<r>> = {1} /\ <<r>>[1] = r
    OBVIOUS
  <1> QED BY <1>1 DEF Covered, Cells

LEMMA NoneCovers == <<>> \in Seq(Rects) /\ Covered(<<>>) = {}
  BY EmptyList, EmptySeq

LEMMA ConstantsAre ==
  /\ MenuAt \in Rects /\ SubAt \in Rects /\ Dock \in Rects /\ Tip \in Rects /\ Spots \subseteq Rects
  /\ Places \subseteq Screen /\ Pad \in Nat
  BY ScreenAssumption DEF Screen

\* Only the window that is sized changes its place or size.
LEMMA DragGood ==
  ASSUME SceneTyped, UNCHANGED <<focused, drag>>,
         NEW p \in Places, MoveWindow(p) \/ SizeWindow(p) \/ UNCHANGED wins
  PROVE  /\ SameKind
         /\ \A j \in DOMAIN wins : wins'[j].rect # wins[j].rect => drag = "size" /\ j = focused
  <1>1. PICK n \in Nat : n = Len(wins) /\ DOMAIN wins = 1 .. n
    BY LenProperties DEF SceneTyped
  <1>2. wins \in Seq(WindowRecords) /\ \A i \in 1 .. n : wins[i] \in WindowRecords
    BY <1>1, ElementOfSeq DEF SceneTyped
  <1>3. ASSUME NEW w \in WindowRecords, focused \in 1 .. n, w.min = wins[focused].min,
               wins' = [wins EXCEPT ![focused] = w]
        PROVE  /\ SameKind /\ wins'[focused] = w
               /\ \A j \in 1 .. n : j # focused => wins'[j] = wins[j]
    <2>1. wins' \in Seq(WindowRecords) /\ Len(wins') = Len(wins)
      BY <1>1, <1>2, <1>3, ExceptSeq
    <2>2. wins'[focused] = w /\ \A j \in 1 .. n : j # focused => wins'[j] = wins[j]
      BY <1>1, <1>3
    <2>3. \A j \in 1 .. n : wins'[j].min = wins[j].min
      BY <1>3, <2>2
    <2> QED BY <1>1, <1>2, <2>1, <2>2, <2>3 DEF SameKind
  <1>4. p[1] \in Int /\ p[2] \in Int
    BY ConstantsAre, CellsAre
  <1>5. CASE MoveWindow(p)
    <2>1. focused \in 1 .. n
      BY <1>1, <1>5 DEF MoveWindow, SceneTyped
    <2> DEFINE w == [wins[focused] EXCEPT !.target = [@ EXCEPT !.x = p[1], !.y = p[2]]]
    <2>2. wins' = [wins EXCEPT ![focused] = w]
      BY <1>5 DEF MoveWindow
    <2>3. w \in WindowRecords /\ w.min = wins[focused].min /\ w.rect = wins[focused].rect
      BY <1>2, <1>4, <2>1 DEF WindowRecords, Rects
    <2> HIDE DEF w
    <2>4. /\ SameKind /\ wins'[focused] = w
          /\ \A j \in 1 .. n : j # focused => wins'[j] = wins[j]
      BY <1>3, <2>1, <2>2, <2>3
    <2>5. \A j \in 1 .. n : wins'[j].rect = wins[j].rect
      BY <2>3, <2>4
    <2> QED BY <1>1, <2>4, <2>5
  <1>6. CASE SizeWindow(p)
    <2>1. focused \in 1 .. n /\ drag = "size"
      BY <1>1, <1>6 DEF SizeWindow, SceneTyped
    <2> DEFINE r == wins[focused].rect
               x == Greater(1, p[1] - r.x + 1)
               y == Greater(1, p[2] - r.y + 1)
               w == [wins[focused] EXCEPT !.rect = [r EXCEPT !.w = x, !.h = y]]
    <2>2. x \in Int /\ y \in Int
      <3>1. wins[focused] \in WindowRecords
        BY <1>2, <2>1
      <3>2. r.x \in Int /\ r.y \in Int
        BY <3>1 DEF WindowRecords, Rects
      <3> HIDE DEF r
      <3> QED BY <1>4, <3>2 DEF Greater
    <2>4. wins' = [wins EXCEPT ![focused] = w]
      BY <1>6 DEF SizeWindow
    <2> HIDE DEF x, y
    <2>5. w \in WindowRecords /\ w.min = wins[focused].min
      BY <1>2, <2>1, <2>2 DEF WindowRecords, Rects
    <2> HIDE DEF w
    <2>6. /\ SameKind /\ wins'[focused] = w
          /\ \A j \in 1 .. n : j # focused => wins'[j] = wins[j]
      BY <1>3, <2>1, <2>4, <2>5
    <2> QED BY <1>1, <2>1, <2>6
  <1>7. CASE UNCHANGED wins
    BY <1>7 DEF SameKind, SceneTyped
  <1> QED BY <1>5, <1>6, <1>7

LEMMA SizeDamageGood ==
  ASSUME SceneTyped, SameKind,
         \A j \in DOMAIN wins : wins'[j].rect # wins[j].rect => drag = "size" /\ j = focused
  PROVE  /\ SizeDamage \in Seq(Rects)
         /\ \A c \in Screen : c \notin Covered(SizeDamage) => FarFrom(c)
  <1>1. PICK n \in Nat : n = Len(wins) /\ DOMAIN wins = 1 .. n /\ n = Len(wins') /\ DOMAIN wins' = 1 .. n
    BY LenProperties DEF SameKind
  <1>2. \A i \in 1 .. n : wins[i].rect \in Rects /\ wins'[i].rect \in Rects
    <2>1. \A i \in 1 .. n : wins[i] \in WindowRecords /\ wins'[i] \in WindowRecords
      BY <1>1, ElementOfSeq DEF SameKind
    <2> QED BY <2>1 DEF WindowRecords
  <1>3. CASE drag # "size" \/ wins'[focused].rect = wins[focused].rect
    <2>1. SizeDamage = <<>>
      BY <1>3 DEF SizeDamage
    <2>2. \A j \in DOMAIN wins : wins'[j].rect = wins[j].rect
      BY <1>3
    <2> QED BY <2>1, <2>2, NoneCovers DEF FarFrom
  <1>4. CASE ~(drag # "size" \/ wins'[focused].rect = wins[focused].rect)
    <2>1. focused \in 1 .. n
      BY <1>1, <1>4 DEF SceneTyped
    <2>2. PICK a \in Rects, b \in Rects : a = wins[focused].rect /\ b = wins'[focused].rect
      BY <1>2, <2>1
    <2>3. PICK d \in Rects : d = Joined(a, b) /\ \A c \in Screen : In(c, a) \/ In(c, b) => In(c, d)
      BY JoinedGood
    <2>4. SizeDamage = <<Expanded(d, Pad)>> /\ Expanded(d, Pad) \in Rects
      BY <1>4, <2>2, <2>3, ExpandedGood, ConstantsAre DEF SizeDamage
    <2>5. SizeDamage \in Seq(Rects) /\ Covered(SizeDamage) = Cells(Expanded(d, Pad))
      BY <2>4, OneCovers
    <2>6. ASSUME NEW c \in Screen, In(c, Expanded(a, Pad)) \/ In(c, Expanded(b, Pad))
          PROVE  In(c, Expanded(d, Pad))
      <3>1. /\ a.x \in Int /\ a.y \in Int /\ a.w \in Int /\ a.h \in Int
            /\ b.x \in Int /\ b.y \in Int /\ b.w \in Int /\ b.h \in Int
            /\ Pad \in Int /\ c[1] \in Int /\ c[2] \in Int
        BY CellsAre, ConstantsAre DEF Rects
      <3>2. /\ d.x = Lesser(a.x, b.x) /\ d.y = Lesser(a.y, b.y)
            /\ d.w = Greater(a.x + a.w, b.x + b.w) - Lesser(a.x, b.x)
            /\ d.h = Greater(a.y + a.h, b.y + b.h) - Lesser(a.y, b.y)
        BY <2>3 DEF Joined
      <3> QED BY <2>6, <3>1, <3>2 DEF In, Expanded, Lesser, Greater
    <2>7. \A c \in Screen : c \notin Covered(SizeDamage) => FarFrom(c)
      <3> SUFFICES ASSUME NEW c \in Screen, c \notin Covered(SizeDamage) PROVE FarFrom(c)
        OBVIOUS
      <3>1. ~In(c, Expanded(a, Pad)) /\ ~In(c, Expanded(b, Pad))
        BY <2>5, <2>6 DEF Cells
      <3>2. \A j \in DOMAIN wins : wins'[j].rect # wins[j].rect =>
              wins[j].rect = a /\ wins'[j].rect = b
        BY <2>2
      <3> QED BY <3>1, <3>2 DEF FarFrom
    <2> QED BY <2>5, <2>7
  <1> QED BY <1>3, <1>4

LEMMA IconDamageGood ==
  ASSUME icon \in Spots, icon' \in Spots
  PROVE  /\ IconDamage \in Seq(Rects)
         /\ \A c \in Screen : c \notin Covered(IconDamage) /\ icon' # icon => ~In(c, icon) /\ ~In(c, icon')
  <1>1. PICK a \in Rects, b \in Rects : a = icon /\ b = icon'
    BY ConstantsAre
  <1>2. PICK d \in Rects : d = Joined(a, b) /\ \A c \in Screen : In(c, a) \/ In(c, b) => In(c, d)
    BY JoinedGood
  <1>3. CASE icon' = icon
    BY <1>3, NoneCovers DEF IconDamage
  <1>4. CASE icon' # icon
    <2>1. IconDamage = <<d>>
      BY <1>1, <1>2, <1>4 DEF IconDamage
    <2>2. IconDamage \in Seq(Rects) /\ Covered(IconDamage) = Cells(d)
      BY <2>1, OneCovers
    <2> QED BY <1>1, <1>2, <2>2 DEF Cells
  <1> QED BY <1>3, <1>4

LEMMA MenuDamageGood ==
  ASSUME popup \in Popups, HoverPopup
  PROVE  /\ popup' \in Popups /\ MenuDamage \in Seq(Rects)
         /\ \A c \in Screen : c \notin Covered(MenuDamage) => MenuLook(c)' = MenuLook(c)
  <1>1. /\ popup.on \in BOOLEAN /\ popup.hover \in {0, 1} /\ popup.sub \in BOOLEAN /\ popup.subhover \in {0, 1}
        /\ popup = [on |-> popup.on, hover |-> popup.hover, sub |-> popup.sub, subhover |-> popup.subhover]
    BY DEF Popups
  <1>2. popup' \in Popups /\ popup'.on = popup.on
    <2>1. CASE ~popup.on
      BY <2>1 DEF HoverPopup
    <2>2. CASE popup.on /\ popup.sub /\ In(pointer', SubAt)
      <3>1. PICK i \in {0, 1} : popup' = [popup EXCEPT !.subhover = i]
        BY <2>2 DEF HoverPopup
      <3> QED BY <1>1, <3>1 DEF Popups
    <2>3. CASE popup.on /\ ~(popup.sub /\ In(pointer', SubAt)) /\ In(pointer', MenuAt)
      <3>1. CASE popup' = [popup EXCEPT !.hover = 0]
        BY <1>1, <3>1 DEF Popups
      <3>2. CASE \E s \in BOOLEAN : popup' = [on |-> TRUE, hover |-> 1, sub |-> s,
                      subhover |-> IF s /\ popup.sub THEN popup.subhover ELSE 0]
        <4>1. PICK s \in BOOLEAN, k \in {0, 1} : popup' = [on |-> TRUE, hover |-> 1, sub |-> s, subhover |-> k]
          BY <1>1, <3>2
        <4> QED BY <1>1, <2>3, <4>1 DEF Popups
      <3> QED BY <2>3, <3>1, <3>2 DEF HoverPopup
    <2>4. CASE popup.on /\ ~(popup.sub /\ In(pointer', SubAt)) /\ ~In(pointer', MenuAt)
      <3>1. popup' = [on |-> TRUE, hover |-> 0, sub |-> FALSE, subhover |-> 0]
        BY <2>4 DEF HoverPopup, NoPopup
      <3> QED BY <1>1, <2>4, <3>1 DEF Popups
    <2> QED BY <2>1, <2>2, <2>3, <2>4
  <1> DEFINE a == IF popup.sub # popup'.sub THEN <<SubAt>> ELSE <<>>
             b == IF popup'.hover # popup.hover THEN <<MenuAt>> ELSE <<>>
             d == IF popup'.subhover # popup.subhover /\ popup'.sub THEN <<SubAt>> ELSE <<>>
  <1>3. a \in Seq(Rects) /\ (popup.sub # popup'.sub => Covered(a) = Cells(SubAt))
    BY OneCovers, NoneCovers, ConstantsAre
  <1>4. b \in Seq(Rects) /\ (popup'.hover # popup.hover => Covered(b) = Cells(MenuAt))
    BY OneCovers, NoneCovers, ConstantsAre
  <1>5. d \in Seq(Rects) /\ (popup'.subhover # popup.subhover /\ popup'.sub => Covered(d) = Cells(SubAt))
    BY OneCovers, NoneCovers, ConstantsAre
  <1>6. MenuDamage = (a \o b) \o d
    BY DEF MenuDamage, SubDamage
  <1> HIDE DEF a, b, d
  <1>7. a \o b \in Seq(Rects) /\ Covered(a \o b) = Covered(a) \cup Covered(b)
    BY <1>3, <1>4, ConcatCovers
  <1>8. /\ (a \o b) \o d \in Seq(Rects)
        /\ Covered((a \o b) \o d) = Covered(a \o b) \cup Covered(d)
    BY <1>5, <1>7, ConcatCovers
  <1>9. MenuDamage \in Seq(Rects) /\ Covered(MenuDamage) = Covered(a) \cup Covered(b) \cup Covered(d)
    BY <1>6, <1>7, <1>8
  <1>10. ASSUME NEW c \in Screen, c \notin Covered(MenuDamage) PROVE MenuLook(c)' = MenuLook(c)
    <2>1. In(c, MenuAt) => popup'.hover = popup.hover
      BY <1>4, <1>9, <1>10 DEF Cells
    <2>2. In(c, SubAt) => popup'.sub = popup.sub /\ (popup'.sub => popup'.subhover = popup.subhover)
      BY <1>3, <1>5, <1>9, <1>10 DEF Cells
    <2> QED BY <1>2, <2>1, <2>2 DEF MenuLook
  <1> QED BY <1>2, <1>9, <1>10

LEMMA DockDamageGood ==
  /\ DockDamage \in Seq(Rects)
  /\ \A c \in Screen : c \notin Covered(DockDamage) /\ (Hot' # Hot) => ~In(c, Dock) /\ ~In(c, Tip)
  <1>1. PICK d \in Rects : d = Joined(Dock, Tip) /\ \A c \in Screen : In(c, Dock) \/ In(c, Tip) => In(c, d)
    BY JoinedGood, ConstantsAre
  <1>2. CASE Hot' # Hot
    <2>1. DockDamage = <<d>>
      BY <1>1, <1>2 DEF DockDamage
    <2>2. DockDamage \in Seq(Rects) /\ Covered(DockDamage) = Cells(d)
      BY <2>1, OneCovers
    <2> QED BY <1>1, <2>2 DEF Cells
  <1>3. CASE ~(Hot' # Hot)
    <2>1. DockDamage = <<>>
      BY <1>3 DEF DockDamage
    <2> QED BY <1>3, <2>1, NoneCovers
  <1> QED BY <1>2, <1>3

LEMMA PointerDamageGood ==
  ASSUME pointer \in Places, pointer' \in Places
  PROVE  PointerDamage \in Seq(Rects) /\ pointer \in Covered(PointerDamage) /\ pointer' \in Covered(PointerDamage)
  <1>1. ASSUME NEW p \in Screen PROVE At(p) \in Rects /\ In(p, At(p))
    <2>1. p[1] \in Int /\ p[2] \in Int
      BY CellsAre
    <2> QED BY <2>1 DEF At, In, Rects
  <1>2. PICK a \in Rects, b \in Rects : a = At(pointer) /\ b = At(pointer')
    BY <1>1, ConstantsAre
  <1>3. In(pointer, a) /\ In(pointer', b) /\ pointer \in Screen /\ pointer' \in Screen
    BY <1>1, <1>2, ConstantsAre
  <1>4. PointerDamage = <<a, b>>
    BY <1>2 DEF PointerDamage
  <1>5. <<a, b>> \in Seq(Rects) /\ DOMAIN <<a, b>> = 1 .. 2 /\ <<a, b>>[1] = a /\ <<a, b>>[2] = b
    OBVIOUS
  <1> QED BY <1>3, <1>4, <1>5 DEF Covered

LEMMA MotionCovered ==
  ASSUME SceneTyped, MovePointer
  PROVE  SceneTyped' /\ Damage \in Seq(Rects) /\ Changed \subseteq Covered(Damage)
  <1>1. PICK p \in Places : /\ pointer' = p
                            /\ \/ MoveWindow(p) \/ SizeWindow(p) \/ MoveIcon
                               \/ drag = "none" /\ UNCHANGED <<wins, icon>>
    BY DEF MovePointer
  <1>2. UNCHANGED <<focused, drag>> /\ HoverPopup
    BY DEF MovePointer
  <1>3. (MoveWindow(p) \/ SizeWindow(p) \/ UNCHANGED wins) /\ icon' \in Spots
    BY <1>1 DEF MoveWindow, SizeWindow, MoveIcon, SceneTyped
  <1>4. /\ SameKind
        /\ \A j \in DOMAIN wins : wins'[j].rect # wins[j].rect => drag = "size" /\ j = focused
    BY <1>2, <1>3, DragGood
  <1>5. popup \in Popups /\ icon \in Spots /\ pointer \in Places /\ pointer' \in Places
    BY <1>1 DEF SceneTyped
  <1>6. SizeDamage \in Seq(Rects) /\ \A c \in Screen : c \notin Covered(SizeDamage) => FarFrom(c)
    BY <1>4, SizeDamageGood
  <1>7. /\ IconDamage \in Seq(Rects)
        /\ \A c \in Screen : c \notin Covered(IconDamage) /\ icon' # icon => ~In(c, icon) /\ ~In(c, icon')
    BY <1>3, <1>5, IconDamageGood
  <1>8. /\ popup' \in Popups /\ MenuDamage \in Seq(Rects)
        /\ \A c \in Screen : c \notin Covered(MenuDamage) => MenuLook(c)' = MenuLook(c)
    BY <1>2, <1>5, MenuDamageGood
  <1>9. /\ PointerDamage \in Seq(Rects)
        /\ pointer \in Covered(PointerDamage) /\ pointer' \in Covered(PointerDamage)
    BY <1>5, PointerDamageGood
  <1>10. SceneTyped'
    BY <1>2, <1>3, <1>4, <1>5, <1>8 DEF SceneTyped, SameKind
  <1>11. /\ Damage \in Seq(Rects)
         /\ Covered(Damage) = Covered(SizeDamage) \cup Covered(IconDamage) \cup Covered(MenuDamage)
                                \cup Covered(DockDamage) \cup Covered(PointerDamage)
    <2>1. PICK a \in Seq(Rects), b \in Seq(Rects), d \in Seq(Rects), e \in Seq(Rects), f \in Seq(Rects) :
            a = SizeDamage /\ b = IconDamage /\ d = MenuDamage /\ e = DockDamage /\ f = PointerDamage
      BY <1>6, <1>7, <1>8, <1>9, DockDamageGood
    <2>2. a \o b \in Seq(Rects) /\ Covered(a \o b) = Covered(a) \cup Covered(b)
      BY ConcatCovers
    <2>3. /\ (a \o b) \o d \in Seq(Rects)
          /\ Covered((a \o b) \o d) = Covered(a \o b) \cup Covered(d)
      BY <2>2, ConcatCovers
    <2>4. /\ ((a \o b) \o d) \o e \in Seq(Rects)
          /\ Covered(((a \o b) \o d) \o e) = Covered((a \o b) \o d) \cup Covered(e)
      BY <2>3, ConcatCovers
    <2>5. /\ (((a \o b) \o d) \o e) \o f \in Seq(Rects)
          /\ Covered((((a \o b) \o d) \o e) \o f) = Covered(((a \o b) \o d) \o e) \cup Covered(f)
      BY <2>4, ConcatCovers
    <2>6. Damage = (((a \o b) \o d) \o e) \o f
      BY <2>1 DEF Damage
    <2> QED BY <2>1, <2>2, <2>3, <2>4, <2>5, <2>6
  <1>12. ASSUME NEW c \in Screen, c \notin Covered(Damage) PROVE Look(c)' = Look(c)
    <2>1. /\ c \notin Covered(SizeDamage) /\ c \notin Covered(IconDamage) /\ c \notin Covered(MenuDamage)
          /\ c \notin Covered(DockDamage) /\ c \notin Covered(PointerDamage)
      BY <1>11, <1>12
    <2>2. WindowsAt(c)' = WindowsAt(c)
      BY <1>4, <1>6, <2>1, WindowsLookSame
    <2>3. MenuLook(c)' = MenuLook(c)
      BY <1>8, <2>1
    <2>4. (IF In(c, icon) THEN <<IconAt(c)>> ELSE <<>>)' = IF In(c, icon) THEN <<IconAt(c)>> ELSE <<>>
      <3>1. CASE icon' = icon
        BY <3>1 DEF IconAt
      <3>2. CASE icon' # icon
        BY <1>7, <2>1, <3>2
      <3> QED BY <3>1, <3>2
    <2>5. (Hot /\ (In(c, Dock) \/ In(c, Tip)))' <=> (Hot /\ (In(c, Dock) \/ In(c, Tip)))
      BY <2>1, DockDamageGood
    <2>6. (c = pointer)' <=> (c = pointer)
      BY <1>9, <2>1
    <2>7. Scene(c)' = Scene(c)
      BY <2>2, <2>3, <2>4, <2>5 DEF Scene
    <2> QED BY <2>6, <2>7 DEF Look
  <1>13. Changed \subseteq Covered(Damage)
    BY <1>12 DEF Changed
  <1> QED BY <1>10, <1>11, <1>13

LEMMA MovePointerGood ==
  ASSUME ScreenInv, MovePointer
  PROVE  ScreenInv'
  <1>1. SceneTyped' /\ Damage \in Seq(Rects) /\ Changed \subseteq Covered(Damage)
    BY MotionCovered DEF ScreenInv
  <1>2. PICK d \in DirtyLists : d = AddAll(<<>>, Damage) /\ Covered(Damage) \subseteq Covered(d)
    BY <1>1, EmptyList, AddAllGood
  <1>3. d \in Seq(Rects)
    <2>1. Solid \subseteq Rects
      BY DEF Solid
    <2> QED BY <2>1 DEF DirtyLists
  <1>4. pending' = AddAll(pending, d)
    BY <1>2 DEF MovePointer
  <1>5. pending' \in DirtyLists /\ Covered(pending) \cup Covered(d) \subseteq Covered(pending')
    BY <1>3, <1>4, AddAllGood DEF ScreenInv, PicturesTyped
  <1>6. Hasten(Changed) /\ missed' = missed
    BY DEF MovePointer
  <1>7. /\ back' \subseteq Screen /\ shown' \subseteq Screen /\ hidden' \subseteq Screen
        /\ Bad' \subseteq Bad \cup Changed
    BY <1>6, HastenGood DEF ScreenInv
  <1>8. Bad \subseteq Covered(pending) \cup missed
    BY DEF ScreenInv, NothingForgotten, Bad
  <1>9. Bad' \subseteq Covered(pending') \cup missed'
    BY <1>1, <1>2, <1>5, <1>6, <1>7, <1>8
  <1>10. NothingForgotten'
    BY <1>9 DEF NothingForgotten, Bad, Covered
  <1> QED BY <1>1, <1>5, <1>6, <1>7, <1>10 DEF ScreenInv, PicturesTyped

-----------------------------------------------------------------------------
(* The other steps.                                                          *)

LEMMA FrameGood ==
  ASSUME ScreenInv, Frame
  PROVE  ScreenInv'
  <1>1. PICK n \in Nat : n = Len(wins) /\ DOMAIN wins = 1 .. n
    BY LenProperties DEF ScreenInv, SceneTyped
  <1>2. wins \in Seq(WindowRecords) /\ \A i \in 1 .. n : wins[i] \in WindowRecords
    BY <1>1, ElementOfSeq DEF ScreenInv, SceneTyped
  <1>3. wins' = [i \in 1 .. n |-> Glided(wins[i])]
    BY <1>1 DEF Frame
  <1>4. \A i \in 1 .. n : wins'[i] = Glided(wins[i]) /\ wins'[i] \in WindowRecords
    BY <1>2, <1>3, GlidedGood
  <1>5. wins' \in Seq(WindowRecords) /\ Len(wins') = n
    <2>1. wins' = [i \in 1 .. n |-> wins'[i]] /\ DOMAIN wins' = 1 .. n
      BY <1>3
    <2>2. wins' \in Seq(WindowRecords)
      BY <1>4, <2>1, IsASeq
    <2> QED BY <2>1, <2>2, LenProperties
  <1>6. UNCHANGED <<focused, drag, popup, icon, pointer>> /\ pending' = <<>>
    BY DEF Frame
  <1>7. SameKind
    <2>1. \A i \in 1 .. n : wins'[i].min = wins[i].min
      BY <1>2, <1>4, GlidedGood
    <2> QED BY <1>1, <1>2, <1>5, <1>6, <2>1 DEF SameKind
  <1>8. SceneTyped'
    BY <1>1, <1>5, <1>6 DEF ScreenInv, SceneTyped
  <1> DEFINE list == Trailing(pending)
  <1>9. /\ list \in DirtyLists /\ Covered(pending) \subseteq Covered(list)
        /\ \A i \in 1 .. n : Covered(Trail(wins[i])) \subseteq Covered(list)
    BY <1>1, <1>2, TrailingGood DEF ScreenInv, PicturesTyped
  <1>10. Draw(list, Changed)
    BY DEF Frame
  <1> HIDE DEF list
  <1>11. ASSUME NEW c \in Screen, c \notin Covered(list) PROVE FarFrom(c)
    <2> SUFFICES ASSUME NEW j \in 1 .. n, wins'[j].rect # wins[j].rect
                 PROVE  ~In(c, Expanded(wins[j].rect, Pad)) /\ ~In(c, Expanded(wins'[j].rect, Pad))
      BY <1>1 DEF FarFrom
    <2>1. PICK w \in WindowRecords : w = wins[j]
      BY <1>2
    <2>2. wins'[j] = Glided(w)
      BY <1>4, <2>1
    <2>3. Moves(w)
      BY <2>1, <2>2, GlidedGood DEF Moves
    <2>4. Cells(Expanded(w.rect, Pad)) \cup Cells(Expanded(Glided(w).rect, Pad)) \subseteq Covered(list)
      BY <1>9, <2>1, <2>3, TrailGood
    <2> QED BY <1>11, <2>1, <2>2, <2>4 DEF Cells
  <1>12. ASSUME NEW c \in Screen, c \notin Covered(list) PROVE Look(c)' = Look(c)
    <2>1. WindowsAt(c)' = WindowsAt(c)
      BY <1>7, <1>11, <1>12, WindowsLookSame
    <2>2. MenuLook(c)' = MenuLook(c) /\ Hot' = Hot
      BY <1>6 DEF MenuLook, Hot
    <2>3. Scene(c)' = Scene(c)
      BY <1>6, <2>1, <2>2 DEF Scene, IconAt
    <2> QED BY <1>6, <2>3 DEF Look
  <1>13. Changed \subseteq Covered(list)
    BY <1>12 DEF Changed
  <1>14. /\ back' \subseteq Screen /\ shown' \subseteq Screen /\ hidden' \subseteq Screen
         /\ missed' \subseteq Screen
         /\ missed' = (missed \ Covered(list)) \cup CutOut(list)
         /\ Bad' \subseteq ((Bad \cup Changed) \ Covered(list)) \cup CutOut(list)
    BY <1>10, DrawGood DEF ScreenInv
  <1>15. Bad \subseteq Covered(pending) \cup missed
    BY DEF ScreenInv, NothingForgotten, Bad
  <1>16. Bad' \subseteq missed'
    BY <1>9, <1>13, <1>14, <1>15
  <1>17. NothingForgotten'
    BY <1>16 DEF NothingForgotten, Bad
  <1>18. PicturesTyped'
    BY <1>6, <1>14, EmptyList DEF PicturesTyped
  <1> QED BY <1>8, <1>17, <1>18 DEF ScreenInv

\* A drawing of a part leaves what is pending to the next frame.
LEMMA PartGood ==
  ASSUME ScreenInv, UNCHANGED <<scene, pointer, pending>>, NEW list, Draw(list, {})
  PROVE  ScreenInv'
  <1>1. SceneTyped'
    BY DEF ScreenInv, SceneTyped, scene
  <1>2. /\ back' \subseteq Screen /\ shown' \subseteq Screen /\ hidden' \subseteq Screen
        /\ missed' \subseteq Screen
        /\ missed' = (missed \ Covered(list)) \cup CutOut(list)
        /\ Bad' \subseteq ((Bad \cup {}) \ Covered(list)) \cup CutOut(list)
    BY DrawGood DEF ScreenInv
  <1>3. Bad \subseteq Covered(pending) \cup missed
    BY DEF ScreenInv, NothingForgotten, Bad
  <1>4. pending' = pending /\ Bad' \subseteq Covered(pending) \cup missed'
    BY <1>2, <1>3
  <1>5. NothingForgotten'
    BY <1>4 DEF NothingForgotten, Bad
  <1> QED BY <1>1, <1>2, <1>4, <1>5 DEF ScreenInv, PicturesTyped

LEMMA UpdateGood ==
  ASSUME ScreenInv, Update
  PROVE  ScreenInv'
  <1>1. PICK i \in DOMAIN wins : /\ Spoil({c \in Screen : Painted(i, c)})
                                 /\ pending' = Add(pending, Expanded(wins[i].rect, Pad))
    BY DEF Update
  <1> DEFINE spoilt == {c \in Screen : Painted(i, c)}
  <1>2. wins[i].rect \in Rects
    <2>1. wins[i] \in WindowRecords
      BY ElementOfSeq, LenProperties DEF ScreenInv, SceneTyped
    <2> QED BY <2>1 DEF WindowRecords
  <1>3. PICK r \in Rects : r = Expanded(wins[i].rect, Pad)
    BY <1>2, ExpandedGood, ConstantsAre
  <1>4. spoilt \subseteq Cells(r)
    <2> SUFFICES ASSUME NEW c \in Screen, In(c, Reach(i)) PROVE In(c, r)
      BY DEF Painted, Cells
    <2>1. Pad \in Nat /\ Shadow \in Nat /\ Shadow <= Pad
      BY ScreenAssumption
    <2>2. Reach(i) = wins[i].rect \/ Reach(i) = Expanded(wins[i].rect, Shadow)
      BY DEF Reach
    <2> QED BY <1>2, <1>3, <2>1, <2>2, ExpandedGood
  <1>5. pending' \in DirtyLists /\ Covered(pending) \cup Cells(r) \subseteq Covered(pending')
    BY <1>1, <1>3, AddGood DEF ScreenInv, PicturesTyped
  <1>6. Spoil(spoilt) /\ UNCHANGED <<scene, pointer, missed>>
    BY <1>1 DEF Update
  <1> HIDE DEF spoilt
  <1>7. /\ back' \subseteq Screen /\ shown' \subseteq Screen /\ hidden' \subseteq Screen
        /\ Bad' \subseteq Bad \cup spoilt
    BY <1>6, SpoilGood DEF ScreenInv
  <1>8. Bad \subseteq Covered(pending) \cup missed
    BY DEF ScreenInv, NothingForgotten, Bad
  <1>9. Bad' \subseteq Covered(pending') \cup missed'
    BY <1>4, <1>5, <1>6, <1>7, <1>8
  <1>10. NothingForgotten'
    BY <1>9 DEF NothingForgotten, Bad
  <1>11. SceneTyped'
    BY <1>6 DEF ScreenInv, SceneTyped, scene
  <1> QED BY <1>5, <1>6, <1>7, <1>10, <1>11 DEF ScreenInv, PicturesTyped

\* What changes quietly is missed.
LEMMA QuietGood ==
  ASSUME ScreenInv, Quiet, SceneTyped'
  PROVE  ScreenInv'
  <1>1. Spoil(Changed) /\ missed' = missed \cup Changed /\ pending' = pending
    BY DEF Quiet
  <1>2. /\ back' \subseteq Screen /\ shown' \subseteq Screen /\ hidden' \subseteq Screen
        /\ Bad' \subseteq Bad \cup Changed
    BY <1>1, SpoilGood DEF ScreenInv
  <1>3. Bad \subseteq Covered(pending) \cup missed
    BY DEF ScreenInv, NothingForgotten, Bad
  <1>4. Bad' \subseteq Covered(pending) \cup missed' /\ Changed \subseteq Screen
    BY <1>1, <1>2, <1>3 DEF Changed
  <1>5. NothingForgotten'
    BY <1>1, <1>4 DEF NothingForgotten, Bad
  <1> QED BY <1>1, <1>2, <1>4, <1>5 DEF ScreenInv, PicturesTyped

LEMMA ScreenStep == ScreenInv /\ [ScreenNext]_screenVars => ScreenInv'
  <1> SUFFICES ASSUME ScreenInv, [ScreenNext]_screenVars PROVE ScreenInv'
    OBVIOUS
  <1> USE DEF ScreenInv
  <1>1. /\ wins \in Seq(WindowRecords) /\ Len(wins) \in Nat /\ focused \in 0 .. Len(wins)
        /\ drag \in {"window", "size"} => focused # 0
        /\ popup \in Popups /\ icon \in Spots /\ pointer \in Places
    BY LenProperties DEF SceneTyped
  <1>2. /\ Append(wins, New) \in Seq(WindowRecords) /\ Len(Append(wins, New)) = Len(wins) + 1
    BY <1>1, AppendProperties, ScreenAssumption
  <1>3. CASE MovePointer
    BY <1>3, MovePointerGood
  <1>4. CASE Select
    <2>1. SceneTyped' /\ DrawAll
      BY <1>1, <1>4 DEF Select, SceneTyped, scene
    <2> QED BY <2>1, DrawAllGood
  <1>5. CASE PressButton
    <2>1. DrawAll /\ pointer' = pointer
      BY <1>5 DEF PressButton
    <2>2. CASE /\ wins' \in Layouts /\ focused' \in {0, Len(wins')} /\ popup' = NoPopup
               /\ drag' \in {"none"} \cup (IF focused' # 0 /\ ~wins'[focused'].min THEN {"window", "size"} ELSE {})
               /\ UNCHANGED icon
      <3>1. wins' \in Seq(WindowRecords) /\ Len(wins') \in Nat
        BY <2>2, ScreenAssumption, LenProperties
      <3>2. focused' \in 0 .. Len(wins') /\ (drag' \in {"window", "size"} => focused' # 0)
        BY <2>2, <3>1
      <3>3. popup' \in Popups
        BY <2>2 DEF NoPopup, Popups
      <3> QED BY <1>1, <2>1, <2>2, <3>1, <3>2, <3>3, DrawAllGood DEF SceneTyped
    <2>3. CASE /\ \E open \in BOOLEAN : popup' = [NoPopup EXCEPT !.on = TRUE, !.sub = open]
               /\ UNCHANGED <<wins, focused, drag, icon>>
      <3>1. popup' \in Popups
        BY <2>3 DEF NoPopup, Popups
      <3> QED BY <1>1, <2>1, <2>3, <3>1, DrawAllGood DEF SceneTyped
    <2>4. CASE focused' = 0 /\ drag' = "select" /\ popup' = NoPopup /\ UNCHANGED <<wins, icon>>
      <3>1. popup' \in Popups /\ focused' \in 0 .. Len(wins') /\ drag' \notin {"window", "size"}
        BY <1>1, <2>4 DEF NoPopup, Popups
      <3> QED BY <1>1, <2>1, <2>4, <3>1, DrawAllGood DEF SceneTyped
    <2> QED BY <1>5, <2>2, <2>3, <2>4 DEF PressButton
  <1>6. CASE ReleaseButton
    <2>1. SceneTyped' /\ DrawAll
      BY <1>1, <1>6 DEF ReleaseButton, SceneTyped
    <2> QED BY <2>1, DrawAllGood
  <1>7. CASE CloseMenu
    <2>1. popup' \in Popups
      BY <1>7 DEF CloseMenu, NoPopup, Popups
    <2>2. SceneTyped' /\ Quiet
      BY <1>1, <1>7, <2>1 DEF CloseMenu, Quiet, SceneTyped
    <2> QED BY <2>2, QuietGood
  <1>8. CASE PressIcon
    <2>1. wins' = wins \/ wins' = Append(wins, New)
      BY <1>8 DEF PressIcon
    <2>2. wins' \in Seq(WindowRecords) /\ 0 \in 0 .. Len(wins')
      BY <1>1, <1>2, <2>1
    <2>3. focused' = 0 /\ drag' \notin {"window", "size"} /\ UNCHANGED <<popup, icon, pointer>> /\ Quiet
      BY <1>8 DEF PressIcon, Quiet
    <2>4. SceneTyped'
      BY <1>1, <2>2, <2>3 DEF SceneTyped
    <2> QED BY <2>3, <2>4, QuietGood
  <1>9. CASE ProgramWindow
    <2>1. wins' = Append(wins, New) /\ UNCHANGED <<focused, drag, popup, icon, pointer>> /\ Quiet
      BY <1>9 DEF ProgramWindow, Quiet
    <2>2. wins' \in Seq(WindowRecords) /\ focused \in 0 .. Len(wins')
      BY <1>1, <1>2, <2>1
    <2>3. SceneTyped'
      BY <1>1, <2>1, <2>2 DEF SceneTyped
    <2> QED BY <2>1, <2>3, QuietGood
  <1>10. CASE Update
    BY <1>10, UpdateGood
  <1>11. CASE KeyPress
    <2>1. CASE focused # 0
      <3>1. UNCHANGED <<scene, pointer, pending>> /\ Draw(<<wins[focused].rect>>, {})
        BY <1>11, <2>1 DEF KeyPress
      <3> QED BY <3>1, PartGood
    <2>2. CASE focused = 0
      <3>1. SceneTyped' /\ DrawAll
        BY <1>1, <1>11, <2>2 DEF KeyPress, SceneTyped, scene
      <3> QED BY <3>1, DrawAllGood
    <2> QED BY <2>1, <2>2
  <1>12. CASE Refresh
    <2>1. PICK i \in DOMAIN wins : Draw(<<Expanded(wins[i].rect, Shadow)>>, {})
      BY <1>12 DEF Refresh
    <2>2. UNCHANGED <<scene, pointer, pending>>
      BY <1>12 DEF Refresh
    <2> QED BY <2>1, <2>2, PartGood
  <1>13. CASE Frame
    BY <1>13, FrameGood
  <1>14. CASE UNCHANGED screenVars
    BY <1>14 DEF SceneTyped, PicturesTyped, NothingForgotten, Covered, screenVars, scene, pics
  <1> QED BY <1>3, <1>4, <1>5, <1>6, <1>7, <1>8, <1>9, <1>10, <1>11, <1>12, <1>13, <1>14 DEF ScreenNext

\* Whatever moves, opens, glides and is drawn, windows and lists are whole and
\* what is wrong in a picture is pending or missed.
THEOREM ScreenInvariance == ScreenSpec => []ScreenInv
  BY ScreenInitGood, ScreenStep, PTL DEF ScreenSpec

\* A list of dirty rectangles stays inside its array and its rectangles are
\* not empty, whatever is joined.
THEOREM ScreenTypeCorrect == ScreenSpec => []ScreenTypeOK
  <1>1. ASSUME ScreenInv PROVE ScreenTypeOK
    <2>1. pending \in Seq(Solid) /\ Len(pending) <= MaxRects
      BY <1>1 DEF ScreenInv, PicturesTyped, DirtyLists
    <2>2. \A i \in DOMAIN pending : pending[i] \in Solid
      BY <2>1, ElementOfSeq, LenProperties
    <2>3. pending \in Seq(Rects)
      <3>1. Solid \subseteq Rects
        BY DEF Solid
      <3> QED BY <2>1, <3>1
    <2> QED BY <1>1, <2>1, <2>2, <2>3 DEF ScreenInv, SceneTyped, PicturesTyped, ScreenTypeOK, Solid
  <1> QED BY <1>1, ScreenInvariance, PTL

\* Whatever the three pictures hold that the state does not say is in the
\* dirty list, or was changed by a handler that marks nothing: for any windows
\* in any places, screens and lists of any size.
THEOREM NothingForgottenCorrect == ScreenSpec => []NothingForgotten
  <1>1. ScreenInv => NothingForgotten
    BY DEF ScreenInv
  <1> QED BY <1>1, ScreenInvariance, PTL
=============================================================================
