------------------------------ MODULE Screen -------------------------------
(***************************************************************************)
(* What the desktop owes the screen: windows, an icon, a menu and the      *)
(* pointer as kernel/wm.cpp paints them, the list of dirty rectangles, and *)
(* the three pictures of drivers/framebuffer.cpp: the back buffer in RAM   *)
(* and the two pages of video memory, one shown and one hidden.            *)
(*                                                                         *)
(* Of a picture only the cells that are right are kept: those that hold    *)
(* what the state says now. The unit of length is a cell, not a pixel.     *)
(* What a click makes of the windows is the Windows module's: here they    *)
(* turn into any of Layouts, and all of those clicks draw everything anew. *)
(***************************************************************************)
EXTENDS Integers, Sequences

CONSTANTS
  Width, Height,  \* of the screen
  Pad,            \* damage around a window, 32 pixels
  Shadow,         \* reach of its shadow, at most 28
  MaxRects,       \* capacity of a DirtyList, 16
  Layouts,        \* sequences of windows, from back to front
  New,            \* the window a program or a double click opens
  Spots,          \* where the icon may be put
  MenuAt, SubAt,  \* where the menu and its submenu open
  Places,         \* where the pointer may be
  Dock, Tip       \* the dock and what the icon under the pointer shows above it

Rects == [x : Int, y : Int, w : Int, h : Int]

WindowRecords == [rect : Rects, target : Rects, min : BOOLEAN]

ASSUME ScreenAssumption ==
  /\ {Width, Height, MaxRects} \subseteq Nat \ {0}
  /\ {Pad, Shadow} \subseteq Nat /\ Shadow <= Pad
  /\ Layouts \subseteq Seq(WindowRecords) /\ New \in WindowRecords
  /\ {MenuAt, SubAt, Dock, Tip} \cup Spots \subseteq Rects
  /\ Places \subseteq (0 .. Width - 1) \X (0 .. Height - 1)

VARIABLES
  wins,       \* the window list
  focused,    \* index of active_window, 0 for none
  drag,       \* is_dragging, is_resizing_window, an icon's or a selection's drag
  popup,      \* active_menu and active_submenu, 0 for no hovered item
  icon,       \* where the icon is; its selection is left out
  pointer,    \* mouse_x, mouse_y
  pending,    \* pending_dirty
  back, shown, hidden,  \* right cells of the back buffer and of the two pages
  missed      \* cells a handler changed or cut without telling anybody

scene == <<wins, focused, drag, popup, icon>>
pics  == <<back, shown, hidden>>
screenVars == <<scene, pointer, pending, pics, missed>>

Screen == (0 .. Width - 1) \X (0 .. Height - 1)

NoPopup == [on |-> FALSE, hover |-> 0, sub |-> FALSE, subhover |-> 0]

ScreenInit ==
  /\ wins \in Layouts /\ focused = Len(wins)
  /\ drag = "none" /\ popup = NoPopup
  /\ icon \in Spots
  /\ pointer \in Places
  /\ pending = <<>>
  /\ back = Screen /\ shown = Screen /\ hidden = Screen
  /\ missed = {}

-----------------------------------------------------------------------------
(* Rectangles and lists of them. *)

Lesser(a, b) == IF a < b THEN a ELSE b
Greater(a, b) == IF a > b THEN a ELSE b

In(c, r) == c[1] >= r.x /\ c[1] < r.x + r.w /\ c[2] >= r.y /\ c[2] < r.y + r.h

Cells(r) == {c \in Screen : In(c, r)}   \* clipped to the screen

Intersects(a, b) ==
  /\ a.x < b.x + b.w /\ b.x < a.x + a.w
  /\ a.y < b.y + b.h /\ b.y < a.y + a.h

Joined(a, b) ==
  LET x == Lesser(a.x, b.x)
      y == Lesser(a.y, b.y)
  IN  [x |-> x, y |-> y,
       w |-> Greater(a.x + a.w, b.x + b.w) - x,
       h |-> Greater(a.y + a.h, b.y + b.h) - y]

Expanded(r, p) == [x |-> r.x - p, y |-> r.y - p, w |-> r.w + 2 * p, h |-> r.h + 2 * p]

TakenOut(list, i) == [k \in 1 .. Len(list) - 1 |-> IF k < i THEN list[k] ELSE list[k + 1]]

(* The first rectangle that meets the new one is taken out and joined with it,
   then the first one that meets the two, and so on: there are at most as many
   rounds as rectangles. *)
Round(m) ==
  LET meets == {i \in DOMAIN m.list : Intersects(m.list[i], m.r)}
      first == CHOOSE i \in meets : \A j \in meets : i <= j
  IN  IF meets = {} THEN m
      ELSE [list |-> TakenOut(m.list, first), r |-> Joined(m.list[first], m.r)]

Merged(list, r) ==
  LET after[i \in 0 .. Len(list)] ==
        IF i = 0 THEN [list |-> list, r |-> r] ELSE Round(after[i - 1])
  IN  after[Len(list)]

AddAlways(list, r) ==
  LET m == Merged(list, r) IN IF r.w <= 0 \/ r.h <= 0 THEN list ELSE Append(m.list, m.r)

Add(list, r) ==
  LET m == Merged(list, r)
  IN  IF r.w <= 0 \/ r.h <= 0 THEN list
      ELSE IF Len(m.list) < MaxRects THEN Append(m.list, m.r)
      ELSE [m.list EXCEPT ![1] = Joined(@, m.r)]

AddAll(list, rs) ==
  LET added[i \in 0 .. Len(rs)] == IF i = 0 THEN list ELSE Add(added[i - 1], rs[i])
  IN  added[Len(rs)]

Covered(list) == {c \in Screen : \E i \in DOMAIN list : In(c, list[i])}

-----------------------------------------------------------------------------
(* What a cell looks like. A window has a shadow unless one is dragged or
   sized, the dragged one is its picture taken before, and one that lies inside
   a window in front is not painted. *)

Busy == focused # 0 /\ drag \in {"window", "size"}

Dragged(i) == i = focused /\ drag = "window"

Inside(a, b) ==
  /\ a.x >= b.x /\ a.x + a.w <= b.x + b.w
  /\ a.y >= b.y /\ a.y + a.h <= b.y + b.h

Occluded(i) == \E j \in i + 1 .. Len(wins) :
  ~wins[j].min /\ ~Dragged(j) /\ Inside(wins[i].rect, wins[j].rect)

Reach(i) == IF Busy THEN wins[i].rect ELSE Expanded(wins[i].rect, Shadow)

Painted(i, c) == ~wins[i].min /\ ~Occluded(i) /\ In(c, Reach(i))

WindowsAt(c) ==
  [i \in {j \in DOMAIN wins : Painted(j, c)} |->
     [dx |-> c[1] - wins[i].rect.x, dy |-> c[2] - wins[i].rect.y,
      w |-> wins[i].rect.w, h |-> wins[i].rect.h, active |-> i = focused]]

IconAt(c) == <<c[1] - icon.x, c[2] - icon.y>>

MenuLook(c) ==
  [menu |-> IF popup.on /\ In(c, MenuAt) THEN <<popup.hover>> ELSE <<>>,
   sub  |-> IF popup.on /\ popup.sub /\ In(c, SubAt) THEN <<popup.subhover>> ELSE <<>>]

Hot == In(pointer, Dock)   \* an icon of the dock is magnified

Scene(c) ==
  [wins |-> WindowsAt(c), menu |-> MenuLook(c),
   icon |-> IF In(c, icon) THEN <<IconAt(c)>> ELSE <<>>,
   hot  |-> Hot /\ (In(c, Dock) \/ In(c, Tip))]

Look(c) == [scene |-> Scene(c), pointer |-> c = pointer]

Changed == {c \in Screen : Look(c)' # Look(c)}

-----------------------------------------------------------------------------
(* Drawing. Each rectangle of a list is painted with the clip set to it, then
   all go to the hidden page, the pages change places, and the page that was
   shown gets them too. The tip is cut out of a rectangle that does not reach
   the dock, since the dock is then skipped. *)

CutOut(list) ==
  {c \in Covered(list) \cap (IF Hot' THEN Cells(Tip) ELSE {}) :
     \E i \in DOMAIN list :
       /\ In(c, list[i]) /\ ~Intersects(list[i], Dock)
       /\ \A j \in i + 1 .. Len(list) : ~In(c, list[j])}

Copied(S, list) == (S \cup Covered(list)) \ CutOut(list)

Paint(list, changed) ==
  /\ back' = Copied(back \ changed, list)
  /\ missed' = (missed \ Covered(list)) \cup CutOut(list)

DrawOnePage(list, changed) ==
  /\ Paint(list, changed)
  /\ IF list = <<>> THEN shown' = shown \ changed /\ hidden' = hidden \ changed
     ELSE /\ shown'  = Copied(hidden \ changed, list)
          /\ hidden' = (shown \ changed) \ CutOut(list)

Draw(list, changed) ==
  /\ Paint(list, changed)
  /\ IF list = <<>> THEN shown' = shown \ changed /\ hidden' = hidden \ changed
     ELSE /\ shown'  = Copied(hidden \ changed, list)
          /\ hidden' = Copied(shown \ changed, list)

(* force_redraw_all: everything, to both pages. What is pending stays so. *)
DrawAll ==
  /\ back' = Screen /\ shown' = Screen /\ hidden' = Screen
  /\ missed' = {}
  /\ UNCHANGED pending

(* Nothing is drawn. *)
Spoil(changed) ==
  /\ back' = back \ changed /\ shown' = shown \ changed /\ hidden' = hidden \ changed

(* update_hardware_cursor_fast: the pointer goes straight to the page that is
   shown. Its old place is copied from the back buffer, where it still is. *)
Hasten(changed) ==
  LET arrived == {c \in {pointer'} \cap back \cap shown : Scene(c)' = Scene(c)}
  IN  /\ back' = back \ changed /\ hidden' = hidden \ changed
      /\ shown' = IF Busy THEN shown \ changed ELSE (shown \ changed) \cup arrived

-----------------------------------------------------------------------------
(* Motion of the pointer with the buttons as they are. *)

At(p) == [x |-> p[1], y |-> p[2], w |-> 1, h |-> 1]

MoveWindow(p) ==   \* the window follows in later frames
  /\ drag = "window"
  /\ wins' = [wins EXCEPT ![focused].target = [@ EXCEPT !.x = p[1], !.y = p[2]]]
  /\ UNCHANGED icon

SizeWindow(p) ==
  /\ drag = "size"
  /\ LET r == wins[focused].rect
     IN  wins' = [wins EXCEPT ![focused].rect = [r EXCEPT !.w = Greater(1, p[1] - r.x + 1),
                                                          !.h = Greater(1, p[2] - r.y + 1)]]
  /\ UNCHANGED icon

SizeDamage ==
  IF drag # "size" \/ wins'[focused].rect = wins[focused].rect THEN <<>>
  ELSE <<Expanded(Joined(wins[focused].rect, wins'[focused].rect), Pad)>>

MoveIcon ==
  /\ drag = "icon"
  /\ icon' \in Spots
  /\ UNCHANGED wins

IconDamage == IF icon' = icon THEN <<>> ELSE <<Joined(icon, icon')>>

(* Hovering: over an open submenu its items follow the pointer, over the menu
   its own, and a submenu opens or closes with them; elsewhere it closes. A
   disabled item, or the rim, is no item. *)
HoverPopup ==
  IF ~popup.on THEN UNCHANGED popup
  ELSE IF popup.sub /\ In(pointer', SubAt)
    THEN \E i \in {0, 1} : popup' = [popup EXCEPT !.subhover = i]
  ELSE IF In(pointer', MenuAt)
    THEN \/ popup' = [popup EXCEPT !.hover = 0]
         \/ \E s \in BOOLEAN : popup' = [on |-> TRUE, hover |-> 1, sub |-> s,
                                        subhover |-> IF s /\ popup.sub THEN popup.subhover ELSE 0]
  ELSE popup' = [NoPopup EXCEPT !.on = TRUE]

SubDamage ==
  IF popup.sub # popup'.sub THEN <<SubAt>> ELSE <<>>

MenuDamage ==
  SubDamage \o (IF popup'.hover # popup.hover THEN <<MenuAt>> ELSE <<>>)
            \o (IF popup'.subhover # popup.subhover /\ popup'.sub THEN <<SubAt>> ELSE <<>>)

DockDamage == IF Hot' # Hot THEN <<Joined(Dock, Tip)>> ELSE <<>>

PointerDamage == <<At(pointer), At(pointer')>>

Damage == SizeDamage \o IconDamage \o MenuDamage \o DockDamage \o PointerDamage

MovePointer ==
  /\ drag # "select"
  /\ \E p \in Places \ {pointer} :
       /\ pointer' = p
       /\ \/ MoveWindow(p) \/ SizeWindow(p) \/ MoveIcon
          \/ drag = "none" /\ UNCHANGED <<wins, icon>>
  /\ HoverPopup
  /\ UNCHANGED <<focused, drag>>
  /\ Hasten(Changed)
  /\ pending' = AddAll(pending, AddAll(<<>>, Damage))
  /\ UNCHANGED missed

(* While icons are selected every motion draws everything. *)
Select ==
  /\ drag = "select"
  /\ pointer' \in Places
  /\ UNCHANGED scene
  /\ DrawAll

-----------------------------------------------------------------------------
(* Buttons. Windows are opened, closed, raised, zoomed and so on, a drag or a
   selection begins or ends, menus open and close: all with everything drawn.
   An event that moves the pointer as well is two steps. *)

PressButton ==
  /\ drag = "none"
  /\ UNCHANGED pointer
  /\ \/ /\ wins' \in Layouts /\ focused' \in {0, Len(wins')} /\ popup' = NoPopup
        /\ drag' \in {"none"} \cup (IF focused' # 0 /\ ~wins'[focused'].min THEN {"window", "size"} ELSE {})
        /\ UNCHANGED icon
     \/ /\ \E open \in BOOLEAN : popup' = [NoPopup EXCEPT !.on = TRUE, !.sub = open]
        /\ UNCHANGED <<wins, focused, drag, icon>>
     \/ /\ focused' = 0 /\ drag' = "select" /\ popup' = NoPopup
        /\ UNCHANGED <<wins, icon>>
  /\ DrawAll

ReleaseButton ==
  /\ drag # "none" /\ drag' = "none"
  /\ UNCHANGED <<wins, focused, popup, icon, pointer>>
  /\ DrawAll

(* Three handlers change the scene and draw nothing: a right click closes the
   menu over a window that has none of its own, a press selects an icon, and
   perhaps opens a window, and a program creates one. *)
Quiet ==
  /\ UNCHANGED <<pointer, pending>>
  /\ Spoil(Changed)
  /\ missed' = missed \cup Changed

CloseMenu ==
  /\ drag = "none" /\ popup.on
  /\ popup' = NoPopup
  /\ UNCHANGED <<wins, focused, drag, icon>>
  /\ Quiet

PressIcon ==
  /\ drag = "none" /\ ~popup.on
  /\ focused' = 0
  /\ \/ drag' = "icon" /\ UNCHANGED wins
     \/ drag' = "none" /\ Len(wins) < 2 /\ wins' = Append(wins, New)
  /\ UNCHANGED <<popup, icon>>
  /\ Quiet

ProgramWindow ==
  /\ Len(wins) < 2
  /\ wins' = Append(wins, New)
  /\ UNCHANGED <<focused, drag, popup, icon>>
  /\ Quiet

-----------------------------------------------------------------------------
(* Contents. A program fills its window; a key goes to the active one, which is
   drawn at once, or to the name of an icon; and every few frames a window with
   a caret or a graph is drawn. *)

Update ==
  /\ \E i \in DOMAIN wins :
       /\ ~wins[i].min
       /\ Spoil({c \in Screen : Painted(i, c)})
       /\ pending' = Add(pending, Expanded(wins[i].rect, Pad))
  /\ UNCHANGED <<scene, pointer, missed>>

KeyPress ==
  /\ UNCHANGED <<scene, pointer, pending>>
  /\ IF focused # 0 THEN Draw(<<wins[focused].rect>>, {}) ELSE DrawAll

Refresh ==
  /\ UNCHANGED <<scene, pointer, pending>>
  /\ \E i \in DOMAIN wins : ~wins[i].min /\ Draw(<<Expanded(wins[i].rect, Shadow)>>, {})

-----------------------------------------------------------------------------
(* A frame. Windows glide a third of the way to where they are dragged, and the
   dirty rectangles are taken and drawn. *)

(* In C, (d - 2) / 3 of a negative d rounds up: it is d \div 3, which rounds down. *)
Third(d) == IF d > 0 THEN (d + 2) \div 3 ELSE d \div 3

Glided(w) ==
  [w EXCEPT !.rect.x = @ + Third(w.target.x - @), !.rect.y = @ + Third(w.target.y - @)]

Trail(w) ==
  IF w.rect.x = w.target.x /\ w.rect.y = w.target.y THEN <<>>
  ELSE <<Expanded(w.rect, Pad), Expanded(Glided(w).rect, Pad)>>

Trailing(list) ==
  LET queued[i \in 0 .. Len(wins)] ==
        IF i = 0 THEN list ELSE AddAll(queued[i - 1], Trail(wins[i]))
  IN  queued[Len(wins)]

Frame ==
  /\ wins' = [i \in DOMAIN wins |-> Glided(wins[i])]
  /\ pending' = <<>>
  /\ UNCHANGED <<focused, drag, popup, icon, pointer>>
  /\ Draw(Trailing(pending), Changed)

ScreenNext ==
  \/ MovePointer \/ Select \/ PressButton \/ ReleaseButton
  \/ CloseMenu \/ PressIcon \/ ProgramWindow
  \/ Update \/ KeyPress \/ Refresh \/ Frame

ScreenSpec == ScreenInit /\ [][ScreenNext]_screenVars

-----------------------------------------------------------------------------
(* Properties. *)

ScreenTypeOK ==
  /\ focused \in 0 .. Len(wins) /\ pointer \in Places
  /\ pending \in Seq(Rects) /\ Len(pending) <= MaxRects
  /\ \A i \in DOMAIN pending : pending[i].w > 0 /\ pending[i].h > 0
  /\ {back, shown, hidden, missed} \subseteq SUBSET Screen

(* Whatever is wrong in one of the pictures will be drawn with the next frame,
   unless a handler kept quiet about it: no trails, no ghosts, no page that
   shows an old picture after a flip. *)
NothingForgotten ==
  Screen \ (back \cap shown \cap hidden) \subseteq Covered(pending) \cup missed
=============================================================================
