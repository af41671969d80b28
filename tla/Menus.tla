------------------------------- MODULE Menus -------------------------------
(***************************************************************************)
(* Menus and icons of the window manager (kernel/wm.cpp): context menus,   *)
(* the menu bar, the submenu, the items they offer, and the icons that are *)
(* selected, dragged, made and removed by them. The handler of a mouse     *)
(* event is one step. Windows are those of the Windows module with their   *)
(* state left out: any of them may lie under the pointer, and a Finder may *)
(* be the active one or not. Files belong to the Overlay module.           *)
(***************************************************************************)
EXTENDS Integers, Sequences

CONSTANTS
  Bar,       \* menus of the menu bar that get opened
  MaxIcons,  \* capacity of desktop_items
  FirstIcons \* desktop_items at the start

IconKinds == {"dir", "file", "usb"}

ASSUME MenusAssumption ==
  /\ MaxIcons \in Nat /\ Bar \subseteq {0, 1} \cup 3 .. 8
  /\ FirstIcons \in Seq([kind : IconKinds, sel : {FALSE}]) /\ Len(FirstIcons) <= MaxIcons

VARIABLES
  menu, sub,   \* active_menu and active_submenu; hover 0 for none
  icons,       \* desktop_items
  held,        \* dragged_desktop_item_idx, from 1 on; 0 for none
  selecting,   \* is_dragging_selection
  usb,         \* usb_connected
  clipboard,   \* clipboard_path is not empty
  buttons,     \* mouse_pressed and right_mouse_pressed
  halted,      \* the machine has been shut down
  lostDrop     \* the release of a drag once came with a right click

menus == <<menu, sub>>
disk  == <<icons, usb, clipboard>>
drags == <<held, selecting>>
menusVars  == <<menus, disk, drags, buttons, halted, lostDrop>>

NoMenu == [on |-> FALSE, type |-> 0, hover |-> 0]

MenusInit ==
  /\ menu = NoMenu /\ sub = NoMenu
  /\ icons = FirstIcons /\ usb = FALSE /\ clipboard = FALSE
  /\ held = 0 /\ selecting = FALSE
  /\ buttons = [left |-> FALSE, right |-> FALSE]
  /\ halted = FALSE /\ lostDrop = FALSE

-----------------------------------------------------------------------------
(* Icons. *)

AddedAlways(s, kind) == Append(s, [kind |-> kind, sel |-> FALSE])

Added(s, kind) ==
  IF Len(s) < MaxIcons THEN Append(s, [kind |-> kind, sel |-> FALSE]) ELSE s

Kept(s, gone) ==
  LET left[i \in 0 .. Len(s)] ==   \* what is left of the first i icons
        IF i = 0 THEN <<>> ELSE IF i \in gone THEN left[i - 1] ELSE Append(left[i - 1], s[i])
  IN  left[Len(s)]

Unusb(s) == Kept(s, {i \in DOMAIN s : s[i].kind = "usb"})

SelectOnly(S) == [i \in DOMAIN icons |-> [icons[i] EXCEPT !.sel = i \in S]]

Selected ==   \* the first selected icon, 0 for none
  LET S == {i \in DOMAIN icons : icons[i].sel}
  IN  IF S = {} THEN 0 ELSE CHOOSE i \in S : \A j \in S : i <= j

UsbSelected == \E i \in DOMAIN icons : icons[i].sel /\ icons[i].kind = "usb"

-----------------------------------------------------------------------------
(* The items of each menu, made anew from the state whenever they are asked
   for. What concerns windows alone is "window". *)

Act(a)     == [act |-> a, sub |-> 0, on |-> TRUE]
Greyed     == [act |-> "none", sub |-> 0, on |-> FALSE]
SubMenu(t) == [act |-> "none", sub |-> t, on |-> TRUE]

Items(t) ==
  CASE t = 0   -> <<Act("window"), Act("halt"), Act("halt")>>
    [] t \in {1, 3, 8} -> <<Act("window"), Act("window")>>
    [] t = 2   -> <<SubMenu(100), Act("window"), SubMenu(101), Act("none")>>
    [] t = 4   -> <<Greyed, Greyed, Act("cut"), Act("copy")>>
    [] t = 5   -> <<Act("none"), Act("none")>>
    [] t = 6   -> <<Act("none"), Act("none"), Act("none"), Act("none")>>
    [] t = 7   -> <<Act("window"), Act("window"), Act("none")>>
    [] t = 9   -> <<Act("copy"), Act("cut"), Act("none"), Act("delete")>>
    [] t = 10  -> <<[Act("paste") EXCEPT !.on = clipboard], SubMenu(100)>>
    [] t = 11  -> <<Act("window"), Act("none"),
                    Act(IF UsbSelected THEN "eject" ELSE "delete"), Act("none")>>
    [] t = 100 -> <<Act("dir"), Act("file")>>
    [] t = 101 -> <<Act("none"), Act("none"), Act("none"), Act("none")>>

Offers(t, i) == i \in DOMAIN Items(t) /\ Items(t)[i].on

-----------------------------------------------------------------------------
(* What an item does. finder: a Finder is the active window, and its own
   files are meant. *)

Cut(finder) ==
  /\ clipboard' \in IF finder THEN {clipboard, TRUE} ELSE {clipboard \/ Selected # 0}
  /\ UNCHANGED <<icons, usb>>

(* A folder takes what is in it along; files shown by a Finder have an icon
   or not. *)
Delete(finder) ==
  /\ IF ~finder /\ Selected = 0 THEN UNCHANGED icons
     ELSE \E gone \in SUBSET DOMAIN icons :
            /\ ~finder => Selected \in gone
                          /\ (icons[Selected].kind # "dir" => gone = {Selected})
            /\ icons' = Kept(icons, gone)
  /\ UNCHANGED <<usb, clipboard>>

(* What has the name goes, the copy comes, and after a cut the source goes.
   The source may have disappeared. *)
Paste ==
  /\ UNCHANGED usb
  /\ \/ UNCHANGED <<icons, clipboard>>
     \/ /\ clipboard
        /\ \E old, src \in {{}} \cup {{i} : i \in DOMAIN icons}, k \in {"dir", "file"} :
             /\ icons' = Kept(Added(Kept(icons, old), k), src)
             /\ clipboard' = FALSE \/ (src = {} /\ UNCHANGED clipboard)

Execute(a) ==
  /\ \E finder \in BOOLEAN :
       CASE a \in {"dir", "file"} -> icons' = Added(icons, a) /\ UNCHANGED <<usb, clipboard>>
         [] a \in {"cut", "copy"} -> Cut(finder)
         [] a = "delete" -> Delete(finder)
         [] a = "paste" -> Paste
         [] a = "eject" -> icons' = Unusb(icons) /\ usb' = FALSE /\ UNCHANGED clipboard
         [] OTHER -> UNCHANGED disk
  /\ halted' = (a = "halt")

-----------------------------------------------------------------------------
(* Right button pressed. A context menu opens over the files of a Finder and
   over the desktop where no window is, not even a minimised one. The submenu
   stays as it is. *)

OpenHovering(type) == menu' = [menu EXCEPT !.on = TRUE, !.type = type]

OpenMenu(type) == menu' = [on |-> TRUE, type |-> type, hover |-> 0]

RightClick ==
  /\ \/ \E type \in {2, 9, 10} : OpenMenu(type) /\ UNCHANGED icons
     \/ \E i \in DOMAIN icons : OpenMenu(11) /\ icons' = SelectOnly({i})
  /\ UNCHANGED <<sub, usb, clipboard, drags, halted>>

-----------------------------------------------------------------------------
(* Left button pressed with a menu open: the item the pointer was over in the
   event before is executed; one that has a submenu leaves it open. *)

NoneOpen == menu' = NoMenu /\ sub' = NoMenu

ClickSub ==
  /\ sub.on /\ NoneOpen
  /\ IF sub.hover # 0 THEN Execute(Items(sub.type)[sub.hover].act)
                      ELSE UNCHANGED <<disk, halted>>

ClickMain ==
  IF menu.hover # 0 /\ Items(menu.type)[menu.hover].sub = 0
    THEN NoneOpen /\ Execute(Items(menu.type)[menu.hover].act)
    ELSE UNCHANGED <<menus, disk, halted>>

ClickMenu ==
  /\ ClickSub \/ ClickMain \/ (NoneOpen /\ UNCHANGED <<disk, halted>>)
  /\ UNCHANGED drags

(* And with none open. *)
ClickBar ==
  /\ \E t \in Bar : OpenMenu(t)
  /\ UNCHANGED <<sub, disk, drags, halted>>

ClickUsb ==
  /\ usb' = ~usb
  /\ icons' = IF usb THEN Unusb(icons) ELSE Added(icons, "usb")
  /\ menu' = NoMenu
  /\ UNCHANGED <<sub, clipboard, drags, halted>>

ClickIcon ==   \* it opens on a double click, and can be dragged otherwise
  /\ \E i \in DOMAIN icons : icons' = SelectOnly({i}) /\ held' \in {held, i}
  /\ menu' = NoMenu
  /\ UNCHANGED <<sub, usb, clipboard, selecting, halted>>

ClickDesktop ==
  /\ icons' = SelectOnly({}) /\ selecting' = TRUE /\ menu' = NoMenu
  /\ UNCHANGED <<sub, usb, clipboard, held, halted>>

ClickWindow ==   \* or the dock; a Finder may make a folder or a file
  /\ icons' \in {icons, Added(icons, "dir"), Added(icons, "file")}
  /\ menu' = NoMenu
  /\ UNCHANGED <<sub, usb, clipboard, drags, halted>>

ClickBelow == ClickBar \/ ClickUsb \/ ClickIcon \/ ClickDesktop \/ ClickWindow

-----------------------------------------------------------------------------
(* Release and moves. *)

DropHeld ==
  /\ selecting' = FALSE
  /\ UNCHANGED <<held, menus, disk, halted>>

Drop ==
  /\ held' = 0 /\ selecting' = FALSE
  /\ UNCHANGED <<menus, disk, halted>>

SelectIcons ==
  /\ \E S \in SUBSET DOMAIN icons : icons' = SelectOnly(S)
  /\ UNCHANGED <<menus, usb, clipboard, drags, halted>>

HoverAny(i, j) ==
  menu' = [menu EXCEPT !.hover = IF menu.on /\ j > 0 THEN j ELSE 0] /\ UNCHANGED sub

(* Menus follow the pointer: over item i of the submenu or j of the menu; 0 is
   a margin, -1 outside. A submenu opens with its item and closes with another
   one, or when the pointer leaves both. *)
Hover(i, j) ==
  LET item == IF j > 0 /\ Offers(menu.type, j) THEN j ELSE 0
      to   == IF item = 0 THEN 0 ELSE Items(menu.type)[item].sub
      left == IF sub.on /\ j = -1 THEN NoMenu ELSE sub
      new  == [on |-> TRUE, type |-> to, hover |-> 0]
  IN  IF ~menu.on THEN UNCHANGED menus
      ELSE IF sub.on /\ i # -1
        THEN /\ sub' = [sub EXCEPT !.hover = IF i > 0 /\ Offers(sub.type, i) THEN i ELSE 0]
             /\ UNCHANGED menu
      ELSE /\ menu' = [menu EXCEPT !.hover = item]
           /\ CASE to # 0 -> sub' \in {new} \cup IF left.on /\ left.type = to THEN {left} ELSE {}
                [] item # 0 /\ to = 0 -> sub' = NoMenu
                [] OTHER -> sub' = left

Over(m) == IF m.on THEN -1 .. Len(Items(m.type)) ELSE {-1}

Move ==
  /\ \E i \in Over(sub), j \in Over(menu) : Hover(i, j)
  /\ UNCHANGED <<disk, drags, halted>>

(* handle_mouse_move: the first part that has something to do takes the event. *)
Mouse(left, right) ==
  LET rightDown == right /\ ~buttons.right
      leftDown  == left /\ ~buttons.left
      leftUp    == ~left /\ buttons.left
      busy      == held # 0 \/ selecting
  IN  /\ ~halted
      /\ buttons' = [left |-> left, right |-> right]
      /\ \/ rightDown /\ RightClick /\ lostDrop' = (lostDrop \/ (leftUp /\ busy))
         \/ UNCHANGED lostDrop /\ leftDown /\ menu.on /\ ~rightDown /\ ClickMenu
         \/ UNCHANGED lostDrop /\ leftDown /\ (rightDown \/ ~menu.on) /\ ClickBelow
         \/ UNCHANGED lostDrop /\ leftUp /\ busy /\ Drop
         \/ UNCHANGED lostDrop /\ ~leftDown /\ left /\ selecting /\ held = 0 /\ SelectIcons
         \/ UNCHANGED lostDrop /\ ~leftDown /\ ~(leftUp /\ busy)
            /\ IF rightDown THEN menu' = NoMenu /\ UNCHANGED <<sub, disk, drags, halted>> ELSE Move

MenusNext == \E left, right \in BOOLEAN : Mouse(left, right)

MenusSpec == MenusInit /\ [][MenusNext]_menusVars

-----------------------------------------------------------------------------
(* Properties. *)

Types == {2, 9, 10, 11} \cup Bar

MenusTypeOK ==
  /\ menu \in [on : BOOLEAN, type : Types \cup {0}, hover : 0 .. 4]
  /\ sub \in [on : BOOLEAN, type : {0, 100, 101}, hover : 0 .. 4]
  /\ icons \in Seq([kind : IconKinds, sel : BOOLEAN]) /\ Len(icons) <= MaxIcons
  /\ {usb, clipboard, selecting, halted, lostDrop} \subseteq BOOLEAN

(* The item a click would execute exists in the menu as it is filled now and
   may be chosen. *)
HoverOffered ==
  /\ menu.on /\ menu.hover # 0 => Offers(menu.type, menu.hover)
  /\ sub.on /\ sub.hover # 0 => Offers(sub.type, sub.hover)

(* The icon that is dragged is still there, and the drag lasts while the left
   button is down, unless its release came together with a right click, which
   takes the event for itself. *)
IconDragsEnd ==
  ~lostDrop =>
    /\ held # 0 \/ selecting => buttons.left
    /\ held <= Len(icons) /\ ~(held # 0 /\ selecting)

(* What the mouse state points at is there: the item a click would execute and
   the icon a motion would drag. *)
PointersValid == HoverOffered /\ IconDragsEnd
=============================================================================
