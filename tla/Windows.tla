------------------------------ MODULE Windows ------------------------------
(***************************************************************************)
(* The windows of the window manager (kernel/wm.cpp): their list, focus,   *)
(* drags, sizes and buffers, and the window system calls of                *)
(* kernel/syscall.cpp. Every handler is one step: the GUI thread has       *)
(* priority over all others and a system call runs with interrupts off, so *)
(* none of them interleave.                                                *)
(*                                                                         *)
(* Geometry is left out: an event says what it hits. A size is one number  *)
(* of pixels; positions do not matter. Menus are those of the Menus module *)
(* with their state left out: a click may land in one and run any action.  *)
(***************************************************************************)
EXTENDS Integers, Sequences

CONSTANTS
  MaxWin,  \* bound: windows ever created
  Sizes,   \* sizes a window is created with or resized to
  Full,    \* the size of a maximised window
  MaxSize, \* bound: a rescaled window, which may grow at each turn of zoom and scale
  Scales   \* ui_scale (the code also has 1.25 and 1.5)

(* Windows by title, as far as the handlers here tell them apart: "app" is
   any of the desktop's own that is not listed. *)
Kinds == {"app", "settings", "editor", "program"}

ASSUME WindowsAssumption ==
  /\ {MaxWin, MaxSize} \subseteq Nat /\ Full \in Nat \ {0}
  /\ Sizes \subseteq Nat \ {0} /\ Scales \subseteq Nat \ {0}

VARIABLES
  order,     \* the list from window_list_head on, the front window last
  win,       \* the windows, by id
  nextId,    \* next_window_id
  active,    \* active_window, 0 for none
  resizing,  \* is_resizing_window
  pressed,   \* mouse_pressed
  scale,     \* ui_scale
  swallowed  \* the release of a drag once came with a right click

windows == <<order, win, nextId, active>>
vars    == <<windows, resizing, pressed, scale, swallowed>>

Ids == 1 .. MaxWin

Closed == [kind |-> "closed", size |-> 0, orig |-> 0, alloc |-> 0,
           max |-> FALSE, min |-> FALSE, drag |-> FALSE, ev |-> "none"]

Init ==
  /\ order = <<>> /\ win = [w \in Ids |-> Closed] /\ nextId = 1 /\ active = 0
  /\ resizing = FALSE /\ pressed = FALSE /\ swallowed = FALSE
  /\ scale \in Scales   \* that of desktop.cfg

-----------------------------------------------------------------------------
(* The list of windows. *)

WindowIds == {order[i] : i \in DOMAIN order}

Unlinked(s, k) == [i \in 1 .. Len(s) - 1 |-> s[IF i < k THEN i ELSE i + 1]]

Without(w) == Unlinked(order, CHOOSE k \in DOMAIN order : order[k] = w)
Raised(w)  == Append(Without(w), w)

Front(s) == IF s = <<>> THEN 0 ELSE s[Len(s)]

(* A new window, added to ws, goes in front of list; it does not become the
   active one. *)
CreateIn(ws, list, kind, size, alloc) ==
  /\ nextId <= MaxWin
  /\ order' = Append(list, nextId)
  /\ win' = [ws EXCEPT ![nextId] = [Closed EXCEPT !.kind = kind, !.size = size * scale,
                                                   !.orig = size, !.alloc = alloc]]
  /\ nextId' = nextId + 1

OpenIn(ws, list) ==
  \E kind \in Kinds \ {"program"}, size \in Sizes : CreateIn(ws, list, kind, size, 0)

CloseDangling(w) ==
  /\ order' = Without(w)
  /\ win' = [win EXCEPT ![w] = Closed]
  /\ UNCHANGED <<active, nextId>>

CloseLeaks(w) ==
  /\ order' = Without(w)
  /\ win' = [win EXCEPT ![w].kind = "closed"]
  /\ active' = IF active = w THEN Front(Without(w)) ELSE active
  /\ UNCHANGED nextId

Close(w) ==
  /\ order' = Without(w)
  /\ win' = [win EXCEPT ![w] = Closed]
  /\ active' = IF active = w THEN Front(Without(w)) ELSE active
  /\ UNCHANGED nextId

(* The size before is kept as it is on the screen, not divided by the scale. *)
Zoomed(w) ==
  IF w.max THEN [w EXCEPT !.size = w.orig, !.max = FALSE]
           ELSE [w EXCEPT !.orig = w.size, !.size = Full, !.max = TRUE]

Minimize(w) ==
  /\ win' = [win EXCEPT ![w].min = TRUE]
  /\ UNCHANGED <<order, nextId, active>>

(* A click in the dock. The first window of the title comes to the front, but
   does not become active; several titles are an "app". *)
Focus(w) ==
  /\ win' = [win EXCEPT ![w].min = FALSE]
  /\ order' = Raised(w)
  /\ UNCHANGED <<nextId, active>>

FocusOrCreate ==
  \/ \E i \in DOMAIN order :
       /\ win[order[i]].kind \in {"app", "settings"}
       /\ win[order[i]].kind = "settings" => \A j \in 1 .. i - 1 : win[order[j]].kind # "settings"
       /\ Focus(order[i])
  \/ /\ \E kind \in {"app", "settings"}, size \in Sizes :
          /\ kind = "settings" => \A w \in WindowIds : win[w].kind # "settings"
          /\ CreateIn(win, order, kind, size, 0)
     /\ UNCHANGED active

(* set_ui_scale: windows that own a buffer keep their size. *)
Rescaled(s) ==
  [w \in Ids |-> IF win[w].alloc = 0 THEN [win[w] EXCEPT !.size = win[w].orig * s] ELSE win[w]]

-----------------------------------------------------------------------------
(* What a menu may do to windows. *)

MenuAction ==
  \/ UNCHANGED windows                                        \* most of them
  \/ OpenIn(win, order) /\ UNCHANGED active                      \* open, new window, help
  \/ order' = <<>> /\ win' = [w \in Ids |-> Closed] /\ active' = 0 /\ UNCHANGED nextId
  \/ active # 0 /\ Minimize(active)
  \/ active # 0 /\ win' = [win EXCEPT ![active] = Zoomed(@)] /\ UNCHANGED <<order, nextId, active>>
  \/ active' = 0 /\ UNCHANGED <<order, win, nextId>>          \* rename an icon

-----------------------------------------------------------------------------
(* Left button pressed. *)

(* The title bar starts a drag: a buffer takes a picture of the window, in
   the place of the one a program draws in. *)
Grabbed(w) ==
  LET size == IF w.max THEN w.orig ELSE w.size
  IN  [w EXCEPT !.drag = TRUE, !.max = FALSE, !.size = size, !.alloc = size]

PressSettings(w) ==
  /\ win[w].kind = "settings" /\ order' = Raised(w)
  /\ scale' \in Scales /\ win' = Rescaled(scale')
  /\ \A v \in Ids : win'[v].size <= MaxSize
  /\ UNCHANGED nextId

OpenFile(w) ==   \* a double click in a Finder
  win[w].kind = "app" /\ OpenIn(win, Raised(w)) /\ UNCHANGED scale

(* The branch that posts a click sits inside the one for the editor: clicks
   reach editors, which no process reads, and never a program. *)
PressClient(w) ==
  /\ active' = w
  /\ \/ order' = Raised(w) /\ UNCHANGED <<win, nextId, scale>>
     \/ PressSettings(w) \/ OpenFile(w)

PressGrip(w) ==
  /\ ~win[w].max
  /\ resizing' = TRUE /\ active' = w /\ order' = Raised(w)
  /\ UNCHANGED <<win, nextId, scale>>

PressTitle(w) ==
  /\ win' = [win EXCEPT ![w] = Grabbed(@)] /\ order' = Raised(w) /\ active' = w
  /\ UNCHANGED <<nextId, resizing, scale>>

PressZoom(w) ==
  /\ win' = [win EXCEPT ![w] = Zoomed(@)] /\ order' = Raised(w)
  /\ UNCHANGED <<nextId, active, resizing, scale>>

PressWindow(w) ==
  \/ PressGrip(w) \/ PressTitle(w) \/ PressZoom(w)
  \/ (Close(w) \/ Minimize(w)) /\ UNCHANGED <<resizing, scale>>
  \/ PressClient(w) /\ UNCHANGED resizing

(* The desktop: no window stays active. A double click on an icon opens it. *)
PressDesktop ==
  /\ active' = 0
  /\ OpenIn(win, order) \/ UNCHANGED <<order, win, nextId>>

Press ==
  /\ ~pressed /\ pressed' = TRUE
  /\ \/ \E w \in WindowIds : ~win[w].min /\ PressWindow(w)
     \/ (MenuAction \/ FocusOrCreate \/ PressDesktop) /\ UNCHANGED <<resizing, scale>>
  /\ UNCHANGED swallowed

-----------------------------------------------------------------------------
(* The pointer moves with the button down, and the button is released. *)

Dragging == active # 0 /\ win[active].drag
Sizing   == active # 0 /\ resizing

(* A window that is dragged glides after the pointer, which changes positions
   only. *)
Resize ==
  /\ pressed /\ Sizing /\ ~Dragging
  /\ \E size \in Sizes : win' = [win EXCEPT ![active].size = size]
  /\ UNCHANGED <<order, nextId, active, resizing, pressed, scale, swallowed>>

DroppedKeeps(w) == [w EXCEPT !.drag = FALSE]

Dropped(w) == IF w.drag THEN [w EXCEPT !.drag = FALSE, !.alloc = 0] ELSE w

(* Both kinds of drag end; an icon that has hardly moved opens a window. *)
Put ==
  IF active = 0 THEN win
  ELSE LET w == win[active] IN
       [win EXCEPT ![active] =
          IF resizing THEN [Dropped(w) EXCEPT !.orig = w.size \div scale] ELSE Dropped(w)]

ReleaseSizing ==
  /\ pressed /\ pressed' = FALSE
  /\ \/ win' = Put /\ UNCHANGED <<order, nextId>>
     \/ OpenIn(Put, order)
  /\ UNCHANGED <<active, resizing, scale, swallowed>>

Release ==
  /\ pressed /\ pressed' = FALSE
  /\ \/ win' = Put /\ UNCHANGED <<order, nextId>>
     \/ OpenIn(Put, order)
  /\ resizing' = (resizing /\ active = 0)
  /\ UNCHANGED <<active, scale, swallowed>>

(* The right button goes down in the same event and opens a menu, which ends
   the handler before it looks at the release. *)
ReleaseSwallowed ==
  /\ pressed /\ pressed' = FALSE
  /\ swallowed' = (swallowed \/ Dragging \/ Sizing)
  /\ UNCHANGED <<windows, resizing, scale>>

(* handle_key_press: the slot of the active window holds the last event; only
   programs read theirs. What the key does to texts and names is left out. *)
Key ==
  /\ active # 0 /\ win[active].kind = "program"
  /\ win' = [win EXCEPT ![active].ev = "key"]
  /\ UNCHANGED <<order, nextId, active, resizing, pressed, scale, swallowed>>

-----------------------------------------------------------------------------
(* System calls: a program's window gets a buffer of the size asked for. *)

CreateWindow ==
  /\ \E size \in Sizes : CreateIn(win, order, "program", size, size)
  /\ UNCHANGED <<active, resizing, pressed, scale, swallowed>>

GetEvent(w) ==
  /\ win[w].ev # "none"
  /\ win' = [win EXCEPT ![w].ev = "none"]
  /\ UNCHANGED <<order, nextId, active, resizing, pressed, scale, swallowed>>

(* How much of the buffer sys_update_window writes, and how much drawing the
   window reads. *)
Written(w) == w.orig
Drawn(w) ==
  IF w.drag THEN w.size
  ELSE IF w.kind # "program" THEN 0
  ELSE IF scale = 1 THEN w.size ELSE w.orig

Next ==
  \/ Press \/ Resize \/ Release \/ ReleaseSwallowed \/ Key
  \/ CreateWindow \/ \E w \in Ids : GetEvent(w)

Spec == Init /\ [][Next]_vars

-----------------------------------------------------------------------------
(* Properties. *)

(* Types, and a closed window's record is empty. *)
TypeOK ==
  /\ win \in [Ids -> [kind : Kinds \cup {"closed"}, size : Nat, orig : Nat, alloc : Nat,
                      max : BOOLEAN, min : BOOLEAN, drag : BOOLEAN, ev : {"none", "key"}]]
  /\ nextId \in 1 .. MaxWin + 1 /\ scale \in Scales
  /\ order \in Seq(Ids) /\ active \in Ids \cup {0}
  /\ {resizing, pressed, swallowed} \subseteq BOOLEAN
  /\ \A w \in Ids : win[w].kind = "closed" => win[w] = Closed

(* The list holds every open window once, and active_window is one of them:
   no handler keeps a window that has been closed. *)
ListExact ==
  /\ \A i, j \in DOMAIN order : order[i] = order[j] => i = j
  /\ WindowIds = {w \in Ids : win[w].kind # "closed"}
  /\ active \in WindowIds \cup {0}

(* A drag lasts while the left button is down, one at a time and of the
   active window, unless a release came together with a right click, which
   takes the event for itself. *)
DragsEnd ==
  LET moved == {w \in Ids : win[w].drag} IN
  ~swallowed =>
    /\ resizing \/ moved # {} => pressed
    /\ moved \subseteq {active}
    /\ resizing => active # 0 /\ moved = {}

(* Only a program's window and one that is being dragged own a buffer: any
   other would keep its size when the scale changes, and leak. *)
BuffersAccounted ==
  \A w \in Ids : win[w].alloc # 0 => win[w].kind = "program" \/ win[w].drag

(* What a program writes into its window and what drawing reads back lies
   inside the buffer. *)
BufferFits ==
  \A w \in Ids :
    win[w].alloc # 0 => Written(win[w]) <= win[w].alloc /\ Drawn(win[w]) <= win[w].alloc
=============================================================================
