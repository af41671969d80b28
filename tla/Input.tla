------------------------------- MODULE Input -------------------------------
(***************************************************************************)
(* Keyboard and mouse, from the interrupt to the program: the handlers and *)
(* rings of drivers/ps2.cpp, the loop of gui_demo_thread (kernel/main.cpp) *)
(* that empties them, and a process that reads the console (sys_read).     *)
(*                                                                         *)
(* The GUI thread runs with interrupts on, so a handler may run between    *)
(* any two of its accesses to a ring: a poll is two steps, the read of the *)
(* entry and the store of the head. A system call runs with interrupts off *)
(* and gives up the CPU only in schedule(), and schedule() prefers the GUI *)
(* thread whenever it is not blocked: a console read runs only while that  *)
(* thread sleeps, and its poll is one step.                                *)
(***************************************************************************)
EXTENDS Integers, Sequences

CONSTANTS
  KbdSize,     \* KBD_RING_SIZE
  MouseSize,   \* MOUSE_RING_SIZE
  Shift,       \* scan code of the shift keys
  Codes,       \* scan codes of keys that have a character
  Plain,       \* kbd_us[code]
  Shifted,     \* kbd_us_shift[code]
  Newline,     \* the character that ends a console read
  Erase,       \* the character that takes back the last one
  Count,       \* the length a console read asks for, not 0
  Demo,        \* buttons of the events the start-up demonstration injects
  DemoKey,     \* the character it injects
  MaxInput,    \* bound: keyboard interrupts and packets of the mouse
  MaxFaults    \* bound: faults, up to which bytes get lost

NoChar == "none"

Chars == {Plain[c] : c \in Codes} \cup {Shifted[c] : c \in Codes} \cup {DemoKey}

ASSUME SizesAssumption ==
  /\ KbdSize \in Nat /\ KbdSize >= 2 /\ MouseSize \in Nat /\ MouseSize >= 2
  /\ MaxInput \in Nat /\ MaxFaults \in Nat /\ Count \in Nat \ {0}
ASSUME TablesAssumption ==
  Demo \in Seq(BOOLEAN) /\ NoChar \notin Chars /\ Shift \notin Codes

VARIABLES
  kbuf, khead, ktail,  \* kbd_ring, kbd_head, kbd_tail
  shift,               \* shift_active
  delivered,           \* the last character poll_keyboard returned; the bit
                       \* flips with each
  mbuf, mhead, mtail,  \* mouse_ring, mouse_head, mouse_tail
  dec,                 \* mouse_cycle and mouse_bytes; ok: the bytes so far
                       \* belong to one packet, in order
  wire,                \* the mouse: packet and byte it sends next
  gui,                 \* the GUI thread: pc and locals
  armed,               \* gui_thread_wake_tsc > 0
  told,                \* button that handle_mouse_move was last told
  accepted,            \* button of the last entry put in mouse_ring, and the
                       \* motion of those handle_mouse_move has not been told
  reader,              \* the console read: whether in progress, characters so far
  input, faults, garbage  \* keyboard interrupts and packets so far; bytes lost
                          \* or read twice; events decoded from several packets

keyboard == <<kbuf, khead, ktail, shift, delivered>>
mouse    == <<mbuf, mhead, mtail, dec, wire, accepted, faults, garbage>>
vars     == <<keyboard, mouse, gui, armed, told, reader, input>>

KSuccNoWrap(i) == i + 1

KSucc(i) == IF i + 1 = KbdSize THEN 0 ELSE i + 1
MSucc(i) == IF i + 1 = MouseSize THEN 0 ELSE i + 1

NoEvent == [dx |-> 0, left |-> FALSE]
NoBytes == [cycle |-> 0, left |-> FALSE, p |-> 0, ok |-> FALSE]
None    == [dx |-> 0, left |-> FALSE, pending |-> FALSE]

MergeAny(a, e) == [dx |-> a.dx + e.dx, left |-> a.left \/ e.left, pending |-> TRUE]

(* An entry added to what was polled before: motion adds up, the button of
   the last entry stays. *)
Merge(a, e) == [dx |-> a.dx + e.dx, left |-> e.left, pending |-> TRUE]

Init ==
  /\ kbuf = [i \in 0 .. KbdSize - 1 |-> NoChar] /\ khead = 0 /\ ktail = 0
  /\ shift = FALSE /\ delivered = [c |-> NoChar, bit |-> 0]
  /\ mbuf = [i \in 0 .. MouseSize - 1 |-> NoEvent] /\ mhead = 0 /\ mtail = 0
  /\ dec = NoBytes
  /\ wire \in [p : {0}, i : 0 .. 2, left : {FALSE}]
  /\ gui = [pc |-> "test33", step |-> 1, ev |-> NoEvent, c |-> NoChar,
            acc |-> None, def |-> None, key |-> NoChar]
  /\ armed = FALSE /\ told = FALSE /\ accepted = NoEvent
  /\ reader = [on |-> FALSE, n |-> 0]
  /\ input = 0 /\ faults = 0 /\ garbage = 0

-----------------------------------------------------------------------------
(* The rings: one slot always stays empty, so that head = tail means empty.
   The code leaves an entry where it was when it has been taken; here its slot
   is cleared, so that the state does not remember what nothing may read. *)

KbdPush(c) ==
  IF KSucc(ktail) # khead
    THEN kbuf' = [kbuf EXCEPT ![ktail] = c] /\ ktail' = KSucc(ktail)
    ELSE UNCHANGED <<kbuf, ktail>>

MousePush(e) ==
  IF MSucc(mtail) # mhead
    THEN /\ mbuf' = [mbuf EXCEPT ![mtail] = e]
         /\ mtail' = MSucc(mtail)
         /\ accepted' = [dx |-> accepted.dx + e.dx, left |-> e.left]
    ELSE UNCHANGED <<mbuf, mtail, accepted>>

-----------------------------------------------------------------------------
(* Interrupts. *)

GuiBlocked == gui.pc \in {"switch", "asleep"}

Woken == IF GuiBlocked THEN [gui EXCEPT !.pc = "harvest"] ELSE gui

(* A key is released or pressed; the shift keys only set shift_active. *)
KeyIrq(code, release) ==
  /\ input < MaxInput /\ input' = input + 1
  /\ CASE code = Shift -> shift' = ~release /\ UNCHANGED <<kbuf, ktail>>
       [] code # Shift /\ release -> UNCHANGED <<shift, kbuf, ktail>>
       [] OTHER -> KbdPush(IF shift THEN Shifted[code] ELSE Plain[code]) /\ UNCHANGED shift
  /\ gui' = Woken
  /\ UNCHANGED <<khead, delivered, mouse, armed, told, reader>>

DecodeAny(p, i, left) ==
  CASE dec.cycle = 0 ->
         /\ dec' = [cycle |-> 1, left |-> left, p |-> p, ok |-> i = 0]
         /\ UNCHANGED <<mbuf, mtail, accepted, garbage>>
    [] dec.cycle = 1 ->
         /\ dec' = [dec EXCEPT !.cycle = 2, !.ok = @ /\ p = dec.p /\ i = 1]
         /\ UNCHANGED <<mbuf, mtail, accepted, garbage>>
    [] OTHER ->
         /\ dec' = NoBytes
         /\ MousePush([dx |-> 1, left |-> dec.left])
         /\ garbage' = IF dec.ok /\ p = dec.p /\ i = 2 THEN garbage ELSE garbage + 1

(* Byte i of packet p reaches the decoder. Only a first byte passes the test
   of bits 3, 6 and 7; motion that looks like one is not modelled. *)
Decode(p, i, left) ==
  CASE dec.cycle = 0 ->
         /\ dec' = IF i = 0 THEN [cycle |-> 1, left |-> left, p |-> p, ok |-> TRUE] ELSE dec
         /\ UNCHANGED <<mbuf, mtail, accepted, garbage>>
    [] dec.cycle = 1 ->
         /\ dec' = [dec EXCEPT !.cycle = 2, !.ok = @ /\ p = dec.p /\ i = 1]
         /\ UNCHANGED <<mbuf, mtail, accepted, garbage>>
    [] OTHER ->
         LET good == dec.ok /\ p = dec.p /\ i = 2 IN
         /\ dec' = NoBytes
         /\ MousePush([dx |-> IF good THEN 1 ELSE 2, left |-> dec.left])
         /\ garbage' = IF good THEN garbage ELSE garbage + 1

(* The byte the mouse sends next; the first one carries the button. Packets
   need names only to tell neighbours apart. *)
Sends(left) ==
  /\ IF wire.i = 0 THEN input < MaxInput /\ input' = input + 1
                    ELSE left = wire.left /\ UNCHANGED input
  /\ wire' = [p |-> IF wire.i = 2 THEN (wire.p + 1) % 3 ELSE wire.p,
              i |-> (wire.i + 1) % 3, left |-> left]

(* Vector 44, or vector 33 with the auxiliary bit set. *)
MouseIrq(left) ==
  /\ Sends(left)
  /\ Decode(wire.p, wire.i, left)
  /\ gui' = Woken
  /\ UNCHANGED <<keyboard, mhead, armed, told, reader, faults>>

LoseByte(left) ==
  /\ faults < MaxFaults /\ faults' = faults + 1
  /\ Sends(left)
  /\ UNCHANGED <<keyboard, mbuf, mhead, mtail, dec, gui, armed, told, accepted,
                 reader, garbage>>

TimerIrq ==
  /\ armed /\ armed' = FALSE
  /\ gui' = Woken
  /\ UNCHANGED <<keyboard, mouse, told, reader, input>>

-----------------------------------------------------------------------------
(* The GUI thread. *)

Go(pc) == gui' = [gui EXCEPT !.pc = pc]
At(pc) == gui.pc = pc

(* The boot test of the interrupt gates: the data port is read although
   nothing new arrived, and yields whatever it held. *)
SelfTest ==
  \/ /\ At("test33") /\ Go("test44")
     /\ \/ \E c \in Codes : KbdPush(IF shift THEN Shifted[c] ELSE Plain[c])
                            /\ UNCHANGED <<mouse, shift>>
        \/ \E s \in BOOLEAN : shift' = s /\ UNCHANGED <<mouse, kbuf, ktail>>
        \/ UNCHANGED <<mouse, kbuf, ktail, shift>>
     /\ UNCHANGED <<khead, delivered, armed, told, reader, input>>
  \/ /\ gui.pc \in {"test33", "test44"}
     /\ Go(IF At("test33") THEN "test44" ELSE "inject")
     /\ \E i \in 0 .. 2, l \in BOOLEAN : Decode(3, i, l)
     /\ faults' = faults + 1
     /\ UNCHANGED <<keyboard, mhead, wire, armed, told, reader, input>>
  \/ /\ At("test44") /\ Go("inject")
     /\ UNCHANGED <<keyboard, mouse, armed, told, reader, input>>

(* The demonstration: inject an event, poll one event, hand it on. *)
Inject ==
  /\ At("inject")
  /\ IF gui.step <= Len(Demo)
       THEN /\ MousePush([dx |-> 1, left |-> Demo[gui.step]])
            /\ gui' = [gui EXCEPT !.pc = "demo", !.step = @ + 1]
            /\ UNCHANGED <<kbuf, ktail>>
       ELSE /\ KbdPush(DemoKey)
            /\ gui' = [gui EXCEPT !.pc = "demokey"]
            /\ UNCHANGED <<mbuf, mtail, accepted>>
  /\ UNCHANGED <<khead, shift, delivered, mhead, dec, wire, faults, garbage, armed, told, reader, input>>

(* The two halves of poll_mouse, in a loop: nothing there leads to
   out, an entry to got. *)
ReadMouse(pc, out, got) ==
  /\ At(pc)
  /\ gui' = IF mhead = mtail THEN [gui EXCEPT !.pc = out]
            ELSE [gui EXCEPT !.pc = got, !.ev = mbuf[mhead]]
  /\ UNCHANGED <<keyboard, mouse, armed, told, reader, input>>

TakeMouse(pc, acc, def, to) ==
  /\ At(pc)
  /\ mhead' = MSucc(mhead) /\ mbuf' = [mbuf EXCEPT ![mhead] = NoEvent]
  /\ gui' = [gui EXCEPT !.pc = to, !.acc = acc, !.def = def, !.ev = NoEvent]
  /\ UNCHANGED <<keyboard, mtail, dec, wire, accepted, faults, garbage, armed, told,
                 reader, input>>

ReadKeyLate(pc, out, got) ==
  /\ At(pc)
  /\ gui' = IF khead = ktail \/ KSucc(khead) = ktail THEN [gui EXCEPT !.pc = out]
            ELSE [gui EXCEPT !.pc = got, !.c = kbuf[khead]]
  /\ UNCHANGED <<keyboard, mouse, armed, told, reader, input>>

(* The two halves of poll_keyboard. *)
ReadKey(pc, out, got) ==
  /\ At(pc)
  /\ gui' = IF khead = ktail THEN [gui EXCEPT !.pc = out]
            ELSE [gui EXCEPT !.pc = got, !.c = kbuf[khead]]
  /\ UNCHANGED <<keyboard, mouse, armed, told, reader, input>>

TakeKey(pc, key, to) ==
  /\ At(pc)
  /\ khead' = KSucc(khead) /\ kbuf' = [kbuf EXCEPT ![khead] = NoChar]
  /\ delivered' = [c |-> gui.c, bit |-> 1 - delivered.bit]
  /\ gui' = [gui EXCEPT !.pc = to, !.key = key, !.c = NoChar]
  /\ UNCHANGED <<ktail, shift, mouse, armed, told, reader, input>>

(* handle_mouse_move with what was polled. *)
HandleMouse(pc, to) ==
  /\ At(pc)
  /\ IF gui.acc.pending
       THEN told' = gui.acc.left /\ accepted' = [accepted EXCEPT !.dx = @ - gui.acc.dx]
       ELSE UNCHANGED <<told, accepted>>
  /\ gui' = [gui EXCEPT !.pc = to, !.acc = None]
  /\ UNCHANGED <<keyboard, mbuf, mhead, mtail, dec, wire, faults, garbage, armed, reader, input>>

LoopTopKeeps ==
  /\ At("top")
  /\ gui' = [gui EXCEPT !.pc = "drain", !.acc = gui.def]
  /\ UNCHANGED <<keyboard, mouse, armed, told, reader, input>>

LoopTop ==
  /\ At("top")
  /\ gui' = [gui EXCEPT !.pc = "drain", !.acc = gui.def, !.def = None]
  /\ UNCHANGED <<keyboard, mouse, armed, told, reader, input>>

(* A key deferred in the last round comes before those in the ring. *)
DeferredKey ==
  /\ At("key") /\ gui.key # NoChar
  /\ gui' = [gui EXCEPT !.pc = "frame", !.key = NoChar]
  /\ UNCHANGED <<keyboard, mouse, armed, told, reader, input>>

(* The frame is drawn when its time has come, which sets the next deadline;
   the thread then sleeps unless that has passed as well. *)
Frame ==
  /\ At("frame")
  /\ Go("arm") \/ Go("harvest")
  /\ UNCHANGED <<keyboard, mouse, armed, told, reader, input>>

Sleep ==
  /\ \/ At("arm") /\ armed' = TRUE /\ Go("block")
     \/ At("block") /\ Go("switch") /\ UNCHANGED armed
     \/ At("switch") /\ Go("asleep") /\ UNCHANGED armed
  /\ UNCHANGED <<keyboard, mouse, told, reader, input>>

GuiStep ==
  \/ SelfTest \/ Inject \/ LoopTop \/ DeferredKey \/ Frame \/ Sleep
  \/ ReadMouse("demo", "inject", "demo+") \/ TakeMouse("demo+", Merge(gui.acc, gui.ev), gui.def, "demohandle")
  \/ HandleMouse("demohandle", "inject")
  \/ ReadKey("demokey", "top", "demokey+") \/ TakeKey("demokey+", NoChar, "top")
  \/ ReadMouse("drain", "handle", "drain+") \/ TakeMouse("drain+", Merge(gui.acc, gui.ev), gui.def, "drain")
  \/ HandleMouse("handle", "key")
  \/ (gui.key = NoChar /\ ReadKey("key", "frame", "key+")) \/ TakeKey("key+", NoChar, "frame")
  \/ ReadMouse("harvest", "harvestkey", "harvest+") \/ TakeMouse("harvest+", gui.acc, Merge(gui.def, gui.ev), "harvest")
  \/ ReadKey("harvestkey", "top", "harvestkey+") \/ TakeKey("harvestkey+", gui.c, "top")

-----------------------------------------------------------------------------
(* A process reads the console: it polls while the GUI thread sleeps. *)

ConsoleRead ==
  /\ At("asleep") /\ ~reader.on
  /\ reader' = [on |-> TRUE, n |-> 0]
  /\ UNCHANGED <<keyboard, mouse, gui, armed, told, input>>

(* The line so far, as the read edits it. *)
Typed(c) ==
  LET n == IF c # Erase THEN reader.n + 1 ELSE IF reader.n > 0 THEN reader.n - 1 ELSE 0
  IN  IF c = Newline \/ n = Count THEN [on |-> FALSE, n |-> 0] ELSE [on |-> TRUE, n |-> n]

ConsolePreempts ==   \* a scheduler that does not prefer the GUI thread
  /\ reader.on /\ khead # ktail
  /\ khead' = KSucc(khead) /\ kbuf' = [kbuf EXCEPT ![khead] = NoChar]
  /\ delivered' = [c |-> kbuf[khead], bit |-> 1 - delivered.bit]
  /\ reader' = Typed(kbuf[khead])
  /\ UNCHANGED <<ktail, shift, mouse, gui, armed, told, input>>

ConsolePoll ==
  /\ At("asleep") /\ reader.on
  /\ IF khead # ktail
       THEN /\ khead' = KSucc(khead) /\ kbuf' = [kbuf EXCEPT ![khead] = NoChar]
            /\ delivered' = [c |-> kbuf[khead], bit |-> 1 - delivered.bit]
            /\ reader' = Typed(kbuf[khead])
       ELSE /\ \E c \in Chars : reader' = Typed(c)   \* from the serial port
            /\ UNCHANGED <<kbuf, khead, delivered>>
  /\ UNCHANGED <<ktail, shift, mouse, gui, armed, told, input>>

Next ==
  \/ \E code \in Codes \cup {Shift}, release \in BOOLEAN : KeyIrq(code, release)
  \/ \E left \in BOOLEAN : MouseIrq(left) \/ LoseByte(left)
  \/ TimerIrq \/ GuiStep \/ ConsoleRead \/ ConsolePoll

Spec == Init /\ [][Next]_vars

(* The GUI thread has priority over every other thread and the timer keeps
   ticking. *)
FairSpec == Spec /\ WF_vars(GuiStep) /\ WF_vars(TimerIrq)

-----------------------------------------------------------------------------
(* Properties. *)

Fill(h, t, size) == IF h <= t THEN t - h ELSE t - h + size

KbdQueue ==
  [i \in 1 .. Fill(khead, ktail, KbdSize) |->
     kbuf[IF khead + i - 1 < KbdSize THEN khead + i - 1 ELSE khead + i - 1 - KbdSize]]

MouseQueue ==
  [i \in 1 .. Fill(mhead, mtail, MouseSize) |->
     mbuf[IF mhead + i - 1 < MouseSize THEN mhead + i - 1 ELSE mhead + i - 1 - MouseSize]]

Events == [dx : Nat, left : BOOLEAN]

Pcs == {"test33", "test44", "inject", "demo", "demo+", "demohandle", "demokey", "demokey+",
        "top", "drain", "drain+", "handle", "key", "key+", "frame", "arm", "block",
        "switch", "asleep", "harvest", "harvest+", "harvestkey", "harvestkey+"}

(* Every index stays inside its ring and every entry is one a handler wrote. *)
TypeOK ==
  /\ kbuf \in [0 .. KbdSize - 1 -> Chars \cup {NoChar}]
  /\ khead \in 0 .. KbdSize - 1 /\ ktail \in 0 .. KbdSize - 1
  /\ shift \in BOOLEAN /\ armed \in BOOLEAN
  /\ delivered \in [c : Chars \cup {NoChar}, bit : {0, 1}]
  /\ mbuf \in [0 .. MouseSize - 1 -> Events]
  /\ mhead \in 0 .. MouseSize - 1 /\ mtail \in 0 .. MouseSize - 1
  /\ dec \in [cycle : 0 .. 2, left : BOOLEAN, p : 0 .. 3, ok : BOOLEAN]
  /\ wire \in [p : 0 .. 2, i : 0 .. 2, left : BOOLEAN]
  /\ gui.pc \in Pcs /\ gui.ev \in Events
  /\ gui.c \in Chars \cup {NoChar} /\ gui.key \in Chars \cup {NoChar}
  /\ told \in BOOLEAN /\ accepted \in [dx : Int, left : BOOLEAN]
  /\ reader \in [on : BOOLEAN, n : 0 .. Count - 1]
  /\ {input, faults, garbage} \subseteq Nat

(* Whatever handlers, polls and console reads do to each other, the ring of
   the keyboard is a queue: characters come out in the order they were typed
   and none goes to two callers. *)
Keys == INSTANCE KeyQueue WITH Capacity <- KbdSize - 1, queue <- KbdQueue
Implements == Keys!Spec

Motion(q) ==
  LET sum[i \in 0 .. Len(q)] == IF i = 0 THEN 0 ELSE sum[i - 1] + q[i].dx IN sum[Len(q)]

(* The motion the ring took is all accounted for: handed to the window
   manager, merged into what is about to be, or still in the ring, once. *)
MotionConserved == accepted.dx = gui.acc.dx + gui.def.dx + Motion(MouseQueue)

(* When nothing is on its way, the window manager knows the buttons as the
   last entry of the ring gave them: no release is forgotten in a merge. *)
ButtonsCurrent ==
  MouseQueue = <<>> /\ ~gui.acc.pending /\ ~gui.def.pending
  /\ gui.pc \notin {"demo+", "drain+", "harvest+"} => told = accepted.left

(* What the ring of the mouse took reaches the window manager whole: the
   motion to the last step, the buttons as they were left. *)
MouseExact == MotionConserved /\ ButtonsCurrent

(* A byte that is lost or read twice spoils at most one event: the decoder
   finds the start of the next packet by itself. *)
Resync == garbage <= faults

(* A character in the ring is handed out, unless the GUI thread sleeps with
   no deadline armed (which the Scheduler module shows can happen). *)
KeysTaken ==
  \A b \in {0, 1} :
    (delivered.bit = b /\ KbdQueue # <<>>)
      ~> (delivered.bit # b \/ (At("asleep") /\ ~armed))
=============================================================================
