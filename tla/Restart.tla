------------------------------- MODULE Restart -------------------------------
(***************************************************************************)
(* What outlives a restart: the desktop that the window manager prints to  *)
(* the serial port (trigger_host_persist in kernel/wm.cpp), the script on  *)
(* the host that turns it into files and a new initrd (run_persistent.py), *)
(* and the boot that reads that back (tarfs_init in fs/tarfs.cpp,          *)
(* WindowManager::init in kernel/wm.cpp).                                  *)
(*                                                                         *)
(* A handler of the window manager is one step, with all it prints. The    *)
(* script runs beside the machine and may be interrupted anywhere. A name  *)
(* is the sequence of its words: blanks also separate the fields of a      *)
(* line. Scale, theme and wallpaper are one thing, the look.               *)
(***************************************************************************)
EXTENDS Integers, Sequences, SequencesExt

CONSTANTS
  MaxIcons,  \* capacity of desktop_items
  Defaults,  \* desktop_items of a machine that has no desktop.cfg
  Names,     \* names users give
  Folders,   \* folders they create things in
  Places,    \* positions on the screen
  Words,     \* words of names and lines
  Numerals,  \* those that are numbers
  Looks,     \* scale, theme and wallpaper
  FirstLook, \* those of a machine that has no desktop.cfg
  Greeted,   \* names of files that add_item() fills
  Texts,     \* what users write into files
  Watched,   \* one file, any: the host's copies of the others change alike
  Buffer,    \* icons whose lines fit in cfg_buf
  MaxSent    \* bound: dumps on their way into test.tar

Kinds == {"DIR", "TERM", "FILE"}

ASSUME RestartAssumption ==
  /\ {MaxIcons, Buffer, MaxSent} \subseteq Nat
  /\ FirstLook \in Looks /\ "0" \in Numerals
  /\ Texts \cap {"none", "empty", "greeting", "dir"} = {}

Icons == [name : Seq(Words), kind : Kinds, path : Seq(Words), pos : Numerals \X Numerals]

ASSUME IconsAssumption ==
  /\ Kinds \cup Numerals \cup {""} \subseteq Words
  /\ Names \cup Folders \subseteq Seq(Words)
  /\ Places \subseteq Numerals \X Numerals
  /\ Defaults \in Seq(Icons) /\ Len(Defaults) <= MaxIcons

VARIABLES
  up,       \* the machine runs
  icons,    \* desktop_items, without those of the USB drive
  look,     \* ui_scale, current_theme, wallpaper_theme_id
  ram,      \* the files among VFS::child_nodes and what is in them
  sent,     \* dumps printed, not read by the host
  job,      \* what the host is at, and the dump it has read
  host,     \* what directory initrd holds of the watched file
  archive,  \* desktop.cfg in test.tar; its other files are at /tar and stay there
  lost      \* a dump, or the rebuilding of test.tar, was lost and none came after

machine == <<up, icons, look, ram>>
vars    == <<machine, sent, job, host, archive, lost>>

NoCfg  == [look |-> FirstLook, lines |-> <<>>, ok |-> FALSE]
NoDump == [cfg |-> NoCfg, text |-> "none"]
Idle   == [step |-> "idle", dump |-> NoDump]

-----------------------------------------------------------------------------
(* Lines. *)

Line(it) == it.name \o <<it.kind>> \o it.path \o it.pos

Word(l, i) == IF i \in DOMAIN l THEN l[i] ELSE ""
Number(w)  == IF w \in Numerals THEN w ELSE "0"

ItemRaw(l) ==
  [name |-> <<Word(l, 1)>>, kind |-> Word(l, 2), path |-> <<Word(l, 3)>>,
   pos |-> <<Number(Word(l, 4)), Number(Word(l, 5))>>]

ItemStuck(l) ==
  [name |-> <<Word(l, 1)>>,
   kind |-> IF Word(l, 2) \in {"DIR", "TERM"} THEN Word(l, 2) ELSE "FILE",
   path |-> <<Word(l, 3)>>, pos |-> <<"0", "0">>]

(* A line read back: each field ends at the first blank. What is no number
   counts as 0 and is not skipped. *)
Item(l) ==
  [name |-> <<Word(l, 1)>>,
   kind |-> IF Word(l, 2) \in {"DIR", "TERM"} THEN Word(l, 2) ELSE "FILE",
   path |-> <<Word(l, 3)>>,
   pos  |-> <<Number(Word(l, 4)),
              IF Word(l, 4) \in Numerals \cup {""} THEN Number(Word(l, 5)) ELSE "0">>]

Lines(s)  == [i \in DOMAIN s |-> Line(s[i])]
Reload(s) == [i \in DOMAIN s |-> Item(Line(s[i]))]

(* What WindowManager::init reads of desktop.cfg: lines past the end of the
   buffer are missing, the last one may be cut. *)
Loadable(lines) ==
  IF Len(lines) <= Buffer THEN {lines}
  ELSE LET whole == SubSeq(lines, 1, Buffer)
           next  == lines[Buffer + 1]
       IN  {whole} \cup {Append(whole, SubSeq(next, 1, j)) : j \in DOMAIN next}

-----------------------------------------------------------------------------
(* Files. *)

File(it)    == [dir |-> it.path, name |-> it.name]
Fresh(it)   == IF it.kind = "DIR" THEN "dir" ELSE IF it.name \in Greeted THEN "greeting" ELSE "empty"

Put(f, k, v) == [x \in DOMAIN f \cup {k} |-> IF x = k THEN v ELSE f[x]]

Created(it) == IF File(it) \in DOMAIN ram THEN ram ELSE Put(ram, File(it), Fresh(it))

(* The files of a machine that has just added these icons, in order. *)
Files(s) ==
  [f \in {File(s[i]) : i \in DOMAIN s} |->
     LET S == {i \in DOMAIN s : File(s[i]) = f}
     IN  Fresh(s[CHOOSE i \in S : \A j \in S : i <= j])]

Part(f, S) == [k \in S |-> f[k]]

DumpEmptyToo(s, l, f) ==
  [cfg |-> [look |-> l, lines |-> Lines(s), ok |-> TRUE],
   text |-> IF Watched \in DOMAIN f /\ f[Watched] # "dir" THEN f[Watched] ELSE "none"]

(* trigger_host_persist: files that hold something are printed, whole. *)
Dump(s, l, f) ==
  [cfg |-> [look |-> l, lines |-> Lines(s), ok |-> TRUE],
   text |-> IF Watched \in DOMAIN f /\ f[Watched] \notin {"dir", "empty"}
              THEN f[Watched] ELSE "none"]

Pending == Len(sent) + (IF job = Idle THEN 0 ELSE 1)

Persist == sent' = Append(sent, Dump(icons', look', ram'))

Init ==
  /\ up = TRUE /\ icons = Defaults /\ look = FirstLook /\ ram = Files(Defaults)
  /\ sent = <<>> /\ job = Idle
  /\ host = "none" /\ archive = NoCfg
  /\ lost = FALSE

-----------------------------------------------------------------------------
(* The machine. *)

Running == up /\ Pending < MaxSent /\ UNCHANGED <<up, job, host, archive, lost>>

ChooseLookOnly ==
  /\ Running
  /\ look' \in Looks
  /\ UNCHANGED <<icons, ram, sent>>

(* System Settings, or the theme menu. *)
ChooseLook ==
  /\ Running
  /\ look' \in Looks
  /\ UNCHANGED <<icons, ram>> /\ Persist

Move(i) ==
  /\ Running
  /\ \E p \in Places : icons' = [icons EXCEPT ![i].pos = p]
  /\ UNCHANGED <<look, ram>> /\ Persist

(* By a context menu; the buttons of a Finder do not persist. *)
New(kind, menu) ==
  /\ Running /\ Len(icons) < MaxIcons
  /\ \E n \in Names, d \in Folders, p \in Places :
       LET it == [name |-> n, kind |-> kind, path |-> d, pos |-> p] IN
       icons' = Append(icons, it) /\ ram' = Created(it)
  /\ UNCHANGED look
  /\ IF menu THEN Persist ELSE UNCHANGED sent

(* The name changes as it is typed, the file with the last key. Users do not
   choose a name that is taken. *)
Rename(i, enter) ==
  /\ Running
  /\ \E n \in Names :
       LET to == [icons[i] EXCEPT !.name = n] IN
       /\ File(to) \notin DOMAIN ram
       /\ icons' = [icons EXCEPT ![i] = to]
       /\ ram' = IF enter /\ File(icons[i]) \in DOMAIN ram
                   THEN Put(Part(ram, DOMAIN ram \ {File(icons[i])}), File(to), ram[File(icons[i])])
                   ELSE ram
  /\ UNCHANGED <<look, sent>>

Delete(i) ==
  /\ Running
  /\ icons' = RemoveAt(icons, i)
  /\ ram' = Part(ram, DOMAIN ram \ {File(icons[i])})
  /\ UNCHANGED look /\ Persist

(* A program writes a file. *)
Edit(f) ==
  /\ Running /\ ram[f] # "dir"
  /\ \E t \in Texts : ram' = [ram EXCEPT ![f] = t]
  /\ UNCHANGED <<icons, look, sent>>

(* The machine ends with all it has in memory. *)
Off == up' = FALSE /\ icons' = <<>> /\ look' = FirstLook /\ ram' = <<>>

(* Shut down: the host still reads what was printed. *)
Halt == up /\ Off /\ UNCHANGED <<sent, job, host, archive, lost>>

Boot ==
  /\ ~up /\ sent = <<>> /\ job = Idle
  /\ up' = TRUE
  /\ look' = archive.look
  /\ \E lines \in Loadable(archive.lines) :
       icons' = IF archive.ok THEN [i \in DOMAIN lines |-> Item(lines[i])] ELSE Defaults
  /\ ram' = Files(icons')
  /\ UNCHANGED <<sent, job, host, archive, lost>>

-----------------------------------------------------------------------------
(* The host. *)

Receive ==
  /\ job.step = "idle" /\ sent # <<>>
  /\ job' = [step |-> "files", dump |-> Head(sent)]
  /\ sent' = Tail(sent)
  /\ UNCHANGED <<machine, host, archive, lost>>

WriteFiles ==
  /\ job.step = "files" /\ job' = [job EXCEPT !.step = "cfg"]
  /\ host' = IF job.dump.text = "none" THEN host ELSE job.dump.text
  /\ UNCHANGED <<machine, sent, archive, lost>>

(* The copy in initrd is only read by Rebuild, right after. *)
WriteCfg ==
  /\ job.step = "cfg" /\ job' = [job EXCEPT !.step = "tar"]
  /\ UNCHANGED <<machine, sent, host, archive, lost>>

(* tar is called in a way that not every host's shell understands. *)
Rebuild ==
  /\ job.step = "tar" /\ job' = Idle
  /\ \/ archive' = job.dump.cfg /\ lost' = FALSE
     \/ lost' = TRUE /\ UNCHANGED archive
  /\ UNCHANGED <<machine, sent, host>>

(* The script is interrupted and ends the machine. The file it was writing is
   left empty, test.tar without some of its files. *)
Interrupt ==
  /\ Off /\ sent' = <<>> /\ job' = Idle
  /\ lost' = (lost \/ sent # <<>> \/ job # Idle)
  /\ \/ UNCHANGED <<host, archive>>
     \/ job.step = "files" /\ job.dump.text # "none" /\ host' = "empty" /\ UNCHANGED archive
     \/ job.step = "tar" /\ archive' = NoCfg /\ UNCHANGED host

Next ==
  \/ ChooseLook \/ Halt \/ Boot
  \/ \E i \in DOMAIN icons : Move(i) \/ Delete(i) \/ \E enter \in BOOLEAN : Rename(i, enter)
  \/ \E kind \in {"DIR", "FILE"}, menu \in BOOLEAN : New(kind, menu)
  \/ \E f \in DOMAIN ram : Edit(f)
  \/ Receive \/ WriteFiles \/ WriteCfg \/ Rebuild \/ Interrupt

Spec == Init /\ [][Next]_vars

-----------------------------------------------------------------------------
(* Properties. *)

Contents == Texts \cup {"empty", "greeting"}

TypeOK ==
  /\ up \in BOOLEAN /\ lost \in BOOLEAN /\ look \in Looks
  /\ Len(icons) <= MaxIcons
  /\ \A i \in DOMAIN icons : icons[i].kind \in Kinds /\ Len(icons[i].pos) = 2
  /\ \A f \in DOMAIN ram : ram[f] \in Contents \cup {"dir"}
  /\ Pending <= MaxSent
  /\ host \in Contents \cup {"none"}

(* One restart may spoil the icons whose names have blanks, but a second one
   changes nothing more, and an icon without blanks comes back as it was. *)
IconsSettle ==
  /\ Reload(Reload(icons)) = Reload(icons)
  /\ \A i \in DOMAIN icons :
       Len(icons[i].name) = 1 /\ Len(icons[i].path) = 1 => Reload(icons)[i] = icons[i]

(* Once the host has done its work, a restart brings back the look that is on
   the screen, unless something was lost on the way; the next dump repairs
   that. *)
LookKept ==
  up /\ sent = <<>> /\ job = Idle /\ ~lost => archive.look = look

(* A restart leaves the user's files behind and makes empty ones for the icons
   ("Create the file in VFS if it doesn't exist", wm.cpp:321): that never
   blanks a text the host has got, unless the script is interrupted. *)
TextsKept == [][(host \in Texts /\ host' = "empty") => lost']_vars
=============================================================================
