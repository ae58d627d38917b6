------------------------------ MODULE Terminal ------------------------------
(***************************************************************************)
(* Input, from the PS/2 controller to the text it becomes: the keyboard    *)
(* and mouse interrupts and their event rings (keyboard.rs, mouse.rs), the *)
(* shell's line editors (LineEditor and read_line of shell.rs) and the     *)
(* Notepad (editor_handle_key of wm.rs).                                   *)
(*                                                                         *)
(* An interrupt takes one byte.  A push and a pop hold the ring's lock, so *)
(* each is one step; who waits for the lock is the subject of              *)
(* SyscallEntry.  Keys reach the main task, which gives them to the window *)
(* in focus, or a process that reads its standard input, whichever comes   *)
(* first.                                                                  *)
(***************************************************************************)
EXTENDS Integers, FiniteSets, FiniteSetsExt, SequencesExt, EventRing

CONSTANTS
    Letters,            \* letter keys of the keyboard
    Commands,           \* COMMANDS, as sequences of letters
    KeyRing, MouseRing, \* BUFFER_CAPACITY of the two rings
    LineMax,            \* longest line: 256
    HistoryCapacity,
    MaxInputs           \* bound on keys pressed and packets sent

VARIABLES
    wire,       \* bytes the keyboard has sent and no interrupt has taken
    held,       \* modifier keys held down
    mod,        \* SHIFT_DOWN, CTRL_DOWN, CAPS_LOCK, EXTENDED
    keys,       \* the keyboard's ring
    keyQueue,   \* the events it should hold
    aux,        \* bytes of the mouse no interrupt has taken
    packet,     \* PACKET and SKIP_FIRST_PACKET
    mice,       \* the mouse's ring
    mouseQueue, \* the events it should hold
    focus,      \* the window the keys go to (or the shell without a desktop),
                \* and left_was_down
    ed,         \* the terminal's line editor
    entered,    \* every line it has handed over, in order
    note,       \* the Notepad: its lines and its cursor
    file,       \* the Notepad's file: [text, saved], or None
    panicked,   \* the kernel stopped
    count       \* [keys, packets] so far

kbdVars == <<wire, held, mod, keys, keyQueue>>
mouseVars == <<aux, packet, mice, mouseQueue>>
textVars == <<ed, entered, note, file, panicked>>
vars == <<kbdVars, mouseVars, focus, textVars, count>>

(***************************************************************************)
(* Keyboard.  A byte is a key going down or up, or the prefix, and with it *)
(* goes the event it should cause; an event is [k, c].                     *)
(***************************************************************************)
Event(k, c) == [k |-> k, c |-> c]
Modifiers == {"shift", "ctrl"}
Arrows == {"up", "down", "left", "right"}
Others == {"backspace", "enter", "tab"}
Keys == Letters \cup Modifiers \cup Arrows \cup Others \cup {"caps"}

\* What the rings carry: a key, a letter with or without Ctrl, a movement.
KeyEvents ==
    [k : Arrows \cup Others, c : {None}] \cup [k : {"ctrl"}, c : Letters]
        \cup [k : {"char"}, c : Letters \X BOOLEAN]
MouseEvents == [k : {"mouse"}, c : BOOLEAN]

ASSUME RingsAssumption == KeyRing \in Nat \ {0} /\ MouseRing \in Nat \ {0}
ASSUME LettersAssumption == Letters \cap (Modifiers \cup Arrows \cup Others \cup {"caps", "E0"}) = {}
ASSUME NoneAssumption == None \notin KeyEvents \cup MouseEvents

Prefix == [key |-> "E0", up |-> FALSE, means |-> None]
Bytes(k, up, means) ==
    LET b == [key |-> k, up |-> up, means |-> means]
    IN  IF k \in Arrows THEN <<Prefix, b>> ELSE <<b>>

\* decode of a letter: its ctrl form, its capital, or itself.
Letter(k, ctrl, capital) ==
    IF ctrl THEN Event("ctrl", k) ELSE Event("char", <<k, capital>>)

\* The event a byte decodes to, or None.
Decode(b, m) ==
    IF m.extended THEN IF b.key \in Arrows /\ ~b.up THEN Event(b.key, None) ELSE None
    ELSE IF b.up \/ b.key \in Arrows \cup Modifiers \cup {"caps"} THEN None
    ELSE IF b.key \in Others THEN Event(b.key, None)
    ELSE Letter(b.key, m.ctrl, m.shift \/ m.caps)

\* SHIFT_DOWN, CTRL_DOWN and CAPS_LOCK after a byte without a prefix.
Modified(b, m) ==
    IF m.extended THEN m
    ELSE CASE b.key \in Modifiers -> [m EXCEPT ![b.key] = ~b.up]
           [] b.key = "caps" /\ ~b.up -> [m EXCEPT !.caps = ~@]
           [] OTHER -> m

\* What a key means when it goes down, going by the keys that are held.
Meaning(k) ==
    CASE k \in Arrows \cup Others -> Event(k, None)
      [] k \in Letters -> Letter(k, "ctrl" \in held, "shift" \in held \/ mod.caps)
      [] OTHER -> None

Idle == ~panicked

More == count.keys + count.packets < MaxInputs

\* The controller holds one byte: a key or a packet comes when the bytes of
\* the one before have been taken.
Quiet == Idle /\ wire = <<>> /\ aux = <<>>

\* A modifier stays down; any other key is let go again at once.
PressKey(k) ==
    /\ Quiet
    /\ More
    /\ k \notin held
    /\ held' = IF k \in Modifiers THEN held \cup {k} ELSE held
    /\ wire' = IF k \in Modifiers THEN Bytes(k, FALSE, None)
               ELSE Bytes(k, FALSE, Meaning(k)) \o Bytes(k, TRUE, None)
    /\ count' = [count EXCEPT !.keys = @ + 1]
    /\ UNCHANGED <<mod, keys, keyQueue, mouseVars, focus, textVars>>

ReleaseKey(k) ==
    /\ Quiet
    /\ k \in held
    /\ held' = held \ {k}
    /\ wire' = Bytes(k, TRUE, None)
    /\ UNCHANGED <<mod, keys, keyQueue, mouseVars, focus, textVars, count>>

\* keyboard::irq
KeyIrq ==
    /\ Idle
    /\ wire # <<>>
    /\ LET b == Head(wire)
           e == Decode(b, mod)
       IN  /\ IF b = Prefix
              THEN /\ mod' = [mod EXCEPT !.extended = TRUE]
                   /\ UNCHANGED keys
              ELSE /\ mod' = [Modified(b, mod) EXCEPT !.extended = FALSE]
                   /\ keys' = IF e = None THEN keys ELSE Push(keys, e)
           /\ keyQueue' = Queued(keyQueue, b.means, KeyRing)
    /\ wire' = Tail(wire)
    /\ UNCHANGED <<held, mouseVars, focus, textVars, count>>

(***************************************************************************)
(* Mouse.  A byte has its bit 3 and its button bit, and the event it       *)
(* should complete.                                                        *)
(***************************************************************************)
MouseByte(bit3, left, means) == [bit3 |-> bit3, left |-> left, means |-> means]

\* The first packet is noise.
SendPacket(left, bit3) ==
    /\ Quiet
    /\ More
    /\ aux' = <<MouseByte(TRUE, left, None), MouseByte(bit3, FALSE, None),
                MouseByte(bit3, FALSE, IF count.packets = 0 THEN None ELSE Event("mouse", left))>>
    /\ count' = [count EXCEPT !.packets = @ + 1]
    /\ UNCHANGED <<kbdVars, packet, mice, mouseQueue, focus, textVars>>

InSync(b) == packet.bytes # <<>> \/ b.bit3

\* mouse::irq
MouseIrq ==
    /\ Idle
    /\ aux # <<>>
    /\ LET b == Head(aux)
           bytes == Append(packet.bytes, b)
       IN  /\ packet' = IF ~InSync(b) THEN packet
                        ELSE IF Len(bytes) < 3 THEN [packet EXCEPT !.bytes = bytes]
                        ELSE [bytes |-> <<>>, skip |-> FALSE]
           /\ mice' = IF InSync(b) /\ Len(bytes) = 3 /\ ~packet.skip
                      THEN Push(mice, Event("mouse", bytes[1].left)) ELSE mice
           /\ mouseQueue' = Queued(mouseQueue, b.means, MouseRing)
    /\ aux' = Tail(aux)
    /\ UNCHANGED <<kbdVars, focus, textVars, count>>

\* A press in the other window takes the focus there.
HandleMouse ==
    /\ Idle
    /\ focus.win # "fallback"
    /\ ~IsEmpty(mice)
    /\ LET left == Front1(mice).c
       IN  focus' = [left |-> left,
                     win |-> IF left /\ ~focus.left
                             THEN IF focus.win = "terminal" THEN "notepad" ELSE "terminal"
                             ELSE focus.win]
    /\ mice' = Popped(mice, 1)
    /\ mouseQueue' = Tail(mouseQueue)
    /\ UNCHANGED <<kbdVars, aux, packet, textVars, count>>

(***************************************************************************)
(* The line editors.  A line is a sequence of characters; typed is what    *)
(* the line was when browsing began.                                       *)
(***************************************************************************)
Editor == [line |-> <<>>, history |-> <<>>, index |-> None, draft |-> <<>>, typed |-> <<>>]

HistoryUp(e) ==
    LET next == IF e.index = None THEN Len(e.history)
                ELSE IF e.index > 1 THEN e.index - 1 ELSE 1
        began == IF e.index = None THEN [e EXCEPT !.draft = e.line, !.typed = e.line] ELSE e
    IN  IF e.history = <<>> THEN e
        ELSE [began EXCEPT !.index = next, !.line = e.history[next]]

HistoryDown(e) ==
    IF e.index = None THEN e
    ELSE IF e.index < Len(e.history)
    THEN [e EXCEPT !.index = @ + 1, !.line = e.history[e.index + 1]]
    ELSE [e EXCEPT !.index = None, !.line = e.draft, !.draft = <<>>]

\* Mutant: a line that repeats the one before is kept again.
Remembered_Repeats(h, line) ==
    IF line = <<>> THEN h ELSE Append(IF Len(h) >= HistoryCapacity THEN Tail(h) ELSE h, line)

\* The history after Enter.
Remembered(h, line) ==
    IF line = <<>> \/ (h # <<>> /\ Last(h) = line) THEN h
    ELSE Append(IF Len(h) >= HistoryCapacity THEN Tail(h) ELSE h, line)

\* A line that begins exactly one command becomes it.
Complete(line) ==
    LET chars(c) == [i \in DOMAIN c |-> <<c[i], FALSE>>]
        matches == {c \in Commands : IsPrefix(line, chars(c))}
    IN  IF line # <<>> /\ Cardinality(matches) = 1
        THEN chars(CHOOSE c \in matches : TRUE) ELSE line

Feed(e, ev, fallback) ==
    CASE ev.k = "char" -> [e EXCEPT !.line = IF Len(@) < LineMax THEN Append(@, ev.c) ELSE @,
                                    !.index = None]
      [] ev.k = "backspace" -> [e EXCEPT !.line = IF @ = <<>> THEN @ ELSE Front(@), !.index = None]
      [] ev.k = "enter" -> [Editor EXCEPT !.history = Remembered(e.history, e.line)]
      [] ev.k = "tab" -> [e EXCEPT !.line = Complete(@), !.index = IF fallback THEN None ELSE @]
      [] ev.k = "up" -> HistoryUp(e)
      [] ev.k = "down" -> HistoryDown(e)
      [] OTHER -> e

(***************************************************************************)
(* The Notepad.  row and col count from 1 and from 0.                      *)
(***************************************************************************)
NL == "newline"

\* Mutant: no newline after the last line.
Text_NoLastNewline(lines) == FoldLeft(LAMBDA t, l : IF t = <<>> THEN l ELSE t \o <<NL>> \o l, <<>>, lines)

\* lines.join("\n"), and a newline unless that is empty.
Text(lines) == IF lines \in {<<>>, << <<>> >>} THEN <<>>
               ELSE FoldLeft(LAMBDA t, l : t \o l \o <<NL>>, <<>>, lines)

\* split('\n'), less the empty last line.
Lines(text) ==
    LET split == FoldLeft(LAMBDA ls, c : IF c = NL THEN Append(ls, <<>>)
                                         ELSE [ls EXCEPT ![Len(ls)] = Append(@, c)],
                          << <<>> >>, text)
    IN  IF Last(split) = <<>> THEN Front(split) ELSE split

\* The keys that index the line the cursor is in.
NeedsLine(ev) == ev.k \in {"char", "enter", "tab", "right"}

Insert(n, chars) ==
    [n EXCEPT !.lines[n.row] = SubSeq(@, 1, n.col) \o chars \o SubSeq(@, n.col + 1, Len(@)),
              !.col = @ + Len(chars)]

JoinUp(n) ==
    [lines |-> RemoveAt([n.lines EXCEPT ![n.row - 1] = @ \o n.lines[n.row]], n.row),
     row |-> n.row - 1, col |-> Len(n.lines[n.row - 1])]

SplitLine(n) ==
    LET l == n.lines[n.row]
    IN  [lines |-> InsertAt([n.lines EXCEPT ![n.row] = SubSeq(l, 1, n.col)], n.row + 1,
                            SubSeq(l, n.col + 1, Len(l))),
         row |-> n.row + 1, col |-> 0]

ToRow(n, row) == [n EXCEPT !.row = row, !.col = Min({@, Len(n.lines[row])})]

EditorHandleKey(n, ev) ==
    CASE ev.k = "char" -> Insert(n, <<ev.c>>)
      [] ev.k = "tab" -> Insert(n, <<"blank">>)
      [] ev.k = "enter" -> SplitLine(n)
      [] ev.k = "backspace" /\ n.col > 0 ->
            [n EXCEPT !.lines[n.row] = RemoveAt(@, n.col), !.col = @ - 1]
      [] ev.k = "backspace" /\ n.col = 0 /\ n.row > 1 -> JoinUp(n)
      [] ev.k = "left" /\ n.col > 0 -> [n EXCEPT !.col = @ - 1]
      [] ev.k = "left" /\ n.col = 0 /\ n.row > 1 ->
            [n EXCEPT !.row = @ - 1, !.col = Len(n.lines[n.row - 1])]
      [] ev.k = "right" /\ n.col < Len(n.lines[n.row]) -> [n EXCEPT !.col = @ + 1]
      [] ev.k = "right" /\ n.col = Len(n.lines[n.row]) /\ n.row < Len(n.lines) ->
            [n EXCEPT !.row = @ + 1, !.col = 0]
      [] ev.k = "up" /\ n.row > 1 -> ToRow(n, n.row - 1)
      [] ev.k = "down" /\ n.row < Len(n.lines) -> ToRow(n, n.row + 1)
      [] OTHER -> n

(***************************************************************************)
(* The main task, and a process reading its standard input, take keys      *)
(***************************************************************************)
TakeKey(win) ==
    /\ Idle
    /\ focus.win \in win
    /\ ~IsEmpty(keys)
    /\ keys' = Popped(keys, 1)
    /\ keyQueue' = Tail(keyQueue)
    /\ UNCHANGED <<wire, held, mod, mouseVars, focus, count>>

FeedEditor ==
    /\ TakeKey({"terminal", "fallback"})
    /\ ed' = Feed(ed, Front1(keys), focus.win = "fallback")
    /\ entered' = IF Front1(keys).k = "enter" THEN Append(entered, ed.line) ELSE entered
    /\ UNCHANGED <<note, file, panicked>>

\* An index into no lines at all stops the kernel.
EditNote ==
    /\ TakeKey({"notepad"})
    /\ Front1(keys).k # "ctrl"
    /\ LET stuck == NeedsLine(Front1(keys)) /\ note.lines = <<>>
       IN  /\ panicked' = stuck
           /\ note' = IF stuck THEN note ELSE EditorHandleKey(note, Front1(keys))
    /\ UNCHANGED <<ed, entered, file>>

SaveNote ==
    /\ TakeKey({"notepad"})
    /\ Front1(keys) = Event("ctrl", "s")
    /\ file' = [text |-> Text(note.lines), saved |-> note.lines]
    /\ UNCHANGED <<ed, entered, note, panicked>>

OpenNote ==
    /\ TakeKey({"notepad"})
    /\ Front1(keys).k = "ctrl"
    /\ Front1(keys).c # "s"
    /\ note' = IF Front1(keys).c = "o" /\ file # None
               THEN [lines |-> Lines(file.text), row |-> 1, col |-> 0] ELSE note
    /\ UNCHANGED <<ed, entered, file, panicked>>

\* A read of one byte takes every event up to the first character.
SysRead ==
    /\ Idle
    /\ ~IsEmpty(keys)
    /\ LET q == Held(keys)
           chars == {i \in DOMAIN q : q[i].k = "char"}
           n == IF chars = {} THEN Len(q) ELSE Min(chars)
       IN  /\ keys' = Popped(keys, n)
           /\ keyQueue' = SubSeq(keyQueue, n + 1, Len(keyQueue))
    /\ UNCHANGED <<wire, held, mod, mouseVars, focus, textVars, count>>

\* A byte left over from the handshake may be in the mouse's stream.
Init ==
    /\ wire = <<>>
    /\ held = {}
    /\ mod = [shift |-> FALSE, ctrl |-> FALSE, caps |-> FALSE, extended |-> FALSE]
    /\ keys = Ring(KeyRing)
    /\ keyQueue = <<>>
    /\ aux \in {<<>>, <<MouseByte(FALSE, FALSE, None)>>}
    /\ packet = [bytes |-> <<>>, skip |-> TRUE]
    /\ mice = Ring(MouseRing)
    /\ mouseQueue = <<>>
    /\ focus \in [win : {"terminal", "notepad", "fallback"}, left : {FALSE}]
    /\ ed = Editor
    /\ entered = <<>>
    /\ note = [lines |-> << <<>> >>, row |-> 1, col |-> 0]
    /\ file = None
    /\ panicked = FALSE
    /\ count = [keys |-> 0, packets |-> 0]

Next ==
    \/ \E k \in Keys : PressKey(k)
    \/ \E k \in Modifiers : ReleaseKey(k)
    \/ KeyIrq
    \/ \E left \in BOOLEAN, bit3 \in BOOLEAN : SendPacket(left, bit3)
    \/ MouseIrq
    \/ HandleMouse
    \/ FeedEditor
    \/ EditNote
    \/ SaveNote
    \/ OpenNote
    \/ SysRead

Spec == Init /\ [][Next]_vars

(***************************************************************************)
(* Properties                                                              *)
(***************************************************************************)
\* Each ring holds, in order, the events no one has taken, and drops what
\* comes when it is full: the events are those the keys meant when they
\* went down, with the modifiers then held, and those the mouse's packets
\* after the first one say (keyboard::irq, mouse::irq, EventQueue).
RingsAreQueues == Held(keys) = keyQueue /\ Held(mice) = mouseQueue

\* The lines kept as history are the last HISTORY_CAPACITY of those entered,
\* less the empty ones and the repeats of the line before; while it is being
\* browsed the index is in it, and what had been typed is kept for the way
\* back (LineEditor::feed, history_up, history_down, read_line).
HistoryExact ==
    LET repeats(i, j) == entered[j] = entered[i] /\ \A k \in (j + 1)..(i - 1) : entered[k] = <<>>
        kept == SelectSeq([i \in DOMAIN entered |-> i], LAMBDA i :
                    entered[i] # <<>> /\ ~\E j \in 1..(i - 1) : repeats(i, j))
        from == Max({1, Len(kept) - HistoryCapacity + 1})
    IN  /\ ed.history = [i \in 1..(Len(kept) - from + 1) |-> entered[kept[from + i - 1]]]
        /\ ed.index # None => ed.index \in DOMAIN ed.history /\ ed.draft = ed.typed

\* Ctrl+O reads back the lines that Ctrl+S wrote, but for a document of one
\* empty line, which comes back as none (editor_handle_key).
ReadsBackSaved ==
    file # None => file.saved \in {<<>>, << <<>> >>} \/ Lines(file.text) = file.saved

\* An empty document has one empty line to type into (open_notepad_with).
LineToTypeInto == note.lines # <<>>

=============================================================================
