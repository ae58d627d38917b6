--------------------------------- MODULE Wm ---------------------------------
(***************************************************************************)
(* The window manager (wm.rs) with the desktop loop (desktop.rs), the      *)
(* session file (session.rs) and the settings (settings.rs).               *)
(*                                                                         *)
(* The window list is in stacking order and every reference into it (the   *)
(* focus, the window being dragged or resized, the pressed item) is an     *)
(* index.  One coordinate stands for x and y, one size for columns and     *)
(* rows; which visible window the cursor hits is left open.  The machine   *)
(* can lose power between any two events.                                  *)
(***************************************************************************)
EXTENDS Integers, FiniteSets, FiniteSetsExt, SequencesExt

CONSTANTS
    Apps,           \* built-in apps of the instance: names of AppId
    Screens,        \* resolutions offered; the largest is the physical one
    Fonts,          \* font scales offered
    MinCells, MaxCells,     \* MIN_COLS, MAX_TERMINAL_COLS
    MaxInputs, MaxBoots,    \* bounds of the instance
    None

VARIABLES
    wm,         \* [win, focused, rem, cascade]: struct WindowManager; and how
                \* many windows, and Settings windows, it has opened
    grab,       \* what the held button has hold of, or None
    left,       \* closedwas_down
    launcher,   \* launcher_open
    mgr,        \* the manager's copy of the settings
    conf,       \* the lines of /system/settings.conf; none: no such file
    session,    \* the lines of /system/desktop.session
    scr,        \* [w, font]: the resolution and the font scale in effect
    slipped,    \* a key opened a window in a closed one's slot below the one held
    count       \* [inputs, boots] so far

vars == <<wm, grab, left, launcher, mgr, conf, session, scr, slipped, count>>

Clamp(x, lo, hi) == IF x < lo THEN lo ELSE IF x > hi THEN hi ELSE x
Larger(a, b) == IF a >= b THEN a ELSE b
Smaller(a, b) == IF a <= b THEN a ELSE b

\* The last position a title bar can be dragged to, or a window opened at.
MaxPos(s) == s.w - 1
MaxSpawnPos(s) == Larger(s.w - 2, 0)

\* max_content_cells and fit_console_cells
FullCells(s) == s.w \div s.font
FitCells(s) == Clamp(FullCells(s), MinCells, MaxCells)

(***************************************************************************)
(* Windows                                                                 *)
(***************************************************************************)
HasCells(kind) == kind \in {"terminal", "notepad", "sysinfo"}
CanGrow(kind) == kind \in {"terminal", "notepad"}

Visible(w) == w.open /\ ~w.min
VisibleAt(m) == {i \in DOMAIN m.win : Visible(m.win[i])}

\* resize_window: only the console windows follow.
Resized(w, c) == [w EXCEPT !.cells = IF CanGrow(w.kind) THEN c ELSE @]
ResizeAt(m, i, c) == [m EXCEPT !.win[i] = Resized(@, c)]

\* raise: to the end of the list, and focused.
Raise(m, i) ==
    [m EXCEPT !.win = Append(RemoveAt(@, i), @[i]), !.focused = Len(m.win)]

\* Mutant: the focus goes to the last window, shown or not.
RefocusAfterHide_Last(m, hidden) ==
    IF m.focused # hidden THEN m ELSE [m EXCEPT !.focused = Len(m.win)]

RefocusAfterHide(m, hidden) ==
    IF m.focused # hidden THEN m
    ELSE [m EXCEPT !.focused = IF VisibleAt(m) = {} THEN 1 ELSE Max(VisibleAt(m))]

Maximized(w, s) ==
    IF ~w.resizable \/ w.max THEN w
    ELSE Resized([w EXCEPT !.back = [x |-> w.x, cells |-> w.cells], !.x = 0, !.max = TRUE],
                 FullCells(s))
MaximizeAt(m, i, s) == [m EXCEPT !.win[i] = Maximized(@, s)]

Unmaximized(w) ==
    IF ~w.max THEN w
    ELSE IF w.back = None THEN [w EXCEPT !.max = FALSE]
    ELSE Resized([w EXCEPT !.max = FALSE, !.x = w.back.x, !.back = None], w.back.cells)
UnmaximizeAt(m, i) == [m EXCEPT !.win[i] = Unmaximized(@)]

\* What remember_geometry notes of a window.
Geometry(w) ==
    IF w.max THEN [x |-> w.back.x, cells |-> w.back.cells, max |-> TRUE]
    ELSE [x |-> w.x, cells |-> w.cells, max |-> FALSE]
RememberGeometry(m, w) ==
    IF w.app = None \/ (w.max /\ w.back = None) THEN m
    ELSE [m EXCEPT !.rem[w.app] = Geometry(w)]

(***************************************************************************)
(* Opening a window                                                        *)
(***************************************************************************)
\* next_spawn_position: a cascade that wraps.
NextSpawn(m, s) == Smaller(1 + ((m.cascade + 1) % 2), MaxSpawnPos(s))

\* avoid_overlap: step aside while another window has the spot.
AvoidOverlap(m, s, x) ==
    LET taken == {m.win[i].x : i \in VisibleAt(m)}
        free == (x..MaxSpawnPos(s)) \ taken
    IN  IF x \notin taken THEN x ELSE IF free = {} THEN MaxSpawnPos(s) ELSE Min(free)

\* The slot a new window goes to: the first closed one's, or a new one.
SlotFor(m) ==
    LET closed == {i \in DOMAIN m.win : ~m.win[i].open}
    IN  IF closed = {} THEN Len(m.win) + 1 ELSE Min(closed)
Put(m, i, w) ==
    [m EXCEPT !.win = IF i > Len(@) THEN Append(@, w) ELSE [@ EXCEPT ![i] = w],
              !.ids = @ + 1]

\* Mutant: only the position is remembered.
Recall_PositionOnly(m, s, i, r) == m

\* The remembered size goes to whatever window is at the slot's index after
\* raise, as in the code.
Recall(m, s, i, r) ==
    IF r = None THEN m
    ELSE IF r.max THEN MaximizeAt(ResizeAt(m, i, Larger(r.cells, MinCells)), i, s)
    ELSE ResizeAt(m, i, Larger(r.cells, MinCells))

Open(m, s, r, app, kind, resizable, copy) ==
    LET i == SlotFor(m)
        w == [id |-> m.ids, app |-> app, kind |-> kind, resizable |-> resizable,
              x |-> AvoidOverlap(m, s, IF r = None THEN NextSpawn(m, s) ELSE r.x),
              cells |-> IF HasCells(kind) THEN FitCells(s) ELSE 0,
              open |-> TRUE, min |-> FALSE, max |-> FALSE, back |-> None, copy |-> copy]
        counted == IF r = None THEN [m EXCEPT !.cascade = (@ + 1) % 2] ELSE m
    IN  Recall(Raise(Put(counted, i, w), i), s, i, r)

SpawnWindow(m, s, app, kind, resizable, copy) ==
    Open(m, s, IF app = None THEN None ELSE m.rem[app], app, kind, resizable, copy)

\* run_launcher_action; a Settings window gets a copy of the manager's settings.
RunLauncherAction(m, s, app, settings) ==
    IF app # "settings" THEN SpawnWindow(m, s, app, app, CanGrow(app), None)
    ELSE [SpawnWindow(m, s, app, app, FALSE, settings) EXCEPT !.panels = @ + 1]

\* dispatch_action: a terminal running the file, a notepad or a viewer on it.
DispatchAction(m, s, kind) == SpawnWindow(m, s, None, kind, TRUE, None)
OpenedKinds == {"terminal", "notepad", "imageviewer"}

(***************************************************************************)
(* The session file                                                        *)
(***************************************************************************)
Entry(w) == [app |-> w.app, x |-> w.x, cells |-> w.cells, min |-> w.min, max |-> w.max]
OpenApps(m) == SelectSeq(m.win, LAMBDA w : w.open /\ w.app # None)

LeftEntry(a, r) == [app |-> a, x |-> r.x, cells |-> r.cells, min |-> FALSE, max |-> r.max]

\* What persist_session saves; an app that is open is not listed as remembered.
Saved(m) ==
    LET ws == OpenApps(m)
        closed == SetToSeq({a \in Apps : m.rem[a] # None /\ \A w \in Range(ws) : w.app # a})
    IN  [windows |-> [i \in DOMAIN ws |-> Entry(ws[i])],
         remembered |-> [i \in DOMAIN closed |-> LeftEntry(closed[i], m.rem[closed[i]])]]
NoSession == [windows |-> <<>>, remembered |-> <<>>]

\* serialize: one line per entry, its fields by position; a remembered line
\* has no field for minimised.
Serialize(d) ==
    [i \in DOMAIN d.windows |-> LET e == d.windows[i]
                               IN  <<"window", e.app, e.x, e.cells, e.min, e.max>>]
    \o [i \in DOMAIN d.remembered |-> LET e == d.remembered[i]
                                      IN  <<"remembered", e.app, e.x, e.cells, e.max>>]

ParseEntry(l) ==
    [app |-> l[2], x |-> l[3], cells |-> l[4],
     min |-> l[1] = "window" /\ l[5],
     max |-> IF l[1] = "window" THEN l[6] ELSE l[5]]
ParseKind(lines, kind) ==
    LET ls == SelectSeq(lines, LAMBDA l : l[1] = kind)
    IN  [i \in DOMAIN ls |-> ParseEntry(ls[i])]
Parse(lines) == [windows |-> ParseKind(lines, "window"),
                 remembered |-> ParseKind(lines, "remembered")]

\* Mutant: a maximised entry's state is dropped.
Placed_NotMaximized(w, s, e) ==
    [Resized([w EXCEPT !.x = Clamp(e.x, 0, MaxPos(s))], Larger(e.cells, MinCells))
        EXCEPT !.min = e.min]

\* What restore_session makes of the window it opened for an entry.
Placed(w, s, e) ==
    LET at == [w EXCEPT !.x = Clamp(e.x, 0, MaxPos(s))]
        sized == IF ~e.max /\ e.cells > 0 THEN Resized(at, Larger(e.cells, MinCells)) ELSE at
    IN  [(IF e.max THEN Maximized(sized, s) ELSE sized) EXCEPT !.min = e.min]

PlaceFocused(m, s, e) == [m EXCEPT !.win[m.focused] = Placed(@, s, e)]

\* One entry of restore_session: the second of an app is skipped.
RestoreEntry(m, s, settings, e) ==
    IF \E i \in DOMAIN m.win : m.win[i].open /\ m.win[i].app = e.app THEN m
    ELSE PlaceFocused(RunLauncherAction(m, s, e.app, settings), s, e)

Fresh == [win |-> <<>>, focused |-> 1, rem |-> [a \in Apps |-> None], cascade |-> 0,
          ids |-> 0, panels |-> 0]

RestoreLeft(m, e) == [m EXCEPT !.rem[e.app] = [x |-> e.x, cells |-> e.cells, max |-> e.max]]

Restored(s, settings, data) ==
    FoldLeft(LAMBDA m, e : RestoreEntry(m, s, settings, e),
             FoldLeft(RestoreLeft, Fresh, data.remembered), data.windows)

(***************************************************************************)
(* Settings changes                                                        *)
(***************************************************************************)
\* apply_resolution: minimised windows are passed over.
OnScreen(w, s) ==
    IF ~Visible(w) THEN w
    ELSE LET at == [w EXCEPT !.x = Clamp(@, 0, MaxPos(s))]
         IN  IF w.max THEN Resized(at, FullCells(s)) ELSE at
ApplyResolution(m, s) == [m EXCEPT !.win = [i \in DOMAIN @ |-> OnScreen(@[i], s)]]

Rescaled(w, s) ==
    IF ~w.open THEN w
    ELSE LET at == [w EXCEPT !.x = Clamp(@, 0, MaxPos(s))]
         IN  IF w.max THEN Resized(at, FullCells(s))
             ELSE Resized(at, Clamp(w.cells, 1, FullCells(s)))
ApplyFontScale(m, s) == [m EXCEPT !.win = [i \in DOMAIN @ |-> Rescaled(@[i], s)]]

(***************************************************************************)
(* The settings file                                                       *)
(***************************************************************************)
\* A resolution of None is the native one.
Native == Max(Screens)
Defaults == [res |-> None, font |-> 1, accent |-> "blue"]
Accents == {"blue", "red"}

Save(c) == <<<<"accent_color", c.accent>>, <<"resolution", c.res>>, <<"font_scale", c.font>>>>

\* Settings::load: one line after another over the defaults; a resolution
\* that does not fit the screen is the native one.
ParseResolution(v) == IF v = None \/ v = 0 THEN None ELSE IF v > Native THEN None ELSE v
LoadLine(c, l) ==
    CASE l[1] = "accent_color" -> [c EXCEPT !.accent = l[2]]
      [] l[1] = "resolution" -> [c EXCEPT !.res = ParseResolution(l[2])]
      [] OTHER -> [c EXCEPT !.font = l[2]]
Load(lines) == FoldLeft(LoadLine, Defaults, lines)

\* What desktop::run puts into effect.
InEffect(c) == [w |-> IF c.res = None THEN Native ELSE c.res, font |-> c.font]

(***************************************************************************)
(* Events                                                                  *)
(***************************************************************************)

Init ==
    /\ wm = Fresh
    /\ grab = None
    /\ left = FALSE
    /\ launcher = FALSE
    /\ mgr = Defaults
    /\ conf = <<>>
    /\ session = <<>>
    /\ scr = InEffect(Defaults)
    /\ slipped = FALSE
    /\ count = [inputs |-> 0, boots |-> 0]

Input ==
    /\ count.inputs < MaxInputs
    /\ count' = [count EXCEPT !.inputs = @ + 1]

\* handle_mouse, the button just pressed: handle_click.
Press == Input /\ ~left /\ left' = TRUE
PressOn(i) == Press /\ ~launcher /\ i \in VisibleAt(wm)

Persist == session' = Serialize(Saved(wm'))

(***************************************************************************)
(* handle_click: launcher and taskbar                                      *)
(***************************************************************************)
ClickTile(app) ==
    /\ Press
    /\ launcher
    /\ launcher' = FALSE
    /\ wm' = RunLauncherAction(wm, scr, app, mgr)
    /\ conf' = IF app = "settings" THEN Save(mgr) ELSE conf   \* its first render saves
    /\ Persist
    /\ UNCHANGED <<grab, mgr, scr, slipped>>

\* A tile for a program in /bin.
ClickProgram ==
    /\ Press
    /\ launcher
    /\ launcher' = FALSE
    /\ wm' = DispatchAction(wm, scr, "terminal")
    /\ Persist
    /\ UNCHANGED <<grab, mgr, conf, scr, slipped>>

ClickAway ==
    /\ Press
    /\ launcher
    /\ launcher' = FALSE
    /\ UNCHANGED <<wm, grab, mgr, conf, session, scr, slipped>>

ClickStart ==
    /\ Press
    /\ ~launcher
    /\ launcher' = TRUE
    /\ UNCHANGED <<wm, grab, mgr, conf, session, scr, slipped>>

\* The desktop, or the taskbar between its buttons.
ClickNothing ==
    /\ Press
    /\ ~launcher
    /\ UNCHANGED <<wm, grab, launcher, mgr, conf, session, scr, slipped>>

ClickTaskbar(i) ==
    /\ Press
    /\ ~launcher
    /\ i \in DOMAIN wm.win
    /\ wm.win[i].open
    /\ wm' = Raise([wm EXCEPT !.win[i].min = FALSE], i)
    /\ Persist
    /\ UNCHANGED <<grab, launcher, mgr, conf, scr, slipped>>

(***************************************************************************)
(* handle_click: title bars                                                *)
(***************************************************************************)
\* Mutant: the index from before raise.
Hold_OldIndex(what, i) == [what |-> what, idx |-> i, id |-> wm.win[i].id]

Hold(what, i) == [what |-> what, idx |-> wm'.focused, id |-> wm.win[i].id]

ClickGrip(i) ==
    /\ PressOn(i)
    /\ wm.win[i].resizable /\ ~wm.win[i].max
    /\ wm' = Raise(wm, i)
    /\ grab' = Hold("resize", i)
    /\ UNCHANGED <<launcher, mgr, conf, session, scr, slipped>>

ClickClose(i) ==
    /\ PressOn(i)
    /\ wm' = RefocusAfterHide(RememberGeometry([wm EXCEPT !.win[i].open = FALSE], wm.win[i]), i)
    /\ Persist
    /\ UNCHANGED <<grab, launcher, mgr, conf, scr, slipped>>

ClickMaximize(i) ==
    /\ PressOn(i)
    /\ wm.win[i].resizable
    /\ wm' = IF wm.win[i].max THEN UnmaximizeAt(Raise(wm, i), Len(wm.win))
             ELSE MaximizeAt(Raise(wm, i), Len(wm.win), scr)
    /\ Persist
    /\ UNCHANGED <<grab, launcher, mgr, conf, scr, slipped>>

\* Mutant: minimising does not save the session.
ClickMinimize_NotSaved(i) ==
    /\ PressOn(i)
    /\ wm' = RefocusAfterHide([wm EXCEPT !.win[i].min = TRUE], i)
    /\ UNCHANGED <<grab, launcher, mgr, conf, session, scr, slipped>>

ClickMinimize(i) ==
    /\ PressOn(i)
    /\ wm' = RefocusAfterHide([wm EXCEPT !.win[i].min = TRUE], i)
    /\ Persist
    /\ UNCHANGED <<grab, launcher, mgr, conf, scr, slipped>>

\* Picking up a maximised window restores it first.
ClickTitle(i) ==
    /\ PressOn(i)
    /\ wm' = UnmaximizeAt(Raise(wm, i), Len(wm.win))
    /\ grab' = Hold("drag", i)
    /\ UNCHANGED <<launcher, mgr, conf, session, scr, slipped>>

(***************************************************************************)
(* handle_click: content                                                   *)
(***************************************************************************)
\* Nothing that concerns the manager, or an item that may become a file drag.
ClickContent(i) ==
    /\ PressOn(i)
    /\ wm' = Raise(wm, i)
    /\ grab' \in {None} \cup (IF wm.win[i].kind = "files" THEN {Hold("item", i)} ELSE {})
    /\ UNCHANGED <<launcher, mgr, conf, session, scr, slipped>>

\* A double click in the explorer opens a file.
ClickOpens(i, kind) ==
    /\ PressOn(i)
    /\ wm.win[i].kind = "files"
    /\ wm' = DispatchAction(Raise(wm, i), scr, kind)
    /\ UNCHANGED <<grab, launcher, mgr, conf, session, scr, slipped>>

\* A click in the Settings window that changes its copy, and saves it.
ClickSetting(i, copy) ==
    /\ PressOn(i)
    /\ wm.win[i].kind = "settings"
    /\ copy # wm.win[i].copy
    /\ conf' = Save(copy)
    /\ UNCHANGED <<grab, launcher, slipped>>

Picked(i, copy) == Raise([wm EXCEPT !.win[i].copy = copy], i)

PickResolution(i, r) ==
    LET copy == [wm.win[i].copy EXCEPT !.res = IF r = Native THEN None ELSE r]
    IN  /\ ClickSetting(i, copy)
        /\ scr' = [scr EXCEPT !.w = r]
        /\ wm' = ApplyResolution(Picked(i, copy), scr')
        /\ mgr' = Load(conf')
        /\ Persist

\* Mutant: the new scale is saved and never applied.
PickFont_NotApplied(i, f) ==
    LET copy == [wm.win[i].copy EXCEPT !.font = f]
    IN  /\ ClickSetting(i, copy)
        /\ wm' = ApplyFontScale(Picked(i, copy), scr)
        /\ Persist
        /\ UNCHANGED <<mgr, scr>>

PickFont(i, f) ==
    LET copy == [wm.win[i].copy EXCEPT !.font = f]
    IN  /\ ClickSetting(i, copy)
        /\ scr' = [scr EXCEPT !.font = f]
        /\ wm' = ApplyFontScale(Picked(i, copy), scr')
        /\ Persist
        /\ UNCHANGED mgr

PickAccent(i, a) ==
    LET copy == [wm.win[i].copy EXCEPT !.accent = a]
    IN  /\ ClickSetting(i, copy)
        /\ wm' = Picked(i, copy)
        /\ mgr' = Load(conf')
        /\ UNCHANGED <<session, scr>>

(***************************************************************************)
(* handle_mouse with the button held, and its release                      *)
(***************************************************************************)
Holding(what) == left /\ grab # None /\ grab.what = what

MoveDrag(x) ==
    /\ Holding("drag")
    /\ wm' = [wm EXCEPT !.win[grab.idx].x = Clamp(x, 0, MaxPos(scr))]
    /\ UNCHANGED <<grab, left, launcher, mgr, conf, session, scr, slipped, count>>

MoveResize(c) ==
    /\ Holding("resize")
    /\ wm' = ResizeAt(wm, grab.idx, Larger(c, MinCells))
    /\ UNCHANGED <<grab, left, launcher, mgr, conf, session, scr, slipped, count>>

\* begin_file_drag, if the window at that index is an explorer that still
\* has the item.
MoveItem ==
    /\ Holding("item")
    /\ grab' \in {None} \cup (IF wm.win[grab.idx].kind = "files"
                              THEN {[grab EXCEPT !.what = "file"]} ELSE {})
    /\ UNCHANGED <<wm, left, launcher, mgr, conf, session, scr, slipped, count>>

\* The end of a move or a resize saves the session; a file drag is dropped
\* on an explorer, which moves the file.
Release ==
    /\ left
    /\ left' = FALSE
    /\ grab' = None
    /\ slipped' = FALSE
    /\ UNCHANGED <<wm, launcher, mgr, conf, scr, count>>
    /\ IF Holding("drag") \/ Holding("resize") THEN Persist ELSE UNCHANGED session

(***************************************************************************)
(* Keys, redraws, power                                                    *)
(***************************************************************************)
\* handle_key: the focused window gets it, shown or not; Enter in an
\* explorer opens a file.
KeyOpens(kind) ==
    /\ Input
    /\ wm.win # <<>>
    /\ wm.win[wm.focused].kind = "files"
    /\ wm' = DispatchAction(wm, scr, kind)
    /\ slipped' = (slipped \/ (grab # None /\ SlotFor(wm) < grab.idx))
    /\ UNCHANGED <<grab, left, launcher, mgr, conf, session, scr>>

\* composite: a Settings window under the cursor draws itself and saves.
Composite(i) ==
    /\ i \in VisibleAt(wm)
    /\ wm.win[i].kind = "settings"
    /\ conf' = Save(wm.win[i].copy)
    /\ UNCHANGED <<wm, grab, left, launcher, mgr, session, scr, slipped, count>>

\* The power fails; desktop::run starts from the two files.
Boot ==
    /\ count.boots < MaxBoots
    /\ count' = [count EXCEPT !.boots = @ + 1]
    /\ mgr' = Load(conf)
    /\ scr' = InEffect(mgr')
    /\ wm' = Restored(scr', mgr', Parse(session))
    /\ IF Parse(session) = NoSession THEN UNCHANGED session ELSE Persist
    /\ conf' = IF wm'.panels = 0 THEN conf ELSE Save(mgr')
    /\ grab' = None
    /\ left' = FALSE
    /\ launcher' = FALSE
    /\ slipped' = FALSE

Next ==
    \/ \E a \in Apps : ClickTile(a)
    \/ ClickProgram \/ ClickAway \/ ClickStart \/ ClickNothing
    \/ \E i \in DOMAIN wm.win : ClickTaskbar(i)
    \/ \E i \in DOMAIN wm.win : ClickGrip(i)
    \/ \E i \in DOMAIN wm.win : ClickClose(i)
    \/ \E i \in DOMAIN wm.win : ClickMaximize(i)
    \/ \E i \in DOMAIN wm.win : ClickMinimize(i)
    \/ \E i \in DOMAIN wm.win : ClickTitle(i)
    \/ \E i \in DOMAIN wm.win : ClickContent(i)
    \/ \E i \in DOMAIN wm.win, k \in OpenedKinds : ClickOpens(i, k)
    \/ \E i \in DOMAIN wm.win, r \in Screens : PickResolution(i, r)
    \/ \E i \in DOMAIN wm.win, f \in Fonts : PickFont(i, f)
    \/ \E i \in DOMAIN wm.win, a \in Accents : PickAccent(i, a)
    \/ \E x \in {0, Max(Screens)} : MoveDrag(x)
    \/ \E c \in {0, MaxCells + 1} : MoveResize(c)
    \/ MoveItem \/ Release
    \/ \E k \in OpenedKinds : KeyOpens(k)
    \/ \E i \in DOMAIN wm.win : Composite(i)
    \/ Boot

Spec == Init /\ [][Next]_vars

(***************************************************************************)
(* Properties                                                              *)
(***************************************************************************)
\* No event leaves the focus, and so the keyboard, on a window that is closed
\* or minimised while another is in sight (raise, refocus_after_hide).
FocusOk(m) == VisibleAt(m) # {} => Visible(m.win[m.focused])
FocusKept == [][FocusOk(wm) /\ count'.boots = count.boots => FocusOk(wm')]_vars

\* The index a drag, a resize or a pressed item keeps denotes the window the
\* button went down on, through raise's reordering, until a key pressed in an
\* explorer opens a window in a slot below it.
GrabbedIsHeld == grab # None /\ ~slipped => wm.win[grab.idx].id = grab.id

\* Whenever nothing is being dragged or resized, the session file tells the
\* open apps as they are: every handler that changes one saves.
Copies(seq, e) == Cardinality({i \in DOMAIN seq : seq[i] = e})
SessionCurrent ==
    ~Holding("drag") /\ ~Holding("resize") =>
        LET kept == Parse(session)
        IN  /\ kept.remembered = Saved(wm).remembered
            /\ \A e \in Range(kept.windows) \cup Range(Saved(wm).windows) :
                  Copies(kept.windows, e) = Copies(Saved(wm).windows, e)

\* A power cut in between events brings back the apps that were open, as
\* they were shown (restore_session after persist_session), and where the
\* closed ones had been left.
Shown(m, s) ==
    {[app |-> w.app, min |-> w.min, max |-> w.max,
      x |-> IF w.max THEN None ELSE Clamp(w.x, 0, MaxPos(s)),
      cells |-> IF w.max THEN None ELSE w.cells] : w \in Range(OpenApps(m))}
NoTwins(m) == Cardinality({w.app : w \in Range(OpenApps(m))}) = Len(OpenApps(m))
RebootKeepsDesktop ==
    [][count'.boots # count.boots /\ ~left /\ NoTwins(wm) /\ scr' = scr =>
          /\ Shown(wm', scr) = Shown(wm, scr)
          /\ Saved(wm').remembered = Saved(wm).remembered]_vars

\* An app that was closed reopens in the size it was left in (wm.rs:498-501),
\* if no closed window's slot is below another window: spawn_window uses the
\* slot's index after raise has moved the window.
Reopened(a) == launcher /\ ~launcher' /\ Len(Saved(wm').windows) > Len(Saved(wm).windows)
                        /\ wm'.win[wm'.focused].app = a
ReopensAsLeft ==
    [][\A a \in Apps : Reopened(a) /\ wm.rem[a] # None /\ SlotFor(wm) >= Len(wm.win) =>
          /\ wm'.win[wm'.focused].max = wm.rem[a].max
          /\ ~wm.rem[a].max => wm'.win[wm'.focused].cells = wm.rem[a].cells]_vars

\* The resolution and the font scale on disk are those in effect (the save in
\* every Settings click and redraw, apply_resolution, apply_font_scale), as
\* long as one Settings window at most was opened since the boot: a second
\* one starts from the manager's copy, which a font change does not reach.
SettingsInEffect == wm.panels <= 1 => InEffect(Load(conf)) = scr
=============================================================================
