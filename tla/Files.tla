------------------------------- MODULE Files -------------------------------
(***************************************************************************)
(* The users of the volume: the file explorer (file_explorer.rs), the file *)
(* commands of the shell (shell.rs), both run by the main task, and the    *)
(* file system calls of a process (linux_abi.rs) on its open files         *)
(* (vfs.rs).                                                               *)
(*                                                                         *)
(* A call of fat.rs holds MOUNTED, so it is one step on the tree fs; Fat   *)
(* is the module of what it does to the disk.  A process runs between any  *)
(* two calls of the main task.  One system call is one step: interrupts    *)
(* are off.                                                                *)
(***************************************************************************)
EXTENDS Integers, FiniteSets, FiniteSetsExt, SequencesExt, TLC

CONSTANTS
    NameOrder,      \* the names of the instance, in alphabetical order
    NewFiles,       \* "New File.txt", "New File (2).txt", ... to the last tried
    NewFolders,     \* "New Folder", "New Folder (2)", ... to the last tried
    FirstFs,        \* the tree at boot
    Named,          \* the paths that commands and processes name
    Bytes, Zero,    \* what a process writes, and what fills a gap
    MaxLen,         \* bound on the length of a file
    DetailsRows, GridRows, GridCols,    \* rows and columns that fit the list
    MaxFds, MaxOps, \* bounds on open files and on calls
    None

VARIABLES
    fs,     \* path -> [kind, data]: the tree below the home folder
    ex,     \* the explorer: struct FileExplorer
    drag,   \* [path, dir]: the window manager's file_drag, or None
    move,   \* move_file in progress, or None
    fds,    \* the open files of the process: struct FileHandle, or None
    proc,   \* "run", "exited", or "panic": the kernel stopped
    ops     \* calls so far

vars == <<fs, ex, drag, move, fds, proc, ops>>

Names == Range(NameOrder)
Rank(n) == CHOOSE i \in DOMAIN NameOrder : NameOrder[i] = n
Home == <<>>
Paths == {<<n>> : n \in Names} \cup {<<d, n>> : d \in Names, n \in Names}
Fds == 1..MaxFds

Nothing == [kind |-> "none", data |-> <<>>]
Folder == [kind |-> "dir", data |-> <<>>]
File(data) == [kind |-> "file", data |-> data]

Least(a, b) == IF a < b THEN a ELSE b
Less(a, b) == IF a > b THEN a - b ELSE 0      \* saturating_sub

(***************************************************************************)
(* The volume, as its callers see it                                       *)
(***************************************************************************)
IsDir(p) == p = Home \/ (p \in Paths /\ fs[p].kind = "dir")
Exists(p) == p = Home \/ (p \in Paths /\ fs[p].kind # "none")
ListDir(p) == IF IsDir(p) THEN {n \in Names : Exists(Append(p, n))} ELSE {}

CanWrite(p) == p \in Paths /\ IsDir(Front(p)) /\ ~IsDir(p)
CanMake(p) == p \in Paths /\ IsDir(Front(p)) /\ ~Exists(p)
CanRemove(p) == p \in Paths /\ Exists(p) /\ ListDir(p) = {}
CanRename(p, n) == Exists(p) /\ ~Exists(Append(Front(p), n))

Stored(p, entry) == [fs EXCEPT ![p] = entry]
Below(p, q) == Len(q) >= Len(p) /\ SubSeq(q, 1, Len(p)) = p

\* The entry is rewritten under the new name, with all that is below it.
Renamed(p, n) ==
    LET to == Append(Front(p), n)
        from(q) == p \o SubSeq(q, Len(to) + 1, Len(q))
    IN  [q \in Paths |-> IF Below(to, q) THEN fs[from(q)]
                         ELSE IF Below(p, q) THEN Nothing ELSE fs[q]]

(***************************************************************************)
(* The explorer's list.  Fs is the tree it is read from.                   *)
(***************************************************************************)
EntriesOf(tree, p) ==
    {[name |-> n, dir |-> tree[Append(p, n)].kind = "dir", size |-> Len(tree[Append(p, n)].data)] :
        n \in {m \in Names : tree[Append(p, m)].kind # "none"}}

Readable(tree, p) == p = Home \/ tree[p].kind = "dir"

\* entry_less; entries that tie keep the order of the disk, taken to be that
\* of the names.
EntryLess(a, b, key, asc) ==
    IF a.dir # b.dir THEN a.dir
    ELSE LET ka == IF key = "name" THEN Rank(a.name) ELSE a.size
             kb == IF key = "name" THEN Rank(b.name) ELSE b.size
         IN  IF ka = kb THEN Rank(a.name) < Rank(b.name)
             ELSE IF asc THEN ka < kb ELSE ka > kb

SortEntries(s, key, asc) == SetToSortSeq(s, LAMBDA a, b : EntryLess(a, b, key, asc))

VisibleItems(e) == IF e.view = "details" THEN DetailsRows ELSE GridRows * GridCols
MaxScroll(e) == Less(Len(e.entries), VisibleItems(e))

EnsureSelectionVisible(e) ==
    LET v == VisibleItems(e)
        s == IF e.sel < e.scroll THEN e.sel
             ELSE IF e.sel >= e.scroll + v THEN e.sel + 1 - v ELSE e.scroll
    IN  [e EXCEPT !.scroll = Least(s, MaxScroll(e))]

Clipped(e) == [e EXCEPT !.sel = IF e.sel >= Len(e.entries) THEN 0 ELSE e.sel,
                        !.scroll = Least(e.scroll, MaxScroll(e))]

\* refresh keeps pending_delete and rename, which hold indices.
Refresh(e, tree) ==
    Clipped([e EXCEPT !.entries = IF Readable(tree, e.path)
                                  THEN SortEntries(EntriesOf(tree, e.path), e.sort, e.asc)
                                  ELSE <<>>])

Navigate(e, p, tree) ==
    Refresh([e EXCEPT !.path = p, !.sel = 0, !.scroll = 0, !.pending = None, !.rename = None], tree)

\* The entry just made is selected.
Select(e, n) ==
    LET at == SelectInSeq(e.entries, LAMBDA x : x.name = n)
    IN  IF at = 0 THEN e ELSE EnsureSelectionVisible([e EXCEPT !.sel = at - 1])

Shown(e) == {e.entries[i].name : i \in DOMAIN e.entries}

\* The first candidate the list does not show; the last one when it shows all.
FreshName(e, candidates) ==
    LET free == {i \in DOMAIN candidates : candidates[i] \notin Shown(e)}
    IN  IF free = {} THEN Last(candidates) ELSE candidates[Min(free)]

Explorer == [path |-> Home, entries |-> <<>>, sel |-> 0, scroll |-> 0, view |-> "details",
             sort |-> "name", asc |-> TRUE, pending |-> None, rename |-> None,
             press |-> None]

Init ==
    /\ fs = FirstFs
    /\ ex = Navigate(Explorer, Home, FirstFs)
    /\ drag = None
    /\ move = None
    /\ fds = [f \in Fds |-> None]
    /\ proc = "run"
    /\ ops = 0

(***************************************************************************)
(* Keys and clicks in the explorer                                         *)
(***************************************************************************)
Idle == move = None /\ proc # "panic"
ButtonUp == ex.press = None /\ drag = None

\* A key, which goes to the rename box when there is one, or a click, which
\* leaves rename mode.
Key == Idle /\ ex.rename = None
Click == Idle /\ ButtonUp
Unrenamed == [ex EXCEPT !.rename = None]

Calls == ops < MaxOps /\ ops' = ops + 1
Elsewhere == <<drag, move, fds, proc>>
ListOnly == Calls /\ UNCHANGED <<fs, drag, move, fds, proc>>

Selected(e) == e.entries[e.sel + 1]
HasSelection(e) == e.sel + 1 \in DOMAIN e.entries
Prompt(e) == [sel |-> e.sel, name |-> Selected(e).name, list |-> e.entries]

MoveSelection(delta) ==
    /\ Key
    /\ ex.entries # <<>>
    /\ ex' = EnsureSelectionVisible(
                [ex EXCEPT !.sel = IF delta < 0 THEN Less(@, -delta)
                                   ELSE Least(@ + delta, Len(ex.entries) - 1)])
    /\ ListOnly

\* A folder is entered; opening a file only reads it.
Opened(e) ==
    LET p == Append(e.path, Selected(e).name)
    IN  IF Selected(e).dir /\ Len(p) = 1 THEN Navigate(e, p, fs) ELSE e

OpenSelected ==
    /\ Key
    /\ HasSelection(ex)
    /\ ex' = Opened(ex)
    /\ ListOnly

GoTo(p) ==
    /\ Key \/ Click
    /\ ex' = Navigate(ex, p, fs)
    /\ ListOnly

Reload ==
    /\ Key \/ Click
    /\ ex' = Refresh(Unrenamed, fs)
    /\ ListOnly

ToggleView ==
    /\ Key \/ Click
    /\ LET e == [Unrenamed EXCEPT !.view = IF @ = "details" THEN "grid" ELSE "details"]
       IN  ex' = EnsureSelectionVisible([e EXCEPT !.scroll = Least(@, MaxScroll(e))])
    /\ ListOnly

ToggleSort(key) ==
    /\ Click
    /\ ex.view = "details"
    /\ ex' = Refresh([Unrenamed EXCEPT !.sort = key, !.asc = IF ex.sort = key THEN ~@ ELSE TRUE], fs)
    /\ ListOnly

ScrollClick(down) ==
    /\ Click
    /\ LET page == IF VisibleItems(ex) < 2 THEN 1 ELSE VisibleItems(ex) \div 2
       IN  ex' = [Unrenamed EXCEPT !.scroll = IF MaxScroll(ex) = 0 THEN @
                                              ELSE IF down THEN Least(@ + page, MaxScroll(ex))
                                              ELSE Less(@, page)]
    /\ ListOnly

\* The press may become a drag.  A second click in time opens the item, as
\* Enter does after a Release.
ClickItem(row) ==
    LET item == ex.scroll + row
    IN  /\ Click
        /\ ex' = IF item >= Len(ex.entries) THEN [Unrenamed EXCEPT !.pending = None]
                 ELSE EnsureSelectionVisible(
                        [Unrenamed EXCEPT !.sel = item, !.pending = None, !.press = item])
        /\ ListOnly

\* Mutant: any armed selection confirms.
Armed_AnyIndex(e, inTime) == e.pending # None /\ inTime

Armed(e, inTime) == e.pending # None /\ e.pending.sel = e.sel /\ inTime

\* Armed by the first press, for the index of the entry, and carried out by
\* a second one within DELETE_ARM_TICKS.
DeleteSelected(inTime) ==
    LET e == Unrenamed
        p == Append(e.path, Selected(e).name)
    IN  /\ Key \/ Click
        /\ HasSelection(e)
        /\ Calls
        /\ IF Armed(e, inTime)
           THEN LET left == IF CanRemove(p) THEN Stored(p, Nothing) ELSE fs
                    done == [e EXCEPT !.pending = None]
                IN  /\ fs' = left
                    /\ ex' = IF CanRemove(p) THEN Refresh(done, left) ELSE done
           ELSE /\ ex' = [e EXCEPT !.pending = Prompt(e)]
                /\ UNCHANGED fs
        /\ UNCHANGED Elsewhere

Made(p, n, entry) ==
    LET left == Stored(p, entry)
    IN  /\ fs' = left
        /\ ex' = Select(Refresh(Unrenamed, left), n)

Failed == ex' = Unrenamed /\ UNCHANGED fs

CreateFolder ==
    LET n == FreshName(ex, NewFolders)
        p == Append(ex.path, n)
    IN  /\ Key \/ Click
        /\ Calls
        /\ IF CanMake(p) THEN Made(p, n, Folder) ELSE Failed
        /\ UNCHANGED Elsewhere

CreateFile ==
    LET n == FreshName(ex, NewFiles)
        p == Append(ex.path, n)
    IN  /\ Key \/ Click
        /\ Calls
        /\ IF CanWrite(p) THEN Made(p, n, File(<<>>)) ELSE Failed
        /\ UNCHANGED Elsewhere

StartRename ==
    /\ Key
    /\ HasSelection(ex)
    /\ ex' = [ex EXCEPT !.rename = Prompt(ex), !.pending = None]
    /\ ListOnly

CancelRename ==
    /\ Idle
    /\ ex.rename # None
    /\ ex' = Unrenamed
    /\ ListOnly

\* What can be in the rename box when Enter is pressed; None: only blanks.
Typed == Names \cup {None}

\* The item is looked up by its index now, not when the box was opened.
CommitRename(n) ==
    LET at == ex.rename.sel + 1
        p == Append(ex.path, ex.entries[at].name)
        goes == at \in DOMAIN ex.entries /\ n # None /\ n # ex.entries[at].name /\ CanRename(p, n)
    IN  /\ Idle
        /\ ex.rename # None
        /\ Calls
        /\ fs' = IF goes THEN Renamed(p, n) ELSE fs
        /\ ex' = IF goes THEN Select(Refresh(Unrenamed, Renamed(p, n)), n) ELSE Unrenamed
        /\ UNCHANGED Elsewhere

(***************************************************************************)
(* Dragging a file to a folder: the window manager's part, handle_drop and *)
(* move_file, whose calls of fat.rs each take the lock anew.               *)
(***************************************************************************)
Release ==
    /\ Idle
    /\ ex.press # None
    /\ ex' = [ex EXCEPT !.press = None]
    /\ ListOnly

BeginDrag ==
    /\ Idle
    /\ ex.press # None
    /\ ex' = [ex EXCEPT !.press = None]
    /\ drag' = IF ex.press + 1 \in DOMAIN ex.entries
               THEN [path |-> Append(ex.path, ex.entries[ex.press + 1].name),
                     dir |-> ex.entries[ex.press + 1].dir]
               ELSE None
    /\ UNCHANGED <<fs, move, fds, proc, ops>>

\* A folder of the list, the list itself, or a shortcut of the sidebar.
DropTargets ==
    {ex.path, Home} \cup {Append(ex.path, ex.entries[i].name) : i \in
                            {j \in DOMAIN ex.entries : ex.entries[j].dir}}

Drop(target) ==
    /\ Idle
    /\ drag # None
    /\ target \in DropTargets
    /\ Calls
    /\ drag' = None
    /\ move' = IF target = Front(drag.path) \/ (drag.dir /\ Below(drag.path, target)) THEN None
               ELSE [src |-> drag.path, dst |-> Append(target, Last(drag.path)), pc |-> "look",
                     entry |-> Nothing, raced |-> FALSE]
    /\ UNCHANGED <<fs, ex, fds, proc>>

DropNowhere ==
    /\ Idle
    /\ drag # None
    /\ drag' = None
    /\ UNCHANGED <<fs, ex, move, fds, proc, ops>>

MovingAt(pc) == proc # "panic" /\ move # None /\ move.pc = pc
Goes(m) == move' = m /\ UNCHANGED <<ex, drag, fds, proc, ops>>

\* is_dir, then list_dir of a folder.
MoveLook ==
    /\ MovingAt("look")
    /\ Goes(IF ~Exists(move.src) THEN None
            ELSE [move EXCEPT !.pc = IF IsDir(move.src) THEN "list" ELSE "read"])
    /\ UNCHANGED fs

MoveList ==
    /\ MovingAt("list")
    /\ Goes(IF ListDir(move.src) = {} THEN [move EXCEPT !.pc = "put", !.entry = Folder] ELSE None)
    /\ UNCHANGED fs

MoveRead ==
    /\ MovingAt("read")
    /\ Goes([move EXCEPT !.pc = "put", !.entry = fs[move.src]])
    /\ UNCHANGED fs

\* Mutant: the error of the copy is not looked at.
MovePut_Unchecked ==
    LET ok == IF move.entry = Folder THEN CanMake(move.dst) ELSE CanWrite(move.dst)
    IN  /\ MovingAt("put")
        /\ fs' = IF ok THEN Stored(move.dst, move.entry) ELSE fs
        /\ Goes([move EXCEPT !.pc = "remove"])

\* make_dir or write_file of the copy.
MovePut ==
    LET ok == IF move.entry = Folder THEN CanMake(move.dst) ELSE CanWrite(move.dst)
    IN  /\ MovingAt("put")
        /\ fs' = IF ok THEN Stored(move.dst, move.entry) ELSE fs
        /\ Goes(IF ok THEN [move EXCEPT !.pc = "remove"] ELSE None)

MoveRemove ==
    LET left == IF CanRemove(move.src) THEN Stored(move.src, Nothing) ELSE fs
    IN  /\ MovingAt("remove")
        /\ fs' = left
        /\ ex' = IF CanRemove(move.src) THEN Refresh(ex, left) ELSE ex
        /\ move' = None
        /\ UNCHANGED <<drag, fds, proc, ops>>

(***************************************************************************)
(* write, mkdir, rm and mv typed at a terminal, or Save in the Notepad     *)
(***************************************************************************)
Shell == Idle /\ Calls /\ UNCHANGED <<ex, drag, move, fds, proc>>

CmdWrite(p, b) ==
    /\ Shell
    /\ CanWrite(p)
    /\ fs' = Stored(p, File(<<b>>))

CmdMkdir(p) ==
    /\ Shell
    /\ CanMake(p)
    /\ fs' = Stored(p, Folder)

CmdRm(p) ==
    /\ Shell
    /\ CanRemove(p)
    /\ fs' = Stored(p, Nothing)

CmdMv(p, n) ==
    /\ Shell
    /\ CanRename(p, n)
    /\ fs' = Renamed(p, n)

(***************************************************************************)
(* Open files                                                              *)
(***************************************************************************)
Running == proc = "run"
FdsOnly == Calls /\ UNCHANGED <<fs, ex, drag, move, proc>>
FreeFd == Min({f \in Fds : fds[f] = None})

\* The flags of open: may it write, create, truncate; does it append.
Modes == {[write |-> FALSE, creat |-> FALSE, trunc |-> FALSE, append |-> FALSE],
          [write |-> TRUE, creat |-> TRUE, trunc |-> FALSE, append |-> FALSE],
          [write |-> TRUE, creat |-> TRUE, trunc |-> TRUE, append |-> FALSE],
          [write |-> TRUE, creat |-> FALSE, trunc |-> FALSE, append |-> TRUE]}

\* Nothing is created or truncated on the disk by opening.  base and puts
\* record what the handle began with and what was written where.
Handle(p, data, cursor, write, dir) ==
    [path |-> p, data |-> data, cursor |-> cursor, dirty |-> FALSE, writable |-> write, dir |-> dir,
     base |-> data, puts |-> <<>>]

SysOpen(p, mode) ==
    LET data == IF Exists(p) /\ ~mode.trunc THEN fs[p].data ELSE <<>>
    IN  /\ Running
        /\ \E f \in Fds : fds[f] = None
        /\ Exists(p) \/ (mode.creat /\ IsDir(Front(p)))
        /\ Calls
        /\ fds' = [fds EXCEPT ![FreeFd] =
                     IF IsDir(p) THEN Handle(p, <<>>, 0, FALSE, TRUE)
                     ELSE Handle(p, data, IF mode.append THEN Len(data) ELSE 0, mode.write, FALSE)]
        /\ UNCHANGED <<fs, ex, drag, move, proc>>

\* The slice taken at the cursor is out of range when the cursor is past the
\* end, however few bytes are asked for.
ReadPanics(h, at) == ~h.dir /\ at > Len(h.data)

SysRead(f) ==
    /\ Running
    /\ fds[f] # None
    /\ proc' = IF ReadPanics(fds[f], fds[f].cursor) THEN "panic" ELSE proc
    /\ fds' = [fds EXCEPT ![f].cursor = IF ~fds[f].dir /\ @ < Len(fds[f].data) THEN @ + 1 ELSE @]
    /\ Calls
    /\ UNCHANGED <<fs, ex, drag, move>>

SysPread(f, at) ==
    /\ Running
    /\ fds[f] # None
    /\ proc' = IF ReadPanics(fds[f], at) THEN "panic" ELSE proc
    /\ Calls
    /\ UNCHANGED <<fs, ex, drag, move, fds>>

SysLseek(f, at) ==
    /\ Running
    /\ fds[f] # None
    /\ fds' = [fds EXCEPT ![f].cursor = at]
    /\ FdsOnly

\* Data resized to end at the cursor at least, and the byte put there.
WrittenAt(data, at, b) ==
    [i \in 1..(IF at + 1 > Len(data) THEN at + 1 ELSE Len(data)) |->
        IF i = at + 1 THEN b ELSE IF i <= Len(data) THEN data[i] ELSE Zero]

\* Mutant: the copy is cut behind what is written.
SysWrite_Cuts(f, b) ==
    LET h == fds[f]
    IN  /\ Running
        /\ h # None
        /\ h.writable
        /\ h.cursor < MaxLen
        /\ fds' = [fds EXCEPT ![f] = [h EXCEPT !.data = SubSeq(WrittenAt(h.data, h.cursor, b), 1, h.cursor + 1),
                                               !.cursor = @ + 1, !.dirty = TRUE,
                                               !.puts = (h.cursor + 1 :> b) @@ @]]
        /\ FdsOnly

SysWrite(f, b) ==
    LET h == fds[f]
    IN  /\ Running
        /\ h # None
        /\ h.writable
        /\ h.cursor < MaxLen
        /\ fds' = [fds EXCEPT ![f] = [h EXCEPT !.data = WrittenAt(h.data, h.cursor, b),
                                               !.cursor = @ + 1, !.dirty = TRUE,
                                               !.puts = (h.cursor + 1 :> b) @@ @]]
        /\ FdsOnly

\* flush, and Drop, which ignores its error.
Flush(h) ==
    /\ fs' = IF h.dirty /\ CanWrite(h.path) THEN Stored(h.path, File(h.data)) ELSE fs
    /\ move' = IF move # None /\ h.dirty
               THEN [move EXCEPT !.raced = @ \/ h.path \in {move.src, move.dst}] ELSE move

SysClose(f) ==
    /\ Running
    /\ fds[f] # None
    /\ Flush(fds[f])
    /\ fds' = [fds EXCEPT ![f] = None]
    /\ UNCHANGED <<ex, drag, proc, ops>>

\* The files of a dead process are dropped when it is freed, lowest first.
Exit ==
    /\ Running
    /\ \E f \in Fds : fds[f] # None
    /\ proc' = "exited"
    /\ UNCHANGED <<fs, ex, drag, move, fds, ops>>

DropFiles ==
    /\ proc = "exited"
    /\ LET f == Min({g \in Fds : fds[g] # None})
       IN  /\ Flush(fds[f])
           /\ fds' = [fds EXCEPT ![f] = None]
           /\ proc' = IF \A g \in Fds \ {f} : fds[g] = None THEN "run" ELSE proc
    /\ UNCHANGED <<ex, drag, ops>>

Next ==
    \/ \E d \in {-1, 1, -GridCols, GridCols} : (ex.view = "grid" \/ d \in {-1, 1}) /\ MoveSelection(d)
    \/ OpenSelected
    \/ \E p \in {Home} \cup {<<n>> : n \in ListDir(Home)} : IsDir(p) /\ GoTo(p)
    \/ Reload
    \/ ToggleView
    \/ \E key \in {"name", "size"} : ToggleSort(key)
    \/ \E down \in BOOLEAN : ScrollClick(down)
    \/ \E row \in 0..(VisibleItems(ex) - 1) : ClickItem(row)
    \/ \E inTime \in BOOLEAN : DeleteSelected(inTime)
    \/ CreateFolder
    \/ CreateFile
    \/ StartRename
    \/ CancelRename
    \/ \E n \in Typed : CommitRename(n)
    \/ Release
    \/ BeginDrag
    \/ \E target \in Paths \cup {Home} : Drop(target)
    \/ DropNowhere
    \/ MoveLook
    \/ MoveList
    \/ MoveRead
    \/ MovePut
    \/ MoveRemove
    \/ \E p \in Named, b \in Bytes : CmdWrite(p, b)
    \/ \E p \in Named : CmdMkdir(p)
    \/ \E p \in Named : CmdRm(p)
    \/ \E p \in Named, n \in Names : CmdMv(p, n)
    \/ \E p \in Named, mode \in Modes : SysOpen(p, mode)
    \/ \E f \in Fds : SysRead(f)
    \/ \E f \in Fds, at \in 0..MaxLen : SysPread(f, at)
    \/ \E f \in Fds, at \in 0..MaxLen : SysLseek(f, at)
    \/ \E f \in Fds, b \in Bytes : SysWrite(f, b)
    \/ \E f \in Fds : SysClose(f)
    \/ Exit
    \/ DropFiles

Spec == Init /\ [][Next]_vars

(***************************************************************************)
(* Properties                                                              *)
(***************************************************************************)
\* What the explorer deletes or renames is what its prompt named, unless the
\* list has changed since the prompt; and the new file it makes replaces none
\* that the list shows, unless every name it tries is shown (delete_selected,
\* commit_rename, create_file).
ActsAsShown ==
    [][ex' # ex /\ move = None =>
        LET prompt == IF ex.rename # None THEN ex.rename ELSE ex.pending
            gone(p) == fs[p] # Nothing /\ fs'[p] = Nothing
            replaced(p) == fs[p] # Nothing /\ fs'[p] # Nothing /\ fs'[p] # fs[p]
        IN  /\ \A p \in Paths : gone(p) =>
                    /\ prompt # None
                    /\ ex.entries # prompt.list \/ Below(Append(ex.path, prompt.name), p)
            /\ \A p \in Paths : replaced(p) /\ Front(p) = ex.path =>
                    Last(p) \notin Shown(ex) \/ Range(NewFiles) \subseteq Shown(ex)]_vars

\* Moving a file or folder loses nothing at any of its steps: what was read
\* of the source is at the source or at the destination, unless a process has
\* written to either meanwhile (move_file).
MoveKeepsData ==
    [][move # None /\ move.pc \in {"put", "remove"} /\ ~move.raced =>
        \/ fs'[move.src] = move.entry
        \/ fs'[move.dst] = move.entry
        \/ (move' # None /\ move'.raced)]_vars

\* The bytes a handle should hold: what was written through it over what it
\* found, zeros in the gaps.
Replay(h) ==
    [i \in 1..Max(DOMAIN h.puts \cup {Len(h.base)}) |->
        IF i \in DOMAIN h.puts THEN h.puts[i] ELSE IF i <= Len(h.base) THEN h.base[i] ELSE Zero]

\* Closing a file, or dying with it open, replaces the file by what was found
\* when it was opened overlaid by what was written, and changes nothing when
\* nothing was written (FileHandle::write, flush, drop).
WriteBack ==
    [][\A f \in Fds : fds[f] # None /\ fds'[f] = None =>
        fs' = IF fds[f].puts # <<>> /\ CanWrite(fds[f].path)
              THEN Stored(fds[f].path, File(Replay(fds[f]))) ELSE fs]_vars

=============================================================================
