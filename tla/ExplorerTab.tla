----------------------------- MODULE ExplorerTab -----------------------------
(***************************************************************************)
(* The Explorer tab of one checkout, of tui/state/explorer_tab.rs,         *)
(* tui/explorer.rs, tui/tabs.rs and tui/effect.rs: a lazy file tree beside *)
(* inner file tabs.                                                        *)
(*                                                                         *)
(* Folder listings and file bodies are read by workers while the loop goes *)
(* on; a status of the checkout lists stale folders again and reloads the  *)
(* file in sight when its stamp moved.  `ex` is what the event thread      *)
(* holds; a method is an operator from one `ex` to the next, an action is  *)
(* one handler.                                                            *)
(*                                                                         *)
(* Left out: what is ignored by git, parked scroll and searches, the line  *)
(* of a search hit; other tabs, which are a strip position that is not     *)
(* this tab's.  A move of the tree cursor goes to any row.                 *)
(***************************************************************************)
EXTENDS Naturals, SequencesExt, FiniteSetsExt, Queues

CONSTANTS Root, Dirs,   \* folders, with the root of the checkout
          Files,
          Parent,       \* folder of every other node
          InOrder,      \* all nodes but the root, as a fully open tree paints them
          Disk,         \* versions of the checkout: per file, its token and change
          Workers,      \* bound: workers of the local lane
          MaxInput      \* bound: keys, edits on disk, and workers that fail

Nodes == (Dirs \ {Root}) \union Files

\* A token 0 is a file that is gone; the change is the letter of its status.
Letters == {"clean", "M", "D", "?"}

ASSUME ExplorerAssumption ==
    /\ Root \in Dirs /\ Dirs \intersect Files = {}
    /\ Parent \in [Nodes -> Dirs]
    /\ InOrder \in Seq(Nodes) /\ ToSet(InOrder) = Nodes
    /\ \A i \in DOMAIN InOrder :   \* a folder is painted above what is in it
         Parent[InOrder[i]] = Root \/ \E k \in 1..(i - 1) : InOrder[k] = Parent[InOrder[i]]
    /\ Disk \in Seq([Files -> Nat \X Letters]) /\ Len(Disk) > 0
    /\ Workers \in Nat \ {0} /\ MaxInput \in Nat

VARIABLES version,    \* of the checkout on disk
          ex,         \* the tab, the snapshot and the queued jobs
          loads,      \* jobs on workers
          inputs      \* keys, edits and failures so far

explorerVars == <<version, ex, loads, inputs>>

NoCursor == Root    \* the cursor before the first move
NoReq    == 0

\* ancestors: the folders of a node, the root first.
Ancestors[n \in Nodes \union {Root}] ==
    IF n = Root THEN <<>> ELSE Append(Ancestors[Parent[n]], Parent[n])

Token(v, f)  == Disk[v][f][1]
Change(v, f) == Disk[v][f][2]

\* list_dir of a folder that is there.
OnDisk(v, n) == \E f \in Files : Token(v, f) # 0 /\ (n = f \/ n \in ToSet(Ancestors[f]))
ListDir(v, d) == {n \in Nodes : Parent[n] = d /\ OnDisk(v, n)}

\* ExplorerTab::new of a tab with this id, with no listing and no file.
NewExplorer(id, snapshot, dirJobs, fileJobs) ==
    [id |-> id, open |-> TRUE, active |-> TRUE, overlay |-> FALSE,
     expanded |-> {Root}, asked |-> {}, listed |-> {}, names |-> [d \in Dirs |-> {}],
     newest |-> [d \in Dirs |-> NoReq], req |-> 0, relisted |-> {}, cursor |-> NoCursor,
     unread |-> FALSE, files |-> <<>>, file |-> 0, gen |-> 0,
     snapshot |-> snapshot, dirJobs |-> dirJobs, fileJobs |-> fileJobs]

-----------------------------------------------------------------------------
(* The tree. *)

\* ExplorerTree::walk: listed names, and deleted files, under open folders.
IsRow(s, n) ==
    /\ Parent[n] \in s.listed
    /\ \/ n \in s.names[Parent[n]]
       \/ n \in Files /\ Change(s.snapshot, n) = "D"
    /\ \A a \in ToSet(Ancestors[n]) \ {Root} :
         a \in s.expanded /\ Parent[a] \in s.listed /\ a \in s.names[Parent[a]]

Painted(s) == Retain(InOrder, {n \in Nodes : IsRow(s, n)})

\* cursor_index: the nearest ancestor in sight stands in, else the first row;
\* the root is no row.
CursorRow(s) ==
    LET near == Retain(Append(Ancestors[s.cursor], s.cursor), {n \in Nodes : IsRow(s, n)})
    IN IF near # <<>> THEN Last(near) ELSE IF Painted(s) # <<>> THEN Head(Painted(s)) ELSE Root

\* explorer_resolved_cursor_row is not none.
Resolved(s) == CursorRow(s) # Root /\ s.cursor \in {NoCursor, CursorRow(s)}

\* explorer_dir_loads.
LoadDirs(s, dirs) ==
    LET asks(d) == {i \in DOMAIN dirs : dirs[i] = d}
    IN [s EXCEPT !.req = @ + Len(dirs),
                 !.newest = [d \in Dirs |-> IF asks(d) = {} THEN @[d] ELSE s.req + Max(asks(d))],
                 !.dirJobs = @ \o [i \in DOMAIN dirs |-> [id |-> s.id, req |-> s.req + i, dir |-> dirs[i]]]]

\* ExplorerTree::expand of folders, root first: what must be listed.
Missing(s, dirs) == Retain(dirs, Dirs \ (s.asked \union s.listed))
Expand(s, dirs) ==
    [s EXCEPT !.expanded = @ \union ToSet(dirs), !.asked = @ \union ToSet(Missing(s, dirs))]

\* ExplorerTree::collapse: a cursor inside moves to the folder.
Collapse(s, d) ==
    [s EXCEPT !.expanded = @ \ {d}, !.cursor = IF d \in ToSet(Ancestors[@]) THEN d ELSE @]

\* ExplorerTree::reveal.
PathTo(n) == IF n \in Dirs THEN Append(Ancestors[n], n) ELSE Ancestors[n]
Reveal(s, n) == [Expand(s, PathTo(n)) EXCEPT !.cursor = IF n = Root THEN @ ELSE n]

\* stale_on_path.
StaleOn(s, n) ==
    LET stale == Retain(Append(Ancestors[n], n),
                        {m \in Nodes : Parent[m] \in s.listed /\ m \notin s.names[Parent[m]]})
    IN [i \in DOMAIN stale |-> Parent[stale[i]]]

\* is_open_and_visible.
InSight(s, d) == d \in s.expanded /\ ToSet(Ancestors[d]) \subseteq s.expanded

-----------------------------------------------------------------------------
(* Inner file tabs. *)

\* explorer_stamp: one stat, and the change the snapshot has.
FileStamp(s, f) == <<Token(version, f), Change(s.snapshot, f)>>

KindOf(s, f) == IF Change(s.snapshot, f) = "clean" THEN "file" ELSE "diff"

ActiveGen(s) == IF s.file = 0 THEN 0 ELSE s.files[s.file].gen

Awaited(s, j) == s.open /\ j.id = s.id /\ \E i \in DOMAIN s.files : s.files[i].gen = j.gen

\* Effect::LoadExplorerPreview: queued loads nobody waits for are dropped,
\* and one of the same file is replaced.
LoadFile(s, f, gen) ==
    LET job  == [id |-> s.id, gen |-> gen, file |-> f, kind |-> KindOf(s, f)]
        kept == Retain(s.fileJobs, {j \in ToSet(s.fileJobs) : Awaited(s, j)})
        same == {i \in DOMAIN kept : kept[i].id = s.id /\ kept[i].file = f}
    IN [s EXCEPT !.fileJobs = IF same = {} THEN Append(kept, job)
                              ELSE [kept EXCEPT ![CHOOSE i \in same : TRUE] = job]]

Nothing == <<0, "clean">>

\* What a worker reads: a body is only what is on disk.
BodyOf(kind, v, f) == IF kind = "file" THEN <<Token(v, f), "clean">> ELSE Disk[v][f]

\* A loading view of file f: the diff of a changed file, else its body.
Loading(s, f, pin, gen) ==
    [of |-> f, pinned |-> pin, kind |-> KindOf(s, f), gen |-> gen, loaded |-> FALSE,
     shown |-> Nothing, missed |-> FALSE, stamp |-> FileStamp(s, f)]

\* Mutant: what a status brings while the file is still loading is lost.
LiveReload_Loaded(s) ==
    IF s.overlay \/ ~s.active \/ s.file = 0 THEN s
    ELSE LET i == s.file
             f == s.files[i].of
             t == [s EXCEPT !.files[i].stamp = FileStamp(s, f)]
         IN IF s.files[i].stamp = FileStamp(s, f) THEN s
            ELSE IF Token(version, f) = 0 \/ ~s.files[i].loaded THEN t
            ELSE LoadFile([t EXCEPT !.gen = @ + 1,
                                    !.files[i] = IF KindOf(s, f) = @.kind
                                                 THEN [@ EXCEPT !.gen = s.gen + 1, !.missed = FALSE]
                                                 ELSE Loading(s, f, @.pinned, s.gen + 1)], f, s.gen + 1)

\* explorer_live_reload: a view of the same kind keeps what it shows until
\* the load lands; a deleted file is only reported.
LiveReload(s) ==
    IF s.overlay \/ ~s.active \/ s.file = 0 THEN s
    ELSE LET i == s.file
             f == s.files[i].of
             t == [s EXCEPT !.files[i].stamp = FileStamp(s, f)]
         IN IF s.files[i].stamp = FileStamp(s, f) THEN s
            ELSE IF Token(version, f) = 0 THEN t
            ELSE LoadFile([t EXCEPT !.gen = @ + 1,
                                    !.files[i] = IF KindOf(s, f) = @.kind
                                                 THEN [@ EXCEPT !.gen = s.gen + 1, !.missed = FALSE]
                                                 ELSE Loading(s, f, @.pinned, s.gen + 1)], f, s.gen + 1)

\* explorer_check_shown, when another inner tab shows than `before`.
CheckShown(s, before) == IF ActiveGen(s) \in {0, before} THEN s ELSE LiveReload(s)

\* explorer_show_file: an inner tab of the file is shown; else a new one
\* takes the place of the preview, or stands right after the active one.
ShowFile(s, f, pin) ==
    LET known   == {i \in DOMAIN s.files : s.files[i].of = f}
        preview == {i \in DOMAIN s.files : ~s.files[i].pinned}
        inner   == Loading(s, f, pin, s.gen + 1)
        here    == CHOOSE i \in known : TRUE
        place   == CHOOSE i \in preview : TRUE
        new(i, files) == LoadFile([s EXCEPT !.gen = @ + 1, !.files = files, !.file = i], f, s.gen + 1)
    IN IF known # {}
       THEN CheckShown([s EXCEPT !.file = here, !.files[here].pinned = pin \/ @], ActiveGen(s))
       ELSE IF preview # {} /\ ~pin THEN new(place, [s.files EXCEPT ![place] = inner])
       ELSE new(s.file + 1, InsertAt(s.files, s.file + 1, inner))

\* explorer_sync_preview: a row that stands in for the cursor previews nothing.
SyncPreview(s) ==
    IF Resolved(s) /\ CursorRow(s) \in Files THEN ShowFile(s, CursorRow(s), FALSE) ELSE s

\* explorer_reveal_and_check.
RevealAndCheck(s, before) ==
    IF s.file = 0 THEN s
    ELSE LET f == s.files[s.file].of
         IN CheckShown(LoadDirs(Reveal(s, f), Missing(s, PathTo(f))), before)

-----------------------------------------------------------------------------
(* Keys. *)

Key(on) == inputs < MaxInput /\ ~ex.overlay /\ on /\ inputs' = inputs + 1 /\ UNCHANGED <<version, loads>>
InTab == Key(ex.open /\ ex.active)

\* explorer_open_and_reveal.
OpenAndReveal(s, target) ==
    LET t     == IF s.open THEN [s EXCEPT !.active = TRUE]
                 ELSE NewExplorer(s.id + 1, s.snapshot, s.dirJobs, s.fileJobs)
        root  == Missing(t, <<Root>>)
        u     == Expand(t, <<Root>>)
        stale == StaleOn(u, target)
        dirs  == root \o Missing(u, PathTo(target))
    IN LoadDirs(Reveal(u, target), dirs \o Retain(stale, Dirs \ ToSet(dirs)))

\* open_explorer_tab, from a row of the Workspace tree.
OpenExplorer(target) ==
    /\ Key(~ex.active)
    /\ target = Root \/ \E f \in Files : /\ Change(ex.snapshot, f) # "clean"
                                         /\ target \in ToSet(Append(Ancestors[f], f))
    /\ LET s == OpenAndReveal(ex, target)
           t == SyncPreview(s)
       IN ex' = IF t.fileJobs = s.fileJobs THEN LiveReload(t) ELSE t

\* open_file_in_explorer, from Quick Open or the search in files.
OpenFile(f) ==
    Key(TRUE) /\ ex' = ShowFile(OpenAndReveal(ex, f), f, TRUE)

\* explorer_move and explorer_click_row: any row takes the cursor.
MoveCursor(n) ==
    /\ InTab /\ IsRow(ex, n)
    /\ ex' = SyncPreview([ex EXCEPT !.cursor = n])

\* explorer_fold_dir: `z`, Enter or a click on a folder; `l` opens only.
FoldDir(d) ==
    /\ InTab /\ d # Root /\ IsRow(ex, d)
    /\ LET s == [ex EXCEPT !.cursor = d]
       IN ex' = IF d \in s.expanded THEN Collapse(s, d)
                ELSE LoadDirs(Expand(s, <<d>>), Missing(s, <<d>>))

\* explorer_to_parent: a row at the root stays.
ToParent(s, row) ==
    IF Parent[row] = Root THEN [s EXCEPT !.cursor = row] ELSE SyncPreview([s EXCEPT !.cursor = Parent[row]])

\* `h`, explorer_close_or_parent, and `-`.
CloseOrParent ==
    /\ InTab /\ CursorRow(ex) # Root
    /\ LET row == CursorRow(ex)
       IN \/ ex' = IF row \in ex.expanded THEN Collapse(ex, row) ELSE ToParent(ex, row)
          \/ ex' = ToParent(ex, row)

\* explorer_enter on a file pins its inner tab.
EnterFile ==
    /\ InTab /\ CursorRow(ex) \in Files
    /\ ex' = ShowFile(ex, CursorRow(ex), TRUE)

\* explorer_cycle_inner: `]`, which also reaches what `[` does.
CycleInner ==
    /\ InTab /\ Len(ex.files) > 1
    /\ ex' = RevealAndCheck([ex EXCEPT !.file = IF @ = Len(ex.files) THEN 1 ELSE @ + 1], ActiveGen(ex))

\* explorer_close_inner.
CloseInner ==
    /\ InTab /\ ex.file # 0
    /\ LET files == RemoveAt(ex.files, ex.file)
           next  == IF files = <<>> THEN 0 ELSE IF ex.file = 1 THEN 1 ELSE ex.file - 1
       IN ex' = RevealAndCheck([ex EXCEPT !.files = files, !.file = next], ActiveGen(ex))

\* close_tab_at: Ctrl-w with no inner tab, or a click on the strip.
CloseExplorer == Key(ex.open) /\ ex' = [ex EXCEPT !.open = FALSE, !.active = FALSE]

\* refresh_explorer: invalidate, then explorer_reload_active.
Refresh ==
    /\ InTab
    /\ LET s    == [ex EXCEPT !.listed = @ \intersect ex.expanded]
           dirs == Retain(<<Root>> \o InOrder, {d \in s.listed : InSight(s, d)})
           t    == LoadDirs(s, dirs)
           f    == t.files[t.file].of
       IN ex' = IF t.file = 0 THEN t
                ELSE LoadFile([t EXCEPT !.gen = @ + 1, !.files[t.file] = Loading(t, f, @.pinned, t.gen + 1)],
                              f, t.gen + 1)

\* reload_explorer_after_edit, when the editor returns from the file in sight.
EditorReturns == InTab /\ ex.file # 0 /\ ex' = LiveReload(ex)

\* activate_tab: this tab, or another one.
SwitchTab ==
    Key(ex.open) /\ ex' = IF ex.active THEN [ex EXCEPT !.active = FALSE]
                          ELSE LiveReload([ex EXCEPT !.active = TRUE])

\* An overlay that holds input opens or closes, over any tab.
ToggleOverlay ==
    /\ inputs < MaxInput /\ inputs' = inputs + 1
    /\ ex' = [ex EXCEPT !.overlay = ~@]
    /\ UNCHANGED <<version, loads>>

-----------------------------------------------------------------------------
(* The checkout and its status. *)

FilesChange ==
    /\ inputs < MaxInput /\ inputs' = inputs + 1
    /\ version < Len(Disk) /\ version' = version + 1
    /\ UNCHANGED <<ex, loads>>

\* What a status reports, but for deleted files.
Reports(v, f) == Change(v, f) \in {"M", "?"}

\* The orders in which a hash set of paths can be read.
HashOrders == {q \in [DOMAIN InOrder -> Nodes] : ToSet(q) = Nodes}

\* explorer_status_relist: open folders whose listing lacks a reported path.
AskFor(s, t, f) ==
    LET dirs == Retain(StaleOn(s, f), {d \in Dirs : /\ InSight(s, d) /\ s.newest[d] = NoReq
                                                     /\ d \notin ToSet(t.dirs)})
    IN IF f \in t.marked \/ dirs = <<>> THEN t
       ELSE [dirs |-> t.dirs \o dirs, marked |-> t.marked \union {f}]

StatusRelist(s, order) ==
    LET reported == Retain(order, {f \in Files : Reports(s.snapshot, f)})
        all      == FoldLeft(LAMBDA t, f : AskFor(s, t, f),
                             [dirs |-> <<>>, marked |-> s.relisted \intersect ToSet(reported)], reported)
    IN IF ~s.open THEN s ELSE LoadDirs([s EXCEPT !.relisted = all.marked], all.dirs)

\* An accepted RepoStatus: what it read is never older than the snapshot.
StatusArrives(v) ==
    /\ v \in ex.snapshot..version
    /\ \E order \in HashOrders : ex' = StatusRelist(LiveReload([ex EXCEPT !.snapshot = v]), order)
    /\ UNCHANGED <<version, loads, inputs>>

-----------------------------------------------------------------------------
(* Workers.  A worker reads the disk at some time while it runs. *)

\* spawn_user of the QuickOpen tag: listings first.
SpawnLoad ==
    /\ Len(loads) < Workers
    /\ \/ /\ ex.dirJobs # <<>>
          /\ loads' = Append(loads, [job |-> "dir", of |-> Head(ex.dirJobs), since |-> version])
          /\ ex' = [ex EXCEPT !.dirJobs = Tail(@)]
       \/ /\ ex.dirJobs = <<>> /\ ex.fileJobs # <<>>
          /\ loads' = Append(loads, [job |-> "file", of |-> Head(ex.fileJobs), since |-> version])
          /\ ex' = [ex EXCEPT !.fileJobs = Tail(@)]
    /\ UNCHANGED <<version, inputs>>

LoadEnds(i, job, ok) ==
    /\ i \in DOMAIN loads /\ loads[i].job = job
    /\ loads' = RemoveAt(loads, i)
    /\ ok \/ inputs < MaxInput
    /\ inputs' = IF ok THEN inputs ELSE inputs + 1
    /\ UNCHANGED version

\* apply_explorer_dir: a listing that lets the cursor row resolve previews
\* it; a folder that cannot be read is empty.
ApplyDir(s, j, names, ok) ==
    IF ~s.open \/ j.id # s.id \/ s.newest[j.dir] # j.req THEN s
    ELSE LET t == [s EXCEPT !.newest[j.dir] = NoReq, !.asked = @ \ {j.dir},
                            !.listed = @ \union {j.dir}, !.names[j.dir] = names, !.unread = @ \/ ~ok]
         IN IF Resolved(s) THEN t ELSE SyncPreview(t)

LandDir(i, ok) ==
    /\ LoadEnds(i, "dir", ok)
    /\ \E v \in loads[i].since..version :
         LET j    == loads[i].of
             read == ok /\ (j.dir = Root \/ OnDisk(v, j.dir))
         IN ex' = ApplyDir(ex, j, IF read THEN ListDir(v, j.dir) ELSE {}, read)

\* Mutant: a body that cannot be read is always dropped.
ApplyFile_Dropped(s, j, body) ==
    IF ~Awaited(s, j) THEN s
    ELSE LET i == CHOOSE k \in DOMAIN s.files : s.files[k].gen = j.gen
             failed == body[1] = 0 /\ j.kind = "file"
         IN [s EXCEPT !.files[i] =
               IF failed THEN [@ EXCEPT !.missed = TRUE]
               ELSE [@ EXCEPT !.loaded = TRUE, !.shown = body, !.missed = (body = Nothing)]]

\* apply_explorer_preview: a body that cannot be read does not replace one.
ApplyFile(s, j, body) ==
    IF ~Awaited(s, j) THEN s
    ELSE LET i == CHOOSE k \in DOMAIN s.files : s.files[k].gen = j.gen
             failed == body[1] = 0 /\ j.kind = "file"
         IN [s EXCEPT !.files[i] =
               IF failed /\ @.loaded THEN [@ EXCEPT !.missed = TRUE]
               ELSE [@ EXCEPT !.loaded = TRUE, !.shown = body, !.missed = (failed \/ body = Nothing)]]

LandFile(i, ok) ==
    /\ LoadEnds(i, "file", ok)
    /\ \E v \in loads[i].since..version :
         LET j == loads[i].of
         IN ex' = ApplyFile(ex, j, IF ok THEN BodyOf(j.kind, v, j.file) ELSE Nothing)

-----------------------------------------------------------------------------

ExplorerInit ==
    /\ version = 1
    /\ ex = [NewExplorer(0, 1, <<>>, <<>>) EXCEPT !.open = FALSE, !.active = FALSE]
    /\ loads = <<>> /\ inputs = 0

ExplorerNext ==
    \/ \E n \in Nodes \union {Root} : OpenExplorer(n)
    \/ \E f \in Files : OpenFile(f)
    \/ \E n \in Nodes : MoveCursor(n)
    \/ \E d \in Dirs : FoldDir(d)
    \/ CloseOrParent
    \/ EnterFile
    \/ CycleInner
    \/ CloseInner
    \/ CloseExplorer
    \/ Refresh
    \/ EditorReturns
    \/ SwitchTab
    \/ ToggleOverlay
    \/ FilesChange
    \/ \E v \in DOMAIN Disk : StatusArrives(v)
    \/ SpawnLoad
    \/ \E i \in DOMAIN loads, ok \in BOOLEAN : LandDir(i, ok)
    \/ \E i \in DOMAIN loads, ok \in BOOLEAN : LandFile(i, ok)

ExplorerSpec == ExplorerInit /\ [][ExplorerNext]_explorerVars

-----------------------------------------------------------------------------
(* Properties *)

Outstanding(job, queue) == ToSet(queue) \union {l.of : l \in {k \in ToSet(loads) : k.job = job}}

\* What waits is coming: a folder that paints "loading" has its newest
\* listing outstanding, and an inner tab that has nothing to show the load of
\* its own generation.  There is one inner tab per file and one preview.
ExplorerSettled ==
    ex.open =>
      /\ \A d \in ex.asked : \E j \in Outstanding("dir", ex.dirJobs) :
            j.id = ex.id /\ j.dir = d /\ j.req = ex.newest[d]
      /\ \A i \in DOMAIN ex.files : ~ex.files[i].loaded =>
            \E j \in Outstanding("file", ex.fileJobs) :
               j.id = ex.id /\ j.gen = ex.files[i].gen /\ j.kind = ex.files[i].kind
      /\ \A i, k \in DOMAIN ex.files : i # k =>
            /\ ex.files[i].of # ex.files[k].of /\ ex.files[i].gen # ex.files[k].gen
            /\ ex.files[i].pinned \/ ex.files[k].pinned
      /\ ex.file \in (IF ex.files = <<>> THEN {0} ELSE DOMAIN ex.files)

\* Nothing is left to do: no load, and no news for the next status to bring.
\* Only keys, edits and failures lead on from here, and the rest cannot go on
\* for ever, so without them the tab comes to such a state.
Quiet ==
    /\ ex.dirJobs = <<>> /\ ex.fileJobs = <<>> /\ loads = <<>>
    /\ ex.snapshot = version /\ StatusRelist(LiveReload(ex), InOrder) = ex

\* A stamp like the one that file f has now may be of an earlier time, and the
\* file was something else between the two.
CameBack(kind, f) ==
    \E v \in 1..version :
       /\ BodyOf(kind, v, f) # BodyOf(kind, version, f)
       /\ \E w \in 1..v : /\ Token(w, f) = Token(version, f)
                         /\ \E u \in 1..w : Change(u, f) = Change(version, f)

\* The file in sight catches up with every edit, whatever loads, tab switches
\* and statuses cross it: once it is quiet it is shown as it is on disk, as a
\* diff while it is changed, unless it is gone or its last load failed.  A
\* stamp cannot tell a file that is back to what it was.
FileCatchesUp ==
    LET t == ex.files[ex.file]
    IN Quiet /\ ex.active /\ ~ex.overlay /\ ex.file # 0 =>
         \/ Token(version, t.of) = 0 \/ t.missed \/ CameBack(t.kind, t.of)
         \/ t.loaded /\ t.kind = KindOf(ex, t.of) /\ t.shown = BodyOf(t.kind, version, t.of)

\* The nodes on the way to a file, and the file.
Steps(f) == ({f} \union ToSet(Ancestors[f])) \ {Root}

\* The file is there since a status could first report it.
Steady(f) == \A u \in 1..version : Reports(u, f) => \A w \in u..version : Token(w, f) # 0

\* A path that the status reports comes into the listing of every open folder
\* on the way, unless a folder could not be read.  A path sends one re-list
\* while it stays in the status: that brings it into the folder it was for.
FoldersCatchUp ==
    Quiet /\ ex.open /\ ~ex.unread =>
      \A f \in {g \in Files : Reports(version, g)} :
         IF f \in ex.relisted
         THEN Steady(f) => \E n \in Steps(f) : n \in ex.names[Parent[n]]
         ELSE \A n \in Steps(f) :
                 Parent[n] \in ex.listed /\ InSight(ex, Parent[n]) => n \in ex.names[Parent[n]]

ExplorerCatchesUp == FileCatchesUp /\ FoldersCatchUp
=============================================================================
