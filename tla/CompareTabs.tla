---------------------------- MODULE CompareTabs ----------------------------
(***************************************************************************)
(* The compare tabs of one checkout, of tui/tabs.rs, tui/state/mod.rs,     *)
(* tui/effect.rs and tui/app.rs: a live tab (base...HEAD) and a            *)
(* working-tree tab (a commit against one file on disk).                   *)
(*                                                                         *)
(* A tab loads its file list, then the diff of the file in focus, on       *)
(* workers that read git while the loop goes on.  A watch tick probes the  *)
(* HEAD of live tabs; a status of the checkout lets the active             *)
(* working-tree tab reload.  `ui` is what the event thread holds; a method *)
(* is an operator from one `ui` to the next, an action is one handler.     *)
(*                                                                         *)
(* Left out: tabs of other kinds and of other checkouts, which share       *)
(* nothing with these but the strip; a pinned tab, which is a live tab     *)
(* whose HEAD never moves; a base tip that moves, which is to a tab what a *)
(* moving HEAD is; parked cursors, searches and folds.                     *)
(***************************************************************************)
EXTENDS Naturals, SequencesExt

CONSTANTS Heads,        \* the HEAD of each version of the checkout, 1, 2, ...
          Texts,        \* the watched file in each version; 0 is as at the base
          RowsAt,       \* per HEAD: the rows of base...HEAD
          Folder,       \* a row that is a folder
          Watched,      \* the row of the watched file
          NoPath,
          LocalCap,     \* bound: workers of the local lane
          MaxProbes,    \* bound: probes queued or running
          MaxTabEvents  \* bound: keys pressed, and workers that fail or panic

ASSUME CompareTabsAssumption ==
    /\ Heads \in Seq(Nat \ {0}) /\ Texts \in Seq(Nat)
    /\ Len(Heads) = Len(Texts) /\ Len(Heads) > 0
    /\ \A v \in DOMAIN Heads : NoPath \notin RowsAt[Heads[v]]
    /\ Folder # NoPath /\ Watched \notin {Folder, NoPath}
    /\ LocalCap \in Nat \ {0} /\ MaxProbes \in Nat \ {0}
    /\ MaxTabEvents \in Nat

VARIABLES disk,         \* the version of the checkout
          ui,           \* tabs, strip, snapshot and queued jobs
          working,      \* jobs on workers, oldest first
          tabEvents     \* keys and failures so far

tabVars == <<disk, ui, working, tabEvents>>


\* The source of a working-tree tab is its base commit; 0 is none.
BaseCommit == 1

\* DiffContent::default: no content.
NoContent == [source |-> 0, path |-> NoPath, text |-> 0]

\* CompareTab::new.  `seen` is last_head, which only probes read.
NewTab(kind, stamp) ==
    [kind |-> kind, gen |-> 0, req |-> 0, loading |-> TRUE, error |-> FALSE, source |-> 0,
     seen |-> 0, rows |-> {}, path |-> NoPath, cursor |-> NoPath, shown |-> NoContent, stamp |-> stamp]

\* The active compare tab; 0 in the Workspace tab.
ActiveId(s) == IF s.active = 0 THEN 0 ELSE s.strip[s.active]

OpenTabs(s) == ToSet(s.strip)

-----------------------------------------------------------------------------
(* Jobs. *)

\* Effect::LoadCompareRange, forced as everywhere.
LoadRange(s, id) ==
    LET gen == s.tabs[id].gen + 1
    IN [s EXCEPT !.tabs[id].gen = gen, !.tabs[id].loading = TRUE,
                 !.range = Append(@, [tab |-> id, gen |-> gen])]

\* Effect::LoadCompareDiff.
LoadDiff(s, id, path) ==
    LET t == s.tabs[id]
    IN [s EXCEPT !.tabs[id].req = t.req + 1, !.tabs[id].path = path,
                 !.diff = Append(@, [tab |-> id, gen |-> t.gen, req |-> t.req + 1,
                                     source |-> t.source, path |-> path])]

\* compare_probe_effects: loaded live tabs.
Probed(s) == SelectSeq(s.strip, LAMBDA id : ~s.tabs[id].loading /\ s.tabs[id].kind = "live")

Probe(s) ==
    [s EXCEPT !.probe = @ \o [i \in DOMAIN Probed(s) |->
                                 [tab |-> Probed(s)[i], seen |-> s.tabs[Probed(s)[i]].seen]]]

\* worktree_compare_stamp: HEAD and the file, as the snapshot has them.
Stamp(s) == <<Heads[s.snapshot], Texts[s.snapshot]>>

\* Mutant: the stamp moves although the load that runs does not see the change.
WorktreeReload_Loading(s) ==
    LET id == ActiveId(s)
    IN IF id # 0 /\ s.tabs[id].kind = "worktree" /\ s.tabs[id].stamp # Stamp(s)
       THEN LET t == [s EXCEPT !.tabs[id].stamp = Stamp(s)]
            IN IF s.tabs[id].loading THEN t ELSE LoadRange(t, id)
       ELSE s

\* worktree_compare_reload of the active tab.
WorktreeReload(s) ==
    LET id == ActiveId(s)
    IN IF id # 0 /\ s.tabs[id].kind = "worktree" /\ ~s.tabs[id].loading /\ s.tabs[id].stamp # Stamp(s)
       THEN LoadRange([s EXCEPT !.tabs[id].stamp = Stamp(s)], id)
       ELSE s

-----------------------------------------------------------------------------
(* Keys. *)

TabKey == tabEvents < MaxTabEvents /\ tabEvents' = tabEvents + 1 /\ UNCHANGED <<disk, working>>

\* open_compare_tab_for: focus the tab of this identity, or open it.
OpenTab(kind) ==
    /\ TabKey
    /\ LET same == {i \in DOMAIN ui.strip : ui.tabs[ui.strip[i]].kind = kind}
           id   == Len(ui.tabs) + 1
       IN ui' = IF same # {}
                THEN WorktreeReload([ui EXCEPT !.active = CHOOSE i \in same : TRUE])
                ELSE LoadRange([ui EXCEPT !.strip = Append(@, id), !.active = Len(ui.strip) + 1,
                                          !.tabs = Append(@, NewTab(kind, Stamp(ui)))], id)

\* activate_tab.
ActivateTab(i) ==
    /\ TabKey /\ i # ui.active
    /\ ui' = WorktreeReload([ui EXCEPT !.active = i])

\* close_tab_at: the left neighbour of a closed active tab becomes active.
CloseTab(i) ==
    /\ TabKey
    /\ ui' = [ui EXCEPT !.strip = RemoveAt(@, i), !.active = IF @ >= i THEN @ - 1 ELSE @,
                        !.tabs[ui.strip[i]] = NewTab("closed", <<>>)]

\* maybe_load_focused_commit_diff, when the cursor of the file list moves.
MoveTo(row) ==
    /\ TabKey /\ ui.active # 0
    /\ LET id == ActiveId(ui)
           t  == ui.tabs[id]
           s  == [ui EXCEPT !.tabs[id].cursor = row]
       IN /\ row \in t.rows \ {t.cursor}
          /\ ui' = IF row \in {Folder, t.path} THEN s ELSE LoadDiff(s, id, row)

\* toggle_full_context reloads the open diff.
ToggleContext ==
    /\ TabKey /\ ui.active # 0
    /\ LET t == ui.tabs[ActiveId(ui)]
       IN /\ t.cursor # Folder /\ t.path # NoPath /\ t.source # 0
          /\ ui' = LoadDiff(ui, ActiveId(ui), t.path)

\* refresh_effect.
RefreshTab == TabKey /\ ui.active # 0 /\ ui' = LoadRange(ui, ActiveId(ui))

-----------------------------------------------------------------------------
(* The checkout, the watch tick and the status of the checkout. *)

DiskMoves == disk < Len(Heads) /\ disk' = disk + 1 /\ UNCHANGED <<ui, working, tabEvents>>

Probing == Len(ui.probe) + Len(SelectSeq(working, LAMBDA w : w.job = "probe"))

WatchTick ==
    /\ Probing + Len(Probed(ui)) <= MaxProbes
    /\ ui' = Probe(ui)
    /\ UNCHANGED <<disk, working, tabEvents>>

\* An accepted RepoStatus: what it read is never older than the snapshot.
SnapshotMoves(v) ==
    /\ v \in ui.snapshot..disk
    /\ ui' = WorktreeReload([ui EXCEPT !.snapshot = v])
    /\ UNCHANGED <<disk, working, tabEvents>>

-----------------------------------------------------------------------------
(* Workers.  A worker reads the checkout at some time while it runs. *)

Start(job, of) == working' = Append(working, [job |-> job, of |-> of, since |-> disk])

\* spawn_user of the Pane tag: file lists first, then diffs, then probes.
SpawnPaneJob ==
    /\ Len(working) < LocalCap
    /\ \/ ui.range # <<>> /\ Start("range", Head(ui.range)) /\ ui' = [ui EXCEPT !.range = Tail(@)]
       \/ ui.range = <<>> /\ ui.diff # <<>>
          /\ Start("diff", Head(ui.diff)) /\ ui' = [ui EXCEPT !.diff = Tail(@)]
       \/ ui.range = <<>> /\ ui.diff = <<>> /\ ui.probe # <<>>
          /\ Start("probe", Head(ui.probe)) /\ ui' = [ui EXCEPT !.probe = Tail(@)]
    /\ UNCHANGED <<disk, tabEvents>>

\* The tab is open and has not been reloaded since.
SameLoad(s, j) == j.tab \in OpenTabs(s) /\ s.tabs[j.tab].gen = j.gen

\* Worker i ends, with a result or with a failure.
Ends(i, job, ok) ==
    /\ i \in DOMAIN working /\ working[i].job = job
    /\ working' = RemoveAt(working, i)
    /\ ok \/ tabEvents < MaxTabEvents
    /\ tabEvents' = IF ok THEN tabEvents ELSE tabEvents + 1
    /\ UNCHANGED disk

\* Versions that worker i may have read.
ReadBy(i) == working[i].since..disk

\* Where the cursor of a reloaded list may stand: on the folder or the file
\* that had it, on a row near a file that is gone, or first on a file.
Landing(t, rows) ==
    IF t.cursor = Folder THEN IF Folder \in rows THEN {Folder} ELSE rows
    ELSE IF t.path \in rows THEN {t.path}
    ELSE IF t.path # NoPath THEN rows
    ELSE rows \ {Folder}

SourceAt(t, v) == IF t.kind = "live" THEN Heads[v] ELSE BaseCommit
RowsIn(t, v) ==
    IF t.kind = "live" THEN RowsAt[Heads[v]] ELSE IF Texts[v] = 0 THEN {} ELSE {Watched}

\* apply_compare_range: an error leaves an empty tab.
RangeFailed(s, id) ==
    [s EXCEPT !.tabs[id] = [@ EXCEPT !.loading = FALSE, !.error = TRUE, !.source = 0, !.rows = {},
                                     !.path = NoPath, !.cursor = NoPath, !.shown = NoContent]]

\* apply_compare_range: the cursor's file, if any, is loaded again.
RangeLoaded(s, id, v, row) ==
    LET t == s.tabs[id]
        l == [s EXCEPT !.tabs[id] = [t EXCEPT !.loading = FALSE, !.error = FALSE,
                                              !.source = SourceAt(t, v), !.seen = Heads[v],
                                              !.rows = RowsIn(t, v), !.cursor = row]]
    IN IF row \in {Folder, NoPath}
       THEN [l EXCEPT !.tabs[id].path = NoPath, !.tabs[id].shown = NoContent]
       ELSE LoadDiff(l, id, row)

LandRange(i, ok) ==
    /\ Ends(i, "range", ok)
    /\ LET j == working[i].of
           t == ui.tabs[j.tab]
       IN IF ~SameLoad(ui, j) THEN UNCHANGED ui
          ELSE IF ~ok THEN ui' = RangeFailed(ui, j.tab)
          ELSE \E v \in ReadBy(i) :
                 IF Landing(t, RowsIn(t, v)) = {} THEN ui' = RangeLoaded(ui, j.tab, v, NoPath)
                 ELSE \E row \in Landing(t, RowsIn(t, v)) : ui' = RangeLoaded(ui, j.tab, v, row)

\* Mutant: the diff of a file that is no longer asked for is taken.
Wanted_Any(s, j) == SameLoad(s, j) /\ s.tabs[j.tab].source = j.source

\* The newest request of the tab, for the range it shows.
Wanted(s, j) == SameLoad(s, j) /\ s.tabs[j.tab].source = j.source /\ s.tabs[j.tab].req = j.req

\* apply_compare_diff.
LandDiff(i, ok) ==
    /\ Ends(i, "diff", ok)
    /\ LET j == working[i].of
           text(v) == IF ui.tabs[j.tab].kind = "live" THEN 0 ELSE Texts[v]
       IN IF ~Wanted(ui, j) THEN UNCHANGED ui
          ELSE IF ~ok THEN ui' = [ui EXCEPT !.tabs[j.tab].error = TRUE, !.tabs[j.tab].shown = NoContent]
          ELSE \E v \in ReadBy(i) :
                 ui' = [ui EXCEPT !.tabs[j.tab].path = j.path,
                                  !.tabs[j.tab].shown = [source |-> j.source, path |-> j.path, text |-> text(v)]]

\* probe_compare_range: only a tab that has loaded once has a HEAD to compare.
ProbeMoved(j, v) == j.seen # 0 /\ Heads[v] # j.seen

\* apply_compare_probe.
LandProbe(i, ok) ==
    /\ Ends(i, "probe", ok)
    /\ LET j == working[i].of
       IN IF j.tab \notin OpenTabs(ui) THEN UNCHANGED ui
          ELSE IF ~ok THEN ui' = [ui EXCEPT !.tabs[j.tab].error = TRUE]
          ELSE \E v \in ReadBy(i) : ui' = IF ProbeMoved(j, v) THEN LoadRange(ui, j.tab) ELSE ui

-----------------------------------------------------------------------------

TabsInit ==
    /\ disk = 1
    /\ ui = [strip |-> <<>>, active |-> 0, tabs |-> <<>>, snapshot |-> 1,
             range |-> <<>>, diff |-> <<>>, probe |-> <<>>]
    /\ working = <<>> /\ tabEvents = 0

LandJob(i) == \E ok \in BOOLEAN : LandRange(i, ok) \/ LandDiff(i, ok) \/ LandProbe(i, ok)

TabsNext ==
    \/ \E kind \in {"live", "worktree"} : OpenTab(kind)
    \/ \E i \in 0..Len(ui.strip) : ActivateTab(i)
    \/ \E i \in DOMAIN ui.strip : CloseTab(i)
    \/ \E row \in UNION {ui.tabs[id].rows : id \in OpenTabs(ui)} : MoveTo(row)
    \/ ToggleContext
    \/ RefreshTab
    \/ DiskMoves
    \/ WatchTick
    \/ \E v \in DOMAIN Heads : SnapshotMoves(v)
    \/ SpawnPaneJob
    \/ \E i \in DOMAIN working, ok \in BOOLEAN : LandRange(i, ok)
    \/ \E i \in DOMAIN working, ok \in BOOLEAN : LandDiff(i, ok)
    \/ \E i \in DOMAIN working, ok \in BOOLEAN : LandProbe(i, ok)

\* The loop spawns after every event, workers end, and every tick probes and
\* brings a status of what is on disk.
TabsFairness ==
    /\ WF_tabVars(SpawnPaneJob) /\ WF_tabVars(LandJob(1))
    /\ WF_tabVars(WatchTick) /\ WF_tabVars(SnapshotMoves(disk))

TabsSpec == TabsInit /\ [][TabsNext]_tabVars /\ TabsFairness

-----------------------------------------------------------------------------
(* Properties *)

InFlight(job, queue) == ToSet(queue) \union {w.of : w \in {u \in ToSet(working) : u.job = job}}

RangeOut(id) == \E j \in InFlight("range", ui.range) : j.tab = id /\ SameLoad(ui, j)
DiffOut(id)  == \E j \in InFlight("diff", ui.diff) : j.tab = id /\ j.gen = ui.tabs[id].gen /\ j.req = ui.tabs[id].req

\* The tab shows the file it names, of the range it lists, and that is the
\* file under the cursor (a folder keeps the diff of the file before).
ShowsItsFile(t) ==
    /\ t.shown.path = t.path /\ t.shown.source = (IF t.path = NoPath THEN 0 ELSE t.source)
    /\ t.cursor \in t.rows \ {Folder} => t.path = t.cursor

\* A tab that is loading has a load in flight whose result it will take; with
\* nothing in flight it shows its file or, after an error, nothing: never the
\* diff of another file or range.
CompareSettled ==
    \A id \in OpenTabs(ui) :
        LET t == ui.tabs[id]
        IN ~RangeOut(id) =>
             /\ ~t.loading
             /\ DiffOut(id) \/ ShowsItsFile(t) \/ (t.error /\ t.shown = NoContent)

\* A live tab that has loaded once settles on the HEAD of its checkout, and
\* the active working-tree tab on its file, unless a load failed.
TabIsCurrent(id) ==
    LET t == ui.tabs[id]
    IN /\ t.kind = "live" /\ t.seen # 0 => ~t.loading /\ t.seen = Heads[disk] /\ t.source \in {0, t.seen}
       /\ t.kind = "worktree" /\ id = ActiveId(ui) /\ ~t.error => ~t.loading /\ t.shown.text = Texts[disk]
CompareCatchesUp == <>[](\A id \in OpenTabs(ui) : TabIsCurrent(id))
=============================================================================
