----------------------------- MODULE GraphPages -----------------------------
(***************************************************************************)
(* The history that the graph pane has loaded: first windows, refreshes,   *)
(* older pages and the reveal of a blamed commit, of tui/graph_load.rs,    *)
(* tui/effect.rs, tui/app.rs and tui/state.                                *)
(*                                                                         *)
(* A pane load replaces the graph; an older page (autoload) is appended to *)
(* it.  Both run on workers, beside each other, and read git while the     *)
(* loop goes on.  `view` is the part of AppState and Interpreter they      *)
(* share; a method is an operator from one view to the next, an action is  *)
(* one handler with the after_change that follows it.                      *)
(*                                                                         *)
(* The pane's own queue is PaneLoad's in short: the newest request waits,  *)
(* one load runs.  Left out: commit drills; the HEAD in a graph's identity *)
(* (it only changes with a new graph, which cancels the page anyway); the  *)
(* order of stash parents outside the window.                              *)
(***************************************************************************)
EXTENDS Naturals, SequencesExt, FiniteSetsExt

CONSTANTS Repos,        \* checkouts whose row shows a graph
          FileRow,      \* a row that shows a file diff
          EmptyRow,     \* a row without a right pane
          NoRepo,
          Versions,     \* bound: states of git, 1..Versions
          History,      \* per version and focus: what git log prints
          Stashed,      \* per version: parents of the stashes
          Page,         \* DEFAULT_GRAPH_WINDOW
          MaxPages,     \* GRAPH_REVEAL_MAX_PAGES
          MaxPageInput  \* bound: keys, refreshes and changes of git

ASSUME GraphPagesAssumption ==
    /\ NoRepo \notin Repos /\ {FileRow, EmptyRow} \intersect Repos = {}
    /\ Page \in Nat \ {0} /\ MaxPages \in Nat /\ MaxPageInput \in Nat
    /\ Versions \in Nat \ {0}
    \* git log prints a commit once.
    /\ \A v \in 1..Versions, f \in BOOLEAN :
           History[v][f] \in Seq(ToSet(History[v][f])) /\ IsInjective(History[v][f])

VARIABLES git,          \* the version of the repositories on disk
          view,         \* the state that loads share
          inputs        \* inputs so far

pageVars == <<git, view, inputs>>

Commits == UNION {ToSet(History[v][f]) : v \in 1..Versions, f \in BOOLEAN}

\* "Nothing here": a request, a load, a graph or a reveal that is absent.
Nothing == [absent |-> TRUE]

PageRows == Repos \union {FileRow, EmptyRow}
RepoOf(r) == IF r \in Repos THEN r ELSE NoRepo

-----------------------------------------------------------------------------
(* Windows of history. *)

\* One page of git log, in state `v` of git; a focus limits it to branches.
Window(repo, v, focused, skip, limit) ==
    LET log   == History[v][focused]
        shown == SubSeq(log, skip + 1, Min({skip + limit, Len(log)}))
    IN [window |-> shown,
        extras |-> IF focused THEN {} ELSE Stashed[v] \ ToSet(shown),
        stashes |-> IF focused THEN Stashed[v] \intersect ToSet(shown) ELSE Stashed[v],
        limit |-> limit,
        more |-> limit > 0 /\ Len(shown) = limit,
        from |-> {<<repo, v, focused>>}]

Loaded(g) == ToSet(g.window) \union g.extras

\* What the page repeats of the window is dropped.
MergedWindow(window, page) ==
    LET merged[n \in 0..Len(page)] ==
            IF n = 0 THEN window
            ELSE IF page[n] \in ToSet(merged[n - 1]) THEN merged[n - 1]
                 ELSE Append(merged[n - 1], page[n])
    IN merged[Len(page)]

\* merge_autoload.
MergePage(g, page) ==
    LET window == MergedWindow(g.window, page.window)
    IN [window |-> window,
        extras |-> (g.extras \union page.extras) \ ToSet(window),
        stashes |-> page.stashes,
        limit |-> g.limit,
        more |-> page.more,
        from |-> g.from \union page.from]

OlderSkip(g) == Len(g.window)

RefreshLimit(g) == IF g = Nothing THEN Page ELSE Max({Len(g.window), g.limit, Page})

-----------------------------------------------------------------------------
(* The status slot: `loading older...` and the message it replaced.  Of the *)
(* other messages only whether it is the latest one matters.                *)

Say(s) == [s EXCEPT !.status = "latest", !.olderPrev = IF @ = "none" THEN @ ELSE "outdated"]

RestoreOlderPrev(s) ==
    [s EXCEPT !.olderPrev = "none",
              !.status = IF @ # "older" THEN @ ELSE IF s.olderPrev = "none" THEN "lost" ELSE s.olderPrev]

-----------------------------------------------------------------------------
(* Methods. *)

\* graph_focus_revs: the loaded graph's repository decides, else the row's.
FocusRevs(s) ==
    LET repo == IF s.identity # NoRepo THEN s.identity ELSE RepoOf(s.cursor)
    IN repo # NoRepo /\ s.focus = repo

\* RightPaneRequest::from_state.
PaneRequest(s) ==
    LET repo == RepoOf(s.cursor)
    IN [row |-> s.cursor, focused |-> FocusRevs(s),
        limit |-> IF repo # NoRepo /\ s.identity = repo THEN RefreshLimit(s.graph) ELSE Page]

AskPane(s) == [s EXCEPT !.wanted = PaneRequest(s)]

RetryReveal(s, repo, seen) ==
    IF s.reveal = Nothing THEN s
    ELSE IF s.reveal.repo # repo THEN [s EXCEPT !.reveal = Nothing]
    ELSE IF s.graph # Nothing /\ s.reveal.sha \in Loaded(s.graph) THEN [s EXCEPT !.reveal = Nothing]
    ELSE [s EXCEPT !.reveal.seen = @ \/ seen]

SetGraph(s, graph, repo) ==
    RetryReveal([s EXCEPT !.graph = graph, !.identity = repo], repo, TRUE)

\* The file's diff takes the pane; the graph's identity stays.
SetDiff(s) == [s EXCEPT !.graph = Nothing]

ClearRight(s) == [s EXCEPT !.graph = Nothing, !.identity = NoRepo, !.loadingOlder = FALSE]

AutoloadAllowed(s) ==
    s.onWorkspace /\ ~s.loadingOlder /\ s.cursor # FileRow /\ s.graph # Nothing

QueueAutoload(s) ==
    IF s.identity = NoRepo THEN s
    ELSE [s EXCEPT !.loadingOlder = TRUE,
                   !.latest = @ + 1,
                   !.autoload = [gen |-> s.latest + 1, repo |-> s.identity],
                   !.olderPrev = IF s.status = "older" THEN @ ELSE s.status,
                   !.status = "older",
                   !.slots = @ + 1]

\* Mutant: a graph load leaves the older page on its way.
CancelAutoload_Not(s) == RestoreOlderPrev([s EXCEPT !.autoload = Nothing, !.loadingOlder = FALSE])

\* A new graph cancels any older page.
CancelAutoload(s) ==
    RestoreOlderPrev([s EXCEPT !.latest = @ + 1, !.autoload = Nothing, !.loadingOlder = FALSE])

\* Mutant: a stale page leaves the flag and the message to the newest one.
FinishAutoload_Stale(s, accepted) == IF accepted THEN RestoreOlderPrev(s) ELSE s

FinishAutoload(s, accepted) ==
    IF accepted THEN RestoreOlderPrev([s EXCEPT !.loadingOlder = FALSE])
    ELSE IF ~s.loadingOlder THEN RestoreOlderPrev(s) ELSE s

\* The end of every handler: drop the reveal once the graph pane has lost
\* focus, else ask for the next page, or give up with a message.
WantsOlder(s) ==
    /\ s.reveal # Nothing /\ s.graph # Nothing
    /\ s.identity = s.reveal.repo /\ s.reveal.seen /\ ~s.loadingOlder

AfterChange(s) ==
    IF ~AutoloadAllowed(s) \/ ~WantsOlder(s) THEN s
    ELSE IF s.graph.more /\ s.reveal.pages < MaxPages
    THEN QueueAutoload([s EXCEPT !.reveal.pages = @ + 1])
    ELSE Say([s EXCEPT !.reveal = Nothing])

-----------------------------------------------------------------------------
(* Handlers. *)

PagesInit ==
    /\ git = 1 /\ inputs = 0
    /\ \E r \in Repos :
           view = AskPane([cursor |-> r, onWorkspace |-> TRUE, focus |-> NoRepo,
                           graph |-> Nothing, identity |-> NoRepo, loadingOlder |-> FALSE,
                           latest |-> 0, autoload |-> Nothing, slots |-> 0, running |-> {},
                           wanted |-> Nothing, paneJob |-> Nothing,
                           status |-> "latest", olderPrev |-> "none", reveal |-> Nothing])

PageInput == inputs < MaxPageInput /\ inputs' = inputs + 1

\* Commits, fetches and deleted branches change the repositories.
GitMoves == PageInput /\ git < Versions /\ git' = git + 1 /\ UNCHANGED view

\* A key moves the cursor in the tree, so the graph pane has no focus.
MoveRow(r) ==
    /\ PageInput /\ view.onWorkspace
    /\ view' = AfterChange(AskPane([view EXCEPT !.cursor = r, !.reveal = Nothing]))
    /\ UNCHANGED git

\* The end of a write, or a change of the row's checkout, asks again.
RefreshPane ==
    /\ PageInput /\ view.onWorkspace
    /\ view' = AfterChange(AskPane(view))
    /\ UNCHANGED git

\* o and O: the picker acts on the highlighted row, or on the shown graph.
FocusBranches(repo) ==
    /\ PageInput /\ view.onWorkspace
    /\ repo \in {RepoOf(view.cursor), view.identity} \ {NoRepo}
    /\ view' = AfterChange(AskPane(Say([view EXCEPT !.identity = NoRepo, !.focus = repo])))
    /\ UNCHANGED git

ClearFocus ==
    /\ PageInput /\ view.onWorkspace /\ view.focus # NoRepo
    /\ view' = AfterChange(AskPane(Say([view EXCEPT !.identity = NoRepo, !.focus = NoRepo])))
    /\ UNCHANGED git

PageTab ==
    /\ PageInput
    /\ view' = AfterChange([view EXCEPT !.onWorkspace = ~@])
    /\ UNCHANGED git

\* Any other message of the session.
Message == PageInput /\ view' = AfterChange(Say(view)) /\ UNCHANGED git

\* A key moves the graph cursor to the last row.
LastRow ==
    /\ PageInput
    /\ AutoloadAllowed(view) /\ view.graph.more /\ Loaded(view.graph) # {}
    /\ view' = AfterChange(QueueAutoload(view))
    /\ UNCHANGED git

\* blame_reveal_graph, from a diff or another tab.
Reveal(repo, sha) ==
    LET loaded == view.graph # Nothing /\ view.identity = repo
        reload == ~loaded \/ view.cursor # repo \/ ~view.onWorkspace
        s      == [view EXCEPT !.onWorkspace = TRUE, !.cursor = repo,
                               !.reveal = [repo |-> repo, sha |-> sha, pages |-> 0, seen |-> FALSE]]
        tried  == IF loaded THEN RetryReveal(s, repo, ~reload) ELSE s
    IN /\ PageInput
       /\ view' = AfterChange(IF reload THEN AskPane(tried) ELSE tried)
       /\ UNCHANGED git

\* spawn_ready takes the pane's request to a worker.
SpawnLoad ==
    /\ view.wanted # Nothing /\ view.paneJob = Nothing
    /\ view' = [view EXCEPT !.paneJob = [req |-> view.wanted, since |-> git], !.wanted = Nothing]
    /\ UNCHANGED <<git, inputs>>

\* UserTag::Autoload takes what was asked for last, if it is still wanted.
SpawnOlder ==
    LET s == [view EXCEPT !.slots = @ - 1]
    IN /\ view.slots > 0
       /\ view' = IF s.autoload = Nothing THEN s
                  ELSE IF s.graph = Nothing
                  THEN RestoreOlderPrev([s EXCEPT !.autoload = Nothing, !.loadingOlder = FALSE])
                  ELSE [s EXCEPT !.autoload = Nothing,
                                 !.running = @ \union
                                     {[gen |-> s.autoload.gen, repo |-> s.autoload.repo, since |-> git,
                                       skip |-> OlderSkip(s.graph), limit |-> s.graph.limit,
                                       focused |-> FocusRevs(s)]}]
       /\ UNCHANGED <<git, inputs>>

\* JobOutcome::RightPane; the worker read git in state `v`.
LoadLands(v) ==
    LET req  == view.paneJob.req
        s    == [view EXCEPT !.paneJob = Nothing]
        repo == RepoOf(req.row)
    IN /\ view.paneJob # Nothing /\ v \in view.paneJob.since..git
       /\ view' = AfterChange(
              IF ~s.onWorkspace THEN s
              ELSE IF s.wanted = Nothing /\ req.row = s.cursor
              THEN IF repo # NoRepo
                   THEN SetGraph(CancelAutoload(s), Window(repo, v, req.focused, 0, req.limit), repo)
                   ELSE IF req.row = FileRow THEN SetDiff(s) ELSE ClearRight(s)
              ELSE IF req.row # s.cursor THEN AskPane(s) ELSE s)
       /\ UNCHANGED <<git, inputs>>

LoadPanics ==
    /\ view.paneJob # Nothing
    /\ view' = AfterChange([view EXCEPT !.paneJob = Nothing])
    /\ UNCHANGED <<git, inputs>>

\* JobOutcome::Autoload.
OlderLands(j, v) ==
    LET accepted == j.gen = view.latest
        s == [view EXCEPT !.running = @ \ {j}]
        landed == IF accepted /\ s.identity = j.repo /\ s.graph # Nothing
                  THEN SetGraph(s, MergePage(s.graph, Window(j.repo, v, j.focused, j.skip, j.limit)), j.repo)
                  ELSE s
    IN /\ j \in view.running /\ v \in j.since..git
       /\ view' = AfterChange(FinishAutoload(landed, accepted))
       /\ UNCHANGED <<git, inputs>>

\* Mutant: the panic of an older page releases nothing.
OlderPanics_Leak(j) ==
    /\ j \in view.running
    /\ view' = AfterChange([view EXCEPT !.running = @ \ {j}])
    /\ UNCHANGED <<git, inputs>>

OlderPanics(j) ==
    /\ j \in view.running
    /\ view' = AfterChange(FinishAutoload([view EXCEPT !.running = @ \ {j}], j.gen = view.latest))
    /\ UNCHANGED <<git, inputs>>

LoadEnds == LoadPanics \/ \E v \in 1..Versions : LoadLands(v)
OlderEnds == \E j \in view.running : OlderPanics(j) \/ \E v \in 1..Versions : OlderLands(j, v)

PagesNext ==
    \/ GitMoves
    \/ \E r \in PageRows : MoveRow(r)
    \/ RefreshPane
    \/ \E r \in Repos : FocusBranches(r)
    \/ ClearFocus
    \/ PageTab
    \/ Message
    \/ LastRow
    \/ \E r \in Repos, sha \in Commits : Reveal(r, sha)
    \/ SpawnLoad
    \/ SpawnOlder
    \/ \E v \in 1..Versions : LoadLands(v)
    \/ LoadPanics
    \/ \E j \in view.running, v \in 1..Versions : OlderLands(j, v)
    \/ \E j \in view.running : OlderPanics(j)

\* The loop spawns after every event, and git has a deadline.
PagesFairness ==
    /\ WF_pageVars(SpawnLoad) /\ WF_pageVars(SpawnOlder)
    /\ WF_pageVars(LoadEnds) /\ WF_pageVars(OlderEnds)

PagesSpec == PagesInit /\ [][PagesNext]_pageVars /\ PagesFairness

-----------------------------------------------------------------------------
(* Properties *)

\* While older pages are blocked one is on its way, queued or on a worker,
\* and it is the one whose end unblocks them; and `loading older...` stays
\* only that long, then the latest other message is back.
OlderEndsInSight ==
    /\ view.loadingOlder =>
           \/ view.autoload # Nothing /\ view.autoload.gen = view.latest /\ view.slots > 0
           \/ \E j \in view.running : j.gen = view.latest
    /\ view.status = "older" => (view.autoload # Nothing /\ view.slots > 0) \/ view.running # {}
    /\ view.status \in {"older", "latest"} /\ (view.status = "older" => view.olderPrev = "latest")

\* The pane never mixes two repositories, and a graph whose parts were read
\* from one state of git with one focus shows a prefix of its log without a
\* gap or a repetition, the whole of it when no more is promised, and the
\* parent of every stash, once.
GraphIsHistory ==
    /\ view.graph # Nothing => \A p, q \in view.graph.from : p[1] = q[1]
    /\ view.graph # Nothing /\ Cardinality(view.graph.from) = 1 =>
       LET g    == view.graph
           part == CHOOSE p \in g.from : TRUE
           log  == History[part[2]][part[3]]
       IN /\ g.window = SubSeq(log, 1, Len(g.window))
          /\ ~g.more => g.window = log
          /\ g.extras \intersect ToSet(g.window) = {}
          /\ g.stashes \subseteq Loaded(g)
          /\ ~part[3] => g.stashes = Stashed[part[2]] /\ g.extras \subseteq g.stashes

\* A reveal ends: found, dropped or given up, whatever lands late; but one
\* whose graph never loads waits for it.
RevealEnds == <>[](view.reveal # Nothing => ~view.reveal.seen \/ ~view.onWorkspace
                                            \/ view.identity # view.reveal.repo \/ view.graph = Nothing)

\* docs/architecture.md:109 "Graph `o` ... can pass selected local tips
\* instead of `--all` so the window is only those ancestors": once all is
\* quiet, the graph of the repository in focus shows those only.
FocusShown ==
    view.wanted = Nothing /\ view.paneJob = Nothing /\ view.graph # Nothing
        /\ view.focus # NoRepo /\ view.identity = view.focus
    => \A p \in view.graph.from : p[3]
=============================================================================
