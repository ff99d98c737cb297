# TLA+ models of my-workspace-status

`ws` is a terminal program that shows the git checkouts below a directory. It
is one crate with the command line and the TUI (`crates/workspace-status`) and
one with the commit graph (`crates/workspace-status-graph`). These modules
model the part whose behaviour depends on the order of events: the TUI's job
scheduling and remote operations, the git processes it runs, the views that are
filled by workers while the user moves on, the files that several `ws`
processes share, and the layout of the graph. Paths below are relative to
`crates/workspace-status/src/tui/` unless they start with another directory.

## The system

One thread runs the event loop (`event_loop.rs`). It owns the view state
(`state/`), the interpreter of effects (`effect.rs`) and the scheduler
(`scheduler.rs`). A key or a timer makes the state return an `Effect`; the
interpreter turns it into scheduler slots and queue entries; after every event
`spawn_ready` starts what `spawn_next` allows, on worker threads. Workers run
git and send one outcome each. Outcomes land in any order, between any two
keys, and a panicked worker still releases what it held
(`effect/job_release.rs`). Other `ws` processes share store files and the
background fetch. At quit the main thread stops the git that still runs and
waits for the workers.

| Component | State | Operations | What makes it correct |
|---|---|---|---|
| Scheduler (`scheduler.rs`) | two queues, jobs in flight, the current collect, generation per checkout, pane request | ticks, reloads, walk and status results, enqueue, `spawn_next` | old results never replace newer ones; a collect ends; lanes keep their order; the write gate tells the truth |
| Pane load (`scheduler.rs`, `effect.rs`) | newest request, request in flight | request, spawn, accept | one load at a time, and the pane shows the cursor's row in the end |
| Remote queue and writes (`effect.rs`) | pending jobs, holder of each gitdir, waves, queued writes, switch batch | `f` `p` `P` `d`, write keys, background tick, spawns, results | one writer per repository; nothing held for good; pending work starts; waves do not leak |
| Git runs (`../git.rs`, `../actions.rs`) | shutdown flag, registered process groups, the step of each job, stash and tree of its checkout | check, spawn, register, recheck, deadline, stop, reap | the stop meets every git but what restores the user's work; a pull gives back what it stashed; quit ends |
| Latest-only slots (`latest_only.rs`) | newest request and slot of each kind | offer, clear, take, finish | no request stranded, no slot too few, one serial job |
| Graph pages (`graph_load.rs`, `effect.rs`) | the graph shown, the older page under way, cursor, focus, reveal | moves, refreshes, older pages, focus, reveal | the pane shows a prefix of one history; the block on further pages ends; a reveal ends |
| Graph layout (`../workspace-status-graph`) | lanes and what they wait for | one turn per commit, stash joins | the picture is the history |
| Pull requests (`state/pull_request.rs`) | a record per checkout, answers and details per remote and branch, queues, host backoff | statuses, polls, keys, results | what looks under way is under way; one failure costs no other's badge; one backoff per cycle |
| Compare tabs (`tabs.rs`, `state/mod.rs`) | list, diff and probe of each tab, queued jobs | open, close, move, probe, status, results | a tab shows the diff of its row and range; a moved HEAD is noticed |
| Explorer tab (`state/explorer_tab.rs`) | folders, inner files, stamps, marks | keys, statuses, listings and bodies | what is shown was read after the last status that changed it |
| Background fetch claim (`fetch_claim.rs`) | lock per workspace, record, generation applied | tick, try lock, check, finish, release, apply | one claimed fetch, due by the interval; every instance shows the last outcome |
| Store files (`persist.rs`) | store, temporary file, lock file | save by locked read, merge, write and rename | a save is atomic and loses no other |
| Parallel map (`../parallel.rs`) | queue of items, results in flight, slots | take, run, send, panic, receive, finish | results in input order, none missing unless a closure panicked |
| Drill and selection, search, Ctrl-C, discovery, update check, painting, CLI | see `PROJECT.json` | | not modelled; "Not modelled" says why |

What is hard here: results that land after the state they belong to has moved
on; a job that fails or panics while something waits for it; keys pressed again
while their work is queued; two worktrees that share one repository; several
processes on one file, any of which may die; a quit at any moment; limits
(lanes, slots). The `hazards` of `PROJECT.json` name each with its line and the
properties that would notice.

## Modules

| Module | Models | How |
|---|---|---|
| `StatusCollect` | the collect protocol without queues | the specification that `Scheduler` implements: walks and status jobs are sets, generations decide which result counts |
| `Scheduler` | `scheduler.rs`, and the handlers of `effect.rs` that call it | the struct is one record `sched`, each method an operator from record to record; actions `Tick`, `ReloadRepo`, `Spawn`, `WalkLands`, `StatusLands`, the panics and user slots compose the calls of one handler into one step |
| `PaneLoad` | pane requests on top of `Scheduler` | extends it; adds cursor, tab, what is loaded and what is painted |
| `RemoteQueue` | `RemoteQueue`, writes and default-branch switches in `effect.rs` | `pending`, `occupy` and `waves` are the code's fields; slots of the scheduler are counted; one action per key, spawn and result |
| `GitRuns` | the runner of `git.rs`, its stop at quit, and the jobs that change a checkout in several steps | a worker is a program counter through `run_bounded`, its job a sequence of steps; git may end, fail, hang or be cut off; the main thread runs `stop_groups` slot by slot |
| `LatestOnly` | `latest_only.rs` and its users in `effect.rs` | a value per kind, one operator per method; tags shared by several kinds and plain jobs; views that ask again after every event |
| `GraphLanes` | `layout.rs`, `topology.rs`, `stash.rs` of the graph crate | one action per turn of `layout_commits`; a cell is the set of its connections |
| `GraphPages` | windows, older pages, focus and reveal | the part of `AppState` and `Interpreter` they share is one record `view`; git changes beside it |
| `PrLookups` | `state/pull_request.rs` and the lookup queue | records, answers, details and queues are one record `prs`; clones share an answer when they share remote and branch |
| `CompareTabs` | a live and a working-tree tab of one checkout | what the event thread holds is one record `ui`; workers read the disk at the version it then has |
| `ExplorerTab` | the file tree and the inner files | as `CompareTabs`, with `ex`; rows are painted as the code flattens the tree; the paths of a status are visited in any order, as those of a hash set |
| `Queues` | `Vec::retain`, which the scheduler and the Explorer call, and what the graph's lanes do when they move left | a recursive function |
| `ParallelMap` | `parallel.rs` | threads with a state, a channel of results, slots |
| `FetchClaim` | `fetch_claim.rs` and the generation in `state/mod.rs` | processes with a program counter: tick, lock, check, fetch, record, release; death at any step |
| `AtomicStore` | what a store file promises | a save replaces one bucket in one step, or fails |
| `Persist` | `persist_with_lock` | open, lock, read and merge, create, write, rename; failure at each, death between any two; implements `AtomicStore` |

`MC*` modules give TLC its instances. `*Proofs` modules hold the TLAPS proofs,
grouped by what the components share: `StatusCollectProofs` (also `ParallelMap`),
`SchedulerProofs` (also `PaneLoad`), `WriteProofs` (`RemoteQueue`, `Persist`),
`GitRunsProofs` (also `FetchClaim`), `ViewProofs` (`LatestOnly`, `GraphPages`,
`GraphLanes`),
`TabProofs` (`CompareTabs`, `ExplorerTab`), `PrProofs`, and `QueueProofs`, the
library of lemmas on lists that the others use.
A definition named `X_Y` after a comment that starts with "Mutant" is a faulty
form of `X`, kept to show that a property notices it; no specification uses it.

How they meet. `Scheduler` implements `StatusCollect`
(`ImplementsStatusCollect`) with the queues hidden: a walk or status job is
live wherever it waits. What is proved of `StatusCollect` therefore holds of
`Scheduler` too: `SchedulerCollects` proves the refinement. `PaneLoad` extends
`Scheduler`: its loads share the lanes with the user's work. `Persist`
implements `AtomicStore` (`ImplementsAtomicStore`) with the same `file` and
`asked`; the rename is the step that saves. `FetchClaim` writes its record in
one step, which `Persist` justifies. `RemoteQueue` counts the bulk slots that
`Scheduler` queues and treats its lane as a cap; each of its jobs on a worker is
one job of `GitRuns`, and `OneWorkerPerGitdir` is why a job of `GitRuns` has its
checkout to itself. The views (`GraphPages`, `CompareTabs`, `ExplorerTab`,
`PrLookups`) rely on the scheduler for a slot that starts in the end, which is
their fairness.

## Runs

Several runs instantiate components that share no state, with a variable `part`
(`session` in `MCSession`) that says which of them a behaviour is about; the
others stay as they start. It is the same as a run for each of them.

| Run | Instance | What it shows |
|---|---|---|
| `session` | 2 checkouts and 4 generations; or 2 rows, 7 pane requests and 3 user jobs of all tags, cap 2 | The queues implement `StatusCollect`, and every collect with checkouts to wait for ends; the pane settles, lanes keep their order, the write gate is true, local work drains while remotes hang |
| `statuses` | 3 checkouts, 4 generations, symmetric; or an Explorer of 3 nodes, 3 versions on disk, 4 inputs | Rows never go back and a collect waits for live jobs only; the Explorer shows what the last statuses told |
| `remote_queue` | a repository with a linked worktree and another one, fetch and pull, cap 2; or 2 workers, one with pulls and switches, one slot for groups, 8 checkouts to start from | Mutual exclusion per gitdir, coalescing, waves, the claim, slots; the stop at quit is exact, pulls give back what they stash, and every job and the quit end |
| `writes` | two worktrees of one repository, all kinds, cap 1; or 3 processes of 2 workspaces, 3 buckets, 2 contents | Every pending job starts; saves are atomic, none is lost, the lock is freed |
| `ticks` | 2 instances, intervals 2 and 3, clock 0..2, 2 ticks; or 2 compare tabs, 2 versions, 3 keys or failures, 1 probe, cap 2 | Claimed fetches exclude each other and are due, outcomes reach the others; the compare tabs settle on the HEAD and file that are there |
| `views` | 5 commits with up to 2 parents and 2 stashes; graphs of 2 repositories over 2 versions, 4 inputs; 2 clones of one or two remotes, 3 inputs; 4 latest-only kinds on 3 tags, 4 requests; 4 items on 3 threads | The picture is the history; older pages and reveals end and never mix histories; lookups end, fail and back off for themselves only; no request is stranded; the map keeps its order |
| `collect_rerun` | 2 checkouts, 3 generations | Violation: a tick latched behind a walk that queues nothing never gets its rerun |
| `pane_vanished` | 2 rows, 5 inputs | Violation: the pane stays on a checkout that is gone |
| `exclusive_serial` | as `remote_queue` | Violation: a stash hotkey starts a second write in another repository |
| `graph_stash` | 4 commits | Violation: the join of a stash on a merge cuts a rail off |
| `graph_focus` | as in `views`, 5 inputs | Violation: a row loads without its branch focus |
| `stash_popped` | as in `remote_queue` | Violation: a pull counts as stashed what it did not stash |

Bounds. `MaxGen`, `MaxPane`, `MaxUser`, `MaxAsk`, `MaxTick`, `MaxTime`, `Keys`,
`MaxPageInput`, `MaxPrInput`, `MaxTabEvents`, `MaxProbes` and `MaxInput` bound
counters and inputs only; workers go on without bound. Four generations hold a
collect, a reload that overtakes it, a rerun and one more; two checkouts are
enough for one job to be awaited while another is replaced. In `RemoteQueue` the
linked pair shares a gitdir and the third checkout does not. In `GitRuns` one
slot for groups makes one of two runs go unregistered, which 256 slots hardly
ever do, and leaves a step between the look at the slot and the signals for a
run to register in. Three processes in `Persist` are two that compete for one
bucket and one for another, with one bucket (the reserved `__legacy__` one) that
nobody saves. Two instances with different intervals and two ticks let one of
them find the other's record too recent, and a clock that jumps makes a record
lie in the future. Five commits, two of them merges at most per gap, are enough
for a lane to open, be joined, close and move left beside another; the histories
of `GraphPages` lose a commit from one version to the next, and a focus hides
two. Two versions of a checkout are enough for a compare tab to be overtaken
once while it loads and once while it is probed; three of the Explorer's let a
file be deleted and come back. Three inputs of `PrLookups` are two overlapping
poll cycles and a change of branch between them.

Deadlock is not checked, because the bounds let the system stop: once the
bounded inputs are used up and all work has landed, no action is left, as in a
program that waits for a key.

Fairness. Spawns are weakly fair because the loop calls `spawn_ready` after
every event. Workers are weakly fair because every git process has a deadline
(docs/git-operations.md, "Subprocess deadlines"; `GitRuns` shows that it is
enough) and a panic lands as an outcome; remotes of `session` are not even
assumed to end. `StartRemote` of `RemoteQueue` is strongly fair: a gitdir is
taken and freed again and again, and the code takes the first eligible job of a
queue, an order that the model does not keep. In `FetchClaim` straight-line code
goes on, fetches end, and the watch tick returns, which assumes that watching is
on and overlays are closed; nothing makes an instance launch, tick or die. In
`CompareTabs` the tick that probes returns for the same reason. In `Persist`
only the holder of the lock goes on: nothing says which waiting process gets it,
so that a save gets the lock at all is not claimed. Keys, statuses and changes
of git are never fair.

Two properties state progress without fairness, as invariants, because the steps
that remain once inputs stop go one way only. `ExplorerCatchesUp` says what holds
whenever no job is left. `RunsEnd` says that every job of `GitRuns` and the quit
has, until it is over, a step that waits for no git; each such step is nearer to
the end of `run_bounded`, of the job, or of `stop_groups`.

## Findings

* `collect_rerun`: `on_discovered` never ends a collect. A walk that queues no
  status job leaves the collect open with nothing pending, so later ticks and
  reloads latch for good, where `scheduler.rs:276` and docs/tui-rust.md:338
  promise one rerun. `CollectEnds` therefore speaks of collects that have
  something pending.
* `pane_vanished`: when a walk drops the focused checkout the cursor falls to
  another row and no pane load follows. `PaneSettled` excuses this, a panicked
  newest load, and loads missed while another tab was active
  (docs/tui-model.md:158 describes that the parked view is not reloaded).
* `exclusive_serial`: `classify_busy_action` (`event_pump.rs:58`) drops write
  keys while a write runs, but not the characters typed in the stash menu;
  only a busy gitdir refuses those. docs/git-operations.md:379 says exclusive
  writes stay serial. Within one repository they are: `OneWorkerPerGitdir`
  holds.
* `graph_stash`: the join of a stash on a merge commit replaces the corner of
  the lane that the merge opens, whose rail then starts at nothing
  (`stash.rs:271`, docs/git-graph-topology.md:49 and :189).
* `graph_focus`: `graph_focus_revs` (`state/mod.rs:6479`) asks the repository of
  the graph that is shown, not the one that is about to load.
* `stash_popped`: a pull in a checkout whose only tracked change is inside a
  submodule stashes nothing, believes it did, and pops the newest entry of the
  user's own stash (`git.rs:1132`). `PullRestores` excuses such a checkout, and
  a git that fails by itself: a failing `git diff` counts as a change as well.

Smaller things met on the way, which no run shows:

* `scheduler.rs:576` says a background slot spawns only when the user queue is
  empty; `SpawnNext` lets one start beside user slots whose lane is full or that
  wait behind a default-branch switch, as the code does.
* Git runs: docs/git-operations.md:38 says that "a quit during a pull gives the
  local changes back". It does so unless the quit meets the stash push or the
  pop itself: a push cut off after its work counts as failed, so nothing pops
  it, and a pop that is already registered gets the `SIGTERM` as well. `Spoils`
  names these cases. `switch_repo_to_default_branch` reports "Already up to
  date" when both `rev-parse` are refused during a quit.
* Compare tabs: closing the active tab does not check a working-tree tab that
  becomes active (`close_tab_at`, against docs/tui-model.md:87); the next status
  does. The error of a failed probe or diff stays until the list is loaded
  again. A stale probe forces a reload that finds nothing new
  (docs/tui-model.md:89). A first load that fails is not retried by probes.
* Explorer: a stamp is the disk's token and the status letters, so a change of
  the index alone that keeps the letters does not reload a diff, against the
  comment at `state/explorer_tab.rs:1957`; a silent reload that fails waits for
  the stamp to move again. A path sends one re-list while it stays in the status
  (`status_relisted`), so a folder that is opened on a listing cached before the
  path came lacks it when another folder's listing was the one sent for it, or
  when the listing sent for it failed; `FoldersCatchUp` asks only for a folder on
  the way that has it. A file that is back at an old token and letters keeps its
  stamp, and what was read in between stays in sight (`CameBack`).
* Pull requests: when the clone for which a detail was requested leaves its
  branch, the detail of another clone on it stays "loading"; a new clone's first
  failed lookup replaces the answer the other one shows (`BadgeStays` excuses
  shared answers).
* Graph: a refresh whose limit was taken before an older page landed shortens
  the history again (`graph_load.rs:231`); a reveal may finish on an older page
  that was merged into a parked, stale graph.
* Stores: a read error at launch counts as an empty store (`viewed.rs:290`), and
  each instance saves its whole bucket from memory (`state/mod.rs:5655`), so the
  marks of two instances of one workspace replace each other. `AtomicStore`
  promises whole buckets, as the comments of the code do.

## Proofs

Each `*Proofs` module proves `Safe` (or `Spec`) `=> []P` from an inductive
invariant that TLC checked first.

* `StatusCollectProofs`. `IInv` joins the type, the order of generations (a
  checkout's generation is below the next one to hand out, and no job is newer
  than its checkout's generation), that nothing is pending before the walk
  lands, that the one walk is the collect's own, and that each pending checkout
  has a live job of its newest generation. The last two need the first two: a
  result counts only if its generation is the checkout's newest, so it ends a
  wait only for the job that was awaited. From it: `InvariantHolds`,
  `CollectSafety`, and the action property `RowsNeverGoBack`. The module also holds
  the proofs of the command line's `ParallelMap`: `ParIInv` says that each item is
  in exactly one place (the queue, a thread, the channel, its slot, or lost with
  its thread) and that a slot holds its own item; what a map that returns holds
  then follows from every place but slots being empty: `EachItemHasAPlace`,
  `MapOrder`.
* `QueueProofs`. What `Retain`, `InsertAt`, `RemoveAt`, appending and folding keep
  of a list: its elements, their order, that they differ. `Retain` is a recursive
  function; that it has a value at all is a lemma (`RetainDefined`).
* `SchedulerProofs`. Two forms of the scheduler are proved about: collects alone
  (`Spec`) and the pane with the user's work (`PaneSpec`); both call the same
  methods. The type (`SchedRecord`) says that queues hold jobs and `inflight` is
  a bag of them. Every method leans on `Retain` and `First`. `SpawnNextTakesFirst` says what `spawn_next` may take, and from it follow
  `CollectsStartInOrder` and `JobsStartInOrder`. `GateFollowsWrites` needs that
  the flag of writes is up only while a write is queued or on a worker and that
  neither write nor switch is ever in the background queue. `PaneFollowsCursor`
  needs the shape of the pane (`PaneShape`: one load on a worker or one in the
  queue, with the newest id) and that whatever leaves the pane behind leads to
  another load (`PaneIInv`). `SchedulerCollects` is the refinement of
  `StatusCollect`. Hiding the queues loses nothing only if the job that ends
  was the only one of its work: `JobsApart` (no walk and no status is outstanding
  twice) and `GensKnown` (every live generation was handed out, and a walk's
  statuses come after it) say so, and `Fit` carries them through every method.
* `WriteProofs`. `IInv` is the type, `OccupyMatchesWork` and one switch at
  a time. `occupy` alone does not exclude anything: it is the equivalence with
  live work that makes mutual exclusion follow. From it: `OccupancyHolds`,
  `MutualExclusion`, and `QueueOrderHolds`, where each action's slots are compared
  with the gitdirs it frees or takes.
* `ViewProofs`. What waits in a latest-only slot does not say whose slot is
  queued, because a view that clears its request leaves the slot behind.
  `SlotPerHeld` counts the kinds held per tag instead, and `SerialSlot` says that
  a serial kind has its one slot or its one job: `EveryRequestHasASlot`. Of
  `GraphPages` the module proves that blocked pages have the newest one on its way
  (`OlderPagesInSight`, inductive as it stands) and that the graph shown is what one
  `git log` prints (`PagesAreHistory`). The latter needs `Histories`: a page on a
  worker that is still the newest starts where the shown graph ends, because a
  graph that replaces it moves the generation on. `MergedWindow`, a recursive
  function, is proved to have a value and to continue the history.
  Of `GraphLanes`, `PictureIsHistory` follows the rails through all rows at once;
  `GInv` is about one row and its neighbour. `RowFits` says of a row that its
  stems up are exactly the lanes it took over and its stems down exactly those it
  hands on, that a rail of another commit keeps its lane, and that the rails which
  start at the commit are as many as its parents, one each (`Planned` carries this
  through the parents, `CellEnds` says which cells have an end up or down).
  `RowsFollow` chains the rows. In the spacer a rail may only take a lane that no
  rail before it took; `PartnerLeft` shows by counting that one is left: compacting
  gives every rail a lane of its own that waits for the same commit (`Carried`), so
  otherwise more rails than lanes would wait for it. `Traced`, which the picture
  is read from, is computed from the last row up (`TracedHolds`): `PictureHolds`.
* The rest of `GitRunsProofs` is about `FetchClaim`. The claim is held exactly while its holder works, so no
  other instance can write a record between a check and the end of the fetch:
  `ClaimExcludes`, `FetchesAreDue` (for every interval, any clock),
  `GenerationsAreFresh`. `OutcomeIsTheirs` adds that the record is the last
  entry of the history (`RecordIsLast`) and that an outcome written and not yet
  shown has its place in it (`OwnIsKnown`).
* The rest of `WriteProofs` is about `Persist`. Inside the lock a process's merge stays current
  (`MergeCurrent`), because whoever could change the store is outside. From it:
  `PersistType`, `NoLostUpdate`, and `PersistIsAtomic`, the refinement of
  `AtomicStore`: the rename is its `Save`, every early end its `Fail`, all else
  stutters.
* `TabProofs`. `CompareSettled` says nothing of a tab while a file list is on its
  way, and nothing of which diffs are. `TInv` says, of every open tab, that
  request numbers only grow, that the diffs of one request are of one file, and
  that the newest is of the file the tab names; a result that lands is then either
  dropped or of that file. Jobs of a closed tab may remain: they name a tab that is
  never opened again, which the strip's ids being distinct is needed for. From it:
  `TabsSettle`.
  Of the Explorer, `ExplorerSettled` says what waits has a job, and
  `ExplorerCatchesUp` speaks only of states where no job is left; neither says what
  a job will bring. `EInv` does, with versions of the disk: a job reads no version
  older than the one at which it left its queue (the `since` of `loads`). `TreeFits`
  says that a folder which waits has the listing of its newest request due, and
  that of every path marked as re-listed (`MarkFresh`) some folder on the way has
  been listed, or will be, at a version no older than one that reported the path.
  `FilesFit` says that generations grow, that loads of one generation are of the
  file and kind of its inner tab, and `Fresh`: what an inner tab shows, or the
  load it awaits will bring, is no older than the version its stamp was taken
  from. That is where a result that lands late is harmless: it is either of the
  generation that waits, hence read after the stamp, or dropped. Each method of
  the tab is proved to keep `TreeFits` and `FilesFit` whatever is on workers, so the
  keys, which compose five or six of them, need no invariant of their own.
  `TreeFits` has folders that are about to ask (`owed`) for the state between
  `expand` and `explorer_dir_loads`. From it: `ExplorerInvariant`,
  `ExplorerSettles`, `ExplorerFollowsDisk`.
* `PrProofs`. Methods of the cache are operators, so the proof says of each
  which part of `PrIInv` it keeps, and an action composes them. Records are on
  the branch of their row or there is none (`Follows`); without it a lookup
  that is dropped on landing could leave its record in flight. A lookup is
  queued once and not while it runs (`QueueApart`), so that the one which lands
  is the one a record waits for. A detail goes with the last record that names
  its key (`DetailsKnown`); that a fetch dropped on landing leaves no detail
  loading, unless clones share the remote, follows from it. Job numbers single
  out a job, and an awaited job is of the answer that shows or is outdated
  (`JobsFit`). A slot is there for each thing that waits (`Covered`). From it:
  `LookupsAreInSight`, `HostJudged`, `DetailsNotOlder` and, step by step,
  `BadgesStay`.
* `GitRunsProofs`. The type (`GitTypeOK`) ties a worker's place to its git, its
  git to the signals it may get, and the flag to the main thread's place. `Seen`:
  a registered git past its second look at the flag was in its slot when the
  slot was read; without that second look a git registered after the reading
  would be missed. `OnCourse` gives the checkout at each step of a job that
  nothing has spoiled: as found until the push, then stashed, then back; only
  changes to save, or the quit, lead to the push, and a refused push leads
  nowhere. From them: `GitTypeCorrect`, `StopCorrect`, `PullCorrect`.

They assume only the named assumptions on the constants. Finite bounds are not
assumed: they only restrict steps. `ExplorerAssumption` describes a tree of files
listed as the code flattens it, a folder above what is in it, and a disk of one
version or more. Five assumptions are there for the proofs: the kinds of `LatestOnly`, the checkouts of `Scheduler` and the clones of
`PrLookups` are finitely many, as they are in any session; a history of
`GraphPages` names a commit once, as `git log` prints it; and `MaxPane` of
`PaneLoad` leaves ids for the two loads that an input may ask for (the code's
ids are `u64`), without which the bound would cut a session short.

Only model-checked: all liveness (`CollectEnds`, `LocalDrains`, `PaneCatchesUp`,
`PendingStarts`, `RequestsEnd`, `LookupsEnd`, `RevealEnds`, `MapEnds`,
`OthersFollow`, `CompareCatchesUp`, `LockFreed`) and `RunsEnd`, which speaks of
enabled steps: both are out of the prover's reach.

## Abstractions

Job identifiers, outcome texts, status lines, toasts and painting are left out.
Each module's header says what else it omits. The larger ones:

* Rows of `RemoteQueue` are fixed: no checkout leaves the snapshot during its
  jobs (`gitdir_key` reads the snapshot each time, `effect.rs:774`, and would
  answer otherwise).
* Pending remote jobs are a set; the code's queue order is the fairness.
* A checkout of `GitRuns` belongs to its job: what the user does in it meanwhile
  with a git of their own is not modelled, nor are conflicts but as a git that
  fails.
* Views read a whole version of git at once: two commands of one worker that see
  different versions are modelled only where the code compares their answers
  (`CompareTabs`).
* Power loss is not modelled: `persist.rs` does not sync files.
* Files changed without the lock, by hand or by another program, are not
  modelled.
* `FetchClaim` does not model a store that is deleted while instances run,
  although the code applies a lower generation then (`state/mod.rs:6227`), nor
  ticks while a fetch without a claim runs.
* One running write is shown at a time: the interpreter's `running_write` label
  (`effect.rs:1083`) is text.

## Not modelled

* Painting (`render.rs`, `chrome.rs`, `popover.rs`, `help.rs`), terminal
  protocols, themes and settings: output and tables, with no order of events.
  They are most of the lines of the program.
* Pure functions of text and git output: parsing, diffs, word diffs, search,
  filters, labels, colours, the doctor's report. Their hazards are in strings,
  which unit tests reach better than a model.
* Drill, selection and tab parking (`drill.rs`, `state/tab_park.rs`) and most
  keys of `state/mod.rs`: synchronous changes of one thread's state. What
  workers bring into them is in the modules above.
* Discovery and snapshot: functions of the file system; `Scheduler` takes any
  result of a walk.
* The command line and the update check: one process, one step after the other.
* Parts of modelled components: the base picker, pinned tabs and reviewed marks
  of compare tabs; searches and ignored folders of the Explorer; the PRs tab; the
  eviction of cached answers; the guards of `reset_keep_to_upstream`.

## Plan

Done: the components above, in the order of the table of modules, and proofs of
`StatusCollect`, `Scheduler`, `PaneLoad`, `RemoteQueue`, `LatestOnly`,
`FetchClaim`, `Persist`, `ParallelMap`, `GitRuns`, `GraphPages`, `GraphLanes`,
`CompareTabs`, `ExplorerTab` and `PrLookups`.

Next:

1. `RemoteQueue` with rows that come and go, and the store of `FetchClaim`
   deleted under running instances.
2. The move of a branch to a rewritten upstream (`reset_keep_to_upstream`)
   beside fetches and the user's own git.
3. The PRs tab and the base picker.
