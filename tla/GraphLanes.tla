----------------------------- MODULE GraphLanes -----------------------------
(***************************************************************************)
(* The gutter of the commit graph: workspace-status-graph, layout.rs,      *)
(* topology.rs, stash.rs and the stash pass of paint.rs.                   *)
(*                                                                         *)
(* layout_commits walks the loaded commits from the newest to the oldest.  *)
(* `active` says which commit each lane waits for; a row gets a lane, opens*)
(* lanes for further parents, joins the lanes that waited for it, and what *)
(* stays live moves left.  One action is one turn of that loop.  What is   *)
(* checked is the picture: following the rails from a commit down the rows *)
(* leads to its parents and nowhere else.                                  *)
(*                                                                         *)
(* A commit is its position, 1 the newest; a parent is older, and may be   *)
(* one that is not loaded (git log --date-order shows children first).  A  *)
(* cell is the set of its connections.  Left out: the columns between two  *)
(* lanes (they hold what the bridge between the lanes holds), colours, the *)
(* clip to the pane's width, and rows other than commits and stashes.      *)
(***************************************************************************)
EXTENDS Naturals, FiniteSetsExt, Queues

CONSTANTS Rows,         \* commits loaded
          Unloaded,     \* older commits that are parents but not loaded
          MaxParents,   \* bound: parents of a commit
          MaxStashes    \* bound: stashes on one commit

ASSUME GraphAssumption == Rows \in Nat /\ Unloaded \in Nat

VARIABLES parents,      \* parents of each commit read so far, in git's order
          active,       \* per lane, the commit its rail waits for
          laid          \* the rows laid out so far

graphVars == <<parents, active, laid>>

Ids == 1..(Rows + Unloaded)

\* Lists of distinct older commits.
ParentLists(c) ==
    UNION {SetToSeqs(S) : S \in {T \in SUBSET {p \in Ids : p > c} : Cardinality(T) <= MaxParents}}

\* No rail: an entry of `active` is a commit or this.
None == 0

\* Lanes are counted from 1 here.
Lanes(s) == DOMAIN s
LanesOf(s, id) == {l \in Lanes(s) : s[l] = id}

-----------------------------------------------------------------------------
(* Lane assignment. *)

\* The first lane that waits for the commit, else a free one, else a new one.
Placed(s, c) ==
    IF LanesOf(s, c) # {} THEN s
    ELSE IF LanesOf(s, None) # {} THEN [s EXCEPT ![Min(LanesOf(s, None))] = c]
    ELSE Append(s, c)
LaneOf(s, c) == CHOOSE l \in LanesOf(s, c) : \A k \in LanesOf(s, c) : l <= k

\* Further parents: link to the lane that already waits for the parent, or
\* take the first free lane right of the commit, else a new one.
AddParent(lane, plan, p) ==
    LET there == LanesOf(plan.next, p)
        free  == {l \in LanesOf(plan.next, None) : l > lane}
    IN IF there # {}
       THEN [plan EXCEPT !.linked = IF Min(there) = lane THEN @ ELSE @ \union {Min(there)}]
       ELSE LET l == IF free # {} THEN Min(free) ELSE Len(plan.next) + 1
            IN [plan EXCEPT !.next = IF l > Len(@) THEN Append(@, p) ELSE [@ EXCEPT ![l] = p],
                            !.opened = @ \union {l}]

PlanParents(s, lane, ps) ==
    LET first == [next |-> [s EXCEPT ![lane] = IF ps = <<>> THEN None ELSE ps[1]],
                  opened |-> {}, linked |-> {}]
    IN FoldLeft(LAMBDA plan, p : AddParent(lane, plan, p), first, SubSeq(ps, 2, Len(ps)))

\* The lanes that waited for the commit beside its own end in its row.
Incoming(s, lane, c) == LanesOf(s, c) \ {lane}

\* Mutants: a join that leaves its waiter behind; a gap that stays.
CloseJoined_Keep(next, joins) == next

CloseJoined(next, joins) == [l \in DOMAIN next |-> IF l \in joins THEN None ELSE next[l]]

\* Live lanes move left over the closed ones.
CompactActive(next) == Retain(next, Ids)

-----------------------------------------------------------------------------
(* Cells: connections that accumulate until a glyph is chosen. *)

Toward(from, to) == IF from > to THEN "left" ELSE "right"

Between(a, b) == (Min({a, b}) + 1)..(Max({a, b}) - 1)

\* What a connector from `lane` to `to` adds to the cell of lane `l`.
Connector(l, lane, to, vertical) ==
    IF l = to THEN vertical \union {Toward(to, lane)}
    ELSE IF l \in Between(lane, to) THEN {"left", "right"} ELSE {}

Cell(l, lane, verticals, joins, linked, opened) ==
    (IF l \in verticals THEN {"up", "down"} ELSE {})
    \union (UNION {Connector(l, lane, to, {"up"}) : to \in joins})
    \union (UNION {Connector(l, lane, to, {}) : to \in linked})
    \union (UNION {Connector(l, lane, to, {"down"}) : to \in opened})

\* The rails that enter and leave a row, by the commit they wait for.  The
\* node always has a stem up; it has one down if the commit has a parent.
StemUp(row) ==
    [l \in {k \in DOMAIN row.cells : k = row.lane \/ "up" \in row.cells[k]} |->
        IF l \in row.joins \union {row.lane} THEN row.commit ELSE row.before[l]]

StemDown(row) ==
    [l \in {k \in DOMAIN row.cells :
               IF k = row.lane THEN parents[row.commit] # <<>> ELSE "down" \in row.cells[k]} |->
        IF l = row.lane THEN parents[row.commit][1]
        ELSE IF l \in row.opened THEN row.after[l] ELSE row.before[l]]

\* The row of commit `c` with parents `ps`: what layout_commits pushes for it.
Row(c, ps) ==
    LET s        == Placed(active, c)
        lane     == LaneOf(s, c)
        joins    == Incoming(s, lane, c)
        plan     == PlanParents(s, lane, ps)
        next     == CloseJoined(plan.next, joins)
        verticals == {l \in Lanes(s) : l # lane} \ joins
        width    == Max({lane, Len(s)} \union LanesOf(s, c) \union plan.opened \union plan.linked
                        \union {l \in DOMAIN next : next[l] # None})
    IN [commit |-> c, lane |-> lane, joins |-> joins, opened |-> plan.opened,
        starts |-> plan.opened \union plan.linked
                   \union (IF ps = <<>> THEN {} ELSE {lane}),
        before |-> s, after |-> next,
        cells |-> [l \in 1..width |-> Cell(l, lane, verticals, joins, plan.linked, plan.opened)]]

-----------------------------------------------------------------------------
(* The spacer between two rows: each rail that leaves the upper row bends to *)
(* the column at which the lower row expects it.                             *)

\* Mutant: the columns decide, whatever the rail waits for.
Partner_Column(up, used, from, id) ==
    IF from \in DOMAIN up \ used THEN {from} ELSE {}

\* The same column if that waits for the same commit, else the first that does.
Partner(up, used, from, id) ==
    LET free == {l \in DOMAIN up \ used : up[l] = id}
    IN IF from \in free THEN {from} ELSE IF free # {} THEN {Min(free)} ELSE {}

MatchStems(down, up) ==
    FoldLeft(LAMBDA pairs, from :
                 pairs \union {<<from, to>> : to \in Partner(up, {p[2] : p \in pairs}, from, down[from])},
             {}, Retain([l \in 1..Max(DOMAIN down \union {0}) |-> l], DOMAIN down))

-----------------------------------------------------------------------------
(* Stashes: tips on free lanes directly above the commit they were made on. *)

\* A lane no rail of the gap uses, nor the parent, nor a sibling.
LeafLane(taken) == CHOOSE l \in 1..(Cardinality(taken) + 1) :
                       l \notin taken /\ \A k \in 1..(l - 1) : k \in taken

\* `n` stashes stacked on the commit of a row, the first one on top.
LeafLanes(row, n) ==
    LET live == DOMAIN StemUp(row) \union {row.lane}
    IN FoldLeft(LAMBDA lanes, i : lanes \union {LeafLane(live \union lanes)},
                {}, [i \in 1..n |-> i])

\* One connection up or down, or left or right, is drawn as a whole line.
Drawn(cell) ==
    IF cell \in {{"left"}, {"right"}} THEN {"left", "right"}
    ELSE IF cell \in {{"up"}, {"down"}} THEN {"up", "down"} ELSE cell

Vertical(glyph)   == {"up", "down"} \subseteq glyph \/ glyph \in {{"left", "right", "up"}, {"left", "right", "down"}}
Horizontal(glyph) == glyph # {"up", "down"} /\ ~(glyph \in {{"left", "up", "down"}, {"right", "up", "down"}})

\* merge_join_overlay_cell: glyphs, not connections, are merged.
MergeOverlay(base, over) ==
    IF over = {} THEN base
    ELSE IF base = {} THEN over
    ELSE IF Vertical(base) /\ Horizontal(over) THEN {"up", "down", "left", "right"} ELSE over

JoinOverlay(l, lane, leaves) ==
    Drawn(UNION {Connector(l, lane, to, {"up"}) : to \in leaves})

\* The commit's row once the joins of `n` stashes are laid over it.
JoinedCell(row, n, l) ==
    LET base == IF l \in DOMAIN row.cells THEN Drawn(row.cells[l]) ELSE {}
    IN MergeOverlay(base, JoinOverlay(l, row.lane, LeafLanes(row, n)))

-----------------------------------------------------------------------------

GraphInit == parents = <<>> /\ active = <<>> /\ laid = <<>>

\* One turn of the loop of layout_commits, on a commit with parents `ps`.
LayOut(ps) ==
    LET row == Row(Len(laid) + 1, ps)
    IN /\ parents' = Append(parents, ps)
       /\ laid' = Append(laid, row)
       /\ active' = CompactActive(row.after)

GraphNext ==
    Len(laid) < Rows /\ \E ps \in ParentLists(Len(laid) + 1) : LayOut(ps)

GraphSpec == GraphInit /\ [][GraphNext]_graphVars

-----------------------------------------------------------------------------
(* Properties *)

Lost == Rows + Unloaded + 1
Open == Rows + Unloaded + 2

\* Where the rails that leave row i lead, by lane, given where those that
\* leave the row below lead: to a commit, or to `Lost` if the picture breaks
\* them off.
LeadsFrom(i, below) ==
    LET down  == StemDown(laid[i])
        next  == laid[i + 1]
        pairs == MatchStems(down, StemUp(next))
        to(l) == {p[2] : p \in {q \in pairs : q[1] = l}}
        on(t) == IF t \in next.joins \union {next.lane} THEN next.commit
                 ELSE IF t \in DOMAIN below THEN below[t] ELSE Lost
    IN [l \in DOMAIN down |-> IF to(l) = {} THEN Lost ELSE on(Min(to(l)))]

\* The same of every row; the rails of the last one are `Open`.
Traced ==
    LET leads[i \in DOMAIN laid] ==
            IF i = Len(laid) THEN [l \in DOMAIN StemDown(laid[i]) |-> Open]
            ELSE LeadsFrom(i, leads[i + 1])
    IN leads

\* The rails that start at a commit lead to its parents, one each, or leave
\* the window below; none breaks off, and none leads elsewhere.
RailsLeadToParents ==
    LET traced == Traced
    IN \A i \in DOMAIN traced :
          LET leads == traced[i]
              ends  == {IF l \in DOMAIN leads THEN leads[l] ELSE Lost : l \in laid[i].starts}
          IN /\ ends \ {Open} = {p \in ToSet(parents[i]) : p <= Len(laid)}
             /\ Cardinality(laid[i].starts) = Len(parents[i])

\* Every rail on its way belongs to a shown commit and waits for a parent
\* that is not shown yet.
NoGhostRails ==
    \A l \in DOMAIN active :
        active[l] > Len(laid) /\ \E i \in DOMAIN laid : active[l] \in ToSet(parents[i])

\* However tips, merges, joins and unloaded parents mix, and wherever lanes
\* move left, what is painted is the history: rails lead from a commit to its
\* parents, and no other rail is on its way.
PictureIsHistory == RailsLeadToParents /\ NoGhostRails

\* docs/git-graph-topology.md:49 gives "left + up + down" a junction of its
\* own, and :189 rejects that "Wrong rails look terminated": laying a stash
\* join over a commit's row keeps every rail of the row connected.
StashJoinKeepsRails ==
    \A i \in DOMAIN laid, n \in 1..MaxStashes : \A l \in DOMAIN laid[i].cells \ {laid[i].lane} :
        laid[i].cells[l] \intersect {"up", "down"} \subseteq JoinedCell(laid[i], n, l)
=============================================================================
