----------------------------- MODULE PrLookups -----------------------------
(***************************************************************************)
(* Pull request badges: tui/state/pull_request.rs and the queue of lookups *)
(* of tui/effect.rs.                                                       *)
(*                                                                         *)
(* Each checkout on a branch has a record of its lookup; answers and       *)
(* details belong to a remote and a branch, which clones may share.  Badge *)
(* lookups and details wait in queues of their own and share slots of the  *)
(* scheduler with `gx`, at most PrMax of them on workers.  `prs` holds the *)
(* PrCache and the queues; a method is an operator from one value of it to *)
(* the next, an action is one handler.                                     *)
(*                                                                         *)
(* Left out: checkouts without a remote on a forge, remotes that change,   *)
(* more than one forge host, PR titles, CI pages and remote views (they    *)
(* take a slot of their own and land nothing here), and the limit after    *)
(* which alerts no longer wait for the last lookup.                        *)
(***************************************************************************)
EXTENDS Naturals, SequencesExt, FiniteSetsExt

CONSTANTS Clones,      \* checkouts
          Remotes,     \* ways in which they share remotes: [Clones -> remotes]
          Branches,    \* local branches
          Gone,        \* no row, or a detached HEAD
          Facts,       \* what the forge can say of a branch's pull request
          PrMax,       \* PR_BADGE_LOOKUPS_MAX
          MaxPrInput   \* bound: statuses, keys and poll cycles

ASSUME PrLookupsAssumption ==
    /\ IsFiniteSet(Clones) /\ \A r \in Remotes : DOMAIN r = Clones
    /\ Gone \notin Branches
    /\ Facts \intersect {"none", "failed", "no"} = {}
    /\ PrMax \in Nat \ {0} /\ MaxPrInput \in Nat

VARIABLES remoteOf,    \* the remote of each clone, fixed
          snap,        \* per clone: branch, and whether its row counts
          prs,         \* PrCache, and the queues of the interpreter
          watched,     \* clones whose PR a popover or the PRs tab shows
          prInputs     \* inputs so far

prVars == <<remoteOf, snap, prs, watched, prInputs>>

PrKey(c, b) == <<remoteOf[c], b>>
PrKeys == {PrKey(c, b) : c \in Clones, b \in Branches}
SnapKey(c) == PrKey(c, snap[c].branch)

Ready == Facts \union {"no"}

-----------------------------------------------------------------------------
(* Records. *)

\* CheckoutPr::new.
Fresh(b, inFlight) ==
    [branch |-> b, remote |-> FALSE, inFlight |-> inFlight, again |-> FALSE, cycle |-> 0, failed |-> FALSE]
NoRecord == Fresh(Gone, FALSE)

\* pr_rows: visible, on a branch that is not known to be the default one.
Counts(c) == snap[c].counted

Current(s, c) == s.record[c].branch = snap[c].branch

\* Details; `of` is the answer at the time of the request (a ghost).
NoDetail == [has |-> "none", req |-> 0, due |-> "no", again |-> FALSE, of |-> "none"]

\* pull_request_for.
Shows(s, c) ==
    /\ s.record[c] # NoRecord /\ Current(s, c) /\ s.record[c].remote
    /\ s.answer[SnapKey(c)] \in Facts

\* Mutant: the new fetch that is out counts for the newer answer too.
MarkDetail_Once(d) ==
    IF d.has = "none" \/ d.due = "loading" THEN d ELSE [d EXCEPT !.due = "due"]

MarkDetail(d) ==
    IF d.has = "none" THEN d
    ELSE IF d.due = "loading" THEN [d EXCEPT !.again = TRUE]
    ELSE [d EXCEPT !.due = "due"]

\* Another PR, or none, drops the detail; news of the same one renew it.
SetAnswer(s, k, a) ==
    IF s.answer[k] = a THEN s
    ELSE [s EXCEPT !.answer[k] = a,
                   !.detail[k] = IF {s.answer[k], a} \subseteq Facts THEN MarkDetail(@) ELSE NoDetail]

\* The one outage of the forge host ends once no record fails on it.
Settle(s) == [s EXCEPT !.outage = @ /\ \E c \in Clones : s.record[c].failed]

-----------------------------------------------------------------------------
(* Polls that fail back the host off. *)

\* Mutant: every failed lookup of a cycle counts.
HostFails_Each(h, cycle) == [h EXCEPT !.failures = @ + 1, !.failedCycle = cycle]

\* One failure per cycle, and none if the host answered since it started.
HostFails(h, cycle) ==
    IF h.okAt >= cycle \/ h.failedCycle >= cycle THEN h
    ELSE [h EXCEPT !.failures = @ + 1, !.failedCycle = cycle]

\* Time is counted in cycles: now is after the start of the last one.
HostAnswers(h, now) == [h EXCEPT !.failures = 0, !.okAt = now]

-----------------------------------------------------------------------------
(* Landing. *)

\* Mutant: a failure replaces the known answer.
PrLand_Drops(s, c, b, a, cycle) ==
    SetAnswer([s EXCEPT !.record[c].failed = (a = "failed"), !.outage = @ \/ a = "failed",
                        !.record[c].remote = TRUE],
              PrKey(c, b), a)

\* PrCache::land and note_pr_landing.  A failure keeps a known answer.
PrLand(s, c, b, a, cycle) ==
    LET k == PrKey(c, b)
    IN IF a = "failed"
       THEN LET known == s.record[c].remote /\ s.answer[k] \in Ready
                t == [s EXCEPT !.record[c].failed = TRUE, !.outage = TRUE,
                               !.record[c].remote = TRUE,
                               !.host = IF cycle = 0 THEN @ ELSE HostFails(@, cycle)]
            IN IF known THEN t ELSE SetAnswer(t, k, "failed")
       ELSE LET news == s.answer[k] \in Facts /\ s.answer[k] # a
                t == [s EXCEPT !.record[c].failed = FALSE, !.record[c].remote = TRUE,
                               !.host = HostAnswers(@, s.cycle),
                               !.alert = @ \/ news]
            IN Settle(SetAnswer(t, k, a))

\* fill_pr_badge_slots.
Fill(s) ==
    LET free   == PrMax - s.busy
        wanted == Len(s.opens) + Min({Len(s.queue) + Cardinality(s.asks), free})
    IN [s EXCEPT !.slots = Max({@, wanted})]

\* Effect::LookupPullRequests: a lookup that waits or runs is not repeated.
Queue(s, targets) ==
    Fill([s EXCEPT !.queue = @ \o SetToSeq(targets \ (ToSet(s.queue) \union s.running))])

\* A detail to fetch: none yet, or one that waits for a new fetch.
Wants(s, c) ==
    LET d == s.detail[SnapKey(c)]
    IN Shows(s, c) /\ (d.has = "none" \/ (d.has # "loading" /\ d.due = "due"))

DetailAsked(d, r) ==
    IF d.has = "none" THEN [NoDetail EXCEPT !.has = "loading", !.req = r]
    ELSE [d EXCEPT !.req = r, !.due = "loading", !.again = FALSE]

\* request_pr_details: one numbered fetch for all clones of a detail.
AskDetails(s, clones) ==
    LET wanting == {c \in clones : Wants(s, c)}
        order   == SetToSeq({SnapKey(c) : c \in wanting})
        job(i)  == [clone |-> CHOOSE c \in wanting : SnapKey(c) = order[i], key |-> order[i],
                    req |-> s.last + i, of |-> s.answer[order[i]]]
    IN Fill([s EXCEPT !.last = @ + Len(order),
                      !.asks = @ \union {job(i) : i \in DOMAIN order},
                      !.detail = [k \in PrKeys |->
                          IF \E i \in DOMAIN order : order[i] = k
                          THEN DetailAsked(@[k], s.last + CHOOSE i \in DOMAIN order : order[i] = k)
                          ELSE @[k]]])

\* Mutant: a new fetch of a detail that shows is not awaited.
Awaited_First(s, j) == s.detail[j.key].req = j.req /\ s.detail[j.key].has = "loading"

Awaited(s, j) ==
    LET d == s.detail[j.key]
    IN d.req = j.req /\ (d.has = "loading" \/ d.due = "loading")

\* apply_pr_detail: a failed new fetch keeps the old detail.
DetailLanded(d, j, ok) ==
    [d EXCEPT !.has = IF ok \/ (d.due = "loading" /\ d.has = "ready") THEN "ready" ELSE "failed",
              !.due = IF d.due = "due" \/ d.again THEN "due" ELSE "no",
              !.again = FALSE,
              !.of = IF ok THEN j.of ELSE "failed"]

\* release_pr_badge and after_pr_badge: alert once no lookup is left.
AfterBadge(s) ==
    Fill([s EXCEPT !.alert = @ /\ (s.queue # <<>> \/ s.running # {})])

SettleDropped(s) == Settle(s)

\* due_pr_lookups: the records follow the snapshot `to`; a record that is
\* new, or that `r` marked, is looked up.
Synced(s, to) ==
    LET lasting == {c \in Clones : to[c].counted /\ s.record[c].branch = to[c].branch}
        due     == {c \in Clones : to[c].counted /\ (c \notin lasting \/ s.record[c].again)}
        synced  == [c \in Clones |->
                       IF c \in lasting
                       THEN IF c \in due
                            THEN [s.record[c] EXCEPT !.again = FALSE, !.inFlight = TRUE, !.cycle = 0]
                            ELSE s.record[c]
                       ELSE IF to[c].counted THEN Fresh(to[c].branch, TRUE) ELSE NoRecord]
        live    == {PrKey(c, synced[c].branch) : c \in {d \in Clones : synced[d].remote}}
        pruned  == [s EXCEPT !.record = synced,
                             !.answer = [k \in PrKeys |-> IF k \in live THEN @[k] ELSE "none"],
                             !.detail = [k \in PrKeys |-> IF k \in live THEN @[k] ELSE NoDetail]]
    IN Queue(IF \E c \in Clones \ lasting : s.record[c] # NoRecord THEN SettleDropped(pruned) ELSE pruned,
             {<<c, to[c].branch>> : c \in due})

-----------------------------------------------------------------------------
(* Handlers. *)

\* No status has landed yet, or those of the first walk have, as one input.
PrInit ==
    /\ remoteOf \in Remotes
    /\ \/ prInputs = 0 /\ snap = [c \in Clones |-> [branch |-> Gone, counted |-> FALSE]]
       \/ prInputs = 1 /\ snap \in [Clones -> [branch : Branches, counted : {TRUE}]]
    /\ prs = Synced([record |-> [c \in Clones |-> NoRecord],
              answer |-> [k \in PrKeys |-> "none"], detail |-> [k \in PrKeys |-> NoDetail],
              last |-> 0, outage |-> FALSE, alert |-> FALSE, cycle |-> 0,
              host |-> [failures |-> 0, failedCycle |-> 0, okAt |-> 0],
              queue |-> <<>>, running |-> {}, asks |-> {}, asking |-> {},
              opens |-> <<>>, opening |-> {}, slots |-> 0, busy |-> 0], snap)
    /\ watched = {}

PrInput == prInputs < MaxPrInput /\ prInputs' = prInputs + 1

\* An applied status or walk: the row is on branch `b`, or gone; it does not
\* count when it is hidden or `b` is the default branch.
StatusApplied(c, b, counted) ==
    /\ PrInput /\ (counted => b # Gone)
    /\ snap' = [snap EXCEPT ![c] = [branch |-> b, counted |-> counted]]
    /\ prs' = Synced(prs, snap')
    /\ UNCHANGED <<remoteOf, watched>>

\* forget_pr_lookups: `r` on a checkout, or on all; the status follows.
ForgetLookups(clones) ==
    /\ PrInput
    /\ LET marked == {c \in clones : prs.record[c] # NoRecord}
           dropped == IF clones = Clones THEN PrKeys
                      ELSE {PrKey(c, prs.record[c].branch) : c \in {d \in marked : prs.record[d].remote}}
       IN prs' = [prs EXCEPT !.record = [c \in Clones |-> [prs.record[c] EXCEPT !.again = @ \/ c \in marked]],
                             !.detail = [k \in PrKeys |-> IF k \in dropped THEN NoDetail ELSE @[k]]]
    /\ UNCHANGED <<remoteOf, snap, watched>>

\* Records that a poll or a refresh may look up.
Settled(s) == {c \in Clones : Counts(c) /\ Current(s, c) /\ s.record[c].remote /\ ~s.record[c].inFlight}

Targets(clones) == {<<c, snap[c].branch>> : c \in clones}

\* pr_poll_tick: all that failed, and of the others those whose request is
\* open or may come.  A host that backs off skips the cycle.
PrPollTick(due) ==
    /\ PrInput /\ due # {} /\ due \subseteq Settled(prs)
    /\ \A c \in Settled(prs) : prs.record[c].failed => c \in due
    /\ LET now == prs.cycle + 1
       IN prs' = Queue([prs EXCEPT !.cycle = now,
                                   !.record = [c \in Clones |-> IF c \in due
                                       THEN [@[c] EXCEPT !.inFlight = TRUE, !.cycle = now] ELSE @[c]]],
                       Targets(due))
    /\ UNCHANGED <<remoteOf, snap, watched>>

\* refresh_pull_requests, of one clone or of all.
RefreshPrs(clones) ==
    LET due == clones \intersect Settled(prs)
    IN /\ PrInput /\ due # {}
       /\ prs' = Queue([prs EXCEPT
                            !.record = [c \in Clones |->
                                IF c \in due THEN [@[c] EXCEPT !.inFlight = TRUE] ELSE @[c]],
                            !.detail = [k \in PrKeys |->
                                IF k \in {SnapKey(c) : c \in due} THEN MarkDetail(@[k]) ELSE @[k]]],
                       Targets(due))
       /\ UNCHANGED <<remoteOf, snap, watched>>

\* gx: a lookup of its own that opens the browser.
OpenPr(c) ==
    /\ PrInput /\ snap[c].branch # Gone
    /\ prs' = [prs EXCEPT !.opens = Append(@, [id |-> prInputs, clone |-> c, branch |-> snap[c].branch]),
                          !.slots = @ + 1]
    /\ UNCHANGED <<remoteOf, snap, watched>>

\* A popover or the PRs tab opens on these clones, or closes.
PeekPrs(clones) ==
    /\ PrInput
    /\ watched' = clones
    /\ prs' = IF clones = {} THEN prs ELSE AskDetails(prs, clones)
    /\ UNCHANGED <<remoteOf, snap>>

\* Details that are awaited no more are skipped.
StillAsked(s) == {j \in s.asks : Awaited(s, j)}

\* A slot of UserTag::PullRequest: `gx` first, then details, in the order of
\* their numbers, then badges.
SpawnPr ==
    LET s    == [prs EXCEPT !.slots = @ - 1]
        left == StillAsked(s)
        next == CHOOSE j \in left : \A i \in left : j.req <= i.req
    IN /\ prs.slots > 0
       /\ prs' = IF s.opens # <<>>
                 THEN [s EXCEPT !.opens = Tail(@), !.opening = @ \union {Head(s.opens)}]
                 ELSE IF s.busy >= PrMax THEN s
                 ELSE IF left # {}
                 THEN [s EXCEPT !.asks = {j \in @ : j.req > next.req}, !.asking = @ \union {next},
                                !.busy = @ + 1]
                 ELSE IF s.queue # <<>>
                 THEN [s EXCEPT !.asks = {}, !.queue = Tail(@), !.running = @ \union {Head(s.queue)},
                                !.busy = @ + 1]
                 ELSE [s EXCEPT !.asks = {}]
       /\ UNCHANGED <<remoteOf, snap, watched, prInputs>>

Released(s, t) == [s EXCEPT !.running = @ \ {t}, !.busy = @ - 1]

\* JobOutcome::PullRequestBadge; `t` is a clone and a branch.
BadgeLands(t, a) ==
    LET c == t[1]
        s == Released(prs, t)
        taken == [s EXCEPT !.record[c].inFlight = FALSE, !.record[c].cycle = 0]
    IN /\ t \in prs.running
       /\ prs' = AfterBadge(IF snap[c].branch = t[2] /\ s.record[c].branch = t[2]
                            THEN AskDetails(PrLand(taken, c, t[2], a, s.record[c].cycle), watched)
                            ELSE s)
       /\ UNCHANGED <<remoteOf, snap, watched, prInputs>>

\* Mutant: the record of a panicked lookup stays in flight.
BadgePanics_Leak(t) ==
    /\ t \in prs.running
    /\ prs' = AfterBadge(Released(prs, t))
    /\ UNCHANGED <<remoteOf, snap, watched, prInputs>>

BadgePanics(t) ==
    LET s == Released(prs, t)
    IN /\ t \in prs.running
       /\ prs' = AfterBadge(IF s.record[t[1]].branch = t[2]
                            THEN [s EXCEPT !.record[t[1]].inFlight = FALSE, !.record[t[1]].cycle = 0]
                            ELSE s)
       /\ UNCHANGED <<remoteOf, snap, watched, prInputs>>

\* JobOutcome::PullRequestDetail; a panic is a failure.
DetailLands(j, ok) ==
    LET s == [prs EXCEPT !.asking = @ \ {j}, !.busy = @ - 1]
        c == j.clone
        current == Shows(s, c) /\ PrKey(c, s.record[c].branch) = j.key
    IN /\ j \in prs.asking
       /\ prs' = Fill(IF current /\ Awaited(s, j)
                      THEN AskDetails([s EXCEPT !.detail[j.key] = DetailLanded(@, j, ok)], watched)
                      ELSE s)
       /\ UNCHANGED <<remoteOf, snap, watched, prInputs>>

\* JobOutcome::PullRequestOpen.  A clone without a record gets one; the
\* answer for a branch the clone has left is kept all the same.
OpenLands(o, a) ==
    LET c == o.clone
        s == [prs EXCEPT !.opening = @ \ {o}]
        t == IF s.record[c].branch = o.branch THEN s ELSE [s EXCEPT !.record[c] = Fresh(o.branch, FALSE)]
        landed == IF snap[c].branch = o.branch
                  THEN LET r == PrLand(t, c, o.branch, a, 0)
                       IN IF s.record[c] \notin {t.record[c], NoRecord} THEN Settle(r) ELSE r
                  ELSE SetAnswer(s, PrKey(c, o.branch), a)
    IN /\ o \in prs.opening
       /\ prs' = [landed EXCEPT !.alert = @ /\ (s.queue # <<>> \/ s.running # {})]
       /\ UNCHANGED <<remoteOf, snap, watched, prInputs>>

OpenPanics(o) ==
    /\ o \in prs.opening
    /\ prs' = [prs EXCEPT !.opening = @ \ {o}]
    /\ UNCHANGED <<remoteOf, snap, watched, prInputs>>

Answers == Facts \union {"no", "failed"}

PrNext ==
    \/ \E c \in Clones, b \in Branches \union {Gone}, counted \in BOOLEAN : StatusApplied(c, b, counted)
    \/ \E clones \in {{c} : c \in Clones} \union {Clones} : ForgetLookups(clones)
    \/ \E due \in SUBSET Clones : PrPollTick(due)
    \/ \E clones \in {{c} : c \in Clones} \union {Clones} : RefreshPrs(clones)
    \/ \E c \in Clones : OpenPr(c)
    \/ \E clones \in {{c} : c \in Clones} \union {Clones, {}} : PeekPrs(clones)
    \/ SpawnPr
    \/ \E t \in prs.running, a \in Answers : BadgeLands(t, a)
    \/ \E t \in prs.running : BadgePanics(t)
    \/ \E j \in prs.asking, ok \in BOOLEAN : DetailLands(j, ok)
    \/ \E o \in prs.opening, a \in Answers : OpenLands(o, a)
    \/ \E o \in prs.opening : OpenPanics(o)

\* The loop spawns after every event, and forge commands have a deadline.
\* Weak fairness of the four, each written with what enables it.
PrFairness ==
    /\ []<>(prs.slots = 0)    \/ []<><<prs'.slots < prs.slots>>_prVars
    /\ []<>(prs.running = {}) \/ []<><<prs.running \ prs'.running # {}>>_prVars
    /\ []<>(prs.asking = {})  \/ []<><<prs.asking \ prs'.asking # {}>>_prVars
    /\ []<>(prs.opening = {}) \/ []<><<prs.opening \ prs'.opening # {}>>_prVars

PrSpec == PrInit /\ [][PrNext]_prVars /\ PrFairness

-----------------------------------------------------------------------------
(* Properties *)

Sharing(k) == {c \in Clones : remoteOf[c] = k[1]}

\* A record in flight has a lookup that waits or runs, or no poll, refresh or
\* status would ever look it up again.
BadgesInSight ==
    \A c \in Clones : prs.record[c].inFlight =>
        <<c, prs.record[c].branch>> \in ToSet(prs.queue) \union prs.running

\* A detail that loads has its fetch queued or on a worker, unless the clone
\* it was asked for has left the branch that another clone still shows.
DetailsInSight ==
    \A k \in PrKeys : prs.detail[k].has = "loading" \/ prs.detail[k].due = "loading" =>
        \/ \E j \in prs.asks \union prs.asking : j.key = k /\ j.req = prs.detail[k].req
        \/ Cardinality(Sharing(k)) > 1

\* The workers are counted right, and whatever waits has a slot as far as
\* workers are free.
SlotsInSight ==
    /\ prs.busy = Cardinality(prs.running) + Cardinality(prs.asking) /\ prs.busy <= PrMax
    /\ prs.slots >= Len(prs.opens)
                    + Min({Len(prs.queue) + Cardinality(StillAsked(prs)), PrMax - prs.busy})

\* Nothing is forgotten: what is shown as under way is under way.
LookupsInSight == BadgesInSight /\ DetailsInSight /\ SlotsInSight

OutageIsShown == prs.outage <=> \E c \in Clones : prs.record[c].failed
BackoffPerCycle ==
    prs.host.failures > 0 => prs.host.failures + prs.host.okAt <= prs.host.failedCycle

\* The outage shows exactly while a record's last lookup failed, whichever
\* records come and go; and a cycle backs the host off once at most, and not
\* at all if the host answered since the cycle started, however cycles overlap.
HostIsJudged == OutageIsShown /\ BackoffPerCycle

\* A detail that is not due was fetched for the answer that the badge shows,
\* unless that fetch failed.
DetailNotOlder ==
    \A k \in PrKeys : prs.detail[k].has = "ready" /\ prs.detail[k].due = "no" =>
        prs.detail[k].of \in {prs.answer[k], "failed"}

\* pr_mark.
Mark(c) ==
    IF prs.record[c] # NoRecord /\ Current(prs, c) /\ prs.record[c].remote
    THEN prs.answer[SnapKey(c)] ELSE "none"

\* A failed lookup costs no known badge, but for that of another clone of the
\* same remote on the same branch.
BadgeStays ==
    [][\A c \in Clones : Mark(c) \in Ready /\ Mark(c)' = "failed" =>
          Cardinality(Sharing(SnapKey(c))) > 1]_prVars

\* Lookups, details, openings and alerts all end.
LookupsEnd ==
    <>[](/\ prs.queue = <<>> /\ prs.opens = <<>> /\ StillAsked(prs) = {} /\ ~prs.alert
         /\ \A c \in Clones : ~prs.record[c].inFlight)
=============================================================================
