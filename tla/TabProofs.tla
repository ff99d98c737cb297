------------------------------ MODULE TabProofs ------------------------------
(***************************************************************************)
(* Proofs about the tabs: CompareTabs, for any HEADs, files and rows, and  *)
(* any number of tabs and jobs; then ExplorerTab, for any tree of a        *)
(* checkout and any versions of its disk, and any number of jobs.          *)
(*                                                                         *)
(* CompareSettled says nothing of a tab while a file list is on its way,   *)
(* and nothing of the jobs of a tab.  The inductive invariant TInv says,   *)
(* of every open tab, which of its diffs the tab will take: requests only  *)
(* grow, the diffs of one request are of one file, and the newest is of    *)
(* the file that the tab names.  Jobs of a closed tab may remain, and name *)
(* a tab that is never opened again.                                       *)
(*                                                                         *)
(* ExplorerSettled and ExplorerCatchesUp speak of a tab for which nothing  *)
(* is on its way, so neither says what the jobs on their way will bring.   *)
(* The inductive invariant EInv says it with versions of the disk.  A job  *)
(* reads no version older than the one at which it left the queue; an      *)
(* inner tab whose stamp was taken from version w shows, or has a load     *)
(* that brings, something no older than w; a path marked as re-listed was  *)
(* reported at some version, and one folder on the way to it has been      *)
(* listed, or will be, at that version or later.  Every method of the tab  *)
(* keeps this of the state it is given, whatever is on workers, so what is *)
(* proved of one method is used wherever another calls it.                 *)
(***************************************************************************)
EXTENDS CompareTabs, ExplorerTab, QueueProofs

-----------------------------------------------------------------------------
(* Compare tabs: the inductive invariant *)

UiFields == {"strip", "active", "tabs", "snapshot", "range", "diff", "probe"}
TabFields == {"kind", "gen", "req", "loading", "error", "source", "seen", "rows", "path", "cursor",
              "shown", "stamp"}

\* The strip names open tabs, each once.
TabsShape(s) ==
    /\ DOMAIN s = UiFields
    /\ Listed(s.strip) /\ Listed(s.tabs) /\ Listed(s.range) /\ Listed(s.diff)
    /\ s.active \in 0..Len(s.strip)
    /\ \A i \in DOMAIN s.strip : s.strip[i] \in DOMAIN s.tabs
    /\ \A i, k \in DOMAIN s.strip : s.strip[i] = s.strip[k] => i = k
    /\ \A id \in DOMAIN s.tabs : DOMAIN s.tabs[id] = TabFields

\* A file list that the tab will take, and a diff.
Due(t, id, r) == r.tab = id /\ r.gen = t.gen
Takes(t, id, j) == j.tab = id /\ j.gen = t.gen /\ j.source = t.source /\ j.req = t.req

\* The file lists and diffs of a tab, R and D those queued or on workers.
RangeDue(t, id, R) == \E r \in R : Due(t, id, r)
DiffDue(t, id, D) == \E j \in D : Takes(t, id, j)

\* What a tab may show when nothing is on its way.
AtRest(t) == ShowsItsFile(t) \/ (t.error /\ t.shown = NoContent)

\* Diffs of the tab: requests only grow, and one request is of one file.
DiffsNumbered(t, id, D) ==
    /\ t.req \in Nat
    /\ \A j \in D : j.tab = id => j.req \in Nat /\ j.req <= t.req /\ j.path # NoPath
    /\ \A j, k \in D : j.tab = id /\ k.tab = id /\ j.req = k.req => j.path = k.path

\* A file under the cursor is the file that the tab names.
Pointed(t) == NoPath \notin t.rows /\ (t.cursor \in t.rows \ {Folder} => t.path = t.cursor)

\* The newest diff is of the file that the tab names.
NewestNamed(t, id, D) ==
    t.path # NoPath => \A j \in D : j.tab = id /\ j.req = t.req => j.path = t.path

\* An open tab.
CompareFits(t, id, R, D) ==
    /\ DiffsNumbered(t, id, D) /\ Pointed(t) /\ NewestNamed(t, id, D)
    /\ RangeDue(t, id, R) \/ (~t.loading /\ (DiffDue(t, id, D) \/ AtRest(t)))

\* A tab that is opened later has no job yet.
TabsFit(s, R, D) ==
    /\ TabsShape(s)
    /\ \A id \in OpenTabs(s) : CompareFits(s.tabs[id], id, R, D)
    /\ \A j \in D : j.tab \in DOMAIN s.tabs

\* While file lists RW and diffs DW are on workers.
ComparesFit(s, RW, DW) == TabsFit(s, ToSet(s.range) \union RW, ToSet(s.diff) \union DW)

\* Jobs on workers.
AtWork(job) == {w.of : w \in {u \in ToSet(working) : u.job = job}}

\* A worker started at a version of the checkout that is not in the future.
Dated ==
    /\ disk \in 1..Len(Heads)
    /\ \A i \in DOMAIN working : working[i].since \in 1..disk

TInv == Listed(working) /\ Dated /\ ComparesFit(ui, AtWork("range"), AtWork("diff"))

-----------------------------------------------------------------------------
(* One tab *)

\* A tab sees its own jobs only, and more file lists do not disturb it.
LEMMA OwnJobs ==
    ASSUME NEW t, NEW id, NEW R, NEW D, NEW S, NEW E, CompareFits(t, id, R, D),
           \A r \in R : Due(t, id, r) => r \in S,
           \A j : j.tab = id => (j \in D <=> j \in E)
    PROVE  CompareFits(t, id, S, E)
<1>1. DiffsNumbered(t, id, E)
  BY DEF CompareFits, DiffsNumbered
<1>2. NewestNamed(t, id, E)
  BY DEF CompareFits, NewestNamed
<1>3. RangeDue(t, id, R) => RangeDue(t, id, S)
  BY DEF RangeDue, Due
<1>4. DiffDue(t, id, D) => DiffDue(t, id, E)
  BY DEF DiffDue, Takes
<1> QED
  BY <1>1, <1>2, <1>3, <1>4 DEF CompareFits

\* Fewer diffs: the tab keeps the one it awaits.
LEMMA FewerDiffs ==
    ASSUME NEW t, NEW id, NEW R, NEW D, NEW E, CompareFits(t, id, R, D), E \subseteq D,
           \A j \in D : Takes(t, id, j) => j \in E
    PROVE  CompareFits(t, id, R, E)
<1>1. DiffsNumbered(t, id, E)
  BY DEF CompareFits, DiffsNumbered
<1>2. NewestNamed(t, id, E)
  BY DEF CompareFits, NewestNamed
<1>4. DiffDue(t, id, D) => DiffDue(t, id, E)
  BY DEF DiffDue
<1> QED
  BY <1>1, <1>2, <1>4 DEF CompareFits

\* A tab that asks for its list again.
LEMMA Reasked ==
    ASSUME NEW t, NEW u, NEW id, NEW R, NEW D, DiffsNumbered(t, id, D), Pointed(t), NewestNamed(t, id, D),
           u.req = t.req, u.rows = t.rows, u.cursor = t.cursor, u.path = t.path,
           NEW r \in R, Due(u, id, r)
    PROVE  CompareFits(u, id, R, D)
<1>1. DiffsNumbered(u, id, D)
  BY DEF DiffsNumbered
<1>2. NewestNamed(u, id, D) /\ Pointed(u)
  BY DEF NewestNamed, Pointed
<1>3. RangeDue(u, id, R)
  BY DEF RangeDue
<1> QED
  BY <1>1, <1>2, <1>3 DEF CompareFits

\* The tab becomes u and asks for a diff, with the new job j.
Requests(t, u, id, j) ==
    /\ u.req = t.req + 1 /\ u.gen = t.gen /\ u.source = t.source /\ (~t.loading => ~u.loading)
    /\ u.path = j.path /\ j.path # NoPath
    /\ Pointed(u) /\ Takes(u, id, j)

\* A list that the tab waits for will come.
ListComes(t, id, R) == RangeDue(t, id, R) \/ ~t.loading

LEMMA Asked ==
    ASSUME NEW t, NEW u, NEW id, NEW R, NEW D, NEW j, DiffsNumbered(t, id, D), ListComes(t, id, R),
           Requests(t, u, id, j)
    PROVE  CompareFits(u, id, R, D \union {j})
<1>1. DiffsNumbered(u, id, D \union {j})
  <2>1. u.req = t.req + 1 /\ j.tab = id /\ j.req = t.req + 1 /\ t.req \in Nat
    BY DEF DiffsNumbered, Takes, Requests
  <2>2. \A k \in D : k.tab = id => k.req \in Nat /\ k.req <= t.req /\ k.path # NoPath
    BY DEF DiffsNumbered
  <2>3. \A k \in D : k.tab = id => k.req <= u.req /\ k.req # j.req
    BY <2>1, <2>2
  <2>4. j.path # NoPath
    BY DEF Requests
  <2> QED BY <2>1, <2>2, <2>3, <2>4 DEF DiffsNumbered
<1>2. NewestNamed(u, id, D \union {j})
  <2>1. j.tab = id /\ j.req = t.req + 1 /\ t.req \in Nat
    BY DEF DiffsNumbered, Takes, Requests
  <2>2. \A k \in D : k.tab = id => k.req # u.req
    BY <2>1 DEF DiffsNumbered, Requests
  <2> QED BY <2>1, <2>2 DEF NewestNamed, Requests
<1>3. DiffDue(u, id, D \union {j})
  BY DEF DiffDue, Requests
<1>4. RangeDue(t, id, R) => RangeDue(u, id, R)
  BY DEF RangeDue, Due, Requests
<1> QED
  BY <1>1, <1>2, <1>3, <1>4 DEF CompareFits, Requests, ListComes

-----------------------------------------------------------------------------
(* Two tabs *)

\* u is s after tab id became t: the same strip and snapshot, and more jobs.
Puts(s, u, id, t) ==
    /\ DOMAIN u = UiFields
    /\ u.strip = s.strip /\ u.active = s.active /\ u.snapshot = s.snapshot
    /\ u.tabs = [s.tabs EXCEPT ![id] = t]

LEMMA PutTab ==
    ASSUME NEW s, TabsShape(s), NEW id \in DOMAIN s.tabs, NEW t, DOMAIN t = TabFields, NEW u,
           Puts(s, u, id, t), Listed(u.range), Listed(u.diff)
    PROVE  /\ TabsShape(u) /\ OpenTabs(u) = OpenTabs(s) /\ DOMAIN u.tabs = DOMAIN s.tabs
           /\ u.tabs[id] = t /\ \A k \in DOMAIN s.tabs \ {id} : u.tabs[k] = s.tabs[k]
<1>1. /\ DOMAIN u.tabs = DOMAIN s.tabs
      /\ u.tabs[id] = t /\ \A k \in DOMAIN s.tabs \ {id} : u.tabs[k] = s.tabs[k]
  BY DEF Puts
<1>2. Listed(u.tabs)
  <2> DEFINE S == ToSet(s.tabs) \union {t}
  <2>1. s.tabs \in Seq(S)
    BY SeqMonotonic DEF TabsShape, Listed
  <2>2. Len(s.tabs) \in Nat /\ DOMAIN s.tabs = 1..Len(s.tabs)
    BY ListedShape DEF TabsShape
  <2>3. \A i \in 1..Len(s.tabs) : u.tabs[i] \in S
    <3>1. \A i \in 1..Len(s.tabs) : s.tabs[i] \in S
      BY <2>2, ListedShape DEF TabsShape
    <3> HIDE DEF S
    <3>2. t \in S
      BY DEF S
    <3> QED BY <1>1, <2>2, <3>1, <3>2
  <2>4. u.tabs = [i \in 1..Len(s.tabs) |-> u.tabs[i]]
    BY <2>2 DEF Puts
  <2>5. u.tabs \in Seq(S)
    <3> HIDE DEF S
    <3>1. u.tabs \in [1..Len(s.tabs) -> S]
      BY <2>3, <2>4
    <3> QED BY <2>2, <3>1, SeqDef
  <2> QED BY <2>5, SeqIsListed
<1>3. TabsShape(u)
  BY <1>1, <1>2 DEF TabsShape, Puts
<1>4. OpenTabs(u) = OpenTabs(s)
  BY DEF OpenTabs, Puts
<1> QED
  BY <1>1, <1>3, <1>4

LEMMA OpenIsTab == ASSUME NEW s, TabsShape(s) PROVE OpenTabs(s) \subseteq DOMAIN s.tabs
BY DEF TabsShape, OpenTabs, ToSet

LEMMA ActiveIsOpen == ASSUME NEW s, TabsShape(s), s.active # 0 PROVE ActiveId(s) \in OpenTabs(s)
<1>1. Len(s.strip) \in Nat /\ DOMAIN s.strip = 1..Len(s.strip) /\ s.active \in 0..Len(s.strip)
  BY ListedShape DEF TabsShape
<1>2. s.active \in DOMAIN s.strip
  BY <1>1
<1>3. ActiveId(s) = s.strip[s.active]
  BY DEF ActiveId
<1> QED
  BY <1>2, <1>3 DEF OpenTabs, ToSet

\* Every other tab fits, and every diff is of a tab.
TabsFitBut(s, id, R, D) ==
    /\ TabsShape(s) /\ id \in DOMAIN s.tabs
    /\ \A k \in OpenTabs(s) \ {id} : CompareFits(s.tabs[k], k, R, D)
    /\ \A j \in D : j.tab \in DOMAIN s.tabs

OtherComparesFit(s, id, RW, DW) == TabsFitBut(s, id, ToSet(s.range) \union RW, ToSet(s.diff) \union DW)

LEMMA FitsOthers ==
    ASSUME NEW s, NEW RW, NEW DW, ComparesFit(s, RW, DW), NEW id \in DOMAIN s.tabs
    PROVE  OtherComparesFit(s, id, RW, DW)
BY DEF ComparesFit, TabsFit, OtherComparesFit, TabsFitBut

\* Jobs of tab id came or went: R and D became S and E.
OnlyOf(id, R, D, S, E) ==
    /\ \A r \in R : r.tab # id => r \in S
    /\ \A j : j.tab # id => (j \in D <=> j \in E)

LEMMA PutOthers ==
    ASSUME NEW s, NEW id, NEW R, NEW D, TabsFitBut(s, id, R, D),
           NEW t, DOMAIN t = TabFields, NEW u,
           Puts(s, u, id, t), Listed(u.range), Listed(u.diff), NEW S, NEW E, OnlyOf(id, R, D, S, E),
           \A j \in E : j.tab = id \/ j \in D
    PROVE  TabsFitBut(u, id, S, E) /\ OpenTabs(u) = OpenTabs(s) /\ u.tabs[id] = t
<1>0. TabsShape(s) /\ id \in DOMAIN s.tabs
  BY DEF TabsFitBut
<1>1. /\ TabsShape(u) /\ OpenTabs(u) = OpenTabs(s) /\ DOMAIN u.tabs = DOMAIN s.tabs
      /\ u.tabs[id] = t /\ \A k \in DOMAIN s.tabs \ {id} : u.tabs[k] = s.tabs[k]
  BY <1>0, PutTab
<1>2. ASSUME NEW k \in OpenTabs(u) \ {id} PROVE CompareFits(u.tabs[k], k, S, E)
  <2>1. CompareFits(s.tabs[k], k, R, D) /\ u.tabs[k] = s.tabs[k]
    BY <1>0, <1>1, <1>2, OpenIsTab DEF TabsFitBut
  <2>2. /\ \A r \in R : Due(s.tabs[k], k, r) => r \in S
        /\ \A j : j.tab = k => (j \in D <=> j \in E)
    BY DEF Due, OnlyOf
  <2>3. CompareFits(s.tabs[k], k, S, E)
    BY <2>1, <2>2, OwnJobs
  <2> QED BY <2>1, <2>3
<1>3. \A j \in E : j.tab \in DOMAIN u.tabs
  BY <1>0, <1>1 DEF TabsFitBut
<1> QED
  BY <1>0, <1>1, <1>2, <1>3 DEF TabsFitBut

\* The state fits once this tab does.
LEMMA PutFits ==
    ASSUME NEW s, NEW id, NEW R, NEW D, TabsFitBut(s, id, R, D),
           NEW t, DOMAIN t = TabFields, NEW u,
           Puts(s, u, id, t), Listed(u.range), Listed(u.diff), NEW S, NEW E, OnlyOf(id, R, D, S, E),
           \A j \in E : j.tab = id \/ j \in D,
           id \in OpenTabs(s) => CompareFits(t, id, S, E)
    PROVE  TabsFit(u, S, E)
<1>1. TabsFitBut(u, id, S, E) /\ OpenTabs(u) = OpenTabs(s) /\ u.tabs[id] = t
  BY PutOthers
<1> QED
  BY <1>1 DEF TabsFitBut, TabsFit

-----------------------------------------------------------------------------
(* The two loads *)

\* The jobs of the two loads.
RangeJob(s, id) == [tab |-> id, gen |-> s.tabs[id].gen + 1]
DiffJob(s, id, path) ==
    [tab |-> id, gen |-> s.tabs[id].gen, req |-> s.tabs[id].req + 1, source |-> s.tabs[id].source, path |-> path]

ListAsked(t) == [t EXCEPT !.gen = t.gen + 1, !.loading = TRUE]
AsksFor(t, path) == [t EXCEPT !.req = t.req + 1, !.path = path]

LEMMA LoadRangeIs ==
    ASSUME NEW s, TabsShape(s), NEW id \in DOMAIN s.tabs
    PROVE  /\ Puts(s, LoadRange(s, id), id, ListAsked(s.tabs[id])) /\ DOMAIN ListAsked(s.tabs[id]) = TabFields
           /\ LoadRange(s, id).range = Append(s.range, RangeJob(s, id))
           /\ LoadRange(s, id).diff = s.diff
BY DEF LoadRange, Puts, ListAsked, RangeJob, TabsShape, UiFields, TabFields

LEMMA LoadDiffIs ==
    ASSUME NEW s, TabsShape(s), NEW id \in DOMAIN s.tabs, NEW path
    PROVE  /\ Puts(s, LoadDiff(s, id, path), id, AsksFor(s.tabs[id], path))
           /\ DOMAIN AsksFor(s.tabs[id], path) = TabFields
           /\ LoadDiff(s, id, path).diff = Append(s.diff, DiffJob(s, id, path))
           /\ LoadDiff(s, id, path).range = s.range
BY DEF LoadDiff, Puts, AsksFor, DiffJob, TabsShape, UiFields, TabFields

LEMMA LoadRangeFits ==
    ASSUME NEW s, NEW id, NEW RW, NEW DW, OtherComparesFit(s, id, RW, DW),
           id \in OpenTabs(s) => /\ DiffsNumbered(s.tabs[id], id, ToSet(s.diff) \union DW)
                                 /\ Pointed(s.tabs[id])
                                 /\ NewestNamed(s.tabs[id], id, ToSet(s.diff) \union DW)
    PROVE  ComparesFit(LoadRange(s, id), RW, DW)
<1> DEFINE u == LoadRange(s, id)
           t == s.tabs[id]
           r == RangeJob(s, id)
           R == ToSet(s.range) \union RW
           D == ToSet(s.diff) \union DW
<1>1. TabsShape(s) /\ id \in DOMAIN s.tabs
  BY DEF OtherComparesFit, TabsFitBut
<1>2. /\ Puts(s, u, id, ListAsked(t)) /\ DOMAIN ListAsked(t) = TabFields
      /\ u.range = Append(s.range, r) /\ u.diff = s.diff
  BY <1>1, LoadRangeIs
<1> HIDE DEF u
<1>3. /\ Listed(u.range) /\ Listed(u.diff)
      /\ ToSet(u.range) = ToSet(s.range) \union {r}
  BY <1>1, <1>2, AppendListed DEF TabsShape
<1>4. r.tab = id /\ r.gen = t.gen + 1
  BY DEF RangeJob
<1>5. /\ ListAsked(t).gen = t.gen + 1 /\ ListAsked(t).req = t.req /\ ListAsked(t).rows = t.rows
      /\ ListAsked(t).cursor = t.cursor /\ ListAsked(t).path = t.path
  BY <1>1 DEF ListAsked, TabsShape, TabFields
<1> HIDE DEF t, r
<1>6. ASSUME id \in OpenTabs(s) PROVE CompareFits(ListAsked(t), id, R \union {r}, D)
  <2>1. Due(ListAsked(t), id, r)
    BY <1>4, <1>5 DEF Due
  <2>2. DiffsNumbered(t, id, D) /\ Pointed(t) /\ NewestNamed(t, id, D)
    BY <1>6 DEF t
  <2> HIDE DEF R, D
  <2>3. r \in R \union {r}
    OBVIOUS
  <2> QED BY <1>5, <2>1, <2>2, <2>3, Reasked
<1>7. TabsFitBut(s, id, R, D)
  BY DEF OtherComparesFit
<1>9. TabsFit(u, R \union {r}, D)
  <2> HIDE DEF R, D
  <2>1. OnlyOf(id, R, D, R \union {r}, D)
    BY DEF OnlyOf
  <2> QED BY <1>2, <1>3, <1>6, <1>7, <2>1, PutFits
<1>10. ToSet(u.range) \union RW = R \union {r} /\ ToSet(u.diff) \union DW = D
  BY <1>2, <1>3
<1>11. ComparesFit(u, RW, DW)
  <2> HIDE DEF R, D
  <2> QED BY <1>9, <1>10 DEF ComparesFit
<1> QED
  BY <1>11 DEF u

LEMMA LoadDiffFits ==
    ASSUME NEW s, NEW id, NEW RW, NEW DW, OtherComparesFit(s, id, RW, DW), NEW path, path # NoPath,
           id \in OpenTabs(s) =>
               /\ DiffsNumbered(s.tabs[id], id, ToSet(s.diff) \union DW)
               /\ ListComes(s.tabs[id], id, ToSet(s.range) \union RW)
               /\ NoPath \notin s.tabs[id].rows
               /\ s.tabs[id].cursor \in s.tabs[id].rows \ {Folder} => path = s.tabs[id].cursor
    PROVE  ComparesFit(LoadDiff(s, id, path), RW, DW)
<1> DEFINE u == LoadDiff(s, id, path)
           t == s.tabs[id]
           j == DiffJob(s, id, path)
           v == AsksFor(t, path)
           R == ToSet(s.range) \union RW
           D == ToSet(s.diff) \union DW
<1>1. TabsShape(s) /\ id \in DOMAIN s.tabs
  BY DEF OtherComparesFit, TabsFitBut
<1>2. /\ Puts(s, u, id, v) /\ DOMAIN v = TabFields
      /\ u.diff = Append(s.diff, j) /\ u.range = s.range
  BY <1>1, LoadDiffIs
<1> HIDE DEF u
<1>3. /\ Listed(u.range) /\ Listed(u.diff)
      /\ ToSet(u.diff) = ToSet(s.diff) \union {j}
  BY <1>1, <1>2, AppendListed DEF TabsShape
<1>4. j.tab = id /\ j.gen = t.gen /\ j.req = t.req + 1 /\ j.source = t.source /\ j.path = path
  BY DEF DiffJob
<1>5. /\ v.gen = t.gen /\ v.req = t.req + 1 /\ v.rows = t.rows /\ v.source = t.source
      /\ v.loading = t.loading /\ v.cursor = t.cursor /\ v.path = path
  BY <1>1 DEF AsksFor, TabsShape, TabFields
<1>6. ASSUME id \in OpenTabs(s) PROVE CompareFits(v, id, R, D \union {j})
  <2>1. /\ DiffsNumbered(t, id, D) /\ ListComes(t, id, R)
        /\ NoPath \notin t.rows
        /\ t.cursor \in t.rows \ {Folder} => path = t.cursor
    BY <1>6
  <2> HIDE DEF R, D, t, v, j
  <2>2. Pointed(v) /\ Takes(v, id, j)
    BY <1>4, <1>5, <2>1 DEF Pointed, Takes
  <2>3. Requests(t, v, id, j)
    BY <1>4, <1>5, <2>2 DEF Requests
  <2> QED BY <2>1, <2>3, Asked
<1>7. TabsFitBut(s, id, R, D)
  BY DEF OtherComparesFit
<1>9. TabsFit(u, R, D \union {j})
  <2> HIDE DEF R, D, v, j
  <2>1. OnlyOf(id, R, D, R, D \union {j})
    BY <1>4 DEF OnlyOf
  <2>2. \A k \in D \union {j} : k.tab = id \/ k \in D
    BY <1>4
  <2> QED BY <1>2, <1>3, <1>6, <1>7, <2>1, <2>2, PutFits
<1>10. ToSet(u.range) \union RW = R /\ ToSet(u.diff) \union DW = D \union {j}
  BY <1>2, <1>3
<1>11. ComparesFit(u, RW, DW)
  <2> HIDE DEF R, D, v, j
  <2> QED BY <1>9, <1>10 DEF ComparesFit
<1> QED
  BY <1>11 DEF u

\* A tab that fits may load its list again.
LEMMA RangeReloadFits ==
    ASSUME NEW s, NEW RW, NEW DW, ComparesFit(s, RW, DW), NEW id \in OpenTabs(s)
    PROVE  ComparesFit(LoadRange(s, id), RW, DW)
<1>1. TabsShape(s) /\ CompareFits(s.tabs[id], id, ToSet(s.range) \union RW, ToSet(s.diff) \union DW)
  BY DEF ComparesFit, TabsFit
<1>2. OtherComparesFit(s, id, RW, DW)
  BY <1>1, OpenIsTab, FitsOthers
<1> QED
  BY <1>1, <1>2, LoadRangeFits DEF CompareFits

-----------------------------------------------------------------------------
(* Handlers that leave the tabs alone *)

\* The queues and the tabs decide, and the active tab is one of the strip.
LEMMA SameTabs ==
    ASSUME NEW s, NEW RW, NEW DW, ComparesFit(s, RW, DW), NEW u, DOMAIN u = UiFields,
           u.strip = s.strip, u.tabs = s.tabs, u.range = s.range, u.diff = s.diff,
           u.active \in 0..Len(u.strip)
    PROVE  ComparesFit(u, RW, DW)
<1>1. TabsShape(u)
  BY DEF ComparesFit, TabsFit, TabsShape
<1>2. OpenTabs(u) = OpenTabs(s)
  BY DEF OpenTabs
<1> QED
  BY <1>1, <1>2 DEF ComparesFit, TabsFit

\* The stamp of a tab decides nothing of what it shows.
LEMMA StampFits ==
    ASSUME NEW t, NEW u, NEW id, NEW R, NEW D, CompareFits(t, id, R, D),
           \A f \in TabFields \ {"stamp", "error"} : u[f] = t[f], t.error => u.error
    PROVE  CompareFits(u, id, R, D)
<1>1. /\ u.req = t.req /\ u.gen = t.gen /\ u.source = t.source /\ u.path = t.path /\ u.rows = t.rows
      /\ u.cursor = t.cursor /\ u.shown = t.shown /\ u.loading = t.loading
  BY DEF TabFields
<1>2. DiffsNumbered(u, id, D) /\ Pointed(u) /\ NewestNamed(u, id, D)
  BY <1>1 DEF CompareFits, DiffsNumbered, Pointed, NewestNamed
<1>3. RangeDue(t, id, R) => RangeDue(u, id, R)
  BY <1>1 DEF RangeDue, Due
<1>4. DiffDue(t, id, D) => DiffDue(u, id, D)
  BY <1>1 DEF DiffDue, Takes
<1>5. AtRest(t) => AtRest(u)
  BY <1>1 DEF AtRest, ShowsItsFile
<1> QED
  BY <1>1, <1>2, <1>3, <1>4, <1>5 DEF CompareFits

\* A tab that changes in nothing that decides.
LEMMA MarkFits ==
    ASSUME NEW s, NEW RW, NEW DW, ComparesFit(s, RW, DW), NEW id \in OpenTabs(s), NEW t, DOMAIN t = TabFields,
           NEW u, Puts(s, u, id, t), u.range = s.range, u.diff = s.diff,
           \A f \in TabFields \ {"stamp", "error"} : t[f] = s.tabs[id][f], s.tabs[id].error => t.error
    PROVE  ComparesFit(u, RW, DW)
<1> DEFINE R == ToSet(s.range) \union RW
           D == ToSet(s.diff) \union DW
<1>1. TabsShape(s) /\ id \in DOMAIN s.tabs /\ CompareFits(s.tabs[id], id, R, D)
  BY OpenIsTab DEF ComparesFit, TabsFit
<1>2. CompareFits(t, id, R, D)
  <2> HIDE DEF R, D
  <2> QED BY <1>1, StampFits
<1>3. TabsFitBut(s, id, R, D) /\ OnlyOf(id, R, D, R, D)
  BY <1>1, FitsOthers DEF OtherComparesFit, OnlyOf
<1>4. Listed(u.range) /\ Listed(u.diff)
  BY <1>1 DEF TabsShape
<1>5. TabsFit(u, R, D)
  <2> HIDE DEF R, D
  <2> QED BY <1>1, <1>2, <1>3, <1>4, PutFits
<1> QED
  BY <1>5 DEF ComparesFit

\* A working-tree tab may reload.
LEMMA WorktreeFits ==
    ASSUME NEW s, NEW RW, NEW DW, ComparesFit(s, RW, DW)
    PROVE  ComparesFit(WorktreeReload(s), RW, DW)
<1> DEFINE id == ActiveId(s)
           t  == [s.tabs[id] EXCEPT !.stamp = Stamp(s)]
           u  == [s EXCEPT !.tabs[id].stamp = Stamp(s)]
<1>1. CASE WorktreeReload(s) = s
  BY <1>1
<1>2. CASE WorktreeReload(s) # s
  <2>1. s.active # 0 /\ WorktreeReload(s) = LoadRange(u, id)
    BY <1>2 DEF WorktreeReload, ActiveId
  <2>2. TabsShape(s) /\ id \in OpenTabs(s) /\ id \in DOMAIN s.tabs
    BY <2>1, ActiveIsOpen, OpenIsTab DEF ComparesFit, TabsFit
  <2>3. /\ Puts(s, u, id, t) /\ DOMAIN t = TabFields /\ u.range = s.range /\ u.diff = s.diff
    BY <2>2 DEF TabsShape, UiFields, Puts
  <2>4. /\ \A f \in TabFields \ {"stamp", "error"} : t[f] = s.tabs[id][f]
        /\ t.error = s.tabs[id].error
    BY <2>2 DEF TabsShape, TabFields
  <2>5. ComparesFit(u, RW, DW) /\ OpenTabs(u) = OpenTabs(s)
    <3> HIDE DEF t, u, id
    <3>1. ComparesFit(u, RW, DW)
      BY <2>2, <2>3, <2>4, MarkFits
    <3>2. OpenTabs(u) = OpenTabs(s)
      BY <2>3 DEF OpenTabs, Puts
    <3> QED BY <3>1, <3>2
  <2> HIDE DEF u, id
  <2> QED BY <2>1, <2>2, <2>5, RangeReloadFits
<1> QED
  BY <1>1, <1>2

-----------------------------------------------------------------------------
(* Keys *)

\* The jobs on workers stay.
LEMMA WorkersStay ==
    ASSUME TInv, UNCHANGED <<disk, working>>, ComparesFit(ui', AtWork("range"), AtWork("diff"))
    PROVE  TInv'
BY DEF TInv, Dated, AtWork

LEMMA FitShape == ASSUME NEW s, NEW RW, NEW DW, ComparesFit(s, RW, DW) PROVE TabsShape(s)
BY DEF ComparesFit, TabsFit

\* A new tab at the end of the strip.
LEMMA OpenedFits ==
    ASSUME NEW s, NEW RW, NEW DW, ComparesFit(s, RW, DW), NEW kind, NEW stamp, NEW u, NEW id,
           id = Len(s.tabs) + 1, DOMAIN u = UiFields, u.range = s.range, u.diff = s.diff,
           u.strip = Append(s.strip, id), u.active = Len(s.strip) + 1,
           u.tabs = Append(s.tabs, NewTab(kind, stamp))
    PROVE  ComparesFit(LoadRange(u, id), RW, DW)
<1> DEFINE R == ToSet(s.range) \union RW
           D == ToSet(s.diff) \union DW
           t == NewTab(kind, stamp)
<1>1. TabsShape(s) /\ (\A k \in OpenTabs(s) : CompareFits(s.tabs[k], k, R, D)) /\ \A j \in D : j.tab \in DOMAIN s.tabs
  BY DEF ComparesFit, TabsFit
<1>2. /\ Listed(s.tabs) /\ Len(s.tabs) \in Nat /\ DOMAIN s.tabs = 1..Len(s.tabs)
      /\ Listed(s.strip) /\ Len(s.strip) \in Nat /\ DOMAIN s.strip = 1..Len(s.strip)
  BY <1>1, ListedShape DEF TabsShape
<1>3. /\ Listed(u.tabs) /\ DOMAIN u.tabs = 1..(Len(s.tabs) + 1)
      /\ \A k \in 1..Len(s.tabs) : u.tabs[k] = s.tabs[k]
      /\ u.tabs[id] = t
  <2> HIDE DEF t
  <2> QED BY <1>2, AppendListed DEF t
<1>4. /\ Listed(u.strip) /\ ToSet(u.strip) = ToSet(s.strip) \union {id}
      /\ Len(u.strip) = Len(s.strip) + 1 /\ DOMAIN u.strip = 1..(Len(s.strip) + 1)
      /\ \A k \in 1..Len(s.strip) : u.strip[k] = s.strip[k]
      /\ u.strip[Len(s.strip) + 1] = id
  BY <1>2, AppendListed
<1>5. DOMAIN t = TabFields /\ t.req = 0 /\ t.rows = {} /\ t.path = NoPath
  BY DEF NewTab, TabFields
<1> HIDE DEF t, R, D
<1>6. \A i \in DOMAIN s.strip : s.strip[i] \in 1..Len(s.tabs) /\ s.strip[i] # id
  BY <1>1, <1>2 DEF TabsShape
<1>7. TabsShape(u)
  <2>1. u.active \in 0..Len(u.strip)
    BY <1>2, <1>4
  <2>2. \A i \in DOMAIN u.strip : u.strip[i] \in DOMAIN u.tabs
    <3> SUFFICES ASSUME NEW i \in DOMAIN u.strip PROVE u.strip[i] \in DOMAIN u.tabs
      OBVIOUS
    <3>1. CASE i \in DOMAIN s.strip
      BY <1>2, <1>3, <1>4, <1>6, <3>1
    <3>2. CASE i = Len(s.strip) + 1
      BY <1>2, <1>3, <1>4, <3>2
    <3> QED BY <1>2, <1>4, <3>1, <3>2
  <2>3. \A i, k \in DOMAIN u.strip : u.strip[i] = u.strip[k] => i = k
    <3> SUFFICES ASSUME NEW i \in DOMAIN u.strip, NEW k \in DOMAIN u.strip, u.strip[i] = u.strip[k]
                 PROVE  i = k
      OBVIOUS
    <3>1. \A n \in DOMAIN u.strip : n \in DOMAIN s.strip \/ n = Len(s.strip) + 1
      BY <1>2, <1>4
    <3>2. CASE i \in DOMAIN s.strip /\ k \in DOMAIN s.strip
      BY <1>1, <1>2, <1>4, <3>2 DEF TabsShape
    <3>3. CASE i \in DOMAIN s.strip /\ k = Len(s.strip) + 1
      BY <1>2, <1>4, <1>6, <3>3
    <3>4. CASE k \in DOMAIN s.strip /\ i = Len(s.strip) + 1
      BY <1>2, <1>4, <1>6, <3>4
    <3> QED BY <3>1, <3>2, <3>3, <3>4
  <2>4. \A k \in DOMAIN u.tabs : DOMAIN u.tabs[k] = TabFields
    <3>1. \A k \in 1..Len(s.tabs) : DOMAIN u.tabs[k] = TabFields
      BY <1>1, <1>2, <1>3 DEF TabsShape
    <3> QED BY <1>2, <1>3, <1>5, <3>1
  <2>5. Listed(u.range) /\ Listed(u.diff)
    BY <1>1 DEF TabsShape
  <2> QED BY <1>3, <1>4, <2>1, <2>2, <2>3, <2>4, <2>5 DEF TabsShape
<1>8. id \in DOMAIN u.tabs /\ DOMAIN s.tabs \subseteq DOMAIN u.tabs
  BY <1>2, <1>3
<1>9. \A j \in D : j.tab \in DOMAIN u.tabs /\ j.tab # id
  <2>1. id \notin DOMAIN s.tabs
    BY <1>2
  <2> QED BY <1>1, <1>8, <2>1
<1>10. ASSUME NEW k \in OpenTabs(u) \ {id} PROVE CompareFits(u.tabs[k], k, R, D)
  <2>1. k \in OpenTabs(s)
    BY <1>4 DEF OpenTabs
  <2>2. u.tabs[k] = s.tabs[k]
    BY <1>1, <1>2, <1>3, <2>1, OpenIsTab
  <2> QED BY <1>1, <2>1, <2>2
<1>11. OtherComparesFit(u, id, RW, DW)
  BY <1>7, <1>8, <1>9, <1>10 DEF OtherComparesFit, TabsFitBut, R, D
<1>12. DiffsNumbered(u.tabs[id], id, D) /\ Pointed(u.tabs[id]) /\ NewestNamed(u.tabs[id], id, D)
  BY <1>3, <1>5, <1>9 DEF DiffsNumbered, Pointed, NewestNamed
<1> QED
  BY <1>11, <1>12, LoadRangeFits DEF D

LEMMA OpenTabKeeps == ASSUME TInv, NEW kind, OpenTab(kind) PROVE TInv'
<1> DEFINE RW == AtWork("range")
           DW == AtWork("diff")
           same == {i \in DOMAIN ui.strip : ui.tabs[ui.strip[i]].kind = kind}
           id == Len(ui.tabs) + 1
<1>1. ComparesFit(ui, RW, DW) /\ TabsShape(ui)
  BY FitShape DEF TInv
<1>2. CASE same # {}
  <2> DEFINE s == [ui EXCEPT !.active = CHOOSE i \in same : TRUE]
  <2>1. ui' = WorktreeReload(s)
    BY <1>2 DEF OpenTab
  <2>2. (CHOOSE i \in same : TRUE) \in DOMAIN ui.strip
    BY <1>2
  <2>3. DOMAIN ui.strip \subseteq 0..Len(ui.strip)
    BY <1>1, ListedShape DEF TabsShape
  <2>4. /\ DOMAIN s = UiFields /\ s.strip = ui.strip /\ s.tabs = ui.tabs /\ s.range = ui.range
        /\ s.diff = ui.diff /\ s.active \in 0..Len(s.strip)
    <3> HIDE DEF same
    <3> QED BY <1>1, <2>2, <2>3 DEF TabsShape, UiFields
  <2> HIDE DEF s, RW, DW, same
  <2>5. ComparesFit(WorktreeReload(s), RW, DW)
    BY <1>1, <2>4, SameTabs, WorktreeFits
  <2> QED BY <2>1, <2>5, WorkersStay DEF RW, DW, OpenTab, TabKey
<1>3. CASE same = {}
  <2> DEFINE s == [ui EXCEPT !.strip = Append(@, id), !.active = Len(ui.strip) + 1,
                             !.tabs = Append(@, NewTab(kind, Stamp(ui)))]
  <2>1. ui' = LoadRange(s, id)
    BY <1>3 DEF OpenTab
  <2>2. /\ DOMAIN s = UiFields /\ s.range = ui.range /\ s.diff = ui.diff
        /\ s.strip = Append(ui.strip, id) /\ s.active = Len(ui.strip) + 1
        /\ s.tabs = Append(ui.tabs, NewTab(kind, Stamp(ui)))
    BY <1>1 DEF TabsShape, UiFields
  <2> HIDE DEF s, RW, DW
  <2>3. ComparesFit(LoadRange(s, id), RW, DW)
    BY <1>1, <2>2, OpenedFits
  <2> QED BY <2>1, <2>3, WorkersStay DEF RW, DW, OpenTab, TabKey
<1> QED
  BY <1>2, <1>3

LEMMA ActivateTabKeeps ==
    ASSUME TInv, NEW i \in 0..Len(ui.strip), ActivateTab(i)
    PROVE  TInv'
<1> DEFINE s == [ui EXCEPT !.active = i]
<1>1. ComparesFit(ui, AtWork("range"), AtWork("diff")) /\ TabsShape(ui)
  BY FitShape DEF TInv
<1>2. /\ DOMAIN s = UiFields /\ s.strip = ui.strip /\ s.tabs = ui.tabs /\ s.range = ui.range
      /\ s.diff = ui.diff /\ s.active \in 0..Len(s.strip)
  BY <1>1 DEF TabsShape, UiFields
<1>3. ui' = WorktreeReload(s)
  BY DEF ActivateTab
<1> HIDE DEF s
<1>4. ComparesFit(WorktreeReload(s), AtWork("range"), AtWork("diff"))
  BY <1>1, <1>2, SameTabs, WorktreeFits
<1> QED
  BY <1>3, <1>4, WorkersStay DEF ActivateTab, TabKey

LEMMA CloseTabKeeps == ASSUME TInv, NEW i \in DOMAIN ui.strip, CloseTab(i) PROVE TInv'
<1> DEFINE R == ToSet(ui.range) \union AtWork("range")
           D == ToSet(ui.diff) \union AtWork("diff")
           id == ui.strip[i]
           t == NewTab("closed", <<>>)
           u == ui'
<1>1. /\ TabsShape(ui) /\ (\A k \in OpenTabs(ui) : CompareFits(ui.tabs[k], k, R, D))
      /\ \A j \in D : j.tab \in DOMAIN ui.tabs
  BY DEF TInv, ComparesFit, TabsFit
<1>2. id \in DOMAIN ui.tabs
  BY <1>1 DEF TabsShape
<1>3. /\ DOMAIN u = UiFields /\ u.strip = RemoveAt(ui.strip, i)
      /\ u.active = (IF ui.active >= i THEN ui.active - 1 ELSE ui.active)
      /\ u.tabs = [ui.tabs EXCEPT ![id] = t] /\ u.range = ui.range /\ u.diff = ui.diff
  BY <1>1 DEF TabsShape, UiFields, CloseTab
<1>4. /\ Len(ui.strip) \in Nat /\ DOMAIN ui.strip = 1..Len(ui.strip)
      /\ Listed(u.strip) /\ Len(u.strip) = Len(ui.strip) - 1
      /\ \A k \in 1..(Len(ui.strip) - 1) : u.strip[k] = IF k < i THEN ui.strip[k] ELSE ui.strip[k + 1]
  <2>1. Listed(ui.strip)
    BY <1>1 DEF TabsShape
  <2>2. /\ Listed(RemoveAt(ui.strip, i)) /\ Len(RemoveAt(ui.strip, i)) = Len(ui.strip) - 1
        /\ \A k \in 1..(Len(ui.strip) - 1) :
               RemoveAt(ui.strip, i)[k] = IF k < i THEN ui.strip[k] ELSE ui.strip[k + 1]
    BY <2>1, RemoveListed
  <2> HIDE DEF u
  <2> QED BY <1>3, <2>1, <2>2, ListedShape
<1>5. DOMAIN u.strip = 1..(Len(ui.strip) - 1)
  BY <1>4, ListedShape
<1>6. DOMAIN t = TabFields
  BY DEF NewTab, TabFields
<1> DEFINE m == [ui EXCEPT !.tabs[id] = t]
<1>7. TabsShape(m) /\ m.tabs = u.tabs
      /\ DOMAIN m.tabs = DOMAIN ui.tabs /\ \A k \in DOMAIN ui.tabs \ {id} : m.tabs[k] = ui.tabs[k]
  <2>1. Puts(ui, m, id, t) /\ m.range = ui.range /\ m.diff = ui.diff /\ m.tabs = u.tabs
    BY <1>1, <1>2, <1>3 DEF TabsShape, UiFields, Puts
  <2>2. Listed(m.range) /\ Listed(m.diff)
    BY <1>1, <2>1 DEF TabsShape
  <2> HIDE DEF m, t, id
  <2> QED BY <1>1, <1>2, <1>6, <2>1, <2>2, PutTab
<1> HIDE DEF u, m, t, R, D
\* Where each tab of the new strip was.
<1> DEFINE was(k) == IF k < i THEN k ELSE k + 1
<1>8. \A k \in DOMAIN u.strip : was(k) \in DOMAIN ui.strip \ {i} /\ u.strip[k] = ui.strip[was(k)]
  BY <1>4, <1>5
<1>9. \A k, n \in DOMAIN u.strip : was(k) = was(n) => k = n
  BY <1>4, <1>5
<1> HIDE DEF was
<1>10. TabsShape(u)
  <2>1. u.active \in 0..Len(u.strip)
    BY <1>1, <1>3, <1>4 DEF TabsShape
  <2>2. \A k \in DOMAIN u.strip : u.strip[k] \in DOMAIN u.tabs
    BY <1>1, <1>7, <1>8 DEF TabsShape
  <2>3. \A k, n \in DOMAIN u.strip : u.strip[k] = u.strip[n] => k = n
    BY <1>1, <1>8, <1>9 DEF TabsShape
  <2>4. Listed(u.tabs) /\ \A k \in DOMAIN u.tabs : DOMAIN u.tabs[k] = TabFields
    BY <1>7 DEF TabsShape
  <2>5. Listed(u.range) /\ Listed(u.diff)
    BY <1>1, <1>3 DEF TabsShape
  <2> QED BY <1>3, <1>4, <2>1, <2>2, <2>3, <2>4, <2>5 DEF TabsShape
<1>11. ASSUME NEW k \in OpenTabs(u) PROVE CompareFits(u.tabs[k], k, R, D)
  <2>1. PICK n \in DOMAIN u.strip : u.strip[n] = k
    BY DEF OpenTabs, ToSet
  <2>2. was(n) \in DOMAIN ui.strip /\ was(n) # i /\ ui.strip[was(n)] = k
    BY <1>8, <2>1
  <2>3. k # id /\ k \in OpenTabs(ui)
    BY <1>1, <2>2 DEF TabsShape, OpenTabs, ToSet
  <2>4. u.tabs[k] = ui.tabs[k]
    BY <1>1, <1>7, <2>3, OpenIsTab
  <2> QED BY <1>1, <2>3, <2>4
<1>12. \A j \in D : j.tab \in DOMAIN u.tabs
  BY <1>1, <1>7
<1>13. ComparesFit(u, AtWork("range"), AtWork("diff"))
  BY <1>3, <1>10, <1>11, <1>12 DEF ComparesFit, TabsFit, R, D
<1> QED
  BY <1>13, WorkersStay DEF u, CloseTab, TabKey

\* A tab whose cursor moved to a row of its own.
LEMMA CursorMoves ==
    ASSUME NEW s, NEW RW, NEW DW, ComparesFit(s, RW, DW), NEW id \in OpenTabs(s), NEW row \in s.tabs[id].rows,
           NEW u, Puts(s, u, id, [s.tabs[id] EXCEPT !.cursor = row]), u.range = s.range, u.diff = s.diff
    PROVE  /\ row \in {Folder, s.tabs[id].path} => ComparesFit(u, RW, DW)
           /\ row # Folder => ComparesFit(LoadDiff(u, id, row), RW, DW)
<1> DEFINE R == ToSet(s.range) \union RW
           D == ToSet(s.diff) \union DW
           b == s.tabs[id]
           t == [b EXCEPT !.cursor = row]
<1>1. TabsShape(s) /\ id \in DOMAIN s.tabs /\ CompareFits(b, id, R, D) /\ TabsFitBut(s, id, R, D)
  <2>1. TabsShape(s) /\ id \in DOMAIN s.tabs /\ CompareFits(b, id, R, D)
    BY OpenIsTab DEF ComparesFit, TabsFit
  <2> QED BY <2>1, FitsOthers DEF OtherComparesFit
<1>2. /\ Puts(s, u, id, t) /\ DOMAIN t = TabFields /\ u.range = s.range /\ u.diff = s.diff
  BY <1>1 DEF TabsShape, UiFields, Puts
<1>3. /\ t.cursor = row /\ \A f \in TabFields \ {"cursor"} : t[f] = b[f]
  BY <1>1 DEF TabsShape, TabFields
<1>4. /\ t.req = b.req /\ t.gen = b.gen /\ t.source = b.source /\ t.path = b.path /\ t.rows = b.rows
      /\ t.shown = b.shown /\ t.loading = b.loading /\ t.error = b.error
  BY <1>3 DEF TabFields
<1>5. Listed(u.range) /\ Listed(u.diff) /\ OnlyOf(id, R, D, R, D)
  BY <1>1, <1>2 DEF TabsShape, OnlyOf
<1> HIDE DEF R, D, b, t
<1>6. /\ DiffsNumbered(t, id, D) /\ NewestNamed(t, id, D) /\ ListComes(t, id, R) /\ NoPath \notin t.rows
  <2>1. DiffsNumbered(t, id, D) /\ NewestNamed(t, id, D) /\ NoPath \notin t.rows
    BY <1>1, <1>4 DEF CompareFits, DiffsNumbered, NewestNamed, Pointed
  <2>2. RangeDue(b, id, R) => RangeDue(t, id, R)
    BY <1>4 DEF RangeDue, Due
  <2>3. ListComes(t, id, R)
    BY <1>1, <1>4, <2>2 DEF CompareFits, ListComes
  <2> QED BY <2>1, <2>3
<1>7. ASSUME row \in {Folder, b.path} PROVE CompareFits(t, id, R, D)
  <2>1. Pointed(t)
    BY <1>3, <1>4, <1>6, <1>7 DEF Pointed
  <2>2. RangeDue(b, id, R) => RangeDue(t, id, R)
    BY <1>4 DEF RangeDue, Due
  <2>3. DiffDue(b, id, D) => DiffDue(t, id, D)
    BY <1>4 DEF DiffDue, Takes
  <2>4. AtRest(b) => AtRest(t)
    BY <1>4, <2>1 DEF AtRest, ShowsItsFile, Pointed
  <2> QED BY <1>1, <1>4, <1>6, <2>1, <2>2, <2>3, <2>4 DEF CompareFits
<1>8. row \in {Folder, b.path} => ComparesFit(u, RW, DW)
  <2> SUFFICES ASSUME row \in {Folder, b.path} PROVE ComparesFit(u, RW, DW)
    OBVIOUS
  <2>1. TabsFit(u, R, D)
    BY <1>1, <1>2, <1>5, <1>7, PutFits
  <2> QED BY <1>2, <2>1 DEF ComparesFit, R, D
<1>9. row # Folder => ComparesFit(LoadDiff(u, id, row), RW, DW)
  <2>1. TabsFitBut(u, id, R, D) /\ u.tabs[id] = t
    <3>1. \A j \in D : j.tab = id \/ j \in D
      OBVIOUS
    <3> QED BY <1>1, <1>2, <1>5, <3>1, PutOthers
  <2>2. OtherComparesFit(u, id, RW, DW)
    BY <1>2, <2>1 DEF OtherComparesFit, R, D
  <2>3. row # NoPath
    BY <1>4, <1>6 DEF b
  <2>4. /\ DiffsNumbered(u.tabs[id], id, ToSet(u.diff) \union DW)
        /\ ListComes(u.tabs[id], id, ToSet(u.range) \union RW)
        /\ NoPath \notin u.tabs[id].rows /\ u.tabs[id].cursor = row
    BY <1>2, <1>3, <1>6, <2>1 DEF R, D
  <2> QED BY <2>2, <2>3, <2>4, LoadDiffFits
<1> QED
  BY <1>8, <1>9 DEF b

LEMMA MoveToKeeps == ASSUME TInv, NEW row, MoveTo(row) PROVE TInv'
<1> DEFINE id == ActiveId(ui)
           s == [ui EXCEPT !.tabs[id].cursor = row]
<1>1. ComparesFit(ui, AtWork("range"), AtWork("diff")) /\ TabsShape(ui)
  BY FitShape DEF TInv
<1>2. id \in OpenTabs(ui)
  BY <1>1, ActiveIsOpen DEF MoveTo
<1>3. row \in ui.tabs[id].rows
  BY DEF MoveTo
<1>4. ui' = IF row \in {Folder, ui.tabs[id].path} THEN s ELSE LoadDiff(s, id, row)
  BY DEF MoveTo
<1>5. /\ row \in {Folder, ui.tabs[id].path} => ComparesFit(s, AtWork("range"), AtWork("diff"))
      /\ row # Folder => ComparesFit(LoadDiff(s, id, row), AtWork("range"), AtWork("diff"))
  <2>1. Puts(ui, s, id, [ui.tabs[id] EXCEPT !.cursor = row]) /\ s.range = ui.range /\ s.diff = ui.diff
    BY <1>1, <1>2, OpenIsTab DEF TabsShape, UiFields, Puts
  <2> HIDE DEF id, s
  <2> QED BY <1>1, <1>2, <1>3, <2>1, CursorMoves
<1> HIDE DEF s, id
<1>6. ComparesFit(ui', AtWork("range"), AtWork("diff"))
  BY <1>4, <1>5
<1> QED
  BY <1>6, WorkersStay DEF MoveTo, TabKey

LEMMA ToggleContextKeeps == ASSUME TInv, ToggleContext PROVE TInv'
<1> DEFINE id == ActiveId(ui)
           t == ui.tabs[id]
           R == ToSet(ui.range) \union AtWork("range")
           D == ToSet(ui.diff) \union AtWork("diff")
<1>1. ComparesFit(ui, AtWork("range"), AtWork("diff")) /\ TabsShape(ui)
  BY FitShape DEF TInv
<1>2. id \in OpenTabs(ui) /\ id \in DOMAIN ui.tabs
  BY <1>1, ActiveIsOpen, OpenIsTab DEF ToggleContext
<1>3. t.path # NoPath /\ ui' = LoadDiff(ui, id, t.path)
  BY DEF ToggleContext
<1>4. CompareFits(t, id, R, D)
  BY <1>1, <1>2 DEF ComparesFit, TabsFit
<1>5. DiffsNumbered(t, id, D) /\ ListComes(t, id, R) /\ NoPath \notin t.rows
      /\ (t.cursor \in t.rows \ {Folder} => t.path = t.cursor)
  <2> HIDE DEF t, R, D, id
  <2> QED BY <1>4 DEF CompareFits, ListComes, Pointed
<1>6. OtherComparesFit(ui, id, AtWork("range"), AtWork("diff"))
  BY <1>1, <1>2, FitsOthers
<1>7. ComparesFit(LoadDiff(ui, id, t.path), AtWork("range"), AtWork("diff"))
  <2> HIDE DEF id
  <2>1. PICK path : path = t.path
    OBVIOUS
  <2> QED BY <1>3, <1>5, <1>6, <2>1, LoadDiffFits
<1> QED
  BY <1>3, <1>7, WorkersStay DEF ToggleContext, TabKey

LEMMA RefreshTabKeeps == ASSUME TInv, RefreshTab PROVE TInv'
<1>1. ComparesFit(ui, AtWork("range"), AtWork("diff")) /\ TabsShape(ui)
  BY FitShape DEF TInv
<1>2. ActiveId(ui) \in OpenTabs(ui) /\ ui' = LoadRange(ui, ActiveId(ui))
  BY <1>1, ActiveIsOpen DEF RefreshTab
<1>3. ComparesFit(LoadRange(ui, ActiveId(ui)), AtWork("range"), AtWork("diff"))
  BY <1>1, <1>2, RangeReloadFits
<1> QED
  BY <1>2, <1>3, WorkersStay DEF RefreshTab, TabKey

-----------------------------------------------------------------------------
(* The watch tick and the status *)

LEMMA WatchTickKeeps == ASSUME TInv, WatchTick PROVE TInv'
<1>1. ComparesFit(ui, AtWork("range"), AtWork("diff")) /\ TabsShape(ui)
  BY FitShape DEF TInv
<1>2. /\ DOMAIN ui' = UiFields /\ ui'.strip = ui.strip /\ ui'.tabs = ui.tabs /\ ui'.range = ui.range
      /\ ui'.diff = ui.diff /\ ui'.active = ui.active
  BY <1>1 DEF WatchTick, Probe, TabsShape, UiFields
<1>3. ComparesFit(ui', AtWork("range"), AtWork("diff"))
  BY <1>1, <1>2, SameTabs DEF TabsShape
<1> QED
  BY <1>3, WorkersStay DEF WatchTick

LEMMA SnapshotMovesKeeps == ASSUME TInv, NEW v, SnapshotMoves(v) PROVE TInv'
<1> DEFINE s == [ui EXCEPT !.snapshot = v]
<1>1. ComparesFit(ui, AtWork("range"), AtWork("diff")) /\ TabsShape(ui)
  BY FitShape DEF TInv
<1>2. /\ DOMAIN s = UiFields /\ s.strip = ui.strip /\ s.tabs = ui.tabs /\ s.range = ui.range
      /\ s.diff = ui.diff /\ s.active \in 0..Len(s.strip)
  BY <1>1 DEF TabsShape, UiFields
<1>3. ui' = WorktreeReload(s)
  BY DEF SnapshotMoves
<1> HIDE DEF s
<1>4. ComparesFit(WorktreeReload(s), AtWork("range"), AtWork("diff"))
  BY <1>1, <1>2, SameTabs, WorktreeFits
<1> QED
  BY <1>3, <1>4, WorkersStay DEF SnapshotMoves

LEMMA DiskMovesKeeps == ASSUME TInv, DiskMoves PROVE TInv'
<1>1. disk' \in 1..Len(Heads) /\ \A n \in 1..disk : n \in 1..disk'
  <2>1. Len(Heads) \in Nat
    BY CompareTabsAssumption, LenProperties
  <2> QED BY <2>1 DEF TInv, Dated, DiskMoves
<1>2. Dated'
  BY <1>1 DEF TInv, Dated, DiskMoves
<1> QED
  BY <1>2 DEF TInv, DiskMoves, AtWork

-----------------------------------------------------------------------------
(* Workers *)

LEMMA StartAdds ==
    ASSUME TInv, NEW job, NEW of, Start(job, of), UNCHANGED disk
    PROVE  /\ Listed(working)' /\ Dated'
           /\ AtWork(job)' = AtWork(job) \union {of}
           /\ \A k : k # job => AtWork(k)' = AtWork(k)
<1> DEFINE w == [job |-> job, of |-> of, since |-> disk]
<1>1. /\ Listed(working') /\ ToSet(working') = ToSet(working) \union {w}
      /\ DOMAIN working' = 1..(Len(working) + 1)
      /\ \A i \in 1..Len(working) : working'[i] = working[i]
      /\ working'[Len(working) + 1] = w
  BY AppendListed DEF Start, TInv
<1>2. w.job = job /\ w.of = of /\ w.since = disk
  OBVIOUS
<1> HIDE DEF w
<1>3. Dated'
  <2>1. Len(working) \in Nat /\ DOMAIN working = 1..Len(working)
    BY ListedShape DEF TInv
  <2>2. disk \in 1..disk
    BY CompareTabsAssumption, LenProperties DEF TInv, Dated
  <2>3. \A i \in DOMAIN working' : i \in DOMAIN working \/ i = Len(working) + 1
    BY <1>1, <2>1
  <2>4. \A i \in DOMAIN working' : working'[i].since \in 1..disk
    BY <1>1, <1>2, <2>1, <2>2, <2>3 DEF TInv, Dated
  <2> QED BY <2>4 DEF TInv, Dated
<1>4. AtWork(job)' = AtWork(job) \union {of}
  BY <1>1, <1>2 DEF AtWork
<1>5. \A k : k # job => AtWork(k)' = AtWork(k)
  BY <1>1, <1>2 DEF AtWork
<1> QED
  BY <1>1, <1>3, <1>4, <1>5

\* A job that moves from its queue to a worker is still on its way.
LEMMA SpawnFits ==
    ASSUME NEW s, NEW RW, NEW DW, ComparesFit(s, RW, DW), NEW u, NEW SW, NEW EW, DOMAIN u = UiFields,
           u.strip = s.strip, u.tabs = s.tabs, u.active = s.active, Listed(u.range), Listed(u.diff),
           ToSet(u.range) \union SW = ToSet(s.range) \union RW,
           ToSet(u.diff) \union EW = ToSet(s.diff) \union DW
    PROVE  ComparesFit(u, SW, EW)
<1>1. TabsShape(u)
  BY DEF ComparesFit, TabsFit, TabsShape
<1>2. OpenTabs(u) = OpenTabs(s)
  BY DEF OpenTabs
<1> QED
  BY <1>1, <1>2 DEF ComparesFit, TabsFit

LEMMA SpawnKeeps == ASSUME TInv, SpawnPaneJob PROVE TInv'
<1>1. ComparesFit(ui, AtWork("range"), AtWork("diff")) /\ TabsShape(ui)
  BY FitShape DEF TInv
<1>2. Listed(ui.range) /\ Listed(ui.diff) /\ DOMAIN ui = UiFields
  BY <1>1 DEF TabsShape
<1>3. CASE /\ ui.range # <<>> /\ Start("range", Head(ui.range)) /\ ui' = [ui EXCEPT !.range = Tail(@)]
  <2>1. /\ Listed(working)' /\ Dated' /\ AtWork("range")' = AtWork("range") \union {Head(ui.range)}
        /\ AtWork("diff")' = AtWork("diff")
    BY <1>3, StartAdds DEF SpawnPaneJob
  <2>2. Listed(Tail(ui.range)) /\ ToSet(ui.range) = ToSet(Tail(ui.range)) \union {Head(ui.range)}
    BY <1>2, <1>3, TailListed
  <2>3. /\ DOMAIN ui' = UiFields /\ ui'.strip = ui.strip /\ ui'.tabs = ui.tabs /\ ui'.active = ui.active
        /\ ui'.range = Tail(ui.range) /\ ui'.diff = ui.diff
    BY <1>2, <1>3 DEF UiFields
  <2>4. /\ ToSet(ui'.range) \union AtWork("range")' = ToSet(ui.range) \union AtWork("range")
        /\ ToSet(ui'.diff) \union AtWork("diff")' = ToSet(ui.diff) \union AtWork("diff")
    BY <2>1, <2>2, <2>3
  <2>5. ComparesFit(ui', AtWork("range")', AtWork("diff")')
    BY <1>1, <1>2, <2>2, <2>3, <2>4, SpawnFits
  <2> QED BY <2>1, <2>5 DEF TInv
<1>4. CASE /\ ui.diff # <<>> /\ Start("diff", Head(ui.diff)) /\ ui' = [ui EXCEPT !.diff = Tail(@)]
  <2>1. /\ Listed(working)' /\ Dated' /\ AtWork("diff")' = AtWork("diff") \union {Head(ui.diff)}
        /\ AtWork("range")' = AtWork("range")
    BY <1>4, StartAdds DEF SpawnPaneJob
  <2>2. Listed(Tail(ui.diff)) /\ ToSet(ui.diff) = ToSet(Tail(ui.diff)) \union {Head(ui.diff)}
    BY <1>2, <1>4, TailListed
  <2>3. /\ DOMAIN ui' = UiFields /\ ui'.strip = ui.strip /\ ui'.tabs = ui.tabs /\ ui'.active = ui.active
        /\ ui'.diff = Tail(ui.diff) /\ ui'.range = ui.range
    BY <1>2, <1>4 DEF UiFields
  <2>4. /\ ToSet(ui'.range) \union AtWork("range")' = ToSet(ui.range) \union AtWork("range")
        /\ ToSet(ui'.diff) \union AtWork("diff")' = ToSet(ui.diff) \union AtWork("diff")
    BY <2>1, <2>2, <2>3
  <2>5. ComparesFit(ui', AtWork("range")', AtWork("diff")')
    BY <1>1, <1>2, <2>2, <2>3, <2>4, SpawnFits
  <2> QED BY <2>1, <2>5 DEF TInv
<1>5. CASE /\ Start("probe", Head(ui.probe)) /\ ui' = [ui EXCEPT !.probe = Tail(@)]
  <2>1. /\ Listed(working)' /\ Dated' /\ AtWork("range")' = AtWork("range")
        /\ AtWork("diff")' = AtWork("diff")
    BY <1>5, StartAdds DEF SpawnPaneJob
  <2>2. /\ DOMAIN ui' = UiFields /\ ui'.strip = ui.strip /\ ui'.tabs = ui.tabs /\ ui'.active = ui.active
        /\ ui'.range = ui.range /\ ui'.diff = ui.diff
    BY <1>2, <1>5 DEF UiFields
  <2>3. ComparesFit(ui', AtWork("range")', AtWork("diff")')
    BY <1>1, <1>2, <2>1, <2>2, SpawnFits
  <2> QED BY <2>1, <2>3 DEF TInv
<1> QED
  BY <1>3, <1>4, <1>5 DEF SpawnPaneJob

\* The worker that ends had one job, and the others stay.
LEMMA EndsRemoves ==
    ASSUME TInv, NEW i, NEW job, NEW ok, Ends(i, job, ok)
    PROVE  /\ Listed(working)' /\ Dated'
           /\ \A k : k # job => AtWork(k)' = AtWork(k)
           /\ AtWork(job) = AtWork(job)' \union {working[i].of}
           /\ ReadBy(i) \subseteq DOMAIN Heads
<1>1. i \in DOMAIN working /\ working[i].job = job /\ working' = RemoveAt(working, i) /\ disk' = disk
  BY DEF Ends
<1>2. /\ Listed(working') /\ Len(working') = Len(working) - 1
      /\ \A k \in 1..(Len(working) - 1) : working'[k] = IF k < i THEN working[k] ELSE working[k + 1]
      /\ ToSet(working) = ToSet(working') \union {working[i]}
  <2>1. Listed(working)
    BY DEF TInv
  <2> QED BY <1>1, <2>1, RemoveListed
<1>3. Dated'
  <2>1. /\ Len(working) \in Nat /\ DOMAIN working = 1..Len(working)
        /\ DOMAIN working' = 1..(Len(working) - 1)
    BY <1>2, ListedShape DEF TInv
  <2>2. ASSUME NEW k \in DOMAIN working' PROVE working'[k].since \in 1..disk
    <3>1. k \in DOMAIN working /\ k + 1 \in DOMAIN working
      BY <2>1
    <3>2. working'[k] = working[k] \/ working'[k] = working[k + 1]
      BY <1>2, <2>1
    <3> QED BY <3>1, <3>2 DEF TInv, Dated
  <2> QED BY <1>1, <2>2 DEF TInv, Dated
<1>4. \A k : k # job => AtWork(k)' = AtWork(k)
  BY <1>1, <1>2 DEF AtWork
<1>5. AtWork(job) = AtWork(job)' \union {working[i].of}
  BY <1>1, <1>2 DEF AtWork
<1>6. ReadBy(i) \subseteq DOMAIN Heads
  <2>1. Len(Heads) \in Nat /\ DOMAIN Heads = 1..Len(Heads)
    BY CompareTabsAssumption, LenProperties
  <2>2. working[i].since \in 1..disk /\ disk \in 1..Len(Heads)
    BY <1>1 DEF TInv, Dated
  <2> QED BY <2>1, <2>2 DEF ReadBy
<1> QED
  BY <1>2, <1>3, <1>4, <1>5, <1>6

-----------------------------------------------------------------------------
(* Results *)

\* The open tab that a result changes.
LEMMA LandedTab ==
    ASSUME NEW s, NEW RW, NEW DW, ComparesFit(s, RW, DW), NEW id \in OpenTabs(s)
    PROVE  /\ id \in DOMAIN s.tabs /\ DOMAIN s.tabs[id] = TabFields /\ DOMAIN s = UiFields
           /\ Listed(s.range) /\ Listed(s.diff)
           /\ CompareFits(s.tabs[id], id, ToSet(s.range) \union RW, ToSet(s.diff) \union DW)
           /\ TabsFitBut(s, id, ToSet(s.range) \union RW, ToSet(s.diff) \union DW)
<1>1. TabsShape(s) /\ CompareFits(s.tabs[id], id, ToSet(s.range) \union RW, ToSet(s.diff) \union DW)
  BY DEF ComparesFit, TabsFit
<1>2. id \in DOMAIN s.tabs
  BY <1>1, OpenIsTab
<1>3. TabsFitBut(s, id, ToSet(s.range) \union RW, ToSet(s.diff) \union DW)
  BY <1>2, FitsOthers DEF OtherComparesFit
<1> QED
  BY <1>1, <1>2, <1>3 DEF TabsShape

\* A list that no tab takes.
LEMMA StaleRange ==
    ASSUME NEW s, NEW RW, NEW DW, ComparesFit(s, RW, DW), NEW j, NEW SW, RW \subseteq SW \union {j},
           ~SameLoad(s, j)
    PROVE  ComparesFit(s, SW, DW)
<1> DEFINE R == ToSet(s.range) \union RW
           S == ToSet(s.range) \union SW
           D == ToSet(s.diff) \union DW
<1>1. ASSUME NEW id \in OpenTabs(s) PROVE CompareFits(s.tabs[id], id, S, D)
  <2>1. CompareFits(s.tabs[id], id, R, D)
    BY DEF ComparesFit, TabsFit
  <2>2. ASSUME NEW r \in R, Due(s.tabs[id], id, r) PROVE r \in S
    <3>1. r # j
      BY <1>1, <2>2 DEF Due, SameLoad
    <3> QED BY <3>1
  <2> HIDE DEF R, S, D
  <2>3. \A k : k.tab = id => (k \in D <=> k \in D)
    OBVIOUS
  <2> QED BY <2>1, <2>2, <2>3, OwnJobs
<1> QED
  BY <1>1 DEF ComparesFit, TabsFit

\* A list that failed leaves an empty tab.
LEMMA FailedFits ==
    ASSUME NEW s, NEW RW, NEW DW, ComparesFit(s, RW, DW), NEW j, NEW SW, RW \subseteq SW \union {j},
           NEW id \in OpenTabs(s), j.tab = id
    PROVE  ComparesFit(RangeFailed(s, id), SW, DW)
<1> DEFINE R == ToSet(s.range) \union RW
           S == ToSet(s.range) \union SW
           D == ToSet(s.diff) \union DW
           b == s.tabs[id]
           t == [b EXCEPT !.loading = FALSE, !.error = TRUE, !.source = 0, !.rows = {},
                          !.path = NoPath, !.cursor = NoPath, !.shown = NoContent]
           u == RangeFailed(s, id)
<1>1. /\ id \in DOMAIN s.tabs /\ DOMAIN b = TabFields /\ DOMAIN s = UiFields
      /\ Listed(s.range) /\ Listed(s.diff) /\ CompareFits(b, id, R, D) /\ TabsFitBut(s, id, R, D)
  BY LandedTab
<1>2. Puts(s, u, id, t) /\ u.range = s.range /\ u.diff = s.diff
  BY <1>1 DEF RangeFailed, Puts, UiFields
<1>3. /\ DOMAIN t = TabFields /\ t.req = b.req /\ t.rows = {} /\ t.path = NoPath /\ ~t.loading
      /\ t.error /\ t.shown = NoContent
  BY <1>1 DEF TabFields
<1>4. OnlyOf(id, R, D, S, D)
  BY DEF OnlyOf
<1> HIDE DEF R, S, D, t, u, b
<1>5. CompareFits(t, id, S, D)
  <2>1. DiffsNumbered(t, id, D)
    BY <1>1, <1>3 DEF CompareFits, DiffsNumbered
  <2>2. Pointed(t) /\ NewestNamed(t, id, D) /\ AtRest(t)
    BY <1>3 DEF Pointed, NewestNamed, AtRest
  <2> QED BY <1>3, <2>1, <2>2 DEF CompareFits
<1>6. \A k \in D : k.tab = id \/ k \in D
  OBVIOUS
<1>7. TabsFit(u, S, D)
  <2>1. Listed(u.range) /\ Listed(u.diff)
    BY <1>1, <1>2
  <2> QED BY <1>1, <1>2, <1>3, <1>4, <1>5, <1>6, <2>1, PutFits
<1> QED
  BY <1>2, <1>7 DEF ComparesFit, S, D, u

\* Rows are never NoPath.
LEMMA RowsAreRows == ASSUME NEW t, NEW v \in DOMAIN Heads PROVE NoPath \notin RowsIn(t, v)
BY CompareTabsAssumption DEF RowsIn

\* A list that arrived.
LEMMA LoadedFits ==
    ASSUME NEW s, NEW RW, NEW DW, ComparesFit(s, RW, DW), NEW j, NEW SW, RW \subseteq SW \union {j},
           NEW id \in OpenTabs(s), j.tab = id, NEW v \in DOMAIN Heads,
           NEW row, row \in RowsIn(s.tabs[id], v) \union {NoPath}
    PROVE  ComparesFit(RangeLoaded(s, id, v, row), SW, DW)
<1> DEFINE R == ToSet(s.range) \union RW
           S == ToSet(s.range) \union SW
           D == ToSet(s.diff) \union DW
           b == s.tabs[id]
           t == [b EXCEPT !.loading = FALSE, !.error = FALSE, !.source = SourceAt(b, v), !.seen = Heads[v],
                          !.rows = RowsIn(b, v), !.cursor = row]
           u == [s EXCEPT !.tabs[id] = t]
           e == [t EXCEPT !.path = NoPath, !.shown = NoContent]
           w == [u EXCEPT !.tabs[id].path = NoPath, !.tabs[id].shown = NoContent]
<1>1. /\ id \in DOMAIN s.tabs /\ DOMAIN b = TabFields /\ DOMAIN s = UiFields
      /\ Listed(s.range) /\ Listed(s.diff) /\ CompareFits(b, id, R, D) /\ TabsFitBut(s, id, R, D)
  BY LandedTab
<1>2. RangeLoaded(s, id, v, row) = IF row \in {Folder, NoPath} THEN w ELSE LoadDiff(u, id, row)
  BY DEF RangeLoaded
<1>3. Puts(s, u, id, t) /\ u.range = s.range /\ u.diff = s.diff
  BY <1>1 DEF Puts, UiFields
<1>4. /\ DOMAIN t = TabFields /\ t.req = b.req /\ t.rows = RowsIn(b, v) /\ ~t.loading /\ t.cursor = row
  BY <1>1 DEF TabFields
<1>5. OnlyOf(id, R, D, S, D) /\ \A k \in D : k.tab = id \/ k \in D
  BY DEF OnlyOf
<1>6. Puts(s, w, id, e) /\ w.range = s.range /\ w.diff = s.diff
  BY <1>1, <1>3, <1>4 DEF Puts, UiFields, TabFields
<1>7. /\ DOMAIN e = TabFields /\ e.req = b.req /\ e.rows = RowsIn(b, v) /\ ~e.loading /\ e.cursor = row
      /\ e.path = NoPath /\ e.shown = NoContent
  BY <1>4 DEF TabFields
<1> HIDE DEF R, S, D, t, u, e, w
<1>8. NoPath \notin RowsIn(b, v) /\ row \in RowsIn(b, v) \union {NoPath}
  BY RowsAreRows
<1> HIDE DEF b
<1>9. CASE row \in {Folder, NoPath}
  <2>1. DiffsNumbered(e, id, D)
    BY <1>1, <1>7 DEF CompareFits, DiffsNumbered
  <2>2. Pointed(e) /\ NewestNamed(e, id, D)
    BY <1>7, <1>8, <1>9 DEF Pointed, NewestNamed
  <2>3. AtRest(e)
    BY <1>7, <1>8, <1>9 DEF AtRest, ShowsItsFile, NoContent
  <2>4. CompareFits(e, id, S, D)
    BY <1>7, <2>1, <2>2, <2>3 DEF CompareFits
  <2>5. Listed(w.range) /\ Listed(w.diff)
    BY <1>1, <1>6
  <2>6. TabsFit(w, S, D)
    BY <1>1, <1>5, <1>6, <1>7, <2>4, <2>5, PutFits
  <2> QED BY <1>2, <1>6, <1>9, <2>6 DEF ComparesFit, S, D
<1>10. CASE row \notin {Folder, NoPath}
  <2>1. Listed(u.range) /\ Listed(u.diff)
    BY <1>1, <1>3
  <2>2. TabsFitBut(u, id, S, D) /\ u.tabs[id] = t
    BY <1>1, <1>3, <1>4, <1>5, <2>1, PutOthers
  <2>3. OtherComparesFit(u, id, SW, DW)
    BY <1>3, <2>2 DEF OtherComparesFit, S, D
  <2>4. DiffsNumbered(u.tabs[id], id, D)
    BY <1>1, <1>4, <2>2 DEF CompareFits, DiffsNumbered
  <2>5. ListComes(u.tabs[id], id, ToSet(u.range) \union SW)
    BY <1>4, <2>2 DEF ListComes
  <2>6. NoPath \notin u.tabs[id].rows /\ u.tabs[id].cursor = row
    BY <1>4, <1>8, <2>2
  <2>7. ToSet(u.diff) \union DW = D
    BY <1>3 DEF D
  <2>8. ComparesFit(LoadDiff(u, id, row), SW, DW)
    BY <1>10, <2>3, <2>4, <2>5, <2>6, <2>7, LoadDiffFits
  <2> QED BY <1>2, <1>10, <2>8
<1> QED
  BY <1>9, <1>10

LEMMA LandingIsRow == ASSUME NEW t, NEW rows PROVE Landing(t, rows) \subseteq rows
BY DEF Landing

LEMMA LandRangeKeeps == ASSUME TInv, NEW i, NEW ok, LandRange(i, ok) PROVE TInv'
<1> DEFINE j == working[i].of
           RW == AtWork("range")
           DW == AtWork("diff")
           SW == AtWork("range")'
<1>1. /\ Listed(working)' /\ Dated' /\ DW' = DW /\ RW = SW \union {j} /\ ReadBy(i) \subseteq DOMAIN Heads
  BY EndsRemoves DEF LandRange
<1>2. ComparesFit(ui, RW, DW)
  BY DEF TInv
<1>3. CASE ~SameLoad(ui, j)
  <2>1. ui' = ui
    BY <1>3 DEF LandRange
  <2>2. ComparesFit(ui, SW, DW)
    <3> HIDE DEF j, RW, DW, SW
    <3> QED BY <1>1, <1>2, <1>3, StaleRange
  <2> QED BY <1>1, <2>1, <2>2 DEF TInv
<1>4. CASE SameLoad(ui, j)
  <2> DEFINE id == j.tab
             t == ui.tabs[id]
  <2>1. id \in OpenTabs(ui)
    BY <1>4 DEF SameLoad
  <2>2. \/ ui' = RangeFailed(ui, id)
        \/ \E v \in DOMAIN Heads : \E row \in RowsIn(t, v) \union {NoPath} : ui' = RangeLoaded(ui, id, v, row)
    <3>1. CASE ~ok
      BY <1>4, <3>1 DEF LandRange
    <3>2. CASE ok
      <4>1. PICK v \in ReadBy(i) :
              IF Landing(t, RowsIn(t, v)) = {} THEN ui' = RangeLoaded(ui, id, v, NoPath)
              ELSE \E row \in Landing(t, RowsIn(t, v)) : ui' = RangeLoaded(ui, id, v, row)
        BY <1>4, <3>2 DEF LandRange
      <4>2. v \in DOMAIN Heads
        BY <1>1
      <4> HIDE DEF t, id
      <4>3. CASE Landing(t, RowsIn(t, v)) = {}
        BY <4>1, <4>2, <4>3
      <4>4. CASE Landing(t, RowsIn(t, v)) # {}
        <5>1. PICK row \in Landing(t, RowsIn(t, v)) : ui' = RangeLoaded(ui, id, v, row)
          BY <4>1, <4>4
        <5>2. row \in RowsIn(t, v)
          BY LandingIsRow
        <5> QED BY <4>2, <5>1, <5>2
      <4> QED BY <4>3, <4>4
    <3> QED BY <3>1, <3>2
  <2> HIDE DEF j, RW, DW, SW
  <2>3. RW \subseteq SW \union {j}
    BY <1>1
  <2>4. ComparesFit(ui', SW, DW)
    <3>1. CASE ui' = RangeFailed(ui, id)
      <4>1. ComparesFit(RangeFailed(ui, id), SW, DW)
        BY <1>2, <2>1, <2>3, FailedFits
      <4> QED BY <3>1, <4>1
    <3>2. CASE \E v \in DOMAIN Heads : \E row \in RowsIn(t, v) \union {NoPath} : ui' = RangeLoaded(ui, id, v, row)
      <4>0. PICK v \in DOMAIN Heads : \E row \in RowsIn(t, v) \union {NoPath} : ui' = RangeLoaded(ui, id, v, row)
        BY <3>2
      <4>1. PICK row \in RowsIn(t, v) \union {NoPath} : ui' = RangeLoaded(ui, id, v, row)
        BY <4>0
      <4>2. ComparesFit(RangeLoaded(ui, id, v, row), SW, DW)
        BY <1>2, <2>1, <2>3, LoadedFits
      <4> QED BY <4>1, <4>2
    <3> QED BY <2>2, <3>1, <3>2
  <2> QED BY <1>1, <2>4 DEF TInv, RW, DW, SW
<1> QED
  BY <1>3, <1>4

\* A diff that no tab takes.
LEMMA StaleDiff ==
    ASSUME NEW s, NEW RW, NEW DW, ComparesFit(s, RW, DW), NEW j, NEW EW, DW = EW \union {j}, ~Wanted(s, j)
    PROVE  ComparesFit(s, RW, EW)
<1> DEFINE R == ToSet(s.range) \union RW
           D == ToSet(s.diff) \union DW
           E == ToSet(s.diff) \union EW
<1>1. ASSUME NEW id \in OpenTabs(s) PROVE CompareFits(s.tabs[id], id, R, E)
  <2>1. CompareFits(s.tabs[id], id, R, D)
    BY DEF ComparesFit, TabsFit
  <2>2. ASSUME NEW k \in D, Takes(s.tabs[id], id, k) PROVE k \in E
    <3>1. k # j
      BY <1>1, <2>2 DEF Takes, Wanted, SameLoad
    <3> QED BY <3>1
  <2>3. E \subseteq D
    OBVIOUS
  <2> HIDE DEF R, E, D
  <2> QED BY <2>1, <2>2, <2>3, FewerDiffs
<1> QED
  BY <1>1 DEF ComparesFit, TabsFit

\* The diff of tab id arrived, with what it shows, or failed.
LEMMA DiffLands ==
    ASSUME NEW s, NEW RW, NEW DW, ComparesFit(s, RW, DW), NEW j, NEW EW, DW = EW \union {j}, Wanted(s, j),
           NEW id \in OpenTabs(s), id = j.tab, NEW u, NEW t, Puts(s, u, id, t),
           u.range = s.range, u.diff = s.diff, DOMAIN t = TabFields,
           \A f \in TabFields \ {"error", "path", "shown"} : t[f] = s.tabs[id][f],
           \/ t.path = s.tabs[id].path /\ t.error /\ t.shown = NoContent
           \/ t.path = j.path /\ t.shown.path = j.path /\ t.shown.source = j.source
    PROVE  ComparesFit(u, RW, EW)
<1> DEFINE R == ToSet(s.range) \union RW
           D == ToSet(s.diff) \union DW
           E == ToSet(s.diff) \union EW
           b == s.tabs[id]
<1>1. /\ id \in DOMAIN s.tabs /\ Listed(s.range) /\ Listed(s.diff)
      /\ CompareFits(b, id, R, D) /\ TabsFitBut(s, id, R, D)
  BY LandedTab
<1>2. OnlyOf(id, R, D, R, E) /\ (\A k \in E : k.tab = id \/ k \in D) /\ E \subseteq D /\ j \in D
  BY DEF OnlyOf
<1>3. /\ t.req = b.req /\ t.gen = b.gen /\ t.source = b.source /\ t.rows = b.rows
      /\ t.cursor = b.cursor /\ t.loading = b.loading
  BY DEF TabFields
<1>4. j.tab = id /\ j.req = b.req /\ j.source = b.source /\ b \in {s.tabs[id]}
  BY DEF Wanted, SameLoad
<1>5. \/ t.path = b.path /\ t.error /\ t.shown = NoContent
      \/ t.path = j.path /\ t.shown.path = j.path /\ t.shown.source = j.source
  OBVIOUS
<1> HIDE DEF R, D, E, b
<1>6. DiffsNumbered(b, id, D) /\ Pointed(b) /\ NewestNamed(b, id, D)
  BY <1>1 DEF CompareFits
<1>7. j.path # NoPath /\ \A k \in D : k.tab = id /\ k.req = b.req => k.path = j.path
  BY <1>2, <1>4, <1>6 DEF DiffsNumbered
<1>8. DiffsNumbered(t, id, E)
  BY <1>2, <1>3, <1>6 DEF DiffsNumbered
<1>9. b.path # NoPath => b.path = j.path
  BY <1>2, <1>4, <1>6 DEF NewestNamed
<1>10. Pointed(t)
  BY <1>3, <1>5, <1>6, <1>9 DEF Pointed
<1>11. NewestNamed(t, id, E)
  BY <1>2, <1>3, <1>5, <1>7, <1>9 DEF NewestNamed
<1>12. AtRest(t)
  BY <1>3, <1>4, <1>5, <1>7, <1>10 DEF AtRest, ShowsItsFile, Pointed
<1>13. RangeDue(b, id, R) => RangeDue(t, id, R)
  BY <1>3 DEF RangeDue, Due
<1>14. CompareFits(t, id, R, E)
  BY <1>1, <1>3, <1>8, <1>10, <1>11, <1>12, <1>13 DEF CompareFits
<1>15. TabsFit(u, R, E)
  <2>1. Listed(u.range) /\ Listed(u.diff)
    BY <1>1
  <2> QED BY <1>1, <1>2, <1>14, <2>1, PutFits
<1> QED
  BY <1>15 DEF ComparesFit, R, E

LEMMA LandDiffKeeps == ASSUME TInv, NEW i, NEW ok, LandDiff(i, ok) PROVE TInv'
<1> DEFINE j == working[i].of
           RW == AtWork("range")
           DW == AtWork("diff")
           EW == AtWork("diff")'
           id == j.tab
           b == ui.tabs[id]
<1>1. /\ Listed(working)' /\ Dated' /\ RW' = RW /\ DW = EW \union {j}
  BY EndsRemoves DEF LandDiff
<1>2. ComparesFit(ui, RW, DW)
  BY DEF TInv
<1>3. CASE ~Wanted(ui, j)
  <2>1. ui' = ui
    BY <1>3 DEF LandDiff
  <2>2. ComparesFit(ui, RW, EW)
    <3> HIDE DEF j, RW, DW, EW
    <3> QED BY <1>1, <1>2, <1>3, StaleDiff
  <2> QED BY <1>1, <2>1, <2>2 DEF TInv
<1>4. CASE Wanted(ui, j)
  <2>1. id \in OpenTabs(ui)
    BY <1>4 DEF Wanted, SameLoad
  <2>2. id \in DOMAIN ui.tabs /\ DOMAIN b = TabFields /\ DOMAIN ui = UiFields
    <3> HIDE DEF RW, DW, EW, j, id
    <3> QED BY <1>2, <2>1, LandedTab
  <2>3. PICK t : /\ Puts(ui, ui', id, t) /\ ui'.range = ui.range /\ ui'.diff = ui.diff /\ DOMAIN t = TabFields
                 /\ \A f \in TabFields \ {"error", "path", "shown"} : t[f] = b[f]
                 /\ \/ t.path = b.path /\ t.error /\ t.shown = NoContent
                    \/ t.path = j.path /\ t.shown.path = j.path /\ t.shown.source = j.source
    <3>1. CASE ~ok
      <4>1. ui' = [ui EXCEPT !.tabs[id].error = TRUE, !.tabs[id].shown = NoContent]
        BY <1>4, <3>1 DEF LandDiff
      <4>2. PICK t : t = [b EXCEPT !.error = TRUE, !.shown = NoContent]
        OBVIOUS
      <4> HIDE DEF j, id
      <4>3. Puts(ui, ui', id, t) /\ ui'.range = ui.range /\ ui'.diff = ui.diff
        BY <2>2, <4>1, <4>2 DEF Puts, UiFields
      <4>4. /\ DOMAIN t = TabFields
            /\ \A f \in TabFields \ {"error", "path", "shown"} : t[f] = b[f]
            /\ t.path = b.path /\ t.error /\ t.shown = NoContent
        BY <2>2, <4>2 DEF TabFields
      <4> HIDE DEF b
      <4> QED BY <4>3, <4>4
    <3>2. CASE ok
      <4>1. PICK c : /\ c.source = j.source /\ c.path = j.path
                     /\ ui' = [ui EXCEPT !.tabs[id].path = j.path, !.tabs[id].shown = c]
        BY <1>4, <3>2 DEF LandDiff
      <4>2. PICK t : t = [b EXCEPT !.path = j.path, !.shown = c]
        OBVIOUS
      <4> HIDE DEF j, id
      <4>3. Puts(ui, ui', id, t) /\ ui'.range = ui.range /\ ui'.diff = ui.diff
        BY <2>2, <4>1, <4>2 DEF Puts, UiFields
      <4>4. /\ DOMAIN t = TabFields
            /\ \A f \in TabFields \ {"error", "path", "shown"} : t[f] = b[f]
            /\ t.path = j.path /\ t.shown = c
        BY <2>2, <4>2 DEF TabFields
      <4> HIDE DEF b
      <4> QED BY <4>1, <4>3, <4>4
    <3> QED BY <3>1, <3>2
  <2>4. ComparesFit(ui', RW, EW)
    <3>1. id = j.tab
      OBVIOUS
    <3> HIDE DEF RW, DW, EW, j, id
    <3> QED BY <1>1, <1>2, <1>4, <2>1, <2>3, <3>1, DiffLands
  <2> QED BY <1>1, <2>4 DEF TInv
<1> QED
  BY <1>3, <1>4

LEMMA LandProbeKeeps == ASSUME TInv, NEW i, NEW ok, LandProbe(i, ok) PROVE TInv'
<1> DEFINE id == working[i].of.tab
<1>1. /\ Listed(working)' /\ Dated' /\ AtWork("range")' = AtWork("range") /\ AtWork("diff")' = AtWork("diff")
  BY EndsRemoves DEF LandProbe
<1>2. ComparesFit(ui, AtWork("range"), AtWork("diff"))
  BY DEF TInv
<1>3. CASE ui' = ui
  BY <1>1, <1>2, <1>3 DEF TInv
<1>4. CASE id \in OpenTabs(ui) /\ ui' = [ui EXCEPT !.tabs[id].error = TRUE]
  <2>1. id \in DOMAIN ui.tabs /\ DOMAIN ui.tabs[id] = TabFields /\ DOMAIN ui = UiFields
    BY <1>2, <1>4, LandedTab
  <2>2. PICK t : t = [ui.tabs[id] EXCEPT !.error = TRUE]
    OBVIOUS
  <2> HIDE DEF id
  <2>3. /\ Puts(ui, ui', id, t) /\ ui'.range = ui.range /\ ui'.diff = ui.diff
        /\ DOMAIN t = TabFields /\ (ui.tabs[id].error => t.error)
        /\ \A f \in TabFields \ {"stamp", "error"} : t[f] = ui.tabs[id][f]
    BY <1>4, <2>1, <2>2 DEF Puts, UiFields, TabFields
  <2>4. id \in OpenTabs(ui)
    BY <1>4
  <2>5. ComparesFit(ui', AtWork("range"), AtWork("diff"))
    BY <1>2, <2>3, <2>4, MarkFits
  <2> QED BY <1>1, <2>5 DEF TInv
<1>5. CASE id \in OpenTabs(ui) /\ ui' = LoadRange(ui, id)
  <2> HIDE DEF id
  <2>1. ComparesFit(LoadRange(ui, id), AtWork("range"), AtWork("diff"))
    BY <1>2, <1>5, RangeReloadFits
  <2> QED BY <1>1, <1>5, <2>1 DEF TInv
<1> QED
  BY <1>3, <1>4, <1>5 DEF LandProbe

-----------------------------------------------------------------------------
(* What the invariant says of the Compare tabs *)

LEMMA TabsInitHolds == TabsInit => TInv
<1> SUFFICES ASSUME TabsInit PROVE TInv
  OBVIOUS
<1>1. /\ ui.strip = <<>> /\ ui.tabs = <<>> /\ ui.range = <<>> /\ ui.diff = <<>> /\ ui.active = 0
      /\ DOMAIN ui = UiFields /\ working = <<>> /\ disk = 1
  BY DEF TabsInit, UiFields
<1>2. Listed(<<>>) /\ ToSet(<<>>) = {} /\ DOMAIN <<>> = {} /\ Len(<<>>) = 0
  BY EmptyIsListed
<1>3. AtWork("range") = {} /\ AtWork("diff") = {}
  BY <1>1, <1>2 DEF AtWork
<1>4. TabsShape(ui)
  BY <1>1, <1>2 DEF TabsShape
<1>5. OpenTabs(ui) = {}
  BY <1>1, <1>2 DEF OpenTabs
<1>6. ComparesFit(ui, AtWork("range"), AtWork("diff"))
  BY <1>1, <1>2, <1>3, <1>4, <1>5 DEF ComparesFit, TabsFit
<1>7. Dated
  <2>1. Len(Heads) \in Nat /\ Len(Heads) > 0
    BY CompareTabsAssumption, LenProperties
  <2> QED BY <1>1, <1>2, <2>1 DEF Dated
<1> QED
  BY <1>1, <1>2, <1>6, <1>7 DEF TInv

LEMMA TabsStepHolds == TInv /\ [TabsNext]_tabVars => TInv'
<1> SUFFICES ASSUME TInv, [TabsNext]_tabVars PROVE TInv'
  OBVIOUS
<1>1. CASE UNCHANGED tabVars
  BY <1>1 DEF tabVars, TInv, Dated, AtWork
<1>2. ASSUME NEW kind \in {"live", "worktree"}, OpenTab(kind) PROVE TInv'
  BY <1>2, OpenTabKeeps
<1>3. ASSUME NEW i \in 0..Len(ui.strip), ActivateTab(i) PROVE TInv'
  BY <1>3, ActivateTabKeeps
<1>4. ASSUME NEW i \in DOMAIN ui.strip, CloseTab(i) PROVE TInv'
  BY <1>4, CloseTabKeeps
<1>5. ASSUME NEW row, MoveTo(row) PROVE TInv'
  BY <1>5, MoveToKeeps
<1>6. ASSUME NEW v \in DOMAIN Heads, SnapshotMoves(v) PROVE TInv'
  BY <1>6, SnapshotMovesKeeps
<1>7. ASSUME NEW i \in DOMAIN working, NEW ok \in BOOLEAN, LandRange(i, ok) PROVE TInv'
  BY <1>7, LandRangeKeeps
<1>8. ASSUME NEW i \in DOMAIN working, NEW ok \in BOOLEAN, LandDiff(i, ok) PROVE TInv'
  BY <1>8, LandDiffKeeps
<1>9. ASSUME NEW i \in DOMAIN working, NEW ok \in BOOLEAN, LandProbe(i, ok) PROVE TInv'
  BY <1>9, LandProbeKeeps
<1> QED
  BY <1>1, <1>2, <1>3, <1>4, <1>5, <1>6, <1>7, <1>8, <1>9, ToggleContextKeeps, RefreshTabKeeps,
     DiskMovesKeeps, WatchTickKeeps, SpawnKeeps DEF TabsNext

LEMMA TInvSettles == TInv => CompareSettled
<1> SUFFICES ASSUME TInv, NEW id \in OpenTabs(ui), ~RangeOut(id)
             PROVE  LET t == ui.tabs[id]
                    IN ~t.loading /\ (DiffOut(id) \/ ShowsItsFile(t) \/ (t.error /\ t.shown = NoContent))
  BY DEF CompareSettled
<1> DEFINE t == ui.tabs[id]
           R == InFlight("range", ui.range)
           D == InFlight("diff", ui.diff)
<1>1. CompareFits(t, id, R, D)
  BY DEF TInv, ComparesFit, TabsFit, InFlight, AtWork
<1>2. ~RangeDue(t, id, R)
  BY DEF RangeDue, Due, RangeOut, SameLoad
<1>3. DiffDue(t, id, D) => DiffOut(id)
  BY DEF DiffDue, Takes, DiffOut
<1> QED
  BY <1>1, <1>2, <1>3 DEF CompareFits, AtRest

\* An open tab of which no file list is on its way is not loading, and shows
\* the file it names, of the range it lists, which is the file under the
\* cursor: or the diff of that file is on its way, or an error left it empty.
THEOREM TabsSettle == TabsSpec => []CompareSettled
<1>1. TabsSpec => []TInv
  BY TabsInitHolds, TabsStepHolds, PTL DEF TabsSpec
<1> QED
  BY <1>1, TInvSettles, PTL


-----------------------------------------------------------------------------
(* The Explorer tab: the inductive invariant, of a tab `s` while DW and FW *)
(* are on workers.                                                        *)

Stamps   == Nat \X Letters
Kinds    == {"file", "diff"}
DirJob   == [id : Nat, req : Nat \ {NoReq}, dir : Dirs]
FileJob  == [id : Nat, gen : Nat, file : Files, kind : Kinds]
Inner    == [of : Files, pinned : BOOLEAN, kind : Kinds, gen : Nat, loaded : BOOLEAN,
             shown : Stamps, missed : BOOLEAN, stamp : Stamps]
Explorer == [id : Nat, open : BOOLEAN, active : BOOLEAN, overlay : BOOLEAN,
             expanded : SUBSET Dirs, asked : SUBSET Dirs, listed : SUBSET Dirs,
             names : [Dirs -> SUBSET Nodes], newest : [Dirs -> Nat], req : Nat,
             relisted : SUBSET Files, cursor : Nodes \union {Root}, unread : BOOLEAN,
             files : Seq(Inner), file : Nat, gen : Nat, snapshot : Nat,
             dirJobs : Seq(DirJob), fileJobs : Seq(FileJob)]

\* Work: a job and the version since which it may have read the disk.
Work(jobs) == [of : jobs, since : 1..version]

\* The same of queued jobs, which start no earlier than now.
Queued(queue) == {[of |-> j, since |-> version] : j \in ToSet(queue)}

DirWork(s, DW)  == Queued(s.dirJobs) \union DW
FileWork(s, FW) == Queued(s.fileJobs) \union FW

\* The listing that a folder waits for.
DueDir(s, w, d) == w.of = [id |-> s.id, req |-> s.newest[d], dir |-> d]

\* Folders that wait have a listing due; `owed` are those about to ask.
Waiting(s, DW, owed) ==
    /\ \A d \in s.asked \ owed : s.newest[d] # NoReq
    /\ \A d \in Dirs : s.newest[d] # NoReq => \E w \in DirWork(s, DW) : DueDir(s, w, d)

\* Of one folder: no listing that comes is older than version u, and one
\* comes or has come.
ListedSince(s, DW, d, u) ==
    /\ \A w \in DirWork(s, DW) : DueDir(s, w, d) => w.since >= u
    /\ s.newest[d] # NoReq \/ \E v \in u..version : s.names[d] = ListDir(v, d)

\* A marked path was reported, and a folder on the way is listed since.
MarkFresh(s, DW, f) ==
    \E u \in 1..s.snapshot :
       Reports(u, f) /\ \E n \in Steps(f) : ListedSince(s, DW, Parent[n], u)

TreeFits(s, DW, owed) ==
    /\ \A w \in DirWork(s, DW) : w.of.id <= s.id /\ (w.of.id = s.id => w.of.req <= s.req)
    /\ s.open => /\ Waiting(s, DW, owed)
                 /\ ~s.unread => \A f \in s.relisted : MarkFresh(s, DW, f)

\* A load of an inner tab.
DueFile(s, w, t) == w.of.id = s.id /\ w.of.gen = t.gen

\* One inner tab per file and generation, and one preview.
Apart(files) ==
    \A i, k \in DOMAIN files : i # k =>
       /\ files[i].of # files[k].of /\ files[i].gen # files[k].gen
       /\ files[i].pinned \/ files[k].pinned

KindFor(change) == IF change = "clean" THEN "file" ELSE "diff"

\* Version w is when the stamp was taken, with the change of version u.
Stamped(t, u, w) == t.stamp = <<Token(w, t.of), Change(u, t.of)>>

\* What is shown, or comes, is no older than version w.
LoadedSince(s, FW, t, u, w) ==
    /\ t.kind = KindFor(Change(u, t.of))
    /\ \A k \in FileWork(s, FW) : DueFile(s, k, t) => k.since >= w
    /\ \/ \E k \in FileWork(s, FW) : DueFile(s, k, t)
       \/ t.missed
       \/ t.loaded /\ \E v \in w..version : t.shown = BodyOf(t.kind, v, t.of)

Fresh(s, FW, t) ==
    \E w \in 1..version : \E u \in 1..w :
       Stamped(t, u, w) /\ (Token(w, t.of) = 0 \/ LoadedSince(s, FW, t, u, w))

\* Loads of an inner tab are of its file and kind, and what is not loaded has one.
InnerFits(s, FW, t) ==
    /\ t.gen <= s.gen
    /\ \A w \in FileWork(s, FW) : DueFile(s, w, t) => w.of.file = t.of /\ w.of.kind = t.kind
    /\ t.loaded \/ \E w \in FileWork(s, FW) : DueFile(s, w, t)
    /\ Fresh(s, FW, t)

FilesFit(s, FW) ==
    /\ s.file \in 0..Len(s.files) /\ (s.file = 0 <=> s.files = <<>>)
    /\ \A w \in FileWork(s, FW) : w.of.id <= s.id /\ (w.of.id = s.id => w.of.gen <= s.gen)
    /\ s.open => Apart(s.files) /\ \A i \in DOMAIN s.files : InnerFits(s, FW, s.files[i])

\* Work on workers.
OnWorkers(job) == {[of |-> l.of, since |-> l.since] : l \in {k \in ToSet(loads) : k.job = job}}

Load == [job : {"dir"}, of : DirJob, since : 1..version]
        \union [job : {"file"}, of : FileJob, since : 1..version]

\* What every method keeps.
Sound(s) ==
    /\ s \in Explorer /\ s.snapshot \in 1..version /\ Root \in s.expanded
    /\ s.active => s.open

Fits(s, DW, FW) == Sound(s) /\ TreeFits(s, DW, {}) /\ FilesFit(s, FW)

EInv ==
    /\ version \in DOMAIN Disk /\ inputs \in Nat /\ loads \in Seq(Load)
    /\ Fits(ex, OnWorkers("dir"), OnWorkers("file"))

-----------------------------------------------------------------------------
(* The tree of the checkout *)

LEMMA NodesHold ==
    /\ Root \notin Nodes /\ Files \subseteq Nodes /\ Files \intersect Dirs = {}
    /\ \A n \in Nodes : Parent[n] \in Dirs
    /\ \A d \in Dirs : d \in Nodes \union {Root}
    /\ \A v \in DOMAIN Disk, f \in Files :
         Token(v, f) \in Nat /\ Change(v, f) \in Letters /\ Disk[v][f] = <<Token(v, f), Change(v, f)>>
<1>1. ASSUME NEW v \in DOMAIN Disk, NEW f \in Files
      PROVE  Token(v, f) \in Nat /\ Change(v, f) \in Letters /\ Disk[v][f] = <<Token(v, f), Change(v, f)>>
  <2>1. Disk[v][f] \in Nat \X Letters
    BY ExplorerAssumption
  <2> QED BY <2>1 DEF Token, Change
<1>2. Root \notin Nodes /\ \A n \in Nodes : Parent[n] \in Dirs
  BY ExplorerAssumption DEF Nodes
<1>3. Files \intersect Dirs = {}
  BY ExplorerAssumption
<1> QED BY <1>1, <1>2, <1>3 DEF Nodes

\* What Ancestors is, as far as the tree is known.
Climbs(up, S) ==
    \A n \in S : up[n] = IF n = Root THEN <<>> ELSE Append(up[Parent[n]], Parent[n])

LEMMA AncestorsDefined ==
    \E up \in [Nodes \union {Root} -> Seq(Dirs)] : Climbs(up, Nodes \union {Root})
<1> DEFINE N == Len(InOrder)
           Upper(m) == {InOrder[i] : i \in 1..m} \union {Root}
           Solved(m) == \E up \in [Upper(m) -> Seq(Dirs)] : Climbs(up, Upper(m))
           unsolved == {m \in 0..N : ~Solved(m)}
<1>1. N \in Nat /\ DOMAIN InOrder = 1..N /\ \A i \in 1..N : InOrder[i] \in Nodes
  BY ExplorerAssumption, LenProperties, ElementOfSeq
<1>2. Upper(N) = Nodes \union {Root}
  BY <1>1, ExplorerAssumption DEF ToSet
<1>3. SUFFICES ASSUME unsolved # {} PROVE FALSE
  <2>1. ASSUME unsolved = {} PROVE Solved(N)
    <3>1. N \in 0..N
      BY <1>1
    <3> HIDE DEF Solved
    <3> QED BY <2>1, <3>1
  <2>2. unsolved = {} => Solved(N)
    BY <2>1
  <2> HIDE DEF unsolved
  <2> QED BY <1>2, <2>2
<1>4. PICK m \in unsolved : \A k \in unsolved : m <= k
  <2>1. unsolved \in SUBSET Nat
    BY <1>1
  <2> HIDE DEF unsolved
  <2> QED BY <1>3, <2>1, LeastNatural
<1>5. CASE m = 0
  <2>1. Upper(0) = {Root}
    OBVIOUS
  <2>2. <<>> \in Seq(Dirs)
    BY EmptySeq
  <2>3. [n \in {Root} |-> <<>>] \in [{Root} -> Seq(Dirs)] /\ Climbs([n \in {Root} |-> <<>>], {Root})
    BY <2>2 DEF Climbs
  <2>4. Solved(0)
    BY <2>1, <2>3
  <2> QED BY <1>4, <1>5, <2>4
<1>6. CASE m # 0
  <2>1. m \in 1..N /\ m - 1 \in 0..N /\ ~(m <= m - 1)
    BY <1>1, <1>4, <1>6
  <2>2. m - 1 \notin unsolved
    <3> HIDE DEF unsolved
    <3> QED BY <1>4, <2>1
  <2>3. PICK up \in [Upper(m - 1) -> Seq(Dirs)] : Climbs(up, Upper(m - 1))
    BY <2>1, <2>2
  <2>4. PICK x \in Nodes : x = InOrder[m]
    BY <1>1, <2>1
  <2>5. Upper(m) = Upper(m - 1) \union {x}
    <3>1. 1..m = (1..(m - 1)) \union {m}
      BY <2>1
    <3> QED BY <2>4, <3>1
  <2>6. Parent[x] \in Upper(m - 1) /\ Parent[x] \in Dirs /\ x # Root
    <3>1. Parent[x] = Root \/ \E k \in 1..(m - 1) : InOrder[k] = Parent[x]
      BY <1>1, <2>1, <2>4, ExplorerAssumption
    <3> QED BY <2>4, <3>1, NodesHold
  <2> DEFINE S == Upper(m - 1)
             more == [n \in S \union {x} |-> IF n \in S THEN up[n] ELSE Append(up[Parent[x]], Parent[x])]
  <2> HIDE DEF Upper
  <2>7. more \in [S \union {x} -> Seq(Dirs)]
    <3>1. Append(up[Parent[x]], Parent[x]) \in Seq(Dirs)
      BY <2>3, <2>6, AppendProperties
    <3> QED BY <2>3, <3>1
  <2>8. ASSUME NEW n \in S, n # Root PROVE n \in Nodes /\ Parent[n] \in S
    <3>1. PICK i \in 1..(m - 1) : n = InOrder[i]
      BY <2>8 DEF Upper
    <3>2. i \in 1..N /\ \A k \in 1..(i - 1) : k \in 1..(m - 1)
      BY <1>1, <2>1
    <3>3. Parent[n] = Root \/ \E k \in 1..(i - 1) : InOrder[k] = Parent[n]
      BY <1>1, <3>1, <3>2, ExplorerAssumption
    <3> QED BY <1>1, <3>1, <3>2, <3>3 DEF Upper
  <2>9. Climbs(more, S \union {x})
    <3>1. ASSUME NEW n \in S \union {x}
          PROVE  more[n] = IF n = Root THEN <<>> ELSE Append(more[Parent[n]], Parent[n])
      <4>1. CASE n \in S
        <5>1. up[n] = IF n = Root THEN <<>> ELSE Append(up[Parent[n]], Parent[n])
          BY <2>3, <4>1 DEF Climbs
        <5> QED BY <2>8, <4>1, <5>1
      <4>2. CASE n \notin S
        BY <2>6, <4>2
      <4> QED BY <4>1, <4>2
    <3> HIDE DEF more
    <3> QED BY <3>1 DEF Climbs
  <2>10. Solved(m)
    <3> HIDE DEF more
    <3> QED BY <2>5, <2>7, <2>9
  <2> QED BY <1>4, <2>10
<1> QED BY <1>5, <1>6

\* A path, the root first.
LEMMA AncestorsHold ==
    /\ \A n \in Nodes \union {Root} : Ancestors[n] \in Seq(Dirs)
    /\ Ancestors[Root] = <<>>
    /\ \A n \in Nodes : Ancestors[n] = Append(Ancestors[Parent[n]], Parent[n])
<1> DEFINE S == Nodes \union {Root}
           Is(up) == up = [n \in S |-> IF n = Root THEN <<>> ELSE Append(up[Parent[n]], Parent[n])]
<1>1. PICK h \in [S -> Seq(Dirs)] : Climbs(h, S)
  BY AncestorsDefined
<1>2. Is(h)
  BY <1>1 DEF Climbs
<1>3. Ancestors = CHOOSE up : Is(up)
  BY DEF Ancestors
<1>4. Is(Ancestors)
  <2> HIDE DEF Is
  <2> QED BY <1>2, <1>3
<1>5. Climbs(Ancestors, S)
  BY <1>4 DEF Climbs
<1>6. Ancestors[Root] = <<>> /\ \A n \in Nodes : Ancestors[n] = Append(Ancestors[Parent[n]], Parent[n])
  BY <1>5, NodesHold DEF Climbs
<1> DEFINE N == Len(InOrder)
           odd == {i \in 1..N : Ancestors[InOrder[i]] \notin Seq(Dirs)}
<1>7. N \in Nat /\ DOMAIN InOrder = 1..N /\ \A i \in 1..N : InOrder[i] \in Nodes
  BY ExplorerAssumption, LenProperties, ElementOfSeq
<1>8. <<>> \in Seq(Dirs)
  BY EmptySeq
<1>9. ASSUME odd # {} PROVE FALSE
  <2>1. odd \in SUBSET Nat
    BY <1>7
  <2>2. PICK m \in odd : \A k \in odd : m <= k
    <3> HIDE DEF odd
    <3> QED BY <1>9, <2>1, LeastNatural
  <2>3. m \in 1..N /\ InOrder[m] \in Nodes
    BY <1>7
  <2>4. PICK d \in Dirs : d = Parent[InOrder[m]]
    BY <2>3, NodesHold
  <2>5. d = Root \/ \E k \in 1..(m - 1) : InOrder[k] = d
    BY <1>7, <2>3, <2>4, ExplorerAssumption
  <2>6. Ancestors[d] \in Seq(Dirs)
    <3>1. ASSUME NEW k \in 1..(m - 1), InOrder[k] = d PROVE Ancestors[d] \in Seq(Dirs)
      <4>1. k \in 1..N /\ ~(m <= k)
        BY <1>7, <2>3
      <4>2. k \notin odd
        <5> HIDE DEF odd
        <5> QED BY <2>2, <4>1
      <4> QED BY <3>1, <4>1, <4>2
    <3> QED BY <1>6, <1>8, <2>5, <3>1
  <2>7. Ancestors[InOrder[m]] = Append(Ancestors[d], d)
    BY <1>6, <2>3, <2>4
  <2>8. Append(Ancestors[d], d) \in Seq(Dirs)
    BY <2>6, AppendProperties
  <2>9. m \notin odd
    BY <2>7, <2>8
  <2> QED BY <2>9
<1>10. ASSUME NEW n \in Nodes PROVE Ancestors[n] \in Seq(Dirs)
  <2>1. PICK i \in 1..N : n = InOrder[i]
    BY <1>7, ExplorerAssumption DEF ToSet
  <2>2. i \notin odd
    BY <1>9
  <2> QED BY <2>1, <2>2
<1> HIDE DEF S
<1> QED BY <1>6, <1>8, <1>10

-----------------------------------------------------------------------------
(* The tree of the tab *)

\* A path down to a node, and with the node.
LEMMA PathHolds ==
    ASSUME NEW n \in Nodes \union {Root}
    PROVE  /\ PathTo(n) \in Seq(Dirs)
           /\ Append(Ancestors[n], n) \in Seq(Nodes \union {Root})
           /\ ToSet(Append(Ancestors[n], n)) = ToSet(Ancestors[n]) \union {n}
<1>1. Ancestors[n] \in Seq(Dirs)
  BY AncestorsHold
<1>2. Ancestors[n] \in Seq(Nodes \union {Root})
  <2>1. Dirs \subseteq Nodes \union {Root}
    BY NodesHold
  <2> QED BY <1>1, <2>1, SeqMonotonic
<1>3. PathTo(n) \in Seq(Dirs)
  BY <1>1, AppendProperties DEF PathTo
<1> QED BY <1>2, <1>3, BackHolds

LEMMA MissingHolds ==
    ASSUME NEW s, NEW dirs \in Seq(Dirs)
    PROVE  /\ Missing(s, dirs) \in Seq(Dirs)
           /\ ToSet(Missing(s, dirs)) = ToSet(dirs) \ (s.asked \union s.listed)
<1>1. ToSet(dirs) \subseteq Dirs
  BY Places
<1>2. /\ Missing(s, dirs) \in Seq(Dirs)
      /\ ToSet(Missing(s, dirs)) = ToSet(dirs) \intersect (Dirs \ (s.asked \union s.listed))
  BY RetainHolds DEF Missing
<1> QED BY <1>1, <1>2

\* A node that its folder's listing lacks.
Lacks(s, m) == m \in Nodes /\ Parent[m] \in s.listed /\ m \notin s.names[Parent[m]]

LEMMA StaleHolds ==
    ASSUME NEW s, NEW n \in Nodes \union {Root}
    PROVE  /\ StaleOn(s, n) \in Seq(Dirs)
           /\ ToSet(StaleOn(s, n)) =
                {Parent[m] : m \in {k \in ToSet(Ancestors[n]) \union {n} : Lacks(s, k)}}
<1> DEFINE S == {m \in Nodes : Parent[m] \in s.listed /\ m \notin s.names[Parent[m]]}
           path == Append(Ancestors[n], n)
           stale == Retain(path, S)
           dirs == [i \in DOMAIN stale |-> Parent[stale[i]]]
<1>1. path \in Seq(Nodes \union {Root}) /\ ToSet(path) = ToSet(Ancestors[n]) \union {n}
  BY PathHolds
<1> HIDE DEF path
<1>2. stale \in Seq(Nodes \union {Root}) /\ ToSet(stale) = ToSet(path) \intersect S
  <2> HIDE DEF S
  <2> QED BY <1>1, RetainHolds
<1> HIDE DEF stale
<1>3. /\ Len(stale) \in Nat /\ DOMAIN stale = 1..Len(stale)
      /\ \A i \in 1..Len(stale) : stale[i] \in ToSet(stale)
      /\ \A e \in ToSet(stale) : \E i \in 1..Len(stale) : stale[i] = e
  BY <1>2, Places
<1>4. \A i \in 1..Len(stale) : Parent[stale[i]] \in Dirs
  BY <1>2, <1>3, NodesHold
<1>5. dirs \in Seq(Dirs) /\ Len(dirs) = Len(stale)
  <2>1. dirs \in [1..Len(stale) -> Dirs]
    BY <1>3, <1>4
  <2> QED BY <1>3, <2>1, SeqDef, LenProperties
<1>6. ToSet(dirs) = {Parent[m] : m \in ToSet(stale)}
  <2>1. DOMAIN dirs = DOMAIN stale /\ \A i \in DOMAIN stale : dirs[i] = Parent[stale[i]]
    OBVIOUS
  <2> HIDE DEF dirs
  <2> QED BY <2>1 DEF ToSet
<1>7. ToSet(stale) = {k \in ToSet(Ancestors[n]) \union {n} : Lacks(s, k)}
  BY <1>1, <1>2 DEF Lacks
<1>8. StaleOn(s, n) = dirs
  BY DEF StaleOn, stale, path
<1> HIDE DEF dirs
<1> QED BY <1>5, <1>6, <1>7, <1>8

ExFields == {"id", "open", "active", "overlay", "expanded", "asked", "listed", "names", "newest",
             "req", "relisted", "cursor", "unread", "files", "file", "gen", "snapshot", "dirJobs",
             "fileJobs"}

\* t differs from s in no other fields than F.
Alters(s, t, F) == \A x \in ExFields \ F : t[x] = s[x]

\* Expanding folders owes the listings that are missing.
LEMMA ExpandHolds ==
    ASSUME NEW s, Sound(s), NEW dirs \in Seq(Dirs)
    PROVE  /\ Sound(Expand(s, dirs)) /\ Alters(s, Expand(s, dirs), {"expanded", "asked"})
           /\ Expand(s, dirs).asked = s.asked \union ToSet(Missing(s, dirs))
           /\ s.expanded \subseteq Expand(s, dirs).expanded
<1> DEFINE open == s.expanded \union ToSet(dirs)
           asked == s.asked \union ToSet(Missing(s, dirs))
           t == [s EXCEPT !.expanded = open, !.asked = asked]
<1>1. open \in SUBSET Dirs /\ asked \in SUBSET Dirs /\ s.expanded \subseteq open
  <2>1. ToSet(dirs) \subseteq Dirs /\ ToSet(Missing(s, dirs)) \subseteq Dirs
    BY Places, MissingHolds
  <2>2. s.expanded \subseteq Dirs /\ s.asked \subseteq Dirs
    BY DEF Sound, Explorer
  <2> QED BY <2>1, <2>2
<1>2. Expand(s, dirs) = t
  BY DEF Expand
<1> HIDE DEF open, asked
<1>3. t \in Explorer /\ t.expanded = open /\ t.asked = asked
  BY <1>1 DEF Sound, Explorer
<1>4. Alters(s, t, {"expanded", "asked"})
  BY DEF Alters, ExFields, Sound, Explorer
<1>5. Sound(t)
  BY <1>1, <1>3, <1>4 DEF Sound, Alters, ExFields
<1> QED BY <1>1, <1>2, <1>3, <1>4, <1>5 DEF asked

LEMMA RevealHolds ==
    ASSUME NEW s, Sound(s), NEW n \in Nodes \union {Root}
    PROVE  /\ Sound(Reveal(s, n)) /\ Alters(s, Reveal(s, n), {"expanded", "asked", "cursor"})
           /\ Reveal(s, n).asked = s.asked \union ToSet(Missing(s, PathTo(n)))
<1>1. PICK t : t = Expand(s, PathTo(n))
  OBVIOUS
<1>2. /\ Sound(t) /\ Alters(s, t, {"expanded", "asked"})
      /\ t.asked = s.asked \union ToSet(Missing(s, PathTo(n)))
  BY <1>1, PathHolds, ExpandHolds
<1>3. PICK c \in Nodes \union {Root} : c = IF n = Root THEN t.cursor ELSE n
  BY <1>2 DEF Sound, Explorer
<1>4. Reveal(s, n) = [t EXCEPT !.cursor = c]
  BY <1>1, <1>3 DEF Reveal
<1>5. PICK u : u = [t EXCEPT !.cursor = c]
  OBVIOUS
<1>6. u \in Explorer /\ Alters(t, u, {"cursor"})
  BY <1>2, <1>5 DEF Sound, Explorer, Alters, ExFields
<1>7. Sound(u) /\ Alters(s, u, {"expanded", "asked", "cursor"}) /\ u.asked = t.asked
  BY <1>2, <1>6 DEF Sound, Alters, ExFields
<1> QED BY <1>2, <1>4, <1>5, <1>7

\* Where a sequence asks for a folder, and the jobs that ask.
Asks(dirs, d) == {i \in DOMAIN dirs : dirs[i] = d}

Asking(s, dirs) == [i \in DOMAIN dirs |-> [id |-> s.id, req |-> s.req + i, dir |-> dirs[i]]]

Newest(s, dirs) ==
    [d \in Dirs |-> IF Asks(dirs, d) = {} THEN s.newest[d] ELSE s.req + Max(Asks(dirs, d))]

LEMMA AskingHolds ==
    ASSUME NEW s, Sound(s), NEW dirs \in Seq(Dirs)
    PROVE  /\ Asking(s, dirs) \in Seq(DirJob)
           /\ \A j \in ToSet(Asking(s, dirs)) :
                 j.id = s.id /\ j.req \in Nat /\ s.req < j.req /\ j.req <= s.req + Len(dirs)
           /\ Newest(s, dirs) \in [Dirs -> Nat]
           /\ \A d \in Dirs \ ToSet(dirs) : Newest(s, dirs)[d] = s.newest[d]
           /\ \A d \in ToSet(dirs) :
                 /\ Newest(s, dirs)[d] > s.req
                 /\ [id |-> s.id, req |-> Newest(s, dirs)[d], dir |-> d] \in ToSet(Asking(s, dirs))
<1> DEFINE jobs == Asking(s, dirs)
<1>1. /\ Len(dirs) \in Nat /\ DOMAIN dirs = 1..Len(dirs) /\ ToSet(dirs) \subseteq Dirs
      /\ \A i \in 1..Len(dirs) : dirs[i] \in Dirs /\ dirs[i] \in ToSet(dirs)
      /\ \A e \in ToSet(dirs) : \E i \in 1..Len(dirs) : dirs[i] = e
  BY Places
<1>2. s.id \in Nat /\ s.req \in Nat /\ s.newest \in [Dirs -> Nat]
  BY DEF Sound, Explorer
<1>3. ASSUME NEW i \in 1..Len(dirs)
      PROVE  /\ jobs[i] = [id |-> s.id, req |-> s.req + i, dir |-> dirs[i]] /\ jobs[i] \in DirJob
             /\ s.req < s.req + i /\ s.req + i <= s.req + Len(dirs) /\ s.req + i \in Nat
  <2>1. jobs[i] = [id |-> s.id, req |-> s.req + i, dir |-> dirs[i]]
    BY <1>1 DEF Asking
  <2>2. s.req + i \in Nat \ {0} /\ s.req < s.req + i /\ s.req + i <= s.req + Len(dirs) /\ dirs[i] \in Dirs
    BY <1>1, <1>2
  <2> HIDE DEF jobs
  <2> QED BY <1>2, <2>1, <2>2 DEF DirJob, NoReq
<1>4. jobs \in Seq(DirJob) /\ DOMAIN jobs = 1..Len(dirs)
  <2>1. jobs = [i \in 1..Len(dirs) |-> jobs[i]]
    BY <1>1 DEF Asking
  <2>2. jobs \in [1..Len(dirs) -> DirJob]
    <3> HIDE DEF jobs
    <3> QED BY <1>3, <2>1
  <2> HIDE DEF jobs
  <2> QED BY <1>1, <2>2, SeqDef
<1> HIDE DEF jobs
<1>5. ASSUME NEW j \in ToSet(jobs)
      PROVE  j.id = s.id /\ j.req \in Nat /\ s.req < j.req /\ j.req <= s.req + Len(dirs)
  <2>1. PICK i \in 1..Len(dirs) : j = jobs[i]
    BY <1>4 DEF ToSet
  <2>2. PICK r \in Nat : r = s.req + i /\ s.req < r /\ r <= s.req + Len(dirs)
    BY <1>3
  <2>3. j = [id |-> s.id, req |-> r, dir |-> dirs[i]]
    BY <1>3, <2>1, <2>2
  <2>4. j.id = s.id /\ j.req = r
    BY <2>3
  <2> QED BY <2>2, <2>4
<1>6. ASSUME NEW d \in Dirs \ ToSet(dirs) PROVE Newest(s, dirs)[d] = s.newest[d]
  <2>1. Asks(dirs, d) = {}
    BY <1>1 DEF Asks
  <2> QED BY <2>1 DEF Newest
<1>7. ASSUME NEW d \in ToSet(dirs)
      PROVE  \E k \in 1..Len(dirs) : dirs[k] = d /\ Newest(s, dirs)[d] = s.req + k
  <2>1. PICK i \in 1..Len(dirs) : dirs[i] = d
    BY <1>1
  <2>2. Asks(dirs, d) \in SUBSET (0..Len(dirs)) /\ i \in Asks(dirs, d)
    BY <1>1, <2>1 DEF Asks
  <2>3. PICK k : k = Max(Asks(dirs, d)) /\ k \in Asks(dirs, d)
    BY <1>1, <2>2, MaxIsGreatest
  <2>4. k \in 1..Len(dirs) /\ dirs[k] = d
    BY <1>1, <2>3 DEF Asks
  <2>5. Newest(s, dirs)[d] = s.req + k
    <3>1. d \in Dirs /\ Asks(dirs, d) # {}
      BY <1>1, <2>2
    <3> QED BY <2>3, <3>1 DEF Newest
  <2> QED BY <2>4, <2>5
<1>8. ASSUME NEW d \in ToSet(dirs)
      PROVE  /\ Newest(s, dirs)[d] > s.req
             /\ [id |-> s.id, req |-> Newest(s, dirs)[d], dir |-> d] \in ToSet(jobs)
  <2>1. PICK k \in 1..Len(dirs) : dirs[k] = d /\ Newest(s, dirs)[d] = s.req + k
    BY <1>7
  <2>2. jobs[k] = [id |-> s.id, req |-> Newest(s, dirs)[d], dir |-> d] /\ s.req < s.req + k
    BY <1>3, <2>1
  <2>3. jobs[k] \in ToSet(jobs)
    BY <1>4 DEF ToSet
  <2> QED BY <1>2, <2>1, <2>2, <2>3
<1>9. Newest(s, dirs) \in [Dirs -> Nat]
  <2>1. ASSUME NEW d \in Dirs PROVE Newest(s, dirs)[d] \in Nat
    BY <1>2, <1>6, <1>7, <2>1
  <2>2. Newest(s, dirs) = [d \in Dirs |-> Newest(s, dirs)[d]]
    BY DEF Newest
  <2> QED BY <2>1, <2>2
<1> QED BY <1>4, <1>5, <1>6, <1>8, <1>9 DEF jobs

LEMMA LoadDirsShape ==
    ASSUME NEW s, Sound(s), NEW dirs \in Seq(Dirs)
    PROVE  LET t == LoadDirs(s, dirs)
           IN  /\ Sound(t) /\ Alters(s, t, {"req", "newest", "dirJobs"})
               /\ t.req = s.req + Len(dirs) /\ t.newest = Newest(s, dirs)
               /\ ToSet(t.dirJobs) = ToSet(s.dirJobs) \union ToSet(Asking(s, dirs))
<1>1. PICK r \in Nat : r = s.req + Len(dirs)
  BY Places DEF Sound, Explorer
<1>2. PICK n \in [Dirs -> Nat] : n = Newest(s, dirs)
  BY AskingHolds
<1>3. PICK q \in Seq(DirJob) : /\ q = s.dirJobs \o Asking(s, dirs)
                               /\ ToSet(q) = ToSet(s.dirJobs) \union ToSet(Asking(s, dirs))
  <2>1. s.dirJobs \in Seq(DirJob) /\ Asking(s, dirs) \in Seq(DirJob)
    BY AskingHolds DEF Sound, Explorer
  <2> QED BY <2>1, ConcatHolds
<1>4. PICK t : t = [s EXCEPT !.req = r, !.newest = n, !.dirJobs = q]
  OBVIOUS
<1>5. LoadDirs(s, dirs) = [s EXCEPT !.req = s.req + Len(dirs), !.newest = Newest(s, dirs),
                                    !.dirJobs = s.dirJobs \o Asking(s, dirs)]
  BY DEF LoadDirs, Newest, Asks, Asking
<1>6. LoadDirs(s, dirs) = t
  BY <1>1, <1>2, <1>3, <1>4, <1>5, Zenon
<1>7. t \in Explorer /\ t.req = r /\ t.newest = n /\ t.dirJobs = q
  BY <1>4 DEF Sound, Explorer
<1>8. Alters(s, t, {"req", "newest", "dirJobs"})
  BY <1>4 DEF Alters, ExFields, Sound, Explorer
<1>9. Sound(t)
  BY <1>7, <1>8 DEF Sound, Alters, ExFields
<1> QED BY <1>1, <1>2, <1>3, <1>6, <1>7, <1>8, <1>9

\* The part of TreeFits that is not about marks.
Numbered(s, DW) ==
    \A w \in DirWork(s, DW) : w.of.id <= s.id /\ (w.of.id = s.id => w.of.req <= s.req)

\* Asking for folders pays what is owed of them, with listings that read what
\* is there now; what comes is never older than before.
LEMMA LoadDirsHolds ==
    ASSUME NEW s, Sound(s), NEW DW \in SUBSET Work(DirJob), Numbered(s, DW),
           NEW dirs \in Seq(Dirs), version \in DOMAIN Disk
    PROVE  LET t == LoadDirs(s, dirs)
           IN  /\ Numbered(t, DW)
               /\ \A owed : Waiting(s, DW, owed) => Waiting(t, DW, owed \ ToSet(dirs))
               /\ \A d \in Dirs, u \in 1..version :
                     d \in ToSet(dirs) \/ ListedSince(s, DW, d, u) => ListedSince(t, DW, d, u)
<1>1. PICK t : t = LoadDirs(s, dirs)
  OBVIOUS
<1>2. /\ Sound(t) /\ Alters(s, t, {"req", "newest", "dirJobs"})
      /\ t.req = s.req + Len(dirs) /\ t.newest = Newest(s, dirs)
      /\ ToSet(t.dirJobs) = ToSet(s.dirJobs) \union ToSet(Asking(s, dirs))
  BY <1>1, LoadDirsShape
<1>3. t.id = s.id /\ t.asked = s.asked /\ t.names = s.names
  BY <1>2 DEF Alters, ExFields
<1>4. s.id \in Nat /\ s.req \in Nat /\ Len(dirs) \in Nat /\ version \in Nat /\ ToSet(dirs) \subseteq Dirs
  <2>1. version \in Nat
    BY ExplorerAssumption
  <2> QED BY <2>1, Places DEF Sound, Explorer
<1>5. /\ \A j \in ToSet(Asking(s, dirs)) :
            j.id = s.id /\ j.req \in Nat /\ s.req < j.req /\ j.req <= s.req + Len(dirs)
      /\ \A d \in Dirs \ ToSet(dirs) : t.newest[d] = s.newest[d]
      /\ \A d \in ToSet(dirs) :
            /\ t.newest[d] > s.req /\ t.newest[d] \in Nat /\ t.newest[d] # NoReq
            /\ [id |-> s.id, req |-> t.newest[d], dir |-> d] \in ToSet(Asking(s, dirs))
  <2>1. /\ \A j \in ToSet(Asking(s, dirs)) :
              j.id = s.id /\ j.req \in Nat /\ s.req < j.req /\ j.req <= s.req + Len(dirs)
        /\ \A d \in Dirs \ ToSet(dirs) : t.newest[d] = s.newest[d]
        /\ \A d \in ToSet(dirs) :
              /\ t.newest[d] > s.req
              /\ [id |-> s.id, req |-> t.newest[d], dir |-> d] \in ToSet(Asking(s, dirs))
    BY <1>2, AskingHolds
  <2>2. t.newest \in [Dirs -> Nat]
    BY <1>2 DEF Sound, Explorer
  <2>3. ASSUME NEW d \in ToSet(dirs) PROVE t.newest[d] \in Nat /\ t.newest[d] # NoReq
    <3>1. PICK n \in Nat : n = t.newest[d] /\ n > s.req
      BY <1>4, <2>1, <2>2
    <3> QED BY <1>4, <3>1 DEF NoReq
  <2> QED BY <2>1, <2>3
<1>6. DirWork(t, DW) = DirWork(s, DW) \union Queued(Asking(s, dirs))
  BY <1>2 DEF DirWork, Queued
<1>7. ASSUME NEW w \in Queued(Asking(s, dirs))
      PROVE  w.since = version /\ w.of \in ToSet(Asking(s, dirs))
  BY <1>7 DEF Queued
<1>8. \A w \in DirWork(s, DW) : w.of.req \in Nat
  <2>1. s.dirJobs \in Seq(DirJob)
    BY DEF Sound, Explorer
  <2>2. \A j \in ToSet(s.dirJobs) : j \in DirJob
    BY <2>1, Places
  <2>3. \A w \in DirWork(s, DW) : w.of \in DirJob
    BY <2>2 DEF DirWork, Queued, Work
  <2> QED BY <2>3 DEF DirJob
<1>9. Numbered(t, DW)
  <2>1. ASSUME NEW w \in DirWork(t, DW)
        PROVE  w.of.id <= t.id /\ (w.of.id = t.id => w.of.req <= t.req)
    <3>1. CASE w \in DirWork(s, DW)
      <4>1. w.of.id <= s.id /\ (w.of.id = s.id => w.of.req <= s.req)
        BY <3>1 DEF Numbered
      <4> QED BY <1>2, <1>3, <1>4, <1>8, <3>1, <4>1
    <3>2. CASE w \in Queued(Asking(s, dirs))
      BY <1>2, <1>3, <1>4, <1>5, <1>7, <3>2
    <3> QED BY <1>6, <2>1, <3>1, <3>2
  <2> QED BY <2>1 DEF Numbered
<1>10. ASSUME NEW d \in ToSet(dirs)
       PROVE  /\ \E w \in DirWork(t, DW) : DueDir(t, w, d)
              /\ t.newest[d] # NoReq
  <2>1. PICK j \in ToSet(Asking(s, dirs)) : j = [id |-> s.id, req |-> t.newest[d], dir |-> d]
    BY <1>5
  <2>2. PICK w : w = [of |-> j, since |-> version]
    OBVIOUS
  <2>3. w \in DirWork(t, DW)
    BY <1>6, <2>2 DEF Queued
  <2>4. DueDir(t, w, d)
    BY <1>3, <2>1, <2>2 DEF DueDir
  <2> QED BY <1>5, <2>3, <2>4
<1>11. ASSUME NEW d \in ToSet(dirs), NEW w \in DirWork(t, DW), DueDir(t, w, d)
       PROVE  w.since = version
  <2>1. w.of = [id |-> t.id, req |-> t.newest[d], dir |-> d]
    BY <1>11, Zenon DEF DueDir
  <2>2. w.of.id = s.id /\ w.of.req = t.newest[d]
    BY <1>3, <2>1
  <2>3. w \notin DirWork(s, DW)
    <3>1. ASSUME w \in DirWork(s, DW) PROVE FALSE
      <4>1. w.of.req <= s.req
        BY <2>2, <3>1 DEF Numbered
      <4>2. PICK n \in Nat : n = t.newest[d] /\ n > s.req
        BY <1>5
      <4> QED BY <1>4, <2>2, <4>1, <4>2
    <3> QED BY <3>1
  <2> QED BY <1>6, <1>7, <2>3
<1>12. ASSUME NEW d \in Dirs \ ToSet(dirs), NEW w
       PROVE  DueDir(t, w, d) = DueDir(s, w, d)
  BY <1>3, <1>5 DEF DueDir
<1>13. ASSUME NEW d \in Dirs \ ToSet(dirs), NEW w \in DirWork(t, DW), DueDir(t, w, d)
       PROVE  w \in DirWork(s, DW) \/ w.since = version
  BY <1>6, <1>7
<1>14. ASSUME NEW owed, Waiting(s, DW, owed) PROVE Waiting(t, DW, owed \ ToSet(dirs))
  <2>1. ASSUME NEW d \in t.asked \ (owed \ ToSet(dirs)) PROVE t.newest[d] # NoReq
    <3>1. CASE d \in ToSet(dirs)
      BY <1>10, <3>1
    <3>2. CASE d \notin ToSet(dirs)
      <4>1. d \in s.asked \ owed /\ d \in Dirs
        BY <1>3, <2>1, <3>2 DEF Sound, Explorer
      <4> QED BY <1>5, <1>14, <3>2, <4>1 DEF Waiting
    <3> QED BY <3>1, <3>2
  <2>2. ASSUME NEW d \in Dirs, t.newest[d] # NoReq PROVE \E w \in DirWork(t, DW) : DueDir(t, w, d)
    <3>1. CASE d \in ToSet(dirs)
      BY <1>10, <3>1
    <3>2. CASE d \notin ToSet(dirs)
      <4>1. PICK w \in DirWork(s, DW) : DueDir(s, w, d)
        BY <1>5, <1>14, <2>2, <3>2 DEF Waiting
      <4> QED BY <1>6, <1>12, <3>2, <4>1
    <3> QED BY <3>1, <3>2
  <2> QED BY <2>1, <2>2 DEF Waiting
<1>15. ASSUME NEW d \in Dirs, NEW u \in 1..version, d \in ToSet(dirs) \/ ListedSince(s, DW, d, u)
       PROVE  ListedSince(t, DW, d, u)
  <2>1. CASE d \in ToSet(dirs)
    <3>1. \A w \in DirWork(t, DW) : DueDir(t, w, d) => w.since >= u
      BY <1>4, <1>11, <2>1
    <3> QED BY <1>10, <2>1, <3>1 DEF ListedSince
  <2>2. CASE d \notin ToSet(dirs)
    <3>1. \A w \in DirWork(s, DW) : DueDir(s, w, d) => w.since >= u
      BY <1>15, <2>2 DEF ListedSince
    <3>2. \A w \in DirWork(t, DW) : DueDir(t, w, d) => w.since >= u
      <4>1. version >= u
        BY <1>4
      <4> QED BY <1>12, <1>13, <2>2, <3>1, <4>1
    <3>3. s.newest[d] # NoReq \/ \E v \in u..version : s.names[d] = ListDir(v, d)
      BY <1>15, <2>2 DEF ListedSince
    <3>4. t.newest[d] = s.newest[d]
      BY <1>5, <2>2
    <3> QED BY <1>3, <3>2, <3>3, <3>4 DEF ListedSince
  <2> QED BY <2>1, <2>2
<1> QED BY <1>1, <1>9, <1>14, <1>15

\* The steps of a path are nodes.
LEMMA StepsAreNodes ==
    ASSUME NEW f \in Files
    PROVE  /\ Steps(f) \subseteq Nodes /\ f \in Steps(f)
           /\ Steps(f) = {n \in ToSet(Ancestors[f]) \union {f} : n # Root}
<1>1. Ancestors[f] \in Seq(Dirs)
  BY AncestorsHold, NodesHold
<1>2. ToSet(Ancestors[f]) \subseteq Dirs
  BY <1>1, Places
<1> QED BY <1>2, NodesHold DEF Steps

\* What TreeFits and FilesFit are about.
TreeFields == {"id", "open", "names", "newest", "req", "relisted", "unread", "snapshot", "dirJobs"}
FileFields == {"id", "open", "files", "file", "gen", "fileJobs"}

LEMMA TreeKept ==
    ASSUME NEW s, NEW t, NEW DW, NEW owed, NEW more, TreeFits(s, DW, owed),
           Alters(s, t, ExFields \ TreeFields), t.asked \subseteq s.asked \union more
    PROVE  TreeFits(t, DW, owed \union more)
<1>1. /\ t.id = s.id /\ t.open = s.open /\ t.names = s.names /\ t.newest = s.newest /\ t.req = s.req
      /\ t.relisted = s.relisted /\ t.unread = s.unread /\ t.snapshot = s.snapshot
      /\ t.dirJobs = s.dirJobs
  BY DEF Alters, ExFields, TreeFields
<1>2. DirWork(t, DW) = DirWork(s, DW) /\ \A w, d : DueDir(t, w, d) = DueDir(s, w, d)
  BY <1>1 DEF DirWork, DueDir
<1>3. \A d, u : ListedSince(t, DW, d, u) = ListedSince(s, DW, d, u)
  BY <1>1, <1>2 DEF ListedSince
<1>4. \A f : MarkFresh(t, DW, f) = MarkFresh(s, DW, f)
  BY <1>1, <1>3 DEF MarkFresh
<1>5. Waiting(s, DW, owed) => Waiting(t, DW, owed \union more)
  BY <1>1, <1>2 DEF Waiting
<1> QED BY <1>1, <1>2, <1>4, <1>5 DEF TreeFits

LEMMA TreeSame ==
    ASSUME NEW s, NEW t, NEW DW, NEW owed, TreeFits(s, DW, owed),
           Alters(s, t, ExFields \ TreeFields), t.asked = s.asked
    PROVE  TreeFits(t, DW, owed)
<1>1. TreeFits(t, DW, owed \union {})
  BY TreeKept
<1>2. owed \union {} = owed
  OBVIOUS
<1> QED BY <1>1, <1>2

LEMMA FilesSame ==
    ASSUME NEW s, NEW t, NEW FW, FilesFit(s, FW), Alters(s, t, ExFields \ FileFields)
    PROVE  FilesFit(t, FW)
<1>1. /\ t.id = s.id /\ t.open = s.open /\ t.files = s.files /\ t.file = s.file /\ t.gen = s.gen
      /\ t.fileJobs = s.fileJobs
  BY DEF Alters, ExFields, FileFields
<1>2. FileWork(t, FW) = FileWork(s, FW) /\ \A w, k : DueFile(t, w, k) = DueFile(s, w, k)
  BY <1>1 DEF FileWork, DueFile
<1>3. \A k, u, w : LoadedSince(t, FW, k, u, w) = LoadedSince(s, FW, k, u, w)
  BY <1>2 DEF LoadedSince
<1>4. \A k : InnerFits(t, FW, k) = InnerFits(s, FW, k)
  BY <1>1, <1>2, <1>3 DEF InnerFits, Fresh
<1> QED BY <1>1, <1>2, <1>4 DEF FilesFit

\* Asking for all that is owed.
LEMMA AskFits ==
    ASSUME NEW s, Sound(s), NEW DW \in SUBSET Work(DirJob), version \in DOMAIN Disk,
           NEW owed, TreeFits(s, DW, owed), NEW dirs \in Seq(Dirs), owed \subseteq ToSet(dirs)
    PROVE  TreeFits(LoadDirs(s, dirs), DW, {})
<1>1. PICK t : t = LoadDirs(s, dirs)
  OBVIOUS
<1>2. Sound(t) /\ Alters(s, t, {"req", "newest", "dirJobs"})
  BY <1>1, LoadDirsShape
<1>3. Numbered(s, DW)
  BY DEF TreeFits, Numbered
<1>4. /\ Numbered(t, DW)
      /\ Waiting(s, DW, owed) => Waiting(t, DW, owed \ ToSet(dirs))
      /\ \A d \in Dirs, u \in 1..version : ListedSince(s, DW, d, u) => ListedSince(t, DW, d, u)
  BY <1>1, <1>3, LoadDirsHolds
<1>5. owed \ ToSet(dirs) = {}
  OBVIOUS
<1>6. t.open = s.open /\ t.unread = s.unread /\ t.relisted = s.relisted /\ t.snapshot = s.snapshot
  BY <1>2 DEF Alters, ExFields
<1>7. ASSUME NEW f \in Files, MarkFresh(s, DW, f) PROVE MarkFresh(t, DW, f)
  <2>1. PICK u \in 1..s.snapshot :
           Reports(u, f) /\ \E n \in Steps(f) : ListedSince(s, DW, Parent[n], u)
    BY <1>7 DEF MarkFresh
  <2>2. PICK n \in Steps(f) : ListedSince(s, DW, Parent[n], u)
    BY <2>1
  <2>3. u \in 1..version
    BY ExplorerAssumption DEF Sound, Explorer
  <2>4. Parent[n] \in Dirs
    BY StepsAreNodes, NodesHold
  <2>5. ListedSince(t, DW, Parent[n], u)
    BY <1>4, <2>2, <2>3, <2>4
  <2> QED BY <1>6, <2>1, <2>5 DEF MarkFresh
<1>8. s.relisted \subseteq Files
  BY DEF Sound, Explorer
<1>9. s.open => Waiting(t, DW, {})
  BY <1>4, <1>5 DEF TreeFits
<1>10. s.open /\ ~s.unread => \A f \in s.relisted : MarkFresh(t, DW, f)
  BY <1>7, <1>8 DEF TreeFits
<1> QED BY <1>1, <1>4, <1>6, <1>9, <1>10 DEF TreeFits, Numbered

-----------------------------------------------------------------------------
(* Inner file tabs *)

\* A loading view is one.
LEMMA LoadingHolds ==
    ASSUME NEW s, Sound(s), version \in DOMAIN Disk, NEW f \in Files, NEW pin \in BOOLEAN, NEW gen \in Nat
    PROVE  /\ Loading(s, f, pin, gen) \in Inner
           /\ Loading(s, f, pin, gen).of = f /\ Loading(s, f, pin, gen).gen = gen
           /\ Loading(s, f, pin, gen).pinned = pin
           /\ Loading(s, f, pin, gen).kind = KindOf(s, f)
           /\ Loading(s, f, pin, gen).stamp = FileStamp(s, f)
           /\ KindOf(s, f) \in Kinds /\ FileStamp(s, f) \in Stamps
           /\ KindOf(s, f) = KindFor(Change(s.snapshot, f))
<1>1. s.snapshot \in DOMAIN Disk
  BY ExplorerAssumption, LenProperties DEF Sound
<1>2. KindOf(s, f) \in Kinds /\ KindOf(s, f) = KindFor(Change(s.snapshot, f))
  BY DEF KindOf, Kinds, KindFor
<1>3. FileStamp(s, f) \in Stamps
  BY <1>1, NodesHold DEF FileStamp, Stamps
<1>4. Nothing \in Stamps
  BY DEF Nothing, Stamps, Letters
<1> QED BY <1>2, <1>3, <1>4 DEF Loading, Inner

FileJobOf(s, f, gen) == [id |-> s.id, gen |-> gen, file |-> f, kind |-> KindOf(s, f)]

\* Queued loads after one more: it, and all of the others that are awaited
\* but for loads of the same file.
LEMMA LoadFileShape ==
    ASSUME NEW s, Sound(s), NEW f \in Files, NEW gen \in Nat
    PROVE  LET t == LoadFile(s, f, gen)
               job == FileJobOf(s, f, gen)
           IN  /\ Sound(t) /\ Alters(s, t, {"fileJobs"})
               /\ job \in ToSet(t.fileJobs) /\ ToSet(t.fileJobs) \subseteq ToSet(s.fileJobs) \union {job}
               /\ \A j \in ToSet(s.fileJobs) :
                     Awaited(s, j) /\ ~(j.id = s.id /\ j.file = f) => j \in ToSet(t.fileJobs)
<1>1. PICK job \in FileJob : job = FileJobOf(s, f, gen)
  <2>1. s.id \in Nat /\ KindOf(s, f) \in Kinds
    BY DEF KindOf, Kinds, Sound, Explorer
  <2> QED BY <2>1 DEF FileJobOf, FileJob
<1>2. s.fileJobs \in Seq(FileJob)
  BY DEF Sound, Explorer
<1>3. PICK kept \in Seq(FileJob) :
         /\ kept = Retain(s.fileJobs, {j \in ToSet(s.fileJobs) : Awaited(s, j)})
         /\ ToSet(kept) = {j \in ToSet(s.fileJobs) : Awaited(s, j)}
  <2>1. /\ Retain(s.fileJobs, {j \in ToSet(s.fileJobs) : Awaited(s, j)}) \in Seq(FileJob)
        /\ ToSet(Retain(s.fileJobs, {j \in ToSet(s.fileJobs) : Awaited(s, j)}))
             = ToSet(s.fileJobs) \intersect {j \in ToSet(s.fileJobs) : Awaited(s, j)}
    BY <1>2, RetainHolds
  <2>2. ToSet(s.fileJobs) \intersect {j \in ToSet(s.fileJobs) : Awaited(s, j)}
          = {j \in ToSet(s.fileJobs) : Awaited(s, j)}
    OBVIOUS
  <2> QED BY <2>1, <2>2, Zenon
<1> DEFINE same == {i \in DOMAIN kept : kept[i].id = s.id /\ kept[i].file = f}
           jobs == IF same = {} THEN Append(kept, job) ELSE [kept EXCEPT ![CHOOSE i \in same : TRUE] = job]
<1>4. LoadFile(s, f, gen) = [s EXCEPT !.fileJobs = jobs]
  BY <1>1, <1>3 DEF LoadFile, FileJobOf
<1>5. /\ Len(kept) \in Nat /\ DOMAIN kept = 1..Len(kept)
      /\ \A i \in 1..Len(kept) : kept[i] \in FileJob /\ kept[i] \in ToSet(kept)
      /\ \A e \in ToSet(kept) : \E i \in 1..Len(kept) : kept[i] = e
  BY Places
<1>6. /\ jobs \in Seq(FileJob) /\ job \in ToSet(jobs) /\ ToSet(jobs) \subseteq ToSet(kept) \union {job}
      /\ \A j \in ToSet(kept) : ~(j.id = s.id /\ j.file = f) => j \in ToSet(jobs)
  <2>1. CASE same = {}
    <3>1. jobs = Append(kept, job)
      BY <2>1
    <3>2. Append(kept, job) \in Seq(FileJob) /\ ToSet(Append(kept, job)) = ToSet(kept) \union {job}
      BY BackHolds
    <3> HIDE DEF jobs
    <3> QED BY <3>1, <3>2
  <2>2. CASE same # {}
    <3>1. PICK i \in same : i = CHOOSE k \in same : TRUE
      BY <2>2
    <3>2. i \in 1..Len(kept) /\ kept[i].id = s.id /\ kept[i].file = f
      BY <1>5
    <3>3. PICK q : q = [kept EXCEPT ![i] = job]
      OBVIOUS
    <3>4. jobs = q
      BY <2>2, <3>1, <3>3
    <3>5. q \in [1..Len(kept) -> FileJob]
      <4>1. kept \in [1..Len(kept) -> FileJob]
        BY <1>5, LenProperties
      <4> QED BY <3>2, <3>3, <4>1
    <3>6. q \in Seq(FileJob) /\ DOMAIN q = 1..Len(kept)
      BY <1>5, <3>5, SeqDef
    <3>7. q[i] = job /\ \A k \in 1..Len(kept) : k # i => q[k] = kept[k]
      BY <1>5, <3>2, <3>3
    <3>8. job \in ToSet(q)
      BY <3>2, <3>6, <3>7 DEF ToSet
    <3>9. ToSet(q) \subseteq ToSet(kept) \union {job}
      BY <1>5, <3>6, <3>7 DEF ToSet
    <3>10. ASSUME NEW j \in ToSet(kept), ~(j.id = s.id /\ j.file = f) PROVE j \in ToSet(q)
      <4>1. PICK k \in 1..Len(kept) : kept[k] = j
        BY <1>5
      <4>2. k # i
        BY <3>2, <3>10, <4>1
      <4> QED BY <3>6, <3>7, <4>1, <4>2 DEF ToSet
    <3> HIDE DEF jobs
    <3> QED BY <3>4, <3>6, <3>8, <3>9, <3>10
  <2> QED BY <2>1, <2>2
<1> HIDE DEF jobs
<1>7. PICK t : t = [s EXCEPT !.fileJobs = jobs]
  OBVIOUS
<1>8. t \in Explorer /\ t.fileJobs = jobs /\ Alters(s, t, {"fileJobs"})
  BY <1>6, <1>7 DEF Sound, Explorer, Alters, ExFields
<1>9. Sound(t)
  BY <1>8 DEF Sound, Alters, ExFields
<1> QED BY <1>1, <1>3, <1>4, <1>6, <1>7, <1>8, <1>9

FileMoves == {"files", "file", "gen"}

\* What a method of the inner file tabs does.
FileStep(s, u, FW) ==
    Sound(u) /\ FilesFit(u, FW) /\ Alters(s, u, FileMoves \union {"fileJobs"})

\* t has a new generation for inner tab i of file f; the others are of s.
Renewed(s, t, i, f) ==
    /\ Alters(s, t, FileMoves) /\ t.gen = s.gen + 1 /\ Apart(t.files)
    /\ t.file \in 1..Len(t.files) /\ i \in 1..Len(t.files) /\ f \in Files
    /\ t.files[i].of = f /\ t.files[i].gen = t.gen
    /\ t.files[i].kind = KindOf(t, f) /\ t.files[i].stamp = FileStamp(t, f)
    /\ \A k \in 1..Len(t.files) : k # i => \E m \in DOMAIN s.files : t.files[k] = s.files[m]

\* Its load is asked for.
LEMMA LoadFileFits ==
    ASSUME NEW s, Sound(s), s.open, NEW FW \in SUBSET Work(FileJob), version \in DOMAIN Disk,
           FilesFit(s, FW), NEW t, Sound(t), NEW i, NEW f, Renewed(s, t, i, f)
    PROVE  FileStep(s, LoadFile(t, f, t.gen), FW)
<1> DEFINE u == LoadFile(t, f, t.gen)
           job == FileJobOf(t, f, t.gen)
<1>a. /\ Alters(s, t, FileMoves) /\ t.gen = s.gen + 1 /\ Apart(t.files)
      /\ t.file \in 1..Len(t.files) /\ i \in 1..Len(t.files) /\ f \in Files
      /\ t.files[i].of = f /\ t.files[i].gen = t.gen
      /\ t.files[i].kind = KindOf(t, f) /\ t.files[i].stamp = FileStamp(t, f)
      /\ \A k \in 1..Len(t.files) : k # i => \E m \in DOMAIN s.files : t.files[k] = s.files[m]
  BY DEF Renewed
<1> USE <1>a
<1>1. /\ t.gen \in Nat /\ s.gen \in Nat /\ t.id = s.id /\ s.id \in Nat /\ t.fileJobs = s.fileJobs
      /\ t.snapshot = s.snapshot /\ t.open = s.open
  BY DEF Sound, Explorer, Alters, ExFields, FileMoves
<1>2. /\ Sound(u) /\ Alters(t, u, {"fileJobs"})
      /\ job \in ToSet(u.fileJobs) /\ ToSet(u.fileJobs) \subseteq ToSet(s.fileJobs) \union {job}
      /\ \A j \in ToSet(s.fileJobs) :
            Awaited(t, j) /\ ~(j.id = t.id /\ j.file = f) => j \in ToSet(u.fileJobs)
  BY <1>1, LoadFileShape
<1> HIDE DEF u
<1>3. /\ u.files = t.files /\ u.file = t.file /\ u.gen = t.gen /\ u.id = s.id /\ u.open
      /\ u.snapshot = t.snapshot
  BY <1>1, <1>2 DEF Alters, ExFields
<1>4. /\ t.files \in Seq(Inner) /\ s.files \in Seq(Inner) /\ Len(t.files) \in Nat
      /\ DOMAIN t.files = 1..Len(t.files) /\ DOMAIN s.files = 1..Len(s.files)
      /\ \A k \in 1..Len(t.files) : t.files[k] \in Inner
      /\ \A k \in 1..Len(s.files) : s.files[k] \in Inner
  <2>1. t.files \in Seq(Inner) /\ s.files \in Seq(Inner)
    BY DEF Sound, Explorer
  <2> QED BY <2>1, Places
<1>5. job.id = s.id /\ job.gen = s.gen + 1 /\ job.file = f /\ job.kind = KindOf(t, f)
  BY <1>1 DEF FileJobOf
<1> HIDE DEF job
<1>6. /\ version \in Nat /\ version >= version /\ version \in 1..version /\ t.snapshot \in 1..version
  BY ExplorerAssumption, LenProperties DEF Sound
<1>7. PICK new : new = [of |-> job, since |-> version]
  OBVIOUS
<1>8. new.of = job /\ new.since = version /\ new \in FileWork(u, FW)
  BY <1>2, <1>7 DEF FileWork, Queued
<1>9. \A w \in FileWork(u, FW) : w = new \/ w \in FileWork(s, FW)
  BY <1>2, <1>7 DEF FileWork, Queued
<1>10. \A w \in FileWork(s, FW) :
          /\ w.of \in FileJob /\ w.of.id <= s.id /\ (w.of.id = s.id => w.of.gen <= s.gen)
  <2>1. \A j \in ToSet(s.fileJobs) : j \in FileJob
    BY Places DEF Sound, Explorer
  <2>2. \A w \in FileWork(s, FW) : w.of \in FileJob
    BY <2>1 DEF FileWork, Queued, Work
  <2> QED BY <2>2 DEF FilesFit
<1>11. ASSUME NEW w \in FileWork(u, FW)
       PROVE  w.of.id <= u.id /\ (w.of.id = u.id => w.of.gen <= u.gen)
  <2>1. CASE w = new
    BY <1>1, <1>3, <1>5, <1>8, <2>1
  <2>2. CASE w \in FileWork(s, FW)
    <3>1. w.of.gen \in Nat /\ w.of.id <= s.id /\ (w.of.id = s.id => w.of.gen <= s.gen)
      BY <1>10, <2>2 DEF FileJob
    <3> QED BY <1>1, <1>3, <3>1
  <2> QED BY <1>9, <1>11, <2>1, <2>2
<1>12. ASSUME NEW w \in FileWork(u, FW), DueFile(u, w, t.files[i]) PROVE w = new
  <2>1. w.of.id = s.id /\ w.of.gen = s.gen + 1
    BY <1>3, <1>12 DEF DueFile
  <2>2. w \notin FileWork(s, FW)
    BY <1>1, <1>10, <2>1
  <2> QED BY <1>9, <2>2
<1>13. DueFile(u, new, t.files[i])
  BY <1>3, <1>5, <1>8 DEF DueFile
<1>14. InnerFits(u, FW, t.files[i])
  <2>1. Stamped(t.files[i], t.snapshot, version)
    BY DEF Stamped, FileStamp
  <2>2. LoadedSince(u, FW, t.files[i], t.snapshot, version)
    <3>1. t.files[i].kind = KindFor(Change(t.snapshot, f))
      BY DEF KindOf, KindFor
    <3> QED BY <1>6, <1>8, <1>12, <1>13, <3>1 DEF LoadedSince
  <2>3. Fresh(u, FW, t.files[i])
    BY <1>6, <2>1, <2>2 DEF Fresh
  <2>4. \A w \in FileWork(u, FW) : DueFile(u, w, t.files[i]) =>
           w.of.file = t.files[i].of /\ w.of.kind = t.files[i].kind
    BY <1>5, <1>8, <1>12
  <2>5. t.files[i].gen <= u.gen
    BY <1>1, <1>3
  <2> QED BY <1>8, <1>13, <2>3, <2>4, <2>5 DEF InnerFits
<1>15. ASSUME NEW k \in 1..Len(t.files), k # i PROVE InnerFits(u, FW, t.files[k])
  <2>1. PICK m \in DOMAIN s.files : t.files[k] = s.files[m]
    BY <1>15
  <2>2. PICK r \in Inner : r = t.files[k] /\ r = s.files[m]
    BY <1>4, <2>1
  <2>3. InnerFits(s, FW, r)
    BY <2>1, <2>2 DEF FilesFit
  <2>4. r.of # f /\ r.gen \in Nat /\ r.gen <= s.gen /\ r.gen # t.gen
    <3>1. t.files[k].of # t.files[i].of /\ t.files[k].gen # t.files[i].gen
      BY <1>4, <1>15 DEF Apart
    <3>2. r.of # f /\ r.gen # t.gen
      BY <2>2, <3>1
    <3>3. r.gen <= s.gen
      BY <2>3 DEF InnerFits
    <3> QED BY <3>2, <3>3 DEF Inner
  <2>5. ASSUME NEW w \in FileWork(u, FW), DueFile(u, w, r) PROVE w \in FileWork(s, FW) /\ DueFile(s, w, r)
    <3>1. w # new
      BY <1>1, <1>3, <1>5, <1>8, <2>4, <2>5 DEF DueFile
    <3> QED BY <1>3, <1>9, <2>5, <3>1 DEF DueFile
  <2>6. ASSUME NEW w \in FileWork(s, FW), DueFile(s, w, r) PROVE w \in FileWork(u, FW) /\ DueFile(u, w, r)
    <3>1. DueFile(u, w, r)
      BY <1>3, <2>6 DEF DueFile
    <3>2. CASE w \in FW
      BY <3>1, <3>2 DEF FileWork
    <3>3. CASE w \notin FW
      <4>1. PICK j \in ToSet(s.fileJobs) : w = [of |-> j, since |-> version]
        BY <2>6, <3>3 DEF FileWork, Queued
      <4>2. w.of = j
        BY <4>1
      <4>3. j.id = s.id /\ j.gen = r.gen /\ j.file = r.of
        BY <2>3, <2>6, <4>2 DEF DueFile, InnerFits
      <4>4. Awaited(t, j)
        BY <1>1, <1>4, <2>2, <4>3 DEF Awaited
      <4>5. j \in ToSet(u.fileJobs)
        BY <1>2, <2>4, <4>3, <4>4
      <4> QED BY <3>1, <4>1, <4>5 DEF FileWork, Queued
    <3> QED BY <3>2, <3>3
  <2>7. Fresh(u, FW, r)
    <3>1. PICK w \in 1..version : \E v \in 1..w :
             Stamped(r, v, w) /\ (Token(w, r.of) = 0 \/ LoadedSince(s, FW, r, v, w))
      BY <2>3 DEF InnerFits, Fresh
    <3>2. PICK v \in 1..w : Stamped(r, v, w) /\ (Token(w, r.of) = 0 \/ LoadedSince(s, FW, r, v, w))
      BY <3>1
    <3>3. LoadedSince(s, FW, r, v, w) => LoadedSince(u, FW, r, v, w)
      BY <2>5, <2>6 DEF LoadedSince
    <3> QED BY <3>2, <3>3 DEF Fresh
  <2>8. r.gen <= u.gen
    BY <1>1, <1>3, <2>4
  <2>9. InnerFits(u, FW, r)
    BY <2>3, <2>5, <2>6, <2>7, <2>8 DEF InnerFits
  <2> QED BY <2>2, <2>9
<1>16. FilesFit(u, FW)
  <2>1. u.file \in 0..Len(u.files) /\ u.file # 0 /\ u.files # <<>>
    <3>1. Len(u.files) # 0 /\ Len(<<>>) = 0
      BY <1>3, <1>4
    <3> QED BY <1>3, <1>4, <3>1
  <2>2. \A k \in DOMAIN u.files : InnerFits(u, FW, u.files[k])
    BY <1>3, <1>4, <1>14, <1>15
  <2> QED BY <1>3, <1>11, <2>1, <2>2 DEF FilesFit
<1>17. Alters(s, u, FileMoves \union {"fileJobs"})
  BY <1>2 DEF Alters, FileMoves
<1> QED BY <1>2, <1>16, <1>17 DEF u, FileStep

\* Inner tabs that differ in no way that a load can tell.
Alike(t, r) ==
    /\ r.of = t.of /\ r.kind = t.kind /\ r.gen = t.gen /\ r.loaded = t.loaded
    /\ r.shown = t.shown /\ r.missed = t.missed

LEMMA InnerSame ==
    ASSUME NEW s, NEW t, NEW FW, t.id = s.id, t.fileJobs = s.fileJobs, t.gen = s.gen,
           NEW r, NEW x, InnerFits(s, FW, r), Alike(r, x), x.stamp = r.stamp
    PROVE  InnerFits(t, FW, x)
<1>1. FileWork(t, FW) = FileWork(s, FW) /\ \A w : DueFile(t, w, x) = DueFile(s, w, r)
  BY DEF FileWork, DueFile, Alike
<1>2. \A u, w : Stamped(x, u, w) = Stamped(r, u, w) /\ LoadedSince(t, FW, x, u, w) = LoadedSince(s, FW, r, u, w)
  BY <1>1 DEF Stamped, LoadedSince, Alike
<1>3. Fresh(t, FW, x)
  BY <1>2 DEF Fresh, InnerFits, Alike
<1> QED BY <1>1, <1>3 DEF InnerFits, Alike

LEMMA OthersFit ==
    ASSUME NEW s, Sound(s), s.open, NEW FW, FilesFit(s, FW), NEW t, t.id = s.id, t.gen = s.gen,
           t.fileJobs = s.fileJobs
    PROVE  \A k \in 1..Len(s.files) : InnerFits(t, FW, s.files[k])
<1> SUFFICES ASSUME NEW k \in 1..Len(s.files) PROVE InnerFits(t, FW, s.files[k])
  OBVIOUS
<1>1. PICK r : r = s.files[k]
  OBVIOUS
<1>2. DOMAIN s.files = 1..Len(s.files)
  BY Places DEF Sound, Explorer
<1>3. InnerFits(s, FW, r)
  BY <1>1, <1>2 DEF FilesFit
<1>4. InnerFits(t, FW, r)
  BY <1>3, InnerSame DEF Alike
<1> QED BY <1>1, <1>4

\* The stamp is taken of a file that is gone.
LEMMA InnerGone ==
    ASSUME NEW s, Sound(s), version \in DOMAIN Disk, NEW t, NEW FW, t.id = s.id,
           t.fileJobs = s.fileJobs, t.gen = s.gen, NEW r, NEW x, InnerFits(s, FW, r), Alike(r, x),
           x.stamp = FileStamp(s, x.of), Token(version, x.of) = 0
    PROVE  InnerFits(t, FW, x)
<1>1. FileWork(t, FW) = FileWork(s, FW) /\ \A w : DueFile(t, w, x) = DueFile(s, w, r)
  BY DEF FileWork, DueFile, Alike
<1>2. version \in 1..version /\ s.snapshot \in 1..version
  BY ExplorerAssumption DEF Sound
<1>3. Stamped(x, s.snapshot, version)
  BY DEF Stamped, FileStamp
<1>4. Fresh(t, FW, x)
  BY <1>2, <1>3 DEF Fresh
<1> QED BY <1>1, <1>4 DEF InnerFits, Alike

\* One inner tab is changed, in a way no load can tell.
LEMMA TabFits ==
    ASSUME NEW s, Sound(s), NEW FW, FilesFit(s, FW), NEW i \in 1..Len(s.files), NEW x \in Inner,
           x.of = s.files[i].of, x.gen = s.files[i].gen, NEW t, Sound(t), Alters(s, t, FileMoves),
           t.gen = s.gen, t.files = [s.files EXCEPT ![i] = x], t.file \in 1..Len(s.files),
           NEW less \in SUBSET FW, s.open => InnerFits(t, less, x),
           s.open => \A k \in 1..Len(s.files) : k # i => InnerFits(t, less, s.files[k]),
           \A k \in 1..Len(s.files) : k # i => x.pinned \/ s.files[k].pinned
    PROVE  FilesFit(t, less)
<1>1. /\ s.files \in Seq(Inner) /\ DOMAIN s.files = 1..Len(s.files) /\ Len(s.files) \in Nat
      /\ \A k \in 1..Len(s.files) : s.files[k] \in Inner
  BY Places DEF Sound, Explorer
<1>2. t.id = s.id /\ t.open = s.open /\ t.fileJobs = s.fileJobs
  BY DEF Alters, ExFields, FileMoves
<1>3. /\ Len(t.files) = Len(s.files) /\ DOMAIN t.files = 1..Len(s.files) /\ t.files[i] = x
      /\ \A k \in 1..Len(s.files) : k # i => t.files[k] = s.files[k]
  BY <1>1, PutHolds, LenProperties
<1>4. \A w \in FileWork(t, less) : w.of.id <= t.id /\ (w.of.id = t.id => w.of.gen <= t.gen)
  <2>1. FileWork(t, less) \subseteq FileWork(s, FW)
    BY <1>2 DEF FileWork
  <2> QED BY <1>2, <2>1 DEF FilesFit
<1>5. t.file \in 0..Len(t.files) /\ t.file # 0 /\ t.files # <<>>
  <2>1. Len(<<>>) = 0
    OBVIOUS
  <2> QED BY <1>1, <1>3, <2>1
<1>6. ASSUME s.open PROVE Apart(t.files)
  <2>1. Apart(s.files)
    BY <1>6 DEF FilesFit
  <2>2. ASSUME NEW m \in 1..Len(s.files), NEW k \in 1..Len(s.files), m # k
        PROVE  /\ t.files[m].of # t.files[k].of /\ t.files[m].gen # t.files[k].gen
               /\ t.files[m].pinned \/ t.files[k].pinned
    <3>1. /\ s.files[m].of # s.files[k].of /\ s.files[m].gen # s.files[k].gen
          /\ s.files[m].pinned \/ s.files[k].pinned
      BY <1>1, <2>1, <2>2 DEF Apart
    <3>2. CASE m = i
      BY <1>3, <2>2, <3>1, <3>2
    <3>3. CASE k = i
      BY <1>3, <2>2, <3>1, <3>3
    <3>4. CASE m # i /\ k # i
      BY <1>3, <3>1, <3>4
    <3> QED BY <3>2, <3>3, <3>4
  <2> QED BY <1>3, <2>2 DEF Apart
<1>7. ASSUME s.open, NEW k \in 1..Len(s.files) PROVE InnerFits(t, less, t.files[k])
  BY <1>3, <1>7
<1> QED BY <1>2, <1>3, <1>4, <1>5, <1>6, <1>7 DEF FilesFit

\* The file in sight, and what becomes of its inner tab.
Shown(s)   == s.files[s.file]
Marked(s)  == [Shown(s) EXCEPT !.stamp = FileStamp(s, Shown(s).of)]
Again(s)   == IF KindOf(s, Shown(s).of) = Shown(s).kind
              THEN [Marked(s) EXCEPT !.gen = s.gen + 1, !.missed = FALSE]
              ELSE Loading(s, Shown(s).of, Shown(s).pinned, s.gen + 1)
WithTab(s, x) == [s.files EXCEPT ![s.file] = x]

LEMMA TabsHold ==
    ASSUME NEW s, Sound(s), NEW FW, FilesFit(s, FW)
    PROVE  /\ s.files \in Seq(Inner) /\ DOMAIN s.files = 1..Len(s.files) /\ Len(s.files) \in Nat
           /\ s.file # 0 => s.file \in 1..Len(s.files) /\ Shown(s) \in Inner
           /\ \A k \in 1..Len(s.files) : s.files[k] \in Inner /\ s.files[k].of \in Files
<1>1. s.files \in Seq(Inner)
  BY DEF Sound, Explorer
<1>2. /\ DOMAIN s.files = 1..Len(s.files) /\ Len(s.files) \in Nat
      /\ \A k \in 1..Len(s.files) : s.files[k] \in Inner
  BY <1>1, Places
<1>3. s.file # 0 => s.file \in 1..Len(s.files)
  BY <1>2 DEF FilesFit
<1>4. \A k \in 1..Len(s.files) : s.files[k].of \in Files
  BY <1>2 DEF Inner
<1> QED BY <1>1, <1>2, <1>3, <1>4 DEF Shown

LEMMA ReloadShape ==
    ASSUME NEW s, Sound(s), version \in DOMAIN Disk, s.file \in 1..Len(s.files),
           ~s.overlay, s.active, Shown(s) \in Inner
    PROVE  LET f == Shown(s).of
           IN  /\ Marked(s) \in Inner /\ Alike(Shown(s), Marked(s))
               /\ Marked(s).stamp = FileStamp(s, f) /\ Marked(s).pinned = Shown(s).pinned
               /\ Again(s) \in Inner /\ Again(s).of = f /\ Again(s).gen = s.gen + 1
               /\ Again(s).pinned = Shown(s).pinned
               /\ Again(s).kind = KindOf(s, f) /\ Again(s).stamp = FileStamp(s, f)
               /\ LiveReload(s) =
                    IF Shown(s).stamp = FileStamp(s, f) THEN s
                    ELSE IF Token(version, f) = 0 THEN [s EXCEPT !.files = WithTab(s, Marked(s))]
                    ELSE LoadFile([s EXCEPT !.files = WithTab(s, Again(s)), !.gen = s.gen + 1], f, s.gen + 1)
<1>1. PICK r \in Inner : r = Shown(s)
  OBVIOUS
<1>2. PICK f \in Files : f = r.of
  BY DEF Inner
<1>3. PICK g \in Nat : g = s.gen + 1
  BY DEF Sound, Explorer
<1>4. /\ Loading(s, f, r.pinned, g) \in Inner
      /\ Loading(s, f, r.pinned, g).of = f /\ Loading(s, f, r.pinned, g).gen = g
      /\ Loading(s, f, r.pinned, g).pinned = r.pinned
      /\ Loading(s, f, r.pinned, g).kind = KindOf(s, f)
      /\ Loading(s, f, r.pinned, g).stamp = FileStamp(s, f)
      /\ FileStamp(s, f) \in Stamps
  <2>1. r.pinned \in BOOLEAN
    BY DEF Inner
  <2> QED BY <2>1, LoadingHolds
<1>5. PICK st \in Stamps : st = FileStamp(s, f)
  BY <1>4
<1>6. PICK m : m = [r EXCEPT !.stamp = st]
  OBVIOUS
<1>7. m \in Inner /\ Alike(r, m) /\ m.stamp = st /\ m.pinned = r.pinned
  BY <1>6 DEF Inner, Alike
<1>8. Marked(s) = m
  BY <1>1, <1>2, <1>5, <1>6 DEF Marked
<1>9. PICK n : n = [m EXCEPT !.gen = g, !.missed = FALSE]
  OBVIOUS
<1>10. n \in Inner /\ n.of = m.of /\ n.kind = m.kind /\ n.stamp = m.stamp /\ n.pinned = m.pinned /\ n.gen = g
  BY <1>7, <1>9 DEF Inner
<1>11. Again(s) = IF KindOf(s, f) = r.kind THEN n ELSE Loading(s, f, r.pinned, g)
  BY <1>1, <1>2, <1>3, <1>8, <1>9 DEF Again
<1>12. /\ Again(s) \in Inner /\ Again(s).of = f /\ Again(s).gen = g /\ Again(s).pinned = r.pinned
       /\ Again(s).kind = KindOf(s, f) /\ Again(s).stamp = FileStamp(s, f)
  <2>1. CASE KindOf(s, f) = r.kind
    <3>1. Again(s) = n
      BY <1>11, <2>1
    <3>2. n.kind = KindOf(s, f) /\ n.of = f
      BY <1>2, <1>7, <1>10, <2>1 DEF Alike
    <3> QED BY <1>5, <1>7, <1>10, <3>1, <3>2
  <2>2. CASE KindOf(s, f) # r.kind
    BY <1>4, <1>11, <2>2
  <2> QED BY <2>1, <2>2
<1> HIDE DEF Again, Marked
<1>13. PICK t : t = [s EXCEPT !.files = WithTab(s, m)]
  OBVIOUS
<1>14. t = [s EXCEPT !.files[s.file].stamp = FileStamp(s, f)]
  BY <1>1, <1>5, <1>6, <1>13 DEF WithTab, Shown, Sound, Explorer
<1>15. t.files = WithTab(s, m) /\ t.files[s.file] = m /\ t.gen = s.gen /\ s.file \in DOMAIN t.files
  <2>1. DOMAIN s.files = 1..Len(s.files) /\ s \in Explorer
    BY LenProperties DEF Sound, Explorer
  <2>2. t.files = WithTab(s, m) /\ t.gen = s.gen
    BY <1>13, <2>1 DEF Explorer
  <2> QED BY <2>1, <2>2 DEF WithTab
<1>16. PICK a : a = Again(s)
  OBVIOUS
<1>17. PICK b : b = [t EXCEPT !.gen = @ + 1, !.files[s.file] =
                        IF KindOf(s, f) = @.kind
                        THEN [@ EXCEPT !.gen = s.gen + 1, !.missed = FALSE]
                        ELSE Loading(s, f, @.pinned, s.gen + 1)]
  OBVIOUS
<1>18. b = [s EXCEPT !.files = WithTab(s, a), !.gen = s.gen + 1]
  <2>1. m.kind = r.kind /\ m.pinned = r.pinned
    BY <1>7 DEF Alike
  <2>2. b = [t EXCEPT !.gen = g, !.files = [t.files EXCEPT ![s.file] = a]]
    <3>1. a = IF KindOf(s, f) = m.kind THEN [m EXCEPT !.gen = g, !.missed = FALSE]
              ELSE Loading(s, f, m.pinned, g)
      BY <1>9, <1>11, <1>16, <2>1
    <3> QED BY <1>3, <1>15, <1>17, <3>1
  <2>3. [t.files EXCEPT ![s.file] = a] = WithTab(s, a)
    BY <1>15 DEF WithTab
  <2>4. b = [t EXCEPT !.gen = g, !.files = WithTab(s, a)]
    BY <2>2, <2>3
  <2> QED BY <1>3, <1>13, <2>4 DEF Sound, Explorer
<1>19. LiveReload(s) = IF r.stamp = FileStamp(s, f) THEN s
                       ELSE IF Token(version, f) = 0 THEN t ELSE LoadFile(b, f, s.gen + 1)
  BY <1>1, <1>2, <1>14, <1>17 DEF LiveReload, Shown
<1>20. f = Shown(s).of
  BY <1>1, <1>2
<1> QED BY <1>1, <1>3, <1>5, <1>7, <1>8, <1>12, <1>13, <1>16, <1>18, <1>19, <1>20

\* The tab in sight starts over: x has a new generation, and its load is
\* asked for.
WithAgain(s, x) == [s EXCEPT !.files = WithTab(s, x), !.gen = s.gen + 1]

LEMMA RenewFits ==
    ASSUME NEW s, Sound(s), s.open, NEW FW \in SUBSET Work(FileJob), version \in DOMAIN Disk,
           FilesFit(s, FW), s.file # 0, NEW x \in Inner, NEW f \in Files, f = Shown(s).of, x.of = f,
           x.gen = s.gen + 1, x.pinned = Shown(s).pinned, x.kind = KindOf(s, f), x.stamp = FileStamp(s, f)
    PROVE  FileStep(s, LoadFile(WithAgain(s, x), f, s.gen + 1), FW)
<1>1. /\ s.files \in Seq(Inner) /\ DOMAIN s.files = 1..Len(s.files) /\ Len(s.files) \in Nat
      /\ s.file \in 1..Len(s.files) /\ Shown(s) \in Inner
      /\ \A k \in 1..Len(s.files) : s.files[k] \in Inner /\ s.files[k].of \in Files
  BY TabsHold
<1>2. PICK g \in Nat : g = s.gen + 1 /\ s.gen \in Nat
  BY DEF Sound, Explorer
<1>3. PICK t : t = [s EXCEPT !.files = WithTab(s, x), !.gen = g]
  OBVIOUS
<1>4. WithAgain(s, x) = t
  BY <1>2, <1>3 DEF WithAgain
<1>5. /\ WithTab(s, x) \in Seq(Inner) /\ Len(WithTab(s, x)) = Len(s.files)
      /\ WithTab(s, x)[s.file] = x
      /\ \A k \in 1..Len(s.files) : k # s.file => WithTab(s, x)[k] = s.files[k]
  BY <1>1, PutHolds DEF WithTab
<1>6. t \in Explorer /\ t.files = WithTab(s, x) /\ t.gen = g /\ Alters(s, t, {"files", "gen"})
  BY <1>3, <1>5 DEF Sound, Explorer, Alters, ExFields
<1>7. Sound(t) /\ t.file = s.file /\ t.snapshot = s.snapshot
  BY <1>6 DEF Sound, Alters, ExFields
<1>8. KindOf(t, f) = KindOf(s, f) /\ FileStamp(t, f) = FileStamp(s, f)
  BY <1>7 DEF KindOf, FileStamp
<1>9. Apart(t.files)
  <2>1. DOMAIN t.files = 1..Len(s.files)
    BY <1>5, <1>6, LenProperties
  <2>2. \A k \in 1..Len(s.files) : s.files[k].gen # g
    <3>1. ASSUME NEW k \in 1..Len(s.files) PROVE s.files[k].gen # g
      <4>1. PICK r \in Inner : r = s.files[k]
        BY <1>1
      <4>2. r.gen <= s.gen /\ r.gen \in Nat
        BY <1>1, <4>1 DEF FilesFit, InnerFits, Inner
      <4> QED BY <1>2, <4>1, <4>2
    <3> QED BY <3>1
  <2>3. ASSUME NEW m \in 1..Len(s.files), NEW k \in 1..Len(s.files), m # k
        PROVE  /\ t.files[m].of # t.files[k].of /\ t.files[m].gen # t.files[k].gen
               /\ t.files[m].pinned \/ t.files[k].pinned
    <3>1. /\ s.files[m].of # s.files[k].of /\ s.files[m].gen # s.files[k].gen
          /\ s.files[m].pinned \/ s.files[k].pinned
      BY <1>1, <2>3 DEF FilesFit, Apart
    <3>2. x.of = s.files[s.file].of /\ x.gen = g /\ x.pinned = s.files[s.file].pinned
      BY <1>2 DEF Shown
    <3>3. CASE m = s.file
      BY <1>5, <1>6, <2>2, <2>3, <3>1, <3>2, <3>3
    <3>4. CASE k = s.file
      BY <1>5, <1>6, <2>2, <2>3, <3>1, <3>2, <3>4
    <3>5. CASE m # s.file /\ k # s.file
      BY <1>5, <1>6, <3>1, <3>5
    <3> QED BY <3>3, <3>4, <3>5
  <2> QED BY <2>1, <2>3 DEF Apart
<1>10. /\ t.files[s.file].of = f /\ t.files[s.file].gen = t.gen
       /\ t.files[s.file].kind = KindOf(t, f) /\ t.files[s.file].stamp = FileStamp(t, f)
  BY <1>2, <1>5, <1>6, <1>8
<1>11. Alters(s, t, FileMoves)
  BY <1>6 DEF Alters, FileMoves
<1>12. \A k \in 1..Len(t.files) : k # s.file => \E m \in DOMAIN s.files : t.files[k] = s.files[m]
  BY <1>1, <1>5, <1>6
<1>13. t.file \in 1..Len(t.files) /\ s.file \in 1..Len(t.files) /\ t.gen = s.gen + 1
  BY <1>1, <1>2, <1>5, <1>6, <1>7
<1>14. Renewed(s, t, s.file, f)
  BY <1>9, <1>10, <1>11, <1>12, <1>13 DEF Renewed
<1>15. FileStep(s, LoadFile(t, f, t.gen), FW)
  BY <1>7, <1>14, LoadFileFits
<1> QED BY <1>2, <1>4, <1>6, <1>15

\* A tab that shows a file without its stamp still has a load under way.
LEMMA ReloadFits ==
    ASSUME NEW s, Sound(s), NEW FW \in SUBSET Work(FileJob), version \in DOMAIN Disk, FilesFit(s, FW)
    PROVE  FileStep(s, LiveReload(s), FW)
<1>1. FileStep(s, s, FW)
  BY DEF FileStep, Alters
<1>2. CASE s.overlay \/ ~s.active \/ s.file = 0
  <2>1. LiveReload(s) = s
    BY <1>2 DEF LiveReload
  <2> QED BY <1>1, <2>1
<1>3. CASE ~(s.overlay \/ ~s.active \/ s.file = 0)
  <2>1. /\ s.files \in Seq(Inner) /\ DOMAIN s.files = 1..Len(s.files) /\ Len(s.files) \in Nat
        /\ s.file \in 1..Len(s.files) /\ Shown(s) \in Inner
        /\ \A k \in 1..Len(s.files) : s.files[k] \in Inner /\ s.files[k].of \in Files
    BY <1>3, TabsHold
  <2>2. s.open /\ s.gen \in Nat
    BY <1>3 DEF Sound, Explorer
  <2>3. PICK f \in Files : f = Shown(s).of
    BY <2>1 DEF Inner
  <2>4. /\ Marked(s) \in Inner /\ Alike(Shown(s), Marked(s))
        /\ Marked(s).stamp = FileStamp(s, f) /\ Marked(s).pinned = Shown(s).pinned
        /\ Again(s) \in Inner /\ Again(s).of = f /\ Again(s).gen = s.gen + 1
        /\ Again(s).pinned = Shown(s).pinned
        /\ Again(s).kind = KindOf(s, f) /\ Again(s).stamp = FileStamp(s, f)
        /\ LiveReload(s) =
             IF Shown(s).stamp = FileStamp(s, f) THEN s
             ELSE IF Token(version, f) = 0 THEN [s EXCEPT !.files = WithTab(s, Marked(s))]
             ELSE LoadFile([s EXCEPT !.files = WithTab(s, Again(s)), !.gen = s.gen + 1], f, s.gen + 1)
    BY <1>3, <2>1, <2>3, ReloadShape
  <2>5. Apart(s.files) /\ InnerFits(s, FW, Shown(s))
    BY <2>1, <2>2 DEF FilesFit, Shown
  <2>6. CASE Shown(s).stamp = FileStamp(s, f)
    BY <1>1, <2>4, <2>6
  <2>7. CASE Shown(s).stamp # FileStamp(s, f) /\ Token(version, f) = 0
    <3>1. PICK x \in Inner : x = Marked(s)
      BY <2>4
    <3>2. PICK t : t = [s EXCEPT !.files = WithTab(s, x)]
      OBVIOUS
    <3>3. LiveReload(s) = t
      BY <2>4, <2>7, <3>1, <3>2
    <3>4. WithTab(s, x) \in Seq(Inner)
      BY <2>1, PutHolds DEF WithTab
    <3>5. t \in Explorer /\ t.files = WithTab(s, x) /\ Alters(s, t, {"files"})
      BY <3>2, <3>4 DEF Sound, Explorer, Alters, ExFields
    <3>6. Sound(t) /\ t.gen = s.gen /\ t.file = s.file /\ t.id = s.id /\ t.fileJobs = s.fileJobs
      BY <3>5 DEF Sound, Alters, ExFields
    <3>7. Alike(Shown(s), x) /\ x.of = f /\ x.stamp = FileStamp(s, x.of)
      BY <2>3, <2>4, <3>1 DEF Alike
    <3>8. InnerFits(t, FW, x)
      BY <2>5, <2>7, <3>6, <3>7, InnerGone
    <3>9. \A k \in 1..Len(s.files) : k # s.file => x.pinned \/ s.files[k].pinned
      BY <2>1, <2>4, <2>5, <3>1 DEF Apart, Shown
    <3>10. Alters(s, t, FileMoves)
      BY <3>5 DEF Alters, FileMoves
    <3>11. x.of = s.files[s.file].of /\ x.gen = s.files[s.file].gen
      BY <3>7 DEF Alike, Shown
    <3>14. \A k \in 1..Len(s.files) : InnerFits(t, FW, s.files[k])
      BY <2>1, <2>2, <3>6, OthersFit
    <3>12. FilesFit(t, FW)
      BY <2>1, <3>5, <3>6, <3>8, <3>9, <3>10, <3>11, <3>14, TabFits DEF WithTab
    <3>13. Alters(s, t, FileMoves \union {"fileJobs"})
      BY <3>5 DEF Alters, FileMoves
    <3> QED BY <3>3, <3>6, <3>12, <3>13 DEF FileStep
  <2>8. CASE Shown(s).stamp # FileStamp(s, f) /\ Token(version, f) # 0
    <3>1. LiveReload(s) = LoadFile(WithAgain(s, Again(s)), f, s.gen + 1)
      BY <2>4, <2>8 DEF WithAgain
    <3> QED BY <1>3, <2>2, <2>3, <2>4, <3>1, RenewFits
  <2> QED BY <2>6, <2>7, <2>8
<1> QED BY <1>2, <1>3

LEMMA CheckFits ==
    ASSUME NEW s, Sound(s), NEW FW \in SUBSET Work(FileJob), version \in DOMAIN Disk, FilesFit(s, FW),
           NEW before
    PROVE  FileStep(s, CheckShown(s, before), FW)
<1>1. FileStep(s, s, FW) /\ FileStep(s, LiveReload(s), FW)
  BY ReloadFits DEF FileStep, Alters
<1> QED BY <1>1 DEF CheckShown

LEMMA FileStepTrans ==
    ASSUME NEW s, NEW t, NEW u, NEW FW, Alters(s, t, FileMoves \union {"fileJobs"}), FileStep(t, u, FW)
    PROVE  FileStep(s, u, FW)
BY DEF FileStep, Alters

\* The tabs of s with a new one at place i, and no other preview unless it
\* is pinned.
Placed(s, files, i, f, pin) ==
    /\ files \in Seq(Inner) /\ i \in 1..Len(files) /\ files[i] = Loading(s, f, pin, s.gen + 1)
    /\ \A k \in 1..Len(s.files) : s.files[k].of # f
    /\ \E from :
         /\ \A k \in 1..Len(files) : k # i => from[k] \in 1..Len(s.files) /\ files[k] = s.files[from[k]]
         /\ \A k, m \in 1..Len(files) : k # i /\ m # i /\ k # m => from[k] # from[m]
    /\ \A k \in 1..Len(files) : k # i => pin \/ files[k].pinned

WithNew(s, files, i) == [s EXCEPT !.gen = s.gen + 1, !.files = files, !.file = i]

LEMMA NewTabFits ==
    ASSUME NEW s, Sound(s), s.open, NEW FW \in SUBSET Work(FileJob), version \in DOMAIN Disk,
           FilesFit(s, FW), NEW f \in Files, NEW pin \in BOOLEAN, NEW files, NEW i,
           Placed(s, files, i, f, pin)
    PROVE  FileStep(s, LoadFile(WithNew(s, files, i), f, s.gen + 1), FW)
<1>a. /\ files \in Seq(Inner) /\ i \in 1..Len(files) /\ files[i] = Loading(s, f, pin, s.gen + 1)
      /\ \A k \in 1..Len(s.files) : s.files[k].of # f
      /\ \A k \in 1..Len(files) : k # i => pin \/ files[k].pinned
  BY DEF Placed
<1>b. PICK from :
         /\ \A k \in 1..Len(files) : k # i => from[k] \in 1..Len(s.files) /\ files[k] = s.files[from[k]]
         /\ \A k, m \in 1..Len(files) : k # i /\ m # i /\ k # m => from[k] # from[m]
  BY DEF Placed
<1> USE <1>a, <1>b
<1>1. PICK g \in Nat : g = s.gen + 1 /\ s.gen \in Nat
  BY DEF Sound, Explorer
<1>2. /\ s.files \in Seq(Inner) /\ DOMAIN s.files = 1..Len(s.files) /\ Len(s.files) \in Nat
      /\ \A k \in 1..Len(s.files) : s.files[k] \in Inner /\ s.files[k].of \in Files
  BY TabsHold
<1>3. DOMAIN files = 1..Len(files) /\ Len(files) \in Nat /\ i \in Nat
  BY LenProperties
<1>4. PICK t : t = [s EXCEPT !.gen = g, !.files = files, !.file = i]
  OBVIOUS
<1>5. t \in Explorer /\ t.files = files /\ t.gen = g /\ t.file = i /\ Alters(s, t, FileMoves)
  BY <1>3, <1>4 DEF Sound, Explorer, Alters, ExFields, FileMoves
<1>6. Sound(t) /\ t.snapshot = s.snapshot
  BY <1>5 DEF Sound, Alters, ExFields, FileMoves
<1>7. KindOf(t, f) = KindOf(s, f) /\ FileStamp(t, f) = FileStamp(s, f)
  BY <1>6 DEF KindOf, FileStamp
<1>8. /\ files[i].of = f /\ files[i].gen = g /\ files[i].pinned = pin
      /\ files[i].kind = KindOf(t, f) /\ files[i].stamp = FileStamp(t, f)
  BY <1>1, <1>7, LoadingHolds
<1>9. \A k \in 1..Len(s.files) : s.files[k].gen # g
  <2>1. ASSUME NEW k \in 1..Len(s.files) PROVE s.files[k].gen # g
    <3>1. PICK r \in Inner : r = s.files[k]
      BY <1>2
    <3>2. r.gen <= s.gen /\ r.gen \in Nat
      BY <1>2, <3>1 DEF FilesFit, InnerFits, Inner
    <3> QED BY <1>1, <3>1, <3>2
  <2> QED BY <2>1
<1>10. Apart(s.files)
  BY DEF FilesFit
<1>11. Apart(files)
  <2>1. ASSUME NEW m \in 1..Len(files), NEW k \in 1..Len(files), m # k
        PROVE  /\ files[m].of # files[k].of /\ files[m].gen # files[k].gen
               /\ files[m].pinned \/ files[k].pinned
    <3>1. CASE m = i
      BY <1>8, <1>9, <2>1, <3>1
    <3>2. CASE k = i
      BY <1>8, <1>9, <2>1, <3>2
    <3>3. CASE m # i /\ k # i
      <4>1. PICK a \in 1..Len(s.files), b \in 1..Len(s.files) :
               a = from[m] /\ b = from[k] /\ files[m] = s.files[a] /\ files[k] = s.files[b] /\ a # b
        BY <2>1, <3>3
      <4> QED BY <1>2, <1>10, <4>1 DEF Apart
    <3> QED BY <3>1, <3>2, <3>3
  <2> QED BY <1>3, <2>1 DEF Apart
<1>12. \A k \in 1..Len(t.files) : k # i => \E m \in DOMAIN s.files : t.files[k] = s.files[m]
  BY <1>2, <1>5
<1>13. /\ t.files[i].of = f /\ t.files[i].gen = t.gen /\ t.files[i].kind = KindOf(t, f)
       /\ t.files[i].stamp = FileStamp(t, f) /\ Apart(t.files) /\ t.gen = s.gen + 1
       /\ t.file \in 1..Len(t.files) /\ i \in 1..Len(t.files)
  BY <1>1, <1>5, <1>8, <1>11
<1>14. Renewed(s, t, i, f)
  BY <1>5, <1>12, <1>13 DEF Renewed
<1>15. FileStep(s, LoadFile(t, f, t.gen), FW)
  BY <1>6, <1>14, LoadFileFits
<1>16. WithNew(s, files, i) = t
  BY <1>1, <1>4 DEF WithNew
<1> QED BY <1>1, <1>5, <1>15, <1>16

LEMMA ShowFits ==
    ASSUME NEW s, Sound(s), s.open, NEW FW \in SUBSET Work(FileJob), version \in DOMAIN Disk,
           FilesFit(s, FW), NEW f \in Files, NEW pin \in BOOLEAN
    PROVE  FileStep(s, ShowFile(s, f, pin), FW)
<1> DEFINE known   == {i \in DOMAIN s.files : s.files[i].of = f}
           preview == {i \in DOMAIN s.files : ~s.files[i].pinned}
           here    == CHOOSE i \in known : TRUE
           place   == CHOOSE i \in preview : TRUE
<1>1. PICK inner \in Inner : inner = Loading(s, f, pin, s.gen + 1)
  <2>1. s.gen + 1 \in Nat
    BY DEF Sound, Explorer
  <2> QED BY <2>1, LoadingHolds
<1>2. /\ s.files \in Seq(Inner) /\ DOMAIN s.files = 1..Len(s.files) /\ Len(s.files) \in Nat
      /\ \A k \in 1..Len(s.files) : s.files[k] \in Inner /\ s.files[k].of \in Files
  BY TabsHold
<1>3. Apart(s.files)
  BY DEF FilesFit
<1>4. CASE known # {}
  <2>1. PICK i \in 1..Len(s.files) : i = here /\ s.files[i].of = f
    BY <1>2, <1>4
  <2>2. PICK r \in Inner : r = s.files[i]
    BY <1>2
  <2>3. PICK b \in BOOLEAN : b = (pin \/ r.pinned)
    BY DEF Inner
  <2>4. PICK x : x = [r EXCEPT !.pinned = b]
    OBVIOUS
  <2>5. x \in Inner /\ Alike(r, x) /\ x.stamp = r.stamp /\ x.pinned = b
    BY <2>4 DEF Inner, Alike
  <2>6. PICK q \in Seq(Inner) : q = [s.files EXCEPT ![i] = x] /\ Len(q) = Len(s.files)
    <3>1. [s.files EXCEPT ![i] = x] \in Seq(Inner) /\ Len([s.files EXCEPT ![i] = x]) = Len(s.files)
      BY <1>2, <2>5, PutHolds
    <3> QED BY <3>1, Zenon
  <2>7. PICK t : t = [s EXCEPT !.file = i, !.files = q]
    OBVIOUS
  <2>8. ShowFile(s, f, pin) = CheckShown(t, ActiveGen(s))
    <3>1. [s EXCEPT !.file = here, !.files[here].pinned = pin \/ @] = t
      <4>1. s.files[i].pinned = r.pinned
        BY <2>2
      <4> QED BY <1>2, <2>1, <2>2, <2>3, <2>4, <2>6, <2>7 DEF Sound, Explorer
    <3> QED BY <1>4, <3>1, Zenon DEF ShowFile
  <2>9. t \in Explorer /\ t.files = q /\ t.file = i /\ Alters(s, t, {"file", "files"})
    <3>1. i \in Nat
      BY <1>2
    <3> HIDE DEF here, known
    <3>2. t \in Explorer /\ t.files = q /\ t.file = i
      BY <2>7, <3>1 DEF Sound, Explorer
    <3>3. Alters(s, t, {"file", "files"})
      BY <2>7 DEF Sound, Explorer, Alters, ExFields
    <3> QED BY <3>2, <3>3
  <2>10. Sound(t) /\ t.gen = s.gen /\ t.id = s.id /\ t.fileJobs = s.fileJobs
    BY <2>9 DEF Sound, Alters, ExFields
  <2>11. Alters(s, t, FileMoves) /\ Alters(s, t, FileMoves \union {"fileJobs"})
    BY <2>9 DEF Alters, FileMoves
  <2>12. InnerFits(s, FW, r)
    BY <1>2, <2>2 DEF FilesFit
  <2>13. InnerFits(t, FW, x)
    BY <2>5, <2>10, <2>12, InnerSame
  <2>14. \A k \in 1..Len(s.files) : k # i => x.pinned \/ s.files[k].pinned
    BY <1>2, <1>3, <2>2, <2>3, <2>5 DEF Apart
  <2>15. x.of = s.files[i].of /\ x.gen = s.files[i].gen
    BY <2>2, <2>5 DEF Alike
  <2>17. \A k \in 1..Len(s.files) : InnerFits(t, FW, s.files[k])
    BY <2>10, OthersFit
  <2>16. FilesFit(t, FW)
    BY <2>5, <2>6, <2>9, <2>10, <2>11, <2>13, <2>14, <2>15, <2>17, TabFits
  <2> QED BY <2>8, <2>10, <2>11, <2>16, CheckFits, FileStepTrans
<1>5. CASE known = {} /\ preview # {} /\ ~pin
  <2>1. PICK i \in 1..Len(s.files) : i = place /\ ~s.files[i].pinned
    BY <1>2, <1>5
  <2>2. PICK q \in Seq(Inner) : /\ q = [s.files EXCEPT ![i] = inner] /\ Len(q) = Len(s.files) /\ q[i] = inner
                                /\ \A k \in 1..Len(s.files) : k # i => q[k] = s.files[k]
    <3>1. /\ [s.files EXCEPT ![i] = inner] \in Seq(Inner)
          /\ Len([s.files EXCEPT ![i] = inner]) = Len(s.files)
          /\ [s.files EXCEPT ![i] = inner][i] = inner
          /\ \A k \in 1..Len(s.files) : k # i => [s.files EXCEPT ![i] = inner][k] = s.files[k]
      BY <1>2, PutHolds
    <3> QED BY <3>1, Zenon
  <2>3. ShowFile(s, f, pin) = LoadFile(WithNew(s, q, i), f, s.gen + 1)
    BY <1>1, <1>5, <2>1, <2>2 DEF ShowFile, WithNew
  <2>4. \A k \in 1..Len(s.files) : s.files[k].of # f
    BY <1>2, <1>5
  <2>5. \A k \in 1..Len(q) : k # i => pin \/ q[k].pinned
    BY <1>2, <1>3, <2>1, <2>2 DEF Apart
  <2>6. PICK from : from = [k \in 1..Len(q) |-> k]
    OBVIOUS
  <2>7. \A k \in 1..Len(q) : from[k] = k
    BY <2>6
  <2>8. \A k \in 1..Len(q) : k # i => from[k] \in 1..Len(s.files) /\ q[k] = s.files[from[k]]
    BY <2>2, <2>7
  <2>9. \A k, m \in 1..Len(q) : k # i /\ m # i /\ k # m => from[k] # from[m]
    BY <2>7
  <2>10. i \in 1..Len(q)
    BY <2>2
  <2>11. Placed(s, q, i, f, pin)
    BY <1>1, <2>2, <2>4, <2>5, <2>8, <2>9, <2>10 DEF Placed
  <2> QED BY <2>3, <2>11, NewTabFits
<1>6. CASE known = {} /\ (preview = {} \/ pin)
  <2>1. PICK i \in 1..(Len(s.files) + 1) : i = s.file + 1
    BY <1>2 DEF FilesFit
  <2>2. PICK q \in Seq(Inner) : /\ q = InsertAt(s.files, i, inner) /\ Len(q) = Len(s.files) + 1 /\ q[i] = inner
                                /\ \A k \in 1..(Len(s.files) + 1) : k # i =>
                                      q[k] = IF k < i THEN s.files[k] ELSE s.files[k - 1]
    BY <1>2, InsertAtHolds
  <2>3. ShowFile(s, f, pin) = LoadFile(WithNew(s, q, i), f, s.gen + 1)
    BY <1>1, <1>6, <2>1, <2>2 DEF ShowFile, WithNew
  <2>4. \A k \in 1..Len(s.files) : s.files[k].of # f
    BY <1>2, <1>6
  <2>5. PICK from : from = [k \in 1..Len(q) |-> IF k < i THEN k ELSE k - 1]
    OBVIOUS
  <2>6. \A k \in 1..Len(q) : from[k] = IF k < i THEN k ELSE k - 1
    BY <2>5
  <2>7. \A k \in 1..Len(q) : k # i => from[k] \in 1..Len(s.files) /\ q[k] = s.files[from[k]]
    BY <1>2, <2>2, <2>6
  <2>8. \A k, m \in 1..Len(q) : k # i /\ m # i /\ k # m => from[k] # from[m]
    BY <1>2, <2>2, <2>6
  <2>9. \A k \in 1..Len(q) : k # i => pin \/ q[k].pinned
    BY <1>2, <1>6, <2>7
  <2>10. i \in 1..Len(q)
    BY <2>2
  <2>11. Placed(s, q, i, f, pin)
    BY <1>1, <2>2, <2>4, <2>7, <2>8, <2>9, <2>10 DEF Placed
  <2> QED BY <2>3, <2>11, NewTabFits
<1> QED BY <1>4, <1>5, <1>6

-----------------------------------------------------------------------------
(* Both halves *)

TreeMoves == {"expanded", "asked", "cursor", "req", "newest", "dirJobs"}

\* What a method of the tree does.
TreeStep(s, u, DW) == Sound(u) /\ TreeFits(u, DW, {}) /\ Alters(s, u, TreeMoves)

LEMMA FileStepFits ==
    ASSUME NEW s, NEW u, NEW DW, NEW FW, Fits(s, DW, FW), FileStep(s, u, FW)
    PROVE  Fits(u, DW, FW) /\ u.open = s.open
<1>1. Alters(s, u, ExFields \ TreeFields) /\ u.asked = s.asked /\ u.open = s.open
  BY DEF FileStep, Alters, ExFields, TreeFields, FileMoves
<1>2. TreeFits(u, DW, {})
  BY <1>1, TreeSame DEF Fits
<1> QED BY <1>1, <1>2 DEF Fits, FileStep

LEMMA TreeStepFits ==
    ASSUME NEW s, NEW u, NEW DW, NEW FW, Fits(s, DW, FW), TreeStep(s, u, DW)
    PROVE  Fits(u, DW, FW) /\ u.open = s.open
<1>1. Alters(s, u, ExFields \ FileFields) /\ u.open = s.open
  BY DEF TreeStep, Alters, ExFields, FileFields, TreeMoves
<1>2. FilesFit(u, FW)
  BY <1>1, FilesSame DEF Fits
<1> QED BY <1>1, <1>2 DEF Fits, TreeStep

\* A step that is of neither half.
LEMMA OtherStepFits ==
    ASSUME NEW s, NEW u, NEW DW, NEW FW, Fits(s, DW, FW), Sound(u),
           Alters(s, u, {"active", "overlay", "expanded", "cursor"})
    PROVE  Fits(u, DW, FW) /\ u.open = s.open
<1>1. /\ Alters(s, u, ExFields \ FileFields) /\ Alters(s, u, ExFields \ TreeFields)
      /\ u.open = s.open /\ u.asked = s.asked
  BY DEF Alters, ExFields, FileFields, TreeFields
<1> QED BY <1>1, TreeSame, FilesSame DEF Fits

\* Revealing a node and asking for what that, or an earlier step, owes.
LEMMA RevealAskFits ==
    ASSUME NEW s, Sound(s), NEW DW \in SUBSET Work(DirJob), version \in DOMAIN Disk,
           NEW owed, TreeFits(s, DW, owed), NEW n \in Nodes \union {Root}, NEW dirs \in Seq(Dirs),
           owed \subseteq ToSet(dirs), ToSet(Missing(s, PathTo(n))) \subseteq ToSet(dirs)
    PROVE  TreeStep(s, LoadDirs(Reveal(s, n), dirs), DW)
<1>1. PICK t : t = Reveal(s, n)
  OBVIOUS
<1>2. /\ Sound(t) /\ Alters(s, t, {"expanded", "asked", "cursor"})
      /\ t.asked = s.asked \union ToSet(Missing(s, PathTo(n)))
  BY <1>1, RevealHolds
<1> DEFINE more == ToSet(Missing(s, PathTo(n)))
<1>3. Alters(s, t, ExFields \ TreeFields) /\ t.asked \subseteq s.asked \union more
  BY <1>2 DEF Alters, ExFields, TreeFields
<1>4. owed \union more \subseteq ToSet(dirs)
  OBVIOUS
<1> HIDE DEF more
<1>5. TreeFits(t, DW, owed \union more)
  BY <1>3, TreeKept
<1>6. TreeFits(LoadDirs(t, dirs), DW, {})
  BY <1>2, <1>4, <1>5, AskFits
<1>7. Sound(LoadDirs(t, dirs)) /\ Alters(t, LoadDirs(t, dirs), {"req", "newest", "dirJobs"})
  BY <1>2, LoadDirsShape
<1>8. Alters(s, LoadDirs(t, dirs), TreeMoves)
  BY <1>2, <1>7 DEF Alters, TreeMoves
<1> QED BY <1>1, <1>6, <1>7, <1>8 DEF TreeStep

LEMMA SyncFits ==
    ASSUME NEW s, NEW DW, NEW FW \in SUBSET Work(FileJob), version \in DOMAIN Disk,
           Fits(s, DW, FW), s.open
    PROVE  Fits(SyncPreview(s), DW, FW) /\ SyncPreview(s).open
<1>1. CASE Resolved(s) /\ CursorRow(s) \in Files
  <2>1. SyncPreview(s) = ShowFile(s, CursorRow(s), FALSE)
    BY <1>1 DEF SyncPreview
  <2>2. FileStep(s, ShowFile(s, CursorRow(s), FALSE), FW)
    BY <1>1, ShowFits DEF Fits
  <2> QED BY <2>1, <2>2, FileStepFits
<1>2. CASE ~(Resolved(s) /\ CursorRow(s) \in Files)
  BY <1>2 DEF SyncPreview
<1> QED BY <1>1, <1>2

LEMMA RevealAndCheckFits ==
    ASSUME NEW s, NEW DW \in SUBSET Work(DirJob), NEW FW \in SUBSET Work(FileJob),
           version \in DOMAIN Disk, Fits(s, DW, FW), NEW before
    PROVE  Fits(RevealAndCheck(s, before), DW, FW)
<1>1. CASE s.file = 0
  BY <1>1 DEF RevealAndCheck
<1>2. CASE s.file # 0
  <2>1. PICK f \in Files : f = s.files[s.file].of
    BY <1>2, TabsHold DEF Fits
  <2>2. f \in Nodes
    BY <2>1, NodesHold
  <2>3. PICK t : t = LoadDirs(Reveal(s, f), Missing(s, PathTo(f)))
    OBVIOUS
  <2>4. Missing(s, PathTo(f)) \in Seq(Dirs)
    BY <2>2, PathHolds, MissingHolds
  <2>5. TreeStep(s, t, DW)
    BY <2>2, <2>3, <2>4, RevealAskFits DEF Fits
  <2>6. Fits(t, DW, FW)
    BY <2>5, TreeStepFits
  <2>7. FileStep(t, CheckShown(t, before), FW)
    BY <2>6, CheckFits DEF Fits
  <2>8. RevealAndCheck(s, before) = CheckShown(t, before)
    BY <1>2, <2>1, <2>3 DEF RevealAndCheck
  <2> QED BY <2>6, <2>7, <2>8, FileStepFits
<1> QED BY <1>1, <1>2

\* The row of the cursor is a node, or no row is painted.
LEMMA CursorRowHolds ==
    ASSUME NEW s, Sound(s)
    PROVE  CursorRow(s) \in Nodes \union {Root}
<1>1. s.cursor \in Nodes \union {Root}
  BY DEF Sound, Explorer
<1> DEFINE rows == {n \in Nodes : IsRow(s, n)}
           path == Append(Ancestors[s.cursor], s.cursor)
<1>2. path \in Seq(Nodes \union {Root})
  BY <1>1, PathHolds
<1> HIDE DEF path, rows
<1>3. PICK near \in Seq(Nodes \union {Root}) : near = Retain(path, rows)
  BY <1>2, RetainHolds
<1>4. InOrder \in Seq(Nodes)
  BY ExplorerAssumption
<1>5. PICK painted \in Seq(Nodes) : painted = Retain(InOrder, rows)
  BY <1>4, RetainHolds
<1>6. near # <<>> => Last(near) \in Nodes \union {Root}
  <2>1. near # <<>> => Len(near) \in 1..Len(near)
    BY EmptySeq, LenProperties
  <2>2. \A i \in 1..Len(near) : near[i] \in Nodes \union {Root}
    BY ElementOfSeq
  <2> QED BY <2>1, <2>2 DEF Last
<1>7. painted # <<>> => Head(painted) \in Nodes
  BY HeadTailProperties
<1>8. CursorRow(s) = IF near # <<>> THEN Last(near) ELSE IF painted # <<>> THEN Head(painted) ELSE Root
  BY <1>3, <1>5 DEF CursorRow, Painted, path, rows
<1> QED BY <1>6, <1>7, <1>8

\* A tab opened anew waits for nothing.
LEMMA NewFits ==
    ASSUME NEW s, NEW DW \in SUBSET Work(DirJob), NEW FW \in SUBSET Work(FileJob), Fits(s, DW, FW)
    PROVE  LET t == NewExplorer(s.id + 1, s.snapshot, s.dirJobs, s.fileJobs)
           IN  Fits(t, DW, FW) /\ t.open
<1> DEFINE t == NewExplorer(s.id + 1, s.snapshot, s.dirJobs, s.fileJobs)
<1>1. /\ s.id \in Nat /\ s.snapshot \in Nat /\ s.snapshot \in 1..version
      /\ s.dirJobs \in Seq(DirJob) /\ s.fileJobs \in Seq(FileJob)
  BY DEF Fits, Sound, Explorer
<1>2. PICK id \in Nat : id = s.id + 1 /\ s.id < id
  BY <1>1
<1>3. <<>> \in Seq(Inner) /\ Len(<<>>) = 0
  BY EmptySeq
<1>4. Root \in Dirs
  BY ExplorerAssumption
<1>5. /\ t \in Explorer /\ t.id = id /\ t.open /\ t.active /\ t.expanded = {Root} /\ t.asked = {}
      /\ t.newest = [d \in Dirs |-> NoReq] /\ t.relisted = {} /\ t.files = <<>> /\ t.file = 0
      /\ t.snapshot = s.snapshot /\ t.dirJobs = s.dirJobs /\ t.fileJobs = s.fileJobs
  BY <1>1, <1>2, <1>3, <1>4 DEF NewExplorer, Explorer, NoReq, NoCursor
<1> HIDE DEF t
<1>6. Sound(t)
  BY <1>1, <1>5 DEF Sound
<1>7. DirWork(t, DW) = DirWork(s, DW) /\ FileWork(t, FW) = FileWork(s, FW)
  BY <1>5 DEF DirWork, FileWork
<1>8. \A w \in DirWork(t, DW) : w.of.id \in Nat
  <2>1. \A j \in ToSet(s.dirJobs) : j \in DirJob
    BY <1>1, Places
  <2>2. \A w \in DirWork(t, DW) : w.of \in DirJob
    BY <1>7, <2>1 DEF DirWork, Queued, Work
  <2> QED BY <2>2 DEF DirJob
<1>9. \A w \in FileWork(t, FW) : w.of.id \in Nat
  <2>1. \A j \in ToSet(s.fileJobs) : j \in FileJob
    BY <1>1, Places
  <2>2. \A w \in FileWork(t, FW) : w.of \in FileJob
    BY <1>7, <2>1 DEF FileWork, Queued, Work
  <2> QED BY <2>2 DEF FileJob
<1>10. TreeFits(t, DW, {})
  <2>1. ASSUME NEW w \in DirWork(t, DW) PROVE w.of.id <= t.id /\ w.of.id # t.id
    <3>1. w.of.id <= s.id
      BY <1>7, <2>1 DEF Fits, TreeFits
    <3> QED BY <1>1, <1>2, <1>5, <1>8, <2>1, <3>1
  <2>2. Waiting(t, DW, {})
    BY <1>5 DEF Waiting
  <2> QED BY <1>5, <2>1, <2>2 DEF TreeFits
<1>11. FilesFit(t, FW)
  <2>1. ASSUME NEW w \in FileWork(t, FW) PROVE w.of.id <= t.id /\ w.of.id # t.id
    <3>1. w.of.id <= s.id
      BY <1>7, <2>1 DEF Fits, FilesFit
    <3> QED BY <1>1, <1>2, <1>5, <1>9, <2>1, <3>1
  <2>2. DOMAIN t.files = {}
    BY <1>5
  <2>3. Apart(t.files)
    BY <2>2 DEF Apart
  <2>4. t.file \in 0..Len(t.files)
    BY <1>3, <1>5
  <2> QED BY <1>5, <2>1, <2>2, <2>3, <2>4 DEF FilesFit
<1> QED BY <1>5, <1>6, <1>10, <1>11 DEF Fits, t

LEMMA OpenAndRevealFits ==
    ASSUME NEW s, NEW DW \in SUBSET Work(DirJob), NEW FW \in SUBSET Work(FileJob),
           version \in DOMAIN Disk, Fits(s, DW, FW), NEW target \in Nodes \union {Root}
    PROVE  Fits(OpenAndReveal(s, target), DW, FW) /\ OpenAndReveal(s, target).open
<1>1. PICK t : t = IF s.open THEN [s EXCEPT !.active = TRUE]
                   ELSE NewExplorer(s.id + 1, s.snapshot, s.dirJobs, s.fileJobs)
  OBVIOUS
<1>2. Fits(t, DW, FW) /\ t.open
  <2>1. CASE s.open
    <3>1. t = [s EXCEPT !.active = TRUE]
      BY <1>1, <2>1
    <3>2. t \in Explorer /\ Alters(s, t, {"active"})
      BY <3>1 DEF Fits, Sound, Explorer, Alters, ExFields
    <3>3. Sound(t) /\ Alters(s, t, {"active", "overlay", "expanded", "cursor"})
      BY <2>1, <3>2 DEF Fits, Sound, Alters, ExFields
    <3> QED BY <2>1, <3>3, OtherStepFits
  <2>2. CASE ~s.open
    BY <1>1, <2>2, NewFits
  <2> QED BY <2>1, <2>2
<1>3. PICK top \in Seq(Dirs) : top = <<Root>>
  BY SingletonHolds, ExplorerAssumption
<1>4. PICK root \in Seq(Dirs) : root = Missing(t, top)
  BY MissingHolds
<1>5. PICK u : u = Expand(t, top)
  OBVIOUS
<1>6. Sound(t) /\ TreeFits(t, DW, {})
  BY <1>2 DEF Fits
<1>7. Sound(u) /\ Alters(t, u, {"expanded", "asked"}) /\ u.asked = t.asked \union ToSet(root)
  BY <1>4, <1>5, <1>6, ExpandHolds
<1>8. TreeFits(u, DW, ToSet(root))
  <2>1. Alters(t, u, ExFields \ TreeFields) /\ u.asked \subseteq t.asked \union ToSet(root)
    BY <1>7 DEF Alters, ExFields, TreeFields
  <2>2. TreeFits(u, DW, {} \union ToSet(root))
    BY <1>6, <2>1, TreeKept
  <2>3. {} \union ToSet(root) = ToSet(root)
    OBVIOUS
  <2> QED BY <2>2, <2>3, Zenon
<1>9. PICK gone \in Seq(Dirs) : gone = Missing(u, PathTo(target))
  BY PathHolds, MissingHolds
<1>10. PICK dirs \in Seq(Dirs) : dirs = root \o gone /\ ToSet(dirs) = ToSet(root) \union ToSet(gone)
  BY ConcatHolds
<1>11. PICK rest \in Seq(Dirs) : rest = Retain(StaleOn(u, target), Dirs \ ToSet(dirs))
  BY StaleHolds, RetainHolds
<1>12. PICK all \in Seq(Dirs) : all = dirs \o rest /\ ToSet(dirs) \subseteq ToSet(all)
  BY ConcatHolds
<1>13. OpenAndReveal(s, target) = LoadDirs(Reveal(u, target), all)
  BY <1>1, <1>3, <1>4, <1>5, <1>9, <1>10, <1>11, <1>12 DEF OpenAndReveal
<1>14. TreeStep(u, LoadDirs(Reveal(u, target), all), DW)
  BY <1>7, <1>8, <1>9, <1>10, <1>12, RevealAskFits
<1>15. TreeStep(t, LoadDirs(Reveal(u, target), all), DW)
  BY <1>7, <1>14 DEF TreeStep, Alters, TreeMoves
<1> QED BY <1>2, <1>13, <1>15, TreeStepFits

LEMMA CollapseFits ==
    ASSUME NEW s, NEW DW, NEW FW, Fits(s, DW, FW), NEW d \in Dirs \ {Root}
    PROVE  Fits(Collapse(s, d), DW, FW)
<1>1. PICK open \in SUBSET Dirs : open = s.expanded \ {d} /\ Root \in open
  <2>1. s.expanded \in SUBSET Dirs /\ Root \in s.expanded
    BY DEF Fits, Sound, Explorer
  <2>2. s.expanded \ {d} \in SUBSET Dirs /\ Root \in s.expanded \ {d}
    BY <2>1
  <2> QED BY <2>2
<1>2. PICK c \in Nodes \union {Root} : c = IF d \in ToSet(Ancestors[s.cursor]) THEN d ELSE s.cursor
  BY NodesHold DEF Fits, Sound, Explorer
<1>3. PICK t : t = [s EXCEPT !.expanded = open, !.cursor = c]
  OBVIOUS
<1>4. Collapse(s, d) = t
  BY <1>1, <1>2, <1>3 DEF Collapse
<1>5. t \in Explorer /\ t.expanded = open /\ Alters(s, t, {"expanded", "cursor"})
  BY <1>3 DEF Fits, Sound, Explorer, Alters, ExFields
<1>6. Sound(t) /\ Alters(s, t, {"active", "overlay", "expanded", "cursor"})
  BY <1>1, <1>5 DEF Fits, Sound, Alters, ExFields
<1> QED BY <1>4, <1>6, OtherStepFits

\* The cursor moves.
LEMMA CursorFits ==
    ASSUME NEW s, NEW DW, NEW FW, Fits(s, DW, FW), NEW n \in Nodes \union {Root}
    PROVE  LET t == [s EXCEPT !.cursor = n]
           IN  Fits(t, DW, FW) /\ t.open = s.open /\ t.expanded = s.expanded
<1>1. PICK t : t = [s EXCEPT !.cursor = n]
  OBVIOUS
<1>2. t \in Explorer /\ Alters(s, t, {"cursor"})
  BY <1>1 DEF Fits, Sound, Explorer, Alters, ExFields
<1>3. Sound(t) /\ Alters(s, t, {"active", "overlay", "expanded", "cursor"}) /\ t.expanded = s.expanded
  BY <1>2 DEF Fits, Sound, Alters, ExFields
<1> QED BY <1>1, <1>3, OtherStepFits

\* The tab is refreshed: the listings in sight, and the file.
LEMMA RefreshFits ==
    ASSUME NEW s, NEW DW \in SUBSET Work(DirJob), NEW FW \in SUBSET Work(FileJob),
           version \in DOMAIN Disk, Fits(s, DW, FW), s.open, NEW keep \in SUBSET Dirs, NEW dirs,
           dirs = Retain(<<Root>> \o InOrder, {d \in keep : InSight(s, d)})
    PROVE  LET t == LoadDirs([s EXCEPT !.listed = keep], dirs)
           IN  /\ Fits(t, DW, FW)
               /\ t.file # 0 =>
                    Fits(LoadFile(WithAgain(t, Loading(t, Shown(t).of, Shown(t).pinned, t.gen + 1)),
                                  Shown(t).of, t.gen + 1), DW, FW)
<1>1. PICK u : u = [s EXCEPT !.listed = keep]
  OBVIOUS
<1>2. u \in Explorer /\ Alters(s, u, {"listed"})
  BY <1>1 DEF Fits, Sound, Explorer, Alters, ExFields
<1>3. Sound(u) /\ u.open = s.open /\ u.asked = s.asked
  BY <1>2 DEF Fits, Sound, Alters, ExFields
<1>4. Fits(u, DW, FW)
  <2>1. Alters(s, u, ExFields \ TreeFields) /\ Alters(s, u, ExFields \ FileFields)
    BY <1>2 DEF Alters, ExFields, TreeFields, FileFields
  <2> QED BY <1>3, <2>1, TreeSame, FilesSame DEF Fits
<1>5. dirs \in Seq(Dirs)
  <2>1. PICK p \in Seq(Nodes \union {Root}) : p = <<Root>> \o InOrder
    <3>1. InOrder \in Seq(Nodes \union {Root}) /\ Root \in Nodes \union {Root}
      <4>1. InOrder \in Seq(Nodes)
        BY ExplorerAssumption
      <4> QED BY <4>1, SeqMonotonic
    <3> QED BY <3>1, FrontHolds
  <2>2. PICK S \in SUBSET Dirs : S = {d \in keep : InSight(s, d)}
    OBVIOUS
  <2>3. dirs = Retain(p, S)
    BY <2>1, <2>2, Zenon
  <2>4. dirs \in Seq(Nodes \union {Root}) /\ ToSet(dirs) = ToSet(p) \intersect S
    <3>1. Retain(p, S) \in Seq(Nodes \union {Root}) /\ ToSet(Retain(p, S)) = ToSet(p) \intersect S
      BY RetainHolds
    <3> QED BY <2>3, <3>1, Zenon
  <2>5. ToSet(dirs) \subseteq Dirs
    BY <2>2, <2>4
  <2> QED BY <2>4, <2>5, Narrow
<1>6. PICK t : t = LoadDirs(u, dirs)
  OBVIOUS
<1>7. TreeStep(u, t, DW)
  <2>1. TreeFits(t, DW, {})
    BY <1>3, <1>4, <1>5, <1>6, AskFits DEF Fits
  <2>2. Sound(t) /\ Alters(u, t, {"req", "newest", "dirJobs"})
    BY <1>3, <1>5, <1>6, LoadDirsShape
  <2> QED BY <2>1, <2>2 DEF TreeStep, Alters, TreeMoves
<1>8. Fits(t, DW, FW) /\ t.open
  BY <1>3, <1>4, <1>7, TreeStepFits
<1>9. ASSUME t.file # 0
      PROVE  Fits(LoadFile(WithAgain(t, Loading(t, Shown(t).of, Shown(t).pinned, t.gen + 1)),
                           Shown(t).of, t.gen + 1), DW, FW)
  <2>1. Shown(t) \in Inner
    BY <1>8, <1>9, TabsHold DEF Fits
  <2>2. PICK f \in Files : f = Shown(t).of
    BY <2>1 DEF Inner
  <2>3. PICK pin \in BOOLEAN : pin = Shown(t).pinned
    BY <2>1 DEF Inner
  <2>4. PICK g \in Nat : g = t.gen + 1
    BY <1>8 DEF Fits, Sound, Explorer
  <2>5. PICK x \in Inner : /\ x = Loading(t, f, pin, g) /\ x.of = f /\ x.gen = g /\ x.pinned = pin
                           /\ x.kind = KindOf(t, f) /\ x.stamp = FileStamp(t, f)
    BY <1>8, LoadingHolds DEF Fits
  <2>6. FileStep(t, LoadFile(WithAgain(t, x), f, t.gen + 1), FW)
    BY <1>8, <1>9, <2>2, <2>3, <2>4, <2>5, RenewFits DEF Fits
  <2>7. Fits(LoadFile(WithAgain(t, x), f, t.gen + 1), DW, FW)
    BY <1>8, <2>6, FileStepFits
  <2> QED BY <2>2, <2>3, <2>4, <2>5, <2>7
<1> QED BY <1>1, <1>6, <1>8, <1>9

\* A newer snapshot.
LEMMA SnapshotFits ==
    ASSUME NEW s, NEW DW, NEW FW, version \in Nat, Fits(s, DW, FW), NEW v \in s.snapshot..version
    PROVE  LET t == [s EXCEPT !.snapshot = v]
           IN  Fits(t, DW, FW) /\ t.open = s.open
<1>1. PICK t : t = [s EXCEPT !.snapshot = v]
  OBVIOUS
<1>2. v \in Nat /\ s.snapshot \in Nat /\ v \in 1..version /\ 1..s.snapshot \subseteq 1..v
  BY DEF Fits, Sound, Explorer
<1>3. t \in Explorer /\ t.snapshot = v /\ Alters(s, t, {"snapshot"})
  BY <1>1, <1>2 DEF Fits, Sound, Explorer, Alters, ExFields
<1>4. Sound(t)
  BY <1>2, <1>3 DEF Fits, Sound, Alters, ExFields
<1>5. FilesFit(t, FW)
  <2>1. Alters(s, t, ExFields \ FileFields)
    BY <1>3 DEF Alters, ExFields, FileFields
  <2> QED BY <2>1, FilesSame DEF Fits
<1>6. /\ t.id = s.id /\ t.open = s.open /\ t.names = s.names /\ t.newest = s.newest /\ t.req = s.req
      /\ t.relisted = s.relisted /\ t.unread = s.unread /\ t.dirJobs = s.dirJobs /\ t.asked = s.asked
  BY <1>3 DEF Alters, ExFields
<1>7. DirWork(t, DW) = DirWork(s, DW) /\ \A w, d : DueDir(t, w, d) = DueDir(s, w, d)
  BY <1>6 DEF DirWork, DueDir
<1>8. \A d, u : ListedSince(t, DW, d, u) = ListedSince(s, DW, d, u)
  BY <1>6, <1>7 DEF ListedSince
<1>9. \A f : MarkFresh(s, DW, f) => MarkFresh(t, DW, f)
  BY <1>2, <1>3, <1>8 DEF MarkFresh
<1>10. Waiting(s, DW, {}) => Waiting(t, DW, {})
  BY <1>6, <1>7 DEF Waiting
<1>11. TreeFits(t, DW, {})
  BY <1>6, <1>7, <1>9, <1>10 DEF Fits, TreeFits
<1> QED BY <1>1, <1>4, <1>5, <1>6, <1>11 DEF Fits

-----------------------------------------------------------------------------
(* The re-list of a status *)

Relist == [dirs : Seq(Dirs), marked : SUBSET Files]

\* No open folder on the way to f lacks a node on the way.
InPlace(s, f) ==
    \A n \in Steps(f) :
       Parent[n] \in s.listed /\ InSight(s, Parent[n]) /\ s.newest[Parent[n]] = NoReq
          => n \in s.names[Parent[n]]

LEMMA AskForHolds ==
    ASSUME NEW s, NEW t \in Relist, NEW f \in Files
    PROVE  LET u == AskFor(s, t, f)
           IN  /\ u \in Relist /\ ToSet(t.dirs) \subseteq ToSet(u.dirs)
               /\ t.marked \subseteq u.marked /\ u.marked \subseteq t.marked \union {f}
               /\ f \in u.marked \ t.marked => \E n \in Steps(f) : Parent[n] \in ToSet(u.dirs)
               /\ u.dirs = <<>> => t.dirs = <<>> /\ (f \in t.marked \/ InPlace(s, f))
<1>1. t.dirs \in Seq(Dirs) /\ t.marked \in SUBSET Files
  BY DEF Relist
<1>2. PICK stale \in Seq(Dirs) :
         /\ stale = StaleOn(s, f)
         /\ ToSet(stale) = {Parent[m] : m \in {k \in ToSet(Ancestors[f]) \union {f} : Lacks(s, k)}}
  BY NodesHold, StaleHolds
<1>3. PICK S : S = {d \in Dirs : InSight(s, d) /\ s.newest[d] = NoReq /\ d \notin ToSet(t.dirs)}
  OBVIOUS
<1>4. PICK dirs \in Seq(Dirs) : dirs = Retain(stale, S) /\ ToSet(dirs) = ToSet(stale) \intersect S
  BY RetainHolds
<1>5. AskFor(s, t, f) = IF f \in t.marked \/ dirs = <<>> THEN t
                        ELSE [dirs |-> t.dirs \o dirs, marked |-> t.marked \union {f}]
  BY <1>2, <1>3, <1>4 DEF AskFor
<1>6. \A n \in Steps(f) : Lacks(s, n) => Parent[n] \in ToSet(stale)
  BY <1>2, StepsAreNodes
<1>7. \A d \in ToSet(stale) : \E n \in Steps(f) : d = Parent[n]
  BY <1>2, StepsAreNodes, NodesHold DEF Lacks
<1>8. ToSet(<<>>) = {}
  BY EmptyIsListed
<1>9. CASE f \in t.marked \/ dirs = <<>>
  <2>1. AskFor(s, t, f) = t
    BY <1>5, <1>9
  <2>2. ASSUME t.dirs = <<>>, dirs = <<>> PROVE InPlace(s, f)
    <3>1. ASSUME NEW n \in Steps(f), Parent[n] \in s.listed, InSight(s, Parent[n]),
                 s.newest[Parent[n]] = NoReq, n \notin s.names[Parent[n]]
          PROVE  FALSE
      <4>1. n \in Nodes /\ Parent[n] \in Dirs
        BY StepsAreNodes, NodesHold
      <4>2. Parent[n] \in ToSet(stale)
        BY <1>6, <3>1, <4>1 DEF Lacks
      <4>3. Parent[n] \in S
        BY <1>3, <1>8, <2>2, <3>1, <4>1
      <4> QED BY <1>4, <1>8, <2>2, <4>2, <4>3
    <3> QED BY <3>1 DEF InPlace
  <2> QED BY <1>9, <2>1, <2>2
<1>10. CASE ~(f \in t.marked \/ dirs = <<>>)
  <2>1. AskFor(s, t, f) = [dirs |-> t.dirs \o dirs, marked |-> t.marked \union {f}]
    BY <1>5, <1>10
  <2>2. PICK all \in Seq(Dirs) : all = t.dirs \o dirs /\ ToSet(all) = ToSet(t.dirs) \union ToSet(dirs)
    BY <1>1, ConcatHolds
  <2>3. PICK marked \in SUBSET Files : marked = t.marked \union {f}
    BY <1>1
  <2>4. PICK u : u = [dirs |-> all, marked |-> marked]
    OBVIOUS
  <2>5. u \in Relist /\ u.dirs = all /\ u.marked = marked
    BY <2>4 DEF Relist
  <2>6. AskFor(s, t, f) = u
    BY <2>1, <2>2, <2>3, <2>4
  <2>7. ToSet(dirs) # {}
    <3>1. Len(dirs) \in Nat /\ Len(dirs) # 0
      BY <1>10, EmptySeq, LenProperties
    <3>2. 1 \in 1..Len(dirs)
      BY <3>1
    <3> QED BY <3>2, Places
  <2>8. PICK d \in ToSet(dirs) : \E n \in Steps(f) : d = Parent[n]
    BY <1>4, <1>7, <2>7
  <2>9. all # <<>>
    BY <1>8, <2>2, <2>7
  <2> QED BY <2>2, <2>3, <2>5, <2>6, <2>8, <2>9
<1> QED BY <1>9, <1>10

\* What has come of the first k reported paths.
Sifted(s, kept, t, reported, k) ==
    /\ t \in Relist /\ kept \subseteq t.marked
    /\ \A f \in t.marked \ kept :
          /\ f \in ToSet(reported)
          /\ \E n \in Steps(f) : Parent[n] \in ToSet(t.dirs)
    /\ t.dirs = <<>> => \A i \in 1..k : reported[i] \in t.marked \/ InPlace(s, reported[i])

\* One path more.
LEMMA SiftOne ==
    ASSUME NEW s, NEW kept, NEW t, NEW reported \in Seq(Files), NEW k \in 1..Len(reported),
           Sifted(s, kept, t, reported, k - 1)
    PROVE  Sifted(s, kept, AskFor(s, t, reported[k]), reported, k)
<1>1. PICK f \in Files : f = reported[k] /\ f \in ToSet(reported)
  BY Places
<1>2. PICK u : u = AskFor(s, t, f)
  OBVIOUS
<1>3. /\ u \in Relist /\ ToSet(t.dirs) \subseteq ToSet(u.dirs)
      /\ t.marked \subseteq u.marked /\ u.marked \subseteq t.marked \union {f}
      /\ f \in u.marked \ t.marked => \E n \in Steps(f) : Parent[n] \in ToSet(u.dirs)
      /\ u.dirs = <<>> => t.dirs = <<>> /\ (f \in t.marked \/ InPlace(s, f))
  BY <1>2, AskForHolds DEF Sifted
<1>4. ASSUME NEW g \in u.marked \ kept
      PROVE  g \in ToSet(reported) /\ \E n \in Steps(g) : Parent[n] \in ToSet(u.dirs)
  <2>1. CASE g \in t.marked
    <3>1. g \in ToSet(reported) /\ \E n \in Steps(g) : Parent[n] \in ToSet(t.dirs)
      BY <1>4, <2>1 DEF Sifted
    <3> QED BY <1>3, <3>1
  <2>2. CASE g \notin t.marked
    <3>1. g = f
      BY <1>3, <1>4, <2>2
    <3> QED BY <1>1, <1>3, <1>4, <2>2, <3>1
  <2> QED BY <2>1, <2>2
<1>5. ASSUME u.dirs = <<>>, NEW i \in 1..k PROVE reported[i] \in u.marked \/ InPlace(s, reported[i])
  <2>1. CASE i = k
    BY <1>1, <1>3, <1>5, <2>1
  <2>2. CASE i # k
    <3>1. k \in Nat /\ i \in 1..(k - 1)
      BY <2>2, LenProperties
    <3>2. reported[i] \in t.marked \/ InPlace(s, reported[i])
      BY <1>3, <1>5, <3>1 DEF Sifted
    <3> QED BY <1>3, <3>2
  <2> QED BY <2>1, <2>2
<1>6. kept \subseteq u.marked
  BY <1>3 DEF Sifted
<1> QED BY <1>1, <1>2, <1>3, <1>4, <1>5, <1>6 DEF Sifted

AskForAll(s, kept, reported) ==
    FoldLeft(LAMBDA t, f : AskFor(s, t, f), [dirs |-> <<>>, marked |-> kept], reported)

LEMMA RelistHolds ==
    ASSUME NEW s, NEW kept \in SUBSET Files, NEW reported \in Seq(Files)
    PROVE  Sifted(s, kept, AskForAll(s, kept, reported), reported, Len(reported))
<1> DEFINE N == Len(reported)
           base == [dirs |-> <<>>, marked |-> kept]
           Is(it) == it = [S \in SUBSET (1..N) |->
                             IF S = {} THEN base ELSE AskFor(s, it[S \ {Max(S)}], reported[Max(S)])]
<1>1. N \in Nat /\ DOMAIN reported = 1..N /\ \A i \in 1..N : reported[i] \in Files
  BY Places
<1>2. base \in Relist /\ Sifted(s, kept, base, reported, 0)
  <2>1. <<>> \in Seq(Dirs)
    BY EmptySeq
  <2>2. base \in Relist /\ base.marked = kept
    BY <2>1 DEF Relist
  <2> QED BY <2>2 DEF Sifted
<1> HIDE DEF base
<1>3. PICK g : g = [x \in Relist \X (1..N) |-> AskFor(s, x[1], reported[x[2]])]
  OBVIOUS
<1>4. g \in [Relist \X (1..N) -> Relist]
  <2>1. ASSUME NEW x \in Relist \X (1..N) PROVE AskFor(s, x[1], reported[x[2]]) \in Relist
    <3>1. PICK t \in Relist : t = x[1]
      OBVIOUS
    <3>2. PICK f \in Files : f = reported[x[2]]
      BY <1>1
    <3>3. AskFor(s, t, f) \in Relist
      BY AskForHolds
    <3> QED BY <3>1, <3>2, <3>3, Zenon
  <2> QED BY <1>3, <2>1
<1>5. PICK it \in [SUBSET (1..N) -> Relist] : FoldsLeft(it, N, base, g)
  BY <1>1, <1>2, <1>4, FoldLeftDefined
<1>6. Is(it)
  <2>1. ASSUME NEW S \in SUBSET (1..N), S # {}
        PROVE  it[S] = AskFor(s, it[S \ {Max(S)}], reported[Max(S)])
    <3>1. S \in SUBSET (0..N)
      BY <1>1
    <3>2. PICK k : k = Max(S) /\ k \in S
      BY <1>1, <2>1, <3>1, MaxIsGreatest
    <3>3. it[S] = g[<<it[S \ {k}], k>>]
      BY <1>5, <2>1, <3>2 DEF FoldsLeft
    <3>4. it[S \ {k}] \in Relist /\ k \in 1..N
      BY <1>5, <3>2
    <3>5. g[<<it[S \ {k}], k>>] = AskFor(s, it[S \ {k}], reported[k])
      BY <1>3, <3>4
    <3> QED BY <3>2, <3>3, <3>5
  <2>2. it[{}] = base
    BY <1>5 DEF FoldsLeft
  <2>3. \A S \in SUBSET (1..N) :
           it[S] = IF S = {} THEN base ELSE AskFor(s, it[S \ {Max(S)}], reported[Max(S)])
    BY <2>1, <2>2
  <2> QED BY <1>5, <2>3
<1>7. PICK h : h = CHOOSE f : Is(f)
  OBVIOUS
<1>8. Is(h)
  <2> HIDE DEF Is
  <2> QED BY <1>6, <1>7
<1>9. AskForAll(s, kept, reported) = h[1..N]
  BY <1>1, <1>7 DEF AskForAll, FoldLeft, MapThenFoldSet, base
<1>10. h[1..0] = base
  <2>1. 1..0 = {} /\ {} \in SUBSET (1..N)
    OBVIOUS
  <2> QED BY <1>8, <2>1
<1>11. ASSUME NEW k \in 1..N PROVE h[1..k] = AskFor(s, h[1..(k - 1)], reported[k])
  <2>1. 1..k \in SUBSET (1..N) /\ 1..k # {} /\ k \in 1..k /\ 1..k \in SUBSET (0..N)
    <3>1. PICK n \in Nat : n = N
      BY <1>1
    <3>2. k \in 1..n /\ \A j \in 1..k : j \in 1..n
      BY <3>1
    <3> HIDE DEF N
    <3> QED BY <3>1, <3>2
  <2>2. Max(1..k) = k
    <3>1. Max(1..k) \in 1..k /\ \A i \in 1..k : i <= Max(1..k)
      BY <1>1, <2>1, MaxIsGreatest
    <3> QED BY <1>1, <2>1, <3>1
  <2>3. (1..k) \ {k} = 1..(k - 1)
    BY <1>1
  <2> QED BY <1>8, <2>1, <2>2, <2>3
<1> HIDE DEF Is
<1> DEFINE bad == {k \in 0..N : ~Sifted(s, kept, h[1..k], reported, k)}
<1>12. ASSUME bad # {} PROVE FALSE
  <2>1. bad \in SUBSET Nat
    BY <1>1
  <2>2. PICK m \in bad : \A k \in bad : m <= k
    <3> HIDE DEF bad
    <3> QED BY <1>12, <2>1, LeastNatural
  <2>3. m \in 0..N /\ m # 0
    BY <1>2, <1>10
  <2>4. m \in 1..N /\ m - 1 \in 0..N /\ ~(m <= m - 1)
    BY <1>1, <2>3
  <2>5. m - 1 \notin bad
    <3> HIDE DEF bad
    <3> QED BY <2>2, <2>4
  <2>6. Sifted(s, kept, h[1..(m - 1)], reported, m - 1)
    BY <2>4, <2>5
  <2>7. Sifted(s, kept, h[1..m], reported, m)
    BY <1>11, <2>4, <2>6, SiftOne
  <2> QED BY <2>2, <2>7
<1>13. N \in 0..N /\ N \notin bad
  BY <1>1, <1>12
<1>14. Sifted(s, kept, h[1..N], reported, N)
  BY <1>13
<1> QED BY <1>9, <1>14

\* The paths that the snapshot reports, in some order.
Reported(s, order) == Retain(order, {f \in Files : Reports(s.snapshot, f)})
Marks(s, order)    == s.relisted \intersect ToSet(Reported(s, order))
Relisting(s, order) == AskForAll(s, Marks(s, order), Reported(s, order))

LEMMA RelistingHolds ==
    ASSUME NEW s, Sound(s), NEW order \in Seq(Nodes)
    PROVE  /\ Reported(s, order) \in Seq(Files)
           /\ ToSet(Reported(s, order)) = {f \in ToSet(order) : f \in Files /\ Reports(s.snapshot, f)}
           /\ Marks(s, order) \in SUBSET Files
           /\ Sifted(s, Marks(s, order), Relisting(s, order), Reported(s, order), Len(Reported(s, order)))
           /\ StatusRelist(s, order) =
                IF ~s.open THEN s
                ELSE LoadDirs([s EXCEPT !.relisted = Relisting(s, order).marked], Relisting(s, order).dirs)
<1>1. PICK S : S = {f \in Files : Reports(s.snapshot, f)}
  OBVIOUS
<1>2. Retain(order, S) \in Seq(Nodes) /\ ToSet(Retain(order, S)) = ToSet(order) \intersect S
  BY RetainHolds
<1>3. Reported(s, order) = Retain(order, S)
  BY <1>1 DEF Reported
<1>4. /\ Reported(s, order) \in Seq(Files)
      /\ ToSet(Reported(s, order)) = {f \in ToSet(order) : f \in Files /\ Reports(s.snapshot, f)}
  <2>1. ToSet(Retain(order, S)) \subseteq Files
    BY <1>1, <1>2
  <2>2. Retain(order, S) \in Seq(Files)
    BY <1>2, <2>1, Narrow
  <2>3. ToSet(order) \intersect S = {f \in ToSet(order) : f \in Files /\ Reports(s.snapshot, f)}
    BY <1>1
  <2> QED BY <1>2, <1>3, <2>2, <2>3, Zenon
<1>5. Marks(s, order) \in SUBSET Files
  BY <1>4 DEF Marks
<1>6. PICK kept \in SUBSET Files, reported \in Seq(Files) :
         kept = Marks(s, order) /\ reported = Reported(s, order)
  BY <1>4, <1>5
<1>7. Sifted(s, kept, AskForAll(s, kept, reported), reported, Len(reported))
  BY RelistHolds
<1>8. Relisting(s, order) = AskForAll(s, kept, reported)
  BY <1>6, Zenon DEF Relisting
<1>9. Sifted(s, Marks(s, order), Relisting(s, order), Reported(s, order), Len(Reported(s, order)))
  BY <1>6, <1>7, <1>8, Zenon
<1>10. StatusRelist(s, order) =
         IF ~s.open THEN s
         ELSE LoadDirs([s EXCEPT !.relisted = Relisting(s, order).marked], Relisting(s, order).dirs)
  BY Zenon DEF StatusRelist, Relisting, AskForAll, Marks, Reported
<1> QED BY <1>4, <1>5, <1>9, <1>10

\* A path marked now is reported now, and a folder on its way is listed again.
LEMMA StatusRelistFits ==
    ASSUME NEW s, NEW DW \in SUBSET Work(DirJob), NEW FW, version \in DOMAIN Disk, Fits(s, DW, FW),
           NEW order \in Seq(Nodes)
    PROVE  Fits(StatusRelist(s, order), DW, FW)
<1>1. CASE ~s.open
  BY <1>1 DEF StatusRelist
<1>2. CASE s.open
  <2>1. PICK all : all = Relisting(s, order)
    OBVIOUS
  <2>2. /\ Sifted(s, Marks(s, order), all, Reported(s, order), Len(Reported(s, order)))
        /\ ToSet(Reported(s, order)) = {f \in ToSet(order) : f \in Files /\ Reports(s.snapshot, f)}
        /\ StatusRelist(s, order) = LoadDirs([s EXCEPT !.relisted = all.marked], all.dirs)
    BY <1>2, <2>1, RelistingHolds DEF Fits
  <2>3. all.dirs \in Seq(Dirs) /\ all.marked \in SUBSET Files
    BY <2>2 DEF Sifted, Relist
  <2>4. PICK u : u = [s EXCEPT !.relisted = all.marked]
    OBVIOUS
  <2>5. u \in Explorer /\ u.relisted = all.marked /\ Alters(s, u, {"relisted"})
    BY <2>3, <2>4 DEF Fits, Sound, Explorer, Alters, ExFields
  <2>6. /\ u.id = s.id /\ u.open = s.open /\ u.names = s.names /\ u.newest = s.newest /\ u.req = s.req
        /\ u.unread = s.unread /\ u.dirJobs = s.dirJobs /\ u.asked = s.asked /\ u.snapshot = s.snapshot
    BY <2>5 DEF Alters, ExFields
  <2>7. Sound(u)
    BY <2>5, <2>6 DEF Fits, Sound, Alters, ExFields
  <2>8. DirWork(u, DW) = DirWork(s, DW) /\ \A w, d : DueDir(u, w, d) = DueDir(s, w, d)
    BY <2>6 DEF DirWork, DueDir
  <2>9. \A d, v : ListedSince(u, DW, d, v) = ListedSince(s, DW, d, v)
    BY <2>6, <2>8 DEF ListedSince
  <2>10. Numbered(u, DW) /\ (Waiting(s, DW, {}) => Waiting(u, DW, {}))
    BY <2>6, <2>8 DEF Waiting, Numbered, Fits, TreeFits
  <2>11. PICK t : t = LoadDirs(u, all.dirs)
    OBVIOUS
  <2>12. /\ Sound(t) /\ Alters(u, t, {"req", "newest", "dirJobs"})
         /\ Numbered(t, DW)
         /\ Waiting(u, DW, {}) => Waiting(t, DW, {} \ ToSet(all.dirs))
         /\ \A d \in Dirs, v \in 1..version :
               d \in ToSet(all.dirs) \/ ListedSince(u, DW, d, v) => ListedSince(t, DW, d, v)
    BY <2>3, <2>7, <2>10, <2>11, LoadDirsShape, LoadDirsHolds
  <2>13. t.open = s.open /\ t.unread = s.unread /\ t.relisted = all.marked /\ t.snapshot = s.snapshot
    BY <2>5, <2>6, <2>12 DEF Alters, ExFields
  <2>14. s.snapshot \in 1..version /\ s.snapshot \in 1..s.snapshot /\ 1..s.snapshot \subseteq 1..version
    BY ExplorerAssumption DEF Fits, Sound
  <2>15. ASSUME ~t.unread, NEW f \in t.relisted PROVE MarkFresh(t, DW, f)
    <3>1. f \in Files
      BY <2>3, <2>13
    <3>2. CASE f \in Marks(s, order)
      <4>1. f \in s.relisted
        BY <3>2 DEF Marks
      <4>2. PICK v \in 1..s.snapshot :
               Reports(v, f) /\ \E n \in Steps(f) : ListedSince(s, DW, Parent[n], v)
        BY <1>2, <2>13, <2>15, <4>1 DEF Fits, TreeFits, MarkFresh
      <4>3. PICK n \in Steps(f) : ListedSince(s, DW, Parent[n], v)
        BY <4>2
      <4>4. Parent[n] \in Dirs /\ v \in 1..version
        BY <2>14, <3>1, StepsAreNodes, NodesHold
      <4>5. ListedSince(t, DW, Parent[n], v)
        BY <2>9, <2>12, <4>3, <4>4
      <4> QED BY <2>13, <4>2, <4>5 DEF MarkFresh
    <3>3. CASE f \notin Marks(s, order)
      <4>1. f \in ToSet(Reported(s, order)) /\ \E n \in Steps(f) : Parent[n] \in ToSet(all.dirs)
        BY <2>2, <2>13, <2>15, <3>3 DEF Sifted
      <4>2. Reports(s.snapshot, f)
        BY <2>2, <4>1
      <4>3. PICK n \in Steps(f) : Parent[n] \in ToSet(all.dirs)
        BY <4>1
      <4>4. Parent[n] \in Dirs
        BY <3>1, StepsAreNodes, NodesHold
      <4>5. ListedSince(t, DW, Parent[n], s.snapshot)
        BY <2>12, <2>14, <4>3, <4>4
      <4> QED BY <2>13, <2>14, <4>2, <4>3, <4>5 DEF MarkFresh
    <3> QED BY <3>2, <3>3
  <2>16. Waiting(t, DW, {})
    <3>1. {} \ ToSet(all.dirs) = {}
      OBVIOUS
    <3>2. Waiting(s, DW, {})
      BY <1>2 DEF Fits, TreeFits
    <3>3. Waiting(t, DW, {} \ ToSet(all.dirs))
      BY <2>10, <2>12, <3>2
    <3> QED BY <3>1, <3>3, Zenon
  <2>17. TreeFits(t, DW, {})
    BY <2>12, <2>15, <2>16 DEF TreeFits, Numbered
  <2>18. FilesFit(t, FW)
    <3>1. Alters(s, t, ExFields \ FileFields)
      BY <2>5, <2>12 DEF Alters, ExFields, FileFields
    <3> QED BY <3>1, FilesSame DEF Fits
  <2> QED BY <2>2, <2>4, <2>11, <2>12, <2>17, <2>18 DEF Fits
<1> QED BY <1>1, <1>2

-----------------------------------------------------------------------------
(* A worker comes back *)

\* Work that no folder waits for is not missed.
LEMMA DropDirFits ==
    ASSUME NEW s, NEW less, NEW w, TreeFits(s, less \union {w}, {}),
           s.open => \A d \in Dirs : ~DueDir(s, w, d)
    PROVE  TreeFits(s, less, {})
<1> DEFINE DW == less \union {w}
<1>1. DirWork(s, less) \subseteq DirWork(s, DW) /\ \A k \in DirWork(s, DW) : k = w \/ k \in DirWork(s, less)
  BY DEF DirWork
<1> HIDE DEF DW
<1>2. TreeFits(s, DW, {})
  BY DEF DW
<1>3. Waiting(s, DW, {}) /\ s.open => Waiting(s, less, {})
  BY <1>1 DEF Waiting
<1>4. \A d, u : ListedSince(s, DW, d, u) => ListedSince(s, less, d, u)
  BY <1>1 DEF ListedSince
<1>5. \A f : MarkFresh(s, DW, f) => MarkFresh(s, less, f)
  BY <1>4 DEF MarkFresh
<1> QED BY <1>1, <1>2, <1>3, <1>5 DEF TreeFits

\* The listing that a folder waits for.
Listed1(s, d, names, ok) ==
    [s EXCEPT !.newest[d] = NoReq, !.asked = @ \ {d}, !.listed = @ \union {d}, !.names[d] = names,
              !.unread = @ \/ ~ok]

LEMMA TakeDirFits ==
    ASSUME NEW s, Sound(s), s.open, NEW less \in SUBSET Work(DirJob), NEW w \in Work(DirJob),
           version \in DOMAIN Disk, TreeFits(s, less \union {w}, {}),
           NEW d \in Dirs, DueDir(s, w, d), NEW names \in SUBSET Nodes, NEW ok \in BOOLEAN,
           NEW v \in w.since..version, ok => names = ListDir(v, d)
    PROVE  LET t == Listed1(s, d, names, ok)
           IN  /\ Sound(t) /\ TreeFits(t, less, {}) /\ t.open
               /\ Alters(s, t, {"newest", "asked", "listed", "names", "unread"})
<1> DEFINE DW == less \union {w}
<1>1. /\ s.newest \in [Dirs -> Nat] /\ s.names \in [Dirs -> SUBSET Nodes] /\ s.asked \in SUBSET Dirs
      /\ s.listed \in SUBSET Dirs /\ s.unread \in BOOLEAN /\ s.dirJobs \in Seq(DirJob)
  BY DEF Sound, Explorer
<1>2. PICK newest \in [Dirs -> Nat] : newest = [s.newest EXCEPT ![d] = NoReq]
  BY <1>1 DEF NoReq
<1>3. PICK all \in [Dirs -> SUBSET Nodes] : all = [s.names EXCEPT ![d] = names]
  BY <1>1
<1>4. PICK asked \in SUBSET Dirs, listed \in SUBSET Dirs, unread \in BOOLEAN :
         asked = s.asked \ {d} /\ listed = s.listed \union {d} /\ unread = (s.unread \/ ~ok)
  <2>1. s.asked \ {d} \in SUBSET Dirs /\ s.listed \union {d} \in SUBSET Dirs /\ (s.unread \/ ~ok) \in BOOLEAN
    BY <1>1
  <2> QED BY <2>1
<1>5. PICK t : t = [s EXCEPT !.newest = newest, !.asked = asked, !.listed = listed, !.names = all,
                             !.unread = unread]
  OBVIOUS
<1>6. Listed1(s, d, names, ok) = t
  BY <1>2, <1>3, <1>4, <1>5 DEF Listed1, Sound, Explorer
<1>7. /\ t \in Explorer /\ t.newest = newest /\ t.asked = asked /\ t.names = all /\ t.unread = unread
  BY <1>5 DEF Sound, Explorer
<1>8. Alters(s, t, {"newest", "asked", "listed", "names", "unread"})
  BY <1>5 DEF Sound, Explorer, Alters, ExFields
<1>9. /\ Sound(t) /\ t.open /\ t.id = s.id /\ t.req = s.req /\ t.relisted = s.relisted
      /\ t.snapshot = s.snapshot /\ t.dirJobs = s.dirJobs
  BY <1>7, <1>8 DEF Sound, Alters, ExFields
<1>10. /\ DirWork(t, less) \subseteq DirWork(s, DW) /\ w \in DirWork(s, DW)
       /\ \A k \in DirWork(s, DW) : k = w \/ k \in DirWork(t, less)
  BY <1>9 DEF DirWork
<1>11. \A k \in DirWork(s, DW) : k.of.req # NoReq
  <2>1. \A j \in ToSet(s.dirJobs) : j \in DirJob
    BY <1>1, Places
  <2>2. \A k \in DirWork(s, DW) : k.of \in DirJob
    BY <2>1 DEF DirWork, Queued, Work
  <2> QED BY <2>2 DEF DirJob
<1> HIDE DEF DW
<1>12. TreeFits(s, DW, {})
  BY DEF DW
<1>13. \A e \in Dirs \ {d} : /\ t.newest[e] = s.newest[e] /\ t.names[e] = s.names[e]
                             /\ \A k : DueDir(t, k, e) = DueDir(s, k, e)
  BY <1>1, <1>2, <1>3, <1>7, <1>9 DEF DueDir
<1>14. t.newest[d] = NoReq /\ t.names[d] = names
  BY <1>1, <1>2, <1>3, <1>7
<1>15. w.of = [id |-> s.id, req |-> s.newest[d], dir |-> d]
  BY Zenon DEF DueDir
<1>16. \A k \in DirWork(t, less) : ~DueDir(t, k, d)
  <2>1. ASSUME NEW k \in DirWork(t, less), DueDir(t, k, d) PROVE FALSE
    <3>1. k.of = [id |-> t.id, req |-> t.newest[d], dir |-> d]
      BY <2>1, Zenon DEF DueDir
    <3>2. k.of.req = NoReq
      BY <1>14, <3>1
    <3> QED BY <1>10, <1>11, <3>2
  <2> QED BY <2>1
<1>17. \A e \in Dirs \ {d} : ~DueDir(s, w, e)
  <2>1. ASSUME NEW e \in Dirs \ {d}, DueDir(s, w, e) PROVE FALSE
    <3>1. w.of = [id |-> s.id, req |-> s.newest[e], dir |-> e]
      BY <2>1, Zenon DEF DueDir
    <3>2. w.of.dir = e /\ w.of.dir = d
      BY <1>15, <3>1
    <3> QED BY <3>2
  <2> QED BY <2>1
<1>18. Waiting(t, less, {})
  <2>1. Waiting(s, DW, {})
    BY <1>12 DEF TreeFits
  <2>2. ASSUME NEW e \in t.asked PROVE t.newest[e] # NoReq
    <3>1. e \in Dirs \ {d} /\ e \in s.asked
      BY <1>1, <1>4, <1>7, <2>2
    <3> QED BY <1>13, <2>1, <3>1 DEF Waiting
  <2>3. ASSUME NEW e \in Dirs, t.newest[e] # NoReq PROVE \E k \in DirWork(t, less) : DueDir(t, k, e)
    <3>1. e # d
      BY <1>14, <2>3
    <3>2. PICK k \in DirWork(s, DW) : DueDir(s, k, e)
      BY <1>13, <2>1, <2>3, <3>1 DEF Waiting
    <3>3. k \in DirWork(t, less)
      BY <1>10, <1>17, <3>1, <3>2
    <3> QED BY <1>13, <3>1, <3>2, <3>3
  <2> QED BY <2>2, <2>3 DEF Waiting
<1>19. ASSUME ok, NEW e \in Dirs, NEW u \in 1..version, ListedSince(s, DW, e, u)
       PROVE  ListedSince(t, less, e, u)
  <2>1. CASE e = d
    <3>1. w.since >= u
      BY <1>10, <1>19, <2>1 DEF ListedSince
    <3>2. v \in u..version
      <4>1. w.since \in Nat /\ version \in Nat
        BY ExplorerAssumption DEF Work
      <4> QED BY <3>1, <4>1
    <3> QED BY <1>14, <1>16, <1>19, <2>1, <3>2 DEF ListedSince
  <2>2. CASE e # d
    <3>1. \A k \in DirWork(t, less) : DueDir(t, k, e) => k.since >= u
      BY <1>10, <1>13, <1>19, <2>2 DEF ListedSince
    <3>2. t.newest[e] # NoReq \/ \E n \in u..version : t.names[e] = ListDir(n, e)
      BY <1>13, <1>19, <2>2 DEF ListedSince
    <3> QED BY <3>1, <3>2 DEF ListedSince
  <2> QED BY <2>1, <2>2
<1>20. ASSUME ~t.unread, NEW f \in t.relisted PROVE MarkFresh(t, less, f)
  <2>1. ~s.unread /\ ok /\ f \in s.relisted /\ f \in Files
    BY <1>4, <1>7, <1>9, <1>20 DEF Sound, Explorer
  <2>2. PICK u \in 1..s.snapshot :
           Reports(u, f) /\ \E n \in Steps(f) : ListedSince(s, DW, Parent[n], u)
    BY <1>12, <2>1 DEF TreeFits, MarkFresh
  <2>3. PICK n \in Steps(f) : ListedSince(s, DW, Parent[n], u)
    BY <2>2
  <2>4. Parent[n] \in Dirs
    BY <2>1, StepsAreNodes, NodesHold
  <2>5. u \in 1..version
    BY ExplorerAssumption DEF Sound, Explorer
  <2>6. ListedSince(t, less, Parent[n], u)
    BY <1>19, <2>1, <2>3, <2>4, <2>5
  <2> QED BY <1>9, <2>2, <2>6 DEF MarkFresh
<1>21. \A k \in DirWork(t, less) : k.of.id <= t.id /\ (k.of.id = t.id => k.of.req <= t.req)
  BY <1>9, <1>10, <1>12 DEF TreeFits
<1> QED BY <1>6, <1>8, <1>9, <1>18, <1>20, <1>21 DEF TreeFits

LEMMA ApplyDirFits ==
    ASSUME NEW s, NEW less \in SUBSET Work(DirJob), NEW FW \in SUBSET Work(FileJob),
           NEW w \in Work(DirJob), version \in DOMAIN Disk, Fits(s, less \union {w}, FW),
           NEW ok \in BOOLEAN, NEW v \in w.since..version, NEW names \in SUBSET Nodes,
           ok => names = ListDir(v, w.of.dir)
    PROVE  Fits(ApplyDir(s, w.of, names, ok), less, FW)
<1>1. PICK j \in DirJob : j = w.of
  BY DEF Work
<1>2. PICK d \in Dirs : d = j.dir
  BY DEF DirJob
<1>3. j = [id |-> j.id, req |-> j.req, dir |-> j.dir]
  BY DEF DirJob
<1>4. Sound(s) /\ TreeFits(s, less \union {w}, {}) /\ FilesFit(s, FW)
  BY DEF Fits
<1>5. CASE ~s.open \/ j.id # s.id \/ s.newest[d] # j.req
  <2>1. ApplyDir(s, w.of, names, ok) = s
    BY <1>1, <1>2, <1>5 DEF ApplyDir
  <2>2. ASSUME s.open, NEW e \in Dirs, DueDir(s, w, e) PROVE FALSE
    <3>1. j = [id |-> s.id, req |-> s.newest[e], dir |-> e]
      BY <1>1, <2>2, Zenon DEF DueDir
    <3>2. j.id = s.id /\ j.req = s.newest[e] /\ j.dir = e
      BY <3>1
    <3> QED BY <1>2, <1>5, <2>2, <3>2
  <2>3. TreeFits(s, less, {})
    BY <1>4, <2>2, DropDirFits
  <2> QED BY <1>4, <2>1, <2>3 DEF Fits
<1>6. CASE ~(~s.open \/ j.id # s.id \/ s.newest[d] # j.req)
  <2>1. DueDir(s, w, d)
    BY <1>1, <1>2, <1>3, <1>6 DEF DueDir
  <2>2. PICK t : t = Listed1(s, d, names, ok)
    OBVIOUS
  <2>3. /\ Sound(t) /\ TreeFits(t, less, {}) /\ t.open
        /\ Alters(s, t, {"newest", "asked", "listed", "names", "unread"})
    BY <1>1, <1>2, <1>4, <1>6, <2>1, <2>2, TakeDirFits
  <2>4. FilesFit(t, FW)
    <3>1. Alters(s, t, ExFields \ FileFields)
      BY <2>3 DEF Alters, ExFields, FileFields
    <3> QED BY <1>4, <3>1, FilesSame
  <2>5. Fits(t, less, FW)
    BY <2>3, <2>4 DEF Fits
  <2>6. Fits(SyncPreview(t), less, FW)
    BY <2>3, <2>5, SyncFits
  <2>7. ApplyDir(s, w.of, names, ok) = IF Resolved(s) THEN t ELSE SyncPreview(t)
    BY <1>1, <1>2, <1>6, <2>2 DEF ApplyDir, Listed1
  <2> QED BY <2>5, <2>6, <2>7
<1> QED BY <1>5, <1>6

\* Work that an inner tab does not wait for is not missed.
LEMMA InnerLess ==
    ASSUME NEW s, NEW t, NEW less, NEW w, t.id = s.id, t.fileJobs = s.fileJobs, t.gen = s.gen,
           NEW r, InnerFits(s, less \union {w}, r), ~DueFile(s, w, r)
    PROVE  InnerFits(t, less, r)
<1> DEFINE FW == less \union {w}
<1>1. /\ FileWork(t, less) \subseteq FileWork(s, FW)
      /\ \A k \in FileWork(s, FW) : k = w \/ k \in FileWork(t, less)
  BY DEF FileWork
<1> HIDE DEF FW
<1>2. InnerFits(s, FW, r)
  BY DEF FW
<1>3. \A k : DueFile(t, k, r) = DueFile(s, k, r)
  BY DEF DueFile
<1>4. \A u, v : LoadedSince(s, FW, r, u, v) => LoadedSince(t, less, r, u, v)
  BY <1>1, <1>3 DEF LoadedSince
<1>5. Fresh(t, less, r)
  BY <1>2, <1>4 DEF InnerFits, Fresh
<1> QED BY <1>1, <1>2, <1>3, <1>5 DEF InnerFits

\* The body for an inner tab: a newer one is due, or this is no older than the
\* stamp.
Bodied(r, body, failed) ==
    IF failed /\ r.loaded THEN [r EXCEPT !.missed = TRUE]
    ELSE [r EXCEPT !.loaded = TRUE, !.shown = body, !.missed = (failed \/ body = Nothing)]

LEMMA BodiedShape ==
    ASSUME NEW r \in Inner, NEW body \in Stamps, NEW failed \in BOOLEAN
    PROVE  LET x == Bodied(r, body, failed)
           IN  x \in Inner /\ x.of = r.of /\ x.gen = r.gen /\ x.pinned = r.pinned
<1>1. PICK missed \in BOOLEAN : missed = (failed \/ body = Nothing)
  OBVIOUS
<1>2. Bodied(r, body, failed) = IF failed /\ r.loaded THEN [r EXCEPT !.missed = TRUE]
                                ELSE [r EXCEPT !.loaded = TRUE, !.shown = body, !.missed = missed]
  BY <1>1 DEF Bodied
<1> QED BY <1>2 DEF Inner

LEMMA BodiedFits ==
    ASSUME NEW s, NEW t, NEW less, NEW w \in Work(FileJob), version \in Nat, t.id = s.id,
           t.fileJobs = s.fileJobs, t.gen = s.gen, NEW r \in Inner,
           InnerFits(s, less \union {w}, r), DueFile(s, w, r), NEW body \in Stamps, NEW failed \in BOOLEAN,
           NEW v \in w.since..version,
           body = Nothing \/ body = BodyOf(w.of.kind, v, w.of.file)
    PROVE  LET x == Bodied(r, body, failed)
           IN  x \in Inner /\ InnerFits(t, less, x)
<1> DEFINE FW == less \union {w}
<1>1. FileWork(t, less) \subseteq FileWork(s, FW) /\ w \in FileWork(s, FW)
  BY DEF FileWork
<1> HIDE DEF FW
<1>2. InnerFits(s, FW, r)
  BY DEF FW
<1>3. PICK x : x = Bodied(r, body, failed)
  OBVIOUS
<1>4. CASE failed /\ r.loaded
  <2>1. x = [r EXCEPT !.missed = TRUE]
    BY <1>3, <1>4 DEF Bodied
  <2> QED
    <3>1. /\ x \in Inner /\ x.of = r.of /\ x.kind = r.kind /\ x.gen = r.gen /\ x.pinned = r.pinned
          /\ x.stamp = r.stamp /\ x.missed /\ x.loaded
      BY <1>4, <2>1 DEF Inner
    <3>2. \A k : DueFile(t, k, x) = DueFile(s, k, r)
      BY <3>1 DEF DueFile
    <3>3. \A u, n : Stamped(x, u, n) = Stamped(r, u, n)
      BY <3>1 DEF Stamped
    <3>4. \A u, n : LoadedSince(s, FW, r, u, n) => LoadedSince(t, less, x, u, n)
      BY <1>1, <3>1, <3>2 DEF LoadedSince
    <3>5. Fresh(t, less, x)
      BY <1>2, <3>1, <3>3, <3>4 DEF InnerFits, Fresh
    <3>6. InnerFits(t, less, x)
      BY <1>1, <1>2, <3>1, <3>2, <3>5 DEF InnerFits
    <3> QED BY <1>3, <3>1, <3>6
<1>5. CASE ~(failed /\ r.loaded)
  <2>1. PICK missed \in BOOLEAN : missed = (failed \/ body = Nothing)
    OBVIOUS
  <2>2. x = [r EXCEPT !.loaded = TRUE, !.shown = body, !.missed = missed]
    BY <1>3, <1>5, <2>1 DEF Bodied
  <2>3. /\ x \in Inner /\ x.of = r.of /\ x.kind = r.kind /\ x.gen = r.gen /\ x.pinned = r.pinned
        /\ x.stamp = r.stamp /\ x.missed = missed /\ x.loaded /\ x.shown = body
    BY <2>2 DEF Inner
  <2>4. \A k : DueFile(t, k, x) = DueFile(s, k, r)
    BY <2>3 DEF DueFile
  <2>5. \A u, n : Stamped(x, u, n) = Stamped(r, u, n)
    BY <2>3 DEF Stamped
  <2>6. w.of.kind = r.kind /\ w.of.file = r.of /\ w.since \in Nat
    BY <1>1, <1>2 DEF InnerFits, Work
  <2>7. ASSUME NEW u, NEW n \in 1..version, LoadedSince(s, FW, r, u, n) PROVE LoadedSince(t, less, x, u, n)
    <3>1. w.since >= n
      BY <1>1, <2>7 DEF LoadedSince
    <3>2. v \in n..version
      BY <2>6, <3>1
    <3>3. missed \/ body = BodyOf(r.kind, v, r.of)
      BY <2>1, <2>6
    <3>4. x.missed \/ x.shown = BodyOf(x.kind, v, x.of)
      BY <2>3, <3>3
    <3>5. x.kind = KindFor(Change(u, x.of))
      BY <2>3, <2>7 DEF LoadedSince
    <3>6. \A k \in FileWork(t, less) : DueFile(t, k, x) => k.since >= n
      BY <1>1, <2>4, <2>7 DEF LoadedSince
    <3> QED BY <2>3, <3>2, <3>4, <3>5, <3>6 DEF LoadedSince
  <2>8. Fresh(t, less, x)
    <3>1. PICK n \in 1..version : \E u \in 1..n :
             Stamped(r, u, n) /\ (Token(n, r.of) = 0 \/ LoadedSince(s, FW, r, u, n))
      BY <1>2 DEF InnerFits, Fresh
    <3>2. PICK u \in 1..n : Stamped(r, u, n) /\ (Token(n, r.of) = 0 \/ LoadedSince(s, FW, r, u, n))
      BY <3>1
    <3>3. Stamped(x, u, n) /\ (Token(n, x.of) = 0 \/ LoadedSince(t, less, x, u, n))
      BY <2>3, <2>5, <2>7, <3>2
    <3> QED BY <3>3 DEF Fresh
  <2>9. InnerFits(t, less, x)
    BY <1>1, <1>2, <2>3, <2>4, <2>8 DEF InnerFits
  <2> QED BY <1>3, <2>3, <2>9
<1> QED BY <1>4, <1>5

LEMMA ApplyFileFits ==
    ASSUME NEW s, NEW DW, NEW less \in SUBSET Work(FileJob), NEW w \in Work(FileJob),
           version \in DOMAIN Disk, Fits(s, DW, less \union {w}), NEW body \in Stamps,
           NEW v \in w.since..version, body = Nothing \/ body = BodyOf(w.of.kind, v, w.of.file)
    PROVE  Fits(ApplyFile(s, w.of, body), DW, less)
<1>1. PICK j \in FileJob : j = w.of
  BY DEF Work
<1>2. Sound(s) /\ TreeFits(s, DW, {}) /\ FilesFit(s, less \union {w})
  BY DEF Fits
<1>3. /\ s.files \in Seq(Inner) /\ DOMAIN s.files = 1..Len(s.files) /\ Len(s.files) \in Nat
      /\ \A k \in 1..Len(s.files) : s.files[k] \in Inner
  BY <1>2, TabsHold
<1>4. version \in Nat
  BY ExplorerAssumption
<1>5. CASE ~Awaited(s, j)
  <2>1. ApplyFile(s, w.of, body) = s
    BY <1>1, <1>5 DEF ApplyFile
  <2>2. FilesFit(s, less)
    <3>1. ASSUME s.open, NEW i \in DOMAIN s.files PROVE InnerFits(s, less, s.files[i])
      <4>1. PICK r : r = s.files[i]
        OBVIOUS
      <4>2. ~DueFile(s, w, r)
        BY <1>1, <1>5, <3>1, <4>1 DEF DueFile, Awaited
      <4>3. InnerFits(s, less \union {w}, r)
        BY <1>2, <3>1, <4>1 DEF FilesFit
      <4>4. InnerFits(s, less, r)
        BY <4>2, <4>3, InnerLess
      <4> QED BY <4>1, <4>4
    <3>2. FileWork(s, less) \subseteq FileWork(s, less \union {w})
      BY DEF FileWork
    <3> QED BY <1>2, <3>1, <3>2 DEF FilesFit
  <2> QED BY <1>2, <2>1, <2>2 DEF Fits
<1>6. CASE Awaited(s, j)
  <2>1. s.open /\ j.id = s.id /\ \E k \in DOMAIN s.files : s.files[k].gen = j.gen
    BY <1>6 DEF Awaited
  <2>2. PICK i \in DOMAIN s.files :
           i = (CHOOSE k \in DOMAIN s.files : s.files[k].gen = j.gen) /\ s.files[i].gen = j.gen
    BY <2>1
  <2>3. PICK r \in Inner : r = s.files[i]
    BY <1>3, <2>2
  <2>4. DueFile(s, w, r)
    BY <1>1, <2>1, <2>2, <2>3 DEF DueFile
  <2>5. InnerFits(s, less \union {w}, r)
    BY <1>2, <2>1, <2>3 DEF FilesFit
  <2>6. PICK failed \in BOOLEAN : failed = (body[1] = 0 /\ j.kind = "file")
    OBVIOUS
  <2>7. PICK x : x = Bodied(r, body, failed)
    OBVIOUS
  <2>8. x \in Inner /\ x.of = r.of /\ x.gen = r.gen /\ x.pinned = r.pinned
    BY <2>7, BodiedShape
  <2>9. PICK q \in Seq(Inner) : q = [s.files EXCEPT ![i] = x] /\ Len(q) = Len(s.files)
    <3>1. [s.files EXCEPT ![i] = x] \in Seq(Inner) /\ Len([s.files EXCEPT ![i] = x]) = Len(s.files)
      BY <1>3, <2>8, PutHolds
    <3> QED BY <3>1, Zenon
  <2>10. PICK t : t = [s EXCEPT !.files = q]
    OBVIOUS
  <2>11. ApplyFile(s, w.of, body) = t
    <3>1. ApplyFile(s, w.of, body) =
            [s EXCEPT !.files[i] =
               IF failed /\ @.loaded THEN [@ EXCEPT !.missed = TRUE]
               ELSE [@ EXCEPT !.loaded = TRUE, !.shown = body, !.missed = (failed \/ body = Nothing)]]
      BY <1>1, <1>6, <2>2, <2>6 DEF ApplyFile
    <3>2. [s EXCEPT !.files[i] =
               IF failed /\ @.loaded THEN [@ EXCEPT !.missed = TRUE]
               ELSE [@ EXCEPT !.loaded = TRUE, !.shown = body, !.missed = (failed \/ body = Nothing)]]
            = [s EXCEPT !.files = [s.files EXCEPT ![i] = Bodied(r, body, failed)]]
      BY <2>3 DEF Bodied, Fits, Sound, Explorer
    <3> QED BY <2>7, <2>9, <2>10, <3>1, <3>2
  <2>12. t \in Explorer /\ t.files = q /\ Alters(s, t, {"files"})
    BY <1>2, <2>10 DEF Sound, Explorer, Alters, ExFields
  <2>13. Sound(t) /\ t.gen = s.gen /\ t.id = s.id /\ t.fileJobs = s.fileJobs /\ t.file = s.file
    BY <1>2, <2>12 DEF Sound, Alters, ExFields
  <2>14. InnerFits(t, less, x)
    BY <1>4, <2>4, <2>5, <2>7, <2>13, BodiedFits
  <2>15. ASSUME NEW k \in 1..Len(s.files), k # i PROVE InnerFits(t, less, s.files[k])
    <3>1. PICK p : p = s.files[k]
      OBVIOUS
    <3>2. p.gen # r.gen
      BY <1>2, <1>3, <2>1, <2>2, <2>3, <2>15, <3>1 DEF FilesFit, Apart
    <3>3. ~DueFile(s, w, p)
      BY <2>4, <3>2 DEF DueFile
    <3>4. InnerFits(s, less \union {w}, p)
      BY <1>2, <1>3, <2>1, <3>1 DEF FilesFit
    <3>5. InnerFits(t, less, p)
      BY <2>13, <3>3, <3>4, InnerLess
    <3> QED BY <3>1, <3>5
  <2>16. \A k \in 1..Len(s.files) : k # i => x.pinned \/ s.files[k].pinned
    BY <1>2, <1>3, <2>1, <2>2, <2>3, <2>8 DEF FilesFit, Apart
  <2>17. Alters(s, t, FileMoves)
    BY <2>12 DEF Alters, FileMoves
  <2>18. t.file \in 1..Len(s.files)
    <3>1. s.files # <<>>
      <4>1. Len(<<>>) = 0
        OBVIOUS
      <4> QED BY <1>3, <2>2, <4>1
    <3> QED BY <1>2, <1>3, <2>13, <3>1 DEF FilesFit
  <2>19. less \in SUBSET (less \union {w})
    OBVIOUS
  <2>20. x.of = s.files[i].of /\ x.gen = s.files[i].gen /\ i \in 1..Len(s.files)
    BY <1>3, <2>2, <2>3, <2>8
  <2>21. FilesFit(t, less)
    BY <1>2, <2>8, <2>9, <2>12, <2>13, <2>14, <2>15, <2>16, <2>17, <2>18, <2>19, <2>20, TabFits
  <2>22. TreeFits(t, DW, {})
    <3>1. Alters(s, t, ExFields \ TreeFields) /\ t.asked = s.asked
      BY <2>12 DEF Alters, ExFields, TreeFields
    <3> QED BY <1>2, <3>1, TreeSame
  <2> QED BY <2>11, <2>13, <2>21, <2>22 DEF Fits
<1> QED BY <1>5, <1>6

-----------------------------------------------------------------------------
(* Time and workers *)

\* What fits depends on the version alone.
LEMMA NowFits ==
    ASSUME version' = version, NEW s, NEW DW, NEW FW
    PROVE  Fits(s, DW, FW)' = Fits(s, DW, FW)
<1>1. \A q : Queued(q)' = Queued(q)
  BY DEF Queued
<1>2. DirWork(s, DW)' = DirWork(s, DW) /\ FileWork(s, FW)' = FileWork(s, FW)
  BY <1>1 DEF DirWork, FileWork
<1>3. \A d, u : ListedSince(s, DW, d, u)' = ListedSince(s, DW, d, u)
  BY <1>2 DEF ListedSince
<1>4. \A f : MarkFresh(s, DW, f)' = MarkFresh(s, DW, f)
  BY <1>3 DEF MarkFresh
<1>5. Waiting(s, DW, {})' = Waiting(s, DW, {})
  BY <1>2 DEF Waiting
<1>6. TreeFits(s, DW, {})' = TreeFits(s, DW, {})
  BY <1>2, <1>4, <1>5 DEF TreeFits
<1>7. \A t, u, w : LoadedSince(s, FW, t, u, w)' = LoadedSince(s, FW, t, u, w)
  BY <1>2 DEF LoadedSince
<1>8. \A t : Fresh(s, FW, t)' = Fresh(s, FW, t)
  BY <1>7 DEF Fresh
<1>9. \A t : InnerFits(s, FW, t)' = InnerFits(s, FW, t)
  BY <1>2, <1>8 DEF InnerFits
<1>10. FilesFit(s, FW)' = FilesFit(s, FW)
  BY <1>2, <1>9 DEF FilesFit
<1>11. Sound(s)' = Sound(s)
  BY DEF Sound
<1> QED BY <1>6, <1>10, <1>11 DEF Fits

\* Every queued job now starts later than it could before; the others stay.
Later(new, old) ==
    /\ \A w \in new : \E k \in old : k.of = w.of /\ k.since <= w.since
    /\ \A w \in old : \E k \in new : k.of = w.of

LEMMA QueuedLater ==
    ASSUME version \in Nat, version' = version + 1, NEW q, NEW W, \A w \in W : w.since \in Nat
    PROVE  Later(Queued(q)' \union W, Queued(q) \union W)
<1>1. ASSUME NEW w \in Queued(q)' \union W
      PROVE  \E k \in Queued(q) \union W : k.of = w.of /\ k.since <= w.since
  <2>1. CASE w \in W
    BY <2>1
  <2>2. CASE w \in Queued(q)'
    <3>1. PICK j \in ToSet(q) : w = [of |-> j, since |-> version']
      BY <2>2 DEF Queued
    <3>2. PICK k : k = [of |-> j, since |-> version]
      OBVIOUS
    <3>3. k \in Queued(q) /\ k.of = j /\ k.since = version /\ w.of = j /\ w.since = version'
      BY <3>1, <3>2 DEF Queued
    <3> QED BY <3>3
  <2> QED BY <1>1, <2>1, <2>2
<1>2. ASSUME NEW w \in Queued(q) \union W PROVE \E k \in Queued(q)' \union W : k.of = w.of
  <2>1. CASE w \in W
    BY <2>1
  <2>2. CASE w \in Queued(q)
    <3>1. PICK j \in ToSet(q) : w = [of |-> j, since |-> version]
      BY <2>2 DEF Queued
    <3>2. PICK k : k = [of |-> j, since |-> version']
      OBVIOUS
    <3>3. k \in Queued(q)' /\ k.of = j /\ w.of = j
      BY <3>1, <3>2 DEF Queued
    <3> QED BY <3>3
  <2> QED BY <1>2, <2>1, <2>2
<1> QED BY <1>1, <1>2 DEF Later

\* An edit on disk.
LEMMA EditFits ==
    ASSUME version \in Nat, version' = version + 1, NEW s, Sound(s),
           NEW DW \in SUBSET Work(DirJob), NEW FW \in SUBSET Work(FileJob), Fits(s, DW, FW)
    PROVE  Fits(s, DW, FW)'
<1>1. (\A w \in DW : w.since \in Nat) /\ \A w \in FW : w.since \in Nat
  BY DEF Work
<1>2. Later(DirWork(s, DW)', DirWork(s, DW)) /\ Later(FileWork(s, FW)', FileWork(s, FW))
  BY <1>1, QueuedLater DEF DirWork, FileWork
<1>3. 1..version \subseteq 1..version' /\ \A u : u..version \subseteq u..version'
  OBVIOUS
<1>4. /\ \A w \in DirWork(s, DW)' : w.since \in Nat
      /\ \A w \in DirWork(s, DW) : w.since \in Nat
      /\ \A w \in FileWork(s, FW)' : w.since \in Nat
      /\ \A w \in FileWork(s, FW) : w.since \in Nat
  BY <1>1 DEF DirWork, FileWork, Queued
<1>5. \A w, k, d : k.of = w.of => DueDir(s, k, d) = DueDir(s, w, d)
  BY DEF DueDir
<1>6. \A w, k, t : k.of = w.of => DueFile(s, k, t) = DueFile(s, w, t)
  BY DEF DueFile
<1>7. ASSUME NEW d, NEW u \in Nat, ListedSince(s, DW, d, u) PROVE ListedSince(s, DW, d, u)'
  <2>1. ASSUME NEW w \in DirWork(s, DW)', DueDir(s, w, d) PROVE w.since >= u
    <3>1. PICK k \in DirWork(s, DW) : k.of = w.of /\ k.since <= w.since
      BY <1>2 DEF Later
    <3>2. k.since >= u
      BY <1>5, <1>7, <2>1, <3>1 DEF ListedSince
    <3> QED BY <1>4, <3>1, <3>2
  <2>2. s.newest[d] # NoReq \/ \E v \in u..version' : s.names[d] = ListDir(v, d)
    BY <1>3, <1>7 DEF ListedSince
  <2> QED BY <2>1, <2>2 DEF ListedSince
<1>8. ASSUME NEW f, MarkFresh(s, DW, f) PROVE MarkFresh(s, DW, f)'
  <2>1. PICK u \in 1..s.snapshot :
           Reports(u, f) /\ \E n \in Steps(f) : ListedSince(s, DW, Parent[n], u)
    BY <1>8 DEF MarkFresh
  <2>2. u \in Nat
    OBVIOUS
  <2>3. \E n \in Steps(f) : ListedSince(s, DW, Parent[n], u)'
    BY <1>7, <2>1, <2>2
  <2> QED BY <2>1, <2>3 DEF MarkFresh
<1>9. Waiting(s, DW, {}) => Waiting(s, DW, {})'
  <2>1. ASSUME NEW d, \E w \in DirWork(s, DW) : DueDir(s, w, d)
        PROVE  \E w \in DirWork(s, DW)' : DueDir(s, w, d)
    BY <1>2, <1>5, <2>1 DEF Later
  <2> QED BY <2>1 DEF Waiting
<1>10. TreeFits(s, DW, {})'
  <2>1. TreeFits(s, DW, {})
    BY DEF Fits
  <2>2. \A w \in DirWork(s, DW)' : w.of.id <= s.id /\ (w.of.id = s.id => w.of.req <= s.req)
    BY <1>2, <2>1 DEF Later, TreeFits
  <2> QED BY <1>8, <1>9, <2>1, <2>2 DEF TreeFits
<1>11. ASSUME NEW t, NEW u, NEW w \in Nat, LoadedSince(s, FW, t, u, w) PROVE LoadedSince(s, FW, t, u, w)'
  <2>1. ASSUME NEW k \in FileWork(s, FW)', DueFile(s, k, t) PROVE k.since >= w
    <3>1. PICK m \in FileWork(s, FW) : m.of = k.of /\ m.since <= k.since
      BY <1>2 DEF Later
    <3>2. m.since >= w
      BY <1>6, <1>11, <2>1, <3>1 DEF LoadedSince
    <3> QED BY <1>4, <3>1, <3>2
  <2>2. ASSUME \E k \in FileWork(s, FW) : DueFile(s, k, t) PROVE \E k \in FileWork(s, FW)' : DueFile(s, k, t)
    BY <1>2, <1>6, <2>2 DEF Later
  <2>3. \/ \E k \in FileWork(s, FW)' : DueFile(s, k, t)
        \/ t.missed
        \/ t.loaded /\ \E v \in w..version' : t.shown = BodyOf(t.kind, v, t.of)
    BY <1>3, <1>11, <2>2 DEF LoadedSince
  <2>4. t.kind = KindFor(Change(u, t.of))
    BY <1>11 DEF LoadedSince
  <2> QED BY <2>1, <2>3, <2>4 DEF LoadedSince
<1>12. ASSUME NEW t, InnerFits(s, FW, t) PROVE InnerFits(s, FW, t)'
  <2>1. PICK w \in 1..version : \E u \in 1..w :
           Stamped(t, u, w) /\ (Token(w, t.of) = 0 \/ LoadedSince(s, FW, t, u, w))
    BY <1>12 DEF InnerFits, Fresh
  <2>2. PICK u \in 1..w : Stamped(t, u, w) /\ (Token(w, t.of) = 0 \/ LoadedSince(s, FW, t, u, w))
    BY <2>1
  <2>3. w \in 1..version' /\ w \in Nat
    BY <1>3
  <2>4. Token(w, t.of) = 0 \/ LoadedSince(s, FW, t, u, w)'
    BY <1>11, <2>2, <2>3
  <2>5. Fresh(s, FW, t)'
    BY <2>2, <2>3, <2>4 DEF Fresh
  <2>6. \A k \in FileWork(s, FW)' : DueFile(s, k, t) => k.of.file = t.of /\ k.of.kind = t.kind
    BY <1>2, <1>6, <1>12 DEF Later, InnerFits
  <2>7. t.loaded \/ \E k \in FileWork(s, FW)' : DueFile(s, k, t)
    BY <1>2, <1>6, <1>12 DEF Later, InnerFits
  <2>8. t.gen <= s.gen
    BY <1>12 DEF InnerFits
  <2> QED BY <2>5, <2>6, <2>7, <2>8 DEF InnerFits
<1>13. FilesFit(s, FW)'
  <2>1. FilesFit(s, FW)
    BY DEF Fits
  <2>2. \A w \in FileWork(s, FW)' : w.of.id <= s.id /\ (w.of.id = s.id => w.of.gen <= s.gen)
    BY <1>2, <2>1 DEF Later, FilesFit
  <2> QED BY <1>12, <2>1, <2>2 DEF FilesFit
<1>14. Sound(s)'
  BY <1>3 DEF Sound
<1> QED BY <1>10, <1>13, <1>14 DEF Fits

LEMMA WorkersHold ==
    ASSUME EInv
    PROVE  /\ version \in Nat /\ OnWorkers("dir") \in SUBSET Work(DirJob)
           /\ OnWorkers("file") \in SUBSET Work(FileJob)
           /\ DOMAIN loads = 1..Len(loads) /\ \A i \in 1..Len(loads) : loads[i] \in Load
<1>1. loads \in Seq(Load)
  BY DEF EInv
<1>2. \A l \in ToSet(loads) : l \in Load
  BY <1>1, Places
<1>3. OnWorkers("dir") \in SUBSET Work(DirJob)
  <2>1. ASSUME NEW l \in Load, l.job = "dir" PROVE [of |-> l.of, since |-> l.since] \in Work(DirJob)
    <3>1. l \in [job : {"dir"}, of : DirJob, since : 1..version]
      BY <2>1 DEF Load
    <3> QED BY <3>1 DEF Work
  <2> QED BY <1>2, <2>1 DEF OnWorkers
<1>4. OnWorkers("file") \in SUBSET Work(FileJob)
  <2>1. ASSUME NEW l \in Load, l.job = "file" PROVE [of |-> l.of, since |-> l.since] \in Work(FileJob)
    <3>1. l \in [job : {"file"}, of : FileJob, since : 1..version]
      BY <2>1 DEF Load
    <3> QED BY <3>1 DEF Work
  <2> QED BY <1>2, <2>1 DEF OnWorkers
<1>5. version \in Nat
  BY ExplorerAssumption DEF EInv
<1> QED BY <1>1, <1>3, <1>4, <1>5, Places

\* A handler ends in a tab that fits.
LEMMA HandlerKeeps ==
    ASSUME EInv, version' = version, loads' = loads, inputs' \in Nat,
           Fits(ex', OnWorkers("dir"), OnWorkers("file"))
    PROVE  EInv'
<1>1. OnWorkers("dir")' = OnWorkers("dir") /\ OnWorkers("file")' = OnWorkers("file")
  BY DEF OnWorkers
<1>2. Fits(ex, OnWorkers("dir"), OnWorkers("file"))'
  BY <1>1, NowFits
<1>3. Load' = Load
  BY DEF Load
<1> QED BY <1>2, <1>3 DEF EInv

\* What a key of the tab finds.
LEMMA KeyHolds ==
    ASSUME EInv, NEW on, Key(on)
    PROVE  /\ version' = version /\ loads' = loads /\ inputs' \in Nat /\ on
           /\ Fits(ex, OnWorkers("dir"), OnWorkers("file")) /\ Sound(ex) /\ version \in DOMAIN Disk
BY DEF EInv, Key, Fits

LEMMA InTabHolds ==
    ASSUME EInv, InTab
    PROVE  /\ version' = version /\ loads' = loads /\ inputs' \in Nat /\ ex.open /\ ex.active
           /\ Fits(ex, OnWorkers("dir"), OnWorkers("file")) /\ Sound(ex) /\ version \in DOMAIN Disk
BY DEF EInv, InTab, Key, Fits

LEMMA OpenExplorerKeeps ==
    ASSUME EInv, NEW target \in Nodes \union {Root}, OpenExplorer(target)
    PROVE  EInv'
<1>1. /\ version' = version /\ loads' = loads /\ inputs' \in Nat
      /\ Fits(ex, OnWorkers("dir"), OnWorkers("file")) /\ version \in DOMAIN Disk
  BY KeyHolds DEF OpenExplorer
<1>2. PICK s : s = OpenAndReveal(ex, target)
  OBVIOUS
<1>3. Fits(s, OnWorkers("dir"), OnWorkers("file")) /\ s.open
  BY <1>1, <1>2, WorkersHold, OpenAndRevealFits
<1>4. PICK t : t = SyncPreview(s)
  OBVIOUS
<1>5. Fits(t, OnWorkers("dir"), OnWorkers("file"))
  BY <1>1, <1>3, <1>4, WorkersHold, SyncFits
<1>6. FileStep(t, LiveReload(t), OnWorkers("file"))
  BY <1>1, <1>5, WorkersHold, ReloadFits DEF Fits
<1>7. Fits(LiveReload(t), OnWorkers("dir"), OnWorkers("file"))
  BY <1>5, <1>6, FileStepFits
<1>8. ex' = t \/ ex' = LiveReload(t)
  BY <1>2, <1>4 DEF OpenExplorer
<1> QED BY <1>1, <1>5, <1>7, <1>8, HandlerKeeps

LEMMA OpenFileKeeps ==
    ASSUME EInv, NEW f \in Files, OpenFile(f)
    PROVE  EInv'
<1>1. /\ version' = version /\ loads' = loads /\ inputs' \in Nat
      /\ Fits(ex, OnWorkers("dir"), OnWorkers("file")) /\ version \in DOMAIN Disk
  BY KeyHolds DEF OpenFile
<1>2. PICK s : s = OpenAndReveal(ex, f)
  OBVIOUS
<1>3. Fits(s, OnWorkers("dir"), OnWorkers("file")) /\ s.open
  BY <1>1, <1>2, WorkersHold, OpenAndRevealFits, NodesHold
<1>4. FileStep(s, ShowFile(s, f, TRUE), OnWorkers("file"))
  BY <1>1, <1>3, WorkersHold, ShowFits DEF Fits
<1>5. Fits(ShowFile(s, f, TRUE), OnWorkers("dir"), OnWorkers("file"))
  BY <1>3, <1>4, FileStepFits
<1>6. ex' = ShowFile(s, f, TRUE)
  BY <1>2 DEF OpenFile
<1> QED BY <1>1, <1>5, <1>6, HandlerKeeps

LEMMA MoveCursorKeeps ==
    ASSUME EInv, NEW n \in Nodes, MoveCursor(n)
    PROVE  EInv'
<1>1. /\ version' = version /\ loads' = loads /\ inputs' \in Nat /\ ex.open
      /\ Fits(ex, OnWorkers("dir"), OnWorkers("file")) /\ version \in DOMAIN Disk
  BY InTabHolds DEF MoveCursor
<1>2. PICK s : s = [ex EXCEPT !.cursor = n]
  OBVIOUS
<1>3. Fits(s, OnWorkers("dir"), OnWorkers("file")) /\ s.open
  BY <1>1, <1>2, CursorFits
<1>4. Fits(SyncPreview(s), OnWorkers("dir"), OnWorkers("file"))
  BY <1>1, <1>3, WorkersHold, SyncFits
<1>5. ex' = SyncPreview(s)
  BY <1>2 DEF MoveCursor
<1> QED BY <1>1, <1>4, <1>5, HandlerKeeps

LEMMA FoldDirKeeps ==
    ASSUME EInv, NEW d \in Dirs, FoldDir(d)
    PROVE  EInv'
<1>1. /\ version' = version /\ loads' = loads /\ inputs' \in Nat /\ ex.open /\ d # Root
      /\ Fits(ex, OnWorkers("dir"), OnWorkers("file")) /\ version \in DOMAIN Disk
  BY InTabHolds DEF FoldDir
<1>2. PICK s : s = [ex EXCEPT !.cursor = d]
  OBVIOUS
<1>3. Fits(s, OnWorkers("dir"), OnWorkers("file")) /\ d \in Nodes \union {Root}
  BY <1>1, <1>2, CursorFits, NodesHold
<1>4. ex' = IF d \in s.expanded THEN Collapse(s, d)
            ELSE LoadDirs(Expand(s, <<d>>), Missing(s, <<d>>))
  BY <1>2 DEF FoldDir
<1>5. CASE d \in s.expanded
  <2>1. Fits(Collapse(s, d), OnWorkers("dir"), OnWorkers("file"))
    BY <1>1, <1>3, CollapseFits
  <2> QED BY <1>1, <1>4, <1>5, <2>1, HandlerKeeps
<1>6. CASE d \notin s.expanded
  <2>1. PICK one \in Seq(Dirs) : one = <<d>>
    BY SingletonHolds
  <2>2. PICK dirs \in Seq(Dirs) : dirs = Missing(s, one)
    BY MissingHolds
  <2>3. PICK u : u = Expand(s, one)
    OBVIOUS
  <2>4. /\ Sound(u) /\ Alters(s, u, {"expanded", "asked"}) /\ u.asked = s.asked \union ToSet(dirs)
    BY <1>3, <2>2, <2>3, ExpandHolds DEF Fits
  <2>5. TreeFits(u, OnWorkers("dir"), {} \union ToSet(dirs))
    <3>1. Alters(s, u, ExFields \ TreeFields) /\ u.asked \subseteq s.asked \union ToSet(dirs)
      BY <2>4 DEF Alters, ExFields, TreeFields
    <3> QED BY <1>3, <3>1, TreeKept DEF Fits
  <2>6. {} \union ToSet(dirs) \subseteq ToSet(dirs)
    OBVIOUS
  <2>7. TreeFits(LoadDirs(u, dirs), OnWorkers("dir"), {})
    BY <1>1, <2>4, <2>5, <2>6, WorkersHold, AskFits
  <2>8. Sound(LoadDirs(u, dirs)) /\ Alters(u, LoadDirs(u, dirs), {"req", "newest", "dirJobs"})
    BY <2>4, LoadDirsShape
  <2>9. TreeStep(s, LoadDirs(u, dirs), OnWorkers("dir"))
    BY <2>4, <2>7, <2>8 DEF TreeStep, Alters, TreeMoves
  <2>10. Fits(LoadDirs(u, dirs), OnWorkers("dir"), OnWorkers("file"))
    BY <1>3, <2>9, TreeStepFits
  <2>11. ex' = LoadDirs(u, dirs)
    BY <1>4, <1>6, <2>1, <2>2, <2>3
  <2> QED BY <1>1, <2>10, <2>11, HandlerKeeps
<1> QED BY <1>5, <1>6

LEMMA ToParentFits ==
    ASSUME NEW s, NEW DW, NEW FW \in SUBSET Work(FileJob), version \in DOMAIN Disk, Fits(s, DW, FW),
           s.open, NEW row \in Nodes
    PROVE  Fits(ToParent(s, row), DW, FW)
<1>1. CASE Parent[row] = Root
  <2>1. ToParent(s, row) = [s EXCEPT !.cursor = row]
    BY <1>1 DEF ToParent
  <2> QED BY <2>1, CursorFits
<1>2. CASE Parent[row] # Root
  <2>1. PICK n \in Nodes \union {Root} : n = Parent[row]
    BY NodesHold
  <2>2. PICK t : t = [s EXCEPT !.cursor = n]
    OBVIOUS
  <2>3. Fits(t, DW, FW) /\ t.open
    BY <2>2, CursorFits
  <2>4. Fits(SyncPreview(t), DW, FW)
    BY <2>3, SyncFits
  <2>5. ToParent(s, row) = SyncPreview(t)
    BY <1>2, <2>1, <2>2 DEF ToParent
  <2> QED BY <2>4, <2>5
<1> QED BY <1>1, <1>2

LEMMA CloseOrParentKeeps ==
    ASSUME EInv, CloseOrParent
    PROVE  EInv'
<1>1. /\ version' = version /\ loads' = loads /\ inputs' \in Nat /\ ex.open
      /\ Fits(ex, OnWorkers("dir"), OnWorkers("file")) /\ Sound(ex) /\ version \in DOMAIN Disk
  BY InTabHolds DEF CloseOrParent
<1>2. PICK row \in Nodes : row = CursorRow(ex)
  BY <1>1, CursorRowHolds DEF CloseOrParent
<1>3. Fits(ToParent(ex, row), OnWorkers("dir"), OnWorkers("file"))
  BY <1>1, WorkersHold, ToParentFits
<1>4. row \in ex.expanded => Fits(Collapse(ex, row), OnWorkers("dir"), OnWorkers("file"))
  <2>1. row \in ex.expanded => row \in Dirs \ {Root}
    BY <1>1, NodesHold DEF Sound, Explorer
  <2> QED BY <1>1, <2>1, CollapseFits
<1>5. ex' = (IF row \in ex.expanded THEN Collapse(ex, row) ELSE ToParent(ex, row)) \/ ex' = ToParent(ex, row)
  BY <1>2 DEF CloseOrParent
<1>6. Fits(ex', OnWorkers("dir"), OnWorkers("file"))
  BY <1>3, <1>4, <1>5
<1> QED BY <1>1, <1>6, HandlerKeeps

LEMMA EnterFileKeeps ==
    ASSUME EInv, EnterFile
    PROVE  EInv'
<1>1. /\ version' = version /\ loads' = loads /\ inputs' \in Nat /\ ex.open
      /\ Fits(ex, OnWorkers("dir"), OnWorkers("file")) /\ version \in DOMAIN Disk
  BY InTabHolds DEF EnterFile
<1>2. PICK f \in Files : f = CursorRow(ex) /\ ex' = ShowFile(ex, f, TRUE)
  BY DEF EnterFile
<1>3. FileStep(ex, ShowFile(ex, f, TRUE), OnWorkers("file"))
  BY <1>1, WorkersHold, ShowFits DEF Fits
<1>4. Fits(ShowFile(ex, f, TRUE), OnWorkers("dir"), OnWorkers("file"))
  BY <1>1, <1>3, FileStepFits
<1> QED BY <1>1, <1>2, <1>4, HandlerKeeps

\* Inner tabs go, or another one shows.
LEMMA FewerFits ==
    ASSUME NEW s, NEW DW, NEW FW, Fits(s, DW, FW), NEW t, Sound(t), Alters(s, t, {"files", "file"}),
           t.file \in 0..Len(t.files), t.file = 0 <=> t.files = <<>>, s.open => Apart(t.files),
           \A k \in DOMAIN t.files : \E m \in DOMAIN s.files : t.files[k] = s.files[m]
    PROVE  Fits(t, DW, FW)
<1>1. /\ t.id = s.id /\ t.open = s.open /\ t.gen = s.gen /\ t.fileJobs = s.fileJobs /\ t.asked = s.asked
      /\ Alters(s, t, ExFields \ TreeFields)
  BY DEF Alters, ExFields, TreeFields
<1>2. TreeFits(t, DW, {})
  BY <1>1, TreeSame DEF Fits
<1>3. FileWork(t, FW) = FileWork(s, FW)
  BY <1>1 DEF FileWork
<1>4. ASSUME s.open, NEW k \in DOMAIN t.files PROVE InnerFits(t, FW, t.files[k])
  <2>1. PICK r : r = t.files[k] /\ \E m \in DOMAIN s.files : r = s.files[m]
    BY <1>4
  <2>2. InnerFits(s, FW, r)
    BY <1>4, <2>1 DEF Fits, FilesFit
  <2>3. InnerFits(t, FW, r)
    BY <1>1, <2>2, InnerSame DEF Alike
  <2> QED BY <2>1, <2>3
<1>5. \A w \in FileWork(t, FW) : w.of.id <= t.id /\ (w.of.id = t.id => w.of.gen <= t.gen)
  BY <1>1, <1>3 DEF Fits, FilesFit
<1>6. FilesFit(t, FW)
  BY <1>1, <1>4, <1>5 DEF FilesFit
<1> QED BY <1>2, <1>6 DEF Fits

LEMMA CycleInnerKeeps ==
    ASSUME EInv, CycleInner
    PROVE  EInv'
<1>1. /\ version' = version /\ loads' = loads /\ inputs' \in Nat /\ ex.open
      /\ Fits(ex, OnWorkers("dir"), OnWorkers("file")) /\ Sound(ex) /\ version \in DOMAIN Disk
  BY InTabHolds DEF CycleInner
<1>2. /\ ex.files \in Seq(Inner) /\ DOMAIN ex.files = 1..Len(ex.files) /\ Len(ex.files) \in Nat
      /\ Len(ex.files) > 1 /\ ex.file \in 0..Len(ex.files) /\ (ex.file = 0 <=> ex.files = <<>>)
      /\ Apart(ex.files) /\ \A k \in 1..Len(ex.files) : ex.files[k] \in Inner
  BY <1>1, TabsHold DEF CycleInner, Fits, FilesFit
<1>3. PICK i \in 1..Len(ex.files) : i \in Nat /\ i = (IF ex.file = Len(ex.files) THEN 1 ELSE ex.file + 1)
  <2>1. PICK n \in Nat : n = Len(ex.files) /\ n > 1
    BY <1>2
  <2>2. PICK c \in 0..n : c = ex.file
    BY <1>2, <2>1
  <2>3. (IF c = n THEN 1 ELSE c + 1) \in 1..n
    BY <2>1
  <2> QED BY <2>1, <2>2, <2>3
<1>4. PICK t : t = [ex EXCEPT !.file = i]
  OBVIOUS
<1>5. t \in Explorer /\ t.file = i /\ Alters(ex, t, {"file"})
  BY <1>1, <1>3, <1>4 DEF Sound, Explorer, Alters, ExFields
<1>6. Sound(t) /\ t.files = ex.files /\ Alters(ex, t, {"files", "file"})
  BY <1>1, <1>5 DEF Sound, Alters, ExFields
<1>7. t.file \in 0..Len(t.files) /\ t.file # 0 /\ t.files # <<>>
  <2>1. Len(<<>>) = 0
    OBVIOUS
  <2> QED BY <1>2, <1>5, <1>6, <2>1
<1>8. Fits(t, OnWorkers("dir"), OnWorkers("file"))
  BY <1>1, <1>2, <1>6, <1>7, FewerFits
<1>9. Fits(RevealAndCheck(t, ActiveGen(ex)), OnWorkers("dir"), OnWorkers("file"))
  BY <1>1, <1>8, WorkersHold, RevealAndCheckFits
<1>10. ex' = RevealAndCheck(t, ActiveGen(ex))
  BY <1>1, <1>3, <1>4 DEF CycleInner, Sound, Explorer
<1> QED BY <1>1, <1>9, <1>10, HandlerKeeps

LEMMA CloseInnerKeeps ==
    ASSUME EInv, CloseInner
    PROVE  EInv'
<1>1. /\ version' = version /\ loads' = loads /\ inputs' \in Nat /\ ex.open
      /\ Fits(ex, OnWorkers("dir"), OnWorkers("file")) /\ Sound(ex) /\ version \in DOMAIN Disk
  BY InTabHolds DEF CloseInner
<1>2. /\ ex.files \in Seq(Inner) /\ DOMAIN ex.files = 1..Len(ex.files) /\ Len(ex.files) \in Nat
      /\ ex.file \in 1..Len(ex.files) /\ Apart(ex.files)
  BY <1>1, TabsHold DEF CloseInner, Fits, FilesFit
<1>3. PICK q \in Seq(Inner) :
          /\ q = RemoveAt(ex.files, ex.file) /\ Len(q) = Len(ex.files) - 1
          /\ \A k \in 1..(Len(ex.files) - 1) : q[k] = IF k < ex.file THEN ex.files[k] ELSE ex.files[k + 1]
  <2>1. /\ RemoveAt(ex.files, ex.file) \in Seq(Inner)
        /\ Len(RemoveAt(ex.files, ex.file)) = Len(ex.files) - 1
        /\ \A k \in 1..(Len(ex.files) - 1) :
             RemoveAt(ex.files, ex.file)[k] = IF k < ex.file THEN ex.files[k] ELSE ex.files[k + 1]
    BY <1>2, RemoveAtHolds
  <2> QED BY <2>1, Zenon
<1>4. Len(q) \in Nat /\ DOMAIN q = 1..Len(q) /\ (q = <<>> <=> Len(q) = 0)
  <2>1. q = <<>> <=> Len(q) = 0
    BY EmptySeq
  <2> QED BY <2>1, Places
<1>5. PICK next \in 0..Len(q) :
          /\ next = IF q = <<>> THEN 0 ELSE IF ex.file = 1 THEN 1 ELSE ex.file - 1
          /\ next = 0 <=> q = <<>>
          /\ next \in Nat
  BY <1>2, <1>3, <1>4
<1>6. \A k \in 1..Len(q) : \E m \in 1..Len(ex.files) :
         q[k] = ex.files[m] /\ m = (IF k < ex.file THEN k ELSE k + 1)
  BY <1>2, <1>3, <1>4
<1>7. Apart(q)
  <2>1. ASSUME NEW i \in 1..Len(q), NEW k \in 1..Len(q), i # k
        PROVE  /\ q[i].of # q[k].of /\ q[i].gen # q[k].gen
               /\ q[i].pinned \/ q[k].pinned
    <3>1. PICK m \in 1..Len(ex.files) : q[i] = ex.files[m] /\ m = (IF i < ex.file THEN i ELSE i + 1)
      BY <1>6
    <3>2. PICK n \in 1..Len(ex.files) : q[k] = ex.files[n] /\ n = (IF k < ex.file THEN k ELSE k + 1)
      BY <1>6
    <3>3. m # n
      BY <1>2, <1>4, <2>1, <3>1, <3>2
    <3>4. /\ ex.files[m].of # ex.files[n].of /\ ex.files[m].gen # ex.files[n].gen
          /\ ex.files[m].pinned \/ ex.files[n].pinned
      BY <1>2, <3>3 DEF Apart
    <3> QED BY <3>1, <3>2, <3>4
  <2> QED BY <1>4, <2>1 DEF Apart
<1>8. PICK t : t = [ex EXCEPT !.files = q, !.file = next]
  OBVIOUS
<1>9. t \in Explorer /\ t.files = q /\ t.file = next /\ Alters(ex, t, {"files", "file"})
  BY <1>1, <1>5, <1>8 DEF Sound, Explorer, Alters, ExFields
<1>10. Sound(t)
  BY <1>1, <1>9 DEF Sound, Alters, ExFields
<1>11. Fits(t, OnWorkers("dir"), OnWorkers("file"))
  <2>1. \A k \in DOMAIN t.files : \E m \in DOMAIN ex.files : t.files[k] = ex.files[m]
    BY <1>2, <1>4, <1>6, <1>9
  <2>2. t.file \in 0..Len(t.files) /\ (t.file = 0 <=> t.files = <<>>) /\ Apart(t.files)
    BY <1>5, <1>7, <1>9
  <2> QED BY <1>1, <1>9, <1>10, <2>1, <2>2, FewerFits
<1>12. Fits(RevealAndCheck(t, ActiveGen(ex)), OnWorkers("dir"), OnWorkers("file"))
  BY <1>1, <1>11, WorkersHold, RevealAndCheckFits
<1>13. ex' = RevealAndCheck(t, ActiveGen(ex))
  BY <1>3, <1>5, <1>8 DEF CloseInner
<1> QED BY <1>1, <1>12, <1>13, HandlerKeeps

LEMMA CloseExplorerKeeps ==
    ASSUME EInv, CloseExplorer
    PROVE  EInv'
<1>1. /\ version' = version /\ loads' = loads /\ inputs' \in Nat
      /\ Fits(ex, OnWorkers("dir"), OnWorkers("file")) /\ Sound(ex)
  BY KeyHolds DEF CloseExplorer
<1>2. PICK t : t = [ex EXCEPT !.open = FALSE, !.active = FALSE]
  OBVIOUS
<1>3. t \in Explorer /\ ~t.open /\ ~t.active /\ Alters(ex, t, {"open", "active"})
  BY <1>1, <1>2 DEF Sound, Explorer, Alters, ExFields
<1>4. /\ t.id = ex.id /\ t.req = ex.req /\ t.dirJobs = ex.dirJobs /\ t.fileJobs = ex.fileJobs
      /\ t.files = ex.files /\ t.file = ex.file /\ t.gen = ex.gen
      /\ t.snapshot = ex.snapshot /\ t.expanded = ex.expanded
  BY <1>3 DEF Alters, ExFields
<1>5. Sound(t)
  BY <1>1, <1>3, <1>4 DEF Sound
<1>6. /\ DirWork(t, OnWorkers("dir")) = DirWork(ex, OnWorkers("dir"))
      /\ FileWork(t, OnWorkers("file")) = FileWork(ex, OnWorkers("file"))
  BY <1>4 DEF DirWork, FileWork
<1>7. TreeFits(t, OnWorkers("dir"), {})
  BY <1>1, <1>3, <1>4, <1>6 DEF Fits, TreeFits
<1>8. FilesFit(t, OnWorkers("file"))
  BY <1>1, <1>3, <1>4, <1>6 DEF Fits, FilesFit
<1>9. ex' = t
  BY <1>2 DEF CloseExplorer
<1> QED BY <1>1, <1>5, <1>7, <1>8, <1>9, HandlerKeeps DEF Fits

\* The two halves of a refresh.
ListedInSight(s) == Retain(<<Root>> \o InOrder, {d \in s.listed : InSight(s, d)})
Reloaded(t) ==
    IF t.file = 0 THEN t
    ELSE LoadFile([t EXCEPT !.gen = @ + 1,
                            !.files[t.file] = Loading(t, t.files[t.file].of, @.pinned, t.gen + 1)],
                  t.files[t.file].of, t.gen + 1)

LEMMA RefreshKeeps ==
    ASSUME EInv, Refresh
    PROVE  EInv'
<1>1. /\ version' = version /\ loads' = loads /\ inputs' \in Nat /\ ex.open
      /\ Fits(ex, OnWorkers("dir"), OnWorkers("file")) /\ Sound(ex) /\ version \in DOMAIN Disk
  BY InTabHolds DEF Refresh
<1>2. PICK keep \in SUBSET Dirs : keep = ex.listed \intersect ex.expanded
  BY <1>1 DEF Sound, Explorer
<1>3. PICK s : s = [ex EXCEPT !.listed = keep]
  OBVIOUS
<1>4. s = [ex EXCEPT !.listed = @ \intersect ex.expanded] /\ s.listed = keep /\ s.expanded = ex.expanded
  BY <1>1, <1>2, <1>3 DEF Sound, Explorer
<1>5. PICK dirs : dirs = Retain(<<Root>> \o InOrder, {d \in keep : InSight(ex, d)})
  OBVIOUS
<1>6. dirs = Retain(<<Root>> \o InOrder, {d \in s.listed : InSight(s, d)})
  BY <1>4, <1>5 DEF InSight
<1>7. PICK t : t = LoadDirs(s, dirs)
  OBVIOUS
<1>8. /\ Fits(t, OnWorkers("dir"), OnWorkers("file"))
      /\ t.file # 0 =>
           Fits(LoadFile(WithAgain(t, Loading(t, Shown(t).of, Shown(t).pinned, t.gen + 1)),
                         Shown(t).of, t.gen + 1), OnWorkers("dir"), OnWorkers("file"))
  <2>1. LET u == LoadDirs([ex EXCEPT !.listed = keep], dirs)
        IN  /\ Fits(u, OnWorkers("dir"), OnWorkers("file"))
            /\ u.file # 0 =>
                 Fits(LoadFile(WithAgain(u, Loading(u, Shown(u).of, Shown(u).pinned, u.gen + 1)),
                               Shown(u).of, u.gen + 1), OnWorkers("dir"), OnWorkers("file"))
    BY <1>1, <1>5, WorkersHold, RefreshFits
  <2>2. t = LoadDirs([ex EXCEPT !.listed = keep], dirs)
    BY <1>3, <1>7
  <2> QED BY <2>1, <2>2, Zenon
<1>9. ex' = IF t.file = 0 THEN t
            ELSE LoadFile([t EXCEPT !.gen = @ + 1,
                                    !.files[t.file] = Loading(t, t.files[t.file].of, @.pinned, t.gen + 1)],
                          t.files[t.file].of, t.gen + 1)
  <2>1. ex' = Reloaded(LoadDirs([ex EXCEPT !.listed = @ \intersect ex.expanded],
                                ListedInSight([ex EXCEPT !.listed = @ \intersect ex.expanded])))
    BY Zenon DEF Refresh, Reloaded, ListedInSight
  <2>2. dirs = ListedInSight(s)
    BY <1>6 DEF ListedInSight
  <2>3. ex' = Reloaded(t)
    BY <1>4, <1>7, <2>1, <2>2, Zenon
  <2> QED BY <2>3 DEF Reloaded
<1>10. CASE t.file = 0
  BY <1>1, <1>8, <1>9, <1>10, HandlerKeeps
<1>11. CASE t.file # 0
  <2>1. t \in Explorer
    BY <1>8 DEF Fits, Sound
  <2>2. [t EXCEPT !.gen = @ + 1,
                  !.files[t.file] = Loading(t, t.files[t.file].of, @.pinned, t.gen + 1)]
          = WithAgain(t, Loading(t, Shown(t).of, Shown(t).pinned, t.gen + 1))
    BY <2>1 DEF Explorer, WithAgain, WithTab, Shown
  <2>3. ex' = LoadFile(WithAgain(t, Loading(t, Shown(t).of, Shown(t).pinned, t.gen + 1)),
                       Shown(t).of, t.gen + 1)
    BY <1>9, <1>11, <2>2 DEF Shown
  <2> QED BY <1>1, <1>8, <1>11, <2>3, HandlerKeeps
<1> QED BY <1>10, <1>11

LEMMA EditorReturnsKeeps ==
    ASSUME EInv, EditorReturns
    PROVE  EInv'
<1>1. /\ version' = version /\ loads' = loads /\ inputs' \in Nat
      /\ Fits(ex, OnWorkers("dir"), OnWorkers("file")) /\ version \in DOMAIN Disk
  BY InTabHolds DEF EditorReturns
<1>2. FileStep(ex, LiveReload(ex), OnWorkers("file"))
  BY <1>1, WorkersHold, ReloadFits DEF Fits
<1>3. Fits(LiveReload(ex), OnWorkers("dir"), OnWorkers("file"))
  BY <1>1, <1>2, FileStepFits
<1> QED BY <1>1, <1>3, HandlerKeeps DEF EditorReturns

LEMMA SwitchTabKeeps ==
    ASSUME EInv, SwitchTab
    PROVE  EInv'
<1>1. /\ version' = version /\ loads' = loads /\ inputs' \in Nat /\ ex.open
      /\ Fits(ex, OnWorkers("dir"), OnWorkers("file")) /\ Sound(ex) /\ version \in DOMAIN Disk
  BY KeyHolds DEF SwitchTab
<1>2. PICK b \in BOOLEAN : b = ~ex.active
  BY <1>1 DEF Sound, Explorer
<1>3. PICK t : t = [ex EXCEPT !.active = b]
  OBVIOUS
<1>4. t \in Explorer /\ Alters(ex, t, {"active"})
  BY <1>1, <1>3 DEF Sound, Explorer, Alters, ExFields
<1>5. Sound(t) /\ Alters(ex, t, {"active", "overlay", "expanded", "cursor"})
  BY <1>1, <1>4 DEF Sound, Alters, ExFields
<1>6. Fits(t, OnWorkers("dir"), OnWorkers("file"))
  BY <1>1, <1>5, OtherStepFits
<1>7. FileStep(t, LiveReload(t), OnWorkers("file"))
  BY <1>1, <1>6, WorkersHold, ReloadFits DEF Fits
<1>8. Fits(LiveReload(t), OnWorkers("dir"), OnWorkers("file"))
  BY <1>6, <1>7, FileStepFits
<1>9. ex' = t \/ ex' = LiveReload(t)
  BY <1>1, <1>2, <1>3 DEF SwitchTab, Sound, Explorer
<1> QED BY <1>1, <1>6, <1>8, <1>9, HandlerKeeps

LEMMA ToggleOverlayKeeps ==
    ASSUME EInv, ToggleOverlay
    PROVE  EInv'
<1>1. /\ version' = version /\ loads' = loads /\ inputs' \in Nat
      /\ Fits(ex, OnWorkers("dir"), OnWorkers("file")) /\ Sound(ex)
  BY DEF EInv, ToggleOverlay, Fits
<1>2. ex' \in Explorer /\ Alters(ex, ex', {"overlay"})
  BY <1>1 DEF ToggleOverlay, Sound, Explorer, Alters, ExFields
<1>3. Sound(ex)' /\ Alters(ex, ex', {"active", "overlay", "expanded", "cursor"})
  BY <1>1, <1>2 DEF Sound, Alters, ExFields
<1>4. PICK t : t = ex'
  OBVIOUS
<1>5. Sound(t)
  BY <1>1, <1>3, <1>4 DEF Sound
<1>6. Fits(t, OnWorkers("dir"), OnWorkers("file"))
  BY <1>1, <1>3, <1>4, <1>5, OtherStepFits
<1> QED BY <1>1, <1>4, <1>6, HandlerKeeps

\* What fits depends on all work and not on where it is.
LEMMA SameWork ==
    ASSUME NEW s, NEW t, NEW DW, NEW FW, NEW dirs, NEW files, Fits(s, DW, FW), Sound(t),
           Alters(s, t, {"dirJobs", "fileJobs"}), DirWork(t, dirs) = DirWork(s, DW),
           FileWork(t, files) = FileWork(s, FW)
    PROVE  Fits(t, dirs, files)
<1>1. /\ t.id = s.id /\ t.open = s.open /\ t.names = s.names /\ t.newest = s.newest /\ t.req = s.req
      /\ t.relisted = s.relisted /\ t.unread = s.unread /\ t.snapshot = s.snapshot
      /\ t.asked = s.asked /\ t.files = s.files /\ t.file = s.file /\ t.gen = s.gen
  BY DEF Alters, ExFields
<1>2. \A w, d : DueDir(t, w, d) = DueDir(s, w, d)
  BY <1>1 DEF DueDir
<1>3. \A w, r : DueFile(t, w, r) = DueFile(s, w, r)
  BY <1>1 DEF DueFile
<1>4. \A d, u : ListedSince(t, dirs, d, u) = ListedSince(s, DW, d, u)
  BY <1>1, <1>2 DEF ListedSince
<1>5. \A f : MarkFresh(t, dirs, f) = MarkFresh(s, DW, f)
  BY <1>1, <1>4 DEF MarkFresh
<1>6. TreeFits(t, dirs, {})
  <2>1. Waiting(s, DW, {}) => Waiting(t, dirs, {})
    BY <1>1, <1>2 DEF Waiting
  <2> QED BY <1>1, <1>5, <2>1 DEF Fits, TreeFits
<1>7. \A r, u, w : LoadedSince(t, files, r, u, w) = LoadedSince(s, FW, r, u, w)
  BY <1>3 DEF LoadedSince
<1>8. \A r : InnerFits(t, files, r) = InnerFits(s, FW, r)
  BY <1>1, <1>3, <1>7 DEF InnerFits, Fresh
<1>9. FilesFit(t, files)
  BY <1>1, <1>8 DEF Fits, FilesFit
<1> QED BY <1>6, <1>9 DEF Fits

\* The work of a set of loads.
AsWork(L, job) == {[of |-> l.of, since |-> l.since] : l \in {k \in L : k.job = job}}

LEMMA AsWorkHolds ==
    ASSUME NEW L, NEW l, NEW job
    PROVE  /\ l.job = job =>
                AsWork(L \union {l}, job) = AsWork(L, job) \union {[of |-> l.of, since |-> l.since]}
           /\ l.job # job => AsWork(L \union {l}, job) = AsWork(L, job)
BY DEF AsWork

LEMMA OnWorkersHold ==
    /\ \A job : OnWorkers(job) = AsWork(ToSet(loads), job)
    /\ \A job : OnWorkers(job)' = AsWork(ToSet(loads'), job)
BY DEF OnWorkers, AsWork

\* A step of the workers ends in a tab that fits.
LEMMA WorkerKeeps ==
    ASSUME EInv, version' = version, loads' \in Seq(Load), inputs' \in Nat,
           Fits(ex', OnWorkers("dir")', OnWorkers("file")')
    PROVE  EInv'
<1>1. Fits(ex, OnWorkers("dir"), OnWorkers("file"))'
  BY NowFits
<1>2. Load' = Load
  BY DEF Load
<1> QED BY <1>1, <1>2 DEF EInv

LEMMA FilesChangeKeeps ==
    ASSUME EInv, FilesChange
    PROVE  EInv'
<1>1. /\ version \in Nat /\ version \in 1..Len(Disk) /\ version' = version + 1 /\ version < Len(Disk)
      /\ ex' = ex /\ loads' = loads /\ inputs' \in Nat /\ Sound(ex)
      /\ Fits(ex, OnWorkers("dir"), OnWorkers("file"))
  BY Places, WorkersHold, ExplorerAssumption DEF EInv, FilesChange, Fits
<1>2. version' \in DOMAIN Disk
  <2>1. Len(Disk) \in Nat /\ DOMAIN Disk = 1..Len(Disk)
    BY ExplorerAssumption, LenProperties
  <2> QED BY <1>1, <2>1
<1>3. OnWorkers("dir")' = OnWorkers("dir") /\ OnWorkers("file")' = OnWorkers("file")
  BY <1>1 DEF OnWorkers
<1>4. PICK s : s = ex
  OBVIOUS
<1>5. PICK DW \in SUBSET Work(DirJob) : DW = OnWorkers("dir")
  BY WorkersHold
<1>6. PICK FW \in SUBSET Work(FileJob) : FW = OnWorkers("file")
  BY WorkersHold
<1>7. Sound(s) /\ Fits(s, DW, FW)
  BY <1>1, <1>4, <1>5, <1>6
<1>8. Fits(s, DW, FW)'
  BY <1>1, <1>7, EditFits
<1>9. Fits(ex, OnWorkers("dir"), OnWorkers("file"))'
  BY <1>1, <1>3, <1>4, <1>5, <1>6, <1>8
<1>10. loads' \in Seq(Load')
  <2>1. Load \subseteq Load'
    <3>1. 1..version \subseteq 1..version'
      BY <1>1
    <3>2. ASSUME NEW l \in Load PROVE l \in Load'
      <4>1. CASE l \in [job : {"dir"}, of : DirJob, since : 1..version]
        BY <3>1, <4>1 DEF Load
      <4>2. CASE l \in [job : {"file"}, of : FileJob, since : 1..version]
        BY <3>1, <4>2 DEF Load
      <4> QED BY <3>2, <4>1, <4>2 DEF Load
    <3> QED BY <3>2
  <2>2. loads \in Seq(Load)
    BY DEF EInv
  <2>3. ToSet(loads) \subseteq Load'
    BY <2>1, <2>2, Places
  <2> QED BY <1>1, <2>2, <2>3, Narrow
<1> QED BY <1>1, <1>2, <1>9, <1>10 DEF EInv

LEMMA StatusArrivesKeeps ==
    ASSUME EInv, NEW v, StatusArrives(v)
    PROVE  EInv'
<1>1. /\ version' = version /\ loads' = loads /\ inputs' \in Nat /\ version \in DOMAIN Disk
      /\ Fits(ex, OnWorkers("dir"), OnWorkers("file")) /\ v \in ex.snapshot..version
  BY DEF EInv, StatusArrives
<1>2. PICK order \in HashOrders : ex' = StatusRelist(LiveReload([ex EXCEPT !.snapshot = v]), order)
  BY DEF StatusArrives
<1>3. order \in Seq(Nodes)
  <2>1. DOMAIN InOrder = 1..Len(InOrder) /\ Len(InOrder) \in Nat
    BY ExplorerAssumption, LenProperties
  <2>2. order \in [1..Len(InOrder) -> Nodes]
    BY <2>1 DEF HashOrders
  <2> QED BY <2>1, <2>2, SeqDef
<1>4. PICK t : t = [ex EXCEPT !.snapshot = v]
  OBVIOUS
<1>5. Fits(t, OnWorkers("dir"), OnWorkers("file"))
  BY <1>1, <1>4, WorkersHold, SnapshotFits
<1>6. FileStep(t, LiveReload(t), OnWorkers("file"))
  BY <1>1, <1>5, WorkersHold, ReloadFits DEF Fits
<1>7. PICK u : u = LiveReload(t) /\ Fits(u, OnWorkers("dir"), OnWorkers("file"))
  BY <1>5, <1>6, FileStepFits
<1>8. Fits(StatusRelist(u, order), OnWorkers("dir"), OnWorkers("file"))
  BY <1>1, <1>3, <1>7, WorkersHold, StatusRelistFits
<1> QED BY <1>1, <1>2, <1>4, <1>7, <1>8, HandlerKeeps

LEMMA SpawnLoadKeeps ==
    ASSUME EInv, SpawnLoad
    PROVE  EInv'
<1>1. /\ version' = version /\ inputs' \in Nat /\ loads \in Seq(Load) /\ version \in 1..version
      /\ Fits(ex, OnWorkers("dir"), OnWorkers("file")) /\ Sound(ex)
      /\ ex.dirJobs \in Seq(DirJob) /\ ex.fileJobs \in Seq(FileJob)
  <2>1. version \in DOMAIN Disk /\ DOMAIN Disk = 1..Len(Disk) /\ Len(Disk) \in Nat
    BY ExplorerAssumption, LenProperties DEF EInv
  <2>2. version \in 1..version
    BY <2>1
  <2> QED BY <2>2 DEF EInv, SpawnLoad, Fits, Sound, Explorer
<1>2. CASE /\ ex.dirJobs # <<>>
           /\ loads' = Append(loads, [job |-> "dir", of |-> Head(ex.dirJobs), since |-> version])
           /\ ex' = [ex EXCEPT !.dirJobs = Tail(@)]
  <2>1. PICK j \in DirJob : \E rest \in Seq(DirJob) :
           /\ j = Head(ex.dirJobs) /\ rest = Tail(ex.dirJobs)
           /\ ToSet(ex.dirJobs) = ToSet(rest) \union {j}
    <3>1. /\ Head(ex.dirJobs) \in DirJob /\ Tail(ex.dirJobs) \in Seq(DirJob)
          /\ ToSet(ex.dirJobs) = ToSet(Tail(ex.dirJobs)) \union {Head(ex.dirJobs)}
      BY <1>1, <1>2, HeadHolds
    <3> QED BY <3>1, Zenon
  <2>2. PICK rest \in Seq(DirJob) :
           /\ j = Head(ex.dirJobs) /\ rest = Tail(ex.dirJobs)
           /\ ToSet(ex.dirJobs) = ToSet(rest) \union {j}
    BY <2>1
  <2>3. PICK l : l = [job |-> "dir", of |-> j, since |-> version]
    OBVIOUS
  <2>4. l \in Load /\ l.job = "dir"
    BY <1>1, <2>3 DEF Load
  <2>5. PICK w : w = [of |-> j, since |-> version] /\ w = [of |-> l.of, since |-> l.since]
    BY <2>3
  <2>6. loads' \in Seq(Load) /\ ToSet(loads') = ToSet(loads) \union {l}
    <3>1. Append(loads, l) \in Seq(Load) /\ ToSet(Append(loads, l)) = ToSet(loads) \union {l}
      BY <1>1, <2>4, BackHolds
    <3>2. loads' = Append(loads, l)
      BY <1>2, <2>2, <2>3
    <3> QED BY <3>1, <3>2
  <2>7. /\ OnWorkers("dir")' = OnWorkers("dir") \union {w}
        /\ OnWorkers("file")' = OnWorkers("file")
    <3>1. PICK L : L = ToSet(loads)
      OBVIOUS
    <3>2. PICK M : M = ToSet(loads') /\ M = L \union {l}
      BY <2>6, <3>1
    <3>3. /\ AsWork(M, "dir") = AsWork(L, "dir") \union {w}
          /\ AsWork(M, "file") = AsWork(L, "file")
      <4>1. M = L \union {l}
        BY <3>2
      <4>2. l.job = "dir" => AsWork(M, "dir") = AsWork(L, "dir") \union {[of |-> l.of, since |-> l.since]}
        BY <4>1, AsWorkHolds
      <4>3. l.job # "file" => AsWork(M, "file") = AsWork(L, "file")
        BY <4>1, AsWorkHolds
      <4> QED BY <2>4, <2>5, <4>2, <4>3
    <3> QED BY <3>1, <3>2, <3>3, OnWorkersHold
  <2>8. PICK t : t = [ex EXCEPT !.dirJobs = rest]
    OBVIOUS
  <2>9. t \in Explorer /\ t.dirJobs = rest /\ Alters(ex, t, {"dirJobs"})
    BY <1>1, <2>8 DEF Sound, Explorer, Alters, ExFields
  <2>10. Sound(t) /\ Alters(ex, t, {"dirJobs", "fileJobs"}) /\ t.fileJobs = ex.fileJobs
    BY <1>1, <2>9 DEF Sound, Alters, ExFields
  <2>11. DirWork(t, OnWorkers("dir") \union {w}) = DirWork(ex, OnWorkers("dir"))
    <3>1. Queued(ex.dirJobs) = Queued(rest) \union {w}
      BY <2>2, <2>5 DEF Queued
    <3> QED BY <2>9, <3>1 DEF DirWork
  <2>12. FileWork(t, OnWorkers("file")) = FileWork(ex, OnWorkers("file"))
    BY <2>10 DEF FileWork
  <2>13. Fits(t, OnWorkers("dir") \union {w}, OnWorkers("file"))
    BY <1>1, <2>10, <2>11, <2>12, SameWork
  <2>14. ex' = t
    BY <1>2, <2>2, <2>8
  <2> QED BY <1>1, <2>6, <2>7, <2>13, <2>14, WorkerKeeps
<1>3. CASE /\ ex.fileJobs # <<>>
           /\ loads' = Append(loads, [job |-> "file", of |-> Head(ex.fileJobs), since |-> version])
           /\ ex' = [ex EXCEPT !.fileJobs = Tail(@)]
  <2>1. PICK j \in FileJob : \E rest \in Seq(FileJob) :
           /\ j = Head(ex.fileJobs) /\ rest = Tail(ex.fileJobs)
           /\ ToSet(ex.fileJobs) = ToSet(rest) \union {j}
    <3>1. /\ Head(ex.fileJobs) \in FileJob /\ Tail(ex.fileJobs) \in Seq(FileJob)
          /\ ToSet(ex.fileJobs) = ToSet(Tail(ex.fileJobs)) \union {Head(ex.fileJobs)}
      BY <1>1, <1>3, HeadHolds
    <3> QED BY <3>1, Zenon
  <2>2. PICK rest \in Seq(FileJob) :
           /\ j = Head(ex.fileJobs) /\ rest = Tail(ex.fileJobs)
           /\ ToSet(ex.fileJobs) = ToSet(rest) \union {j}
    BY <2>1
  <2>3. PICK l : l = [job |-> "file", of |-> j, since |-> version]
    OBVIOUS
  <2>4. l \in Load /\ l.job = "file"
    BY <1>1, <2>3 DEF Load
  <2>5. PICK w : w = [of |-> j, since |-> version] /\ w = [of |-> l.of, since |-> l.since]
    BY <2>3
  <2>6. loads' \in Seq(Load) /\ ToSet(loads') = ToSet(loads) \union {l}
    <3>1. Append(loads, l) \in Seq(Load) /\ ToSet(Append(loads, l)) = ToSet(loads) \union {l}
      BY <1>1, <2>4, BackHolds
    <3>2. loads' = Append(loads, l)
      BY <1>3, <2>2, <2>3
    <3> QED BY <3>1, <3>2
  <2>7. /\ OnWorkers("file")' = OnWorkers("file") \union {w}
        /\ OnWorkers("dir")' = OnWorkers("dir")
    <3>1. PICK L : L = ToSet(loads)
      OBVIOUS
    <3>2. PICK M : M = ToSet(loads') /\ M = L \union {l}
      BY <2>6, <3>1
    <3>3. /\ AsWork(M, "file") = AsWork(L, "file") \union {w}
          /\ AsWork(M, "dir") = AsWork(L, "dir")
      <4>1. M = L \union {l}
        BY <3>2
      <4>2. l.job = "file" => AsWork(M, "file") = AsWork(L, "file") \union {[of |-> l.of, since |-> l.since]}
        BY <4>1, AsWorkHolds
      <4>3. l.job # "dir" => AsWork(M, "dir") = AsWork(L, "dir")
        BY <4>1, AsWorkHolds
      <4> QED BY <2>4, <2>5, <4>2, <4>3
    <3> QED BY <3>1, <3>2, <3>3, OnWorkersHold
  <2>8. PICK t : t = [ex EXCEPT !.fileJobs = rest]
    OBVIOUS
  <2>9. t \in Explorer /\ t.fileJobs = rest /\ Alters(ex, t, {"fileJobs"})
    BY <1>1, <2>8 DEF Sound, Explorer, Alters, ExFields
  <2>10. Sound(t) /\ Alters(ex, t, {"dirJobs", "fileJobs"}) /\ t.dirJobs = ex.dirJobs
    BY <1>1, <2>9 DEF Sound, Alters, ExFields
  <2>11. FileWork(t, OnWorkers("file") \union {w}) = FileWork(ex, OnWorkers("file"))
    <3>1. Queued(ex.fileJobs) = Queued(rest) \union {w}
      BY <2>2, <2>5 DEF Queued
    <3> QED BY <2>9, <3>1 DEF FileWork
  <2>12. DirWork(t, OnWorkers("dir")) = DirWork(ex, OnWorkers("dir"))
    BY <2>10 DEF DirWork
  <2>13. Fits(t, OnWorkers("dir"), OnWorkers("file") \union {w})
    BY <1>1, <2>10, <2>11, <2>12, SameWork
  <2>14. ex' = t
    BY <1>3, <2>2, <2>8
  <2> QED BY <1>1, <2>6, <2>7, <2>13, <2>14, WorkerKeeps
<1> QED BY <1>2, <1>3 DEF SpawnLoad

\* A worker that ends takes its work with it.
LEMMA LoadEndsHolds ==
    ASSUME EInv, NEW i, NEW job \in {"dir", "file"}, NEW ok \in BOOLEAN, LoadEnds(i, job, ok)
    PROVE  \E w :
             /\ w = [of |-> loads[i].of, since |-> loads[i].since]
             /\ version' = version /\ inputs' \in Nat /\ loads' \in Seq(Load)
             /\ loads[i] \in Load /\ loads[i].job = job
             /\ OnWorkers(job) = OnWorkers(job)' \union {w}
             /\ OnWorkers(job)' \subseteq OnWorkers(job)
             /\ \A other \in {"dir", "file"} \ {job} : OnWorkers(other)' = OnWorkers(other)
<1>1. /\ i \in 1..Len(loads) /\ loads[i].job = job /\ loads' = RemoveAt(loads, i)
      /\ version' = version /\ loads[i] \in Load /\ loads \in Seq(Load)
  BY WorkersHold DEF LoadEnds, EInv
<1>2. inputs' \in Nat
  BY DEF EInv, LoadEnds
<1>3. loads' \in Seq(Load) /\ ToSet(loads) = ToSet(loads') \union {loads[i]}
  BY <1>1, RemoveAtHolds
<1>4. PICK l : l = loads[i]
  OBVIOUS
<1>5. PICK L : L = ToSet(loads')
  OBVIOUS
<1>6. PICK w : w = [of |-> l.of, since |-> l.since]
  OBVIOUS
<1>7. AsWork(L \union {l}, job) = AsWork(L, job) \union {w}
  <2>1. l.job = job
    BY <1>1, <1>4
  <2>2. AsWork(L \union {l}, job) = AsWork(L, job) \union {[of |-> l.of, since |-> l.since]}
    BY <2>1, AsWorkHolds
  <2> QED BY <1>6, <2>2
<1>8. OnWorkers(job) = AsWork(L \union {l}, job) /\ OnWorkers(job)' = AsWork(L, job)
  BY <1>3, <1>4, <1>5, OnWorkersHold
<1>9. ASSUME NEW other \in {"dir", "file"} \ {job} PROVE OnWorkers(other)' = OnWorkers(other)
  <2>1. l.job # other
    BY <1>1, <1>4, <1>9
  <2>2. AsWork(L \union {l}, other) = AsWork(L, other)
    BY <2>1, AsWorkHolds
  <2>3. OnWorkers(other) = AsWork(L \union {l}, other) /\ OnWorkers(other)' = AsWork(L, other)
    BY <1>3, <1>4, <1>5, OnWorkersHold
  <2> QED BY <2>2, <2>3
<1>10. OnWorkers(job) = OnWorkers(job)' \union {w} /\ OnWorkers(job)' \subseteq OnWorkers(job)
  BY <1>7, <1>8
<1>11. w = [of |-> loads[i].of, since |-> loads[i].since]
  BY <1>4, <1>6
<1> QED BY <1>1, <1>2, <1>3, <1>9, <1>10, <1>11

LEMMA LandDirKeeps ==
    ASSUME EInv, NEW i, NEW ok \in BOOLEAN, LandDir(i, ok)
    PROVE  EInv'
<1>1. LoadEnds(i, "dir", ok)
  BY DEF LandDir
<1>2. PICK w :
         /\ w = [of |-> loads[i].of, since |-> loads[i].since]
         /\ version' = version /\ inputs' \in Nat /\ loads' \in Seq(Load)
         /\ loads[i] \in Load /\ loads[i].job = "dir"
         /\ OnWorkers("dir") = OnWorkers("dir")' \union {w}
         /\ OnWorkers("dir")' \subseteq OnWorkers("dir")
         /\ \A other \in {"dir", "file"} \ {"dir"} : OnWorkers(other)' = OnWorkers(other)
  BY <1>1, LoadEndsHolds
<1>3. loads[i] \in [job : {"dir"}, of : DirJob, since : 1..version]
  BY <1>2 DEF Load
<1>4. w \in Work(DirJob) /\ w.of = loads[i].of /\ w.since = loads[i].since /\ w.of \in DirJob
  BY <1>2, <1>3 DEF Work
<1>5. PICK less \in SUBSET Work(DirJob) : less = OnWorkers("dir")'
  BY <1>2, WorkersHold
<1>6. PICK FW \in SUBSET Work(FileJob) : FW = OnWorkers("file") /\ FW = OnWorkers("file")'
  BY <1>2, WorkersHold
<1>7. PICK v \in w.since..version :
         LET j    == loads[i].of
             read == ok /\ (j.dir = Root \/ OnDisk(v, j.dir))
         IN  ex' = ApplyDir(ex, j, IF read THEN ListDir(v, j.dir) ELSE {}, read)
  BY <1>4 DEF LandDir
<1>8. PICK read \in BOOLEAN : read = (ok /\ (w.of.dir = Root \/ OnDisk(v, w.of.dir)))
  OBVIOUS
<1>9. PICK names \in SUBSET Nodes : names = IF read THEN ListDir(v, w.of.dir) ELSE {}
  BY DEF ListDir
<1>10. ex' = ApplyDir(ex, w.of, names, read)
  BY <1>4, <1>7, <1>8, <1>9
<1>11. Fits(ex, less \union {w}, FW) /\ version \in DOMAIN Disk
  BY <1>2, <1>5, <1>6 DEF EInv
<1>12. read => names = ListDir(v, w.of.dir)
  BY <1>9
<1>13. Fits(ApplyDir(ex, w.of, names, read), less, FW)
  BY <1>4, <1>11, <1>12, ApplyDirFits
<1> QED BY <1>2, <1>5, <1>6, <1>10, <1>13, WorkerKeeps

LEMMA LandFileKeeps ==
    ASSUME EInv, NEW i, NEW ok \in BOOLEAN, LandFile(i, ok)
    PROVE  EInv'
<1>1. LoadEnds(i, "file", ok)
  BY DEF LandFile
<1>2. PICK w :
         /\ w = [of |-> loads[i].of, since |-> loads[i].since]
         /\ version' = version /\ inputs' \in Nat /\ loads' \in Seq(Load)
         /\ loads[i] \in Load /\ loads[i].job = "file"
         /\ OnWorkers("file") = OnWorkers("file")' \union {w}
         /\ OnWorkers("file")' \subseteq OnWorkers("file")
         /\ \A other \in {"dir", "file"} \ {"file"} : OnWorkers(other)' = OnWorkers(other)
  BY <1>1, LoadEndsHolds
<1>3. loads[i] \in [job : {"file"}, of : FileJob, since : 1..version]
  BY <1>2 DEF Load
<1>4. w \in Work(FileJob) /\ w.of = loads[i].of /\ w.since = loads[i].since /\ w.of \in FileJob
  BY <1>2, <1>3 DEF Work
<1>5. PICK less \in SUBSET Work(FileJob) : less = OnWorkers("file")'
  BY <1>2, WorkersHold
<1>6. PICK DW \in SUBSET Work(DirJob) : DW = OnWorkers("dir") /\ DW = OnWorkers("dir")'
  BY <1>2, WorkersHold
<1>7. PICK v \in w.since..version :
         LET j == loads[i].of
         IN  ex' = ApplyFile(ex, j, IF ok THEN BodyOf(j.kind, v, j.file) ELSE Nothing)
  BY <1>4 DEF LandFile
<1>8. version \in Nat /\ version \in DOMAIN Disk /\ v \in DOMAIN Disk
  <2>1. DOMAIN Disk = 1..Len(Disk) /\ Len(Disk) \in Nat
    BY ExplorerAssumption, LenProperties
  <2>2. version \in Nat /\ version \in DOMAIN Disk
    BY WorkersHold DEF EInv
  <2>3. w.since \in 1..version
    BY <1>4 DEF Work
  <2> QED BY <2>1, <2>2, <2>3
<1>9. PICK body \in Stamps : body = IF ok THEN BodyOf(w.of.kind, v, w.of.file) ELSE Nothing
  <2>1. w.of.file \in Files
    BY <1>4 DEF FileJob
  <2>2. Disk[v] \in [Files -> Nat \X Letters]
    BY <1>8, ExplorerAssumption
  <2>3. PICK f \in Files : f = w.of.file
    BY <2>1
  <2>4. Disk[v][f] \in Nat \X Letters
    BY <2>2
  <2>5. Disk[v][f] \in Stamps /\ <<Token(v, f), "clean">> \in Stamps
    BY <2>4 DEF Stamps, Token, Letters
  <2>6. Nothing \in Stamps
    BY DEF Nothing, Stamps, Letters
  <2> QED BY <2>3, <2>5, <2>6 DEF BodyOf
<1>10. ex' = ApplyFile(ex, w.of, body)
  BY <1>4, <1>7, <1>9
<1>11. Fits(ex, DW, less \union {w})
  BY <1>2, <1>5, <1>6 DEF EInv
<1>12. body = Nothing \/ body = BodyOf(w.of.kind, v, w.of.file)
  BY <1>9
<1>13. Fits(ApplyFile(ex, w.of, body), DW, less)
  BY <1>4, <1>8, <1>11, <1>12, ApplyFileFits
<1> QED BY <1>2, <1>5, <1>6, <1>10, <1>13, WorkerKeeps

LEMMA ExplorerStarts == ExplorerInit => EInv
<1> SUFFICES ASSUME ExplorerInit PROVE EInv
  OBVIOUS
<1>1. version \in DOMAIN Disk /\ version = 1 /\ inputs \in Nat /\ loads \in Seq(Load) /\ loads = <<>>
  <2>1. Len(Disk) \in Nat /\ Len(Disk) > 0 /\ DOMAIN Disk = 1..Len(Disk)
    BY ExplorerAssumption, LenProperties
  <2> QED BY <2>1 DEF ExplorerInit
<1>2. ToSet(loads) = {}
  BY <1>1 DEF ToSet
<1>3. OnWorkers("dir") = {} /\ OnWorkers("file") = {}
  BY <1>2 DEF OnWorkers
<1>4. PICK s : s = ex
  OBVIOUS
<1>5. /\ s \in Explorer /\ ~s.open /\ ~s.active /\ s.expanded = {Root} /\ s.snapshot = 1
      /\ s.files = <<>> /\ s.file = 0 /\ s.dirJobs = <<>> /\ s.fileJobs = <<>>
  <2>1. Root \in Dirs
    BY ExplorerAssumption
  <2>2. <<>> \in Seq(Inner) /\ <<>> \in Seq(DirJob) /\ <<>> \in Seq(FileJob)
    BY EmptySeq
  <2> QED BY <1>4, <2>1, <2>2 DEF ExplorerInit, NewExplorer, Explorer, NoReq, NoCursor
<1>6. Sound(s)
  BY <1>1, <1>5 DEF Sound
<1>7. DirWork(s, {}) = {} /\ FileWork(s, {}) = {}
  BY <1>5 DEF DirWork, FileWork, Queued, ToSet
<1>8. TreeFits(s, {}, {})
  BY <1>5, <1>7 DEF TreeFits
<1>9. FilesFit(s, {})
  <2>1. Len(<<>>) = 0
    OBVIOUS
  <2>2. s.file \in 0..Len(s.files)
    BY <1>5, <2>1
  <2> QED BY <1>5, <1>7, <2>2 DEF FilesFit
<1> QED BY <1>1, <1>3, <1>4, <1>6, <1>8, <1>9 DEF EInv, Fits

LEMMA ExplorerSteps == EInv /\ [ExplorerNext]_explorerVars => EInv'
<1> SUFFICES ASSUME EInv, [ExplorerNext]_explorerVars PROVE EInv'
  OBVIOUS
<1>1. CASE UNCHANGED explorerVars
  <2>1. Fits(ex', OnWorkers("dir"), OnWorkers("file")) /\ loads' = loads /\ version' = version /\ inputs' \in Nat
    BY <1>1 DEF explorerVars, EInv
  <2> QED BY <2>1, HandlerKeeps
<1>2. CASE \E n \in Nodes \union {Root} : OpenExplorer(n)
  BY <1>2, OpenExplorerKeeps
<1>3. CASE \E f \in Files : OpenFile(f)
  BY <1>3, OpenFileKeeps
<1>4. CASE \E n \in Nodes : MoveCursor(n)
  BY <1>4, MoveCursorKeeps
<1>5. CASE \E d \in Dirs : FoldDir(d)
  BY <1>5, FoldDirKeeps
<1>6. CASE CloseOrParent \/ EnterFile \/ CycleInner \/ CloseInner
  BY <1>6, CloseOrParentKeeps, EnterFileKeeps, CycleInnerKeeps, CloseInnerKeeps
<1>7. CASE CloseExplorer \/ Refresh \/ EditorReturns \/ SwitchTab \/ ToggleOverlay
  BY <1>7, CloseExplorerKeeps, RefreshKeeps, EditorReturnsKeeps, SwitchTabKeeps, ToggleOverlayKeeps
<1>8. CASE FilesChange \/ \E v \in DOMAIN Disk : StatusArrives(v)
  BY <1>8, FilesChangeKeeps, StatusArrivesKeeps
<1>9. CASE SpawnLoad
  BY <1>9, SpawnLoadKeeps
<1>10. CASE \E i \in DOMAIN loads, ok \in BOOLEAN : LandDir(i, ok) \/ LandFile(i, ok)
  BY <1>10, LandDirKeeps, LandFileKeeps
<1> QED BY <1>1, <1>2, <1>3, <1>4, <1>5, <1>6, <1>7, <1>8, <1>9, <1>10 DEF ExplorerNext

\* Every state of the tab satisfies the inductive invariant.
THEOREM ExplorerInvariant == ExplorerSpec => []EInv
<1>1. ExplorerInit => EInv
  BY ExplorerStarts
<1>2. EInv /\ [ExplorerNext]_explorerVars => EInv'
  BY ExplorerSteps
<1> QED BY <1>1, <1>2, PTL DEF ExplorerSpec

-----------------------------------------------------------------------------
(* What the invariant says of the Explorer tab *)

LEMMA WorkIsOutstanding ==
    ASSUME NEW job, NEW queue, NEW w \in Queued(queue) \union OnWorkers(job)
    PROVE  w.of \in Outstanding(job, queue)
<1>1. CASE w \in Queued(queue)
  BY <1>1 DEF Queued, Outstanding
<1>2. CASE w \in OnWorkers(job)
  <2>1. PICK l \in {k \in ToSet(loads) : k.job = job} : w = [of |-> l.of, since |-> l.since]
    BY <1>2 DEF OnWorkers
  <2>2. w.of = l.of
    BY <2>1
  <2> QED BY <2>2 DEF Outstanding
<1> QED BY <1>1, <1>2

LEMMA InvSettles == EInv => ExplorerSettled
<1> SUFFICES ASSUME EInv, ex.open PROVE ExplorerSettled
  BY DEF ExplorerSettled
<1>1. /\ Sound(ex) /\ TreeFits(ex, OnWorkers("dir"), {}) /\ FilesFit(ex, OnWorkers("file"))
      /\ DOMAIN ex.files = 1..Len(ex.files)
  BY TabsHold DEF EInv, Fits
<1>2. ASSUME NEW d \in ex.asked
      PROVE  \E j \in Outstanding("dir", ex.dirJobs) : j.id = ex.id /\ j.dir = d /\ j.req = ex.newest[d]
  <2>1. d \in Dirs
    BY <1>1, <1>2 DEF Sound, Explorer
  <2>2. PICK w \in DirWork(ex, OnWorkers("dir")) : DueDir(ex, w, d)
    BY <1>1, <1>2, <2>1 DEF TreeFits, Waiting
  <2>3. PICK j : j = w.of /\ j = [id |-> ex.id, req |-> ex.newest[d], dir |-> d]
    BY <2>2 DEF DueDir
  <2>4. j \in Outstanding("dir", ex.dirJobs)
    BY <2>2, <2>3, WorkIsOutstanding DEF DirWork
  <2> QED BY <2>3, <2>4
<1>3. ASSUME NEW i \in DOMAIN ex.files, ~ex.files[i].loaded
      PROVE  \E j \in Outstanding("file", ex.fileJobs) :
                j.id = ex.id /\ j.gen = ex.files[i].gen /\ j.kind = ex.files[i].kind
  <2>1. InnerFits(ex, OnWorkers("file"), ex.files[i])
    BY <1>1, <1>3 DEF FilesFit
  <2>2. PICK w \in FileWork(ex, OnWorkers("file")) : DueFile(ex, w, ex.files[i])
    BY <1>3, <2>1 DEF InnerFits
  <2>3. w.of.id = ex.id /\ w.of.gen = ex.files[i].gen /\ w.of.kind = ex.files[i].kind
    BY <2>1, <2>2 DEF InnerFits, DueFile
  <2>4. w.of \in Outstanding("file", ex.fileJobs)
    BY <2>2, WorkIsOutstanding DEF FileWork
  <2> QED BY <2>3, <2>4
<1>4. ex.file \in (IF ex.files = <<>> THEN {0} ELSE DOMAIN ex.files)
  <2>1. Len(ex.files) \in Nat
    BY <1>1, TabsHold
  <2> QED BY <1>1, <2>1 DEF FilesFit
<1>5. \A i, k \in DOMAIN ex.files : i # k =>
         /\ ex.files[i].of # ex.files[k].of /\ ex.files[i].gen # ex.files[k].gen
         /\ ex.files[i].pinned \/ ex.files[k].pinned
  BY <1>1, Zenon DEF FilesFit, Apart
<1> QED BY <1>2, <1>3, <1>4, <1>5, Zenon DEF ExplorerSettled

\* A reload leaves the stamp of the file in sight as it is now.
LEMMA ReloadStamps ==
    ASSUME NEW s, Sound(s), version \in DOMAIN Disk, s.file \in 1..Len(s.files),
           s.files \in Seq(Inner), ~s.overlay, s.active
    PROVE  LiveReload(s).files[s.file].stamp = FileStamp(s, Shown(s).of)
<1>1. Shown(s) \in Inner /\ s \in Explorer
  BY Places DEF Shown, Sound
<1>2. PICK f : f = Shown(s).of
  OBVIOUS
<1>3. PICK r \in Inner : r = Shown(s) /\ r = s.files[s.file]
  BY <1>1 DEF Shown
<1>4. /\ Marked(s) \in Inner /\ Marked(s).stamp = FileStamp(s, Shown(s).of)
      /\ Again(s) \in Inner /\ Again(s).stamp = FileStamp(s, Shown(s).of)
      /\ LiveReload(s) =
           IF Shown(s).stamp = FileStamp(s, Shown(s).of) THEN s
           ELSE IF Token(version, Shown(s).of) = 0 THEN [s EXCEPT !.files = WithTab(s, Marked(s))]
           ELSE LoadFile([s EXCEPT !.files = WithTab(s, Again(s)), !.gen = s.gen + 1], Shown(s).of, s.gen + 1)
  BY <1>1, ReloadShape
<1>5. PICK m \in Inner, a \in Inner :
         m = Marked(s) /\ m.stamp = FileStamp(s, f) /\ a = Again(s) /\ a.stamp = FileStamp(s, f)
  BY <1>2, <1>4
<1>6. LiveReload(s) =
         IF Shown(s).stamp = FileStamp(s, f) THEN s
         ELSE IF Token(version, f) = 0 THEN [s EXCEPT !.files = WithTab(s, m)]
         ELSE LoadFile([s EXCEPT !.files = WithTab(s, a), !.gen = s.gen + 1], f, s.gen + 1)
  BY <1>2, <1>4, <1>5
<1>7. WithTab(s, m)[s.file] = m /\ WithTab(s, a)[s.file] = a
  BY PutHolds DEF WithTab
<1>8. CASE Shown(s).stamp = FileStamp(s, f)
  BY <1>2, <1>3, <1>6, <1>8
<1>9. CASE Shown(s).stamp # FileStamp(s, f) /\ Token(version, f) = 0
  <2>1. [s EXCEPT !.files = WithTab(s, m)].files = WithTab(s, m)
    BY <1>1 DEF Explorer
  <2>2. LiveReload(s).files = WithTab(s, m)
    BY <1>6, <1>9, <2>1
  <2> QED BY <1>2, <1>5, <1>7, <2>2
<1>10. CASE Shown(s).stamp # FileStamp(s, f) /\ Token(version, f) # 0
  <2>1. PICK t : t = [s EXCEPT !.files = WithTab(s, a), !.gen = s.gen + 1]
    OBVIOUS
  <2>2. t.files = WithTab(s, a) /\ DOMAIN t = DOMAIN s /\ "files" \in DOMAIN s /\ "fileJobs" # "files"
    BY <1>1, <2>1 DEF Explorer
  <2>3. \A q : [t EXCEPT !.fileJobs = q].files = t.files
    BY <2>2
  <2>4. LoadFile(t, f, s.gen + 1).files = t.files
    BY <2>3 DEF LoadFile
  <2>5. LiveReload(s).files = WithTab(s, a)
    BY <1>6, <1>10, <2>1, <2>2, <2>4
  <2> QED BY <1>2, <1>5, <1>7, <2>5
<1> QED BY <1>8, <1>9, <1>10

\* In a quiet state no work is left, and the next status would do nothing.
LEMMA QuietHolds ==
    ASSUME EInv, Quiet, ex.open
    PROVE  /\ DirWork(ex, OnWorkers("dir")) = {} /\ FileWork(ex, OnWorkers("file")) = {}
           /\ ex.snapshot = version /\ LiveReload(ex).files = ex.files
           /\ Sound(LiveReload(ex)) /\ Alters(ex, LiveReload(ex), FileMoves \union {"fileJobs"})
           /\ Relisting(LiveReload(ex), InOrder).dirs = <<>>
           /\ Relisting(LiveReload(ex), InOrder).marked = ex.relisted
<1>1. /\ Fits(ex, OnWorkers("dir"), OnWorkers("file")) /\ Sound(ex) /\ version \in DOMAIN Disk
      /\ InOrder \in Seq(Nodes)
  BY ExplorerAssumption DEF EInv, Fits
<1>2. /\ ex.dirJobs = <<>> /\ ex.fileJobs = <<>> /\ loads = <<>> /\ ex.snapshot = version
      /\ StatusRelist(LiveReload(ex), InOrder) = ex
  BY DEF Quiet
<1>3. ToSet(<<>>) = {}
  BY EmptyIsListed
<1>4. DirWork(ex, OnWorkers("dir")) = {} /\ FileWork(ex, OnWorkers("file")) = {}
  BY <1>2, <1>3 DEF DirWork, FileWork, Queued, OnWorkers
<1>5. PICK s : s = LiveReload(ex) /\ FileStep(ex, s, OnWorkers("file"))
  BY <1>1, WorkersHold, ReloadFits DEF Fits
<1>6. Sound(s) /\ Alters(ex, s, FileMoves \union {"fileJobs"}) /\ s.open /\ s.req = ex.req
  BY <1>5 DEF FileStep, Alters, ExFields, FileMoves
<1>7. PICK all : all = Relisting(s, InOrder)
  OBVIOUS
<1>8. all \in Relist /\ ex = LoadDirs([s EXCEPT !.relisted = all.marked], all.dirs)
  BY <1>1, <1>2, <1>5, <1>6, <1>7, RelistingHolds DEF Sifted
<1>9. all.dirs \in Seq(Dirs) /\ all.marked \in SUBSET Files
  BY <1>8 DEF Relist
<1>10. PICK t : t = [s EXCEPT !.relisted = all.marked]
  OBVIOUS
<1>11. t \in Explorer /\ t.relisted = all.marked /\ Alters(s, t, {"relisted"})
  BY <1>6, <1>9, <1>10 DEF Sound, Explorer, Alters, ExFields
<1>12. Sound(t) /\ t.req = s.req /\ t.files = s.files /\ t.req \in Nat
  BY <1>6, <1>11 DEF Sound, Alters, ExFields, Explorer
<1>13. ex.req = t.req + Len(all.dirs) /\ Alters(t, ex, {"req", "newest", "dirJobs"})
  BY <1>8, <1>9, <1>10, <1>12, LoadDirsShape
<1>14. ex.files = s.files /\ ex.relisted = all.marked
  BY <1>11, <1>12, <1>13 DEF Alters, ExFields
<1>15. all.dirs = <<>>
  <2>1. Len(all.dirs) = 0
    <3>1. Len(all.dirs) \in Nat
      BY <1>9, Places
    <3> QED BY <1>6, <1>12, <1>13, <3>1
  <2> QED BY <1>9, <2>1, EmptySeq
<1> QED BY <1>2, <1>4, <1>5, <1>6, <1>7, <1>14, <1>15

LEMMA InvFileCatchesUp == EInv => FileCatchesUp
<1> SUFFICES ASSUME EInv, Quiet, ex.active, ~ex.overlay, ex.file # 0
             PROVE  LET t == ex.files[ex.file]
                    IN  \/ Token(version, t.of) = 0 \/ t.missed \/ CameBack(t.kind, t.of)
                        \/ t.loaded /\ t.kind = KindOf(ex, t.of) /\ t.shown = BodyOf(t.kind, version, t.of)
  BY DEF FileCatchesUp
<1>1. /\ Sound(ex) /\ FilesFit(ex, OnWorkers("file")) /\ version \in DOMAIN Disk /\ version \in Nat
      /\ ex.files \in Seq(Inner) /\ DOMAIN ex.files = 1..Len(ex.files) /\ ex.file \in 1..Len(ex.files) /\ ex.open
  BY TabsHold, WorkersHold DEF EInv, Fits, Sound
<1>2. PICK t : t = ex.files[ex.file]
  OBVIOUS
<1>3. PICK f : f = t.of
  OBVIOUS
<1>4. /\ FileWork(ex, OnWorkers("file")) = {} /\ ex.snapshot = version
      /\ LiveReload(ex).files = ex.files
  BY <1>1, QuietHolds
<1>5. t.stamp = <<Token(version, f), Change(version, f)>>
  <2>1. LiveReload(ex).files[ex.file].stamp = FileStamp(ex, Shown(ex).of)
    BY <1>1, ReloadStamps
  <2>2. t.stamp = FileStamp(ex, f)
    BY <1>2, <1>3, <1>4, <2>1 DEF Shown
  <2> QED BY <1>4, <2>2 DEF FileStamp
<1>6. InnerFits(ex, OnWorkers("file"), t)
  BY <1>1, <1>2 DEF FilesFit
<1>7. PICK w \in 1..version : \E u \in 1..w :
         Stamped(t, u, w) /\ (Token(w, f) = 0 \/ LoadedSince(ex, OnWorkers("file"), t, u, w))
  BY <1>3, <1>6 DEF InnerFits, Fresh
<1>8. PICK u \in 1..w :
         Stamped(t, u, w) /\ (Token(w, f) = 0 \/ LoadedSince(ex, OnWorkers("file"), t, u, w))
  BY <1>7
<1>9. Token(w, f) = Token(version, f) /\ Change(u, f) = Change(version, f)
  BY <1>3, <1>5, <1>8 DEF Stamped
<1>10. CASE Token(w, f) = 0
  BY <1>2, <1>3, <1>9, <1>10
<1>11. CASE LoadedSince(ex, OnWorkers("file"), t, u, w) /\ ~t.missed
  <2>1. t.kind = KindOf(ex, f)
    BY <1>3, <1>4, <1>9, <1>11 DEF LoadedSince, KindFor, KindOf
  <2>2. PICK v \in w..version : t.loaded /\ t.shown = BodyOf(t.kind, v, f)
    BY <1>3, <1>4, <1>11 DEF LoadedSince
  <2>3. CASE BodyOf(t.kind, v, f) = BodyOf(t.kind, version, f)
    BY <1>2, <1>3, <2>1, <2>2, <2>3
  <2>4. CASE BodyOf(t.kind, v, f) # BodyOf(t.kind, version, f)
    <3>1. v \in 1..version /\ w \in 1..v
      BY <1>1
    <3>2. CameBack(t.kind, f)
      BY <1>9, <2>4, <3>1 DEF CameBack
    <3> QED BY <1>2, <1>3, <3>2
  <2> QED BY <2>3, <2>4
<1> QED BY <1>2, <1>8, <1>10, <1>11

LEMMA InvFoldersCatchUp == EInv => FoldersCatchUp
<1> SUFFICES ASSUME EInv, Quiet, ex.open, ~ex.unread, NEW f \in Files, Reports(version, f)
             PROVE  IF f \in ex.relisted
                    THEN Steady(f) => \E n \in Steps(f) : n \in ex.names[Parent[n]]
                    ELSE \A n \in Steps(f) :
                            Parent[n] \in ex.listed /\ InSight(ex, Parent[n]) => n \in ex.names[Parent[n]]
  BY DEF FoldersCatchUp
<1>1. PICK DW : DW = OnWorkers("dir")
  OBVIOUS
<1>2. /\ Sound(ex) /\ TreeFits(ex, DW, {}) /\ version \in DOMAIN Disk /\ version \in Nat
      /\ InOrder \in Seq(Nodes) /\ ToSet(InOrder) = Nodes /\ ex.newest \in [Dirs -> Nat]
  BY <1>1, WorkersHold, ExplorerAssumption DEF EInv, Fits, Sound, Explorer
<1>3. PICK s : s = LiveReload(ex)
  OBVIOUS
<1>4. PICK all : all = Relisting(s, InOrder)
  OBVIOUS
<1>5. /\ DirWork(ex, DW) = {} /\ ex.snapshot = version /\ Sound(s)
      /\ Alters(ex, s, FileMoves \union {"fileJobs"})
      /\ all.dirs = <<>> /\ all.marked = ex.relisted
  BY <1>1, <1>3, <1>4, QuietHolds
<1>6. \A n \in Steps(f) : n \in Nodes /\ Parent[n] \in Dirs
  BY StepsAreNodes, NodesHold
<1>7. \A d \in Dirs : ex.newest[d] = NoReq
  BY <1>2, <1>5 DEF TreeFits, Waiting
<1>8. CASE f \in ex.relisted
  <2>1. MarkFresh(ex, DW, f)
    BY <1>2, <1>8 DEF TreeFits
  <2>2. PICK u \in 1..version : Reports(u, f) /\ \E n \in Steps(f) : ListedSince(ex, DW, Parent[n], u)
    BY <1>5, <2>1 DEF MarkFresh
  <2>3. PICK n \in Steps(f) : ListedSince(ex, DW, Parent[n], u)
    BY <2>2
  <2>4. PICK v \in u..version : ex.names[Parent[n]] = ListDir(v, Parent[n])
    BY <1>6, <1>7, <2>3 DEF ListedSince
  <2>5. ASSUME Steady(f) PROVE n \in ex.names[Parent[n]]
    <3>1. Token(v, f) # 0
      BY <2>2, <2>5 DEF Steady
    <3>2. n = f \/ n \in ToSet(Ancestors[f])
      BY DEF Steps
    <3>3. OnDisk(v, n)
      BY <3>1, <3>2 DEF OnDisk
    <3> QED BY <1>6, <2>4, <3>3 DEF ListDir
  <2> QED BY <1>8, <2>5
<1>9. CASE f \notin ex.relisted
  <2>1. /\ s.snapshot = version /\ s.listed = ex.listed /\ s.names = ex.names /\ s.newest = ex.newest
        /\ s.expanded = ex.expanded
    BY <1>5 DEF Alters, ExFields, FileMoves
  <2>2. /\ Reported(s, InOrder) \in Seq(Files)
        /\ ToSet(Reported(s, InOrder)) = {g \in ToSet(InOrder) : g \in Files /\ Reports(s.snapshot, g)}
        /\ Sifted(s, Marks(s, InOrder), all, Reported(s, InOrder), Len(Reported(s, InOrder)))
    BY <1>2, <1>4, <1>5, RelistingHolds
  <2>3. f \in ToSet(Reported(s, InOrder))
    BY <1>2, <2>1, <2>2, NodesHold
  <2>4. PICK i \in 1..Len(Reported(s, InOrder)) : Reported(s, InOrder)[i] = f
    BY <2>2, <2>3, Places
  <2>5. InPlace(s, f)
    BY <1>5, <1>9, <2>2, <2>4 DEF Sifted
  <2>6. ASSUME NEW n \in Steps(f), Parent[n] \in ex.listed, InSight(ex, Parent[n])
        PROVE  n \in ex.names[Parent[n]]
    <3>1. InSight(s, Parent[n])
      BY <2>1, <2>6 DEF InSight
    <3>2. s.newest[Parent[n]] = NoReq
      BY <1>6, <1>7, <2>1
    <3> QED BY <2>1, <2>5, <2>6, <3>1, <3>2 DEF InPlace
  <2> QED BY <1>9, <2>6
<1> QED BY <1>8, <1>9

\* What waits in the Explorer is coming, whatever was pressed, closed, opened
\* again and reloaded meanwhile: a folder that paints "loading" has its newest
\* listing outstanding, an inner tab with nothing to show the load of its own
\* generation and kind, and there is one inner tab per file and one preview.
THEOREM ExplorerSettles == ExplorerSpec => []ExplorerSettled
<1>1. EInv => ExplorerSettled
  BY InvSettles
<1> QED BY <1>1, ExplorerInvariant, PTL

\* The Explorer follows the disk for every tree, history of the checkout,
\* number of workers and order of keys, edits, statuses and loads: when it is
\* quiet, the file in sight is shown as it is now, and the listings of open
\* folders have what the status reports, but for the exceptions that
\* ExplorerCatchesUp names.
THEOREM ExplorerFollowsDisk == ExplorerSpec => []ExplorerCatchesUp
<1>1. EInv => ExplorerCatchesUp
  BY InvFileCatchesUp, InvFoldersCatchUp DEF ExplorerCatchesUp
<1> QED BY <1>1, ExplorerInvariant, PTL

=============================================================================
