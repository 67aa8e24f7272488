------------------------------- MODULE Screen -------------------------------
(***************************************************************************)
(* The table the user acts on: app/nav.rs, app/listings.rs and the reload  *)
(* half of app/update.rs, as operators from one state of `App` to the      *)
(* next.  The table shows either the active tab's listing of the selected  *)
(* cluster (`lists`) or, in the all-clusters view, the slices the clusters *)
(* have sent so far (`agg.rows`), each reduced to the rows the search      *)
(* keeps (`visible`), one of which is selected.  Where the rows come from, *)
(* and whether they are the right cluster's, is the subject of Session;    *)
(* here a load may bring any of a few small listings.                      *)
(***************************************************************************)
EXTENDS Naturals, Sequences, FiniteSets, SequencesExt, Functions

CONSTANTS Root, Leaf,     \* the profile's clusters: the root and one leaf
          NoCluster,      \* no topology, or a command without a cluster flag
          Item,           \* names of nodes, databases, tokens, users, ...
          NoItem,         \* the message text of a placeholder row
          Needle,         \* the one name a well-typed search matches
          SliceItem,      \* the names each cluster's listings bring
          SliceFault,     \* how reading a cluster's slice may fail
          MaxRows,        \* rows of a listing (bound)
          Revisits        \* whether a tab left is come back to (bound)

ASSUME ScreenAssumption ==
    /\ Root # Leaf /\ NoCluster \notin {Root, Leaf}
    /\ NoItem \notin Item /\ Needle \in Item /\ MaxRows \in Nat \ {0} /\ Revisits \in BOOLEAN
    /\ SliceItem \in [{Root, Leaf} -> SUBSET Item]
    /\ SliceFault \in [{Root, Leaf} -> SUBSET {"login", "error"}]

Cluster == {Root, Leaf}

\* Roles, Bots and Inventory are Users without its two keys.
Tab == {"Ssh", "Kube", "Db", "Apps", "Users", "Requests", "Tokens", "Recordings"}
IsAdmin(tab) == tab \in {"Users", "Tokens"}
AdminGated(tab) == IsAdmin(tab) \/ tab \in {"Requests", "Recordings"}
SerialAggregation(tab) == IsAdmin(tab) \/ tab = "Recordings"

(***************************************************************************)
(* Rows.  `cluster` is the cluster the screen names for the row, `of` the  *)
(* one the row was read from: they differ while a listing of another       *)
(* cluster is still held.  "done" is an access request already decided;    *)
(* "login" and "error" are placeholders, a cluster that needs a login and  *)
(* one whose listing failed.                                               *)
(***************************************************************************)
Kinds(tab) == IF tab = "Requests" THEN {"row", "done"} ELSE {"row"}

RowFrom(c, item, kind) == [cluster |-> c, of |-> c, item |-> item, kind |-> kind]
NoRow == [kind |-> "none"]

\* What reading `cluster` may bring, and, in the all-clusters view, its slice.
MayBring(tab, cluster) ==
    {l \in BoundedSeq({RowFrom(cluster, i, k) : i \in SliceItem[cluster], k \in Kinds(tab)}, MaxRows) :
        \A i, j \in DOMAIN l : l[i].item = l[j].item => i = j}
Listings == [tab \in Tab |-> [cluster \in Cluster |-> MayBring(tab, cluster)]]
Listing(tab, cluster) == Listings[tab][cluster]
Slice(tab, cluster) ==
    (Listing(tab, cluster) \ {<<>>})
    \cup {<<RowFrom(cluster, NoItem, kind)>> :
            kind \in SliceFault[cluster] \cap
                       (IF SerialAggregation(tab) THEN {"login", "error"} ELSE {"error"})}

\* The prompt buffer: empty, typed in the present mode, or left by another.
Blank == ""
M(at) == [at |-> at]

(***************************************************************************)
(* What is shown, and what is selected.                                    *)
(***************************************************************************)
Shown(a) == IF a.agg THEN a.rows
            ELSE [i \in DOMAIN a.list |-> [a.list[i] EXCEPT !.cluster = a.scope]]

Matches(row) == row.item = Needle

\* The numbers of a finite set in increasing order, each at its rank.
Ascending(S) ==
    [i \in 1..Cardinality(S) |-> CHOOSE k \in S : Cardinality({j \in S : j <= k}) = i]

RecomputeVisible(a) ==
    LET shown == Shown(a)
        filtering == a.mode.at = "Search" /\ a.input # Blank
        kept == Ascending({i \in DOMAIN shown : filtering => Matches(shown[i])})
        first == IF a.sel = 0 THEN 1 ELSE a.sel
    IN  [a EXCEPT !.visible = kept,
                  !.sel = IF first > Len(kept) THEN Len(kept) ELSE first]

Highlight(a) ==
    IF a.sel \in DOMAIN a.visible /\ a.visible[a.sel] \in DOMAIN Shown(a)
    THEN Shown(a)[a.visible[a.sel]] ELSE NoRow

ClampStep(cur, len, forward) ==
    CASE len = 0 -> 0
      [] len # 0 /\ forward -> IF cur < len THEN cur + 1 ELSE len
      [] OTHER -> IF cur > 1 THEN cur - 1 ELSE 1

MoveSelection(a, forward) ==
    IF a.visible = <<>> THEN a
    ELSE [a EXCEPT !.sel =
            ClampStep(IF a.sel = 0 THEN 1 ELSE a.sel, Len(a.visible), forward)]

(***************************************************************************)
(* Loading.  `fresh` stands for the tab's cache marker being that of the   *)
(* scoped view, `cached` for the tab's part of the aggregate cache, the    *)
(* slice of each cluster in it, `pending` for those still to report.       *)
(***************************************************************************)
BeginTabRequest(a) == [a EXCEPT !.loading = TRUE, !.visible = <<>>, !.sel = 0]

\* The cluster left behind by the scoped view, when its listing is valid.
ScopedAggSeed(a) == IF IsAdmin(a.tab) THEN Root ELSE a.scope

NoSlices == <<>>
WithSlice(cached, cluster, slice) ==
    [c \in DOMAIN cached \cup {cluster} |-> IF c = cluster THEN slice ELSE cached[c]]
SliceOf(cached, cluster) == IF cluster \in DOMAIN cached THEN cached[cluster] ELSE <<>>

SeedAggFromCache(a) ==
    LET c == ScopedAggSeed(a)
        held == [i \in DOMAIN a.list |-> [a.list[i] EXCEPT !.cluster = c]]
        slices == IF a.fresh /\ c \notin DOMAIN a.cached
                  THEN WithSlice(a.cached, c, held) ELSE a.cached
        missing == Cluster \ DOMAIN slices
    IN  RecomputeVisible([a EXCEPT !.rows = SliceOf(slices, Root) \o SliceOf(slices, Leaf),
                                   !.cached = slices, !.pending = missing,
                                   !.loading = missing # {}, !.sel = 0])

ReloadActive(a) ==
    CASE a.agg /\ a.scope # NoCluster -> SeedAggFromCache(a)
      [] ~a.agg /\ (IsAdmin(a.tab) \/ a.scope # NoCluster) -> BeginTabRequest(a)
      [] OTHER -> a

\* `r` and the auto-refresh: nothing while a load is under way, a retry of
\* `tsh clusters` without a topology, else the tab is fetched anew.
ForceReload(a) ==
    CASE a.loading -> a
      [] ~a.loading /\ a.scope = NoCluster -> a
      [] OTHER -> ReloadActive([a EXCEPT !.fresh = FALSE, !.cached = NoSlices])

InvalidateTab(a, tab) ==
    IF a.tab = tab THEN ReloadActive([a EXCEPT !.fresh = FALSE]) ELSE a

\* Read from the selected cluster, or, by an admin tab without a topology,
\* from the profile's own.
HeldListing(a) == Listing(a.tab, IF a.scope = NoCluster THEN Root ELSE a.scope)

\* The tab's listing arrived, or its request failed.
ApplyTab(a) ==
    {RecomputeVisible([a EXCEPT !.loading = FALSE, !.list = l, !.fresh = TRUE]) :
        l \in HeldListing(a)}
    \cup {RecomputeVisible([a EXCEPT !.loading = FALSE, !.list = <<>>, !.fresh = FALSE])}

\* One cluster's slice of the fan-out on screen arrived.  A concurrent (-c)
\* fan-out does not cache an error.
ApplyAggCluster(a, cluster) ==
    {RecomputeVisible(
        [a EXCEPT !.rows = @ \o s, !.pending = @ \ {cluster},
                  !.loading = a.pending # {cluster},
                  !.cached = IF s[1].kind = "error" /\ ~SerialAggregation(a.tab)
                             THEN @ ELSE WithSlice(@, cluster, s)]) :
        s \in Slice(a.tab, cluster)}

(***************************************************************************)
(* Navigation.  A tab on screen before may hold a listing of any cluster,  *)
(* valid or not.  Slices cached for a view that is not on screen are       *)
(* forgotten: served from the cache they would all land at once.           *)
(***************************************************************************)
SwitchTab(a, tab) ==
    IF tab = a.tab THEN {a}
    ELSE LET to(l, f) == [a EXCEPT !.tab = tab, !.input = Blank, !.mode = M("Normal"),
                                   !.sel = 0, !.list = l, !.fresh = f,
                                   !.rows = <<>>, !.cached = NoSlices]
             held == IF a.scope = NoCluster \/ ~Revisits THEN {<<>>}
                     ELSE UNION {Listing(tab, c) : c \in Cluster}
             valid == {l \in held : \A i \in DOMAIN l : l[i].of = a.scope}
         IN  {ReloadActive(to(l, FALSE)) : l \in held}
             \cup (IF a.agg \/ a.scope = NoCluster \/ ~Revisits THEN {}
                   ELSE {RecomputeVisible([to(l, TRUE) EXCEPT !.loading = FALSE]) : l \in valid})

\* A listing is that of the selected cluster, an admin tab's of the root.
StillFresh(a, cluster) == a.fresh /\ (cluster = a.scope \/ IsAdmin(a.tab))

\* The picker's two view changes: all clusters, or one of them.
SelectAllClusters(a) == ReloadActive([a EXCEPT !.agg = TRUE])
SelectScopedCluster(a, cluster) ==
    ReloadActive([a EXCEPT !.agg = FALSE, !.scope = cluster, !.pending = {},
                           !.rows = <<>>, !.cached = NoSlices,
                           !.fresh = StillFresh(a, cluster)])

\* A new topology: the profile's own cluster is selected, and the aggregate
\* cache is dropped if the clusters online changed.
Reselect(a, cluster, slices) ==
    ReloadActive([a EXCEPT !.scope = cluster, !.cached = slices,
                           !.fresh = StillFresh(a, cluster)])
ApplyTopology(a) == {Reselect(a, s, c) : s \in Cluster, c \in {NoSlices, a.cached}}

ClearSession(a) ==
    RecomputeVisible(
        [a EXCEPT !.list = <<>>, !.mode = M("Normal"), !.rows = <<>>, !.cached = NoSlices,
                  !.fresh = FALSE, !.scope = NoCluster, !.agg = FALSE, !.tab = "Ssh",
                  !.pending = {}, !.loading = FALSE])

EnterProfile(a) == [ClearSession(a) EXCEPT !.restore = FALSE, !.relogin = FALSE]
=============================================================================
