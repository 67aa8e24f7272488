------------------------------- MODULE Session -------------------------------
(***************************************************************************)
(* The session the UI shows (app/update.rs, app/nav.rs, App in app/mod.rs): *)
(* the per-tab listings and their cache markers, the all-clusters view and *)
(* its per-cluster cache, the loading flag, and the request numbers that   *)
(* tell a late result from a current one.                                  *)
(*                                                                         *)
(* `app` is the App struct; a handler of the code is an operator from App  *)
(* to App, composed as the code composes its calls.  Jobs the dispatcher   *)
(* runs are the set app.flight; their results arrive in any order.  A      *)
(* listing is where its rows come from: the cluster and the profile (its   *)
(* generation) they were read under.  Who may move the profile meanwhile   *)
(* is ActiveProfile's subject: here a pooled admin read reads root.        *)
(***************************************************************************)
EXTENDS Naturals, FiniteSets

CONSTANTS
    ScopedTab,  \* tabs listed with `tsh -c <cluster>`
    AdminTab,   \* tabs listed with `tctl`, which has no cluster flag
    Home,       \* the tab a session starts on (SSH)
    Cluster, Root,
    MaxActs,    \* bound: what users and timers do
    None        \* no cluster, no listing

Tab == ScopedTab \cup AdminTab

\* cache_key: no listing is cached, and the one key of the tabs of tctl.
NoKey == "no key"
Admin == "@admin"

ASSUME SessionAssumption ==
    /\ Home \in ScopedTab
    /\ ScopedTab \cap AdminTab = {}
    /\ Root \in Cluster /\ IsFiniteSet(Cluster)
    /\ MaxActs \in Nat
    /\ Cluster \cap {None, Admin, NoKey} = {}

\* What a listing holds: the rows read from a cluster under a profile, nothing
\* (it was cleared), or the error row of a cluster that could not be listed.
Listing == [is : {"rows", "cleared", "failed"}, cluster : Cluster \cup {None}, gen : Nat]
RowsOf(c, g) == [is |-> "rows", cluster |-> c, gen |-> g]
Cleared == [is |-> "cleared", cluster |-> None, gen |-> 0]
Failed == [is |-> "failed", cluster |-> None, gen |-> 0]

Job ==
    [kind : {"tab", "prefetch", "slice", "clusters"}, tab : Tab, seq : Nat,
     cluster : Cluster \cup {None}, gen : Nat]

App ==
    [tab : Tab, selected : Cluster \cup {None}, online : SUBSET Cluster,
     lists : [Tab -> Listing], cacheKey : [Tab -> Cluster \cup {None, Admin, NoKey}],
     aggOn : BOOLEAN, aggSeq : Nat, aggFloor : Nat, pending : Nat,
     rows : SUBSET [cluster : Cluster, from : Listing],
     aggCache : [Tab \X Cluster -> Listing \cup {None}],
     tabReq : Nat, prefetchSeq : Nat, prefetchCluster : Cluster \cup {None},
     loading : BOOLEAN, gen : Nat, flight : SUBSET Job]

VARIABLES
    app,
    switching,      \* a background switch: "no", "running", or "published" to the workers
    acts,           \* how much users and timers did (bounded)
    \* History, read by the properties only.
    misplaced,      \* a failed load cleared another tab than its own
    reselected      \* a topology read in the all-clusters view moved the selection

vars == <<app, switching, acts, misplaced, reselected>>

-----------------------------------------------------------------------------
(* App's handlers.                                                         *)

\* desired_key.
Key(a, t) == IF t \in AdminTab THEN Admin ELSE a.selected

Cached(a, t) == a.cacheKey[t] = Key(a, t)

\* Mutant: the request number is not bumped.
BeginTabRequest_Same(a) == [a EXCEPT !.loading = TRUE]

\* begin_tab_request.
BeginTabRequest(a) == [a EXCEPT !.tabReq = @ + 1, !.loading = TRUE]

Sent(a, kind, t, seq, c) ==
    [kind |-> kind, tab |-> t, seq |-> seq, cluster |-> c, gen |-> a.gen]

Send(a, jobs) == [a EXCEPT !.flight = @ \cup jobs]

\* dispatch_tab, and dispatch_admin_scoped: an admin listing is read from the
\* selected cluster, or from wherever the profile is without a topology; and not
\* at all once a background switch has been published.
ListActiveTab(a) ==
    LET b == BeginTabRequest(a)
        c == IF b.selected = None THEN Root ELSE b.selected
    IN IF b.tab \in AdminTab /\ b.selected # None /\ switching = "published"
       THEN b
       ELSE Send(b, {Sent(b, "tab", b.tab, b.tabReq, c)})

\* scoped_agg_seed: the cluster the active tab's rows are taken to be of.
SeedCluster(a) == IF a.tab \in AdminTab THEN Root ELSE a.selected

\* Mutant: the cache is promoted whatever cluster it was filled for.
SeededCache_AnyKey(a) ==
    LET at == <<a.tab, SeedCluster(a)>>
    IN IF a.cacheKey[a.tab] # NoKey /\ a.aggCache[at] = None
       THEN [a.aggCache EXCEPT ![at] = a.lists[a.tab]]
       ELSE a.aggCache

\* A valid scoped listing is promoted into the aggregate cache.
SeededCache(a) ==
    LET at == <<a.tab, SeedCluster(a)>>
    IN IF Cached(a, a.tab) /\ a.aggCache[at] = None
       THEN [a.aggCache EXCEPT ![at] = a.lists[a.tab]]
       ELSE a.aggCache

\* Mutant: the fan-out keeps the number of the one before it.
DispatchAggregate_Same(a) ==
    LET cache == SeededCache(a)
        missing == {c \in a.online : cache[<<a.tab, c>>] = None}
    IN [a EXCEPT
          !.aggCache = cache,
          !.rows = {[cluster |-> c, from |-> cache[<<a.tab, c>>]] : c \in a.online \ missing},
          !.pending = Cardinality(missing),
          !.loading = missing # {},
          !.flight = @ \cup {Sent(a, "slice", a.tab, a.aggSeq, c) : c \in missing}]

\* dispatch_aggregate and dispatch_aggregate_admin, with seed_agg_from_cache.
DispatchAggregate(a) ==
    LET cache == SeededCache(a)
        missing == {c \in a.online : cache[<<a.tab, c>>] = None}
    IN [a EXCEPT
          !.aggSeq = @ + 1,
          !.aggCache = cache,
          !.rows = {[cluster |-> c, from |-> cache[<<a.tab, c>>]] : c \in a.online \ missing},
          !.pending = Cardinality(missing),
          !.loading = missing # {},
          !.flight = @ \cup {Sent(a, "slice", a.tab, a.aggSeq + 1, c) : c \in missing}]

ReloadActive(a) ==
    CASE a.aggOn -> IF a.selected = None THEN a ELSE DispatchAggregate(a)
      [] ~a.aggOn /\ (a.tab \in AdminTab \/ a.selected # None) -> ListActiveTab(a)
      [] OTHER -> a

\* The tabs prefetch_all may warm: all but the active and the cached ones (some
\* of the admin tabs only, depending on the probe).
Warmable(a) ==
    {t \in Tab \ {a.tab} : ~Cached(a, t) /\ (t \in ScopedTab => a.selected # None)}

WarmSets(a) ==
    IF a.aggOn THEN {{}}
    ELSE {warm \in SUBSET Warmable(a) : Warmable(a) \cap ScopedTab \subseteq warm}

PrefetchAll(a, warm) ==
    IF a.aggOn THEN a
    ELSE LET b == IF a.prefetchCluster = a.selected THEN a
                  ELSE [a EXCEPT !.prefetchSeq = @ + 1, !.prefetchCluster = a.selected]
         IN Send(b, {Sent(b, "prefetch", t, b.prefetchSeq,
                          IF t \in AdminTab THEN Root ELSE b.selected) : t \in warm})

SwitchTab(a, t) ==
    LET b == [a EXCEPT !.tab = t]
    IN IF ~b.aggOn /\ Cached(b, t) THEN [b EXCEPT !.loading = FALSE] ELSE ReloadActive(b)

InvalidateTab(a, t) ==
    LET b == [a EXCEPT !.cacheKey[t] = NoKey]
    IN IF b.tab = t THEN ReloadActive(b) ELSE b

\* Mutant: the spinner of the old session is left on.
ClearSession_StillLoading(a) ==
    [a EXCEPT
       !.tab = Home, !.selected = None,
       !.lists = [t \in Tab |-> Cleared], !.cacheKey = [t \in Tab |-> NoKey],
       !.aggOn = FALSE, !.aggSeq = @ + 1, !.rows = {},
       !.aggCache = [tc \in Tab \X Cluster |-> None]]

ClearSession(a) ==
    [a EXCEPT
       !.tab = Home, !.selected = None,
       !.lists = [t \in Tab |-> Cleared], !.cacheKey = [t \in Tab |-> NoKey],
       !.aggOn = FALSE, !.aggSeq = @ + 1, !.rows = {},
       !.aggCache = [tc \in Tab \X Cluster |-> None],
       !.loading = FALSE]

\* Mutant: slices of the old profile's fan-outs are still cached.
EnterProfile_NoFloor(a) ==
    [ClearSession(a) EXCEPT
       !.gen = @ + 1,
       !.prefetchCluster = None, !.prefetchSeq = @ + 1, !.tabReq = @ + 1]

EnterProfile(a) ==
    LET b == ClearSession(a)
    IN [b EXCEPT
          !.gen = @ + 1, !.aggFloor = b.aggSeq,
          !.prefetchCluster = None, !.prefetchSeq = @ + 1, !.tabReq = @ + 1]

AskClusters(a) == Send(a, {Sent(a, "clusters", Home, a.gen, None)})

ApplyTopology(a, sel, online) ==
    LET b == [a EXCEPT
                !.selected = sel, !.online = online,
                !.aggCache = IF a.selected = None \/ a.online # online
                             THEN [tc \in Tab \X Cluster |-> None] ELSE @]
    IN ReloadActive(b)

\* apply_tab for a prefetch.
ApplyPrefetch(a, j, from) ==
    IF j.seq # a.prefetchSeq THEN a
    ELSE LET b == IF from = Failed THEN a
                  ELSE [a EXCEPT !.lists[j.tab] = from, !.cacheKey[j.tab] = Key(a, j.tab)]
         IN IF j.tab = b.tab THEN [b EXCEPT !.loading = FALSE] ELSE b

\* apply_tab for the active tab's request; a failed load clears what is on
\* screen, and the marker of its own tab.
ApplyTab(a, j, from) ==
    IF j.seq # a.tabReq THEN a
    ELSE IF from = Failed
    THEN [a EXCEPT !.loading = FALSE, !.lists[a.tab] = Cleared, !.cacheKey[j.tab] = NoKey]
    ELSE [a EXCEPT !.loading = FALSE, !.lists[j.tab] = from, !.cacheKey[j.tab] = Key(a, j.tab)]

\* apply_agg_result and apply_agg_cluster; the error row of a `tsh -c` listing
\* is not cached.
ApplySlice(a, j, from) ==
    IF j.seq < a.aggFloor THEN a
    ELSE LET b == IF from = Failed /\ j.tab \in ScopedTab THEN a
                  ELSE [a EXCEPT !.aggCache[<<j.tab, j.cluster>>] = from]
         IN IF j.seq # b.aggSeq \/ j.tab # b.tab THEN b
            ELSE [b EXCEPT
                    !.pending = IF @ = 0 THEN 0 ELSE @ - 1,
                    !.rows = @ \cup {[cluster |-> j.cluster, from |-> from]},
                    !.loading = @ /\ b.pending > 1]

-----------------------------------------------------------------------------
(* What happens.                                                           *)

Act == acts < MaxActs /\ acts' = acts + 1
NotHistory == UNCHANGED <<misplaced, reselected>>

PressTab(t) ==
    /\ Act
    /\ t # app.tab
    /\ app' = SwitchTab(app, t)
    /\ UNCHANGED switching /\ NotHistory

\* `r` and the auto-refresh timer: force_reload.
Refresh ==
    /\ Act
    /\ ~app.loading
    /\ app' = IF app.selected = None THEN AskClusters(app)
              ELSE ReloadActive([app EXCEPT
                     !.cacheKey[app.tab] = NoKey,
                     !.aggCache = [tc \in Tab \X Cluster |-> IF tc[1] = app.tab THEN None ELSE @[tc]]])
    /\ UNCHANGED switching /\ NotHistory

ShowAllClusters ==
    /\ Act
    /\ app.selected # None
    /\ app' = ReloadActive([app EXCEPT !.aggOn = TRUE])
    /\ UNCHANGED switching /\ NotHistory

SelectScopedCluster(c) ==
    /\ Act
    /\ app.selected # None
    /\ LET a == ReloadActive([app EXCEPT !.aggOn = FALSE, !.aggSeq = @ + 1, !.selected = c])
       IN \E warm \in WarmSets(a) : app' = PrefetchAll(a, warm)
    /\ UNCHANGED switching /\ NotHistory

\* token_removed and show_invite: a listing changed on the server.
Invalidate(t) ==
    /\ Act
    /\ t \in AdminTab
    /\ app' = InvalidateTab(app, t)
    /\ UNCHANGED switching /\ NotHistory

\* A login under the current profile: after_action asks for the clusters again;
\* the slices of a cluster just logged in to are dropped (submit_login).
LoginAgain(c) ==
    /\ Act
    /\ app' = AskClusters([app EXCEPT !.aggCache =
                 [tc \in Tab \X Cluster |-> IF tc[2] = c THEN None ELSE @[tc]]])
    /\ UNCHANGED switching /\ NotHistory

\* apply_status without an active session.
SessionEnds ==
    /\ Act
    /\ app' = ClearSession(app)
    /\ UNCHANGED switching /\ NotHistory

\* interactive_profile_login: `tsh login` for another proxy, then after_action.
ProfileLogin ==
    /\ Act
    /\ switching = "no"
    /\ app' = AskClusters(EnterProfile(app))
    /\ UNCHANGED switching /\ NotHistory

\* choose_profile for a profile that is still valid.
ChooseProfile ==
    /\ Act
    /\ switching = "no"
    /\ switching' = "running"
    /\ app' = [app EXCEPT !.loading = TRUE]
    /\ NotHistory

\* spawn_profile_switch has moved the profile and published its generation.
PublishSwitch ==
    /\ switching = "running"
    /\ switching' = "published"
    /\ UNCHANGED <<app, acts>> /\ NotHistory

\* apply_profile_switched, and what follows: bootstrap, a login, or the profile
\* the user is still on.
ProfileSwitched ==
    /\ switching # "no"
    /\ switching' = "no"
    /\ LET a == [app EXCEPT !.loading = FALSE]
       IN \/ switching = "published" /\ app' = AskClusters(EnterProfile(a))
          \/ switching = "running" /\ app' \in {a, AskClusters(EnterProfile(a))}
    /\ UNCHANGED acts /\ NotHistory

\* Under which generation a job's rows may have been read: the one it was sent
\* under, or the next one when a background switch overtook it.
ReadUnder(j) == {j.gen} \cup IF switching = "published" THEN {app.gen + 1} ELSE {}

\* What a job may bring back.
Results(j) == {Failed} \cup {RowsOf(j.cluster, g) : g \in ReadUnder(j)}

Landed(j) == [app EXCEPT !.flight = @ \ {j}]

\* tick applies a listing.
ApplyListing(j) ==
    /\ j.kind # "clusters"
    /\ \E from \in Results(j) :
          /\ app' = CASE j.kind = "tab" -> ApplyTab(Landed(j), j, from)
                      [] j.kind = "prefetch" -> ApplyPrefetch(Landed(j), j, from)
                      [] j.kind = "slice" -> ApplySlice(Landed(j), j, from)
          /\ misplaced' = (misplaced \/ (j.kind = "tab" /\ from = Failed
                                          /\ j.seq = app.tabReq /\ j.tab # app.tab))
    /\ UNCHANGED <<switching, acts, reselected>>

\* tick applies the clusters, unless they are of another generation or the
\* command failed.  The root is always online.
ApplyClusters(j) ==
    /\ j.kind = "clusters"
    /\ \/ app' = Landed(j) /\ UNCHANGED reselected
       \/ /\ j.seq = app.gen
          /\ \E sel \in Cluster, online \in SUBSET Cluster :
                /\ {Root, sel} \subseteq online
                /\ LET a == ApplyTopology(Landed(j), sel, online)
                   IN \E warm \in WarmSets(a) : app' = PrefetchAll(a, warm)
                /\ reselected' = (reselected \/ (app.aggOn /\ app.selected \notin {None, sel}))
    /\ UNCHANGED <<switching, acts, misplaced>>

\* A job that was superseded, or whose profile is gone, is never run
\* (Generations::is_stale, run_scoped_if_latest, the generation checks).
Skip(j) ==
    /\ \/ j.kind = "tab" /\ j.seq # app.tabReq
       \/ j.kind = "prefetch" /\ j.seq # app.prefetchSeq
       \/ j.kind \in {"tab", "slice"} /\ j.tab \in AdminTab
          /\ (switching = "published" \/ j.gen # app.gen)
    /\ app' = Landed(j)
    /\ UNCHANGED <<switching, acts>> /\ NotHistory

Landing == \E j \in app.flight : ApplyListing(j) \/ ApplyClusters(j) \/ Skip(j)

\* bootstrap asks for the clusters.
Init ==
    /\ app = AskClusters(
         [tab |-> Home, selected |-> None, online |-> {},
          lists |-> [t \in Tab |-> Cleared], cacheKey |-> [t \in Tab |-> NoKey],
          aggOn |-> FALSE, aggSeq |-> 0, aggFloor |-> 0, pending |-> 0, rows |-> {},
          aggCache |-> [tc \in Tab \X Cluster |-> None],
          tabReq |-> 0, prefetchSeq |-> 0, prefetchCluster |-> None,
          loading |-> FALSE, gen |-> 0, flight |-> {}])
    /\ switching = "no"
    /\ acts = 0
    /\ misplaced = FALSE /\ reselected = FALSE

User ==
    \/ \E t \in Tab : PressTab(t) \/ Invalidate(t)
    \/ \E c \in Cluster : SelectScopedCluster(c) \/ LoginAgain(c)
    \/ Refresh \/ ShowAllClusters \/ SessionEnds \/ ProfileLogin \/ ChooseProfile

\* The user has stopped, and everything has landed.
Quiet == acts = MaxActs /\ app.flight = {} /\ switching = "no" /\ UNCHANGED vars

Next == User \/ PublishSwitch \/ ProfileSwitched \/ Landing \/ Quiet

Spec == Init /\ [][Next]_vars

-----------------------------------------------------------------------------
\* What the request number of a job in flight was taken from.
Issued(j) ==
    CASE j.kind = "tab" -> app.tabReq
      [] j.kind = "prefetch" -> app.prefetchSeq
      [] j.kind = "slice" -> app.aggSeq
      [] j.kind = "clusters" -> app.gen

\* Types; and no request number is ahead of its counter.
TypeOK ==
    /\ app \in App
    /\ app.aggFloor <= app.aggSeq
    /\ \A j \in app.flight : j.seq <= Issued(j) /\ j.gen <= app.gen
    /\ switching \in {"no", "running", "published"}
    /\ acts \in 0 .. MaxActs
    /\ misplaced \in BOOLEAN /\ reselected \in BOOLEAN

\* "A matching key means 'show cache, don't refetch'" (mod.rs, cache_key): what a
\* cluster-scoped tab then shows was read from the selected cluster.  Two known
\* ways to break it are excluded (see the README).
ScopedCacheIsOfItsCluster ==
    ~misplaced /\ ~reselected /\ app.selected # None =>
        \A t \in ScopedTab : Cached(app, t) =>
            app.lists[t].is = "rows" /\ app.lists[t].cluster = app.selected

Slices == {j \in app.flight : j.kind = "slice" /\ j.seq = app.aggSeq /\ j.tab = app.tab}

\* The all-clusters view accounts for every online cluster exactly once: its rows
\* are there, or a slice still pending will bring them.
AggregateIsComplete ==
    app.aggOn /\ switching # "published" =>
        /\ app.pending = Cardinality(Slices)
        /\ {r.cluster : r \in app.rows} \cap {j.cluster : j \in Slices} = {}
        /\ {r.cluster : r \in app.rows} \cup {j.cluster : j \in Slices} = app.online
        /\ Cardinality(app.rows) + app.pending = Cardinality(app.online)

\* Every place rows are kept, and what is kept there.
Kept ==
    {app.lists[t] : t \in Tab} \cup {r.from : r \in app.rows}
      \cup {app.aggCache[tc] : tc \in Tab \X Cluster}
KeptRows == {l \in Kept : l # None /\ l.is = "rows"}

LabelsHold(tabs) ==
    /\ app.aggOn /\ app.tab \in tabs =>
          \A r \in app.rows : r.from.is = "rows" => r.from.cluster = r.cluster
    /\ \A t \in tabs, c \in Cluster :
          app.aggCache[<<t, c>>] \in KeptRows => app.aggCache[<<t, c>>].cluster = c

\* In the all-clusters view, and in its cache, the rows of a cluster-scoped tab
\* were read from the cluster they are labelled with.
ScopedRowsAreTheirClusters == ~reselected => LabelsHold(ScopedTab)

\* A profile switch "drops everything read for the previous profile ... whose
\* late results are then discarded" (update.rs, enter_profile).
NothingOfAnOlderProfile == \A l \in KeptRows : l.gen >= app.gen

\* The spinner never turns for nothing: while it does, the profile is being
\* switched, or a job is under way whose result will stop it -- the latest
\* request of the tab, or a slice of the fan-out on screen.
LoadingIsAnswered ==
    TypeOK /\ (app.loading /\ switching = "no" =>
        \/ Slices # {}
        \/ \E j \in app.flight : j.kind = "tab" /\ j.seq = app.tabReq)
=============================================================================
