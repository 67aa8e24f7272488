---------------------------- MODULE Modes_proofs ----------------------------
(***************************************************************************)
(* Proofs about the keyboard (Modes) and the table it acts on (Screen).    *)
(***************************************************************************)
EXTENDS Modes, FiniteSetTheorems, TLAPS

-----------------------------------------------------------------------------
(***************************************************************************)
(* The inductive invariant.                                                *)
(***************************************************************************)
Fields == {"tab", "agg", "scope", "list", "fresh", "rows", "cached", "pending", "loading",
           "visible", "sel", "mode", "input", "relogin", "restore", "auth"}

Row == [cluster : Cluster, of : Cluster, item : Item \cup {NoItem},
        kind : {"row", "done", "login", "error"}]

\* What the table holds.
Held(a) ==
    /\ DOMAIN a = Fields
    /\ a.tab \in Tab /\ a.scope \in Cluster \cup {NoCluster}
    /\ a.agg => a.scope # NoCluster
    /\ a.list \in UNION {Listing(a.tab, c) : c \in Cluster}
    /\ a.rows \in Seq(Row)
    /\ DOMAIN a.cached \subseteq Cluster
    /\ \A c \in DOMAIN a.cached : a.cached[c] \in Seq(Row)
    /\ a.pending \subseteq Cluster /\ a.sel \in Nat

\* What is shown of it.
Table(a) ==
    /\ Held(a)
    /\ a.visible \in Seq(Nat) /\ a.sel \in 0..Len(a.visible)

FromRow == {"Login", "UserPicker", "ToolPicker", "DbUser", "AppPort", "Scp", "SshOptions",
            "KubeExec"}
OtherModes == {"Normal", "Picker", "ConfirmLogout", "ConfirmTokenRm", "ConfirmMfaRm", "ShowMfa",
               "ShowSessions", "ShowDetail", "Notice", "Forwards", "AppProxy"}
ModeNames == FromRow \cup {"LoginForm", "ConfirmUserReset", "Search", "CreateRequest",
                           "CreateToken", "Settings", "AddUser"} \cup OtherModes

\* The row a prompt, picker, form or confirmation was opened on.
Opened(a, row) ==
    /\ a.mode.at \in ModeNames
    /\ a.mode.at \in FromRow =>
          /\ row # NoRow /\ row.kind \in {"row", "done"}
          /\ a.mode.item = row.item /\ a.mode.cluster = row.cluster
    /\ a.mode.at = "ConfirmUserReset" /\ ~a.agg =>
          row # NoRow /\ row.kind \in {"row", "done"} /\ a.mode.item = row.item
    /\ a.mode.at = "LoginForm" /\ a.relogin => row # NoRow /\ row.kind = "login"

\* The row a command was asked for on.
Commanded(a, c, row) ==
    /\ c.verb \in RowCommands /\ ~(a.agg /\ c.verb \in {"remove_token", "reset_user"}) =>
          /\ row # NoRow /\ row.kind \in {"row", "done"}
          /\ c.item = row.item /\ c.cluster \in {row.cluster, NoCluster}
          /\ c.verb \in {"request_approve", "request_deny"} => row.kind = "row"
    /\ a.restore => c.verb = "login" /\ a.auth /\ row # NoRow /\ row.kind = "login"

IInv ==
    /\ Table(app)
    /\ app.mode.at \in InputModes => app.input # "left"
    /\ Opened(app, asked) /\ Commanded(app, cmd, asked)
    /\ drawn = Highlight(app) \/ Highlight(app) = NoRow

-----------------------------------------------------------------------------
(***************************************************************************)
(* The table.  `Ascending` lists a set of row numbers, each once, in order *)
(* (recompute_visible).                                                    *)
(***************************************************************************)
Rank(S, k) == Cardinality({j \in S : j <= k})

LEMMA FiniteRows ==
    ASSUME NEW n \in Nat, NEW S \in SUBSET (1..n)
    PROVE  IsFiniteSet(S) /\ Cardinality(S) \in Nat
<1>1. IsFiniteSet(1..n)
    BY FS_Interval
<1>2. IsFiniteSet(S)
    BY <1>1, FS_Subset
<1> QED
    BY <1>2, FS_CardinalityType

LEMMA RankGrows ==
    ASSUME NEW n \in Nat, NEW S \in SUBSET (1..n), NEW k \in S, NEW m \in S, k < m
    PROVE  Rank(S, k) < Rank(S, m)
<1> DEFINE B == {j \in S : j <= k}
           C == {j \in S : j <= m}
<1>1. IsFiniteSet(S)
    BY FiniteRows
<1>2. k \in Nat /\ m \in Nat /\ \A j \in S : j \in Nat
    OBVIOUS
<1>3. \A j \in B : j \in C
    BY <1>2
<1>4. m \in C /\ m \notin B
    BY <1>2
<1>5. IsFiniteSet(C)
    <2>1. C \in SUBSET S
        OBVIOUS
    <2> QED
        BY <1>1, <2>1, FS_Subset
<1> HIDE DEF B, C
<1>6. /\ B \in SUBSET C /\ B # C
    BY <1>3, <1>4
<1>7. /\ IsFiniteSet(B) /\ Cardinality(B) <= Cardinality(C)
      /\ Cardinality(B) = Cardinality(C) => B = C
    BY <1>5, <1>6, FS_Subset
<1>8. Cardinality(B) \in Nat /\ Cardinality(C) \in Nat
    BY <1>5, <1>7, FS_CardinalityType
<1>9. Cardinality(B) < Cardinality(C)
    BY <1>6, <1>7, <1>8
<1> QED
    BY <1>9 DEF Rank, B, C

\* A row kept has a rank of its own among the rows kept, and every rank is
\* some row's.
LEMMA RankBijection ==
    ASSUME NEW n \in Nat, NEW S \in SUBSET (1..n)
    PROVE  [k \in S |-> Rank(S, k)] \in Bijection(S, 1..Cardinality(S))
<1> DEFINE f == [k \in S |-> Rank(S, k)]
           N == Cardinality(S)
<1>1. IsFiniteSet(S) /\ N \in Nat
    BY FiniteRows
<1>2. ASSUME NEW k \in S
      PROVE  Rank(S, k) \in 1..N
    <2> DEFINE B == {j \in S : j <= k}
    <2>1. B \in SUBSET S /\ k \in B
        OBVIOUS
    <2>2. IsFiniteSet(B) /\ Cardinality(B) \in Nat /\ Cardinality(B) <= N
        BY <1>1, <2>1, FS_Subset, FS_CardinalityType
    <2>3. Cardinality(B) # 0
        BY <2>1, <2>2, FS_EmptySet
    <2> QED
        BY <1>1, <2>2, <2>3 DEF Rank
<1>3. \A k, m \in S : Rank(S, k) = Rank(S, m) => k = m
    <2>1. SUFFICES ASSUME NEW k \in S, NEW m \in S, k < m
                   PROVE  Rank(S, k) # Rank(S, m)
        OBVIOUS
    <2>2. Rank(S, k) < Rank(S, m) /\ Rank(S, k) \in 1..N /\ Rank(S, m) \in 1..N
        BY <1>2, <2>1, RankGrows
    <2> QED
        BY <2>2
<1>4. f \in [S -> 1..N]
    BY <1>2
<1>5. \A k, m \in S : f[k] = f[m] => k = m
    BY <1>3
<1>6. f \in Injection(S, 1..N)
    BY <1>4, <1>5 DEF Injection, IsInjective
<1>7. IsFiniteSet(1..N) /\ Cardinality(1..N) = N
    BY <1>1, FS_Interval
<1>8. f \in Surjection(S, 1..N)
    BY <1>1, <1>6, <1>7, FS_Injection
<1> QED
    BY <1>6, <1>8 DEF Bijection

\* The search shows the rows it keeps and no other, each once, in the order of
\* the listing.
THEOREM AscendingLists ==
    ASSUME NEW n \in Nat, NEW S \in SUBSET (1..n)
    PROVE  /\ Cardinality(S) \in Nat
           /\ Ascending(S) \in [1..Cardinality(S) -> S]
           /\ \A i, j \in 1..Cardinality(S) : i < j => Ascending(S)[i] < Ascending(S)[j]
           /\ \A k \in S : \E i \in 1..Cardinality(S) : Ascending(S)[i] = k
<1> DEFINE N == Cardinality(S)
           r == [k \in S |-> Rank(S, k)]
           At(i) == CHOOSE k \in S : Cardinality({j \in S : j <= k}) = i
<1>1. IsFiniteSet(S) /\ N \in Nat
    BY FiniteRows
<1>2. r \in Bijection(S, 1..N)
    BY RankBijection
<1>3. /\ r \in [S -> 1..N] /\ \A k, m \in S : r[k] = r[m] => k = m
      /\ \A i \in 1..N : \E k \in S : r[k] = i
    BY <1>2 DEF Bijection, Injection, Surjection, IsInjective
<1>4. ASSUME NEW i \in 1..N
      PROVE  At(i) \in S /\ Rank(S, At(i)) = i
    <2>1. PICK k \in S : r[k] = i
        BY <1>3
    <2>2. Cardinality({j \in S : j <= k}) = i
        BY <2>1 DEF Rank
    <2> QED
        BY <2>2 DEF Rank
<1>5. Ascending(S) = [i \in 1..N |-> At(i)]
    BY DEF Ascending
<1>6. Ascending(S) \in [1..N -> S]
    BY <1>4, <1>5
<1>7. ASSUME NEW i \in 1..N, NEW j \in 1..N, i < j
      PROVE  At(i) < At(j)
    <2>1. /\ At(i) \in S /\ At(j) \in S /\ Rank(S, At(i)) = i /\ Rank(S, At(j)) = j
        BY <1>4
    <2> DEFINE p == At(i)
               q == At(j)
    <2> HIDE DEF p, q
    <2>2. p \in S /\ q \in S /\ Rank(S, p) = i /\ Rank(S, q) = j
        BY <2>1 DEF p, q
    <2>3. q < p => j < i
        BY <2>2, RankGrows
    <2>4. p < q
        BY <1>7, <2>2, <2>3
    <2> QED
        BY <2>4 DEF p, q
<1>8. ASSUME NEW k \in S
      PROVE  \E i \in 1..N : At(i) = k
    <2>1. r[k] \in 1..N /\ r[k] = Rank(S, k)
        BY <1>3
    <2>2. At(r[k]) \in S /\ Rank(S, At(r[k])) = r[k]
        BY <1>4, <2>1
    <2>3. r[At(r[k])] = r[k]
        BY <2>2
    <2>4. At(r[k]) = k
        BY <1>3, <2>2, <2>3
    <2> QED
        BY <2>1, <2>4
<1> QED
    BY <1>1, <1>5, <1>6, <1>7, <1>8

-----------------------------------------------------------------------------
(***************************************************************************)
(* What a load may bring.                                                  *)
(***************************************************************************)
LEMMA ListingIs ==
    ASSUME NEW tab \in Tab, NEW c \in Cluster PROVE Listing(tab, c) = MayBring(tab, c)
    BY DEF Listing, Listings

LEMMA ListingType ==
    ASSUME NEW tab \in Tab, NEW c \in Cluster, NEW l \in Listing(tab, c)
    PROVE  /\ l \in Seq(Row)
           /\ \A i \in DOMAIN l : l[i] \in Row /\ l[i].kind \in {"row", "done"}
<1> DEFINE X == {RowFrom(c, i, k) : i \in SliceItem[c], k \in Kinds(tab)}
<1>1. SliceItem[c] \subseteq Item
    BY ScreenAssumption DEF Cluster
<1>2. \A k \in Kinds(tab) : k \in {"row", "done"}
    BY DEF Kinds
<1>3. \A x \in X : x \in Row /\ x.kind \in {"row", "done"}
    BY <1>1, <1>2 DEF RowFrom, Row
<1> HIDE DEF X
<1>4. l \in BoundedSeq(X, MaxRows)
    BY ListingIs DEF MayBring, X
<1>5. PICK n \in 0..MaxRows : l \in [1..n -> X]
    BY <1>4 DEF BoundedSeq, SeqOf
<1>6. n \in Nat
    BY <1>5, ScreenAssumption
<1> QED
    BY <1>3, <1>5, <1>6

LEMMA EmptyListing ==
    ASSUME NEW tab \in Tab, NEW c \in Cluster
    PROVE  <<>> \in Listing(tab, c)
<1> DEFINE X == {RowFrom(c, i, k) : i \in SliceItem[c], k \in Kinds(tab)}
<1>1. <<>> \in [1..0 -> X] /\ 0 \in 0..MaxRows
    BY ScreenAssumption
<1>2. <<>> \in BoundedSeq(X, MaxRows)
    BY <1>1 DEF BoundedSeq, SeqOf
<1>3. \A i, j \in DOMAIN <<>> : <<>>[i].item = <<>>[j].item => i = j
    OBVIOUS
<1> QED
    BY <1>2, <1>3, ListingIs DEF MayBring

LEMMA SliceType ==
    ASSUME NEW tab \in Tab, NEW c \in Cluster, NEW s \in Slice(tab, c)
    PROVE  s \in Seq(Row)
<1>1. CASE s \in Listing(tab, c)
    BY <1>1, ListingType
<1>2. CASE s \notin Listing(tab, c)
    <2>1. PICK kind \in {"login", "error"} : s = <<RowFrom(c, NoItem, kind)>>
        BY <1>2 DEF Slice
    <2>2. RowFrom(c, NoItem, kind) \in Row
        BY <2>1 DEF RowFrom, Row
    <2> QED
        BY <2>1, <2>2
<1> QED
    BY <1>1, <1>2

-----------------------------------------------------------------------------
(***************************************************************************)
(* What is shown.                                                          *)
(***************************************************************************)
LEMMA HeldList ==
    ASSUME NEW a, Held(a)
    PROVE  /\ a.list \in Seq(Row)
           /\ \A i \in DOMAIN a.list : a.list[i] \in Row /\ a.list[i].kind \in {"row", "done"}
<1>1. PICK c \in Cluster : a.list \in Listing(a.tab, c)
    BY DEF Held
<1>2. a.tab \in Tab
    BY DEF Held
<1> QED
    BY <1>1, <1>2, ListingType

\* In the view of one cluster the row shown is the listing's, under the name of
\* the cluster selected.
LEMMA ShownRows ==
    ASSUME NEW a, Held(a)
    PROVE  /\ \E n \in Nat : DOMAIN Shown(a) = 1..n
           /\ a.agg => Shown(a) = a.rows
           /\ ~a.agg => DOMAIN Shown(a) = DOMAIN a.list
           /\ \A i \in DOMAIN Shown(a) :
                /\ Shown(a)[i] # NoRow
                /\ Shown(a)[i].kind \in {"row", "done", "login", "error"}
                /\ ~a.agg => /\ Shown(a)[i].kind \in {"row", "done"}
                             /\ Shown(a)[i].item = a.list[i].item
                             /\ Shown(a)[i].cluster = a.scope
<1>1. CASE a.agg
    <2>1. Shown(a) = a.rows /\ a.rows \in Seq(Row)
        BY <1>1 DEF Shown, Held
    <2>2. \A x \in Row : x # NoRow /\ x.kind \in {"row", "done", "login", "error"}
        BY DEF Row, NoRow
    <2> QED
        BY <1>1, <2>1, <2>2
<1>2. CASE ~a.agg
    <2>1. Shown(a) = [i \in DOMAIN a.list |-> [a.list[i] EXCEPT !.cluster = a.scope]]
        BY <1>2 DEF Shown
    <2>2. a.list \in Seq(Row)
          /\ \A i \in DOMAIN a.list : a.list[i] \in Row /\ a.list[i].kind \in {"row", "done"}
        BY HeldList
    <2>3. ASSUME NEW i \in DOMAIN a.list
          PROVE  LET x == [a.list[i] EXCEPT !.cluster = a.scope]
                 IN  /\ x # NoRow /\ x.kind \in {"row", "done"}
                     /\ x.item = a.list[i].item /\ x.cluster = a.scope
        <3>1. a.list[i] \in Row /\ a.list[i].kind \in {"row", "done"}
            BY <2>2
        <3> QED
            BY <3>1 DEF Row, NoRow
    <2>4. \E n \in Nat : DOMAIN a.list = 1..n
        BY <2>2
    <2> QED
        BY <1>2, <2>1, <2>3, <2>4
<1> QED
    BY <1>1, <1>2

\* Two states of the App that differ in the table at most.
Keeps(a, b) ==
    /\ b.mode = a.mode /\ b.input = a.input
    /\ b.relogin = a.relogin /\ b.restore = a.restore /\ b.auth = a.auth

LEMMA RecomputeTable ==
    ASSUME NEW a, Held(a)
    PROVE  LET b == RecomputeVisible(a)
           IN  /\ Table(b) /\ Keeps(a, b)
               /\ b.tab = a.tab /\ b.agg = a.agg /\ b.scope = a.scope /\ b.loading = a.loading
<1> DEFINE shown == Shown(a)
           filtering == a.mode.at = "Search" /\ a.input # Blank
           keep == {i \in DOMAIN shown : filtering => Matches(shown[i])}
           kept == Ascending(keep)
           first == IF a.sel = 0 THEN 1 ELSE a.sel
           sel == IF first > Len(kept) THEN Len(kept) ELSE first
<1>1. PICK n \in Nat : DOMAIN shown = 1..n
    BY ShownRows
<1>2. keep \in SUBSET (1..n)
    BY <1>1
<1>3. Cardinality(keep) \in Nat /\ kept \in [1..Cardinality(keep) -> keep]
    <2> HIDE DEF keep
    <2> QED
        BY <1>2, AscendingLists
<1>4. \A i \in keep : i \in Nat
    BY <1>1, <1>2
<1> HIDE DEF keep
<1>5. kept \in Seq(Nat) /\ Len(kept) \in Nat
    <2> HIDE DEF kept
    <2> QED
        BY <1>3, <1>4
<1>6. a.sel \in Nat
    BY DEF Held
<1>7. sel \in 0..Len(kept)
    <2> HIDE DEF kept
    <2> QED
        BY <1>5, <1>6
<1> HIDE DEF sel, kept
<1>8. RecomputeVisible(a) = [a EXCEPT !.visible = kept, !.sel = sel]
    BY DEF RecomputeVisible, kept, sel, keep
<1> DEFINE b == [a EXCEPT !.visible = kept, !.sel = sel]
<1>9. DOMAIN a = Fields
    BY DEF Held
<1>10. /\ DOMAIN b = Fields /\ b.visible = kept /\ b.sel = sel
       /\ b.tab = a.tab /\ b.scope = a.scope /\ b.agg = a.agg /\ b.list = a.list
       /\ b.rows = a.rows /\ b.cached = a.cached /\ b.pending = a.pending
       /\ b.loading = a.loading /\ b.mode = a.mode /\ b.input = a.input
       /\ b.relogin = a.relogin /\ b.restore = a.restore /\ b.auth = a.auth
    BY <1>9 DEF Fields
<1> HIDE DEF b
<1>11. Held(b)
    BY <1>5, <1>7, <1>10 DEF Held
<1>12. Table(b) /\ Keeps(a, b)
    BY <1>5, <1>7, <1>10, <1>11 DEF Table, Keeps
<1> QED
    BY <1>8, <1>10, <1>12 DEF b

\* A table at rest may have its rows replaced by any that fit.
LEMMA BeginTable ==
    ASSUME NEW a, Held(a)
    PROVE  LET b == BeginTabRequest(a)
           IN  /\ Table(b) /\ Keeps(a, b) /\ Highlight(b) = NoRow
               /\ b.tab = a.tab /\ b.agg = a.agg /\ b.scope = a.scope
<1> DEFINE b == BeginTabRequest(a)
<1>1. DOMAIN a = Fields
    BY DEF Held
<1>2. /\ DOMAIN b = Fields /\ b.visible = <<>> /\ b.sel = 0
      /\ b.tab = a.tab /\ b.scope = a.scope /\ b.agg = a.agg /\ b.list = a.list
      /\ b.rows = a.rows /\ b.cached = a.cached /\ b.pending = a.pending
      /\ b.mode = a.mode /\ b.input = a.input
      /\ b.relogin = a.relogin /\ b.restore = a.restore /\ b.auth = a.auth
    BY <1>1 DEF BeginTabRequest, Fields
<1> HIDE DEF b
<1>3. Held(b) /\ Table(b)
    BY <1>2 DEF Held, Table
<1>4. Highlight(b) = NoRow
    BY <1>2 DEF Highlight
<1> QED
    BY <1>2, <1>3, <1>4 DEF Keeps, b

LEMMA ListingSeed ==
    ASSUME NEW a, Held(a), NEW c \in Cluster
    PROVE  [i \in DOMAIN a.list |-> [a.list[i] EXCEPT !.cluster = c]] \in Seq(Row)
<1>1. a.list \in Seq(Row)
    BY HeldList
<1>2. \A x \in Row : [x EXCEPT !.cluster = c] \in Row
    BY DEF Row
<1> QED
    BY <1>1, <1>2

\* The aggregate starts from the cached slices; without any it starts empty.
LEMMA SeedTable ==
    ASSUME NEW a, Held(a), a.scope # NoCluster
    PROVE  LET b == SeedAggFromCache(a)
           IN  /\ Table(b) /\ Keeps(a, b)
               /\ b.tab = a.tab /\ b.agg = a.agg /\ b.scope = a.scope
               /\ a.agg /\ ~a.fresh /\ a.cached = NoSlices => Highlight(b) = NoRow
<1> DEFINE c == ScopedAggSeed(a)
           held == [i \in DOMAIN a.list |-> [a.list[i] EXCEPT !.cluster = c]]
           slices == IF a.fresh /\ c \notin DOMAIN a.cached
                     THEN WithSlice(a.cached, c, held) ELSE a.cached
           missing == Cluster \ DOMAIN slices
           rows == SliceOf(slices, Root) \o SliceOf(slices, Leaf)
           loading == missing # {}
           d == [a EXCEPT !.rows = rows, !.cached = slices, !.pending = missing,
                          !.loading = loading, !.sel = 0]
<1>1. c \in Cluster
    BY DEF ScopedAggSeed, Held, Cluster
<1>2. held \in Seq(Row)
    BY <1>1, ListingSeed
<1> HIDE DEF c, held
<1>3. DOMAIN a.cached \subseteq Cluster /\ \A k \in DOMAIN a.cached : a.cached[k] \in Seq(Row)
    BY DEF Held
<1>4. DOMAIN slices \subseteq Cluster /\ \A k \in DOMAIN slices : slices[k] \in Seq(Row)
    BY <1>1, <1>2, <1>3 DEF WithSlice
<1>5. ~a.fresh => slices = a.cached
    OBVIOUS
<1>6. SeedAggFromCache(a) = RecomputeVisible(d)
    BY DEF SeedAggFromCache, c, held
<1> HIDE DEF slices
<1>7. \A k \in Cluster : SliceOf(slices, k) \in Seq(Row)
    BY <1>4 DEF SliceOf
<1>8. rows \in Seq(Row)
    BY <1>7 DEF Cluster
<1>9. a.cached = NoSlices /\ ~a.fresh => rows = <<>>
    BY <1>5 DEF SliceOf, NoSlices
<1>10. missing \subseteq Cluster
    OBVIOUS
<1> HIDE DEF rows, missing, loading
<1>11. DOMAIN a = Fields
    BY DEF Held
<1>12. /\ DOMAIN d = Fields /\ d.sel = 0 /\ d.rows = rows /\ d.cached = slices
       /\ d.pending = missing
       /\ d.tab = a.tab /\ d.scope = a.scope /\ d.agg = a.agg /\ d.list = a.list
       /\ d.mode = a.mode /\ d.input = a.input
       /\ d.relogin = a.relogin /\ d.restore = a.restore /\ d.auth = a.auth
    BY <1>11 DEF Fields
<1> HIDE DEF d
<1>13. Held(d)
    BY <1>4, <1>8, <1>10, <1>12 DEF Held
<1>14. LET b == RecomputeVisible(d)
       IN  /\ Table(b) /\ Keeps(d, b)
           /\ b.tab = d.tab /\ b.agg = d.agg /\ b.scope = d.scope
    BY <1>13, RecomputeTable
<1>15. RecomputeVisible(d).rows = d.rows
    BY <1>11, <1>12 DEF RecomputeVisible, Fields
<1>16. a.agg /\ ~a.fresh /\ a.cached = NoSlices => Highlight(RecomputeVisible(d)) = NoRow
    BY <1>9, <1>12, <1>14, <1>15 DEF Highlight, Shown
<1> QED
    BY <1>6, <1>12, <1>14, <1>16 DEF Keeps

-----------------------------------------------------------------------------
(***************************************************************************)
(* Reloads and results.                                                    *)
(***************************************************************************)
LEMMA ReloadTable ==
    ASSUME NEW a, Table(a)
    PROVE  LET b == ReloadActive(a)
           IN  /\ Table(b) /\ Keeps(a, b)
               /\ b.tab = a.tab /\ b.agg = a.agg /\ b.scope = a.scope
               /\ ~a.fresh /\ a.cached = NoSlices => b = a \/ Highlight(b) = NoRow
<1>1. Held(a)
    BY DEF Table
<1>2. CASE a.agg /\ a.scope # NoCluster
    <2>1. ReloadActive(a) = SeedAggFromCache(a)
        BY <1>2 DEF ReloadActive
    <2> QED
        BY <1>1, <1>2, <2>1, SeedTable
<1>3. CASE ~a.agg /\ (IsAdmin(a.tab) \/ a.scope # NoCluster)
    <2>1. ReloadActive(a) = BeginTabRequest(a)
        BY <1>3 DEF ReloadActive
    <2> QED
        BY <1>1, <2>1, BeginTable
<1>4. CASE ~(a.agg /\ a.scope # NoCluster) /\ ~(~a.agg /\ (IsAdmin(a.tab) \/ a.scope # NoCluster))
    <2>1. ReloadActive(a) = a
        BY <1>4 DEF ReloadActive
    <2> QED
        BY <2>1 DEF Keeps
<1> QED
    BY <1>2, <1>3, <1>4

\* The cache marker, the aggregate cache and the row selected may change under
\* the table: it still holds and shows what it did.
LEMMA Remarked ==
    ASSUME NEW a, Table(a), NEW f, NEW s, s \in {NoSlices, a.cached}
    PROVE  LET b == [a EXCEPT !.fresh = f, !.cached = s]
           IN  /\ Table(b) /\ Keeps(a, b) /\ Highlight(b) = Highlight(a)
               /\ b.tab = a.tab /\ b.agg = a.agg /\ b.scope = a.scope
               /\ b.fresh = f /\ b.cached = s
<1> DEFINE b == [a EXCEPT !.fresh = f, !.cached = s]
<1>1. DOMAIN a = Fields /\ Held(a)
    BY DEF Table, Held
<1>2. /\ DOMAIN b = Fields /\ b.fresh = f /\ b.cached = s
      /\ b.tab = a.tab /\ b.scope = a.scope /\ b.agg = a.agg /\ b.list = a.list
      /\ b.rows = a.rows /\ b.pending = a.pending /\ b.visible = a.visible /\ b.sel = a.sel
      /\ b.mode = a.mode /\ b.input = a.input
      /\ b.relogin = a.relogin /\ b.restore = a.restore /\ b.auth = a.auth
    BY <1>1 DEF Fields
<1> HIDE DEF b
<1>3. DOMAIN b.cached \subseteq Cluster /\ \A c \in DOMAIN b.cached : b.cached[c] \in Seq(Row)
    BY <1>1, <1>2 DEF Held, NoSlices
<1>4. Table(b)
    BY <1>1, <1>2, <1>3 DEF Held, Table
<1>5. Highlight(b) = Highlight(a)
    BY <1>2 DEF Highlight, Shown
<1> QED
    BY <1>2, <1>4, <1>5 DEF Keeps, b

LEMMA ForceTable ==
    ASSUME NEW a, Table(a)
    PROVE  LET b == ForceReload(a)
           IN  /\ Table(b) /\ Keeps(a, b)
               /\ b.tab = a.tab /\ b.agg = a.agg /\ b.scope = a.scope
               /\ Highlight(b) = Highlight(a) \/ Highlight(b) = NoRow
<1> DEFINE d == [a EXCEPT !.fresh = FALSE, !.cached = NoSlices]
<1>1. CASE ForceReload(a) = a
    BY <1>1 DEF Keeps
<1>2. CASE ForceReload(a) = ReloadActive(d)
    <2>1. /\ Table(d) /\ Keeps(a, d) /\ Highlight(d) = Highlight(a)
          /\ d.tab = a.tab /\ d.agg = a.agg /\ d.scope = a.scope
          /\ d.fresh = FALSE /\ d.cached = NoSlices
        BY Remarked
    <2> HIDE DEF d
    <2>2. LET b == ReloadActive(d)
          IN  /\ Table(b) /\ Keeps(d, b)
              /\ b.tab = d.tab /\ b.agg = d.agg /\ b.scope = d.scope
              /\ b = d \/ Highlight(b) = NoRow
        BY <2>1, ReloadTable
    <2> QED
        BY <1>2, <2>1, <2>2 DEF Keeps
<1>3. ForceReload(a) = a \/ ForceReload(a) = ReloadActive(d)
    BY DEF ForceReload
<1> QED
    BY <1>1, <1>2, <1>3

LEMMA InvalidateTable ==
    ASSUME NEW a, Table(a), NEW tab
    PROVE  LET b == InvalidateTab(a, tab)
           IN  /\ Table(b) /\ Keeps(a, b)
               /\ b.tab = a.tab /\ b.agg = a.agg /\ b.scope = a.scope
<1> DEFINE d == [a EXCEPT !.fresh = FALSE, !.cached = a.cached]
<1>1. DOMAIN a = Fields
    BY DEF Table, Held
<1>2. [a EXCEPT !.fresh = FALSE] = d
    BY <1>1 DEF Fields
<1>3. /\ Table(d) /\ Keeps(a, d)
      /\ d.tab = a.tab /\ d.agg = a.agg /\ d.scope = a.scope
    BY Remarked
<1>4. InvalidateTab(a, tab) \in {a, ReloadActive(d)}
    BY <1>2 DEF InvalidateTab
<1> HIDE DEF d
<1>5. LET b == ReloadActive(d)
      IN  /\ Table(b) /\ Keeps(d, b)
          /\ b.tab = d.tab /\ b.agg = d.agg /\ b.scope = d.scope
    BY <1>3, ReloadTable
<1> QED
    BY <1>3, <1>4, <1>5 DEF Keeps

LEMMA ApplyTabTable ==
    ASSUME NEW a, Held(a), NEW b \in ApplyTab(a)
    PROVE  /\ Table(b) /\ Keeps(a, b)
           /\ b.tab = a.tab /\ b.agg = a.agg /\ b.scope = a.scope
<1>1. a.tab \in Tab /\ a.scope \in Cluster \cup {NoCluster} /\ DOMAIN a = Fields
    BY DEF Held
<1>2. \E c \in Cluster : HeldListing(a) = Listing(a.tab, c)
    BY <1>1 DEF HeldListing, Cluster
<1>3. PICK l \in UNION {Listing(a.tab, c) : c \in Cluster}, f \in BOOLEAN :
          b = RecomputeVisible([a EXCEPT !.loading = FALSE, !.list = l, !.fresh = f])
    <2>1. <<>> \in UNION {Listing(a.tab, c) : c \in Cluster}
        BY <1>1, EmptyListing DEF Cluster
    <2> QED
        BY <1>2, <2>1 DEF ApplyTab
<1> DEFINE d == [a EXCEPT !.loading = FALSE, !.list = l, !.fresh = f]
<1>4. /\ DOMAIN d = Fields /\ d.list = l
      /\ d.tab = a.tab /\ d.scope = a.scope /\ d.agg = a.agg
      /\ d.rows = a.rows /\ d.cached = a.cached /\ d.pending = a.pending /\ d.sel = a.sel
      /\ d.mode = a.mode /\ d.input = a.input
      /\ d.relogin = a.relogin /\ d.restore = a.restore /\ d.auth = a.auth
    BY <1>1 DEF Fields
<1>5. b = RecomputeVisible(d)
    BY <1>3
<1> HIDE DEF d
<1>6. Held(d)
    BY <1>3, <1>4 DEF Held
<1> QED
    BY <1>4, <1>5, <1>6, RecomputeTable DEF Keeps

LEMMA ApplySliceTable ==
    ASSUME NEW a, Held(a), NEW c \in Cluster, NEW b \in ApplyAggCluster(a, c)
    PROVE  /\ Table(b) /\ Keeps(a, b)
           /\ b.tab = a.tab /\ b.agg = a.agg /\ b.scope = a.scope
<1>1. a.tab \in Tab /\ DOMAIN a = Fields
    BY DEF Held
<1>2. PICK s \in Slice(a.tab, c) :
          b = RecomputeVisible(
                [a EXCEPT !.rows = @ \o s, !.pending = @ \ {c},
                          !.loading = a.pending # {c},
                          !.cached = IF s[1].kind = "error" /\ ~SerialAggregation(a.tab)
                                     THEN @ ELSE WithSlice(@, c, s)])
    BY DEF ApplyAggCluster
<1>3. s \in Seq(Row)
    BY <1>1, SliceType
<1> DEFINE rows == a.rows \o s
           pending == a.pending \ {c}
           loading == a.pending # {c}
           cached == IF s[1].kind = "error" /\ ~SerialAggregation(a.tab)
                     THEN a.cached ELSE WithSlice(a.cached, c, s)
           d == [a EXCEPT !.rows = rows, !.pending = pending, !.loading = loading, !.cached = cached]
<1>4. b = RecomputeVisible(d)
    BY <1>2
<1>5. rows \in Seq(Row) /\ pending \subseteq Cluster
    BY <1>3 DEF Held
<1>6. DOMAIN cached \subseteq Cluster /\ \A k \in DOMAIN cached : cached[k] \in Seq(Row)
    BY <1>3 DEF Held, WithSlice
<1> HIDE DEF rows, pending, loading, cached
<1>7. /\ DOMAIN d = Fields /\ d.rows = rows /\ d.cached = cached /\ d.pending = pending
      /\ d.tab = a.tab /\ d.scope = a.scope /\ d.agg = a.agg /\ d.list = a.list /\ d.sel = a.sel
      /\ d.mode = a.mode /\ d.input = a.input
      /\ d.relogin = a.relogin /\ d.restore = a.restore /\ d.auth = a.auth
    BY <1>1 DEF Fields
<1> HIDE DEF d
<1>8. Held(d)
    BY <1>5, <1>6, <1>7 DEF Held
<1> QED
    BY <1>4, <1>7, <1>8, RecomputeTable DEF Keeps

-----------------------------------------------------------------------------
(***************************************************************************)
(* Navigation.                                                             *)
(***************************************************************************)
LEMMA ClampBounds ==
    ASSUME NEW cur \in Nat, NEW len \in Nat, NEW forward, len # 0, cur \in 1..len
    PROVE  ClampStep(cur, len, forward) \in 1..len
BY DEF ClampStep

LEMMA MoveTable ==
    ASSUME NEW a, Table(a), NEW forward
    PROVE  LET b == MoveSelection(a, forward)
           IN  /\ Table(b) /\ Keeps(a, b)
               /\ b.tab = a.tab /\ b.agg = a.agg /\ b.scope = a.scope /\ b.loading = a.loading
<1>1. CASE a.visible = <<>>
    BY <1>1 DEF MoveSelection, Keeps
<1>2. CASE a.visible # <<>>
    <2> DEFINE cur == IF a.sel = 0 THEN 1 ELSE a.sel
               sel == ClampStep(cur, Len(a.visible), forward)
               b == [a EXCEPT !.sel = sel]
    <2>1. a.visible \in Seq(Nat) /\ a.sel \in 0..Len(a.visible) /\ Len(a.visible) \in Nat
        BY DEF Table
    <2>2. Len(a.visible) # 0
        BY <1>2, <2>1
    <2>3. cur \in 1..Len(a.visible)
        BY <2>1, <2>2
    <2>4. sel \in 1..Len(a.visible)
        <3> HIDE DEF cur
        <3> QED
            BY <2>1, <2>2, <2>3, ClampBounds
    <2> HIDE DEF sel
    <2>5. DOMAIN a = Fields
        BY DEF Table, Held
    <2>6. /\ DOMAIN b = Fields /\ b.sel = sel /\ b.visible = a.visible /\ b.loading = a.loading
          /\ b.tab = a.tab /\ b.scope = a.scope /\ b.agg = a.agg /\ b.list = a.list
          /\ b.rows = a.rows /\ b.cached = a.cached /\ b.pending = a.pending
          /\ b.mode = a.mode /\ b.input = a.input
          /\ b.relogin = a.relogin /\ b.restore = a.restore /\ b.auth = a.auth
        BY <2>5 DEF Fields
    <2>7. MoveSelection(a, forward) = b
        BY <1>2 DEF MoveSelection, sel
    <2> HIDE DEF b
    <2>8. Table(b)
        BY <2>1, <2>4, <2>6 DEF Table, Held
    <2> QED
        BY <2>6, <2>7, <2>8 DEF Keeps
<1> QED
    BY <1>1, <1>2

LEMMA SelectAllTable ==
    ASSUME NEW a, Table(a), a.scope # NoCluster
    PROVE  Table(SelectAllClusters(a)) /\ Keeps(a, SelectAllClusters(a))
<1> DEFINE d == [a EXCEPT !.agg = TRUE]
<1>1. DOMAIN a = Fields
    BY DEF Table, Held
<1>2. /\ DOMAIN d = Fields /\ d.visible = a.visible /\ d.sel = a.sel
      /\ d.tab = a.tab /\ d.scope = a.scope /\ d.list = a.list
      /\ d.rows = a.rows /\ d.cached = a.cached /\ d.pending = a.pending
      /\ d.mode = a.mode /\ d.input = a.input
      /\ d.relogin = a.relogin /\ d.restore = a.restore /\ d.auth = a.auth
    BY <1>1 DEF Fields
<1>3. SelectAllClusters(a) = ReloadActive(d)
    BY DEF SelectAllClusters
<1> HIDE DEF d
<1>4. Table(d)
    BY <1>2 DEF Table, Held
<1> QED
    BY <1>2, <1>3, <1>4, ReloadTable DEF Keeps

LEMMA SelectScopedTable ==
    ASSUME NEW a, Table(a), NEW c \in Cluster
    PROVE  Table(SelectScopedCluster(a, c)) /\ Keeps(a, SelectScopedCluster(a, c))
<1> DEFINE d == [a EXCEPT !.agg = FALSE, !.scope = c, !.pending = {},
                          !.rows = <<>>, !.cached = NoSlices, !.fresh = StillFresh(a, c)]
<1>1. DOMAIN a = Fields
    BY DEF Table, Held
<1>2. SelectScopedCluster(a, c) = ReloadActive(d)
    BY DEF SelectScopedCluster
<1>3. /\ DOMAIN d = Fields /\ d.visible = a.visible /\ d.sel = a.sel
      /\ d.tab = a.tab /\ d.scope = c /\ d.list = a.list /\ ~d.agg
      /\ d.rows = <<>> /\ d.cached = NoSlices /\ d.pending = {}
      /\ d.mode = a.mode /\ d.input = a.input
      /\ d.relogin = a.relogin /\ d.restore = a.restore /\ d.auth = a.auth
    BY <1>1 DEF Fields
<1> HIDE DEF d
<1>4. Table(d)
    BY <1>3 DEF Table, Held, NoSlices
<1> QED
    BY <1>2, <1>3, <1>4, ReloadTable DEF Keeps

LEMMA TopologyTable ==
    ASSUME NEW a, Table(a), NEW b \in ApplyTopology(a)
    PROVE  Table(b) /\ Keeps(a, b) /\ b.agg = a.agg
<1>1. PICK s \in Cluster, k \in {NoSlices, a.cached} :
          b = Reselect(a, s, k)
    BY DEF ApplyTopology
<1> DEFINE d == [a EXCEPT !.scope = s, !.cached = k, !.fresh = StillFresh(a, s)]
<1>2. DOMAIN a = Fields
    BY DEF Table, Held
<1>3. b = ReloadActive(d)
    BY <1>1 DEF Reselect
<1>4. /\ DOMAIN d = Fields /\ d.visible = a.visible /\ d.sel = a.sel
      /\ d.tab = a.tab /\ d.scope = s /\ d.list = a.list /\ d.agg = a.agg
      /\ d.rows = a.rows /\ d.cached = k /\ d.pending = a.pending
      /\ d.mode = a.mode /\ d.input = a.input
      /\ d.relogin = a.relogin /\ d.restore = a.restore /\ d.auth = a.auth
    BY <1>2 DEF Fields
<1> HIDE DEF d
<1>5. DOMAIN k \subseteq Cluster /\ \A c \in DOMAIN k : k[c] \in Seq(Row)
    BY <1>1 DEF Table, Held, NoSlices
<1>6. s # NoCluster
    BY ScreenAssumption DEF Cluster
<1>7. Table(d)
    BY <1>4, <1>5, <1>6 DEF Table, Held
<1> QED
    BY <1>3, <1>4, <1>7, ReloadTable DEF Keeps

\* The tab left behind is the only one with a prompt: the new one has none.
LEMMA SwitchTable ==
    ASSUME NEW a, Table(a), NEW tab \in Tab, NEW b \in SwitchTab(a, tab)
    PROVE  /\ Table(b) /\ b.agg = a.agg
           /\ b.relogin = a.relogin /\ b.restore = a.restore /\ b.auth = a.auth
           /\ b = a \/ (b.mode = M("Normal") /\ b.input = Blank)
<1>1. CASE tab = a.tab
    BY <1>1 DEF SwitchTab
<1>2. CASE tab # a.tab
    <2> DEFINE to(l, f) == [a EXCEPT !.tab = tab, !.input = Blank, !.mode = M("Normal"),
                                     !.sel = 0, !.list = l, !.fresh = f,
                                     !.rows = <<>>, !.cached = NoSlices]
               held == IF a.scope = NoCluster \/ ~Revisits THEN {<<>>}
                       ELSE UNION {Listing(tab, c) : c \in Cluster}
               valid == {l \in held : \A i \in DOMAIN l : l[i].of = a.scope}
               Rests(d) == /\ Table(d) /\ d.agg = a.agg /\ d.mode = M("Normal") /\ d.input = Blank
                           /\ d.relogin = a.relogin /\ d.restore = a.restore /\ d.auth = a.auth
    <2>1. DOMAIN a = Fields
        BY DEF Table, Held
    <2>2. held \subseteq UNION {Listing(tab, c) : c \in Cluster}
        BY EmptyListing DEF Cluster
    <2>3. ASSUME NEW l \in held, NEW f
          PROVE  Rests(to(l, f))
        <3> DEFINE d == to(l, f)
        <3>1. /\ DOMAIN d = Fields /\ d.visible = a.visible /\ d.sel = 0
              /\ d.tab = tab /\ d.scope = a.scope /\ d.list = l /\ d.agg = a.agg
              /\ d.rows = <<>> /\ d.cached = NoSlices /\ d.pending = a.pending
              /\ d.mode = M("Normal") /\ d.input = Blank
              /\ d.relogin = a.relogin /\ d.restore = a.restore /\ d.auth = a.auth
            BY <2>1 DEF Fields
        <3> HIDE DEF d, held
        <3>2. Table(d)
            BY <2>2, <3>1 DEF Table, Held, NoSlices
        <3> QED
            BY <3>1, <3>2 DEF d
    <2> HIDE DEF to
    <2>4. ASSUME NEW l \in held
          PROVE  Rests(ReloadActive(to(l, FALSE)))
        <3> DEFINE d == to(l, FALSE)
        <3>1. Rests(d)
            BY <2>3
        <3> HIDE DEF d
        <3>2. Rests(ReloadActive(d))
            BY <3>1, ReloadTable DEF Keeps
        <3> QED
            BY <3>2 DEF d
    <2>5. ASSUME NEW l \in valid
          PROVE  Rests(RecomputeVisible([to(l, TRUE) EXCEPT !.loading = FALSE]))
        <3> DEFINE e == to(l, TRUE)
                   d == [e EXCEPT !.loading = FALSE]
        <3>1. Rests(e)
            BY <2>3
        <3> HIDE DEF e
        <3>2. /\ DOMAIN d = Fields /\ d.sel = e.sel
              /\ d.tab = e.tab /\ d.scope = e.scope /\ d.list = e.list /\ d.agg = e.agg
              /\ d.rows = e.rows /\ d.cached = e.cached /\ d.pending = e.pending
              /\ d.mode = e.mode /\ d.input = e.input
              /\ d.relogin = e.relogin /\ d.restore = e.restore /\ d.auth = e.auth
            BY <3>1 DEF Table, Held, Fields
        <3> HIDE DEF d
        <3>3. Held(d)
            BY <3>1, <3>2 DEF Table, Held
        <3> QED
            BY <3>1, <3>2, <3>3, RecomputeTable DEF Keeps, d, e
    <2> DEFINE Fetched(l) == ReloadActive(to(l, FALSE))
               Kept(l) == RecomputeVisible([to(l, TRUE) EXCEPT !.loading = FALSE])
    <2>6. SwitchTab(a, tab) \subseteq {Fetched(l) : l \in held} \cup {Kept(l) : l \in valid}
        BY <1>2, Zenon DEF SwitchTab, to
    <2>7. /\ \A l \in held : Rests(Fetched(l))
          /\ \A l \in valid : Rests(Kept(l))
        BY <2>4, <2>5
    <2> HIDE DEF held, valid, Fetched, Kept
    <2> QED
        BY <2>6, <2>7
<1> QED
    BY <1>1, <1>2

LEMMA ClearTable ==
    ASSUME NEW a, Held(a)
    PROVE  LET b == ClearSession(a)
           IN  /\ Table(b) /\ b.mode = M("Normal") /\ b.input = a.input
               /\ b.relogin = a.relogin /\ b.restore = a.restore /\ b.auth = a.auth
<1> DEFINE d == [a EXCEPT !.list = <<>>, !.mode = M("Normal"), !.rows = <<>>,
                          !.cached = NoSlices, !.fresh = FALSE, !.scope = NoCluster,
                          !.agg = FALSE, !.tab = "Ssh", !.pending = {}, !.loading = FALSE]
<1>1. DOMAIN a = Fields
    BY DEF Held
<1>2. /\ DOMAIN d = Fields /\ d.sel = a.sel
      /\ d.tab = "Ssh" /\ d.scope = NoCluster /\ d.list = <<>> /\ ~d.agg
      /\ d.rows = <<>> /\ d.cached = NoSlices /\ d.pending = {}
      /\ d.mode = M("Normal") /\ d.input = a.input
      /\ d.relogin = a.relogin /\ d.restore = a.restore /\ d.auth = a.auth
    BY <1>1 DEF Fields
<1>3. ClearSession(a) = RecomputeVisible(d)
    BY DEF ClearSession
<1> HIDE DEF d
<1>4. "Ssh" \in Tab /\ <<>> \in UNION {Listing("Ssh", c) : c \in Cluster}
    BY EmptyListing DEF Tab, Cluster
<1>5. Held(d)
    BY <1>2, <1>4 DEF Held, NoSlices
<1> QED
    BY <1>2, <1>3, <1>5, RecomputeTable DEF Keeps

LEMMA EnterTable ==
    ASSUME NEW a, Held(a)
    PROVE  LET b == EnterProfile(a)
           IN  /\ Table(b) /\ b.mode = M("Normal") /\ b.input = a.input /\ b.restore = FALSE
               /\ b.auth = a.auth
<1> DEFINE d == ClearSession(a)
           b == [d EXCEPT !.restore = FALSE, !.relogin = FALSE]
<1>1. Table(d) /\ d.mode = M("Normal") /\ d.input = a.input /\ d.auth = a.auth
    BY ClearTable
<1>2. EnterProfile(a) = b
    BY DEF EnterProfile
<1> HIDE DEF d
<1>3. /\ DOMAIN b = Fields /\ b.visible = d.visible /\ b.sel = d.sel
      /\ b.tab = d.tab /\ b.scope = d.scope /\ b.agg = d.agg /\ b.list = d.list
      /\ b.rows = d.rows /\ b.cached = d.cached /\ b.pending = d.pending
      /\ b.mode = d.mode /\ b.input = d.input /\ b.restore = FALSE /\ b.auth = d.auth
    BY <1>1 DEF Table, Held, Fields
<1> HIDE DEF b
<1>4. Table(b)
    BY <1>1, <1>3 DEF Table, Held
<1> QED
    BY <1>1, <1>2, <1>3, <1>4

-----------------------------------------------------------------------------
(***************************************************************************)
(* Changes of mode and of the prompt's text.                               *)
(***************************************************************************)
Edited(a, b) ==
    /\ Table(b) /\ Highlight(b) = Highlight(a)
    /\ b.tab = a.tab /\ b.agg = a.agg /\ b.scope = a.scope /\ b.loading = a.loading
    /\ b.relogin = a.relogin /\ b.restore = a.restore /\ b.auth = a.auth

\* All that the table reads.
AgreeOnTable(a, b) ==
    /\ DOMAIN b = Fields /\ b.visible = a.visible /\ b.sel = a.sel
    /\ b.tab = a.tab /\ b.scope = a.scope /\ b.agg = a.agg /\ b.list = a.list
    /\ b.rows = a.rows /\ b.cached = a.cached /\ b.pending = a.pending
    /\ b.loading = a.loading

LEMMA SameTable ==
    ASSUME NEW a, Table(a), NEW b, AgreeOnTable(a, b)
    PROVE  Table(b) /\ Highlight(b) = Highlight(a)
BY DEF AgreeOnTable, Table, Held, Highlight, Shown

LEMMA EditMode ==
    ASSUME NEW a, Table(a), NEW m
    PROVE  LET b == [a EXCEPT !.mode = m]
           IN  Edited(a, b) /\ b.mode = m /\ b.input = a.input
<1> DEFINE b == [a EXCEPT !.mode = m]
<1>1. DOMAIN a = Fields
    BY DEF Table, Held
<1>2. /\ AgreeOnTable(a, b) /\ b.mode = m /\ b.input = a.input
      /\ b.relogin = a.relogin /\ b.restore = a.restore /\ b.auth = a.auth
    BY <1>1 DEF Fields, AgreeOnTable
<1> HIDE DEF b
<1>3. Table(b) /\ Highlight(b) = Highlight(a)
    BY <1>2, SameTable
<1> QED
    BY <1>2, <1>3 DEF Edited, AgreeOnTable, b

LEMMA EditInput ==
    ASSUME NEW a, Table(a), NEW t
    PROVE  LET b == [a EXCEPT !.input = t]
           IN  Edited(a, b) /\ b.mode = a.mode /\ b.input = t
<1> DEFINE b == [a EXCEPT !.input = t]
<1>1. DOMAIN a = Fields
    BY DEF Table, Held
<1>2. /\ AgreeOnTable(a, b) /\ b.mode = a.mode /\ b.input = t
      /\ b.relogin = a.relogin /\ b.restore = a.restore /\ b.auth = a.auth
    BY <1>1 DEF Fields, AgreeOnTable
<1> HIDE DEF b
<1>3. Table(b) /\ Highlight(b) = Highlight(a)
    BY <1>2, SameTable
<1> QED
    BY <1>2, <1>3 DEF Edited, AgreeOnTable, b

LEMMA EditTo ==
    ASSUME NEW a, Table(a), NEW at
    PROVE  LET b == To(a, at)
           IN  Edited(a, b) /\ b.mode.at = at /\ b.input = a.input
BY EditMode DEF To, M

LEMMA EditCancel ==
    ASSUME NEW a, Table(a)
    PROVE  LET b == Cancel(a)
           IN  Edited(a, b) /\ b.mode.at = "Normal" /\ b.input = Blank
<1> DEFINE d == To(a, "Normal")
<1>1. Edited(a, d) /\ d.mode.at = "Normal"
    BY EditTo
<1>2. Cancel(a) = [d EXCEPT !.input = Blank]
    BY DEF Cancel
<1> HIDE DEF d
<1>3. LET b == [d EXCEPT !.input = Blank]
      IN  Edited(d, b) /\ b.mode = d.mode /\ b.input = Blank
    BY <1>1, EditInput DEF Edited
<1> QED
    BY <1>1, <1>2, <1>3 DEF Edited

LEMMA EditEnter ==
    ASSUME NEW a, Table(a), NEW m
    PROVE  LET b == EnterInputMode(a, m)
           IN  Edited(a, b) /\ b.mode = m /\ b.input = Blank
<1> DEFINE b == EnterInputMode(a, m)
<1>1. DOMAIN a = Fields
    BY DEF Table, Held
<1>2. /\ AgreeOnTable(a, b) /\ b.mode = m /\ b.input = Blank
      /\ b.relogin = a.relogin /\ b.restore = a.restore /\ b.auth = a.auth
    BY <1>1 DEF Fields, AgreeOnTable, EnterInputMode
<1> HIDE DEF b
<1>3. Table(b) /\ Highlight(b) = Highlight(a)
    BY <1>2, SameTable
<1> QED
    BY <1>2, <1>3 DEF Edited, AgreeOnTable, b

LEMMA EditTyped ==
    ASSUME NEW a, Table(a), NEW k, NEW b \in Typed(a, k)
    PROVE  /\ Edited(a, b) /\ b.mode = a.mode
           /\ a.input # "left" => b.input # "left"
<1>1. CASE b = a
    BY <1>1 DEF Edited
<1>2. CASE b # a
    <2>1. PICK t \in {Blank, "here", "left"} :
              b = [a EXCEPT !.input = t] /\ (a.input # "left" => t # "left")
        BY <1>2 DEF Typed, Blank
    <2> QED
        BY <2>1, EditInput
<1> QED
    BY <1>1, <1>2

-----------------------------------------------------------------------------
(***************************************************************************)
(* What a key may leave.  A handler starts from an App between two events, *)
(* with `row` the row its mode was opened on, and its results must agree   *)
(* with the row remembered for them.                                       *)
(***************************************************************************)
Start(a, row) ==
    /\ Table(a)
    /\ a.mode.at \in InputModes => a.input # "left"
    /\ Opened(a, row) /\ ~a.restore

\* The prompt open in `b` holds no text of another mode's.
OwnText(a, b) ==
    b.mode.at \in InputModes => \/ b.input = Blank
                                \/ b.mode.at = a.mode.at /\ b.input # "left"

Fits(a, r, row) ==
    /\ Table(r.app) /\ OwnText(a, r.app)
    /\ Opened(r.app, row) /\ Commanded(r.app, r.cmd, row)

\* `x`, a row or what a mode carries of it, names a resource's row.
Names(x, row) ==
    /\ row # NoRow /\ row.kind \in {"row", "done"}
    /\ x.item = row.item /\ x.cluster = row.cluster

Free == ModeNames \ (Carrying \cup InputModes)

LEMMA StayFits ==
    ASSUME NEW a, NEW row, Start(a, row), NEW b, Edited(a, b), b.mode = a.mode,
           OwnText(a, b), NEW c, c.verb \notin RowCommands
    PROVE  Fits(a, R(b, c), row)
BY DEF Start, Fits, R, Edited, Opened, Commanded

LEMMA SameFits ==
    ASSUME NEW a, NEW row, Start(a, row), NEW c, c.verb \notin RowCommands
    PROVE  Fits(a, R(a, c), row)
<1>1. Edited(a, a) /\ OwnText(a, a)
    BY DEF Start, Edited, OwnText
<1> QED
    BY <1>1, StayFits

LEMMA FreeFits ==
    ASSUME NEW a, NEW b, Table(b), ~b.restore, NEW c, c.verb \notin RowCommands,
           b.mode.at \in ModeNames \ Carrying, b.mode.at \in InputModes => b.input = Blank,
           NEW row
    PROVE  Fits(a, R(b, c), row)
<1>1. Opened(b, row)
    BY DEF Opened, Carrying, FromRow
<1>2. Commanded(b, c, row) /\ OwnText(a, b)
    BY DEF Commanded, OwnText
<1> QED
    BY <1>1, <1>2 DEF Fits, R

LEMMA ToFits ==
    ASSUME NEW a, Table(a), ~a.restore, NEW at \in Free, NEW c, c.verb \notin RowCommands, NEW row
    PROVE  Fits(a, R(To(a, at), c), row)
<1>1. Edited(a, To(a, at)) /\ To(a, at).mode.at = at
    BY EditTo
<1> QED
    BY <1>1, FreeFits DEF Edited, Free

LEMMA CancelFits ==
    ASSUME NEW a, Table(a), ~a.restore, NEW c, c.verb \notin RowCommands, NEW row
    PROVE  Fits(a, R(Cancel(a), c), row)
<1>1. Edited(a, Cancel(a)) /\ Cancel(a).mode.at = "Normal"
    BY EditCancel
<1>2. "Normal" \in Free
    BY DEF Free, ModeNames, OtherModes, Carrying, InputModes
<1> QED
    BY <1>1, <1>2, FreeFits DEF Edited, Free

LEMMA NormalIsFree ==
    /\ "Normal" \in Free
    /\ {"Picker", "ConfirmLogout", "ConfirmTokenRm", "ConfirmMfaRm", "ShowMfa", "ShowSessions",
        "ShowDetail", "Notice", "Forwards", "AppProxy", "Settings", "AddUser"} \subseteq Free
BY DEF Free, ModeNames, OtherModes, FromRow, Carrying, InputModes

LEMMA QuietVerbs ==
    /\ NoCmd.verb \notin RowCommands /\ Query.verb \notin RowCommands
    /\ Interactive.verb \notin RowCommands
    /\ \A v \in {"quit", "login", "login_proxy"} : Plain(v).verb \notin RowCommands
BY DEF NoCmd, Query, Interactive, Plain, RowCommands

\* A command on the row, from a mode that carries no other row.
LEMMA RowFits ==
    ASSUME NEW a, NEW b, Table(b), ~b.restore, OwnText(a, b), NEW row, Opened(b, row),
           NEW x, Names(x, row),
           NEW verb \in RowCommands \ {"request_approve", "request_deny"}
    PROVE  /\ Fits(a, R(b, Scoped(verb, x)), row)
           /\ Fits(a, R(b, Bare(verb, x.item)), row)
BY DEF Names, Fits, R, Scoped, Bare, Commanded

LEMMA NormalRowFits ==
    ASSUME NEW a, NEW b, Table(b), ~b.restore, b.mode.at = "Normal", NEW row,
           NEW x, Names(x, row),
           NEW verb \in RowCommands \ {"request_approve", "request_deny"}
    PROVE  /\ Fits(a, R(b, Scoped(verb, x)), row)
           /\ Fits(a, R(b, Bare(verb, x.item)), row)
<1>1. OwnText(a, b)
    BY DEF OwnText, InputModes
<1>2. Opened(b, row)
    BY DEF Opened, ModeNames, OtherModes, FromRow
<1> QED
    BY <1>1, <1>2, RowFits

\* A mode that carries the row.
LEMMA CarryFits ==
    ASSUME NEW a, NEW b, Table(b), ~b.restore, NEW row, NEW x, Names(x, row),
           NEW at \in FromRow, b.mode = Carry(at, x), at \in InputModes => b.input = Blank
    PROVE  Fits(a, R(b, NoCmd), row)
<1>1. b.mode.at = at /\ b.mode.item = x.item /\ b.mode.cluster = x.cluster
    BY DEF Carry
<1>2. Opened(b, row)
    BY <1>1 DEF Names, Opened, FromRow, ModeNames
<1>3. OwnText(a, b)
    BY <1>1 DEF OwnText
<1> QED
    BY <1>2, <1>3, QuietVerbs DEF Fits, R, Commanded

LEMMA TextFits ==
    ASSUME NEW a, NEW row, Start(a, row), a.mode.at \in InputModes, NEW k, NEW submit,
           \A r \in submit : Fits(a, r, row), NEW r \in TextKey(a, k, submit)
    PROVE  Fits(a, r, row)
<1>1. CASE r = R(Cancel(a), NoCmd)
    BY <1>1, CancelFits, QuietVerbs DEF Start
<1>2. CASE r \in submit
    BY <1>2
<1>3. CASE \E b \in Typed(a, k) : r = R(b, NoCmd)
    <2>1. PICK b \in Typed(a, k) : r = R(b, NoCmd)
        BY <1>3
    <2>2. Edited(a, b) /\ b.mode = a.mode /\ (a.input # "left" => b.input # "left")
        BY EditTyped DEF Start
    <2>3. OwnText(a, b)
        BY <2>2 DEF OwnText, Start
    <2> QED
        BY <2>1, <2>2, <2>3, StayFits, QuietVerbs
<1> QED
    BY <1>1, <1>2, <1>3 DEF TextKey, Only

LEMMA FormFits ==
    ASSUME NEW a, NEW row, Start(a, row), NEW k, NEW closed, Fits(a, R(closed, NoCmd), row),
           NEW submit, \A r \in submit : Fits(a, r, row), NEW r \in FormKey(a, k, closed, submit)
    PROVE  Fits(a, r, row)
<1>1. Fits(a, R(a, NoCmd), row)
    BY SameFits, QuietVerbs
<1> QED
    BY <1>1 DEF FormKey, Only

-----------------------------------------------------------------------------
(***************************************************************************)
(* The row an action works on is the one highlighted, and a resource.      *)
(***************************************************************************)
LEMMA HighlightRow ==
    ASSUME NEW a, Held(a), Highlight(a) # NoRow
    PROVE  /\ Highlight(a).kind \in {"row", "done", "login", "error"}
           /\ ~a.agg => Highlight(a).kind \in {"row", "done"}
<1>1. a.visible[a.sel] \in DOMAIN Shown(a) /\ Highlight(a) = Shown(a)[a.visible[a.sel]]
    BY DEF Highlight
<1> QED
    BY <1>1, ShownRows

LEMMA TargetNames ==
    ASSUME NEW a, Held(a), NEW x \in RowTarget(a)
    PROVE  /\ x = Highlight(a) /\ Highlight(a) # NoRow
           /\ Names(x, Highlight(a))
<1>1. x = Highlight(a) /\ x # NoRow /\ (a.agg => x.kind \notin {"login", "error"})
    BY DEF RowTarget, AggRowActionable
<1> QED
    BY <1>1, HighlightRow DEF Names

\* The typed listing's item at the index of the highlighted row is that row's
\* name in the view of one cluster.
LEMMA TypedNames ==
    ASSUME NEW a, Held(a), NEW item \in TypedItem(a), ~a.agg
    PROVE  /\ Highlight(a) # NoRow /\ Highlight(a).kind \in {"row", "done"}
           /\ item = Highlight(a).item
<1> DEFINE i == a.visible[a.sel]
<1>1. a.sel \in DOMAIN a.visible /\ i \in DOMAIN a.list /\ item = a.list[i].item
    BY DEF TypedItem
<1>2. DOMAIN Shown(a) = DOMAIN a.list
    BY ShownRows
<1>3. Highlight(a) = Shown(a)[i]
    BY <1>1, <1>2 DEF Highlight
<1>4. /\ Shown(a)[i] # NoRow /\ Shown(a)[i].kind \in {"row", "done"}
      /\ Shown(a)[i].item = a.list[i].item
    BY <1>1, <1>2, ShownRows
<1> QED
    BY <1>1, <1>3, <1>4

-----------------------------------------------------------------------------
(***************************************************************************)
(* The handlers of the modes that carry a row.                             *)
(***************************************************************************)
LEMMA CarriedNames ==
    ASSUME NEW a, NEW row, Start(a, row), a.mode.at \in FromRow
    PROVE  Names(a.mode, row)
BY DEF Start, Opened, Names

LEMMA SshFits ==
    ASSUME NEW a, NEW b, Table(b), ~b.restore, NEW row, NEW x, Names(x, row),
           NEW r \in ConnectSsh(b, x)
    PROVE  Fits(a, r, row)
<1>1. Edited(b, To(b, "Normal")) /\ To(b, "Normal").mode.at = "Normal"
    BY EditTo
<1>2. r = R(To(b, "Normal"), Scoped("ssh", x))
    BY DEF ConnectSsh
<1>3. "ssh" \in RowCommands \ {"request_approve", "request_deny"}
    BY DEF RowCommands
<1> QED
    BY <1>1, <1>2, <1>3, NormalRowFits DEF Edited

LEMMA LoginFits ==
    ASSUME NEW a, NEW row, Start(a, row), a.mode.at = "Login", NEW k, NEW r \in OnKeyLogin(a, k)
    PROVE  Fits(a, r, row)
<1> DEFINE b == [a EXCEPT !.input = Blank]
           submit == Only(a) \cup ConnectSsh(b, a.mode)
<1>1. Names(a.mode, row) /\ Table(a) /\ ~a.restore
    BY CarriedNames DEF FromRow, Start
<1>2. Edited(a, b)
    BY <1>1, EditInput
<1>3. r \in TextKey(a, k, submit)
    BY DEF OnKeyLogin
<1> HIDE DEF b
<1>4. ASSUME NEW s \in submit
      PROVE  Fits(a, s, row)
    <2>1. CASE s = R(a, NoCmd)
        BY <2>1, SameFits, QuietVerbs
    <2>2. CASE s \in ConnectSsh(b, a.mode)
        BY <1>1, <1>2, <2>2, SshFits DEF Edited
    <2> QED
        BY <2>1, <2>2 DEF Only
<1> HIDE DEF submit
<1> QED
    BY <1>3, <1>4, TextFits DEF InputModes

LEMMA OfferKubeFits ==
    ASSUME NEW a, NEW b, Table(b), ~b.restore, NEW row, NEW x, Names(x, row),
           NEW r \in OfferKubeTool(b, x)
    PROVE  Fits(a, r, row)
<1>1. CASE r = R(To(b, "Normal"), Scoped("open_kube", x))
    <2>1. Edited(b, To(b, "Normal")) /\ To(b, "Normal").mode.at = "Normal"
        BY EditTo
    <2>2. "open_kube" \in RowCommands \ {"request_approve", "request_deny"}
        BY DEF RowCommands
    <2> QED
        BY <1>1, <2>1, <2>2, NormalRowFits DEF Edited
<1>2. CASE r = R([b EXCEPT !.mode = Carry("ToolPicker", x)], NoCmd)
    <2> DEFINE d == [b EXCEPT !.mode = Carry("ToolPicker", x)]
    <2>1. Edited(b, d) /\ d.mode = Carry("ToolPicker", x)
        BY EditMode
    <2>2. "ToolPicker" \in FromRow /\ "ToolPicker" \notin InputModes
        BY DEF FromRow, InputModes
    <2> HIDE DEF d
    <2>3. Fits(a, R(d, NoCmd), row)
        BY <2>1, <2>2, CarryFits DEF Edited
    <2> QED
        BY <1>2, <2>3 DEF d
<1> QED
    BY <1>1, <1>2 DEF OfferKubeTool

LEMMA UserPickerFits ==
    ASSUME NEW a, NEW row, Start(a, row), a.mode.at = "UserPicker", NEW k,
           NEW r \in OnKeyUserPicker(a, k)
    PROVE  Fits(a, r, row)
<1>1. Names(a.mode, row) /\ Table(a) /\ ~a.restore
    BY CarriedNames DEF FromRow, Start
<1>2. Fits(a, R(To(a, "Normal"), NoCmd), row) /\ Fits(a, R(a, NoCmd), row)
    BY <1>1, ToFits, SameFits, QuietVerbs, NormalIsFree
<1>3. Edited(a, To(a, "Normal"))
    BY <1>1, EditTo
<1>4. \A s \in ConnectSsh(a, a.mode) : Fits(a, s, row)
    BY <1>1, SshFits
<1>5. \A s \in OfferKubeTool(To(a, "Normal"), a.mode) : Fits(a, s, row)
    BY <1>1, <1>3, OfferKubeFits DEF Edited
<1> QED
    BY <1>2, <1>4, <1>5 DEF OnKeyUserPicker, Only

LEMMA ToolPickerFits ==
    ASSUME NEW a, NEW row, Start(a, row), a.mode.at = "ToolPicker", NEW k,
           NEW r \in OnKeyToolPicker(a, k)
    PROVE  Fits(a, r, row)
<1>1. Names(a.mode, row) /\ Table(a) /\ ~a.restore
    BY CarriedNames DEF FromRow, Start
<1>2. Fits(a, R(To(a, "Normal"), NoCmd), row) /\ Fits(a, R(a, NoCmd), row)
    BY <1>1, ToFits, SameFits, QuietVerbs, NormalIsFree
<1>3. Edited(a, To(a, "Normal")) /\ To(a, "Normal").mode.at = "Normal"
    BY <1>1, EditTo
<1>4. "open_kube" \in RowCommands \ {"request_approve", "request_deny"}
    BY DEF RowCommands
<1>5. Fits(a, R(To(a, "Normal"), Scoped("open_kube", a.mode)), row)
    BY <1>1, <1>3, <1>4, NormalRowFits DEF Edited
<1> QED
    BY <1>2, <1>5 DEF OnKeyToolPicker, Only

LEMMA DbUserFits ==
    ASSUME NEW a, NEW row, Start(a, row), a.mode.at = "DbUser", NEW k, NEW r \in OnKeyDbUser(a, k)
    PROVE  Fits(a, r, row)
<1> DEFINE submit == Only(Cancel(a)) \cup {R(Cancel(a), Scoped("db_connect", a.mode))}
<1>1. Names(a.mode, row) /\ Table(a) /\ ~a.restore
    BY CarriedNames DEF FromRow, Start
<1>2. Fits(a, R(Cancel(a), NoCmd), row)
    BY <1>1, CancelFits, QuietVerbs
<1>3. Edited(a, Cancel(a)) /\ Cancel(a).mode.at = "Normal"
    BY <1>1, EditCancel
<1>4. "db_connect" \in RowCommands \ {"request_approve", "request_deny"}
    BY DEF RowCommands
<1>5. Fits(a, R(Cancel(a), Scoped("db_connect", a.mode)), row)
    BY <1>1, <1>3, <1>4, NormalRowFits DEF Edited
<1>6. \A s \in submit : Fits(a, s, row)
    BY <1>2, <1>5 DEF Only
<1>7. r \in TextKey(a, k, submit)
    BY DEF OnKeyDbUser
<1> HIDE DEF submit
<1> QED
    BY <1>6, <1>7, TextFits DEF InputModes

LEMMA AppPortFits ==
    ASSUME NEW a, NEW row, Start(a, row), a.mode.at = "AppPort", NEW k, NEW r \in OnKeyAppPort(a, k)
    PROVE  Fits(a, r, row)
<1> DEFINE b == [a EXCEPT !.input = Blank]
           submit == Only(b) \cup {R(Cancel(a), Scoped("open_app", a.mode))}
<1>1. Names(a.mode, row) /\ Table(a) /\ ~a.restore
    BY CarriedNames DEF FromRow, Start
<1>2. Edited(a, b) /\ b.mode = a.mode /\ b.input = Blank
    BY <1>1, EditInput
<1>3. r \in TextKey(a, k, submit)
    BY DEF OnKeyAppPort
<1> HIDE DEF b
<1>4. Fits(a, R(b, NoCmd), row)
    <2>1. OwnText(a, b)
        BY <1>2 DEF OwnText
    <2> QED
        BY <1>2, <2>1, StayFits, QuietVerbs
<1>5. Edited(a, Cancel(a)) /\ Cancel(a).mode.at = "Normal"
    BY <1>1, EditCancel
<1>6. "open_app" \in RowCommands \ {"request_approve", "request_deny"}
    BY DEF RowCommands
<1>7. Fits(a, R(Cancel(a), Scoped("open_app", a.mode)), row)
    BY <1>1, <1>5, <1>6, NormalRowFits DEF Edited
<1>8. \A s \in submit : Fits(a, s, row)
    BY <1>4, <1>7 DEF Only
<1> HIDE DEF submit
<1> QED
    BY <1>3, <1>8, TextFits DEF InputModes

\* A form opened on a row: whatever it submits is about that row.
LEMMA RowFormFits ==
    ASSUME NEW a, NEW row, Start(a, row), a.mode.at \in {"Scp", "SshOptions", "KubeExec"}, NEW k,
           NEW V, V \subseteq {"scp", "ssh_full", "open_forward", "kube_exec"},
           NEW r \in FormKey(a, k, To(a, "Normal"),
                             {R(To(a, "Normal"), Scoped(v, a.mode)) : v \in V})
    PROVE  Fits(a, r, row)
<1> DEFINE b == To(a, "Normal")
           submit == {R(b, Scoped(v, a.mode)) : v \in V}
<1>1. Names(a.mode, row) /\ Table(a) /\ ~a.restore
    BY CarriedNames DEF FromRow, Start
<1>2. Fits(a, R(b, NoCmd), row)
    BY <1>1, ToFits, QuietVerbs, NormalIsFree
<1>3. Edited(a, b) /\ b.mode.at = "Normal"
    BY <1>1, EditTo
<1>4. V \subseteq RowCommands \ {"request_approve", "request_deny"}
    BY DEF RowCommands
<1> HIDE DEF b
<1>5. \A v \in V : Fits(a, R(b, Scoped(v, a.mode)), row)
    BY <1>1, <1>3, <1>4, NormalRowFits DEF Edited
<1>6. \A s \in submit : Fits(a, s, row)
    BY <1>5
<1>7. r \in FormKey(a, k, b, submit)
    BY DEF b
<1> HIDE DEF submit
<1> QED
    BY <1>2, <1>6, <1>7, FormFits

LEMMA ScpFits ==
    ASSUME NEW a, NEW row, Start(a, row), a.mode.at = "Scp", NEW k, NEW r \in OnKeyScp(a, k)
    PROVE  Fits(a, r, row)
<1>1. {R(To(a, "Normal"), Scoped(v, a.mode)) : v \in {"scp"}}
        = {R(To(a, "Normal"), Scoped("scp", a.mode))}
    OBVIOUS
<1> QED
    BY <1>1, RowFormFits DEF OnKeyScp

LEMMA KubeExecFits ==
    ASSUME NEW a, NEW row, Start(a, row), a.mode.at = "KubeExec", NEW k, NEW r \in OnKeyKubeExec(a, k)
    PROVE  Fits(a, r, row)
<1>1. {R(To(a, "Normal"), Scoped(v, a.mode)) : v \in {"kube_exec"}}
        = {R(To(a, "Normal"), Scoped("kube_exec", a.mode))}
    OBVIOUS
<1> QED
    BY <1>1, RowFormFits DEF OnKeyKubeExec

LEMMA SshOptionsFits ==
    ASSUME NEW a, NEW row, Start(a, row), a.mode.at = "SshOptions", NEW k,
           NEW r \in OnKeySshOptions(a, k)
    PROVE  Fits(a, r, row)
BY RowFormFits DEF OnKeySshOptions

-----------------------------------------------------------------------------
(***************************************************************************)
(* The handlers of the other prompts, forms, pickers and popups.           *)
(***************************************************************************)
LEMMA CreateFits ==
    ASSUME NEW a, NEW row, Start(a, row), a.mode.at \in {"CreateRequest", "CreateToken"}, NEW k,
           NEW r \in OnKeyCreate(a, k) \cup OnKeyToken(a, k)
    PROVE  Fits(a, r, row)
<1> DEFINE submits == {R(a, NoCmd), R(Cancel(a), Interactive), R(Cancel(a), Query)}
           request == Only(a) \cup (IF a.scope = NoCluster THEN {} ELSE {R(Cancel(a), Interactive)})
           token == Only(a) \cup {R(Cancel(a), Query)}
<1>1. Table(a) /\ ~a.restore /\ a.mode.at \in InputModes
    BY DEF Start, InputModes
<1>2. \A s \in submits : Fits(a, s, row)
    BY <1>1, SameFits, CancelFits, QuietVerbs
<1>3. request \subseteq submits /\ token \subseteq submits
    BY DEF Only
<1>4. r \in TextKey(a, k, request) \/ r \in TextKey(a, k, token)
    BY DEF OnKeyCreate, OnKeyToken
<1> HIDE DEF submits, request, token
<1>5. (\A s \in request : Fits(a, s, row)) /\ \A s \in token : Fits(a, s, row)
    BY <1>2, <1>3
<1> QED
    BY <1>1, <1>4, <1>5, TextFits

LEMMA PlainFormFits ==
    ASSUME NEW a, NEW row, Start(a, row), NEW k,
           NEW r \in OnKeySettings(a, k) \cup OnKeyAddUser(a, k)
    PROVE  Fits(a, r, row)
<1> DEFINE closed == To(a, "Normal")
<1>1. Fits(a, R(closed, NoCmd), row) /\ Fits(a, R(closed, Query), row)
    BY ToFits, QuietVerbs, NormalIsFree DEF Start
<1> HIDE DEF closed
<1>2. (\A s \in Only(closed) : Fits(a, s, row)) /\ \A s \in {R(closed, Query)} : Fits(a, s, row)
    BY <1>1 DEF Only
<1>3. r \in FormKey(a, k, closed, Only(closed)) \/ r \in FormKey(a, k, closed, {R(closed, Query)})
    BY DEF OnKeySettings, OnKeyAddUser, closed
<1> QED
    BY <1>1, <1>2, <1>3, FormFits

\* The login form: the mark of a leaf login is spent by the login, or dropped.
LEMMA LoginFormFits ==
    ASSUME NEW a, NEW row, Start(a, row), a.mode.at = "LoginForm", NEW k,
           NEW r \in OnKeyLoginForm(a, k)
    PROVE  Fits(a, r, row)
<1> DEFINE n == To(a, "Normal")
           closed == [n EXCEPT !.relogin = FALSE]
<1>1. Table(a) /\ ~a.restore /\ (a.relogin => row # NoRow /\ row.kind = "login")
    BY DEF Start, Opened
<1>2. Edited(a, n) /\ n.mode.at = "Normal" /\ Table(n) /\ DOMAIN n = Fields
    BY <1>1, EditTo DEF Edited, Table, Held
<1>3. "Normal" \in ModeNames \ Carrying /\ "Normal" \notin InputModes
    BY NormalIsFree DEF Free
<1>4. r \in FormKey(a, k, closed, SubmitLogin(a))
    BY DEF OnKeyLoginForm
<1> HIDE DEF n
<1>5. Fits(a, R(closed, NoCmd), row)
    <2>1. AgreeOnTable(n, closed) /\ closed.mode.at = "Normal" /\ ~closed.restore
        BY <1>1, <1>2 DEF AgreeOnTable, Fields, Edited
    <2> HIDE DEF closed
    <2>2. Table(closed)
        BY <1>2, <2>1, SameTable
    <2> QED
        BY <1>3, <2>1, <2>2, FreeFits, QuietVerbs
<1>6. ASSUME NEW s \in SubmitLogin(a)
      PROVE  Fits(a, s, row)
    <2>1. PICK proxy \in {a.mode.cluster, NoCluster} :
             s = R([n EXCEPT !.auth = TRUE, !.restore = a.relogin \/ @, !.relogin = FALSE,
                             !.cached = IF a.relogin THEN Restrict(@, DOMAIN @ \ {proxy}) ELSE @],
                   Plain("login"))
        BY DEF SubmitLogin, n
    <2> DEFINE slices == IF a.relogin THEN Restrict(n.cached, DOMAIN n.cached \ {proxy})
                         ELSE n.cached
               restore == a.relogin \/ n.restore
               b == [n EXCEPT !.auth = TRUE, !.restore = restore, !.relogin = FALSE,
                              !.cached = slices]
    <2>2. s = R(b, Plain("login"))
        BY <1>2, <2>1 DEF Fields
    <2>3. DOMAIN slices \subseteq Cluster /\ \A c \in DOMAIN slices : slices[c] \in Seq(Row)
        BY <1>2 DEF Table, Held, Restrict
    <2>4. restore => a.relogin
        BY <1>1, <1>2 DEF Edited
    <2> HIDE DEF slices, restore
    <2>5. /\ DOMAIN b = Fields /\ b.visible = n.visible /\ b.sel = n.sel
          /\ b.tab = n.tab /\ b.scope = n.scope /\ b.agg = n.agg /\ b.list = n.list
          /\ b.rows = n.rows /\ b.cached = slices /\ b.pending = n.pending
          /\ b.mode = n.mode /\ b.auth = TRUE /\ b.restore = restore
        BY <1>2 DEF Fields
    <2> HIDE DEF b
    <2>6. Table(b)
        BY <1>2, <2>3, <2>5 DEF Table, Held
    <2>7. OwnText(a, b) /\ Opened(b, row)
        BY <1>2, <1>3, <2>5 DEF OwnText, Opened, FromRow, Carrying
    <2>8. Commanded(b, Plain("login"), row)
        <3>1. b.restore => row # NoRow /\ row.kind = "login"
            BY <1>1, <2>4, <2>5
        <3>2. Plain("login").verb = "login" /\ "login" \notin RowCommands
            BY QuietVerbs DEF Plain
        <3> QED
            BY <2>5, <3>1, <3>2 DEF Commanded
    <2> QED
        BY <2>2, <2>6, <2>7, <2>8 DEF Fits, R
<1> HIDE DEF closed
<1> QED
    BY <1>4, <1>5, <1>6, FormFits

LEMMA ConfirmUserResetFits ==
    ASSUME NEW a, NEW row, Start(a, row), a.mode.at = "ConfirmUserReset", NEW k,
           NEW r \in OnKeyConfirmUserReset(a, k)
    PROVE  Fits(a, r, row)
<1> DEFINE n == To(a, "Normal")
           c == Bare("reset_user", a.mode.item)
<1>1. Table(a) /\ ~a.restore
      /\ (~a.agg => row # NoRow /\ row.kind \in {"row", "done"} /\ a.mode.item = row.item)
    BY DEF Start, Opened
<1>2. Fits(a, R(n, NoCmd), row)
    BY <1>1, ToFits, QuietVerbs, NormalIsFree
<1>3. Edited(a, n) /\ n.mode.at = "Normal"
    BY <1>1, EditTo
<1>4. r \in {R(n, NoCmd), R(n, c)}
    BY DEF OnKeyConfirmUserReset, Confirm, Only
<1>5. c.verb = "reset_user" /\ c.item = a.mode.item /\ c.cluster = NoCluster
    BY DEF Bare
<1> HIDE DEF n, c
<1>6. Commanded(n, c, row)
    BY <1>1, <1>3, <1>5 DEF Commanded, Edited
<1>7. OwnText(a, n) /\ Opened(n, row)
    BY <1>3, NormalIsFree DEF OwnText, Opened, Free, FromRow, Carrying
<1>8. Fits(a, R(n, c), row)
    BY <1>3, <1>6, <1>7 DEF Fits, R, Edited
<1> QED
    BY <1>2, <1>4, <1>8

\* The token is looked up again at the row highlighted when it is confirmed.
LEMMA ConfirmTokenRmFits ==
    ASSUME NEW a, NEW row, Start(a, row), a.mode.at = "ConfirmTokenRm", NEW k,
           row = Highlight(a) \/ Highlight(a) = NoRow, NEW r \in OnKeyConfirmTokenRm(a, k)
    PROVE  Fits(a, r, row)
<1> DEFINE n == To(a, "Normal")
<1>1. Table(a) /\ ~a.restore
    BY DEF Start
<1>2. Fits(a, R(n, NoCmd), row)
    BY <1>1, ToFits, QuietVerbs, NormalIsFree
<1>3. Edited(a, n) /\ n.mode.at = "Normal"
    BY <1>1, EditTo
<1> HIDE DEF n
<1>4. \/ r \in Only(n)
      \/ \E item \in TypedItem(a) : r \in {R(n, Bare("remove_token", item))} \cup Only(n)
    BY DEF OnKeyConfirmTokenRm, Confirm, With, n
<1>5. ASSUME NEW item \in TypedItem(a)
      PROVE  Fits(a, R(n, Bare("remove_token", item)), row)
    <2> DEFINE c == Bare("remove_token", item)
    <2>1. c.verb = "remove_token" /\ c.item = item /\ c.cluster = NoCluster
        BY DEF Bare
    <2>2. ~a.agg => row # NoRow /\ row.kind \in {"row", "done"} /\ item = row.item
        BY <1>1, TypedNames DEF Table
    <2> HIDE DEF c
    <2>3. Commanded(n, c, row)
        BY <1>1, <1>3, <2>1, <2>2 DEF Commanded, Edited
    <2>4. OwnText(a, n) /\ Opened(n, row)
        BY <1>3, NormalIsFree DEF OwnText, Opened, Free, FromRow, Carrying
    <2> QED
        BY <1>3, <2>3, <2>4 DEF Fits, R, Edited, c
<1> QED
    BY <1>2, <1>4, <1>5 DEF Only

LEMMA AuthFits ==
    ASSUME NEW a, Table(a), ~a.restore, NEW row
    PROVE  Fits(a, R([To(a, "Normal") EXCEPT !.auth = TRUE], Interactive), row)
<1> DEFINE n == To(a, "Normal")
           b == [n EXCEPT !.auth = TRUE]
<1>1. Edited(a, n) /\ n.mode.at = "Normal"
    BY EditTo
<1> HIDE DEF n
<1>2. AgreeOnTable(n, b) /\ b.mode.at = "Normal" /\ ~b.restore
    BY <1>1 DEF AgreeOnTable, Edited, Table, Held, Fields
<1> HIDE DEF b
<1>3. Table(b)
    BY <1>1, <1>2, SameTable DEF Edited
<1>4. Fits(a, R(b, Interactive), row)
    BY <1>2, <1>3, FreeFits, NormalIsFree, QuietVerbs DEF Free
<1> QED
    BY <1>4 DEF b, n

LEMMA PopupFits ==
    ASSUME NEW a, NEW row, Start(a, row), NEW k,
           NEW r \in OnKeyConfirmLogout(a, k) \cup OnKeyConfirmMfaRm(a, k) \cup OnKeyMfa(a, k)
                     \cup OnKeySessions(a, k) \cup OnKeyDetail(a, k) \cup OnKeyForwards(a, k)
                     \cup OnKeyProxy(a, k) \cup Only(To(a, "Normal"))
    PROVE  Fits(a, r, row)
<1>1. Table(a) /\ ~a.restore
    BY DEF Start
<1>2. /\ Fits(a, R(To(a, "Normal"), NoCmd), row) /\ Fits(a, R(To(a, "Normal"), Interactive), row)
      /\ Fits(a, R(To(a, "ShowMfa"), NoCmd), row) /\ Fits(a, R(To(a, "ConfirmMfaRm"), NoCmd), row)
    BY <1>1, ToFits, QuietVerbs, NormalIsFree
<1>3. Fits(a, R(a, NoCmd), row)
    BY SameFits, QuietVerbs
<1>4. Fits(a, R([To(a, "Normal") EXCEPT !.auth = TRUE], Interactive), row)
    BY <1>1, AuthFits
<1>5. r \in {R(To(a, "Normal"), NoCmd), R(To(a, "Normal"), Interactive), R(To(a, "ShowMfa"), NoCmd),
             R(To(a, "ConfirmMfaRm"), NoCmd), R(a, NoCmd),
             R([To(a, "Normal") EXCEPT !.auth = TRUE], Interactive)}
    BY Zenon DEF OnKeyConfirmLogout, OnKeyConfirmMfaRm, OnKeyMfa, OnKeySessions, OnKeyDetail,
           OnKeyForwards, OnKeyProxy, Confirm, Only
<1> QED
    BY <1>2, <1>3, <1>4, <1>5

-----------------------------------------------------------------------------
(***************************************************************************)
(* The handlers of the table: a row drawn is acted on.                     *)
(***************************************************************************)
Rowed(a, row) == row = Highlight(a) \/ Highlight(a) = NoRow

\* The App stays as it is and the row is acted on.
LEMMA StayRowFits ==
    ASSUME NEW a, NEW row, Start(a, row), NEW x, Names(x, row),
           NEW verb \in RowCommands \ {"request_approve", "request_deny"}
    PROVE  Fits(a, R(a, Scoped(verb, x)), row) /\ Fits(a, R(a, Bare(verb, x.item)), row)
<1>1. OwnText(a, a)
    BY DEF Start, OwnText
<1> QED
    BY <1>1, RowFits DEF Start

LEMMA PromptFits ==
    ASSUME NEW a, NEW row, Start(a, row), NEW x, Names(x, row),
           NEW at \in {"Login", "DbUser", "AppPort"}
    PROVE  Fits(a, R(EnterInputMode(a, Carry(at, x)), NoCmd), row)
<1> DEFINE m == Carry(at, x)
           b == EnterInputMode(a, m)
<1> HIDE DEF m
<1>1. Edited(a, b) /\ b.mode = m /\ b.input = Blank
    BY EditEnter DEF Start
<1>2. Table(b) /\ ~b.restore
    BY <1>1 DEF Edited, Start
<1>3. at \in FromRow
    BY DEF FromRow
<1> HIDE DEF b
<1>4. Fits(a, R(b, NoCmd), row)
    BY <1>1, <1>2, <1>3, CarryFits DEF m
<1> QED
    BY <1>4 DEF b, m

LEMMA PickFits ==
    ASSUME NEW a, NEW row, Start(a, row), NEW x, Names(x, row), NEW at \in FromRow \ InputModes
    PROVE  Fits(a, R([a EXCEPT !.mode = Carry(at, x)], NoCmd), row)
<1> DEFINE m == Carry(at, x)
           b == [a EXCEPT !.mode = m]
<1> HIDE DEF m
<1>1. Edited(a, b) /\ b.mode = m
    BY EditMode DEF Start
<1>2. Table(b) /\ ~b.restore
    BY <1>1 DEF Edited, Start
<1> HIDE DEF b
<1>3. Fits(a, R(b, NoCmd), row)
    BY <1>1, <1>2, CarryFits DEF m
<1> QED
    BY <1>3 DEF b, m

LEMMA ConnectFits ==
    ASSUME NEW a, NEW row, Start(a, row), NEW x, Names(x, row), NEW r \in ConnectResource(a, x)
    PROVE  Fits(a, r, row)
<1>1. Table(a) /\ ~a.restore
    BY DEF Start
<1>2. Fits(a, R(a, NoCmd), row)
    BY SameFits, QuietVerbs
<1>3. {"db_connect", "request_show"} \subseteq RowCommands \ {"request_approve", "request_deny"}
    BY DEF RowCommands
<1>4. CASE r \in {R(a, Scoped("db_connect", x)), R(a, Scoped("request_show", x)), R(a, NoCmd)}
    BY <1>2, <1>3, <1>4, StayRowFits
<1>5. CASE r \in {R(EnterInputMode(a, Carry(at, x)), NoCmd) : at \in {"Login", "DbUser", "AppPort"}}
    BY <1>5, PromptFits
<1>6. CASE r = R([a EXCEPT !.mode = Carry("UserPicker", x)], NoCmd)
    <2>1. "UserPicker" \in FromRow \ InputModes
        BY DEF FromRow, InputModes
    <2> QED
        BY <1>6, <2>1, PickFits
<1>7. CASE r \in ConnectSsh(a, x)
    BY <1>1, <1>7, SshFits
<1>8. CASE r \in OfferKubeTool(a, x)
    BY <1>1, <1>8, OfferKubeFits
<1>9. r \in {R(a, Scoped("db_connect", x)), R(a, Scoped("request_show", x)), R(a, NoCmd),
             R([a EXCEPT !.mode = Carry("UserPicker", x)], NoCmd),
             R(EnterInputMode(a, Carry("Login", x)), NoCmd),
             R(EnterInputMode(a, Carry("DbUser", x)), NoCmd),
             R(EnterInputMode(a, Carry("AppPort", x)), NoCmd)}
            \cup ConnectSsh(a, x) \cup OfferKubeTool(a, x)
    BY Zenon DEF ConnectResource, OfferConnect, Only
<1> QED
    BY <1>4, <1>5, <1>6, <1>7, <1>8, <1>9

LEMMA ActivateFits ==
    ASSUME NEW a, NEW row, Start(a, row), Rowed(a, row), NEW r \in Activate(a)
    PROVE  Fits(a, r, row)
<1> DEFINE h == Highlight(a)
<1>1. Table(a) /\ Held(a) /\ ~a.restore
    BY DEF Start, Table
<1>2. \/ r \in Only(a)
      \/ h # NoRow /\ (a.agg => AggRowActionable(h)) /\ r = R(a, Bare("play", h.item))
      \/ r \in Only(To(a, "ShowDetail"))
      \/ \E x \in RowTarget(a) : r \in ConnectResource(a, x)
    BY DEF Activate, With, Only
<1>3. CASE r \in Only(a)
    BY <1>3, SameFits, QuietVerbs DEF Only
<1>4. CASE h # NoRow /\ (a.agg => AggRowActionable(h)) /\ r = R(a, Bare("play", h.item))
    <2>1. h = row /\ Names(h, row)
        BY <1>1, <1>4, HighlightRow DEF Rowed, Names, AggRowActionable
    <2>2. "play" \in RowCommands \ {"request_approve", "request_deny"}
        BY DEF RowCommands
    <2> QED
        BY <1>4, <2>1, <2>2, StayRowFits
<1>5. CASE r \in Only(To(a, "ShowDetail"))
    BY <1>1, <1>5, ToFits, QuietVerbs, NormalIsFree DEF Only
<1>6. CASE \E x \in RowTarget(a) : r \in ConnectResource(a, x)
    <2>1. PICK x \in RowTarget(a) : r \in ConnectResource(a, x)
        BY <1>6
    <2>2. Names(x, row)
        BY <1>1, TargetNames DEF Rowed
    <2> QED
        BY <2>1, <2>2, ConnectFits
<1> QED
    BY <1>2, <1>3, <1>4, <1>5, <1>6

LEMMA ReviewFits ==
    ASSUME NEW a, NEW row, Start(a, row), Rowed(a, row),
           NEW verb \in {"request_approve", "request_deny"}, NEW r \in ReviewSelected(a, verb)
    PROVE  Fits(a, r, row)
<1>1. \/ r = R(a, NoCmd)
      \/ \E x \in RowTarget(a) : x.kind = "row" /\ r = R(a, Scoped(verb, x))
    BY DEF ReviewSelected, With, Only
<1>2. CASE r = R(a, NoCmd)
    BY <1>2, SameFits, QuietVerbs
<1>3. CASE \E x \in RowTarget(a) : x.kind = "row" /\ r = R(a, Scoped(verb, x))
    <2>1. PICK x \in RowTarget(a) : x.kind = "row" /\ r = R(a, Scoped(verb, x))
        BY <1>3
    <2>2. x = row /\ Names(x, row)
        BY TargetNames DEF Start, Table, Rowed
    <2>3. Commanded(a, Scoped(verb, x), row)
        BY <2>1, <2>2 DEF Start, Commanded, Scoped, Names
    <2> QED
        BY <2>1, <2>3 DEF Fits, R, Start, OwnText
<1> QED
    BY <1>1, <1>2, <1>3

LEMMA DirectFits ==
    ASSUME NEW a, NEW row, Start(a, row), Rowed(a, row),
           NEW verb \in RowCommands \ {"request_approve", "request_deny"},
           NEW r, r \in Directly(a, verb) \/ \E x \in RowTarget(a) : r = R(a, Bare(verb, x.item))
    PROVE  Fits(a, r, row)
<1>1. \/ r = R(a, NoCmd)
      \/ \E x \in RowTarget(a) : r \in {R(a, Scoped(verb, x)), R(a, Bare(verb, x.item))}
    BY DEF Directly, With, Only
<1>2. CASE r = R(a, NoCmd)
    BY <1>2, SameFits, QuietVerbs
<1>3. ASSUME NEW x \in RowTarget(a), r \in {R(a, Scoped(verb, x)), R(a, Bare(verb, x.item))}
      PROVE  Fits(a, r, row)
    <2>1. Names(x, row)
        BY TargetNames DEF Start, Table, Rowed
    <2> QED
        BY <1>3, <2>1, StayRowFits
<1> QED
    BY <1>1, <1>2, <1>3

LEMMA OpenFormFits ==
    ASSUME NEW a, NEW row, Start(a, row), Rowed(a, row), NEW at \in {"Scp", "SshOptions", "KubeExec"},
           NEW r \in OpenForm(a, at)
    PROVE  Fits(a, r, row)
<1>1. \/ r = R(a, NoCmd)
      \/ \E x \in RowTarget(a) : r = R([a EXCEPT !.mode = Carry(at, x)], NoCmd)
    BY DEF OpenForm, With, Only
<1>2. CASE r = R(a, NoCmd)
    BY <1>2, SameFits, QuietVerbs
<1>3. ASSUME NEW x \in RowTarget(a), r = R([a EXCEPT !.mode = Carry(at, x)], NoCmd)
      PROVE  Fits(a, r, row)
    <2>1. Names(x, row)
        BY TargetNames DEF Start, Table, Rowed
    <2>2. at \in FromRow \ InputModes
        BY DEF FromRow, InputModes
    <2> QED
        BY <1>3, <2>1, <2>2, PickFits
<1> QED
    BY <1>1, <1>2, <1>3

LEMMA AskResetFits ==
    ASSUME NEW a, NEW row, Start(a, row), Rowed(a, row), NEW item \in TypedItem(a)
    PROVE  Fits(a, R([a EXCEPT !.mode = [at |-> "ConfirmUserReset", item |-> item]], NoCmd), row)
<1> DEFINE m == [at |-> "ConfirmUserReset", item |-> item]
           b == [a EXCEPT !.mode = m]
<1>1. m.at = "ConfirmUserReset" /\ m.item = item
    OBVIOUS
<1> HIDE DEF m
<1>2. Edited(a, b) /\ b.mode = m
    BY EditMode DEF Start
<1>3. ~a.agg => row # NoRow /\ row.kind \in {"row", "done"} /\ item = row.item
    BY TypedNames DEF Rowed, Start, Table
<1> HIDE DEF b
<1>4. Opened(b, row)
    BY <1>1, <1>2, <1>3 DEF Opened, Edited, ModeNames, FromRow
<1>5. OwnText(a, b)
    BY <1>1, <1>2 DEF OwnText, InputModes
<1>6. Commanded(b, NoCmd, row)
    BY <1>2, QuietVerbs DEF Commanded, Edited, Start
<1>7. Fits(a, R(b, NoCmd), row)
    BY <1>2, <1>4, <1>5, <1>6 DEF Fits, R, Edited
<1> QED
    BY <1>7 DEF b, m

\* `L` on a row that needs a login marks the login with that row.
LEMMA LoginActionFits ==
    ASSUME NEW a, NEW row, Start(a, row), Rowed(a, row)
    PROVE  Fits(a, R(LoginAction(a), NoCmd), row)
<1>1. PICK m \in {[at |-> "LoginForm", cluster |-> c] : c \in {Highlight(a).cluster, NoCluster}},
           mark \in BOOLEAN :
         /\ LoginAction(a) = [a EXCEPT !.relogin = mark, !.mode = m]
         /\ m.at = "LoginForm"
         /\ mark => row # NoRow /\ row.kind = "login"
    <2>1. CASE PendingLoginCluster(a)
        <3> DEFINE m == [at |-> "LoginForm", cluster |-> Highlight(a).cluster]
        <3>1. LoginAction(a) = [a EXCEPT !.relogin = TRUE, !.mode = m] /\ m.at = "LoginForm"
            BY <2>1 DEF LoginAction
        <3>2. row # NoRow /\ row.kind = "login"
            BY <2>1 DEF PendingLoginCluster, Rowed
        <3> QED
            BY <3>1, <3>2
    <2>2. CASE ~PendingLoginCluster(a)
        <3> DEFINE m == [at |-> "LoginForm", cluster |-> NoCluster]
        <3>1. LoginAction(a) = [a EXCEPT !.relogin = FALSE, !.mode = m] /\ m.at = "LoginForm"
            BY <2>2 DEF LoginAction
        <3> QED
            BY <3>1
    <2> QED
        BY <2>1, <2>2
<1> DEFINE b == [a EXCEPT !.relogin = mark, !.mode = m]
<1>2. AgreeOnTable(a, b) /\ b.mode = m /\ b.relogin = mark /\ b.restore = a.restore
    BY DEF AgreeOnTable, Start, Table, Held, Fields
<1> HIDE DEF b
<1>3. Table(b)
    BY <1>2, SameTable DEF Start
<1>4. Opened(b, row)
    BY <1>1, <1>2 DEF Opened, ModeNames, FromRow
<1>5. OwnText(a, b)
    BY <1>1, <1>2 DEF OwnText, InputModes
<1>6. Commanded(b, NoCmd, row)
    BY <1>2, QuietVerbs DEF Commanded, Start
<1>7. Fits(a, R(b, NoCmd), row)
    BY <1>3, <1>4, <1>5, <1>6 DEF Fits, R
<1> QED
    BY <1>1, <1>7 DEF b

LEMMA EnterFits ==
    ASSUME NEW a, NEW row, Start(a, row), NEW at \in InputModes \ Carrying
    PROVE  Fits(a, R(EnterInputMode(a, M(at)), NoCmd), row)
<1> DEFINE m == M(at)
           b == EnterInputMode(a, m)
<1>1. m.at = at
    BY DEF M
<1> HIDE DEF m
<1>2. Edited(a, b) /\ b.mode = m /\ b.input = Blank
    BY EditEnter DEF Start
<1>3. at \in ModeNames
    BY DEF InputModes, Carrying, ModeNames, FromRow
<1> HIDE DEF b
<1>4. Fits(a, R(b, NoCmd), row)
    BY <1>1, <1>2, <1>3, FreeFits, QuietVerbs DEF Edited, Start
<1> QED
    BY <1>4 DEF b, m

LEMMA TabActionFits ==
    ASSUME NEW a, NEW row, Start(a, row), Rowed(a, row), NEW k \in TabKeys(a.tab),
           NEW r \in OnKeyTabAction(a, k)
    PROVE  Fits(a, r, row)
<1> DEFINE asks == {R(EnterInputMode(a, M(at)), NoCmd) : at \in {"CreateToken", "CreateRequest"}}
           opens == {R(To(a, at), NoCmd) : at \in {"ConfirmTokenRm", "AddUser"}}
           resets == {R([a EXCEPT !.mode = [at |-> "ConfirmUserReset", item |-> item]], NoCmd) :
                        item \in TypedItem(a)}
           drops == {R(a, Bare("request_drop", x.item)) : x \in RowTarget(a)}
           verbs == {"open_db", "db_login", "db_logout", "app_login", "app_logout"}
<1>1. Table(a) /\ ~a.restore
    BY DEF Start
<1>2. \/ r = R(a, NoCmd)
      \/ r \in asks \/ r \in opens \/ r \in resets \/ r \in drops
      \/ \E verb \in {"request_approve", "request_deny"} : r \in ReviewSelected(a, verb)
      \/ \E at \in {"Scp", "SshOptions", "KubeExec"} : r \in OpenForm(a, at)
      \/ \E verb \in verbs : r \in Directly(a, verb)
    <2>1. CASE a.tab = "Tokens"
        BY <2>1 DEF OnKeyTabAction, TabKeys, Only
    <2>2. CASE a.tab = "Users"
        BY <2>2 DEF OnKeyTabAction, TabKeys, Only, With
    <2>3. CASE a.tab = "Requests"
        BY <2>3 DEF OnKeyTabAction, TabKeys, Only, With
    <2>4. CASE a.tab \in {"Ssh", "Kube"}
        BY <2>4 DEF OnKeyTabAction, TabKeys, Only
    <2>5. CASE a.tab \in {"Db", "Apps"}
        BY <2>5 DEF OnKeyTabAction, TabKeys, Only
    <2> QED
        BY <2>1, <2>2, <2>3, <2>4, <2>5 DEF TabKeys
<1>3. CASE r = R(a, NoCmd)
    BY <1>3, SameFits, QuietVerbs
<1>4. CASE r \in asks
    <2>1. {"CreateToken", "CreateRequest"} \subseteq InputModes \ Carrying
        BY DEF InputModes, Carrying
    <2> QED
        BY <1>4, <2>1, EnterFits
<1>5. CASE r \in opens
    BY <1>1, <1>5, ToFits, QuietVerbs, NormalIsFree
<1>6. CASE r \in resets
    BY <1>6, AskResetFits
<1>7. CASE r \in drops
    <2>1. "request_drop" \in RowCommands \ {"request_approve", "request_deny"}
        BY DEF RowCommands
    <2> QED
        BY <1>7, <2>1, DirectFits
<1>8. CASE \E verb \in {"request_approve", "request_deny"} : r \in ReviewSelected(a, verb)
    BY <1>8, ReviewFits
<1>9. CASE \E at \in {"Scp", "SshOptions", "KubeExec"} : r \in OpenForm(a, at)
    BY <1>9, OpenFormFits
<1>10. CASE \E verb \in verbs : r \in Directly(a, verb)
    <2>1. verbs \subseteq RowCommands \ {"request_approve", "request_deny"}
        BY DEF RowCommands
    <2> QED
        BY <1>10, <2>1, DirectFits
<1> QED
    BY <1>2, <1>3, <1>4, <1>5, <1>6, <1>7, <1>8, <1>9, <1>10

\* A table changed under the mode it was in, which carries no row.
LEMMA KeepFits ==
    ASSUME NEW a, NEW row, Start(a, row), a.mode.at \in ModeNames \ Carrying,
           NEW b, Table(b), Keeps(a, b), NEW c, c.verb \notin RowCommands
    PROVE  Fits(a, R(b, c), row)
<1>1. OwnText(a, b)
    BY DEF Keeps, Start, OwnText
<1>2. Opened(b, row)
    BY DEF Keeps, Opened, FromRow, Carrying
<1>3. Commanded(b, c, row)
    BY DEF Keeps, Start, Commanded
<1> QED
    BY <1>1, <1>2, <1>3 DEF Fits, R

LEMMA NormalFits ==
    ASSUME NEW a, NEW row, Start(a, row), Rowed(a, row), a.mode.at = "Normal", NEW k,
           NEW r \in OnKeyNormal(a, k)
    PROVE  Fits(a, r, row)
<1>1. Table(a) /\ ~a.restore /\ a.mode.at \in ModeNames \ Carrying
    BY NormalIsFree DEF Start, Free
<1>2. \/ r \in {R(a, Plain("quit")), R(a, Query), R(a, NoCmd)}
      \/ \E tab \in Tab : \E b \in SwitchTab(a, tab) : r = R(b, NoCmd)
      \/ k \in TabKeys(a.tab) /\ r \in OnKeyTabAction(a, k)
      \/ r = R(LoginAction(a), NoCmd)
      \/ r \in {R(To(a, at), NoCmd) :
                  at \in {"Settings", "ConfirmLogout", "Notice", "Forwards", "Picker"}}
      \/ r = R(MoveSelection(a, IsDown(k)), NoCmd)
      \/ r = R(ForceReload(a), NoCmd)
      \/ r = R(EnterInputMode(a, M("Search")), NoCmd)
      \/ r \in Activate(a)
    BY DEF OnKeyNormal, Only
<1>3. CASE r \in {R(a, Plain("quit")), R(a, Query), R(a, NoCmd)}
    BY <1>3, SameFits, QuietVerbs
<1>4. CASE \E tab \in Tab : \E b \in SwitchTab(a, tab) : r = R(b, NoCmd)
    <2>0. PICK tab \in Tab : \E b \in SwitchTab(a, tab) : r = R(b, NoCmd)
        BY <1>4
    <2>1. PICK b \in SwitchTab(a, tab) : r = R(b, NoCmd)
        BY <2>0
    <2>2. /\ Table(b) /\ b.restore = a.restore
          /\ b = a \/ (b.mode = M("Normal") /\ b.input = Blank)
        BY <1>1, SwitchTable
    <2>3. b.mode.at = "Normal"
        BY <2>2 DEF M
    <2>4. "Normal" \notin InputModes
        BY DEF InputModes
    <2> QED
        BY <1>1, <2>1, <2>2, <2>3, <2>4, FreeFits, QuietVerbs
<1>5. CASE k \in TabKeys(a.tab) /\ r \in OnKeyTabAction(a, k)
    BY <1>5, TabActionFits
<1>6. CASE r = R(LoginAction(a), NoCmd)
    BY <1>6, LoginActionFits
<1>7. CASE r \in {R(To(a, at), NoCmd) :
                    at \in {"Settings", "ConfirmLogout", "Notice", "Forwards", "Picker"}}
    BY <1>1, <1>7, ToFits, QuietVerbs, NormalIsFree
<1>8. CASE r = R(MoveSelection(a, IsDown(k)), NoCmd)
    BY <1>1, <1>8, MoveTable, KeepFits, QuietVerbs
<1>9. CASE r = R(ForceReload(a), NoCmd)
    BY <1>1, <1>9, ForceTable, KeepFits, QuietVerbs
<1>10. CASE r = R(EnterInputMode(a, M("Search")), NoCmd)
    <2>1. "Search" \in InputModes \ Carrying
        BY DEF InputModes, Carrying
    <2> QED
        BY <1>10, <2>1, EnterFits
<1>11. CASE r \in Activate(a)
    BY <1>11, ActivateFits
<1> QED
    BY <1>2, <1>3, <1>4, <1>5, <1>6, <1>7, <1>8, <1>9, <1>10, <1>11

LEMMA SearchFits ==
    ASSUME NEW a, NEW row, Start(a, row), Rowed(a, row), a.mode.at = "Search", NEW k,
           NEW r \in OnKeySearch(a, k)
    PROVE  Fits(a, r, row)
<1>1. Table(a) /\ ~a.restore
    BY DEF Start
<1>2. "Search" \in ModeNames \ Carrying /\ "Search" \in InputModes /\ "Normal" \notin InputModes
    BY DEF ModeNames, Carrying, InputModes
<1>3. \/ r = R(RecomputeVisible(Cancel(a)), NoCmd)
      \/ r = R(MoveSelection(a, IsDown(k)), NoCmd)
      \/ r \in Activate(a)
      \/ \E b \in Typed(a, k) : r = R(RecomputeVisible(b), NoCmd)
      \/ r = R(a, NoCmd)
    BY DEF OnKeySearch, Only
<1>4. CASE r = R(RecomputeVisible(Cancel(a)), NoCmd)
    <2> DEFINE d == Cancel(a)
               b == RecomputeVisible(d)
    <2>1. Edited(a, d) /\ d.mode.at = "Normal" /\ Held(d)
        BY <1>1, EditCancel DEF Edited, Table
    <2> HIDE DEF d
    <2>2. Table(b) /\ b.mode = d.mode /\ b.restore = d.restore
        BY <2>1, RecomputeTable DEF Keeps
    <2> HIDE DEF b
    <2>3. Fits(a, R(b, NoCmd), row)
        BY <1>1, <1>2, <2>1, <2>2, FreeFits, QuietVerbs, NormalIsFree DEF Edited, Free
    <2> QED
        BY <1>4, <2>3 DEF b, d
<1>5. CASE r = R(MoveSelection(a, IsDown(k)), NoCmd)
    BY <1>1, <1>2, <1>5, MoveTable, KeepFits, QuietVerbs
<1>6. CASE r \in Activate(a)
    BY <1>6, ActivateFits
<1>7. CASE \E b \in Typed(a, k) : r = R(RecomputeVisible(b), NoCmd)
    <2>1. PICK d \in Typed(a, k) : r = R(RecomputeVisible(d), NoCmd)
        BY <1>7
    <2> DEFINE b == RecomputeVisible(d)
    <2>2. Edited(a, d) /\ d.mode = a.mode /\ (a.input # "left" => d.input # "left") /\ Held(d)
        BY <1>1, EditTyped DEF Edited, Table
    <2>3. Table(b) /\ b.mode = d.mode /\ b.input = d.input /\ b.restore = d.restore
        BY <2>2, RecomputeTable DEF Keeps
    <2> HIDE DEF b
    <2>4. OwnText(a, b) /\ Opened(b, row)
        BY <1>2, <2>2, <2>3 DEF Start, OwnText, Opened, FromRow, Carrying
    <2>5. Commanded(b, NoCmd, row)
        BY <1>1, <2>2, <2>3, QuietVerbs DEF Commanded, Edited
    <2>6. Fits(a, R(b, NoCmd), row)
        BY <2>3, <2>4, <2>5 DEF Fits, R
    <2> QED
        BY <2>1, <2>6 DEF b
<1>8. CASE r = R(a, NoCmd)
    BY <1>8, SameFits, QuietVerbs
<1> QED
    BY <1>3, <1>4, <1>5, <1>6, <1>7, <1>8

LEMMA ProfileLoginFits ==
    ASSUME NEW a, Table(a), NEW row, NEW r \in InteractiveProfileLogin(a)
    PROVE  Fits(a, r, row)
<1> DEFINE d == EnterProfile(a)
           b == [d EXCEPT !.auth = TRUE]
<1>1. Table(d) /\ d.mode = M("Normal") /\ d.restore = FALSE
    BY EnterTable DEF Table
<1>2. r = R(b, Plain("login_proxy"))
    BY DEF InteractiveProfileLogin
<1> HIDE DEF d
<1>3. AgreeOnTable(d, b) /\ b.mode.at = "Normal" /\ ~b.restore
    BY <1>1 DEF AgreeOnTable, Table, Held, Fields, M
<1> HIDE DEF b
<1>4. Table(b)
    BY <1>1, <1>3, SameTable
<1> QED
    BY <1>2, <1>3, <1>4, FreeFits, QuietVerbs, NormalIsFree DEF Free

LEMMA ChooseFits ==
    ASSUME NEW a, NEW n, Table(n), ~n.restore, n.mode.at = "Normal", NEW row,
           NEW r \in ChooseProfile(n)
    PROVE  Fits(a, r, row)
<1>1. "Normal" \in ModeNames \ Carrying /\ "Normal" \notin InputModes
    BY NormalIsFree DEF Free
<1>2. CASE r = R(n, NoCmd)
    BY <1>1, <1>2, FreeFits, QuietVerbs
<1>3. CASE r \in InteractiveProfileLogin(n)
    <2>1. Fits(n, r, row)
        BY <1>3, ProfileLoginFits
    <2>2. r.app.mode.at = "Normal"
        <3> DEFINE d == EnterProfile(n)
        <3>1. r = R([d EXCEPT !.auth = TRUE], Plain("login_proxy"))
            BY <1>3 DEF InteractiveProfileLogin
        <3>2. d.mode = M("Normal") /\ DOMAIN d = Fields
            BY EnterTable DEF Table, Held
        <3> HIDE DEF d
        <3> QED
            BY <3>1, <3>2 DEF R, M, Fields
    <2> QED
        BY <1>1, <2>1, <2>2 DEF Fits, OwnText
<1>4. CASE r = R([n EXCEPT !.loading = TRUE], Query)
    <2> DEFINE b == [n EXCEPT !.loading = TRUE]
    <2>1. /\ DOMAIN b = Fields /\ b.visible = n.visible /\ b.sel = n.sel
          /\ b.tab = n.tab /\ b.scope = n.scope /\ b.agg = n.agg /\ b.list = n.list
          /\ b.rows = n.rows /\ b.cached = n.cached /\ b.pending = n.pending
          /\ b.mode.at = "Normal" /\ ~b.restore
        BY DEF Table, Held, Fields
    <2> HIDE DEF b
    <2>2. Table(b)
        BY <2>1 DEF Table, Held
    <2>3. Fits(a, R(b, Query), row)
        BY <1>1, <2>1, <2>2, FreeFits, QuietVerbs
    <2> QED
        BY <1>4, <2>3 DEF b
<1> QED
    BY <1>2, <1>3, <1>4 DEF ChooseProfile, Only

LEMMA PickerFits ==
    ASSUME NEW a, NEW row, Start(a, row), a.mode.at = "Picker", NEW k, NEW r \in OnKeyPicker(a, k)
    PROVE  Fits(a, r, row)
<1> DEFINE n == To(a, "Normal")
<1>1. Table(a) /\ ~a.restore
    BY DEF Start
<1>2. Edited(a, n) /\ n.mode.at = "Normal"
    BY <1>1, EditTo
<1>3. Table(n) /\ ~n.restore /\ n.scope = a.scope
    BY <1>1, <1>2 DEF Edited
<1>4. "Normal" \in ModeNames \ Carrying /\ "Normal" \notin InputModes
    BY NormalIsFree DEF Free
<1>5. \/ r = R(n, NoCmd) \/ r = R(a, NoCmd) \/ r \in ChooseProfile(n)
      \/ a.scope # NoCluster /\ r = R(SelectAllClusters(n), NoCmd)
      \/ \E c \in Cluster : r = R(SelectScopedCluster(n, c), NoCmd)
    BY DEF OnKeyPicker, Only
<1> HIDE DEF n
<1>6. CASE r = R(n, NoCmd)
    BY <1>2, <1>3, <1>4, <1>6, FreeFits, QuietVerbs
<1>7. CASE r = R(a, NoCmd)
    BY <1>7, SameFits, QuietVerbs
<1>8. CASE r \in ChooseProfile(n)
    BY <1>2, <1>3, <1>8, ChooseFits
<1>9. CASE a.scope # NoCluster /\ r = R(SelectAllClusters(n), NoCmd)
    <2>1. Table(SelectAllClusters(n)) /\ Keeps(n, SelectAllClusters(n))
        BY <1>3, <1>9, SelectAllTable
    <2> QED
        BY <1>2, <1>3, <1>4, <1>9, <2>1, FreeFits, QuietVerbs DEF Keeps
<1>10. CASE \E c \in Cluster : r = R(SelectScopedCluster(n, c), NoCmd)
    <2>1. PICK c \in Cluster : r = R(SelectScopedCluster(n, c), NoCmd)
        BY <1>10
    <2>2. Table(SelectScopedCluster(n, c)) /\ Keeps(n, SelectScopedCluster(n, c))
        BY <1>3, SelectScopedTable
    <2> QED
        BY <1>2, <1>3, <1>4, <2>1, <2>2, FreeFits, QuietVerbs DEF Keeps
<1> QED
    BY <1>5, <1>6, <1>7, <1>8, <1>9, <1>10

\* Whatever the mode and the key.  Where a row is read from the table, the row
\* remembered is the one drawn.
LEMMA KeyFits ==
    ASSUME NEW a, NEW row, Start(a, row),
           a.mode.at \in {"Normal", "Search", "ConfirmTokenRm"} => Rowed(a, row),
           NEW k, NEW r \in OnKey(a, k)
    PROVE  Fits(a, r, row)
<1>1. a.mode.at \in ModeNames
    BY DEF Start, Opened
<1>2. CASE a.mode.at = "Normal"
    BY <1>2, NormalFits DEF OnKey
<1>3. CASE a.mode.at = "Search"
    BY <1>3, SearchFits DEF OnKey
<1>4. CASE a.mode.at = "Picker"
    BY <1>4, PickerFits DEF OnKey
<1>5. CASE a.mode.at \in {"Login", "UserPicker", "ToolPicker", "DbUser", "AppPort"}
    BY <1>5, LoginFits, UserPickerFits, ToolPickerFits, DbUserFits, AppPortFits DEF OnKey
<1>6. CASE a.mode.at \in {"CreateRequest", "CreateToken"}
    <2>1. r \in OnKeyCreate(a, k) \cup OnKeyToken(a, k)
        BY <1>6 DEF OnKey
    <2> QED
        BY <1>6, <2>1, CreateFits
<1>7. CASE a.mode.at \in {"Scp", "SshOptions", "KubeExec"}
    BY <1>7, ScpFits, SshOptionsFits, KubeExecFits DEF OnKey
<1>8. CASE a.mode.at \in {"Settings", "AddUser"}
    <2>1. r \in OnKeySettings(a, k) \cup OnKeyAddUser(a, k)
        BY <1>8 DEF OnKey
    <2> QED
        BY <2>1, PlainFormFits
<1>9. CASE a.mode.at = "LoginForm"
    BY <1>9, LoginFormFits DEF OnKey
<1>10. CASE a.mode.at = "ConfirmTokenRm"
    BY <1>10, ConfirmTokenRmFits DEF OnKey, Rowed
<1>11. CASE a.mode.at = "ConfirmUserReset"
    BY <1>11, ConfirmUserResetFits DEF OnKey
<1>12. CASE a.mode.at \in {"ConfirmLogout", "ConfirmMfaRm", "ShowMfa", "ShowSessions", "ShowDetail",
                           "Notice", "Forwards", "AppProxy"}
    <2>1. r \in OnKeyConfirmLogout(a, k) \cup OnKeyConfirmMfaRm(a, k) \cup OnKeyMfa(a, k)
                  \cup OnKeySessions(a, k) \cup OnKeyDetail(a, k) \cup OnKeyForwards(a, k)
                  \cup OnKeyProxy(a, k) \cup Only(To(a, "Normal"))
        BY <1>12 DEF OnKey
    <2> QED
        BY <2>1, PopupFits
<1> QED
    BY <1>1, <1>2, <1>3, <1>4, <1>5, <1>6, <1>7, <1>8, <1>9, <1>10, <1>11, <1>12
       DEF ModeNames, FromRow, OtherModes

-----------------------------------------------------------------------------
(***************************************************************************)
(* The event loop.                                                         *)
(***************************************************************************)
LEMMA LeftFits ==
    ASSUME NEW a, NEW r, NEW row, Fits(a, r, row)
    PROVE  LET b == LeftBehind(a, r.app)
           IN  /\ Table(b) /\ (b.mode.at \in InputModes => b.input # "left")
               /\ Opened(b, row) /\ Commanded(b, r.cmd, row)
<1> DEFINE d == r.app
<1>1. /\ Table(d) /\ OwnText(a, d) /\ Opened(d, row) /\ Commanded(d, r.cmd, row)
    BY DEF Fits
<1> HIDE DEF d
<1>2. CASE d.mode.at # a.mode.at /\ d.input = "here"
    <2> DEFINE b == [d EXCEPT !.input = "left"]
    <2>1. LeftBehind(a, d) = b
        BY <1>2 DEF LeftBehind
    <2>2. Edited(d, b) /\ b.mode = d.mode
        BY <1>1, EditInput
    <2>3. d.mode.at \notin InputModes
        BY <1>1, <1>2 DEF OwnText, Blank
    <2> HIDE DEF b
    <2>4. Opened(b, row) /\ Commanded(b, r.cmd, row)
        BY <1>1, <2>2 DEF Edited, Opened, Commanded
    <2> QED
        BY <2>1, <2>2, <2>3, <2>4 DEF Edited, d
<1>3. CASE ~(d.mode.at # a.mode.at /\ d.input = "here")
    <2>1. LeftBehind(a, d) = d
        BY <1>3 DEF LeftBehind
    <2>2. d.mode.at \in InputModes => d.input # "left"
        BY <1>1 DEF OwnText, Blank
    <2> QED
        BY <1>1, <2>1, <2>2 DEF d
<1> QED
    BY <1>2, <1>3

\* Between two events no command is under way.
LEMMA IdleStart ==
    ASSUME IInv, Idle
    PROVE  Start(app, asked)
<1>1. cmd.verb # "login"
    BY DEF Idle, Jobs
<1> QED
    BY <1>1 DEF IInv, Start, Commanded

\* The step's result agrees with the row it remembers.
LEMMA Landed ==
    ASSUME NEW a, NEW r, NEW row, Fits(a, r, row),
           app' = LeftBehind(a, r.app), cmd' = r.cmd, Remember(row),
           drawn' = Highlight(app') \/ Highlight(app') = NoRow
    PROVE  IInv'
<1>1. /\ Table(app') /\ (app'.mode.at \in InputModes => app'.input # "left")
      /\ Opened(app', row) /\ Commanded(app', cmd', row)
    BY LeftFits
<1>2. CASE app'.mode.at \in Carrying \/ cmd' # NoCmd
    <2>1. asked' = row
        BY <1>2 DEF Remember
    <2> QED
        BY <1>1, <2>1 DEF IInv
<1>3. CASE ~(app'.mode.at \in Carrying \/ cmd' # NoCmd)
    <2>1. asked' = NoRow
        BY <1>3 DEF Remember
    <2>2. Opened(app', asked')
        BY <1>1, <1>3 DEF Opened, Carrying, FromRow
    <2>3. Commanded(app', cmd', asked')
        <3>1. cmd'.verb = "none"
            BY <1>3 DEF NoCmd, Plain
        <3>2. ~app'.restore /\ cmd'.verb \notin RowCommands
            BY <1>1, <3>1 DEF Commanded, RowCommands
        <3> QED
            BY <3>2 DEF Commanded
    <2> QED
        BY <1>1, <2>2, <2>3 DEF IInv
<1> QED
    BY <1>2, <1>3

\* What does not touch the mode agrees with the row it was opened on.
LEMMA KeepAggFits ==
    ASSUME NEW a, NEW row, Start(a, row), NEW b, Table(b), Keeps(a, b), b.agg = a.agg
    PROVE  Fits(a, R(b, NoCmd), row)
<1>1. OwnText(a, b)
    BY DEF Keeps, Start, OwnText
<1>2. Opened(b, row)
    BY DEF Keeps, Start, Opened
<1>3. Commanded(b, NoCmd, row)
    BY QuietVerbs DEF Keeps, Start, Commanded
<1> QED
    BY <1>1, <1>2, <1>3 DEF Fits, R

LEMMA NormalAppFits ==
    ASSUME NEW a, NEW b, Table(b), ~b.restore, b.mode.at = "Normal", NEW row
    PROVE  Fits(a, R(b, NoCmd), row)
<1>1. "Normal" \in ModeNames \ Carrying /\ "Normal" \notin InputModes
    BY NormalIsFree DEF Free
<1> QED
    BY <1>1, FreeFits, QuietVerbs

LEMMA ResultStep ==
    ASSUME NEW apps, \A b \in apps : Fits(app, R(b, NoCmd), asked), Result(apps)
    PROVE  IInv'
<1>1. PICK b \in apps : app' = LeftBehind(app, b)
    BY DEF Result
<1>2. Fits(app, R(b, NoCmd), asked) /\ R(b, NoCmd).app = b /\ R(b, NoCmd).cmd = NoCmd
    BY DEF R
<1>3. cmd' = NoCmd /\ Remember(asked) /\ drawn' = Highlight(app')
    BY DEF Result, Drawn
<1> DEFINE r == R(b, NoCmd)
<1>4. r.app = b /\ r.cmd = NoCmd
    BY <1>2
<1> HIDE DEF r
<1>5. Fits(app, r, asked) /\ app' = LeftBehind(app, r.app) /\ cmd' = r.cmd
    BY <1>1, <1>2, <1>3, <1>4 DEF r
<1> QED
    BY <1>3, <1>5, Landed

LEMMA PressStep ==
    ASSUME IInv, NEW k, Press(k)
    PROVE  IInv'
<1> DEFINE row == IF app.mode.at \in {"Normal", "Search", "ConfirmTokenRm"} THEN drawn ELSE asked
<1>1. PICK r \in OnKey(app, k) : app' = LeftBehind(app, r.app) /\ cmd' = r.cmd
    BY DEF Press
<1>2. Remember(row) /\ drawn' = Highlight(app')
    BY DEF Press, Drawn
<1>3. Start(app, asked) /\ Rowed(app, drawn)
    BY IdleStart DEF Press, IInv, Rowed
<1>4. Start(app, row)
    <2>1. app.mode.at \in {"Normal", "Search", "ConfirmTokenRm"} => Opened(app, drawn)
        BY <1>3 DEF Start, Opened, FromRow
    <2> QED
        BY <1>3, <2>1 DEF Start
<1>5. Fits(app, r, row)
    <2>1. app.mode.at \in {"Normal", "Search", "ConfirmTokenRm"} => Rowed(app, row)
        BY <1>3
    <2> HIDE DEF row
    <2> QED
        BY <1>4, <2>1, KeyFits
<1> HIDE DEF row
<1> QED
    BY <1>1, <1>2, <1>5, Landed

-----------------------------------------------------------------------------
(***************************************************************************)
(* Pastes and the wheel.                                                   *)
(***************************************************************************)
\* A key that neither commands nor leaves the view.
Still(a, r) ==
    /\ r.cmd = NoCmd
    /\ r.app.tab = a.tab /\ r.app.agg = a.agg /\ r.app.scope = a.scope
    /\ r.app.loading = a.loading

LEMMA StillApp ==
    ASSUME NEW a, NEW b, Edited(a, b)
    PROVE  Still(a, R(b, NoCmd))
BY DEF Still, Edited, R

LEMMA ScrollStill ==
    ASSUME NEW a, Table(a), a.mode.at \in ModeNames, NEW k \in {"Up", "Down"},
           NEW r \in OnKey(a, k)
    PROVE  /\ Still(a, r)
           /\ a.mode.at \in {"Normal", "Search", "ConfirmTokenRm"} =>
                 r.app.mode.at \in {"Normal", "Search"}
<1>1. r \in {R(a, NoCmd), R(To(a, "Normal"), NoCmd), R(To(a, "ShowMfa"), NoCmd),
             R(MoveSelection(a, IsDown(k)), NoCmd)}
      /\ (a.mode.at \in {"Normal", "Search"} => r = R(MoveSelection(a, IsDown(k)), NoCmd))
      /\ (a.mode.at = "ConfirmTokenRm" => r = R(To(a, "Normal"), NoCmd))
    <2>1. CASE a.mode.at = "Normal"
        <3>1. k \notin TabKeys(a.tab) /\ k \in MoveKeys
            BY DEF TabKeys, MoveKeys
        <3>2. /\ ~(k \in {"q", "Esc"}) /\ ~(k \in {"Tab", "digit"})
              /\ k # "M" /\ k # "S" /\ k # "L" /\ k # "p" /\ k # "O" /\ k # "?" /\ k # "F"
              /\ k # "r" /\ k # "/" /\ k # "c" /\ k # "Enter"
            OBVIOUS
        <3>3. r \in OnKeyNormal(a, k)
            BY <2>1 DEF OnKey
        <3>4. r \in Only(MoveSelection(a, IsDown(k)))
            BY <3>1, <3>2, <3>3, SMTT(30) DEF OnKeyNormal
        <3> QED
            BY <2>1, <3>4 DEF Only
    <2>2. CASE a.mode.at = "Search"
        <3>1. r \in OnKeySearch(a, k)
            BY <2>2 DEF OnKey
        <3>2. r \in Only(MoveSelection(a, IsDown(k)))
            BY <3>1 DEF OnKeySearch, Char
        <3> QED
            BY <2>2, <3>2 DEF Only
    <2>8. CASE a.mode.at = "Picker"
        <3>1. r \in OnKeyPicker(a, k)
            BY <2>8 DEF OnKey
        <3>2. r \in Only(a)
            BY <3>1 DEF OnKeyPicker
        <3> QED
            BY <2>8, <3>2 DEF Only
    <2>3. CASE a.mode.at \in InputModes \ {"Search"}
        <3>1. \A submit : TextKey(a, k, submit) = {R(a, NoCmd)}
            <4>1. Typed(a, k) = {a}
                BY DEF Typed, Char
            <4> QED
                BY <4>1 DEF TextKey, Only
        <3> QED
            BY <2>3, <3>1 DEF OnKey, OnKeyLogin, OnKeyDbUser, OnKeyAppPort, OnKeyCreate, OnKeyToken,
                              InputModes
    <2>4. CASE a.mode.at \in FormModes
        <3>1. \A closed, submit : FormKey(a, k, closed, submit) = {R(a, NoCmd)}
            BY DEF FormKey, Only
        <3> QED
            BY <2>4, <3>1 DEF OnKey, OnKeyScp, OnKeySshOptions, OnKeyKubeExec, OnKeySettings,
                              OnKeyAddUser, OnKeyLoginForm, FormModes
    <2>5. CASE a.mode.at \in {"UserPicker", "ToolPicker"}
        BY <2>5 DEF OnKey, OnKeyUserPicker, OnKeyToolPicker, Only
    <2>6. CASE a.mode.at \in {"ConfirmLogout", "ConfirmTokenRm", "ConfirmUserReset", "ConfirmMfaRm"}
        BY <2>6 DEF OnKey, OnKeyConfirmLogout, OnKeyConfirmTokenRm, OnKeyConfirmUserReset,
                    OnKeyConfirmMfaRm, Confirm, Only
    <2>7. CASE a.mode.at \in {"ShowMfa", "ShowSessions", "ShowDetail", "Notice", "Forwards", "AppProxy"}
        BY <2>7 DEF OnKey, OnKeyMfa, OnKeySessions, OnKeyDetail, OnKeyForwards, OnKeyProxy, Only
    <2> QED
        BY <2>1, <2>2, <2>3, <2>4, <2>5, <2>6, <2>7, <2>8
           DEF ModeNames, FromRow, OtherModes, InputModes, FormModes
<1>2. Edited(a, a) /\ Edited(a, To(a, "Normal")) /\ Edited(a, To(a, "ShowMfa"))
    BY EditTo DEF Edited
<1>3. To(a, "Normal").mode.at = "Normal"
    BY EditTo
<1>4. Still(a, R(MoveSelection(a, IsDown(k)), NoCmd)) /\ MoveSelection(a, IsDown(k)).mode = a.mode
    BY MoveTable DEF Still, R, Keeps
<1>5. Still(a, r)
    BY <1>1, <1>2, <1>4, StillApp
<1> QED
    BY <1>1, <1>3, <1>4, <1>5 DEF R

LEMMA PasteStill ==
    ASSUME NEW a, Table(a), AcceptsTextInput(a.mode), NEW k \in Pasted, NEW r \in OnKey(a, k)
    PROVE  Still(a, r) /\ r.app.mode = a.mode
<1>1. k \in Char /\ k \notin Control
    BY DEF Pasted, Key
<1>2. \/ \E b \in Typed(a, k) : r = R(b, NoCmd)
      \/ \E b \in Typed(a, k) : r = R(RecomputeVisible(b), NoCmd)
      \/ r = R(a, NoCmd)
    <2>1. CASE a.mode.at = "Search"
        BY <1>1, <2>1 DEF OnKey, OnKeySearch, Control
    <2>2. CASE a.mode.at \in InputModes \ {"Search"}
        <3>1. \A submit : TextKey(a, k, submit) = UNION {Only(b) : b \in Typed(a, k)}
            BY <1>1 DEF TextKey, Control
        <3>2. r \in UNION {Only(b) : b \in Typed(a, k)}
            BY <2>2, <3>1 DEF OnKey, OnKeyLogin, OnKeyDbUser, OnKeyAppPort, OnKeyCreate, OnKeyToken,
                              InputModes
        <3> QED
            BY <3>2 DEF Only
    <2>3. CASE a.mode.at \in FormModes
        <3>1. \A closed, submit : FormKey(a, k, closed, submit) = {R(a, NoCmd)}
            BY <1>1 DEF FormKey, Only, Control
        <3> QED
            BY <2>3, <3>1 DEF OnKey, OnKeyScp, OnKeySshOptions, OnKeyKubeExec, OnKeySettings,
                              OnKeyAddUser, OnKeyLoginForm, FormModes
    <2> QED
        BY <2>1, <2>2, <2>3 DEF AcceptsTextInput
<1>3. CASE r = R(a, NoCmd)
    BY <1>3, StillApp DEF Edited, R
<1>4. ASSUME NEW b \in Typed(a, k), r = R(b, NoCmd)
      PROVE  Still(a, r) /\ r.app.mode = a.mode
    BY <1>4, EditTyped, StillApp DEF R
<1>5. ASSUME NEW d \in Typed(a, k), r = R(RecomputeVisible(d), NoCmd)
      PROVE  Still(a, r) /\ r.app.mode = a.mode
    <2> DEFINE b == RecomputeVisible(d)
    <2>1. Edited(a, d) /\ d.mode = a.mode /\ Held(d)
        BY EditTyped DEF Edited, Table
    <2>2. /\ b.mode = d.mode
          /\ b.tab = d.tab /\ b.agg = d.agg /\ b.scope = d.scope /\ b.loading = d.loading
        BY <2>1, RecomputeTable DEF Keeps
    <2> HIDE DEF b
    <2>3. r.app = b /\ r.cmd = NoCmd
        BY <1>5 DEF R, b
    <2> QED
        BY <2>1, <2>2, <2>3 DEF Still, Edited
<1> QED
    BY <1>2, <1>3, <1>4, <1>5


LEMMA LeftKeeps ==
    ASSUME NEW a, NEW d, Table(d)
    PROVE  LET b == LeftBehind(a, d)
           IN  Edited(d, b) /\ b.mode = d.mode
<1> DEFINE b == [d EXCEPT !.input = "left"]
<1>1. Edited(d, b) /\ b.mode = d.mode
    BY EditInput
<1>2. Edited(d, d)
    BY DEF Edited
<1> QED
    BY <1>1, <1>2 DEF LeftBehind

\* A replayed key fits what was asked before: none of those replayed reads the
\* row on screen.
LEMMA ReplayFits ==
    ASSUME IInv, Idle, NEW k, NEW r \in OnKey(app, k), Still(app, r),
           app.mode.at \in {"Normal", "Search", "ConfirmTokenRm"} =>
               r.app.mode.at \in {"Normal", "Search"}
    PROVE  Fits(app, r, asked)
<1>1. Start(app, asked)
    BY IdleStart
<1>2. CASE app.mode.at \notin {"Normal", "Search", "ConfirmTokenRm"}
    BY <1>1, <1>2, KeyFits
<1>3. CASE app.mode.at \in {"Normal", "Search", "ConfirmTokenRm"}
    <2>1. Opened(app, drawn) /\ Rowed(app, drawn)
        BY <1>1, <1>3 DEF IInv, Start, Opened, FromRow, Rowed
    <2>2. Fits(app, r, drawn)
        BY <1>1, <2>1, KeyFits DEF Start
    <2>3. r.app.mode.at \in ModeNames \ Carrying
        BY <1>3 DEF ModeNames, OtherModes, Carrying
    <2>4. Opened(r.app, asked)
        BY <2>3 DEF Opened, Carrying, FromRow
    <2>5. r.cmd.verb = "none" /\ r.cmd.verb \notin RowCommands
        BY QuietVerbs DEF Still, NoCmd, Plain
    <2>6. Commanded(r.app, r.cmd, asked)
        BY <2>2, <2>5 DEF Fits, Commanded
    <2> QED
        BY <2>2, <2>4, <2>6 DEF Fits
<1> QED
    BY <1>2, <1>3

LEMMA ReplayedStep ==
    ASSUME IInv, NEW k, Replay(k),
           k \in {"Up", "Down"} \/ (AcceptsTextInput(app.mode) /\ k \in Pasted)
    PROVE  /\ IInv' /\ ~Acts
           /\ AcceptsTextInput(app.mode) /\ k \in Pasted => app'.mode = app.mode
<1>1. PICK r \in OnKey(app, k) :
          /\ app' = LeftBehind(app, r.app)
          /\ cmd' = IF r.cmd.verb \in Jobs THEN r.cmd ELSE NoCmd
    BY DEF Replay
<1>2. Idle /\ Remember(asked) /\ drawn' = Highlight(app')
    BY DEF Replay, Drawn
<1>3. Table(app) /\ app.mode.at \in ModeNames
    BY DEF IInv, Opened
<1>4. /\ Still(app, r)
      /\ app.mode.at \in {"Normal", "Search", "ConfirmTokenRm"} =>
             r.app.mode.at \in {"Normal", "Search"}
      /\ AcceptsTextInput(app.mode) /\ k \in Pasted => r.app.mode = app.mode
    <2>1. CASE AcceptsTextInput(app.mode) /\ k \in Pasted
        <3>1. Still(app, r) /\ r.app.mode = app.mode
            BY <1>3, <2>1, PasteStill
        <3>2. app.mode.at \notin {"Normal", "ConfirmTokenRm"}
            BY <2>1 DEF AcceptsTextInput, InputModes, FormModes
        <3> QED
            BY <3>1, <3>2
    <2>2. CASE ~(AcceptsTextInput(app.mode) /\ k \in Pasted)
        BY <1>3, <2>2, ScrollStill
    <2> QED
        BY <2>1, <2>2
<1>5. Fits(app, r, asked)
    BY <1>2, <1>4, ReplayFits
<1>6. cmd' = NoCmd /\ cmd' = r.cmd
    BY <1>1, <1>4 DEF Still
<1>7. IInv'
    BY <1>1, <1>2, <1>5, <1>6, Landed
<1>8. Edited(r.app, app') /\ app'.mode = r.app.mode
    BY <1>1, <1>5, LeftKeeps DEF Fits
<1>9. ~Acts
    BY <1>4, <1>6, <1>8 DEF Acts, Still, Edited
<1> QED
    BY <1>4, <1>7, <1>8, <1>9

-----------------------------------------------------------------------------
(***************************************************************************)
(* What happens between two keys.                                          *)
(***************************************************************************)
LEMMA OutcomeStep ==
    ASSUME IInv, HandleOutcome
    PROVE  IInv'
<1> DEFINE b == [app EXCEPT !.restore = FALSE, !.auth = FALSE]
<1>1. Table(app) /\ DOMAIN app = Fields
    BY DEF IInv, Table, Held
<1>2. AgreeOnTable(app, b) /\ b.mode = app.mode /\ b.input = app.input /\ b.relogin = app.relogin
      /\ b.agg = app.agg /\ ~b.restore
    BY <1>1 DEF Fields, AgreeOnTable
<1>3. app' \in {app, b} /\ (app' = app => cmd.verb \in Background \/ ~app'.restore)
    BY <1>2 DEF HandleOutcome
<1> HIDE DEF b
<1>4. Table(b)
    BY <1>1, <1>2, SameTable
<1>5. "login" \notin Background
    BY DEF Background
<1>6. ~app'.restore
    BY <1>2, <1>3, <1>5 DEF IInv, Commanded
<1>7. Table(app')
    BY <1>1, <1>3, <1>4
<1>8. OwnText(app, app') /\ Opened(app', asked) /\ app'.mode = app.mode
    BY <1>2, <1>3 DEF IInv, OwnText, Opened
<1>9. Commanded(app', NoCmd, asked)
    BY <1>6, QuietVerbs DEF Commanded
<1> DEFINE r == R(app', NoCmd)
<1>10. r.app = app' /\ r.cmd = NoCmd
    BY DEF R
<1> HIDE DEF r
<1>11. Fits(app, r, asked)
    BY <1>7, <1>8, <1>9, <1>10 DEF Fits
<1>12. app' = LeftBehind(app, r.app) /\ cmd' = r.cmd
    BY <1>8, <1>10 DEF LeftBehind, HandleOutcome
<1> QED
    BY <1>11, <1>12, Landed DEF HandleOutcome, Drawn

LEMMA RefreshStep ==
    ASSUME IInv, AutoRefresh
    PROVE  IInv'
<1>1. Start(app, asked) /\ Table(app)
    BY IdleStart DEF AutoRefresh, Start
<1> DEFINE b == ForceReload(app)
<1>2. /\ Table(b) /\ Keeps(app, b) /\ b.agg = app.agg
      /\ Highlight(b) = Highlight(app) \/ Highlight(b) = NoRow
    BY <1>1, ForceTable
<1>3. app' = b /\ cmd' = NoCmd /\ drawn' = drawn /\ Remember(asked)
    BY DEF AutoRefresh
<1> HIDE DEF b
<1>4. Fits(app, R(b, NoCmd), asked)
    BY <1>1, <1>2, KeepAggFits
<1> DEFINE r == R(b, NoCmd)
<1>5. r.app = b /\ r.cmd = NoCmd
    BY DEF R
<1>6. LeftBehind(app, b) = b
    BY <1>2 DEF LeftBehind, Keeps
<1>7. drawn' = Highlight(app') \/ Highlight(app') = NoRow
    BY <1>2, <1>3 DEF IInv
<1>8. Fits(app, r, asked)
    BY <1>4
<1> HIDE DEF r
<1>9. app' = LeftBehind(app, r.app) /\ cmd' = r.cmd
    BY <1>3, <1>5, <1>6
<1> QED
    BY <1>3, <1>7, <1>8, <1>9, Landed

LEMMA SessionStep ==
    ASSUME IInv, SessionRead
    PROVE  IInv'
<1> DEFINE apps == {ClearSession(app)} \cup ApplyTopology(app)
                   \cup (IF AdminGated(app.tab) THEN SwitchTab(app, "Ssh") ELSE {})
<1>1. Result(apps)
    BY DEF SessionRead
<1>2. Start(app, asked) /\ Table(app) /\ Held(app) /\ ~app.restore
    BY <1>1, IdleStart DEF Result, Start, Table
<1>3. Fits(app, R(ClearSession(app), NoCmd), asked)
    <2>1. LET b == ClearSession(app)
          IN  Table(b) /\ b.mode = M("Normal") /\ ~b.restore
        BY <1>2, ClearTable
    <2> QED
        BY <2>1, NormalAppFits DEF M
<1>4. ASSUME NEW b \in ApplyTopology(app)
      PROVE  Fits(app, R(b, NoCmd), asked)
    BY <1>2, <1>4, TopologyTable, KeepAggFits
<1>5. ASSUME NEW b \in SwitchTab(app, "Ssh")
      PROVE  Fits(app, R(b, NoCmd), asked)
    <2>1. "Ssh" \in Tab
        BY DEF Tab
    <2>2. /\ Table(b) /\ ~b.restore
          /\ b = app \/ b.mode = M("Normal")
        BY <1>2, <1>5, <2>1, SwitchTable
    <2>3. CASE b = app
        BY <1>2, <2>3, SameFits, QuietVerbs
    <2>4. CASE b.mode = M("Normal")
        BY <2>2, <2>4, NormalAppFits DEF M
    <2> QED
        BY <2>2, <2>3, <2>4
<1>6. \A b \in apps : Fits(app, R(b, NoCmd), asked)
    BY <1>3, <1>4, <1>5
<1> HIDE DEF apps
<1> QED
    BY <1>1, <1>6, ResultStep

LEMMA ListingStep ==
    ASSUME IInv, ListingLands
    PROVE  IInv'
<1>1. Result(ApplyTab(app))
    BY DEF ListingLands
<1>2. Start(app, asked) /\ Held(app)
    BY <1>1, IdleStart DEF Result, Start, Table
<1>3. ASSUME NEW b \in ApplyTab(app)
      PROVE  Fits(app, R(b, NoCmd), asked)
    BY <1>2, <1>3, ApplyTabTable, KeepAggFits
<1> QED
    BY <1>1, <1>3, ResultStep

LEMMA SliceStep ==
    ASSUME IInv, SliceLands
    PROVE  IInv'
<1>1. PICK c \in app.pending : Result(ApplyAggCluster(app, c))
    BY DEF SliceLands
<1>2. Start(app, asked) /\ Held(app) /\ c \in Cluster
    BY <1>1, IdleStart DEF Result, Start, Table, Held
<1>3. ASSUME NEW b \in ApplyAggCluster(app, c)
      PROVE  Fits(app, R(b, NoCmd), asked)
    BY <1>2, <1>3, ApplySliceTable, KeepAggFits
<1> QED
    BY <1>1, <1>3, ResultStep

LEMMA JobStep ==
    ASSUME IInv, JobLands
    PROVE  IInv'
<1> DEFINE n == To(app, "Notice")
           apps == {To(app, "ShowMfa"), To(app, "ShowSessions"), To(app, "AppProxy"), n,
                    InvalidateTab(n, "Users"), InvalidateTab(app, "Tokens")}
<1>1. Result(apps)
    BY DEF JobLands
<1>2. Start(app, asked) /\ Table(app) /\ ~app.restore
    BY <1>1, IdleStart DEF Result, Start
<1>3. ASSUME NEW at \in {"ShowMfa", "ShowSessions", "AppProxy", "Notice"}
      PROVE  Fits(app, R(To(app, at), NoCmd), asked)
    BY <1>2, ToFits, NormalIsFree, QuietVerbs
<1>4. Fits(app, R(InvalidateTab(n, "Users"), NoCmd), asked)
    <2>1. Table(n) /\ n.mode.at = "Notice" /\ ~n.restore
        BY <1>2, EditTo DEF Edited
    <2> DEFINE b == InvalidateTab(n, "Users")
    <2>2. Table(b) /\ b.mode.at = "Notice" /\ ~b.restore
        BY <2>1, InvalidateTable DEF Keeps
    <2>3. "Notice" \in ModeNames \ Carrying /\ "Notice" \notin InputModes
        BY NormalIsFree DEF Free
    <2> HIDE DEF b
    <2>4. Fits(app, R(b, NoCmd), asked)
        BY <2>2, <2>3, FreeFits, QuietVerbs
    <2> QED
        BY <2>4 DEF b
<1>5. Fits(app, R(InvalidateTab(app, "Tokens"), NoCmd), asked)
    BY <1>2, InvalidateTable, KeepAggFits
<1>6. \A b \in apps : Fits(app, R(b, NoCmd), asked)
    BY <1>3, <1>4, <1>5
<1> HIDE DEF apps
<1> QED
    BY <1>1, <1>6, ResultStep

LEMMA ProfileStep ==
    ASSUME IInv, ProfileSwitched
    PROVE  IInv'
<1> DEFINE a == [app EXCEPT !.loading = FALSE]
<1>1. Start(app, asked) /\ Table(app) /\ DOMAIN app = Fields /\ ~app.restore
    BY IdleStart DEF ProfileSwitched, Start, Table, Held
<1>2. Table(a) /\ Keeps(app, a) /\ a.agg = app.agg
    <2>1. /\ DOMAIN a = Fields /\ a.visible = app.visible /\ a.sel = app.sel
          /\ a.tab = app.tab /\ a.scope = app.scope /\ a.agg = app.agg /\ a.list = app.list
          /\ a.rows = app.rows /\ a.cached = app.cached /\ a.pending = app.pending
        BY <1>1 DEF Fields
    <2>2. /\ a.mode = app.mode /\ a.input = app.input /\ a.relogin = app.relogin
          /\ a.restore = app.restore /\ a.auth = app.auth
        BY <1>1 DEF Fields
    <2> HIDE DEF a
    <2> QED
        BY <1>1, <2>1, <2>2 DEF Table, Held, Keeps
<1>3. PICK r \in InteractiveProfileLogin(a) \cup Only(a) \cup Only(EnterProfile(a)) :
          app' = LeftBehind(app, r.app) /\ cmd' = r.cmd
    BY DEF ProfileSwitched
<1> HIDE DEF a
<1>4. Table(a) /\ Held(a)
    BY <1>2 DEF Table
<1>5. Fits(app, r, asked)
    <2>1. CASE r \in InteractiveProfileLogin(a)
        BY <1>2, <1>4, <2>1, ProfileLoginFits DEF Fits, OwnText, Keeps
    <2>2. CASE r \in Only(a)
        BY <1>1, <1>2, <1>4, <2>2, KeepAggFits DEF Only
    <2>3. CASE r \in Only(EnterProfile(a))
        <3>1. LET b == EnterProfile(a)
              IN  Table(b) /\ b.mode = M("Normal") /\ b.restore = FALSE
            BY <1>4, EnterTable
        <3> QED
            BY <2>3, <3>1, NormalAppFits DEF M, Only
    <2> QED
        BY <1>3, <2>1, <2>2, <2>3
<1> QED
    BY <1>3, <1>5, Landed DEF ProfileSwitched, Drawn

-----------------------------------------------------------------------------
(***************************************************************************)
(* The theorems.                                                           *)
(***************************************************************************)
\* No row, no prompt, no command at the start.
THEOREM InitIInv == Init => IInv
<1> SUFFICES ASSUME Init PROVE IInv
    OBVIOUS
<1>1. <<>> \in UNION {Listing("Ssh", c) : c \in Cluster}
    BY EmptyListing DEF Tab, Cluster
<1>2. DOMAIN app = Fields
    BY DEF Init, Fields
<1>3. /\ app.tab = "Ssh" /\ app.agg = FALSE /\ app.scope = NoCluster /\ app.list = <<>>
      /\ app.rows = <<>> /\ app.cached = NoSlices /\ app.pending = {} /\ app.visible = <<>>
      /\ app.sel = 0 /\ app.mode = M("Normal") /\ app.relogin = FALSE /\ app.restore = FALSE
      /\ cmd = NoCmd /\ drawn = NoRow
    BY DEF Init
<1>4. <<>> \in Seq(Row) /\ <<>> \in Seq(Nat) /\ Len(<<>>) = 0 /\ DOMAIN NoSlices = {}
    BY DEF NoSlices
<1>5. Held(app)
    BY <1>1, <1>2, <1>3, <1>4 DEF Held, Tab
<1>6. Table(app) /\ Highlight(app) = NoRow
    BY <1>3, <1>4, <1>5 DEF Table, Highlight
<1>7. app.mode.at = "Normal"
    BY <1>3 DEF M
<1>8. "Normal" \in ModeNames \ Carrying /\ "Normal" \notin InputModes
    BY NormalIsFree DEF Free
<1>9. Opened(app, asked) /\ Commanded(app, cmd, asked)
    BY <1>3, <1>7, <1>8, QuietVerbs DEF Opened, Commanded, Carrying, FromRow
<1> QED
    BY <1>6, <1>7, <1>8, <1>9 DEF IInv

\* Every step of the keyboard, the event loop and the workers keeps it.
THEOREM NextIInv == IInv /\ [Next]_vars => IInv'
<1> SUFFICES ASSUME IInv, [Next]_vars PROVE IInv'
    OBVIOUS
<1>1. ASSUME NEW k \in Distinguished(app), Press(k) PROVE IInv'
    BY <1>1, PressStep
<1>2. CASE OnPaste
    BY <1>2, ReplayedStep DEF OnPaste
<1>3. CASE OnScroll
    BY <1>3, ReplayedStep DEF OnScroll
<1>4. CASE HandleOutcome
    BY <1>4, OutcomeStep
<1>5. CASE AutoRefresh
    BY <1>5, RefreshStep
<1>6. CASE SessionRead
    BY <1>6, SessionStep
<1>7. CASE ListingLands
    BY <1>7, ListingStep
<1>8. CASE SliceLands
    BY <1>8, SliceStep
<1>9. CASE JobLands
    BY <1>9, JobStep
<1>10. CASE ProfileSwitched
    BY <1>10, ProfileStep
<1>11. CASE UNCHANGED vars
    BY <1>11 DEF vars, IInv
<1> QED
    BY <1>1, <1>2, <1>3, <1>4, <1>5, <1>6, <1>7, <1>8, <1>9, <1>10, <1>11 DEF Next

(***************************************************************************)
(* Whatever is pressed, pasted, scrolled or lands between two keys, the    *)
(* table shows rows it holds, a prompt holds no text of another's, and     *)
(* what is open or asked for agrees with the row it was opened on.         *)
(***************************************************************************)
THEOREM Invariance == Spec => []IInv
<1> QED
    BY InitIInv, NextIInv, PTL DEF Spec

(***************************************************************************)
(* Text is submitted only to the prompt it was typed in (App::input in     *)
(* app/input.rs, shared by the search and every prompt).                   *)
(***************************************************************************)
THEOREM TextStays == Spec => []TextStaysWithItsPrompt
<1>1. IInv => TextStaysWithItsPrompt
    <2> SUFFICES ASSUME IInv PROVE TextStaysWithItsPrompt
        OBVIOUS
    <2>1. app.mode.at \in InputModes => app.input # "left"
        BY DEF IInv
    <2>2. app.mode.at \in ModeNames
        BY DEF IInv, Opened
    <2>3. TypeOK
        BY <2>2 DEF IInv, Table, Held, TypeOK, ModeNames, FromRow, OtherModes, InputModes, FormModes
    <2> QED
        BY <2>1, <2>3 DEF TextStaysWithItsPrompt
<1> QED
    BY <1>1, Invariance, PTL

(***************************************************************************)
(* A command names the row highlighted when it was asked for and that      *)
(* row's own cluster (node_target, resource_target, request_target and the *)
(* prompts that carry their answer).                                       *)
(***************************************************************************)
THEOREM CommandsName == Spec => []CommandsNameTheRowDrawn
<1>1. IInv => CommandsNameTheRowDrawn
    BY DEF IInv, Commanded, CommandsNameTheRowDrawn, LookedUpByIndex
<1> QED
    BY <1>1, Invariance, PTL

(***************************************************************************)
(* A command is about a resource, never about a placeholder, and a review  *)
(* is of a request still pending (agg_row_actionable, review_selected).    *)
(***************************************************************************)
THEOREM CommandsFit == Spec => []CommandsFitTheirRow
<1>1. IInv => CommandsFitTheirRow
    BY DEF IInv, Commanded, CommandsFitTheirRow, LookedUpByIndex
<1> QED
    BY <1>1, Invariance, PTL

(***************************************************************************)
(* The root profile is restored only after a login opened on a row that    *)
(* asked for one (pending_relogin, restore_root_profile).                  *)
(***************************************************************************)
THEOREM RestoreFollows == Spec => []RestoreFollowsALeafLogin
<1>1. IInv => RestoreFollowsALeafLogin
    BY DEF IInv, Commanded, RestoreFollowsALeafLogin
<1> QED
    BY <1>1, Invariance, PTL

(***************************************************************************)
(* A paste or the wheel replays only keys that start nothing (on_paste and *)
(* on_scroll in app/input.rs), whatever the mode they land in.             *)
(***************************************************************************)
THEOREM PasteAndWheel == Spec => PasteAndWheelNeverAct
<1>1. IInv /\ OnPaste => ~Acts /\ app'.mode = app.mode
    BY ReplayedStep DEF OnPaste
<1>2. IInv /\ OnScroll => ~Acts
    BY ReplayedStep DEF OnScroll
<1>3. IInv /\ [Next]_vars => [/\ Acts => ~(OnPaste \/ OnScroll)
                              /\ app'.mode # app.mode => ~OnPaste]_vars
    BY <1>1, <1>2
<1> QED
    BY <1>3, Invariance, PTL DEF Spec, PasteAndWheelNeverAct
=============================================================================
