-------------------------------- MODULE Modes --------------------------------
(***************************************************************************)
(* The keyboard: what a key, a paste or the wheel does in each mode of the *)
(* TUI (app/input.rs), the actions that turn the selected row into a       *)
(* command (app/actions.rs, application/src/command.rs), and the results   *)
(* and reloads that land between two keys (app/update.rs, main.rs).        *)
(*                                                                         *)
(* A handler is an operator: the set of results it may have, a result      *)
(* being the App it leaves and the command it asks for.  Nondeterminism    *)
(* stands for the data a handler reads and no property is about:           *)
(* preferences, the profile's logins, capabilities, the fields of a form.  *)
(***************************************************************************)
EXTENDS Screen

VARIABLES
    app,     \* the App
    cmd,     \* the command the last step asked for: an outcome or a tctl job
    drawn,   \* the row highlighted when the screen was last drawn
    asked    \* the row drawn when the command under way was asked for

vars == <<app, cmd, drawn, asked>>

-----------------------------------------------------------------------------
(***************************************************************************)
(* Commands (application/src/command.rs).  `Scoped` names the row's        *)
(* cluster, with --cluster or because the proxy is started for it; `Bare`  *)
(* has no cluster flag; `Plain` is about no row.                           *)
(***************************************************************************)
Scoped(verb, row) == [verb |-> verb, cluster |-> row.cluster, item |-> row.item]
Bare(verb, item) == [verb |-> verb, cluster |-> NoCluster, item |-> item]
Plain(verb) == [verb |-> verb]
NoCmd == Plain("none")

\* Commands about no row that nothing below tells apart: the job of a popup, a
\* new token or user, a profile switch; logout, join, an mfa or request form.
Query == Plain("query")
Interactive == Plain("interactive")

\* Jobs run on a worker or a thread; the rest are outcomes for the event loop.
Jobs == {"query", "remove_token", "reset_user"}
Background == {"open_app", "open_db", "open_kube", "open_forward"}
RowCommands == {"ssh", "ssh_full", "scp", "open_forward", "open_kube", "kube_exec",
                "db_connect", "open_db", "db_login", "db_logout", "open_app", "app_login",
                "app_logout", "play", "request_show", "request_approve", "request_deny",
                "request_drop", "remove_token", "reset_user"}

\* The event loop reads the next event once the outcome has been handled.
Idle == cmd.verb \in Jobs \cup {"none"}

R(a, c) == [app |-> a, cmd |-> c]
Only(a) == {R(a, NoCmd)}
To(a, at) == [a EXCEPT !.mode = M(at)]
Carry(at, row) == [at |-> at, cluster |-> row.cluster, item |-> row.item]

-----------------------------------------------------------------------------
(***************************************************************************)
(* Text.  The search and every single-line prompt share one buffer: empty, *)
(* or text typed in the present mode ("here") or in another ("left").      *)
(* Whether a text parses as what its prompt asks for is a choice made when *)
(* it is submitted.                                                        *)
(***************************************************************************)
InputModes == {"Search", "Login", "CreateRequest", "CreateToken", "DbUser", "AppPort"}
FormModes == {"Scp", "SshOptions", "KubeExec", "Settings", "LoginForm", "AddUser"}
AcceptsTextInput(mode) == mode.at \in InputModes \cup FormModes

EnterInputMode_KeepsText(a, mode) == [a EXCEPT !.mode = mode]   \* mutant
EnterInputMode(a, mode) == [a EXCEPT !.mode = mode, !.input = Blank]
Cancel(a) == [To(a, "Normal") EXCEPT !.input = Blank]

Control == {"Esc", "Enter", "Up", "Down", "Left", "Tab", "Backspace"}
Char == {"q", "y", "a", "d", "D", "n", "R", "g", "s", "o", "P", "l", "u", "e", "M", "S",
         "L", "p", "O", "?", "F", "j", "r", "/", "c", "digit", "other"}
Key == Control \cup Char

\* Characters typed onto text another mode left are mixed with it.
Typed(a, k) ==
    CASE k \in Char -> {[a EXCEPT !.input = IF @ = "left" THEN @ ELSE "here"]}
      [] k = "Backspace" -> {[a EXCEPT !.input = Blank], a}
      [] OTHER -> {a}

\* Text in the buffer when the mode changes is no longer the mode's own.
LeftBehind(a, b) == IF b.mode.at # a.mode.at /\ b.input = "here" THEN [b EXCEPT !.input = "left"] ELSE b

\* A single-line prompt: Esc cancels, Enter submits, anything else edits.
TextKey(a, k, submit) ==
    CASE k = "Esc" -> Only(Cancel(a))
      [] k = "Enter" -> submit
      [] OTHER -> UNION {Only(b) : b \in Typed(a, k)}

\* A form: Esc closes it, Enter submits it; its fields are not modelled.  The
\* row it is for is captured whenever it opens, and read only while it is open.
FormKey(a, k, closed, submit) ==
    CASE k = "Esc" -> Only(closed)
      [] k = "Enter" -> submit \cup Only(a)
      [] OTHER -> Only(a)

-----------------------------------------------------------------------------
(***************************************************************************)
(* The row an action works on.                                             *)
(***************************************************************************)
AggRowActionable_Any(row) == TRUE   \* mutant
AggRowActionable(row) == row.kind \notin {"login", "error"}

\* Mutant: the selected cluster in every view.
RowTarget_Selected(a) ==
    {[row EXCEPT !.cluster = a.scope] :
        row \in {r \in {Highlight(a)} : r # NoRow /\ a.scope # NoCluster
                                        /\ (a.agg => AggRowActionable(r))}}

\* node_target, resource_target and request_target: the highlighted row with
\* its own cluster in the all-clusters view, with the selected one otherwise.
RowTarget(a) ==
    {row \in {Highlight(a)} : /\ row # NoRow
                              /\ a.agg => AggRowActionable(row)
                              /\ ~a.agg => a.scope # NoCluster}

\* The item of the typed listing under the selection (tokens, users): its
\* index is the selected row's, whichever view that row is from.
TypedItem(a) ==
    IF a.sel \in DOMAIN a.visible /\ a.visible[a.sel] \in DOMAIN a.list
    THEN {a.list[a.visible[a.sel]].item} ELSE {}

\* Act on the row, if there is one.
With(a, rows, Act(_)) == IF rows = {} THEN Only(a) ELSE UNION {Act(row) : row \in rows}

-----------------------------------------------------------------------------
(***************************************************************************)
(* Enter on a row (activate, connect_resource, offer_connect,              *)
(* offer_kube_tool).                                                       *)
(***************************************************************************)
OfferKubeTool(a, row) ==
    {R(To(a, "Normal"), Scoped("open_kube", row)),
     R([a EXCEPT !.mode = Carry("ToolPicker", row)], NoCmd)}

ConnectSsh(a, row) == {R(To(a, "Normal"), Scoped("ssh", row))}

OfferConnect(a, row) ==
    Only([a EXCEPT !.mode = Carry("UserPicker", row)])
    \cup (IF a.tab = "Ssh"
          THEN ConnectSsh(a, row) \cup Only(EnterInputMode(a, Carry("Login", row)))
          ELSE OfferKubeTool(a, row))

ConnectResource(a, row) ==
    CASE a.tab \in {"Ssh", "Kube"} -> OfferConnect(a, row)
      [] a.tab = "Db" -> {R(a, Scoped("db_connect", row)),
                          R(EnterInputMode(a, Carry("DbUser", row)), NoCmd)}
      [] a.tab = "Apps" -> Only(EnterInputMode(a, Carry("AppPort", row)))
      [] a.tab = "Requests" -> {R(a, Scoped("request_show", row))}
      [] OTHER -> Only(a)

\* Recordings replay by session id alone, an id that does not parse is
\* reported; the admin tabs open the read-only detail.
Activate(a) ==
    LET row == Highlight(a)
    IN  CASE row = NoRow -> Only(a)
          [] row # NoRow /\ a.tab = "Recordings" ->
                Only(a) \cup (IF a.agg /\ ~AggRowActionable(row) THEN {}
                              ELSE {R(a, Bare("play", row.item))})
          [] row # NoRow /\ IsAdmin(a.tab) -> Only(To(a, "ShowDetail"))
          [] OTHER -> With(a, RowTarget(a), LAMBDA r : ConnectResource(a, r))

-----------------------------------------------------------------------------
(***************************************************************************)
(* Keys that act on the tab's selection (on_key_tab_action).               *)
(***************************************************************************)
ReviewSelected(a, verb) ==
    With(a, RowTarget(a), LAMBDA row :
        IF row.kind = "row" THEN {R(a, Scoped(verb, row))} ELSE Only(a))

OpenForm(a, at) ==
    With(a, RowTarget(a), LAMBDA row : Only([a EXCEPT !.mode = Carry(at, row)]))

Directly(a, verb) == With(a, RowTarget(a), LAMBDA row : {R(a, Scoped(verb, row))})

TabKeys(tab) ==
    CASE tab = "Tokens" -> {"g", "d"}
      [] tab = "Users" -> {"n", "R"}
      [] tab = "Requests" -> {"a", "d", "D", "n"}
      [] tab = "Ssh" -> {"s", "o"}
      [] tab = "Db" -> {"P", "l", "u"}
      [] tab = "Apps" -> {"l", "u"}
      [] tab = "Kube" -> {"e"}
      [] OTHER -> {}

OnKeyTabAction(a, k) ==
    CASE a.tab = "Tokens" /\ k = "g" -> Only(EnterInputMode(a, M("CreateToken")))
      [] a.tab = "Tokens" /\ k = "d" ->
            Only(IF Highlight(a) = NoRow THEN a ELSE To(a, "ConfirmTokenRm"))
      [] a.tab = "Users" /\ k = "n" -> Only(To(a, "AddUser"))
      [] a.tab = "Users" /\ k = "R" ->
            With(a, TypedItem(a), LAMBDA item :
                Only([a EXCEPT !.mode = [at |-> "ConfirmUserReset", item |-> item]]))
      [] a.tab = "Requests" /\ k = "a" -> ReviewSelected(a, "request_approve")
      [] a.tab = "Requests" /\ k = "d" -> ReviewSelected(a, "request_deny")
      [] a.tab = "Requests" /\ k = "D" ->
            With(a, RowTarget(a), LAMBDA row : {R(a, Bare("request_drop", row.item))})
      [] a.tab = "Requests" /\ k = "n" -> Only(EnterInputMode(a, M("CreateRequest")))
      [] a.tab = "Ssh" /\ k = "s" -> OpenForm(a, "Scp")
      [] a.tab = "Ssh" /\ k = "o" -> OpenForm(a, "SshOptions")
      [] a.tab = "Db" /\ k = "P" -> Directly(a, "open_db")
      [] a.tab = "Db" /\ k = "l" -> Directly(a, "db_login")
      [] a.tab = "Db" /\ k = "u" -> Directly(a, "db_logout")
      [] a.tab = "Apps" /\ k = "l" -> Directly(a, "app_login")
      [] a.tab = "Apps" /\ k = "u" -> Directly(a, "app_logout")
      [] a.tab = "Kube" /\ k = "e" -> OpenForm(a, "KubeExec")

\* `L`: on a cluster that needs a login, in the all-clusters view of a tab
\* listed serially, the login is for that cluster and the root profile comes
\* back after it; anywhere else it is a plain login.
PendingLoginCluster(a) ==
    a.agg /\ SerialAggregation(a.tab) /\ Highlight(a) # NoRow /\ Highlight(a).kind = "login"

\* Mutant: a plain login keeps the mark of a leaf login.
LoginAction_KeepsMark(a) ==
    IF PendingLoginCluster(a)
    THEN [a EXCEPT !.relogin = TRUE,
                   !.mode = [at |-> "LoginForm", cluster |-> Highlight(a).cluster]]
    ELSE [a EXCEPT !.mode = [at |-> "LoginForm", cluster |-> NoCluster]]

LoginAction(a) ==
    IF PendingLoginCluster(a)
    THEN [a EXCEPT !.relogin = TRUE,
                   !.mode = [at |-> "LoginForm", cluster |-> Highlight(a).cluster]]
    ELSE [a EXCEPT !.relogin = FALSE, !.mode = [at |-> "LoginForm", cluster |-> NoCluster]]

-----------------------------------------------------------------------------
(***************************************************************************)
(* The handlers, one per mode.                                             *)
(***************************************************************************)
MoveKeys == {"j", "Down", "Up"}
IsDown(k) == k \in {"j", "Down"}

OnKeyNormal(a, k) ==
    CASE k \in {"q", "Esc"} -> {R(a, Plain("quit"))}
      [] k \in {"Tab", "digit"} -> UNION {{R(b, NoCmd) : b \in SwitchTab(a, tab)} : tab \in Tab}
      [] k \in TabKeys(a.tab) -> OnKeyTabAction(a, k)
      [] k = "M" -> {R(a, Query)}
      [] k = "S" -> IF a.scope = NoCluster THEN Only(a) ELSE {R(a, Query)}
      [] k = "L" -> Only(LoginAction(a))
      [] k = "p" -> Only(To(a, "Settings"))
      [] k = "O" -> Only(To(a, "ConfirmLogout"))
      [] k = "?" -> Only(To(a, "Notice"))
      [] k = "F" -> Only(To(a, "Forwards"))
      [] k \in MoveKeys -> Only(MoveSelection(a, IsDown(k)))
      [] k = "r" -> Only(ForceReload(a))
      [] k = "/" -> Only(EnterInputMode(a, M("Search")))
      [] k = "c" -> Only(a) \cup Only(To(a, "Picker"))
      [] k = "Enter" -> Activate(a)
      [] OTHER -> Only(a)

OnKeySearch(a, k) ==
    CASE k = "Esc" -> Only(RecomputeVisible(Cancel(a)))
      [] k \in {"Up", "Down"} -> Only(MoveSelection(a, IsDown(k)))
      [] k = "Enter" -> Activate(a)
      [] k \in Char \cup {"Backspace"} -> {R(RecomputeVisible(b), NoCmd) : b \in Typed(a, k)}
      [] OTHER -> Only(a)

\* A profile whose certificate is still valid is switched to in the background;
\* an expired one takes the terminal (interactive_profile_login).
InteractiveProfileLogin(a) ==
    {R([EnterProfile(a) EXCEPT !.auth = TRUE], Plain("login_proxy"))}
ChooseProfile(a) ==
    Only(a) \cup InteractiveProfileLogin(a) \cup {R([a EXCEPT !.loading = TRUE], Query)}

OnKeyPicker(a, k) ==
    CASE k \in {"Esc", "c"} -> Only(To(a, "Normal"))
      [] k = "Enter" ->
            ChooseProfile(To(a, "Normal"))
            \cup (IF a.scope = NoCluster THEN {}
                  ELSE Only(SelectAllClusters(To(a, "Normal")))
                       \cup {R(SelectScopedCluster(To(a, "Normal"), c), NoCmd) : c \in Cluster})
      [] OTHER -> Only(a)

OnKeyLogin(a, k) ==
    TextKey(a, k, Only(a) \cup ConnectSsh([a EXCEPT !.input = Blank], a.mode))

OnKeyUserPicker(a, k) ==
    CASE k = "Esc" -> Only(To(a, "Normal"))
      [] k = "Enter" -> IF a.tab = "Ssh" THEN ConnectSsh(a, a.mode)
                        ELSE OfferKubeTool(To(a, "Normal"), a.mode)
      [] OTHER -> Only(a)

OnKeyToolPicker(a, k) ==
    CASE k = "Esc" -> Only(To(a, "Normal"))
      [] k = "Enter" -> {R(To(a, "Normal"), Scoped("open_kube", a.mode))}
      [] OTHER -> Only(a)

\* An unusable user closes the prompt, an unusable port keeps it open.
OnKeyDbUser(a, k) ==
    TextKey(a, k, Only(Cancel(a)) \cup {R(Cancel(a), Scoped("db_connect", a.mode))})
OnKeyAppPort(a, k) ==
    TextKey(a, k, Only([a EXCEPT !.input = Blank]) \cup {R(Cancel(a), Scoped("open_app", a.mode))})

OnKeyCreate(a, k) ==
    TextKey(a, k, Only(a) \cup (IF a.scope = NoCluster THEN {}
                                ELSE {R(Cancel(a), Interactive)}))
OnKeyToken(a, k) ==
    TextKey(a, k, Only(a) \cup {R(Cancel(a), Query)})

OnKeyScp(a, k) ==
    FormKey(a, k, To(a, "Normal"), {R(To(a, "Normal"), Scoped("scp", a.mode))})
OnKeySshOptions(a, k) ==
    FormKey(a, k, To(a, "Normal"),
            {R(To(a, "Normal"), Scoped(verb, a.mode)) : verb \in {"ssh_full", "open_forward"}})
OnKeyKubeExec(a, k) ==
    FormKey(a, k, To(a, "Normal"), {R(To(a, "Normal"), Scoped("kube_exec", a.mode))})
OnKeySettings(a, k) ==
    FormKey(a, k, To(a, "Normal"), Only(To(a, "Normal")))
OnKeyAddUser(a, k) ==
    FormKey(a, k, To(a, "Normal"), {R(To(a, "Normal"), Query)})

\* The proxy typed in the login form is the one it opened with, or another: the
\* slices cached for the cluster logged in to are dropped.
SubmitLogin(a) ==
    {R([To(a, "Normal") EXCEPT !.auth = TRUE, !.restore = a.relogin \/ @, !.relogin = FALSE,
                               !.cached = IF a.relogin THEN Restrict(@, DOMAIN @ \ {proxy}) ELSE @],
       Plain("login")) : proxy \in {a.mode.cluster, NoCluster}}
OnKeyLoginForm(a, k) ==
    FormKey(a, k, [To(a, "Normal") EXCEPT !.relogin = FALSE], SubmitLogin(a))

\* A confirmation: y or Enter goes ahead, any other key leaves.
Confirm(k, yes, no) == IF k \in {"y", "Enter"} THEN yes ELSE no

OnKeyConfirmLogout(a, k) ==
    Confirm(k, {R([To(a, "Normal") EXCEPT !.auth = TRUE], Interactive)}, Only(To(a, "Normal")))

\* The token is looked up again when the removal is confirmed.
OnKeyConfirmTokenRm(a, k) ==
    Confirm(k, With(To(a, "Normal"), TypedItem(a), LAMBDA item :
                    {R(To(a, "Normal"), Bare("remove_token", item))} \cup Only(To(a, "Normal"))),
            Only(To(a, "Normal")))
OnKeyConfirmUserReset(a, k) ==
    Confirm(k, {R(To(a, "Normal"), Bare("reset_user", a.mode.item))},
            Only(To(a, "Normal")))
OnKeyConfirmMfaRm(a, k) ==
    Confirm(k, {R(To(a, "Normal"), Interactive)}, Only(To(a, "ShowMfa")))

OnKeyMfa(a, k) ==
    CASE k \in {"Esc", "q"} -> Only(To(a, "Normal"))
      [] k = "a" -> {R(To(a, "Normal"), Interactive)}
      [] k = "d" -> Only(a) \cup Only(To(a, "ConfirmMfaRm"))
      [] OTHER -> Only(a)
OnKeySessions(a, k) ==
    CASE k \in {"Esc", "q"} -> Only(To(a, "Normal"))
      [] k = "Enter" -> Only(a) \cup {R(To(a, "Normal"), Interactive)}
      [] OTHER -> Only(a)
OnKeyDetail(a, k) == Only(IF k \in MoveKeys THEN a ELSE To(a, "Normal"))
OnKeyForwards(a, k) == Only(IF k = "Esc" THEN To(a, "Normal") ELSE a)
OnKeyProxy(a, k) == Only(IF k \in {"Esc", "q"} THEN To(a, "Normal") ELSE a)

\* The keys a mode tells apart; any other does what "other" does.
Distinguished(a) ==
    CASE a.mode.at = "Normal" ->
            TabKeys(a.tab) \cup {"Esc", "Tab", "M", "S", "L", "p", "O", "?", "F", "Up", "Down", "r",
                                 "/", "c", "Enter"}
      [] a.mode.at \in InputModes -> {"Esc", "Enter", "Up", "Down", "Backspace", "other"}
      [] a.mode.at \in FormModes -> {"Esc", "Enter", "other"}
      [] OTHER -> {"Esc", "Enter", "Down", "a", "d", "other"}

OnKey(a, k) ==
    LET at == a.mode.at
    IN  CASE at = "Normal" -> OnKeyNormal(a, k)
          [] at = "Search" -> OnKeySearch(a, k)
          [] at = "Picker" -> OnKeyPicker(a, k)
          [] at = "Login" -> OnKeyLogin(a, k)
          [] at = "UserPicker" -> OnKeyUserPicker(a, k)
          [] at = "ToolPicker" -> OnKeyToolPicker(a, k)
          [] at = "DbUser" -> OnKeyDbUser(a, k)
          [] at = "AppPort" -> OnKeyAppPort(a, k)
          [] at = "CreateRequest" -> OnKeyCreate(a, k)
          [] at = "CreateToken" -> OnKeyToken(a, k)
          [] at = "Scp" -> OnKeyScp(a, k)
          [] at = "SshOptions" -> OnKeySshOptions(a, k)
          [] at = "KubeExec" -> OnKeyKubeExec(a, k)
          [] at = "Settings" -> OnKeySettings(a, k)
          [] at = "AddUser" -> OnKeyAddUser(a, k)
          [] at = "LoginForm" -> OnKeyLoginForm(a, k)
          [] at = "ConfirmLogout" -> OnKeyConfirmLogout(a, k)
          [] at = "ConfirmTokenRm" -> OnKeyConfirmTokenRm(a, k)
          [] at = "ConfirmUserReset" -> OnKeyConfirmUserReset(a, k)
          [] at = "ConfirmMfaRm" -> OnKeyConfirmMfaRm(a, k)
          [] at = "ShowMfa" -> OnKeyMfa(a, k)
          [] at = "ShowSessions" -> OnKeySessions(a, k)
          [] at = "ShowDetail" -> OnKeyDetail(a, k)
          [] at = "Forwards" -> OnKeyForwards(a, k)
          [] at = "AppProxy" -> OnKeyProxy(a, k)
          [] at = "Notice" -> Only(To(a, "Normal"))

-----------------------------------------------------------------------------
(***************************************************************************)
(* The event loop.  Results are applied and the screen is drawn before the *)
(* next event is read; only the auto-refresh comes between the two.        *)
(***************************************************************************)
Carrying == {"Login", "UserPicker", "ToolPicker", "DbUser", "AppPort", "Scp", "SshOptions",
             "KubeExec", "LoginForm", "ConfirmUserReset"}

\* The ghost: a command is asked for on the row drawn when the flow that leads
\* to it began, or, where the selection is read again, when it is confirmed.
Remember(row) ==
    asked' = IF app'.mode.at \in Carrying \/ cmd' # NoCmd THEN row ELSE NoRow
Drawn == drawn' = Highlight(app')

Press(k) ==
    /\ Idle
    /\ \E r \in OnKey(app, k) : app' = LeftBehind(app, r.app) /\ cmd' = r.cmd
    /\ Drawn
    /\ Remember(IF app.mode.at \in {"Normal", "Search", "ConfirmTokenRm"} THEN drawn ELSE asked)

\* Pasted text is replayed as keystrokes and the wheel as an arrow key; what
\* they ask of the event loop is dropped, a job they dispatch is not.
Replay(k) ==
    /\ Idle
    /\ \E r \in OnKey(app, k) :
          app' = LeftBehind(app, r.app) /\ cmd' = IF r.cmd.verb \in Jobs THEN r.cmd ELSE NoCmd
    /\ Drawn
    /\ Remember(asked)

\* Control characters of the pasted text are dropped; the rest are as in `Press`.
Pasted_Lines == Key \ (Control \ {"Enter"})   \* mutant
Pasted == Key \ Control
OnPaste == AcceptsTextInput(app.mode) /\ \E k \in Pasted \cap Distinguished(app) : Replay(k)
OnScroll == \E k \in {"Up", "Down"} : Replay(k)

\* After a command that had the terminal, the session is read again
\* (after_action); the auth flag, reset by the code on the next key, is not read
\* again.  A launch goes to a thread of its own.
HandleOutcome ==
    /\ ~Idle /\ cmd.verb # "quit"
    /\ app' = IF cmd.verb \in Background THEN app ELSE [app EXCEPT !.restore = FALSE, !.auth = FALSE]
    /\ cmd' = NoCmd
    /\ Drawn /\ Remember(asked)

AutoRefresh ==
    /\ Idle
    /\ app' = ForceReload(app)
    /\ cmd' = NoCmd
    /\ UNCHANGED drawn /\ Remember(asked)

Result(apps) == Idle /\ app' \in {LeftBehind(app, a) : a \in apps} /\ cmd' = NoCmd /\ Drawn /\ Remember(asked)

\* A status without a session, a topology, or denied admin rights.  Reads of
\* the session are asked for at start-up, after every command, after a profile
\* switch and by `r`, and take as long as tsh does: one may land at any time.
SessionRead ==
    Result({ClearSession(app)} \cup ApplyTopology(app)
           \cup (IF AdminGated(app.tab) THEN SwitchTab(app, "Ssh") ELSE {}))

ListingLands == app.loading /\ ~app.agg /\ Result(ApplyTab(app))
SliceLands == app.agg /\ \E c \in app.pending : Result(ApplyAggCluster(app, c))

\* The results of jobs: each may have been asked for at any earlier moment, so
\* each may land now.
JobLands ==
    Result({To(app, "ShowMfa"), To(app, "ShowSessions"), To(app, "AppProxy"), To(app, "Notice"),
            InvalidateTab(To(app, "Notice"), "Users"), InvalidateTab(app, "Tokens")})

\* The background profile switch is over: the new profile, its interactive
\* login, or the old profile still.
ProfileSwitched ==
    /\ Idle
    /\ LET a == [app EXCEPT !.loading = FALSE]
       IN  \E r \in InteractiveProfileLogin(a) \cup Only(a) \cup Only(EnterProfile(a)) :
              app' = LeftBehind(app, r.app) /\ cmd' = r.cmd
    /\ Drawn /\ Remember(asked)

Init ==
    /\ app = [tab |-> "Ssh", agg |-> FALSE, scope |-> NoCluster, list |-> <<>>, fresh |-> FALSE,
              rows |-> <<>>, cached |-> NoSlices, pending |-> {}, loading |-> FALSE,
              visible |-> <<>>, sel |-> 0, mode |-> M("Normal"), input |-> Blank,
              relogin |-> FALSE, restore |-> FALSE, auth |-> FALSE]
    /\ cmd = NoCmd /\ drawn = NoRow /\ asked = NoRow

Next ==
    \/ \E k \in Distinguished(app) : Press(k)
    \/ OnPaste \/ OnScroll
    \/ HandleOutcome \/ AutoRefresh
    \/ SessionRead \/ ListingLands \/ SliceLands \/ JobLands \/ ProfileSwitched

Spec == Init /\ [][Next]_vars

-----------------------------------------------------------------------------
TypeOK ==
    /\ app.tab \in Tab /\ app.scope \in Cluster \cup {NoCluster}
    /\ app.list \in UNION {Listing(app.tab, c) : c \in Cluster}
    /\ app.agg => app.scope # NoCluster
    /\ app.pending \subseteq Cluster /\ DOMAIN app.cached \subseteq Cluster
    /\ app.sel \in 0..Len(app.visible)
    /\ app.mode.at \in InputModes \cup FormModes \cup
         {"Normal", "Picker", "UserPicker", "ToolPicker", "ConfirmLogout", "ConfirmTokenRm",
          "ConfirmUserReset", "ConfirmMfaRm", "ShowMfa", "ShowSessions", "ShowDetail",
          "Notice", "Forwards", "AppProxy"}

\* A tctl job looked up by index in the typed listing while the rows on screen
\* are the aggregate's; see TokenRemovedIsHighlighted.
LookedUpByIndex == app.agg /\ cmd.verb \in {"remove_token", "reset_user"}

(***************************************************************************)
(* A command that names a row names the row the user saw highlighted when  *)
(* asking for it, and that row's own cluster where the command has a       *)
(* cluster flag -- through prompts and pickers, refreshes, late results    *)
(* and view changes in between.                                            *)
(***************************************************************************)
CommandsNameTheRowDrawn ==
    cmd.verb \in RowCommands /\ ~LookedUpByIndex =>
        /\ asked # NoRow /\ cmd.item = asked.item
        /\ cmd.cluster \in {asked.cluster, NoCluster}

(***************************************************************************)
(* The row is a resource, never a placeholder whose text would be taken    *)
(* for a name, and a reviewed request is still pending.                    *)
(***************************************************************************)
CommandsFitTheirRow ==
    cmd.verb \in RowCommands /\ ~LookedUpByIndex =>
        /\ asked # NoRow /\ asked.kind \in {"row", "done"}
        /\ cmd.verb \in {"request_approve", "request_deny"} => asked.kind = "row"

(***************************************************************************)
(* Text is submitted only to the prompt it was typed in, although all      *)
(* prompts and the search share one buffer and a popup may take a prompt's *)
(* place at any time.                                                      *)
(***************************************************************************)
TextStaysWithItsPrompt ==
    TypeOK /\ (app.mode.at \in InputModes => app.input # "left")

(***************************************************************************)
(* The root profile is restored after a login only when that login was     *)
(* opened on a row that said its cluster needs one, and the login is then  *)
(* followed by a reload of the session.                                    *)
(***************************************************************************)
RestoreFollowsALeafLogin ==
    app.restore => /\ cmd.verb = "login" /\ app.auth
                   /\ asked # NoRow /\ asked.kind = "login"

(***************************************************************************)
(* A paste only edits the field it lands in and the wheel only moves or    *)
(* dismisses: neither starts a command or a job, changes the tab, the      *)
(* cluster or the profile, or reloads; a paste never leaves its prompt.    *)
(***************************************************************************)
Acts == \/ app'.tab # app.tab \/ app'.agg # app.agg \/ app'.scope # app.scope
        \/ app'.loading # app.loading \/ cmd' # NoCmd
PasteAndWheelNeverAct ==
    [][/\ Acts => ~(OnPaste \/ OnScroll)
       /\ app'.mode # app.mode => ~OnPaste]_vars

(***************************************************************************)
(* "Clear stale rows so the spinner shows an empty table [...] until the   *)
(* result lands" (app/update.rs:38): a command is never about a row of     *)
(* another cluster than the one it names.  Not so when the search is used  *)
(* while a listing is loading: recompute_visible shows the rows that are   *)
(* still held, of the cluster selected before.                             *)
(***************************************************************************)
RowsAreOfTheirCluster ==
    cmd.verb \in RowCommands /\ ~LookedUpByIndex => cmd.cluster \in {asked.of, NoCluster}

(***************************************************************************)
(* "Dispatch removal of the selected token" (app/input.rs:623): the token  *)
(* removed is the one highlighted.  Not so in the all-clusters view, where *)
(* the index of the aggregate row is looked up in the scoped listing.      *)
(***************************************************************************)
TokenRemovedIsHighlighted ==
    cmd.verb = "remove_token" => asked # NoRow /\ cmd.item = asked.item
=============================================================================
