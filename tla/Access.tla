-------------------------------- MODULE Access --------------------------------
(***************************************************************************)
(* Wallet sessions and team workspaces.  A browser signs in with a wallet  *)
(* (components/wallet/wallet-identity.tsx, WalletAuthService) and manages  *)
(* members and invitations of the workspaces its wallet belongs to         *)
(* (workspace-management.tsx, server/workspaces.ts over the tables of      *)
(* 0011_team_workspaces.sql).  A statement is one step; requests of other  *)
(* browsers run between any two of them, and answers get lost.  The other  *)
(* routes of the product appear by what they need: a permission, and for   *)
(* some of them the signing wallet.                                        *)
(***************************************************************************)
EXTENDS Integers, FiniteSets

CONSTANTS
  Wallet,     \* wallets; a workspace is known by the wallet that signs for it
  Account,    \* the wallets one extension may hold
  Browser,    \* browsers, one page each
  Scenes,     \* what there is at first, and what each browser does
  MaxChallenge, MaxSession, MaxInvite   \* bounds: rows of the three tables

Challenge == 1..MaxChallenge
Session == 1..MaxSession
Invitation == 1..MaxInvite

Role == {"owner", "admin", "operator", "viewer"}
\* Mutant of GivenRole: the schema of the body takes any role.
AnyRole == Role
GivenRole == Role \ {"owner"}
TeamOps == {"invite", "accept", "role", "remove", "revoke", "rename", "switch"}
Paths == {"providers", "policies", "settings", "developer", "activity", "execute",
          "tasks", "channels", "live"}
PageOps == {"connect", "disconnect", "resend", "reload", "load", "account", "wait"}

\* A scene is a state the handlers may have left before: workspaces with their
\* owners, invitations to others, and sessions whose challenges are long gone.
SceneOK(scene) ==
  /\ \A b \in Browser : scene.ops[b] \subseteq PageOps \cup TeamOps \cup Paths
  /\ scene.acct \in [Browser -> Wallet] /\ scene.at \in Wallet
  /\ scene.jar \in [Browser -> 0..MaxSession]
  /\ \A b \in Browser : scene.jar[b] # 0 => scene.sessions[scene.jar[b]].state # "none"
  /\ scene.sessions \in [Session -> [wallet : Wallet \cup {"none"}, challenge : {0},
                                     state : {"none", "live", "expired", "revoked"}]]
  /\ \A t \in Session : scene.sessions[t].state = "live" => scene.sessions[t].wallet # "none"
  /\ scene.members \in [Wallet -> [Wallet -> Role \cup {"none"}]]
  /\ \A w, u \in Wallet : scene.members[w][u] # "none" =>
       scene.members[w][w] = "owner" /\ (u # w => scene.members[w][u] # "owner")
  /\ scene.invites \in [Invitation ->
       [workspace : Wallet \cup {"none"}, wallet : Wallet \cup {"none"},
        role : GivenRole \cup {"none"}, due : BOOLEAN,
        status : {"none", "pending", "accepted", "revoked", "expired"}]]
  /\ \A i \in Invitation :
       LET invite == scene.invites[i] IN
       invite.status = "pending" =>
         /\ invite.workspace \in Wallet \ {invite.wallet} /\ invite.role # "none"
         /\ scene.members[invite.workspace][invite.workspace] = "owner"

ASSUME AccessAssumption ==
  /\ Account \subseteq Wallet /\ {MaxChallenge, MaxSession, MaxInvite} \subseteq Nat \ {0}
  /\ "none" \notin Wallet
  /\ \A scene \in Scenes : SceneOK(scene)

VARIABLES
  challenges,   \* wallet_auth_challenges, and whether the wallet has signed them
  sessions,     \* wallet_sessions; a token is known by its number
  named,        \* workspaces: who named each of them last
  members,      \* workspace_members
  invites,      \* workspace_invitations
  audited,      \* audit_events of the team
  acct,         \* the account each browser's wallet extension offers
  jar,          \* the session cookie
  chosen,       \* the workspace cookie
  page,         \* the state of WalletIdentityProvider
  shown,        \* the overview and details the workspace page last loaded
  req,          \* the request or sign-in each page waits for
  clear,        \* the sign-out an account change has started
  ops           \* what the browsers of this behaviour do

tables == <<challenges, sessions, named, members, invites, audited>>
browser == <<acct, jar, chosen, page, shown, clear, ops>>
vars == <<tables, browser, req>>

NoChallenge == [wallet |-> "none", signed |-> FALSE, used |-> FALSE, due |-> FALSE]
NoSession == [wallet |-> "none", state |-> "none", challenge |-> 0]
NoInvite == [workspace |-> "none", wallet |-> "none", role |-> "none", status |-> "none", due |-> FALSE]
SignedOut == [session |-> "none", status |-> "disconnected", active |-> "none",
              tried |-> FALSE, remembered |-> FALSE]
Nothing == [workspace |-> "none", role |-> "none", members |-> {}, pending |-> {}, mine |-> {},
            workspaces |-> {}]
NoClear == [at |-> "none", token |-> 0, why |-> "none"]
Idle == [op |-> "none", at |-> "idle", token |-> 0, wallet |-> "none", challenge |-> 0,
         workspace |-> "none", role |-> "none", subject |-> "none", invite |-> 0, first |-> "none"]

-----------------------------------------------------------------------------
(* Roles (packages/application/src/workspace.ts) *)

ViewerPermissions == {"workspace:read"}
OperatorPermissions == ViewerPermissions \cup {"tasks:write", "tasks:execute", "channels:write", "activity:write"}
AdminPermissions == OperatorPermissions \cup
  {"members:manage", "providers:write", "policies:write", "developers:write", "settings:write"}

Permissions(role) ==
  CASE role = "viewer" -> ViewerPermissions
    [] role = "operator" -> OperatorPermissions
    [] role \in {"admin", "owner"} -> AdminPermissions
    [] OTHER -> {}

\* requiredPermissionForRequest, for a request that is not a GET.
RequiredPermission(op) ==
  CASE op = "providers" -> "providers:write" [] op = "policies" -> "policies:write"
    [] op = "settings" -> "settings:write"   [] op = "developer" -> "developers:write"
    [] op = "activity" -> "activity:write"   [] op = "execute" -> "tasks:execute"
    [] op \in {"tasks", "live"} -> "tasks:write" [] op = "channels" -> "channels:write"
    [] OTHER -> "workspace:read"
SignerRequired(op) == op \in {"live", "channels"}

TeamPermission(op) ==
  CASE op = "rename" -> "settings:write"
    [] op \in {"invite", "role", "remove", "revoke"} -> "members:manage"
    [] OTHER -> "workspace:read"

Member(w, u) == members[w][u] # "none"
Pending(i) == invites[i].status = "pending"
Rank(role) == CASE role = "owner" -> 0 [] role = "admin" -> 1 [] role = "operator" -> 2 [] OTHER -> 3

\* What the page of wallet u in workspace w shows.
Overview(u, w) ==
  [workspace |-> w, role |-> members[w][u],
   members |-> {v \in Wallet : Member(w, v) /\ members[w][v] # "owner"},
   pending |-> {i \in Invitation : Pending(i) /\ invites[i].workspace = w},
   mine |-> {i \in Invitation : Pending(i) /\ ~invites[i].due /\ invites[i].wallet = u},
   workspaces |-> {v \in Wallet : Member(v, u)}]

-----------------------------------------------------------------------------
Init ==
  \E scene \in Scenes :
    /\ challenges = [n \in Challenge |-> NoChallenge]
    /\ sessions = scene.sessions
    /\ named = [w \in Wallet |-> IF scene.members[w][w] = "owner" THEN w ELSE "none"]
    /\ members = scene.members
    /\ invites = scene.invites
    /\ audited = {}
    /\ acct = scene.acct
    /\ jar = scene.jar
    /\ chosen = [b \in Browser |-> IF scene.jar[b] = 0 THEN "none" ELSE scene.at]
    /\ page = [b \in Browser |-> IF scene.jar[b] = 0 THEN SignedOut ELSE
         [session |-> scene.acct[b], status |-> "connected", active |-> scene.acct[b],
          tried |-> TRUE, remembered |-> TRUE]]
    /\ shown = [b \in Browser |->
         IF scene.jar[b] = 0 THEN Nothing ELSE Overview(scene.acct[b], scene.at)]
    /\ req = [b \in Browser |-> Idle]
    /\ clear = [b \in Browser |-> NoClear]
    /\ ops = scene.ops

Goto(b, at) == req' = [req EXCEPT ![b].at = at]
Finish(b) == req' = [req EXCEPT ![b] = Idle]
Mine(b, op) == req[b].at = "idle" /\ op \in ops[b]
Status(b, status) == page' = [page EXCEPT ![b].status = status]

\* The page got an error, or no answer.
Fail(b) ==
  /\ Finish(b)
  /\ CASE req[b].op = "whoami" -> Status(b, "disconnected")
       [] req[b].op = "connect" -> Status(b, "error")
       [] OTHER -> UNCHANGED page

\* A page sends a request with the cookies of that moment.
Send(b, r) ==
  req' = [req EXCEPT ![b] = [r EXCEPT !.at = "auth", !.token = jar[b]]]

\* The workspace page loads again after a request that succeeded.
Reload(b) == Send(b, [Idle EXCEPT !.op = "load", !.workspace = chosen[b]])

-----------------------------------------------------------------------------
(* Signing in (connectWallet, WalletAuthService) *)

Connect(b) ==
  /\ Mine(b, "connect")
  /\ page[b].status \notin {"loading", "connecting", "signing"}
  /\ ~(page[b].session # "none" /\ page[b].status = "connected")
  /\ Status(b, "connecting")
  /\ req' = [req EXCEPT ![b] = [Idle EXCEPT !.op = "connect", !.token = jar[b],
       !.at = IF page[b].session # "none" THEN "delete" ELSE "prompt"]]
  /\ UNCHANGED <<tables, acct, jar, chosen, shown, clear, ops>>

Prompt(b) ==
  /\ req[b].at = "prompt"
  /\ \/ /\ page' = [page EXCEPT ![b].status = "signing", ![b].active = acct[b], ![b].remembered = TRUE]
        /\ req' = [req EXCEPT ![b].at = "challenge", ![b].wallet = acct[b]]
     \/ /\ page' = [page EXCEPT ![b].status = "wrong-network", ![b].active = acct[b], ![b].remembered = TRUE]
        /\ Finish(b)
     \/ Fail(b)
  /\ UNCHANGED <<tables, acct, jar, chosen, shown, clear, ops>>

CreateChallenge(b) ==
  /\ req[b].at = "challenge"
  /\ \E n \in Challenge :
       /\ challenges[n] = NoChallenge
       /\ challenges' = [challenges EXCEPT ![n].wallet = req[b].wallet]
       /\ req' = [req EXCEPT ![b].at = "sign", ![b].challenge = n]
  /\ UNCHANGED <<sessions, named, members, invites, audited, browser>>

SignMessage(b) ==
  /\ req[b].at = "sign"
  /\ \/ /\ challenges' = [challenges EXCEPT ![req[b].challenge].signed = TRUE]
        /\ Goto(b, "login") /\ UNCHANGED page
     \/ Fail(b) /\ UNCHANGED challenges
  /\ UNCHANGED <<sessions, named, members, invites, audited, acct, jar, chosen, shown, clear, ops>>

\* A sign-in is sent once more, by the network or from a page that was restored.
Resend(b) ==
  /\ Mine(b, "resend")
  /\ \E n \in Challenge, u \in Wallet :
       /\ challenges[n].signed
       /\ req' = [req EXCEPT ![b] = [Idle EXCEPT !.op = "connect", !.at = "login",
                                                 !.wallet = u, !.challenge = n]]
  /\ UNCHANGED <<tables, browser>>

Usable(n, u) ==
  LET offered == challenges[n] IN ~offered.used /\ ~offered.due /\ offered.wallet = u /\ offered.signed

\* createSession reads the challenge and the clock.
Login(b) ==
  /\ req[b].at = "login"
  /\ IF Usable(req[b].challenge, req[b].wallet) THEN Goto(b, "consume") /\ UNCHANGED page
     ELSE Fail(b)
  /\ UNCHANGED <<tables, acct, jar, chosen, shown, clear, ops>>

\* Mutant of Consumable: the UPDATE forgets used_at_unix IS NULL.
ConsumableAgain(n) == TRUE
Consumable(n) == ~challenges[n].used

\* consumeChallenge, with the clock Login read.
ConsumeChallenge(b) ==
  /\ req[b].at = "consume"
  /\ IF Consumable(req[b].challenge)
     THEN /\ challenges' = [challenges EXCEPT ![req[b].challenge].used = TRUE]
          /\ Goto(b, "mint") /\ UNCHANGED page
     ELSE Fail(b) /\ UNCHANGED challenges
  /\ UNCHANGED <<sessions, named, members, invites, audited, acct, jar, chosen, shown, clear, ops>>

CreateSession(b) ==
  /\ req[b].at = "mint"
  /\ \E t \in Session :
       /\ sessions[t] = NoSession
       /\ sessions' = [sessions EXCEPT ![t] =
            [wallet |-> req[b].wallet, state |-> "live", challenge |-> req[b].challenge]]
       /\ req' = [req EXCEPT ![b].at = "welcome", ![b].token = t]
  /\ UNCHANGED <<challenges, named, members, invites, audited, browser>>

SignedIn(b) ==
  /\ req[b].at = "welcome"
  /\ jar' = [jar EXCEPT ![b] = req[b].token]
  /\ page' = [page EXCEPT ![b].session = req[b].wallet, ![b].status = "connected"]
  /\ Finish(b)
  /\ UNCHANGED <<tables, acct, chosen, shown, clear, ops>>

ChallengeExpires(n) ==
  /\ challenges[n] # NoChallenge /\ ~challenges[n].due /\ ~challenges[n].used
  /\ challenges' = [challenges EXCEPT ![n].due = TRUE]
  /\ UNCHANGED <<sessions, named, members, invites, audited, browser, req>>

SessionExpires(t) ==
  /\ sessions[t].state = "live"
  /\ \E b \in Browser : "wait" \in ops[b]
  /\ sessions' = [sessions EXCEPT ![t].state = "expired"]
  /\ UNCHANGED <<challenges, named, members, invites, audited, browser, req>>

-----------------------------------------------------------------------------
(* Signing out *)

Revoked(t) == IF t = 0 THEN sessions ELSE [sessions EXCEPT ![t].state = "revoked"]

Disconnect(b) ==
  /\ Mine(b, "disconnect")
  /\ page[b].session # "none" /\ page[b].status = "connected"
  /\ req' = [req EXCEPT ![b] = [Idle EXCEPT !.op = "disconnect", !.at = "delete", !.token = jar[b]]]
  /\ UNCHANGED <<tables, browser>>

\* DELETE /api/auth/session at the server; it clears the cookie even when it fails.
Delete(b) ==
  /\ req[b].at = "delete"
  /\ \/ sessions' = Revoked(req[b].token) /\ Goto(b, "deleted")
     \/ UNCHANGED sessions /\ Goto(b, "deleted")
     \/ UNCHANGED sessions /\ Goto(b, "lost")
  /\ UNCHANGED <<challenges, named, members, invites, audited, browser>>

\* clearServerSession goes on whatever came back.
Deleted(b) ==
  /\ req[b].at \in {"deleted", "lost"}
  /\ jar' = [jar EXCEPT ![b] = IF req[b].at = "deleted" THEN 0 ELSE @]
  /\ shown' = [shown EXCEPT ![b] = Nothing]
  /\ IF req[b].op = "connect"
     THEN Goto(b, "prompt") /\ page' = [page EXCEPT ![b].session = "none"]
     ELSE Finish(b) /\ page' = [page EXCEPT ![b] = SignedOut]
  /\ UNCHANGED <<tables, acct, chosen, clear, ops>>

StartClear(b, why) ==
  clear' = [clear EXCEPT ![b] = [at |-> "sent", token |-> jar[b], why |-> why]]

\* Another account in the extension: the listener signs the page out.
ChangeAccount(b) ==
  /\ "account" \in ops[b]
  /\ \E u \in Account \ {acct[b]} :
       /\ acct' = [acct EXCEPT ![b] = u]
       /\ IF page[b].active # "none" /\ page[b].session \notin {"none", u} /\ clear[b] = NoClear
          THEN /\ StartClear(b, "listener")
               /\ page' = [page EXCEPT ![b].active = u, ![b].status = "disconnected"]
          ELSE UNCHANGED <<clear, page>>
  /\ UNCHANGED <<tables, jar, chosen, shown, req, ops>>

\* The silent reconnection of a page that was loaded with a session.
Reconnect(b) ==
  /\ page[b].session # "none" /\ page[b].active = "none" /\ ~page[b].tried
  /\ IF ~page[b].remembered
     THEN page' = [page EXCEPT ![b].tried = TRUE] /\ UNCHANGED clear
     ELSE IF acct[b] # page[b].session
     THEN page' = [page EXCEPT ![b].tried = TRUE] /\ StartClear(b, "reconnect")
     ELSE /\ \E status \in {"connected", "wrong-network"} :
               page' = [page EXCEPT ![b].tried = TRUE, ![b].active = acct[b], ![b].status = status]
          /\ UNCHANGED clear
  /\ UNCHANGED <<tables, acct, jar, chosen, shown, req, ops>>

ClearAtServer(b) ==
  /\ clear[b].at = "sent"
  /\ \/ sessions' = Revoked(clear[b].token) /\ clear' = [clear EXCEPT ![b].at = "deleted"]
     \/ UNCHANGED sessions /\ \E at \in {"deleted", "lost"} : clear' = [clear EXCEPT ![b].at = at]
  /\ UNCHANGED <<challenges, named, members, invites, audited, acct, jar, chosen, page, shown, ops, req>>

Cleared(b) ==
  /\ clear[b].at \in {"deleted", "lost"}
  /\ jar' = [jar EXCEPT ![b] = IF clear[b].at = "deleted" THEN 0 ELSE @]
  /\ shown' = [shown EXCEPT ![b] = Nothing]
  /\ page' = IF clear[b].why = "listener" THEN [page EXCEPT ![b].session = "none"]
             ELSE [page EXCEPT ![b].session = "none", ![b].active = acct[b],
                               ![b].status = "disconnected"]
  /\ clear' = [clear EXCEPT ![b] = NoClear]
  /\ UNCHANGED <<tables, acct, chosen, req, ops>>

\* The page is opened or reloaded and asks who it is signed in as.
OpenPage(b) ==
  /\ Mine(b, "reload") /\ clear[b] = NoClear
  /\ page' = [page EXCEPT ![b] = [SignedOut EXCEPT !.status = "loading", !.remembered = page[b].remembered]]
  /\ shown' = [shown EXCEPT ![b] = Nothing]
  /\ Send(b, [Idle EXCEPT !.op = "whoami", !.workspace = chosen[b]])
  /\ UNCHANGED <<tables, acct, jar, chosen, clear, ops>>

-----------------------------------------------------------------------------
(* Requests with a session (requireRawWalletSession, resolveWorkspaceIdentity) *)

NeedsContext(op) == op \in Paths \cup {"whoami", "load"}

\* authenticate, and the rate limit after it.
Authenticate(b) ==
  /\ req[b].at = "auth"
  /\ LET t == req[b].token IN
     IF t # 0 /\ sessions[t].state = "live"
     THEN /\ req' = [req EXCEPT ![b].wallet = sessions[t].wallet,
               ![b].at = IF NeedsContext(req[b].op) THEN "ensure"
                         ELSE IF req[b].op = "accept" THEN "accept" ELSE "access"]
          /\ UNCHANGED <<sessions, page>>
     ELSE /\ Fail(b)
          /\ sessions' = IF t # 0 /\ sessions[t].state = "expired" THEN Revoked(t) ELSE sessions
  /\ UNCHANGED <<challenges, named, members, invites, audited, acct, jar, chosen, shown, clear, ops>>

\* ensurePersonalWorkspace: the workspace, then its owner.
EnsureWorkspace(b) ==
  /\ req[b].at = "ensure"
  /\ named' = [named EXCEPT ![req[b].wallet] = IF @ = "none" THEN req[b].wallet ELSE @]
  /\ Goto(b, "enrol")
  /\ UNCHANGED <<challenges, sessions, members, invites, audited, browser>>

EnsureOwner(b) ==
  /\ req[b].at = "enrol"
  /\ LET u == req[b].wallet IN
     members' = [members EXCEPT ![u][u] = IF @ = "none" THEN "owner" ELSE @]
  /\ Goto(b, "list")
  /\ UNCHANGED <<challenges, sessions, named, invites, audited, browser>>

\* The workspaces listForWallet may put first.
First(u) ==
  {w \in Wallet : Member(w, u) /\ \A v \in Wallet : Member(v, u) => Rank(members[w][u]) <= Rank(members[v][u])}

ListWorkspaces(b) ==
  /\ req[b].at = "list"
  /\ \E w \in First(req[b].wallet) : req' = [req EXCEPT ![b].first = w, ![b].at = "select"]
  /\ UNCHANGED <<tables, browser>>

\* The workspace of the cookie, or the first one if the wallet is not in it.
Selected(b) ==
  LET r == req[b] IN
  IF r.workspace # "none" /\ Member(r.workspace, r.wallet) THEN r.workspace ELSE r.first

SelectWorkspace(b) ==
  /\ req[b].at = "select"
  /\ LET w == Selected(b)
         role == members[w][req[b].wallet]
     IN IF /\ RequiredPermission(req[b].op) \in Permissions(role)
           /\ SignerRequired(req[b].op) => w = req[b].wallet
        THEN /\ req' = [req EXCEPT ![b].workspace = w, ![b].role = role, ![b].at = "serve"]
             /\ UNCHANGED page
        ELSE Fail(b)
  /\ UNCHANGED <<tables, acct, jar, chosen, shown, clear, ops>>

\* The handler of another route: the components that model it.
ServePath(b) ==
  /\ req[b].at = "serve" /\ req[b].op \in Paths
  /\ Finish(b)
  /\ UNCHANGED <<tables, browser>>

\* GET /api/auth/session answers walletAddress: the workspace's signing wallet.
Identity(b) == req[b].workspace

WhoAmI(b) ==
  /\ req[b].at = "serve" /\ req[b].op = "whoami"
  /\ page' = [page EXCEPT ![b].session = Identity(b), ![b].status = "connected"]
  /\ Finish(b)
  /\ UNCHANGED <<tables, acct, jar, chosen, shown, clear, ops>>

\* GET /api/workspaces: the wallet's invitations that are over become expired.
LoadOverview(b) ==
  /\ req[b].at = "serve" /\ req[b].op = "load"
  /\ invites' = [i \in Invitation |->
       IF Pending(i) /\ invites[i].wallet = req[b].wallet /\ invites[i].due
       THEN [invites[i] EXCEPT !.status = "expired"] ELSE invites[i]]
  /\ Goto(b, "details")
  /\ UNCHANGED <<challenges, sessions, named, members, audited, browser>>

LoadDetails(b) ==
  /\ req[b].at = "details"
  /\ IF Member(req[b].workspace, req[b].wallet) /\ page[b].session # "none"
     THEN shown' = [shown EXCEPT ![b] = Overview(req[b].wallet, req[b].workspace)]
     ELSE UNCHANGED shown
  /\ Finish(b)
  /\ UNCHANGED <<tables, acct, jar, chosen, page, clear, ops>>

\* The handler dies, a statement fails, the rate limit refuses or the answer is lost.
Breaks(b) ==
  /\ req[b].at \notin {"idle", "prompt", "sign", "delete", "deleted", "lost"}
  /\ Fail(b)
  /\ UNCHANGED <<tables, acct, jar, chosen, shown, clear, ops>>

-----------------------------------------------------------------------------
(* The workspace page *)

Manages(b) == "members:manage" \in Permissions(shown[b].role)
OnPage(b, op) == Mine(b, op) /\ page[b].session # "none" /\ shown[b] # Nothing
AskTeam(b, op) == [Idle EXCEPT !.op = op, !.workspace = shown[b].workspace]

Click(b) ==
  /\ \/ /\ OnPage(b, "invite") /\ Manages(b)
        /\ \E u \in Wallet, role \in GivenRole :
             Send(b, [AskTeam(b, "invite") EXCEPT !.subject = u, !.role = role])
     \/ /\ OnPage(b, "role") /\ Manages(b)
        /\ \E u \in shown[b].members, role \in GivenRole :
             Send(b, [AskTeam(b, "role") EXCEPT !.subject = u, !.role = role])
     \/ /\ OnPage(b, "remove") /\ Manages(b)
        /\ \E u \in shown[b].members : Send(b, [AskTeam(b, "remove") EXCEPT !.subject = u])
     \/ /\ OnPage(b, "revoke") /\ Manages(b)
        /\ \E i \in shown[b].pending : Send(b, [AskTeam(b, "revoke") EXCEPT !.invite = i])
     \/ /\ OnPage(b, "accept")
        /\ \E i \in shown[b].mine : Send(b, [AskTeam(b, "accept") EXCEPT !.invite = i])
     \/ /\ OnPage(b, "rename") /\ "settings:write" \in Permissions(shown[b].role)
        /\ Send(b, AskTeam(b, "rename"))
     \/ /\ OnPage(b, "switch")
        /\ \E w \in shown[b].workspaces \ {shown[b].workspace} :
             Send(b, [AskTeam(b, "switch") EXCEPT !.workspace = w])
     \/ /\ Mine(b, "load") /\ page[b].session # "none"
        /\ Reload(b)
     \/ \E path \in Paths :
          /\ Mine(b, path) /\ page[b].session # "none"
          /\ Send(b, [Idle EXCEPT !.op = path, !.workspace = chosen[b]])
  /\ UNCHANGED <<tables, browser>>

\* getForMember: the role the rest of the handler goes by.
CheckAccess(b) ==
  /\ req[b].at = "access"
  /\ LET r == req[b] IN
     IF /\ TeamPermission(r.op) \in Permissions(members[r.workspace][r.wallet])
        /\ r.op \in {"invite", "remove"} => r.subject # r.workspace
     THEN Goto(b, r.op) /\ UNCHANGED page
     ELSE Fail(b)
  /\ UNCHANGED <<tables, acct, jar, chosen, shown, clear, ops>>

SwitchWorkspace(b) ==
  /\ req[b].at = "switch"
  /\ chosen' = [chosen EXCEPT ![b] = req[b].workspace]
  /\ req' = [req EXCEPT ![b] = [Idle EXCEPT !.op = "load", !.at = "auth", !.token = jar[b],
                                            !.workspace = req[b].workspace]]
  /\ UNCHANGED <<tables, acct, jar, page, shown, clear, ops>>

Rename(b) ==
  /\ req[b].at = "rename"
  /\ named' = [named EXCEPT ![req[b].workspace] = req[b].wallet]
  /\ Goto(b, "audit")
  /\ UNCHANGED <<challenges, sessions, members, invites, audited, browser>>

\* createInvitation: is the wallet a member, then the INSERT.
CheckInvited(b) ==
  /\ req[b].at = "invite"
  /\ IF Member(req[b].workspace, req[b].subject) THEN Fail(b) ELSE Goto(b, "insert") /\ UNCHANGED page
  /\ UNCHANGED <<tables, acct, jar, chosen, shown, clear, ops>>

PendingFor(w, u) == {i \in Invitation : Pending(i) /\ invites[i].workspace = w /\ invites[i].wallet = u}

InsertInvitation(b) ==
  /\ req[b].at = "insert"
  /\ LET r == req[b] IN
     IF PendingFor(r.workspace, r.subject) # {}
     THEN Fail(b) /\ UNCHANGED invites
     ELSE \E i \in Invitation :
            /\ invites[i] = NoInvite
            /\ invites' = [invites EXCEPT ![i] = [workspace |-> r.workspace, wallet |-> r.subject,
                             role |-> r.role, status |-> "pending", due |-> FALSE]]
            /\ req' = [req EXCEPT ![b].at = "audit", ![b].invite = i]
            /\ UNCHANGED page
  /\ UNCHANGED <<challenges, sessions, named, members, audited, acct, jar, chosen, shown, clear, ops>>

InvitationExpires(i) ==
  /\ Pending(i) /\ ~invites[i].due
  /\ invites' = [invites EXCEPT ![i].due = TRUE]
  /\ UNCHANGED <<challenges, sessions, named, members, audited, browser, req>>

\* acceptInvitation: one transaction, on the locked row.
Acceptable(i, u) == Pending(i) /\ ~invites[i].due /\ invites[i].wallet = u

AcceptInvitation(b) ==
  /\ req[b].at = "accept"
  /\ LET i == req[b].invite
         u == req[b].wallet
     IN IF Acceptable(i, u)
        THEN /\ members' = [members EXCEPT ![invites[i].workspace][u] = invites[i].role]
             /\ invites' = [invites EXCEPT ![i].status = "accepted"]
             /\ audited' = audited \cup {<<"joined", invites[i].workspace, u>>}
             /\ Reload(b) /\ UNCHANGED page
        ELSE Fail(b) /\ UNCHANGED <<members, invites, audited>>
  /\ UNCHANGED <<challenges, sessions, named, acct, jar, chosen, shown, clear, ops>>

\* updateMemberRole reads the row, then updates it unless it is the owner's.
ReadMember(b) ==
  /\ req[b].at = "role"
  /\ IF members[req[b].workspace][req[b].subject] \in {"none", "owner"}
     THEN Fail(b) ELSE Goto(b, "setRole") /\ UNCHANGED page
  /\ UNCHANGED <<tables, acct, jar, chosen, shown, clear, ops>>

\* Mutant of GivesRole: an upsert instead of the UPDATE.
GivesRoleAnyway(w, u) == members[w][u] # "owner"
GivesRole(w, u) == members[w][u] \notin {"none", "owner"}

SetRole(b) ==
  /\ req[b].at = "setRole"
  /\ LET w == req[b].workspace
         u == req[b].subject
     IN IF GivesRole(w, u)
        THEN /\ members' = [members EXCEPT ![w][u] = req[b].role]
             /\ Goto(b, "audit") /\ UNCHANGED page
        ELSE Fail(b) /\ UNCHANGED members
  /\ UNCHANGED <<challenges, sessions, named, invites, audited, acct, jar, chosen, shown, clear, ops>>

Removable(w, u) == members[w][u] \notin {"none", "owner"}

RemoveMember(b) ==
  /\ req[b].at = "remove"
  /\ LET w == req[b].workspace
         u == req[b].subject
     IN IF Removable(w, u)
        THEN /\ members' = [members EXCEPT ![w][u] = "none"]
             /\ Goto(b, "audit") /\ UNCHANGED page
        ELSE Fail(b) /\ UNCHANGED members
  /\ UNCHANGED <<challenges, sessions, named, invites, audited, acct, jar, chosen, shown, clear, ops>>

\* revokeInvitation reads the pending row, then updates it if it still is.
ReadInvitation(b) ==
  /\ req[b].at = "revoke"
  /\ IF Pending(req[b].invite) /\ invites[req[b].invite].workspace = req[b].workspace
     THEN Goto(b, "setRevoked") /\ UNCHANGED page ELSE Fail(b)
  /\ UNCHANGED <<tables, acct, jar, chosen, shown, clear, ops>>

\* Mutant of StillPending: the UPDATE relies on the row that was read.
WasPending(i) == TRUE
StillPending(i) == Pending(i)

RevokeInvitation(b) ==
  /\ req[b].at = "setRevoked"
  /\ IF StillPending(req[b].invite)
     THEN /\ invites' = [invites EXCEPT ![req[b].invite].status = "revoked"]
          /\ Goto(b, "audit") /\ UNCHANGED page
     ELSE Fail(b) /\ UNCHANGED invites
  /\ UNCHANGED <<challenges, sessions, named, members, audited, acct, jar, chosen, shown, clear, ops>>

\* The audit row is a statement of its own, after the change.
Audit(b) ==
  /\ req[b].at = "audit"
  /\ audited' = audited \cup {<<req[b].op, req[b].workspace, req[b].subject>>}
  /\ Reload(b)
  /\ UNCHANGED <<challenges, sessions, named, members, invites, browser>>

-----------------------------------------------------------------------------
SignIn(b) ==
  \/ Connect(b) \/ Prompt(b) \/ CreateChallenge(b) \/ SignMessage(b) \/ Resend(b)
  \/ Login(b) \/ ConsumeChallenge(b) \/ CreateSession(b) \/ SignedIn(b)
SignOut(b) ==
  \/ Disconnect(b) \/ Delete(b) \/ Deleted(b) \/ ChangeAccount(b) \/ Reconnect(b)
  \/ ClearAtServer(b) \/ Cleared(b) \/ OpenPage(b)
Resolve(b) ==
  \/ Authenticate(b) \/ EnsureWorkspace(b) \/ EnsureOwner(b) \/ ListWorkspaces(b)
  \/ SelectWorkspace(b) \/ ServePath(b) \/ WhoAmI(b) \/ LoadOverview(b) \/ LoadDetails(b)
  \/ Breaks(b)
Manage(b) ==
  \/ Click(b) \/ CheckAccess(b) \/ SwitchWorkspace(b) \/ Rename(b)
  \/ CheckInvited(b) \/ InsertInvitation(b) \/ AcceptInvitation(b) \/ ReadMember(b)
  \/ SetRole(b) \/ RemoveMember(b) \/ ReadInvitation(b) \/ RevokeInvitation(b) \/ Audit(b)

Next ==
  \/ \E b \in Browser : SignIn(b) \/ SignOut(b) \/ Resolve(b) \/ Manage(b)
  \/ \E n \in Challenge : ChallengeExpires(n)
  \/ \E t \in Session : SessionExpires(t)
  \/ \E i \in Invitation : InvitationExpires(i)

Spec == Init /\ [][Next]_vars

-----------------------------------------------------------------------------
(* Every row, cookie, page and request has the shape the code gives it. *)
TypeOK ==
  /\ challenges \in [Challenge -> [wallet : Wallet \cup {"none"}, signed : BOOLEAN,
                                   used : BOOLEAN, due : BOOLEAN]]
  /\ sessions \in [Session -> [wallet : Wallet \cup {"none"}, challenge : 0..MaxChallenge,
                               state : {"none", "live", "expired", "revoked"}]]
  /\ members \in [Wallet -> [Wallet -> Role \cup {"none"}]]
  /\ \A i \in Invitation : /\ invites[i].role \in GivenRole \cup {"none"}
                           /\ invites[i].status \in {"none", "pending", "accepted", "revoked", "expired"}
  /\ \A b \in Browser : jar[b] \in 0..MaxSession /\ (jar[b] # 0 => sessions[jar[b]] # NoSession)
  /\ acct \in [Browser -> Wallet]
  /\ \A b \in Browser : req[b].at \notin {"idle", "prompt", "delete", "deleted", "lost", "auth", "challenge"}
                          => req[b].wallet \in Wallet

(* Whatever the team does to itself, the wallet that signs for a workspace  *)
(* stays its owner and stays the only one: invitations accepted over a      *)
(* membership, role changes and removals from pages that are out of date.   *)
SignersOwnTheirWorkspace ==
  \A w, u \in Wallet : Member(w, u) => /\ members[w][w] = "owner"
                                      /\ (u # w => members[w][u] # "owner")

(* A wallet gets into a workspace of another one only by accepting an       *)
(* invitation that is pending at that moment, with the role it names: never *)
(* by a role change that overtook its removal, nor by an old invitation.    *)
JoinsAreInvited ==
  [][\A w, u \in Wallet :
       w # u /\ ~Member(w, u) /\ members'[w][u] # "none" =>
         \E i \in Invitation :
           /\ Acceptable(i, u) /\ invites[i].workspace = w
           /\ invites'[i].status = "accepted" /\ members'[w][u] = invites[i].role]_vars

(* An invitation is settled once: what was accepted is not revoked later by *)
(* a request that read it before, and what was revoked or ran out is not    *)
(* accepted.                                                                *)
InvitationsSettleOnce ==
  [][\A i \in Invitation :
       invites[i].status \in {"accepted", "revoked", "expired"} => invites'[i] = invites[i]]_vars

(* One signature buys one session, for the wallet that signed: however      *)
(* often and from wherever the sign-in is sent.                             *)
OneSessionPerSignature ==
  \A t \in Session : sessions[t].challenge # 0 =>
    LET signature == challenges[sessions[t].challenge] IN
    /\ signature.signed /\ signature.used /\ signature.wallet = sessions[t].wallet
    /\ \A s \in Session \ {t} : sessions[s].challenge # sessions[t].challenge

(* wallet-identity.tsx: a page whose session the silent reconnection ends   *)
(* says "Your wallet account changed".                                      *)
SignedOutForAnotherAccount ==
  [][\A b \in Browser :
       clear[b] = NoClear /\ clear'[b].why = "reconnect" /\ jar[b] # 0 =>
         acct[b] # sessions[jar[b]].wallet]_vars
=============================================================================
