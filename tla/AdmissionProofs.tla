--------------------------- MODULE AdmissionProofs ---------------------------
(***************************************************************************)
(* Proofs about what stands between a browser and every handler.  Access,  *)
(* for any wallets, browsers and scenes: sessions are bought by one        *)
(* signature each, and a team changes only by what its members were        *)
(* allowed to do.  MutationGuard, for any number of workers, keys, request *)
(* fingerprints and resources, with faults or without: a resource has one  *)
(* handler at a time, and a key one answer.                                *)
(***************************************************************************)
EXTENDS Access, MutationGuard, FiniteSetTheorems, TLAPS

-----------------------------------------------------------------------------
(* Types. *)

At == {"idle", "prompt", "challenge", "sign", "login", "consume", "mint", "welcome", "delete",
       "deleted", "lost", "auth", "ensure", "enrol", "list", "select", "serve", "details",
       "access", "insert", "setRole", "setRevoked", "audit"} \cup TeamOps
Op == {"none", "connect", "disconnect", "whoami", "load"} \cup TeamOps \cup Paths
Name == Wallet \cup {"none"}

ChallengeType == [wallet : Name, signed : BOOLEAN, used : BOOLEAN, due : BOOLEAN]
SessionType == [wallet : Name, challenge : 0..MaxChallenge,
                state : {"none", "live", "expired", "revoked"}]
InviteType == [workspace : Name, wallet : Name, role : GivenRole \cup {"none"}, due : BOOLEAN,
               status : {"none", "pending", "accepted", "revoked", "expired"}]
OverviewType == [workspace : Wallet, role : Role \cup {"none"}, members : SUBSET Wallet,
                 pending : SUBSET Invitation, mine : SUBSET Invitation,
                 workspaces : SUBSET Wallet]
RequestType == [op : Op, at : At, token : 0..MaxSession, wallet : Name,
                challenge : 0..MaxChallenge, workspace : Name, role : Role \cup {"none"},
                subject : Name, invite : 0..MaxInvite, first : Name]

\* The places of a request that knows its wallet.
Known == {"challenge", "sign", "login", "consume", "mint", "welcome", "ensure", "enrol", "list",
          "select", "serve", "details", "access", "insert", "setRole", "setRevoked", "audit"}
         \cup TeamOps

\* Where a request is says what it asks, and what it carries.
ControlledAt(r, at) ==
  /\ at \in Known => r.wallet \in Wallet
  /\ at \in {"sign", "login", "consume", "mint", "welcome"} => r.challenge \in Challenge
  /\ at \in {"ensure", "enrol", "list", "select", "serve", "details"} => NeedsContext(r.op)
  /\ at = "auth" => NeedsContext(r.op) \/ r.op \in TeamOps
  /\ at = "select" => r.first \in Wallet
  /\ at \in {"serve", "details"} \/ r.op \in TeamOps => r.workspace \in Wallet
  /\ at \in {"access", "audit"} => r.op \in TeamOps
  /\ at \in TeamOps => r.op = at
  /\ at = "insert" => r.op = "invite"
  /\ at = "setRole" => r.op = "role"
  /\ at = "setRevoked" => r.op = "revoke"
  /\ r.op \in {"invite", "role"} => r.role \in GivenRole
  /\ r.op \in {"invite", "role", "remove"} => r.subject \in Wallet
  /\ r.op = "accept" => r.invite \in Invitation
Controlled(r) == ControlledAt(r, r.at)

Typed ==
  /\ challenges \in [Challenge -> ChallengeType]
  /\ sessions \in [Session -> SessionType]
  /\ members \in [Wallet -> [Wallet -> Role \cup {"none"}]]
  /\ invites \in [Invitation -> InviteType]
  /\ acct \in [Browser -> Wallet] /\ jar \in [Browser -> 0..MaxSession]
  /\ chosen \in [Browser -> Name]
  /\ shown \in [Browser -> {Nothing} \cup OverviewType]
  /\ req \in [Browser -> RequestType] /\ \A b \in Browser : Controlled(req[b])

-----------------------------------------------------------------------------
(* The inductive invariant. *)

\* A live session has a wallet.
LiveSessions == \A t \in Session : sessions[t].state = "live" => sessions[t].wallet \in Wallet

\* Cookies and answers name sessions that were created.
Cookies == /\ \A b \in Browser : jar[b] # 0 => sessions[jar[b]].state # "none"
           /\ \A b \in Browser : req[b].at = "welcome" => req[b].token \in Session /\ sessions[req[b].token].state # "none"

\* The workspaces that have an owner.
Owned(w) == w \in Wallet /\ members[w][w] = "owner"

\* A pending invitation is to the workspace of somebody else, which has its owner.
Invited == \A i \in Invitation : Pending(i) =>
             /\ Owned(invites[i].workspace) /\ invites[i].workspace # invites[i].wallet
             /\ invites[i].role \in GivenRole

\* So will be the ones that are being made.
Inviting == \A b \in Browser : req[b].at \in {"invite", "insert"} =>
              Owned(req[b].workspace) /\ req[b].subject # req[b].workspace

\* A signature is on its way to its session: it is good, and once it is spent
\* no session and no other request has it.
Signing ==
  \A b \in Browser :
    LET signature == challenges[req[b].challenge] IN
    /\ req[b].at \in {"consume", "mint"} => signature.signed /\ signature.wallet = req[b].wallet
    /\ req[b].at = "mint" =>
         /\ signature.used
         /\ \A t \in Session : sessions[t].challenge # req[b].challenge
         /\ \A d \in Browser \ {b} : req[d].at = "mint" => req[d].challenge # req[b].challenge

AccessInv == /\ Typed /\ LiveSessions /\ Cookies /\ SignersOwnTheirWorkspace /\ Invited
             /\ Inviting /\ Signing /\ OneSessionPerSignature

-----------------------------------------------------------------------------
(* What a step does to the requests. *)

\* The places where a request holds something that others may take from it.
Critical == {"invite", "insert", "consume", "mint", "welcome"}
Advances(b) == \/ CheckAccess(b) \/ CheckInvited(b)
               \/ Login(b) \/ ConsumeChallenge(b) \/ CreateSession(b)

\* One browser's request becomes another one.
Moves(b) == \E n \in RequestType :
              /\ Controlled(n) /\ req' = [req EXCEPT ![b] = n]
              /\ n.at \in Critical => Advances(b)

\* An idle request, and what the constants are made of.
LEMMA IdleTyped ==
  /\ Idle \in RequestType /\ Controlled(Idle) /\ Idle.at = "idle" /\ Idle.at \notin Critical
  /\ TeamOps \subseteq At /\ TeamOps \subseteq Op /\ Paths \subseteq Op
  /\ GivenRole \subseteq Role /\ "none" \notin Role
  /\ Wallet \subseteq Name /\ "none" \notin Wallet /\ Invitation \subseteq 0..MaxInvite
  /\ Challenge \subseteq 0..MaxChallenge /\ Session \subseteq 0..MaxSession
<1>1. {MaxChallenge, MaxSession, MaxInvite} \subseteq Nat \ {0} /\ "none" \notin Wallet
  BY AccessAssumption
<1>2. /\ 0 \in 0..MaxSession /\ 0 \in 0..MaxChallenge /\ 0 \in 0..MaxInvite
      /\ Invitation \subseteq 0..MaxInvite
      /\ Challenge \subseteq 0..MaxChallenge /\ Session \subseteq 0..MaxSession
  BY <1>1 DEF Invitation, Challenge, Session
<1>3. "idle" \in At /\ "none" \in Op /\ "none" \in Name
  BY DEF At, Op, Name
<1>4. Idle \in RequestType
  BY <1>2, <1>3 DEF Idle, RequestType
<1>5. Controlled(Idle)
  BY DEF Idle, Controlled, ControlledAt, Known, TeamOps, NeedsContext, Paths
<1>6. Idle.at = "idle" /\ Idle.at \notin Critical
  BY DEF Idle, Critical
<1>7. /\ TeamOps \subseteq At /\ TeamOps \subseteq Op /\ Paths \subseteq Op
      /\ GivenRole \subseteq Role /\ "none" \notin Role
      /\ Wallet \subseteq Name
  BY DEF At, Op, Role, GivenRole, Name
<1> QED
  BY <1>1, <1>2, <1>4, <1>5, <1>6, <1>7

\* A request that ends leaves its page idle.
LEMMA Finishes ==
  ASSUME NEW b \in Browser, Finish(b) \/ Fail(b)
  PROVE  Moves(b)
<1>1. req' = [req EXCEPT ![b] = Idle]
  BY DEF Finish, Fail
<1> QED
  BY <1>1, IdleTyped DEF Moves

\* A request that goes on keeps all of its fields but its place.
LEMMA GoesOn ==
  ASSUME Typed, NEW b \in Browser, NEW at \in At, Goto(b, at)
  PROVE  \E n \in RequestType :
           /\ req' = [req EXCEPT ![b] = n] /\ n = [req[b] EXCEPT !.at = at]
           /\ n.at = at /\ n.op = req[b].op /\ n.token = req[b].token
           /\ n.wallet = req[b].wallet /\ n.challenge = req[b].challenge
           /\ n.workspace = req[b].workspace /\ n.role = req[b].role
           /\ n.subject = req[b].subject /\ n.invite = req[b].invite /\ n.first = req[b].first
<1> DEFINE n == [req[b] EXCEPT !.at = at]
<1>1. req[b] \in RequestType /\ req \in [Browser -> RequestType]
  BY DEF Typed
<1>2. req' = [req EXCEPT ![b] = n]
  BY DEF Goto
<1>3. n \in RequestType
  BY <1>1 DEF RequestType
<1>4. /\ n.at = at /\ n.op = req[b].op /\ n.token = req[b].token
      /\ n.wallet = req[b].wallet /\ n.challenge = req[b].challenge
      /\ n.workspace = req[b].workspace /\ n.role = req[b].role
      /\ n.subject = req[b].subject /\ n.invite = req[b].invite /\ n.first = req[b].first
  BY <1>1 DEF RequestType
<1> QED
  BY <1>2, <1>3, <1>4

\* A request that goes where it may go moves.
LEMMA Goes ==
  ASSUME Typed, NEW b \in Browser, NEW at \in At, Goto(b, at), ControlledAt(req[b], at),
         at \in Critical => Advances(b)
  PROVE  Moves(b)
<1>1. PICK n \in RequestType :
        /\ req' = [req EXCEPT ![b] = n]
        /\ n.at = at /\ n.op = req[b].op
        /\ n.wallet = req[b].wallet /\ n.challenge = req[b].challenge
        /\ n.workspace = req[b].workspace /\ n.role = req[b].role
        /\ n.subject = req[b].subject /\ n.invite = req[b].invite /\ n.first = req[b].first
  BY GoesOn
<1>2. Controlled(n)
  BY <1>1 DEF Controlled, ControlledAt
<1> QED
  BY <1>1, <1>2 DEF Moves

\* What a page sends carries the cookies of that moment.
LEMMA Sends ==
  ASSUME Typed, NEW b \in Browser, NEW r \in RequestType, Send(b, r), ControlledAt(r, "auth")
  PROVE  Moves(b)
<1> DEFINE n == [r EXCEPT !.at = "auth", !.token = jar[b]]
<1>1. jar[b] \in 0..MaxSession /\ "auth" \in At
  BY DEF Typed, At
<1>2. req' = [req EXCEPT ![b] = n]
  BY DEF Send
<1>3. n \in RequestType
  BY <1>1 DEF RequestType
<1>4. /\ n.at = "auth" /\ n.op = r.op /\ n.wallet = r.wallet /\ n.challenge = r.challenge
      /\ n.workspace = r.workspace /\ n.role = r.role /\ n.subject = r.subject
      /\ n.invite = r.invite /\ n.first = r.first
  BY DEF RequestType
<1> HIDE DEF n
<1>5. Controlled(n)
  BY <1>4 DEF Controlled, ControlledAt
<1> QED
  BY <1>2, <1>3, <1>4, <1>5 DEF Moves, Critical

\* A request for a route of its own, or for the overview.
LEMMA Asks ==
  ASSUME Typed, NEW b \in Browser, NEW op \in {"whoami", "load"} \cup Paths,
         Send(b, [Idle EXCEPT !.op = op, !.workspace = chosen[b]])
  PROVE  Moves(b)
<1> DEFINE r == [Idle EXCEPT !.op = op, !.workspace = chosen[b]]
<1>1. chosen[b] \in Name /\ op \in Op
  BY DEF Typed, Op
<1>2. r \in RequestType /\ r.op = op
  BY <1>1, IdleTyped DEF RequestType, Idle
<1>3. ControlledAt(r, "auth")
  BY <1>2 DEF ControlledAt, Known, TeamOps, Paths, NeedsContext
<1> QED
  BY <1>2, <1>3, Sends

\* The places of a sign-in.
LEMMA SignInMoves ==
  ASSUME Typed, NEW b \in Browser, SignIn(b)
  PROVE  Moves(b)
<1>0. /\ req \in [Browser -> RequestType] /\ req[b] \in RequestType /\ Controlled(req[b])
      /\ jar[b] \in 0..MaxSession /\ acct[b] \in Wallet
      /\ challenges \in [Challenge -> ChallengeType]
  BY DEF Typed
<1>1. ASSUME Connect(b) PROVE Moves(b)
  <2> DEFINE to == IF page[b].session # "none" THEN "delete" ELSE "prompt"
             n == [Idle EXCEPT !.op = "connect", !.token = jar[b], !.at = to]
  <2>1. req' = [req EXCEPT ![b] = n]
    BY <1>1 DEF Connect
  <2>2. to \in {"delete", "prompt"} /\ to \in At /\ "connect" \in Op
    BY DEF At, Op
  <2> HIDE DEF to
  <2>3. n \in RequestType /\ n.op = "connect" /\ n.at = to
    BY <1>0, <2>2, IdleTyped DEF RequestType, Idle
  <2> HIDE DEF n
  <2>4. Controlled(n)
    BY <2>2, <2>3 DEF Controlled, ControlledAt, Known, TeamOps
  <2> QED
    BY <2>1, <2>2, <2>3, <2>4 DEF Moves, Critical
<1>2. ASSUME Prompt(b) PROVE Moves(b)
  <2>1. CASE req' = [req EXCEPT ![b].at = "challenge", ![b].wallet = acct[b]]
    <3> DEFINE n == [req[b] EXCEPT !.at = "challenge", !.wallet = acct[b]]
    <3>1. req' = [req EXCEPT ![b] = n]
      BY <1>0, <2>1
    <3>2. n \in RequestType /\ n.at = "challenge" /\ n.wallet = acct[b] /\ n.op = req[b].op
          /\ n.role = req[b].role /\ n.workspace = req[b].workspace /\ n.invite = req[b].invite
          /\ n.subject = req[b].subject
      BY <1>0, IdleTyped DEF RequestType, At
    <3> HIDE DEF n
    <3>3. Controlled(n)
      BY <1>0, <3>2 DEF Controlled, ControlledAt, TeamOps
    <3> QED
      BY <3>1, <3>2, <3>3 DEF Moves, Critical
  <2> QED
    BY <1>2, <2>1, Finishes DEF Prompt
<1>3. ASSUME CreateChallenge(b) PROVE Moves(b)
  <2>1. PICK c \in Challenge : req' = [req EXCEPT ![b].at = "sign", ![b].challenge = c]
    BY <1>3 DEF CreateChallenge
  <2> DEFINE n == [req[b] EXCEPT !.at = "sign", !.challenge = c]
  <2>2. req' = [req EXCEPT ![b] = n] /\ req[b].at = "challenge"
    BY <1>0, <1>3, <2>1 DEF CreateChallenge
  <2>3. n \in RequestType /\ n.at = "sign" /\ n.challenge = c /\ n.op = req[b].op
        /\ n.wallet = req[b].wallet
        /\ n.role = req[b].role /\ n.workspace = req[b].workspace /\ n.invite = req[b].invite
        /\ n.subject = req[b].subject
    BY <1>0, IdleTyped DEF RequestType, At
  <2> HIDE DEF n
  <2>4. Controlled(n)
    BY <1>0, <2>2, <2>3 DEF Controlled, ControlledAt, TeamOps, Known
  <2> QED
    BY <2>2, <2>3, <2>4 DEF Moves, Critical
<1>4. ASSUME SignMessage(b) PROVE Moves(b)
  <2>1. CASE Goto(b, "login") /\ req[b].at = "sign"
    <3>1. ControlledAt(req[b], "login")
      BY <1>0, <2>1 DEF Controlled, ControlledAt, TeamOps, Known
    <3> QED
      BY <2>1, <3>1, Goes DEF At, Critical
  <2> QED
    BY <1>4, <2>1, Finishes DEF SignMessage
<1>5. ASSUME Resend(b) PROVE Moves(b)
  <2>1. PICK c \in Challenge, u \in Wallet :
          req' = [req EXCEPT ![b] = [Idle EXCEPT !.op = "connect", !.at = "login",
                                                 !.wallet = u, !.challenge = c]]
    BY <1>5 DEF Resend
  <2> DEFINE n == [Idle EXCEPT !.op = "connect", !.at = "login", !.wallet = u, !.challenge = c]
  <2>2. n \in RequestType /\ n.op = "connect" /\ n.at = "login" /\ n.challenge = c /\ n.wallet = u
    BY IdleTyped DEF RequestType, Idle, At, Op
  <2> HIDE DEF n
  <2>3. Controlled(n)
    BY <2>2 DEF Controlled, ControlledAt, Known, TeamOps
  <2> QED
    BY <2>1, <2>2, <2>3 DEF Moves, Critical, n
<1>6. ASSUME Login(b) PROVE Moves(b)
  <2>1. CASE Goto(b, "consume") /\ req[b].at = "login"
    <3>1. ControlledAt(req[b], "consume")
      BY <1>0, <2>1 DEF Controlled, ControlledAt, TeamOps, Known
    <3> QED
      BY <1>6, <2>1, <3>1, Goes DEF At, Advances
  <2> QED
    BY <1>6, <2>1, Finishes DEF Login
<1>7. ASSUME ConsumeChallenge(b) PROVE Moves(b)
  <2>1. CASE Goto(b, "mint") /\ req[b].at = "consume"
    <3>1. ControlledAt(req[b], "mint")
      BY <1>0, <2>1 DEF Controlled, ControlledAt, TeamOps, Known
    <3> QED
      BY <1>7, <2>1, <3>1, Goes DEF At, Advances
  <2> QED
    BY <1>7, <2>1, Finishes DEF ConsumeChallenge
<1>8. ASSUME CreateSession(b) PROVE Moves(b)
  <2>1. PICK t \in Session : req' = [req EXCEPT ![b].at = "welcome", ![b].token = t]
    BY <1>8 DEF CreateSession
  <2> DEFINE n == [req[b] EXCEPT !.at = "welcome", !.token = t]
  <2>2. req' = [req EXCEPT ![b] = n] /\ req[b].at = "mint"
    BY <1>0, <1>8, <2>1 DEF CreateSession
  <2>3. n \in RequestType /\ n.at = "welcome" /\ n.challenge = req[b].challenge /\ n.op = req[b].op
        /\ n.wallet = req[b].wallet
        /\ n.role = req[b].role /\ n.workspace = req[b].workspace /\ n.invite = req[b].invite
        /\ n.subject = req[b].subject
    BY <1>0, IdleTyped DEF RequestType, At
  <2> HIDE DEF n
  <2>4. Controlled(n)
    BY <1>0, <2>2, <2>3 DEF Controlled, ControlledAt, TeamOps, Known
  <2> QED
    BY <1>8, <2>2, <2>3, <2>4 DEF Moves, Advances
<1>9. ASSUME SignedIn(b) PROVE Moves(b)
  BY <1>9, Finishes DEF SignedIn
<1> QED
  BY <1>1, <1>2, <1>3, <1>4, <1>5, <1>6, <1>7, <1>8, <1>9 DEF SignIn

\* Signing out, and the page that is opened.
LEMMA SignOutMoves ==
  ASSUME Typed, NEW b \in Browser, SignOut(b)
  PROVE  Moves(b) \/ req' = req
<1>0. /\ req \in [Browser -> RequestType] /\ req[b] \in RequestType /\ Controlled(req[b])
      /\ jar[b] \in 0..MaxSession
  BY DEF Typed
<1>1. ASSUME Disconnect(b) PROVE Moves(b)
  <2> DEFINE n == [Idle EXCEPT !.op = "disconnect", !.at = "delete", !.token = jar[b]]
  <2>1. req' = [req EXCEPT ![b] = n]
    BY <1>1 DEF Disconnect
  <2>2. n \in RequestType /\ n.op = "disconnect" /\ n.at = "delete"
    BY <1>0, IdleTyped DEF RequestType, Idle, At, Op
  <2> HIDE DEF n
  <2>3. Controlled(n)
    BY <2>2 DEF Controlled, ControlledAt, Known, TeamOps
  <2> QED
    BY <2>1, <2>2, <2>3 DEF Moves, Critical
<1>2. ASSUME Delete(b) PROVE Moves(b)
  <2>1. PICK at \in {"deleted", "lost"} : Goto(b, at) /\ req[b].at = "delete"
    BY <1>2 DEF Delete
  <2>2. ControlledAt(req[b], at)
    BY <1>0, <2>1 DEF Controlled, ControlledAt, TeamOps, Known
  <2> QED
    BY <2>1, <2>2, Goes DEF At, Critical
<1>3. ASSUME Deleted(b) PROVE Moves(b)
  <2>1. CASE Goto(b, "prompt") /\ req[b].at \in {"deleted", "lost"}
    <3>1. ControlledAt(req[b], "prompt")
      BY <1>0, <2>1 DEF Controlled, ControlledAt, TeamOps, Known
    <3> QED
      BY <2>1, <3>1, Goes DEF At, Critical
  <2> QED
    BY <1>3, <2>1, Finishes DEF Deleted
<1>4. ASSUME OpenPage(b) PROVE Moves(b)
  BY <1>4, Asks DEF OpenPage
<1>5. ASSUME ChangeAccount(b) \/ Reconnect(b) \/ ClearAtServer(b) \/ Cleared(b)
      PROVE  req' = req
  BY <1>5 DEF ChangeAccount, Reconnect, ClearAtServer, Cleared
<1> QED
  BY <1>1, <1>2, <1>3, <1>4, <1>5 DEF SignOut

\* A request that is authenticated and finds its workspace.
LEMMA ResolveMoves ==
  ASSUME Typed, LiveSessions, NEW b \in Browser, Resolve(b)
  PROVE  Moves(b)
<1>0. /\ req \in [Browser -> RequestType] /\ req[b] \in RequestType /\ Controlled(req[b])
      /\ sessions \in [Session -> SessionType]
      /\ members \in [Wallet -> [Wallet -> Role \cup {"none"}]]
  BY DEF Typed
<1>1. ASSUME Authenticate(b) PROVE Moves(b)
  <2> DEFINE t == req[b].token
             to == IF NeedsContext(req[b].op) THEN "ensure"
                   ELSE IF req[b].op = "accept" THEN "accept" ELSE "access"
             n == [req[b] EXCEPT !.wallet = sessions[t].wallet, !.at = to]
  <2>1. CASE t # 0 /\ sessions[t].state = "live"
    <3>1. sessions[t].wallet \in Wallet
      <4>1. t \in Session
        BY <1>0, <2>1, AccessAssumption DEF RequestType, Session
      <4> QED
        BY <2>1, <4>1 DEF LiveSessions
    <3>2. req' = [req EXCEPT ![b].wallet = sessions[t].wallet, ![b].at = to]
      BY <1>1, <2>1 DEF Authenticate
    <3>3. req' = [req EXCEPT ![b] = n]
      BY <1>0, <3>2
    <3>4. to \in At /\ to \in {"ensure", "accept", "access"}
      BY DEF At, TeamOps
    <3>5. /\ to = "ensure" => NeedsContext(req[b].op)
          /\ to = "accept" => req[b].op = "accept"
          /\ to = "access" => ~NeedsContext(req[b].op) /\ req[b].op # "accept"
      OBVIOUS
    <3> HIDE DEF to
    <3>6. /\ n \in RequestType /\ n.at = to /\ n.wallet = sessions[t].wallet /\ n.op = req[b].op
          /\ n.role = req[b].role /\ n.workspace = req[b].workspace /\ n.invite = req[b].invite
          /\ n.subject = req[b].subject
      BY <1>0, <3>1, <3>4, IdleTyped DEF RequestType
    <3> HIDE DEF n
    <3>7. to = "access" => req[b].op \in TeamOps
      BY <1>0, <1>1, <3>5 DEF Authenticate, Controlled, ControlledAt
    <3>8. Controlled(n)
      BY <1>0, <3>1, <3>4, <3>5, <3>6, <3>7 DEF Controlled, ControlledAt, TeamOps, NeedsContext, Paths
    <3> QED
      BY <3>3, <3>4, <3>6, <3>8 DEF Moves, Critical
  <2> QED
    BY <1>1, <2>1, Finishes DEF Authenticate
<1>2. ASSUME EnsureWorkspace(b) PROVE Moves(b)
  <2>1. Goto(b, "enrol") /\ req[b].at = "ensure"
    BY <1>2 DEF EnsureWorkspace
  <2>2. ControlledAt(req[b], "enrol")
    BY <1>0, <2>1 DEF Controlled, ControlledAt, TeamOps, Known
  <2> QED
    BY <2>1, <2>2, Goes DEF At, Critical
<1>3. ASSUME EnsureOwner(b) PROVE Moves(b)
  <2>1. Goto(b, "list") /\ req[b].at = "enrol"
    BY <1>3 DEF EnsureOwner
  <2>2. ControlledAt(req[b], "list")
    BY <1>0, <2>1 DEF Controlled, ControlledAt, TeamOps, Known
  <2> QED
    BY <2>1, <2>2, Goes DEF At, Critical
<1>4. ASSUME ListWorkspaces(b) PROVE Moves(b)
  <2>1. PICK w \in Wallet : req' = [req EXCEPT ![b].first = w, ![b].at = "select"]
    BY <1>4 DEF ListWorkspaces, First
  <2> DEFINE n == [req[b] EXCEPT !.first = w, !.at = "select"]
  <2>2. req' = [req EXCEPT ![b] = n] /\ req[b].at = "list"
    BY <1>0, <1>4, <2>1 DEF ListWorkspaces
  <2>3. n \in RequestType /\ n.at = "select" /\ n.first = w /\ n.op = req[b].op
        /\ n.wallet = req[b].wallet
        /\ n.role = req[b].role /\ n.workspace = req[b].workspace /\ n.invite = req[b].invite
        /\ n.subject = req[b].subject
    BY <1>0, IdleTyped DEF RequestType, At
  <2> HIDE DEF n
  <2>4. Controlled(n)
    BY <1>0, <2>2, <2>3 DEF Controlled, ControlledAt, TeamOps, Known
  <2> QED
    BY <2>2, <2>3, <2>4 DEF Moves, Critical
<1>5. ASSUME SelectWorkspace(b) PROVE Moves(b)
  <2> DEFINE w == Selected(b)
             role == members[w][req[b].wallet]
             n == [req[b] EXCEPT !.workspace = w, !.role = role, !.at = "serve"]
  <2>1. CASE req' = [req EXCEPT ![b].workspace = w, ![b].role = role, ![b].at = "serve"]
    <3>1. req[b].at = "select" /\ req[b].wallet \in Wallet /\ req[b].first \in Wallet
          /\ NeedsContext(req[b].op)
      BY <1>0, <1>5 DEF SelectWorkspace, Controlled, ControlledAt, Known
    <3>2. w \in Wallet
      BY <1>0, <3>1 DEF Selected, RequestType, Name
    <3>3. role \in Role \cup {"none"}
      BY <1>0, <3>1, <3>2
    <3>4. req' = [req EXCEPT ![b] = n]
      BY <1>0, <2>1
    <3> HIDE DEF w, role
    <3>5. n \in RequestType /\ n.at = "serve" /\ n.workspace = w /\ n.op = req[b].op
          /\ n.wallet = req[b].wallet /\ n.invite = req[b].invite
      BY <1>0, <3>2, <3>3, IdleTyped DEF RequestType, At
    <3> HIDE DEF n
    <3>6. Controlled(n)
      BY <3>1, <3>2, <3>5 DEF Controlled, ControlledAt, TeamOps, Known, NeedsContext, Paths
    <3> QED
      BY <3>4, <3>5, <3>6 DEF Moves, Critical
  <2> QED
    BY <1>5, <2>1, Finishes DEF SelectWorkspace
<1>6. ASSUME ServePath(b) \/ WhoAmI(b) \/ LoadDetails(b) \/ Breaks(b) PROVE Moves(b)
  BY <1>6, Finishes DEF ServePath, WhoAmI, LoadDetails, Breaks
<1>7. ASSUME LoadOverview(b) PROVE Moves(b)
  <2>1. Goto(b, "details") /\ req[b].at = "serve"
    BY <1>7 DEF LoadOverview
  <2>2. ControlledAt(req[b], "details")
    BY <1>0, <2>1 DEF Controlled, ControlledAt, TeamOps, Known
  <2> QED
    BY <2>1, <2>2, Goes DEF At, Critical
<1> QED
  BY <1>1, <1>2, <1>3, <1>4, <1>5, <1>6, <1>7 DEF Resolve

\* A click asks for what the page shows.
LEMMA ClickMoves ==
  ASSUME Typed, NEW b \in Browser, Click(b)
  PROVE  Moves(b)
<1>0. /\ shown[b] \in {Nothing} \cup OverviewType
  BY DEF Typed
<1>1. CASE (\E path \in Paths : Send(b, [Idle EXCEPT !.op = path, !.workspace = chosen[b]]))
           \/ Reload(b)
  BY <1>1, Asks DEF Reload
<1>2. CASE shown[b] # Nothing
  <2>0. /\ shown[b].workspace \in Wallet /\ shown[b].members \subseteq Wallet
        /\ shown[b].pending \subseteq Invitation /\ shown[b].mine \subseteq Invitation
        /\ shown[b].workspaces \subseteq Wallet
    BY <1>0, <1>2 DEF OverviewType
  <2>1. ASSUME NEW op \in TeamOps
        PROVE  LET r == AskTeam(b, op) IN
               /\ r \in RequestType /\ r.op = op /\ r.at = "idle"
               /\ r.workspace = shown[b].workspace
    <3>1. op \in Op /\ shown[b].workspace \in Name
      BY <2>0, IdleTyped
    <3> QED
      BY <3>1, IdleTyped DEF AskTeam, RequestType, Idle
  <2>2. TeamOps = {"invite", "accept", "role", "remove", "revoke", "rename", "switch"}
    BY DEF TeamOps
  <2>3. ASSUME NEW r \in RequestType, r.op \in TeamOps, r.workspace \in Wallet,
               r.op \in {"invite", "role"} => r.role \in GivenRole,
               r.op \in {"invite", "role", "remove"} => r.subject \in Wallet,
               r.op = "accept" => r.invite \in Invitation, Send(b, r)
        PROVE  Moves(b)
    <3>1. ControlledAt(r, "auth")
      BY <2>3 DEF ControlledAt, Known, TeamOps
    <3> QED
      BY <2>3, <3>1, Sends
  <2>4. ASSUME NEW op \in {"invite", "role"}, NEW u \in Wallet, NEW role \in GivenRole,
               Send(b, [AskTeam(b, op) EXCEPT !.subject = u, !.role = role])
        PROVE  Moves(b)
    <3> DEFINE q == AskTeam(b, op)
               r == [q EXCEPT !.subject = u, !.role = role]
    <3>1. q \in RequestType /\ q.op = op /\ q.workspace = shown[b].workspace
      BY <2>1, <2>2
    <3>2. Send(b, r)
      BY <2>4
    <3> HIDE DEF q
    <3>3. r \in RequestType /\ r.op = op /\ r.workspace = shown[b].workspace
          /\ r.subject = u /\ r.role = role
      BY <3>1, IdleTyped DEF RequestType
    <3> HIDE DEF r
    <3> QED
      BY <2>0, <2>2, <2>3, <3>2, <3>3
  <2>5. ASSUME NEW u \in Wallet, Send(b, [AskTeam(b, "remove") EXCEPT !.subject = u])
        PROVE  Moves(b)
    <3> DEFINE q == AskTeam(b, "remove")
               r == [q EXCEPT !.subject = u]
    <3>1. q \in RequestType /\ q.op = "remove" /\ q.workspace = shown[b].workspace
      BY <2>1, <2>2
    <3>2. Send(b, r)
      BY <2>5
    <3> HIDE DEF q
    <3>3. r \in RequestType /\ r.op = "remove" /\ r.workspace = shown[b].workspace
          /\ r.subject = u
      BY <3>1, IdleTyped DEF RequestType
    <3> HIDE DEF r
    <3> QED
      BY <2>0, <2>2, <2>3, <3>2, <3>3
  <2>6. ASSUME NEW op \in {"revoke", "accept"}, NEW i \in Invitation,
               Send(b, [AskTeam(b, op) EXCEPT !.invite = i])
        PROVE  Moves(b)
    <3> DEFINE q == AskTeam(b, op)
               r == [q EXCEPT !.invite = i]
    <3>1. q \in RequestType /\ q.op = op /\ q.workspace = shown[b].workspace
      BY <2>1, <2>2
    <3>2. Send(b, r)
      BY <2>6
    <3> HIDE DEF q
    <3>3. r \in RequestType /\ r.op = op /\ r.workspace = shown[b].workspace /\ r.invite = i
      BY <3>1, IdleTyped DEF RequestType
    <3> HIDE DEF r
    <3> QED
      BY <2>0, <2>2, <2>3, <3>2, <3>3
  <2>7. ASSUME Send(b, AskTeam(b, "rename"))
        PROVE  Moves(b)
    BY <2>0, <2>1, <2>2, <2>3, <2>7
  <2>8. ASSUME NEW w \in Wallet, Send(b, [AskTeam(b, "switch") EXCEPT !.workspace = w])
        PROVE  Moves(b)
    <3> DEFINE q == AskTeam(b, "switch")
               r == [q EXCEPT !.workspace = w]
    <3>1. q \in RequestType /\ q.op = "switch"
      BY <2>1, <2>2
    <3>2. Send(b, r)
      BY <2>8
    <3> HIDE DEF q
    <3>3. r \in RequestType /\ r.op = "switch" /\ r.workspace = w
      BY <3>1, IdleTyped DEF RequestType
    <3> HIDE DEF r
    <3> QED
      BY <2>2, <2>3, <3>2, <3>3
  <2> QED
    BY <1>1, <2>0, <2>4, <2>5, <2>6, <2>7, <2>8 DEF Click, OnPage
<1> QED
  BY <1>1, <1>2 DEF Click, OnPage

\* The handlers of the team.
LEMMA ManageMoves ==
  ASSUME Typed, NEW b \in Browser, Manage(b)
  PROVE  Moves(b)
<1>0. /\ req \in [Browser -> RequestType] /\ req[b] \in RequestType /\ Controlled(req[b])
      /\ jar[b] \in 0..MaxSession
  BY DEF Typed
<1>1. ASSUME CheckAccess(b) PROVE Moves(b)
  <2>1. CASE Goto(b, req[b].op)
    <3>1. req[b].at = "access" /\ req[b].op \in TeamOps
      BY <1>0, <1>1 DEF CheckAccess, Controlled, ControlledAt
    <3>2. req[b].op \in At
      BY <3>1 DEF At
    <3>3. ControlledAt(req[b], req[b].op)
      BY <1>0, <3>1 DEF Controlled, ControlledAt, TeamOps, Known
    <3> QED
      BY <1>1, <2>1, <3>2, <3>3, Goes DEF Advances
  <2> QED
    BY <1>1, <2>1, Finishes DEF CheckAccess
<1>2. ASSUME SwitchWorkspace(b) PROVE Moves(b)
  <2> DEFINE n == [Idle EXCEPT !.op = "load", !.at = "auth", !.token = jar[b],
                               !.workspace = req[b].workspace]
  <2>1. req' = [req EXCEPT ![b] = n]
    BY <1>2 DEF SwitchWorkspace
  <2>2. n \in RequestType /\ n.op = "load" /\ n.at = "auth"
    BY <1>0, IdleTyped DEF RequestType, Idle, At, Op
  <2> HIDE DEF n
  <2>3. Controlled(n)
    BY <2>2 DEF Controlled, ControlledAt, Known, TeamOps, NeedsContext
  <2> QED
    BY <2>1, <2>2, <2>3 DEF Moves, Critical
<1>3. ASSUME CheckInvited(b) PROVE Moves(b)
  <2>1. CASE Goto(b, "insert") /\ req[b].at = "invite"
    <3>1. ControlledAt(req[b], "insert")
      BY <1>0, <2>1 DEF Controlled, ControlledAt, TeamOps, Known
    <3> QED
      BY <1>3, <2>1, <3>1, Goes DEF At, Advances
  <2> QED
    BY <1>3, <2>1, Finishes DEF CheckInvited
<1>4. ASSUME InsertInvitation(b) PROVE Moves(b)
  <2>1. ASSUME NEW i \in Invitation, req' = [req EXCEPT ![b].at = "audit", ![b].invite = i]
        PROVE  Moves(b)
    <3> DEFINE n == [req[b] EXCEPT !.at = "audit", !.invite = i]
    <3>1. req' = [req EXCEPT ![b] = n] /\ req[b].at = "insert"
      BY <1>0, <1>4, <2>1 DEF InsertInvitation
    <3>2. n \in RequestType /\ n.at = "audit" /\ n.invite = i /\ n.op = req[b].op
          /\ n.wallet = req[b].wallet /\ n.workspace = req[b].workspace
          /\ n.role = req[b].role /\ n.subject = req[b].subject
      BY <1>0, IdleTyped DEF RequestType, At
    <3> HIDE DEF n
    <3>3. Controlled(n)
      BY <1>0, <3>1, <3>2 DEF Controlled, ControlledAt, TeamOps, Known
    <3> QED
      BY <3>1, <3>2, <3>3 DEF Moves, Critical
  <2> QED
    BY <1>4, <2>1, Finishes DEF InsertInvitation
<1>5. ASSUME Reload(b) PROVE Moves(b)
  BY <1>5, Asks DEF Reload
<1>6. ASSUME NEW from \in {"rename", "role", "setRole", "remove", "revoke", "setRevoked"},
             NEW to \in {"setRole", "setRevoked", "audit"},
             req[b].at = from, Goto(b, to), to = "setRole" => from = "role",
             to = "setRevoked" => from = "revoke"
      PROVE  Moves(b)
  <2>1. ControlledAt(req[b], to)
    BY <1>0, <1>6 DEF Controlled, ControlledAt, TeamOps, Known
  <2> QED
    BY <1>6, <2>1, Goes DEF At, Critical
<1>7. ASSUME \/ Rename(b) \/ ReadMember(b) \/ SetRole(b) \/ RemoveMember(b)
             \/ ReadInvitation(b) \/ RevokeInvitation(b)
      PROVE  Moves(b)
  BY <1>6, <1>7, Finishes DEF Rename, ReadMember, SetRole, RemoveMember, ReadInvitation,
    RevokeInvitation
<1>8. ASSUME AcceptInvitation(b) \/ Audit(b) PROVE Moves(b)
  BY <1>5, <1>8, Finishes DEF AcceptInvitation, Audit
<1> QED
  BY <1>1, <1>2, <1>3, <1>4, <1>7, <1>8, ClickMoves DEF Manage

\* What any step does to a request: it stays, or moves by a step of its own
\* page to a request that is in control.
LEMMA RequestStep ==
  ASSUME Typed, LiveSessions, [Next]_vars
  PROVE  /\ req' \in [Browser -> RequestType] /\ \A d \in Browser : Controlled(req'[d])
         /\ \A d \in Browser : \/ req'[d] = req[d]
                               \/ req'[d].at \notin Critical
                               \/ Advances(d)
<1> DEFINE Goal == /\ req' \in [Browser -> RequestType]
                   /\ \A d \in Browser : Controlled(req'[d])
                   /\ \A d \in Browser : \/ req'[d] = req[d]
                                         \/ req'[d].at \notin Critical
                                         \/ Advances(d)
<1> SUFFICES Goal
  OBVIOUS
<1>0. req \in [Browser -> RequestType] /\ \A d \in Browser : Controlled(req[d])
  BY DEF Typed
<1>1. ASSUME NEW b \in Browser, Moves(b) PROVE Goal
  <2>1. PICK n \in RequestType : /\ Controlled(n) /\ req' = [req EXCEPT ![b] = n]
                                 /\ n.at \in Critical => Advances(b)
    BY <1>1 DEF Moves
  <2>2. req'[b] = n /\ \A d \in Browser : d # b => req'[d] = req[d]
    BY <1>0, <2>1
  <2>3. req' \in [Browser -> RequestType]
    BY <1>0, <2>1
  <2> QED
    BY <1>0, <2>1, <2>2, <2>3
<1>2. req' = req => Goal
  BY <1>0
<1> HIDE DEF Goal
<1>3. ASSUME NEW b \in Browser, SignIn(b) \/ SignOut(b) \/ Resolve(b) \/ Manage(b)
      PROVE  Goal
  BY <1>1, <1>2, <1>3, SignInMoves, SignOutMoves, ResolveMoves, ManageMoves
<1>4. ASSUME NEW n \in Challenge, ChallengeExpires(n) PROVE Goal
  BY <1>2, <1>4 DEF ChallengeExpires
<1>5. ASSUME NEW t \in Session, SessionExpires(t) PROVE Goal
  BY <1>2, <1>5 DEF SessionExpires
<1>6. ASSUME NEW i \in Invitation, InvitationExpires(i) PROVE Goal
  BY <1>2, <1>6 DEF InvitationExpires
<1>7. UNCHANGED vars => Goal
  BY <1>2 DEF vars
<1> QED
  BY <1>3, <1>4, <1>5, <1>6, <1>7 DEF Next

-----------------------------------------------------------------------------
(* What a step does to the tables, the cookies and the pages. *)

\* The statements that write workspace_members.
LEMMA MembersStep ==
  ASSUME [Next]_vars
  PROVE  \/ UNCHANGED members
         \/ \E b \in Browser : EnsureOwner(b) \/ AcceptInvitation(b) \/ SetRole(b) \/ RemoveMember(b)
<1> DEFINE Goal == \/ UNCHANGED members
                   \/ \E b \in Browser : EnsureOwner(b) \/ AcceptInvitation(b) \/ SetRole(b) \/ RemoveMember(b)
<1> SUFFICES Goal
  OBVIOUS
<1>1. ASSUME NEW b \in Browser,
             Connect(b) \/ Prompt(b)
             \/ CreateChallenge(b) \/ SignMessage(b) \/ Resend(b) \/ Login(b)
             \/ ConsumeChallenge(b) \/ CreateSession(b) \/ SignedIn(b)
      PROVE  UNCHANGED members
  BY <1>1 DEF Connect, Prompt, CreateChallenge, SignMessage, Resend, Login,
    ConsumeChallenge, CreateSession, SignedIn, tables, browser
<1>2. ASSUME NEW b \in Browser,
             Disconnect(b) \/ Delete(b)
             \/ Deleted(b) \/ ChangeAccount(b) \/ Reconnect(b)
             \/ ClearAtServer(b) \/ Cleared(b) \/ OpenPage(b)
      PROVE  UNCHANGED members
  BY <1>2 DEF Disconnect, Delete, Deleted, ChangeAccount, Reconnect,
    ClearAtServer, Cleared, OpenPage, tables, browser
<1>3. ASSUME NEW b \in Browser,
             Authenticate(b)
             \/ EnsureWorkspace(b) \/ ListWorkspaces(b) \/ SelectWorkspace(b)
             \/ ServePath(b) \/ WhoAmI(b) \/ LoadOverview(b) \/ LoadDetails(b)
             \/ Breaks(b)
      PROVE  UNCHANGED members
  BY <1>3 DEF Authenticate, EnsureWorkspace, ListWorkspaces, SelectWorkspace,
    ServePath, WhoAmI, LoadOverview, LoadDetails, Breaks, tables, browser
<1>4. ASSUME NEW b \in Browser,
             Click(b) \/ CheckAccess(b)
             \/ SwitchWorkspace(b) \/ Rename(b) \/ CheckInvited(b)
             \/ InsertInvitation(b) \/ ReadMember(b) \/ ReadInvitation(b)
             \/ RevokeInvitation(b) \/ Audit(b)
      PROVE  UNCHANGED members
  BY <1>4 DEF Click, CheckAccess, SwitchWorkspace, Rename, CheckInvited,
    InsertInvitation, ReadMember, ReadInvitation, RevokeInvitation, Audit,
    tables, browser
<1>5. ASSUME NEW n \in Challenge, ChallengeExpires(n)
      PROVE  UNCHANGED members
  BY <1>5 DEF ChallengeExpires, tables, browser
<1>6. ASSUME NEW t \in Session, SessionExpires(t)
      PROVE  UNCHANGED members
  BY <1>6 DEF SessionExpires, tables, browser
<1>7. ASSUME NEW i \in Invitation, InvitationExpires(i)
      PROVE  UNCHANGED members
  BY <1>7 DEF InvitationExpires, tables, browser
<1>8. UNCHANGED vars => UNCHANGED members
  BY DEF vars, tables, browser
<1>9. UNCHANGED members => Goal
  OBVIOUS
<1>10. ASSUME NEW b \in Browser, EnsureOwner(b)
      PROVE  Goal
  BY <1>10
<1>11. ASSUME NEW b \in Browser, AcceptInvitation(b)
      PROVE  Goal
  BY <1>11
<1>12. ASSUME NEW b \in Browser, SetRole(b)
      PROVE  Goal
  BY <1>12
<1>13. ASSUME NEW b \in Browser, RemoveMember(b)
      PROVE  Goal
  BY <1>13
<1> HIDE DEF Goal
<1>14. ASSUME NEW b \in Browser, SignIn(b) \/ SignOut(b) \/ Resolve(b) \/ Manage(b)
      PROVE  Goal
  BY <1>1, <1>2, <1>3, <1>4, <1>9, <1>10, <1>11, <1>12, <1>13, <1>14
  DEF SignIn, SignOut, Resolve, Manage
<1> QED
  BY <1>5, <1>6, <1>7, <1>8, <1>9, <1>10, <1>11, <1>12, <1>13, <1>14 DEF Next

\* The statements that write workspace_invitations.
LEMMA InvitesStep ==
  ASSUME [Next]_vars
  PROVE  \/ UNCHANGED invites
         \/ \E b \in Browser : LoadOverview(b) \/ InsertInvitation(b) \/ AcceptInvitation(b) \/ RevokeInvitation(b)
         \/ \E i \in Invitation : InvitationExpires(i)
<1> DEFINE Goal == \/ UNCHANGED invites
                   \/ \E b \in Browser : LoadOverview(b) \/ InsertInvitation(b) \/ AcceptInvitation(b) \/ RevokeInvitation(b)
                   \/ \E i \in Invitation : InvitationExpires(i)
<1> SUFFICES Goal
  OBVIOUS
<1>1. ASSUME NEW b \in Browser,
             Connect(b) \/ Prompt(b)
             \/ CreateChallenge(b) \/ SignMessage(b) \/ Resend(b) \/ Login(b)
             \/ ConsumeChallenge(b) \/ CreateSession(b) \/ SignedIn(b)
      PROVE  UNCHANGED invites
  BY <1>1 DEF Connect, Prompt, CreateChallenge, SignMessage, Resend, Login,
    ConsumeChallenge, CreateSession, SignedIn, tables, browser
<1>2. ASSUME NEW b \in Browser,
             Disconnect(b) \/ Delete(b)
             \/ Deleted(b) \/ ChangeAccount(b) \/ Reconnect(b)
             \/ ClearAtServer(b) \/ Cleared(b) \/ OpenPage(b)
      PROVE  UNCHANGED invites
  BY <1>2 DEF Disconnect, Delete, Deleted, ChangeAccount, Reconnect,
    ClearAtServer, Cleared, OpenPage, tables, browser
<1>3. ASSUME NEW b \in Browser,
             Authenticate(b)
             \/ EnsureWorkspace(b) \/ EnsureOwner(b) \/ ListWorkspaces(b)
             \/ SelectWorkspace(b) \/ ServePath(b) \/ WhoAmI(b)
             \/ LoadDetails(b) \/ Breaks(b)
      PROVE  UNCHANGED invites
  BY <1>3 DEF Authenticate, EnsureWorkspace, EnsureOwner, ListWorkspaces,
    SelectWorkspace, ServePath, WhoAmI, LoadDetails, Breaks, tables, browser
<1>4. ASSUME NEW b \in Browser,
             Click(b) \/ CheckAccess(b)
             \/ SwitchWorkspace(b) \/ Rename(b) \/ CheckInvited(b)
             \/ ReadMember(b) \/ SetRole(b) \/ RemoveMember(b)
             \/ ReadInvitation(b) \/ Audit(b)
      PROVE  UNCHANGED invites
  BY <1>4 DEF Click, CheckAccess, SwitchWorkspace, Rename, CheckInvited,
    ReadMember, SetRole, RemoveMember, ReadInvitation, Audit, tables, browser
<1>5. ASSUME NEW n \in Challenge, ChallengeExpires(n)
      PROVE  UNCHANGED invites
  BY <1>5 DEF ChallengeExpires, tables, browser
<1>6. ASSUME NEW t \in Session, SessionExpires(t)
      PROVE  UNCHANGED invites
  BY <1>6 DEF SessionExpires, tables, browser
<1>7. UNCHANGED vars => UNCHANGED invites
  BY DEF vars, tables, browser
<1>8. UNCHANGED invites => Goal
  OBVIOUS
<1>9. ASSUME NEW b \in Browser, LoadOverview(b)
      PROVE  Goal
  BY <1>9
<1>10. ASSUME NEW b \in Browser, InsertInvitation(b)
      PROVE  Goal
  BY <1>10
<1>11. ASSUME NEW b \in Browser, AcceptInvitation(b)
      PROVE  Goal
  BY <1>11
<1>12. ASSUME NEW b \in Browser, RevokeInvitation(b)
      PROVE  Goal
  BY <1>12
<1>13. ASSUME NEW i \in Invitation, InvitationExpires(i)
      PROVE  Goal
  BY <1>13
<1> HIDE DEF Goal
<1>14. ASSUME NEW b \in Browser, SignIn(b) \/ SignOut(b) \/ Resolve(b) \/ Manage(b)
      PROVE  Goal
  BY <1>1, <1>2, <1>3, <1>4, <1>8, <1>9, <1>10, <1>11, <1>12, <1>13, <1>14
  DEF SignIn, SignOut, Resolve, Manage
<1> QED
  BY <1>5, <1>6, <1>7, <1>8, <1>9, <1>10, <1>11, <1>12, <1>13, <1>14 DEF Next

\* The statements that write wallet_auth_challenges.
LEMMA ChallengesStep ==
  ASSUME [Next]_vars
  PROVE  \/ UNCHANGED challenges
         \/ \E b \in Browser : CreateChallenge(b) \/ SignMessage(b) \/ ConsumeChallenge(b)
         \/ \E n \in Challenge : ChallengeExpires(n)
<1> DEFINE Goal == \/ UNCHANGED challenges
                   \/ \E b \in Browser : CreateChallenge(b) \/ SignMessage(b) \/ ConsumeChallenge(b)
                   \/ \E n \in Challenge : ChallengeExpires(n)
<1> SUFFICES Goal
  OBVIOUS
<1>1. ASSUME NEW b \in Browser,
             Connect(b) \/ Prompt(b)
             \/ Resend(b) \/ Login(b) \/ CreateSession(b) \/ SignedIn(b)
      PROVE  UNCHANGED challenges
  BY <1>1 DEF Connect, Prompt, Resend, Login, CreateSession, SignedIn, tables,
    browser
<1>2. ASSUME NEW b \in Browser,
             Disconnect(b) \/ Delete(b)
             \/ Deleted(b) \/ ChangeAccount(b) \/ Reconnect(b)
             \/ ClearAtServer(b) \/ Cleared(b) \/ OpenPage(b)
      PROVE  UNCHANGED challenges
  BY <1>2 DEF Disconnect, Delete, Deleted, ChangeAccount, Reconnect,
    ClearAtServer, Cleared, OpenPage, tables, browser
<1>3. ASSUME NEW b \in Browser,
             Authenticate(b)
             \/ EnsureWorkspace(b) \/ EnsureOwner(b) \/ ListWorkspaces(b)
             \/ SelectWorkspace(b) \/ ServePath(b) \/ WhoAmI(b)
             \/ LoadOverview(b) \/ LoadDetails(b) \/ Breaks(b)
      PROVE  UNCHANGED challenges
  BY <1>3 DEF Authenticate, EnsureWorkspace, EnsureOwner, ListWorkspaces,
    SelectWorkspace, ServePath, WhoAmI, LoadOverview, LoadDetails, Breaks,
    tables, browser
<1>4. ASSUME NEW b \in Browser,
             Click(b) \/ CheckAccess(b)
             \/ SwitchWorkspace(b) \/ Rename(b) \/ CheckInvited(b)
             \/ InsertInvitation(b) \/ AcceptInvitation(b) \/ ReadMember(b)
             \/ SetRole(b) \/ RemoveMember(b) \/ ReadInvitation(b)
             \/ RevokeInvitation(b) \/ Audit(b)
      PROVE  UNCHANGED challenges
  BY <1>4 DEF Click, CheckAccess, SwitchWorkspace, Rename, CheckInvited,
    InsertInvitation, AcceptInvitation, ReadMember, SetRole, RemoveMember,
    ReadInvitation, RevokeInvitation, Audit, tables, browser
<1>5. ASSUME NEW t \in Session, SessionExpires(t)
      PROVE  UNCHANGED challenges
  BY <1>5 DEF SessionExpires, tables, browser
<1>6. ASSUME NEW i \in Invitation, InvitationExpires(i)
      PROVE  UNCHANGED challenges
  BY <1>6 DEF InvitationExpires, tables, browser
<1>7. UNCHANGED vars => UNCHANGED challenges
  BY DEF vars, tables, browser
<1>8. UNCHANGED challenges => Goal
  OBVIOUS
<1>9. ASSUME NEW b \in Browser, CreateChallenge(b)
      PROVE  Goal
  BY <1>9
<1>10. ASSUME NEW b \in Browser, SignMessage(b)
      PROVE  Goal
  BY <1>10
<1>11. ASSUME NEW b \in Browser, ConsumeChallenge(b)
      PROVE  Goal
  BY <1>11
<1>12. ASSUME NEW n \in Challenge, ChallengeExpires(n)
      PROVE  Goal
  BY <1>12
<1> HIDE DEF Goal
<1>13. ASSUME NEW b \in Browser, SignIn(b) \/ SignOut(b) \/ Resolve(b) \/ Manage(b)
      PROVE  Goal
  BY <1>1, <1>2, <1>3, <1>4, <1>8, <1>9, <1>10, <1>11, <1>12, <1>13
  DEF SignIn, SignOut, Resolve, Manage
<1> QED
  BY <1>5, <1>6, <1>7, <1>8, <1>9, <1>10, <1>11, <1>12, <1>13 DEF Next

\* The statements that write wallet_sessions.
LEMMA SessionsStep ==
  ASSUME [Next]_vars
  PROVE  \/ UNCHANGED sessions
         \/ \E b \in Browser : CreateSession(b) \/ Delete(b) \/ ClearAtServer(b) \/ Authenticate(b)
         \/ \E t \in Session : SessionExpires(t)
<1> DEFINE Goal == \/ UNCHANGED sessions
                   \/ \E b \in Browser : CreateSession(b) \/ Delete(b) \/ ClearAtServer(b) \/ Authenticate(b)
                   \/ \E t \in Session : SessionExpires(t)
<1> SUFFICES Goal
  OBVIOUS
<1>1. ASSUME NEW b \in Browser,
             Connect(b) \/ Prompt(b)
             \/ CreateChallenge(b) \/ SignMessage(b) \/ Resend(b) \/ Login(b)
             \/ ConsumeChallenge(b) \/ SignedIn(b)
      PROVE  UNCHANGED sessions
  BY <1>1 DEF Connect, Prompt, CreateChallenge, SignMessage, Resend, Login,
    ConsumeChallenge, SignedIn, tables, browser
<1>2. ASSUME NEW b \in Browser,
             Disconnect(b) \/ Deleted(b)
             \/ ChangeAccount(b) \/ Reconnect(b) \/ Cleared(b) \/ OpenPage(b)
      PROVE  UNCHANGED sessions
  BY <1>2 DEF Disconnect, Deleted, ChangeAccount, Reconnect, Cleared, OpenPage,
    tables, browser
<1>3. ASSUME NEW b \in Browser,
             EnsureWorkspace(b)
             \/ EnsureOwner(b) \/ ListWorkspaces(b) \/ SelectWorkspace(b)
             \/ ServePath(b) \/ WhoAmI(b) \/ LoadOverview(b) \/ LoadDetails(b)
             \/ Breaks(b)
      PROVE  UNCHANGED sessions
  BY <1>3 DEF EnsureWorkspace, EnsureOwner, ListWorkspaces, SelectWorkspace,
    ServePath, WhoAmI, LoadOverview, LoadDetails, Breaks, tables, browser
<1>4. ASSUME NEW b \in Browser,
             Click(b) \/ CheckAccess(b)
             \/ SwitchWorkspace(b) \/ Rename(b) \/ CheckInvited(b)
             \/ InsertInvitation(b) \/ AcceptInvitation(b) \/ ReadMember(b)
             \/ SetRole(b) \/ RemoveMember(b) \/ ReadInvitation(b)
             \/ RevokeInvitation(b) \/ Audit(b)
      PROVE  UNCHANGED sessions
  BY <1>4 DEF Click, CheckAccess, SwitchWorkspace, Rename, CheckInvited,
    InsertInvitation, AcceptInvitation, ReadMember, SetRole, RemoveMember,
    ReadInvitation, RevokeInvitation, Audit, tables, browser
<1>5. ASSUME NEW n \in Challenge, ChallengeExpires(n)
      PROVE  UNCHANGED sessions
  BY <1>5 DEF ChallengeExpires, tables, browser
<1>6. ASSUME NEW i \in Invitation, InvitationExpires(i)
      PROVE  UNCHANGED sessions
  BY <1>6 DEF InvitationExpires, tables, browser
<1>7. UNCHANGED vars => UNCHANGED sessions
  BY DEF vars, tables, browser
<1>8. UNCHANGED sessions => Goal
  OBVIOUS
<1>9. ASSUME NEW b \in Browser, CreateSession(b)
      PROVE  Goal
  BY <1>9
<1>10. ASSUME NEW b \in Browser, Delete(b)
      PROVE  Goal
  BY <1>10
<1>11. ASSUME NEW b \in Browser, ClearAtServer(b)
      PROVE  Goal
  BY <1>11
<1>12. ASSUME NEW b \in Browser, Authenticate(b)
      PROVE  Goal
  BY <1>12
<1>13. ASSUME NEW t \in Session, SessionExpires(t)
      PROVE  Goal
  BY <1>13
<1> HIDE DEF Goal
<1>14. ASSUME NEW b \in Browser, SignIn(b) \/ SignOut(b) \/ Resolve(b) \/ Manage(b)
      PROVE  Goal
  BY <1>1, <1>2, <1>3, <1>4, <1>8, <1>9, <1>10, <1>11, <1>12, <1>13, <1>14
  DEF SignIn, SignOut, Resolve, Manage
<1> QED
  BY <1>5, <1>6, <1>7, <1>8, <1>9, <1>10, <1>11, <1>12, <1>13, <1>14 DEF Next

\* The answers that set a cookie, and the account the extension offers.
LEMMA CookiesStep ==
  ASSUME [Next]_vars
  PROVE  \/ UNCHANGED <<acct, jar, chosen>>
         \/ \E b \in Browser : SignedIn(b) \/ Deleted(b) \/ ChangeAccount(b) \/ Cleared(b) \/ SwitchWorkspace(b)
<1> DEFINE Goal == \/ UNCHANGED <<acct, jar, chosen>>
                   \/ \E b \in Browser : SignedIn(b) \/ Deleted(b) \/ ChangeAccount(b) \/ Cleared(b) \/ SwitchWorkspace(b)
<1> SUFFICES Goal
  OBVIOUS
<1>1. ASSUME NEW b \in Browser,
             Connect(b) \/ Prompt(b)
             \/ CreateChallenge(b) \/ SignMessage(b) \/ Resend(b) \/ Login(b)
             \/ ConsumeChallenge(b) \/ CreateSession(b)
      PROVE  UNCHANGED <<acct, jar, chosen>>
  BY <1>1 DEF Connect, Prompt, CreateChallenge, SignMessage, Resend, Login,
    ConsumeChallenge, CreateSession, tables, browser
<1>2. ASSUME NEW b \in Browser,
             Disconnect(b) \/ Delete(b)
             \/ Reconnect(b) \/ ClearAtServer(b) \/ OpenPage(b)
      PROVE  UNCHANGED <<acct, jar, chosen>>
  BY <1>2 DEF Disconnect, Delete, Reconnect, ClearAtServer, OpenPage, tables,
    browser
<1>3. ASSUME NEW b \in Browser,
             Authenticate(b)
             \/ EnsureWorkspace(b) \/ EnsureOwner(b) \/ ListWorkspaces(b)
             \/ SelectWorkspace(b) \/ ServePath(b) \/ WhoAmI(b)
             \/ LoadOverview(b) \/ LoadDetails(b) \/ Breaks(b)
      PROVE  UNCHANGED <<acct, jar, chosen>>
  BY <1>3 DEF Authenticate, EnsureWorkspace, EnsureOwner, ListWorkspaces,
    SelectWorkspace, ServePath, WhoAmI, LoadOverview, LoadDetails, Breaks,
    tables, browser
<1>4. ASSUME NEW b \in Browser,
             Click(b) \/ CheckAccess(b)
             \/ Rename(b) \/ CheckInvited(b) \/ InsertInvitation(b)
             \/ AcceptInvitation(b) \/ ReadMember(b) \/ SetRole(b)
             \/ RemoveMember(b) \/ ReadInvitation(b) \/ RevokeInvitation(b)
             \/ Audit(b)
      PROVE  UNCHANGED <<acct, jar, chosen>>
  BY <1>4 DEF Click, CheckAccess, Rename, CheckInvited, InsertInvitation,
    AcceptInvitation, ReadMember, SetRole, RemoveMember, ReadInvitation,
    RevokeInvitation, Audit, tables, browser
<1>5. ASSUME NEW n \in Challenge, ChallengeExpires(n)
      PROVE  UNCHANGED <<acct, jar, chosen>>
  BY <1>5 DEF ChallengeExpires, tables, browser
<1>6. ASSUME NEW t \in Session, SessionExpires(t)
      PROVE  UNCHANGED <<acct, jar, chosen>>
  BY <1>6 DEF SessionExpires, tables, browser
<1>7. ASSUME NEW i \in Invitation, InvitationExpires(i)
      PROVE  UNCHANGED <<acct, jar, chosen>>
  BY <1>7 DEF InvitationExpires, tables, browser
<1>8. UNCHANGED vars => UNCHANGED <<acct, jar, chosen>>
  BY DEF vars, tables, browser
<1>9. UNCHANGED <<acct, jar, chosen>> => Goal
  OBVIOUS
<1>10. ASSUME NEW b \in Browser, SignedIn(b)
      PROVE  Goal
  BY <1>10
<1>11. ASSUME NEW b \in Browser, Deleted(b)
      PROVE  Goal
  BY <1>11
<1>12. ASSUME NEW b \in Browser, ChangeAccount(b)
      PROVE  Goal
  BY <1>12
<1>13. ASSUME NEW b \in Browser, Cleared(b)
      PROVE  Goal
  BY <1>13
<1>14. ASSUME NEW b \in Browser, SwitchWorkspace(b)
      PROVE  Goal
  BY <1>14
<1> HIDE DEF Goal
<1>15. ASSUME NEW b \in Browser, SignIn(b) \/ SignOut(b) \/ Resolve(b) \/ Manage(b)
      PROVE  Goal
  BY <1>1, <1>2, <1>3, <1>4, <1>9, <1>10, <1>11, <1>12, <1>13, <1>14, <1>15
  DEF SignIn, SignOut, Resolve, Manage
<1> QED
  BY <1>5, <1>6, <1>7, <1>8, <1>9, <1>10, <1>11, <1>12, <1>13, <1>14, <1>15 DEF Next

\* What loads the workspace page, or empties it.
LEMMA ShownStep ==
  ASSUME [Next]_vars
  PROVE  \/ UNCHANGED shown
         \/ \E b \in Browser : Deleted(b) \/ Cleared(b) \/ OpenPage(b) \/ LoadDetails(b)
<1> DEFINE Goal == \/ UNCHANGED shown
                   \/ \E b \in Browser : Deleted(b) \/ Cleared(b) \/ OpenPage(b) \/ LoadDetails(b)
<1> SUFFICES Goal
  OBVIOUS
<1>1. ASSUME NEW b \in Browser,
             Connect(b) \/ Prompt(b)
             \/ CreateChallenge(b) \/ SignMessage(b) \/ Resend(b) \/ Login(b)
             \/ ConsumeChallenge(b) \/ CreateSession(b) \/ SignedIn(b)
      PROVE  UNCHANGED shown
  BY <1>1 DEF Connect, Prompt, CreateChallenge, SignMessage, Resend, Login,
    ConsumeChallenge, CreateSession, SignedIn, tables, browser
<1>2. ASSUME NEW b \in Browser,
             Disconnect(b) \/ Delete(b)
             \/ ChangeAccount(b) \/ Reconnect(b) \/ ClearAtServer(b)
      PROVE  UNCHANGED shown
  BY <1>2 DEF Disconnect, Delete, ChangeAccount, Reconnect, ClearAtServer,
    tables, browser
<1>3. ASSUME NEW b \in Browser,
             Authenticate(b)
             \/ EnsureWorkspace(b) \/ EnsureOwner(b) \/ ListWorkspaces(b)
             \/ SelectWorkspace(b) \/ ServePath(b) \/ WhoAmI(b)
             \/ LoadOverview(b) \/ Breaks(b)
      PROVE  UNCHANGED shown
  BY <1>3 DEF Authenticate, EnsureWorkspace, EnsureOwner, ListWorkspaces,
    SelectWorkspace, ServePath, WhoAmI, LoadOverview, Breaks, tables, browser
<1>4. ASSUME NEW b \in Browser,
             Click(b) \/ CheckAccess(b)
             \/ SwitchWorkspace(b) \/ Rename(b) \/ CheckInvited(b)
             \/ InsertInvitation(b) \/ AcceptInvitation(b) \/ ReadMember(b)
             \/ SetRole(b) \/ RemoveMember(b) \/ ReadInvitation(b)
             \/ RevokeInvitation(b) \/ Audit(b)
      PROVE  UNCHANGED shown
  BY <1>4 DEF Click, CheckAccess, SwitchWorkspace, Rename, CheckInvited,
    InsertInvitation, AcceptInvitation, ReadMember, SetRole, RemoveMember,
    ReadInvitation, RevokeInvitation, Audit, tables, browser
<1>5. ASSUME NEW n \in Challenge, ChallengeExpires(n)
      PROVE  UNCHANGED shown
  BY <1>5 DEF ChallengeExpires, tables, browser
<1>6. ASSUME NEW t \in Session, SessionExpires(t)
      PROVE  UNCHANGED shown
  BY <1>6 DEF SessionExpires, tables, browser
<1>7. ASSUME NEW i \in Invitation, InvitationExpires(i)
      PROVE  UNCHANGED shown
  BY <1>7 DEF InvitationExpires, tables, browser
<1>8. UNCHANGED vars => UNCHANGED shown
  BY DEF vars, tables, browser
<1>9. UNCHANGED shown => Goal
  OBVIOUS
<1>10. ASSUME NEW b \in Browser, Deleted(b)
      PROVE  Goal
  BY <1>10
<1>11. ASSUME NEW b \in Browser, Cleared(b)
      PROVE  Goal
  BY <1>11
<1>12. ASSUME NEW b \in Browser, OpenPage(b)
      PROVE  Goal
  BY <1>12
<1>13. ASSUME NEW b \in Browser, LoadDetails(b)
      PROVE  Goal
  BY <1>13
<1> HIDE DEF Goal
<1>14. ASSUME NEW b \in Browser, SignIn(b) \/ SignOut(b) \/ Resolve(b) \/ Manage(b)
      PROVE  Goal
  BY <1>1, <1>2, <1>3, <1>4, <1>9, <1>10, <1>11, <1>12, <1>13, <1>14
  DEF SignIn, SignOut, Resolve, Manage
<1> QED
  BY <1>5, <1>6, <1>7, <1>8, <1>9, <1>10, <1>11, <1>12, <1>13, <1>14 DEF Next

-----------------------------------------------------------------------------
(* What a step does to one membership, invitation, challenge or session. *)

\* How one invitation changes: it is settled while it is pending, it falls due,
\* or it is made from a request that was found in order.
LEMMA InvitationChanges ==
  ASSUME Typed, [Next]_vars, NEW i \in Invitation
  PROVE  /\ invites' \in [Invitation -> InviteType]
         /\ \/ invites'[i] = invites[i]
            \/ /\ Pending(i) /\ invites'[i].workspace = invites[i].workspace
               /\ invites'[i].wallet = invites[i].wallet /\ invites'[i].role = invites[i].role
            \/ /\ invites[i].status = "none"
               /\ \E b \in Browser :
                    /\ req[b].at = "insert" /\ invites'[i].workspace = req[b].workspace
                    /\ invites'[i].wallet = req[b].subject /\ invites'[i].role = req[b].role
<1> DEFINE Goal == /\ invites' \in [Invitation -> InviteType]
                   /\ \/ invites'[i] = invites[i]
                      \/ /\ Pending(i) /\ invites'[i].workspace = invites[i].workspace
                         /\ invites'[i].wallet = invites[i].wallet
                         /\ invites'[i].role = invites[i].role
                      \/ /\ invites[i].status = "none"
                         /\ \E b \in Browser :
                              /\ req[b].at = "insert" /\ invites'[i].workspace = req[b].workspace
                              /\ invites'[i].wallet = req[b].subject
                              /\ invites'[i].role = req[b].role
<1> SUFFICES Goal
  OBVIOUS
<1>0. /\ invites \in [Invitation -> InviteType] /\ invites[i] \in InviteType
      /\ \A b \in Browser : req[b] \in RequestType /\ Controlled(req[b])
  BY DEF Typed
<1>1. ASSUME NEW b \in Browser, LoadOverview(b)
      PROVE  Goal
  <2>1. ASSUME NEW j \in Invitation
        PROVE  [invites[j] EXCEPT !.status = "expired"] \in InviteType
    BY <1>0 DEF InviteType
  <2>2. invites' = [j \in Invitation |->
          IF Pending(j) /\ invites[j].wallet = req[b].wallet /\ invites[j].due
          THEN [invites[j] EXCEPT !.status = "expired"] ELSE invites[j]]
    BY <1>1 DEF LoadOverview
  <2>3. invites' \in [Invitation -> InviteType]
    BY <1>0, <2>1, <2>2
  <2>4. \/ invites'[i] = invites[i]
        \/ Pending(i) /\ invites'[i] = [invites[i] EXCEPT !.status = "expired"]
    BY <2>2
  <2> QED
    BY <1>0, <2>3, <2>4 DEF InviteType
<1>2. ASSUME NEW j, NEW status \in {"accepted", "revoked"}, Pending(j),
             invites' = [invites EXCEPT ![j].status = status]
      PROVE  Goal
  <2>1. ASSUME j \in Invitation
        PROVE  [invites[j] EXCEPT !.status = status] \in InviteType
    BY <1>0, <2>1 DEF InviteType
  <2>2. invites' \in [Invitation -> InviteType]
    BY <1>0, <1>2, <2>1
  <2>3. \/ invites'[i] = invites[i]
        \/ j = i /\ invites'[i] = [invites[i] EXCEPT !.status = status]
    BY <1>0, <1>2
  <2> QED
    BY <1>0, <1>2, <2>2, <2>3 DEF InviteType
<1>3. ASSUME NEW j \in Invitation, InvitationExpires(j)
      PROVE  Goal
  <2>1. Pending(j) /\ invites' = [invites EXCEPT ![j].due = TRUE]
    BY <1>3 DEF InvitationExpires
  <2>2. [invites[j] EXCEPT !.due = TRUE] \in InviteType
    BY <1>0 DEF InviteType
  <2>3. invites' \in [Invitation -> InviteType]
    BY <1>0, <2>1, <2>2
  <2>4. \/ invites'[i] = invites[i]
        \/ j = i /\ invites'[i] = [invites[i] EXCEPT !.due = TRUE]
    BY <1>0, <2>1
  <2> QED
    BY <1>0, <2>1, <2>3, <2>4 DEF InviteType
<1>4. ASSUME NEW b \in Browser, InsertInvitation(b), NEW j \in Invitation,
             invites[j] = NoInvite,
             invites' = [invites EXCEPT ![j] =
               [workspace |-> req[b].workspace, wallet |-> req[b].subject,
                role |-> req[b].role, status |-> "pending", due |-> FALSE]]
      PROVE  Goal
  <2> DEFINE new == [workspace |-> req[b].workspace, wallet |-> req[b].subject,
                     role |-> req[b].role, status |-> "pending", due |-> FALSE]
  <2>1. req[b].at = "insert" /\ invites[j].status = "none"
    BY <1>4 DEF InsertInvitation, NoInvite
  <2>2. req[b].workspace \in Name /\ req[b].subject \in Name /\ req[b].role \in GivenRole
    BY <1>0, <2>1 DEF RequestType, Controlled, ControlledAt
  <2>3. new \in InviteType
    BY <2>2 DEF InviteType
  <2>4. /\ new.workspace = req[b].workspace /\ new.wallet = req[b].subject
        /\ new.role = req[b].role
    OBVIOUS
  <2>5. invites' = [invites EXCEPT ![j] = new]
    BY <1>4
  <2> HIDE DEF new
  <2>6. invites' \in [Invitation -> InviteType]
    BY <1>0, <2>3, <2>5
  <2>7. invites'[i] = invites[i] \/ (j = i /\ invites'[i] = new)
    BY <1>0, <2>5
  <2> QED
    BY <2>1, <2>4, <2>6, <2>7
<1>5. UNCHANGED invites => Goal
  BY <1>0
<1> HIDE DEF Goal
<1>6. ASSUME NEW b \in Browser, InsertInvitation(b)
      PROVE  Goal
  BY <1>4, <1>5, <1>6 DEF InsertInvitation
<1>7. ASSUME NEW b \in Browser, AcceptInvitation(b)
      PROVE  Goal
  BY <1>2, <1>5, <1>7 DEF AcceptInvitation, Acceptable
<1>8. ASSUME NEW b \in Browser, RevokeInvitation(b)
      PROVE  Goal
  BY <1>2, <1>5, <1>8 DEF RevokeInvitation, StillPending
<1> QED
  BY <1>1, <1>3, <1>5, <1>6, <1>7, <1>8, InvitesStep

\* How one membership changes: a wallet becomes the owner of its own
\* workspace, an invitation is accepted, or a member who is not the owner gets
\* another role or is removed.
LEMMA MembershipChanges ==
  ASSUME Typed, [Next]_vars, NEW w \in Wallet, NEW u \in Wallet
  PROVE  /\ members' \in [Wallet -> [Wallet -> Role \cup {"none"}]]
         /\ \/ members'[w][u] = members[w][u]
            \/ w = u /\ members[w][u] = "none" /\ members'[w][u] = "owner"
            \/ \E i \in Invitation :
                 /\ Acceptable(i, u) /\ invites[i].workspace = w
                 /\ invites'[i].status = "accepted" /\ members'[w][u] = invites[i].role
            \/ /\ members[w][u] \notin {"none", "owner"}
               /\ members'[w][u] \in GivenRole \cup {"none"}
<1> DEFINE Goal == /\ members' \in [Wallet -> [Wallet -> Role \cup {"none"}]]
                   /\ \/ members'[w][u] = members[w][u]
                      \/ w = u /\ members[w][u] = "none" /\ members'[w][u] = "owner"
                      \/ \E i \in Invitation :
                           /\ Acceptable(i, u) /\ invites[i].workspace = w
                           /\ invites'[i].status = "accepted"
                           /\ members'[w][u] = invites[i].role
                      \/ /\ members[w][u] \notin {"none", "owner"}
                         /\ members'[w][u] \in GivenRole \cup {"none"}
<1> SUFFICES Goal
  OBVIOUS
<1>0. /\ members \in [Wallet -> [Wallet -> Role \cup {"none"}]]
      /\ invites \in [Invitation -> InviteType]
      /\ \A b \in Browser : req[b] \in RequestType /\ Controlled(req[b])
      /\ GivenRole \subseteq Role /\ "owner" \in Role
  BY IdleTyped DEF Typed, Role
<1>1. ASSUME NEW v, NEW x, NEW role \in Role \cup {"none"},
             members' = [members EXCEPT ![v][x] = role]
      PROVE  /\ members' \in [Wallet -> [Wallet -> Role \cup {"none"}]]
             /\ members'[w][u] = members[w][u] \/ (w = v /\ u = x /\ members'[w][u] = role)
  <2>1. ASSUME v \in Wallet
        PROVE  [members[v] EXCEPT ![x] = role] \in [Wallet -> Role \cup {"none"}]
    BY <1>0, <2>1
  <2>2. members' = [members EXCEPT ![v] = [members[v] EXCEPT ![x] = role]]
    BY <1>1
  <2> QED
    BY <1>0, <2>1, <2>2
<1>2. ASSUME NEW b \in Browser, EnsureOwner(b)
      PROVE  Goal
  <2> DEFINE x == req[b].wallet
             role == IF members[x][x] = "none" THEN "owner" ELSE members[x][x]
  <2>1. x \in Wallet
    BY <1>0, <1>2 DEF EnsureOwner, Controlled, ControlledAt, Known
  <2>2. members' = [members EXCEPT ![x][x] = role]
    BY <1>2 DEF EnsureOwner
  <2>3. role \in Role \cup {"none"}
    BY <1>0, <2>1
  <2> HIDE DEF x
  <2>4. /\ members' \in [Wallet -> [Wallet -> Role \cup {"none"}]]
        /\ members'[w][u] = members[w][u] \/ (w = x /\ u = x /\ members'[w][u] = role)
    <3> HIDE DEF role
    <3> QED
      BY <1>1, <2>2, <2>3
  <2> QED
    BY <2>4
<1>3. ASSUME NEW b \in Browser, AcceptInvitation(b)
      PROVE  Goal
  <2> DEFINE i == req[b].invite
             x == req[b].wallet
  <2>1. CASE /\ Acceptable(i, x) /\ invites' = [invites EXCEPT ![i].status = "accepted"]
             /\ members' = [members EXCEPT ![invites[i].workspace][x] = invites[i].role]
    <3>1. i \in Invitation
      BY <1>0, <1>3 DEF AcceptInvitation, Controlled, ControlledAt, TeamOps
    <3> HIDE DEF i, x
    <3>2. invites[i] \in InviteType
      BY <1>0, <3>1
    <3>3. invites[i].role \in Role \cup {"none"} /\ invites'[i].status = "accepted"
      BY <1>0, <2>1, <3>1, <3>2 DEF InviteType
    <3> QED
      BY <1>1, <2>1, <3>1, <3>3
  <2>2. CASE UNCHANGED members
    BY <1>0, <2>2
  <2> QED
    BY <1>3, <2>1, <2>2 DEF AcceptInvitation
<1>4. ASSUME NEW b \in Browser, SetRole(b)
      PROVE  Goal
  <2> DEFINE v == req[b].workspace
             x == req[b].subject
  <2>1. req[b].role \in GivenRole
    BY <1>0, <1>4 DEF SetRole, Controlled, ControlledAt
  <2>2. CASE GivesRole(v, x) /\ members' = [members EXCEPT ![v][x] = req[b].role]
    BY <1>0, <1>1, <2>1, <2>2 DEF GivesRole
  <2>3. CASE UNCHANGED members
    BY <1>0, <2>3
  <2> QED
    BY <1>4, <2>2, <2>3 DEF SetRole
<1>5. ASSUME NEW b \in Browser, RemoveMember(b)
      PROVE  Goal
  <2> DEFINE v == req[b].workspace
             x == req[b].subject
  <2>1. CASE Removable(v, x) /\ members' = [members EXCEPT ![v][x] = "none"]
    BY <1>0, <1>1, <2>1 DEF Removable
  <2>2. CASE UNCHANGED members
    BY <1>0, <2>2
  <2> QED
    BY <1>5, <2>1, <2>2 DEF RemoveMember
<1>6. UNCHANGED members => Goal
  BY <1>0
<1> HIDE DEF Goal
<1> QED
  BY <1>2, <1>3, <1>4, <1>5, <1>6, MembersStep

\* How one challenge changes: what is signed stays signed by the same wallet,
\* what is used stays used, and it is used up by the request that carries it.
LEMMA ChallengeChanges ==
  ASSUME Typed, [Next]_vars, NEW n \in Challenge
  PROVE  /\ challenges' \in [Challenge -> ChallengeType]
         /\ challenges[n].signed => /\ challenges'[n].signed
                                    /\ challenges'[n].wallet = challenges[n].wallet
         /\ challenges[n].used => challenges'[n].used
<1> DEFINE Goal == /\ challenges' \in [Challenge -> ChallengeType]
                   /\ challenges[n].signed => /\ challenges'[n].signed
                                              /\ challenges'[n].wallet = challenges[n].wallet
                   /\ challenges[n].used => challenges'[n].used
<1> SUFFICES Goal
  OBVIOUS
<1>0. /\ challenges \in [Challenge -> ChallengeType] /\ challenges[n] \in ChallengeType
      /\ \A b \in Browser : req[b] \in RequestType /\ Controlled(req[b])
  BY DEF Typed
<1>1. ASSUME NEW c, NEW new, challenges' = [challenges EXCEPT ![c] = new],
             c \in Challenge =>
               /\ new \in ChallengeType
               /\ challenges[c].signed => new.signed /\ new.wallet = challenges[c].wallet
               /\ challenges[c].used => new.used
      PROVE  Goal
  <2>1. challenges' \in [Challenge -> ChallengeType]
    BY <1>0, <1>1
  <2>2. challenges'[n] = challenges[n] \/ (n = c /\ challenges'[n] = new)
    BY <1>0, <1>1
  <2> QED
    BY <1>1, <2>1, <2>2
<1>2. ASSUME NEW b \in Browser, CreateChallenge(b)
      PROVE  Goal
  <2>1. PICK c \in Challenge : /\ challenges[c] = NoChallenge
                               /\ challenges' = [challenges EXCEPT ![c].wallet = req[b].wallet]
    BY <1>2 DEF CreateChallenge
  <2> DEFINE new == [challenges[c] EXCEPT !.wallet = req[b].wallet]
  <2>2. challenges' = [challenges EXCEPT ![c] = new]
    BY <2>1
  <2>3. /\ challenges[c].signed = FALSE /\ challenges[c].used = FALSE
        /\ challenges[c] \in ChallengeType /\ req[b].wallet \in Name
    BY <1>0, <2>1 DEF NoChallenge, RequestType, ChallengeType
  <2>4. new \in ChallengeType
    BY <2>3 DEF ChallengeType
  <2> HIDE DEF new, Goal
  <2> QED
    BY <1>1, <2>2, <2>3, <2>4
<1>3. ASSUME NEW b \in Browser, SignMessage(b)
      PROVE  Goal
  <2> DEFINE c == req[b].challenge
             new == [challenges[c] EXCEPT !.signed = TRUE]
  <2>1. CASE challenges' = [challenges EXCEPT ![c].signed = TRUE]
    <3>1. challenges' = [challenges EXCEPT ![c] = new]
      BY <2>1
    <3>2. c \in Challenge =>
            /\ new \in ChallengeType /\ new.signed /\ new.wallet = challenges[c].wallet
            /\ new.used = challenges[c].used
      BY <1>0 DEF ChallengeType
    <3> HIDE DEF c, new, Goal
    <3> QED
      BY <1>1, <3>1, <3>2
  <2>2. CASE UNCHANGED challenges
    BY <1>0, <2>2
  <2> QED
    BY <1>3, <2>1, <2>2 DEF SignMessage
<1>4. ASSUME NEW b \in Browser, ConsumeChallenge(b)
      PROVE  Goal
  <2> DEFINE c == req[b].challenge
             new == [challenges[c] EXCEPT !.used = TRUE]
  <2>1. CASE challenges' = [challenges EXCEPT ![c].used = TRUE]
    <3>1. challenges' = [challenges EXCEPT ![c] = new]
      BY <2>1
    <3>2. c \in Challenge =>
            /\ new \in ChallengeType /\ new.used /\ new.wallet = challenges[c].wallet
            /\ new.signed = challenges[c].signed
      BY <1>0 DEF ChallengeType
    <3> HIDE DEF c, new, Goal
    <3> QED
      BY <1>1, <3>1, <3>2
  <2>2. CASE UNCHANGED challenges
    BY <1>0, <2>2
  <2> QED
    BY <1>4, <2>1, <2>2 DEF ConsumeChallenge
<1>5. ASSUME NEW c \in Challenge, ChallengeExpires(c)
      PROVE  Goal
  <2> DEFINE new == [challenges[c] EXCEPT !.due = TRUE]
  <2>1. challenges' = [challenges EXCEPT ![c] = new]
    BY <1>5 DEF ChallengeExpires
  <2>2. /\ new \in ChallengeType /\ new.used = challenges[c].used
        /\ new.wallet = challenges[c].wallet /\ new.signed = challenges[c].signed
    BY <1>0 DEF ChallengeType
  <2> HIDE DEF new, Goal
  <2> QED
    BY <1>1, <2>1, <2>2
<1>6. UNCHANGED challenges => Goal
  BY <1>0
<1> HIDE DEF Goal
<1> QED
  BY <1>2, <1>3, <1>4, <1>5, <1>6, ChallengesStep

\* How one session changes: it keeps its wallet and the challenge that bought
\* it, and does not come to life again; or it is bought now.
LEMMA SessionChanges ==
  ASSUME Typed, [Next]_vars, NEW t \in Session
  PROVE  /\ sessions' \in [Session -> SessionType]
         /\ \/ /\ sessions'[t].wallet = sessions[t].wallet
               /\ sessions'[t].challenge = sessions[t].challenge
               /\ sessions'[t].state = "live" => sessions[t].state = "live"
               /\ sessions[t].state # "none" => sessions'[t].state # "none"
            \/ \E b \in Browser :
                 /\ CreateSession(b) /\ sessions[t] = NoSession
                 /\ sessions' = [sessions EXCEPT ![t] =
                      [wallet |-> req[b].wallet, state |-> "live", challenge |-> req[b].challenge]]
                 /\ req' = [req EXCEPT ![b].at = "welcome", ![b].token = t]
<1> DEFINE Kept == /\ sessions' \in [Session -> SessionType]
                   /\ sessions'[t].wallet = sessions[t].wallet
                   /\ sessions'[t].challenge = sessions[t].challenge
                   /\ sessions'[t].state = "live" => sessions[t].state = "live"
                   /\ sessions[t].state # "none" => sessions'[t].state # "none"
<1>0. /\ sessions \in [Session -> SessionType] /\ sessions[t] \in SessionType
      /\ \A b \in Browser : req[b] \in RequestType /\ Controlled(req[b])
  BY DEF Typed
<1>1. UNCHANGED sessions => Kept
  BY <1>0
<1>2. ASSUME NEW s, NEW state \in {"revoked", "expired"},
             sessions' = [sessions EXCEPT ![s].state = state]
      PROVE  Kept
  <2>1. ASSUME NEW x \in Session
        PROVE  [sessions[x] EXCEPT !.state = state] \in SessionType
    BY <1>0 DEF SessionType
  <2>2. sessions' = [sessions EXCEPT ![s] = [sessions[s] EXCEPT !.state = state]]
    BY <1>2
  <2>3. sessions' \in [Session -> SessionType]
    BY <1>0, <2>1, <2>2
  <2>4. \/ sessions'[t] = sessions[t]
        \/ t = s /\ sessions'[t] = [sessions[t] EXCEPT !.state = state]
    BY <1>0, <2>2
  <2> QED
    BY <1>0, <2>3, <2>4 DEF SessionType
<1>3. ASSUME NEW s, sessions' = Revoked(s)
      PROVE  Kept
  BY <1>1, <1>2, <1>3 DEF Revoked
<1> HIDE DEF Kept
<1>4. ASSUME NEW b \in Browser, Delete(b) \/ ClearAtServer(b) \/ Authenticate(b)
      PROVE  Kept
  BY <1>1, <1>3, <1>4 DEF Delete, ClearAtServer, Authenticate
<1>5. ASSUME NEW s \in Session, SessionExpires(s)
      PROVE  Kept
  BY <1>2, <1>5 DEF SessionExpires
<1>6. ASSUME NEW b \in Browser, CreateSession(b), NEW s \in Session, sessions[s] = NoSession,
             sessions' = [sessions EXCEPT ![s] =
               [wallet |-> req[b].wallet, state |-> "live", challenge |-> req[b].challenge]]
      PROVE  /\ sessions' \in [Session -> SessionType]
             /\ t # s => Kept
  <2> DEFINE new == [wallet |-> req[b].wallet, state |-> "live", challenge |-> req[b].challenge]
  <2>1. new \in SessionType
    BY <1>0 DEF SessionType, RequestType
  <2>2. sessions' = [sessions EXCEPT ![s] = new]
    BY <1>6
  <2> HIDE DEF new
  <2>3. sessions' \in [Session -> SessionType]
    BY <1>0, <2>1, <2>2
  <2>4. t # s => sessions'[t] = sessions[t]
    BY <1>0, <2>2
  <2> QED
    BY <2>3, <2>4 DEF Kept
<1>7. CASE \E b \in Browser : CreateSession(b)
  <2>1. PICK b \in Browser, s \in Session :
          /\ CreateSession(b) /\ sessions[s] = NoSession
          /\ sessions' = [sessions EXCEPT ![s] =
               [wallet |-> req[b].wallet, state |-> "live", challenge |-> req[b].challenge]]
          /\ req' = [req EXCEPT ![b].at = "welcome", ![b].token = s]
    BY <1>7 DEF CreateSession
  <2> QED
    BY <1>6, <2>1 DEF Kept
<1>8. CASE ~\E b \in Browser : CreateSession(b)
  <2>1. Kept
    BY <1>1, <1>4, <1>5, <1>8, SessionsStep
  <2> QED
    BY <2>1 DEF Kept
<1> QED
  BY <1>7, <1>8

\* Cookies, accounts and pages keep their types.
LEMMA PagesStep ==
  ASSUME Typed, [Next]_vars
  PROVE  /\ acct' \in [Browser -> Wallet] /\ jar' \in [Browser -> 0..MaxSession]
         /\ chosen' \in [Browser -> Name] /\ shown' \in [Browser -> {Nothing} \cup OverviewType]
<1>0. /\ acct \in [Browser -> Wallet] /\ jar \in [Browser -> 0..MaxSession]
      /\ chosen \in [Browser -> Name] /\ shown \in [Browser -> {Nothing} \cup OverviewType]
      /\ \A b \in Browser : req[b] \in RequestType /\ Controlled(req[b])
      /\ members \in [Wallet -> [Wallet -> Role \cup {"none"}]]
      /\ 0 \in 0..MaxSession /\ Account \subseteq Wallet
  BY AccessAssumption DEF Typed
<1>1. ASSUME NEW b \in Browser
      PROVE  /\ SignedIn(b) => jar' = [jar EXCEPT ![b] = req[b].token] /\ UNCHANGED <<acct, chosen>>
             /\ Deleted(b) \/ Cleared(b) => (\E t \in {0, jar[b]} : jar' = [jar EXCEPT ![b] = t])
                                            /\ UNCHANGED <<acct, chosen>>
             /\ ChangeAccount(b) => (\E u \in Account : acct' = [acct EXCEPT ![b] = u])
                                    /\ UNCHANGED <<jar, chosen>>
             /\ SwitchWorkspace(b) => chosen' = [chosen EXCEPT ![b] = req[b].workspace]
                                      /\ UNCHANGED <<acct, jar>>
  BY DEF SignedIn, Deleted, Cleared, ChangeAccount, SwitchWorkspace, tables
<1>2. ASSUME NEW b \in Browser
      PROVE  req[b].token \in 0..MaxSession /\ req[b].workspace \in Name /\ jar[b] \in 0..MaxSession
  BY <1>0 DEF RequestType
<1>3. ASSUME NEW b \in Browser, NEW u \in Account, acct' = [acct EXCEPT ![b] = u]
      PROVE  acct' \in [Browser -> Wallet]
  BY <1>0, <1>3
<1>4. ASSUME NEW b \in Browser, NEW t \in 0..MaxSession, jar' = [jar EXCEPT ![b] = t]
      PROVE  jar' \in [Browser -> 0..MaxSession]
  BY <1>0, <1>4
<1>5. ASSUME NEW b \in Browser, NEW w \in Name, chosen' = [chosen EXCEPT ![b] = w]
      PROVE  chosen' \in [Browser -> Name]
  BY <1>0, <1>5
<1>6. /\ acct' \in [Browser -> Wallet] /\ jar' \in [Browser -> 0..MaxSession]
      /\ chosen' \in [Browser -> Name]
  BY <1>0, <1>1, <1>2, <1>3, <1>4, <1>5, CookiesStep
<1>7. ASSUME NEW b \in Browser, LoadDetails(b)
      PROVE  shown' \in [Browser -> {Nothing} \cup OverviewType]
  <2> DEFINE u == req[b].wallet
             w == req[b].workspace
  <2>1. w \in Wallet /\ u \in Wallet
    BY <1>0, <1>7 DEF LoadDetails, Controlled, ControlledAt, Known
  <2>2. members[w][u] \in Role \cup {"none"}
    BY <1>0, <2>1
  <2>3. Overview(u, w) \in OverviewType
    BY <2>1, <2>2 DEF Overview, OverviewType
  <2>4. shown' = shown \/ shown' = [shown EXCEPT ![b] = Overview(u, w)]
    BY <1>7 DEF LoadDetails
  <2> HIDE DEF u, w
  <2> QED
    BY <1>0, <2>3, <2>4
<1>8. ASSUME NEW b \in Browser, shown' = [shown EXCEPT ![b] = Nothing]
      PROVE  shown' \in [Browser -> {Nothing} \cup OverviewType]
  BY <1>0, <1>8
<1>9. shown' \in [Browser -> {Nothing} \cup OverviewType]
  BY <1>0, <1>7, <1>8, ShownStep DEF Deleted, Cleared, OpenPage
<1> QED
  BY <1>6, <1>9

-----------------------------------------------------------------------------
(* The invariant is kept. *)

\* An owner is never lost, whoever manages the team.
LEMMA OwnersStay ==
  ASSUME Typed, Invited, [Next]_vars, NEW w, Owned(w)
  PROVE  Owned(w)'
<1>1. w \in Wallet /\ members[w][w] = "owner"
  BY DEF Owned
<1>2. ASSUME NEW i \in Invitation, Acceptable(i, w), invites[i].workspace = w
      PROVE  FALSE
  BY <1>2 DEF Acceptable, Invited
<1>3. members'[w][w] = "owner"
  BY <1>1, <1>2, MembershipChanges
<1> QED
  BY <1>1, <1>3 DEF Owned

\* A workspace keeps its owner, and gets no other.
LEMMA OwnersStep ==
  ASSUME Typed, Invited, SignersOwnTheirWorkspace, [Next]_vars
  PROVE  SignersOwnTheirWorkspace'
<1> SUFFICES ASSUME NEW w \in Wallet, NEW u \in Wallet, members'[w][u] # "none"
             PROVE  members'[w][w] = "owner" /\ (u # w => members'[w][u] # "owner")
  BY DEF SignersOwnTheirWorkspace, Member
<1>0. "none" \notin GivenRole /\ "owner" \notin GivenRole
  BY DEF GivenRole, Role
<1>1. ASSUME Owned(w)
      PROVE  members'[w][w] = "owner"
  BY <1>1, OwnersStay DEF Owned
<1>2. members[w][u] # "none" => Owned(w) /\ (u # w => members[w][u] # "owner")
  BY DEF SignersOwnTheirWorkspace, Member, Owned
<1>3. CASE members'[w][u] = members[w][u]
  BY <1>1, <1>2, <1>3
<1>4. CASE w = u /\ members[w][u] = "none" /\ members'[w][u] = "owner"
  BY <1>4
<1>5. CASE \E i \in Invitation : /\ Acceptable(i, u) /\ invites[i].workspace = w
                                 /\ members'[w][u] = invites[i].role
  BY <1>0, <1>1, <1>5 DEF Acceptable, Invited
<1>6. CASE members[w][u] \notin {"none", "owner"} /\ members'[w][u] \in GivenRole \cup {"none"}
  BY <1>0, <1>1, <1>2, <1>6
<1> QED
  BY <1>3, <1>4, <1>5, <1>6, MembershipChanges

OwnedNext(w) == w \in Wallet /\ members'[w][w] = "owner"

\* What is being invited to has its owner.
LEMMA InvitingStep ==
  ASSUME Typed, LiveSessions, Invited, Inviting, SignersOwnTheirWorkspace, [Next]_vars
  PROVE  Inviting'
<1> SUFFICES ASSUME NEW b \in Browser, req'[b].at \in {"invite", "insert"}
             PROVE  OwnedNext(req'[b].workspace) /\ req'[b].subject # req'[b].workspace
  BY DEF Inviting, Owned, OwnedNext
<1>0. /\ req \in [Browser -> RequestType] /\ req[b] \in RequestType /\ Controlled(req[b])
      /\ members \in [Wallet -> [Wallet -> Role \cup {"none"}]] /\ Idle.at = "idle"
  BY IdleTyped DEF Typed
<1>1. CASE req'[b] = req[b]
  <2>1. Owned(req[b].workspace) /\ req[b].subject # req[b].workspace
    BY <1>1 DEF Inviting
  <2>2. OwnedNext(req[b].workspace)
    <3> DEFINE w == req[b].workspace
    <3>1. Owned(w)
      BY <2>1
    <3>2. w \in Wallet /\ members'[w][w] = "owner"
      <4> HIDE DEF w
      <4> QED
        BY <3>1, OwnersStay DEF Owned
    <3> QED
      BY <1>1, <3>2 DEF OwnedNext
  <2> QED
    BY <1>1, <2>1, <2>2
<1>2. ASSUME NEW w, w = req[b].workspace, Owned(w), req[b].subject # w,
             NEW at \in At, Goto(b, at)
      PROVE  OwnedNext(req'[b].workspace) /\ req'[b].subject # req'[b].workspace
  <2>1. req'[b].workspace = w /\ req'[b].subject = req[b].subject
    BY <1>0, <1>2, GoesOn
  <2>2. members'[w][w] = "owner" /\ w \in Wallet
    BY <1>2, OwnersStay DEF Owned
  <2> QED
    BY <1>2, <2>1, <2>2 DEF OwnedNext
<1>3. ASSUME Fail(b)
      PROVE  FALSE
  BY <1>0, <1>3 DEF Fail, Finish
<1>4. CASE CheckAccess(b)
  <2>1. /\ Goto(b, req[b].op) /\ req[b].at = "access" /\ req[b].op \in TeamOps
        /\ TeamPermission(req[b].op) \in Permissions(members[req[b].workspace][req[b].wallet])
        /\ req[b].op \in {"invite", "remove"} => req[b].subject # req[b].workspace
    BY <1>0, <1>3, <1>4 DEF CheckAccess, Controlled, ControlledAt
  <2>2. req[b].op \in At
    BY <2>1 DEF At
  <2>3. req'[b].at = req[b].op
    BY <1>0, <2>1, <2>2, GoesOn
  <2>4. req[b].op = "invite"
    BY <2>1, <2>3 DEF TeamOps
  <2>5. req[b].workspace \in Wallet /\ req[b].wallet \in Wallet
    BY <1>0, <2>1 DEF Controlled, ControlledAt, Known
  <2>6. members[req[b].workspace][req[b].wallet] # "none"
    <3>1. Permissions("none") = {}
      BY DEF Permissions
    <3> QED
      BY <2>1, <3>1
  <2>7. Owned(req[b].workspace)
    BY <2>5, <2>6 DEF SignersOwnTheirWorkspace, Member, Owned
  <2> QED
    BY <1>2, <2>1, <2>2, <2>4, <2>7
<1>5. CASE CheckInvited(b)
  <2>1. Goto(b, "insert") /\ req[b].at = "invite" /\ "insert" \in At
    BY <1>3, <1>5 DEF CheckInvited, At
  <2> QED
    BY <1>2, <2>1 DEF Inviting
<1>6. CASE Login(b)
  <2>1. Goto(b, "consume") /\ "consume" \in At
    BY <1>3, <1>6 DEF Login, At
  <2> QED
    BY <2>1, GoesOn, <1>0
<1>7. CASE ConsumeChallenge(b)
  <2>1. Goto(b, "mint") /\ "mint" \in At
    BY <1>3, <1>7 DEF ConsumeChallenge, At
  <2> QED
    BY <2>1, GoesOn, <1>0
<1>8. CASE CreateSession(b)
  <2>1. PICK t : req' = [req EXCEPT ![b].at = "welcome", ![b].token = t]
    BY <1>8 DEF CreateSession
  <2>2. req'[b].at = "welcome"
    BY <1>0, <2>1 DEF RequestType
  <2> QED
    BY <2>2
<1> QED
  BY <1>1, <1>4, <1>5, <1>6, <1>7, <1>8, RequestStep DEF Critical, Advances

\* A pending invitation leads to the workspace of somebody else.
LEMMA InvitedStep ==
  ASSUME Typed, Invited, Inviting, [Next]_vars
  PROVE  Invited'
<1> SUFFICES ASSUME NEW i \in Invitation, invites'[i].status = "pending"
             PROVE  /\ OwnedNext(invites'[i].workspace)
                    /\ invites'[i].workspace # invites'[i].wallet
                    /\ invites'[i].role \in GivenRole
  BY DEF Invited, Pending, Owned, OwnedNext
<1>1. ASSUME NEW w, Owned(w)
      PROVE  w \in Wallet /\ members'[w][w] = "owner"
  BY <1>1, OwnersStay DEF Owned
<1>2. CASE Pending(i) /\ invites'[i].workspace = invites[i].workspace
           /\ invites'[i].wallet = invites[i].wallet /\ invites'[i].role = invites[i].role
  BY <1>1, <1>2 DEF Invited, OwnedNext
<1>3. ASSUME NEW b \in Browser, req[b].at = "insert", invites'[i].workspace = req[b].workspace,
             invites'[i].wallet = req[b].subject, invites'[i].role = req[b].role
      PROVE  /\ OwnedNext(invites'[i].workspace)
             /\ invites'[i].workspace # invites'[i].wallet
             /\ invites'[i].role \in GivenRole
  <2>1. req[b].role \in GivenRole
    BY <1>3 DEF Typed, Controlled, ControlledAt
  <2>2. Owned(req[b].workspace) /\ req[b].subject # req[b].workspace
    BY <1>3 DEF Inviting
  <2> QED
    BY <1>1, <1>3, <2>1, <2>2 DEF OwnedNext
<1>4. invites'[i] = invites[i] => Pending(i)
  BY DEF Pending
<1> QED
  BY <1>2, <1>3, <1>4, InvitationChanges

\* Live sessions have wallets, and cookies have sessions.
LEMMA CookieSessionsStep ==
  ASSUME Typed, LiveSessions, Cookies, [Next]_vars
  PROVE  LiveSessions' /\ Cookies'
<1>0. /\ \A b \in Browser : req[b] \in RequestType /\ Controlled(req[b])
      /\ req \in [Browser -> RequestType] /\ jar \in [Browser -> 0..MaxSession]
      /\ sessions \in [Session -> SessionType]
      /\ Session = 1..MaxSession /\ MaxSession \in Nat
  BY AccessAssumption DEF Typed, Session
<1>1. ASSUME NEW t \in Session, NEW b \in Browser, CreateSession(b),
             sessions' = [sessions EXCEPT ![t] =
               [wallet |-> req[b].wallet, state |-> "live", challenge |-> req[b].challenge]]
      PROVE  sessions'[t].wallet \in Wallet /\ sessions'[t].state = "live"
  <2>1. req[b].wallet \in Wallet
    BY <1>0, <1>1 DEF CreateSession, Controlled, ControlledAt, Known
  <2> QED
    BY <1>0, <1>1, <2>1
<1>2. ASSUME NEW t \in Session
      PROVE  /\ sessions'[t].state = "live" => sessions'[t].wallet \in Wallet
             /\ sessions[t].state # "none" => sessions'[t].state # "none"
  BY <1>1, SessionChanges DEF LiveSessions
<1>3. ASSUME NEW b \in Browser, jar'[b] # 0
      PROVE  sessions'[jar'[b]].state # "none"
  <2>1. \/ jar'[b] = jar[b]
        \/ SignedIn(b) /\ jar'[b] = req[b].token
    <3>1. ASSUME NEW d \in Browser, Deleted(d) \/ Cleared(d)
          PROVE  jar'[b] = jar[b]
      BY <1>0, <1>3, <3>1 DEF Deleted, Cleared
    <3>2. ASSUME NEW d \in Browser, ChangeAccount(d) \/ SwitchWorkspace(d)
          PROVE  jar'[b] = jar[b]
      BY <3>2 DEF ChangeAccount, SwitchWorkspace
    <3>3. ASSUME NEW d \in Browser, SignedIn(d)
          PROVE  jar'[b] = jar[b] \/ (SignedIn(b) /\ jar'[b] = req[b].token)
      <4>1. jar' = [jar EXCEPT ![d] = req[d].token]
        BY <3>3 DEF SignedIn
      <4> QED
        BY <1>0, <3>3, <4>1
    <3> QED
      BY <3>1, <3>2, <3>3, CookiesStep
  <2>2. CASE jar'[b] = jar[b]
    BY <1>0, <1>2, <1>3, <2>2 DEF Cookies
  <2>3. CASE SignedIn(b) /\ jar'[b] = req[b].token
    BY <1>0, <1>2, <1>3, <2>3 DEF Cookies, SignedIn
  <2> QED
    BY <2>1, <2>2, <2>3
<1>4. ASSUME NEW b \in Browser, req'[b].at = "welcome"
      PROVE  req'[b].token \in Session /\ sessions'[req'[b].token].state # "none"
  <2>1. CASE req'[b] = req[b]
    BY <1>2, <1>4, <2>1 DEF Cookies
  <2>2. CASE CreateSession(b)
    <3>1. PICK t \in Session :
            /\ sessions' = [sessions EXCEPT ![t] =
                 [wallet |-> req[b].wallet, state |-> "live", challenge |-> req[b].challenge]]
            /\ req' = [req EXCEPT ![b].at = "welcome", ![b].token = t]
      BY <2>2 DEF CreateSession
    <3>2. req'[b].token = t
      BY <1>0, <3>1 DEF RequestType
    <3> QED
      BY <1>1, <2>2, <3>1, <3>2
  <2>3. ASSUME NEW at \in At, Goto(b, at), at # "welcome"
        PROVE  FALSE
    BY <1>0, <1>4, <2>3, GoesOn
  <2>4. ~Fail(b)
    BY <1>0, <1>4, IdleTyped DEF Fail, Finish
  <2>5. ASSUME CheckAccess(b)
        PROVE  FALSE
    <3>1. req[b].op \in TeamOps
      BY <1>0, <2>5 DEF CheckAccess, Controlled, ControlledAt
    <3>2. req[b].op \in At /\ req[b].op # "welcome"
      BY <3>1 DEF At, TeamOps
    <3> QED
      BY <2>3, <2>4, <2>5, <3>2 DEF CheckAccess
  <2>6. ASSUME CheckInvited(b) \/ Login(b) \/ ConsumeChallenge(b)
        PROVE  FALSE
    BY <2>3, <2>4, <2>6 DEF CheckInvited, Login, ConsumeChallenge, At
  <2> QED
    BY <1>4, <2>1, <2>2, <2>5, <2>6, RequestStep DEF Critical, Advances
<1>5. LiveSessions'
  BY <1>2 DEF LiveSessions
<1> QED
  BY <1>3, <1>4, <1>5 DEF Cookies

\* What a critical step of a sign-in leaves behind.
LEMMA SigningSteps ==
  ASSUME Typed, LiveSessions, [Next]_vars, NEW b \in Browser,
         req'[b].at \in {"consume", "mint"}, req'[b] # req[b]
  PROVE  /\ req'[b].challenge = req[b].challenge /\ req'[b].wallet = req[b].wallet
         /\ \/ /\ req'[b].at = "consume" /\ Usable(req[b].challenge, req[b].wallet)
            \/ /\ req'[b].at = "mint" /\ req[b].at = "consume" /\ ~challenges[req[b].challenge].used
               /\ challenges' = [challenges EXCEPT ![req[b].challenge].used = TRUE]
               /\ UNCHANGED sessions
               /\ \A d \in Browser \ {b} : req'[d] = req[d]
<1>0. /\ req \in [Browser -> RequestType] /\ req[b] \in RequestType /\ Controlled(req[b])
      /\ Idle.at = "idle"
  BY IdleTyped DEF Typed
<1>1. ~Fail(b)
  BY <1>0 DEF Fail, Finish
<1>2. ASSUME NEW at \in At, Goto(b, at)
      PROVE  /\ req'[b].at = at /\ req'[b].challenge = req[b].challenge
             /\ req'[b].wallet = req[b].wallet
             /\ \A d \in Browser \ {b} : req'[d] = req[d]
  BY <1>0, <1>2, GoesOn
<1>3. CASE CheckAccess(b)
  <2>1. Goto(b, req[b].op) /\ req[b].op \in TeamOps
    BY <1>0, <1>1, <1>3 DEF CheckAccess, Controlled, ControlledAt
  <2>2. req'[b].at \in TeamOps
    BY <1>2, <2>1, IdleTyped
  <2> QED
    BY <2>2 DEF TeamOps
<1>4. CASE CheckInvited(b)
  BY <1>1, <1>2, <1>4 DEF CheckInvited, At
<1>5. CASE Login(b)
  BY <1>1, <1>2, <1>5 DEF Login, At
<1>6. CASE ConsumeChallenge(b)
  BY <1>1, <1>2, <1>6 DEF ConsumeChallenge, At, Consumable
<1>7. CASE CreateSession(b)
  <2>1. PICK t : req' = [req EXCEPT ![b].at = "welcome", ![b].token = t]
    BY <1>7 DEF CreateSession
  <2>2. req'[b].at = "welcome"
    BY <1>0, <2>1 DEF RequestType
  <2> QED
    BY <2>2
<1> QED
  BY <1>3, <1>4, <1>5, <1>6, <1>7, RequestStep DEF Critical, Advances

\* A challenge that is signed, or used, stays so; and its wallet with it.
LEMMA SpentStays ==
  ASSUME Typed, LiveSessions, Signing, OneSessionPerSignature, [Next]_vars,
         NEW t \in Session, sessions'[t].challenge # 0
  PROVE  \/ /\ sessions[t].challenge = sessions'[t].challenge
            /\ sessions[t].wallet = sessions'[t].wallet
         \/ \E d \in Browser :
              /\ req[d].at = "mint" /\ req'[d].at = "welcome"
              /\ sessions'[t].challenge = req[d].challenge /\ sessions'[t].wallet = req[d].wallet
              /\ \A s \in Session \ {t} : sessions'[s] = sessions[s]
              /\ UNCHANGED challenges
<1>1. req \in [Browser -> RequestType] /\ sessions \in [Session -> SessionType]
  BY DEF Typed
<1>2. ASSUME NEW d \in Browser, CreateSession(d),
             sessions' = [sessions EXCEPT ![t] =
               [wallet |-> req[d].wallet, state |-> "live", challenge |-> req[d].challenge]],
             req' = [req EXCEPT ![d].at = "welcome", ![d].token = t]
      PROVE  /\ req[d].at = "mint" /\ req'[d].at = "welcome"
             /\ sessions'[t].challenge = req[d].challenge /\ sessions'[t].wallet = req[d].wallet
             /\ \A s \in Session \ {t} : sessions'[s] = sessions[s]
             /\ UNCHANGED challenges
  <2>1. req[d] \in RequestType
    BY <1>1
  <2>2. req'[d].at = "welcome"
    BY <1>1, <1>2, <2>1 DEF RequestType
  <2>3. sessions'[t] = [wallet |-> req[d].wallet, state |-> "live", challenge |-> req[d].challenge]
        /\ \A s \in Session \ {t} : sessions'[s] = sessions[s]
    BY <1>1, <1>2
  <2>4. req[d].at = "mint" /\ UNCHANGED challenges
    BY <1>2 DEF CreateSession
  <2> QED
    BY <2>2, <2>3, <2>4
<1> QED
  BY <1>2, SessionChanges

\* A signature is on its way to one session, and has bought one at most.
LEMMA SignaturesStep ==
  ASSUME Typed, LiveSessions, Signing, OneSessionPerSignature, [Next]_vars
  PROVE  Signing' /\ OneSessionPerSignature'
<1>0. /\ \A b \in Browser : req[b] \in RequestType /\ Controlled(req[b])
      /\ challenges \in [Challenge -> ChallengeType]
      /\ sessions \in [Session -> SessionType]
      /\ Challenge = 1..MaxChallenge /\ MaxChallenge \in Nat
  BY AccessAssumption DEF Typed, Challenge
<1>1. ASSUME NEW b \in Browser, req[b].at \in {"login", "consume", "mint"}
      PROVE  req[b].challenge \in Challenge
  BY <1>0, <1>1 DEF Controlled, ControlledAt
<1>2. ASSUME NEW n \in Challenge
      PROVE  /\ challenges[n].signed => challenges'[n].signed
                                        /\ challenges'[n].wallet = challenges[n].wallet
             /\ challenges[n].used => challenges'[n].used
  BY <1>2, ChallengeChanges
<1>3. ASSUME NEW t \in Session, sessions[t].challenge # 0
      PROVE  /\ sessions[t].challenge \in Challenge
             /\ challenges[sessions[t].challenge].signed /\ challenges[sessions[t].challenge].used
             /\ challenges[sessions[t].challenge].wallet = sessions[t].wallet
             /\ \A s \in Session \ {t} : sessions[s].challenge # sessions[t].challenge
  <2>1. sessions[t].challenge \in 0..MaxChallenge
    BY <1>0 DEF SessionType
  <2> QED
    BY <1>0, <1>3, <2>1 DEF OneSessionPerSignature
<1>4. ASSUME NEW b \in Browser, req[b].at \in {"consume", "mint"}
      PROVE  /\ challenges[req[b].challenge].signed
             /\ challenges[req[b].challenge].wallet = req[b].wallet
  BY <1>4 DEF Signing
<1>5. ASSUME NEW b \in Browser, req[b].at = "mint"
      PROVE  /\ challenges[req[b].challenge].used
             /\ \A t \in Session : sessions[t].challenge # req[b].challenge
             /\ \A d \in Browser \ {b} : req[d].at = "mint" => req[d].challenge # req[b].challenge
  BY <1>5 DEF Signing
<1>6. ASSUME NEW b \in Browser, req'[b].at \in {"consume", "mint"}
      PROVE  /\ challenges'[req'[b].challenge].signed
             /\ challenges'[req'[b].challenge].wallet = req'[b].wallet
  <2>1. CASE req'[b] = req[b]
    BY <1>1, <1>2, <1>4, <1>6, <2>1
  <2>2. CASE req'[b] # req[b]
    <3>1. /\ req'[b].challenge = req[b].challenge /\ req'[b].wallet = req[b].wallet
          /\ Usable(req[b].challenge, req[b].wallet) \/ req[b].at = "consume"
      BY <1>6, <2>2, SigningSteps
    <3>2. /\ challenges[req[b].challenge].signed
          /\ challenges[req[b].challenge].wallet = req[b].wallet
      BY <1>4, <3>1 DEF Usable
    <3>3. req[b].challenge \in Challenge
      <4>1. req'[b] \in RequestType /\ Controlled(req'[b])
        BY RequestStep
      <4> QED
        BY <1>6, <3>1, <4>1 DEF Controlled, ControlledAt
    <3> QED
      BY <1>2, <3>1, <3>2, <3>3
  <2> QED
    BY <2>1, <2>2
<1>7. ASSUME NEW b \in Browser, req'[b].at = "mint"
      PROVE  /\ challenges'[req'[b].challenge].used
             /\ \A t \in Session : sessions'[t].challenge # req'[b].challenge
             /\ \A d \in Browser \ {b} : req'[d].at = "mint" => req'[d].challenge # req'[b].challenge
  <2>1. CASE req'[b] = req[b]
    <3>1. challenges'[req[b].challenge].used
      BY <1>1, <1>2, <1>5, <1>7, <2>1
    <3>2. ASSUME NEW t \in Session, sessions'[t].challenge = req[b].challenge
          PROVE  FALSE
      <4>1. sessions'[t].challenge # 0
        BY <1>0, <1>1, <1>7, <2>1, <3>2
      <4>2. sessions[t].challenge # req[b].challenge
        BY <1>5, <1>7, <2>1
      <4>3. PICK d \in Browser : /\ req[d].at = "mint" /\ req'[d].at = "welcome"
                                 /\ sessions'[t].challenge = req[d].challenge
        BY <3>2, <4>1, <4>2, SpentStays
      <4>4. d # b
        BY <1>7, <2>1, <4>3
      <4> QED
        BY <1>5, <1>7, <2>1, <3>2, <4>3, <4>4
    <3>3. ASSUME NEW d \in Browser \ {b}, req'[d].at = "mint",
                 req'[d].challenge = req'[b].challenge
          PROVE  FALSE
      <4>1. req'[d] # req[d]
        BY <1>5, <1>7, <2>1, <3>3
      <4>2. ~challenges[req[d].challenge].used /\ req'[d].challenge = req[d].challenge
        BY <3>3, <4>1, SigningSteps
      <4>3. challenges[req[b].challenge].used
        BY <1>5, <1>7, <2>1
      <4> QED
        BY <2>1, <3>3, <4>2, <4>3
    <3> QED
      BY <2>1, <3>1, <3>2, <3>3
  <2>2. CASE req'[b] # req[b]
    <3> DEFINE c == req[b].challenge
    <3>1. /\ req'[b].challenge = c /\ req[b].at = "consume" /\ ~challenges[c].used
          /\ challenges' = [challenges EXCEPT ![c].used = TRUE]
          /\ UNCHANGED sessions
          /\ \A d \in Browser \ {b} : req'[d] = req[d]
      BY <1>7, <2>2, SigningSteps
    <3>2. c \in Challenge /\ challenges[c] \in ChallengeType
      BY <1>0, <1>1, <3>1
    <3> HIDE DEF c
    <3>3. challenges'[c].used
      BY <1>0, <3>1, <3>2 DEF ChallengeType
    <3>4. \A t \in Session : sessions'[t].challenge # c
      <4>1. ASSUME NEW t \in Session, sessions[t].challenge = c
            PROVE  FALSE
        <5>1. sessions[t].challenge # 0
          BY <1>0, <3>2, <4>1
        <5> QED
          BY <1>3, <3>1, <4>1, <5>1
      <4> QED
        BY <3>1, <4>1
    <3>5. \A d \in Browser \ {b} : req'[d].at = "mint" => req'[d].challenge # c
      BY <1>5, <3>1
    <3> QED
      BY <3>1, <3>3, <3>4, <3>5
  <2> QED
    BY <2>1, <2>2
<1>8. Signing'
  BY <1>6, <1>7 DEF Signing
<1>9. ASSUME NEW t \in Session, sessions'[t].challenge # 0
      PROVE  /\ challenges'[sessions'[t].challenge].signed
             /\ challenges'[sessions'[t].challenge].used
             /\ challenges'[sessions'[t].challenge].wallet = sessions'[t].wallet
  <2>1. CASE /\ sessions[t].challenge = sessions'[t].challenge
             /\ sessions[t].wallet = sessions'[t].wallet
    BY <1>2, <1>3, <1>9, <2>1
  <2>2. ASSUME NEW d \in Browser, req[d].at = "mint", sessions'[t].challenge = req[d].challenge,
               sessions'[t].wallet = req[d].wallet, UNCHANGED challenges
        PROVE  /\ challenges'[sessions'[t].challenge].signed
               /\ challenges'[sessions'[t].challenge].used
               /\ challenges'[sessions'[t].challenge].wallet = sessions'[t].wallet
    BY <1>4, <1>5, <2>2
  <2> QED
    BY <1>9, <2>1, <2>2, SpentStays
<1>10. ASSUME NEW t \in Session, sessions'[t].challenge # 0, NEW s \in Session \ {t},
              sessions'[s].challenge = sessions'[t].challenge
       PROVE  FALSE
  <2>1. ASSUME NEW x \in Session, NEW y \in Session \ {x}, NEW d \in Browser, req[d].at = "mint",
               sessions'[x].challenge = req[d].challenge, sessions'[x].challenge # 0,
               \A z \in Session \ {x} : sessions'[z] = sessions[z],
               sessions'[y].challenge = sessions'[x].challenge
        PROVE  FALSE
    BY <1>5, <2>1
  <2>2. sessions'[s].challenge # 0
    BY <1>10
  <2>3. sessions[t].challenge = sessions'[t].challenge
    BY <1>10, <2>1, SpentStays
  <2>4. sessions[s].challenge = sessions'[s].challenge
    BY <1>10, <2>1, <2>2, SpentStays
  <2> QED
    BY <1>3, <1>10, <2>3, <2>4
<1> QED
  BY <1>8, <1>9, <1>10 DEF OneSessionPerSignature

\* The inductive invariant: every scene satisfies it, and every step keeps it.
LEMMA AccessInvariant == Spec => []AccessInv
<1>1. Init => AccessInv
  <2> SUFFICES ASSUME NEW scene \in Scenes, Init, SceneOK(scene),
                      challenges = [n \in Challenge |-> NoChallenge],
                      sessions = scene.sessions, members = scene.members,
                      invites = scene.invites, acct = scene.acct, jar = scene.jar,
                      chosen = [b \in Browser |-> IF scene.jar[b] = 0 THEN "none" ELSE scene.at],
                      shown = [b \in Browser |->
                        IF scene.jar[b] = 0 THEN Nothing ELSE Overview(scene.acct[b], scene.at)],
                      req = [b \in Browser |-> Idle]
               PROVE  AccessInv
    BY AccessAssumption DEF Init
  <2>0. /\ Idle \in RequestType /\ Controlled(Idle) /\ Idle.at = "idle"
        /\ 0 \in 0..MaxChallenge
    BY IdleTyped, AccessAssumption
  <2>1. members \in [Wallet -> [Wallet -> Role \cup {"none"}]]
        /\ acct \in [Browser -> Wallet] /\ jar \in [Browser -> 0..MaxSession]
        /\ scene.at \in Wallet
    BY DEF SceneOK
  <2>2. challenges \in [Challenge -> ChallengeType]
    <3>1. NoChallenge \in ChallengeType
      BY DEF NoChallenge, ChallengeType, Name
    <3> QED
      BY <3>1
  <2>3. sessions \in [Session -> SessionType] /\ \A t \in Session : sessions[t].challenge = 0
    <3> DEFINE First0 == [wallet : Name, challenge : {0},
                          state : {"none", "live", "expired", "revoked"}]
    <3>1. sessions \in [Session -> First0]
      BY DEF SceneOK, Name
    <3>2. \A x \in First0 : x \in SessionType /\ x.challenge = 0
      BY <2>0 DEF SessionType
    <3> HIDE DEF First0
    <3> QED
      BY <3>1, <3>2
  <2>4. invites \in [Invitation -> InviteType]
    BY DEF SceneOK, InviteType, Name
  <2>5. chosen \in [Browser -> Name] /\ shown \in [Browser -> {Nothing} \cup OverviewType]
    <3>1. ASSUME NEW b \in Browser
          PROVE  Overview(scene.acct[b], scene.at) \in OverviewType
      <4>1. scene.acct[b] \in Wallet /\ members[scene.at][scene.acct[b]] \in Role \cup {"none"}
        BY <2>1
      <4> QED
        BY <2>1, <4>1 DEF Overview, OverviewType
    <3> QED
      BY <2>1, <3>1 DEF Name
  <2>6. Typed
    BY <2>0, <2>1, <2>2, <2>3, <2>4, <2>5 DEF Typed
  <2>7. LiveSessions
    <3>1. \A t \in Session : sessions[t].wallet \in Name
      BY <2>3 DEF SessionType
    <3> QED
      BY <3>1 DEF SceneOK, LiveSessions, Name
  <2>8. Cookies
    BY <2>0 DEF SceneOK, Cookies
  <2>9. SignersOwnTheirWorkspace
    BY DEF SceneOK, SignersOwnTheirWorkspace, Member
  <2>10. Invited
    <3> SUFFICES ASSUME NEW i \in Invitation, Pending(i)
                 PROVE  /\ Owned(invites[i].workspace)
                        /\ invites[i].workspace # invites[i].wallet
                        /\ invites[i].role \in GivenRole
      BY DEF Invited
    <3>1. invites[i].workspace \in Wallet \ {invites[i].wallet} /\ invites[i].role # "none"
          /\ members[invites[i].workspace][invites[i].workspace] = "owner"
      BY DEF SceneOK, Pending
    <3>2. invites[i].role \in GivenRole \cup {"none"}
      BY <2>4 DEF InviteType
    <3> QED
      BY <3>1, <3>2 DEF Owned
  <2>11. Inviting /\ Signing
    BY <2>0 DEF Inviting, Signing
  <2>12. OneSessionPerSignature
    BY <2>3 DEF OneSessionPerSignature
  <2> QED
    BY <2>6, <2>7, <2>8, <2>9, <2>10, <2>11, <2>12 DEF AccessInv
<1>2. AccessInv /\ [Next]_vars => AccessInv'
  <2> SUFFICES ASSUME AccessInv, [Next]_vars
               PROVE  AccessInv'
    OBVIOUS
  <2>1. /\ Typed /\ LiveSessions /\ Cookies /\ SignersOwnTheirWorkspace /\ Invited
        /\ Inviting /\ Signing /\ OneSessionPerSignature
    BY DEF AccessInv
  <2>2. Typed'
    <3>1. challenges' \in [Challenge -> ChallengeType]
      <4>1. 1 \in Challenge
        BY AccessAssumption DEF Challenge
      <4> QED
        BY <2>1, <4>1, ChallengeChanges
    <3>2. sessions' \in [Session -> SessionType]
      <4>1. 1 \in Session
        BY AccessAssumption DEF Session
      <4> QED
        BY <2>1, <4>1, SessionChanges
    <3>3. invites' \in [Invitation -> InviteType]
      <4>1. 1 \in Invitation
        BY AccessAssumption DEF Invitation
      <4> QED
        BY <2>1, <4>1, InvitationChanges
    <3>4. members' \in [Wallet -> [Wallet -> Role \cup {"none"}]]
      <4>1. CASE \E w : w \in Wallet
        BY <2>1, <4>1, MembershipChanges
      <4>2. CASE ~\E w : w \in Wallet
        <5>1. UNCHANGED members
          <6>1. ASSUME NEW b \in Browser
                PROVE  FALSE
            BY <2>1, <4>2 DEF Typed
          <6> QED
            BY <6>1, MembersStep
        <5> QED
          BY <2>1, <5>1 DEF Typed
      <4> QED
        BY <4>1, <4>2
    <3> QED
      BY <2>1, <3>1, <3>2, <3>3, <3>4, PagesStep, RequestStep DEF Typed
  <2>3. LiveSessions' /\ Cookies'
    BY <2>1, CookieSessionsStep
  <2>4. SignersOwnTheirWorkspace' /\ Invited' /\ Inviting'
    BY <2>1, OwnersStep, InvitedStep, InvitingStep
  <2>5. Signing' /\ OneSessionPerSignature'
    BY <2>1, SignaturesStep
  <2> QED
    BY <2>2, <2>3, <2>4, <2>5 DEF AccessInv
<1> QED
  BY <1>1, <1>2, PTL DEF Spec

-----------------------------------------------------------------------------
(* The properties. *)

\* Rows, cookies, pages and requests keep their types, and a cookie names a
\* session that was created.
THEOREM TypeCorrect == Spec => []TypeOK
<1>1. AccessInv => TypeOK
  <2> SUFFICES ASSUME AccessInv
               PROVE  TypeOK
    OBVIOUS
  <2>1. Typed /\ Cookies
    BY DEF AccessInv
  <2>2. ASSUME NEW i \in Invitation
        PROVE  /\ invites[i].role \in GivenRole \cup {"none"}
               /\ invites[i].status \in {"none", "pending", "accepted", "revoked", "expired"}
    BY <2>1 DEF Typed, InviteType
  <2>3. ASSUME NEW b \in Browser
        PROVE  jar[b] \in 0..MaxSession /\ (jar[b] # 0 => sessions[jar[b]] # NoSession)
    BY <2>1 DEF Typed, Cookies, NoSession
  <2>4. ASSUME NEW b \in Browser,
               req[b].at \notin {"idle", "prompt", "delete", "deleted", "lost", "auth", "challenge"}
        PROVE  req[b].wallet \in Wallet
    <3>1. req[b] \in RequestType /\ Controlled(req[b])
      BY <2>1 DEF Typed
    <3>2. req[b].at \in Known
      BY <2>4, <3>1 DEF RequestType, At, Known
    <3> QED
      BY <3>1, <3>2 DEF Controlled, ControlledAt
  <2> QED
    BY <2>1, <2>2, <2>3, <2>4 DEF TypeOK, Typed, ChallengeType, SessionType, Name
<1> QED
  BY <1>1, AccessInvariant, PTL

\* However often and from wherever a sign-in is sent, one signature buys one
\* session, and it is the session of the wallet that signed.
THEOREM SignaturesBuyOneSession == Spec => []OneSessionPerSignature
<1>1. AccessInv => OneSessionPerSignature
  BY DEF AccessInv
<1> QED
  BY <1>1, AccessInvariant, PTL

\* The wallet that signs for a workspace stays its only owner, whatever pages
\* that are out of date ask for.
THEOREM SignersStayOwners == Spec => []SignersOwnTheirWorkspace
<1>1. AccessInv => SignersOwnTheirWorkspace
  BY DEF AccessInv
<1> QED
  BY <1>1, AccessInvariant, PTL

\* Nobody gets into the workspace of another wallet but by accepting an
\* invitation that is pending at that moment.
THEOREM JoinsNeedInvitations == Spec => JoinsAreInvited
<1>1. ASSUME AccessInv, [Next]_vars, NEW w \in Wallet, NEW u \in Wallet,
             w # u, ~Member(w, u), members'[w][u] # "none"
      PROVE  \E i \in Invitation :
               /\ Acceptable(i, u) /\ invites[i].workspace = w
               /\ invites'[i].status = "accepted" /\ members'[w][u] = invites[i].role
  BY <1>1, MembershipChanges DEF AccessInv, Member
<1>2. AccessInv /\ [Next]_vars =>
        [\A w, u \in Wallet :
           w # u /\ ~Member(w, u) /\ members'[w][u] # "none" =>
             \E i \in Invitation :
               /\ Acceptable(i, u) /\ invites[i].workspace = w
               /\ invites'[i].status = "accepted" /\ members'[w][u] = invites[i].role]_vars
  BY <1>1
<1> QED
  BY <1>2, AccessInvariant, PTL DEF Spec, JoinsAreInvited

\* An invitation that was accepted, revoked or has run out is never touched again.
THEOREM InvitationsAreSettledOnce == Spec => InvitationsSettleOnce
<1>1. ASSUME AccessInv, [Next]_vars, NEW i \in Invitation,
             invites[i].status \in {"accepted", "revoked", "expired"}
      PROVE  invites'[i] = invites[i]
  BY <1>1, InvitationChanges DEF AccessInv, Pending
<1>2. AccessInv /\ [Next]_vars =>
        [\A i \in Invitation :
           invites[i].status \in {"accepted", "revoked", "expired"} => invites'[i] = invites[i]]_vars
  BY <1>1
<1> QED
  BY <1>2, AccessInvariant, PTL DEF Spec, InvitationsSettleOnce

-----------------------------------------------------------------------------
(* The guard: types. *)

RecordType == [state : {"none", "in_progress", "completed"}, hash : Hash \cup {"none"},
               lease : Nat, expires : Nat, response : Nat]
LockType == [holder : (Key \X Hash) \cup {<<>>}, expires : Nat]
WorkerType == [at : Places, key : Key \cup {"none"}, hash : Hash \cup {"none"},
               since : Nat, response : Nat]

\* A worker that serves a request has its key and its fingerprint.
Requested == \A w \in Worker : worker[w].at # "idle" =>
               worker[w].key \in Key /\ worker[w].hash \in Hash

\* A request that goes on, or ends, changes its own worker and nothing else.
LEMMA GotoEffect ==
  ASSUME GuardTypeOK, Requested, NEW w \in Worker, worker[w].at # "idle",
         NEW at \in Places, Proceed(w, at)
  PROVE  /\ worker' \in [Worker -> WorkerType] /\ Requested'
         /\ worker'[w] = [worker[w] EXCEPT !.at = at]
         /\ worker'[w].at = at /\ worker'[w].key = worker[w].key
         /\ worker'[w].hash = worker[w].hash /\ worker'[w].since = worker[w].since
         /\ worker'[w].response = worker[w].response
         /\ \A v \in Worker : v # w => worker'[v] = worker[v]
<1>1. worker \in [Worker -> WorkerType]
  BY DEF GuardTypeOK, WorkerType
<1>2. worker' = [worker EXCEPT ![w] = [worker[w] EXCEPT !.at = at]]
  BY DEF Proceed
<1>3. [worker[w] EXCEPT !.at = at] \in WorkerType
  BY <1>1 DEF WorkerType
<1> QED
  BY <1>1, <1>2, <1>3 DEF WorkerType, Requested

\* A request that ends leaves its worker idle and the others alone.
LEMMA FinishEffect ==
  ASSUME GuardTypeOK, Requested, NEW w \in Worker, Leave(w)
  PROVE  /\ worker' \in [Worker -> WorkerType] /\ Requested'
         /\ worker'[w].at = "idle"
         /\ \A v \in Worker : v # w => worker'[v] = worker[v]
<1>1. worker \in [Worker -> WorkerType]
  BY DEF GuardTypeOK, WorkerType
<1>2. Unoccupied \in WorkerType /\ Unoccupied.at = "idle"
  BY DEF WorkerType, Unoccupied, Places
<1> QED
  BY <1>1, <1>2 DEF Leave, Requested

\* An answer is one of the pairs the type of the answers knows.
LEMMA AnswerEffect ==
  ASSUME GuardTypeOK, Requested, NEW w \in Worker, worker[w].at # "idle",
         NEW r \in Nat, Answer(w, r)
  PROVE  /\ answers' \in [Key -> SUBSET (Hash \X Nat)]
         /\ answers'[worker[w].key] = answers[worker[w].key] \cup {<<worker[w].hash, r>>}
         /\ \A k \in Key : k # worker[w].key => answers'[k] = answers[k]
<1>1. worker[w].key \in Key /\ worker[w].hash \in Hash
  BY DEF Requested
<1> QED
  BY <1>1 DEF GuardTypeOK, Answer

\* Unlocking leaves a table of locks.
LEMMA UnlockedType ==
  ASSUME GuardTypeOK, Requested, NEW w \in Worker, worker[w].at # "idle"
  PROVE  Unlocked(w) \in [Resource -> LockType]
<1>2. NoLock \in LockType
  BY DEF NoLock, LockType
<1>3. locks \in [Resource -> LockType]
  BY DEF GuardTypeOK, LockType
<1> QED
  BY <1>2, <1>3 DEF Unlocked, Locks

\* The table after the DELETE of the expired records.
LEMMA PurgedType == GuardTypeOK => Purged \in [Key -> RecordType]
BY DEF GuardTypeOK, RecordType, Purged, NoRecord

\* Taking over a record renews its lease and its expiry.
LEMMA ReclaimEffect ==
  ASSUME GuardTypeOK, Requested, NEW w \in Worker, Reclaim(w), CanReclaim(w)
  PROVE  /\ records' \in [Key -> RecordType]
         /\ \A k \in Key : k # worker[w].key => records'[k] = records[k]
         /\ LET old == records[worker[w].key]
                new == records'[worker[w].key]
            IN  /\ new.state = old.state /\ new.hash = old.hash
                /\ new.response = old.response
                /\ new.lease = now + TTL /\ new.expires = now + RecordTTL
<1> DEFINE k == worker[w].key
           leased == [records[k] EXCEPT !.lease = now + TTL]
           taken == [leased EXCEPT !.expires = now + RecordTTL]
<1>1. /\ records \in [Key -> RecordType] /\ k \in Key /\ records[k] \in RecordType
      /\ now + TTL \in Nat /\ now + RecordTTL \in Nat
  BY GuardAssumption DEF GuardTypeOK, RecordType, Requested, Reclaim
<1>2. leased \in RecordType /\ taken \in RecordType
  <2> HIDE DEF k
  <2> QED
    BY <1>1 DEF RecordType
<1>3. records' = [[records EXCEPT ![k] = leased] EXCEPT ![k].expires = now + RecordTTL]
  BY DEF Reclaim
<1>4. records' = [records EXCEPT ![k] = taken]
  BY <1>1, <1>2, <1>3
<1> QED
  BY <1>1, <1>2, <1>4 DEF RecordType

\* No step takes a variable out of its type, or a request from its worker.
LEMMA TypeStep ==
  ASSUME GuardTypeOK, Requested, [GuardNext]_guard
  PROVE  GuardTypeOK' /\ Requested'
<1> DEFINE Types == /\ now' \in Nat /\ records' \in [Key -> RecordType]
                    /\ locks' \in [Resource -> LockType]
                    /\ worker' \in [Worker -> WorkerType] /\ Requested'
                    /\ runs' \in [Key -> Nat]
                    /\ answers' \in [Key -> SUBSET (Hash \X Nat)]
<1> SUFFICES Types
  BY DEF GuardTypeOK, RecordType, LockType, WorkerType
<1>0. /\ now \in Nat /\ records \in [Key -> RecordType]
      /\ locks \in [Resource -> LockType] /\ worker \in [Worker -> WorkerType]
      /\ runs \in [Key -> Nat] /\ answers \in [Key -> SUBSET (Hash \X Nat)]
      /\ \A w \in Worker : worker[w].at # "idle" =>
           worker[w].key \in Key /\ worker[w].hash \in Hash
  BY DEF GuardTypeOK, RecordType, LockType, WorkerType, Requested
<1>1. ASSUME NEW w \in Worker, NEW k \in Key, NEW h \in Hash, Receive(w, k, h)
      PROVE  Types
  BY <1>0, <1>1 DEF Receive, WorkerType, Requested, Places
<1>2. ASSUME NEW w \in Worker, InsertRecord(w)
      PROVE  Types
  <2>1. Purged \in [Key -> RecordType]
    BY PurgedType
  <2>2. [state |-> "in_progress", hash |-> worker[w].hash, lease |-> now + TTL,
         expires |-> now + RecordTTL, response |-> 0] \in RecordType
    BY <1>0, <1>2, GuardAssumption DEF InsertRecord, RecordType
  <2>3. Proceed(w, "lock") \/ Proceed(w, "select")
    BY <1>2 DEF InsertRecord
  <2>4. worker' \in [Worker -> WorkerType] /\ Requested'
    BY <1>2, <2>3, GotoEffect DEF InsertRecord, Places
  <2>5. answers' \in [Key -> SUBSET (Hash \X Nat)]
    BY <1>0, <1>2 DEF InsertRecord
  <2>6. records' \in [Key -> RecordType]
    BY <1>2, <2>1, <2>2 DEF InsertRecord
  <2> QED
    BY <1>0, <1>2, <2>4, <2>5, <2>6 DEF InsertRecord
<1>3. ASSUME NEW w \in Worker, SelectRecord(w)
      PROVE  Types
  <2>1. worker' \in [Worker -> WorkerType] /\ Requested'
    BY <1>3, GotoEffect, FinishEffect DEF SelectRecord, Places
  <2>2. worker[w].at # "idle" /\ worker[w].key \in Key
    BY <1>0, <1>3 DEF SelectRecord
  <2>3. records[worker[w].key].response \in Nat
    BY <1>0, <2>2 DEF RecordType
  <2>4. answers' \in [Key -> SUBSET (Hash \X Nat)]
    BY <1>0, <1>3, <2>2, <2>3, AnswerEffect DEF SelectRecord
  <2> QED
    BY <1>0, <1>3, <2>1, <2>4 DEF SelectRecord
<1>4. ASSUME NEW w \in Worker, Reclaim(w)
      PROVE  Types
  <2>1. worker' \in [Worker -> WorkerType] /\ Requested'
    BY <1>4, GotoEffect, FinishEffect DEF Reclaim, Places
  <2>2. records' \in [Key -> RecordType]
    BY <1>0, <1>4, ReclaimEffect DEF Reclaim
  <2> QED
    BY <1>0, <1>4, <2>1, <2>2 DEF Reclaim
<1>5. ASSUME NEW w \in Worker, AcquireLock(w)
      PROVE  Types
  <2>1. worker' \in [Worker -> WorkerType] /\ Requested'
    BY <1>5, GotoEffect DEF AcquireLock, Places
  <2>2. [holder |-> Holder(w), expires |-> now + TTL] \in LockType
    BY <1>0, <1>5, GuardAssumption DEF AcquireLock, LockType, Holder
  <2>3. locks' \in [Resource -> LockType]
    BY <1>0, <1>5, <2>2 DEF AcquireLock, Locks
  <2> QED
    BY <1>0, <1>5, <2>1, <2>3 DEF AcquireLock
<1>6. ASSUME NEW w \in Worker, Abandon(w)
      PROVE  Types
  <2>1. worker' \in [Worker -> WorkerType] /\ Requested'
    BY <1>6, FinishEffect DEF Abandon
  <2>2. NoRecord \in RecordType
    BY DEF NoRecord, RecordType
  <2> QED
    BY <1>0, <1>6, <2>1, <2>2 DEF Abandon
<1>7. ASSUME NEW w \in Worker, RunHandler(w)
      PROVE  Types
  <2>1. worker[w].key \in Key /\ runs[worker[w].key] + 1 \in Nat
    BY <1>0, <1>7 DEF RunHandler
  <2>2. worker' \in [Worker -> WorkerType]
    BY <1>0, <1>7, <2>1 DEF RunHandler, WorkerType, Places
  <2>3. Requested'
    BY <1>0, <1>7 DEF RunHandler, WorkerType, Requested
  <2> QED
    BY <1>0, <1>7, <2>1, <2>2, <2>3 DEF RunHandler
<1>8. ASSUME NEW w \in Worker, Complete(w)
      PROVE  Types
  <2>1. worker' \in [Worker -> WorkerType] /\ Requested'
    BY <1>8, GotoEffect DEF Complete, Places
  <2>2. [state |-> "completed", hash |-> worker[w].hash, lease |-> now,
         expires |-> now + RecordTTL, response |-> worker[w].response] \in RecordType
    BY <1>0, <1>8, GuardAssumption DEF Complete, RecordType, WorkerType
  <2>3. records' \in [Key -> RecordType]
    BY <1>0, <1>8, <2>2 DEF Complete
  <2> QED
    BY <1>0, <1>8, <2>1, <2>3 DEF Complete
<1>9. ASSUME NEW w \in Worker, Release(w)
      PROVE  Types
  <2>1. worker' \in [Worker -> WorkerType] /\ Requested'
    BY <1>9, FinishEffect DEF Release
  <2>2. worker[w].at # "idle" /\ worker[w].response \in Nat
    BY <1>0, <1>9 DEF Release, WorkerType
  <2>3. locks' \in [Resource -> LockType]
    BY <1>9, <2>2, UnlockedType DEF Release
  <2>4. answers' \in [Key -> SUBSET (Hash \X Nat)]
    BY <1>9, <2>2, AnswerEffect DEF Release
  <2> QED
    BY <1>0, <1>9, <2>1, <2>3, <2>4 DEF Release
<1>10. ASSUME NEW w \in Worker, Throws(w) \/ Dies(w)
       PROVE  Types
  <2>1. worker' \in [Worker -> WorkerType] /\ Requested'
    BY <1>10, FinishEffect DEF Throws, Dies
  <2>2. locks' \in [Resource -> LockType]
    BY <1>0, <1>10, UnlockedType DEF Throws, Dies
  <2> QED
    BY <1>0, <1>10, <2>1, <2>2 DEF Throws, Dies
<1>11. CASE Tick
  BY <1>0, <1>11 DEF Tick, Requested
<1>12. CASE UNCHANGED guard
  BY <1>0, <1>12 DEF guard, Requested
<1> QED
  BY <1>1, <1>2, <1>3, <1>4, <1>5, <1>6, <1>7, <1>8, <1>9, <1>10, <1>11, <1>12
  DEF GuardNext, Serve

\* The types, with what a request carries, hold in every reachable state.
LEMMA GuardTyped == GuardSpec => [](GuardTypeOK /\ Requested)
<1>1. GuardInit => GuardTypeOK /\ Requested
  BY DEF GuardInit, GuardTypeOK, Requested, NoRecord, NoLock, Unoccupied, Places
<1> QED
  BY <1>1, TypeStep, PTL DEF GuardSpec

\* Every variable of the guard keeps its type: the tables of
\* persistence/src/security.ts and the request a server worker is serving.
THEOREM GuardTypeCorrect == GuardSpec => []GuardTypeOK
BY GuardTyped, PTL

-----------------------------------------------------------------------------
(* What holds between the workers, the records and the locks. *)

\* A worker at one of these steps works under the record of its key.
Holds(w) == worker[w].at \in {"lock", "abandon", "handler", "complete", "release"}

\* No request is served for longer than MaxRun.
InTime ==
  \A w \in Worker : worker[w].at # "idle" =>
    worker[w].since <= now /\ now <= worker[w].since + MaxRun

\* The record a worker holds is its own and outlives the request; it is
\* completed, with the worker's response, only once that is stored.
RecordIsOwn(w) ==
  LET rec == records[worker[w].key] IN
  /\ rec.hash = worker[w].hash
  /\ worker[w].since + TTL <= rec.expires
  /\ worker[w].at = "release" =>
       rec.state = "completed" /\ rec.response = worker[w].response
  /\ worker[w].at # "release" =>
       rec.state = "in_progress" /\ worker[w].since + TTL <= rec.lease

HeldRecords == \A w \in Worker : Holds(w) => RecordIsOwn(w)

\* One request works under a record at a time.
OneHolder ==
  \A v, w \in Worker :
    Holds(v) /\ Holds(w) /\ worker[v].key = worker[w].key => v = w

\* The lock of a request outlives it.
HeldLocks ==
  \A w \in Worker : Inside(w) =>
    /\ locks[Res(w)].holder = Holder(w)
    /\ worker[w].since + TTL <= locks[Res(w)].expires

\* The only answer a key ever gave is the one its record would replay.
AnswersMatch ==
  \A k \in Key :
    answers[k] \subseteq IF records[k].state = "completed"
                         THEN {<<records[k].hash, records[k].response>>} ELSE {}

GuardInv == InTime /\ HeldRecords /\ OneHolder /\ HeldLocks /\ AnswersMatch

\* A record that is held, or whose lease is held, cannot expire or be taken over.
LEMMA HeldRecordLives ==
  ASSUME GuardTypeOK, Requested, InTime, HeldRecords, MaxRun < TTL,
         NEW w \in Worker, Holds(w)
  PROVE  /\ worker[w].at # "idle" /\ worker[w].key \in Key /\ worker[w].hash \in Hash
         /\ now < worker[w].since + TTL
         /\ ~Expired(worker[w].key)
         /\ records[worker[w].key].state # "none"
         /\ worker[w].at # "release" => now < records[worker[w].key].lease
<1>1. worker[w].at # "idle" /\ worker[w].key \in Key /\ worker[w].hash \in Hash
  BY DEF Holds, Requested
<1>2. /\ now \in Nat /\ worker[w].since \in Nat
      /\ records[worker[w].key].lease \in Nat /\ records[worker[w].key].expires \in Nat
  BY <1>1 DEF GuardTypeOK
<1>3. now < worker[w].since + TTL
  BY <1>1, <1>2, GuardAssumption DEF InTime
<1> QED
  BY <1>1, <1>2, <1>3, GuardAssumption DEF HeldRecords, RecordIsOwn, Expired

\* The clock and what a worker does leave every request within its time.
LEMMA InTimeStep ==
  ASSUME GuardTypeOK, Requested, InTime, [GuardNext]_guard
  PROVE  InTime'
<1>0. /\ now \in Nat /\ MaxRun \in Nat
      /\ \A v \in Worker : worker[v].since \in Nat
  BY GuardAssumption DEF GuardTypeOK
<1>1. ASSUME NEW w \in Worker, NEW k \in Key, NEW h \in Hash, Receive(w, k, h)
      PROVE  InTime'
  BY <1>0, <1>1 DEF Receive, InTime, GuardTypeOK
<1>2. ASSUME NEW w \in Worker, worker[w].at # "idle", now' = now,
             NEW at \in Places, Proceed(w, at)
      PROVE  InTime'
  <2>1. /\ worker'[w].since = worker[w].since
        /\ \A v \in Worker : v # w => worker'[v] = worker[v]
    BY <1>2, GotoEffect
  <2> QED
    BY <1>2, <2>1 DEF InTime
<1>3. ASSUME NEW w \in Worker, now' = now, Leave(w)
      PROVE  InTime'
  <2>1. /\ worker'[w].at = "idle"
        /\ \A v \in Worker : v # w => worker'[v] = worker[v]
    BY <1>3, FinishEffect
  <2> QED
    BY <1>3, <2>1 DEF InTime
<1>4. ASSUME NEW w \in Worker, Serve(w) \/ Throws(w) \/ Dies(w)
      PROVE  InTime'
  <2>1. CASE RunHandler(w)
    BY <1>0, <2>1 DEF RunHandler, InTime, GuardTypeOK
  <2>2. CASE ~RunHandler(w)
    <3>1. /\ now' = now /\ worker[w].at # "idle"
          /\ Leave(w) \/ \E at \in Places : Proceed(w, at)
      BY <1>4, <2>2 DEF Serve, InsertRecord, SelectRecord, Reclaim, AcquireLock, Abandon,
         Complete, Release, Throws, Dies, Places
    <3> QED
      BY <3>1, <1>2, <1>3
  <2> QED
    BY <2>1, <2>2
<1>5. CASE Tick
  <2>1. ASSUME NEW w \in Worker, worker'[w].at # "idle"
        PROVE  worker'[w].since <= now' /\ now' <= worker'[w].since + MaxRun
    <3>1. worker' = worker /\ now' = now + 1 /\ now - worker[w].since < MaxRun
      BY <1>5, <2>1 DEF Tick
    <3> QED
      BY <1>0, <2>1, <3>1 DEF InTime
  <2> QED
    BY <2>1 DEF InTime
<1>6. CASE UNCHANGED guard
  BY <1>6 DEF guard, InTime
<1> QED
  BY <1>1, <1>4, <1>5, <1>6 DEF GuardNext

\* A step of one request leaves alone the record another request holds.
LEMMA OthersKeepRecords ==
  ASSUME GuardTypeOK, Requested, InTime, HeldRecords, OneHolder, MaxRun < TTL,
         NEW w \in Worker, Serve(w) \/ Throws(w) \/ Dies(w),
         NEW v \in Worker, v # w, Holds(v)
  PROVE  /\ worker'[v] = worker[v]
         /\ records'[worker[v].key] = records[worker[v].key]
<1> DEFINE k == worker[v].key
<1>0. /\ worker[v].at # "idle" /\ k \in Key /\ ~Expired(k) /\ records[k].state # "none"
      /\ worker[v].at # "release" => now < records[k].lease
      /\ worker[v].at = "release" => records[k].state = "completed"
  BY HeldRecordLives DEF HeldRecords, RecordIsOwn
<1>1. worker[w].at # "idle" /\ worker[w].key \in Key
  BY DEF Serve, InsertRecord, SelectRecord, Reclaim, AcquireLock, Abandon, RunHandler,
     Complete, Release, Throws, Dies, Requested
<1>2. worker'[v] = worker[v]
  <2>1. Leave(w) => worker'[v] = worker[v]
    BY FinishEffect
  <2>2. \A at \in Places : Proceed(w, at) => worker'[v] = worker[v]
    BY <1>1, GotoEffect
  <2>3. RunHandler(w) => worker'[v] = worker[v]
    BY DEF RunHandler, GuardTypeOK
  <2>4. Leave(w) \/ RunHandler(w) \/ \E at \in Places : Proceed(w, at)
    BY DEF Serve, InsertRecord, SelectRecord, Reclaim, AcquireLock, Abandon,
       Complete, Release, Throws, Dies, Places
  <2> QED
    BY <2>1, <2>2, <2>3, <2>4
<1>3. records \in [Key -> RecordType]
  BY DEF GuardTypeOK, RecordType
<1>4. CASE InsertRecord(w)
  <2>1. Purged \in [Key -> RecordType] /\ Purged[k] = records[k]
    BY <1>0, PurgedType DEF Purged
  <2>2. worker[w].key = k => records' = Purged
    BY <1>0, <1>4, <2>1 DEF InsertRecord
  <2>3. records'[k] = Purged[k]
    BY <1>0, <1>1, <1>4, <2>1, <2>2 DEF InsertRecord
  <2> QED
    BY <1>2, <2>1, <2>3
<1>5. CASE Reclaim(w)
  <2>1. CASE CanReclaim(w)
    <3>1. /\ records[worker[w].key].state = "in_progress"
          /\ records[worker[w].key].lease <= now
      BY <2>1 DEF CanReclaim
    <3>2. now \in Nat /\ records[k].lease \in Nat
      BY <1>0, <1>3 DEF RecordType, GuardTypeOK
    <3>3. k # worker[w].key
      BY <1>0, <3>1, <3>2
    <3> QED
      BY <1>0, <1>2, <1>5, <2>1, <3>3, ReclaimEffect
  <2>2. CASE ~CanReclaim(w)
    BY <1>2, <1>5, <2>2 DEF Reclaim
  <2> QED
    BY <2>1, <2>2
<1>6. CASE Abandon(w) \/ Complete(w)
  <2>1. Holds(w)
    BY <1>6 DEF Abandon, Complete, Holds
  <2>2. k # worker[w].key
    BY <2>1 DEF OneHolder
  <2> QED
    BY <1>0, <1>1, <1>2, <1>3, <1>6, <2>2 DEF Abandon, Complete
<1>7. CASE records' = records
  BY <1>2, <1>7
<1> QED
  BY <1>4, <1>5, <1>6, <1>7
  DEF Serve, SelectRecord, AcquireLock, RunHandler, Release, Throws, Dies

\* A request that comes to hold a record, or goes on with one, has it as its own.
LEMMA OwnRecordStep ==
  ASSUME GuardTypeOK, Requested, InTime, HeldRecords, OneHolder, MaxRun < TTL,
         NEW w \in Worker, Serve(w) \/ Throws(w) \/ Dies(w), Holds(w)'
  PROVE  /\ worker'[w].key = worker[w].key
         /\ RecordIsOwn(w)'
         /\ \A v \in Worker : v # w /\ Holds(v) => worker[v].key # worker[w].key
<1> DEFINE k == worker[w].key
           Alone == \A v \in Worker : v # w /\ Holds(v) => worker[v].key # k
<1>0. /\ now \in Nat /\ worker[w].since \in Nat /\ TTL \in Nat /\ RecordTTL \in Nat
      /\ TTL <= RecordTTL /\ records \in [Key -> RecordType]
      /\ worker[w].response \in Nat
  BY GuardAssumption DEF GuardTypeOK, RecordType
<1>1. Holds(w) => Alone
  BY DEF OneHolder
<1>2. \A v \in Worker : Holds(v) =>
        /\ ~Expired(worker[v].key) /\ records[worker[v].key].state # "none"
        /\ worker[v].at = "release" => records[worker[v].key].state = "completed"
        /\ worker[v].at # "release" => now < records[worker[v].key].lease
  BY HeldRecordLives DEF HeldRecords, RecordIsOwn
<1>3. CASE worker'[w].at = "idle"
  BY <1>3 DEF Holds
<1>4. CASE InsertRecord(w) /\ Proceed(w, "lock")
  <2>1. /\ k \in Key /\ worker[w].since <= now
        /\ worker'[w].at = "lock" /\ worker'[w].key = k /\ worker'[w].hash = worker[w].hash
        /\ worker'[w].since = worker[w].since
    BY <1>4, GotoEffect DEF InsertRecord, Places, Requested, InTime
  <2>2. Purged[k].state = "none"
    <3>1. worker'[w].at = "lock" /\ ~ Proceed(w, "select")
      BY <1>4, <2>1, GotoEffect DEF InsertRecord, Places
    <3> QED
      BY <1>4, <3>1 DEF InsertRecord
  <2>3. Alone
    <3> SUFFICES ASSUME NEW v \in Worker, v # w, Holds(v), worker[v].key = k
                 PROVE  FALSE
      OBVIOUS
    <3>1. Purged[k] = records[k]
      BY <1>2, <2>1 DEF Purged
    <3> QED
      BY <1>2, <2>2, <3>1
  <2>4. records'[k] = [state |-> "in_progress", hash |-> worker[w].hash, lease |-> now + TTL,
                       expires |-> now + RecordTTL, response |-> 0]
    BY <1>4, <2>1, <2>2, PurgedType DEF InsertRecord
  <2>5. RecordIsOwn(w)'
    BY <1>0, <2>1, <2>4 DEF RecordIsOwn
  <2> QED
    BY <2>1, <2>3, <2>5
<1>5. CASE Reclaim(w) /\ CanReclaim(w)
  <2>1. /\ k \in Key /\ worker[w].since <= now
        /\ worker'[w].at = "lock" /\ worker'[w].key = k /\ worker'[w].hash = worker[w].hash
        /\ worker'[w].since = worker[w].since
    BY <1>5, GotoEffect DEF Reclaim, Places, Requested, InTime
  <2>2. /\ records[k].state = "in_progress" /\ records[k].hash = worker[w].hash
        /\ ~(now < records[k].lease)
    BY <1>0, <1>5, <2>1 DEF CanReclaim, RecordType
  <2>3. Alone
    BY <1>2, <2>2
  <2>4. RecordIsOwn(w)'
    BY <1>0, <1>5, <2>1, <2>2, ReclaimEffect DEF RecordIsOwn
  <2> QED
    BY <2>1, <2>3, <2>4
<1>6. CASE AcquireLock(w)
  <2>1. Holds(w)
    BY <1>6 DEF AcquireLock, Holds
  <2>2. /\ worker'[w].key = k /\ worker'[w].hash = worker[w].hash
        /\ worker'[w].since = worker[w].since /\ worker'[w].at \in {"handler", "abandon"}
    BY <1>6, GotoEffect DEF AcquireLock, Places
  <2> QED
    BY <1>1, <1>6, <2>1, <2>2 DEF AcquireLock, HeldRecords, RecordIsOwn
<1>7. CASE RunHandler(w)
  <2>1. Holds(w)
    BY <1>7 DEF RunHandler, Holds
  <2>2. /\ worker'[w].key = k /\ worker'[w].hash = worker[w].hash
        /\ worker'[w].since = worker[w].since /\ worker'[w].at = "complete"
    BY <1>7 DEF RunHandler, GuardTypeOK
  <2> QED
    BY <1>1, <1>7, <2>1, <2>2 DEF RunHandler, HeldRecords, RecordIsOwn
<1>8. CASE Complete(w)
  <2>1. Holds(w) /\ worker[w].at = "complete"
    BY <1>8 DEF Complete, Holds
  <2>2. /\ worker'[w].key = k /\ worker'[w].hash = worker[w].hash
        /\ worker'[w].since = worker[w].since /\ worker'[w].at = "release"
        /\ worker'[w].response = worker[w].response
        /\ k \in Key /\ worker[w].since <= now
    BY <1>8, GotoEffect DEF Complete, Places, Requested, InTime
  <2>3. OwnRecord(w)
    BY <2>1 DEF HeldRecords, RecordIsOwn, OwnRecord
  <2>4. records'[k] = [state |-> "completed", hash |-> worker[w].hash, lease |-> now,
                       expires |-> now + RecordTTL, response |-> worker[w].response]
    BY <1>0, <1>8, <2>2, <2>3 DEF Complete
  <2> QED
    BY <1>0, <1>1, <2>1, <2>2, <2>4 DEF RecordIsOwn
<1>9. CASE \/ SelectRecord(w) /\ Proceed(w, "reclaim")
           \/ InsertRecord(w) /\ Proceed(w, "select")
  <2>1. worker'[w].at \in {"reclaim", "select"}
    BY <1>9, GotoEffect DEF SelectRecord, InsertRecord, Places
  <2> QED
    BY <2>1 DEF Holds
<1>10. Leave(w) => worker'[w].at = "idle"
  BY FinishEffect
<1> QED
  BY <1>3, <1>4, <1>5, <1>6, <1>7, <1>8, <1>9, <1>10
  DEF Serve, InsertRecord, SelectRecord, Reclaim, Abandon, Release, Throws, Dies

\* Records stay with the one request that works under them.
LEMMA RecordsStep ==
  ASSUME GuardTypeOK, Requested, InTime, HeldRecords, OneHolder, MaxRun < TTL, [GuardNext]_guard
  PROVE  HeldRecords' /\ OneHolder'
<1>1. ASSUME NEW w \in Worker, NEW k \in Key, NEW h \in Hash, Receive(w, k, h)
      PROVE  HeldRecords' /\ OneHolder'
  <2>1. /\ ~Holds(w)' /\ records' = records
        /\ \A v \in Worker : v # w => worker'[v] = worker[v]
    BY <1>1 DEF Receive, Holds, GuardTypeOK
  <2> QED
    BY <2>1 DEF HeldRecords, OneHolder, RecordIsOwn, Holds
<1>2. ASSUME NEW w \in Worker, Serve(w) \/ Throws(w) \/ Dies(w)
      PROVE  HeldRecords' /\ OneHolder'
  <2>1. ASSUME NEW v \in Worker, v # w, Holds(v)'
        PROVE  /\ Holds(v) /\ worker'[v] = worker[v]
               /\ records'[worker[v].key] = records[worker[v].key]
    <3>1. worker'[v] = worker[v]
      <4>1. Leave(w) => worker'[v] = worker[v]
        BY <2>1, FinishEffect
      <4>2. worker[w].at # "idle" =>
              \A at \in Places : Proceed(w, at) => worker'[v] = worker[v]
        BY <2>1, GotoEffect
      <4>3. RunHandler(w) => worker'[v] = worker[v]
        BY <2>1 DEF RunHandler, GuardTypeOK
      <4>4. /\ worker[w].at # "idle"
            /\ Leave(w) \/ RunHandler(w) \/ \E at \in Places : Proceed(w, at)
        BY <1>2 DEF Serve, InsertRecord, SelectRecord, Reclaim, AcquireLock, Abandon,
           RunHandler, Complete, Release, Throws, Dies, Places
      <4> QED
        BY <4>1, <4>2, <4>3, <4>4
    <3>2. Holds(v)
      BY <2>1, <3>1 DEF Holds
    <3> QED
      BY <1>2, <2>1, <3>2, OthersKeepRecords
  <2>2. HeldRecords'
    <3> SUFFICES ASSUME NEW v \in Worker, Holds(v)'
                 PROVE  RecordIsOwn(v)'
      BY DEF HeldRecords
    <3>1. CASE v = w
      BY <1>2, <3>1, OwnRecordStep
    <3>2. CASE v # w
      BY <2>1, <3>2 DEF HeldRecords, RecordIsOwn
    <3> QED
      BY <3>1, <3>2
  <2>3. OneHolder'
    <3> SUFFICES ASSUME NEW u \in Worker, NEW v \in Worker, Holds(u)', Holds(v)',
                        worker'[u].key = worker'[v].key
                 PROVE  u = v
      BY DEF OneHolder
    <3>1. CASE u # w /\ v # w
      BY <2>1, <3>1 DEF OneHolder
    <3>2. CASE u = w /\ v # w
      BY <1>2, <2>1, <3>2, OwnRecordStep
    <3>3. CASE u # w /\ v = w
      BY <1>2, <2>1, <3>3, OwnRecordStep
    <3> QED
      BY <3>1, <3>2, <3>3
  <2> QED
    BY <2>2, <2>3
<1>3. CASE Tick \/ UNCHANGED guard
  BY <1>3 DEF Tick, guard, HeldRecords, OneHolder, RecordIsOwn, Holds
<1> QED
  BY <1>1, <1>2, <1>3 DEF GuardNext

\* A step of one request leaves alone the lock of a request that is inside.
LEMMA LocksStep ==
  ASSUME GuardTypeOK, Requested, InTime, HeldRecords, OneHolder, HeldLocks, MaxRun < TTL,
         [GuardNext]_guard
  PROVE  HeldLocks'
<1>1. \A v \in Worker : Inside(v) =>
        /\ Holds(v) /\ worker[v].at # "idle" /\ Res(v) \in Resource
        /\ now < locks[Res(v)].expires
  <2> SUFFICES ASSUME NEW v \in Worker, Inside(v)
               PROVE  /\ Holds(v) /\ worker[v].at # "idle" /\ Res(v) \in Resource
                      /\ now < locks[Res(v)].expires
    OBVIOUS
  <2>1. Holds(v)
    BY DEF Inside, Holds
  <2>2. /\ worker[v].at # "idle" /\ worker[v].hash \in Hash
        /\ now < worker[v].since + TTL
    BY <2>1, HeldRecordLives
  <2>3. Res(v) \in Resource
    BY DEF Inside, Locks
  <2>4. /\ now \in Nat /\ worker[v].since \in Nat /\ TTL \in Nat
        /\ locks[Res(v)].expires \in Nat
    BY <2>3, GuardAssumption DEF GuardTypeOK
  <2> QED
    BY <2>1, <2>2, <2>3, <2>4 DEF HeldLocks
<1>2. ASSUME NEW w \in Worker, NEW v \in Worker, v # w, Inside(v), Holds(w)
      PROVE  Holder(v) # Holder(w)
  BY <1>1, <1>2 DEF OneHolder, Holder
<1>3. \A v \in Worker : worker'[v] = worker[v] =>
        Holder(v)' = Holder(v) /\ Res(v)' = Res(v) /\ (Inside(v)' <=> Inside(v))
  BY DEF Holder, Res, Inside, Locks
<1>4. ASSUME NEW w \in Worker, ~Inside(w)',
             \A v \in Worker : v # w => worker'[v] = worker[v],
             locks' = locks \/ (locks' = Unlocked(w) /\ Holds(w))
      PROVE  HeldLocks'
  <2> SUFFICES ASSUME NEW v \in Worker, Inside(v)'
               PROVE  /\ locks'[Res(v)'].holder = Holder(v)'
                      /\ worker'[v].since + TTL <= locks'[Res(v)'].expires
    BY DEF HeldLocks
  <2>1. v # w /\ worker'[v] = worker[v] /\ Inside(v)
    BY <1>3, <1>4
  <2>2. locks[Res(v)].holder = Holder(v) /\ worker[v].since + TTL <= locks[Res(v)].expires
    BY <2>1 DEF HeldLocks
  <2>3. locks'[Res(v)] = locks[Res(v)]
    <3>1. CASE locks' = Unlocked(w) /\ Holds(w)
      <4>1. Holder(v) # Holder(w)
        BY <1>2, <2>1, <3>1
      <4> QED
        BY <2>2, <3>1, <4>1 DEF Unlocked, GuardTypeOK
    <3> QED
      BY <1>4, <3>1
  <2> QED
    BY <1>3, <2>1, <2>2, <2>3
<1>5. ASSUME NEW w \in Worker, AcquireLock(w)
      PROVE  HeldLocks'
  <2>1. /\ Holds(w) /\ worker[w].at = "lock" /\ worker[w].since <= now
        /\ now \in Nat /\ worker[w].since \in Nat /\ TTL \in Nat
    BY <1>5, GuardAssumption DEF AcquireLock, Holds, InTime, GuardTypeOK
  <2>2. /\ \A v \in Worker : v # w => worker'[v] = worker[v]
        /\ worker'[w].key = worker[w].key /\ worker'[w].hash = worker[w].hash
        /\ worker'[w].since = worker[w].since
    BY <1>5, GotoEffect DEF AcquireLock, Places
  <2>3. CASE Locks(w) /\ CanLock(w)
    <3>0. Res(w) \in Resource
      BY <2>3 DEF Locks
    <3> SUFFICES ASSUME NEW v \in Worker, Inside(v)'
                 PROVE  /\ locks'[Res(v)'].holder = Holder(v)'
                        /\ worker'[v].since + TTL <= locks'[Res(v)'].expires
      BY DEF HeldLocks
    <3>1. locks' = [locks EXCEPT ![Res(w)] = [holder |-> Holder(w), expires |-> now + TTL]]
      BY <1>5, <2>3 DEF AcquireLock
    <3>2. CASE v = w
      <4>1. Holder(w)' = Holder(w) /\ Res(w)' = Res(w)
        BY <2>2 DEF Holder, Res
      <4>2. locks'[Res(w)] = [holder |-> Holder(w), expires |-> now + TTL]
        BY <3>0, <3>1 DEF GuardTypeOK
      <4>3. worker[w].since + TTL <= now + TTL
        BY <2>1
      <4> QED
        BY <2>2, <3>2, <4>1, <4>2, <4>3
    <3>3. CASE v # w
      <4>1. worker'[v] = worker[v] /\ Inside(v)
        BY <1>3, <2>2, <3>3
      <4>2. /\ locks[Res(v)].holder = Holder(v) /\ now < locks[Res(v)].expires
            /\ worker[v].since + TTL <= locks[Res(v)].expires
        BY <1>1, <4>1 DEF HeldLocks
      <4>3. Holder(v) # Holder(w)
        BY <1>2, <2>1, <3>3, <4>1
      <4>4. Res(v) # Res(w)
        <5> SUFFICES ASSUME Res(v) = Res(w)
                     PROVE  FALSE
          OBVIOUS
        <5>1. locks[Res(w)] # NoLock
          BY <2>1, <4>2 DEF NoLock
        <5>2. locks[Res(w)].expires \in Nat
          BY <3>0 DEF GuardTypeOK
        <5> QED
          BY <2>1, <2>3, <4>2, <4>3, <5>1, <5>2 DEF CanLock
      <4>5. locks'[Res(v)] = locks[Res(v)]
        BY <3>1, <4>4 DEF GuardTypeOK
      <4> QED
        BY <1>3, <4>1, <4>2, <4>5
    <3> QED
      BY <3>2, <3>3
  <2>4. CASE Locks(w) /\ ~CanLock(w)
    <3>1. ~Inside(w)' /\ locks' = locks
      BY <1>5, <2>1, <2>4, GotoEffect DEF AcquireLock, Inside, Places
    <3> QED
      BY <1>4, <2>2, <3>1
  <2>5. CASE ~Locks(w)
    <3>1. ~Inside(w)' /\ locks' = locks
      BY <1>5, <2>2, <2>5 DEF AcquireLock, Inside, Locks, Res
    <3> QED
      BY <1>4, <2>2, <3>1
  <2> QED
    BY <2>3, <2>4, <2>5
<1>6. ASSUME NEW w \in Worker, RunHandler(w) \/ Complete(w)
      PROVE  HeldLocks'
  <2>1. /\ (Inside(w)' => Inside(w)) /\ locks' = locks
        /\ \A v \in Worker : v # w => worker'[v] = worker[v]
        /\ worker'[w].key = worker[w].key /\ worker'[w].hash = worker[w].hash
        /\ worker'[w].since = worker[w].since
    <3>1. CASE RunHandler(w)
      BY <3>1 DEF RunHandler, Inside, Locks, Res, GuardTypeOK
    <3>2. CASE Complete(w)
      BY <3>2, GotoEffect DEF Complete, Inside, Locks, Res, Places
    <3> QED
      BY <1>6, <3>1, <3>2
  <2>2. \A v \in Worker : Inside(v)' =>
          /\ Inside(v) /\ Holder(v)' = Holder(v) /\ Res(v)' = Res(v)
          /\ worker'[v].since = worker[v].since
    BY <1>3, <2>1 DEF Holder, Res
  <2> QED
    BY <2>1, <2>2 DEF HeldLocks
<1>7. ASSUME NEW w \in Worker, NEW k \in Key, NEW h \in Hash, Receive(w, k, h)
      PROVE  HeldLocks'
  <2>1. /\ ~Inside(w)' /\ locks' = locks
        /\ \A v \in Worker : v # w => worker'[v] = worker[v]
    BY <1>7 DEF Receive, Inside, GuardTypeOK
  <2> QED
    BY <1>4, <2>1
<1>8. ASSUME NEW w \in Worker,
             \/ InsertRecord(w) \/ SelectRecord(w) \/ Reclaim(w) \/ Abandon(w)
             \/ Release(w) \/ Throws(w) \/ Dies(w)
      PROVE  HeldLocks'
  <2>1. locks' = locks \/ (locks' = Unlocked(w) /\ Holds(w))
    BY <1>8 DEF InsertRecord, SelectRecord, Reclaim, Abandon, Release, Throws, Dies, Holds
  <2>2. /\ worker[w].at # "idle"
        /\ Leave(w) \/ \E at \in {"lock", "select", "reclaim"} : Proceed(w, at)
    BY <1>8 DEF InsertRecord, SelectRecord, Reclaim, Abandon, Release, Throws, Dies
  <2>3. /\ worker'[w].at \in {"idle", "lock", "select", "reclaim"}
        /\ \A v \in Worker : v # w => worker'[v] = worker[v]
    BY <2>2, GotoEffect, FinishEffect DEF Places
  <2>4. ~Inside(w)'
    BY <2>3 DEF Inside
  <2> QED
    BY <1>4, <2>1, <2>3, <2>4
<1>9. CASE Tick \/ UNCHANGED guard
  BY <1>9 DEF Tick, guard, HeldLocks, Inside, Locks, Holder, Res
<1> QED
  BY <1>5, <1>6, <1>7, <1>8, <1>9 DEF GuardNext, Serve

\* The answers of a key go with its record.
LEMMA AnswersStep ==
  ASSUME GuardTypeOK, Requested, InTime, HeldRecords, AnswersMatch, MaxRun < TTL, [GuardNext]_guard
  PROVE  AnswersMatch'
<1> DEFINE Replay(rec) == IF rec.state = "completed" THEN {<<rec.hash, rec.response>>} ELSE {}
<1>0. \A k \in Key : answers[k] \subseteq Replay(records[k])
  BY DEF AnswersMatch
<1> SUFFICES \A k \in Key : answers'[k] \subseteq Replay(records'[k])
  BY DEF AnswersMatch
<1>1. ASSUME NEW w \in Worker, InsertRecord(w), NEW k \in Key
      PROVE  answers'[k] \subseteq Replay(records'[k])
  <2>1. answers'[k] = IF Expired(k) THEN {} ELSE answers[k]
    BY <1>1 DEF InsertRecord
  <2>2. Purged[k] = IF Expired(k) THEN NoRecord ELSE records[k]
    BY DEF Purged
  <2>3. answers'[k] \subseteq Replay(Purged[k])
    BY <1>0, <2>1, <2>2
  <2>4. CASE Purged[k].state = "none"
    <3>1. answers'[k] = {}
      BY <2>3, <2>4
    <3> QED
      BY <3>1
  <2>5. CASE Purged[k].state # "none"
    <3>1. records'[k] = Purged[k]
      BY <1>1, <2>5, PurgedType DEF InsertRecord
    <3> QED
      BY <2>3, <3>1
  <2> QED
    BY <2>4, <2>5
<1>2. ASSUME NEW w \in Worker, SelectRecord(w), NEW k \in Key
      PROVE  answers'[k] \subseteq Replay(records'[k])
  <2> DEFINE rec == records[worker[w].key]
  <2>1. CASE /\ rec.state = "completed" /\ rec.hash = worker[w].hash
             /\ Answer(w, rec.response)
    <3>1. worker[w].at # "idle" /\ worker[w].key \in Key /\ rec.response \in Nat
      BY <1>2 DEF SelectRecord, Requested, GuardTypeOK
    <3>2. /\ answers'[worker[w].key] = answers[worker[w].key] \cup {<<worker[w].hash, rec.response>>}
          /\ k # worker[w].key => answers'[k] = answers[k]
      BY <2>1, <3>1, AnswerEffect
    <3>3. records' = records
      BY <1>2 DEF SelectRecord
    <3>4. Replay(rec) = {<<worker[w].hash, rec.response>>}
      BY <2>1
    <3> HIDE DEF Replay
    <3> QED
      BY <1>0, <3>1, <3>2, <3>3, <3>4
  <2>2. CASE answers' = answers
    BY <1>0, <1>2, <2>2 DEF SelectRecord
  <2> QED
    BY <1>2, <2>1, <2>2 DEF SelectRecord
<1>3. ASSUME NEW w \in Worker, Reclaim(w), NEW k \in Key
      PROVE  answers'[k] \subseteq Replay(records'[k])
  <2>1. answers' = answers
    BY <1>3 DEF Reclaim
  <2>2. /\ records'[k].state = records[k].state /\ records'[k].hash = records[k].hash
        /\ records'[k].response = records[k].response
    <3>1. CASE CanReclaim(w)
      BY <1>3, <3>1, ReclaimEffect
    <3>2. CASE ~CanReclaim(w)
      BY <1>3, <3>2 DEF Reclaim
    <3> QED
      BY <3>1, <3>2
  <2> QED
    BY <1>0, <2>1, <2>2
<1>4. ASSUME NEW w \in Worker, Abandon(w) \/ Complete(w), NEW k \in Key
      PROVE  answers'[k] \subseteq Replay(records'[k])
  <2>1. /\ answers' = answers
        /\ records'[k] = records[k] \/ (k = worker[w].key /\ OwnRecord(w))
    BY <1>4 DEF Abandon, Complete, GuardTypeOK
  <2>2. OwnRecord(w) => records[worker[w].key].state = "in_progress"
    BY DEF OwnRecord
  <2>3. (k = worker[w].key /\ OwnRecord(w)) => answers[k] = {}
    BY <1>0, <2>2
  <2> QED
    BY <1>0, <2>1, <2>3
<1>5. ASSUME NEW w \in Worker, Release(w), NEW k \in Key
      PROVE  answers'[k] \subseteq Replay(records'[k])
  <2>1. /\ worker[w].at # "idle" /\ worker[w].at = "release" /\ Holds(w)
        /\ worker[w].response \in Nat /\ records' = records
    BY <1>5 DEF Release, Holds, GuardTypeOK
  <2>2. /\ worker[w].key \in Key
        /\ answers'[worker[w].key] =
             answers[worker[w].key] \cup {<<worker[w].hash, worker[w].response>>}
        /\ k # worker[w].key => answers'[k] = answers[k]
    BY <1>5, <2>1, AnswerEffect DEF Release, Requested
  <2>3. Replay(records[worker[w].key]) = {<<worker[w].hash, worker[w].response>>}
    BY <2>1 DEF HeldRecords, RecordIsOwn
  <2> HIDE DEF Replay
  <2> QED
    BY <1>0, <2>1, <2>2, <2>3
<1>6. CASE answers' = answers /\ records' = records
  BY <1>0, <1>6
<1> QED
  BY <1>1, <1>2, <1>3, <1>4, <1>5, <1>6
  DEF GuardNext, Serve, Receive, AcquireLock, RunHandler, Throws, Dies, Tick, guard

-----------------------------------------------------------------------------
(* The theorems.  All of them rest on requests ending before the leases and *)
(* locks they took run out.                                                 *)

\* The inductive invariant.
LEMMA GuardInvariant ==
  ASSUME MaxRun < TTL
  PROVE  GuardSpec => [](GuardTypeOK /\ Requested /\ GuardInv)
<1>1. GuardInit => GuardInv
  BY DEF GuardInit, GuardInv, InTime, HeldRecords, OneHolder, HeldLocks, AnswersMatch, Holds,
     Inside, Unoccupied
<1>2. GuardTypeOK /\ Requested /\ GuardInv /\ [GuardNext]_guard => GuardInv'
  BY InTimeStep, RecordsStep, LocksStep, AnswersStep DEF GuardInv
<1> QED
  BY <1>1, <1>2, GuardTyped, PTL DEF GuardSpec

\* Two handlers never run on one resource at a time (the mutation_locks of
\* acquireMutationLock), whatever keys their requests carry, whoever died, nor
\* under one key, whatever they lock.
THEOREM HandlersExclude == MaxRun < TTL => (GuardSpec => []MutualExclusion)
<1> SUFFICES ASSUME MaxRun < TTL
             PROVE  GuardSpec => []MutualExclusion
  OBVIOUS
<1>1. GuardTypeOK /\ Requested /\ GuardInv => MutualExclusion
  <2> SUFFICES ASSUME GuardTypeOK, GuardInv, NEW v \in Worker, NEW w \in Worker,
                      worker[v].at = "handler", worker[w].at = "handler",
                      worker[v].key = worker[w].key \/ (Locks(v) /\ Res(v) = Res(w))
               PROVE  v = w
    BY DEF MutualExclusion
  <2>1. Holds(v) /\ Holds(w)
    BY DEF Holds
  <2>2. CASE Locks(v) /\ Res(v) = Res(w)
    <3>1. Inside(v) /\ Inside(w)
      BY <2>2 DEF Inside, Locks
    <3>2. Holder(v) = Holder(w)
      BY <2>2, <3>1 DEF GuardInv, HeldLocks
    <3> QED
      BY <2>1, <3>2 DEF GuardInv, OneHolder, Holder
  <2> QED
    BY <2>1, <2>2 DEF GuardInv, OneHolder
<1> QED
  BY <1>1, GuardInvariant, PTL

\* The callers of one Idempotency-Key never get two different answers while
\* its record lives (the replay of beginIdempotency).
THEOREM AnswersAreUnique == MaxRun < TTL => (GuardSpec => []OneAnswerPerKey)
<1> SUFFICES ASSUME MaxRun < TTL
             PROVE  GuardSpec => []OneAnswerPerKey
  OBVIOUS
<1>1. GuardTypeOK /\ Requested /\ GuardInv => OneAnswerPerKey
  <2> SUFFICES ASSUME GuardInv, NEW k \in Key
               PROVE  Cardinality(answers[k]) <= 1
    BY DEF OneAnswerPerKey
  <2>1. PICK x : answers[k] \subseteq {x}
    BY DEF GuardInv, AnswersMatch
  <2>2. IsFiniteSet({x}) /\ Cardinality({x}) = 1
    BY FS_Singleton
  <2> QED
    BY <2>1, <2>2, FS_Subset
<1> QED
  BY <1>1, GuardInvariant, PTL

\* An answered request never runs its handler again under the same key while
\* the record lives, not even from a stale SELECT.
THEOREM AnsweredStayAnswered == MaxRun < TTL => (GuardSpec => []AnsweredRequestsDoNotRunAgain)
<1> SUFFICES ASSUME MaxRun < TTL
             PROVE  GuardSpec => []AnsweredRequestsDoNotRunAgain
  OBVIOUS
<1>1. GuardTypeOK /\ Requested /\ GuardInv => AnsweredRequestsDoNotRunAgain
  <2> SUFFICES ASSUME Requested, GuardInv, NEW w \in Worker, worker[w].at = "handler"
               PROVE  answers[worker[w].key] = {}
    BY DEF AnsweredRequestsDoNotRunAgain
  <2>1. worker[w].key \in Key /\ records[worker[w].key].state = "in_progress"
    BY DEF Requested, GuardInv, HeldRecords, RecordIsOwn, Holds
  <2> QED
    BY <2>1 DEF GuardInv, AnswersMatch
<1> QED
  BY <1>1, GuardInvariant, PTL

\* A lock is never pulled from under a live handler, by a release or by time.
THEOREM LocksAreHeld == MaxRun < TTL => (GuardSpec => []LockIsHeld)
<1> SUFFICES ASSUME MaxRun < TTL
             PROVE  GuardSpec => []LockIsHeld
  OBVIOUS
<1>1. GuardTypeOK /\ Requested /\ GuardInv => LockIsHeld
  <2> SUFFICES ASSUME GuardTypeOK, Requested, GuardInv, NEW w \in Worker, Inside(w)
               PROVE  locks[Res(w)].holder = Holder(w) /\ now < locks[Res(w)].expires
    BY DEF LockIsHeld
  <2>1. Holds(w) /\ InTime /\ HeldRecords /\ HeldLocks
    BY DEF Inside, Holds, GuardInv
  <2>2. Res(w) \in Resource /\ now < worker[w].since + TTL
    BY <2>1, HeldRecordLives DEF Inside, Locks
  <2>3. /\ now \in Nat /\ worker[w].since \in Nat /\ TTL \in Nat
        /\ locks[Res(w)].expires \in Nat
    BY <2>2, GuardAssumption DEF GuardTypeOK
  <2> QED
    BY <2>1, <2>2, <2>3 DEF HeldLocks
<1> QED
  BY <1>1, GuardInvariant, PTL
=============================================================================
