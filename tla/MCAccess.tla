------------------------------ MODULE MCAccess ------------------------------
(* Constants for checking Access on small instances. *)
EXTENDS Access, TLC

CONSTANTS a, b, c, x, y, z

Alone == [w \in Wallet |-> [u \in Wallet |-> IF u = w THEN "owner" ELSE "none"]]
NoInvites == [i \in Invitation |-> NoInvite]
Held(t, w) == t :> [wallet |-> w, state |-> "live", challenge |-> 0]
NoSessions == [t \in Session |-> NoSession]

\* Browsers x, y and z of wallets a, b and c, all working in a's workspace.
Team(first, second, third) ==
  [sessions |-> Held(1, a) @@ Held(2, b) @@ Held(3, c), members |-> [Alone EXCEPT ![a][b] = "admin"],
   invites |-> [NoInvites EXCEPT ![1] =
     [workspace |-> a, wallet |-> c, role |-> "operator", status |-> "pending", due |-> FALSE]],
   acct |-> x :> a @@ y :> b @@ z :> c, jar |-> x :> 1 @@ y :> 2 @@ z :> 3, at |-> a,
   ops |-> x :> first @@ y :> second @@ z :> third]
Fresh(first, second) ==
  [sessions |-> NoSessions, members |-> [w \in Wallet |-> [u \in Wallet |-> "none"]],
   invites |-> NoInvites, acct |-> x :> a @@ y :> a @@ z :> c,
   jar |-> [w \in Browser |-> 0], at |-> a, ops |-> x :> first @@ y :> second @@ z :> {}]

MCScenes ==
  {\* an invitation is accepted while it is revoked
   Team({"revoke"}, {}, {"accept", "load"}),
   \* roles change while members are removed
   Team({"remove"}, {"role"}, {"accept"}),
   \* members are removed and invited again
   Team({"remove"}, {"invite"}, {}),
   \* requests of a member whose role changes
   Team({"role", "rename"}, {"policies", "live", "tasks"}, {}),
   \* two workspaces, and pages that are loaded again
   Team({}, {"switch", "reload", "execute", "wait"}, {}),
   \* a sign-in that is sent again
   Fresh({"connect"}, {"resend"}),
   \* accounts change while the page signs in and out
   Fresh({"connect", "account"}, {}),
   \* sessions end while pages are loaded again
   Fresh({"connect", "disconnect", "reload", "wait"}, {})}
=============================================================================
