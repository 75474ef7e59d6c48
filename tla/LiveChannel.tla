----------------------------- MODULE LiveChannel -----------------------------
(***************************************************************************)
(* The provider channels of one live x402 task: the rows of the channels   *)
(* table, the escrows on Solana, and the HTTP handlers that move both      *)
(* (apps/web/src/app/api/tasks/[id]/live, .../channels/[providerId]/action *)
(* and .../execute).  A worker serves one request at a time; every await   *)
(* of a handler is a point where other workers may run, a worker may die,  *)
(* and, when Faulty, a statement may throw.  A worker holds one mutation   *)
(* lock (runIdempotentMutation) from Begin until it is idle again; that no     *)
(* handler outlives the 300 s of its lock is an assumption of this module. *)
(***************************************************************************)
EXTENDS Integers, FiniteSets

CONSTANTS
  Provider,     \* the providers the task reserved a channel for
  Worker,       \* server workers, one request each at a time
  Ceiling,      \* ceilingAtomic of every channel
  Op,           \* the requests that may come in
  Faulty,       \* statements may throw and workers may die
  MaxClaims     \* bound on claim broadcasts of one channel

AllOps == {"prepare", "deposit", "execute", "action", "v1action", "finalize"}

ASSUME LiveChannelAssumption ==
  /\ Ceiling \in Nat \ {0} /\ MaxClaims \in Nat
  /\ Faulty \in BOOLEAN
  /\ Op \subseteq AllOps

VARIABLES
  status,       \* tasks.status
  expired,      \* tasks.expires_at_unix <= now
  executed,     \* the task has rows in the flows table
  authorized,   \* what those flows authorized, by provider
  rows,         \* the channels table
  settlements,  \* the settlements table: provider, cumulative amount
  chain,        \* the escrow of each channel on Solana
  worker        \* what each worker is doing

vars == <<status, expired, executed, authorized, rows, settlements, chain, worker>>

TaskStatus == {"draft", "active", "completed", "cancelled", "archived"}
TerminalTask == {"completed", "cancelled", "archived"}

ChannelStatus == {"reserved", "open", "distributed", "recovered", "failed"}
TerminalChannel == {"distributed", "recovered"}

Stage == {"none", "prepared", "open", "finalization-started",
          "finalization-ambiguous", "finalized"}
BlockedStage == {"finalization-started", "finalization-ambiguous"}

(* A row: status, recovery_state.stage, cumulative_authorized_atomic, and   *)
(* whether recovery_state holds the signed paymentPayload.  Every stage but *)
(* "none" comes with paymentRequired; "finalization-ambiguous" comes with   *)
(* automaticRetryBlocked.                                                   *)
Row == [status : ChannelStatus, stage : Stage, cum : 0..Ceiling, payload : BOOLEAN]

Reserved == [status |-> "reserved", stage |-> "none", cum |-> 0, payload |-> FALSE]

NoRows == [p \in Provider |-> Reserved]
NoSpend == [p \in Provider |-> 0]

\* A worker: its request (op, the channels it is about, the lock), where its
\* handler is, what it has read (status, flows, rows), the channels its loop
\* still has to visit and the one it is at, the update it is writing and the
\* row it read for it, and the amounts its orchestrator authorized.
Idle ==
  [op |-> "none", target |-> {}, at |-> "idle", pending |-> {},
   status |-> "draft", flows |-> FALSE, rows |-> NoRows, todo |-> {},
   p |-> "none", kind |-> "none", row |-> Reserved, auth |-> NoSpend]

Goto(w, at) == worker' = [worker EXCEPT ![w].at = at]
Finish(w) == worker' = [worker EXCEPT ![w] = Idle]

\* On to the next channel of the loop.
Continue(w) ==
  worker' = [worker EXCEPT ![w].at = "loop", ![w].todo = @ \ {worker[w].p},
                           ![w].p = "none", ![w].kind = "none", ![w].row = Reserved]

Init ==
  /\ status \in {"draft", "active"}
  /\ expired = FALSE
  /\ executed = FALSE
  /\ authorized = NoSpend
  /\ rows = NoRows
  /\ settlements = {}
  /\ chain = [p \in Provider |-> [escrow |-> "none", claims |-> 0, paid |-> {}]]
  /\ worker = [w \in Worker |-> Idle]

-----------------------------------------------------------------------------
(* Requests. *)

LockClass ==
  [prepare |-> "live-prepare", deposit |-> "deposit", execute |-> "mutation",
   action |-> "terminal", v1action |-> "terminal", finalize |-> "finalization"]

Targets(op) ==
  IF op \in {"deposit", "action", "v1action"} THEN {{p} : p \in Provider}
                                              ELSE {Provider}

Locked(op, target) ==
  \E w \in Worker :
    /\ worker[w] # Idle
    /\ LockClass[worker[w].op] = LockClass[op]
    /\ worker[w].target = target

\* Mutant of Begin: requests take no lock.
BeginUnlocked(w, op, target) ==
  /\ worker[w] = Idle /\ op # "execute"
  /\ worker' = [worker EXCEPT ![w] =
       [Idle EXCEPT !.op = op, !.target = target, !.at = "reading", !.status = status,
                    !.pending = {"channels"} \cup
                      (IF op = "finalize" THEN {"flows"} ELSE {})]]
  /\ UNCHANGED <<status, expired, executed, authorized, rows, settlements, chain>>

(* A request that gets its lock, and the first query of getTask: the task's *)
(* row.  Only live/finalize looks at the flows.                             *)
Begin(w, op, target) ==
  /\ worker[w] = Idle /\ op # "execute"
  /\ ~Locked(op, target)
  /\ worker' = [worker EXCEPT ![w] =
       [Idle EXCEPT !.op = op, !.target = target, !.at = "reading", !.status = status,
                    !.pending = {"channels"} \cup
                      (IF op = "finalize" THEN {"flows"} ELSE {})]]
  /\ UNCHANGED <<status, expired, executed, authorized, rows, settlements, chain>>

\* The other queries of getTask run side by side, in whatever order.
ReadChannels(w) ==
  /\ worker[w].at = "reading" /\ "channels" \in worker[w].pending
  /\ worker' = [worker EXCEPT ![w].pending = @ \ {"channels"},
       ![w].rows = [p \in Provider |->
                      IF p \in worker[w].target THEN rows[p] ELSE Reserved]]
  /\ UNCHANGED <<status, expired, executed, authorized, rows, settlements, chain>>

ReadFlows(w) ==
  /\ worker[w].at = "reading" /\ "flows" \in worker[w].pending
  /\ worker' = [worker EXCEPT ![w].pending = @ \ {"flows"}, ![w].flows = executed]
  /\ UNCHANGED <<status, expired, executed, authorized, rows, settlements, chain>>

\* What the handler asks of the task before it looks at a channel.
Admitted(r) ==
  CASE r.op = "prepare"  -> r.status = "active"
    [] r.op = "finalize" -> r.flows \/ r.status # "active"
    [] OTHER             -> TRUE

\* Everything is read: enter the loop over the channels, or refuse.
Admit(w) ==
  /\ worker[w].at = "reading" /\ worker[w].pending = {}
  /\ IF Admitted(worker[w])
     THEN worker' = [worker EXCEPT ![w].at = "loop", ![w].todo = worker[w].target]
     ELSE Finish(w)
  /\ UNCHANGED <<status, expired, executed, authorized, rows, settlements, chain>>

\* channelActionFor is "finalize" or "recover", or the loop of live/finalize
\* gets to beginFinalization; both on what the handler read before.
Claimable(r, p) ==
  LET row == r.rows[p] IN
  /\ row.status = "open"
  /\ row.stage \notin BlockedStage \cup {"none"}
  /\ row.payload
  /\ r.op = "finalize" \/ r.status \in TerminalTask \/ expired

\* Mutant of Wanted: live/prepare prepares again what it prepared before.
WantedAgain(r, p) ==
  CASE r.op = "prepare" -> r.rows[p].status = "reserved"
    [] r.op = "deposit" -> r.rows[p].status = "reserved" /\ r.rows[p].stage # "none"
    [] OTHER            -> Claimable(r, p)

\* Does the handler do something about channel p?
Wanted(r, p) ==
  CASE r.op = "prepare" -> r.rows[p].status = "reserved" /\ r.rows[p].stage = "none"
    [] r.op = "deposit" -> r.rows[p].status = "reserved" /\ r.rows[p].stage # "none"
    [] OTHER            -> Claimable(r, p)

\* Skipped, refused, or answered as idempotent.
SkipChannel(w, p) ==
  /\ worker[w].at = "loop" /\ p \in worker[w].todo
  /\ ~Wanted(worker[w], p)
  /\ worker' = [worker EXCEPT ![w].todo = @ \ {p}]
  /\ UNCHANGED <<status, expired, executed, authorized, rows, settlements, chain>>

\* The response is sent and the lock released.
Respond(w) ==
  /\ worker[w].at = "loop" /\ worker[w].todo = {}
  /\ Finish(w)
  /\ UNCHANGED <<status, expired, executed, authorized, rows, settlements, chain>>

-----------------------------------------------------------------------------
(* live/prepare and channels/.../deposit *)

\* gateway.prepareChannel resolves: its terms are to be saved.
PrepareChannel(w, p) ==
  /\ worker[w].op = "prepare" /\ worker[w].at = "loop" /\ p \in worker[w].todo
  /\ Wanted(worker[w], p)
  /\ worker' = [worker EXCEPT ![w].at = "update", ![w].p = p, ![w].kind = "prepared"]
  /\ UNCHANGED <<status, expired, executed, authorized, rows, settlements, chain>>

\* gateway.deposit resolves: the escrow is funded and its evidence to be saved.
Deposit(w, p) ==
  /\ worker[w].op = "deposit" /\ worker[w].at = "loop" /\ p \in worker[w].todo
  /\ Wanted(worker[w], p)
  /\ chain[p].escrow # "closed"
  /\ chain' = [chain EXCEPT ![p].escrow = "open"]
  /\ worker' = [worker EXCEPT ![w].at = "update", ![w].p = p, ![w].kind = "opened"]
  /\ UNCHANGED <<status, expired, executed, authorized, rows, settlements>>

\* The gateway throws; a deposit may have reached the chain all the same.
GatewayFails(w) ==
  /\ worker[w].op \in {"prepare", "deposit"} /\ worker[w].at = "loop"
  /\ \E p \in worker[w].todo :
       /\ Wanted(worker[w], p)
       /\ \/ UNCHANGED chain
          \/ /\ worker[w].op = "deposit" /\ chain[p].escrow = "none"
             /\ chain' = [chain EXCEPT ![p].escrow = "open"]
  /\ Finish(w)
  /\ UNCHANGED <<status, expired, executed, authorized, rows, settlements>>

-----------------------------------------------------------------------------
(* The terminal path: live/finalize and both action routes *)

\* The WHERE clause of beginFinalization.
CanLease(p) == rows[p].status = "open" /\ rows[p].stage \notin BlockedStage

(* beginFinalization: one atomic UPDATE takes the channel, or leaves it and *)
(* the handler goes on to the next one (the action routes have just one).   *)
BeginFinalization(w, p) ==
  /\ worker[w].op \in {"action", "v1action", "finalize"}
  /\ worker[w].at = "loop" /\ p \in worker[w].todo
  /\ Wanted(worker[w], p)
  /\ IF CanLease(p)
     THEN /\ rows' = [rows EXCEPT ![p].stage = "finalization-started"]
          /\ worker' = [worker EXCEPT ![w].at = "claim", ![w].p = p]
     ELSE /\ worker' = [worker EXCEPT ![w].todo = @ \ {p}]
          /\ UNCHANGED rows
  /\ UNCHANGED <<status, expired, executed, authorized, settlements, chain>>

\* The claim pays what the handler read as authorized and refunds the rest.
PayOut(w) ==
  LET p == worker[w].p IN
  chain' = [chain EXCEPT ![p] =
    [escrow |-> "closed", claims |-> @.claims + 1,
     paid |-> @.paid \cup {worker[w].rows[p].cum}]]

\* gateway.claim resolves with a confirmed transaction.
ClaimLands(w) ==
  /\ worker[w].at = "claim"
  /\ chain[worker[w].p].escrow = "open" /\ chain[worker[w].p].claims < MaxClaims
  /\ PayOut(w)
  /\ worker' = [worker EXCEPT ![w].at = "update", ![w].kind = "finalized"]
  /\ UNCHANGED <<status, expired, executed, authorized, rows, settlements>>

\* Mutant of ClaimFails: a failed claim goes on to the next channel.
ClaimFailureIgnored(w) ==
  /\ worker[w].at = "claim" /\ UNCHANGED chain
  /\ Continue(w)
  /\ UNCHANGED <<status, expired, executed, authorized, rows, settlements>>

\* Mutant of ClaimFails: an unconfirmed claim is taken for a confirmed one.
ClaimAssumed(w) ==
  /\ worker[w].at = "claim" /\ UNCHANGED chain
  /\ worker' = [worker EXCEPT ![w].at = "update", ![w].kind = "finalized"]
  /\ UNCHANGED <<status, expired, executed, authorized, rows, settlements>>

(* gateway.claim throws: before anything was sent, after a broadcast that  *)
(* did not land, or after one that did but was not seen confirmed.         *)
ClaimFails(w) ==
  LET p == worker[w].p IN
  /\ worker[w].at = "claim"
  /\ \/ UNCHANGED chain
     \/ /\ chain[p].claims < MaxClaims
        /\ chain' = [chain EXCEPT ![p].claims = @ + 1]
     \/ /\ chain[p].escrow = "open" /\ chain[p].claims < MaxClaims
        /\ PayOut(w)
  /\ worker' = [worker EXCEPT ![w].at = "update", ![w].kind = "ambiguous"]
  /\ UNCHANGED <<status, expired, executed, authorized, rows, settlements>>

\* Mutant of RecordSettlement: the amount is read from the row again.
SettlementFromRow(w) ==
  LET p == worker[w].p IN
  /\ worker[w].at = "settle"
  /\ settlements' = settlements \cup {[provider |-> p, amount |-> rows[p].cum]}
  /\ IF worker[w].op = "v1action" THEN Goto(w, "publish") ELSE Continue(w)
  /\ UNCHANGED <<status, expired, executed, authorized, rows, chain>>

\* The settlement is inserted; the v1 route still has its webhooks to publish.
RecordSettlement(w) ==
  LET p == worker[w].p IN
  /\ worker[w].at = "settle"
  /\ settlements' = settlements \cup {[provider |-> p, amount |-> worker[w].rows[p].cum]}
  /\ IF worker[w].op = "v1action" THEN Goto(w, "publish") ELSE Continue(w)
  /\ UNCHANGED <<status, expired, executed, authorized, rows, chain>>

\* publishWebhookEvent, inside the same try block.
Publish(w) ==
  /\ worker[w].at = "publish"
  /\ Continue(w)
  /\ UNCHANGED <<status, expired, executed, authorized, rows, settlements, chain>>

-----------------------------------------------------------------------------
(* recordChannelState reads the row and then writes all of its columns.    *)

ReadRow(w) ==
  /\ worker[w].at = "update"
  /\ worker' = [worker EXCEPT ![w].at = "write", ![w].row = rows[worker[w].p]]
  /\ UNCHANGED <<status, expired, executed, authorized, rows, settlements, chain>>

\* Mutant of UpdatedRow: a claim in doubt is offered for a retry.
DoubtIsRetried(r) ==
  LET seen == r.rows[r.p] IN
  CASE r.kind = "prepared"  -> [r.row EXCEPT !.stage = "prepared", !.payload = FALSE]
    [] r.kind = "opened"    -> [r.row EXCEPT !.status = "open", !.stage = "open",
                                             !.payload = TRUE]
    [] r.kind = "finalized" -> [r.row EXCEPT
                                  !.status = IF seen.cum = 0 THEN "recovered" ELSE "distributed",
                                  !.stage = "finalized", !.payload = seen.payload]
    [] r.kind = "ambiguous" -> [r.row EXCEPT !.stage = "open"]

\* The row a handler writes: what it read last, under its update.  The
\* recovery_state of an update starts from the handler's first read, except for
\* live/prepare, which starts from nothing.
UpdatedRow(r) ==
  LET seen == r.rows[r.p] IN
  CASE r.kind = "prepared"  -> [r.row EXCEPT !.stage = "prepared", !.payload = FALSE]
    [] r.kind = "opened"    -> [r.row EXCEPT !.status = "open", !.stage = "open",
                                             !.payload = TRUE]
    [] r.kind = "finalized" -> [r.row EXCEPT
                                  !.status = IF seen.cum = 0 THEN "recovered" ELSE "distributed",
                                  !.stage = "finalized", !.payload = seen.payload]
    [] r.kind = "ambiguous" -> [r.row EXCEPT !.status = "failed",
                                  !.stage = "finalization-ambiguous", !.payload = seen.payload]

WriteRow(w) ==
  /\ worker[w].at = "write"
  /\ rows' = [rows EXCEPT ![worker[w].p] = UpdatedRow(worker[w])]
  /\ IF worker[w].kind = "finalized"
     THEN worker' = [worker EXCEPT ![w].at = "settle", ![w].kind = "none", ![w].row = Reserved]
     ELSE Continue(w)
  /\ UNCHANGED <<status, expired, executed, authorized, settlements, chain>>

(* A statement after the claim throws: the handler's catch block records   *)
(* the channel as failed.  A throw anywhere else ends the request.         *)
StatementThrows(w) ==
  LET r == worker[w] IN
  /\ Faulty
  /\ r.at \in {"reading", "loop", "update", "write", "settle", "publish", "save"}
  /\ IF r.at \in {"settle", "publish"} \/ r.kind = "finalized"
     THEN worker' = [worker EXCEPT ![w].at = "update", ![w].kind = "ambiguous",
                                   ![w].row = Reserved]
     ELSE Finish(w)
  /\ UNCHANGED <<status, expired, executed, authorized, rows, settlements, chain>>

-----------------------------------------------------------------------------
(* The task: execute and lifecycle share one lock. *)

\* executeTask: an active task without flows whose channels are all open.
BeginExecution(w) ==
  /\ worker[w] = Idle
  /\ ~Locked("execute", Provider)
  /\ status = "active" /\ ~executed
  /\ \A p \in Provider : rows[p].status = "open"
  /\ worker' = [worker EXCEPT ![w] = [Idle EXCEPT
       !.op = "execute", !.target = Provider, !.at = "executing"]]
  /\ UNCHANGED <<status, expired, executed, authorized, rows, settlements, chain>>

(* The orchestrator's calls have ended: each provider was authorized some   *)
(* amount under its ceiling, nothing once the task had expired.  flows says *)
(* whether a flow exists, status what saveExecution will write: "active" if *)
(* a call threw.  A first call that throws while quoting leaves no flow.    *)
Authorize(w) ==
  /\ worker[w].at = "executing"
  /\ \E auth \in [Provider -> 0..Ceiling], flows \in BOOLEAN, outcome \in {"active", "completed"} :
       /\ expired => auth = NoSpend
       /\ ~flows => auth = NoSpend /\ outcome = "active"
       /\ worker' = [worker EXCEPT ![w].at = "save", ![w].auth = auth,
                                   ![w].flows = flows, ![w].status = outcome]
  /\ UNCHANGED <<status, expired, executed, authorized, rows, settlements, chain>>

\* saveExecution: one transaction.
SaveExecution(w) ==
  /\ worker[w].at = "save"
  /\ rows' = [p \in Provider |-> [rows[p] EXCEPT !.cum = worker[w].auth[p]]]
  /\ executed' = (executed \/ worker[w].flows)
  /\ authorized' = [p \in Provider |-> authorized[p] + worker[w].auth[p]]
  /\ status' = worker[w].status
  /\ Finish(w)
  /\ UNCHANGED <<expired, settlements, chain>>

\* The lifecycle route's CAS on tasks.status; submitting renews the expiry.
Lifecycle(from, to) ==
  /\ ~Locked("execute", Provider)
  /\ status \in from
  /\ status' = to
  /\ expired' = (expired /\ to # "active")
  /\ UNCHANGED <<executed, authorized, rows, settlements, chain, worker>>

Submit == Lifecycle({"draft"}, "active")
Cancel == Lifecycle({"draft", "active"}, "cancelled")
Archive == Lifecycle({"draft", "completed", "cancelled"}, "archived")

Expire ==
  /\ ~expired /\ expired' = TRUE
  /\ UNCHANGED <<status, executed, authorized, rows, settlements, chain, worker>>

-----------------------------------------------------------------------------
(* Failures of a worker.  The lock of a dead worker comes free after its    *)
(* TTL; the model frees it at once, which only allows more.                 *)
Crash(w) ==
  /\ Faulty /\ worker[w] # Idle
  /\ Finish(w)
  /\ UNCHANGED <<status, expired, executed, authorized, rows, settlements, chain>>

\* The steps of a request once it has begun.
Handle(w) ==
  \/ ReadChannels(w) \/ ReadFlows(w) \/ Admit(w) \/ Respond(w)
  \/ \E p \in Provider :
       SkipChannel(w, p) \/ PrepareChannel(w, p) \/ Deposit(w, p) \/ BeginFinalization(w, p)
  \/ GatewayFails(w) \/ ClaimLands(w) \/ ClaimFails(w) \/ RecordSettlement(w) \/ Publish(w)
  \/ ReadRow(w) \/ WriteRow(w)
  \/ Authorize(w) \/ SaveExecution(w)

Next ==
  \/ \E w \in Worker :
       \/ \E op \in Op : \E target \in Targets(op) : Begin(w, op, target)
       \/ "execute" \in Op /\ BeginExecution(w)
       \/ Handle(w)
       \/ StatementThrows(w) \/ Crash(w)
  \/ Submit \/ Cancel \/ Archive \/ Expire

Spec == Init /\ [][Next]_vars

(* Node runs a handler to its end: every await settles. *)
FairSpec == Spec /\ \A w \in Worker : WF_vars(Handle(w))

-----------------------------------------------------------------------------
(* Type invariant. *)
WorkerType ==
  [op : AllOps \cup {"none"}, target : SUBSET Provider,
   at : {"idle", "reading", "loop", "claim", "update", "write", "settle",
         "publish", "executing", "save"},
   pending : SUBSET {"channels", "flows"}, status : TaskStatus, flows : BOOLEAN,
   rows : [Provider -> Row], todo : SUBSET Provider, p : Provider \cup {"none"},
   kind : {"none", "prepared", "opened", "finalized", "ambiguous"}, row : Row,
   auth : [Provider -> 0..Ceiling]]

\* Every variable keeps its type; a row's cumulative never passes its ceiling
\* (the channels table has no such check).
TypeOK ==
  /\ status \in TaskStatus /\ expired \in BOOLEAN /\ executed \in BOOLEAN
  /\ authorized \in [Provider -> 0..Ceiling]
  /\ rows \in [Provider -> Row]
  /\ settlements \subseteq [provider : Provider, amount : 0..Ceiling]
  /\ chain \in [Provider -> [escrow : {"none", "open", "closed"}, claims : 0..MaxClaims,
                            paid : SUBSET (0..Ceiling)]]
  /\ worker \in [Worker -> WorkerType]

(* Safety. *)

\* Once a claim may have reached Solana the stored row never looks claimable
\* again, whatever failed after it: it is terminal or asks for inspection.
ClaimIsNeverReoffered ==
  \A p \in Provider : chain[p].claims > 0 => ~CanLease(p)

\* A row that reads as terminal tells the truth: the escrow is closed, and
\* "distributed" or "recovered" is what the chain paid out.
TerminalRowsArePaid ==
  \A p \in Provider : rows[p].status \in TerminalChannel =>
    /\ chain[p].escrow = "closed"
    /\ \A amount \in chain[p].paid : rows[p].status = "recovered" <=> amount = 0

\* A recorded settlement is the one payout of its channel, and it never pays a
\* provider more than its recorded flows authorized, even when the claim ran
\* next to an execution.
SettlementsArePayouts ==
  \A s \in settlements :
    /\ chain[s.provider].paid = {s.amount}
    /\ s.amount <= authorized[s.provider]

\* An open row can be claimed or has been leased: its escrow is funded and the
\* signed payload needed for the claim is stored.
OpenRowsHaveEvidence ==
  \A p \in Provider : rows[p].status # "reserved" =>
    rows[p].payload /\ chain[p].escrow # "none"

(* Refinement. *)
Phase(row) ==
  CASE row.status = "reserved"       -> "reserved"
    [] row.status \in TerminalChannel -> "closed"
    [] row.status = "failed"         -> "doubtful"
    [] OTHER -> IF row.stage \in BlockedStage THEN "leased" ELSE "open"

Promise == INSTANCE ChannelPromise WITH
  phase <- [p \in Provider |-> Phase(rows[p])],
  claims <- [p \in Provider |-> chain[p].claims],
  paid <- [p \in Provider |-> chain[p].paid]

\* The rows and the chain together implement ChannelPromise: no late write of
\* live/prepare, deposit or a catch block takes a channel back to an earlier
\* phase, and the one claim is sent while the channel is leased.
ImplementsChannelPromise == Promise!Spec

(* What the documentation promises and the code does not keep. *)

\* docs/CHANNELS_WORKSPACE.md: a channel cannot finalize while its task is
\* still active and unexpired.
NoClaimWhileActive ==
  [][\A p \in Provider :
       chain'[p].claims > chain[p].claims => status # "active" \/ expired]_vars

\* docs/CHANNELS_WORKSPACE.md: Finalize claims the persisted cumulative
\* authorization; asked once no request is running.
PayoutIsAuthorizedSpend ==
  (\A w \in Worker : worker[w] = Idle) =>
    \A p \in Provider : chain[p].escrow = "closed" => chain[p].paid = {authorized[p]}

(* Liveness. *)

\* If no statement throws and no worker dies, a leased channel gets a verdict:
\* the row does not stay at finalization-started, where no handler and no
\* operator action could move it any more.
LeasesResolve ==
  \A p \in Provider :
    rows[p].stage = "finalization-started" ~>
      rows[p].stage \in {"finalized", "finalization-ambiguous"}
=============================================================================
