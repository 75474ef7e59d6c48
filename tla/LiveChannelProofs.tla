-------------------------- MODULE LiveChannelProofs --------------------------
(***************************************************************************)
(* Proofs about LiveChannel for any number of providers and workers, any   *)
(* ceiling and any set of requests, with faults or without.                *)
(***************************************************************************)
EXTENDS LiveChannel, TLAPS

-----------------------------------------------------------------------------
(* What holds between the workers, the rows and the chain. *)

Terminal == {"action", "v1action", "finalize"}

\* The channels a request may still do something about, on what it has read.
ToVisit(r) ==
  IF r.at = "reading" THEN (IF "channels" \in r.pending THEN {} ELSE r.target)
                      ELSE r.todo

\* Between beginFinalization and the end of its iteration the handler leases.
Leases(r) == r.at \in {"claim", "settle", "publish"} \/ r.kind \in {"finalized", "ambiguous"}

\* Where a handler is agrees with its request.
Controlled(r) ==
  /\ r.at = "reading" => r.todo = {}
  /\ r.todo \subseteq r.target
  /\ r.op \in {"prepare", "execute"} => r.target = Provider
  /\ r.op = "deposit" => \E p \in Provider : r.target = {p}
  /\ r.at \in {"executing", "save"} => r.op = "execute"
  /\ r.op = "execute" => r.todo = {} /\ r.pending = {} /\ r.at \in {"executing", "save"}
  /\ r.at \in {"claim", "settle", "publish"} => r.op \in Terminal /\ r.p \in r.todo
  /\ r.at \in {"update", "write"} => r.p \in r.todo /\ r.kind # "none"
  /\ r.at \notin {"update", "write"} => r.kind = "none"
  /\ r.kind = "prepared" => r.op = "prepare"
  /\ r.kind = "opened" => r.op = "deposit"
  /\ r.kind \in {"finalized", "ambiguous"} => r.op \in Terminal

InControl == \A w \in Worker : Controlled(worker[w])

\* Requests that would disturb each other exclude each other: one preparation,
\* one execution, one deposit into a channel.
Exclusive ==
  \A v, w \in Worker :
    /\ v # w /\ worker[v].op = worker[w].op
    /\ worker[v].op \in {"prepare", "deposit", "execute"}
    => worker[v].target # worker[w].target

\* No copy of a row's cumulative is ahead of the recorded flows; only one
\* execution ever leaves flows.
Spends ==
  /\ ~executed => authorized = NoSpend
  /\ \A p \in Provider : rows[p].cum <= authorized[p]
  /\ \A w \in Worker :
       /\ worker[w].op = "execute" => ~executed
       /\ worker[w].at = "save" /\ ~worker[w].flows => worker[w].auth = NoSpend
       /\ \A p \in Provider : worker[w].rows[p].cum <= authorized[p]
       /\ worker[w].at = "write" =>
            \A p \in Provider : p = worker[w].p => worker[w].row.cum <= authorized[p]

\* The channel was read as one that live/prepare or a deposit wants.
Fresh(r, p) == r.rows[p].status = "reserved" /\ (r.rows[p].stage = "none" <=> r.op = "prepare")

\* A channel that live/prepare or a deposit wants is still as it was read.
Visits ==
  \A w \in Worker : LET r == worker[w] IN
    /\ \A p \in ToVisit(r) :
         r.op \in {"prepare", "deposit"} /\ Fresh(r, p) =>
           /\ rows[p].status = "reserved"
           /\ rows[p].stage = "none" <=> r.op = "prepare"
    /\ r.kind \in {"prepared", "opened"} => Fresh(r, r.p)
    /\ r.kind = "prepared" /\ r.at = "write" => r.row.status = "reserved"
    /\ r.kind = "opened" => \A p \in Provider : p = r.p => chain[p].escrow # "none"

\* The channel a handler leases, and what its claim has done to it.
LeaseHolds(r) ==
  \A p \in Provider : p = r.p =>
    /\ r.rows[p].payload
    /\ rows[p].status \in {"open"} \cup TerminalChannel
    /\ rows[p].status = "open" => rows[p].stage = "finalization-started"
    /\ r.at = "claim" => rows[p].status = "open" /\ chain[p].claims = 0
    /\ r.kind = "finalized" => rows[p].status = "open"
    /\ r.at \in {"settle", "publish"} => rows[p].status \in TerminalChannel
    /\ r.at \in {"settle", "publish"} \/ r.kind = "finalized" => chain[p].paid = {r.rows[p].cum}

\* One handler at a time leases a channel.
Leased ==
  \A w \in Worker : Leases(worker[w]) =>
    /\ LeaseHolds(worker[w])
    /\ \A v \in Worker : v # w /\ Leases(worker[v]) => worker[v].p # worker[w].p

\* A row and its escrow.
ChannelHolds(p) ==
  LET row == rows[p]
      c == chain[p]
  IN  /\ row.status = "reserved" => row.stage \in {"none", "prepared"}
      /\ row.status = "open" => row.stage \in {"open", "finalization-started"}
      /\ row.status # "reserved" => row.payload /\ c.escrow # "none"
      /\ row.status = "reserved" \/ CanLease(p) => c.claims = 0
      /\ c.claims <= 1
      /\ c.claims = 0 => c.paid = {} /\ c.escrow # "closed"
      /\ c.paid # {} => c.escrow = "closed"
      /\ row.status \in TerminalChannel =>
           \E amount \in 0..Ceiling :
             c.paid = {amount} /\ (row.status = "recovered" <=> amount = 0)

Channels == \A p \in Provider : ChannelHolds(p)

\* The one payout of a settled channel.
Settled == \A s \in settlements : chain[s.provider].paid = {s.amount}
Covered == \A s \in settlements : s.amount <= authorized[s.provider]

ChannelInv ==
  TypeOK /\ InControl /\ Exclusive /\ Spends /\ Visits /\ Leased /\ Channels
         /\ Settled /\ Covered

-----------------------------------------------------------------------------
(* What a step does to the workers. *)

Others(w) == \A v \in Worker : v # w => worker'[v] = worker[v]

\* The request and what it has read of the task stay.
Keeps(w) ==
  LET r == worker[w]
      n == worker'[w]
  IN  /\ n.op = r.op /\ n.target = r.target /\ n.pending = r.pending
      /\ n.flows = r.flows /\ n.rows = r.rows /\ n.auth = r.auth

\* The handler is at this place of its loop, with this update in hand.
Stands(w, at, todo, p, kind, row) ==
  LET n == worker'[w] IN
  n.at = at /\ n.todo = todo /\ n.p = p /\ n.kind = kind /\ n.row = row

\* What the constants of the module look like.
LEMMA ConstantTypes ==
  /\ Reserved \in Row /\ NoRows \in [Provider -> Row]
  /\ NoSpend \in [Provider -> 0..Ceiling]
  /\ Idle \in WorkerType
BY LiveChannelAssumption
DEF Idle, WorkerType, AllOps, TaskStatus, NoRows, Reserved, Row, ChannelStatus, Stage, NoSpend

\* The row a handler writes is a row.
LEMMA UpdatedRowType ==
  ASSUME NEW r \in WorkerType, r.p \in Provider, r.kind # "none"
  PROVE  UpdatedRow(r) \in Row
<1>1. r.row \in Row /\ r.rows[r.p] \in Row
      /\ r.kind \in {"prepared", "opened", "finalized", "ambiguous"}
  BY DEF WorkerType
<1> QED
  BY <1>1 DEF UpdatedRow, Row, ChannelStatus, Stage

\* Giving a worker another record changes nothing else.
LEMMA Replaced ==
  ASSUME worker \in [Worker -> WorkerType], NEW w \in Worker, NEW n \in WorkerType,
         worker' = [worker EXCEPT ![w] = n]
  PROVE  worker' \in [Worker -> WorkerType] /\ worker'[w] = n /\ Others(w)
BY DEF Others

\* A request that ends leaves its worker idle.
LEMMA FinishEffect ==
  ASSUME worker \in [Worker -> WorkerType], NEW w \in Worker, Finish(w)
  PROVE  worker' \in [Worker -> WorkerType] /\ worker'[w] = Idle /\ Others(w)
BY ConstantTypes DEF Finish, Others

\* A handler that goes on to its next channel drops what it held of the last.
LEMMA ContinueEffect ==
  ASSUME worker \in [Worker -> WorkerType], NEW w \in Worker,
         Continue(w)
  PROVE  /\ worker' \in [Worker -> WorkerType] /\ Others(w)
         /\ Keeps(w)
         /\ Stands(w, "loop", worker[w].todo \ {worker[w].p}, "none", "none", Reserved)
<1> DEFINE r == worker[w]
           n == [r EXCEPT !.at = "loop", !.todo = @ \ {r.p}, !.p = "none",
                          !.kind = "none", !.row = Reserved]
<1>1. r \in WorkerType
  OBVIOUS
<1>2. n \in WorkerType
  BY <1>1, ConstantTypes DEF WorkerType
<1>3. worker' = [worker EXCEPT ![w] = n]
  BY DEF Continue
<1>4. worker' \in [Worker -> WorkerType] /\ worker'[w] = n /\ Others(w)
  <2> HIDE DEF n
  <2> QED
    BY <1>2, <1>3, Replaced
<1> QED
  BY <1>1, <1>4 DEF WorkerType, Keeps, Stands

\* The gateway or the claim is through: the channel's row is to be updated.
LEMMA UpdateEffect ==
  ASSUME worker \in [Worker -> WorkerType], NEW w \in Worker,
         NEW p \in Provider \cup {"none"}, NEW kind \in {"prepared", "opened", "finalized", "ambiguous"},
         worker' = [worker EXCEPT ![w].at = "update", ![w].p = p, ![w].kind = kind]
  PROVE  /\ worker' \in [Worker -> WorkerType] /\ Others(w)
         /\ Keeps(w)
         /\ Stands(w, "update", worker[w].todo, p, kind, worker[w].row)
<1> DEFINE r == worker[w]
           n == [r EXCEPT !.at = "update", !.p = p, !.kind = kind]
<1>1. r \in WorkerType
  OBVIOUS
<1>2. n \in WorkerType
  BY <1>1 DEF WorkerType
<1>3. worker' = [worker EXCEPT ![w] = n]
  BY DEF WorkerType
<1>4. worker' \in [Worker -> WorkerType] /\ worker'[w] = n /\ Others(w)
  <2> HIDE DEF n
  <2> QED
    BY <1>2, <1>3, Replaced
<1> QED
  BY <1>1, <1>4 DEF WorkerType, Keeps, Stands

\* beginFinalization has taken the channel: its claim is next.
LEMMA LeaseEffect ==
  ASSUME worker \in [Worker -> WorkerType], NEW w \in Worker,
         NEW p \in Provider,
         worker' = [worker EXCEPT ![w].at = "claim", ![w].p = p]
  PROVE  /\ worker' \in [Worker -> WorkerType] /\ Others(w)
         /\ Keeps(w)
         /\ Stands(w, "claim", worker[w].todo, p, worker[w].kind, worker[w].row)
<1> DEFINE r == worker[w]
           n == [r EXCEPT !.at = "claim", !.p = p]
<1>1. r \in WorkerType
  OBVIOUS
<1>2. n \in WorkerType
  BY <1>1 DEF WorkerType
<1>3. worker' = [worker EXCEPT ![w] = n]
  BY DEF WorkerType
<1>4. worker' \in [Worker -> WorkerType] /\ worker'[w] = n /\ Others(w)
  <2> HIDE DEF n
  <2> QED
    BY <1>2, <1>3, Replaced
<1> QED
  BY <1>1, <1>4 DEF WorkerType, Keeps, Stands

\* A channel is struck off the list.
LEMMA SkipEffect ==
  ASSUME worker \in [Worker -> WorkerType], NEW w \in Worker,
         NEW p \in Provider,
         worker' = [worker EXCEPT ![w].todo = @ \ {p}]
  PROVE  /\ worker' \in [Worker -> WorkerType] /\ Others(w)
         /\ Keeps(w)
         /\ Stands(w, worker[w].at, worker[w].todo \ {p}, worker[w].p, worker[w].kind,
                   worker[w].row)
<1> DEFINE r == worker[w]
           n == [r EXCEPT !.todo = @ \ {p}]
<1>1. r \in WorkerType
  OBVIOUS
<1>2. n \in WorkerType
  BY <1>1 DEF WorkerType
<1>3. worker' = [worker EXCEPT ![w] = n]
  BY DEF WorkerType
<1>4. worker' \in [Worker -> WorkerType] /\ worker'[w] = n /\ Others(w)
  <2> HIDE DEF n
  <2> QED
    BY <1>2, <1>3, Replaced
<1> QED
  BY <1>1, <1>4 DEF WorkerType, Keeps, Stands

\* recordChannelState has read the row.
LEMMA ReadRowEffect ==
  ASSUME worker \in [Worker -> WorkerType], NEW w \in Worker,
         ReadRow(w), worker[w].p \in Provider, rows \in [Provider -> Row]
  PROVE  /\ worker' \in [Worker -> WorkerType] /\ Others(w)
         /\ Keeps(w)
         /\ Stands(w, "write", worker[w].todo, worker[w].p, worker[w].kind, rows[worker[w].p])
<1> DEFINE r == worker[w]
           n == [r EXCEPT !.at = "write", !.row = rows[r.p]]
<1>1. r \in WorkerType
  OBVIOUS
<1>2. n \in WorkerType
  BY <1>1 DEF WorkerType
<1>3. worker' = [worker EXCEPT ![w] = n]
  BY DEF ReadRow
<1>4. worker' \in [Worker -> WorkerType] /\ worker'[w] = n /\ Others(w)
  <2> HIDE DEF n
  <2> QED
    BY <1>2, <1>3, Replaced
<1> QED
  BY <1>1, <1>4 DEF WorkerType, Keeps, Stands

\* The row says finalized: the settlement is next.
LEMMA SettleEffect ==
  ASSUME worker \in [Worker -> WorkerType], NEW w \in Worker,
         worker' = [worker EXCEPT ![w].at = "settle", ![w].kind = "none", ![w].row = Reserved]
  PROVE  /\ worker' \in [Worker -> WorkerType] /\ Others(w)
         /\ Keeps(w)
         /\ Stands(w, "settle", worker[w].todo, worker[w].p, "none", Reserved)
<1> DEFINE r == worker[w]
           n == [r EXCEPT !.at = "settle", !.kind = "none", !.row = Reserved]
<1>1. r \in WorkerType
  OBVIOUS
<1>2. n \in WorkerType
  BY <1>1, ConstantTypes DEF WorkerType
<1>3. worker' = [worker EXCEPT ![w] = n]
  BY DEF WorkerType
<1>4. worker' \in [Worker -> WorkerType] /\ worker'[w] = n /\ Others(w)
  <2> HIDE DEF n
  <2> QED
    BY <1>2, <1>3, Replaced
<1> QED
  BY <1>1, <1>4 DEF WorkerType, Keeps, Stands

\* A throw after the claim leads to the catch block.
LEMMA CatchEffect ==
  ASSUME worker \in [Worker -> WorkerType], NEW w \in Worker,
         worker' = [worker EXCEPT ![w].at = "update", ![w].kind = "ambiguous", ![w].row = Reserved]
  PROVE  /\ worker' \in [Worker -> WorkerType] /\ Others(w)
         /\ Keeps(w)
         /\ Stands(w, "update", worker[w].todo, worker[w].p, "ambiguous", Reserved)
<1> DEFINE r == worker[w]
           n == [r EXCEPT !.at = "update", !.kind = "ambiguous", !.row = Reserved]
<1>1. r \in WorkerType
  OBVIOUS
<1>2. n \in WorkerType
  BY <1>1, ConstantTypes DEF WorkerType
<1>3. worker' = [worker EXCEPT ![w] = n]
  BY DEF WorkerType
<1>4. worker' \in [Worker -> WorkerType] /\ worker'[w] = n /\ Others(w)
  <2> HIDE DEF n
  <2> QED
    BY <1>2, <1>3, Replaced
<1> QED
  BY <1>1, <1>4 DEF WorkerType, Keeps, Stands

\* A handler goes on within its iteration.
LEMMA GotoEffect ==
  ASSUME worker \in [Worker -> WorkerType], NEW w \in Worker,
         Goto(w, "publish")
  PROVE  /\ worker' \in [Worker -> WorkerType] /\ Others(w)
         /\ Keeps(w)
         /\ Stands(w, "publish", worker[w].todo, worker[w].p, worker[w].kind, worker[w].row)
<1> DEFINE r == worker[w]
           n == [r EXCEPT !.at = "publish"]
<1>1. r \in WorkerType
  OBVIOUS
<1>2. n \in WorkerType
  BY <1>1 DEF WorkerType
<1>3. worker' = [worker EXCEPT ![w] = n]
  BY DEF Goto
<1>4. worker' \in [Worker -> WorkerType] /\ worker'[w] = n /\ Others(w)
  <2> HIDE DEF n
  <2> QED
    BY <1>2, <1>3, Replaced
<1> QED
  BY <1>1, <1>4 DEF WorkerType, Keeps, Stands

\* The loop over the channels begins.
LEMMA AdmitEffect ==
  ASSUME worker \in [Worker -> WorkerType], NEW w \in Worker,
         worker' = [worker EXCEPT ![w].at = "loop", ![w].todo = worker[w].target]
  PROVE  /\ worker' \in [Worker -> WorkerType] /\ Others(w)
         /\ Keeps(w)
         /\ Stands(w, "loop", worker[w].target, worker[w].p, worker[w].kind, worker[w].row)
<1> DEFINE r == worker[w]
           n == [r EXCEPT !.at = "loop", !.todo = r.target]
<1>1. r \in WorkerType
  OBVIOUS
<1>2. n \in WorkerType
  BY <1>1 DEF WorkerType
<1>3. worker' = [worker EXCEPT ![w] = n]
  BY DEF WorkerType
<1>4. worker' \in [Worker -> WorkerType] /\ worker'[w] = n /\ Others(w)
  <2> HIDE DEF n
  <2> QED
    BY <1>2, <1>3, Replaced
<1> QED
  BY <1>1, <1>4 DEF WorkerType, Keeps, Stands

\* A request that begins has read the status of its task and nothing else.
LEMMA BeginEffect ==
  ASSUME TypeOK, NEW w \in Worker, NEW op \in Op, NEW target \in Targets(op),
         Begin(w, op, target)
  PROVE  /\ worker' \in [Worker -> WorkerType] /\ Others(w)
         /\ worker'[w].op = op /\ worker'[w].target = target
         /\ worker'[w].pending \subseteq {"channels", "flows"}
         /\ "channels" \in worker'[w].pending /\ worker'[w].rows = NoRows
         /\ Stands(w, "reading", {}, "none", "none", Reserved)
<1> DEFINE pending == {"channels"} \cup (IF op = "finalize" THEN {"flows"} ELSE {})
           n == [Idle EXCEPT !.op = op, !.target = target, !.at = "reading",
                             !.status = status, !.pending = pending]
<1>1. /\ Idle \in WorkerType /\ status \in TaskStatus /\ worker \in [Worker -> WorkerType]
      /\ op \in AllOps /\ target \in SUBSET Provider
  BY ConstantTypes, LiveChannelAssumption DEF TypeOK, Targets
<1>2. pending \subseteq {"channels", "flows"} /\ "channels" \in pending
  OBVIOUS
<1>3. worker' = [worker EXCEPT ![w] = n]
  BY DEF Begin
<1> HIDE DEF pending
<1>4. n \in WorkerType
  BY <1>1, <1>2 DEF WorkerType
<1>5. worker' \in [Worker -> WorkerType] /\ worker'[w] = n /\ Others(w)
  <2> HIDE DEF n
  <2> QED
    BY <1>1, <1>3, <1>4, Replaced
<1> QED
  BY <1>1, <1>2, <1>5 DEF Idle, Stands

\* An execution that begins has nothing to visit.
LEMMA ExecutionEffect ==
  ASSUME worker \in [Worker -> WorkerType], NEW w \in Worker, BeginExecution(w)
  PROVE  /\ worker' \in [Worker -> WorkerType] /\ Others(w)
         /\ worker'[w].op = "execute" /\ worker'[w].target = Provider
         /\ worker'[w].pending = {} /\ worker'[w].rows = NoRows
         /\ Stands(w, "executing", {}, "none", "none", Reserved)
<1> DEFINE n == [Idle EXCEPT !.op = "execute", !.target = Provider, !.at = "executing"]
<1>1. n \in WorkerType
  BY ConstantTypes DEF WorkerType, AllOps
<1>2. worker' = [worker EXCEPT ![w] = n]
  BY DEF BeginExecution
<1>3. worker' \in [Worker -> WorkerType] /\ worker'[w] = n /\ Others(w)
  <2> HIDE DEF n
  <2> QED
    BY <1>1, <1>2, Replaced
<1> QED
  BY <1>1, <1>3 DEF Idle, Stands

\* The channels of the request are read as the table has them.
LEMMA ReadChannelsEffect ==
  ASSUME TypeOK, NEW w \in Worker, ReadChannels(w)
  PROVE  /\ worker' \in [Worker -> WorkerType] /\ Others(w)
         /\ worker'[w].op = worker[w].op /\ worker'[w].target = worker[w].target
         /\ worker'[w].pending = worker[w].pending \ {"channels"}
         /\ worker'[w].flows = worker[w].flows /\ worker'[w].auth = worker[w].auth
         /\ \A p \in Provider :
              worker'[w].rows[p] = IF p \in worker[w].target THEN rows[p] ELSE Reserved
         /\ Stands(w, worker[w].at, worker[w].todo, worker[w].p, worker[w].kind, worker[w].row)
<1> DEFINE seen == [p \in Provider |-> IF p \in worker[w].target THEN rows[p] ELSE Reserved]
           r == worker[w]
           n == [r EXCEPT !.pending = @ \ {"channels"}, !.rows = seen]
<1>1. r \in WorkerType /\ worker \in [Worker -> WorkerType] /\ rows \in [Provider -> Row]
  BY DEF TypeOK
<1>2. seen \in [Provider -> Row]
  BY <1>1, ConstantTypes
<1>3. worker' = [worker EXCEPT ![w] = n]
  BY DEF ReadChannels
<1>4. \A p \in Provider : seen[p] = IF p \in worker[w].target THEN rows[p] ELSE Reserved
  OBVIOUS
<1> HIDE DEF seen
<1>5. n \in WorkerType
  BY <1>1, <1>2 DEF WorkerType
<1>6. worker' \in [Worker -> WorkerType] /\ worker'[w] = n /\ Others(w)
  <2> HIDE DEF n
  <2> QED
    BY <1>1, <1>3, <1>5, Replaced
<1> QED
  BY <1>1, <1>4, <1>6 DEF WorkerType, Stands

\* The flows are read, and nothing else changes.
LEMMA ReadFlowsEffect ==
  ASSUME TypeOK, NEW w \in Worker, ReadFlows(w)
  PROVE  /\ worker' \in [Worker -> WorkerType] /\ Others(w)
         /\ worker'[w].op = worker[w].op /\ worker'[w].target = worker[w].target
         /\ worker'[w].pending = worker[w].pending \ {"flows"}
         /\ worker'[w].rows = worker[w].rows
         /\ Stands(w, worker[w].at, worker[w].todo, worker[w].p, worker[w].kind, worker[w].row)
<1> DEFINE r == worker[w]
           n == [r EXCEPT !.pending = @ \ {"flows"}, !.flows = executed]
<1>1. r \in WorkerType /\ worker \in [Worker -> WorkerType] /\ executed \in BOOLEAN
  BY DEF TypeOK
<1>2. n \in WorkerType
  BY <1>1 DEF WorkerType
<1>3. worker' = [worker EXCEPT ![w] = n]
  BY DEF ReadFlows
<1>4. worker' \in [Worker -> WorkerType] /\ worker'[w] = n /\ Others(w)
  <2> HIDE DEF n
  <2> QED
    BY <1>1, <1>2, <1>3, Replaced
<1> QED
  BY <1>1, <1>4 DEF WorkerType, Stands

\* The calls of an execution have ended; without flows nothing was authorized.
LEMMA AuthorizeEffect ==
  ASSUME worker \in [Worker -> WorkerType], NEW w \in Worker, Authorize(w)
  PROVE  /\ worker' \in [Worker -> WorkerType] /\ Others(w)
         /\ worker'[w].op = worker[w].op /\ worker'[w].target = worker[w].target
         /\ worker'[w].pending = worker[w].pending /\ worker'[w].rows = worker[w].rows
         /\ ~worker'[w].flows => worker'[w].auth = NoSpend
         /\ Stands(w, "save", worker[w].todo, worker[w].p, worker[w].kind, worker[w].row)
<1>1. PICK auth \in [Provider -> 0..Ceiling], flows \in BOOLEAN, outcome \in {"active", "completed"} :
        /\ ~flows => auth = NoSpend /\ outcome = "active"
        /\ worker' = [worker EXCEPT ![w].at = "save", ![w].auth = auth,
                                    ![w].flows = flows, ![w].status = outcome]
  BY DEF Authorize
<1> DEFINE r == worker[w]
           n == [r EXCEPT !.at = "save", !.auth = auth, !.flows = flows, !.status = outcome]
<1>2. r \in WorkerType
  OBVIOUS
<1>3. n \in WorkerType
  BY <1>2 DEF WorkerType, TaskStatus
<1>4. worker' = [worker EXCEPT ![w] = n]
  BY <1>1
<1>5. worker' \in [Worker -> WorkerType] /\ worker'[w] = n /\ Others(w)
  <2> HIDE DEF n
  <2> QED
    BY <1>3, <1>4, Replaced
<1> QED
  BY <1>1, <1>2, <1>5 DEF WorkerType, Stands

\* A claim ends: it has landed, or it is in doubt.
LEMMA ClaimEffect ==
  ASSUME worker \in [Worker -> WorkerType], NEW w \in Worker, ClaimLands(w) \/ ClaimFails(w)
  PROVE  \E kind \in {"finalized", "ambiguous"} :
           /\ worker' \in [Worker -> WorkerType] /\ Others(w) /\ Keeps(w)
           /\ Stands(w, "update", worker[w].todo, worker[w].p, kind, worker[w].row)
           /\ kind = "finalized" => ClaimLands(w)
           /\ kind = "ambiguous" => ClaimFails(w)
<1> DEFINE r == worker[w]
           n(kind) == [r EXCEPT !.at = "update", !.kind = kind]
<1>1. r \in WorkerType
  OBVIOUS
<1>2. PICK kind \in {"finalized", "ambiguous"} :
        /\ worker' = [worker EXCEPT ![w] = n(kind)]
        /\ kind = "finalized" => ClaimLands(w)
        /\ kind = "ambiguous" => ClaimFails(w)
  BY DEF ClaimLands, ClaimFails
<1>3. n(kind) \in WorkerType
  BY <1>1 DEF WorkerType
<1>4. worker' \in [Worker -> WorkerType] /\ worker'[w] = n(kind) /\ Others(w)
  <2> HIDE DEF n
  <2> QED
    BY <1>2, <1>3, Replaced
<1> QED
  BY <1>1, <1>2, <1>4 DEF WorkerType, Keeps, Stands

-----------------------------------------------------------------------------
(* The control of the handlers. *)

\* An idle worker is in control.
LEMMA IdleControlled == Controlled(Idle)
BY DEF Controlled, Idle, Terminal

\* What a step does for its worker: the request, the channels still to visit
\* and what was read of them, the update in hand, and the lease.
Progress(w) ==
  LET r == worker[w]
      n == worker'[w]
  IN  /\ \/ n.op = r.op /\ n.target = r.target
         \/ n.op = "none"
         \/ r = Idle /\ n.op \in AllOps /\ ~Locked(n.op, n.target)
      /\ n.op = "execute" => r.op = "execute" \/ ~executed
      /\ n.at = "save" /\ ~n.flows => n.auth = NoSpend
      /\ \A p \in ToVisit(n) :
           /\ n.op = r.op
           /\ \/ p \in ToVisit(r) /\ n.rows[p] = r.rows[p]
              \/ n.rows[p] = rows[p] /\ UNCHANGED rows
      /\ \A p \in Provider : n.rows[p] \in {r.rows[p], rows[p], Reserved}
      /\ n.kind \in {"prepared", "opened"} =>
           /\ n.rows = r.rows /\ n.op = r.op
           /\ \/ n.kind = r.kind /\ n.p = r.p
              \/ Fresh(r, n.p) /\ n.p \in r.todo
                 /\ (n.kind = "opened" => Deposit(w, n.p))
      /\ n.at = "write" => ReadRow(w) /\ n.row = rows[n.p] /\ n.p = r.p
      /\ Leases(n) => /\ n.rows = r.rows
                      /\ \/ Leases(r) /\ n.p = r.p
                         \/ BeginFinalization(w, n.p) /\ CanLease(n.p) /\ n.at = "claim"
      /\ n.at = "claim" => BeginFinalization(w, n.p)
      /\ n.kind = "finalized" => ClaimLands(w) \/ r.kind = "finalized"
      /\ n.at \in {"settle", "publish"} =>
           r.at = "settle" \/ (WriteRow(w) /\ r.kind = "finalized")

\* A worker that ends its request makes all the progress there is.
LEMMA IdleProgress ==
  ASSUME TypeOK, NEW w \in Worker, worker'[w] = Idle
  PROVE  Progress(w)
BY DEF Progress, Idle, ToVisit, Leases, NoRows

\* No step takes a worker out of its type, or its handler out of its course.
LEMMA ControlStep ==
  ASSUME TypeOK, InControl, [Next]_vars
  PROVE  /\ worker' \in [Worker -> WorkerType] /\ InControl'
         /\ (\E w \in Worker : Others(w) /\ Progress(w)) \/ UNCHANGED worker
<1> DEFINE Moved(w) == worker' \in [Worker -> WorkerType] /\ Others(w)
                    /\ Controlled(worker'[w]) /\ Progress(w)
<1> SUFFICES (\E w \in Worker : Moved(w)) \/ UNCHANGED worker
  BY DEF TypeOK, InControl, Others
<1>0. /\ worker \in [Worker -> WorkerType] /\ rows \in [Provider -> Row]
      /\ \A w \in Worker : Controlled(worker[w]) /\ worker[w].target \subseteq Provider
  BY DEF TypeOK, InControl, WorkerType
<1>1. ASSUME NEW w \in Worker, NEW op \in Op, NEW target \in Targets(op), Begin(w, op, target)
      PROVE  Moved(w)
  <2>1. /\ op \in {"prepare", "execute"} => target = Provider
        /\ op = "deposit" => \E p \in Provider : target = {p}
        /\ op # "execute" /\ op \in AllOps
        /\ worker[w] = Idle /\ ~Locked(op, target)
    BY <1>1, LiveChannelAssumption DEF Targets, Begin
  <2>2. /\ worker' \in [Worker -> WorkerType] /\ Others(w)
        /\ worker'[w].op = op /\ worker'[w].target = target
        /\ "channels" \in worker'[w].pending /\ worker'[w].rows = NoRows
        /\ Stands(w, "reading", {}, "none", "none", Reserved)
    BY <1>1, BeginEffect
  <2>3. Controlled(worker'[w])
    BY <2>1, <2>2 DEF Stands, Controlled
  <2>4. Progress(w)
    BY <2>1, <2>2 DEF Stands, Progress, ToVisit, Leases, NoRows
  <2> QED
    BY <2>2, <2>3, <2>4
<1>2. ASSUME NEW w \in Worker, BeginExecution(w)
      PROVE  Moved(w)
  <2>1. worker[w] = Idle /\ ~Locked("execute", Provider) /\ ~executed
    BY <1>2 DEF BeginExecution
  <2>2. /\ worker' \in [Worker -> WorkerType] /\ Others(w)
        /\ worker'[w].op = "execute" /\ worker'[w].target = Provider
        /\ worker'[w].pending = {} /\ worker'[w].rows = NoRows
        /\ Stands(w, "executing", {}, "none", "none", Reserved)
    BY <1>0, <1>2, ExecutionEffect
  <2>3. Controlled(worker'[w])
    BY <2>2 DEF Stands, Controlled
  <2>4. Progress(w)
    BY <2>1, <2>2 DEF Stands, Progress, ToVisit, Leases, NoRows, AllOps
  <2> QED
    BY <2>2, <2>3, <2>4
<1>3. ASSUME NEW w \in Worker, ReadChannels(w)
      PROVE  Moved(w)
  <2>1. /\ worker' \in [Worker -> WorkerType] /\ Others(w)
        /\ worker'[w].op = worker[w].op /\ worker'[w].target = worker[w].target
        /\ worker'[w].pending = worker[w].pending \ {"channels"}
        /\ \A p \in Provider :
             worker'[w].rows[p] = IF p \in worker[w].target THEN rows[p] ELSE Reserved
        /\ Stands(w, worker[w].at, worker[w].todo, worker[w].p, worker[w].kind, worker[w].row)
    BY <1>3, ReadChannelsEffect
  <2>2. Controlled(worker'[w])
    BY <1>0, <2>1 DEF Stands, Controlled
  <2>3. Progress(w)
    <3>1. /\ worker[w].at = "reading" /\ worker[w].kind = "none" /\ UNCHANGED rows
          /\ worker[w].target \subseteq Provider
      BY <1>0, <1>3 DEF ReadChannels, Controlled
    <3> QED
      BY <2>1, <3>1 DEF Stands, Progress, ToVisit, Leases
  <2> QED
    BY <2>1, <2>2, <2>3
<1>4. ASSUME NEW w \in Worker, ReadFlows(w)
      PROVE  Moved(w)
  <2>1. /\ worker' \in [Worker -> WorkerType] /\ Others(w)
        /\ worker'[w].op = worker[w].op /\ worker'[w].target = worker[w].target
        /\ worker'[w].pending = worker[w].pending \ {"flows"}
        /\ worker'[w].rows = worker[w].rows
        /\ Stands(w, worker[w].at, worker[w].todo, worker[w].p, worker[w].kind, worker[w].row)
    BY <1>4, ReadFlowsEffect
  <2>2. Controlled(worker'[w])
    BY <1>0, <2>1 DEF Stands, Controlled
  <2>3. Progress(w)
    <3>1. worker[w].at = "reading" /\ worker[w].kind = "none"
      BY <1>0, <1>4 DEF ReadFlows, Controlled
    <3> QED
      BY <2>1, <3>1 DEF Stands, Progress, ToVisit, Leases
  <2> QED
    BY <2>1, <2>2, <2>3
<1>5. ASSUME NEW w \in Worker, Admit(w)
      PROVE  Moved(w)
  <2>1. CASE Finish(w)
    BY <1>0, <2>1, FinishEffect, IdleControlled, IdleProgress
  <2>2. CASE worker' = [worker EXCEPT ![w].at = "loop", ![w].todo = worker[w].target]
    <3>1. /\ worker' \in [Worker -> WorkerType] /\ Others(w) /\ Keeps(w)
          /\ Stands(w, "loop", worker[w].target, worker[w].p, worker[w].kind, worker[w].row)
      BY <1>0, <2>2, AdmitEffect
    <3>2. worker[w].at = "reading" /\ worker[w].pending = {} /\ Controlled(worker[w])
      BY <1>0, <1>5 DEF Admit
    <3>3. Controlled(worker'[w])
      BY <3>1, <3>2 DEF Keeps, Stands, Controlled
    <3>4. Progress(w)
      BY <3>1, <3>2 DEF Keeps, Stands, Controlled, Progress, ToVisit, Leases
    <3> QED
      BY <3>1, <3>3, <3>4
  <2> QED
    BY <1>5, <2>1, <2>2 DEF Admit
<1>6. ASSUME NEW w \in Worker, NEW p \in Provider, SkipChannel(w, p)
      PROVE  Moved(w)
  <2>1. /\ worker' \in [Worker -> WorkerType] /\ Others(w) /\ Keeps(w)
        /\ Stands(w, worker[w].at, worker[w].todo \ {p}, worker[w].p, worker[w].kind,
                  worker[w].row)
    BY <1>0, <1>6, SkipEffect DEF SkipChannel
  <2>2. worker[w].at = "loop" /\ Controlled(worker[w])
    BY <1>0, <1>6 DEF SkipChannel
  <2>3. Controlled(worker'[w])
    BY <2>1, <2>2 DEF Keeps, Stands, Controlled
  <2>4. Progress(w)
    BY <2>1, <2>2 DEF Keeps, Stands, Controlled, Progress, ToVisit, Leases
  <2> QED
    BY <2>1, <2>3, <2>4
<1>7. ASSUME NEW w \in Worker, NEW p \in Provider, PrepareChannel(w, p)
      PROVE  Moved(w)
  <2>1. /\ worker' \in [Worker -> WorkerType] /\ Others(w) /\ Keeps(w)
        /\ Stands(w, "update", worker[w].todo, p, "prepared", worker[w].row)
    BY <1>0, <1>7, UpdateEffect DEF PrepareChannel
  <2>2. /\ worker[w].op = "prepare" /\ worker[w].at = "loop" /\ p \in worker[w].todo
        /\ Fresh(worker[w], p) /\ Controlled(worker[w])
    BY <1>0, <1>7 DEF PrepareChannel, Wanted, Fresh
  <2>3. Controlled(worker'[w])
    BY <2>1, <2>2 DEF Keeps, Stands, Controlled
  <2>4. Progress(w)
    BY <2>1, <2>2 DEF Keeps, Stands, Controlled, Progress, ToVisit, Leases, Fresh
  <2> QED
    BY <2>1, <2>3, <2>4
<1>8. ASSUME NEW w \in Worker, NEW p \in Provider, Deposit(w, p)
      PROVE  Moved(w)
  <2>1. /\ worker' \in [Worker -> WorkerType] /\ Others(w) /\ Keeps(w)
        /\ Stands(w, "update", worker[w].todo, p, "opened", worker[w].row)
    BY <1>0, <1>8, UpdateEffect DEF Deposit
  <2>2. /\ worker[w].op = "deposit" /\ worker[w].at = "loop" /\ p \in worker[w].todo
        /\ Fresh(worker[w], p) /\ Controlled(worker[w])
    BY <1>0, <1>8 DEF Deposit, Wanted, Fresh
  <2>3. Controlled(worker'[w])
    BY <2>1, <2>2 DEF Keeps, Stands, Controlled
  <2>4. Progress(w)
    BY <1>8, <2>1, <2>2 DEF Keeps, Stands, Controlled, Progress, ToVisit, Leases, Fresh
  <2> QED
    BY <2>1, <2>3, <2>4
<1>9. ASSUME NEW w \in Worker, NEW p \in Provider, BeginFinalization(w, p)
      PROVE  Moved(w)
  <2>1. CASE CanLease(p)
    <3>1. /\ worker' \in [Worker -> WorkerType] /\ Others(w) /\ Keeps(w)
          /\ Stands(w, "claim", worker[w].todo, p, worker[w].kind, worker[w].row)
      BY <1>0, <1>9, <2>1, LeaseEffect DEF BeginFinalization
    <3>2. worker[w].op \in Terminal /\ worker[w].at = "loop" /\ p \in worker[w].todo
      /\ Controlled(worker[w])
      BY <1>0, <1>9 DEF BeginFinalization, Terminal
    <3>3. Controlled(worker'[w])
      BY <3>1, <3>2 DEF Keeps, Stands, Controlled, Terminal
    <3>4. Progress(w)
      BY <1>9, <2>1, <3>1, <3>2 DEF Keeps, Stands, Controlled, Terminal, Progress, ToVisit, Leases
    <3> QED
      BY <3>1, <3>3, <3>4
  <2>2. CASE ~CanLease(p)
    <3>1. /\ worker' \in [Worker -> WorkerType] /\ Others(w) /\ Keeps(w)
          /\ Stands(w, worker[w].at, worker[w].todo \ {p}, worker[w].p, worker[w].kind,
                    worker[w].row)
      BY <1>0, <1>9, <2>2, SkipEffect DEF BeginFinalization
    <3>2. worker[w].at = "loop" /\ Controlled(worker[w])
      BY <1>0, <1>9 DEF BeginFinalization
    <3>3. Controlled(worker'[w])
      BY <3>1, <3>2 DEF Keeps, Stands, Controlled
    <3>4. Progress(w)
      BY <3>1, <3>2 DEF Keeps, Stands, Controlled, Progress, ToVisit, Leases
    <3> QED
      BY <3>1, <3>3, <3>4
  <2> QED
    BY <2>1, <2>2
<1>10. ASSUME NEW w \in Worker, ClaimLands(w) \/ ClaimFails(w)
       PROVE  Moved(w)
  <2>1. worker[w].at = "claim" /\ worker[w].p \in Provider \cup {"none"} /\ Controlled(worker[w])
    BY <1>0, <1>10 DEF ClaimLands, ClaimFails, WorkerType
  <2>2. PICK kind \in {"finalized", "ambiguous"} :
          /\ worker' \in [Worker -> WorkerType] /\ Others(w) /\ Keeps(w)
          /\ Stands(w, "update", worker[w].todo, worker[w].p, kind, worker[w].row)
          /\ kind = "finalized" => ClaimLands(w)
    BY <1>0, <1>10, ClaimEffect
  <2>3. Controlled(worker'[w])
    BY <2>1, <2>2 DEF Keeps, Stands, Controlled
  <2>4. Progress(w)
    BY <2>1, <2>2 DEF Keeps, Stands, Controlled, Progress, ToVisit, Leases
  <2> QED
    BY <2>2, <2>3, <2>4
<1>11. ASSUME NEW w \in Worker, Continue(w), worker[w].at # "reading", worker[w].op # "execute"
       PROVE  Moved(w)
  <2>1. /\ worker' \in [Worker -> WorkerType] /\ Others(w) /\ Keeps(w)
        /\ Stands(w, "loop", worker[w].todo \ {worker[w].p}, "none", "none", Reserved)
    BY <1>0, <1>11, ContinueEffect
  <2>2. worker[w].at # "reading" /\ worker[w].op # "execute" /\ Controlled(worker[w])
    BY <1>0, <1>11
  <2>3. Controlled(worker'[w])
    BY <2>1, <2>2 DEF Keeps, Stands, Controlled
  <2>4. Progress(w)
    BY <2>1, <2>2 DEF Keeps, Stands, Controlled, Progress, ToVisit, Leases
  <2> QED
    BY <2>1, <2>3, <2>4
<1>12. ASSUME NEW w \in Worker, RecordSettlement(w)
       PROVE  Moved(w)
  <2>1. CASE Goto(w, "publish")
    <3>1. /\ worker' \in [Worker -> WorkerType] /\ Others(w) /\ Keeps(w)
          /\ Stands(w, "publish", worker[w].todo, worker[w].p, worker[w].kind, worker[w].row)
      BY <1>0, <2>1, GotoEffect
    <3>2. worker[w].at = "settle" /\ Controlled(worker[w])
      BY <1>0, <1>12 DEF RecordSettlement
    <3>3. Controlled(worker'[w])
      BY <3>1, <3>2 DEF Keeps, Stands, Controlled
    <3>4. Progress(w)
      BY <3>1, <3>2 DEF Keeps, Stands, Controlled, Progress, ToVisit, Leases
    <3> QED
      BY <3>1, <3>3, <3>4
  <2>2. worker[w].at = "settle" /\ worker[w].op # "execute"
    BY <1>0, <1>12 DEF RecordSettlement, Controlled
  <2> QED
    BY <1>11, <1>12, <2>1, <2>2 DEF RecordSettlement
<1>13. ASSUME NEW w \in Worker, Publish(w)
       PROVE  Moved(w)
  <2>1. worker[w].at = "publish" /\ worker[w].op # "execute"
    BY <1>0, <1>13 DEF Publish, Controlled
  <2> QED
    BY <1>11, <1>13, <2>1 DEF Publish
<1>14. ASSUME NEW w \in Worker, ReadRow(w)
       PROVE  Moved(w)
  <2>1. worker[w].at = "update" /\ worker[w].p \in Provider /\ Controlled(worker[w])
    BY <1>0, <1>14 DEF ReadRow, Controlled
  <2>2. /\ worker' \in [Worker -> WorkerType] /\ Others(w) /\ Keeps(w)
        /\ Stands(w, "write", worker[w].todo, worker[w].p, worker[w].kind, rows[worker[w].p])
    BY <1>0, <1>14, <2>1, ReadRowEffect
  <2>3. Controlled(worker'[w])
    BY <2>1, <2>2 DEF Keeps, Stands, Controlled
  <2>4. Progress(w)
    BY <1>14, <2>1, <2>2 DEF Keeps, Stands, Controlled, Progress, ToVisit, Leases
  <2> QED
    BY <2>2, <2>3, <2>4
<1>15. ASSUME NEW w \in Worker, WriteRow(w)
       PROVE  Moved(w)
  <2>1. worker[w].at = "write" /\ worker[w].op # "execute"
    BY <1>0, <1>15 DEF WriteRow, Controlled
  <2>2. CASE worker[w].kind = "finalized"
    <3>1. /\ worker' \in [Worker -> WorkerType] /\ Others(w) /\ Keeps(w)
          /\ Stands(w, "settle", worker[w].todo, worker[w].p, "none", Reserved)
      BY <1>0, <1>15, <2>2, SettleEffect DEF WriteRow
    <3>2. worker[w].at = "write" /\ worker[w].kind = "finalized" /\ Controlled(worker[w])
      BY <1>0, <2>1, <2>2
    <3>3. Controlled(worker'[w])
      BY <3>1, <3>2 DEF Keeps, Stands, Controlled
    <3>4. Progress(w)
      BY <1>15, <3>1, <3>2 DEF Keeps, Stands, Controlled, Progress, ToVisit, Leases
    <3> QED
      BY <3>1, <3>3, <3>4
  <2> QED
    BY <1>11, <1>15, <2>1, <2>2 DEF WriteRow
<1>16. ASSUME NEW w \in Worker, Authorize(w)
       PROVE  Moved(w)
  <2>1. /\ worker' \in [Worker -> WorkerType] /\ Others(w)
        /\ worker'[w].op = worker[w].op /\ worker'[w].target = worker[w].target
        /\ worker'[w].pending = worker[w].pending /\ worker'[w].rows = worker[w].rows
        /\ ~worker'[w].flows => worker'[w].auth = NoSpend
        /\ Stands(w, "save", worker[w].todo, worker[w].p, worker[w].kind, worker[w].row)
    BY <1>0, <1>16, AuthorizeEffect
  <2>2. worker[w].at = "executing" /\ Controlled(worker[w])
    BY <1>0, <1>16 DEF Authorize
  <2>3. Controlled(worker'[w])
    BY <2>1, <2>2 DEF Stands, Controlled
  <2>4. Progress(w)
    BY <2>1, <2>2 DEF Stands, Controlled, Progress, ToVisit, Leases
  <2> QED
    BY <2>1, <2>3, <2>4
<1>17. ASSUME NEW w \in Worker, StatementThrows(w)
       PROVE  Moved(w)
  <2>1. CASE worker[w].at \in {"settle", "publish"} \/ worker[w].kind = "finalized"
    <3>1. /\ worker' \in [Worker -> WorkerType] /\ Others(w) /\ Keeps(w)
          /\ Stands(w, "update", worker[w].todo, worker[w].p, "ambiguous", Reserved)
      BY <1>0, <1>17, <2>1, CatchEffect DEF StatementThrows
    <3>2. (worker[w].at \in {"settle", "publish"} \/ worker[w].kind = "finalized")
      /\ Controlled(worker[w])
      BY <1>0, <2>1
    <3>3. Controlled(worker'[w])
      BY <3>1, <3>2 DEF Keeps, Stands, Controlled
    <3>4. Progress(w)
      BY <3>1, <3>2 DEF Keeps, Stands, Controlled, Progress, ToVisit, Leases
    <3> QED
      BY <3>1, <3>3, <3>4
  <2>2. CASE Finish(w)
    BY <1>0, <2>2, FinishEffect, IdleControlled, IdleProgress
  <2> QED
    BY <1>17, <2>1, <2>2 DEF StatementThrows
<1>18. ASSUME NEW w \in Worker, Respond(w) \/ GatewayFails(w) \/ SaveExecution(w) \/ Crash(w)
       PROVE  Moved(w)
  BY <1>0, <1>18, FinishEffect, IdleControlled, IdleProgress DEF Respond, GatewayFails, SaveExecution, Crash
<1>19. CASE Submit \/ Cancel \/ Archive \/ Expire \/ UNCHANGED vars
  BY <1>19 DEF Submit, Cancel, Archive, Lifecycle, Expire, vars
<1> HIDE DEF Moved
<1> QED
  BY <1>1, <1>2, <1>3, <1>4, <1>5, <1>6, <1>7, <1>8, <1>9, <1>10, <1>12, <1>13, <1>14,
     <1>15, <1>16, <1>17, <1>18, <1>19
  DEF Next, Handle

-----------------------------------------------------------------------------
(* The tables. *)

\* What a step may do to the row of a channel: its cumulative aside, only a
\* lease and the write of a handler change it.
SameShape(p) ==
  /\ rows'[p].status = rows[p].status /\ rows'[p].stage = rows[p].stage
  /\ rows'[p].payload = rows[p].payload
  /\ rows'[p] = rows[p] \/ \E w \in Worker : SaveExecution(w)

TakesLease(p) ==
  /\ \E w \in Worker : BeginFinalization(w, p)
  /\ CanLease(p)
  /\ rows'[p] = [rows[p] EXCEPT !.stage = "finalization-started"]

Writes(w, p) == WriteRow(w) /\ worker[w].p = p /\ rows'[p] = UpdatedRow(worker[w])

\* Every step does one of these to a row.
LEMMA RowStep ==
  ASSUME TypeOK, InControl, [Next]_vars
  PROVE  /\ rows' \in [Provider -> Row]
         /\ \A p \in Provider :
              SameShape(p) \/ TakesLease(p) \/ \E w \in Worker : Writes(w, p)
<1> DEFINE Claim == /\ rows' \in [Provider -> Row]
                    /\ \A p \in Provider :
                         SameShape(p) \/ TakesLease(p) \/ \E w \in Worker : Writes(w, p)
<1> SUFFICES Claim
  OBVIOUS
<1> USE DEF SameShape, TakesLease, Writes
<1>0. /\ rows \in [Provider -> Row] /\ worker \in [Worker -> WorkerType]
      /\ \A w \in Worker : Controlled(worker[w]) /\ worker[w].target \subseteq Provider
  BY DEF TypeOK, InControl, WorkerType
<1>1. CASE UNCHANGED rows
  BY <1>0, <1>1
<1>2. ASSUME NEW w \in Worker, NEW q \in Provider, BeginFinalization(w, q), CanLease(q)
      PROVE  Claim
  <2> DEFINE n == [rows[q] EXCEPT !.stage = "finalization-started"]
  <2>1. n \in Row
    BY <1>0 DEF Row, Stage
  <2>2. rows' = [rows EXCEPT ![q] = n]
    BY <1>2 DEF BeginFinalization
  <2> HIDE DEF n
  <2>3. rows' \in [Provider -> Row] /\ rows'[q] = n /\ \A x \in Provider : x # q => rows'[x] = rows[x]
    BY <1>0, <2>1, <2>2
  <2>4. TakesLease(q)
    BY <1>2, <2>3 DEF n
  <2> QED
    BY <2>3, <2>4
<1>3. ASSUME NEW w \in Worker, WriteRow(w)
      PROVE  Claim
  <2>1. worker[w].p \in Provider /\ worker[w].kind # "none"
    BY <1>0, <1>3 DEF WriteRow, Controlled
  <2>2. UpdatedRow(worker[w]) \in Row /\ rows' = [rows EXCEPT ![worker[w].p] = UpdatedRow(worker[w])]
    BY <1>0, <1>3, <2>1, UpdatedRowType DEF WriteRow
  <2>3. /\ rows' \in [Provider -> Row] /\ rows'[worker[w].p] = UpdatedRow(worker[w])
        /\ \A x \in Provider : x # worker[w].p => rows'[x] = rows[x]
    BY <1>0, <2>1, <2>2
  <2> QED
    BY <1>3, <2>3
<1>4. ASSUME NEW w \in Worker, SaveExecution(w)
      PROVE  Claim
  <2>1. \A x \in Provider : worker[w].auth[x] \in 0..Ceiling
    BY <1>0 DEF WorkerType
  <2>2. \A x \in Provider : [rows[x] EXCEPT !.cum = worker[w].auth[x]] \in Row
    BY <1>0, <2>1 DEF Row
  <2>3. rows' = [x \in Provider |-> [rows[x] EXCEPT !.cum = worker[w].auth[x]]]
    BY <1>4 DEF SaveExecution
  <2>4. rows' \in [Provider -> Row]
    BY <2>2, <2>3
  <2>5. ASSUME NEW p \in Provider
        PROVE  /\ rows'[p].status = rows[p].status /\ rows'[p].stage = rows[p].stage
               /\ rows'[p].payload = rows[p].payload
    <3>1. rows'[p] = [rows[p] EXCEPT !.cum = worker[w].auth[p]]
      BY <2>3
    <3> QED
      BY <1>0, <3>1 DEF Row
  <2> QED
    BY <1>4, <2>4, <2>5
<1>5. ASSUME NEW w \in Worker, NEW op \in Op, NEW target \in Targets(op), Begin(w, op, target)
      PROVE  UNCHANGED rows
  BY <1>5 DEF Begin
<1>6. ASSUME NEW w \in Worker,
             BeginExecution(w) \/ ReadChannels(w) \/ ReadFlows(w) \/ Admit(w) \/ Respond(w)
             \/ GatewayFails(w) \/ ClaimLands(w) \/ ClaimFails(w)
      PROVE  UNCHANGED rows
  BY <1>6 DEF BeginExecution, ReadChannels, ReadFlows, Admit, Respond, GatewayFails,
    ClaimLands, ClaimFails
<1>7. ASSUME NEW w \in Worker,
             RecordSettlement(w) \/ Publish(w) \/ ReadRow(w) \/ Authorize(w)
             \/ StatementThrows(w) \/ Crash(w)
      PROVE  UNCHANGED rows
  BY <1>7 DEF RecordSettlement, Publish, ReadRow, Authorize, StatementThrows, Crash
<1>8. ASSUME NEW w \in Worker, NEW q \in Provider,
             SkipChannel(w, q) \/ PrepareChannel(w, q) \/ Deposit(w, q)
             \/ (BeginFinalization(w, q) /\ ~CanLease(q))
      PROVE  UNCHANGED rows
  BY <1>8 DEF SkipChannel, PrepareChannel, Deposit, BeginFinalization
<1>9. ASSUME Submit \/ Cancel \/ Archive \/ Expire \/ UNCHANGED vars
      PROVE  UNCHANGED rows
  BY <1>9 DEF Submit, Cancel, Archive, Lifecycle, Expire, vars
<1> HIDE DEF Claim
<1>10. ASSUME NEW w \in Worker, Handle(w)
       PROVE  Claim
  BY <1>1, <1>2, <1>3, <1>4, <1>6, <1>7, <1>8, <1>10 DEF Handle
<1> QED
  BY <1>1, <1>5, <1>6, <1>7, <1>9, <1>10 DEF Next

EscrowType == [escrow : {"none", "open", "closed"}, claims : 0..MaxClaims,
               paid : SUBSET (0..Ceiling)]

\* What a step may do to an escrow: fund it, or send the claim of a lease.
Funds(p) == chain[p].escrow # "closed" /\ chain'[p] = [chain[p] EXCEPT !.escrow = "open"]

Claims(w, p) ==
  /\ ClaimLands(w) \/ ClaimFails(w)
  /\ worker[w].at = "claim" /\ worker[w].p = p
  /\ chain'[p].claims = chain[p].claims + 1
  /\ \/ chain'[p].escrow = chain[p].escrow /\ chain'[p].paid = chain[p].paid
     \/ /\ chain'[p].escrow = "closed"
        /\ chain'[p].paid = chain[p].paid \cup {worker[w].rows[p].cum}

\* Every step does one of these to an escrow.
LEMMA ChainStep ==
  ASSUME TypeOK, InControl, [Next]_vars
  PROVE  /\ chain' \in [Provider -> EscrowType]
         /\ \A p \in Provider :
              chain'[p] = chain[p] \/ Funds(p) \/ \E w \in Worker : Claims(w, p)
<1> DEFINE Claim == /\ chain' \in [Provider -> EscrowType]
                    /\ \A p \in Provider :
                         chain'[p] = chain[p] \/ Funds(p) \/ \E w \in Worker : Claims(w, p)
<1> SUFFICES Claim
  OBVIOUS
<1> USE DEF Funds
<1>0. /\ chain \in [Provider -> EscrowType] /\ worker \in [Worker -> WorkerType]
      /\ \A w \in Worker : Controlled(worker[w]) /\ worker[w].target \subseteq Provider
  BY DEF TypeOK, InControl, WorkerType, EscrowType
<1>1. CASE UNCHANGED chain
  BY <1>0, <1>1
<1>2. ASSUME NEW q \in Provider, chain[q].escrow # "closed",
             chain' = [chain EXCEPT ![q].escrow = "open"]
      PROVE  Claim
  <2> DEFINE n == [chain[q] EXCEPT !.escrow = "open"]
  <2>1. n \in EscrowType
    BY <1>0 DEF EscrowType
  <2>2. chain' = [chain EXCEPT ![q] = n]
    BY <1>2
  <2> HIDE DEF n
  <2>3. chain' \in [Provider -> EscrowType] /\ chain'[q] = n
        /\ \A x \in Provider : x # q => chain'[x] = chain[x]
    BY <1>0, <2>1, <2>2
  <2> QED
    BY <1>2, <2>3 DEF n
<1>3. ASSUME NEW w \in Worker, NEW n \in EscrowType, worker[w].at = "claim",
             ClaimLands(w) \/ ClaimFails(w),
             chain' = [chain EXCEPT ![worker[w].p] = n],
             n.claims = chain[worker[w].p].claims + 1,
             \/ n.escrow = chain[worker[w].p].escrow /\ n.paid = chain[worker[w].p].paid
             \/ /\ n.escrow = "closed"
                /\ n.paid = chain[worker[w].p].paid \cup {worker[w].rows[worker[w].p].cum}
      PROVE  Claim
  <2>1. worker[w].p \in Provider
    BY <1>0, <1>3 DEF Controlled
  <2>2. chain' \in [Provider -> EscrowType] /\ chain'[worker[w].p] = n
        /\ \A x \in Provider : x # worker[w].p => chain'[x] = chain[x]
    BY <1>0, <1>3, <2>1
  <2>3. Claims(w, worker[w].p)
    BY <1>3, <2>2 DEF Claims
  <2> QED
    BY <2>2, <2>3
<1>4. ASSUME NEW w \in Worker, ClaimLands(w) \/ ClaimFails(w), ~UNCHANGED chain
      PROVE  Claim
  <2> DEFINE q == worker[w].p
             lost == [chain[q] EXCEPT !.claims = @ + 1]
             paid == [escrow |-> "closed", claims |-> chain[q].claims + 1,
                      paid |-> chain[q].paid \cup {worker[w].rows[q].cum}]
  <2>1. /\ worker[w].at = "claim" /\ q \in Provider /\ chain[q] \in EscrowType
        /\ chain[q].claims < MaxClaims
    BY <1>0, <1>4 DEF ClaimLands, ClaimFails, Controlled
  <2>2. worker[w].rows[q].cum \in 0..Ceiling
    <3>1. worker[w].rows[q] \in Row
      BY <1>0, <2>1 DEF WorkerType
    <3> QED
      BY <3>1 DEF Row
  <2>3. chain' = [chain EXCEPT ![q] = lost] \/ chain' = [chain EXCEPT ![q] = paid]
    BY <1>0, <1>4, <2>1 DEF ClaimLands, ClaimFails, PayOut
  <2>4. lost \in EscrowType /\ paid \in EscrowType
    <3>1. chain[q].claims + 1 \in 0..MaxClaims
      BY <2>1, LiveChannelAssumption DEF EscrowType
    <3> QED
      BY <2>1, <2>2, <3>1 DEF EscrowType
  <2>5. lost.claims = chain[q].claims + 1 /\ lost.escrow = chain[q].escrow
        /\ lost.paid = chain[q].paid
    BY <2>1 DEF EscrowType
  <2>6. paid.claims = chain[q].claims + 1 /\ paid.escrow = "closed"
        /\ paid.paid = chain[q].paid \cup {worker[w].rows[q].cum}
    OBVIOUS
  <2> HIDE DEF lost, paid, Claim
  <2> QED
    BY <1>3, <1>4, <2>1, <2>3, <2>4, <2>5, <2>6
<1>5. ASSUME NEW w \in Worker, GatewayFails(w)
      PROVE  Claim
  <2>1. worker[w].todo \subseteq Provider
    BY <1>0 DEF WorkerType
  <2>2. PICK q \in worker[w].todo :
          UNCHANGED chain \/ (chain[q].escrow = "none"
                              /\ chain' = [chain EXCEPT ![q].escrow = "open"])
    BY <1>5 DEF GatewayFails
  <2> HIDE DEF Claim
  <2> QED
    BY <1>1, <1>2, <2>1, <2>2
<1>6. ASSUME NEW w \in Worker, NEW q \in Provider, Deposit(w, q)
      PROVE  Claim
  BY <1>2, <1>6 DEF Deposit
<1>7. ASSUME NEW w \in Worker, NEW op \in Op, NEW target \in Targets(op), Begin(w, op, target)
      PROVE  UNCHANGED chain
  BY <1>7 DEF Begin
<1>8. ASSUME NEW w \in Worker,
             BeginExecution(w) \/ ReadChannels(w) \/ ReadFlows(w) \/ Admit(w) \/ Respond(w)
             \/ RecordSettlement(w) \/ Publish(w) \/ ReadRow(w) \/ WriteRow(w)
      PROVE  UNCHANGED chain
  BY <1>8 DEF BeginExecution, ReadChannels, ReadFlows, Admit, Respond, RecordSettlement,
    Publish, ReadRow, WriteRow
<1>9. ASSUME NEW w \in Worker,
             Authorize(w) \/ SaveExecution(w) \/ StatementThrows(w) \/ Crash(w)
      PROVE  UNCHANGED chain
  BY <1>9 DEF Authorize, SaveExecution, StatementThrows, Crash
<1>10. ASSUME NEW w \in Worker, NEW q \in Provider,
              SkipChannel(w, q) \/ PrepareChannel(w, q) \/ BeginFinalization(w, q)
       PROVE  UNCHANGED chain
  BY <1>10 DEF SkipChannel, PrepareChannel, BeginFinalization
<1>11. ASSUME Submit \/ Cancel \/ Archive \/ Expire \/ UNCHANGED vars
      PROVE  UNCHANGED chain
  BY <1>11 DEF Submit, Cancel, Archive, Lifecycle, Expire, vars
<1> HIDE DEF Claim
<1>12. ASSUME NEW w \in Worker, Handle(w)
       PROVE  Claim
  BY <1>1, <1>4, <1>5, <1>6, <1>8, <1>9, <1>10, <1>12 DEF Handle
<1> QED
  BY <1>1, <1>7, <1>8, <1>9, <1>11, <1>12 DEF Next

\* The flows change with a saved execution only.
LEMMA FlowStep ==
  ASSUME [Next]_vars
  PROVE  \/ executed' = executed /\ authorized' = authorized
         \/ \E w \in Worker : SaveExecution(w)
<1> DEFINE Same == executed' = executed /\ authorized' = authorized
<1>1. ASSUME NEW w \in Worker, NEW op \in Op, NEW target \in Targets(op), Begin(w, op, target)
      PROVE  Same
  BY <1>1 DEF Begin
<1>2. ASSUME NEW w \in Worker,
             BeginExecution(w) \/ ReadChannels(w) \/ ReadFlows(w) \/ Admit(w) \/ Respond(w)
             \/ GatewayFails(w) \/ ClaimLands(w) \/ ClaimFails(w)
      PROVE  Same
  BY <1>2 DEF BeginExecution, ReadChannels, ReadFlows, Admit, Respond, GatewayFails,
    ClaimLands, ClaimFails
<1>3. ASSUME NEW w \in Worker,
             RecordSettlement(w) \/ Publish(w) \/ ReadRow(w) \/ WriteRow(w) \/ Authorize(w)
             \/ StatementThrows(w) \/ Crash(w)
      PROVE  Same
  BY <1>3 DEF RecordSettlement, Publish, ReadRow, WriteRow, Authorize, StatementThrows, Crash
<1>4. ASSUME NEW w \in Worker, NEW q \in Provider,
             SkipChannel(w, q) \/ PrepareChannel(w, q) \/ Deposit(w, q) \/ BeginFinalization(w, q)
      PROVE  Same
  BY <1>4 DEF SkipChannel, PrepareChannel, Deposit, BeginFinalization
<1>5. ASSUME Submit \/ Cancel \/ Archive \/ Expire \/ UNCHANGED vars
      PROVE  Same
  BY <1>5 DEF Submit, Cancel, Archive, Lifecycle, Expire, vars
<1> DEFINE Goal == Same \/ \E w \in Worker : SaveExecution(w)
<1> SUFFICES Goal
  OBVIOUS
<1> HIDE DEF Same
<1>6. ASSUME NEW w \in Worker, Handle(w)
      PROVE  Goal
  BY <1>2, <1>3, <1>4, <1>6 DEF Handle
<1> HIDE DEF Goal
<1>7. Same => Goal
  BY DEF Goal
<1> QED
  BY <1>1, <1>2, <1>3, <1>5, <1>6, <1>7 DEF Next

\* What saveExecution leaves: the flows of its one execution.
LEMMA SaveEffect ==
  ASSUME TypeOK, InControl, Spends, NEW w \in Worker, SaveExecution(w)
  PROVE  /\ authorized' = worker[w].auth /\ authorized' \in [Provider -> 0..Ceiling]
         /\ executed' = worker[w].flows /\ ~executed /\ authorized = NoSpend
         /\ ~worker[w].flows => worker[w].auth = NoSpend
         /\ worker[w].op = "execute" /\ worker[w].target = Provider
         /\ \A p \in Provider : rows'[p] = [rows[p] EXCEPT !.cum = worker[w].auth[p]]
<1>1. worker[w] \in WorkerType /\ worker[w].at = "save" /\ executed \in BOOLEAN
  BY DEF TypeOK, SaveExecution
<1>2. worker[w].op = "execute" /\ worker[w].target = Provider
  BY <1>1 DEF InControl, Controlled
<1>3. executed = FALSE /\ authorized = NoSpend /\ (~worker[w].flows => worker[w].auth = NoSpend)
  BY <1>1, <1>2 DEF Spends
<1>4. worker[w].auth \in [Provider -> 0..Ceiling] /\ worker[w].flows \in BOOLEAN
  BY <1>1 DEF WorkerType
<1>5. \A p \in Provider : authorized[p] + worker[w].auth[p] = worker[w].auth[p]
  BY <1>3, <1>4, LiveChannelAssumption DEF NoSpend
<1>6. authorized' = [p \in Provider |-> worker[w].auth[p]]
  BY <1>5 DEF SaveExecution
<1>7. authorized' = worker[w].auth
  BY <1>4, <1>6
<1>8. executed' = worker[w].flows
  BY <1>3, <1>4 DEF SaveExecution
<1>9. \A p \in Provider : rows'[p] = [rows[p] EXCEPT !.cum = worker[w].auth[p]]
  BY DEF SaveExecution
<1> QED
  BY <1>2, <1>3, <1>4, <1>7, <1>8, <1>9

\* Requests that exclude each other keep doing so.
LEMMA ExclusiveStep ==
  ASSUME TypeOK, InControl, Exclusive, [Next]_vars
  PROVE  Exclusive'
<1>1. CASE UNCHANGED worker
  BY <1>1 DEF Exclusive
<1>2. ASSUME NEW x \in Worker, Others(x), Progress(x)
      PROVE  Exclusive'
  <2> SUFFICES ASSUME NEW v \in Worker, v # x, worker'[v].op = worker'[x].op,
                      worker'[v].op \in {"prepare", "deposit", "execute"}
               PROVE  worker'[v].target # worker'[x].target
    BY <1>2 DEF Exclusive, Others
  <2>1. worker'[v] = worker[v]
    BY <1>2 DEF Others
  <2>2. CASE worker'[x].op = worker[x].op /\ worker'[x].target = worker[x].target
    BY <2>1, <2>2 DEF Exclusive
  <2>3. CASE ~Locked(worker'[x].op, worker'[x].target)
    <3>1. worker[v] # Idle
      BY <2>1 DEF Idle
    <3> QED
      BY <2>1, <2>3, <3>1 DEF Locked
  <2> QED
    BY <1>2, <2>2, <2>3 DEF Progress
<1> QED
  BY <1>1, <1>2, ControlStep

\* No copy of a cumulative gets ahead of the recorded flows.
LEMMA SpendsStep ==
  ASSUME TypeOK, InControl, Exclusive, Spends, [Next]_vars
  PROVE  Spends' /\ authorized' \in [Provider -> 0..Ceiling]
         /\ \A p \in Provider : authorized[p] <= authorized'[p]
<1>0. /\ rows \in [Provider -> Row] /\ worker \in [Worker -> WorkerType]
      /\ authorized \in [Provider -> 0..Ceiling]
      /\ \A p \in Provider : authorized[p] \in Int /\ rows[p].cum \in Int /\ rows[p].cum >= 0
      /\ \A w \in Worker : Controlled(worker[w])
      /\ \A w \in Worker : \A p \in Provider : worker[w].rows[p].cum \in Int
      /\ \A w \in Worker : worker[w].row.cum \in Int
      /\ Reserved.cum = 0 /\ \A p \in Provider : 0 <= authorized[p]
  BY LiveChannelAssumption DEF TypeOK, InControl, WorkerType, Row, Reserved
<1> DEFINE Grows == /\ authorized' \in [Provider -> 0..Ceiling]
                    /\ \A p \in Provider : authorized[p] <= authorized'[p]
                    /\ ~executed' => authorized' = NoSpend
<1>1. Grows
  <2>1. ASSUME NEW w \in Worker, SaveExecution(w)
        PROVE  Grows
    <3>1. /\ authorized' \in [Provider -> 0..Ceiling] /\ authorized = NoSpend
          /\ ~executed' => authorized' = NoSpend
      BY <2>1, SaveEffect
    <3> QED
      BY <3>1, LiveChannelAssumption DEF NoSpend
  <2>2. CASE executed' = executed /\ authorized' = authorized
    BY <1>0, <2>2 DEF Spends
  <2> HIDE DEF Grows
  <2> QED
    BY <2>1, <2>2, FlowStep
<1>2. \A p \in Provider : authorized'[p] \in Int
  BY <1>1
<1>3. ASSUME NEW p \in Provider
      PROVE  rows'[p].cum <= authorized'[p]
  <2>1. rows[p].cum <= authorized[p]
    BY DEF Spends
  <2>2. CASE rows'[p] = rows[p] \/ TakesLease(p)
    <3>1. rows'[p].cum = rows[p].cum
      BY <1>0, <2>2 DEF TakesLease, Row
    <3> QED
      BY <1>0, <1>1, <1>2, <2>1, <3>1
  <2>3. ASSUME NEW w \in Worker, SaveExecution(w)
        PROVE  rows'[p].cum <= authorized'[p]
    <3>1. rows'[p] = [rows[p] EXCEPT !.cum = worker[w].auth[p]] /\ authorized' = worker[w].auth
      BY <2>3, SaveEffect
    <3>2. rows'[p].cum = authorized'[p]
      BY <1>0, <3>1 DEF Row
    <3> QED
      BY <1>2, <3>2
  <2>4. ASSUME NEW w \in Worker, Writes(w, p)
        PROVE  rows'[p].cum <= authorized'[p]
    <3>1. /\ worker[w] \in WorkerType /\ worker[w].row \in Row
          /\ worker[w].at = "write" /\ worker[w].kind # "none" /\ worker[w].p = p
      BY <1>0, <2>4 DEF Writes, WriteRow, Controlled, WorkerType
    <3>2. worker[w].row.cum <= authorized[p]
      BY <3>1 DEF Spends
    <3>3. worker[w].kind \in {"prepared", "opened", "finalized", "ambiguous"}
      BY <3>1 DEF WorkerType
    <3>4. rows'[p].cum = worker[w].row.cum
      BY <2>4, <3>1, <3>3 DEF Writes, UpdatedRow, Row
    <3> QED
      BY <1>0, <1>1, <1>2, <3>2, <3>4
  <2> QED
    BY <2>2, <2>3, <2>4, RowStep DEF SameShape
<1>4. ASSUME NEW v \in Worker
      PROVE  worker'[v] = worker[v] \/ Progress(v)
  BY ControlStep DEF Others
<1>5. ASSUME NEW v \in Worker, worker'[v].op = "execute"
      PROVE  ~executed'
  <2>1. CASE executed' = executed
    BY <1>4, <1>5, <2>1 DEF Spends, Progress
  <2>2. ASSUME NEW y \in Worker, SaveExecution(y)
        PROVE  FALSE
    <3>1. worker'[y] = Idle /\ Others(y)
      BY <1>0, <2>2, FinishEffect DEF SaveExecution
    <3>2. v # y /\ worker[v].op = "execute"
      BY <1>5, <3>1 DEF Idle, Others
    <3>3. worker[y].op = "execute" /\ worker[y].target = worker[v].target
      BY <1>0, <2>2, <3>2, SaveEffect DEF Controlled
    <3> QED
      BY <3>2, <3>3 DEF Exclusive
  <2> QED
    BY <2>1, <2>2, FlowStep
<1>6. ASSUME NEW v \in Worker, worker'[v].at = "save", ~worker'[v].flows
      PROVE  worker'[v].auth = NoSpend
  BY <1>4, <1>6 DEF Spends, Progress
<1>7. ASSUME NEW v \in Worker, NEW p \in Provider
      PROVE  worker'[v].rows[p].cum <= authorized'[p]
  <2>1. worker'[v].rows[p] \in {worker[v].rows[p], rows[p], Reserved}
    BY <1>4 DEF Progress
  <2>2. worker[v].rows[p].cum <= authorized[p] /\ rows[p].cum <= authorized[p]
    BY DEF Spends
  <2>3. Reserved.cum <= authorized[p]
    BY <1>0
  <2> QED
    BY <1>0, <1>1, <1>2, <2>1, <2>2, <2>3
<1>8. ASSUME NEW v \in Worker, NEW p \in Provider, worker'[v].at = "write", worker'[v].p = p
      PROVE  worker'[v].row.cum <= authorized'[p]
  <2>1. CASE worker'[v] = worker[v]
    <3>1. worker[v].row.cum <= authorized[p]
      BY <1>8, <2>1 DEF Spends
    <3> QED
      BY <1>0, <1>1, <1>2, <2>1, <3>1
  <2>2. CASE Progress(v)
    <3>1. worker'[v].row = rows[p] /\ rows[p].cum <= authorized[p]
      BY <1>8, <2>2 DEF Spends, Progress
    <3> QED
      BY <1>0, <1>1, <1>2, <3>1
  <2> QED
    BY <1>4, <2>1, <2>2
<1> QED
  BY <1>1, <1>3, <1>5, <1>6, <1>7, <1>8 DEF Spends

-----------------------------------------------------------------------------
(* The invariants of the channels. *)

\* Every worker stays as it is or makes progress; a row or an escrow changes
\* in the hands of the worker that moves.
LEMMA OneMoves ==
  ASSUME TypeOK, InControl, [Next]_vars, NEW v \in Worker
  PROVE  /\ worker'[v] = worker[v] \/ (Progress(v) /\ Others(v))
         /\ WriteRow(v) => worker'[v] # worker[v]
         /\ ClaimLands(v) \/ ClaimFails(v) => worker'[v] # worker[v]
<1>0. worker \in [Worker -> WorkerType] /\ Controlled(worker[v])
  BY DEF TypeOK, InControl
<1>1. worker'[v] = worker[v] \/ (Progress(v) /\ Others(v))
  BY ControlStep DEF Others
<1>2. ASSUME WriteRow(v)
      PROVE  worker'[v] # worker[v]
  <2>1. worker[v].at = "write"
    BY <1>2 DEF WriteRow
  <2>2. CASE worker[v].kind = "finalized"
    BY <1>0, <1>2, <2>1, <2>2, SettleEffect DEF WriteRow, Stands
  <2>3. CASE Continue(v)
    BY <1>0, <2>1, <2>3, ContinueEffect DEF Stands
  <2> QED
    BY <1>2, <2>2, <2>3 DEF WriteRow
<1>3. ASSUME ClaimLands(v) \/ ClaimFails(v)
      PROVE  worker'[v] # worker[v]
  <2>1. worker[v].at = "claim"
    BY <1>3 DEF ClaimLands, ClaimFails
  <2> QED
    BY <1>0, <1>3, <2>1, ClaimEffect DEF Stands
<1> QED
  BY <1>1, <1>2, <1>3

\* A handler that has written its row is through with the channel, or settles.
LEMMA WriteEffect ==
  ASSUME TypeOK, InControl, NEW w \in Worker, WriteRow(w)
  PROVE  /\ worker[w].kind = "finalized" => worker'[w].at = "settle"
         /\ worker[w].kind # "finalized" =>
              ToVisit(worker'[w]) = worker[w].todo \ {worker[w].p} /\ ~Leases(worker'[w])
<1>0. worker \in [Worker -> WorkerType]
  BY DEF TypeOK
<1>1. CASE worker[w].kind = "finalized"
  BY <1>0, <1>1, SettleEffect DEF WriteRow, Stands
<1>2. CASE worker[w].kind # "finalized"
  BY <1>0, <1>2, ContinueEffect DEF WriteRow, Stands, ToVisit, Leases
<1> QED
  BY <1>1, <1>2

\* What a handler makes of the row it read.
LEMMA UpdatedRowShape ==
  ASSUME NEW r \in WorkerType, r.p \in Provider
  PROVE  LET row == UpdatedRow(r)
             seen == r.rows[r.p]
         IN  /\ r.kind = "prepared" => row.status = r.row.status /\ row.stage = "prepared"
             /\ r.kind = "opened" => row.status = "open" /\ row.stage = "open" /\ row.payload
             /\ r.kind = "finalized" =>
                  /\ row.status = IF seen.cum = 0 THEN "recovered" ELSE "distributed"
                  /\ row.stage = "finalized" /\ row.payload = seen.payload
             /\ r.kind = "ambiguous" =>
                  /\ row.status = "failed" /\ row.stage = "finalization-ambiguous"
                  /\ row.payload = seen.payload
<1> DEFINE seen == r.rows[r.p]
<1>1. r.row \in Row
  BY DEF WorkerType
<1>2. CASE r.kind = "prepared"
  BY <1>1, <1>2 DEF UpdatedRow, Row
<1>3. CASE r.kind = "opened"
  BY <1>1, <1>3 DEF UpdatedRow, Row
<1>4. CASE r.kind = "finalized"
  <2> HIDE DEF seen
  <2>1. \E to \in {IF seen.cum = 0 THEN "recovered" ELSE "distributed"} :
          UpdatedRow(r) = [r.row EXCEPT !.status = to, !.stage = "finalized",
                                        !.payload = seen.payload]
    BY <1>4 DEF UpdatedRow, seen
  <2> QED
    BY <1>1, <1>4, <2>1 DEF Row, seen
<1>5. CASE r.kind = "ambiguous"
  BY <1>1, <1>5 DEF UpdatedRow, Row
<1> QED
  BY <1>2, <1>3, <1>4, <1>5

\* The update a handler is writing, and the row it is about to replace.
LEMMA UpdateInHand ==
  ASSUME TypeOK, InControl, Visits, Leased, NEW w \in Worker, NEW p \in Provider, WriteRow(w),
         worker[w].p = p
  PROVE  /\ worker[w].at = "write" /\ p \in ToVisit(worker[w])
         /\ \/ /\ worker[w].kind = "prepared" /\ worker[w].op = "prepare"
               /\ rows[p].status = "reserved" /\ rows[p].stage = "none"
               /\ worker[w].row.status = "reserved"
            \/ /\ worker[w].kind = "opened" /\ worker[w].op = "deposit"
               /\ rows[p].status = "reserved" /\ rows[p].stage # "none"
               /\ chain[p].escrow # "none"
            \/ /\ worker[w].kind \in {"finalized", "ambiguous"} /\ Leases(worker[w])
               /\ rows[p].status \in {"open"} \cup TerminalChannel
               /\ worker[w].rows[p].payload
<1>1. worker[w].at = "write" /\ Controlled(worker[w]) /\ worker[w] \in WorkerType
  BY DEF TypeOK, InControl, WriteRow
<1>2. p \in ToVisit(worker[w]) /\ worker[w].kind # "none"
  BY <1>1 DEF Controlled, ToVisit
<1>3. worker[w].kind \in {"prepared", "opened", "finalized", "ambiguous"}
  BY <1>1, <1>2 DEF WorkerType
<1>4. CASE worker[w].kind = "prepared"
  <2>1. worker[w].op = "prepare"
    BY <1>1, <1>4 DEF Controlled
  <2>2. Fresh(worker[w], p) /\ worker[w].row.status = "reserved"
    BY <1>1, <1>4 DEF Visits
  <2> QED
    BY <1>1, <1>2, <1>4, <2>1, <2>2 DEF Visits
<1>5. CASE worker[w].kind = "opened"
  <2>1. worker[w].op = "deposit"
    BY <1>1, <1>5 DEF Controlled
  <2>2. Fresh(worker[w], p) /\ chain[p].escrow # "none"
    BY <1>5 DEF Visits
  <2> QED
    BY <1>1, <1>2, <1>5, <2>1, <2>2 DEF Visits
<1>6. CASE worker[w].kind \in {"finalized", "ambiguous"}
  BY <1>1, <1>2, <1>6 DEF Leased, LeaseHolds, Leases
<1> QED
  BY <1>3, <1>4, <1>5, <1>6

\* What preparations and deposits want stays as they have read it.
LEMMA VisitsStep ==
  ASSUME TypeOK, InControl, Exclusive, Visits, Leased, [Next]_vars
  PROVE  Visits'
<1>0. /\ worker \in [Worker -> WorkerType] /\ rows \in [Provider -> Row]
      /\ \A w \in Worker : Controlled(worker[w]) /\ worker[w].target \subseteq Provider
      /\ \A w \in Worker : worker'[w] \in WorkerType /\ Controlled(worker'[w])
                           /\ worker'[w].target \subseteq Provider
  BY ControlStep DEF TypeOK, InControl, WorkerType
<1> DEFINE Fits(r, p) == rows[p].status = "reserved" /\ (rows[p].stage = "none" <=> r.op = "prepare")
<1>1. ASSUME NEW v \in Worker, NEW p \in ToVisit(worker'[v]),
             worker'[v].op \in {"prepare", "deposit"}, Fresh(worker'[v], p)
      PROVE  /\ rows'[p].status = "reserved"
             /\ rows'[p].stage = "none" <=> worker'[v].op = "prepare"
  <2>0. p \in Provider
    BY <1>0 DEF ToVisit, Controlled
  <2>1. CASE worker'[v].rows[p] = rows[p] /\ UNCHANGED rows
    BY <1>1, <2>1 DEF Fresh
  <2>2. CASE /\ worker'[v].op = worker[v].op /\ p \in ToVisit(worker[v])
             /\ worker'[v].rows[p] = worker[v].rows[p]
    <3>1. Fresh(worker[v], p)
      BY <1>1, <2>2 DEF Fresh
    <3>2. Fits(worker[v], p)
      BY <1>1, <2>2, <3>1 DEF Visits
    <3>3. CASE SameShape(p)
      BY <2>2, <3>2, <3>3 DEF SameShape
    <3>4. ASSUME TakesLease(p)
          PROVE  FALSE
      BY <3>2, <3>4 DEF TakesLease, CanLease
    <3>5. ASSUME NEW x \in Worker, Writes(x, p)
          PROVE  FALSE
      <4>1. WriteRow(x) /\ worker[x].p = p
        BY <3>5 DEF Writes
      <4>2. ASSUME x = v
            PROVE  FALSE
        <5>1. worker'[v].at # "settle"
          BY <1>0, <1>1 DEF Controlled, Terminal
        <5> QED
          BY <1>1, <4>1, <4>2, <5>1, WriteEffect
      <4>3. worker[x].op = worker[v].op /\ p \in ToVisit(worker[x]) /\ worker[x].at = "write"
        BY <1>1, <2>0, <2>2, <3>2, <4>1, UpdateInHand DEF TerminalChannel
      <4>4. p \in worker[x].target /\ p \in worker[v].target
        BY <1>0, <2>2, <4>3 DEF ToVisit, Controlled
      <4>5. worker[x].target = worker[v].target
        <5>1. CASE worker[v].op = "prepare"
          BY <1>0, <4>3, <5>1 DEF Controlled
        <5>2. CASE worker[v].op = "deposit"
          <6>1. /\ \E q \in Provider : worker[x].target = {q}
                /\ \E q \in Provider : worker[v].target = {q}
            BY <1>0, <4>3, <5>2 DEF Controlled
          <6> QED
            BY <4>4, <6>1
        <5> QED
          BY <1>1, <2>2, <5>1, <5>2
      <4> QED
        BY <1>1, <2>2, <4>2, <4>3, <4>5 DEF Exclusive
    <3> QED
      BY <2>0, <3>3, <3>4, <3>5, RowStep
  <2> QED
    BY <1>1, <2>1, <2>2, OneMoves DEF Progress
<1>2. ASSUME NEW v \in Worker, worker'[v].kind \in {"prepared", "opened"}
      PROVE  Fresh(worker'[v], worker'[v].p)
  <2>1. CASE worker'[v] = worker[v]
    BY <1>2, <2>1 DEF Visits
  <2>2. CASE Progress(v)
    <3>1. worker'[v].rows = worker[v].rows /\ worker'[v].op = worker[v].op
          /\ Fresh(worker[v], worker'[v].p)
      BY <1>2, <2>2 DEF Progress, Visits
    <3> QED
      BY <1>0, <1>2, <3>1 DEF Fresh, Controlled
  <2> QED
    BY <2>1, <2>2, OneMoves
<1>3. ASSUME NEW v \in Worker, worker'[v].kind = "prepared", worker'[v].at = "write"
      PROVE  worker'[v].row.status = "reserved"
  <2>1. CASE worker'[v] = worker[v]
    BY <1>3, <2>1 DEF Visits
  <2>2. CASE Progress(v)
    <3> DEFINE p == worker'[v].p
    <3>1. /\ ReadRow(v) /\ worker'[v].row = rows[p] /\ worker[v].p = p
          /\ worker'[v].rows = worker[v].rows /\ worker'[v].op = worker[v].op
          /\ Fresh(worker[v], p)
      BY <1>3, <2>2 DEF Progress, Visits
    <3>2. worker[v].at = "update" /\ worker[v].op = "prepare"
      BY <1>0, <1>3, <3>1 DEF ReadRow, Controlled
    <3>3. p \in ToVisit(worker[v])
      BY <1>0, <3>1, <3>2 DEF Controlled, ToVisit
    <3> QED
      BY <3>1, <3>2, <3>3 DEF Visits
  <2> QED
    BY <2>1, <2>2, OneMoves
<1>4. ASSUME NEW v \in Worker, NEW p \in Provider, worker'[v].kind = "opened", worker'[v].p = p
      PROVE  chain'[p].escrow # "none"
  <2>0. chain[p] \in EscrowType
    BY DEF TypeOK, EscrowType
  <2>1. CASE Deposit(v, p)
    <3>1. chain' = [chain EXCEPT ![p].escrow = "open"] /\ chain \in [Provider -> EscrowType]
      BY <2>1 DEF Deposit, TypeOK, EscrowType
    <3> QED
      BY <3>1 DEF EscrowType
  <2>2. CASE worker[v].kind = "opened" /\ worker[v].p = p
    <3>1. chain[p].escrow # "none"
      BY <2>2 DEF Visits
    <3> QED
      BY <2>0, <3>1, ChainStep DEF Funds, Claims, EscrowType
  <2> QED
    BY <1>4, <2>1, <2>2, OneMoves DEF Progress
<1>5. ASSUME NEW v \in Worker
      PROVE  LET r == worker'[v] IN
             /\ \A p \in ToVisit(r) :
                  r.op \in {"prepare", "deposit"} /\ Fresh(r, p) =>
                    /\ rows'[p].status = "reserved"
                    /\ rows'[p].stage = "none" <=> r.op = "prepare"
             /\ r.kind \in {"prepared", "opened"} => Fresh(r, r.p)
             /\ r.kind = "prepared" /\ r.at = "write" => r.row.status = "reserved"
             /\ r.kind = "opened" => \A p \in Provider : p = r.p => chain'[p].escrow # "none"
  BY <1>1, <1>2, <1>3, <1>4
<1> QED
  BY <1>5 DEF Visits

\* A channel is leased by one handler, and stays the way its lease has it.
LEMMA LeasedStep ==
  ASSUME TypeOK, InControl, Visits, Leased, Channels, [Next]_vars
  PROVE  Leased'
<1>0. /\ worker \in [Worker -> WorkerType] /\ rows \in [Provider -> Row]
      /\ \A w \in Worker : Controlled(worker[w])
      /\ \A w \in Worker : Controlled(worker'[w])
      /\ \A w \in Worker : Leases(worker[w]) => worker[w].p \in Provider
      /\ \A w \in Worker : Leases(worker'[w]) => worker'[w].p \in Provider
  <2>1. /\ worker \in [Worker -> WorkerType] /\ rows \in [Provider -> Row]
        /\ \A w \in Worker : Controlled(worker[w]) /\ worker[w] \in WorkerType
        /\ \A w \in Worker : Controlled(worker'[w]) /\ worker'[w] \in WorkerType
    BY ControlStep DEF TypeOK, InControl
  <2>2. ASSUME NEW r \in WorkerType, Controlled(r), Leases(r)
        PROVE  r.p \in Provider
    <3>1. r.target \subseteq Provider
      BY DEF WorkerType
    <3> QED
      BY <2>2, <3>1 DEF Controlled, Leases
  <2> QED
    BY <2>1, <2>2
<1>1. ASSUME NEW v \in Worker, Leases(worker[v])
      PROVE  ~CanLease(worker[v].p)
  BY <1>0, <1>1 DEF Leased, LeaseHolds, CanLease, BlockedStage, TerminalChannel
<1>2. ASSUME NEW v \in Worker, NEW x \in Worker, v # x,
             Leases(worker'[v]), Leases(worker'[x]), worker'[v].p = worker'[x].p
      PROVE  FALSE
  <2> SUFFICES ASSUME NEW y \in Worker, NEW z \in Worker, y # z,
                      Leases(worker'[y]), Leases(worker'[z]), worker'[y].p = worker'[z].p,
                      worker'[z] = worker[z]
               PROVE  FALSE
    BY <1>2, OneMoves DEF Others
  <2>1. CASE Leases(worker[y]) /\ worker[y].p = worker'[y].p
    BY <2>1 DEF Leased
  <2>2. CASE CanLease(worker'[y].p)
    BY <1>1, <2>2
  <2> QED
    BY <2>1, <2>2, OneMoves DEF Leased, Progress
<1>3. ASSUME NEW v \in Worker, NEW p \in Provider, Leases(worker'[v]), worker'[v].p = p
      PROVE  worker'[v].rows[p].payload
  <2>1. CASE worker'[v].rows = worker[v].rows /\ Leases(worker[v]) /\ worker[v].p = p
    BY <2>1 DEF Leased, LeaseHolds
  <2>2. CASE worker'[v].rows = worker[v].rows /\ BeginFinalization(v, p)
    <3>1. worker[v].op \in Terminal /\ Wanted(worker[v], p)
      BY <2>2 DEF BeginFinalization, Terminal
    <3> QED
      BY <2>2, <3>1 DEF Wanted, Claimable, Terminal
  <2> QED
    BY <1>3, <2>1, <2>2, OneMoves DEF Progress
\* The row of a leased channel changes by the hand of its handler.
<1>4. ASSUME NEW v \in Worker, NEW p \in Provider, NEW x \in Worker, WriteRow(x), worker[x].p = p,
             Leases(worker[v]), worker[v].p = p
      PROVE  x = v /\ worker[v].kind \in {"finalized", "ambiguous"}
  <2>1. rows[p].status # "reserved"
    BY <1>4 DEF Leased, LeaseHolds, TerminalChannel
  <2>2. worker[x].kind \in {"finalized", "ambiguous"} /\ Leases(worker[x])
    BY <1>4, <2>1, UpdateInHand
  <2> QED
    BY <1>4, <2>2 DEF Leased
<1> DEFINE Holds(v, p) ==
             LET r == worker'[v] IN
             /\ rows'[p].status \in {"open"} \cup TerminalChannel
             /\ rows'[p].status = "open" => rows'[p].stage = "finalization-started"
             /\ r.at = "claim" \/ r.kind = "finalized" => rows'[p].status = "open"
             /\ r.at \in {"settle", "publish"} => rows'[p].status \in TerminalChannel
<1>5. ASSUME NEW v \in Worker, NEW p \in Provider, Leases(worker'[v]), worker'[v].p = p
      PROVE  Holds(v, p)
  <2>1. CASE BeginFinalization(v, p) /\ CanLease(p) /\ worker'[v].at = "claim"
    <3>1. rows'[p] = [rows[p] EXCEPT !.stage = "finalization-started"] /\ rows[p].status = "open"
      BY <1>0, <2>1 DEF BeginFinalization, CanLease
    <3>2. rows'[p].status = "open" /\ rows'[p].stage = "finalization-started"
      BY <1>0, <3>1 DEF Row
    <3> QED
      BY <2>1, <3>2
  <2>2. CASE Leases(worker[v]) /\ worker[v].p = p
    <3>1. LeaseHolds(worker[v])
      BY <2>2 DEF Leased
    <3>2. worker'[v].at = "claim" => worker[v].at = "claim"
      <4>1. ~BeginFinalization(v, p)
        BY <1>0, <2>2 DEF BeginFinalization, Leases, Controlled
      <4> QED
        BY <1>5, <4>1, OneMoves DEF Progress
    <3>3. ASSUME NEW x \in Worker, WriteRow(x), worker[x].p = p
          PROVE  Holds(v, p)
      <4>1. x = v /\ worker[v].kind = "finalized" /\ worker'[v].at = "settle"
        BY <1>4, <1>5, <2>2, <3>3, WriteEffect
      <4>2. worker'[v].kind = "none"
        BY <1>0, <4>1 DEF Controlled
      <4>3. rows'[p].status \in TerminalChannel
        <5>1. rows' = [rows EXCEPT ![p] = UpdatedRow(worker[v])] /\ worker[v].row \in Row
          BY <1>0, <3>3, <4>1 DEF WriteRow, WorkerType
        <5>2. rows'[p] = UpdatedRow(worker[v])
          BY <1>0, <5>1
        <5> QED
          BY <1>0, <3>3, <4>1, <5>2, UpdatedRowShape DEF TerminalChannel, Leases
      <4> QED
        BY <4>1, <4>2, <4>3 DEF TerminalChannel
    <3>4. CASE ~(\E x \in Worker : WriteRow(x) /\ worker[x].p = p)
      <4>1. SameShape(p)
        BY <1>1, <2>2, <3>4, RowStep DEF TakesLease, Writes
      <4>2. ASSUME worker'[v].kind = "finalized"
            PROVE  rows[p].status = "open"
        <5>1. worker[v].kind = "finalized" \/ worker[v].at = "claim"
          BY <4>2, OneMoves DEF Progress, ClaimLands
        <5> QED
          BY <2>2, <3>1, <5>1 DEF LeaseHolds
      <4>3. worker'[v].at \in {"settle", "publish"} => rows[p].status \in TerminalChannel
        BY <2>2, <3>1, <3>4, OneMoves DEF Progress, LeaseHolds
      <4> QED
        BY <2>2, <3>1, <3>2, <4>1, <4>2, <4>3 DEF SameShape, LeaseHolds
    <3> HIDE DEF Holds
    <3> QED
      BY <3>3, <3>4
  <2> HIDE DEF Holds
  <2> QED
    BY <1>5, <2>1, <2>2, OneMoves DEF Progress
<1> DEFINE Paid(v, p) ==
             LET r == worker'[v] IN
             /\ r.at = "claim" => chain'[p].claims = 0
             /\ r.at \in {"settle", "publish"} \/ r.kind = "finalized" =>
                  chain'[p].paid = {r.rows[p].cum}
<1>6. ASSUME NEW v \in Worker, NEW p \in Provider, Leases(worker'[v]), worker'[v].p = p
      PROVE  Paid(v, p)
  <2>0. chain \in [Provider -> EscrowType]
    BY DEF TypeOK, EscrowType
  <2>1. CASE BeginFinalization(v, p) /\ CanLease(p) /\ worker'[v].at = "claim"
    <3>1. chain' = chain /\ chain[p].claims = 0
      BY <2>1 DEF BeginFinalization, Channels, ChannelHolds
    <3>2. worker'[v].kind = "none"
      BY <1>0, <2>1 DEF Controlled
    <3> QED
      BY <2>1, <3>1, <3>2
  <2>2. CASE Leases(worker[v]) /\ worker[v].p = p
    <3>1. LeaseHolds(worker[v])
      BY <2>2 DEF Leased
    <3>2. worker'[v].at = "claim" => worker'[v] = worker[v]
      <4>1. ~BeginFinalization(v, p)
        BY <1>0, <2>2 DEF BeginFinalization, Leases, Controlled
      <4> QED
        BY <1>5, <1>6, <4>1, OneMoves DEF Progress
    <3>3. worker'[v].rows = worker[v].rows
      BY <1>6, OneMoves DEF Progress
    <3>4. ASSUME NEW x \in Worker, Claims(x, p)
          PROVE  x = v /\ worker[v].at = "claim" /\ worker'[v] # worker[v]
      <4>1. Leases(worker[x]) /\ worker[x].p = p
        BY <3>4 DEF Claims, Leases
      <4>2. x = v
        BY <2>2, <4>1 DEF Leased
      <4> QED
        BY <3>4, <4>2, OneMoves DEF Claims
    <3>5. CASE worker'[v].at = "claim"
      <4>1. chain[p].claims = 0 /\ worker'[v].kind = "none" /\ worker'[v] = worker[v]
        BY <1>0, <2>2, <3>1, <3>2, <3>5 DEF LeaseHolds, Controlled
      <4>2. chain'[p].claims = chain[p].claims
        BY <2>0, <3>4, <4>1, ChainStep DEF Funds, EscrowType
      <4> QED
        BY <3>5, <4>1, <4>2
    <3>6. CASE ClaimLands(v)
      <4>1. worker[v].at = "claim" /\ chain' = [chain EXCEPT ![p] =
              [escrow |-> "closed", claims |-> @.claims + 1,
               paid |-> @.paid \cup {worker[v].rows[p].cum}]]
        BY <2>2, <3>6 DEF ClaimLands, PayOut
      <4>2. chain[p].claims = 0 /\ chain[p].paid = {}
        BY <2>2, <3>1, <4>1 DEF LeaseHolds, Channels, ChannelHolds
      <4>3. chain'[p].paid = {worker[v].rows[p].cum}
        BY <2>0, <4>1, <4>2
      <4>4. worker'[v].at # "claim"
        BY <3>2, <3>6, OneMoves
      <4> QED
        BY <3>3, <4>3, <4>4
    <3>7. CASE /\ worker'[v].at \in {"settle", "publish"} \/ worker'[v].kind = "finalized"
               /\ ~ClaimLands(v)
      <4>1. worker[v].at \in {"settle", "publish"} \/ worker[v].kind = "finalized"
        BY <3>7, OneMoves DEF Progress
      <4>2. worker[v].at # "claim"
        BY <1>0, <4>1 DEF Controlled
      <4>3. chain'[p].paid = chain[p].paid
        BY <2>0, <3>4, <4>2, ChainStep DEF Funds, EscrowType
      <4>4. worker'[v].at # "claim"
        BY <1>0, <3>7 DEF Controlled
      <4> QED
        BY <2>2, <3>1, <3>3, <4>1, <4>3, <4>4 DEF LeaseHolds
    <3> QED
      BY <3>5, <3>6, <3>7
  <2> HIDE DEF Paid
  <2> QED
    BY <1>6, <2>1, <2>2, OneMoves DEF Progress
<1>7. ASSUME NEW v \in Worker, Leases(worker'[v])
      PROVE  /\ LET r == worker'[v] IN
                \A p \in Provider : p = r.p =>
                  /\ r.rows[p].payload
                  /\ rows'[p].status \in {"open"} \cup TerminalChannel
                  /\ rows'[p].status = "open" => rows'[p].stage = "finalization-started"
                  /\ r.at = "claim" => rows'[p].status = "open" /\ chain'[p].claims = 0
                  /\ r.kind = "finalized" => rows'[p].status = "open"
                  /\ r.at \in {"settle", "publish"} => rows'[p].status \in TerminalChannel
                  /\ r.at \in {"settle", "publish"} \/ r.kind = "finalized" =>
                       chain'[p].paid = {r.rows[p].cum}
             /\ \A x \in Worker : x # v /\ Leases(worker'[x]) => worker'[x].p # worker'[v].p
  BY <1>2, <1>3, <1>5, <1>6, <1>7
<1> QED
  BY <1>7 DEF Leased, LeaseHolds, Leases, TerminalChannel

\* A step moves a row or an escrow, never both.
LEMMA OneTable ==
  ASSUME NEW w \in Worker, NEW p \in Provider, WriteRow(w) \/ BeginFinalization(w, p)
  PROVE  chain' = chain
BY DEF WriteRow, BeginFinalization

\* A row and its escrow go together.
LEMMA ChannelsStep ==
  ASSUME TypeOK, InControl, Spends, Visits, Leased, Channels, [Next]_vars
  PROVE  Channels'
<1> SUFFICES ASSUME NEW p \in Provider
             PROVE  ChannelHolds(p)'
  BY DEF Channels
<1>0. /\ chain[p] \in EscrowType /\ chain'[p] \in EscrowType
      /\ rows[p] \in Row /\ rows'[p] \in Row
      /\ \A w \in Worker : worker[w] \in WorkerType
      /\ ChannelHolds(p)
  BY ChainStep, RowStep DEF TypeOK, EscrowType, Channels
<1>1. CASE SameShape(p) /\ chain'[p] = chain[p]
  BY <1>0, <1>1 DEF ChannelHolds, SameShape, CanLease
<1>2. CASE SameShape(p) /\ Funds(p)
  <2>1. /\ chain'[p].escrow = "open" /\ chain'[p].claims = chain[p].claims
        /\ chain'[p].paid = chain[p].paid /\ chain[p].paid = {}
    BY <1>0, <1>2 DEF Funds, EscrowType, ChannelHolds
  <2> QED
    BY <1>0, <1>2, <2>1 DEF ChannelHolds, SameShape, CanLease
<1>3. ASSUME SameShape(p), NEW w \in Worker, Claims(w, p)
      PROVE  ChannelHolds(p)'
  <2>1. worker[w].at = "claim" /\ worker[w].p = p
    BY <1>3 DEF Claims
  <2>2. /\ rows[p].status = "open" /\ rows[p].stage = "finalization-started"
        /\ chain[p].claims = 0
    BY <2>1 DEF Leased, Leases, LeaseHolds
  <2>3. rows[p].payload /\ chain[p].escrow # "none" /\ chain[p].paid = {}
    BY <1>0, <2>2 DEF ChannelHolds
  <2>4. /\ rows'[p].status = "open" /\ rows'[p].stage = "finalization-started"
        /\ rows'[p].payload
    BY <1>3, <2>2, <2>3 DEF SameShape
  <2>5. /\ chain'[p].claims = 1 /\ chain'[p].escrow # "none"
        /\ chain'[p].paid # {} => chain'[p].escrow = "closed"
    BY <1>3, <2>2, <2>3 DEF Claims
  <2> QED
    BY <2>4, <2>5 DEF ChannelHolds, CanLease, BlockedStage, TerminalChannel
<1>4. CASE TakesLease(p)
  <2>1. chain' = chain
    BY <1>4, OneTable DEF TakesLease
  <2>2. /\ rows[p].status = "open" /\ rows[p].payload /\ chain[p].escrow # "none"
        /\ rows'[p].status = "open" /\ rows'[p].stage = "finalization-started"
        /\ rows'[p].payload = rows[p].payload
    BY <1>0, <1>4 DEF TakesLease, CanLease, ChannelHolds, Row
  <2> QED
    BY <1>0, <2>1, <2>2 DEF ChannelHolds, CanLease, BlockedStage, TerminalChannel
<1>5. ASSUME NEW w \in Worker, Writes(w, p)
      PROVE  ChannelHolds(p)'
  <2>1. chain' = chain /\ WriteRow(w) /\ worker[w].p = p /\ rows'[p] = UpdatedRow(worker[w])
    BY <1>5, OneTable DEF Writes
  <2>2. CASE worker[w].kind = "prepared"
    <3>1. /\ rows[p].status = "reserved"
          /\ rows'[p].status = "reserved" /\ rows'[p].stage = "prepared"
      BY <1>0, <2>1, <2>2, UpdateInHand, UpdatedRowShape
    <3> QED
      BY <1>0, <2>1, <3>1 DEF ChannelHolds, CanLease, TerminalChannel
  <2>3. CASE worker[w].kind = "opened"
    <3>1. /\ rows[p].status = "reserved" /\ chain[p].escrow # "none"
          /\ rows'[p].status = "open" /\ rows'[p].stage = "open" /\ rows'[p].payload
      BY <1>0, <2>1, <2>3, UpdateInHand, UpdatedRowShape
    <3> QED
      BY <1>0, <2>1, <3>1 DEF ChannelHolds, CanLease, TerminalChannel
  <2>4. CASE worker[w].kind \in {"finalized", "ambiguous"}
    <3>1. /\ Leases(worker[w]) /\ worker[w].rows[p].payload
          /\ rows[p].status \in {"open"} \cup TerminalChannel
      BY <2>1, <2>4, UpdateInHand
    <3>2. chain[p].escrow # "none" /\ rows'[p].payload /\ rows'[p].status \notin {"reserved", "open"}
      BY <1>0, <2>1, <2>4, <3>1, UpdatedRowShape DEF ChannelHolds, TerminalChannel
    <3>3. rows'[p].status \in TerminalChannel =>
            \E amount \in 0..Ceiling :
              chain[p].paid = {amount} /\ (rows'[p].status = "recovered" <=> amount = 0)
      <4>1. CASE worker[w].kind = "finalized"
        <5>1. chain[p].paid = {worker[w].rows[p].cum}
          BY <2>1, <3>1, <4>1 DEF Leased, LeaseHolds
        <5>2. worker[w].rows[p].cum \in 0..Ceiling
          <6>1. worker[w].rows[p] \in Row
            BY <1>0 DEF WorkerType
          <6> QED
            BY <6>1 DEF Row
        <5>3. rows'[p].status = IF worker[w].rows[p].cum = 0 THEN "recovered" ELSE "distributed"
          BY <1>0, <2>1, <4>1, UpdatedRowShape
        <5> QED
          BY <5>1, <5>2, <5>3
      <4>2. CASE worker[w].kind = "ambiguous"
        BY <1>0, <2>1, <4>2, UpdatedRowShape DEF TerminalChannel
      <4> QED
        BY <2>4, <4>1, <4>2
    <3> QED
      BY <1>0, <2>1, <3>2, <3>3 DEF ChannelHolds, CanLease
  <2> QED
    BY <2>1, <2>2, <2>3, <2>4, UpdateInHand
<1>6. ASSUME NEW w \in Worker, Claims(w, p)
      PROVE  SameShape(p)
  <2>1. UNCHANGED rows
    BY <1>6 DEF Claims, ClaimLands, ClaimFails
  <2> QED
    BY <2>1 DEF SameShape
<1>7. CASE Funds(p) /\ chain'[p] # chain[p]
  <2>1. ASSUME NEW w \in Worker, WriteRow(w)
        PROVE  FALSE
    BY <1>7, <2>1, OneTable
  <2>2. ~TakesLease(p)
    BY <1>7, OneTable DEF TakesLease
  <2> QED
    BY <1>2, <1>7, <2>1, <2>2, RowStep DEF Writes
<1> QED
  BY <1>1, <1>3, <1>4, <1>5, <1>6, <1>7, ChainStep, RowStep

\* A settlement is inserted by the handler that has been paid.
LEMMA SettlementStep ==
  ASSUME [Next]_vars
  PROVE  \/ UNCHANGED settlements
         \/ \E w \in Worker : RecordSettlement(w)
<1> DEFINE Goal == UNCHANGED settlements \/ \E w \in Worker : RecordSettlement(w)
<1>1. ASSUME NEW w \in Worker, NEW op \in Op, NEW target \in Targets(op), Begin(w, op, target)
      PROVE  UNCHANGED settlements
  BY <1>1 DEF Begin
<1>2. ASSUME NEW w \in Worker,
             BeginExecution(w) \/ ReadChannels(w) \/ ReadFlows(w) \/ Admit(w) \/ Respond(w)
             \/ GatewayFails(w) \/ ClaimLands(w) \/ ClaimFails(w)
      PROVE  UNCHANGED settlements
  BY <1>2 DEF BeginExecution, ReadChannels, ReadFlows, Admit, Respond, GatewayFails,
    ClaimLands, ClaimFails
<1>3. ASSUME NEW w \in Worker,
             Publish(w) \/ ReadRow(w) \/ WriteRow(w) \/ Authorize(w) \/ SaveExecution(w)
             \/ StatementThrows(w) \/ Crash(w)
      PROVE  UNCHANGED settlements
  BY <1>3 DEF Publish, ReadRow, WriteRow, Authorize, SaveExecution, StatementThrows, Crash
<1>4. ASSUME NEW w \in Worker, NEW q \in Provider,
             SkipChannel(w, q) \/ PrepareChannel(w, q) \/ Deposit(w, q) \/ BeginFinalization(w, q)
      PROVE  UNCHANGED settlements
  BY <1>4 DEF SkipChannel, PrepareChannel, Deposit, BeginFinalization
<1>5. ASSUME Submit \/ Cancel \/ Archive \/ Expire \/ UNCHANGED vars
      PROVE  UNCHANGED settlements
  BY <1>5 DEF Submit, Cancel, Archive, Lifecycle, Expire, vars
<1> SUFFICES Goal
  OBVIOUS
<1>6. ASSUME NEW w \in Worker, Handle(w)
      PROVE  Goal
  BY <1>2, <1>3, <1>4, <1>6 DEF Handle
<1>7. UNCHANGED settlements => Goal
  OBVIOUS
<1> HIDE DEF Goal
<1> QED
  BY <1>1, <1>2, <1>3, <1>5, <1>6, <1>7 DEF Next

\* Recorded settlements are payouts, covered by the recorded flows.
LEMMA SettledStep ==
  ASSUME TypeOK, InControl, Exclusive, Spends, Leased, Channels, Settled, Covered, [Next]_vars
  PROVE  /\ Settled' /\ Covered'
         /\ settlements' \subseteq [provider : Provider, amount : 0..Ceiling]
<1> DEFINE Entry == [provider : Provider, amount : 0..Ceiling]
<1>0. /\ settlements \subseteq Entry
      /\ authorized \in [Provider -> 0..Ceiling] /\ authorized' \in [Provider -> 0..Ceiling]
      /\ \A p \in Provider : authorized[p] <= authorized'[p]
      /\ \A w \in Worker : worker[w] \in WorkerType /\ Controlled(worker[w])
  BY SpendsStep DEF TypeOK, InControl
<1>1. ASSUME NEW x \in settlements
      PROVE  /\ x \in Entry /\ chain'[x.provider].paid = {x.amount}
             /\ x.amount <= authorized'[x.provider]
  <2>0. x.provider \in Provider /\ x.amount \in 0..Ceiling /\ x \in Entry
    BY <1>0
  <2>1. chain[x.provider].paid = {x.amount} /\ chain[x.provider] \in EscrowType
    BY <2>0 DEF Settled, TypeOK, EscrowType
  <2>2. ASSUME NEW w \in Worker, Claims(w, x.provider)
        PROVE  FALSE
    <3>1. chain[x.provider].claims = 0
      BY <2>0, <2>2 DEF Claims, Leased, Leases, LeaseHolds
    <3> QED
      BY <2>0, <2>1, <3>1 DEF Channels, ChannelHolds
  <2>3. chain'[x.provider].paid = chain[x.provider].paid
    BY <2>0, <2>1, <2>2, ChainStep DEF Funds, EscrowType
  <2>4. x.amount <= authorized[x.provider]
    BY DEF Covered
  <2>5. authorized[x.provider] \in 0..Ceiling /\ authorized'[x.provider] \in 0..Ceiling
        /\ authorized[x.provider] <= authorized'[x.provider]
    BY <1>0, <2>0
  <2>6. x.amount <= authorized'[x.provider]
    BY <2>0, <2>4, <2>5, LiveChannelAssumption
  <2> QED
    BY <2>0, <2>1, <2>3, <2>6
<1>2. ASSUME NEW w \in Worker, RecordSettlement(w),
             NEW x, x = [provider |-> worker[w].p, amount |-> worker[w].rows[worker[w].p].cum]
      PROVE  /\ x \in Entry /\ chain'[x.provider].paid = {x.amount}
             /\ x.amount <= authorized'[x.provider]
  <2> DEFINE p == worker[w].p
  <2>1. worker[w].at = "settle" /\ p \in Provider
    <3>1. worker[w].target \subseteq Provider /\ worker[w].at = "settle"
      BY <1>0, <1>2 DEF WorkerType, RecordSettlement
    <3> QED
      BY <1>0, <3>1 DEF Controlled
  <2>2. chain[p].paid = {worker[w].rows[p].cum}
    BY <2>1 DEF Leased, Leases, LeaseHolds
  <2>3. worker[w].rows[p].cum \in 0..Ceiling
    <3>1. worker[w].rows[p] \in Row
      BY <1>0, <2>1 DEF WorkerType
    <3> QED
      BY <3>1 DEF Row
  <2>4. worker[w].rows[p].cum <= authorized[p]
    BY <2>1 DEF Spends
  <2>5. authorized[p] \in 0..Ceiling /\ authorized' = authorized /\ chain' = chain
    BY <1>0, <1>2, <2>1 DEF RecordSettlement
  <2> QED
    BY <1>2, <2>1, <2>2, <2>3, <2>4, <2>5
<1>3. ASSUME NEW x \in settlements'
      PROVE  /\ x \in Entry /\ chain'[x.provider].paid = {x.amount}
             /\ x.amount <= authorized'[x.provider]
  <2> HIDE DEF Entry
  <2>1. ASSUME NEW w \in Worker, RecordSettlement(w)
        PROVE  \/ x \in settlements
               \/ x = [provider |-> worker[w].p, amount |-> worker[w].rows[worker[w].p].cum]
    BY <1>3, <2>1 DEF RecordSettlement
  <2> QED
    BY <1>1, <1>2, <1>3, <2>1, SettlementStep
<1> QED
  BY <1>3 DEF Settled, Covered

\* The task's status and expiry keep their types.
LEMMA TaskStep ==
  ASSUME TypeOK, [Next]_vars
  PROVE  status' \in TaskStatus /\ expired' \in BOOLEAN /\ executed' \in BOOLEAN
<1> DEFINE Same == status' = status /\ expired' = expired /\ executed' = executed
           Goal == status' \in TaskStatus /\ expired' \in BOOLEAN /\ executed' \in BOOLEAN
<1> SUFFICES Goal
  OBVIOUS
<1>0. /\ status \in TaskStatus /\ expired \in BOOLEAN /\ executed \in BOOLEAN
      /\ \A w \in Worker : worker[w].status \in TaskStatus /\ worker[w].flows \in BOOLEAN
  BY DEF TypeOK, WorkerType
<1>1. ASSUME NEW w \in Worker, NEW op \in Op, NEW target \in Targets(op), Begin(w, op, target)
      PROVE  Same
  BY <1>1 DEF Begin
<1>2. ASSUME NEW w \in Worker,
             BeginExecution(w) \/ ReadChannels(w) \/ ReadFlows(w) \/ Admit(w) \/ Respond(w)
             \/ GatewayFails(w) \/ ClaimLands(w) \/ ClaimFails(w)
      PROVE  Same
  BY <1>2 DEF BeginExecution, ReadChannels, ReadFlows, Admit, Respond, GatewayFails,
    ClaimLands, ClaimFails
<1>3. ASSUME NEW w \in Worker,
             RecordSettlement(w) \/ Publish(w) \/ ReadRow(w) \/ WriteRow(w) \/ Authorize(w)
             \/ StatementThrows(w) \/ Crash(w)
      PROVE  Same
  BY <1>3 DEF RecordSettlement, Publish, ReadRow, WriteRow, Authorize, StatementThrows, Crash
<1>4. ASSUME NEW w \in Worker, NEW q \in Provider,
             SkipChannel(w, q) \/ PrepareChannel(w, q) \/ Deposit(w, q) \/ BeginFinalization(w, q)
      PROVE  Same
  BY <1>4 DEF SkipChannel, PrepareChannel, Deposit, BeginFinalization
<1>5. ASSUME NEW w \in Worker, SaveExecution(w)
      PROVE  Goal
  BY <1>0, <1>5 DEF SaveExecution
<1>6. ASSUME Submit \/ Cancel \/ Archive \/ Expire \/ UNCHANGED vars
      PROVE  Goal
  BY <1>0, <1>6 DEF Submit, Cancel, Archive, Lifecycle, Expire, vars, TaskStatus
<1>7. Same => Goal
  BY <1>0
<1> HIDE DEF Same, Goal
<1>8. ASSUME NEW w \in Worker, Handle(w)
      PROVE  Goal
  BY <1>2, <1>3, <1>4, <1>5, <1>7, <1>8 DEF Handle
<1> QED
  BY <1>1, <1>2, <1>3, <1>6, <1>7, <1>8 DEF Next

\* The inductive invariant: it holds first, and every step keeps it.
LEMMA ChannelInvariant == Spec => []ChannelInv
<1>1. Init => ChannelInv
  <2> SUFFICES ASSUME Init
               PROVE  ChannelInv
    OBVIOUS
  <2>0. /\ rows = NoRows /\ authorized = NoSpend /\ settlements = {}
        /\ executed = FALSE /\ expired = FALSE /\ status \in {"draft", "active"}
        /\ chain = [p \in Provider |-> [escrow |-> "none", claims |-> 0, paid |-> {}]]
        /\ \A w \in Worker : worker[w] = Idle
        /\ worker \in [Worker -> WorkerType]
    BY ConstantTypes DEF Init
  <2>1. TypeOK
    <3>1. [escrow |-> "none", claims |-> 0, paid |-> {}] \in EscrowType
      BY LiveChannelAssumption DEF EscrowType
    <3>2. chain \in [Provider -> EscrowType]
      BY <2>0, <3>1
    <3>3. /\ status \in TaskStatus /\ expired \in BOOLEAN /\ executed \in BOOLEAN
          /\ authorized \in [Provider -> 0..Ceiling] /\ rows \in [Provider -> Row]
          /\ settlements \subseteq [provider : Provider, amount : 0..Ceiling]
          /\ worker \in [Worker -> WorkerType]
      BY <2>0, ConstantTypes DEF TaskStatus
    <3> QED
      BY <3>2, <3>3 DEF TypeOK, EscrowType
  <2>2. InControl /\ Exclusive
    <3>1. Idle.op = "none"
      BY DEF Idle
    <3>2. InControl
      BY <2>0, IdleControlled DEF InControl
    <3>3. Exclusive
      BY <2>0, <3>1 DEF Exclusive
    <3> QED
      BY <3>2, <3>3
  <2>3. Spends
    BY <2>0, LiveChannelAssumption DEF Spends, NoRows, Reserved, NoSpend, Idle
  <2>4. Visits /\ Leased
    BY <2>0 DEF Visits, Leased, Leases, ToVisit, Idle
  <2>5. Channels
    BY <2>0 DEF Channels, ChannelHolds, NoRows, Reserved, CanLease, TerminalChannel
  <2>6. Settled /\ Covered
    BY <2>0 DEF Settled, Covered
  <2> QED
    BY <2>1, <2>2, <2>3, <2>4, <2>5, <2>6 DEF ChannelInv
<1>2. ChannelInv /\ [Next]_vars => ChannelInv'
  <2> SUFFICES ASSUME ChannelInv, [Next]_vars
               PROVE  ChannelInv'
    OBVIOUS
  <2>1. /\ TypeOK /\ InControl /\ Exclusive /\ Spends /\ Visits /\ Leased /\ Channels
        /\ Settled /\ Covered
    BY DEF ChannelInv
  <2>2. /\ status' \in TaskStatus /\ expired' \in BOOLEAN /\ executed' \in BOOLEAN
        /\ authorized' \in [Provider -> 0..Ceiling]
        /\ settlements' \subseteq [provider : Provider, amount : 0..Ceiling]
        /\ worker' \in [Worker -> WorkerType]
    BY <2>1, TaskStep, SpendsStep, SettledStep, ControlStep
  <2>3. rows' \in [Provider -> Row] /\ chain' \in [Provider -> EscrowType]
    BY <2>1, RowStep, ChainStep
  <2>4. TypeOK'
    BY <2>2, <2>3 DEF TypeOK, EscrowType
  <2>5. InControl' /\ Exclusive' /\ Spends'
    BY <2>1, ControlStep, ExclusiveStep, SpendsStep
  <2>6. Visits' /\ Leased' /\ Channels'
    BY <2>1, VisitsStep, LeasedStep, ChannelsStep
  <2>7. Settled' /\ Covered'
    BY <2>1, SettledStep
  <2> QED
    BY <2>4, <2>5, <2>6, <2>7 DEF ChannelInv
<1> QED
  BY <1>1, <1>2, PTL DEF Spec

-----------------------------------------------------------------------------
(* The properties. *)

\* Every variable keeps its type: the channels, flows and settlements tables,
\* the escrows and the handlers; no row's cumulative passes its ceiling.
THEOREM TypeCorrect == Spec => []TypeOK
<1>1. ChannelInv => TypeOK
  BY DEF ChannelInv
<1> QED
  BY <1>1, ChannelInvariant, PTL

\* Whatever throws and whoever dies after a claim may have been broadcast, the
\* row never passes the WHERE clause of beginFinalization again.
THEOREM ClaimsAreNotReoffered == Spec => []ClaimIsNeverReoffered
<1>1. ChannelInv => ClaimIsNeverReoffered
  <2> SUFFICES ASSUME ChannelInv, NEW p \in Provider, chain[p].claims > 0, CanLease(p)
               PROVE  FALSE
    BY DEF ClaimIsNeverReoffered
  <2>1. chain[p].claims = 0
    BY DEF ChannelInv, Channels, ChannelHolds
  <2> QED
    BY <2>1
<1> QED
  BY <1>1, ChannelInvariant, PTL

\* A row that reads distributed or recovered says what its escrow has paid.
THEOREM TerminalRowsTellTheTruth == Spec => []TerminalRowsArePaid
<1>1. ChannelInv => TerminalRowsArePaid
  <2> SUFFICES ASSUME ChannelInv, NEW p \in Provider, rows[p].status \in TerminalChannel
               PROVE  /\ chain[p].escrow = "closed"
                      /\ \A amount \in chain[p].paid : rows[p].status = "recovered" <=> amount = 0
    BY DEF TerminalRowsArePaid
  <2>1. PICK amount \in 0..Ceiling :
          chain[p].paid = {amount} /\ (rows[p].status = "recovered" <=> amount = 0)
    BY DEF ChannelInv, Channels, ChannelHolds
  <2>2. chain[p].escrow = "closed"
    BY <2>1 DEF ChannelInv, Channels, ChannelHolds
  <2> QED
    BY <2>1, <2>2
<1> QED
  BY <1>1, ChannelInvariant, PTL

\* A settlement row is the one payout of its channel, and the provider's
\* recorded flows authorized it.
THEOREM SettlementsArePaidOut == Spec => []SettlementsArePayouts
<1>1. ChannelInv => SettlementsArePayouts
  BY DEF ChannelInv, Settled, Covered, SettlementsArePayouts
<1> QED
  BY <1>1, ChannelInvariant, PTL

\* Every channel past its reservation has a funded escrow and the signed
\* payload its claim needs.
THEOREM OpenRowsAreClaimable == Spec => []OpenRowsHaveEvidence
<1>1. ChannelInv => OpenRowsHaveEvidence
  BY DEF ChannelInv, Channels, ChannelHolds, OpenRowsHaveEvidence
<1> QED
  BY <1>1, ChannelInvariant, PTL

-----------------------------------------------------------------------------
(* The rows and the chain implement the promise. *)

\* What the promise sees of a channel.
Seen(p) == /\ Phase(rows'[p]) = Phase(rows[p])
           /\ chain'[p].claims = chain[p].claims /\ chain'[p].paid = chain[p].paid

\* A step that shows the promise nothing is a stutter.
LEMMA PromiseStutters ==
  ASSUME \A p \in Provider : Seen(p)
  PROVE  UNCHANGED Promise!vars
BY DEF Promise!vars, Seen

\* A step that moves the phase of one channel is a move of the promise.
LEMMA PromiseMoves ==
  ASSUME NEW q \in Provider, NEW from, NEW to, Phase(rows[q]) \in from, Phase(rows'[q]) = to,
         \A p \in Provider : p # q => rows'[p] = rows[p],
         chain' = chain
  PROVE  Promise!Move(q, from, to)
<1> DEFINE phase == [p \in Provider |-> Phase(rows[p])]
<1>1. [p \in Provider |-> Phase(rows'[p])] = [phase EXCEPT ![q] = to]
  OBVIOUS
<1> QED
  BY <1>1 DEF Promise!Move

\* The first claim of a leased channel is the claim of the promise.
LEMMA PromiseClaims ==
  ASSUME NEW q \in Provider, NEW amount \in 0..Ceiling,
         Phase(rows[q]) = "leased", rows' = rows, chain[q].claims = 0,
         \A p \in Provider : p # q => chain'[p] = chain[p],
         chain'[q].claims = 1, chain[q].paid = {},
         chain'[q].paid = {} \/ chain'[q].paid = {amount}
  PROVE  Promise!Next
<1> DEFINE sent == [p \in Provider |-> chain[p].claims]
           got == [p \in Provider |-> chain[p].paid]
<1>1. [p \in Provider |-> chain'[p].claims] = [sent EXCEPT ![q] = 1]
  OBVIOUS
<1>2. \/ [p \in Provider |-> chain'[p].paid] = got
      \/ [p \in Provider |-> chain'[p].paid] = [got EXCEPT ![q] = {amount}]
  OBVIOUS
<1>3. Promise!Claim(q)
  BY <1>1, <1>2 DEF Promise!Claim
<1> QED
  BY <1>3 DEF Promise!Next

\* The phases of the rows that can occur.
LEMMA PhaseOf ==
  ASSUME NEW row
  PROVE  /\ row.status = "reserved" => Phase(row) = "reserved"
         /\ row.status \in TerminalChannel => Phase(row) = "closed"
         /\ row.status = "failed" => Phase(row) = "doubtful"
         /\ row.status = "open" /\ row.stage \in BlockedStage => Phase(row) = "leased"
         /\ row.status = "open" /\ row.stage \notin BlockedStage => Phase(row) = "open"
BY DEF Phase, TerminalChannel

\* Every step of the handlers is a step of the promise, or shows it nothing.
LEMMA PromiseStep ==
  ASSUME ChannelInv, [Next]_vars
  PROVE  [Promise!Next]_(Promise!vars)
<1>0. /\ TypeOK /\ InControl /\ Visits /\ Leased /\ Channels
      /\ worker \in [Worker -> WorkerType] /\ rows \in [Provider -> Row]
      /\ chain \in [Provider -> EscrowType]
      /\ \A w \in Worker : worker[w] \in WorkerType /\ Controlled(worker[w])
  BY DEF ChannelInv, TypeOK, InControl, EscrowType
<1>1. ASSUME NEW w \in Worker, WriteRow(w)
      PROVE  [Promise!Next]_(Promise!vars)
  <2> DEFINE q == worker[w].p
  <2>1. /\ q \in Provider /\ worker[w].at = "write" /\ chain' = chain
        /\ rows' = [rows EXCEPT ![q] = UpdatedRow(worker[w])]
    <3>1. worker[w].at = "write" /\ worker[w].target \subseteq Provider
      BY <1>0, <1>1 DEF WriteRow, WorkerType
    <3> QED
      BY <1>0, <1>1, <3>1 DEF WriteRow, Controlled
  <2> HIDE DEF q
  <2>2. rows'[q] = UpdatedRow(worker[w]) /\ \A p \in Provider : p # q => rows'[p] = rows[p]
    BY <1>0, <2>1
  <2>3. CASE worker[w].kind = "prepared"
    <3>1. rows[q].status = "reserved" /\ rows'[q].status = "reserved"
      BY <1>0, <1>1, <2>1, <2>2, <2>3, UpdateInHand, UpdatedRowShape DEF q
    <3>2. Phase(rows'[q]) = Phase(rows[q])
      BY <3>1, PhaseOf
    <3>3. \A p \in Provider : Seen(p)
      BY <2>1, <2>2, <3>2 DEF Seen
    <3> QED
      BY <3>3, PromiseStutters
  <2>4. CASE worker[w].kind = "opened"
    <3>1. /\ rows[q].status = "reserved"
          /\ rows'[q].status = "open" /\ rows'[q].stage = "open"
      BY <1>0, <1>1, <2>1, <2>2, <2>4, UpdateInHand, UpdatedRowShape DEF q
    <3>2. Phase(rows[q]) \in {"reserved"} /\ Phase(rows'[q]) = "open"
      BY <3>1, PhaseOf DEF BlockedStage
    <3>3. Promise!Open(q)
      BY <2>1, <2>2, <3>2, PromiseMoves DEF Promise!Open
    <3> QED
      BY <2>1, <3>3 DEF Promise!Next
  <2>5. CASE worker[w].kind = "finalized"
    <3>1. LeaseHolds(worker[w]) /\ rows'[q].status \in TerminalChannel
      BY <1>0, <2>1, <2>2, <2>5, UpdatedRowShape DEF Leased, Leases, TerminalChannel, q
    <3>2. /\ rows[q].status = "open" /\ rows[q].stage = "finalization-started"
          /\ chain[q].paid # {}
      BY <2>1, <2>5, <3>1 DEF LeaseHolds, q
    <3>3. Phase(rows[q]) \in {"leased"} /\ Phase(rows'[q]) = "closed"
      BY <3>1, <3>2, PhaseOf DEF BlockedStage
    <3>4. Promise!Move(q, {"leased"}, "closed")
      BY <2>1, <2>2, <3>3, PromiseMoves
    <3>5. Promise!Close(q)
      BY <2>1, <3>2, <3>4 DEF Promise!Close
    <3> QED
      BY <2>1, <3>5 DEF Promise!Next
  <2>6. CASE worker[w].kind = "ambiguous"
    <3>1. LeaseHolds(worker[w]) /\ rows'[q].status = "failed"
      BY <1>0, <2>1, <2>2, <2>6, UpdatedRowShape DEF Leased, Leases, q
    <3>2. /\ rows[q].status \in {"open"} \cup TerminalChannel
          /\ rows[q].status = "open" => rows[q].stage = "finalization-started"
      BY <2>1, <3>1 DEF LeaseHolds, q
    <3>3. Phase(rows[q]) \in {"leased", "closed"} /\ Phase(rows'[q]) = "doubtful"
      BY <3>1, <3>2, PhaseOf DEF BlockedStage
    <3>4. Promise!Doubt(q)
      BY <2>1, <2>2, <3>3, PromiseMoves DEF Promise!Doubt
    <3> QED
      BY <2>1, <3>4 DEF Promise!Next
  <2> QED
    BY <1>0, <1>1, <2>1, <2>3, <2>4, <2>5, <2>6, UpdateInHand DEF q
<1>2. ASSUME NEW q \in Provider, TakesLease(q)
      PROVE  [Promise!Next]_(Promise!vars)
  <2>1. /\ chain' = chain /\ rows[q].status = "open" /\ rows[q].stage \notin BlockedStage
        /\ rows' = [rows EXCEPT ![q].stage = "finalization-started"]
    BY <1>2 DEF TakesLease, BeginFinalization, CanLease
  <2>2. /\ rows'[q].status = "open" /\ rows'[q].stage = "finalization-started"
        /\ \A p \in Provider : p # q => rows'[p] = rows[p]
    BY <1>0, <2>1 DEF Row
  <2>3. Phase(rows[q]) \in {"open"} /\ Phase(rows'[q]) = "leased"
    BY <2>1, <2>2, PhaseOf DEF BlockedStage
  <2>4. Promise!Lease(q)
    BY <2>1, <2>2, <2>3, PromiseMoves DEF Promise!Lease
  <2> QED
    BY <2>4 DEF Promise!Next
<1>3. ASSUME NEW w \in Worker, ClaimLands(w) \/ ClaimFails(w)
      PROVE  [Promise!Next]_(Promise!vars)
  <2> DEFINE q == worker[w].p
  <2>1. /\ q \in Provider /\ worker[w].at = "claim" /\ rows' = rows
    <3>1. worker[w].at = "claim" /\ worker[w].target \subseteq Provider
      BY <1>0, <1>3 DEF ClaimLands, ClaimFails, WorkerType
    <3> QED
      BY <1>0, <1>3, <3>1 DEF ClaimLands, ClaimFails, Controlled
  <2> HIDE DEF q
  <2>2. /\ rows[q].status = "open" /\ rows[q].stage = "finalization-started"
        /\ chain[q].claims = 0 /\ chain[q].paid = {}
    BY <1>0, <2>1 DEF Leased, Leases, LeaseHolds, Channels, ChannelHolds, q
  <2>3. worker[w].rows[q].cum \in 0..Ceiling
    <3>1. worker[w].rows[q] \in Row
      BY <1>0, <2>1 DEF WorkerType
    <3> QED
      BY <3>1 DEF Row
  <2>4. Phase(rows[q]) = "leased"
    BY <2>2, PhaseOf DEF BlockedStage
  <2>5. CASE UNCHANGED chain
    <3>1. \A p \in Provider : Seen(p)
      BY <2>1, <2>5 DEF Seen
    <3> QED
      BY <3>1, PromiseStutters
  <2>6. CASE ~UNCHANGED chain
    <3>1. /\ \A p \in Provider : p # q => chain'[p] = chain[p]
          /\ chain'[q].claims = 1
          /\ chain'[q].paid = {} \/ chain'[q].paid = {worker[w].rows[q].cum}
      <4>1. \/ chain' = [chain EXCEPT ![q].claims = @ + 1]
            \/ chain' = [chain EXCEPT ![q] =
                 [escrow |-> "closed", claims |-> @.claims + 1,
                  paid |-> @.paid \cup {worker[w].rows[q].cum}]]
        BY <1>3, <2>6 DEF ClaimLands, ClaimFails, PayOut, q
      <4> QED
        BY <1>0, <2>1, <2>2, <4>1 DEF EscrowType
    <3>2. Promise!Next
      BY <2>1, <2>2, <2>3, <2>4, <3>1, PromiseClaims
    <3> QED
      BY <3>2
  <2> QED
    BY <2>5, <2>6
<1>4. CASE /\ ~(\E w \in Worker : WriteRow(w) \/ ClaimLands(w) \/ ClaimFails(w))
           /\ ~(\E q \in Provider : TakesLease(q))
  <2>1. ASSUME NEW p \in Provider
        PROVE  Seen(p)
    <3>1. SameShape(p)
      BY <1>0, <1>4, RowStep DEF Writes
    <3>2. Phase(rows'[p]) = Phase(rows[p])
      BY <3>1 DEF SameShape, Phase
    <3>3. chain'[p].claims = chain[p].claims /\ chain'[p].paid = chain[p].paid
      <4>1. chain'[p] = chain[p] \/ Funds(p)
        BY <1>0, <1>4, ChainStep DEF Claims
      <4> QED
        BY <1>0, <4>1 DEF Funds, EscrowType
    <3> QED
      BY <3>2, <3>3 DEF Seen
  <2> QED
    BY <2>1, PromiseStutters
<1> QED
  BY <1>1, <1>2, <1>3, <1>4

\* Rows and escrows together implement ChannelPromise, whatever interleaving
\* of handlers, failures and retries: no phase is left backwards, and the one
\* claim of a channel is sent under its lease.
THEOREM ImplementsPromise == Spec => ImplementsChannelPromise
<1>1. Init => Promise!Init
  BY PhaseOf DEF Init, Promise!Init, NoRows, Reserved
<1>2. ChannelInv /\ [Next]_vars => [Promise!Next]_(Promise!vars)
  BY PromiseStep
<1> QED
  BY <1>1, <1>2, ChannelInvariant, PTL
  DEF Spec, ImplementsChannelPromise, Promise!Spec

=============================================================================
