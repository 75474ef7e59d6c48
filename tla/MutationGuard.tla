---------------------------- MODULE MutationGuard ----------------------------
(***************************************************************************)
(* runIdempotentMutation (apps/web/src/server/security.ts) over the tables *)
(* idempotency_records and mutation_locks (packages/persistence/src/       *)
(* security.ts): every mutating route runs its handler inside it.  A       *)
(* record answers a retry that carries the same Idempotency-Key; a lock    *)
(* keeps two handlers off one resource.  Both carry an expiry that nothing *)
(* renews.  Statements are atomic; between two of them other workers run,  *)
(* time passes, and a worker may die.                                      *)
(***************************************************************************)
EXTENDS Integers, FiniteSets

CONSTANTS
  Worker,      \* server workers
  Key,         \* Idempotency-Key values (with owner and operation)
  Hash,        \* fingerprints of requests: method, operation, resource, body
  Resource,    \* resource keys
  ResourceOf,  \* the resource a fingerprint is about, if its route names one
  TTL,         \* lifetime of a record's lease and of a lock (300 s both)
  RecordTTL,   \* lifetime of a record (a day)
  MaxRun,      \* how long a worker may take over one request
  MaxTime,     \* bound on the clock
  Faulty       \* statements may throw and workers may die

ASSUME GuardAssumption ==
  /\ ResourceOf \in [Hash -> Resource \cup {"none"}]
  /\ TTL \in Nat \ {0} /\ RecordTTL \in Nat /\ TTL <= RecordTTL
  /\ MaxRun \in Nat /\ MaxTime \in Nat
  /\ Faulty \in BOOLEAN

VARIABLES
  now,      \* NOW()
  records,  \* idempotency_records, by key
  locks,    \* mutation_locks, by resource
  worker,   \* the request each worker is serving
  runs,     \* how often a handler has run to its end for a key
  answers   \* the responses given for a key since its record was inserted

guard == <<now, records, locks, worker, runs, answers>>

NoRecord == [state |-> "none", hash |-> "none", lease |-> 0, expires |-> 0, response |-> 0]
NoLock == [holder |-> <<>>, expires |-> 0]
Unoccupied == [at |-> "idle", key |-> "none", hash |-> "none", since |-> 0, response |-> 0]

GuardInit ==
  /\ now = 0
  /\ records = [k \in Key |-> NoRecord]
  /\ locks = [r \in Resource |-> NoLock]
  /\ worker = [w \in Worker |-> Unoccupied]
  /\ runs = [k \in Key |-> 0]
  /\ answers = [k \in Key |-> {}]

\* The code's holder key leaves out owner and operation: for the same request
\* two owners never use one Idempotency-Key.
Holder(w) == <<worker[w].key, worker[w].hash>>
Res(w) == ResourceOf[worker[w].hash]

\* The creation of a task names no resource (api/tasks/route.ts).
Locks(w) == Res(w) \in Resource

Proceed(w, at) == worker' = [worker EXCEPT ![w].at = at]
Leave(w) == worker' = [worker EXCEPT ![w] = Unoccupied]
Answer(w, response) ==
  answers' = [answers EXCEPT ![worker[w].key] = @ \cup {<<worker[w].hash, response>>}]

-----------------------------------------------------------------------------
(* beginIdempotency *)

Receive(w, k, h) ==
  /\ worker[w].at = "idle"
  /\ worker' = [worker EXCEPT ![w] =
       [at |-> "insert", key |-> k, hash |-> h, since |-> now, response |-> 0]]
  /\ UNCHANGED <<now, records, locks, runs, answers>>

Expired(k) == records[k].state # "none" /\ records[k].expires < now

\* The table after the DELETE of the expired records.
Purged == [k \in Key |-> IF Expired(k) THEN NoRecord ELSE records[k]]

(* DELETE the expired records, INSERT one ON CONFLICT DO NOTHING. *)
InsertRecord(w) ==
  LET k == worker[w].key IN
  /\ worker[w].at = "insert"
  /\ answers' = [j \in Key |-> IF Expired(j) THEN {} ELSE answers[j]]
  /\ IF Purged[k].state = "none"
     THEN /\ records' = [Purged EXCEPT ![k] =
               [state |-> "in_progress", hash |-> worker[w].hash, lease |-> now + TTL,
                expires |-> now + RecordTTL, response |-> 0]]
          /\ Proceed(w, "lock")
     ELSE /\ records' = Purged
          /\ Proceed(w, "select")
  /\ UNCHANGED <<now, locks, runs>>

\* SELECT the record that was in the way: replay it if it is complete; refuse
\* the request if it is gone or has another fingerprint.
SelectRecord(w) ==
  LET rec == records[worker[w].key] IN
  /\ worker[w].at = "select"
  /\ \/ /\ rec.state = "none" \/ rec.hash # worker[w].hash
        /\ Leave(w)
        /\ UNCHANGED answers
     \/ /\ rec.state = "completed" /\ rec.hash = worker[w].hash
        /\ Answer(w, rec.response)
        /\ Leave(w)
     \/ /\ rec.state = "in_progress" /\ rec.hash = worker[w].hash
        /\ Proceed(w, "reclaim")
        /\ UNCHANGED answers
  /\ UNCHANGED <<now, records, locks, runs>>

\* Mutant of CanReclaim: the lease is not looked at.
ReclaimsLive(w) ==
  LET rec == records[worker[w].key] IN
  rec.state = "in_progress" /\ rec.hash = worker[w].hash

\* Mutant of CanReclaim: the state is only what the SELECT saw.
ReclaimsCompleted(w) ==
  LET rec == records[worker[w].key] IN
  /\ rec.hash = worker[w].hash
  /\ rec.lease <= now

\* The WHERE clause of the UPDATE that takes over a record.
CanReclaim(w) ==
  LET rec == records[worker[w].key] IN
  /\ rec.state = "in_progress" /\ rec.hash = worker[w].hash
  /\ rec.lease <= now

Reclaim(w) ==
  /\ worker[w].at = "reclaim"
  /\ IF CanReclaim(w)
     THEN /\ records' = [records EXCEPT ![worker[w].key].lease = now + TTL,
                                        ![worker[w].key].expires = now + RecordTTL]
          /\ Proceed(w, "lock")
     ELSE Leave(w) /\ UNCHANGED records
  /\ UNCHANGED <<now, locks, runs, answers>>

-----------------------------------------------------------------------------
(* The lock, the handler and the response *)

\* Mutant of CanLock: the upsert has no WHERE clause.
LocksAnyway(w) == TRUE

\* The WHERE clause of the upsert: free, expired, or already this request's.
CanLock(w) ==
  LET lock == locks[Res(w)] IN
  lock = NoLock \/ lock.expires <= now \/ lock.holder = Holder(w)

(* acquireMutationLock: take the lock for TTL, or go and give up the record; *)
(* a request about no resource takes none.                                   *)
AcquireLock(w) ==
  /\ worker[w].at = "lock"
  /\ \/ /\ Locks(w) /\ CanLock(w)
        /\ locks' = [locks EXCEPT ![Res(w)] = [holder |-> Holder(w), expires |-> now + TTL]]
        /\ Proceed(w, "handler")
     \/ /\ Locks(w) /\ ~CanLock(w)
        /\ Proceed(w, "abandon") /\ UNCHANGED locks
     \/ /\ ~Locks(w)
        /\ Proceed(w, "handler") /\ UNCHANGED locks
  /\ UNCHANGED <<now, records, runs, answers>>

\* Is the record still the one this request is working under?
OwnRecord(w) ==
  LET rec == records[worker[w].key] IN
  rec.state = "in_progress" /\ rec.hash = worker[w].hash

\* CONCURRENT_MUTATION: the record is deleted so that a retry may run.
Abandon(w) ==
  /\ worker[w].at = "abandon"
  /\ records' = IF OwnRecord(w) THEN [records EXCEPT ![worker[w].key] = NoRecord]
                                ELSE records
  /\ Leave(w)
  /\ UNCHANGED <<now, locks, runs, answers>>

\* The handler ends; what it throws becomes a response like any other.
RunHandler(w) ==
  LET k == worker[w].key IN
  /\ worker[w].at = "handler"
  /\ runs' = [runs EXCEPT ![k] = @ + 1]
  /\ worker' = [worker EXCEPT ![w].at = "complete", ![w].response = runs[k] + 1]
  /\ UNCHANGED <<now, records, locks, answers>>

(* completeIdempotency: the response is stored under the key. *)
Complete(w) ==
  /\ worker[w].at = "complete"
  /\ records' =
       IF OwnRecord(w)
       THEN [records EXCEPT ![worker[w].key] =
               [state |-> "completed", hash |-> worker[w].hash, lease |-> now,
                expires |-> now + RecordTTL, response |-> worker[w].response]]
       ELSE records
  /\ Proceed(w, "release")
  /\ UNCHANGED <<now, locks, runs, answers>>

\* releaseMutationLock deletes the lock only under this request's holder key.
Unlocked(w) ==
  IF Locks(w) /\ locks[Res(w)].holder = Holder(w)
  THEN [locks EXCEPT ![Res(w)] = NoLock] ELSE locks

\* The finally block, then the response is sent.
Release(w) ==
  /\ worker[w].at = "release"
  /\ locks' = Unlocked(w)
  /\ Answer(w, worker[w].response)
  /\ Leave(w)
  /\ UNCHANGED <<now, records, runs>>

-----------------------------------------------------------------------------
(* Faults and time *)

(* A statement throws: completeIdempotency, and the finally block still     *)
(* releases the lock; or another one, and nothing is undone.  The caller    *)
(* gets an error and may retry.                                             *)
Throws(w) ==
  /\ Faulty /\ worker[w].at \notin {"idle", "handler"}
  /\ locks' = IF worker[w].at = "complete" THEN Unlocked(w) ELSE locks
  /\ Leave(w)
  /\ UNCHANGED <<now, records, runs, answers>>

\* The worker dies and leaves its record and its lock behind.
Dies(w) ==
  /\ Faulty /\ worker[w].at # "idle"
  /\ Leave(w)
  /\ UNCHANGED <<now, records, locks, runs, answers>>

\* No request is served for longer than MaxRun.
Tick ==
  /\ now < MaxTime
  /\ \A w \in Worker : worker[w].at # "idle" => now - worker[w].since < MaxRun
  /\ now' = now + 1
  /\ UNCHANGED <<records, locks, worker, runs, answers>>

Serve(w) ==
  \/ InsertRecord(w) \/ SelectRecord(w) \/ Reclaim(w)
  \/ AcquireLock(w) \/ Abandon(w) \/ RunHandler(w) \/ Complete(w) \/ Release(w)

GuardNext ==
  \/ \E w \in Worker :
       \/ \E k \in Key, h \in Hash : Receive(w, k, h)
       \/ Serve(w) \/ Throws(w) \/ Dies(w)
  \/ Tick

GuardSpec == GuardInit /\ [][GuardNext]_guard

-----------------------------------------------------------------------------
(* Type invariant. *)
Places == {"idle", "insert", "select", "reclaim", "lock", "abandon", "handler",
       "complete", "release"}

\* Every variable keeps its type.
GuardTypeOK ==
  /\ now \in Nat
  /\ records \in [Key -> [state : {"none", "in_progress", "completed"},
                          hash : Hash \cup {"none"}, lease : Nat, expires : Nat,
                          response : Nat]]
  /\ locks \in [Resource -> [holder : (Key \X Hash) \cup {<<>>}, expires : Nat]]
  /\ worker \in [Worker -> [at : Places, key : Key \cup {"none"}, hash : Hash \cup {"none"},
                            since : Nat, response : Nat]]
  /\ runs \in [Key -> Nat]
  /\ answers \in [Key -> SUBSET (Hash \X Nat)]

(* Safety. *)

\* From the lock to the finally block.
Inside(w) == worker[w].at \in {"handler", "complete", "release"} /\ Locks(w)

\* Two handlers never work on one resource at a time, whatever keys their
\* requests carry and whoever died before (security.ts: resource locks still
\* serialize concurrent mutations), nor under one key, if it locks nothing.
MutualExclusion ==
  \A v, w \in Worker :
    v # w /\ worker[v].at = "handler" /\ worker[w].at = "handler" =>
      worker[v].key # worker[w].key /\ (Locks(v) => Res(v) # Res(w))

\* The callers of one key never get two different answers, and never one to a
\* different request, as long as its record lives: not after a crash, not after
\* a take-over of an abandoned lease.
OneAnswerPerKey ==
  \A k \in Key : Cardinality(answers[k]) <= 1

\* A lock is never pulled from under a live handler: neither by another
\* request's release nor by its expiry.
LockIsHeld ==
  \A w \in Worker : Inside(w) =>
    locks[Res(w)].holder = Holder(w) /\ now < locks[Res(w)].expires

\* Once a caller got its answer, no retry under its key runs the handler again
\* while the record lives, even if it read the record before it was completed.
AnsweredRequestsDoNotRunAgain ==
  \A w \in Worker : worker[w].at = "handler" => answers[worker[w].key] = {}
=============================================================================
