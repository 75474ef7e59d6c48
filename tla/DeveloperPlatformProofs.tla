----------------------- MODULE DeveloperPlatformProofs -----------------------
(***************************************************************************)
(* Proofs about DeveloperPlatform for any wallets, keys, endpoints, pages  *)
(* and scenes: dead tokens are refused, deliveries stay with the wallet    *)
(* whose event they carry, and nothing late undoes what was done.          *)
(***************************************************************************)
EXTENDS DeveloperPlatform, FiniteSetTheorems, TLAPS

-----------------------------------------------------------------------------
(* Types. *)

At == {"idle", "auth", "limit", "handler", "revoke", "rotate", "update", "publish", "match",
       "await", "load"}
Op == {"none"} \cup TaskOps \cup HookOps \cup KeyOps
Name == Owner \cup {"none"}
Target == Key \cup Sub \cup Delivery \cup {"none"}

KeyType == [status : {"none", "active", "revoked"}, owner : Name, token : Nat,
            scopes : SUBSET Scope, expiry : {"never", "ahead", "past"}]
SubType == [owner : Name, enabled : BOOLEAN, types : SUBSET Type, secret : Nat]
EventType == [owner : Owner, type : Type]
RowType == [status : {"none", "pending", "succeeded", "failed"}, attempt : Nat]
JobType == [at : {"none", "insert", "post", "won", "lost", "recorded", "closed"}, attempt : Nat,
            secret : Nat, by : Worker \cup {"none"}]
WorkerType == [op : Op, at : At, token : Nat, late : BOOLEAN, owner : Name, target : Target,
               read : SubType, event : Nat, queue : Seq(Type)]
ViewType == [keys : SUBSET Key, failed : SUBSET Delivery]

\* The places of a request that knows its wallet.
Known == {"limit", "handler", "revoke", "rotate", "update", "publish", "match", "await"}

\* Where a request is says what it asks, and what it carries.
ControlledAt(r, at) ==
  /\ at \in Known => r.owner \in Owner
  /\ r.op \in {"updateHook", "rotateHook"} => r.target \in Sub
  /\ r.op = "retry" => r.target \in Delivery
  /\ r.op \in {"revoke", "rotate"} => r.target \in Key
  /\ at \in {"revoke", "rotate"} => r.op = at
  /\ at = "update" => r.op = "updateHook"
  /\ at = "publish" => r.queue # <<>>
Controlled(r) == ControlledAt(r, r.at)

Typed ==
  /\ keys \in [Key -> KeyType] /\ issued \in Nat
  /\ subs \in [Sub -> SubType] /\ installed \in [Sub -> Nat]
  /\ events \in Seq(EventType)
  /\ rows \in [Delivery -> RowType] /\ jobs \in [Delivery -> JobType]
  /\ posted \subseteq Delivery /\ accepted \subseteq Delivery
  /\ worker \in [Worker -> WorkerType] /\ \A w \in Worker : Controlled(worker[w])
  /\ view \in [Tab -> ViewType]

-----------------------------------------------------------------------------
(* The inductive invariant. *)

\* A row of the keys has a wallet.
KeysAreOwned == \A k \in Key : keys[k].status # "none" => keys[k].owner \in Owner

\* What a request learned is still so.  Only one that waits for its
\* authentication may hold a dead token.
Sound(r) ==
  /\ IF r.at = "auth" THEN r.token \in 1..issued /\ (r.late => ~Live(r.token))
                      ELSE r.late = FALSE
  /\ r.at = "update" => r.read.owner \in Owner /\ subs[r.target].owner = r.read.owner
  /\ r.at \in {"revoke", "rotate"} => keys[r.target].owner \in Owner
  /\ r.at = "match" => r.event \in 1..Len(events)
Requests == \A w \in Worker : Sound(worker[w])

\* A call of deliver() that has not recorded anything has a row of its own, or
\* none, which says neither succeeded nor failed; one that records a success
\* knows that the endpoint accepted.
Running(d) ==
  /\ jobs[d].at = "insert" => rows[d] = NoRow
  /\ jobs[d].at \in {"insert", "post", "won"} => rows[d].status \in {"none", "pending"}
  /\ jobs[d].at \in {"won", "recorded"} => d \in accepted
Deliveries == \A d \in Delivery : Running(d)

\* A delivery carries an event that was published, to an endpoint of its wallet.
Used(d) == rows[d] # NoRow \/ jobs[d] # NoJob \/ d \in posted
Belongs == \A d \in Delivery :
             Used(d) => d[1] \in 1..Len(events) /\ subs[d[2]].owner = events[d[1]].owner

DeveloperInv == /\ Typed /\ KeysAreOwned /\ Requests /\ Deliveries /\ SucceededWasAccepted
                /\ Belongs

-----------------------------------------------------------------------------
(* What a step does to the tables. *)

\* The statements that write developer_api_keys.
LEMMA KeysStep ==
  ASSUME [Next]_vars
  PROVE  \/ UNCHANGED <<keys, issued>>
         \/ \E t \in Tab : CreateKey(t) \/ RevokeKey(t) \/ RotateKey(t)
         \/ \E k \in Key : Expire(k)
<1> DEFINE Goal == \/ UNCHANGED <<keys, issued>>
                   \/ \E t \in Tab : CreateKey(t) \/ RevokeKey(t) \/ RotateKey(t)
                   \/ \E k \in Key : Expire(k)
<1> SUFFICES Goal
  OBVIOUS
<1>1. ASSUME NEW w \in Worker,
             CreateHook(w) \/ ReadHook(w)
             \/ UpdateHook(w) \/ RotateHook(w) \/ Retry(w) \/ Read(w)
             \/ RunHandler(w) \/ CreateEvent(w) \/ StartDeliveries(w)
             \/ Awaited(w) \/ Dies(w)
      PROVE  UNCHANGED <<keys, issued>>
  BY <1>1 DEF CreateHook, ReadHook, UpdateHook, RotateHook, Retry, Read,
    RunHandler, CreateEvent, StartDeliveries, Awaited, Dies, keyVars, hookVars
<1>2. ASSUME NEW c \in Client,
             
             \/ (\E op \in TaskOps \cup HookOps, token \in 1..issued : CallApi(c, op, token))
             \/ Authenticate(c) \/ RateLimit(c)
      PROVE  UNCHANGED <<keys, issued>>
  BY <1>2 DEF CallApi, Authenticate, RateLimit, keyVars, hookVars
<1>3. ASSUME NEW t \in Tab,
             ClickKey(t) \/ ClickRetry(t)
             \/ ClickHook(t) \/ ClickCreateKey(t) \/ ClickCreateHook(t)
             \/ Visit(t) \/ Load(t) \/ FindKey(t)
      PROVE  UNCHANGED <<keys, issued>>
  BY <1>3 DEF ClickKey, Click, ClickRetry, ClickHook, ClickCreateKey,
    ClickCreateHook, Visit, Load, FindKey, keyVars, hookVars
<1>4. ASSUME NEW d \in Delivery,
             CreateDelivery(d) \/ Accept(d)
             \/ Reject(d) \/ UrlBlocked(d) \/ FinishDelivery(d)
             \/ StampSubscription(d) \/ RecordThrows(d) \/ DeliveryThrows(d)
      PROVE  UNCHANGED <<keys, issued>>
  BY <1>4 DEF CreateDelivery, Accept, Sending, Reject, UrlBlocked,
    FinishDelivery, StampSubscription, RecordThrows, DeliveryThrows, keyVars, hookVars
<1>5. ASSUME NEW s \in Sub,
             Install(s)
      PROVE  UNCHANGED <<keys, issued>>
  BY <1>5 DEF Install, keyVars, hookVars
<1>6. UNCHANGED vars => UNCHANGED <<keys, issued>>
  BY DEF vars
<1>7. UNCHANGED <<keys, issued>> => Goal
  OBVIOUS
<1>8. ASSUME NEW t \in Tab, CreateKey(t)
      PROVE  Goal
  BY <1>8
<1>9. ASSUME NEW t \in Tab, RevokeKey(t)
      PROVE  Goal
  BY <1>9
<1>10. ASSUME NEW t \in Tab, RotateKey(t)
      PROVE  Goal
  BY <1>10
<1>11. ASSUME NEW k \in Key, Expire(k)
      PROVE  Goal
  BY <1>11
<1> HIDE DEF Goal
<1>12. ASSUME NEW w \in Worker, Serve(w)
      PROVE  Goal
  BY <1>12, <1>7, <1>1 DEF Serve
<1>13. ASSUME NEW c \in Client, UseApi(c)
      PROVE  Goal
  BY <1>13, <1>7, <1>2 DEF UseApi
<1>14. ASSUME NEW t \in Tab, UsePage(t)
      PROVE  Goal
  BY <1>14, <1>7, <1>3, <1>8, <1>9, <1>10 DEF UsePage
<1>15. ASSUME NEW d \in Delivery, Deliver(d)
      PROVE  Goal
  BY <1>15, <1>7, <1>4 DEF Deliver
<1> QED
  BY <1>6, <1>7, <1>12, <1>13, <1>14, <1>15, <1>11, <1>5 DEF Next

\* The statements that write webhook_subscriptions.
LEMMA SubsStep ==
  ASSUME [Next]_vars
  PROVE  \/ UNCHANGED subs
         \/ \E w \in Worker : CreateHook(w) \/ UpdateHook(w) \/ RotateHook(w)
<1> DEFINE Goal == \/ UNCHANGED subs
                   \/ \E w \in Worker : CreateHook(w) \/ UpdateHook(w) \/ RotateHook(w)
<1> SUFFICES Goal
  OBVIOUS
<1>1. ASSUME NEW w \in Worker,
             ReadHook(w) \/ Retry(w) \/ Read(w)
             \/ RunHandler(w) \/ CreateEvent(w) \/ StartDeliveries(w)
             \/ Awaited(w) \/ Dies(w)
      PROVE  UNCHANGED subs
  BY <1>1 DEF ReadHook, Retry, Read, RunHandler, CreateEvent, StartDeliveries,
    Awaited, Dies, keyVars, hookVars
<1>2. ASSUME NEW c \in Client,
             
             \/ (\E op \in TaskOps \cup HookOps, token \in 1..issued : CallApi(c, op, token))
             \/ Authenticate(c) \/ RateLimit(c)
      PROVE  UNCHANGED subs
  BY <1>2 DEF CallApi, Authenticate, RateLimit, keyVars, hookVars
<1>3. ASSUME NEW t \in Tab,
             ClickKey(t) \/ ClickRetry(t)
             \/ ClickHook(t) \/ ClickCreateKey(t) \/ ClickCreateHook(t)
             \/ Visit(t) \/ Load(t) \/ CreateKey(t) \/ FindKey(t)
             \/ RevokeKey(t) \/ RotateKey(t)
      PROVE  UNCHANGED subs
  BY <1>3 DEF ClickKey, Click, ClickRetry, ClickHook, ClickCreateKey,
    ClickCreateHook, Visit, Load, CreateKey, FindKey, RevokeKey, RotateKey,
    keyVars, hookVars
<1>4. ASSUME NEW d \in Delivery,
             CreateDelivery(d) \/ Accept(d)
             \/ Reject(d) \/ UrlBlocked(d) \/ FinishDelivery(d)
             \/ StampSubscription(d) \/ RecordThrows(d) \/ DeliveryThrows(d)
      PROVE  UNCHANGED subs
  BY <1>4 DEF CreateDelivery, Accept, Sending, Reject, UrlBlocked,
    FinishDelivery, StampSubscription, RecordThrows, DeliveryThrows, keyVars, hookVars
<1>5. ASSUME NEW k \in Key,
             Expire(k)
      PROVE  UNCHANGED subs
  BY <1>5 DEF Expire, keyVars, hookVars
<1>6. ASSUME NEW s \in Sub,
             Install(s)
      PROVE  UNCHANGED subs
  BY <1>6 DEF Install, keyVars, hookVars
<1>7. UNCHANGED vars => UNCHANGED subs
  BY DEF vars
<1>8. UNCHANGED subs => Goal
  OBVIOUS
<1>9. ASSUME NEW w \in Worker, CreateHook(w)
      PROVE  Goal
  BY <1>9
<1>10. ASSUME NEW w \in Worker, UpdateHook(w)
      PROVE  Goal
  BY <1>10
<1>11. ASSUME NEW w \in Worker, RotateHook(w)
      PROVE  Goal
  BY <1>11
<1> HIDE DEF Goal
<1>12. ASSUME NEW w \in Worker, Serve(w)
      PROVE  Goal
  BY <1>12, <1>8, <1>1, <1>9, <1>10, <1>11 DEF Serve
<1>13. ASSUME NEW c \in Client, UseApi(c)
      PROVE  Goal
  BY <1>13, <1>8, <1>2 DEF UseApi
<1>14. ASSUME NEW t \in Tab, UsePage(t)
      PROVE  Goal
  BY <1>14, <1>8, <1>3 DEF UsePage
<1>15. ASSUME NEW d \in Delivery, Deliver(d)
      PROVE  Goal
  BY <1>15, <1>8, <1>4 DEF Deliver
<1> QED
  BY <1>7, <1>8, <1>12, <1>13, <1>14, <1>15, <1>5, <1>6 DEF Next

\* The statement that writes webhook_events.
LEMMA EventsStep ==
  ASSUME [Next]_vars
  PROVE  \/ UNCHANGED events
         \/ \E w \in Worker : CreateEvent(w)
<1> DEFINE Goal == \/ UNCHANGED events
                   \/ \E w \in Worker : CreateEvent(w)
<1> SUFFICES Goal
  OBVIOUS
<1>1. ASSUME NEW w \in Worker,
             CreateHook(w) \/ ReadHook(w)
             \/ UpdateHook(w) \/ RotateHook(w) \/ Retry(w) \/ Read(w)
             \/ RunHandler(w) \/ StartDeliveries(w) \/ Awaited(w) \/ Dies(w)
      PROVE  UNCHANGED events
  BY <1>1 DEF CreateHook, ReadHook, UpdateHook, RotateHook, Retry, Read,
    RunHandler, StartDeliveries, Awaited, Dies, keyVars, hookVars
<1>2. ASSUME NEW c \in Client,
             
             \/ (\E op \in TaskOps \cup HookOps, token \in 1..issued : CallApi(c, op, token))
             \/ Authenticate(c) \/ RateLimit(c)
      PROVE  UNCHANGED events
  BY <1>2 DEF CallApi, Authenticate, RateLimit, keyVars, hookVars
<1>3. ASSUME NEW t \in Tab,
             ClickKey(t) \/ ClickRetry(t)
             \/ ClickHook(t) \/ ClickCreateKey(t) \/ ClickCreateHook(t)
             \/ Visit(t) \/ Load(t) \/ CreateKey(t) \/ FindKey(t)
             \/ RevokeKey(t) \/ RotateKey(t)
      PROVE  UNCHANGED events
  BY <1>3 DEF ClickKey, Click, ClickRetry, ClickHook, ClickCreateKey,
    ClickCreateHook, Visit, Load, CreateKey, FindKey, RevokeKey, RotateKey,
    keyVars, hookVars
<1>4. ASSUME NEW d \in Delivery,
             CreateDelivery(d) \/ Accept(d)
             \/ Reject(d) \/ UrlBlocked(d) \/ FinishDelivery(d)
             \/ StampSubscription(d) \/ RecordThrows(d) \/ DeliveryThrows(d)
      PROVE  UNCHANGED events
  BY <1>4 DEF CreateDelivery, Accept, Sending, Reject, UrlBlocked,
    FinishDelivery, StampSubscription, RecordThrows, DeliveryThrows, keyVars, hookVars
<1>5. ASSUME NEW k \in Key,
             Expire(k)
      PROVE  UNCHANGED events
  BY <1>5 DEF Expire, keyVars, hookVars
<1>6. ASSUME NEW s \in Sub,
             Install(s)
      PROVE  UNCHANGED events
  BY <1>6 DEF Install, keyVars, hookVars
<1>7. UNCHANGED vars => UNCHANGED events
  BY DEF vars
<1>8. UNCHANGED events => Goal
  OBVIOUS
<1>9. ASSUME NEW w \in Worker, CreateEvent(w)
      PROVE  Goal
  BY <1>9
<1> HIDE DEF Goal
<1>10. ASSUME NEW w \in Worker, Serve(w)
      PROVE  Goal
  BY <1>10, <1>8, <1>1, <1>9 DEF Serve
<1>11. ASSUME NEW c \in Client, UseApi(c)
      PROVE  Goal
  BY <1>11, <1>8, <1>2 DEF UseApi
<1>12. ASSUME NEW t \in Tab, UsePage(t)
      PROVE  Goal
  BY <1>12, <1>8, <1>3 DEF UsePage
<1>13. ASSUME NEW d \in Delivery, Deliver(d)
      PROVE  Goal
  BY <1>13, <1>8, <1>4 DEF Deliver
<1> QED
  BY <1>7, <1>8, <1>10, <1>11, <1>12, <1>13, <1>5, <1>6 DEF Next

\* The statements that write webhook_deliveries.
LEMMA RowsStep ==
  ASSUME [Next]_vars
  PROVE  \/ UNCHANGED rows
         \/ \E d \in Delivery : CreateDelivery(d) \/ FinishDelivery(d)
<1> DEFINE Goal == \/ UNCHANGED rows
                   \/ \E d \in Delivery : CreateDelivery(d) \/ FinishDelivery(d)
<1> SUFFICES Goal
  OBVIOUS
<1>1. ASSUME NEW w \in Worker,
             CreateHook(w) \/ ReadHook(w)
             \/ UpdateHook(w) \/ RotateHook(w) \/ Retry(w) \/ Read(w)
             \/ RunHandler(w) \/ CreateEvent(w) \/ StartDeliveries(w)
             \/ Awaited(w) \/ Dies(w)
      PROVE  UNCHANGED rows
  BY <1>1 DEF CreateHook, ReadHook, UpdateHook, RotateHook, Retry, Read,
    RunHandler, CreateEvent, StartDeliveries, Awaited, Dies, keyVars, hookVars
<1>2. ASSUME NEW c \in Client,
             
             \/ (\E op \in TaskOps \cup HookOps, token \in 1..issued : CallApi(c, op, token))
             \/ Authenticate(c) \/ RateLimit(c)
      PROVE  UNCHANGED rows
  BY <1>2 DEF CallApi, Authenticate, RateLimit, keyVars, hookVars
<1>3. ASSUME NEW t \in Tab,
             ClickKey(t) \/ ClickRetry(t)
             \/ ClickHook(t) \/ ClickCreateKey(t) \/ ClickCreateHook(t)
             \/ Visit(t) \/ Load(t) \/ CreateKey(t) \/ FindKey(t)
             \/ RevokeKey(t) \/ RotateKey(t)
      PROVE  UNCHANGED rows
  BY <1>3 DEF ClickKey, Click, ClickRetry, ClickHook, ClickCreateKey,
    ClickCreateHook, Visit, Load, CreateKey, FindKey, RevokeKey, RotateKey,
    keyVars, hookVars
<1>4. ASSUME NEW d \in Delivery,
             Accept(d) \/ Reject(d)
             \/ UrlBlocked(d) \/ StampSubscription(d) \/ RecordThrows(d) \/ DeliveryThrows(d)
      PROVE  UNCHANGED rows
  BY <1>4 DEF Accept, Sending, Reject, UrlBlocked, StampSubscription, RecordThrows,
    DeliveryThrows, keyVars,
    hookVars
<1>5. ASSUME NEW k \in Key,
             Expire(k)
      PROVE  UNCHANGED rows
  BY <1>5 DEF Expire, keyVars, hookVars
<1>6. ASSUME NEW s \in Sub,
             Install(s)
      PROVE  UNCHANGED rows
  BY <1>6 DEF Install, keyVars, hookVars
<1>7. UNCHANGED vars => UNCHANGED rows
  BY DEF vars
<1>8. UNCHANGED rows => Goal
  OBVIOUS
<1>9. ASSUME NEW d \in Delivery, CreateDelivery(d)
      PROVE  Goal
  BY <1>9
<1>10. ASSUME NEW d \in Delivery, FinishDelivery(d)
      PROVE  Goal
  BY <1>10
<1> HIDE DEF Goal
<1>11. ASSUME NEW w \in Worker, Serve(w)
      PROVE  Goal
  BY <1>11, <1>8, <1>1 DEF Serve
<1>12. ASSUME NEW c \in Client, UseApi(c)
      PROVE  Goal
  BY <1>12, <1>8, <1>2 DEF UseApi
<1>13. ASSUME NEW t \in Tab, UsePage(t)
      PROVE  Goal
  BY <1>13, <1>8, <1>3 DEF UsePage
<1>14. ASSUME NEW d \in Delivery, Deliver(d)
      PROVE  Goal
  BY <1>14, <1>8, <1>4, <1>9, <1>10 DEF Deliver
<1> QED
  BY <1>7, <1>8, <1>11, <1>12, <1>13, <1>14, <1>5, <1>6 DEF Next

\* What starts a call of deliver(), moves it on or ends it.
LEMMA JobsStep ==
  ASSUME [Next]_vars
  PROVE  \/ UNCHANGED jobs
         \/ \E w \in Worker : Retry(w) \/ StartDeliveries(w) \/ Dies(w)
         \/ \E d \in Delivery :
              \/ CreateDelivery(d) \/ Accept(d) \/ Reject(d) \/ UrlBlocked(d) \/ FinishDelivery(d)
              \/ StampSubscription(d) \/ RecordThrows(d) \/ DeliveryThrows(d)
<1> DEFINE Goal == \/ UNCHANGED jobs
                   \/ \E w \in Worker : Retry(w) \/ StartDeliveries(w) \/ Dies(w)
                   \/ \E d \in Delivery :
                        \/ CreateDelivery(d) \/ Accept(d) \/ Reject(d) \/ UrlBlocked(d) \/ FinishDelivery(d)
                        \/ StampSubscription(d) \/ RecordThrows(d) \/ DeliveryThrows(d)
<1> SUFFICES Goal
  OBVIOUS
<1>1. ASSUME NEW w \in Worker,
             CreateHook(w) \/ ReadHook(w)
             \/ UpdateHook(w) \/ RotateHook(w) \/ Read(w) \/ RunHandler(w)
             \/ CreateEvent(w) \/ Awaited(w)
      PROVE  UNCHANGED jobs
  BY <1>1 DEF CreateHook, ReadHook, UpdateHook, RotateHook, Read, RunHandler,
    CreateEvent, Awaited, keyVars, hookVars
<1>2. ASSUME NEW c \in Client,
             
             \/ (\E op \in TaskOps \cup HookOps, token \in 1..issued : CallApi(c, op, token))
             \/ Authenticate(c) \/ RateLimit(c)
      PROVE  UNCHANGED jobs
  BY <1>2 DEF CallApi, Authenticate, RateLimit, keyVars, hookVars
<1>3. ASSUME NEW t \in Tab,
             ClickKey(t) \/ ClickRetry(t)
             \/ ClickHook(t) \/ ClickCreateKey(t) \/ ClickCreateHook(t)
             \/ Visit(t) \/ Load(t) \/ CreateKey(t) \/ FindKey(t)
             \/ RevokeKey(t) \/ RotateKey(t)
      PROVE  UNCHANGED jobs
  BY <1>3 DEF ClickKey, Click, ClickRetry, ClickHook, ClickCreateKey,
    ClickCreateHook, Visit, Load, CreateKey, FindKey, RevokeKey, RotateKey,
    keyVars, hookVars
<1>4. ASSUME NEW k \in Key,
             Expire(k)
      PROVE  UNCHANGED jobs
  BY <1>4 DEF Expire, keyVars, hookVars
<1>5. ASSUME NEW s \in Sub,
             Install(s)
      PROVE  UNCHANGED jobs
  BY <1>5 DEF Install, keyVars, hookVars
<1>6. UNCHANGED vars => UNCHANGED jobs
  BY DEF vars
<1>7. UNCHANGED jobs => Goal
  OBVIOUS
<1>8. ASSUME NEW w \in Worker, Retry(w)
      PROVE  Goal
  BY <1>8
<1>9. ASSUME NEW w \in Worker, StartDeliveries(w)
      PROVE  Goal
  BY <1>9
<1>10. ASSUME NEW w \in Worker, Dies(w)
      PROVE  Goal
  BY <1>10
<1>11. ASSUME NEW d \in Delivery, CreateDelivery(d)
      PROVE  Goal
  BY <1>11
<1>12. ASSUME NEW d \in Delivery, Accept(d)
      PROVE  Goal
  BY <1>12
<1>13. ASSUME NEW d \in Delivery, Reject(d)
      PROVE  Goal
  BY <1>13
<1>14. ASSUME NEW d \in Delivery, UrlBlocked(d)
      PROVE  Goal
  BY <1>14
<1>15. ASSUME NEW d \in Delivery, FinishDelivery(d)
      PROVE  Goal
  BY <1>15
<1>16. ASSUME NEW d \in Delivery, DeliveryThrows(d)
      PROVE  Goal
  BY <1>16
<1>21. ASSUME NEW d \in Delivery, StampSubscription(d) \/ RecordThrows(d)
      PROVE  Goal
  BY <1>21
<1> HIDE DEF Goal
<1>17. ASSUME NEW w \in Worker, Serve(w)
      PROVE  Goal
  BY <1>17, <1>7, <1>1, <1>8, <1>9, <1>10 DEF Serve
<1>18. ASSUME NEW c \in Client, UseApi(c)
      PROVE  Goal
  BY <1>18, <1>7, <1>2 DEF UseApi
<1>19. ASSUME NEW t \in Tab, UsePage(t)
      PROVE  Goal
  BY <1>19, <1>7, <1>3 DEF UsePage
<1>20. ASSUME NEW d \in Delivery, Deliver(d)
      PROVE  Goal
  BY <1>20, <1>7, <1>11, <1>12, <1>13, <1>14, <1>15, <1>16, <1>21 DEF Deliver
<1> QED
  BY <1>6, <1>7, <1>17, <1>18, <1>19, <1>20, <1>4, <1>5 DEF Next

\* What is sent, and what an endpoint answers.
LEMMA PostsStep ==
  ASSUME [Next]_vars
  PROVE  \/ UNCHANGED <<posted, accepted>>
         \/ \E d \in Delivery : Accept(d) \/ Reject(d)
<1> DEFINE Goal == \/ UNCHANGED <<posted, accepted>>
                   \/ \E d \in Delivery : Accept(d) \/ Reject(d)
<1> SUFFICES Goal
  OBVIOUS
<1>1. ASSUME NEW w \in Worker,
             CreateHook(w) \/ ReadHook(w)
             \/ UpdateHook(w) \/ RotateHook(w) \/ Retry(w) \/ Read(w)
             \/ RunHandler(w) \/ CreateEvent(w) \/ StartDeliveries(w)
             \/ Awaited(w) \/ Dies(w)
      PROVE  UNCHANGED <<posted, accepted>>
  BY <1>1 DEF CreateHook, ReadHook, UpdateHook, RotateHook, Retry, Read,
    RunHandler, CreateEvent, StartDeliveries, Awaited, Dies, keyVars, hookVars
<1>2. ASSUME NEW c \in Client,
             
             \/ (\E op \in TaskOps \cup HookOps, token \in 1..issued : CallApi(c, op, token))
             \/ Authenticate(c) \/ RateLimit(c)
      PROVE  UNCHANGED <<posted, accepted>>
  BY <1>2 DEF CallApi, Authenticate, RateLimit, keyVars, hookVars
<1>3. ASSUME NEW t \in Tab,
             ClickKey(t) \/ ClickRetry(t)
             \/ ClickHook(t) \/ ClickCreateKey(t) \/ ClickCreateHook(t)
             \/ Visit(t) \/ Load(t) \/ CreateKey(t) \/ FindKey(t)
             \/ RevokeKey(t) \/ RotateKey(t)
      PROVE  UNCHANGED <<posted, accepted>>
  BY <1>3 DEF ClickKey, Click, ClickRetry, ClickHook, ClickCreateKey,
    ClickCreateHook, Visit, Load, CreateKey, FindKey, RevokeKey, RotateKey,
    keyVars, hookVars
<1>4. ASSUME NEW d \in Delivery,
             CreateDelivery(d) \/ UrlBlocked(d)
             \/ FinishDelivery(d) \/ StampSubscription(d) \/ RecordThrows(d) \/ DeliveryThrows(d)
      PROVE  UNCHANGED <<posted, accepted>>
  BY <1>4 DEF CreateDelivery, UrlBlocked, Sending, FinishDelivery, StampSubscription,
    RecordThrows, DeliveryThrows, keyVars, hookVars
<1>5. ASSUME NEW k \in Key,
             Expire(k)
      PROVE  UNCHANGED <<posted, accepted>>
  BY <1>5 DEF Expire, keyVars, hookVars
<1>6. ASSUME NEW s \in Sub,
             Install(s)
      PROVE  UNCHANGED <<posted, accepted>>
  BY <1>6 DEF Install, keyVars, hookVars
<1>7. UNCHANGED vars => UNCHANGED <<posted, accepted>>
  BY DEF vars
<1>8. UNCHANGED <<posted, accepted>> => Goal
  OBVIOUS
<1>9. ASSUME NEW d \in Delivery, Accept(d)
      PROVE  Goal
  BY <1>9
<1>10. ASSUME NEW d \in Delivery, Reject(d)
      PROVE  Goal
  BY <1>10
<1> HIDE DEF Goal
<1>11. ASSUME NEW w \in Worker, Serve(w)
      PROVE  Goal
  BY <1>11, <1>8, <1>1 DEF Serve
<1>12. ASSUME NEW c \in Client, UseApi(c)
      PROVE  Goal
  BY <1>12, <1>8, <1>2 DEF UseApi
<1>13. ASSUME NEW t \in Tab, UsePage(t)
      PROVE  Goal
  BY <1>13, <1>8, <1>3 DEF UsePage
<1>14. ASSUME NEW d \in Delivery, Deliver(d)
      PROVE  Goal
  BY <1>14, <1>8, <1>4, <1>9, <1>10 DEF Deliver
<1> QED
  BY <1>7, <1>8, <1>11, <1>12, <1>13, <1>14, <1>5, <1>6 DEF Next

\* What gives an endpoint its secret.
LEMMA InstalledStep ==
  ASSUME [Next]_vars
  PROVE  \/ UNCHANGED installed
         \/ \E w \in Worker : CreateHook(w)
         \/ \E s \in Sub : Install(s)
<1> DEFINE Goal == \/ UNCHANGED installed
                   \/ \E w \in Worker : CreateHook(w)
                   \/ \E s \in Sub : Install(s)
<1> SUFFICES Goal
  OBVIOUS
<1>1. ASSUME NEW w \in Worker,
             ReadHook(w) \/ UpdateHook(w)
             \/ RotateHook(w) \/ Retry(w) \/ Read(w) \/ RunHandler(w)
             \/ CreateEvent(w) \/ StartDeliveries(w) \/ Awaited(w) \/ Dies(w)
      PROVE  UNCHANGED installed
  BY <1>1 DEF ReadHook, UpdateHook, RotateHook, Retry, Read, RunHandler,
    CreateEvent, StartDeliveries, Awaited, Dies, keyVars, hookVars
<1>2. ASSUME NEW c \in Client,
             
             \/ (\E op \in TaskOps \cup HookOps, token \in 1..issued : CallApi(c, op, token))
             \/ Authenticate(c) \/ RateLimit(c)
      PROVE  UNCHANGED installed
  BY <1>2 DEF CallApi, Authenticate, RateLimit, keyVars, hookVars
<1>3. ASSUME NEW t \in Tab,
             ClickKey(t) \/ ClickRetry(t)
             \/ ClickHook(t) \/ ClickCreateKey(t) \/ ClickCreateHook(t)
             \/ Visit(t) \/ Load(t) \/ CreateKey(t) \/ FindKey(t)
             \/ RevokeKey(t) \/ RotateKey(t)
      PROVE  UNCHANGED installed
  BY <1>3 DEF ClickKey, Click, ClickRetry, ClickHook, ClickCreateKey,
    ClickCreateHook, Visit, Load, CreateKey, FindKey, RevokeKey, RotateKey,
    keyVars, hookVars
<1>4. ASSUME NEW d \in Delivery,
             CreateDelivery(d) \/ Accept(d)
             \/ Reject(d) \/ UrlBlocked(d) \/ FinishDelivery(d)
             \/ StampSubscription(d) \/ RecordThrows(d) \/ DeliveryThrows(d)
      PROVE  UNCHANGED installed
  BY <1>4 DEF CreateDelivery, Accept, Sending, Reject, UrlBlocked,
    FinishDelivery, StampSubscription, RecordThrows, DeliveryThrows, keyVars, hookVars
<1>5. ASSUME NEW k \in Key,
             Expire(k)
      PROVE  UNCHANGED installed
  BY <1>5 DEF Expire, keyVars, hookVars
<1>6. UNCHANGED vars => UNCHANGED installed
  BY DEF vars
<1>7. UNCHANGED installed => Goal
  OBVIOUS
<1>8. ASSUME NEW w \in Worker, CreateHook(w)
      PROVE  Goal
  BY <1>8
<1>9. ASSUME NEW s \in Sub, Install(s)
      PROVE  Goal
  BY <1>9
<1> HIDE DEF Goal
<1>10. ASSUME NEW w \in Worker, Serve(w)
      PROVE  Goal
  BY <1>10, <1>7, <1>1, <1>8 DEF Serve
<1>11. ASSUME NEW c \in Client, UseApi(c)
      PROVE  Goal
  BY <1>11, <1>7, <1>2 DEF UseApi
<1>12. ASSUME NEW t \in Tab, UsePage(t)
      PROVE  Goal
  BY <1>12, <1>7, <1>3 DEF UsePage
<1>13. ASSUME NEW d \in Delivery, Deliver(d)
      PROVE  Goal
  BY <1>13, <1>7, <1>4 DEF Deliver
<1> QED
  BY <1>6, <1>7, <1>10, <1>11, <1>12, <1>13, <1>5, <1>9 DEF Next

\* What a page loads.
LEMMA ViewStep ==
  ASSUME [Next]_vars
  PROVE  \/ UNCHANGED view
         \/ \E t \in Tab : Load(t)
<1> DEFINE Goal == \/ UNCHANGED view
                   \/ \E t \in Tab : Load(t)
<1> SUFFICES Goal
  OBVIOUS
<1>1. ASSUME NEW w \in Worker,
             CreateHook(w) \/ ReadHook(w)
             \/ UpdateHook(w) \/ RotateHook(w) \/ Retry(w) \/ Read(w)
             \/ RunHandler(w) \/ CreateEvent(w) \/ StartDeliveries(w)
             \/ Awaited(w) \/ Dies(w)
      PROVE  UNCHANGED view
  BY <1>1 DEF CreateHook, ReadHook, UpdateHook, RotateHook, Retry, Read,
    RunHandler, CreateEvent, StartDeliveries, Awaited, Dies, keyVars, hookVars
<1>2. ASSUME NEW c \in Client,
             
             \/ (\E op \in TaskOps \cup HookOps, token \in 1..issued : CallApi(c, op, token))
             \/ Authenticate(c) \/ RateLimit(c)
      PROVE  UNCHANGED view
  BY <1>2 DEF CallApi, Authenticate, RateLimit, keyVars, hookVars
<1>3. ASSUME NEW t \in Tab,
             ClickKey(t) \/ ClickRetry(t)
             \/ ClickHook(t) \/ ClickCreateKey(t) \/ ClickCreateHook(t)
             \/ Visit(t) \/ CreateKey(t) \/ FindKey(t) \/ RevokeKey(t)
             \/ RotateKey(t)
      PROVE  UNCHANGED view
  BY <1>3 DEF ClickKey, Click, ClickRetry, ClickHook, ClickCreateKey,
    ClickCreateHook, Visit, CreateKey, FindKey, RevokeKey, RotateKey, keyVars,
    hookVars
<1>4. ASSUME NEW d \in Delivery,
             CreateDelivery(d) \/ Accept(d)
             \/ Reject(d) \/ UrlBlocked(d) \/ FinishDelivery(d)
             \/ StampSubscription(d) \/ RecordThrows(d) \/ DeliveryThrows(d)
      PROVE  UNCHANGED view
  BY <1>4 DEF CreateDelivery, Accept, Sending, Reject, UrlBlocked,
    FinishDelivery, StampSubscription, RecordThrows, DeliveryThrows, keyVars, hookVars
<1>5. ASSUME NEW k \in Key,
             Expire(k)
      PROVE  UNCHANGED view
  BY <1>5 DEF Expire, keyVars, hookVars
<1>6. ASSUME NEW s \in Sub,
             Install(s)
      PROVE  UNCHANGED view
  BY <1>6 DEF Install, keyVars, hookVars
<1>7. UNCHANGED vars => UNCHANGED view
  BY DEF vars
<1>8. UNCHANGED view => Goal
  OBVIOUS
<1>9. ASSUME NEW t \in Tab, Load(t)
      PROVE  Goal
  BY <1>9
<1> HIDE DEF Goal
<1>10. ASSUME NEW w \in Worker, Serve(w)
      PROVE  Goal
  BY <1>10, <1>8, <1>1 DEF Serve
<1>11. ASSUME NEW c \in Client, UseApi(c)
      PROVE  Goal
  BY <1>11, <1>8, <1>2 DEF UseApi
<1>12. ASSUME NEW t \in Tab, UsePage(t)
      PROVE  Goal
  BY <1>12, <1>8, <1>3, <1>9 DEF UsePage
<1>13. ASSUME NEW d \in Delivery, Deliver(d)
      PROVE  Goal
  BY <1>13, <1>8, <1>4 DEF Deliver
<1> QED
  BY <1>7, <1>8, <1>10, <1>11, <1>12, <1>13, <1>5, <1>6 DEF Next

-----------------------------------------------------------------------------
(* What a step does to each row. *)

\* No request makes a dead token live again, takes a key from its wallet, or
\* leaves one without: new keys and rotated ones have new tokens.
KeyMoves(k) ==
  /\ keys'[k].status # "none" => keys'[k].owner \in Owner
  /\ keys[k].owner \in Owner => keys'[k].owner = keys[k].owner
  /\ \/ keys'[k].token = issued + 1
     \/ keys'[k].status # "active"
     \/ keys'[k].expiry = "past"
     \/ keys'[k] = keys[k]

\* Whatever is done to the keys: types stay, no number of a token comes back, and every key moves as it may.
LEMMA KeyChanges ==
  ASSUME DeveloperInv, [Next]_vars
  PROVE  /\ keys' \in [Key -> KeyType] /\ issued' \in Nat /\ issued <= issued'
         /\ \A k \in Key : KeyMoves(k)
<1> DEFINE Goal == /\ keys' \in [Key -> KeyType] /\ issued' \in Nat /\ issued <= issued'
                   /\ \A k \in Key : KeyMoves(k)
<1> SUFFICES Goal
  OBVIOUS
<1>0. /\ keys \in [Key -> KeyType] /\ issued \in Nat /\ "none" \notin Owner
      /\ \A k \in Key : keys[k] \in KeyType /\ (keys[k].status # "none" => keys[k].owner \in Owner)
      /\ \A t \in Tab : worker[t] \in WorkerType /\ Controlled(worker[t]) /\ Sound(worker[t])
  BY DeveloperAssumption DEF DeveloperInv, Typed, KeysAreOwned, Requests, Worker
\* One key is written, and it is one that may be.
<1>1. ASSUME NEW k \in Key, NEW n \in KeyType, keys' = [keys EXCEPT ![k] = n],
             issued' = issued \/ issued' = issued + 1,
             n.status # "none" => n.owner \in Owner,
             keys[k].owner \in Owner => n.owner = keys[k].owner,
             n.token = issued + 1 \/ n.status # "active" \/ n.expiry = "past"
      PROVE  Goal
  <2>1. keys' \in [Key -> KeyType] /\ issued' \in Nat /\ issued <= issued'
    BY <1>0, <1>1
  <2>2. ASSUME NEW j \in Key PROVE KeyMoves(j)
    <3>1. CASE j = k
      <4>1. keys'[j] = n
        BY <1>0, <1>1, <3>1
      <4> QED
        BY <1>1, <3>1, <4>1 DEF KeyMoves
    <3>2. CASE j # k
      <4>1. keys'[j] = keys[j]
        BY <1>0, <1>1, <3>2
      <4> QED
        BY <1>0, <4>1 DEF KeyMoves
    <3> QED
      BY <3>1, <3>2
  <2> QED
    BY <2>1, <2>2
<1>2. ASSUME NEW t \in Tab, CreateKey(t) PROVE Goal
  <2>1. worker[t].owner \in Owner
    BY <1>0, <1>2 DEF CreateKey, Handles, Controlled, ControlledAt, Known
  <2>2. PICK k \in Key, n \in NewKey(worker[t].owner, issued + 1) :
          keys[k] = NoKey /\ keys' = [keys EXCEPT ![k] = n]
    BY <1>2 DEF CreateKey
  <2>3. n \in KeyType /\ n.owner = worker[t].owner /\ n.token = issued + 1
    BY <1>0, <2>1 DEF NewKey, KeyType, Name
  <2>4. keys[k].owner \notin Owner
    BY <1>0, <2>2 DEF NoKey
  <2>5. issued' = issued + 1
    BY <1>2 DEF CreateKey
  <2> HIDE DEF Goal
  <2> QED
    BY <1>1, <2>1, <2>2, <2>3, <2>4, <2>5
<1>3. ASSUME NEW t \in Tab, RevokeKey(t) PROVE Goal
  <2> DEFINE k == worker[t].target
             n == [keys[k] EXCEPT !.status = "revoked"]
  <2>1. k \in Key /\ keys[k].owner \in Owner
    BY <1>0, <1>3 DEF RevokeKey, Controlled, ControlledAt, Sound
  <2>2. keys' = [keys EXCEPT ![k] = n] /\ issued' = issued
    BY <1>0, <1>3, <2>1 DEF RevokeKey
  <2>3. n \in KeyType /\ n.owner = keys[k].owner /\ n.status = "revoked"
    BY <1>0, <2>1 DEF KeyType
  <2> HIDE DEF n, k, Goal
  <2> QED
    BY <1>1, <2>1, <2>2, <2>3
<1>4. ASSUME NEW t \in Tab, RotateKey(t) PROVE Goal
  <2> DEFINE k == worker[t].target
             n == [keys[k] EXCEPT !.status = "active", !.token = issued + 1]
  <2>1. k \in Key /\ keys[k].owner \in Owner
    BY <1>0, <1>4 DEF RotateKey, Controlled, ControlledAt, Sound
  <2>2. keys' = [keys EXCEPT ![k] = n] /\ issued' = issued + 1
    BY <1>4 DEF RotateKey, Rotated
  <2>3. n \in KeyType /\ n.owner = keys[k].owner /\ n.token = issued + 1
    <3>1. keys[k] \in KeyType /\ issued + 1 \in Nat
      BY <1>0, <2>1
    <3> HIDE DEF k
    <3> QED
      BY <3>1 DEF KeyType
  <2> HIDE DEF n, k, Goal
  <2> QED
    BY <1>1, <2>1, <2>2, <2>3
<1>5. ASSUME NEW k \in Key, Expire(k) PROVE Goal
  <2> DEFINE n == [keys[k] EXCEPT !.expiry = "past"]
  <2>1. keys' = [keys EXCEPT ![k] = n] /\ issued' = issued /\ keys[k].owner \in Owner
    BY <1>0, <1>5 DEF Expire
  <2>2. n \in KeyType /\ n.owner = keys[k].owner /\ n.expiry = "past"
    BY <1>0 DEF KeyType
  <2> HIDE DEF n, Goal
  <2> QED
    BY <1>1, <2>1, <2>2
<1>6. ASSUME UNCHANGED <<keys, issued>> PROVE Goal
  BY <1>0, <1>6 DEF KeyMoves
<1> HIDE DEF Goal
<1> QED
  BY <1>2, <1>3, <1>4, <1>5, <1>6, KeysStep

\* A token that is dead stays dead.
LEMMA DeadStaysDead ==
  ASSUME DeveloperInv, [Next]_vars, NEW token \in 1..issued, ~Live(token)
  PROVE  Live(token)' = FALSE
<1>1. issued \in Nat /\ \A k \in Key : KeyMoves(k)
  BY KeyChanges DEF DeveloperInv, Typed
<1>2. ASSUME NEW k \in Key
      PROVE  ~(keys'[k].token = token /\ keys'[k].status = "active" /\ keys'[k].expiry # "past")
  BY <1>1 DEF KeyMoves, Live, Holds
<1> QED
  BY <1>2 DEF Live, Holds

\* An endpoint stays with its wallet, and its secret never goes back.
SubMoves(s) ==
  /\ subs[s].owner \in Owner => subs'[s].owner = subs[s].owner
  /\ subs'[s].secret >= subs[s].secret

\* Whatever is done to the endpoints, every one of them moves as it may.
LEMMA SubChanges ==
  ASSUME DeveloperInv, [Next]_vars
  PROVE  subs' \in [Sub -> SubType] /\ \A s \in Sub : SubMoves(s)
<1> DEFINE Goal == subs' \in [Sub -> SubType] /\ \A s \in Sub : SubMoves(s)
<1> SUFFICES Goal
  OBVIOUS
<1>0. /\ subs \in [Sub -> SubType] /\ "none" \notin Owner
      /\ \A s \in Sub : subs[s] \in SubType /\ subs[s].secret \in Nat
      /\ \A w \in Worker : worker[w] \in WorkerType /\ Controlled(worker[w]) /\ Sound(worker[w])
  BY DeveloperAssumption DEF DeveloperInv, Typed, Requests, SubType
<1>1. ASSUME NEW s \in Sub, NEW n \in SubType, subs' = [subs EXCEPT ![s] = n],
             subs[s].owner \in Owner => n.owner = subs[s].owner, n.secret >= subs[s].secret
      PROVE  Goal
  <2>1. subs' \in [Sub -> SubType]
    BY <1>0, <1>1
  <2>2. ASSUME NEW q \in Sub PROVE SubMoves(q)
    <3>1. CASE q = s
      BY <1>0, <1>1, <3>1 DEF SubMoves
    <3>2. CASE q # s
      <4>1. subs'[q] = subs[q]
        BY <1>0, <1>1, <3>2
      <4> QED
        BY <1>0, <4>1 DEF SubMoves
    <3> QED
      BY <3>1, <3>2
  <2> QED
    BY <2>1, <2>2
<1>2. ASSUME UNCHANGED subs PROVE Goal
  BY <1>0, <1>2 DEF SubMoves
<1>3. ASSUME NEW w \in Worker, CreateHook(w) PROVE Goal
  <2>1. CASE \E s \in Sub : subs[s] = NoSub /\ subs' = [subs EXCEPT ![s] = NewSub(worker[w].owner)]
    <3>1. PICK s \in Sub : subs[s] = NoSub /\ subs' = [subs EXCEPT ![s] = NewSub(worker[w].owner)]
      BY <2>1
    <3>2. NewSub(worker[w].owner) \in SubType /\ NewSub(worker[w].owner).secret = 1
      BY <1>0, <1>3 DEF NewSub, SubType, WorkerType
    <3>3. subs[s].owner \notin Owner /\ subs[s].secret = 0
      BY <1>0, <3>1 DEF NoSub
    <3>4. NewSub(worker[w].owner).secret >= subs[s].secret
      BY <3>2, <3>3
    <3> HIDE DEF Goal
    <3> QED
      BY <1>1, <3>1, <3>2, <3>3, <3>4
  <2> HIDE DEF Goal
  <2> QED
    BY <1>2, <1>3, <2>1 DEF CreateHook
<1>4. ASSUME NEW w \in Worker, UpdateHook(w) PROVE Goal
  <2> DEFINE s == worker[w].target
             read == worker[w].read
  <2>1. s \in Sub /\ read \in SubType /\ read.owner = subs[s].owner
    BY <1>0, <1>4 DEF UpdateHook, Controlled, ControlledAt, Sound, WorkerType
  <2>2. PICK row \in Patches(read) : subs' = [subs EXCEPT ![s] = Written(s, row)]
    BY <1>4 DEF UpdateHook
  <2>3. row \in SubType /\ row.owner = read.owner
    BY <2>1 DEF Patches, SubType, Type
  <2> DEFINE n == Written(s, row)
  <2>4. n \in SubType /\ n.owner = row.owner /\ n.secret = subs[s].secret
    BY <1>0, <2>1, <2>3 DEF Written, SubType
  <2>5. n.secret >= subs[s].secret
    BY <1>0, <2>1, <2>4
  <2> HIDE DEF n, s, read, Goal
  <2>6. subs' = [subs EXCEPT ![s] = n]
    BY <2>2 DEF n
  <2> QED
    BY <1>1, <2>1, <2>3, <2>4, <2>5, <2>6
<1>5. ASSUME NEW w \in Worker, RotateHook(w) PROVE Goal
  <2> DEFINE s == worker[w].target
             n == [subs[s] EXCEPT !.secret = @ + 1]
  <2>1. s \in Sub
    BY <1>0, <1>5 DEF RotateHook, Handles, Controlled, ControlledAt
  <2>2. CASE subs' = [subs EXCEPT ![s].secret = @ + 1]
    <3>1. subs' = [subs EXCEPT ![s] = n]
      BY <2>2
    <3>2. n \in SubType /\ n.owner = subs[s].owner /\ n.secret = subs[s].secret + 1
      BY <1>0, <2>1 DEF SubType
    <3>3. n.secret >= subs[s].secret
      BY <1>0, <2>1, <3>2
    <3> HIDE DEF n, s, Goal
    <3> QED
      BY <1>1, <2>1, <3>1, <3>2, <3>3
  <2> HIDE DEF s, n, Goal
  <2> QED
    BY <1>2, <1>5, <2>2 DEF RotateHook, s
<1> HIDE DEF Goal
<1> QED
  BY <1>2, <1>3, <1>4, <1>5, SubsStep

\* Events are only added.
LEMMA EventChanges ==
  ASSUME DeveloperInv, [Next]_vars
  PROVE  /\ events' \in Seq(EventType) /\ Len(events) \in Nat /\ Len(events) <= Len(events')
         /\ \A i \in 1..Len(events) : events'[i] = events[i] /\ i \in 1..Len(events')
<1>1. events \in Seq(EventType) /\ Len(events) \in Nat
  BY DEF DeveloperInv, Typed
<1>2. CASE UNCHANGED events
  BY <1>1, <1>2
<1>3. ASSUME NEW w \in Worker, CreateEvent(w)
      PROVE  \E e \in EventType : events' = Append(events, e)
  <2>1. worker[w] \in WorkerType /\ Controlled(worker[w]) /\ worker[w].at = "publish"
    BY <1>3 DEF DeveloperInv, Typed, CreateEvent
  <2>2. worker[w].queue \in Seq(Type) /\ worker[w].queue # <<>> /\ worker[w].owner \in Owner
    BY <2>1 DEF WorkerType, Controlled, ControlledAt, Known
  <2>3. Head(worker[w].queue) \in Type
    BY <2>2
  <2> QED
    BY <1>3, <2>2, <2>3 DEF CreateEvent, EventType
<1>4. CASE \E e \in EventType : events' = Append(events, e)
  <2>1. PICK e \in EventType : events' = Append(events, e)
    BY <1>4
  <2> QED
    BY <1>1, <2>1
<1> QED
  BY <1>2, <1>3, <1>4, EventsStep

-----------------------------------------------------------------------------
(* What a step does to the requests. *)

\* What a request learned holds after the step too.
LEMMA SoundStays ==
  ASSUME DeveloperInv, [Next]_vars, NEW r \in WorkerType, Controlled(r), Sound(r)
  PROVE  Sound(r)'
<1>1. ASSUME r.at = "auth" PROVE r.token \in 1..issued' /\ (r.late => Live(r.token)' = FALSE)
  <2>1. issued \in Nat /\ issued' \in Nat /\ issued <= issued' /\ r.token \in 1..issued
    BY <1>1, KeyChanges DEF DeveloperInv, Typed, Sound
  <2>2. ASSUME r.late PROVE Live(r.token)' = FALSE
    <3>1. ~Live(r.token)
      BY <1>1, <2>2 DEF Sound
    <3> QED
      BY <2>1, <3>1, DeadStaysDead
  <2>3. r.late => Live(r.token)' = FALSE
    BY <2>2
  <2>4. r.token \in 1..issued'
    BY <2>1
  <2> QED
    BY <2>3, <2>4
<1>2. r.at # "auth" => r.late = FALSE
  BY DEF Sound
<1>3. ASSUME r.at = "update" PROVE r.read.owner \in Owner /\ subs'[r.target].owner = r.read.owner
  <2>1. r.target \in Sub /\ r.read.owner \in Owner /\ subs[r.target].owner = r.read.owner
    BY <1>3 DEF Controlled, ControlledAt, Sound
  <2> QED
    BY <2>1, SubChanges DEF SubMoves
<1>4. ASSUME r.at \in {"revoke", "rotate"} PROVE keys'[r.target].owner \in Owner
  <2>1. r.target \in Key /\ keys[r.target].owner \in Owner
    BY <1>4 DEF Controlled, ControlledAt, Sound
  <2> QED
    BY <2>1, KeyChanges DEF KeyMoves
<1>5. ASSUME r.at = "match" PROVE r.event \in 1..Len(events')
  BY <1>5, EventChanges DEF Sound
<1> QED
  BY <1>1, <1>2, <1>3, <1>4, <1>5 DEF Sound

\* One request becomes another one.
Moves(w) == \E n \in WorkerType :
              Controlled(n) /\ Sound(n)' /\ worker' = [worker EXCEPT ![w] = n]

\* A worker that goes to a sound state has moved.
LEMMA Moved ==
  ASSUME DeveloperInv, [Next]_vars, NEW w \in Worker, NEW n \in WorkerType, Controlled(n),
         Sound(n), worker' = [worker EXCEPT ![w] = n]
  PROVE  Moves(w)
BY SoundStays DEF Moves

\* An idle worker, and what the constants are made of.
LEMMA IdleTyped ==
  /\ Idle \in WorkerType /\ Controlled(Idle) /\ Sound(Idle)
  /\ "none" \in Target /\ Owner \subseteq Name /\ "none" \notin Owner
  /\ TabOwner \in [Tab -> Owner] /\ Tab \subseteq Worker /\ Client \subseteq Worker
<1>1. NoSub \in SubType
  BY DEF NoSub, SubType, Name
<1>2. /\ Idle.op = "none" /\ Idle.at = "idle" /\ Idle.token = 0 /\ Idle.late = FALSE
      /\ Idle \in WorkerType
  BY <1>1 DEF Idle, WorkerType, Op, At, Target, Name
<1>3. Controlled(Idle) /\ Sound(Idle)
  BY <1>2 DEF Controlled, ControlledAt, Known, Sound
<1> QED
  BY <1>2, <1>3, DeveloperAssumption DEF Target, Name, Worker

\* A worker that has answered is idle again.
LEMMA Finishes ==
  ASSUME DeveloperInv, [Next]_vars, NEW w \in Worker, Finish(w)
  PROVE  Moves(w)
BY Moved, IdleTyped DEF Finish

\* A request that was authenticated goes on.
LEMMA Goes ==
  ASSUME DeveloperInv, [Next]_vars, NEW w \in Worker, NEW at \in At, Goto(w, at),
         ControlledAt(worker[w], at), at \notin {"auth", "update", "match"},
         worker[w].at # "auth",
         at \in {"revoke", "rotate"} => keys[worker[w].target].owner \in Owner
  PROVE  Moves(w)
<1> DEFINE n == [worker[w] EXCEPT !.at = at]
<1>1. worker[w] \in WorkerType /\ Sound(worker[w])
  BY DEF DeveloperInv, Typed, Requests
<1>2. worker' = [worker EXCEPT ![w] = n]
  BY DEF Goto
<1>3. n \in WorkerType /\ n.at = at /\ n.op = worker[w].op /\ n.late = worker[w].late
      /\ n.owner = worker[w].owner /\ n.target = worker[w].target /\ n.queue = worker[w].queue
  BY <1>1 DEF WorkerType
<1> HIDE DEF n
<1>4. Controlled(n)
  BY <1>3 DEF Controlled, ControlledAt
<1>5. Sound(n)
  BY <1>1, <1>3 DEF Sound
<1> QED
  BY <1>2, <1>3, <1>4, <1>5, Moved

\* A request succeeds wherever it was.
LEMMA Succeeds ==
  ASSUME DeveloperInv, [Next]_vars, NEW w \in Worker, worker[w].at # "auth",
         Succeed(w) \/ Goto(w, "load")
  PROVE  Moves(w)
<1>1. CASE Goto(w, "load")
  <2>1. worker[w] \in WorkerType /\ Controlled(worker[w])
    BY DEF DeveloperInv, Typed
  <2>2. ControlledAt(worker[w], "load")
    BY <2>1 DEF Controlled, ControlledAt, Known
  <2> QED
    BY <1>1, <2>2, Goes DEF At
<1> QED
  BY <1>1, Finishes DEF Succeed

\* The API authenticates a request: only with a token that is live.
LEMMA ApiMoves ==
  ASSUME DeveloperInv, [Next]_vars, NEW c \in Client, UseApi(c)
  PROVE  Moves(c)
<1>0. /\ c \in Worker /\ worker \in [Worker -> WorkerType] /\ worker[c] \in WorkerType
      /\ Controlled(worker[c]) /\ Sound(worker[c]) /\ issued \in Nat
      /\ keys \in [Key -> KeyType]
  BY DEF DeveloperInv, Typed, Requests, Worker
<1>1. ASSUME NEW op \in TaskOps \cup HookOps, NEW token \in 1..issued, CallApi(c, op, token)
      PROVE  Moves(c)
  <2>1. PICK target \in IF op \in {"updateHook", "rotateHook"} THEN Sub
                        ELSE IF op = "retry" THEN Delivery ELSE {"none"} :
          worker' = [worker EXCEPT ![c] =
            [Idle EXCEPT !.op = op, !.at = "auth", !.token = token,
                         !.late = ~Live(token), !.target = target]]
    BY <1>1 DEF CallApi
  <2> DEFINE n == [Idle EXCEPT !.op = op, !.at = "auth", !.token = token,
                               !.late = ~Live(token), !.target = target]
  <2>2. target \in Target /\ op \in Op /\ "auth" \in At /\ token \in Nat /\ (~Live(token)) \in BOOLEAN
    BY <1>0, <2>1 DEF Target, Op, At
  <2>3. n \in WorkerType /\ n.op = op /\ n.at = "auth" /\ n.token = token /\ n.target = target
        /\ n.late = ~Live(token)
    BY <2>2, IdleTyped DEF WorkerType, Idle
  <2>4. worker' = [worker EXCEPT ![c] = n]
    BY <2>1
  <2> HIDE DEF n
  <2>5. Controlled(n)
    <3>1. op \notin {"revoke", "rotate"}
      BY DEF TaskOps, HookOps
    <3> QED
      BY <2>1, <2>3, <3>1 DEF Controlled, ControlledAt, Known
  <2>6. Sound(n)
    BY <2>3 DEF Sound
  <2> QED
    BY <1>0, <2>3, <2>4, <2>5, <2>6, Moved
<1>2. ASSUME Authenticate(c) PROVE Moves(c)
  <2>1. ASSUME NEW k \in Key, Holds(k, worker[c].token), worker[c].at = "auth",
               worker' = [worker EXCEPT ![c].at = "limit", ![c].owner = keys[k].owner]
        PROVE  Moves(c)
    <3> DEFINE n == [worker[c] EXCEPT !.at = "limit", !.owner = keys[k].owner]
    <3>1. keys[k].owner \in Owner
      BY <2>1 DEF DeveloperInv, KeysAreOwned, Holds
    <3>2. worker' = [worker EXCEPT ![c] = n]
      BY <1>0, <2>1
    <3>3. n \in WorkerType /\ n.at = "limit" /\ n.owner = keys[k].owner /\ n.op = worker[c].op
          /\ n.target = worker[c].target /\ n.late = worker[c].late
      BY <1>0, <3>1, IdleTyped DEF WorkerType, At
    <3> HIDE DEF n
    <3>4. Controlled(n)
      BY <1>0, <2>1, <3>1, <3>3 DEF Controlled, ControlledAt, Known
    <3>5. worker[c].late = FALSE
      <4>1. Live(worker[c].token)
        BY <2>1 DEF Live
      <4>2. worker[c].late \in BOOLEAN
        BY <1>0 DEF WorkerType
      <4> QED
        BY <1>0, <2>1, <4>1, <4>2 DEF Sound
    <3>6. Sound(n)
      BY <3>3, <3>5 DEF Sound
    <3> QED
      BY <1>0, <3>2, <3>3, <3>4, <3>6, Moved
  <2> QED
    BY <1>0, <1>2, <2>1, Finishes DEF Authenticate
<1>3. ASSUME RateLimit(c) PROVE Moves(c)
  <2>1. CASE Goto(c, "handler") /\ worker[c].at = "limit"
    <3>1. ControlledAt(worker[c], "handler")
      BY <1>0, <2>1 DEF Controlled, ControlledAt, Known
    <3> QED
      BY <1>0, <2>1, <3>1, Goes DEF At
  <2> QED
    BY <1>0, <1>3, <2>1, Finishes DEF RateLimit
<1> QED
  BY <1>1, <1>2, <1>3 DEF UseApi

\* A page sends what its lists offer.
LEMMA PageMoves ==
  ASSUME DeveloperInv, [Next]_vars, NEW t \in Tab, UsePage(t)
  PROVE  Moves(t)
<1>0. /\ t \in Worker /\ worker \in [Worker -> WorkerType] /\ worker[t] \in WorkerType
      /\ Controlled(worker[t]) /\ Sound(worker[t])
      /\ view[t].keys \subseteq Key /\ view[t].failed \subseteq Delivery
  BY DEF DeveloperInv, Typed, Requests, Worker, ViewType
<1>1. ASSUME NEW op \in Op, NEW target \in Target, Click(t, op, target),
             op \in {"updateHook", "rotateHook"} => target \in Sub,
             op = "retry" => target \in Delivery,
             op \in {"revoke", "rotate"} => target \in Key
      PROVE  Moves(t)
  <2> DEFINE n == [Idle EXCEPT !.op = op, !.at = "handler", !.owner = TabOwner[t],
                               !.target = target]
  <2>1. worker' = [worker EXCEPT ![t] = n]
    BY <1>1 DEF Click
  <2>2. n \in WorkerType /\ n.op = op /\ n.at = "handler" /\ n.owner = TabOwner[t]
        /\ n.target = target /\ n.late = FALSE
    BY IdleTyped DEF WorkerType, Idle, At
  <2> HIDE DEF n
  <2>3. Controlled(n)
    BY <1>1, <2>2, IdleTyped DEF Controlled, ControlledAt, Known
  <2>4. Sound(n)
    BY <2>2 DEF Sound
  <2> QED
    BY <1>0, <2>1, <2>2, <2>3, <2>4, Moved
<1>2. ASSUME ClickKey(t) PROVE Moves(t)
  <2>1. PICK op \in {"revoke", "rotate"}, k \in view[t].keys : Click(t, op, k)
    BY <1>2 DEF ClickKey
  <2>2. op \in Op /\ k \in Key /\ k \in Target
    BY <1>0, <2>1 DEF Op, KeyOps, Target
  <2> QED
    BY <1>1, <2>1, <2>2
<1>3. ASSUME ClickRetry(t) PROVE Moves(t)
  <2>1. PICK d \in view[t].failed : Click(t, "retry", d)
    BY <1>3 DEF ClickRetry
  <2>2. "retry" \in Op /\ d \in Delivery /\ d \in Target
    BY <1>0, <2>1 DEF Op, HookOps, Target
  <2> QED
    BY <1>1, <2>1, <2>2
<1>4. ASSUME ClickHook(t) PROVE Moves(t)
  <2>1. PICK op \in {"updateHook", "rotateHook"}, s \in Sub : Click(t, op, s)
    BY <1>4 DEF ClickHook
  <2>2. op \in Op /\ s \in Target
    BY <2>1 DEF Op, HookOps, Target
  <2> QED
    BY <1>1, <2>1, <2>2
<1>5. ASSUME ClickCreateKey(t) \/ ClickCreateHook(t) PROVE Moves(t)
  <2>1. "createKey" \in Op /\ "createHook" \in Op
    BY DEF Op, KeyOps, HookOps
  <2> QED
    BY <1>1, <1>5, <2>1, IdleTyped DEF ClickCreateKey, ClickCreateHook
<1>6. ASSUME Visit(t) \/ CreateKey(t) \/ RevokeKey(t) \/ RotateKey(t) PROVE Moves(t)
  <2>1. Goto(t, "load") /\ worker[t].at # "auth"
    BY <1>6 DEF Visit, CreateKey, RevokeKey, RotateKey, Handles
  <2> QED
    BY <1>0, <2>1, Succeeds
<1>7. ASSUME Load(t) PROVE Moves(t)
  BY <1>0, <1>7, Finishes DEF Load
<1>8. ASSUME FindKey(t) PROVE Moves(t)
  <2>1. CASE keys[worker[t].target].owner = worker[t].owner /\ Goto(t, worker[t].op)
    <3> DEFINE at == worker[t].op
    <3>1. at \in {"revoke", "rotate"} /\ worker[t].at = "handler" /\ worker[t].op = at
      BY <1>8 DEF FindKey, Handles
    <3>2. worker[t].owner \in Owner /\ worker[t].target \in Key
      BY <1>0, <3>1 DEF Controlled, ControlledAt, Known
    <3>3. ControlledAt(worker[t], at)
      BY <3>1, <3>2 DEF ControlledAt
    <3>4. at \in At
      BY <3>1 DEF At
    <3>5. Goto(t, at)
      BY <2>1
    <3> HIDE DEF at
    <3> QED
      BY <1>0, <2>1, <3>1, <3>2, <3>3, <3>4, <3>5, Goes
  <2> QED
    BY <1>0, <1>8, <2>1, Finishes DEF FindKey
<1> QED
  BY <1>1, <1>2, <1>3, <1>4, <1>5, <1>6, <1>7, <1>8 DEF UsePage

\* What the handlers publish are events, one at least.
LEMMA PublishedTypes ==
  ASSUME NEW op \in {"create", "execute", "action"}, NEW q \in Published(op)
  PROVE  q \in Seq(Type) /\ q # <<>>
<1>0. /\ <<>> \in Seq(Type) /\ Len(<<>>) = 0
      /\ \A x \in Type : <<x>> \in Seq(Type) /\ Len(<<x>>) = 1
      /\ \A x, y \in Type : <<x, y>> \in Seq(Type) /\ Len(<<x, y>>) = 2
  OBVIOUS
<1>1. /\ {"task.created", "task.executed", "payment.authorized", "payment.rejected"} \subseteq Type
      /\ {"task.completed", "channel.finalized", "settlement.completed"} \subseteq Type
      /\ "settlement.failed" \in Type
  BY DEF Type
<1>2. CASE op = "create"
  <2>1. q = <<"task.created">>
    BY <1>2 DEF Published, CreateEvents
  <2> QED
    BY <1>0, <1>1, <2>1
<1>3. CASE op = "action"
  <2>1. q = <<"channel.finalized", "settlement.completed">> \/ q = <<"settlement.failed">>
    BY <1>3 DEF Published, ActionEvents
  <2>2. \A x, y \in Type : <<x, y>> # <<>> /\ <<x>> # <<>>
    BY <1>0
  <2>3. CASE q = <<"channel.finalized", "settlement.completed">>
    BY <1>0, <1>1, <2>2, <2>3
  <2>4. CASE q = <<"settlement.failed">>
    BY <1>0, <1>1, <2>2, <2>4
  <2> QED
    BY <2>1, <2>3, <2>4
<1>4. CASE op = "execute"
  <2>1. PICK a \in {<<>>, <<"payment.authorized">>}, r \in {<<>>, <<"payment.rejected">>},
             c \in {<<>>, <<"task.completed">>} : q = <<"task.executed">> \o a \o r \o c
    BY <1>4 DEF Published, ExecuteEvents
  <2>2. /\ <<"task.executed">> \in Seq(Type) /\ Len(<<"task.executed">>) = 1
        /\ a \in Seq(Type) /\ r \in Seq(Type) /\ c \in Seq(Type)
    BY <1>0, <1>1
  <2> DEFINE first == <<"task.executed">>
  <2> HIDE DEF first
  <2>3. /\ first \o a \in Seq(Type) /\ Len(first \o a) = Len(first) + Len(a)
        /\ first \o a \o r \in Seq(Type) /\ Len(first \o a \o r) = Len(first \o a) + Len(r)
        /\ Len(first \o a \o r \o c) = Len(first \o a \o r) + Len(c)
        /\ first \o a \o r \o c \in Seq(Type)
    BY <2>2 DEF first
  <2>4. Len(q) >= 1
    <3>1. Len(first) = 1 /\ Len(a) \in Nat /\ Len(r) \in Nat /\ Len(c) \in Nat
      BY <2>2 DEF first
    <3> QED
      BY <2>1, <2>3, <3>1 DEF first
  <2> QED
    BY <1>0, <2>1, <2>3, <2>4 DEF first
<1> QED
  BY <1>2, <1>3, <1>4

\* What a handler does, and how it ends.
LEMMA ServeMoves ==
  ASSUME DeveloperInv, [Next]_vars, NEW w \in Worker, Serve(w)
  PROVE  Moves(w)
<1>0. /\ worker \in [Worker -> WorkerType] /\ worker[w] \in WorkerType
      /\ Controlled(worker[w]) /\ Sound(worker[w])
      /\ subs \in [Sub -> SubType] /\ events \in Seq(EventType)
  BY DEF DeveloperInv, Typed, Requests
<1>1. ASSUME CreateHook(w) \/ UpdateHook(w) \/ RotateHook(w) \/ Read(w) \/ Dies(w)
      PROVE  Moves(w)
  <2>1. Finish(w) \/ (Succeed(w) /\ worker[w].at # "auth")
    BY <1>1 DEF CreateHook, UpdateHook, RotateHook, Read, Dies, Handles
  <2> QED
    BY <2>1, Finishes, Succeeds
<1>2. ASSUME ReadHook(w) PROVE Moves(w)
  <2>1. CASE /\ Owned(w, worker[w].target) /\ Handles(w, "updateHook")
             /\ worker' = [worker EXCEPT ![w].at = "update", ![w].read = subs[worker[w].target]]
    <3> DEFINE read == subs[worker[w].target]
               n == [worker[w] EXCEPT !.at = "update", !.read = read]
    <3>1. worker[w].target \in Sub /\ worker[w].owner \in Owner /\ worker[w].late = FALSE
      BY <1>0, <2>1 DEF Handles, Controlled, ControlledAt, Known, Sound
    <3>2. read \in SubType /\ read.owner = worker[w].owner
      BY <1>0, <2>1, <3>1 DEF Owned
    <3>3. worker' = [worker EXCEPT ![w] = n]
      BY <1>0, <2>1
    <3>4. n \in WorkerType /\ n.at = "update" /\ n.read = read /\ n.op = worker[w].op
          /\ n.owner = worker[w].owner /\ n.target = worker[w].target /\ n.late = worker[w].late
      BY <1>0, <3>2 DEF WorkerType, At
    <3> HIDE DEF n
    <3>5. Controlled(n)
      BY <1>0, <2>1, <3>1, <3>4 DEF Controlled, ControlledAt, Handles
    <3>6. Sound(n)
      BY <3>1, <3>2, <3>4 DEF Sound
    <3> QED
      BY <3>3, <3>4, <3>5, <3>6, Moved
  <2> QED
    BY <1>2, <2>1, Finishes DEF ReadHook
<1>3. ASSUME RunHandler(w) PROVE Moves(w)
  <2>1. PICK op \in {"create", "execute", "action"} : Handles(w, op)
    BY <1>3 DEF RunHandler
  <2>2. ASSUME NEW q \in Published(worker[w].op),
               worker' = [worker EXCEPT ![w].at = "publish", ![w].queue = q]
        PROVE  Moves(w)
    <3> DEFINE n == [worker[w] EXCEPT !.at = "publish", !.queue = q]
    <3>1. q \in Seq(Type) /\ q # <<>>
      BY <2>1, <2>2, PublishedTypes DEF Handles
    <3>2. worker' = [worker EXCEPT ![w] = n]
      BY <1>0, <2>2
    <3>3. n \in WorkerType /\ n.at = "publish" /\ n.queue = q /\ n.op = worker[w].op
          /\ n.owner = worker[w].owner /\ n.target = worker[w].target /\ n.late = worker[w].late
      BY <1>0, <3>1 DEF WorkerType, At
    <3> HIDE DEF n
    <3>4. Controlled(n)
      BY <1>0, <2>1, <3>1, <3>3 DEF Controlled, ControlledAt, Handles, Known
    <3>5. Sound(n)
      BY <1>0, <2>1, <3>3 DEF Sound, Handles
    <3> QED
      BY <3>2, <3>3, <3>4, <3>5, Moved
  <2> QED
    BY <1>3, <2>2, Finishes DEF RunHandler
<1>4. ASSUME CreateEvent(w) PROVE Moves(w)
  <2> DEFINE next == [worker[w] EXCEPT !.at = "match", !.event = Len(events) + 1,
                                       !.queue = Tail(worker[w].queue)]
  <2>1. worker[w].at = "publish" /\ worker[w].queue # <<>> /\ worker[w].queue \in Seq(Type)
        /\ worker[w].late = FALSE
    BY <1>0, <1>4 DEF CreateEvent, Controlled, ControlledAt, Sound, WorkerType
  <2>2. worker' = [worker EXCEPT ![w] = next]
    BY <1>0, <1>4 DEF CreateEvent
  <2>3. Tail(worker[w].queue) \in Seq(Type) /\ Len(events) + 1 \in Nat
    BY <1>0, <2>1
  <2>4. next \in WorkerType /\ next.at = "match" /\ next.event = Len(events) + 1
        /\ next.op = worker[w].op /\ next.owner = worker[w].owner
        /\ next.target = worker[w].target /\ next.late = worker[w].late
    BY <1>0, <2>3 DEF WorkerType, At
  <2> HIDE DEF next
  <2>5. PICK n \in WorkerType : n = next
    BY <2>4
  <2>6. Controlled(n)
    BY <1>0, <2>1, <2>4, <2>5 DEF Controlled, ControlledAt, Known
  <2>7. n.event \in 1..Len(events') /\ n.at = "match" /\ n.late = FALSE
    <3>1. PICK e : events' = Append(events, e)
      BY <1>4 DEF CreateEvent
    <3>2. Len(events') = Len(events) + 1 /\ Len(events) \in Nat
      BY <1>0, <3>1
    <3> QED
      BY <2>1, <2>4, <2>5, <3>2
  <2>8. Sound(n)'
    BY <2>7 DEF Sound
  <2> QED
    BY <2>2, <2>5, <2>6, <2>8 DEF Moves
<1>5. ASSUME StartDeliveries(w) PROVE Moves(w)
  <2>1. Goto(w, "await") /\ worker[w].at = "match"
    BY <1>5 DEF StartDeliveries
  <2>2. ControlledAt(worker[w], "await")
    BY <1>0, <2>1 DEF Controlled, ControlledAt, Known
  <2> QED
    BY <2>1, <2>2, Goes DEF At
<1>6. ASSUME Awaited(w) PROVE Moves(w)
  <2>1. CASE worker[w].queue # <<>> /\ Goto(w, "publish") /\ worker[w].at = "await"
    <3>1. ControlledAt(worker[w], "publish")
      BY <1>0, <2>1 DEF Controlled, ControlledAt, Known
    <3> QED
      BY <2>1, <3>1, Goes DEF At
  <2> QED
    BY <1>6, <2>1, Succeeds DEF Awaited
<1>7. ASSUME Retry(w) PROVE Moves(w)
  <2>1. worker[w].at = "handler" /\ (Finish(w) \/ Succeed(w) \/ Goto(w, "await"))
    BY <1>7 DEF Retry, Handles
  <2>2. ControlledAt(worker[w], "await")
    BY <1>0, <2>1 DEF Controlled, ControlledAt, Known
  <2>3. "await" \in At
    BY DEF At
  <2> QED
    BY <2>1, <2>2, <2>3, Goes, Succeeds, Finishes
<1> QED
  BY <1>1, <1>2, <1>3, <1>4, <1>5, <1>6, <1>7 DEF Serve

\* Every step moves one request, or none.
LEMMA RequestsMove ==
  ASSUME DeveloperInv, [Next]_vars
  PROVE  UNCHANGED worker \/ \E w \in Worker : Moves(w)
<1>1. ASSUME NEW d \in Delivery, Deliver(d)
      PROVE  UNCHANGED worker \/ \E w \in Worker : Moves(w)
  <2>1. CASE DeliveryThrows(d) /\ jobs[d].by # "none"
    <3>1. jobs[d].by \in Worker /\ Finish(jobs[d].by)
      BY <2>1 DEF DeliveryThrows, DeveloperInv, Typed, JobType
    <3> QED
      BY <3>1, Finishes
  <2> QED
    BY <1>1, <2>1 DEF Deliver, DeliveryThrows, CreateDelivery, Accept, Reject, UrlBlocked,
                      FinishDelivery, StampSubscription, RecordThrows, Sending
<1>2. ASSUME NEW k \in Key, Expire(k) PROVE UNCHANGED worker
  BY <1>2 DEF Expire
<1>3. ASSUME NEW s \in Sub, Install(s) PROVE UNCHANGED worker
  BY <1>3 DEF Install
<1>4. UNCHANGED vars => UNCHANGED worker
  BY DEF vars
<1>5. Client \subseteq Worker /\ Tab \subseteq Worker
  BY DEF Worker
<1> QED
  BY <1>1, <1>2, <1>3, <1>4, <1>5, ServeMoves, ApiMoves, PageMoves DEF Next

-----------------------------------------------------------------------------
(* What a step does to the deliveries. *)

\* A delivery keeps its promises, and its row once it says succeeded, unless
\* its own call takes it back; a new one carries an event to an endpoint of its
\* wallet.
Mates(d) == d[1] \in 1..Len(events) /\ subs[d[2]].owner = events[d[1]].owner
RunMoves(d) ==
  /\ Running(d)'
  /\ rows[d].status = "succeeded" => /\ rows'[d] = rows[d] \/ jobs[d].at = "lost"
                                     /\ jobs[d] = NoJob => jobs'[d] = NoJob
  /\ rows'[d].status = "succeeded" => d \in accepted'
  /\ Used(d)' => Used(d) \/ Mates(d)

DeliveryTypes == /\ rows' \in [Delivery -> RowType] /\ jobs' \in [Delivery -> JobType]
                 /\ posted' \subseteq Delivery /\ accepted' \subseteq Delivery
DeliveriesMove == DeliveryTypes /\ \A d \in Delivery : RunMoves(d)

\* A delivery a step leaves where it was, or whose call it ends.
LEMMA Rests ==
  ASSUME DeveloperInv, NEW d \in Delivery, rows'[d] = rows[d],
         d \in posted' => d \in posted, d \in accepted => d \in accepted',
         \/ jobs'[d] = NoJob
         \/ jobs'[d].at = jobs[d].at /\ (jobs'[d] # NoJob => jobs[d] # NoJob)
  PROVE  RunMoves(d)
<1>1. Running(d) /\ (rows[d].status = "succeeded" => d \in accepted)
  BY DEF DeveloperInv, Deliveries, SucceededWasAccepted
<1>2. Running(d)'
  BY <1>1 DEF Running, NoJob
<1>3. Used(d)' => Used(d)
  BY DEF Used
<1> QED
  BY <1>1, <1>2, <1>3 DEF RunMoves

\* An id a new call may get names the event and the endpoint, and is not in use.
LEMMA FreshIds ==
  ASSUME NEW e, NEW s, NEW f \in Fresh(e, s)
  PROVE  /\ f[1] = e /\ f[2] = s /\ f[3] \in 1..MaxTries /\ f = <<f[1], f[2], f[3]>>
         /\ rows[f] = NoRow
<1>1. PICK n \in 1..MaxTries : f = <<e, s, n>> /\ rows[<<e, s, n>>] = NoRow
  BY DEF Fresh
<1>2. f[1] = e /\ f[2] = s /\ f[3] = n
  BY <1>1
<1> QED
  BY <1>1, <1>2

\* A new job is one, and begins with its row.
LEMMA NewJobTyped ==
  ASSUME Typed, NEW w \in Worker, NEW s \in Sub, NEW attempt \in Nat
  PROVE  NewJob(w, s, attempt) \in JobType /\ NewJob(w, s, attempt).at = "insert"
<1>1. subs[s].secret \in Nat
  BY DEF Typed, SubType
<1> QED
  BY <1>1 DEF NewJob, JobType

\* What no request touches rests.
LEMMA DeliveriesRest ==
  ASSUME DeveloperInv, UNCHANGED <<rows, jobs, posted, accepted>>
  PROVE  DeliveriesMove
<1>1. DeliveryTypes
  BY DEF DeveloperInv, Typed, DeliveryTypes
<1>2. ASSUME NEW d \in Delivery PROVE RunMoves(d)
  BY Rests
<1> QED
  BY <1>1, <1>2 DEF DeliveriesMove

\* A request starts deliveries of its event, or one more of a delivery it found,
\* or dies with all it started.
LEMMA DeliveriesStart ==
  ASSUME DeveloperInv, NEW w \in Worker, StartDeliveries(w) \/ Retry(w) \/ Dies(w)
  PROVE  DeliveriesMove
<1>0. /\ Typed /\ rows \in [Delivery -> RowType] /\ jobs \in [Delivery -> JobType]
      /\ posted \subseteq Delivery /\ accepted \subseteq Delivery
      /\ worker[w] \in WorkerType /\ Controlled(worker[w]) /\ Sound(worker[w])
  BY DEF DeveloperInv, Typed, Requests
<1>1. UNCHANGED <<rows, posted, accepted>>
  BY DEF StartDeliveries, Retry, Dies
\* A call that starts.
<1>2. ASSUME NEW f \in Delivery, rows[f] = NoRow, jobs'[f].at = "insert", Mates(f)
      PROVE  RunMoves(f)
  <2>1. rows'[f] = NoRow /\ NoRow.status = "none"
    BY <1>1, <1>2 DEF NoRow
  <2>2. Running(f)'
    BY <1>2, <2>1 DEF Running
  <2> QED
    BY <1>2, <2>1, <2>2 DEF RunMoves
\* A call that does not.
<1>3. ASSUME NEW d \in Delivery, jobs'[d] = jobs[d] \/ jobs'[d] = NoJob PROVE RunMoves(d)
  BY <1>1, <1>3, Rests
<1>4. ASSUME jobs' \in [Delivery -> JobType] PROVE DeliveryTypes
  BY <1>0, <1>1, <1>4 DEF DeliveryTypes
<1>5. NoJob \in JobType
  BY DEF NoJob, JobType
<1>6. ASSUME StartDeliveries(w) PROVE DeliveriesMove
  <2> DEFINE e == worker[w].event
             starts(d) == d[2] \in Matching(e) /\ d \in Fresh(e, d[2])
  <2>1. e \in 1..Len(events)
    BY <1>0, <1>6 DEF StartDeliveries, Sound
  <2>2. jobs' = [d \in Delivery |-> IF starts(d) THEN NewJob(w, d[2], 1) ELSE jobs[d]]
    BY <1>6 DEF StartDeliveries
  <2>3. ASSUME NEW d \in Delivery
        PROVE  d[2] \in Sub /\ NewJob(w, d[2], 1) \in JobType /\ NewJob(w, d[2], 1).at = "insert"
    <3>1. d[2] \in Sub /\ 1 \in Nat
      BY DEF Delivery
    <3> QED
      BY <1>0, <3>1, NewJobTyped
  <2>4. jobs' \in [Delivery -> JobType]
    BY <1>0, <2>2, <2>3
  <2>5. ASSUME NEW d \in Delivery PROVE RunMoves(d)
    <3>1. CASE starts(d)
      <4>1. d[1] = e /\ rows[d] = NoRow
        BY <3>1, FreshIds
      <4>2. subs[d[2]].owner = events[e].owner
        BY <3>1 DEF Matching
      <4>3. Mates(d)
        BY <2>1, <4>1, <4>2 DEF Mates
      <4>4. jobs'[d].at = "insert"
        BY <2>2, <2>3, <3>1
      <4> QED
        BY <1>2, <4>1, <4>3, <4>4
    <3>2. CASE ~starts(d)
      <4>1. jobs'[d] = jobs[d]
        BY <2>2, <3>2
      <4> QED
        BY <1>3, <4>1
    <3> QED
      BY <3>1, <3>2
  <2> QED
    BY <1>4, <2>4, <2>5 DEF DeliveriesMove
<1>7. ASSUME Retry(w) PROVE DeliveriesMove
  <2>1. CASE UNCHANGED jobs
    BY <1>1, <2>1, DeliveriesRest
  <2>2. CASE ~UNCHANGED jobs
    <3> DEFINE d == worker[w].target
    <3>1. Found(w, d) /\ Handles(w, "retry")
      BY <1>7, <2>2 DEF Retry
    <3>2. d \in Delivery /\ rows[d] # NoRow
      BY <1>0, <3>1 DEF Found, Handles, Controlled, ControlledAt
    <3>3. PICK f \in Fresh(d[1], d[2]) :
            jobs' = [jobs EXCEPT ![f] = NewJob(w, d[2], rows[d].attempt + 1)]
      BY <1>7, <2>2, <3>1 DEF Retry
    <3>4. f[1] = d[1] /\ f[2] = d[2] /\ f[3] \in 1..MaxTries /\ f = <<f[1], f[2], f[3]>>
          /\ rows[f] = NoRow
      BY FreshIds
    <3>5. d[1] \in 1..MaxEvent /\ d[2] \in Sub /\ Mates(d) /\ rows[d].attempt + 1 \in Nat
      <4>1. d[1] \in 1..MaxEvent /\ d[2] \in Sub
        BY <3>2 DEF Delivery
      <4>2. rows[d] \in RowType
        BY <1>0, <3>2
      <4>3. rows[d].attempt + 1 \in Nat
        BY <4>2 DEF RowType
      <4>4. Mates(d)
        BY <3>2 DEF DeveloperInv, Belongs, Used, Mates
      <4> QED
        BY <4>1, <4>3, <4>4
    <3> DEFINE j == NewJob(w, d[2], rows[d].attempt + 1)
    <3>6. f \in Delivery /\ Mates(f)
      BY <3>4, <3>5 DEF Delivery, Mates
    <3>7. j \in JobType /\ j.at = "insert"
      BY <1>0, <3>5, NewJobTyped
    <3>8. jobs' = [jobs EXCEPT ![f] = j]
      BY <3>3
    <3> HIDE DEF j, d
    <3>9. jobs' \in [Delivery -> JobType] /\ jobs'[f].at = "insert"
      BY <1>0, <3>6, <3>7, <3>8
    <3>10. ASSUME NEW r \in Delivery PROVE RunMoves(r)
      <4>1. CASE r = f
        BY <1>2, <3>4, <3>6, <3>9, <4>1
      <4>2. CASE r # f
        <5>1. jobs'[r] = jobs[r]
          BY <1>0, <3>8, <4>2
        <5> QED
          BY <1>3, <5>1
      <4> QED
        BY <4>1, <4>2
    <3> QED
      BY <1>4, <3>9, <3>10 DEF DeliveriesMove
  <2> QED
    BY <2>1, <2>2
<1>8. ASSUME Dies(w) PROVE DeliveriesMove
  <2>1. jobs' = [d \in Delivery |-> IF jobs[d].by = w THEN NoJob ELSE jobs[d]]
    BY <1>8 DEF Dies
  <2>2. jobs' \in [Delivery -> JobType]
    BY <1>0, <1>5, <2>1
  <2>3. ASSUME NEW d \in Delivery PROVE RunMoves(d)
    BY <1>3, <2>1
  <2> QED
    BY <1>4, <2>2, <2>3 DEF DeliveriesMove
<1> QED
  BY <1>6, <1>7, <1>8

\* A call of deliver() writes its row and posts its request.
LEMMA DeliveriesRun ==
  ASSUME DeveloperInv, NEW d \in Delivery, Deliver(d)
  PROVE  DeliveriesMove
<1>0. /\ rows \in [Delivery -> RowType] /\ jobs \in [Delivery -> JobType]
      /\ posted \subseteq Delivery /\ accepted \subseteq Delivery
      /\ Running(d) /\ jobs[d] \in JobType /\ rows[d] \in RowType
      /\ (rows[d].status = "succeeded" => d \in accepted)
  BY DEF DeveloperInv, Typed, Deliveries, SucceededWasAccepted
\* A step of this call writes its own row and no other.
<1>1. ASSUME NEW x \in RowType, NEW j \in JobType,
             jobs' = [jobs EXCEPT ![d] = j], rows' = [rows EXCEPT ![d] = x],
             posted' \subseteq posted \cup {d}, accepted \subseteq accepted',
             accepted' \subseteq Delivery, RunMoves(d)
      PROVE  DeliveriesMove
  <2>1. DeliveryTypes
    BY <1>0, <1>1 DEF DeliveryTypes
  <2>2. ASSUME NEW r \in Delivery PROVE RunMoves(r)
    <3>1. CASE r = d
      BY <1>1, <3>1
    <3>2. CASE r # d
      <4>1. jobs'[r] = jobs[r] /\ rows'[r] = rows[r] /\ (r \in posted' => r \in posted)
            /\ (r \in accepted => r \in accepted')
        BY <1>0, <1>1, <3>2
      <4> QED
        BY <4>1, Rests
    <3> QED
      BY <3>1, <3>2
  <2> QED
    BY <2>1, <2>2 DEF DeliveriesMove
\* What its row and its call are after the step.
<1>2. ASSUME NEW at \in {"post", "won", "lost"}, jobs[d].at # "none",
             at = "lost" \/ jobs[d].at \in {"insert", "post"},
             jobs' = [jobs EXCEPT ![d].at = at], rows' = rows,
             posted' \subseteq posted \cup {d}, accepted \subseteq accepted',
             accepted' \subseteq Delivery, at = "won" => d \in accepted'
      PROVE  DeliveriesMove
  <2> DEFINE j == [jobs[d] EXCEPT !.at = at]
  <2>1. jobs' = [jobs EXCEPT ![d] = j] /\ rows' = [rows EXCEPT ![d] = rows[d]]
    BY <1>0, <1>2
  <2>2. j \in JobType /\ j.at = at
    BY <1>0 DEF JobType
  <2> HIDE DEF j
  <2>3. jobs'[d] = j /\ rows'[d] = rows[d]
    BY <1>0, <1>2, <2>1
  <2>4. jobs[d] # NoJob
    BY <1>2 DEF NoJob
  <2>5. Running(d)'
    BY <1>0, <1>2, <2>2, <2>3 DEF Running
  <2>6. RunMoves(d)
    BY <1>0, <1>2, <2>3, <2>4, <2>5 DEF RunMoves, Used
  <2> QED
    BY <1>0, <1>1, <1>2, <2>1, <2>2, <2>6
<1>3. ASSUME CreateDelivery(d) PROVE DeliveriesMove
  <2>1. jobs[d].at = "insert" /\ UNCHANGED <<posted, accepted>> /\ rows' = Inserted(d)
        /\ jobs' = [jobs EXCEPT ![d].at = "post"]
    BY <1>3 DEF CreateDelivery
  <2>2. CASE rows' = rows
    BY <1>0, <1>2, <2>1, <2>2
  <2>3. CASE rows' = [rows EXCEPT ![d] = [status |-> "pending", attempt |-> jobs[d].attempt]]
    <3> DEFINE x == [status |-> "pending", attempt |-> jobs[d].attempt]
               j == [jobs[d] EXCEPT !.at = "post"]
    <3>1. x \in RowType /\ x.status = "pending"
      BY <1>0 DEF RowType, JobType
    <3>2. j \in JobType /\ j.at = "post"
      BY <1>0 DEF JobType
    <3>3. jobs' = [jobs EXCEPT ![d] = j] /\ rows' = [rows EXCEPT ![d] = x]
      BY <1>0, <2>1, <2>3
    <3> HIDE DEF x, j
    <3>4. jobs'[d] = j /\ rows'[d] = x
      BY <1>0, <3>3
    <3>5. jobs[d] # NoJob
      BY <2>1 DEF NoJob
    <3>6. rows[d].status # "succeeded"
      BY <1>0, <2>1 DEF Running
    <3>7. Running(d)'
      BY <3>1, <3>2, <3>4 DEF Running
    <3>8. RunMoves(d)
      BY <3>1, <3>4, <3>5, <3>6, <3>7 DEF RunMoves, Used
    <3> QED
      BY <1>0, <1>1, <2>1, <3>1, <3>2, <3>3, <3>8
  <2> QED
    BY <2>1, <2>2, <2>3 DEF Inserted
<1>4. ASSUME Accept(d) \/ Reject(d) \/ UrlBlocked(d) PROVE DeliveriesMove
  <2>1. PICK at \in {"won", "lost"} :
          /\ jobs' = [jobs EXCEPT ![d].at = at] /\ (at = "won" => d \in accepted')
          /\ posted' \subseteq posted \cup {d} /\ accepted \subseteq accepted'
          /\ accepted' \subseteq accepted \cup {d}
    BY <1>4 DEF Accept, Reject, UrlBlocked
  <2>2. jobs[d].at = "post" /\ rows' = rows
    BY <1>4 DEF Accept, Reject, UrlBlocked, Sending
  <2>3. accepted' \subseteq Delivery
    BY <1>0, <2>1
  <2> QED
    BY <1>2, <2>1, <2>2, <2>3
<1>5. ASSUME FinishDelivery(d) PROVE DeliveriesMove
  <2> DEFINE won == jobs[d].at = "won"
             status == IF won THEN "succeeded" ELSE "failed"
             at == IF won THEN "recorded" ELSE "closed"
             x == IF rows[d] = NoRow THEN NoRow ELSE [rows[d] EXCEPT !.status = status]
             j == [jobs[d] EXCEPT !.at = at]
  <2>1. /\ rows' = Finished(d, status) /\ jobs' = [jobs EXCEPT ![d].at = at]
        /\ UNCHANGED <<posted, accepted>> /\ jobs[d].at \in {"won", "lost"}
    BY <1>5 DEF FinishDelivery
  <2>2. NoRow \in RowType /\ NoRow.status = "none" /\ NoJob.at = "none"
    BY DEF NoRow, NoJob, RowType
  <2>3. x \in RowType /\ (x.status = "succeeded" => d \in accepted)
    BY <1>0, <2>1, <2>2 DEF RowType, Running
  <2>4. j \in JobType /\ j.at \in {"recorded", "closed"} /\ (j.at = "recorded" => won)
    BY <1>0 DEF JobType
  <2>5. jobs' = [jobs EXCEPT ![d] = j] /\ rows' = [rows EXCEPT ![d] = x]
    BY <1>0, <2>1 DEF Finished
  <2>6. rows'[d] = x /\ jobs'[d] = j
    BY <1>0, <2>5
  <2>7. (won => rows[d].status # "succeeded") /\ jobs[d] # NoJob
    BY <1>0, <2>1, <2>2 DEF Running
  <2>8. won => d \in accepted
    BY <1>0 DEF Running
  <2>9. jobs[d].at = "lost" \/ won
    BY <2>1
  <2> HIDE DEF x, status, j, at, won
  <2>10. Running(d)'
    BY <2>1, <2>4, <2>6, <2>8 DEF Running
  <2>11. RunMoves(d)
    BY <2>1, <2>3, <2>6, <2>7, <2>9, <2>10 DEF RunMoves, Used
  <2> QED
    BY <1>0, <1>1, <2>1, <2>3, <2>4, <2>5, <2>11
<1>7. ASSUME StampSubscription(d) PROVE DeliveriesMove
  <2>1. jobs' = [jobs EXCEPT ![d] = NoJob] /\ UNCHANGED <<rows, posted, accepted>>
    BY <1>7 DEF StampSubscription
  <2>2. NoJob \in JobType
    BY DEF NoJob, JobType
  <2>3. rows' = [rows EXCEPT ![d] = rows[d]] /\ rows'[d] = rows[d] /\ jobs'[d] = NoJob
    BY <1>0, <2>1
  <2>4. RunMoves(d)
    BY <2>1, <2>3, Rests
  <2> QED
    BY <1>0, <1>1, <2>1, <2>2, <2>3, <2>4
<1>8. ASSUME RecordThrows(d) PROVE DeliveriesMove
  <2>1. /\ jobs[d].at # "none" /\ jobs' = [jobs EXCEPT ![d].at = "lost"]
        /\ UNCHANGED <<rows, posted, accepted>>
    BY <1>8 DEF RecordThrows
  <2> QED
    BY <1>0, <1>2, <2>1
<1>6. ASSUME DeliveryThrows(d) PROVE DeliveriesMove
  <2>1. jobs' = [r \in Delivery |->
          IF r = d THEN NoJob
          ELSE IF jobs[r].by = jobs[d].by THEN [jobs[r] EXCEPT !.by = "none"] ELSE jobs[r]]
    BY <1>6 DEF DeliveryThrows
  <2>2. UNCHANGED <<rows, posted, accepted>>
    BY <1>6 DEF DeliveryThrows
  <2>3. NoJob \in JobType /\ [NoJob EXCEPT !.by = "none"] = NoJob
    BY DEF NoJob, JobType
  <2>4. ASSUME NEW r \in Delivery
        PROVE  /\ [jobs[r] EXCEPT !.by = "none"] \in JobType /\ jobs[r] \in JobType
               /\ [jobs[r] EXCEPT !.by = "none"].at = jobs[r].at
    <3>1. jobs[r] \in JobType
      BY <1>0
    <3> QED
      BY <3>1 DEF JobType
  <2>5. jobs' \in [Delivery -> JobType]
    BY <2>1, <2>3, <2>4
  <2>6. DeliveryTypes
    BY <1>0, <2>2, <2>5 DEF DeliveryTypes
  <2>7. ASSUME NEW r \in Delivery PROVE RunMoves(r)
    <3>1. CASE jobs'[r] = NoJob \/ jobs'[r] = jobs[r]
      BY <2>2, <3>1, Rests
    <3>2. CASE jobs'[r] = [jobs[r] EXCEPT !.by = "none"]
      <4>1. jobs'[r].at = jobs[r].at /\ (jobs'[r] # NoJob => jobs[r] # NoJob)
        BY <2>3, <2>4, <3>2
      <4> QED
        BY <2>2, <4>1, Rests
    <3> QED
      BY <2>1, <3>1, <3>2
  <2> QED
    BY <2>6, <2>7 DEF DeliveriesMove
<1> QED
  BY <1>3, <1>4, <1>5, <1>6, <1>7, <1>8 DEF Deliver

\* Every step keeps the deliveries right.
LEMMA DeliveryChanges ==
  ASSUME DeveloperInv, [Next]_vars
  PROVE  DeliveriesMove
<1>1. ASSUME NEW w \in Worker, StartDeliveries(w) \/ Retry(w) \/ Dies(w) PROVE DeliveriesMove
  BY <1>1, DeliveriesStart
<1>2. ASSUME NEW d \in Delivery, Deliver(d) PROVE DeliveriesMove
  BY <1>2, DeliveriesRun
<1>3. CASE UNCHANGED <<rows, jobs, posted, accepted>>
  BY <1>3, DeliveriesRest
<1>4. ASSUME NEW d \in Delivery,
             CreateDelivery(d) \/ Accept(d) \/ Reject(d) \/ UrlBlocked(d) \/ FinishDelivery(d)
             \/ StampSubscription(d) \/ RecordThrows(d) \/ DeliveryThrows(d)
      PROVE  DeliveriesMove
  BY <1>2, <1>4 DEF Deliver
<1>5. (UNCHANGED rows) \/ DeliveriesMove
  BY <1>4, RowsStep
<1>6. (UNCHANGED jobs) \/ DeliveriesMove
  BY <1>1, <1>4, JobsStep
<1>7. (UNCHANGED <<posted, accepted>>) \/ DeliveriesMove
  BY <1>4, PostsStep
<1> QED
  BY <1>3, <1>5, <1>6, <1>7

-----------------------------------------------------------------------------
(* The invariant holds. *)

\* The scenes are states the invariant allows.
LEMMA Initially == Init => DeveloperInv
<1> SUFFICES ASSUME Init PROVE DeveloperInv
  OBVIOUS
<1>1. PICK scene \in Scenes :
        /\ keys = scene.keys /\ subs = scene.subs /\ events = scene.events
        /\ posted = scene.failed
        /\ rows = [d \in Delivery |->
             IF d \in scene.failed THEN [status |-> "failed", attempt |-> d[3]] ELSE NoRow]
  BY DEF Init
<1>2. /\ issued = Cardinality({k \in Key : keys[k] # NoKey})
      /\ installed = [s \in Sub |-> subs[s].secret]
      /\ jobs = [d \in Delivery |-> NoJob] /\ accepted = {}
      /\ worker = [w \in Worker |-> Idle] /\ view = [t \in Tab |-> Loaded(t)]
  BY DEF Init
<1>3. SceneOK(scene) /\ "none" \notin Owner
  BY DeveloperAssumption
<1>4. keys \in [Key -> KeyType] /\ subs \in [Sub -> SubType] /\ events \in Seq(EventType)
  BY <1>1, <1>3 DEF SceneOK, KeyType, SubType, EventType, Name
<1>5. issued \in Nat
  BY <1>1, <1>2, <1>3, FS_CardinalityType DEF SceneOK
<1>6. installed \in [Sub -> Nat]
  BY <1>2, <1>4 DEF SubType
<1>7. posted \subseteq Delivery /\ accepted \subseteq Delivery
  BY <1>1, <1>2, <1>3 DEF SceneOK
<1>8. \A d \in Delivery : d[3] \in Nat
  BY DEF Delivery
<1>9. rows \in [Delivery -> RowType]
  BY <1>1, <1>8 DEF RowType, NoRow
<1>10. jobs \in [Delivery -> JobType]
  BY <1>2 DEF NoJob, JobType
<1>11. worker \in [Worker -> WorkerType] /\ \A w \in Worker : Controlled(worker[w])
  BY <1>2, IdleTyped
<1>12. view \in [Tab -> ViewType]
  BY <1>2 DEF Loaded, ViewType
<1>13. Typed
  BY <1>4, <1>5, <1>6, <1>7, <1>9, <1>10, <1>11, <1>12 DEF Typed
<1>14. KeysAreOwned
  <2>1. ASSUME NEW k \in Key, keys[k].status # "none" PROVE keys[k].owner \in Owner
    <3>1. keys[k] # NoKey /\ keys[k].owner \in Name
      BY <1>4, <2>1 DEF NoKey, KeyType
    <3> QED
      BY <1>1, <1>3, <3>1 DEF SceneOK, Name
  <2> QED
    BY <2>1 DEF KeysAreOwned
<1>15. Requests
  BY <1>2, IdleTyped DEF Requests
<1>16. Deliveries
  BY <1>2 DEF Deliveries, Running, NoJob
<1>17. SucceededWasAccepted
  BY <1>1 DEF SucceededWasAccepted, NoRow
<1>18. Belongs
  <2>1. ASSUME NEW d \in Delivery, Used(d) PROVE d \in scene.failed
    BY <1>1, <1>2, <2>1 DEF Used
  <2> QED
    BY <1>1, <1>3, <2>1 DEF Belongs, SceneOK
<1> QED
  BY <1>13, <1>14, <1>15, <1>16, <1>17, <1>18 DEF DeveloperInv

\* Every step keeps it.
LEMMA Inductive == DeveloperInv /\ [Next]_vars => DeveloperInv'
<1> SUFFICES ASSUME DeveloperInv, [Next]_vars PROVE DeveloperInv'
  OBVIOUS
<1>1. installed' \in [Sub -> Nat]
  <2>0. installed \in [Sub -> Nat] /\ \A s \in Sub : subs[s].secret \in Nat
    BY DEF DeveloperInv, Typed, SubType
  <2>1. ASSUME NEW w \in Worker, CreateHook(w) PROVE installed' \in [Sub -> Nat]
    BY <2>0, <2>1 DEF CreateHook
  <2>2. ASSUME NEW s \in Sub, Install(s) PROVE installed' \in [Sub -> Nat]
    BY <2>0, <2>2 DEF Install
  <2> QED
    BY <2>0, <2>1, <2>2, InstalledStep
<1>2. view' \in [Tab -> ViewType]
  <2>0. view \in [Tab -> ViewType]
    BY DEF DeveloperInv, Typed
  <2>1. ASSUME NEW t \in Tab, Load(t) PROVE view' \in [Tab -> ViewType]
    <3>1. Loaded(t) \in ViewType
      BY DEF Loaded, ViewType
    <3> QED
      BY <2>0, <2>1, <3>1 DEF Load
  <2> QED
    BY <2>0, <2>1, ViewStep
<1>3. /\ worker' \in [Worker -> WorkerType]
      /\ \A w \in Worker : Controlled(worker'[w]) /\ Sound(worker[w])'
  <2>0. /\ worker \in [Worker -> WorkerType]
        /\ \A w \in Worker : Controlled(worker[w]) /\ Sound(worker[w])
    BY DEF DeveloperInv, Typed, Requests
  <2>1. CASE UNCHANGED worker
    <3>1. ASSUME NEW w \in Worker PROVE Sound(worker[w])'
      <4>1. PICK r \in WorkerType : r = worker[w]
        BY <2>0
      <4>2. Sound(r)'
        BY <2>0, <4>1, SoundStays
      <4> QED
        BY <2>1, <4>1, <4>2 DEF Sound
    <3> QED
      BY <2>0, <2>1, <3>1
  <2>2. ASSUME NEW b \in Worker, Moves(b)
        PROVE  /\ worker' \in [Worker -> WorkerType]
               /\ \A w \in Worker : Controlled(worker'[w]) /\ Sound(worker[w])'
    <3>1. PICK n \in WorkerType : Controlled(n) /\ Sound(n)' /\ worker' = [worker EXCEPT ![b] = n]
      BY <2>2 DEF Moves
    <3>2. worker' \in [Worker -> WorkerType]
      BY <2>0, <3>1
    <3>3. ASSUME NEW w \in Worker PROVE Controlled(worker'[w]) /\ Sound(worker[w])'
      <4>1. CASE w = b
        <5>1. worker'[w] = n
          BY <2>0, <3>1, <4>1
        <5> QED
          BY <3>1, <5>1 DEF Sound
      <4>2. CASE w # b
        <5>1. worker'[w] = worker[w]
          BY <2>0, <3>1, <4>2
        <5>2. PICK r \in WorkerType : r = worker[w]
          BY <2>0
        <5>3. Sound(r)' /\ Controlled(r)
          BY <2>0, <5>2, SoundStays
        <5> QED
          BY <5>1, <5>2, <5>3 DEF Sound
      <4> QED
        BY <4>1, <4>2
    <3> QED
      BY <3>2, <3>3
  <2> QED
    BY <2>1, <2>2, RequestsMove
<1>4. Typed'
  BY <1>1, <1>2, <1>3, KeyChanges, SubChanges, EventChanges, DeliveryChanges
  DEF Typed, DeliveriesMove, DeliveryTypes
<1>5. KeysAreOwned'
  BY KeyChanges DEF KeysAreOwned, KeyMoves
<1>6. Requests'
  BY <1>3 DEF Requests
<1>7. Deliveries' /\ SucceededWasAccepted'
  BY DeliveryChanges DEF DeliveriesMove, RunMoves, Deliveries, SucceededWasAccepted
<1>8. Belongs'
  <2>1. ASSUME NEW d \in Delivery, Used(d)'
        PROVE  d[1] \in 1..Len(events') /\ subs'[d[2]].owner = events'[d[1]].owner
    <3>1. Mates(d)
      BY <2>1, DeliveryChanges DEF DeliveriesMove, RunMoves, DeveloperInv, Belongs, Mates
    <3>2. d[1] \in 1..Len(events') /\ events'[d[1]] = events[d[1]]
      BY <3>1, EventChanges DEF Mates
    <3>3. subs[d[2]].owner \in Owner
      <4>1. events[d[1]] \in EventType
        BY <3>1 DEF Mates, DeveloperInv, Typed
      <4> QED
        BY <3>1, <4>1 DEF Mates, EventType
    <3>4. d[2] \in Sub
      BY DEF Delivery
    <3>5. subs'[d[2]].owner = subs[d[2]].owner
      BY <3>3, <3>4, SubChanges DEF SubMoves
    <3> QED
      BY <3>1, <3>2, <3>5 DEF Mates
  <2> QED
    BY <2>1 DEF Belongs
<1> QED
  BY <1>4, <1>5, <1>6, <1>7, <1>8 DEF DeveloperInv

\* So it always holds.
LEMMA Invariant == Spec => []DeveloperInv
BY Initially, Inductive, PTL DEF Spec

-----------------------------------------------------------------------------
(* What it says. *)

\* Every table, job and request keeps the shape the code gives it, and a
\* request that goes on knows its wallet and what it was asked for.
THEOREM TypeCorrect == Spec => []Typed
<1>1. DeveloperInv => Typed
  BY DEF DeveloperInv
<1> QED
  BY <1>1, Invariant, PTL

\* A token that was revoked, replaced or had expired when a request came in
\* with it never gets past authentication (authenticateApiKey), whatever
\* happens to its key meanwhile.
THEOREM DeadTokensStayOut == Spec => []DeadTokensAreRefused
<1>1. DeveloperInv => DeadTokensAreRefused
  <2> SUFFICES ASSUME DeveloperInv, NEW c \in Client, worker[c].at \notin {"idle", "auth"}
               PROVE  worker[c].late = FALSE
    BY DEF DeadTokensAreRefused
  <2>1. c \in Worker
    BY DEF Worker
  <2> QED
    BY <2>1 DEF DeveloperInv, Requests, Sound
<1> QED
  BY <1>1, Invariant, PTL

\* A row says succeeded only if its own request was taken as genuine by the
\* endpoint (deliver, finishDelivery).
THEOREM SuccessIsEarned == Spec => []SucceededWasAccepted
<1>1. DeveloperInv => SucceededWasAccepted
  BY DEF DeveloperInv
<1> QED
  BY <1>1, Invariant, PTL

\* What is sent, recorded or retried belongs to the wallet whose handler
\* published the event (matchingWebhooks, getDelivery).
THEOREM EventsStayPrivate == Spec => []DeliveriesStayWithTheirOwner
<1>1. DeveloperInv => DeliveriesStayWithTheirOwner
  BY DEF DeveloperInv, Belongs, Used, DeliveriesStayWithTheirOwner
<1> QED
  BY <1>1, Invariant, PTL

\* No retry changes the row of an attempt that succeeded: only the call that
\* recorded it may, when its second statement throws, and once that call is over
\* none ever runs for it again.  No edit of a subscription brings back a signing
\* secret that was rotated (deliver, retryWebhookDelivery, updateWebhook).
THEOREM NothingIsUndoneLater == Spec => NothingIsUndone
<1> DEFINE Kept(d) == rows[d].status = "succeeded" =>
                        /\ rows'[d] = rows[d] \/ jobs[d].at = "lost"
                        /\ jobs[d] = NoJob => jobs'[d] = NoJob
<1>1. DeveloperInv /\ [Next]_vars => \A d \in Delivery : Kept(d)
  <2> SUFFICES ASSUME DeveloperInv, [Next]_vars PROVE \A d \in Delivery : Kept(d)
    OBVIOUS
  <2> QED
    BY DeliveryChanges DEF DeliveriesMove, RunMoves
<1>2. DeveloperInv /\ [Next]_vars => \A s \in Sub : subs'[s].secret >= subs[s].secret
  <2> SUFFICES ASSUME DeveloperInv, [Next]_vars
               PROVE  \A s \in Sub : subs'[s].secret >= subs[s].secret
    OBVIOUS
  <2> QED
    BY SubChanges DEF SubMoves
<1>3. Spec => SucceededIsFinal
  BY <1>1, Invariant, PTL DEF Spec, SucceededIsFinal
<1>4. Spec => SecretsMoveForward
  BY <1>2, Invariant, PTL DEF Spec, SecretsMoveForward
<1> QED
  BY <1>3, <1>4 DEF NothingIsUndone
=============================================================================
