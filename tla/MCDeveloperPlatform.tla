------------------------- MODULE MCDeveloperPlatform -------------------------
(* Constants for checking DeveloperPlatform on small instances. *)
EXTENDS DeveloperPlatform, TLC

CONSTANTS o1, o2, k1, k2, s1, s2, c1, t1, t2

MCTabOwner == t1 :> o1 @@ t2 :> o1

OneKey == k1 :> [NoKey EXCEPT !.status = "active", !.owner = o1, !.token = 1, !.scopes = Scope]
            @@ k2 :> NoKey
Expiring == [OneKey EXCEPT ![k1].expiry = "ahead"]

NoSubs == [s \in Sub |-> NoSub]
TwoWallets == s1 :> NewSub(o1) @@ s2 :> NewSub(o2)
OneWallet == s1 :> NewSub(o1) @@ s2 :> [NewSub(o1) EXCEPT !.types = {"settlement.failed"}]

Scene(held, endpoints, client, first, second) ==
  [keys |-> held, subs |-> endpoints, events |-> <<>>, failed |-> {},
   ops |-> c1 :> client @@ t1 :> first @@ t2 :> second]

MCScenes ==
  {\* a key is revoked and rotated from two pages while a client calls
   Scene(Expiring, NoSubs, {"read"}, {"revoke", "rotate"}, {"rotate"}),
   \* a delivery that failed is retried from the API and from a page
   [Scene(OneKey, TwoWallets, {"retry"}, {"retry"}, {}) EXCEPT
      !.events = <<[owner |-> o1, type |-> "task.created"]>>, !.failed = {<<1, s1, 1>>}],
   \* endpoints are edited from one page and rotated from another
   Scene(OneKey, TwoWallets, {"create"}, {"updateHook"}, {"rotateHook"}),
   \* several events for one endpoint, or one event for two
   Scene(OneKey, TwoWallets, {"execute"}, {}, {}),
   Scene(OneKey, OneWallet, {"action"}, {}, {}),
   \* endpoints and keys appear
   Scene(OneKey, NoSubs, {"createHook"}, {"createHook"}, {"createKey"})}
=============================================================================
