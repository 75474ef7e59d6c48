------------------------- MODULE MCProviderRegistry -------------------------
(* Constants for checking ProviderRegistry on small instances. *)
EXTENDS ProviderRegistry, TLC

CONSTANTS a, b, x, y, e1, e2, e3

MCProvider == {"search", "p"}
MCAnswers == e1 :> [protocol |-> "x402", network |-> "solana:devnet", asset |-> "sandbox", credential |-> "none"]
          @@ e2 :> [protocol |-> "x402", network |-> "solana:mainnet", asset |-> "mint", credential |-> "new"]
          @@ e3 :> [protocol |-> "mpp", network |-> "none", asset |-> "mint", credential |-> "none"]

ConfigOf(e) == [endpoint |-> e, networks |-> {"devnet", "mainnet"}, assets |-> {"USDC", "mint"},
              pricing |-> "challenge", price |-> "none"]
BuiltIn == [NoRow EXCEPT !.owner = "system", !.status = "active", !.health = "healthy"]
Live(status, health) ==
  [owner |-> a, protocol |-> "x402", config |-> ConfigOf(e1), secret |-> [value |-> "old", key |-> 2],
   status |-> status, health |-> health]
New(protocol, e) ==
  [do |-> "new", form |-> [id |-> "p", editing |-> FALSE, protocol |-> protocol, config |-> ConfigOf(e), secret |-> "keep"]]
Open(change, secret) == [do |-> "open", id |-> "p", change |-> change, secret |-> secret]
Sent(op, id) == [do |-> "direct", op |-> op,
  form |-> [id |-> id, editing |-> TRUE, protocol |-> "x402", config |-> ConfigOf(e1), secret |-> "clear"]]
On(do) == [do |-> do, id |-> "p"]
Do(do) == [do |-> do]
None == [f \in {} |-> 0]

Scene(row, w, first, second) ==
  [rows |-> "search" :> BuiltIn @@ "p" :> row, settings |-> [u \in Wallet |-> DefaultSettings],
   key |-> 2, net |-> e1 :> "up" @@ e2 :> "steady" @@ e3 :> "steady", policy |-> FALSE,
   owner |-> x :> a @@ y :> w, todo |-> x :> first @@ y :> second]
Endpoint2 == [endpoint |-> e2]
Fixed == [pricing |-> "fixed"]

MCScenes ==
  {\* two wallets add the same id
   Scene(NoRow, b, <<New("x402", e1), Do("save"), On("check"), On("toggle")>>,
                   <<New("x402", e1), Do("test"), Do("saveIntegration")>>),
   Scene(NoRow, b, <<New("demo", "none"), Do("test"), Do("save"), On("toggle"), On("toggle")>>,
                   <<New("mpp", e3), Do("save"), On("check"), [do |-> "check", id |-> "search"]>>),
   \* an edit, and a check of the provider
   Scene(Live("active", "unknown"), a, <<Open(Endpoint2, "new"), Do("save"), On("check")>>,
                   <<On("check"), On("toggle"), On("toggle")>>),
   \* an edit through the settings page, and another one
   Scene(Live("active", "healthy"), a, <<Open(Endpoint2, "new"), Do("test"), Do("saveIntegration")>>,
                   <<Open(Fixed, "clear"), Do("test"), Do("saveIntegration")>>),
   \* a provider is enabled and disabled from two pages
   Scene(Live("disabled", "healthy"), a, <<On("toggle"), Open(Endpoint2, "keep"), Do("save")>>,
                   <<On("check"), Do("load"), On("toggle")>>),
   \* mainnet without its acknowledgement
   Scene(Live("active", "healthy"), a, <<[do |-> "settings", environment |-> "mainnet", change |-> None],
                   Do("saveSettings"), On("toggle"), On("toggle")>>, <<On("check"), On("check"), Do("load")>>),
   \* requests about providers of others and built-in ones
   Scene(Live("active", "healthy"), b, <<Sent("disable", "search"), Sent("check", "search"), Sent("edit", "search")>>,
                   <<Sent("disable", "p"), Sent("enable", "p"), Sent("reconnect", "p"), Sent("check", "p")>>),
   \* the environment changes under a provider, and the credential key
   [Scene(Live("disabled", "unknown"), a,
          <<[do |-> "settings", environment |-> "mainnet",
             change |-> [acknowledged |-> TRUE, mint |-> "mint", policy |-> TRUE]], Do("saveSettings")>>,
          <<On("toggle"), Open(Endpoint2, "new"), Do("test"), Do("saveIntegration")>>)
    EXCEPT !.policy = TRUE, !.key = 1]}
=============================================================================
