--------------------------- MODULE ProviderRegistry ---------------------------
(***************************************************************************)
(* The provider registry and the settings page.  Wallets add, edit, test,  *)
(* check, enable and disable providers from two pages                      *)
(* (providers-workspace.tsx, settings-workspace.tsx); every route reads    *)
(* the row, the settings and the stored credential in statements of its    *)
(* own, asks the endpoint, and writes what it found to the row             *)
(* (persistence/src/providers.ts).  Steps lists the statements of each     *)
(* route in the order of its handler; requests of other browsers run       *)
(* between any two of them, and any of them may fail.                      *)
(***************************************************************************)
EXTENDS Integers, Sequences, FiniteSets

CONSTANTS
  Wallet,     \* signed-in wallets
  Browser,    \* browsers, one page each
  Provider,   \* provider ids
  Endpoint,   \* endpoints of live providers
  Answers,    \* what each endpoint advertises: protocol, network, asset, and the credential it wants
  Scenes      \* what there is at first, and what each browser does

Protocol == {"demo", "x402", "mpp"}
ProductEnvironment == {"local", "devnet", "mainnet"}
SolanaNetwork == {"localnet", "devnet", "mainnet-beta"}
Pricing == {"fixed", "challenge", "metered"}
Price == {"none", "set"}
Status == {"active", "disabled"}
Health == {"unknown", "healthy", "unhealthy"}
Mode == {"deterministic", "x402", "mpp"}

Value == {"none", "old", "new"}   \* credentials
Config == [endpoint : Endpoint \cup {"none"}, networks : SUBSET STRING, assets : SUBSET STRING,
           pricing : Pricing, price : Price]
Row == [owner : Wallet \cup {"none", "system"}, protocol : Protocol, config : Config,
        secret : [value : Value, key : 0..2], status : Status, health : Health]
Form == [id : Provider \cup {"none"}, editing : BOOLEAN, protocol : Protocol, config : Config,
         secret : {"keep", "clear", "old", "new"}]
AccountSettings == [environment : ProductEnvironment, mint : STRING, mode : Mode,
                    policy : BOOLEAN, acknowledged : BOOLEAN]

VARIABLES
  rows,       \* providers
  settings,   \* account_settings
  key,        \* CANALIS_PROVIDER_SECRET_KEY, which a deployment may change
  net,        \* whether each endpoint answers
  policy,     \* whether the policy settings may name is active
  owner,      \* the wallet each browser is signed in with
  shown,      \* the providers each page last loaded
  form,       \* the provider form of each page
  tested,     \* the form the settings page last tested
  draft,      \* the settings form of each page
  todo,       \* what each browser still does
  req,        \* the request each browser waits for
  verified,   \* of each provider, the configurations that passed a check
  doubt       \* providers edited during the check that was recorded last

tables == <<rows, settings, verified, doubt>>
outside == <<key, net, policy, owner>>
pages == <<shown, form, tested, draft, todo>>
vars == <<tables, outside, pages, req>>

NoRow == [owner |-> "none", protocol |-> "demo",
          config |-> [endpoint |-> "none", networks |-> {}, assets |-> {}, pricing |-> "challenge", price |-> "none"],
          secret |-> [value |-> "none", key |-> 0], status |-> "disabled", health |-> "unknown"]
NoForm == [id |-> "none", editing |-> FALSE, protocol |-> "demo", config |-> NoRow.config, secret |-> "keep"]
NoDraft == [environment |-> "none", mint |-> "none", mode |-> "none", policy |-> FALSE, acknowledged |-> FALSE]
Idle == [op |-> "none", at |-> 0, form |-> NoForm, row |-> NoRow, settings |-> NoDraft,
         credential |-> "none", health |-> "unknown", merge |-> NoRow, stale |-> FALSE]

-----------------------------------------------------------------------------
(* Account settings (application/src/settings.ts) *)

expectedNetwork == [local |-> "localnet", devnet |-> "devnet", mainnet |-> "mainnet-beta"]

\* defaultAccountSettings.
DefaultSettings ==
  [environment |-> "devnet", mint |-> "none", mode |-> "deterministic", policy |-> FALSE, acknowledged |-> FALSE]

\* The names networkMatches takes for each network.
Names == [localnet |-> {"local", "localnet"}, devnet |-> {"devnet", "solana:devnet"},
          mainnet |-> {"mainnet", "mainnet-beta", "solana:mainnet"}]
NetworkMatches(active, candidate) ==
  candidate \in Names[IF active = "mainnet-beta" THEN "mainnet" ELSE active]
AssetMatches(s, candidate) == candidate \in {"USDC", s.mint} \ {"none"}

ParsesSettings(s) ==
  s.environment = "mainnet" => s.acknowledged /\ s.mint # "none" /\ s.mode # "deterministic"

\* assertIntegrationCompatible: the network, the asset and the environment.
Compatible(s, protocol, config) ==
  IF protocol = "demo" THEN s.environment # "mainnet"
  ELSE /\ \E n \in config.networks : NetworkMatches(expectedNetwork[s.environment], n)
       /\ \E x \in config.assets : AssetMatches(s, x)

-----------------------------------------------------------------------------
(* Rows of the registry (application/src/provider-registry.ts) *)

\* normalizeCreate and the checks of the configuration route.
ParsesLive(protocol, config) ==
  protocol # "demo" => config.endpoint # "none" /\ config.networks # {} /\ config.assets # {}
ParsesPrice(config) == config.pricing = "fixed" => config.price = "set"
ParsesCreate(f) == ParsesLive(f.protocol, f.config) /\ ParsesPrice(f.config)
\* parseProviderRegistryUpdate: the settings page always sends an endpoint.
ParsesUpdate(f) == f.config.endpoint # "none"
\* The configuration route asks for a whole configuration.
ParsesEdit(protocol, f) == ParsesLive(protocol, f.config) /\ ParsesPrice(f.config)

System(id) == rows[id].owner = "system"
Visible(u, id) == rows[id].owner \in {"system", u}
Owned(u, id) == rows[id].owner = u

\* assertProviderSelectable.
Selectable(row) ==
  /\ row.status = "active"
  /\ row.protocol # "demo" => row.health = "healthy"
  /\ row.health # "unhealthy"

Sealed(value) == [value |-> value, key |-> IF value = "none" THEN 0 ELSE key]
Opens(secret) == secret.value = "none" \/ secret.key = key

-----------------------------------------------------------------------------
(* Health checks (server/provider-health.ts) *)

SameNetwork(configured, advertised) ==
  configured = advertised \/ \E n \in DOMAIN Names : {configured, advertised} \subseteq Names[n]
SameAsset(configured, advertised) ==
  configured = advertised \/ (configured = "USDC" /\ advertised = "sandbox")

\* What the answer does not advertise ("none") is not compared.
Constraints(config, answer) ==
  /\ answer.network # "none" => \E n \in config.networks : SameNetwork(n, answer.network)
  /\ answer.asset # "none" => \E x \in config.assets : SameAsset(x, answer.asset)

\* The endpoint answers the request: a challenge of its protocol, or an error.
Challenge(protocol, endpoint, credential) ==
  /\ net[endpoint] \in {"steady", "up", "back"}
  /\ Answers[endpoint].protocol = protocol
  /\ Answers[endpoint].credential \in {"none", credential}

Verify(protocol, config, credential) ==
  IF \/ protocol = "demo" /\ config.endpoint = "none"
     \/ /\ config.endpoint # "none"
        /\ Challenge(protocol, config.endpoint, credential)
        /\ protocol # "demo" => Constraints(config, Answers[config.endpoint])
  THEN "healthy" ELSE "unhealthy"

-----------------------------------------------------------------------------
(* The routes, as the sequence of their statements *)

AddSteps == <<"parse", "settings", "conflict", "insert", "answer">>
EditSteps == <<"get", "parse", "settings", "read", "write", "answer">>
\* Mutant of EnableSteps: the status is set before the check is looked at.
EnablesFirst == <<"get", "settings", "secret", "verify", "status", "record", "passed", "answer">>
EnableSteps == <<"get", "settings", "secret", "verify", "record", "passed", "status", "answer">>
DisableSteps == <<"status", "answer">>
CheckSteps == <<"get", "secret", "verify", "record", "answer">>
ConnectSteps == <<"parse", "settings", "verify", "passed", "conflict", "insert", "record", "answer">>
ReconnectSteps == <<"get", "parse", "settings", "secret", "verify", "passed", "read", "write", "record", "answer">>
TestSteps == <<"settings", "get", "parse", "secret", "verify", "passed", "answer">>
TestNewSteps == <<"settings", "parse", "verify", "passed", "answer">>
SaveSteps == <<"policy", "save", "answer">>

Steps == [add |-> AddSteps, edit |-> EditSteps, enable |-> EnableSteps, disable |-> DisableSteps,
          check |-> CheckSteps, connect |-> ConnectSteps, reconnect |-> ReconnectSteps,
          test |-> TestSteps, testNew |-> TestNewSteps, save |-> SaveSteps]
Creates == {"add", "connect", "testNew"}
Integrations == {"connect", "reconnect", "test", "testNew"}

Stage(b) == IF req[b] = Idle THEN "idle" ELSE Steps[req[b].op][req[b].at]
At(b, stage) == Stage(b) = stage
Pass(b, r) == req' = [req EXCEPT ![b] = [r EXCEPT !.at = @ + 1]]
Fail(b) == req' = [req EXCEPT ![b] = Idle]

\* The protocol and the configuration a request is about (candidateFromCreate, candidateFromUpdate).
RequestProtocol(r) == IF r.op \in Creates THEN r.form.protocol ELSE r.row.protocol
Candidate(r) == IF r.op \in {"enable", "check"} THEN r.row.config ELSE r.form.config

-----------------------------------------------------------------------------
(* What the scenes are made of *)

\* A change of a record gives some of its fields another value of their type.
ChangeOK(change, field, Values) == field \in DOMAIN change => change[field] \in Values

Clicks == UNION {{scene.todo[b][i] : i \in DOMAIN scene.todo[b]} : scene \in Scenes, b \in Browser}
ClickOK(click) ==
  CASE click.do \in {"new", "direct"} ->
         /\ click.form \in Form /\ click.form.id \in Provider
         /\ click.do = "direct" => click.op \in DOMAIN Steps \ {"save"}
    [] click.do = "open" ->
         /\ click.id \in Provider /\ click.secret \in {"keep", "clear", "old", "new"}
         /\ ChangeOK(click.change, "endpoint", Endpoint \cup {"none"})
         /\ ChangeOK(click.change, "networks", SUBSET STRING) /\ ChangeOK(click.change, "assets", SUBSET STRING)
         /\ ChangeOK(click.change, "pricing", Pricing) /\ ChangeOK(click.change, "price", Price)
    [] click.do \in {"toggle", "check"} -> click.id \in Provider
    [] click.do = "settings" ->
         /\ click.environment \in ProductEnvironment
         /\ ChangeOK(click.change, "environment", ProductEnvironment)
         /\ ChangeOK(click.change, "mint", STRING) /\ ChangeOK(click.change, "mode", Mode)
         /\ ChangeOK(click.change, "policy", BOOLEAN) /\ ChangeOK(click.change, "acknowledged", BOOLEAN)
    [] OTHER -> click.do \in {"save", "test", "saveIntegration", "saveSettings", "load"}

\* The built-in rows are those of the migrations: demo, without an endpoint, active and healthy
\* (0001_initial.sql:106, 0004_provider_registry.sql:28); one without an owner is no row at all.
SceneOK(scene) ==
  /\ scene.rows \in [Provider -> Row]
  /\ \A id \in Provider :
       /\ scene.rows[id].owner = "none" => scene.rows[id] = NoRow
       /\ scene.rows[id].owner = "system" =>
            /\ scene.rows[id].protocol = "demo" /\ scene.rows[id].config.endpoint = "none"
            /\ scene.rows[id].health = "healthy"
  /\ scene.settings \in [Wallet -> AccountSettings] /\ \A u \in Wallet : ParsesSettings(scene.settings[u])
  /\ scene.key \in 1..2 /\ scene.policy \in BOOLEAN /\ scene.owner \in [Browser -> Wallet]
  /\ scene.net \in [Endpoint -> {"steady", "up", "down", "back"}]
  /\ scene.todo \in [Browser -> Seq(Clicks)]

ASSUME WalletAssumption == Wallet \cap {"none", "system"} = {}
ASSUME SceneAssumption == (\A scene \in Scenes : SceneOK(scene)) /\ \A click \in Clicks : ClickOK(click)

Init ==
  \E scene \in Scenes :
    /\ rows = scene.rows /\ settings = scene.settings /\ key = scene.key
    /\ net = scene.net /\ policy = scene.policy /\ owner = scene.owner
    /\ shown = [b \in Browser |-> [id \in Provider |->
         IF Visible(owner[b], id) THEN rows[id] ELSE NoRow]]
    /\ form = [b \in Browser |-> NoForm]
    /\ tested = [b \in Browser |-> NoForm]
    /\ draft = [b \in Browser |-> settings[owner[b]]]
    /\ todo = scene.todo
    /\ req = [b \in Browser |-> Idle]
    /\ verified = [id \in Provider |-> IF rows[id].health = "healthy"
                                       THEN {<<rows[id].config, rows[id].secret.value>>} ELSE {}]
    /\ doubt = {}

-----------------------------------------------------------------------------
(* The two pages *)

Changed(r, change) == [f \in DOMAIN r |-> IF f \in DOMAIN change THEN change[f] ELSE r[f]]
Click(b, do) == Stage(b) = "idle" /\ todo[b] # <<>> /\ Head(todo[b]).do = do
Clicked(b) == todo' = [todo EXCEPT ![b] = Tail(@)]
Send(b, op, f) == req' = [req EXCEPT ![b] = [Idle EXCEPT !.op = op, !.at = 1, !.form = f]]
Named(id) == [NoForm EXCEPT !.id = id]

\* The form for a new provider, filled in.
NewProvider(b) ==
  /\ Click(b, "new") /\ Clicked(b)
  /\ form' = [form EXCEPT ![b] = Head(todo[b]).form]
  /\ UNCHANGED <<tables, outside, shown, tested, draft, req>>

\* The form of a provider as the page shows it, with some of its fields changed.
EditProvider(b) ==
  LET click == Head(todo[b])
      row == shown[b][click.id] IN
  /\ Click(b, "open") /\ row.owner \notin {"none", "system"} /\ Clicked(b)
  /\ form' = [form EXCEPT ![b] =
       [id |-> click.id, editing |-> TRUE, protocol |-> row.protocol,
        config |-> Changed(row.config, click.change), secret |-> click.secret]]
  /\ UNCHANGED <<tables, outside, shown, tested, draft, req>>

\* What the composer of the providers page lets through.
Valid(f) == f.id # "none" /\ ParsesLive(f.protocol, f.config) /\ ParsesPrice(f.config)

Save(b) ==
  /\ Click(b, "save") /\ Valid(form[b]) /\ Clicked(b)
  /\ Send(b, IF form[b].editing THEN "edit" ELSE "add", form[b])
  /\ UNCHANGED <<tables, outside, shown, form, tested, draft>>

\* changeStatus of one page and toggleProvider of the other.
Toggle(b) ==
  LET id == Head(todo[b]).id IN
  /\ Click(b, "toggle") /\ shown[b][id].owner \notin {"none", "system"} /\ Clicked(b)
  /\ Send(b, IF shown[b][id].status = "active" THEN "disable" ELSE "enable", Named(id))
  /\ UNCHANGED <<tables, outside, shown, form, tested, draft>>

CheckHealth(b) ==
  /\ Click(b, "check") /\ shown[b][Head(todo[b]).id] # NoRow /\ Clicked(b)
  /\ Send(b, "check", Named(Head(todo[b]).id))
  /\ UNCHANGED <<tables, outside, shown, form, tested, draft>>

TestIntegration(b) ==
  /\ Click(b, "test") /\ form[b] # NoForm /\ Clicked(b)
  /\ Send(b, IF form[b].editing THEN "test" ELSE "testNew", form[b])
  /\ UNCHANGED <<tables, outside, shown, form, tested, draft>>

SaveIntegration(b) ==
  /\ Click(b, "saveIntegration") /\ form[b] # NoForm /\ tested[b] = form[b] /\ Clicked(b)
  /\ Send(b, IF form[b].editing THEN "reconnect" ELSE "connect", form[b])
  /\ UNCHANGED <<tables, outside, shown, form, tested, draft>>

\* updateEnvironment takes the network along and what mainnet forbids.
WithEnvironment(s, environment) ==
  [s EXCEPT !.environment = environment,
            !.acknowledged = @ /\ environment = "mainnet",
            !.mode = IF environment = "mainnet" /\ @ = "deterministic" THEN "x402" ELSE @]

EditSettings(b) ==
  /\ Click(b, "settings") /\ Clicked(b)
  /\ draft' = [draft EXCEPT ![b] =
       Changed(WithEnvironment(@, Head(todo[b]).environment), Head(todo[b]).change)]
  /\ UNCHANGED <<tables, outside, shown, form, tested, req>>

SaveSettings(b) ==
  /\ Click(b, "saveSettings") /\ draft[b] # settings[owner[b]] /\ Clicked(b)
  /\ req' = [req EXCEPT ![b] = [Idle EXCEPT !.op = "save", !.at = 1, !.settings = draft[b]]]
  /\ UNCHANGED <<tables, outside, shown, form, tested, draft>>

\* A request that no page offers for this provider.
Direct(b) ==
  /\ Click(b, "direct") /\ Clicked(b)
  /\ Send(b, Head(todo[b]).op, Head(todo[b]).form)
  /\ UNCHANGED <<tables, outside, shown, form, tested, draft>>

\* Both pages list the providers when they open; the second also loads the settings.
Load(b) ==
  /\ Click(b, "load") /\ Clicked(b)
  /\ shown' = [shown EXCEPT ![b] = [id \in Provider |->
       IF Visible(owner[b], id) THEN rows[id] ELSE NoRow]]
  /\ draft' = [draft EXCEPT ![b] = settings[owner[b]]]
  /\ UNCHANGED <<tables, outside, form, tested, req>>

-----------------------------------------------------------------------------
(* The statements of the routes *)

Parse(b) ==
  LET f == req[b].form IN
  /\ At(b, "parse")
  /\ IF CASE req[b].op \in Creates -> ParsesCreate(f)
          [] req[b].op = "edit" -> ParsesEdit(req[b].row.protocol, f)
          [] OTHER -> ParsesUpdate(f)
     THEN Pass(b, [req[b] EXCEPT !.credential = IF f.secret \in {"keep", "clear"} THEN "none" ELSE f.secret])
     ELSE Fail(b)
  /\ UNCHANGED <<tables, outside, pages>>

\* getProvider: an edit finds none of the built-in rows.
Get(b) ==
  LET id == req[b].form.id IN
  /\ At(b, "get")
  /\ IF Owned(owner[b], id) \/ (req[b].op = "check" /\ Visible(owner[b], id))
     THEN Pass(b, [req[b] EXCEPT !.row = rows[id]]) ELSE Fail(b)
  /\ UNCHANGED <<tables, outside, pages>>

ReadSettings(b) ==
  LET s == settings[owner[b]]
      r == req[b] IN
  /\ At(b, "settings")
  /\ IF r.op \in Integrations \/ Compatible(s, RequestProtocol(r), Candidate(r))
     THEN Pass(b, [r EXCEPT !.settings = s]) ELSE Fail(b)
  /\ UNCHANGED <<tables, outside, pages>>

\* getSecretEnvelope and credentialForUpdate.
Credential(b) ==
  LET r == req[b]
      stored == IF Owned(owner[b], r.form.id) THEN rows[r.form.id].secret ELSE NoRow.secret IN
  CASE r.op \in Integrations /\ r.form.secret = "clear" -> NoRow.secret
    [] r.op \in Integrations /\ r.form.secret \notin {"keep", "clear"} -> Sealed(r.form.secret)
    [] OTHER -> stored

ReadSecret(b) ==
  /\ At(b, "secret")
  /\ IF Opens(Credential(b)) THEN Pass(b, [req[b] EXCEPT !.credential = Credential(b).value]) ELSE Fail(b)
  /\ UNCHANGED <<tables, outside, pages>>

\* verifyIntegrationCandidate: what the settings page may connect.
MayConnect(r) ==
  RequestProtocol(r) # "demo" /\ Compatible(r.settings, RequestProtocol(r), Candidate(r))

\* verifyProviderHealth answers with what it found and does not throw.
VerifyHealth(b) ==
  LET r == req[b]
      health == Verify(RequestProtocol(r), Candidate(r), r.credential) IN
  /\ At(b, "verify")
  /\ IF r.op \in Integrations /\ ~MayConnect(r) THEN Fail(b) /\ UNCHANGED verified
     ELSE /\ Pass(b, [r EXCEPT !.health = health])
          /\ verified' = [verified EXCEPT ![r.form.id] =
               IF health = "healthy" THEN @ \cup {<<Candidate(r), r.credential>>} ELSE @]
  /\ UNCHANGED <<rows, settings, doubt, outside, pages>>

MustPass(b) ==
  /\ At(b, "passed")
  /\ IF req[b].health = "healthy" THEN Pass(b, req[b]) ELSE Fail(b)
  /\ UNCHANGED <<tables, outside, pages>>

FindConflict(b) ==
  /\ At(b, "conflict")
  /\ IF rows[req[b].form.id] = NoRow THEN Pass(b, req[b]) ELSE Fail(b)
  /\ UNCHANGED <<tables, outside, pages>>

NewRow(b) ==
  LET r == req[b] IN
  [owner |-> owner[b], protocol |-> r.form.protocol, config |-> r.form.config,
   secret |-> Sealed(r.credential), status |-> "active",
   health |-> IF r.form.protocol = "demo" THEN "healthy" ELSE "unknown"]

\* Mutant of Taken: the id is checked by the statement before only.
TakenOnlyBefore(id) == FALSE
Taken(id) == rows[id] # NoRow

\* INSERT: the primary key of the table decides between two that found no conflict.
CreateProvider(b) ==
  LET id == req[b].form.id IN
  /\ At(b, "insert")
  /\ IF Taken(id) THEN Fail(b) /\ UNCHANGED rows
     ELSE rows' = [rows EXCEPT ![id] = NewRow(b)] /\ Pass(b, req[b])
  /\ UNCHANGED <<settings, verified, doubt, outside, pages>>

\* updateProvider reads the whole row, and writes the whole row.
ReadRow(b) ==
  LET id == req[b].form.id IN
  /\ At(b, "read")
  /\ IF Owned(owner[b], id) THEN Pass(b, [req[b] EXCEPT !.merge = rows[id]]) ELSE Fail(b)
  /\ UNCHANGED <<tables, outside, pages>>

NewSecret(r) ==
  CASE r.form.secret = "keep" -> r.merge.secret
    [] r.form.secret = "clear" -> NoRow.secret
    [] OTHER -> Sealed(r.form.secret)

\* Mutant of Written: an edit leaves the result of the last check.
WrittenKeepingHealth(row, r) == [row EXCEPT !.config = r.form.config, !.secret = NewSecret(r)]
Written(row, r) ==
  [row EXCEPT !.config = r.form.config, !.secret = NewSecret(r),
              !.health = IF row.protocol = "demo" THEN @ ELSE "unknown"]

\* Requests of others that have already read something of the provider.
Overlapping(b, id) ==
  {c \in Browser \ {b} : req[c] # Idle /\ req[c].form.id = id /\ req[c].at > 1}

UpdateProvider(b) ==
  LET r == req[b]
      id == r.form.id IN
  /\ At(b, "write")
  /\ rows' = [rows EXCEPT ![id] = Written(@, r)]
  /\ req' = [c \in Browser |->
       IF c = b THEN [r EXCEPT !.at = @ + 1]
       ELSE IF c \in Overlapping(b, id) THEN [req[c] EXCEPT !.stale = TRUE] ELSE req[c]]
  /\ UNCHANGED <<settings, verified, doubt, outside, pages>>

\* recordHealth writes the result to a row of the wallet or a built-in one.
RecordHealth(b) ==
  LET r == req[b]
      id == r.form.id IN
  /\ At(b, "record") /\ Visible(owner[b], id)
  /\ rows' = [rows EXCEPT ![id].health = r.health]
  /\ doubt' = IF r.stale THEN doubt \cup {id} ELSE doubt \ {id}
  /\ Pass(b, r)
  /\ UNCHANGED <<settings, verified, outside, pages>>

MayChange(u, id) == Owned(u, id)

SetStatus(b) ==
  LET id == req[b].form.id IN
  /\ At(b, "status")
  /\ IF MayChange(owner[b], id)
     THEN /\ rows' = [rows EXCEPT ![id].status = IF req[b].op = "enable" THEN "active" ELSE "disabled"]
          /\ Pass(b, req[b])
     ELSE Fail(b) /\ UNCHANGED rows
  /\ UNCHANGED <<settings, verified, doubt, outside, pages>>

CheckPolicy(b) ==
  /\ At(b, "policy")
  /\ IF ParsesSettings(req[b].settings) /\ (req[b].settings.policy => policy)
     THEN Pass(b, req[b]) ELSE Fail(b)
  /\ UNCHANGED <<tables, outside, pages>>

StoreSettings(b) ==
  /\ At(b, "save")
  /\ settings' = [settings EXCEPT ![owner[b]] = req[b].settings]
  /\ Pass(b, req[b])
  /\ UNCHANGED <<rows, verified, doubt, outside, pages>>

\* The page hears that its request succeeded, and loads the list again.
Answer(b) ==
  LET r == req[b]
      id == r.form.id IN
  /\ At(b, "answer") /\ Fail(b)
  /\ tested' = CASE r.op \in {"test", "testNew"} -> [tested EXCEPT ![b] = r.form]
                 [] r.op \in {"connect", "reconnect"} -> [tested EXCEPT ![b] = NoForm]
                 [] OTHER -> tested
  /\ form' = IF r.op \in {"connect", "reconnect", "add", "edit"} THEN [form EXCEPT ![b] = NoForm] ELSE form
  /\ draft' = IF r.op = "save" THEN [draft EXCEPT ![b] = settings[owner[b]]] ELSE draft
  /\ shown' = CASE r.op \in {"test", "testNew", "save"} -> shown
                [] r.op = "check" -> [shown EXCEPT ![b][id] = rows[id]]
                [] OTHER -> [shown EXCEPT ![b] = [p \in Provider |->
                               IF Visible(owner[b], p) THEN rows[p] ELSE NoRow]]
  /\ UNCHANGED <<tables, outside, todo>>

\* A statement fails, the server stops or the answer is lost; the page shows an error.
RequestFails(b) ==
  /\ Stage(b) # "idle" /\ Fail(b)
  /\ tested' = IF req[b].op \in {"test", "testNew"} THEN [tested EXCEPT ![b] = NoForm] ELSE tested
  /\ UNCHANGED <<tables, outside, shown, form, draft, todo>>

-----------------------------------------------------------------------------
(* Outside *)

EndpointChanges(e) ==
  /\ net[e] \in {"up", "down"}
  /\ net' = [net EXCEPT ![e] = IF @ = "up" THEN "down" ELSE "back"]
  /\ UNCHANGED <<tables, key, policy, owner, pages, req>>

ArchivePolicy ==
  /\ policy /\ policy' = FALSE
  /\ UNCHANGED <<tables, key, net, owner, pages, req>>

ChangeKey ==
  /\ key = 1 /\ key' = 2
  /\ UNCHANGED <<tables, net, policy, owner, pages, req>>

Page(b) == \/ NewProvider(b) \/ EditProvider(b) \/ Save(b) \/ Toggle(b) \/ CheckHealth(b)
           \/ TestIntegration(b) \/ SaveIntegration(b) \/ EditSettings(b) \/ SaveSettings(b) \/ Load(b) \/ Direct(b)
Registry(b) == \/ Parse(b) \/ Get(b) \/ ReadSettings(b) \/ ReadSecret(b) \/ VerifyHealth(b) \/ MustPass(b)
               \/ FindConflict(b) \/ CreateProvider(b) \/ ReadRow(b) \/ UpdateProvider(b)
               \/ RecordHealth(b) \/ SetStatus(b)
Settings(b) == CheckPolicy(b) \/ StoreSettings(b)

Next ==
  \/ \E b \in Browser : Page(b) \/ Registry(b) \/ Settings(b) \/ Answer(b) \/ RequestFails(b)
  \/ \E e \in Endpoint : EndpointChanges(e)
  \/ ArchivePolicy
  \/ ChangeKey

Spec == Init /\ [][Next]_vars

-----------------------------------------------------------------------------
(* Properties *)

\* Every variable keeps its type; a row without an owner is no row, and the stage of a request is
\* one of its route.
TypeOK ==
  /\ \A id \in Provider : rows[id] \in Row /\ (rows[id].owner = "none" => rows[id] = NoRow)
  /\ \A u \in Wallet : settings[u] \in AccountSettings /\ ParsesSettings(settings[u])
  /\ key \in 1..2 /\ policy \in BOOLEAN /\ owner \in [Browser -> Wallet]
  /\ net \in [Endpoint -> {"steady", "up", "down", "back"}] /\ doubt \subseteq Provider
  /\ \A b \in Browser : /\ req[b] = Idle \/ req[b].at \in 1..Len(Steps[req[b].op])
                        /\ \A id \in Provider : shown[b][id] \in Row
                        /\ {form[b].id, tested[b].id} \subseteq Provider \cup {"none"}

\* A task may use a live provider only if an endpoint check has passed for the very configuration and
\* credential the row has now, unless somebody edited the provider while the check that was recorded
\* last was under way (providers-workspace.tsx:442).
HealthyMeansVerified ==
  \A id \in Provider :
    (rows[id].protocol # "demo" /\ Selectable(rows[id]) /\ id \notin doubt) =>
      <<rows[id].config, rows[id].secret.value>> \in verified[id]

\* A provider id keeps its first owner and its protocol, whoever else adds the same id at the same
\* time, and no request of a wallet changes a built-in provider.
RowsKeepTheirOwner ==
  [][\A id \in Provider :
       /\ rows[id] # NoRow => rows'[id].owner = rows[id].owner /\ rows'[id].protocol = rows[id].protocol
       /\ System(id) => rows'[id] = rows[id]]_vars

\* A disabled provider becomes active only when its own wallet asks for that, after a check of that
\* request has passed: not by an edit, a check or the settings page.
OnlyEnablingEnables ==
  [][\A id \in Provider :
       (rows[id] # NoRow /\ rows[id].status = "disabled" /\ rows'[id].status = "active") =>
         \E b \in Browser : /\ req[b].op = "enable" /\ req[b].form.id = id
                            /\ Owned(owner[b], id) /\ req[b].health = "healthy"]_vars

\* A provider with a fixed price has one: "Fixed-price providers require a fixed price."
\* (providers/[providerId]/route.ts:120).  The settings page edits without that check.
FixedPricesAreSet == \A id \in Provider : rows[id] # NoRow => ParsesPrice(rows[id].config)

\* "Live providers must declare their protocol constraints and pass health verification before task
\* use" (providers-workspace.tsx:442), of the configuration they have.  An edit during a check breaks it.
VerifiedAsConfigured ==
  \A id \in Provider :
    (rows[id].protocol # "demo" /\ Selectable(rows[id])) =>
      <<rows[id].config, rows[id].secret.value>> \in verified[id]
=============================================================================
