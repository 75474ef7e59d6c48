----------------------- MODULE ProviderRegistryProofs -----------------------
(***************************************************************************)
(* Proofs about ProviderRegistry, for any wallets, browsers, providers,    *)
(* endpoints and scenes: its type invariant, and its three properties.     *)
(***************************************************************************)
EXTENDS ProviderRegistry, TLAPS

Request == [op : DOMAIN Steps \cup {"none"}, at : 0..10, form : Form, row : Row,
            settings : AccountSettings \cup {NoDraft}, credential : Value, health : Health,
            merge : Row, stale : BOOLEAN]

\* A request under way is at a statement of its route, about a provider or the settings.
Placed(r) ==
  /\ r.op \in DOMAIN Steps /\ r.at \in 1..Len(Steps[r.op])
  /\ IF r.op = "save" THEN r.settings \in AccountSettings ELSE r.form.id \in Provider

TablesTyped ==
  /\ rows \in [Provider -> Row] /\ settings \in [Wallet -> AccountSettings] /\ doubt \in SUBSET Provider
OutsideTyped ==
  /\ key \in 1..2 /\ policy \in BOOLEAN /\ owner \in [Browser -> Wallet]
  /\ net \in [Endpoint -> {"steady", "up", "down", "back"}]
\* A form is blank, or about a provider.
FormOK(f) == f \in Form /\ (f = NoForm \/ f.id \in Provider)
PagesTyped ==
  /\ shown \in [Browser -> [Provider -> Row]] /\ draft \in [Browser -> AccountSettings]
  /\ form \in [Browser -> Form] /\ tested \in [Browser -> Form]
  /\ \A b \in Browser : FormOK(form[b]) /\ FormOK(tested[b])
  /\ todo \in [Browser -> Seq(Clicks)]
RequestsTyped ==
  req \in [Browser -> Request] /\ \A b \in Browser : req[b] = Idle \/ Placed(req[b])
Typed == TablesTyped /\ OutsideTyped /\ PagesTyped /\ RequestsTyped

-----------------------------------------------------------------------------
(* The routes *)

\* What the position of a statement in its route says.
LEMMA Positions ==
  ASSUME NEW op \in DOMAIN Steps, NEW at \in 1..Len(Steps[op])
  PROVE  /\ at \in 1..10 /\ Steps[op][at] # "idle"
         /\ Steps[op][at] # "answer" => at + 1 \in 1..Len(Steps[op])
         /\ Steps[op][at] = "get" => \/ op \in {"edit", "enable", "check", "reconnect"} /\ at = 1
                                     \/ op = "test" /\ at = 2
         /\ Steps[op][at] = "parse" => \/ op \in {"add", "connect"} /\ at = 1
                                       \/ op \in {"edit", "reconnect", "testNew"} /\ at = 2
                                       \/ op = "test" /\ at = 3
         /\ Steps[op][at] = "settings" => \/ op \in {"test", "testNew"} /\ at = 1
                                          \/ op \in {"add", "enable", "connect"} /\ at = 2
                                          \/ op \in {"edit", "reconnect"} /\ at = 3
         /\ Steps[op][at] = "secret" => \/ op = "check" /\ at = 2
                                        \/ op = "enable" /\ at = 3
                                        \/ op \in {"reconnect", "test"} /\ at = 4
         /\ Steps[op][at] = "verify" => \/ op \in {"check", "connect", "testNew"} /\ at = 3
                                        \/ op = "enable" /\ at = 4
                                        \/ op \in {"reconnect", "test"} /\ at = 5
         /\ Steps[op][at] = "passed" => \/ op \in {"connect", "testNew"} /\ at = 4
                                        \/ op \in {"enable", "reconnect", "test"} /\ at = 6
         /\ Steps[op][at] = "conflict" => (op = "add" /\ at = 3) \/ (op = "connect" /\ at = 5)
         /\ Steps[op][at] = "insert" => (op = "add" /\ at = 4) \/ (op = "connect" /\ at = 6)
         /\ Steps[op][at] = "read" => (op = "edit" /\ at = 4) \/ (op = "reconnect" /\ at = 7)
         /\ Steps[op][at] = "write" => (op = "edit" /\ at = 5) \/ (op = "reconnect" /\ at = 8)
         /\ Steps[op][at] = "record" => \/ op = "check" /\ at = 4
                                        \/ op = "enable" /\ at = 5
                                        \/ op = "connect" /\ at = 7
                                        \/ op = "reconnect" /\ at = 9
         /\ Steps[op][at] = "status" => (op = "disable" /\ at = 1) \/ (op = "enable" /\ at = 7)
         /\ Steps[op][at] = "policy" => op = "save" /\ at = 1
         /\ Steps[op][at] = "save" => op = "save" /\ at = 2
  <1>1. op \in {"add", "edit", "enable", "disable", "check", "connect", "reconnect", "test", "testNew", "save"}
    BY DEF Steps
  <1>2. CASE op = "add"
    <2>1. Steps[op] = AddSteps
      BY <1>2 DEF Steps
    <2>2. Len(Steps[op]) = 5 /\ at \in 1..5
      BY <2>1 DEF AddSteps
    <2>3. /\ Steps[op][1] = "parse" /\ Steps[op][2] = "settings" /\ Steps[op][3] = "conflict"
         /\ Steps[op][4] = "insert" /\ Steps[op][5] = "answer"
      BY <2>1 DEF AddSteps
    <2>4. at = 1 \/ at = 2 \/ at = 3 \/ at = 4 \/ at = 5
      BY <2>2
    <2> QED
      BY <1>2, <2>2, <2>3, <2>4
  <1>3. CASE op = "edit"
    <2>1. Steps[op] = EditSteps
      BY <1>3 DEF Steps
    <2>2. Len(Steps[op]) = 6 /\ at \in 1..6
      BY <2>1 DEF EditSteps
    <2>3. /\ Steps[op][1] = "get" /\ Steps[op][2] = "parse" /\ Steps[op][3] = "settings"
         /\ Steps[op][4] = "read" /\ Steps[op][5] = "write" /\ Steps[op][6] = "answer"
      BY <2>1 DEF EditSteps
    <2>4. at = 1 \/ at = 2 \/ at = 3 \/ at = 4 \/ at = 5 \/ at = 6
      BY <2>2
    <2> QED
      BY <1>3, <2>2, <2>3, <2>4
  <1>4. CASE op = "enable"
    <2>1. Steps[op] = EnableSteps
      BY <1>4 DEF Steps
    <2>2. Len(Steps[op]) = 8 /\ at \in 1..8
      BY <2>1 DEF EnableSteps
    <2>3. /\ Steps[op][1] = "get" /\ Steps[op][2] = "settings" /\ Steps[op][3] = "secret"
         /\ Steps[op][4] = "verify" /\ Steps[op][5] = "record" /\ Steps[op][6] = "passed"
         /\ Steps[op][7] = "status" /\ Steps[op][8] = "answer"
      BY <2>1 DEF EnableSteps
    <2>4. at = 1 \/ at = 2 \/ at = 3 \/ at = 4 \/ at = 5 \/ at = 6 \/ at = 7 \/ at = 8
      BY <2>2
    <2> QED
      BY <1>4, <2>2, <2>3, <2>4
  <1>5. CASE op = "disable"
    <2>1. Steps[op] = DisableSteps
      BY <1>5 DEF Steps
    <2>2. Len(Steps[op]) = 2 /\ at \in 1..2
      BY <2>1 DEF DisableSteps
    <2>3. /\ Steps[op][1] = "status" /\ Steps[op][2] = "answer"
      BY <2>1 DEF DisableSteps
    <2>4. at = 1 \/ at = 2
      BY <2>2
    <2> QED
      BY <1>5, <2>2, <2>3, <2>4
  <1>6. CASE op = "check"
    <2>1. Steps[op] = CheckSteps
      BY <1>6 DEF Steps
    <2>2. Len(Steps[op]) = 5 /\ at \in 1..5
      BY <2>1 DEF CheckSteps
    <2>3. /\ Steps[op][1] = "get" /\ Steps[op][2] = "secret" /\ Steps[op][3] = "verify"
         /\ Steps[op][4] = "record" /\ Steps[op][5] = "answer"
      BY <2>1 DEF CheckSteps
    <2>4. at = 1 \/ at = 2 \/ at = 3 \/ at = 4 \/ at = 5
      BY <2>2
    <2> QED
      BY <1>6, <2>2, <2>3, <2>4
  <1>7. CASE op = "connect"
    <2>1. Steps[op] = ConnectSteps
      BY <1>7 DEF Steps
    <2>2. Len(Steps[op]) = 8 /\ at \in 1..8
      BY <2>1 DEF ConnectSteps
    <2>3. /\ Steps[op][1] = "parse" /\ Steps[op][2] = "settings" /\ Steps[op][3] = "verify"
         /\ Steps[op][4] = "passed" /\ Steps[op][5] = "conflict" /\ Steps[op][6] = "insert"
         /\ Steps[op][7] = "record" /\ Steps[op][8] = "answer"
      BY <2>1 DEF ConnectSteps
    <2>4. at = 1 \/ at = 2 \/ at = 3 \/ at = 4 \/ at = 5 \/ at = 6 \/ at = 7 \/ at = 8
      BY <2>2
    <2> QED
      BY <1>7, <2>2, <2>3, <2>4
  <1>8. CASE op = "reconnect"
    <2>1. Steps[op] = ReconnectSteps
      BY <1>8 DEF Steps
    <2>2. Len(Steps[op]) = 10 /\ at \in 1..10
      BY <2>1 DEF ReconnectSteps
    <2>3. /\ Steps[op][1] = "get" /\ Steps[op][2] = "parse" /\ Steps[op][3] = "settings"
         /\ Steps[op][4] = "secret" /\ Steps[op][5] = "verify" /\ Steps[op][6] = "passed"
         /\ Steps[op][7] = "read" /\ Steps[op][8] = "write" /\ Steps[op][9] = "record"
         /\ Steps[op][10] = "answer"
      BY <2>1 DEF ReconnectSteps
    <2>4. at = 1 \/ at = 2 \/ at = 3 \/ at = 4 \/ at = 5 \/ at = 6 \/ at = 7 \/ at = 8 \/ at = 9 \/ at = 10
      BY <2>2
    <2> QED
      BY <1>8, <2>2, <2>3, <2>4
  <1>9. CASE op = "test"
    <2>1. Steps[op] = TestSteps
      BY <1>9 DEF Steps
    <2>2. Len(Steps[op]) = 7 /\ at \in 1..7
      BY <2>1 DEF TestSteps
    <2>3. /\ Steps[op][1] = "settings" /\ Steps[op][2] = "get" /\ Steps[op][3] = "parse"
         /\ Steps[op][4] = "secret" /\ Steps[op][5] = "verify" /\ Steps[op][6] = "passed"
         /\ Steps[op][7] = "answer"
      BY <2>1 DEF TestSteps
    <2>4. at = 1 \/ at = 2 \/ at = 3 \/ at = 4 \/ at = 5 \/ at = 6 \/ at = 7
      BY <2>2
    <2> QED
      BY <1>9, <2>2, <2>3, <2>4
  <1>10. CASE op = "testNew"
    <2>1. Steps[op] = TestNewSteps
      BY <1>10 DEF Steps
    <2>2. Len(Steps[op]) = 5 /\ at \in 1..5
      BY <2>1 DEF TestNewSteps
    <2>3. /\ Steps[op][1] = "settings" /\ Steps[op][2] = "parse" /\ Steps[op][3] = "verify"
         /\ Steps[op][4] = "passed" /\ Steps[op][5] = "answer"
      BY <2>1 DEF TestNewSteps
    <2>4. at = 1 \/ at = 2 \/ at = 3 \/ at = 4 \/ at = 5
      BY <2>2
    <2> QED
      BY <1>10, <2>2, <2>3, <2>4
  <1>11. CASE op = "save"
    <2>1. Steps[op] = SaveSteps
      BY <1>11 DEF Steps
    <2>2. Len(Steps[op]) = 3 /\ at \in 1..3
      BY <2>1 DEF SaveSteps
    <2>3. /\ Steps[op][1] = "policy" /\ Steps[op][2] = "save" /\ Steps[op][3] = "answer"
      BY <2>1 DEF SaveSteps
    <2>4. at = 1 \/ at = 2 \/ at = 3
      BY <2>2
    <2> QED
      BY <1>11, <2>2, <2>3, <2>4
  <1> QED
    BY <1>1, <1>2, <1>3, <1>4, <1>5, <1>6, <1>7, <1>8, <1>9, <1>10, <1>11

\* A browser whose request is at a statement is waiting for that request.
LEMMA AtStatement ==
  ASSUME RequestsTyped, NEW b \in Browser, NEW stage, stage # "idle", At(b, stage)
  PROVE  /\ req[b] # Idle /\ req[b] \in Request /\ Placed(req[b])
         /\ Steps[req[b].op][req[b].at] = stage
  BY DEF RequestsTyped, At, Stage

\* The changes of a form leave a configuration.
LEMMA ChangedConfig ==
  ASSUME NEW c \in Config, NEW change,
         ChangeOK(change, "endpoint", Endpoint \cup {"none"}),
         ChangeOK(change, "networks", SUBSET STRING), ChangeOK(change, "assets", SUBSET STRING),
         ChangeOK(change, "pricing", Pricing), ChangeOK(change, "price", Price)
  PROVE  Changed(c, change) \in Config
  <1>1. DOMAIN c = {"endpoint", "networks", "assets", "pricing", "price"}
    BY DEF Config
  <1> QED
    BY <1>1 DEF Changed, ChangeOK, Config

\* And those of the settings leave settings.
LEMMA ChangedSettings ==
  ASSUME NEW s \in AccountSettings, NEW change,
         ChangeOK(change, "environment", ProductEnvironment), ChangeOK(change, "mint", STRING),
         ChangeOK(change, "mode", Mode), ChangeOK(change, "policy", BOOLEAN),
         ChangeOK(change, "acknowledged", BOOLEAN)
  PROVE  Changed(s, change) \in AccountSettings
  <1>1. DOMAIN s = {"environment", "mint", "mode", "policy", "acknowledged"}
    BY DEF AccountSettings
  <1> QED
    BY <1>1 DEF Changed, ChangeOK, AccountSettings

\* And so does another environment.
LEMMA EnvironmentTyped ==
  ASSUME NEW s \in AccountSettings, NEW environment \in ProductEnvironment
  PROVE  WithEnvironment(s, environment) \in AccountSettings
  BY DEF WithEnvironment, AccountSettings, Mode

\* What a scene says of a click, by what is clicked.
LEMMA ClickTyped ==
  ASSUME NEW click \in Clicks
  PROVE  /\ click.do \in {"new", "direct"} => click.form \in Form /\ click.form.id \in Provider
         /\ click.do = "direct" => click.op \in DOMAIN Steps \ {"save"}
         /\ click.do \in {"open", "toggle", "check"} => click.id \in Provider
         /\ click.do = "open" =>
              /\ click.secret \in {"keep", "clear", "old", "new"}
              /\ \A c \in Config : Changed(c, click.change) \in Config
         /\ click.do = "settings" =>
              /\ click.environment \in ProductEnvironment
              /\ \A s \in AccountSettings : Changed(s, click.change) \in AccountSettings
  <1>1. ClickOK(click)
    BY SceneAssumption
  <1> HIDE DEF Clicks
  <1>2. CASE click.do \in {"new", "direct"}
    BY <1>1, <1>2 DEF ClickOK
  <1>3. CASE click.do = "open"
    <2>1. /\ click.id \in Provider /\ click.secret \in {"keep", "clear", "old", "new"}
          /\ ChangeOK(click.change, "endpoint", Endpoint \cup {"none"})
          /\ ChangeOK(click.change, "networks", SUBSET STRING)
          /\ ChangeOK(click.change, "assets", SUBSET STRING)
          /\ ChangeOK(click.change, "pricing", Pricing) /\ ChangeOK(click.change, "price", Price)
      BY <1>1, <1>3 DEF ClickOK
    <2>2. \A c \in Config : Changed(c, click.change) \in Config
      BY <2>1, ChangedConfig
    <2> QED
      BY <1>3, <2>1, <2>2
  <1>4. CASE click.do \in {"toggle", "check"}
    BY <1>1, <1>4 DEF ClickOK
  <1>5. CASE click.do = "settings"
    <2>1. /\ click.environment \in ProductEnvironment
          /\ ChangeOK(click.change, "environment", ProductEnvironment)
          /\ ChangeOK(click.change, "mint", STRING) /\ ChangeOK(click.change, "mode", Mode)
          /\ ChangeOK(click.change, "policy", BOOLEAN) /\ ChangeOK(click.change, "acknowledged", BOOLEAN)
      BY <1>1, <1>5 DEF ClickOK
    <2>2. \A s \in AccountSettings : Changed(s, click.change) \in AccountSettings
      BY <2>1, ChangedSettings
    <2> QED
      BY <1>5, <2>1, <2>2
  <1> QED
    BY <1>2, <1>3, <1>4, <1>5

\* A page takes its clicks in their order.
LEMMA Clicking ==
  ASSUME PagesTyped, NEW b \in Browser, NEW do, Click(b, do), Clicked(b)
  PROVE  /\ Stage(b) = "idle" /\ Head(todo[b]) \in Clicks /\ Head(todo[b]).do = do
         /\ todo' \in [Browser -> Seq(Clicks)]
  <1>1. todo \in [Browser -> Seq(Clicks)] /\ todo[b] \in Seq(Clicks) /\ todo[b] # <<>>
    BY DEF PagesTyped, Click
  <1> HIDE DEF Clicks
  <1>2. Head(todo[b]) \in Clicks /\ Tail(todo[b]) \in Seq(Clicks)
    BY <1>1
  <1> QED
    BY <1>1, <1>2 DEF Click, Clicked

\* The blank form, no row and no request are what their types say.
LEMMA NoFormOK == FormOK(NoForm) /\ NoRow \in Row /\ NoForm.id = "none"
  <1>1. /\ "demo" \in Protocol /\ "challenge" \in Pricing /\ "none" \in Price /\ "none" \in Value
        /\ "disabled" \in Status /\ "unknown" \in Health
    BY DEF Protocol, Pricing, Price, Value, Status, Health
  <1>2. NoRow.config = [endpoint |-> "none", networks |-> {}, assets |-> {}, pricing |-> "challenge", price |-> "none"]
    BY DEF NoRow
  <1>3. NoRow.config \in Config
    BY <1>1, <1>2 DEF Config
  <1>4. NoRow \in Row
    BY <1>1, <1>2, <1>3 DEF NoRow, Row
  <1>5. NoForm \in Form /\ NoForm.id = "none"
    BY <1>1, <1>3 DEF NoForm, Form
  <1> QED
    BY <1>4, <1>5 DEF FormOK

\* The idle request is one, and holds nothing stale.
LEMMA IdleTyped == Idle \in Request /\ Idle.op = "none" /\ Idle.stale = FALSE
  <1>1. "none" \in Value /\ "unknown" \in Health
    BY DEF Value, Health
  <1>2. NoForm \in Form /\ NoRow \in Row
    BY NoFormOK DEF FormOK
  <1> HIDE DEF NoForm, NoRow
  <1> QED
    BY <1>1, <1>2 DEF Idle, Request

\* A page that sends a request waits for it at the first statement of its route.
LEMMA Sends ==
  ASSUME RequestsTyped, NEW b \in Browser, NEW op \in DOMAIN Steps \ {"save"},
         NEW f \in Form, f.id \in Provider, Send(b, op, f)
  PROVE  RequestsTyped'
  <1> DEFINE r == [Idle EXCEPT !.op = op, !.at = 1, !.form = f]
  <1>1. 1 \in 1..Len(Steps[op])
    <2>1. op \in {"add", "edit", "enable", "disable", "check", "connect", "reconnect", "test", "testNew"}
      BY DEF Steps
    <2>2. CASE op = "add"
      BY <2>2 DEF Steps, AddSteps
    <2>3. CASE op = "edit"
      BY <2>3 DEF Steps, EditSteps
    <2>4. CASE op = "enable"
      BY <2>4 DEF Steps, EnableSteps
    <2>5. CASE op = "disable"
      BY <2>5 DEF Steps, DisableSteps
    <2>6. CASE op = "check"
      BY <2>6 DEF Steps, CheckSteps
    <2>7. CASE op = "connect"
      BY <2>7 DEF Steps, ConnectSteps
    <2>8. CASE op = "reconnect"
      BY <2>8 DEF Steps, ReconnectSteps
    <2>9. CASE op = "test"
      BY <2>9 DEF Steps, TestSteps
    <2>10. CASE op = "testNew"
      BY <2>10 DEF Steps, TestNewSteps
    <2> QED
      BY <2>1, <2>2, <2>3, <2>4, <2>5, <2>6, <2>7, <2>8, <2>9, <2>10
  <1>2. r \in Request /\ r.op = op /\ r.at = 1 /\ r.form = f
    <2>1. PICK i : i = Idle
      OBVIOUS
    <2>2. i \in Request /\ 1 \in 0..10 /\ op \in DOMAIN Steps \cup {"none"}
      BY <2>1, IdleTyped
    <2>3. r = [i EXCEPT !.op = op, !.at = 1, !.form = f]
      BY <2>1
    <2> HIDE DEF r
    <2> QED
      BY <2>2, <2>3 DEF Request
  <1>3. Placed(r)
    BY <1>1, <1>2 DEF Placed
  <1>4. req' = [req EXCEPT ![b] = r]
    BY DEF Send
  <1> HIDE DEF r
  <1> QED
    BY <1>2, <1>3, <1>4 DEF RequestsTyped

\* A statement that succeeds takes the request to the next one.
LEMMA Passes ==
  ASSUME RequestsTyped, NEW b \in Browser, NEW r \in Request, Placed(r),
         Steps[r.op][r.at] # "answer", Pass(b, r)
  PROVE  RequestsTyped'
  <1> DEFINE q == [r EXCEPT !.at = @ + 1]
  <1>1. r.op \in DOMAIN Steps /\ r.at \in 1..Len(Steps[r.op]) /\ r.at + 1 \in 1..Len(Steps[r.op])
    BY Positions DEF Placed
  <1>2. r.at + 1 \in 1..10
    BY <1>1, Positions
  <1>3. q \in Request /\ q.op = r.op /\ q.at = r.at + 1 /\ q.form = r.form /\ q.settings = r.settings
    BY <1>2 DEF Request
  <1>4. Placed(q)
    BY <1>1, <1>3 DEF Placed
  <1>5. req' = [req EXCEPT ![b] = q]
    BY DEF Pass
  <1> HIDE DEF q
  <1> QED
    BY <1>3, <1>4, <1>5 DEF RequestsTyped

\* A request that fails leaves the browser without one.
LEMMA Fails ==
  ASSUME RequestsTyped, NEW b \in Browser, Fail(b)
  PROVE  RequestsTyped'
  BY IdleTyped DEF RequestsTyped, Fail

\* What a step does not touch keeps its type.
LEMMA NothingSent == ASSUME RequestsTyped, UNCHANGED req PROVE RequestsTyped'
  BY DEF RequestsTyped
\* And so do the tables.
LEMMA TablesStay == ASSUME TablesTyped, UNCHANGED <<rows, settings, doubt>> PROVE TablesTyped'
  BY DEF TablesTyped
\* And what is outside.
LEMMA OutsideStays == ASSUME OutsideTyped, UNCHANGED outside PROVE OutsideTyped'
  BY DEF OutsideTyped, outside
\* And the pages.
LEMMA PagesStay == ASSUME PagesTyped, UNCHANGED pages PROVE PagesTyped'
  BY DEF PagesTyped, pages

-----------------------------------------------------------------------------
(* Types *)

\* A statement of a route about a provider goes on with what it found, or fails the request.
LEMMA GoesOn ==
  ASSUME RequestsTyped, NEW b \in Browser, NEW stage, stage \notin {"idle", "answer"}, At(b, stage),
         NEW r \in Request, r.op = req[b].op, r.at = req[b].at, r.form = req[b].form,
         r.op = "save" => r.settings = req[b].settings,
         Pass(b, r) \/ Fail(b)
  PROVE  RequestsTyped'
  <1>1. Placed(req[b]) /\ Steps[req[b].op][req[b].at] = stage
    BY AtStatement
  <1>2. Placed(r) /\ Steps[r.op][r.at] # "answer"
    BY <1>1 DEF Placed
  <1> QED
    BY <1>2, Passes, Fails

\* The requests the pages send.
LEMMA PageTyped ==
  ASSUME Typed, NEW b \in Browser, Page(b)
  PROVE  Typed'
  <1>1. TablesTyped /\ OutsideTyped /\ PagesTyped /\ RequestsTyped
    BY DEF Typed
  <1>2. UNCHANGED tables /\ UNCHANGED outside
    BY DEF Page, NewProvider, EditProvider, Save, Toggle, CheckHealth, TestIntegration, SaveIntegration,
           EditSettings, SaveSettings, Load, Direct
  <1>3. TablesTyped' /\ OutsideTyped'
    BY <1>1, <1>2, TablesStay, OutsideStays DEF tables
  <1>4. /\ form[b] \in Form /\ FormOK(form[b]) /\ draft[b] \in AccountSettings
        /\ \A id \in Provider : shown[b][id] \in Row
    BY <1>1 DEF PagesTyped
  <1>5. SUFFICES PagesTyped' /\ RequestsTyped'
    BY <1>3 DEF Typed
  <1> HIDE DEF Clicks
  <1>6. CASE NewProvider(b)
    <2>1. Head(todo[b]) \in Clicks /\ Head(todo[b]).do = "new" /\ todo' \in [Browser -> Seq(Clicks)]
      BY <1>1, <1>6, Clicking DEF NewProvider
    <2>2. Head(todo[b]).form \in Form /\ Head(todo[b]).form.id \in Provider
      BY <2>1, ClickTyped
    <2>3. PagesTyped'
      BY <1>1, <1>6, <2>1, <2>2 DEF NewProvider, PagesTyped, FormOK
    <2> QED
      BY <1>1, <1>6, <2>3, NothingSent DEF NewProvider
  <1>7. CASE EditProvider(b)
    <2> DEFINE click == Head(todo[b])
               row == shown[b][click.id]
               f == [id |-> click.id, editing |-> TRUE, protocol |-> row.protocol,
                     config |-> Changed(row.config, click.change), secret |-> click.secret]
    <2>1. click \in Clicks /\ click.do = "open" /\ todo' \in [Browser -> Seq(Clicks)]
      BY <1>1, <1>7, Clicking DEF EditProvider
    <2>2. /\ click.id \in Provider /\ click.secret \in {"keep", "clear", "old", "new"}
          /\ \A c \in Config : Changed(c, click.change) \in Config
      BY <2>1, ClickTyped
    <2>3. row \in Row
      BY <1>4, <2>2
    <2>4. row.protocol \in Protocol /\ row.config \in Config
      BY <2>3 DEF Row
    <2>5. f \in Form /\ f.id \in Provider
      BY <2>2, <2>4 DEF Form
    <2>6. form' = [form EXCEPT ![b] = f] /\ UNCHANGED <<shown, tested, draft, req>>
      BY <1>7 DEF EditProvider
    <2> HIDE DEF click, row, f
    <2>7. PagesTyped'
      BY <1>1, <2>1, <2>5, <2>6 DEF PagesTyped, FormOK
    <2> QED
      BY <1>1, <2>6, <2>7, NothingSent
  <1>8. ASSUME UNCHANGED <<shown, form, tested, draft>>, todo' \in [Browser -> Seq(Clicks)]
        PROVE  PagesTyped'
    BY <1>1, <1>8 DEF PagesTyped
  <1>9. ASSUME NEW do, Click(b, do), Clicked(b)
        PROVE  Head(todo[b]) \in Clicks /\ Head(todo[b]).do = do /\ todo' \in [Browser -> Seq(Clicks)]
    BY <1>1, <1>9, Clicking
  <1>10. CASE Save(b)
    <2>1. PagesTyped'
      BY <1>8, <1>9, <1>10 DEF Save
    <2>2. form[b].id \in Provider
      BY <1>4, <1>10, NoFormOK DEF Save, Valid, FormOK
    <2>3. Send(b, "edit", form[b]) \/ Send(b, "add", form[b])
      BY <1>10 DEF Save
    <2>4. "edit" \in DOMAIN Steps \ {"save"} /\ "add" \in DOMAIN Steps \ {"save"}
      BY DEF Steps
    <2>5. RequestsTyped'
      BY <1>1, <1>4, <2>2, <2>3, <2>4, Sends
    <2> QED
      BY <2>1, <2>5
  <1>11. CASE Toggle(b) \/ CheckHealth(b)
    <2> DEFINE id == Head(todo[b]).id
    <2>1. PagesTyped' /\ Head(todo[b]) \in Clicks /\ Head(todo[b]).do \in {"toggle", "check"}
      BY <1>8, <1>9, <1>11 DEF Toggle, CheckHealth
    <2>2. id \in Provider
      BY <2>1, ClickTyped
    <2>3. \E op \in {"disable", "enable", "check"} : Send(b, op, Named(id))
      BY <1>11 DEF Toggle, CheckHealth
    <2>4. {"disable", "enable", "check"} \subseteq DOMAIN Steps \ {"save"}
      BY DEF Steps
    <2>5. Named(id) \in Form /\ Named(id).id \in Provider
      <3>1. NoForm \in Form
        BY NoFormOK DEF FormOK
      <3> HIDE DEF NoForm, id
      <3> QED
        BY <2>2, <3>1 DEF Named, Form
    <2> HIDE DEF id
    <2>6. RequestsTyped'
      BY <1>1, <2>3, <2>4, <2>5, Sends
    <2> QED
      BY <2>1, <2>6
  <1>12. CASE TestIntegration(b) \/ SaveIntegration(b)
    <2>1. PagesTyped'
      BY <1>8, <1>9, <1>12 DEF TestIntegration, SaveIntegration
    <2>2. form[b].id \in Provider
      BY <1>4, <1>12 DEF TestIntegration, SaveIntegration, FormOK
    <2>3. \E op \in {"test", "testNew", "reconnect", "connect"} : Send(b, op, form[b])
      BY <1>12 DEF TestIntegration, SaveIntegration
    <2>4. {"test", "testNew", "reconnect", "connect"} \subseteq DOMAIN Steps \ {"save"}
      BY DEF Steps
    <2>5. RequestsTyped'
      BY <1>1, <1>4, <2>2, <2>3, <2>4, Sends
    <2> QED
      BY <2>1, <2>5
  <1>13. CASE EditSettings(b)
    <2> DEFINE click == Head(todo[b])
               s == Changed(WithEnvironment(draft[b], click.environment), click.change)
    <2>1. click \in Clicks /\ click.do = "settings" /\ todo' \in [Browser -> Seq(Clicks)]
      BY <1>9, <1>13 DEF EditSettings
    <2>2. s \in AccountSettings
      <3>1. WithEnvironment(draft[b], click.environment) \in AccountSettings
        BY <1>4, <2>1, ClickTyped, EnvironmentTyped
      <3> QED
        BY <2>1, <3>1, ClickTyped
    <2>3. draft' = [draft EXCEPT ![b] = s] /\ UNCHANGED <<shown, form, tested, req>>
      BY <1>13 DEF EditSettings
    <2> HIDE DEF click, s
    <2>4. PagesTyped'
      BY <1>1, <2>1, <2>2, <2>3 DEF PagesTyped
    <2> QED
      BY <1>1, <2>3, <2>4, NothingSent
  <1>14. CASE SaveSettings(b)
    <2>1. PagesTyped'
      BY <1>8, <1>9, <1>14 DEF SaveSettings
    <2> DEFINE r == [Idle EXCEPT !.op = "save", !.at = 1, !.settings = draft[b]]
    <2>2. r \in Request /\ r.op = "save" /\ r.at = 1 /\ r.settings = draft[b]
      <3>1. PICK i : i = Idle
        OBVIOUS
      <3>2. i \in Request /\ 1 \in 0..10 /\ "save" \in DOMAIN Steps \cup {"none"}
        BY <3>1, IdleTyped DEF Steps
      <3>3. r = [i EXCEPT !.op = "save", !.at = 1, !.settings = draft[b]]
        BY <3>1
      <3> HIDE DEF r
      <3> QED
        BY <1>4, <3>2, <3>3 DEF Request
    <2>3. "save" \in DOMAIN Steps /\ 1 \in 1..Len(Steps["save"])
      BY DEF Steps, SaveSteps
    <2>4. Placed(r)
      BY <1>4, <2>2, <2>3 DEF Placed
    <2>5. req' = [req EXCEPT ![b] = r]
      BY <1>14 DEF SaveSettings
    <2> HIDE DEF r
    <2>6. RequestsTyped'
      BY <1>1, <2>2, <2>4, <2>5 DEF RequestsTyped
    <2> QED
      BY <2>1, <2>6
  <1>15. CASE Load(b)
    <2> DEFINE seen == [id \in Provider |-> IF Visible(owner[b], id) THEN rows[id] ELSE NoRow]
    <2>1. todo' \in [Browser -> Seq(Clicks)]
      BY <1>9, <1>15 DEF Load
    <2>2. seen \in [Provider -> Row]
      BY <1>1, NoFormOK DEF TablesTyped
    <2>3. settings[owner[b]] \in AccountSettings
      BY <1>1 DEF TablesTyped, OutsideTyped
    <2>4. shown' = [shown EXCEPT ![b] = seen] /\ draft' = [draft EXCEPT ![b] = settings[owner[b]]]
          /\ UNCHANGED <<form, tested, req>>
      BY <1>15 DEF Load
    <2> HIDE DEF seen
    <2>5. PagesTyped'
      BY <1>1, <2>1, <2>2, <2>3, <2>4 DEF PagesTyped
    <2> QED
      BY <1>1, <2>4, <2>5, NothingSent
  <1>16. CASE Direct(b)
    <2>1. PagesTyped' /\ Head(todo[b]) \in Clicks /\ Head(todo[b]).do = "direct"
      BY <1>8, <1>9, <1>16 DEF Direct
    <2>2. /\ Head(todo[b]).op \in DOMAIN Steps \ {"save"} /\ Head(todo[b]).form \in Form
          /\ Head(todo[b]).form.id \in Provider
      BY <2>1, ClickTyped
    <2>3. Send(b, Head(todo[b]).op, Head(todo[b]).form)
      BY <1>16 DEF Direct
    <2>4. RequestsTyped'
      BY <1>1, <2>2, <2>3, Sends
    <2> QED
      BY <2>1, <2>4
  <1> QED
    BY <1>6, <1>7, <1>10, <1>11, <1>12, <1>13, <1>14, <1>15, <1>16 DEF Page

\* What a stored or a new credential is.
LEMMA SecretTyped ==
  ASSUME Typed, NEW b \in Browser, NEW value \in Value
  PROVE  /\ Sealed(value) \in [value : Value, key : 0..2] /\ Sealed(value).value = value
         /\ NoRow.secret \in [value : Value, key : 0..2] /\ NoRow.secret.value = "none"
         /\ req[b].form.id \in Provider =>
              Credential(b) \in [value : Value, key : 0..2] /\ NewSecret(req[b]) \in [value : Value, key : 0..2]
  <1>1. \A v \in Value : Sealed(v) \in [value : Value, key : 0..2] /\ Sealed(v).value = v
    BY DEF Sealed, Typed, OutsideTyped
  <1>2. NoRow.secret \in [value : Value, key : 0..2] /\ NoRow.secret.value = "none"
    BY DEF NoRow, Value
  <1>3. ASSUME req[b].form.id \in Provider
        PROVE  Credential(b) \in [value : Value, key : 0..2] /\ NewSecret(req[b]) \in [value : Value, key : 0..2]
    <2>1. req[b].form \in Form /\ req[b].merge \in Row /\ rows[req[b].form.id] \in Row
      BY <1>3 DEF Typed, RequestsTyped, TablesTyped, Request
    <2>2. req[b].form.secret \in {"keep", "clear"} \/ req[b].form.secret \in Value
      BY <2>1 DEF Form, Value
    <2>3. /\ req[b].merge.secret \in [value : Value, key : 0..2]
          /\ rows[req[b].form.id].secret \in [value : Value, key : 0..2]
      BY <2>1 DEF Row
    <2> DEFINE S == [value : Value, key : 0..2]
    <2>4. /\ req[b].merge.secret \in S /\ rows[req[b].form.id].secret \in S /\ NoRow.secret \in S
          /\ req[b].form.secret \notin {"keep", "clear"} => Sealed(req[b].form.secret) \in S
      BY <1>1, <1>2, <2>2, <2>3
    <2> HIDE DEF NoRow, S
    <2>5. NewSecret(req[b]) \in S
      BY <2>4 DEF NewSecret
    <2>6. Credential(b) \in S
      <3> DEFINE live == req[b].op \in Integrations
                 secret == req[b].form.secret
                 stored == IF Owned(owner[b], req[b].form.id) THEN rows[req[b].form.id].secret ELSE NoRow.secret
      <3>1. Credential(b) = CASE live /\ secret = "clear" -> NoRow.secret
                              [] live /\ secret \notin {"keep", "clear"} -> Sealed(secret)
                              [] OTHER -> stored
        BY DEF Credential
      <3>2. stored \in S /\ NoRow.secret \in S /\ (secret \notin {"keep", "clear"} => Sealed(secret) \in S)
        BY <2>4
      <3> HIDE DEF live, secret, stored
      <3>3. live \in BOOLEAN
        BY DEF live
      <3>4. CASE live /\ secret = "clear"
        BY <3>1, <3>2, <3>4
      <3>5. CASE live /\ secret \notin {"keep", "clear"}
        BY <3>1, <3>2, <3>5
      <3>6. CASE ~live \/ secret = "keep"
        BY <3>1, <3>2, <3>6
      <3> QED
        BY <3>4, <3>5, <3>6
    <2> QED
      BY <2>5, <2>6 DEF S
  <1> QED
    BY <1>1, <1>2, <1>3

\* The statements that only read, and the check of the endpoint.
LEMMA ReadTyped ==
  ASSUME Typed, NEW b \in Browser,
         \/ Parse(b) \/ Get(b) \/ ReadSettings(b) \/ ReadSecret(b) \/ VerifyHealth(b) \/ MustPass(b)
         \/ FindConflict(b) \/ ReadRow(b) \/ CheckPolicy(b)
  PROVE  Typed'
  <1>1. TablesTyped /\ OutsideTyped /\ PagesTyped /\ RequestsTyped
    BY DEF Typed
  <1>2. UNCHANGED <<rows, settings, doubt>> /\ UNCHANGED outside /\ UNCHANGED pages
    BY DEF Parse, Get, ReadSettings, ReadSecret, VerifyHealth, MustPass, FindConflict, ReadRow, CheckPolicy, tables
  <1>3. SUFFICES RequestsTyped'
    BY <1>1, <1>2, TablesStay, OutsideStays, PagesStay DEF Typed
  <1>4. PICK q : q = req[b]
    OBVIOUS
  <1>5. q \in Request
    BY <1>1, <1>4 DEF RequestsTyped
  <1>6. ASSUME NEW stage \in {"get", "parse", "settings", "secret", "verify", "read"}, At(b, stage)
        PROVE  q.op # "save" /\ q.form.id \in Provider /\ rows[q.form.id] \in Row
    <2>1. Placed(q) /\ Steps[q.op][q.at] = stage
      BY <1>1, <1>4, <1>6, AtStatement
    <2>2. q.op # "save"
      BY <2>1, Positions DEF Placed
    <2> QED
      BY <1>1, <2>1, <2>2 DEF Placed, TablesTyped
  <1>7. ASSUME NEW stage \in {"passed", "conflict", "policy"}, At(b, stage), Pass(b, q) \/ Fail(b)
        PROVE  RequestsTyped'
    BY <1>1, <1>4, <1>5, <1>7, GoesOn
  <1>8. CASE Parse(b)
    <2> DEFINE r == [q EXCEPT !.credential = IF q.form.secret \in {"keep", "clear"} THEN "none" ELSE q.form.secret]
    <2>1. (IF q.form.secret \in {"keep", "clear"} THEN "none" ELSE q.form.secret) \in Value
      BY <1>5 DEF Request, Form, Value
    <2>2. r \in Request /\ r.op = q.op /\ r.at = q.at /\ r.form = q.form /\ r.settings = q.settings
      BY <1>5, <2>1 DEF Request
    <2>3. At(b, "parse") /\ (Pass(b, r) \/ Fail(b))
      BY <1>4, <1>8 DEF Parse
    <2> HIDE DEF r
    <2> QED
      BY <1>1, <1>4, <2>2, <2>3, GoesOn
  <1>9. CASE Get(b)
    <2> DEFINE r == [q EXCEPT !.row = rows[q.form.id]]
    <2>1. At(b, "get") /\ (Pass(b, r) \/ Fail(b))
      BY <1>4, <1>9 DEF Get
    <2>2. r \in Request /\ r.op = q.op /\ r.at = q.at /\ r.form = q.form /\ r.settings = q.settings
      BY <1>5, <1>6, <2>1 DEF Request
    <2> HIDE DEF r
    <2> QED
      BY <1>1, <1>4, <2>1, <2>2, GoesOn
  <1>10. CASE ReadSettings(b)
    <2> DEFINE r == [q EXCEPT !.settings = settings[owner[b]]]
    <2>1. At(b, "settings") /\ (Pass(b, r) \/ Fail(b))
      BY <1>4, <1>10 DEF ReadSettings
    <2>2. settings[owner[b]] \in AccountSettings
      BY <1>1 DEF TablesTyped, OutsideTyped
    <2>3. r \in Request /\ r.op = q.op /\ r.at = q.at /\ r.form = q.form /\ q.op # "save"
      BY <1>5, <1>6, <2>1, <2>2 DEF Request
    <2> HIDE DEF r
    <2> QED
      BY <1>1, <1>4, <2>1, <2>3, GoesOn
  <1>11. CASE ReadSecret(b)
    <2> DEFINE r == [q EXCEPT !.credential = Credential(b).value]
    <2>1. At(b, "secret") /\ (Pass(b, r) \/ Fail(b))
      BY <1>4, <1>11 DEF ReadSecret
    <2>2. Credential(b) \in [value : Value, key : 0..2]
      <3>1. "none" \in Value /\ req[b].form.id \in Provider
        BY <1>4, <1>6, <2>1 DEF Value
      <3> QED
        BY <3>1, SecretTyped
    <2>3. r \in Request /\ r.op = q.op /\ r.at = q.at /\ r.form = q.form /\ r.settings = q.settings
      BY <1>5, <2>2 DEF Request
    <2> HIDE DEF r
    <2> QED
      BY <1>1, <1>4, <2>1, <2>3, GoesOn
  <1>12. CASE VerifyHealth(b)
    <2> DEFINE health == Verify(RequestProtocol(q), Candidate(q), q.credential)
               r == [q EXCEPT !.health = health]
    <2>1. At(b, "verify") /\ (Pass(b, r) \/ Fail(b))
      BY <1>4, <1>12 DEF VerifyHealth
    <2>2. health \in Health
      BY DEF Verify, Health
    <2> HIDE DEF health
    <2>3. r \in Request /\ r.op = q.op /\ r.at = q.at /\ r.form = q.form /\ r.settings = q.settings
      BY <1>5, <2>2 DEF Request
    <2> HIDE DEF r
    <2> QED
      BY <1>1, <1>4, <2>1, <2>3, GoesOn
  <1>13. CASE MustPass(b) \/ FindConflict(b) \/ CheckPolicy(b)
    BY <1>4, <1>7, <1>13 DEF MustPass, FindConflict, CheckPolicy
  <1>14. CASE ReadRow(b)
    <2> DEFINE r == [q EXCEPT !.merge = rows[q.form.id]]
    <2>1. At(b, "read") /\ (Pass(b, r) \/ Fail(b))
      BY <1>4, <1>14 DEF ReadRow
    <2>2. r \in Request /\ r.op = q.op /\ r.at = q.at /\ r.form = q.form /\ r.settings = q.settings
      BY <1>5, <1>6, <2>1 DEF Request
    <2> HIDE DEF r
    <2> QED
      BY <1>1, <1>4, <2>1, <2>2, GoesOn
  <1> QED
    BY <1>8, <1>9, <1>10, <1>11, <1>12, <1>13, <1>14

\* A request at a statement about a provider names one, and its row is a row.
LEMMA AtProvider ==
  ASSUME Typed, NEW b \in Browser,
         NEW stage \in {"get", "parse", "settings", "secret", "verify", "passed", "conflict", "insert", "read",
                        "write", "record", "status"},
         At(b, stage)
  PROVE  /\ req[b] # Idle /\ req[b] \in Request /\ Placed(req[b]) /\ req[b].op # "save"
         /\ Steps[req[b].op][req[b].at] = stage /\ req[b].form \in Form /\ req[b].form.id \in Provider
         /\ rows[req[b].form.id] \in Row
  <1>1. req[b] # Idle /\ req[b] \in Request /\ Placed(req[b]) /\ Steps[req[b].op][req[b].at] = stage
    BY AtStatement DEF Typed
  <1>2. req[b].op # "save"
    BY <1>1, Positions DEF Placed
  <1>3. req[b].form.id \in Provider /\ req[b].form \in Form
    BY <1>1, <1>2 DEF Placed, Request
  <1> QED
    BY <1>1, <1>2, <1>3 DEF Typed, TablesTyped

\* The row a request adds, and the row an edit leaves.
LEMMA NewRowTyped ==
  ASSUME Typed, NEW b \in Browser, req[b] \in Request, req[b].form \in Form
  PROVE  NewRow(b) \in Row
  <1>1. PICK q : q = req[b]
    OBVIOUS
  <1>2. q.form.protocol \in Protocol /\ q.form.config \in Config /\ q.credential \in Value
    BY <1>1 DEF Form, Request
  <1>3. Sealed(q.credential) \in [value : Value, key : 0..2] /\ owner[b] \in Wallet
    BY <1>2, SecretTyped DEF Typed, OutsideTyped
  <1>4. "active" \in Status /\ "healthy" \in Health /\ "unknown" \in Health
    BY DEF Status, Health
  <1> QED
    BY <1>1, <1>2, <1>3, <1>4 DEF NewRow, Row

\* And the row an edit leaves.
LEMMA WrittenTyped ==
  ASSUME Typed, NEW b \in Browser, req[b] \in Request, req[b].form \in Form, req[b].form.id \in Provider,
         NEW row \in Row
  PROVE  Written(row, req[b]) \in Row
  <1>1. NewSecret(req[b]) \in [value : Value, key : 0..2]
    <2>1. "none" \in Value
      BY DEF Value
    <2> QED
      BY <2>1, SecretTyped
  <1>2. req[b].form.config \in Config /\ "unknown" \in Health
    BY DEF Form, Health
  <1>3. PICK config, secret : config = req[b].form.config /\ secret = NewSecret(req[b])
    OBVIOUS
  <1>4. Written(row, req[b]) = [row EXCEPT !.config = config, !.secret = secret,
                                          !.health = IF row.protocol = "demo" THEN @ ELSE "unknown"]
    BY <1>3 DEF Written
  <1> QED
    BY <1>1, <1>2, <1>3, <1>4 DEF Row

\* The statements that write.
LEMMA WriteTyped ==
  ASSUME Typed, NEW b \in Browser,
         \/ CreateProvider(b) \/ UpdateProvider(b) \/ RecordHealth(b) \/ SetStatus(b) \/ StoreSettings(b)
  PROVE  Typed'
  <1>1. TablesTyped /\ OutsideTyped /\ PagesTyped /\ RequestsTyped
    BY DEF Typed
  <1>2. UNCHANGED outside /\ UNCHANGED pages
    BY DEF CreateProvider, UpdateProvider, RecordHealth, SetStatus, StoreSettings
  <1>3. SUFFICES TablesTyped' /\ RequestsTyped'
    BY <1>1, <1>2, OutsideStays, PagesStay DEF Typed
  <1>4. PICK q, id : q = req[b] /\ id = req[b].form.id
    OBVIOUS
  <1>5. q \in Request
    BY <1>1, <1>4 DEF RequestsTyped
  <1>6. ASSUME NEW stage \in {"insert", "record", "status"}, At(b, stage), Pass(b, q) \/ Fail(b)
        PROVE  RequestsTyped'
    BY <1>1, <1>4, <1>5, <1>6, GoesOn
  <1>7. CASE CreateProvider(b)
    <2>1. At(b, "insert") /\ (Pass(b, q) \/ Fail(b)) /\ UNCHANGED <<settings, doubt>>
          /\ (rows' = rows \/ rows' = [rows EXCEPT ![id] = NewRow(b)])
      BY <1>4, <1>7 DEF CreateProvider
    <2>2. NewRow(b) \in Row
      BY <2>1, AtProvider, NewRowTyped
    <2> QED
      BY <1>1, <1>6, <2>1, <2>2 DEF TablesTyped
  <1>8. CASE UpdateProvider(b)
    <2>1. At(b, "write") /\ rows' = [rows EXCEPT ![id] = Written(@, q)] /\ UNCHANGED <<settings, doubt>>
      BY <1>4, <1>8 DEF UpdateProvider
    <2>2. req' = [c \in Browser |->
                    IF c = b THEN [q EXCEPT !.at = @ + 1]
                    ELSE IF c \in Overlapping(b, id) THEN [req[c] EXCEPT !.stale = TRUE] ELSE req[c]]
      BY <1>4, <1>8 DEF UpdateProvider
    <2>3. q \in Request /\ Placed(q) /\ Steps[q.op][q.at] = "write" /\ q.form \in Form /\ id \in Provider
          /\ rows[id] \in Row
      BY <1>4, <2>1, AtProvider
    <2>4. Written(rows[id], q) \in Row
      BY <1>4, <2>3, WrittenTyped
    <2>5. TablesTyped'
      BY <1>1, <2>1, <2>3, <2>4 DEF TablesTyped
    <2>6. \A c \in Browser : req'[c] \in Request /\ (req'[c] = Idle \/ Placed(req'[c]))
      <3> SUFFICES ASSUME NEW c \in Browser
                   PROVE  req'[c] \in Request /\ (req'[c] = Idle \/ Placed(req'[c]))
        OBVIOUS
      <3>1. PICK r : r = req[c]
        OBVIOUS
      <3>2. r \in Request /\ (r = Idle \/ Placed(r))
        BY <1>1, <3>1 DEF RequestsTyped
      <3>3. CASE c = b
        <4> DEFINE n == [q EXCEPT !.at = @ + 1]
        <4>1. q.op \in DOMAIN Steps /\ q.at \in 1..Len(Steps[q.op]) /\ q.at + 1 \in 1..Len(Steps[q.op])
          BY <2>3, Positions DEF Placed
        <4>2. q.at + 1 \in 0..10
          <5>1. q.at + 1 \in 1..10
            BY <4>1, Positions
          <5> QED
            BY <5>1
        <4>3. n \in Request /\ n.op = q.op /\ n.at = q.at + 1 /\ n.form = q.form /\ n.settings = q.settings
          BY <2>3, <4>2 DEF Request
        <4>4. req'[c] = n
          BY <2>2, <3>3
        <4> HIDE DEF n
        <4> QED
          BY <2>3, <4>1, <4>3, <4>4 DEF Placed
      <3>4. CASE c # b /\ c \in Overlapping(b, id)
        <4> DEFINE n == [r EXCEPT !.stale = TRUE]
        <4>1. n \in Request /\ n.op = r.op /\ n.at = r.at /\ n.form = r.form /\ n.settings = r.settings
          BY <3>2 DEF Request
        <4>2. req'[c] = n /\ r # Idle
          BY <2>2, <3>1, <3>4 DEF Overlapping
        <4> HIDE DEF n
        <4> QED
          BY <3>2, <4>1, <4>2 DEF Placed
      <3>5. CASE c # b /\ c \notin Overlapping(b, id)
        BY <2>2, <3>1, <3>2, <3>5
      <3> QED
        BY <3>3, <3>4, <3>5
    <2>7. DOMAIN req' = Browser /\ req' = [c \in Browser |-> req'[c]]
      BY <2>2
    <2> QED
      BY <2>5, <2>6, <2>7 DEF RequestsTyped
  <1>9. CASE RecordHealth(b)
    <2>1. At(b, "record") /\ Pass(b, q) /\ rows' = [rows EXCEPT ![id].health = q.health] /\ UNCHANGED settings
          /\ (doubt' = doubt \cup {id} \/ doubt' = doubt \ {id})
      BY <1>4, <1>9 DEF RecordHealth
    <2>2. id \in Provider /\ q.health \in Health /\ rows[id] \in Row
      BY <1>4, <1>5, <2>1, AtProvider DEF Request
    <2>3. [rows[id] EXCEPT !.health = q.health] \in Row
      BY <2>2 DEF Row
    <2>4. TablesTyped'
      BY <1>1, <2>1, <2>2, <2>3 DEF TablesTyped
    <2> QED
      BY <1>6, <2>1, <2>4
  <1>10. CASE SetStatus(b)
    <2> DEFINE status == IF q.op = "enable" THEN "active" ELSE "disabled"
    <2>1. At(b, "status") /\ (Pass(b, q) \/ Fail(b)) /\ UNCHANGED <<settings, doubt>>
          /\ (rows' = rows \/ rows' = [rows EXCEPT ![id].status = status])
      BY <1>4, <1>10 DEF SetStatus
    <2>2. id \in Provider /\ status \in Status /\ rows[id] \in Row
      <3>1. status \in Status
        BY DEF Status
      <3>2. id \in Provider /\ rows[id] \in Row
        BY <1>4, <2>1, AtProvider
      <3> QED
        BY <3>1, <3>2
    <2> HIDE DEF status
    <2>3. [rows[id] EXCEPT !.status = status] \in Row
      BY <2>2 DEF Row
    <2>4. TablesTyped'
      BY <1>1, <2>1, <2>2, <2>3 DEF TablesTyped
    <2> QED
      BY <1>6, <2>1, <2>4
  <1>11. CASE StoreSettings(b)
    <2>1. At(b, "save") /\ Pass(b, q) /\ settings' = [settings EXCEPT ![owner[b]] = q.settings]
          /\ UNCHANGED <<rows, doubt>>
      BY <1>4, <1>11 DEF StoreSettings
    <2>2. Placed(q) /\ Steps[q.op][q.at] = "save"
      BY <1>1, <1>4, <2>1, AtStatement
    <2>3. q.op = "save"
      BY <2>2, Positions DEF Placed
    <2>4. q.settings \in AccountSettings
      BY <2>2, <2>3 DEF Placed
    <2>5. TablesTyped'
      BY <1>1, <2>1, <2>4 DEF TablesTyped
    <2>6. RequestsTyped'
      BY <1>1, <2>1, <1>4, <1>5, GoesOn
    <2> QED
      BY <2>5, <2>6
  <1> QED
    BY <1>7, <1>8, <1>9, <1>10, <1>11

\* The answers, and the requests that fail.
LEMMA AnswerTyped ==
  ASSUME Typed, NEW b \in Browser, Answer(b) \/ RequestFails(b)
  PROVE  Typed'
  <1>1. TablesTyped /\ OutsideTyped /\ PagesTyped /\ RequestsTyped
    BY DEF Typed
  <1>2. UNCHANGED <<rows, settings, doubt>> /\ UNCHANGED outside /\ Fail(b) /\ todo' = todo
    BY DEF Answer, RequestFails, tables
  <1>3. TablesTyped' /\ OutsideTyped' /\ RequestsTyped'
    BY <1>1, <1>2, TablesStay, OutsideStays, Fails
  <1>4. SUFFICES PagesTyped'
    BY <1>3 DEF Typed
  <1>5. FormOK(NoForm) /\ NoForm \in Form /\ NoRow \in Row
    BY NoFormOK DEF FormOK
  <1> HIDE DEF NoForm, NoRow
  <1>6. CASE RequestFails(b)
    <2>1. (tested' = tested \/ tested' = [tested EXCEPT ![b] = NoForm]) /\ UNCHANGED <<shown, form, draft>>
      BY <1>6 DEF RequestFails
    <2> QED
      BY <1>1, <1>2, <1>5, <2>1 DEF PagesTyped
  <1>7. CASE Answer(b)
    <2>1. PICK r, id : r = req[b] /\ id = r.form.id
      OBVIOUS
    <2>2. /\ tested' = tested \/ tested' = [tested EXCEPT ![b] = NoForm]
             \/ (tested' = [tested EXCEPT ![b] = r.form] /\ r.op \in {"test", "testNew"})
          /\ form' = form \/ form' = [form EXCEPT ![b] = NoForm]
          /\ draft' = draft \/ draft' = [draft EXCEPT ![b] = settings[owner[b]]]
      <3>1. form' = form \/ form' = [form EXCEPT ![b] = NoForm]
        BY <1>7 DEF Answer
      <3>2. draft' = draft \/ draft' = [draft EXCEPT ![b] = settings[owner[b]]]
        BY <1>7 DEF Answer
      <3>3. tested' = CASE r.op \in {"test", "testNew"} -> [tested EXCEPT ![b] = r.form]
                        [] r.op \in {"connect", "reconnect"} -> [tested EXCEPT ![b] = NoForm]
                        [] OTHER -> tested
        BY <1>7, <2>1 DEF Answer
      <3>4. CASE r.op \in {"test", "testNew"}
        BY <3>1, <3>2, <3>3, <3>4
      <3>5. CASE r.op \in {"connect", "reconnect"}
        BY <3>1, <3>2, <3>3, <3>5
      <3>6. CASE r.op \notin {"test", "testNew", "connect", "reconnect"}
        BY <3>1, <3>2, <3>3, <3>6
      <3> QED
        BY <3>4, <3>5, <3>6
    <2>3. /\ r.op \in {"test", "testNew"} => r.form \in Form /\ FormOK(r.form)
          /\ r.op = "check" => id \in Provider
      <3>1. Placed(r) /\ r \in Request
        BY <1>1, <1>7, <2>1, AtStatement DEF Answer
      <3> QED
        BY <2>1, <3>1 DEF Placed, Request, FormOK
    <2>4. settings[owner[b]] \in AccountSettings
      BY <1>1 DEF TablesTyped, OutsideTyped
    <2>5. shown' \in [Browser -> [Provider -> Row]]
      <3> DEFINE seen == [p \in Provider |-> IF Visible(owner[b], p) THEN rows[p] ELSE NoRow]
      <3>1. seen \in [Provider -> Row]
        BY <1>1, <1>5 DEF TablesTyped
      <3>2. shown' = CASE r.op \in {"test", "testNew", "save"} -> shown
                       [] r.op = "check" -> [shown EXCEPT ![b][id] = rows[id]]
                       [] OTHER -> [shown EXCEPT ![b] = seen]
        BY <1>7, <2>1 DEF Answer
      <3> HIDE DEF seen
      <3>3. shown \in [Browser -> [Provider -> Row]] /\ rows \in [Provider -> Row]
        BY <1>1 DEF PagesTyped, TablesTyped
      <3>4. CASE r.op \in {"test", "testNew", "save"}
        BY <3>2, <3>3, <3>4
      <3>5. CASE r.op = "check"
        <4>1. shown' = [shown EXCEPT ![b][id] = rows[id]] /\ id \in Provider
          BY <2>3, <3>2, <3>5
        <4> QED
          BY <3>3, <4>1
      <3>6. CASE r.op \notin {"test", "testNew", "save", "check"}
        <4>1. shown' = [shown EXCEPT ![b] = seen]
          BY <3>2, <3>6
        <4> QED
          BY <3>1, <3>3, <4>1
      <3> QED
        BY <3>4, <3>5, <3>6
    <2>6. draft' \in [Browser -> AccountSettings]
      BY <1>1, <2>2, <2>4 DEF PagesTyped
    <2>7. form' \in [Browser -> Form] /\ tested' \in [Browser -> Form]
      BY <1>1, <1>5, <2>2, <2>3 DEF PagesTyped
    <2>8. \A c \in Browser : FormOK(form'[c]) /\ FormOK(tested'[c])
      BY <1>1, <1>5, <2>2, <2>3 DEF PagesTyped
    <2> QED
      BY <1>1, <1>2, <2>5, <2>6, <2>7, <2>8 DEF PagesTyped
  <1> QED
    BY <1>6, <1>7

\* Every scene starts with the types its variables keep.
LEMMA InitTyped == Init => Typed
  <1> SUFFICES ASSUME Init PROVE Typed
    OBVIOUS
  <1>1. PICK scene \in Scenes :
          /\ rows = scene.rows /\ settings = scene.settings /\ key = scene.key
          /\ net = scene.net /\ policy = scene.policy /\ owner = scene.owner
          /\ shown = [b \in Browser |-> [id \in Provider |-> IF Visible(owner[b], id) THEN rows[id] ELSE NoRow]]
          /\ form = [b \in Browser |-> NoForm] /\ tested = [b \in Browser |-> NoForm]
          /\ draft = [b \in Browser |-> settings[owner[b]]] /\ todo = scene.todo
          /\ req = [b \in Browser |-> Idle] /\ doubt = {}
    BY DEF Init
  <1>2. SceneOK(scene)
    BY SceneAssumption
  <1>3. FormOK(NoForm) /\ NoForm \in Form /\ NoRow \in Row /\ Idle \in Request
    BY NoFormOK, IdleTyped DEF FormOK
  <1> HIDE DEF NoForm, NoRow, Idle, Clicks
  <1>4. TablesTyped /\ OutsideTyped
    BY <1>1, <1>2 DEF SceneOK, TablesTyped, OutsideTyped
  <1>5. RequestsTyped
    BY <1>1, <1>3 DEF RequestsTyped
  <1>6. shown \in [Browser -> [Provider -> Row]] /\ draft \in [Browser -> AccountSettings]
    BY <1>1, <1>3, <1>4 DEF TablesTyped, OutsideTyped
  <1>7. PagesTyped
    BY <1>1, <1>2, <1>3, <1>6 DEF SceneOK, PagesTyped
  <1> QED
    BY <1>4, <1>5, <1>7 DEF Typed

\* Every step keeps the types.
LEMMA NextTyped ==
  ASSUME Typed, [Next]_vars
  PROVE  Typed'
  <1>1. TablesTyped /\ OutsideTyped /\ PagesTyped /\ RequestsTyped
    BY DEF Typed
  <1>2. CASE UNCHANGED vars
    <2>1. UNCHANGED <<rows, settings, doubt>> /\ UNCHANGED outside /\ UNCHANGED pages /\ UNCHANGED req
      BY <1>2 DEF vars, tables
    <2> QED
      BY <1>1, <2>1, TablesStay, OutsideStays, PagesStay, NothingSent DEF Typed
  <1>3. ASSUME NEW b \in Browser, Page(b) \/ Registry(b) \/ Settings(b) \/ Answer(b) \/ RequestFails(b)
        PROVE  Typed'
    <2>1. CASE Page(b)
      BY <2>1, PageTyped
    <2>2. CASE Registry(b)
      BY <2>2, ReadTyped, WriteTyped DEF Registry
    <2>3. CASE Settings(b)
      BY <2>3, ReadTyped, WriteTyped DEF Settings
    <2>4. CASE Answer(b) \/ RequestFails(b)
      BY <2>4, AnswerTyped
    <2> QED
      BY <1>3, <2>1, <2>2, <2>3, <2>4
  <1>4. CASE (\E e \in Endpoint : EndpointChanges(e)) \/ ArchivePolicy \/ ChangeKey
    <2>1. UNCHANGED <<rows, settings, doubt>> /\ UNCHANGED pages /\ UNCHANGED req
      BY <1>4 DEF EndpointChanges, ArchivePolicy, ChangeKey, tables
    <2>2. OutsideTyped'
      <3>1. CASE \E e \in Endpoint : EndpointChanges(e)
        BY <1>1, <3>1 DEF EndpointChanges, OutsideTyped
      <3>2. CASE ArchivePolicy
        BY <1>1, <3>2 DEF ArchivePolicy, OutsideTyped
      <3>3. CASE ChangeKey
        BY <1>1, <3>3 DEF ChangeKey, OutsideTyped
      <3> QED
        BY <1>4, <3>1, <3>2, <3>3
    <2> QED
      BY <1>1, <2>1, <2>2, TablesStay, PagesStay, NothingSent DEF Typed
  <1> QED
    BY <1>2, <1>3, <1>4 DEF Next

-----------------------------------------------------------------------------
(* What the rows and the requests keep *)

\* A row without an owner is no row, and the built-in ones are as the migrations left them.
RowsKept ==
  \A id \in Provider :
    /\ rows[id].owner = "none" => rows[id] = NoRow
    /\ System(id) => /\ rows[id].protocol = "demo" /\ rows[id].config.endpoint = "none"
                     /\ rows[id].health = "healthy"

SettingsParse == \A u \in Wallet : ParsesSettings(settings[u])

\* The request has found its row, or added it.
Reached(r) ==
  \/ r.op \in {"edit", "enable", "check", "reconnect"} /\ r.at > 1
  \/ r.op = "test" /\ r.at > 2
  \/ r.op = "connect" /\ r.at > 6
\* It is one of the wallet's own; a check may be of a built-in one.
Allowed(r, u) == Reached(r) => Owned(u, r.form.id) \/ (r.op = "check" /\ System(r.form.id))

\* What a check has read is what the row holds, unless somebody edited the provider since.
ReadsRow(r) == r.op \in {"enable", "check"} /\ r.at > 1
RowRead(r) ==
  ReadsRow(r) => /\ r.row.protocol = rows[r.form.id].protocol
                 /\ System(r.form.id) => r.row.config.endpoint = "none"
                 /\ r.stale = FALSE => r.row.config = rows[r.form.id].config
ReadsSecret(r) ==
  \/ r.op = "enable" /\ r.at > 3
  \/ r.op = "check" /\ r.at > 2
  \/ r.op = "reconnect" /\ r.at > 4 /\ r.form.secret = "keep"
SecretRead(r) ==
  (ReadsSecret(r) /\ r.stale = FALSE /\ ~System(r.form.id)) => r.credential = rows[r.form.id].secret.value

\* A new credential is the one the check uses; a kept one is still the one it used when the row is
\* read again.
Given(secret) == IF secret \in {"keep", "clear"} THEN "none" ELSE secret
NewCredential(r) ==
  /\ (r.op = "connect" /\ r.at > 1) \/ (r.op = "reconnect" /\ r.at > 2 /\ r.form.secret # "keep") =>
       r.credential = Given(r.form.secret)
  /\ (r.op = "reconnect" /\ r.at > 7 /\ r.stale = FALSE /\ r.form.secret = "keep") =>
       r.merge.secret.value = r.credential

\* A result that is about to be recorded, or acted on, is of the configuration the request checked.
Checked(r) ==
  \/ r.op = "enable" /\ r.at > 4
  \/ r.op \in {"check", "connect"} /\ r.at > 3
  \/ r.op = "reconnect" /\ r.at > 5
Verified(r) ==
  (Checked(r) /\ r.health = "healthy") => <<Candidate(r), r.credential>> \in verified[r.form.id]

\* A request of the settings page that has written the row has written what it checked.
Wrote(r) ==
  (((r.op = "connect" /\ r.at > 6) \/ (r.op = "reconnect" /\ r.at > 8)) /\ r.stale = FALSE) =>
    rows[r.form.id].config = r.form.config /\ rows[r.form.id].secret.value = r.credential

Passed(r) ==
  /\ (r.op = "enable" /\ r.at > 6) => r.health = "healthy"
  /\ (r.op = "check" /\ r.at > 3 /\ System(r.form.id)) => r.health = "healthy"
  /\ (r.op = "save" /\ r.at > 1) => ParsesSettings(r.settings)

Sound(r, u) ==
  Allowed(r, u) /\ RowRead(r) /\ SecretRead(r) /\ NewCredential(r) /\ Verified(r) /\ Wrote(r) /\ Passed(r)
RequestsSound == \A b \in Browser : req[b] # Idle => Sound(req[b], owner[b])

HealthVerified ==
  \A id \in Provider :
    (rows[id].protocol # "demo" /\ rows[id].health = "healthy" /\ id \notin doubt) =>
      <<rows[id].config, rows[id].secret.value>> \in verified[id]

Inv == Typed /\ RowsKept /\ SettingsParse /\ RequestsSound /\ HealthVerified
       /\ verified \in [Provider -> SUBSET (Config \X Value)]

-----------------------------------------------------------------------------
(* The requests of the others *)

\* A request whose row is not there has not found it, and stays sound whatever becomes of the row; one
\* that has found its row stays sound when its configuration and its credential stay.
LEMMA Stays ==
  ASSUME NEW r, r.at \in Nat, NEW u, Sound(r, u),
         Reached(r) =>
           /\ rows'[r.form.id].owner = rows[r.form.id].owner
           /\ rows'[r.form.id].protocol = rows[r.form.id].protocol
           /\ rows'[r.form.id].config = rows[r.form.id].config
           /\ rows'[r.form.id].secret = rows[r.form.id].secret,
         Checked(r) => verified[r.form.id] \subseteq verified'[r.form.id]
  PROVE  Sound(r, u)'
  <1>1. Allowed(r, u) /\ RowRead(r) /\ SecretRead(r) /\ NewCredential(r) /\ Verified(r) /\ Wrote(r) /\ Passed(r)
    BY DEF Sound
  <1>2. CASE Reached(r)
    <2>1. Owned(u, r.form.id)' = Owned(u, r.form.id) /\ System(r.form.id)' = System(r.form.id)
      BY <1>2 DEF Owned, System
    <2>2. Allowed(r, u)'
      BY <1>1, <1>2, <2>1 DEF Allowed, Reached
    <2>3. RowRead(r)'
      BY <1>1, <1>2, <2>1 DEF RowRead, ReadsRow
    <2>4. SecretRead(r)'
      BY <1>1, <1>2, <2>1 DEF SecretRead, ReadsSecret
    <2>5. Verified(r)'
      BY <1>1 DEF Verified, Checked, Candidate
    <2>6. Wrote(r)'
      BY <1>1, <1>2 DEF Wrote
    <2>7. Passed(r)'
      BY <1>1, <2>1 DEF Passed, ParsesSettings
    <2>8. NewCredential(r)'
      BY <1>1 DEF NewCredential, Given
    <2> QED
      BY <2>2, <2>3, <2>4, <2>5, <2>6, <2>7, <2>8 DEF Sound
  <1>3. CASE ~Reached(r)
    <2>1. ~ReadsRow(r) /\ ~ReadsSecret(r) /\ ~(r.op = "connect" /\ r.at > 6) /\ ~(r.op = "reconnect" /\ r.at > 8)
          /\ ~(r.op = "check" /\ r.at > 3)
      BY <1>3 DEF Reached, ReadsRow, ReadsSecret
    <2>2. Allowed(r, u)'
      BY <1>3 DEF Allowed, Reached
    <2>3. RowRead(r)' /\ SecretRead(r)' /\ Wrote(r)'
      BY <2>1 DEF RowRead, SecretRead, Wrote, ReadsRow, ReadsSecret
    <2>4. Verified(r)'
      BY <1>1 DEF Verified, Checked, Candidate
    <2>5. Passed(r)'
      BY <1>1, <2>1 DEF Passed, ParsesSettings
    <2>6. NewCredential(r)'
      BY <1>1 DEF NewCredential, Given
    <2> QED
      BY <2>2, <2>3, <2>4, <2>5, <2>6 DEF Sound
  <1> QED
    BY <1>2, <1>3

\* An edit of the wallet's own row makes the requests about it doubt what they read.
LEMMA GoesStale ==
  ASSUME NEW r, r.at \in Nat, NEW n, NEW u, Sound(r, u),
         n.op = r.op, n.at = r.at, n.form = r.form, n.row = r.row, n.settings = r.settings,
         n.credential = r.credential, n.health = r.health, n.merge = r.merge, n.stale = TRUE,
         ~System(r.form.id),
         rows'[r.form.id].owner = rows[r.form.id].owner,
         rows'[r.form.id].protocol = rows[r.form.id].protocol,
         Checked(r) => verified[r.form.id] \subseteq verified'[r.form.id]
  PROVE  Sound(n, u)'
  <1>1. Allowed(r, u) /\ RowRead(r) /\ NewCredential(r) /\ Verified(r) /\ Passed(r)
    BY DEF Sound
  <1>2. Owned(u, r.form.id)' = Owned(u, r.form.id) /\ ~System(r.form.id)'
    BY DEF Owned, System
  <1>3. Allowed(n, u)'
    BY <1>1, <1>2 DEF Allowed, Reached
  <1>4. RowRead(n)' /\ SecretRead(n)' /\ Wrote(n)'
    BY <1>1, <1>2 DEF RowRead, SecretRead, Wrote, ReadsRow
  <1>5. Verified(n)'
    BY <1>1 DEF Verified, Checked, Candidate
  <1>6. Passed(n)'
    BY <1>1, <1>2 DEF Passed, ParsesSettings
  <1>7. NewCredential(n)'
    BY <1>1 DEF NewCredential, Given
  <1> QED
    BY <1>3, <1>4, <1>5, <1>6, <1>7 DEF Sound

\* Nobody has found a row that is not there.
LEMMA ReachedIsThere ==
  ASSUME NEW r, NEW u \in Wallet, Sound(r, u), Reached(r)
  PROVE  rows[r.form.id] # NoRow
  <1>1. NoRow.owner = "none" /\ u \notin {"none", "system"}
    BY WalletAssumption DEF NoRow
  <1>2. Owned(u, r.form.id) \/ System(r.form.id)
    BY DEF Sound, Allowed
  <1> QED
    BY <1>1, <1>2 DEF Owned, System

\* A request that has just been sent has read nothing.
LEMMA SentIsSound ==
  ASSUME NEW r, r.at = 1, NEW u
  PROVE  Sound(r, u)
  BY DEF Sound, Allowed, Reached, RowRead, ReadsRow, SecretRead, ReadsSecret, NewCredential, Verified, Checked,
         Wrote, Passed

-----------------------------------------------------------------------------
(* The request itself: one lemma per statement *)

\* What all statements start from: a request under way at a statement about a provider.
Here(q, n, u, stage) ==
  /\ q \in Request /\ Placed(q) /\ Steps[q.op][q.at] = stage /\ Sound(q, u)
  /\ n.op = q.op /\ n.at = q.at + 1 /\ n.form = q.form /\ n.stale = q.stale

\* The position of the request, as a number.
LEMMA AtNat ==
  ASSUME NEW q, NEW n, NEW u, NEW stage, Here(q, n, u, stage)
  PROVE  q.at \in Nat /\ q.at >= 1 /\ n.at = q.at + 1 /\ q.stale \in BOOLEAN
  BY Positions DEF Here, Placed, Request

\* getProvider: the row found is the wallet's, or a check sees a built-in one.
LEMMA GetSound ==
  ASSUME NEW q, NEW n, NEW u, Here(q, n, u, "get"), n.row = rows[q.form.id], RowsKept, q.form.id \in Provider,
         Owned(u, q.form.id) \/ (q.op = "check" /\ Visible(u, q.form.id))
  PROVE  Sound(n, u)
  <1>1. \/ q.op \in {"edit", "enable", "check", "reconnect"} /\ n.at = 2
        \/ q.op = "test" /\ n.at = 3
    BY Positions, AtNat DEF Here, Placed
  <1>2. n.op = q.op /\ n.form = q.form /\ n.stale = q.stale
    BY DEF Here
  <1>3. Allowed(n, u)
    BY <1>2 DEF Allowed, Owned, Visible, System
  <1>4. RowRead(n)
    BY <1>2 DEF RowRead, RowsKept
  <1> QED
    BY <1>1, <1>2, <1>3, <1>4 DEF Sound, SecretRead, ReadsSecret, NewCredential, Verified, Checked, Wrote, Passed

\* parse: a new credential is taken from the form.
LEMMA ParseSound ==
  ASSUME NEW q, NEW n, NEW u, Here(q, n, u, "parse"), n.row = q.row, n.credential = Given(q.form.secret)
  PROVE  Sound(n, u)
  <1>1. \/ q.op \in {"add", "connect"} /\ q.at = 1 /\ n.at = 2
        \/ q.op \in {"edit", "reconnect", "testNew"} /\ q.at = 2 /\ n.at = 3
        \/ q.op = "test" /\ q.at = 3 /\ n.at = 4
    BY Positions, AtNat DEF Here, Placed
  <1>2. n.op = q.op /\ n.form = q.form /\ n.stale = q.stale /\ Allowed(q, u)
    BY DEF Here, Sound
  <1>3. Allowed(n, u)
    BY <1>1, <1>2 DEF Allowed, Reached
  <1>4. NewCredential(n)
    BY <1>1, <1>2 DEF NewCredential
  <1> QED
    BY <1>1, <1>2, <1>3, <1>4 DEF Sound, RowRead, ReadsRow, SecretRead, ReadsSecret, Verified, Checked, Wrote, Passed

\* getSettings, the conflict query and what follows them change nothing a request relies on.
LEMMA SettingsSound ==
  ASSUME NEW q, NEW n, NEW u, NEW stage \in {"settings", "conflict"}, Here(q, n, u, stage), n.row = q.row,
         n.credential = q.credential, n.health = q.health, n.merge = q.merge
  PROVE  Sound(n, u)
  <1>1. \/ q.op \in {"test", "testNew"} /\ q.at = 1 /\ n.at = 2
        \/ q.op \in {"add", "enable", "connect"} /\ q.at = 2 /\ n.at = 3
        \/ q.op \in {"edit", "reconnect"} /\ q.at = 3 /\ n.at = 4
        \/ q.op = "add" /\ q.at = 3 /\ n.at = 4
        \/ q.op = "connect" /\ q.at = 5 /\ n.at = 6
    BY Positions, AtNat DEF Here, Placed
  <1>2. n.op = q.op /\ n.form = q.form /\ n.stale = q.stale /\ Sound(q, u)
    BY DEF Here
  <1>3. Allowed(q, u) /\ RowRead(q) /\ NewCredential(q) /\ Verified(q)
    BY <1>2 DEF Sound
  <1>4. Allowed(n, u)
    BY <1>1, <1>2, <1>3 DEF Allowed, Reached
  <1>5. RowRead(n)
    BY <1>1, <1>2, <1>3 DEF RowRead, ReadsRow
  <1>6. NewCredential(n)
    BY <1>1, <1>2, <1>3 DEF NewCredential
  <1>7. Verified(n)
    BY <1>1, <1>2, <1>3 DEF Verified, Checked, Candidate
  <1> QED
    BY <1>1, <1>2, <1>4, <1>5, <1>6, <1>7 DEF Sound, SecretRead, ReadsSecret, Wrote, Passed

\* getSecretEnvelope: the credential of the check is the stored one, or the one of the form.
LEMMA SecretSound ==
  ASSUME NEW q, NEW n, NEW u, Here(q, n, u, "secret"), n.row = q.row,
         q.op \in {"check", "enable"} \/ q.form.secret = "keep" =>
           n.credential = (IF Owned(u, q.form.id) THEN rows[q.form.id].secret ELSE NoRow.secret).value,
         q.op = "reconnect" /\ q.form.secret # "keep" => n.credential = Given(q.form.secret)
  PROVE  Sound(n, u)
  <1>1. \/ q.op = "check" /\ q.at = 2 /\ n.at = 3
        \/ q.op = "enable" /\ q.at = 3 /\ n.at = 4
        \/ q.op \in {"reconnect", "test"} /\ q.at = 4 /\ n.at = 5
    BY Positions, AtNat DEF Here, Placed
  <1>2. n.op = q.op /\ n.form = q.form /\ n.stale = q.stale /\ Sound(q, u)
    BY DEF Here
  <1>3. Allowed(q, u) /\ RowRead(q)
    BY <1>2 DEF Sound
  <1>4. Allowed(n, u)
    BY <1>1, <1>2, <1>3 DEF Allowed, Reached
  <1>5. RowRead(n)
    BY <1>1, <1>2, <1>3 DEF RowRead, ReadsRow
  <1>6. SecretRead(n)
    <2> SUFFICES ASSUME ReadsSecret(n), ~System(n.form.id)
                 PROVE  n.credential = rows[n.form.id].secret.value
      BY DEF SecretRead
    <2>1. q.op \in {"check", "enable"} \/ q.form.secret = "keep"
      BY <1>1, <1>2 DEF ReadsSecret
    <2>2. q.op # "test"
      BY <1>1, <1>2 DEF ReadsSecret
    <2>3. Reached(q)
      BY <1>1, <2>2 DEF Reached
    <2>4. Owned(u, q.form.id)
      BY <1>2, <1>3, <2>3 DEF Allowed
    <2> QED
      BY <1>2, <2>1, <2>4
  <1>7. NewCredential(n)
    BY <1>1, <1>2 DEF NewCredential
  <1> QED
    BY <1>1, <1>2, <1>4, <1>5, <1>6, <1>7 DEF Sound, Verified, Checked, Wrote, Passed

\* verifyProviderHealth: what the endpoint said is of the configuration and the credential it was asked with.
LEMMA VerifySound ==
  ASSUME NEW q, NEW n, NEW u, Here(q, n, u, "verify"), n.row = q.row, n.credential = q.credential,
         n.merge = q.merge, RowsKept, q.form.id \in Provider,
         n.health = Verify(RequestProtocol(q), Candidate(q), q.credential),
         rows' = rows,
         n.health = "healthy" => <<Candidate(q), q.credential>> \in verified'[q.form.id]
  PROVE  Sound(n, u)'
  <1>1. \/ q.op \in {"check", "connect", "testNew"} /\ q.at = 3 /\ n.at = 4
        \/ q.op = "enable" /\ q.at = 4 /\ n.at = 5
        \/ q.op \in {"reconnect", "test"} /\ q.at = 5 /\ n.at = 6
    BY Positions, AtNat DEF Here, Placed
  <1>2. n.op = q.op /\ n.form = q.form /\ n.stale = q.stale /\ Sound(q, u)
    BY DEF Here
  <1>3. Allowed(q, u) /\ RowRead(q) /\ SecretRead(q) /\ NewCredential(q)
    BY <1>2 DEF Sound
  <1>4. Owned(u, q.form.id)' = Owned(u, q.form.id) /\ System(q.form.id)' = System(q.form.id)
    BY DEF Owned, System
  <1>5. Allowed(n, u)'
    BY <1>1, <1>2, <1>3, <1>4 DEF Allowed, Reached
  <1>6. RowRead(n)'
    BY <1>1, <1>2, <1>3, <1>4 DEF RowRead, ReadsRow
  <1>7. SecretRead(n)'
    BY <1>1, <1>2, <1>3, <1>4 DEF SecretRead, ReadsSecret
  <1>8. NewCredential(n)'
    BY <1>1, <1>2, <1>3 DEF NewCredential, Given
  <1>9. Verified(n)'
    BY <1>2 DEF Verified, Candidate
  <1>10. Passed(n)'
    <2>1. ASSUME n.op = "check", System(q.form.id) PROVE n.health = "healthy"
      <3>1. q.row.protocol = "demo" /\ q.row.config.endpoint = "none"
        BY <1>1, <1>2, <1>3, <2>1 DEF RowRead, ReadsRow, RowsKept
      <3>2. RequestProtocol(q) = q.row.protocol /\ Candidate(q) = q.row.config
        BY <1>2, <2>1 DEF RequestProtocol, Candidate, Creates
      <3> QED
        BY <3>1, <3>2 DEF Verify
    <2> QED
      BY <1>1, <1>2, <1>4, <2>1 DEF Passed
  <1> QED
    BY <1>1, <1>2, <1>5, <1>6, <1>7, <1>8, <1>9, <1>10 DEF Sound, Wrote

\* A check that did not pass ends an enabling, a connecting and a test.
LEMMA PassedSound ==
  ASSUME NEW q, NEW n, NEW u, Here(q, n, u, "passed"), n.row = q.row, n.credential = q.credential,
         n.merge = q.merge, n.health = q.health, q.health = "healthy"
  PROVE  Sound(n, u)
  <1>1. \/ q.op \in {"connect", "testNew"} /\ q.at = 4 /\ n.at = 5
        \/ q.op \in {"enable", "reconnect", "test"} /\ q.at = 6 /\ n.at = 7
    BY Positions, AtNat DEF Here, Placed
  <1>2. n.op = q.op /\ n.form = q.form /\ n.stale = q.stale /\ Sound(q, u)
    BY DEF Here
  <1>3. Allowed(q, u) /\ RowRead(q) /\ SecretRead(q) /\ NewCredential(q) /\ Verified(q)
    BY <1>2 DEF Sound
  <1>4. Allowed(n, u)
    BY <1>1, <1>2, <1>3 DEF Allowed, Reached
  <1>5. RowRead(n)
    BY <1>1, <1>2, <1>3 DEF RowRead, ReadsRow
  <1>6. SecretRead(n)
    BY <1>1, <1>2, <1>3 DEF SecretRead, ReadsSecret
  <1>7. NewCredential(n)
    BY <1>1, <1>2, <1>3 DEF NewCredential
  <1>8. Verified(n)
    BY <1>1, <1>2, <1>3 DEF Verified, Checked, Candidate
  <1> QED
    BY <1>1, <1>2, <1>4, <1>5, <1>6, <1>7, <1>8 DEF Sound, Wrote, Passed

\* updateProvider reads the row it will write: the stored credential is still the one of the check.
LEMMA ReadSound ==
  ASSUME NEW q, NEW n, NEW u, Here(q, n, u, "read"), n.row = q.row, n.credential = q.credential,
         n.health = q.health, n.merge = rows[q.form.id], Owned(u, q.form.id), u # "system"
  PROVE  Sound(n, u)
  <1>1. (q.op = "edit" /\ q.at = 4 /\ n.at = 5) \/ (q.op = "reconnect" /\ q.at = 7 /\ n.at = 8)
    BY Positions, AtNat DEF Here, Placed
  <1>2. n.op = q.op /\ n.form = q.form /\ n.stale = q.stale /\ Sound(q, u) /\ ~System(q.form.id)
    BY DEF Here, Owned, System
  <1>3. Allowed(q, u) /\ RowRead(q) /\ SecretRead(q) /\ NewCredential(q) /\ Verified(q)
    BY <1>2 DEF Sound
  <1>4. SecretRead(n)
    BY <1>1, <1>2, <1>3 DEF SecretRead, ReadsSecret
  <1>5. NewCredential(n)
    BY <1>1, <1>2, <1>3 DEF NewCredential, SecretRead, ReadsSecret
  <1>6. Verified(n)
    BY <1>1, <1>2, <1>3 DEF Verified, Checked, Candidate
  <1> QED
    BY <1>1, <1>2, <1>4, <1>5, <1>6 DEF Sound, Allowed, RowRead, ReadsRow, Wrote, Passed

\* recordHealth and setStatus write neither the configuration nor the credential.
LEMMA RecordSound ==
  ASSUME NEW q, NEW n, NEW u, NEW stage \in {"record", "status"}, Here(q, n, u, stage), n.row = q.row,
         n.credential = q.credential, n.merge = q.merge, n.health = q.health
  PROVE  Sound(n, u)
  <1>1. \/ q.op = "check" /\ q.at = 4 /\ n.at = 5
        \/ q.op = "enable" /\ q.at = 5 /\ n.at = 6
        \/ q.op = "connect" /\ q.at = 7 /\ n.at = 8
        \/ q.op = "reconnect" /\ q.at = 9 /\ n.at = 10
        \/ q.op = "disable" /\ q.at = 1 /\ n.at = 2
        \/ q.op = "enable" /\ q.at = 7 /\ n.at = 8
    BY Positions, AtNat DEF Here, Placed
  <1>2. n.op = q.op /\ n.form = q.form /\ n.stale = q.stale /\ Sound(q, u)
    BY DEF Here
  <1>3. /\ Allowed(q, u) /\ RowRead(q) /\ SecretRead(q) /\ NewCredential(q) /\ Verified(q) /\ Wrote(q)
        /\ Passed(q)
    BY <1>2 DEF Sound
  <1>4. Allowed(n, u)
    BY <1>1, <1>2, <1>3 DEF Allowed, Reached
  <1>5. RowRead(n)
    BY <1>1, <1>2, <1>3 DEF RowRead, ReadsRow
  <1>6. SecretRead(n)
    BY <1>1, <1>2, <1>3 DEF SecretRead, ReadsSecret
  <1>7. NewCredential(n)
    BY <1>1, <1>2, <1>3 DEF NewCredential
  <1>8. Verified(n)
    BY <1>1, <1>2, <1>3 DEF Verified, Checked, Candidate
  <1>9. Wrote(n)
    BY <1>1, <1>2, <1>3 DEF Wrote
  <1>10. Passed(n)
    BY <1>1, <1>2, <1>3 DEF Passed
  <1> QED
    BY <1>4, <1>5, <1>6, <1>7, <1>8, <1>9, <1>10 DEF Sound

\* The statements about the settings: what is saved parses.
LEMMA SaveSound ==
  ASSUME NEW q, NEW n, NEW u, NEW stage \in {"policy", "save"}, Here(q, n, u, stage), n.settings = q.settings,
         stage = "policy" => ParsesSettings(q.settings)
  PROVE  Sound(n, u)
  <1>1. q.op = "save" /\ ((stage = "policy" /\ q.at = 1) \/ (stage = "save" /\ q.at = 2))
    BY Positions DEF Here, Placed
  <1>2. n.op = "save" /\ Passed(q)
    BY <1>1 DEF Here, Sound
  <1>3. Passed(n)
    BY <1>1, <1>2 DEF Passed
  <1> QED
    BY <1>2, <1>3 DEF Sound, Allowed, Reached, RowRead, ReadsRow, SecretRead, ReadsSecret, NewCredential,
                      Verified, Checked, Wrote

\* INSERT: a connected provider has the configuration and the credential that were checked.
LEMMA InsertSound ==
  ASSUME NEW q, NEW n, NEW u, Here(q, n, u, "insert"), n.credential = q.credential, n.health = q.health,
         rows'[q.form.id].owner = u, rows'[q.form.id].config = q.form.config,
         rows'[q.form.id].secret.value = q.credential, UNCHANGED verified
  PROVE  Sound(n, u)'
  <1>1. (q.op = "add" /\ q.at = 4 /\ n.at = 5) \/ (q.op = "connect" /\ q.at = 6 /\ n.at = 7)
    BY Positions, AtNat DEF Here, Placed
  <1>2. n.op = q.op /\ n.form = q.form /\ n.stale = q.stale /\ Sound(q, u)
    BY DEF Here
  <1>3. NewCredential(q) /\ Verified(q)
    BY <1>2 DEF Sound
  <1>4. Allowed(n, u)'
    BY <1>2 DEF Allowed, Owned
  <1>5. NewCredential(n)'
    BY <1>1, <1>2, <1>3 DEF NewCredential, Given
  <1>6. Verified(n)'
    BY <1>1, <1>2, <1>3 DEF Verified, Checked, Candidate
  <1>7. Wrote(n)'
    BY <1>2 DEF Wrote
  <1> QED
    BY <1>1, <1>2, <1>4, <1>5, <1>6, <1>7 DEF Sound, RowRead, ReadsRow, SecretRead, ReadsSecret, Passed

\* UPDATE: so does a provider that is connected again, unless somebody edited it since.
LEMMA WriteSound ==
  ASSUME NEW q, NEW n, NEW u, Here(q, n, u, "write"), n.credential = q.credential, n.health = q.health,
         n.merge = q.merge, Owned(u, q.form.id), u # "system", NoRow.secret.value = "none",
         rows'[q.form.id].owner = rows[q.form.id].owner, rows'[q.form.id].config = q.form.config,
         rows'[q.form.id].secret.value = (IF q.form.secret = "keep" THEN q.merge.secret.value
                                          ELSE Given(q.form.secret)),
         UNCHANGED verified
  PROVE  Sound(n, u)'
  <1>1. (q.op = "edit" /\ q.at = 5 /\ n.at = 6) \/ (q.op = "reconnect" /\ q.at = 8 /\ n.at = 9)
    BY Positions, AtNat DEF Here, Placed
  <1>2. n.op = q.op /\ n.form = q.form /\ n.stale = q.stale /\ Sound(q, u)
    BY DEF Here
  <1>3. NewCredential(q) /\ Verified(q)
    BY <1>2 DEF Sound
  <1>4. Allowed(n, u)'
    BY <1>2 DEF Allowed, Owned
  <1>5. NewCredential(n)'
    BY <1>1, <1>2, <1>3 DEF NewCredential, Given
  <1>6. Verified(n)'
    BY <1>1, <1>2, <1>3 DEF Verified, Checked, Candidate
  <1>7. q.op = "reconnect" /\ q.stale = FALSE => rows'[q.form.id].secret.value = q.credential
    BY <1>1, <1>3 DEF NewCredential
  <1>8. Wrote(n)' /\ SecretRead(n)'
    BY <1>1, <1>2, <1>7 DEF Wrote, SecretRead, ReadsSecret
  <1> QED
    BY <1>1, <1>2, <1>4, <1>5, <1>6, <1>8 DEF Sound, RowRead, ReadsRow, Passed

-----------------------------------------------------------------------------
(* Every step keeps the requests sound *)

\* What a statement passes on.
LEMMA PassesHere ==
  ASSUME Typed, RequestsSound, NEW b \in Browser, NEW stage, stage # "idle", At(b, stage),
         NEW n, req' = [req EXCEPT ![b] = n], n.op = req[b].op, n.at = req[b].at + 1, n.form = req[b].form,
         n.stale = req[b].stale
  PROVE  /\ Here(req[b], n, owner[b], stage) /\ req'[b] = n /\ \A c \in Browser \ {b} : req'[c] = req[c]
         /\ n.at \in Nat
  <1>1. req[b] # Idle /\ req[b] \in Request /\ Placed(req[b]) /\ Steps[req[b].op][req[b].at] = stage
    BY AtStatement DEF Typed
  <1>2. Sound(req[b], owner[b])
    BY <1>1 DEF RequestsSound
  <1>3. req'[b] = n /\ \A c \in Browser \ {b} : req'[c] = req[c]
    BY DEF Typed, RequestsTyped
  <1>4. Here(req[b], n, owner[b], stage)
    BY <1>1, <1>2 DEF Here
  <1> QED
    BY <1>3, <1>4, AtNat

\* The row of a request that has found or checked one is a row of the table.
LEMMA AboutProvider ==
  ASSUME Typed, NEW c \in Browser, req[c] # Idle, Reached(req[c]) \/ Checked(req[c])
  PROVE  req[c].form.id \in Provider
  <1>1. Placed(req[c])
    BY DEF Typed, RequestsTyped
  <1>2. req[c].op # "save"
    BY DEF Reached, Checked
  <1> QED
    BY <1>1, <1>2 DEF Placed

\* A step of one browser keeps all requests sound if it keeps its own, and leaves alone the configuration
\* and the credential of the rows that others have found.
LEMMA StepSound ==
  ASSUME Typed, RequestsSound, NEW b \in Browser, owner' = owner,
         NEW n, req'[b] = n, NEW v, v = owner[b], n = Idle \/ Sound(n, v)',
         \A c \in Browser \ {b} : req'[c] = req[c],
         \A id \in Provider : verified[id] \subseteq verified'[id],
         \A c \in Browser \ {b} : (req[c] # Idle /\ Reached(req[c])) =>
           /\ rows'[req[c].form.id].owner = rows[req[c].form.id].owner
           /\ rows'[req[c].form.id].protocol = rows[req[c].form.id].protocol
           /\ rows'[req[c].form.id].config = rows[req[c].form.id].config
           /\ rows'[req[c].form.id].secret = rows[req[c].form.id].secret
  PROVE  RequestsSound'
  <1>1. ASSUME NEW c \in Browser, NEW r, r = req'[c], NEW u, u = owner'[c], r # Idle
        PROVE  Sound(r, u)'
    <2>1. CASE c = b
      BY <1>1, <2>1
    <2>2. CASE c # b
      <3>1. r = req[c] /\ u = owner[c]
        BY <1>1, <2>2
      <3>2. Sound(r, u) /\ r.at \in Nat
        BY <1>1, <3>1 DEF RequestsSound, Typed, RequestsTyped, Request
      <3>3. Checked(r) => verified[r.form.id] \subseteq verified'[r.form.id]
        BY <1>1, <3>1, AboutProvider
      <3> QED
        BY <1>1, <2>2, <3>1, <3>2, <3>3, Stays
    <2> QED
      BY <2>1, <2>2
  <1> QED
    BY <1>1 DEF RequestsSound

\* A step that leaves the rows and what was verified alone keeps what is sound.
LEMMA SoundStays ==
  ASSUME NEW r, r.at \in Nat, NEW u, Sound(r, u), UNCHANGED <<rows, verified>>
  PROVE  Sound(r, u)'
  BY Stays

\* The statements that only read.
LEMMA ReadStepSound ==
  ASSUME Inv, NEW b \in Browser,
         \/ Parse(b) \/ Get(b) \/ ReadSettings(b) \/ ReadSecret(b) \/ MustPass(b) \/ FindConflict(b)
         \/ ReadRow(b) \/ CheckPolicy(b)
  PROVE  RequestsSound'
  <1>1. UNCHANGED <<rows, settings, verified, doubt, owner>> /\ Typed /\ RequestsSound /\ RowsKept
    BY DEF Inv, Parse, Get, ReadSettings, ReadSecret, MustPass, FindConflict, ReadRow, CheckPolicy, tables, outside
  <1>2. PICK q, u : q = req[b] /\ u = owner[b]
    OBVIOUS
  <1>3. q \in Request /\ u \in Wallet /\ u # "system"
    BY <1>1, <1>2, WalletAssumption DEF Typed, RequestsTyped, OutsideTyped
  <1>4. ASSUME NEW n, req'[b] = n, n = Idle \/ (Sound(n, u) /\ n.at \in Nat), \A c \in Browser \ {b} : req'[c] = req[c]
        PROVE  RequestsSound'
    <2>1. n = Idle \/ Sound(n, u)'
      BY <1>1, <1>4, SoundStays
    <2> HIDE DEF Idle
    <2> QED
      BY <1>1, <1>2, <1>4, <2>1, StepSound
  <1>5. CASE Fail(b)
    <2>1. req'[b] = Idle /\ \A c \in Browser \ {b} : req'[c] = req[c]
      BY <1>1, <1>5 DEF Fail, Typed, RequestsTyped
    <2> QED
      BY <1>4, <2>1
  <1>6. CASE Parse(b)
    <2>0. PICK x : x = Given(q.form.secret)
      OBVIOUS
    <2> DEFINE n == [[q EXCEPT !.credential = x] EXCEPT !.at = @ + 1]
    <2>1. At(b, "parse") /\ (Fail(b) \/ (req' = [req EXCEPT ![b] = n]))
      BY <1>2, <1>6, <2>0 DEF Parse, Pass, Given
    <2>2. /\ n.op = q.op /\ n.at = q.at + 1 /\ n.form = q.form /\ n.stale = q.stale
          /\ n.row = q.row /\ n.credential = x /\ n.health = q.health /\ n.merge = q.merge /\ n.settings = q.settings
      BY <1>3 DEF Request
    <2> HIDE DEF n
    <2>3. SUFFICES ASSUME req' = [req EXCEPT ![b] = n] PROVE RequestsSound'
      BY <1>5, <2>1
    <2>4. Here(q, n, u, "parse") /\ req'[b] = n /\ (\A c \in Browser \ {b} : req'[c] = req[c]) /\ n.at \in Nat
      BY <1>1, <1>2, <2>1, <2>2, <2>3, PassesHere
    <2>5. q.form.id \in Provider /\ rows[q.form.id] \in Row /\ q.form \in Form
      BY <1>1, <1>2, <2>1, AtProvider
    <2>6. Sound(n, u)
      BY <1>1, <1>2, <1>3, <2>2, <2>3, <2>4, <2>5, <2>0, ParseSound
    <2> QED
      BY <1>4, <2>4, <2>6
  <1>7. CASE Get(b)
    <2>0. PICK x : x = rows[q.form.id]
      OBVIOUS
    <2> DEFINE n == [[q EXCEPT !.row = x] EXCEPT !.at = @ + 1]
    <2>1. At(b, "get") /\ (Fail(b) \/ (req' = [req EXCEPT ![b] = n] /\ (Owned(u, q.form.id) \/ (q.op = "check" /\ Visible(u, q.form.id)))))
      BY <1>2, <1>7, <2>0 DEF Get, Pass
    <2>2. /\ n.op = q.op /\ n.at = q.at + 1 /\ n.form = q.form /\ n.stale = q.stale
          /\ n.row = x /\ n.credential = q.credential /\ n.health = q.health /\ n.merge = q.merge /\ n.settings = q.settings
      BY <1>3 DEF Request
    <2> HIDE DEF n
    <2>3. SUFFICES ASSUME req' = [req EXCEPT ![b] = n], (Owned(u, q.form.id) \/ (q.op = "check" /\ Visible(u, q.form.id))) PROVE RequestsSound'
      BY <1>5, <2>1
    <2>4. Here(q, n, u, "get") /\ req'[b] = n /\ (\A c \in Browser \ {b} : req'[c] = req[c]) /\ n.at \in Nat
      BY <1>1, <1>2, <2>1, <2>2, <2>3, PassesHere
    <2>5. q.form.id \in Provider /\ rows[q.form.id] \in Row /\ q.form \in Form
      BY <1>1, <1>2, <2>1, AtProvider
    <2>6. Sound(n, u)
      BY <1>1, <1>2, <1>3, <2>2, <2>3, <2>4, <2>5, <2>0, GetSound
    <2> QED
      BY <1>4, <2>4, <2>6
  <1>8. CASE ReadSettings(b)
    <2>0. PICK x : x = settings[u]
      OBVIOUS
    <2> DEFINE n == [[q EXCEPT !.settings = x] EXCEPT !.at = @ + 1]
    <2>1. At(b, "settings") /\ (Fail(b) \/ (req' = [req EXCEPT ![b] = n]))
      BY <1>2, <1>8, <2>0 DEF ReadSettings, Pass
    <2>2. /\ n.op = q.op /\ n.at = q.at + 1 /\ n.form = q.form /\ n.stale = q.stale
          /\ n.row = q.row /\ n.credential = q.credential /\ n.health = q.health /\ n.merge = q.merge /\ n.settings = x
      BY <1>3 DEF Request
    <2> HIDE DEF n
    <2>3. SUFFICES ASSUME req' = [req EXCEPT ![b] = n] PROVE RequestsSound'
      BY <1>5, <2>1
    <2>4. Here(q, n, u, "settings") /\ req'[b] = n /\ (\A c \in Browser \ {b} : req'[c] = req[c]) /\ n.at \in Nat
      BY <1>1, <1>2, <2>1, <2>2, <2>3, PassesHere
    <2>5. q.form.id \in Provider /\ rows[q.form.id] \in Row /\ q.form \in Form
      BY <1>1, <1>2, <2>1, AtProvider
    <2>6. Sound(n, u)
      BY <1>1, <1>2, <1>3, <2>2, <2>3, <2>4, <2>5, SettingsSound
    <2> QED
      BY <1>4, <2>4, <2>6
  <1>9. CASE ReadSecret(b)
    <2>0. PICK x : x = Credential(b).value
      OBVIOUS
    <2> DEFINE n == [[q EXCEPT !.credential = x] EXCEPT !.at = @ + 1]
    <2>1. At(b, "secret") /\ (Fail(b) \/ (req' = [req EXCEPT ![b] = n]))
      BY <1>2, <1>9, <2>0 DEF ReadSecret, Pass
    <2>2. /\ n.op = q.op /\ n.at = q.at + 1 /\ n.form = q.form /\ n.stale = q.stale
          /\ n.row = q.row /\ n.credential = x /\ n.health = q.health /\ n.merge = q.merge /\ n.settings = q.settings
      BY <1>3 DEF Request
    <2> HIDE DEF n
    <2>3. SUFFICES ASSUME req' = [req EXCEPT ![b] = n] PROVE RequestsSound'
      BY <1>5, <2>1
    <2>4. Here(q, n, u, "secret") /\ req'[b] = n /\ (\A c \in Browser \ {b} : req'[c] = req[c]) /\ n.at \in Nat
      BY <1>1, <1>2, <2>1, <2>2, <2>3, PassesHere
    <2>5. q.form.id \in Provider /\ rows[q.form.id] \in Row /\ q.form \in Form
      BY <1>1, <1>2, <2>1, AtProvider
    <2>7. q.op \in {"check", "enable"} \/ q.form.secret = "keep" =>
            n.credential = (IF Owned(u, q.form.id) THEN rows[q.form.id].secret ELSE NoRow.secret).value
      BY <1>2, <2>0, <2>2 DEF Credential, Integrations
    <2>8. q.op = "reconnect" /\ q.form.secret # "keep" => n.credential = Given(q.form.secret)
      <3>1. SUFFICES ASSUME q.op \in Integrations, q.form.secret # "keep" PROVE x = Given(q.form.secret)
        BY <2>2 DEF Integrations
      <3>2. q.form.secret = "clear" \/ (q.form.secret \in Value /\ q.form.secret \notin {"keep", "clear"})
        BY <2>5, <3>1 DEF Form, Value
      <3>3. CASE q.form.secret = "clear"
        BY <1>2, <2>0, <3>1, <3>3 DEF Credential, NoRow, Given
      <3>4. CASE q.form.secret \in Value /\ q.form.secret \notin {"keep", "clear"}
        <4>1. Credential(b) = Sealed(q.form.secret)
          BY <1>2, <3>1, <3>4 DEF Credential
        <4>2. Sealed(q.form.secret).value = q.form.secret
          BY DEF Sealed
        <4> QED
          BY <2>0, <3>4, <4>1, <4>2 DEF Given
      <3> QED
        BY <3>2, <3>3, <3>4
    <2>6. Sound(n, u)
      BY <1>1, <1>2, <1>3, <2>2, <2>3, <2>4, <2>5, <2>7, <2>8, SecretSound
    <2> QED
      BY <1>4, <2>4, <2>6
  <1>10. CASE MustPass(b)
    <2> DEFINE n == [q EXCEPT !.at = @ + 1]
    <2>1. At(b, "passed") /\ (Fail(b) \/ (req' = [req EXCEPT ![b] = n] /\ q.health = "healthy"))
      BY <1>2, <1>10 DEF MustPass, Pass
    <2>2. /\ n.op = q.op /\ n.at = q.at + 1 /\ n.form = q.form /\ n.stale = q.stale
          /\ n.row = q.row /\ n.credential = q.credential /\ n.health = q.health /\ n.merge = q.merge /\ n.settings = q.settings
      BY <1>3 DEF Request
    <2> HIDE DEF n
    <2>3. SUFFICES ASSUME req' = [req EXCEPT ![b] = n], q.health = "healthy" PROVE RequestsSound'
      BY <1>5, <2>1
    <2>4. Here(q, n, u, "passed") /\ req'[b] = n /\ (\A c \in Browser \ {b} : req'[c] = req[c]) /\ n.at \in Nat
      BY <1>1, <1>2, <2>1, <2>2, <2>3, PassesHere
    <2>5. q.form.id \in Provider /\ rows[q.form.id] \in Row /\ q.form \in Form
      BY <1>1, <1>2, <2>1, AtProvider
    <2>6. Sound(n, u)
      BY <1>1, <1>2, <1>3, <2>2, <2>3, <2>4, <2>5, PassedSound
    <2> QED
      BY <1>4, <2>4, <2>6
  <1>11. CASE FindConflict(b)
    <2> DEFINE n == [q EXCEPT !.at = @ + 1]
    <2>1. At(b, "conflict") /\ (Fail(b) \/ (req' = [req EXCEPT ![b] = n]))
      BY <1>2, <1>11 DEF FindConflict, Pass
    <2>2. /\ n.op = q.op /\ n.at = q.at + 1 /\ n.form = q.form /\ n.stale = q.stale
          /\ n.row = q.row /\ n.credential = q.credential /\ n.health = q.health /\ n.merge = q.merge /\ n.settings = q.settings
      BY <1>3 DEF Request
    <2> HIDE DEF n
    <2>3. SUFFICES ASSUME req' = [req EXCEPT ![b] = n] PROVE RequestsSound'
      BY <1>5, <2>1
    <2>4. Here(q, n, u, "conflict") /\ req'[b] = n /\ (\A c \in Browser \ {b} : req'[c] = req[c]) /\ n.at \in Nat
      BY <1>1, <1>2, <2>1, <2>2, <2>3, PassesHere
    <2>5. q.form.id \in Provider /\ rows[q.form.id] \in Row /\ q.form \in Form
      BY <1>1, <1>2, <2>1, AtProvider
    <2>6. Sound(n, u)
      BY <1>1, <1>2, <1>3, <2>2, <2>3, <2>4, <2>5, SettingsSound
    <2> QED
      BY <1>4, <2>4, <2>6
  <1>12. CASE ReadRow(b)
    <2>0. PICK x : x = rows[q.form.id]
      OBVIOUS
    <2> DEFINE n == [[q EXCEPT !.merge = x] EXCEPT !.at = @ + 1]
    <2>1. At(b, "read") /\ (Fail(b) \/ (req' = [req EXCEPT ![b] = n] /\ Owned(u, q.form.id)))
      BY <1>2, <1>12, <2>0 DEF ReadRow, Pass
    <2>2. /\ n.op = q.op /\ n.at = q.at + 1 /\ n.form = q.form /\ n.stale = q.stale
          /\ n.row = q.row /\ n.credential = q.credential /\ n.health = q.health /\ n.merge = x /\ n.settings = q.settings
      BY <1>3 DEF Request
    <2> HIDE DEF n
    <2>3. SUFFICES ASSUME req' = [req EXCEPT ![b] = n], Owned(u, q.form.id) PROVE RequestsSound'
      BY <1>5, <2>1
    <2>4. Here(q, n, u, "read") /\ req'[b] = n /\ (\A c \in Browser \ {b} : req'[c] = req[c]) /\ n.at \in Nat
      BY <1>1, <1>2, <2>1, <2>2, <2>3, PassesHere
    <2>5. q.form.id \in Provider /\ rows[q.form.id] \in Row /\ q.form \in Form
      BY <1>1, <1>2, <2>1, AtProvider
    <2>6. Sound(n, u)
      BY <1>1, <1>2, <1>3, <2>2, <2>3, <2>4, <2>5, <2>0, ReadSound
    <2> QED
      BY <1>4, <2>4, <2>6
  <1>13. CASE CheckPolicy(b)
    <2> DEFINE n == [q EXCEPT !.at = @ + 1]
    <2>1. At(b, "policy") /\ (Fail(b) \/ (req' = [req EXCEPT ![b] = n] /\ ParsesSettings(q.settings)))
      BY <1>2, <1>13 DEF CheckPolicy, Pass
    <2>2. /\ n.op = q.op /\ n.at = q.at + 1 /\ n.form = q.form /\ n.stale = q.stale
          /\ n.row = q.row /\ n.credential = q.credential /\ n.health = q.health /\ n.merge = q.merge /\ n.settings = q.settings
      BY <1>3 DEF Request
    <2> HIDE DEF n
    <2>3. SUFFICES ASSUME req' = [req EXCEPT ![b] = n], ParsesSettings(q.settings) PROVE RequestsSound'
      BY <1>5, <2>1
    <2>4. Here(q, n, u, "policy") /\ req'[b] = n /\ (\A c \in Browser \ {b} : req'[c] = req[c]) /\ n.at \in Nat
      BY <1>1, <1>2, <2>1, <2>2, <2>3, PassesHere
    <2>5. Sound(n, u)
      BY <1>1, <2>2, <2>3, <2>4, SaveSound
    <2> QED
      BY <1>4, <2>4, <2>5
  <1> QED
    BY <1>6, <1>7, <1>8, <1>9, <1>10, <1>11, <1>12, <1>13

\* The pages send requests that have read nothing; answers, failures and the outside end some or none.
LEMMA PageStepSound ==
  ASSUME Inv, NEW b \in Browser, Page(b) \/ Answer(b) \/ RequestFails(b)
  PROVE  RequestsSound'
  <1>1. UNCHANGED <<rows, settings, verified, doubt, owner>> /\ Typed /\ RequestsSound
    BY DEF Inv, Page, NewProvider, EditProvider, Save, Toggle, CheckHealth, TestIntegration, SaveIntegration,
           EditSettings, SaveSettings, Load, Direct, Answer, RequestFails, tables, outside
  <1>2. req \in [Browser -> Request] /\ req[b] \in Request
    BY <1>1 DEF Typed, RequestsTyped
  <1>3. PICK n : n = req'[b]
    OBVIOUS
  <1>4. ASSUME NEW r, req' = [req EXCEPT ![b] = r]
        PROVE  n = r /\ \A c \in Browser \ {b} : req'[c] = req[c]
    BY <1>2, <1>3, <1>4
  <1>5. PICK u : u = owner[b]
    OBVIOUS
  <1>6. ASSUME n = Idle \/ Sound(n, u)', \A c \in Browser \ {b} : req'[c] = req[c]
        PROVE  RequestsSound'
    <2> HIDE DEF Idle
    <2> QED
      BY <1>1, <1>3, <1>5, <1>6, StepSound
  <1>7. CASE Fail(b)
    <2>1. n = Idle /\ \A c \in Browser \ {b} : req'[c] = req[c]
      BY <1>4, <1>7 DEF Fail
    <2> QED
      BY <1>6, <2>1
  <1>8. CASE UNCHANGED req
    <2>1. n = Idle \/ Sound(n, u)'
      <3> SUFFICES ASSUME n # Idle PROVE Sound(n, u)'
        OBVIOUS
      <3>1. n = req[b] /\ n.at \in Nat
        BY <1>2, <1>3, <1>8 DEF Request
      <3>2. Sound(n, u)
        BY <1>1, <1>5, <3>1 DEF RequestsSound
      <3> QED
        BY <1>1, <3>1, <3>2, SoundStays
    <2> QED
      BY <1>6, <1>8, <2>1
  <1>9. ASSUME NEW r, r.at = 1, req' = [req EXCEPT ![b] = r]
        PROVE  RequestsSound'
    <2>1. n.at = 1 /\ n.at \in Nat /\ \A c \in Browser \ {b} : req'[c] = req[c]
      <3>1. n = r /\ \A c \in Browser \ {b} : req'[c] = req[c]
        BY <1>4, <1>9
      <3> QED
        BY <1>9, <3>1
    <2>2. Sound(n, u)
      BY <2>1, SentIsSound
    <2>3. Sound(n, u)'
      BY <1>1, <2>1, <2>2, SoundStays
    <2> QED
      BY <1>6, <2>1, <2>3
  <1>10. ASSUME NEW op, NEW f, Send(b, op, f)
         PROVE  RequestsSound'
    <2> DEFINE r == [Idle EXCEPT !.op = op, !.at = 1, !.form = f]
    <2>1. r.at = 1
      BY DEF Idle
    <2>2. req' = [req EXCEPT ![b] = r]
      BY <1>10 DEF Send
    <2> HIDE DEF r
    <2> QED
      BY <1>9, <2>1, <2>2
  <1>11. CASE SaveSettings(b)
    <2> DEFINE r == [Idle EXCEPT !.op = "save", !.at = 1, !.settings = draft[b]]
    <2>1. r.at = 1
      BY DEF Idle
    <2>2. req' = [req EXCEPT ![b] = r]
      BY <1>11 DEF SaveSettings
    <2> HIDE DEF r
    <2> QED
      BY <1>9, <2>1, <2>2
  <1>12. CASE Save(b) \/ Toggle(b) \/ CheckHealth(b) \/ TestIntegration(b) \/ SaveIntegration(b) \/ Direct(b)
    <2>1. CASE Save(b)
      BY <1>10, <2>1 DEF Save
    <2>2. CASE Toggle(b)
      BY <1>10, <2>2 DEF Toggle
    <2>3. CASE CheckHealth(b)
      BY <1>10, <2>3 DEF CheckHealth
    <2>4. CASE TestIntegration(b)
      BY <1>10, <2>4 DEF TestIntegration
    <2>5. CASE SaveIntegration(b)
      BY <1>10, <2>5 DEF SaveIntegration
    <2>6. CASE Direct(b)
      BY <1>10, <2>6 DEF Direct
    <2> QED
      BY <1>12, <2>1, <2>2, <2>3, <2>4, <2>5, <2>6
  <1>13. CASE NewProvider(b) \/ EditProvider(b) \/ EditSettings(b) \/ Load(b)
    BY <1>8, <1>13 DEF NewProvider, EditProvider, EditSettings, Load
  <1>14. CASE Answer(b) \/ RequestFails(b)
    BY <1>7, <1>14 DEF Answer, RequestFails
  <1> QED
    BY <1>11, <1>12, <1>13, <1>14 DEF Page

\* A check that passes is of what it asked about.
LEMMA VerifyStep ==
  ASSUME Inv, NEW b \in Browser, VerifyHealth(b)
  PROVE  /\ RequestsSound' /\ verified' \in [Provider -> SUBSET (Config \X Value)]
         /\ \A id \in Provider : verified[id] \subseteq verified'[id]
  <1>1. UNCHANGED <<rows, owner>> /\ Typed /\ RequestsSound /\ RowsKept
        /\ verified \in [Provider -> SUBSET (Config \X Value)]
    BY DEF Inv, VerifyHealth, outside
  <1>2. PICK q, u : q = req[b] /\ u = owner[b]
    OBVIOUS
  <1>3. At(b, "verify")
    BY DEF VerifyHealth
  <1>4. q \in Request /\ q.form.id \in Provider /\ q.form \in Form
    BY <1>1, <1>2, <1>3, AtProvider
  <1>5. PICK x : x = Verify(RequestProtocol(q), Candidate(q), q.credential)
    OBVIOUS
  <1>6. PICK pair : pair = <<Candidate(q), q.credential>>
    OBVIOUS
  <1>7. pair \in Config \X Value
    <2>1. q.form.config \in Config /\ q.row.config \in Config /\ q.credential \in Value
      BY <1>4 DEF Request, Form, Row
    <2> QED
      BY <1>6, <2>1 DEF Candidate
  <1> DEFINE n == [[q EXCEPT !.health = x] EXCEPT !.at = @ + 1]
  <1>8. \/ Fail(b) /\ verified' = verified
        \/ /\ req' = [req EXCEPT ![b] = n]
           /\ verified' = [verified EXCEPT ![q.form.id] = IF x = "healthy" THEN @ \cup {pair} ELSE @]
    BY <1>2, <1>5, <1>6 DEF VerifyHealth, Pass
  <1>9. /\ n.op = q.op /\ n.at = q.at + 1 /\ n.form = q.form /\ n.stale = q.stale
        /\ n.row = q.row /\ n.credential = q.credential /\ n.health = x /\ n.merge = q.merge
    BY <1>4 DEF Request
  <1> HIDE DEF n
  <1>10. verified' \in [Provider -> SUBSET (Config \X Value)]
    BY <1>1, <1>4, <1>7, <1>8
  <1>11. \A id \in Provider : verified[id] \subseteq verified'[id]
    BY <1>1, <1>4, <1>8
  <1>12. RequestsSound'
    <2>1. CASE Fail(b)
      <3>1. req'[b] = Idle /\ \A c \in Browser \ {b} : req'[c] = req[c]
        BY <1>1, <2>1 DEF Fail, Typed, RequestsTyped
      <3> QED
        BY <1>1, <1>11, <3>1, StepSound
    <2>2. CASE /\ req' = [req EXCEPT ![b] = n]
               /\ verified' = [verified EXCEPT ![q.form.id] = IF x = "healthy" THEN @ \cup {pair} ELSE @]
      <3>1. Here(q, n, u, "verify") /\ req'[b] = n /\ (\A c \in Browser \ {b} : req'[c] = req[c])
        BY <1>1, <1>2, <1>3, <1>9, <2>2, PassesHere
      <3>2. n.health = "healthy" => pair \in verified'[q.form.id]
        BY <1>1, <1>4, <1>9, <2>2
      <3>3. Sound(n, u)'
        BY <1>1, <1>4, <1>5, <1>6, <1>9, <3>1, <3>2, VerifySound
      <3> QED
        BY <1>1, <1>2, <1>11, <3>1, <3>3, StepSound
    <2> QED
      BY <1>8, <2>1, <2>2
  <1> QED
    BY <1>10, <1>11, <1>12

-----------------------------------------------------------------------------
(* The statements that write *)

\* What no step may do to a row (the two action properties, of one step).
OwnersStay ==
  \A id \in Provider :
    /\ rows[id] # NoRow => rows'[id].owner = rows[id].owner /\ rows'[id].protocol = rows[id].protocol
    /\ System(id) => rows'[id] = rows[id]
EnabledByOwner ==
  \A id \in Provider :
    (rows[id] # NoRow /\ rows[id].status = "disabled" /\ rows'[id].status = "active") =>
      \E b \in Browser : req[b].op = "enable" /\ req[b].form.id = id /\ Owned(owner[b], id) /\ req[b].health = "healthy"
Good == RequestsSound' /\ RowsKept' /\ HealthVerified' /\ OwnersStay /\ EnabledByOwner

\* A step that writes no row, and forgets no check that passed, does none of it.
LEMMA NoRowWritten ==
  ASSUME Inv, UNCHANGED <<rows, doubt>>, \A id \in Provider : verified[id] \subseteq verified'[id]
  PROVE  RowsKept' /\ HealthVerified' /\ OwnersStay /\ EnabledByOwner
  <1>1. RowsKept'
    BY DEF Inv, RowsKept, System
  <1>2. HealthVerified'
    BY DEF Inv, HealthVerified
  <1>3. OwnersStay /\ EnabledByOwner
    <2>1. \A id \in Provider : rows[id].status = "disabled" => rows'[id].status # "active"
      OBVIOUS
    <2> QED
      BY <2>1 DEF OwnersStay, EnabledByOwner
  <1> QED
    BY <1>1, <1>2, <1>3

\* What a request that writes starts from.
LEMMA Writer ==
  ASSUME Inv, NEW b \in Browser, NEW stage \in {"insert", "write", "record", "status"}, At(b, stage)
  PROVE  /\ req[b] # Idle /\ req[b] \in Request /\ Placed(req[b]) /\ Steps[req[b].op][req[b].at] = stage
         /\ req[b].form \in Form /\ req[b].form.id \in Provider /\ rows[req[b].form.id] \in Row
         /\ Sound(req[b], owner[b]) /\ owner[b] \in Wallet /\ owner[b] \notin {"none", "system"}
         /\ rows \in [Provider -> Row] /\ req \in [Browser -> Request]
  <1>1. Typed /\ RequestsSound
    BY DEF Inv
  <1>2. owner[b] \in Wallet /\ rows \in [Provider -> Row] /\ req \in [Browser -> Request]
    BY <1>1 DEF Typed, OutsideTyped, TablesTyped, RequestsTyped
  <1> QED
    BY <1>1, <1>2, AtProvider, WalletAssumption DEF RequestsSound

\* A request that writes passes to its next statement.
LEMMA WriterPasses ==
  ASSUME Inv, NEW b \in Browser, NEW stage \in {"insert", "record", "status", "save"}, At(b, stage), Pass(b, req[b])
  PROVE  \E n : /\ Here(req[b], n, owner[b], stage) /\ req'[b] = n /\ \A c \in Browser \ {b} : req'[c] = req[c]
                /\ n.row = req[b].row /\ n.credential = req[b].credential /\ n.health = req[b].health
                /\ n.merge = req[b].merge /\ n.settings = req[b].settings /\ n.at \in Nat
  <1>1. Typed /\ RequestsSound
    BY DEF Inv
  <1>2. PICK q : q = req[b]
    OBVIOUS
  <1>3. q \in Request
    BY <1>1, <1>2 DEF Typed, RequestsTyped
  <1> DEFINE n == [q EXCEPT !.at = @ + 1]
  <1>4. /\ n.op = q.op /\ n.at = q.at + 1 /\ n.form = q.form /\ n.stale = q.stale /\ n.row = q.row
        /\ n.credential = q.credential /\ n.health = q.health /\ n.merge = q.merge /\ n.settings = q.settings
    BY <1>3 DEF Request
  <1>5. req' = [req EXCEPT ![b] = n]
    BY <1>2 DEF Pass
  <1> HIDE DEF n
  <1>6. Here(q, n, owner[b], stage) /\ req'[b] = n /\ (\A c \in Browser \ {b} : req'[c] = req[c]) /\ n.at \in Nat
    BY <1>1, <1>2, <1>4, <1>5, PassesHere
  <1> QED
    BY <1>2, <1>4, <1>6

\* A failing request touches nothing.
LEMMA WriterFails ==
  ASSUME Inv, NEW b \in Browser, Fail(b), UNCHANGED <<rows, verified, doubt, owner>>
  PROVE  Good
  <1>1. Typed /\ RequestsSound
    BY DEF Inv
  <1>2. req'[b] = Idle /\ \A c \in Browser \ {b} : req'[c] = req[c]
    BY <1>1 DEF Fail, Typed, RequestsTyped
  <1>3. RequestsSound'
    BY <1>1, <1>2, StepSound
  <1> QED
    BY <1>3, NoRowWritten DEF Good

\* createProvider: the id was free.
LEMMA CreateGood ==
  ASSUME Inv, NEW b \in Browser, CreateProvider(b)
  PROVE  Good
  <1>1. PICK q, u, id : q = req[b] /\ u = owner[b] /\ id = q.form.id
    OBVIOUS
  <1>2. At(b, "insert") /\ UNCHANGED <<verified, doubt, owner>>
    BY DEF CreateProvider, outside
  <1>3. /\ q \in Request /\ q.form \in Form /\ id \in Provider /\ u \in Wallet /\ u \notin {"none", "system"}
        /\ rows \in [Provider -> Row]
    BY <1>1, <1>2, Writer
  <1>4. CASE Fail(b) /\ UNCHANGED rows
    BY <1>2, <1>4, WriterFails
  <1>5. CASE rows[id] = NoRow /\ rows' = [rows EXCEPT ![id] = NewRow(b)] /\ Pass(b, q)
    <2>1. PICK row : row = NewRow(b)
      OBVIOUS
    <2>2. /\ row.owner = u /\ row.config = q.form.config /\ row.secret.value = q.credential
          /\ row.protocol # "demo" => row.health = "unknown"
      BY <1>1, <2>1 DEF NewRow, Sealed
    <2>3. rows'[id] = row /\ \A p \in Provider \ {id} : rows'[p] = rows[p]
      BY <1>3, <1>5, <2>1
    <2>4. PICK n : /\ Here(q, n, u, "insert") /\ req'[b] = n /\ \A c \in Browser \ {b} : req'[c] = req[c]
                   /\ n.credential = q.credential /\ n.health = q.health
      BY <1>1, <1>2, <1>5, WriterPasses
    <2>5. Sound(n, u)'
      BY <1>1, <1>2, <2>2, <2>3, <2>4, InsertSound
    <2>6. ASSUME NEW c \in Browser \ {b}, req[c] # Idle, Reached(req[c])
          PROVE  req[c].form.id \in Provider \ {id}
      <3>1. Sound(req[c], owner[c]) /\ owner[c] \in Wallet /\ req[c].form.id \in Provider
        BY <2>6, AboutProvider DEF Inv, RequestsSound, Typed, OutsideTyped
      <3>2. rows[req[c].form.id] # NoRow
        BY <2>6, <3>1, ReachedIsThere
      <3> QED
        BY <1>5, <3>1, <3>2
    <2>7. RequestsSound'
      BY <1>1, <1>2, <2>3, <2>4, <2>5, <2>6, StepSound DEF Inv
    <2>8. RowsKept'
      BY <1>3, <2>2, <2>3 DEF Inv, RowsKept, System
    <2>9. HealthVerified'
      BY <1>2, <2>2, <2>3 DEF Inv, HealthVerified
    <2>10. OwnersStay
      <3>1. ~System(id)
        BY <1>5 DEF System, NoRow
      <3> QED
        BY <1>5, <2>3, <3>1 DEF OwnersStay
    <2>11. EnabledByOwner
      <3>1. \A p \in Provider : rows[p] # NoRow /\ rows[p].status = "disabled" => rows'[p].status # "active"
        BY <1>5, <2>3
      <3> QED
        BY <3>1 DEF EnabledByOwner
    <2> QED
      BY <2>7, <2>8, <2>9, <2>10, <2>11 DEF Good
  <1> QED
    BY <1>1, <1>4, <1>5 DEF CreateProvider, Taken

\* updateProvider: only the wallet's own row; every request that has read it now doubts what it read.
LEMMA UpdateGood ==
  ASSUME Inv, NEW b \in Browser, UpdateProvider(b)
  PROVE  Good
  <1>1. PICK q, u, id : q = req[b] /\ u = owner[b] /\ id = q.form.id
    OBVIOUS
  <1>2. At(b, "write") /\ UNCHANGED <<verified, doubt, owner>> /\ rows' = [rows EXCEPT ![id] = Written(@, q)]
    BY <1>1 DEF UpdateProvider, outside
  <1>3. req' = [c \in Browser |-> IF c = b THEN [q EXCEPT !.at = @ + 1]
                                  ELSE IF c \in Overlapping(b, id) THEN [req[c] EXCEPT !.stale = TRUE] ELSE req[c]]
    BY <1>1 DEF UpdateProvider
  <1>4. /\ q \in Request /\ Placed(q) /\ Steps[q.op][q.at] = "write" /\ q # Idle
        /\ q.form \in Form /\ id \in Provider /\ u \in Wallet /\ u \notin {"none", "system"}
        /\ rows \in [Provider -> Row] /\ rows[id] \in Row /\ Sound(q, u)
    BY <1>1, <1>2, Writer
  <1>5. Owned(u, id) /\ ~System(id) /\ rows[id] # NoRow
    <2>1. Reached(q) /\ q.op # "check"
      BY <1>4, Positions DEF Placed, Reached
    <2>2. Owned(u, id)
      BY <1>1, <1>4, <2>1 DEF Sound, Allowed
    <2> QED
      BY <1>4, <2>2 DEF Owned, System, NoRow
  <1>6. PICK row : row = Written(rows[id], q)
    OBVIOUS
  <1>7. rows'[id] = row /\ \A p \in Provider \ {id} : rows'[p] = rows[p]
    BY <1>2, <1>4, <1>6
  <1>8. PICK config, secret : config = q.form.config /\ secret = NewSecret(q)
    OBVIOUS
  <1>9. row = [rows[id] EXCEPT !.config = config, !.secret = secret,
                               !.health = IF rows[id].protocol = "demo" THEN @ ELSE "unknown"]
    BY <1>6, <1>8 DEF Written
  <1>10. /\ row.owner = rows[id].owner /\ row.protocol = rows[id].protocol /\ row.config = config
         /\ row.secret = secret /\ row.status = rows[id].status
         /\ row.protocol # "demo" => row.health = "unknown"
    BY <1>4, <1>9 DEF Row
  <1>11. NoRow.secret.value = "none"
         /\ secret.value = (IF q.form.secret = "keep" THEN q.merge.secret.value ELSE Given(q.form.secret))
    <2>1. NoRow.secret.value = "none"
      BY DEF NoRow
    <2>2. CASE q.form.secret \in {"keep", "clear"}
      BY <1>8, <2>1, <2>2 DEF NewSecret, Given
    <2>3. CASE q.form.secret \notin {"keep", "clear"}
      <3>1. secret = Sealed(q.form.secret)
        BY <1>8, <2>3 DEF NewSecret
      <3> QED
        BY <2>1, <2>3, <3>1 DEF Sealed, Given
    <2> QED
      BY <2>1, <2>2, <2>3
  <1>12. RequestsSound'
    <2>1. ASSUME NEW c \in Browser, NEW r, r = req'[c], NEW v, v = owner'[c], r # Idle
          PROVE  Sound(r, v)'
      <3>1. PICK o : o = req[c]
        OBVIOUS
      <3>2. o \in Request /\ (o # Idle => Sound(o, v) /\ o.at \in Nat /\ o.at >= 1) /\ v = owner[c]
        <4>1. o \in Request /\ v = owner[c]
          BY <1>2, <2>1, <3>1 DEF Inv, Typed, RequestsTyped
        <4>2. ASSUME o # Idle PROVE Sound(o, v) /\ o.at \in Nat /\ o.at >= 1
          <5>1. Placed(o) /\ Sound(o, v)
            BY <3>1, <4>1, <4>2 DEF Inv, Typed, RequestsTyped, RequestsSound
          <5> QED
            BY <5>1, Positions DEF Placed
        <4> QED
          BY <4>1, <4>2
      <3>3. CASE c = b
        <4>1. r = [q EXCEPT !.at = @ + 1] /\ v = u
          BY <1>1, <1>3, <2>1, <3>2, <3>3
        <4>2. /\ r.op = q.op /\ r.at = q.at + 1 /\ r.form = q.form /\ r.stale = q.stale
              /\ r.credential = q.credential /\ r.health = q.health /\ r.merge = q.merge
          BY <1>4, <4>1 DEF Request
        <4>3. Here(q, r, u, "write")
          BY <1>4, <4>2 DEF Here
        <4> QED
          <5>1. /\ rows'[q.form.id].owner = rows[q.form.id].owner /\ rows'[q.form.id].config = q.form.config
                /\ rows'[q.form.id].secret.value = (IF q.form.secret = "keep" THEN q.merge.secret.value
                                                   ELSE Given(q.form.secret))
            BY <1>1, <1>7, <1>8, <1>10, <1>11
          <5>2. Owned(u, q.form.id) /\ u # "system" /\ UNCHANGED verified /\ NoRow.secret.value = "none"
            BY <1>1, <1>2, <1>4, <1>5, <1>11
          <5>3. Sound(r, u)'
            BY <4>2, <4>3, <5>1, <5>2, WriteSound
          <5> QED
            BY <4>1, <5>3
      <3>4. CASE c # b /\ c \in Overlapping(b, id)
        <4>1. r = [o EXCEPT !.stale = TRUE] /\ o # Idle /\ o.form.id = id
          BY <1>3, <2>1, <3>1, <3>4 DEF Overlapping
        <4>2. /\ r.op = o.op /\ r.at = o.at /\ r.form = o.form /\ r.row = o.row /\ r.settings = o.settings
              /\ r.credential = o.credential /\ r.health = o.health /\ r.merge = o.merge /\ r.stale = TRUE
          BY <3>2, <4>1 DEF Request
        <4>3. /\ ~System(o.form.id) /\ rows'[o.form.id].owner = rows[o.form.id].owner
              /\ rows'[o.form.id].protocol = rows[o.form.id].protocol
          BY <1>5, <1>7, <1>10, <4>1
        <4> QED
          BY <1>2, <3>2, <4>1, <4>2, <4>3, GoesStale
      <3>5. CASE c # b /\ c \notin Overlapping(b, id)
        <4>1. r = o /\ o # Idle /\ (o.form.id = id => ~(o.at > 1))
          BY <1>3, <2>1, <3>1, <3>5 DEF Overlapping
        <4>2. ASSUME Reached(o)
              PROVE  /\ rows'[o.form.id].owner = rows[o.form.id].owner
                     /\ rows'[o.form.id].protocol = rows[o.form.id].protocol
                     /\ rows'[o.form.id].config = rows[o.form.id].config
                     /\ rows'[o.form.id].secret = rows[o.form.id].secret
          <5>1. o.form.id \in Provider
            BY <3>1, <4>1, <4>2, AboutProvider DEF Inv
          <5>2. o.at > 1
            BY <3>2, <4>1, <4>2 DEF Reached
          <5> QED
            BY <1>7, <4>1, <5>1, <5>2
        <4> QED
          BY <1>2, <3>2, <4>1, <4>2, Stays
      <3> QED
        BY <3>3, <3>4, <3>5
    <2> QED
      BY <2>1 DEF RequestsSound
  <1>13. RowsKept'
    BY <1>4, <1>5, <1>7, <1>10 DEF Inv, RowsKept, System, Owned
  <1>14. HealthVerified'
    BY <1>2, <1>7, <1>10 DEF Inv, HealthVerified
  <1>15. OwnersStay
    BY <1>5, <1>7, <1>10 DEF OwnersStay
  <1>16. EnabledByOwner
    <2>1. \A p \in Provider : rows[p].status = "disabled" => rows'[p].status # "active"
      BY <1>7, <1>10
    <2> QED
      BY <2>1 DEF EnabledByOwner
  <1> QED
    BY <1>12, <1>13, <1>14, <1>15, <1>16 DEF Good

\* recordHealth: a result that is recorded without a doubt is of what the row holds, and a built-in row
\* is healthy again.
LEMMA RecordGood ==
  ASSUME Inv, NEW b \in Browser, RecordHealth(b)
  PROVE  Good
  <1>1. PICK q, u, id : q = req[b] /\ u = owner[b] /\ id = q.form.id
    OBVIOUS
  <1>2. At(b, "record") /\ UNCHANGED <<verified, owner>> /\ rows' = [rows EXCEPT ![id].health = q.health]
        /\ doubt' = (IF q.stale THEN doubt \cup {id} ELSE doubt \ {id}) /\ Pass(b, q) /\ Visible(u, id)
    BY <1>1 DEF RecordHealth, outside
  <1>3. /\ q \in Request /\ Placed(q) /\ Steps[q.op][q.at] = "record" /\ id \in Provider
        /\ u \in Wallet /\ u \notin {"none", "system"}
        /\ rows \in [Provider -> Row] /\ rows[id] \in Row /\ Sound(q, u) /\ q.stale \in BOOLEAN
    <2>1. /\ q \in Request /\ Placed(q) /\ Steps[q.op][q.at] = "record" /\ id \in Provider
          /\ u \in Wallet /\ u \notin {"none", "system"}
          /\ rows \in [Provider -> Row] /\ rows[id] \in Row /\ Sound(q, u)
      BY <1>1, <1>2, Writer
    <2> QED
      BY <2>1 DEF Request
  <1>4. \/ q.op = "check" /\ q.at = 4
        \/ q.op = "enable" /\ q.at = 5
        \/ q.op = "connect" /\ q.at = 7
        \/ q.op = "reconnect" /\ q.at = 9
    BY <1>3, Positions DEF Placed
  <1>5. PICK row : row = [rows[id] EXCEPT !.health = q.health]
    OBVIOUS
  <1>6. rows'[id] = row /\ \A p \in Provider \ {id} : rows'[p] = rows[p]
    BY <1>2, <1>3, <1>5
  <1>7. /\ row.owner = rows[id].owner /\ row.protocol = rows[id].protocol /\ row.config = rows[id].config
        /\ row.secret = rows[id].secret /\ row.status = rows[id].status /\ row.health = q.health
    BY <1>3, <1>5 DEF Row
  <1>8. rows[id] # NoRow
    BY <1>1, <1>3, <1>4, ReachedIsThere DEF Reached
  <1>9. System(id) => row = rows[id]
    <2>1. SUFFICES ASSUME System(id) PROVE row = rows[id]
      OBVIOUS
    <2>2. q.op = "check"
      BY <1>1, <1>3, <1>4, <2>1 DEF Sound, Allowed, Reached, Owned, System
    <2>3. q.health = "healthy"
      BY <1>1, <1>3, <1>4, <2>1, <2>2 DEF Sound, Passed
    <2>4. rows[id].health = "healthy"
      BY <1>3, <2>1 DEF Inv, RowsKept
    <2> QED
      BY <1>3, <1>5, <2>3, <2>4 DEF Row
  <1>10. RequestsSound'
    <2>1. PICK n : /\ Here(q, n, u, "record") /\ req'[b] = n /\ \A c \in Browser \ {b} : req'[c] = req[c]
                   /\ n.row = q.row /\ n.credential = q.credential /\ n.health = q.health /\ n.merge = q.merge
                   /\ n.at \in Nat
      BY <1>1, <1>2, WriterPasses
    <2>2. Sound(n, u)
      BY <2>1, RecordSound
    <2>3. \A p \in Provider : /\ rows'[p].owner = rows[p].owner /\ rows'[p].protocol = rows[p].protocol
                              /\ rows'[p].config = rows[p].config /\ rows'[p].secret = rows[p].secret
      BY <1>6, <1>7
    <2>4. n.form.id = id
      BY <1>1, <2>1 DEF Here
    <2>5. Sound(n, u)'
      BY <1>2, <1>3, <2>1, <2>2, <2>3, <2>4, Stays
    <2>6. \A c \in Browser \ {b} : (req[c] # Idle /\ Reached(req[c])) => req[c].form.id \in Provider
      BY AboutProvider DEF Inv
    <2>7. Typed /\ RequestsSound
      BY DEF Inv
    <2> QED
      BY <1>1, <1>2, <2>1, <2>3, <2>5, <2>6, <2>7, StepSound
  <1>11. RowsKept'
    <2>1. \A p \in Provider : rows'[p].owner = rows[p].owner /\ (System(p) => rows'[p] = rows[p])
      BY <1>6, <1>7, <1>9
    <2>2. \A p \in Provider : rows[p].owner = "none" => rows'[p] = rows[p]
      BY <1>6, <1>8 DEF Inv, RowsKept
    <2> QED
      BY <2>1, <2>2 DEF Inv, RowsKept, System
  <1>12. HealthVerified'
    <2>1. SUFFICES ASSUME row.protocol # "demo", row.health = "healthy", id \notin doubt'
                   PROVE  <<row.config, row.secret.value>> \in verified[id]
      BY <1>2, <1>3, <1>6 DEF Inv, HealthVerified
    <2>2. q.stale = FALSE /\ q.health = "healthy"
      BY <1>2, <1>3, <1>7, <2>1
    <2>3. ~System(id)
      BY <1>3, <1>7, <2>1 DEF Inv, RowsKept
    <2>4. <<Candidate(q), q.credential>> \in verified[id]
      BY <1>1, <1>3, <1>4, <2>2 DEF Sound, Verified, Checked
    <2>5. Candidate(q) = rows[id].config /\ q.credential = rows[id].secret.value
      <3>1. CASE q.op \in {"check", "enable"}
        <4>1. q.row.config = rows[id].config
          BY <1>1, <1>3, <1>4, <2>2, <3>1 DEF Sound, RowRead, ReadsRow
        <4>2. q.credential = rows[id].secret.value
          BY <1>1, <1>3, <1>4, <2>2, <2>3, <3>1 DEF Sound, SecretRead, ReadsSecret
        <4> QED
          BY <3>1, <4>1, <4>2 DEF Candidate
      <3>2. CASE q.op \in {"connect", "reconnect"}
        <4>1. rows[id].config = q.form.config /\ rows[id].secret.value = q.credential
          BY <1>1, <1>3, <1>4, <2>2, <3>2 DEF Sound, Wrote
        <4> QED
          BY <3>2, <4>1 DEF Candidate
      <3> QED
        BY <1>4, <3>1, <3>2
    <2> QED
      BY <1>7, <2>4, <2>5
  <1>13. OwnersStay
    BY <1>6, <1>7, <1>9 DEF OwnersStay
  <1>14. EnabledByOwner
    <2>1. \A p \in Provider : rows[p].status = "disabled" => rows'[p].status # "active"
      BY <1>6, <1>7
    <2> QED
      BY <2>1 DEF EnabledByOwner
  <1> QED
    BY <1>10, <1>11, <1>12, <1>13, <1>14 DEF Good

\* setStatus: only the wallet's own row, and only an enabling that has passed its check makes it active.
LEMMA StatusGood ==
  ASSUME Inv, NEW b \in Browser, SetStatus(b)
  PROVE  Good
  <1>1. PICK q, u, id : q = req[b] /\ u = owner[b] /\ id = q.form.id
    OBVIOUS
  <1>2. At(b, "status") /\ UNCHANGED <<verified, doubt, owner>>
    BY DEF SetStatus, outside
  <1>3. /\ q \in Request /\ Placed(q) /\ Steps[q.op][q.at] = "status" /\ id \in Provider
        /\ u \in Wallet /\ u \notin {"none", "system"} /\ rows \in [Provider -> Row] /\ rows[id] \in Row
        /\ Sound(q, u)
    BY <1>1, <1>2, Writer
  <1>4. (q.op = "disable" /\ q.at = 1) \/ (q.op = "enable" /\ q.at = 7)
    BY <1>3, Positions DEF Placed
  <1>5. CASE Fail(b) /\ UNCHANGED rows
    BY <1>2, <1>5, WriterFails
  <1> DEFINE status == IF q.op = "enable" THEN "active" ELSE "disabled"
  <1>6. CASE Owned(u, id) /\ rows' = [rows EXCEPT ![id].status = status] /\ Pass(b, q)
    <2>1. PICK row : row = [rows[id] EXCEPT !.status = status]
      OBVIOUS
    <2>2. rows'[id] = row /\ \A p \in Provider \ {id} : rows'[p] = rows[p]
      BY <1>3, <1>6, <2>1
    <2>3. /\ row.owner = rows[id].owner /\ row.protocol = rows[id].protocol /\ row.config = rows[id].config
          /\ row.secret = rows[id].secret /\ row.health = rows[id].health /\ row.status = status
      BY <1>3, <2>1 DEF Row
    <2>4. rows[id] # NoRow /\ ~System(id)
      BY <1>3, <1>6 DEF Owned, System, NoRow
    <2>5. RequestsSound'
      <3>1. PICK n : /\ Here(q, n, u, "status") /\ req'[b] = n /\ \A c \in Browser \ {b} : req'[c] = req[c]
                     /\ n.row = q.row /\ n.credential = q.credential /\ n.health = q.health /\ n.merge = q.merge
                     /\ n.at \in Nat
        BY <1>1, <1>2, <1>6, WriterPasses
      <3>2. Sound(n, u)
        BY <3>1, RecordSound
      <3>3. \A p \in Provider : /\ rows'[p].owner = rows[p].owner /\ rows'[p].protocol = rows[p].protocol
                                /\ rows'[p].config = rows[p].config /\ rows'[p].secret = rows[p].secret
        BY <2>2, <2>3
      <3>4. n.form.id = id
        BY <1>1, <3>1 DEF Here
      <3>5. Sound(n, u)'
        BY <1>2, <1>3, <3>1, <3>2, <3>3, <3>4, Stays
      <3>6. \A c \in Browser \ {b} : (req[c] # Idle /\ Reached(req[c])) => req[c].form.id \in Provider
        BY AboutProvider DEF Inv
      <3>7. Typed /\ RequestsSound
        BY DEF Inv
      <3> QED
        BY <1>1, <1>2, <3>1, <3>3, <3>5, <3>6, <3>7, StepSound
    <2>6. RowsKept'
      BY <2>2, <2>3, <2>4, <1>3, <1>6 DEF Inv, RowsKept, System, Owned
    <2>7. HealthVerified'
      BY <1>2, <2>2, <2>3 DEF Inv, HealthVerified
    <2>8. OwnersStay
      BY <2>2, <2>3, <2>4 DEF OwnersStay
    <2>9. EnabledByOwner
      <3>1. SUFFICES ASSUME row.status = "active"
                     PROVE  q.op = "enable" /\ q.form.id = id /\ Owned(u, id) /\ q.health = "healthy"
        BY <1>1, <2>2 DEF EnabledByOwner
      <3>2. q.op = "enable" /\ q.at = 7
        BY <1>4, <2>3, <3>1
      <3>3. q.health = "healthy"
        BY <1>3, <3>2 DEF Sound, Passed
      <3> QED
        BY <1>1, <1>6, <3>2, <3>3
    <2> QED
      BY <2>5, <2>6, <2>7, <2>8, <2>9 DEF Good
  <1> QED
    BY <1>1, <1>5, <1>6 DEF SetStatus, MayChange

\* The settings that are stored have been parsed.
LEMMA StoreGood ==
  ASSUME Inv, NEW b \in Browser, StoreSettings(b)
  PROVE  Good /\ SettingsParse'
  <1>1. PICK q, u : q = req[b] /\ u = owner[b]
    OBVIOUS
  <1>2. At(b, "save") /\ Pass(b, q) /\ UNCHANGED <<rows, verified, doubt, owner>>
        /\ settings' = [settings EXCEPT ![u] = q.settings]
    BY <1>1 DEF StoreSettings, outside
  <1>3. Placed(q) /\ Steps[q.op][q.at] = "save" /\ Sound(q, u) /\ Typed /\ RequestsSound
    BY <1>1, <1>2, AtStatement DEF Inv, Typed, RequestsSound
  <1>4. q.op = "save" /\ q.at = 2
    BY <1>3, Positions DEF Placed
  <1>5. ParsesSettings(q.settings)
    BY <1>3, <1>4 DEF Sound, Passed
  <1>6. settings \in [Wallet -> AccountSettings]
    BY <1>3 DEF Typed, TablesTyped
  <1>7. SettingsParse'
    BY <1>2, <1>5, <1>6 DEF Inv, SettingsParse, ParsesSettings
  <1>8. PICK n : /\ Here(q, n, u, "save") /\ req'[b] = n /\ \A c \in Browser \ {b} : req'[c] = req[c]
                 /\ n.settings = q.settings /\ n.at \in Nat
    BY <1>1, <1>2, WriterPasses
  <1>9. Sound(n, u)
    BY <1>8, SaveSound
  <1>10. Sound(n, u)'
    BY <1>2, <1>8, <1>9, SoundStays
  <1>11. RequestsSound'
    BY <1>1, <1>2, <1>3, <1>8, <1>10, StepSound
  <1> QED
    BY <1>2, <1>7, <1>11, NoRowWritten DEF Good

-----------------------------------------------------------------------------
(* The invariant *)

\* What the scenes hold at first has been checked, and nobody waits for a request.
LEMMA InitInv == Init => Inv
  <1> SUFFICES ASSUME Init PROVE Inv
    OBVIOUS
  <1>1. PICK scene \in Scenes :
          /\ rows = scene.rows /\ settings = scene.settings /\ req = [b \in Browser |-> Idle]
          /\ verified = [id \in Provider |-> IF rows[id].health = "healthy"
                                             THEN {<<rows[id].config, rows[id].secret.value>>} ELSE {}]
    BY DEF Init
  <1>2. SceneOK(scene)
    BY SceneAssumption
  <1>3. Typed
    BY InitTyped
  <1>4. RowsKept /\ SettingsParse
    BY <1>1, <1>2 DEF SceneOK, RowsKept, System, SettingsParse
  <1>5. RequestsSound
    BY <1>1 DEF RequestsSound
  <1>6. \A id \in Provider : rows[id].config \in Config /\ rows[id].secret.value \in Value
    BY <1>3 DEF Typed, TablesTyped, Row
  <1>7. verified \in [Provider -> SUBSET (Config \X Value)]
    BY <1>1, <1>6
  <1>8. HealthVerified
    BY <1>1 DEF HealthVerified
  <1> QED
    BY <1>3, <1>4, <1>5, <1>7, <1>8 DEF Inv

\* A step that leaves the requests, the rows and what was verified alone does none of it.
LEMMA OutsideGood ==
  ASSUME Inv, UNCHANGED <<rows, verified, doubt, owner, req>>
  PROVE  Good
  <1>1. ASSUME NEW c \in Browser, NEW r, r = req'[c], NEW u, u = owner'[c], r # Idle
        PROVE  Sound(r, u)'
    <2>1. Sound(r, u) /\ r.at \in Nat
      BY <1>1 DEF Inv, RequestsSound, Typed, RequestsTyped, Request
    <2> QED
      BY <2>1, SoundStays
  <1>2. RequestsSound'
    BY <1>1 DEF RequestsSound
  <1> QED
    BY <1>2, NoRowWritten DEF Good

\* Every step keeps the invariant, and what no step may do to a row.
LEMMA StepGood ==
  ASSUME Inv, [Next]_vars
  PROVE  Good /\ SettingsParse' /\ verified' \in [Provider -> SUBSET (Config \X Value)]
  <1> DEFINE Pairs == [Provider -> SUBSET (Config \X Value)]
  <1>1. verified \in Pairs /\ SettingsParse
    BY DEF Inv
  <1>2. UNCHANGED settings => SettingsParse'
    BY <1>1 DEF SettingsParse, ParsesSettings
  <1>3. UNCHANGED verified => verified' \in Pairs
    BY <1>1
  <1> HIDE DEF Pairs
  <1>4. CASE UNCHANGED vars \/ (\E e \in Endpoint : EndpointChanges(e)) \/ ArchivePolicy \/ ChangeKey
    <2>1. UNCHANGED <<rows, verified, doubt, owner, req>> /\ UNCHANGED settings
      BY <1>4 DEF EndpointChanges, ArchivePolicy, ChangeKey, vars, tables, outside
    <2> QED
      BY <1>2, <1>3, <2>1, OutsideGood DEF Pairs
  <1>5. ASSUME NEW b \in Browser, Page(b) \/ Registry(b) \/ Settings(b) \/ Answer(b) \/ RequestFails(b)
        PROVE  Good /\ SettingsParse' /\ verified' \in Pairs
    <2>1. CASE Page(b) \/ Answer(b) \/ RequestFails(b)
      <3>1. UNCHANGED <<rows, settings, verified, doubt>>
        BY <2>1 DEF Page, NewProvider, EditProvider, Save, Toggle, CheckHealth, TestIntegration, SaveIntegration,
                    EditSettings, SaveSettings, Load, Direct, Answer, RequestFails, tables
      <3> QED
        BY <1>2, <1>3, <2>1, <3>1, PageStepSound, NoRowWritten DEF Good
    <2>2. CASE \/ Parse(b) \/ Get(b) \/ ReadSettings(b) \/ ReadSecret(b) \/ MustPass(b) \/ FindConflict(b)
               \/ ReadRow(b) \/ CheckPolicy(b)
      <3>1. UNCHANGED <<rows, settings, verified, doubt>>
        BY <2>2 DEF Parse, Get, ReadSettings, ReadSecret, MustPass, FindConflict, ReadRow, CheckPolicy, tables
      <3> QED
        BY <1>2, <1>3, <2>2, <3>1, ReadStepSound, NoRowWritten DEF Good
    <2>3. CASE VerifyHealth(b)
      <3>1. UNCHANGED <<rows, settings, doubt>>
        BY <2>3 DEF VerifyHealth
      <3> QED
        BY <1>2, <2>3, <3>1, VerifyStep, NoRowWritten DEF Good, Pairs
    <2>4. CASE CreateProvider(b) \/ UpdateProvider(b) \/ RecordHealth(b) \/ SetStatus(b)
      <3>1. UNCHANGED <<settings, verified>>
        BY <2>4 DEF CreateProvider, UpdateProvider, RecordHealth, SetStatus
      <3> QED
        BY <1>2, <1>3, <2>4, <3>1, CreateGood, UpdateGood, RecordGood, StatusGood
    <2>5. CASE StoreSettings(b)
      <3>1. UNCHANGED verified
        BY <2>5 DEF StoreSettings
      <3> QED
        BY <1>3, <2>5, <3>1, StoreGood
    <2> QED
      BY <1>5, <2>1, <2>2, <2>3, <2>4, <2>5 DEF Registry, Settings
  <1> QED
    BY <1>4, <1>5 DEF Next, Pairs

\* The invariant of the specification.
THEOREM Invariant == Spec => []Inv
  <1>1. Init => Inv
    BY InitInv
  <1>2. Inv /\ [Next]_vars => Inv'
    <2> SUFFICES ASSUME Inv, [Next]_vars PROVE Inv'
      OBVIOUS
    <2>1. Typed'
      BY NextTyped DEF Inv
    <2> QED
      BY <2>1, StepGood DEF Good, Inv
  <1> QED
    BY <1>1, <1>2, PTL DEF Spec

\* Every variable keeps its type, whatever requests run and fail (mapProvider, parseAccountSettings).
THEOREM TypeCorrect == Spec => []TypeOK
  <1>1. Inv => TypeOK
    <2> SUFFICES ASSUME Inv PROVE TypeOK
      OBVIOUS
    <2>1. TablesTyped /\ OutsideTyped /\ PagesTyped /\ RequestsTyped /\ RowsKept /\ SettingsParse
      BY DEF Inv, Typed
    <2>2. \A id \in Provider : rows[id] \in Row /\ (rows[id].owner = "none" => rows[id] = NoRow)
      BY <2>1 DEF TablesTyped, RowsKept
    <2>3. \A u \in Wallet : settings[u] \in AccountSettings /\ ParsesSettings(settings[u])
      BY <2>1 DEF TablesTyped, SettingsParse
    <2>4. \A b \in Browser : req[b] = Idle \/ req[b].at \in 1..Len(Steps[req[b].op])
      BY <2>1 DEF RequestsTyped, Placed
    <2>5. \A b \in Browser, id \in Provider : shown[b][id] \in Row
      BY <2>1 DEF PagesTyped
    <2>6. \A b \in Browser : {form[b].id, tested[b].id} \subseteq Provider \cup {"none"}
      BY <2>1 DEF PagesTyped, Form
    <2> QED
      BY <2>1, <2>2, <2>3, <2>4, <2>5, <2>6 DEF OutsideTyped, TablesTyped, TypeOK
  <1> QED
    BY <1>1, Invariant, PTL

\* A live provider a task may use has been checked as it is, unless it was edited during the check
\* recorded last (assertProviderSelectable, recordHealth).
THEOREM CheckedBeforeUse == Spec => []HealthyMeansVerified
  <1>1. Inv => HealthyMeansVerified
    BY DEF Inv, HealthVerified, HealthyMeansVerified, Selectable
  <1> QED
    BY <1>1, Invariant, PTL

\* Nobody takes over a provider id, and the built-in rows stay (createProvider, updateProvider, setStatus).
THEOREM OwnersAreKept == Spec => RowsKeepTheirOwner
  <1>1. Inv /\ [Next]_vars =>
          [\A id \in Provider :
             /\ rows[id] # NoRow => rows'[id].owner = rows[id].owner /\ rows'[id].protocol = rows[id].protocol
             /\ System(id) => rows'[id] = rows[id]]_vars
    BY StepGood DEF Good, OwnersStay
  <1> QED
    BY <1>1, Invariant, PTL DEF Spec, RowsKeepTheirOwner

\* Only an enable request of the owner that has passed its check turns a provider on (setStatus).
THEOREM EnablingIsChecked == Spec => OnlyEnablingEnables
  <1>1. Inv /\ [Next]_vars =>
          [\A id \in Provider :
             (rows[id] # NoRow /\ rows[id].status = "disabled" /\ rows'[id].status = "active") =>
               \E b \in Browser : /\ req[b].op = "enable" /\ req[b].form.id = id
                                  /\ Owned(owner[b], id) /\ req[b].health = "healthy"]_vars
    BY StepGood DEF Good, EnabledByOwner
  <1> QED
    BY <1>1, Invariant, PTL DEF Spec, OnlyEnablingEnables
=============================================================================
