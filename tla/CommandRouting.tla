---------------------------- MODULE CommandRouting ----------------------------
(***************************************************************************)
(* From a request to a route and an action: classifyCommand, planCommand   *)
(* and what they call (commands/store.ts).                                 *)
(*                                                                         *)
(* An intent is the set of the phrases of the classifier that occur in it, *)
(* a payload an adapter command with the names of the well-formed adapter  *)
(* arguments.  An optional value is a set of at most one element.          *)
(***************************************************************************)
EXTENDS Integers, Sequences, FiniteSets

CONSTANT Projects   \* project ids in the order of the manifests

Given(optional, default) ==
  IF optional = {} THEN default ELSE CHOOSE v \in optional : TRUE

\* A rule applies to an intent in which each of its needs is met by a phrase.
Rule(lane, verb, needs) == [lane |-> lane, verb |-> verb, needs |-> needs]
Applies(rule, intent) == \A phrases \in rule.needs : phrases \cap intent # {}

\* The first rule that applies, as a set of at most one rule.
FirstRule(rules, intent) ==
  LET hits == {i \in DOMAIN rules : Applies(rules[i], intent)} IN
    {rules[i] : i \in {k \in hits : \A j \in hits : k <= j}}

GuardRules == <<
  Rule("frontier", "filesystem.delete",
       {{"delete", "remove", "erase", "wipe", "trash", "destroy"},
        {"everything", "all", "recursive", "recursively", "downloads", "documents",
         "desktop", "home", "root", "system", "library"}}),
  Rule("frontier", "filesystem.delete", {{"rm -rf"}}),
  Rule("frontier", "database.drop", {{"drop", "truncate"}, {"table", "database", "db"}}),
  Rule("ops", "service.restart",
       {{"restart", "stop", "kill", "unload", "shutdown"},
        {"com.apple.", "windowserver", "systemuiserver", "loginwindow"}})>>

JobRules == <<
  Rule("overnight", "overnight.brief", {{"overnight"}, {"brief"}}),
  Rule("overnight", "overnight.run", {{"overnight"}, {"run"}}),
  Rule("overnight", "overnight.enqueue", {{"overnight"}, {"queue", "enqueue"}}),
  Rule("overnight", "overnight.plan", {{"overnight"}}),
  Rule("mlx", "mlx.smoke", {{"mlx"}, {"smoke"}}),
  Rule("mlx", "mlx.benchmark", {{"mlx"}, {"benchmark", "bench"}}),
  Rule("mlx", "mlx.generate", {{"mlx"}, {"generate"}}),
  Rule("mlx", "mlx.status", {{"mlx"}})>>

SalesforcePhrases == {"salesforce", "dashboard", "crm analytics"}
BrowserPhrases == {"browser", "tab"}
HelperPhrases == {"helper", "launchd status"}

LaneRules == <<
  Rule("salesforce", "salesforce.set_report_filter",
       {SalesforcePhrases, {"report"}, {"filter"}}),
  Rule("salesforce", "salesforce.inspect_report", {SalesforcePhrases, {"report"}}),
  Rule("salesforce", "salesforce.move_widget",
       {SalesforcePhrases, {"move widget", "reposition widget", "rearrange widget"}}),
  Rule("salesforce", "salesforce.save_dashboard", {SalesforcePhrases, {"save"}, {"dashboard"}}),
  Rule("salesforce", "salesforce.enter_edit_mode",
       {SalesforcePhrases, {"edit mode", "edit dashboard"}}),
  Rule("salesforce", "salesforce.portfolio_summary", {SalesforcePhrases}),
  Rule("browser", "browser.click_element", {BrowserPhrases, {"click"}}),
  Rule("browser", "browser.inspect_dom", {BrowserPhrases, {"dom"}}),
  Rule("browser", "browser.capture_screenshot", {BrowserPhrases, {"screenshot", "snapshot"}}),
  Rule("browser", "browser.inspect", {BrowserPhrases}),
  Rule("helper", "logs.read", {HelperPhrases, {"logs"}}),
  Rule("helper", "helper.status", {HelperPhrases}),
  Rule("ops", "ops.repair_launchagent", {{"repair", "restart", "fix launch"}}),
  Rule("project", "project.verify", {{"verify", "typecheck"}}),
  Rule("project", "project.smoke", {{"smoke"}}),
  Rule("project", "project.status", {{"status", "health"}})>>

Fallback == Rule("unknown", "command.intent", {})

BrowserVerb == {
  <<"current-tab", "browser.inspect">>, <<"inspect-dom", "browser.inspect_dom">>,
  <<"inspect-network", "browser.inspect_network">>,
  <<"capture-screenshot", "browser.capture_screenshot">>,
  <<"click-element", "browser.click_element">>, <<"enter-text", "browser.enter_text">>,
  <<"select-option", "browser.select_option">>, <<"navigate", "browser.navigate">>}

SalesforceVerb == {
  <<"inspect-dashboard", "salesforce.inspect_dashboard">>,
  <<"inspect-report", "salesforce.inspect_report">>,
  <<"set-report-filter", "salesforce.set_report_filter">>,
  <<"list-filters", "salesforce.list_filters">>,
  <<"audit-dashboard", "salesforce.audit_dashboard">>,
  <<"set-filter", "salesforce.set_filter">>,
  <<"enter-edit-mode", "salesforce.enter_edit_mode">>,
  <<"move-widget", "salesforce.move_widget">>,
  <<"save-dashboard", "salesforce.save_dashboard">>,
  <<"portfolio-inventory", "salesforce.portfolio_summary">>}

(* The rule an adapter command in the payload stands for, if it is known.  *)
PayloadRule(payload) ==
  {Rule("browser", p[2], {}) : p \in {q \in BrowserVerb : q[1] \in payload.command}} \cup
  {Rule("salesforce", p[2], {}) : p \in {q \in SalesforceVerb : q[1] \in payload.command}}

(* classifyCommand: destructive intents first, then overnight and MLX      *)
(* jobs, then the payload, then the words of the intent.                   *)
RuleFor(request) ==
  Given(FirstRule(GuardRules \o JobRules, request.intent),
  Given(PayloadRule(request.payload),
  Given(FirstRule(LaneRules, request.intent), Fallback)))

-----------------------------------------------------------------------------

(* The first project an intent names.                                      *)
InferredProject(intent) ==
  LET hits == {i \in DOMAIN Projects : Projects[i] \in intent} IN
    {Projects[i] : i \in {k \in hits : \A j \in hits : k <= j}}

DefaultProject(rule) ==
  CASE rule.lane = "mlx" -> {"mlx-workbench"}
    [] rule.lane = "helper" \/ rule.verb = "ops.repair_launchagent" -> {"frontier-os"}
    [] OTHER -> {}

ReadVerbs == {
  "project.status", "helper.status", "overnight.plan", "overnight.brief", "mlx.status",
  "browser.inspect", "browser.inspect_dom", "browser.inspect_network",
  "browser.capture_screenshot", "salesforce.inspect_dashboard",
  "salesforce.inspect_report", "salesforce.list_filters", "salesforce.audit_dashboard"}
GuardedVerbs == {"filesystem.delete", "database.drop", "service.restart"}

(* inferredClassForVerb.                                                   *)
ClassOfVerb(verb) ==
  CASE verb \in ReadVerbs -> 0
    [] verb = "ops.repair_launchagent" -> 2
    [] verb \in GuardedVerbs -> 3
    [] OTHER -> 1

\* sideEffectsForClass: one label, or none, for each class.
SideEffects(k) ==
  CASE k = 0 -> {}
    [] k = 1 -> {"local_write"}
    [] k = 2 -> {"local_service"}
    [] OTHER -> {"privileged_or_external"}

Locators == {"selector", "text", "ariaLabel"}

(* The adapter arguments a verb needs: of each set at least one.           *)
Inputs(verb, arguments) ==
  CASE verb = "browser.click_element" -> {Locators}
    [] verb = "browser.enter_text" -> {Locators, {"value"}}
    [] verb = "browser.select_option" -> {Locators, {"optionLabel", "optionValue"}}
    [] verb = "browser.navigate" -> {{"url"}}
    [] verb = "salesforce.set_report_filter" ->
         {{"filterLabel"}, {"actionLabel"}, {"expectedNewLabel"}}
    [] verb = "salesforce.set_filter" ->
         {{"filterLabel"},
          IF "variant dropdown" \in arguments THEN {"optionLabel"} ELSE {"expectedNewLabel"}}
    [] verb = "salesforce.move_widget" ->
         {{"selector", "widgetId", "widgetTitle"},
          {"targetSelector", "direction", "deltaX", "deltaY"}}
    [] OTHER -> {}

(* route and the routes with missing inputs.                               *)
RouteOf(request) ==
  LET rule == RuleFor(request)
      named == IF request.project # {} THEN request.project
                                       ELSE InferredProject(request.intent)
      project == IF named # {} THEN named ELSE DefaultProject(rule)
      k == Given(request.class, ClassOfVerb(rule.verb))
  IN [lane |-> rule.lane, verb |-> rule.verb, project |-> project,
      class |-> k, effects |-> SideEffects(k),
      missing |-> {s \in Inputs(rule.verb, request.payload.arguments) :
                     s \cap request.payload.arguments = {}} \cup
                  (IF rule.lane = "project" /\ project = {} THEN {{"projectId"}} ELSE {})]

-----------------------------------------------------------------------------
(* planCommand *)

\* Read actions, marked dryRunSafe.
SafeVerbs == ReadVerbs \cup {"logs.read", "salesforce.portfolio_summary"}

\* Verbs that have no action while an input is missing.  set_filter is not
\* among them: its adapter finds out.
CheckedVerbs == {"project.verify", "project.smoke", "browser.click_element",
                 "browser.enter_text", "browser.select_option", "browser.navigate",
                 "salesforce.set_report_filter", "salesforce.move_widget"}

(* directActionFor: the action of a route, if there is one, with the       *)
(* family of its CLI call.                                                 *)
ActionOf(route) ==
  IF \/ route.verb \in GuardedVerbs \cup {"command.intent"}
     \/ route.verb \in CheckedVerbs /\ route.missing # {}
    THEN {}
    ELSE {[family |-> IF route.lane \in {"browser", "salesforce"} THEN "adapter"
                                                                  ELSE route.lane,
           safe |-> route.verb \in SafeVerbs]}

=============================================================================
