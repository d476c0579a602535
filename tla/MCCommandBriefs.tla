---------------------------- MODULE MCCommandBriefs ----------------------------
(* Small instances of the command gateway and its briefs for TLC.          *)
EXTENDS CommandBriefs

CONSTANTS w1, o1, t1

MCProjects == <<"mlx-workbench", "frontier-os">>
MCUnlimited == [w \in Workers |-> 3]

Asks(intent) == [intent |-> intent, project |-> {}, class |-> {}, payload |-> NoPayload,
                 retries |-> {}, runtime |-> {}, verify |-> FALSE]
Click(arguments) == [command |-> {"click-element"}, arguments |-> arguments]

\* What tests and runbooks submit: by words, by payload, with a class, a
\* project, a budget or a demand for verification of their own.
MCWords == {
  [Asks({"status"}) EXCEPT !.project = {"frontier-os"}],
  [Asks({"verify", "frontier-os"}) EXCEPT !.retries = {1}],
  Asks({"mlx", "bench"}),
  [Asks({"mlx"}) EXCEPT !.runtime = {5}, !.verify = TRUE],
  [Asks({"salesforce", "save", "dashboard"}) EXCEPT !.class = {1}]}
MCPayloads == {
  [Asks({"browser"}) EXCEPT !.payload = Click({"selector"})],
  [Asks({"browser", "click"}) EXCEPT !.class = {0}, !.payload = Click({"text"})],
  [Asks({"delete", "all", "frontier-os"}) EXCEPT !.class = {1}, !.payload = Click({"selector"})],
  [Asks({"repair"}) EXCEPT !.payload = Click({"selector"})],
  Asks({"browser", "click"})}
MCRepair == {Asks({"repair"})}
MCRequests == MCWords \cup MCPayloads \cup MCRepair

=============================================================================
