---------------------------- MODULE MCOvernight ----------------------------
(* Small instances of the nights, their shifts and the morning brief.      *)
EXTENDS OvernightBrief, TLC

CONSTANTS w1, o1, o2, launchd

MCUnlimited == [w \in Workers |-> 3]

RunsFor(c, t) == [declared |-> TRUE, class |-> c, timeout |-> t]

\* A critical project whose verify gate takes 40 minutes of the night and
\* whose smoke gate wants approval; a dormant one with nothing but a service.
MCManifest ==
  [p \in 1 .. 2 |->
     IF p = 1
       THEN [priority |-> "critical", gates |-> [verify |-> RunsFor(1, 400), smoke |-> RunsFor(2, 60)],
             services |-> {[id |-> 1, required |-> TRUE, agent |-> TRUE, logs |-> {1}]}]
       ELSE [priority |-> "dormant", gates |-> [verify |-> NoGate, smoke |-> NoGate],
             services |-> {[id |-> 2, required |-> FALSE, agent |-> FALSE, logs |-> {1}]}]]

Sight(g1, d1, g2, d2) ==
  <<[root |-> TRUE, git |-> g1, down |-> d1], [root |-> TRUE, git |-> g2, down |-> d2]>>
MCSights == {Sight("dirty", {1}, "none", {2}), Sight("clean", {}, "clean", {})}

Hand(v, p, t) ==
  [verdict |-> v, parses |-> p, action |-> "none", label |-> "none", tool |-> t,
   hint |-> "none", project |-> TRUE, demo |-> FALSE, name |-> "none"]
MCHandGraphs == {Hand("safe", TRUE, "bash"), Hand("invalid", FALSE, "none")}

Budget(submissions, nights, plans, modes, limit, hand, shifts) ==
  [submissions |-> submissions, nights |-> nights, plans |-> plans, modes |-> modes,
   limits |-> {limit}, hand |-> hand, shifts |-> shifts]

\* A preflight over two commands and a replacement; one command in debt and a
\* run after it; two nights at once and launchd's shift; a night, a graph
\* enqueued by hand and launchd's shift.
MCBudgets ==
  {Budget(2, 1, 0, {"enqueue"}, 0, 0, 0),
   Budget(1, 1, 1, {"run"}, 1, 0, 0),
   Budget(0, 2, 2, {"enqueue", "run"}, 2, 0, 1),
   Budget(0, 1, 1, {"enqueue", "dry enqueue", "dry run"}, 2, 1, 1)}

\* Interchangeable processes.
MCSymmetry == Permutations(Operators)

=============================================================================
