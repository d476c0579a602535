----------------------------- MODULE QualityLedger ----------------------------
(***************************************************************************)
(* The quality ledger (quality-ledger/*.ts): what an orchestration leaves  *)
(* behind is turned into event rows that are appended one by one to a file *)
(* per kind, between an in_progress and a complete row of the packet       *)
(* index; readers drop repeated event ids; scores of models and advice on  *)
(* the model policy are computed from what they read; the operator applies *)
(* the advice by hand.                                                     *)
(*                                                                         *)
(* An orchestration calls the ingest when it has ended, the operator calls *)
(* it again for whatever packet, forced or not, and a process may die      *)
(* between any two appends.  One append is atomic.                         *)
(***************************************************************************)
EXTENDS Integers, Sequences, FiniteSets

CONSTANTS
  Packets,     \* the orchestrations
  Packet,      \* of each: [class, candidates, selected, reviewClass, reviewers]
  Classes,     \* the classes of the model policy
  FirstPolicy, \* of each class: the models, the primary first
  Legacy,      \* packets ingested by a writer that kept no index
  Procs,       \* processes that may ingest at the same time
  Absent,      \* no packet, no model
  MinSamples,  \* samples below which a model is not ranked (3)
  Margin,      \* in thousandths, what a swap must gain (100)
  MaxSamples,  \* samples up to which bounds are looked up in a table
  Budgets      \* bounds of the exploration: how many orchestrations end,
               \* ingests by hand, faults and marks there are at most

(* Packet ids and model keys are numbers, compared as the code compares    *)
(* the strings.                                                            *)
Keys == Nat \cup {Absent}

(* A candidate is what a builder made; a review names the candidate it     *)
(* looked at and has a severity for each finding, none without an output.  *)
Candidate == [model : Keys, collected : BOOLEAN, attempts : Nat, verified : BOOLEAN]
Review == [model : Keys, ok : BOOLEAN, of : Nat, findings : Seq({"low", "medium", "high"})]

ASSUME PacketAssumption ==
  /\ Packets \subseteq Nat /\ Absent \notin Nat
  /\ \A k \in Packets :
       /\ Packet[k].candidates \in Seq(Candidate) /\ Packet[k].reviewers \in Seq(Review)
       /\ Packet[k].selected \in 0 .. Len(Packet[k].candidates)
  /\ \A j, k \in Packets : Packet[j].class # Packet[k].reviewClass

ASSUME QualityAssumption ==
  /\ IsFiniteSet(Legacy) /\ Legacy \subseteq Packets
  /\ FirstPolicy \in [Classes -> Seq(Nat)]
  /\ MinSamples \in Nat \ {0} /\ Margin \in Nat /\ MaxSamples \in Nat
  /\ Budgets \subseteq [orchestrations : Nat, ingests : Nat, faults : Nat,
                         marks : Nat]

VARIABLES
  ended,    \* orchestrations that have ended: their artifacts are complete
  lost,     \* of those: a review packet file is missing since
  files,    \* of each kind of event: the rows of its file
  index,    \* packets-index.jsonl, NoIndex when there is no such file
  mistaken, \* packets a backfill took for an earlier writer's before their
            \* ingest was over (history)
  proc,     \* what each process is doing
  left,     \* what is left of the budget
  policy,   \* config/model-policy.json: the models of each class
  applied   \* classes whose policy was changed on the advice, and nothing
            \* was appended since (history)

vars == <<ended, lost, files, index, mistaken, proc, left, policy, applied>>

EventKinds == {"worker_run", "review_finding", "arbiter_decision", "model_event",
               "human_decision"}

(* The file is never empty once it is there.                               *)
NoIndex == <<>>

Spend(what) ==
  left[what] > 0 /\ left' = [left EXCEPT ![what] = @ - 1]

NotIngesting == [pc |-> "idle", packet |-> Absent, force |-> FALSE, rows |-> <<>>]

-----------------------------------------------------------------------------
(* buildEvents.                                                            *)

(* The members of a finite set in the order of Less, a set of pairs.       *)
InOrder(S, Less) ==
  [n \in 1 .. Cardinality(S) |->
     CHOOSE x \in S : Cardinality({y \in S : <<y, x>> \in Less}) = n - 1]

Lesser(S) == {q \in S \X S : q[1] < q[2]}
PairLesser(S) == {q \in S \X S : \/ q[1][1] < q[2][1]
                                 \/ q[1][1] = q[2][1] /\ q[1][2] < q[2][2]}

(* The elements of a sequence at the places in I.                          *)
Keep(s, I) == LET at == InOrder(I, Lesser(I)) IN [n \in 1 .. Cardinality(I) |-> s[at[n]]]

(* The models of a sequence of candidates or reviewers, in the order they  *)
(* come up first; those without a model key have none.                     *)
ModelsOf(calls) ==
  Keep([i \in 1 .. Len(calls) |-> calls[i].model],
       {i \in 1 .. Len(calls) : /\ calls[i].model # Absent
                                /\ \A j \in 1 .. i - 1 : calls[j].model # calls[i].model})

CallsOf(calls, model) == {i \in 1 .. Len(calls) : calls[i].model = model}

WorkerRuns(k) ==
  [i \in 1 .. Len(Packet[k].candidates) |->
     LET c == Packet[k].candidates[i]
     IN  [kind |-> "worker_run", packet |-> k, model |-> c.model,
          class |-> Packet[k].class,
          outcome |-> CASE ~c.collected -> "excluded"
                        [] c.collected /\ Packet[k].selected = i -> "selected"
                        [] OTHER -> "not_selected",
          rescued |-> c.attempts > 1 /\ c.collected,
          retried |-> c.attempts > 1]]

ReviewFindings(k) ==
  LET reviews == Packet[k].reviewers
      found == UNION {{r} \X (1 .. Len(reviews[r].findings)) : r \in 1 .. Len(reviews)}
      at == InOrder(found, PairLesser(found))
  IN  [i \in 1 .. Cardinality(found) |->
         LET r == reviews[at[i][1]]
         IN  [kind |-> "review_finding", packet |-> k, model |-> r.model,
              class |-> Packet[k].reviewClass, severity |-> r.findings[at[i][2]]]]

ArbiterDecision(k) ==
  LET verified == {i \in 1 .. Len(Packet[k].candidates) :
                     Packet[k].candidates[i].verified}
  IN  <<[kind |-> "arbiter_decision", packet |-> k,
         any |-> verified # {}, chosen |-> Packet[k].selected \in verified]>>

ModelEvents(k, role) ==
  LET calls == IF role = "builder" THEN Packet[k].candidates ELSE Packet[k].reviewers
      ok == {i \in 1 .. Len(calls) :
               IF role = "builder" THEN calls[i].collected ELSE calls[i].ok}
      models == ModelsOf(calls)
  IN  [i \in 1 .. Len(models) |->
         [kind |-> "model_event", packet |-> k, role |-> role, model |-> models[i],
          class |-> IF role = "builder" THEN Packet[k].class ELSE Packet[k].reviewClass,
          total |-> Cardinality(CallsOf(calls, models[i])),
          ok |-> Cardinality(CallsOf(calls, models[i]) \cap ok)]]

(* The rows of a packet; the event id is the packet, the kind and the      *)
(* place among the rows, so a second ingest of the packet repeats it.      *)
BuildEvents(k) ==
  LET rows == WorkerRuns(k) \o ReviewFindings(k) \o ArbiterDecision(k)
                \o ModelEvents(k, "builder") \o ModelEvents(k, "reviewer")
  IN  [i \in 1 .. Len(rows) |-> [id |-> <<k, rows[i].kind, i>>, row |-> rows[i]]]

-----------------------------------------------------------------------------
(* The packet index.                                                       *)

Complete(k) ==
  \E i \in 1 .. Len(index) : index[i].packet = k /\ index[i].status = "complete"

FoundInRuns ==
  {files["worker_run"][i].row.packet : i \in 1 .. Len(files["worker_run"])}

(* packetAlreadyIngested, asked with nobody else at work: a complete row,  *)
(* or without an index file any row of worker-runs.jsonl.                  *)
AlreadyIngested(k) == IF index # NoIndex THEN Complete(k) ELSE k \in FoundInRuns

(* The index rows of the packets found in worker-runs.jsonl.               *)
BackfillRows ==
  LET at == InOrder(FoundInRuns, Lesser(FoundInRuns))
  IN  [i \in 1 .. Cardinality(FoundInRuns) |-> [packet |-> at[i], status |-> "complete"]]

WithIndexRow(k, status) ==
  Append(index, [packet |-> k, status |-> status])

-----------------------------------------------------------------------------
(* The ingest.                                                             *)

LegacyRows(kind) ==
  LET old == UNION {{<<k, i>> : i \in {j \in 1 .. Len(BuildEvents(k)) :
                                         BuildEvents(k)[j].row.kind = kind}} : k \in Legacy}
      at == InOrder(old, PairLesser(old))
  IN  [n \in 1 .. Cardinality(old) |-> BuildEvents(at[n][1])[at[n][2]]]

Init ==
  /\ ended = Legacy /\ lost = {}
  /\ files = [kind \in EventKinds |-> LegacyRows(kind)]
  /\ index = NoIndex /\ mistaken = {}
  /\ proc = [p \in Procs |-> NotIngesting]
  /\ left \in Budgets
  /\ policy = FirstPolicy /\ applied = {}

(* An orchestration that ends, whatever it decided, ingests itself, unless *)
(* it was told not to.                                                     *)
Orchestrate(p, k, skip) ==
  /\ k \notin ended /\ proc[p].pc = "idle"
  /\ Spend("orchestrations")
  /\ ended' = ended \cup {k}
  /\ IF skip THEN UNCHANGED proc
     ELSE proc' = [proc EXCEPT ![p] = [NotIngesting EXCEPT !.pc = "check", !.packet = k]]
  /\ UNCHANGED <<lost, files, index, mistaken, policy, applied>>

(* frontier quality ledger ingest [--force-reingest].  A missing review    *)
(* packet is an error before anything is read or written.                  *)
Ingest(p, k, force) ==
  /\ k \in ended \ lost /\ proc[p].pc = "idle"
  /\ Spend("ingests")
  /\ proc' = [proc EXCEPT ![p] = [NotIngesting EXCEPT !.packet = k, !.force = force,
                                  !.pc = IF force THEN "begin" ELSE "check"]]
  /\ UNCHANGED <<ended, lost, files, index, mistaken, policy, applied>>

(* packetAlreadyIngested with an index file: the packet is refused, or     *)
(* begun.  The dry run reads the index without writing one; it leaves no   *)
(* trace.                                                                  *)
CheckIndex(p) ==
  /\ proc[p].pc = "check"
  /\ proc' = [proc EXCEPT ![p] =
                IF index # NoIndex /\ Complete(@.packet) THEN NotIngesting
                ELSE [@ EXCEPT !.pc = IF index = NoIndex THEN "scan" ELSE "begin"]]
  /\ UNCHANGED <<ended, lost, files, index, mistaken, left, policy, applied>>

(* Without an index file worker-runs.jsonl is read, which another ingest   *)
(* may have begun to append to by now.                                     *)
ScanRuns(p) ==
  /\ proc[p].pc = "scan"
  /\ proc' = [proc EXCEPT ![p].pc = "backfill", ![p].rows = BackfillRows]
  /\ UNCHANGED <<ended, lost, files, index, mistaken, left, policy, applied>>

(* Every packet that was found is complete from now on, whoever has made   *)
(* an index in the meantime.                                               *)
Backfill(p) ==
  LET rows == proc[p].rows
      found == {rows[i].packet : i \in 1 .. Len(rows)}
  IN  /\ proc[p].pc = "backfill"
      /\ index' = index \o rows
      /\ mistaken' = mistaken \cup {k \in found \ Legacy : ~Complete(k)}
      /\ proc' = [proc EXCEPT ![p] = IF @.packet \in found THEN NotIngesting
                                     ELSE [@ EXCEPT !.pc = "begin", !.rows = <<>>]]
      /\ UNCHANGED <<ended, lost, files, left, policy, applied>>

AppendBegin(p) ==
  /\ proc[p].pc = "begin"
  /\ index' = WithIndexRow(proc[p].packet, "in_progress")
  /\ proc' = [proc EXCEPT ![p].rows = BuildEvents(proc[p].packet),
                          ![p].pc = "rows"]
  /\ UNCHANGED <<ended, lost, files, mistaken, left, policy, applied>>

AppendRow(p) ==
  /\ proc[p].pc = "rows" /\ proc[p].rows # <<>>
  /\ LET e == Head(proc[p].rows)
     IN  files' = [files EXCEPT ![e.row.kind] = Append(@, e)]
  /\ proc' = [proc EXCEPT ![p].rows = Tail(@)]
  /\ applied' = {}
  /\ UNCHANGED <<ended, lost, index, mistaken, left, policy>>

AppendComplete(p) ==
  /\ proc[p].pc = "rows" /\ proc[p].rows = <<>>
  /\ index' = WithIndexRow(proc[p].packet, "complete")
  /\ mistaken' = mistaken \ {proc[p].packet}
  /\ proc' = [proc EXCEPT ![p] = NotIngesting]
  /\ UNCHANGED <<ended, lost, files, left, policy, applied>>

Die(p) ==
  /\ proc[p].pc # "idle" /\ Spend("faults")
  /\ proc' = [proc EXCEPT ![p] = NotIngesting]
  /\ UNCHANGED <<ended, lost, files, index, mistaken, policy, applied>>

(* Somebody removes a review packet of an orchestration.                   *)
LoseReview(k) ==
  /\ k \in ended \ lost /\ Packet[k].reviewers # <<>>
  /\ Spend("faults")
  /\ lost' = lost \cup {k}
  /\ UNCHANGED <<ended, files, index, mistaken, proc, policy, applied>>

-----------------------------------------------------------------------------
(* markHumanDecision.                                                      *)

Relation(decision, k, builder) ==
  CASE decision = "rejected" -> "rejected_all"
    [] decision = "accepted" /\ k = Absent -> "accepted_manual"
    [] decision = "accepted" /\ k # Absent /\ Packet[k].selected = builder ->
         "accepted_selected"
    [] decision = "accepted" /\ k # Absent /\ Packet[k].selected # builder ->
         "accepted_non_selected"
    [] OTHER -> decision

(* Every mark has an id of its own.                                        *)
Mark(decision, k, builder) ==
  LET marks == files["human_decision"]
      row == [kind |-> "human_decision", packet |-> k,
              relation |-> Relation(decision, k, builder)]
  IN  /\ Spend("marks")
      /\ decision = "accepted" => builder # 0
      /\ files' = [files EXCEPT !["human_decision"] =
                     Append(@, [id |-> <<k, "human_decision", Len(marks) + 1>>,
                                row |-> row])]
      /\ UNCHANGED <<ended, lost, index, mistaken, proc, policy, applied>>

-----------------------------------------------------------------------------
(* The reader: the first row of every event id.                            *)

(* MUTANT: every row.                                                      *)
ReadAll(kind) == files[kind]

ReadKind(kind) ==
  LET rows == files[kind]
      first == {i \in 1 .. Len(rows) : \A j \in 1 .. i - 1 : rows[j].id # rows[i].id}
  IN  Keep(rows, first)

-----------------------------------------------------------------------------
(* Scores (model-score.ts): of a model and a class, how many packets or    *)
(* calls and how many of them were won or valid.                           *)
BuilderScore(class, model) ==
  LET runs == ReadKind("worker_run")
      own == {i \in 1 .. Len(runs) : runs[i].row.class = class /\ runs[i].row.model = model}
      won == {i \in own : runs[i].row.outcome = "selected"}
  IN  [role |-> "builder", model |-> model,
       samples |-> Cardinality({runs[i].row.packet : i \in own}),
       wins |-> Cardinality({runs[i].row.packet : i \in won})]

(* The numbers of calls add up: each is a set of calls.                    *)
ReviewerScore(class, model) ==
  LET runs == ReadKind("model_event")
      own == {i \in 1 .. Len(runs) : /\ runs[i].row.role = "reviewer"
                                     /\ runs[i].row.class = class /\ runs[i].row.model = model}
  IN  [role |-> "reviewer", model |-> model,
       samples |-> Cardinality(UNION {{i} \X (1 .. runs[i].row.total) : i \in own}),
       wins |-> Cardinality(UNION {{i} \X (1 .. runs[i].row.ok) : i \in own})]

(* The models that the rows name, those without a model key left out.      *)
ModelsIn(rows) == {rows[i].row.model : i \in 1 .. Len(rows)} \ {Absent}

Scores(class) ==
  {BuilderScore(class, m) : m \in ModelsIn(ReadKind("worker_run"))}
  \cup {ReviewerScore(class, m) : m \in ModelsIn(ReadKind("model_event"))}

-----------------------------------------------------------------------------
(* Advice (policy-recommender.ts).                                         *)

(* The square root, rounded down.                                          *)
Root(x) == CHOOSE r \in 0 .. x : r * r <= x /\ x < (r + 1) * (r + 1)

(* wilsonLowerBound of w wins out of n samples, in thousandths: with       *)
(* z = 1.96, (2w + zz - z * sqrt(4w(n-w)/n + zz)) / (2n + 2zz).            *)
WilsonLowerBound(n, w) ==
  LET root == Root((4 * w * (n - w) * 1000000) \div n + 3841600)
      lower == ((2000 * w + 3842) * 1000 - 1960 * root) \div (2000 * n + 7683)
  IN  IF w = 0 THEN 0 ELSE lower

(* The bounds, worked out once as far as the table goes.                   *)
BoundTable == [n \in 1 .. MaxSamples |-> [w \in 0 .. n |-> WilsonLowerBound(n, w)]]

LowerBound(s) ==
  IF s.samples \in 1 .. MaxSamples THEN BoundTable[s.samples][s.wins]
  ELSE WilsonLowerBound(s.samples, s.wins)

(* scoreSort, and the bound before it: the sort by the bound is stable.    *)
Better(s, t) ==
  \/ LowerBound(s) > LowerBound(t)
  \/ LowerBound(s) = LowerBound(t) /\ s.role = "builder" /\ t.role = "reviewer"
  \/ LowerBound(s) = LowerBound(t) /\ s.role = t.role /\ s.model < t.model

(* The scores with enough samples, the best bound first.                   *)
Evidence(class) ==
  LET scores == {s \in Scores(class) : s.samples >= MinSamples}
  IN  InOrder(scores, {q \in scores \X scores : Better(q[1], q[2])})

Advice(action, model) == [action |-> action, model |-> model]

Listed(class) == {policy[class][i] : i \in 1 .. Len(policy[class])}

Primary(class) == IF policy[class] = <<>> THEN Absent ELSE Head(policy[class])

EvidenceOf(model, evidence) ==
  {i \in 1 .. Len(evidence) : evidence[i].model = model}

(* The best model beats the primary by the margin, or nothing is known of  *)
(* the primary.                                                            *)
BeatsPrimary(class, evidence) ==
  LET own == EvidenceOf(Primary(class), evidence)
  IN  own = {} \/ LowerBound(evidence[1]) >= LowerBound(evidence[CHOOSE i \in own : TRUE]) + Margin

(* MUTANT: the primary is demoted when it ranks first.                     *)
RanksFirst(class, evidence) ==
  Len(evidence) > 1 /\ Primary(class) = evidence[1].model

RanksLast(class, evidence) ==
  Len(evidence) > 1 /\ Primary(class) = evidence[Len(evidence)].model

LeadsOnThinEvidence(class, evidence) ==
  /\ Primary(class) = evidence[1].model
  /\ \E i \in 2 .. Len(evidence) :
       /\ evidence[i].model # Primary(class)
       /\ evidence[i].samples >= 5 * evidence[1].samples

RecommendPolicy(class) ==
  LET evidence == Evidence(class)
      known == EvidenceOf(Primary(class), evidence) # {}
  IN  IF evidence = <<>> THEN Advice("no_evidence", Primary(class))
      ELSE
      CASE /\ evidence[1].model \in Listed(class) \ {Primary(class)}
           /\ known /\ BeatsPrimary(class, evidence) ->
             Advice("promote_alternate", evidence[1].model)
        [] /\ evidence[1].model \notin Listed(class)
           /\ BeatsPrimary(class, evidence) ->
             Advice("add_candidate", evidence[1].model)
        [] /\ known /\ RanksLast(class, evidence)
           /\ ~(evidence[1].model # Primary(class)
                /\ BeatsPrimary(class, evidence)) ->
             Advice("demote_primary", Absent)
        [] /\ known /\ ~RanksLast(class, evidence)
           /\ LeadsOnThinEvidence(class, evidence) ->
             Advice("warn_thin_primary", Primary(class))
        [] OTHER -> Advice("none", Primary(class))

(* The operator follows the advice: the new primary goes to the front.     *)
Apply(class) ==
  LET advice == RecommendPolicy(class)
      others == Keep(policy[class], {i \in 1 .. Len(policy[class]) :
                                       policy[class][i] # advice.model})
  IN  /\ advice.action \in {"promote_alternate", "add_candidate"}
      /\ policy' = [policy EXCEPT ![class] = <<advice.model>> \o others]
      /\ applied' = applied \cup {class}
      /\ UNCHANGED <<ended, lost, files, index, mistaken, proc, left>>

-----------------------------------------------------------------------------
Decisions == {"accepted", "rejected", "escalation_resolved", "deferred"}

Next ==
  \/ \E p \in Procs, k \in Packets :
       \/ \E skip \in BOOLEAN : Orchestrate(p, k, skip)
       \/ \E force \in BOOLEAN : Ingest(p, k, force)
  \/ \E p \in Procs :
       \/ CheckIndex(p) \/ ScanRuns(p) \/ Backfill(p) \/ AppendBegin(p)
       \/ AppendRow(p) \/ AppendComplete(p) \/ Die(p)
  \/ \E k \in Packets : LoseReview(k)
  \/ \E d \in Decisions, k \in ended \cup {Absent}, b \in 0 .. 2 : Mark(d, k, b)
  \/ \E class \in Classes : Apply(class)

Spec == Init /\ [][Next]_vars

-----------------------------------------------------------------------------
(* Properties.                                                             *)

IngestKinds == EventKinds \ {"human_decision"}

(* The readers find no row of the packet twice, and none that is not its.  *)
NothingTwice(k) ==
  LET events == BuildEvents(k) IN
  \A kind \in IngestKinds :
    LET rows == ReadKind(kind)
    IN  \A j \in 1 .. Len(rows) : rows[j].row.packet = k =>
          /\ \E i \in 1 .. Len(events) : rows[j] = events[i]
          /\ \A h \in 1 .. j - 1 : rows[h] # rows[j]

(* The readers find every row of the packet.                               *)
Whole(k) ==
  LET events == BuildEvents(k)
      read == [kind \in IngestKinds |-> ReadKind(kind)]
  IN  \A i \in 1 .. Len(events) :
        \E j \in 1 .. Len(read[events[i].row.kind]) : read[events[i].row.kind][j] = events[i]

(* Whatever died half way, was retried, forced or ingested twice at a      *)
(* time, the readers count no row of a packet twice, and a packet that     *)
(* nobody may ingest again without force is all there: unless an ingest    *)
(* that had found no index took another one's first rows for those of an   *)
(* earlier writer, and that one is not over.                               *)
CountedOnce ==
  \A k \in Packets :
    NothingTwice(k) /\ (AlreadyIngested(k) /\ k \notin mistaken => Whole(k))

(* Advice that was followed is not taken back on the same evidence: until  *)
(* another row is appended the advice for the class is to leave it alone,  *)
(* or to look at how thin the evidence is.                                 *)
AdviceSettles ==
  \A class \in applied :
    RecommendPolicy(class).action \in {"none", "warn_thin_primary"}

=============================================================================
