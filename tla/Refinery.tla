------------------------------- MODULE Refinery -------------------------------
(***************************************************************************)
(* The failure refinery (refinery/*.ts, eval/runner.ts).                   *)
(*                                                                         *)
(* Failure events of the ledger are grouped by their cause; a cause seen   *)
(* often enough becomes a proposed rule whose examples are the events it   *)
(* was seen in; an evaluation replays the rule's pattern on its examples;  *)
(* a rule whose evaluations passed on Threshold recorded days in a row is  *)
(* promoted; the operator promotes and revokes by hand; the examples are   *)
(* exported to a Langfuse dataset.  All of it lives in append-only files   *)
(* that every process reads and then appends to, with nothing in between   *)
(* to stop another process from doing the same.                            *)
(*                                                                         *)
(* A cause stands for its rule: the rule id is a hash of the cause's       *)
(* signature.  Of a reason only the payload field it was taken from is     *)
(* kept: a stored event never changes, so a replay differs from the        *)
(* harvest when it looks at another field, or when the code that           *)
(* normalizes reasons has changed since.                                   *)
(***************************************************************************)
EXTENDS Integers, Sequences, FiniteSets, FiniteSetsExt, SequencesExt

CONSTANTS
  Causes,        \* the failures the programs can run into
  Kind,          \* of each cause: the kind of the events that record it
  Payload,       \* of each cause: the fields of its events that hold text
  Procs,         \* processes that may run at the same time
  NoCause,       \* no cause
  HoursPerDay,   \* how many times the clock strikes in a day
  Threshold,     \* passing days before a rule is promoted (3)
  MinFrequency,  \* events before a cause is proposed (2)
  MaxExamples,   \* events a proposal keeps (5)
  HarvestLimit,  \* events a harvest reads (1000, 2000 in the review)
  MaxItems       \* examples an evaluation or an export handles (500)

ASSUME RefineryAssumption ==
  /\ NoCause \notin Causes /\ IsFiniteSet(Causes)
  /\ DOMAIN Kind = Causes /\ DOMAIN Payload = Causes
  /\ HoursPerDay \in Nat \ {0} /\ Threshold \in Nat \ {0}
  /\ MinFrequency \in Nat \ {0} /\ MaxExamples \in Nat \ {0}
  /\ HarvestLimit \in Nat \ {0} /\ MaxItems \in Nat \ {0}

VARIABLES
  now,         \* the clock, in hours
  log,         \* the failure events ever appended to the ledger
  archived,    \* how many of them, the oldest, have been archived
  changed,     \* causes whose reasons are normalized differently by now
  proposals,   \* proposals.jsonl: the latest row of each rule, in order
  rules,       \* rules.jsonl: the rows
  tombstones,  \* rules-revoked.jsonl: the rules
  passes,      \* eval-passes.jsonl
  exported,    \* eval-exports.jsonl: the examples
  dataset,     \* the examples in the Langfuse dataset
  promotions,  \* the refinery.rule_auto_promoted events, each with the
               \* number of rows of passes it was decided on (history)
  proc         \* what each process is doing

refineryVars == <<now, log, archived, changed, proposals, rules, tombstones,
                  passes, exported, dataset, promotions, proc>>

Day(hour) == hour \div HoursPerDay

Today == Day(now)

(* A process: its job, where it is in it, and what it has read.            *)
Idle == [job |-> "none", pc |-> "idle", rule |-> NoCause, since |-> 0,
         signals |-> {}, result |-> {}, todo |-> <<>>, seen |-> 0,
         sending |-> <<>>, posted |-> {}]

Goto(p, pc) == proc' = [proc EXCEPT ![p].pc = pc]

Done(p) == proc' = [proc EXCEPT ![p] = Idle]

-----------------------------------------------------------------------------
(* Harvest and proposals (harvester.ts, rules.ts).                         *)

(* The field the harvester takes the reason from; the last one stands for  *)
(* the text "(no reason)".                                                 *)
HarvestOrder(kind) ==
  <<"reason", "summary", "error", "message">>
    \o (CASE kind = "command.failed" ->
               <<"result.summary", "result.output.error",
                 "result.output.summary">>
          [] kind = "ghost.graph_rejected" -> <<"rejections">>
          [] kind = "agent.review" -> <<"evidence">>
          [] OTHER -> <<>>)

(* The field the evaluation takes the reason from.                         *)
ReplayOrder == <<"reason", "summary", "rejections", "error", "stdout">>

FirstField(order, fields) ==
  LET found == {k \in 1 .. Len(order) : order[k] \in fields}
  IN  IF found = {} THEN "none" ELSE order[Min(found)]

(* Events that harvestFailures reads: not archived, not older than since,  *)
(* and of those the oldest HarvestLimit.                                   *)
Harvested(since) ==
  LET seen == {i \in archived + 1 .. Len(log) : log[i].at >= since}
  IN  {i \in seen : Cardinality({j \in seen : j < i}) < HarvestLimit}

EventsOf(cause, events) == {i \in events : log[i].cause = cause}

(* The oldest n of a set of event numbers.                                 *)
Oldest(n, events) ==
  {i \in events : Cardinality({j \in events : j < i}) < n}

(* proposeRules: the causes that cross the threshold.                      *)
Signals(since) ==
  {c \in Causes :
     Cardinality(EventsOf(c, Harvested(since))) >= MinFrequency}

Examples(cause, since) ==
  Oldest(MaxExamples, EventsOf(cause, Harvested(since)))

Proposed == {proposals[k].rule : k \in 1 .. Len(proposals)}

(* appendProposal: a new row; the loader keeps the latest row of a rule at *)
(* the place of its first one.                                             *)
WithProposal(row) ==
  IF row.rule \in Proposed
  THEN [k \in 1 .. Len(proposals) |->
          IF proposals[k].rule = row.rule THEN row ELSE proposals[k]]
  ELSE Append(proposals, row)

-----------------------------------------------------------------------------
(* Evaluation (eval/runner.ts).                                            *)

(* replayOne of an example that is still in the ledger.                    *)
Matches(cause) ==
  /\ FirstField(ReplayOrder, Payload[cause])
       = FirstField(HarvestOrder(Kind[cause]), Payload[cause])
  /\ cause \notin changed

(* How many examples come before the proposal's in the evaluation.         *)
ItemsBefore(k) ==
  FoldFunctionOnSet(LAMBDA a, b : a + b, 0,
                    [j \in 1 .. Len(proposals) |->
                       Cardinality(proposals[j].examples)], 1 .. k - 1)

(* runEvalDataset: a result for every proposal, and so for every rule, up  *)
(* to the one at which MaxItems is reached, that one included.             *)
EvalDataset ==
  LET reached == {k \in 1 .. Len(proposals) : ItemsBefore(k) <= MaxItems}
      items(k) == Oldest(MaxItems - ItemsBefore(k), proposals[k].examples)
      regressed(k) == {i \in items(k) : i > archived
                                       /\ ~Matches(proposals[k].rule)}
  IN  {[rule |-> proposals[k].rule, total |-> Cardinality(items(k)),
        regressed |-> Cardinality(regressed(k))] : k \in reached}

-----------------------------------------------------------------------------
(* Passes and rules (auto-promote.ts, registry.ts).                        *)

RecordedOn(day) == {passes[i].rule : i \in {j \in 1 .. Len(passes) :
                                              passes[j].day = day}}

(* recordEvalPasses: the rows an evaluation adds, given the rules that     *)
(* were recorded when the file was read.  The rows of one rule are all     *)
(* that is ever compared, so their order within an evaluation is any.      *)
PassRows(result, day, recorded) ==
  SetToSeq({[day |-> day, rule |-> r.rule,
             passed |-> r.regressed = 0 /\ r.total > 0] :
              r \in {e \in result : e.rule \notin recorded}})

PassesOf(rule) == {i \in 1 .. Len(passes) : passes[i].rule = rule}

(* Row i stands before row j when the rows are sorted by date, newest      *)
(* first; the sort is stable.                                              *)
Newer(i, j) ==
  \/ passes[i].day > passes[j].day
  \/ passes[i].day = passes[j].day /\ i < j

(* MUTANT: a failure is left out of the count instead of ending it.        *)
PassesInAll(rule) == Cardinality({i \in PassesOf(rule) : passes[i].passed})

(* consecutivePasses: the passes up to the first failure.                  *)
ConsecutivePasses(rule) ==
  Cardinality({i \in PassesOf(rule) :
    /\ passes[i].passed
    /\ \A j \in PassesOf(rule) : Newer(j, i) => passes[j].passed})

(* loadRules: promoted and not revoked.                                    *)
ActiveRules == {r.rule : r \in rules} \ tombstones

(* autoPromote looks at the proposals, in their order, that are not active *)
(* rules.                                                                  *)
Candidates ==
  SelectSeq([k \in 1 .. Len(proposals) |-> proposals[k].rule],
            LAMBDA r : r \notin ActiveRules)

-----------------------------------------------------------------------------
(* The world: events, days, releases, the archive.                         *)

RefineryInit ==
  /\ now = 0 /\ log = <<>> /\ archived = 0 /\ changed = {}
  /\ proposals = <<>> /\ rules = {} /\ tombstones = {} /\ passes = <<>>
  /\ exported = {} /\ dataset = {} /\ promotions = {}
  /\ proc = [p \in Procs |-> Idle]

(* A program appends one of the failure events.                            *)
Fail(cause) ==
  /\ log' = Append(log, [cause |-> cause, at |-> now])
  /\ UNCHANGED <<now, archived, changed, proposals, rules, tombstones,
                 passes, exported, dataset, promotions, proc>>

(* frontier ledger archive --before.                                       *)
Archive(n) ==
  /\ n \in archived + 1 .. Len(log)
  /\ archived' = n
  /\ UNCHANGED <<now, log, changed, proposals, rules, tombstones, passes,
                 exported, dataset, promotions, proc>>

(* Another version of normalizeReason is deployed, or taken back.          *)
Release(causes) ==
  /\ causes # changed
  /\ changed' = causes
  /\ UNCHANGED <<now, log, archived, proposals, rules, tombstones, passes,
                 exported, dataset, promotions, proc>>

Strike ==
  /\ now' = now + 1
  /\ UNCHANGED <<log, archived, changed, proposals, rules, tombstones,
                 passes, exported, dataset, promotions, proc>>

(* A process starts one of the jobs of the refinery commands.              *)
Begin(p, job, pc, rule) ==
  /\ proc[p].pc = "idle"
  /\ proc' = [proc EXCEPT ![p] = [Idle EXCEPT !.job = job, !.pc = pc,
                                              !.rule = rule]]

-----------------------------------------------------------------------------
(* frontier refinery propose --persist: harvest, then one append after the *)
(* other.  The window of the harvest is a week.                            *)
Harvest(p) ==
  /\ proc[p].pc = "harvest"
  /\ LET found == Signals(0)
     IN  proc' = [proc EXCEPT
           ![p].sending = SetToSeq({[rule |-> c, examples |-> Examples(c, 0)] :
                                      c \in found}),
           ![p].pc = "append"]
  /\ UNCHANGED <<now, log, archived, changed, proposals, rules, tombstones,
                 passes, exported, dataset, promotions>>

AppendProposal(p) ==
  /\ proc[p].pc = "append"
  /\ IF proc[p].sending = <<>>
     THEN Done(p) /\ UNCHANGED proposals
     ELSE /\ proposals' = WithProposal(Head(proc[p].sending))
          /\ proc' = [proc EXCEPT ![p].sending = Tail(@)]
  /\ UNCHANGED <<now, log, archived, changed, rules, tombstones, passes,
                 exported, dataset, promotions>>

(* frontier refinery promote: check, then append.                          *)
CheckPromotion(p) ==
  /\ proc[p].pc = "check"
  /\ IF proc[p].rule \notin ActiveRules /\ proc[p].rule \in Proposed
     THEN Goto(p, "write")
     ELSE Done(p)
  /\ UNCHANGED <<now, log, archived, changed, proposals, rules, tombstones,
                 passes, exported, dataset, promotions>>

WriteRule(p) ==
  /\ proc[p].pc = "write"
  /\ rules' = rules \cup {[rule |-> proc[p].rule, day |-> Today]}
  /\ Done(p)
  /\ UNCHANGED <<now, log, archived, changed, proposals, tombstones, passes,
                 exported, dataset, promotions>>

(* frontier refinery revoke: the reads, then the append.                   *)
CheckRevocation(p) ==
  /\ proc[p].pc = "look"
  /\ IF proc[p].rule \notin tombstones /\ proc[p].rule \in {r.rule : r \in rules}
     THEN Goto(p, "bury")
     ELSE Done(p)
  /\ UNCHANGED <<now, log, archived, changed, proposals, rules, tombstones,
                 passes, exported, dataset, promotions>>

WriteTombstone(p) ==
  /\ proc[p].pc = "bury"
  /\ tombstones' = tombstones \cup {proc[p].rule}
  /\ Done(p)
  /\ UNCHANGED <<now, log, archived, changed, proposals, rules, passes,
                 exported, dataset, promotions>>

-----------------------------------------------------------------------------
(* autoPromote: the evaluation, the passes file read and appended to, the  *)
(* proposals and rules loaded once, and then each candidate by itself.     *)
Evaluate(p) ==
  /\ proc[p].pc = "evaluate"
  /\ proc' = [proc EXCEPT ![p].result = EvalDataset,
                          ![p].signals = Signals(proc[p].since),
                          ![p].pc = "read"]
  /\ UNCHANGED <<now, log, archived, changed, proposals, rules, tombstones,
                 passes, exported, dataset, promotions>>

ReadPasses(p) ==
  /\ proc[p].pc = "read"
  /\ LET rows == PassRows(proc[p].result, Today, RecordedOn(Today))
     IN  proc' = [proc EXCEPT ![p].todo = rows, ![p].pc = "record"]
  /\ UNCHANGED <<now, log, archived, changed, proposals, rules, tombstones,
                 passes, exported, dataset, promotions>>

RecordPasses(p) ==
  /\ proc[p].pc = "record"
  /\ passes' = passes \o proc[p].todo
  /\ Goto(p, "load")
  /\ UNCHANGED <<now, log, archived, changed, proposals, rules, tombstones,
                 exported, dataset, promotions>>

LoadCandidates(p) ==
  /\ proc[p].pc = "load"
  /\ proc' = [proc EXCEPT ![p].todo = Candidates, ![p].pc = "consider"]
  /\ UNCHANGED <<now, log, archived, changed, proposals, rules, tombstones,
                 passes, exported, dataset, promotions>>

(* The count, and the checks of promoteProposal.                           *)
Consider(p) ==
  /\ proc[p].pc = "consider" /\ proc[p].todo # <<>>
  /\ LET rule == Head(proc[p].todo)
         promote == /\ ConsecutivePasses(rule) >= Threshold
                    /\ rule \notin ActiveRules
     IN  proc' = [proc EXCEPT
           ![p].todo = Tail(@),
           ![p].rule = IF promote THEN rule ELSE NoCause,
           ![p].seen = Len(passes),
           ![p].pc = IF promote THEN "promote" ELSE "consider"]
  /\ UNCHANGED <<now, log, archived, changed, proposals, rules, tombstones,
                 passes, exported, dataset, promotions>>

Promote(p) ==
  /\ proc[p].pc = "promote"
  /\ rules' = rules \cup {[rule |-> proc[p].rule, day |-> Today]}
  /\ Goto(p, "announce")
  /\ UNCHANGED <<now, log, archived, changed, proposals, tombstones, passes,
                 exported, dataset, promotions>>

Announce(p) ==
  /\ proc[p].pc = "announce"
  /\ promotions' = promotions \cup {[rule |-> proc[p].rule,
                                     seen |-> proc[p].seen]}
  /\ Goto(p, "consider")
  /\ UNCHANGED <<now, log, archived, changed, proposals, rules, tombstones,
                 passes, exported, dataset>>

(* autoPromote returns: to the shell, or to the review that called it.     *)
Returned(p) ==
  /\ proc[p].pc = "consider" /\ proc[p].todo = <<>>
  /\ IF proc[p].job = "auto-promote" THEN Done(p) ELSE Goto(p, "output")
  /\ UNCHANGED <<now, log, archived, changed, proposals, rules, tombstones,
                 passes, exported, dataset, promotions>>

-----------------------------------------------------------------------------
(* frontier refinery eval-export: the items are built from the files and   *)
(* the ledger, posted one by one, and what was accepted is recorded at the *)
(* end in one append.                                                      *)
ExportItems ==
  LET examples(k) == {[rule |-> proposals[k].rule, event |-> i] :
                        i \in {j \in proposals[k].examples : j > archived}}
      built == SelectSeq(FlattenSeq([k \in 1 .. Len(proposals) |->
                                       SetToSeq(examples(k))]),
                         LAMBDA item : item \notin exported)
  IN  SubSeq(built, 1, Min({MaxItems, Len(built)}))

BuildItems(p) ==
  /\ proc[p].pc = "build"
  /\ proc' = [proc EXCEPT ![p].sending = ExportItems, ![p].pc = "post"]
  /\ UNCHANGED <<now, log, archived, changed, proposals, rules, tombstones,
                 passes, exported, dataset, promotions>>

(* A post is accepted, or refused or lost on the way: the item's id makes  *)
(* a second post of it an update.                                          *)
PostItem(p) ==
  /\ proc[p].pc = "post" /\ proc[p].sending # <<>>
  /\ LET item == Head(proc[p].sending)
     IN  \/ /\ dataset' = dataset \cup {item}
            /\ proc' = [proc EXCEPT ![p].sending = Tail(@),
                                    ![p].posted = @ \cup {item}]
         \/ /\ UNCHANGED dataset
            /\ proc' = [proc EXCEPT ![p].sending = Tail(@)]
  /\ UNCHANGED <<now, log, archived, changed, proposals, rules, tombstones,
                 passes, exported, promotions>>

RecordExports(p) ==
  /\ proc[p].pc = "post" /\ proc[p].sending = <<>>
  /\ exported' = exported \cup proc[p].posted
  /\ Done(p)
  /\ UNCHANGED <<now, log, archived, changed, proposals, rules, tombstones,
                 passes, dataset, promotions>>

RefineryStep(p) ==
  \/ Harvest(p)         \/ AppendProposal(p)
  \/ CheckPromotion(p)  \/ WriteRule(p)
  \/ CheckRevocation(p) \/ WriteTombstone(p)
  \/ Evaluate(p) \/ ReadPasses(p) \/ RecordPasses(p) \/ LoadCandidates(p)
  \/ Consider(p) \/ Promote(p) \/ Announce(p) \/ Returned(p)
  \/ BuildItems(p) \/ PostItem(p) \/ RecordExports(p)

-----------------------------------------------------------------------------
(* Properties.                                                             *)

(* Two rows of one rule and one day: two processes recorded the same day.  *)
RecordedTwice(rule) ==
  \E i, j \in PassesOf(rule) : i # j /\ passes[i].day = passes[j].day

(* A rule is promoted by itself only after its evaluations passed on the   *)
(* last Threshold days on which they were recorded, whatever processes     *)
(* recorded and promoted at the same time and whatever the clock did in    *)
(* between; unless two processes recorded the rule on one day, which       *)
(* counts as two days.                                                     *)
PromotionsAreEarned ==
  \A e \in promotions :
    \/ RecordedTwice(e.rule)
    \/ LET rows == {i \in PassesOf(e.rule) : i <= e.seen}
           days == {passes[i].day : i \in rows}
           last == {d \in days :
                      Cardinality({f \in days : f > d}) < Threshold}
       IN  /\ Cardinality(last) = Threshold
           /\ \A i \in rows : passes[i].day \in last => passes[i].passed

(* What eval-exports.jsonl says was sent is in the dataset: a later export *)
(* leaves it out for good, so a post that failed must not be among it.     *)
RecordedWasSent == exported \subseteq dataset

(* What the refinery's files say happened did happen: passes behind every  *)
(* promotion, posts behind every recorded export.                          *)
RefineryRecordsAreTrue == PromotionsAreEarned /\ RecordedWasSent

=============================================================================
