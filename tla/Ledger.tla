-------------------------------- MODULE Ledger --------------------------------
(***************************************************************************)
(* The session ledger (ledger/index.ts): one SQLite database that every    *)
(* frontier process appends to, and the archive run that moves old events  *)
(* into a sidecar file.                                                    *)
(*                                                                         *)
(* A writer ensures its session and appends in two statements, and a long  *)
(* lived one ensures once and appends many times.  The archive run reads   *)
(* the old rows, counts its sessions, writes the sidecar and deletes, one  *)
(* statement after the other: only the delete is a transaction, and every  *)
(* step may be the last of the process.  One writer also consumes approval *)
(* tokens (policy/evaluator.ts), which it finds in the newest Window       *)
(* grants and consumptions.                                                *)
(*                                                                         *)
(* Time is counted in appended events: an append is stamped with the time  *)
(* it happens at, two appends are never in one millisecond and the clock   *)
(* does not run backwards.                                                 *)
(***************************************************************************)
EXTENDS Integers, FiniteSets, FiniteSetsExt

CONSTANTS
  Writers,       \* processes that append events
  Consumer,      \* the writer that consumes approval tokens
  Sessions,      \* session ids, the ones of the policy events included
  PolicySession, \* the session of the grants and the consumptions
  Tokens,        \* approval tokens
  None,          \* the JavaScript null
  Window,        \* how many grants and consumptions are looked up (1000)
  TTL,           \* for how long a granted token may be consumed
  Age,           \* an archive run takes events at least this old ...
  Ahead,         \* ... or --before reaches this far into the future
  MaxClock       \* bound on the clock, hence on the events

ASSUME LedgerAssumption ==
  /\ Consumer \in Writers
  /\ PolicySession \in Sessions
  /\ None \notin Sessions \cup Tokens
  /\ Window \in Nat \ {0} /\ TTL \in Nat /\ Age \in Nat /\ Ahead \in Nat
  /\ MaxClock \in Nat

VARIABLES
  clock,     \* the time
  sessions,  \* the rows of the table sessions
  rows,      \* the rows of the table events
  writer,    \* of each writer: where it is, its session, its next event
  archive,   \* the archive run: where it is, and what it has read
  sidecars,  \* the events the sidecar files hold
  appended   \* history: every event whose append was committed

ledgerVars ==
  <<clock, sessions, rows, writer, archive, sidecars, appended>>

Kinds == {"work", "granted", "consumed"}

Idle == [pc |-> "idle", session |-> None, kind |-> "work", token |-> None]

NotArchiving == [pc |-> "idle", before |-> 0, picked |-> {}, emptied |-> {}]

-----------------------------------------------------------------------------
(* Queries.                                                                *)

RowsOf(s) == {e \in rows : e.session = s}

(* SELECT COALESCE(MAX(offset), -1) + 1.                                   *)
NextOffset(s) ==
  IF RowsOf(s) = {} THEN 0 ELSE Max({e.offset : e \in RowsOf(s)}) + 1

OfKind(kind) == {e \in rows : e.kind = kind}

(* MUTANT: ORDER BY ts ASC.                                                *)
FindOldestByKind(kind) ==
  {e \in OfKind(kind) :
     Cardinality({f \in OfKind(kind) : f.ts < e.ts}) < Window}

(* ORDER BY ts DESC LIMIT Window.                                          *)
FindEventsByKind(kind) ==
  {e \in OfKind(kind) :
     Cardinality({f \in OfKind(kind) : f.ts > e.ts}) < Window}

(* WHERE ts < ?, with no limit.                                            *)
OlderThan(t) == {e \in rows : e.ts < t}

-----------------------------------------------------------------------------
(* The writers.                                                            *)

LedgerInit ==
  /\ clock = 0
  /\ sessions = {}
  /\ rows = {}
  /\ writer = [w \in Writers |-> Idle]
  /\ archive = NotArchiving
  /\ sidecars = {}
  /\ appended = {}

(* ensureSession: INSERT OR IGNORE of the session row.                     *)
EnsureSession(w, s, kind, token) ==
  /\ sessions' = sessions \cup {s}
  /\ writer' = [writer EXCEPT ![w] = [Idle EXCEPT
                  !.pc = "ensured", !.session = s,
                  !.kind = kind, !.token = token]]
  /\ UNCHANGED <<clock, rows, archive, sidecars, appended>>

(* Any writer about to log something about its own session.                *)
LogWork(w) ==
  /\ w # Consumer /\ writer[w].pc = "idle"
  /\ \E s \in Sessions \ {PolicySession} : EnsureSession(w, s, "work", None)

(* approveTrace, once per token: token ids are random.                     *)
Grant(w) ==
  /\ w # Consumer /\ writer[w].pc = "idle"
  /\ \E t \in Tokens :
       /\ \A e \in appended : ~(e.kind = "granted" /\ e.token = t)
       /\ \A v \in Writers : writer[v].token # t
       /\ EnsureSession(w, PolicySession, "granted", t)

(* consumeApprovalToken: of the grants whose TTL has not run out the       *)
(* newest that no consumption names.  The two queries follow one another   *)
(* at once; what two consumers do to each other is CommandStore's subject. *)
Unspent ==
  {e \in FindEventsByKind("granted") :
     /\ e.ts + TTL > clock
     /\ \A f \in FindEventsByKind("consumed") : f.token # e.token}

Consume ==
  /\ writer[Consumer].pc = "idle"
  /\ \E e \in Unspent :
       /\ \A f \in Unspent : f.ts <= e.ts
       /\ EnsureSession(Consumer, PolicySession, "consumed", e.token)

(* appendEvent, one immediate transaction: the offset, the insert, the     *)
(* session's last_event_at.  The foreign key refuses an event without its  *)
(* session row; UNIQUE (session_id, offset) has nothing to refuse.  A run  *)
(* that logs work goes on without ensuring its session again.              *)
AppendEvent(w) ==
  LET s == writer[w].session
      event == [session |-> s, offset |-> NextOffset(s), ts |-> clock,
                kind |-> writer[w].kind, token |-> writer[w].token]
  IN /\ writer[w].pc = "ensured"
     /\ clock < MaxClock
     /\ \/ /\ s \in sessions
           /\ rows' = rows \cup {event}
           /\ appended' = appended \cup {event}
           /\ clock' = clock + 1
           /\ writer' = IF writer[w].kind = "work" THEN writer
                        ELSE [writer EXCEPT ![w] = Idle]
        \/ /\ s \notin sessions
           /\ writer' = [writer EXCEPT ![w] = Idle]
           /\ UNCHANGED <<rows, appended, clock>>
     /\ UNCHANGED <<sessions, archive, sidecars>>

(* A run that logged work is over, or its process dies.                    *)
WriterEnds(w) ==
  /\ writer[w].pc # "idle"
  /\ writer' = [writer EXCEPT ![w] = Idle]
  /\ UNCHANGED <<clock, sessions, rows, archive, sidecars, appended>>

-----------------------------------------------------------------------------
(* The archive run.                                                        *)

(* Step 1: the rows to archive.  With none the run returns at once.        *)
ArchiveSelect(before) ==
  /\ archive.pc = "idle"
  /\ before + Age <= clock + Ahead
  /\ OlderThan(before) # {}
  /\ archive' = [pc |-> "selected", before |-> before,
                 picked |-> OlderThan(before), emptied |-> {}]
  /\ UNCHANGED <<clock, sessions, rows, writer, sidecars, appended>>

(* Step 2, other statements: the sessions with no event beyond the picked  *)
(* ones.  A dry run ends here.                                             *)
ArchiveCount ==
  /\ archive.pc = "selected"
  /\ archive' = [archive EXCEPT !.pc = "counted",
       !.emptied = {s \in Sessions :
          /\ RowsOf(s) # {}
          /\ \E e \in archive.picked : e.session = s
          /\ Cardinality(RowsOf(s)) =
               Cardinality({e \in archive.picked : e.session = s})}]
  /\ UNCHANGED <<clock, sessions, rows, writer, sidecars, appended>>

(* Step 3: the sidecar, written and fsynced.                               *)
ArchiveWrite ==
  /\ archive.pc = "counted"
  /\ sidecars' = sidecars \cup archive.picked
  /\ archive' = [archive EXCEPT !.pc = "written"]
  /\ UNCHANGED <<clock, sessions, rows, writer, appended>>

(* MUTANT: the delete takes the archived sessions, not the archived rows.  *)
ArchiveDeleteSessions ==
  LET left == {e \in rows : \A f \in archive.picked : f.session # e.session}
  IN /\ archive.pc = "written"
     /\ rows' = left
     /\ sessions' = sessions \ archive.emptied
     /\ archive' = NotArchiving
     /\ UNCHANGED <<clock, writer, sidecars, appended>>

(* Step 4, one transaction.  An event that arrived since in a session to   *)
(* be deleted makes the foreign key refuse, and all of it is rolled back.  *)
ArchiveDelete ==
  LET left == rows \ OlderThan(archive.before)
  IN /\ archive.pc = "written"
     /\ \/ /\ \A e \in left : e.session \notin archive.emptied
           /\ rows' = left
           /\ sessions' = sessions \ archive.emptied
        \/ /\ \E e \in left : e.session \in archive.emptied
           /\ UNCHANGED <<rows, sessions>>
     /\ archive' = NotArchiving
     /\ UNCHANGED <<clock, writer, sidecars, appended>>

(* The dry run returns, or the process dies, between two steps.            *)
ArchiveEnds ==
  /\ archive.pc # "idle"
  /\ archive' = NotArchiving
  /\ UNCHANGED <<clock, sessions, rows, writer, sidecars, appended>>

-----------------------------------------------------------------------------

WriterStep(w) == LogWork(w) \/ Grant(w) \/ AppendEvent(w) \/ WriterEnds(w)

ArchiveStep ==
  \/ \E before \in 1 .. MaxClock + Ahead : ArchiveSelect(before)
  \/ ArchiveCount \/ ArchiveWrite \/ ArchiveDelete \/ ArchiveEnds

LedgerNext ==
  \/ \E w \in Writers : WriterStep(w)
  \/ Consume
  \/ ArchiveStep

LedgerSpec == LedgerInit /\ [][LedgerNext]_ledgerVars

-----------------------------------------------------------------------------
(* Properties.                                                             *)

WritersTypeOK ==
  writer \in [Writers -> [pc : {"idle", "ensured"}, session : Sessions \cup {None},
                          kind : Kinds, token : Tokens \cup {None}]]

ArchiveTypeOK ==
  archive \in [pc : {"idle", "selected", "counted", "written"}, before : Nat,
               picked : SUBSET appended, emptied : SUBSET Sessions]

(* What the variables hold: every event anywhere is one that was appended. *)
LedgerTypeOK ==
  /\ clock \in Nat
  /\ sessions \subseteq Sessions
  /\ rows \subseteq appended /\ sidecars \subseteq appended
  /\ \A e \in appended : e.session \in Sessions \cup {None} /\ e.kind \in Kinds
                         /\ e.token \in Tokens \cup {None}
  /\ WritersTypeOK /\ ArchiveTypeOK

(* An event that was appended is in the table, with its session row, or in *)
(* a sidecar file, though the archive run selects, writes and deletes in   *)
(* three steps, other processes append between them, to a session it saw   *)
(* empty too, and it may die after each (ledger/index.ts archive).         *)
EventsAreKept ==
  /\ appended \subseteq rows \cup sidecars
  /\ \A e \in rows : e.session \in sessions

(* The consumptions between two points of time, of the whole history.      *)
ConsumedBetween(from, to) ==
  {e \in appended : e.kind = "consumed" /\ from <= e.ts /\ e.ts < to}

(* A one-shot token is consumed again, by the one process that consumes,   *)
(* only when at least Window consumptions were appended from its first on  *)
(* (policy/evaluator.ts approvalEvents): neither an archive run, which     *)
(* takes the older grant with the consumption, nor the newer grants that   *)
(* push a grant out of its window make one token good for two commands.    *)
SpentAgainOnlyPastWindow ==
  \A e, f \in appended :
    e.kind = "consumed" /\ f.kind = "consumed" /\ e.token = f.token
      /\ e.ts < f.ts
      => Cardinality(ConsumedBetween(e.ts, f.ts)) >= Window

=============================================================================
