------------------------------ MODULE FileProofs ------------------------------
(***************************************************************************)
(* What the three stores that keep their state in files, the Ghost Shift   *)
(* queue, the event ledger and the quality ledger, keep for any number of  *)
(* processes, graphs, sessions, tokens and packets, any window and any     *)
(* kill.                                                                   *)
(*                                                                         *)
(* In the queue a file name is all that ties a graph to a directory.  The  *)
(* invariant therefore follows each name: a file holds a graph of its      *)
(* name, so for a graph that shares its name with no other, every rename   *)
(* of the name moves that graph, and the rename out of queue/ happens      *)
(* once.  In the ledger an archive run takes the oldest rows, so what it   *)
(* deletes it has read, unless it reaches into the future.  In the quality *)
(* ledger a writer has still in hand whatever it has not appended, so a    *)
(* complete row of the index stands for a packet that is all there, unless *)
(* a backfill wrote the row of an ingest that is not over; and the         *)
(* evidence ranks each model once, so one that was put first on it is not  *)
(* last.                                                                   *)
(***************************************************************************)
EXTENDS GhostShift, Ledger, QualityLedger, FiniteSetTheorems,
        SequenceTheorems, WellFoundedInduction, TLAPS

-----------------------------------------------------------------------------
(* The Ghost Shift queue.                                                  *)

In(d, g) == dir[d][name[g]] = g

FilesHoldTheirName ==
  \A d \in Dirs, f \in Files :
    dir[d][f] # 0 => dir[d][f] \in 1 .. enqueued /\ name[dir[d][f]] = f

NamesAndStarts ==
  /\ \A g \in 1 .. enqueued : name[g] \in Files
  /\ \A g \in Graphs : started[g] > 0 => g \in 1 .. enqueued /\ kind[g] = "safe"

(* Where a graph with a name of its own is, and what happened to it.       *)
PlaceInv(g) ==
  /\ \E d \in Dirs : \A e \in Dirs : In(e, g) <=> e = d
  /\ In("queue", g) => started[g] = 0
  /\ In("rejected", g) => started[g] = 0 /\ kind[g] # "safe"
  /\ \A d \in Routes \cup {"running"} : In(d, g) => started[g] = 1

(* What a shift knows: the names it lists were enqueued, a claimed graph is*)
(* safe and of the file's name, and what it rejects is not a safe graph.   *)
Named(f) == \E g \in 1 .. enqueued : name[g] = f

ShiftInv(s) ==
  /\ \A f \in shift[s].todo : Named(f)
  /\ shift[s].at \in {"claim", "reject", "executing", "route"} =>
       shift[s].file \in Files /\ Named(shift[s].file)
  /\ shift[s].at = "claim" =>
       kind[shift[s].graph] = "safe" /\ name[shift[s].graph] = shift[s].file
  /\ shift[s].at = "reject" =>
       \A g \in 1 .. enqueued :
         name[g] = shift[s].file /\ Unique(g) /\ kind[g] = "safe" => ~In("queue", g)
  /\ shift[s].at = "route" => shift[s].to \in Routes

GhostInv ==
  /\ GhostTypeOK
  /\ FilesHoldTheirName
  /\ NamesAndStarts
  /\ \A g \in 1 .. enqueued : Unique(g) => PlaceInv(g)
  /\ \A s \in Shifts : ShiftInv(s)

-----------------------------------------------------------------------------

LEMMA OldestIsMember ==
  ASSUME NEW S \in SUBSET Files, S # {} PROVE Oldest(S) \in S
<1>1. S \subseteq Nat
  BY GhostAssumption DEF Files
<1>2. PICK f \in S : \A h \in S : <<h, f>> \notin OpToRel(<, Nat)
  BY <1>1, NatLessThanWellFounded, WFMin
<1>3. \A h \in S : ~(h < f)
  BY <1>1, <1>2 DEF OpToRel
<1>4. \A h \in S : f <= h
  BY <1>1, <1>3
<1> QED  BY <1>4 DEF Oldest

LEMMA InitEstablishes == ASSUME GhostInit PROVE GhostInv
<1> USE GhostAssumption DEF GhostInit, NoShift
<1>1. GhostTypeOK
  BY DEF GhostTypeOK, Graphs, Files, Dirs, ShiftSteps, Routes
<1>2. \A s \in Shifts : ShiftInv(s)
  BY DEF ShiftInv
<1>3. FilesHoldTheirName /\ NamesAndStarts /\ \A g \in 1 .. enqueued : FALSE
  BY DEF FilesHoldTheirName, NamesAndStarts, Graphs
<1> QED  BY <1>1, <1>2, <1>3 DEF GhostInv

(* A rename of a present file, in terms of where graphs are.               *)
LEMMA MoveIs ==
  ASSUME GhostInv, NEW from \in Dirs, NEW to \in Dirs, from # to, NEW f \in Files,
         dir[from][f] # 0, dir' = Moved(from, to, f), UNCHANGED <<name, enqueued>>
  PROVE  /\ dir' \in [Dirs -> [Files -> 0 .. MaxGraphs]]
         /\ FilesHoldTheirName'
         /\ \A g \in 1 .. enqueued : Unique(g)' <=> Unique(g)
         /\ \A g \in 1 .. enqueued : name[g] # f => \A e \in Dirs : In(e, g)' <=> In(e, g)
         /\ \A g \in 1 .. enqueued : name[g] = f /\ Unique(g) =>
              In(from, g) /\ \A e \in Dirs : In(e, g)' => e = to
         /\ \A g \in 1 .. enqueued : name[g] = f /\ Unique(g) => In(to, g)'
<1>0. /\ dir \in [Dirs -> [Files -> 0 .. MaxGraphs]]
      /\ dir[from][f] \in 1 .. enqueued /\ name[dir[from][f]] = f
      /\ enqueued \in Nat /\ MaxGraphs \in Nat
  BY GhostAssumption DEF GhostInv, GhostTypeOK, FilesHoldTheirName
<1>1. /\ \A e \in Dirs, h \in Files : (h # f \/ e \notin {from, to}) => dir'[e][h] = dir[e][h]
      /\ dir'[from][f] = 0 /\ dir'[to][f] = dir[from][f]
  BY <1>0 DEF Moved
<1>2. dir' \in [Dirs -> [Files -> 0 .. MaxGraphs]]
  <2> DEFINE taken == [dir EXCEPT ![from] = [dir[from] EXCEPT ![f] = 0]]
  <2>1. taken \in [Dirs -> [Files -> 0 .. MaxGraphs]]
    BY <1>0
  <2>2. dir' = [taken EXCEPT ![to] = [taken[to] EXCEPT ![f] = dir[from][f]]]
    BY <1>0 DEF Moved
  <2>3. [taken[to] EXCEPT ![f] = dir[from][f]] \in [Files -> 0 .. MaxGraphs]
    BY <1>0, <2>1
  <2> HIDE DEF taken
  <2> QED  BY <2>1, <2>2, <2>3
<1>3. FilesHoldTheirName'
  BY <1>0, <1>1 DEF FilesHoldTheirName, GhostInv
<1>4. \A g \in 1 .. enqueued : Unique(g)' <=> Unique(g)
  BY DEF Unique
<1>5. \A g \in 1 .. enqueued : name[g] \in Files
  BY DEF GhostInv, NamesAndStarts
<1>6. ASSUME NEW g \in 1 .. enqueued, name[g] # f, NEW e \in Dirs
      PROVE  In(e, g)' <=> In(e, g)
  BY <1>1, <1>5, <1>6 DEF In
<1>7. ASSUME NEW g \in 1 .. enqueued, name[g] = f, Unique(g)
      PROVE  In(from, g) /\ In(to, g)' /\ \A e \in Dirs : In(e, g)' => e = to
  <2>1. dir[from][f] = g
    BY <1>0, <1>7 DEF Unique
  <2>2. \A e \in Dirs : dir[e][f] = g => e = from
    <3>1. PlaceInv(g)
      BY <1>7 DEF GhostInv
    <3> QED  BY <1>7, <2>1, <3>1 DEF PlaceInv, In
  <2> QED  BY <1>0, <1>1, <1>7, <2>1, <2>2 DEF In
<1> QED  BY <1>2, <1>3, <1>4, <1>6, <1>7

ShiftRecord ==
  [at : ShiftSteps, todo : SUBSET Files, file : Files \cup {0}, graph : 0 .. MaxGraphs, to : Dirs]

(* A shift that stands still keeps what it knows, as long as nothing enters*)
(* the queue.                                                              *)
LEMMA ShiftUntouched ==
  ASSUME GhostInv, NEW s \in Shifts, shift'[s] = shift[s], UNCHANGED <<kind, name, enqueued>>,
         \A g \in 1 .. enqueued : Unique(g) /\ In("queue", g)' => In("queue", g)
  PROVE  ShiftInv(s)'
<1>1. ShiftInv(s) /\ \A g \in 1 .. enqueued : Unique(g)' <=> Unique(g)
  BY DEF GhostInv, Unique
<1> QED  BY <1>1 DEF ShiftInv, Named

(* A graph no step touches stays in its place.                             *)
LEMMA PlaceUntouched ==
  ASSUME GhostInv, NEW g \in 1 .. enqueued, Unique(g), UNCHANGED kind, started'[g] = started[g],
         \A e \in Dirs : In(e, g)' <=> In(e, g)
  PROVE  PlaceInv(g)'
<1>1. PlaceInv(g)
  BY DEF GhostInv
<1>2. "queue" \in Dirs /\ "rejected" \in Dirs /\ Routes \cup {"running"} \subseteq Dirs
  BY DEF Dirs
<1> QED  BY <1>1, <1>2 DEF PlaceInv

(* Steps that move no file and start no graph.                             *)
LEMMA FilesUntouched ==
  ASSUME GhostInv, UNCHANGED <<dir, kind, name, enqueued, started>>
  PROVE  /\ FilesHoldTheirName' /\ NamesAndStarts'
         /\ \A g \in 1 .. enqueued' : Unique(g)' => PlaceInv(g)'
<1>1. FilesHoldTheirName' /\ NamesAndStarts'
  BY DEF GhostInv, FilesHoldTheirName, NamesAndStarts
<1>2. \A g \in 1 .. enqueued : (Unique(g)' <=> Unique(g)) /\ \A e \in Dirs : In(e, g)' <=> In(e, g)
  BY DEF Unique, In
<1> QED  BY <1>1, <1>2, PlaceUntouched

-----------------------------------------------------------------------------

(* A new file: its graph has a name of its own only if no file had it.     *)
LEMMA EnqueueStep == ASSUME GhostInv, Enqueue PROVE GhostInv'
<1>0. /\ enqueued \in Nat /\ enqueued' = enqueued + 1 /\ enqueued + 1 \in Graphs
      /\ name' = [name EXCEPT ![enqueued + 1] = second] /\ second \in Files
      /\ dir' = [dir EXCEPT !["queue"][second] = enqueued + 1]
      /\ name \in [Graphs -> Files \cup {0}] /\ dir \in [Dirs -> [Files -> 0 .. MaxGraphs]]
      /\ "queue" \in Dirs /\ MaxGraphs \in Nat
      /\ UNCHANGED <<kind, second, disabled, shift, started, crashes>>
  BY GhostAssumption DEF GhostInv, GhostTypeOK, Enqueue, Graphs, Dirs
<1>1. /\ name'[enqueued + 1] = second
      /\ \A g \in 1 .. enqueued : g \in Graphs /\ name'[g] = name[g]
      /\ 1 .. enqueued' = 1 .. enqueued \cup {enqueued + 1}
  BY <1>0 DEF GhostInv, GhostTypeOK, Graphs
<1>2. /\ dir'["queue"][second] = enqueued + 1
      /\ \A d \in Dirs, f \in Files : d # "queue" \/ f # second => dir'[d][f] = dir[d][f]
  BY <1>0
<1>3. dir' \in [Dirs -> [Files -> 0 .. MaxGraphs]]
  <2>1. [dir["queue"] EXCEPT ![second] = enqueued + 1] \in [Files -> 0 .. MaxGraphs]
    BY <1>0 DEF Graphs
  <2> QED  BY <1>0, <2>1
<1>4. GhostTypeOK'
  <2>1. enqueued' \in 0 .. MaxGraphs /\ name' \in [Graphs -> Files \cup {0}]
    BY <1>0 DEF Graphs
  <2> QED  BY <1>0, <1>1, <1>3, <2>1 DEF GhostInv, GhostTypeOK
<1>5. FilesHoldTheirName'
  BY <1>0, <1>1, <1>2 DEF GhostInv, FilesHoldTheirName
<1>6. NamesAndStarts'
  BY <1>0, <1>1 DEF GhostInv, NamesAndStarts
<1>7. ASSUME NEW g \in 1 .. enqueued', Unique(g)'
      PROVE  PlaceInv(g)'
  <2>1. CASE g = enqueued + 1
    <3>1. \A h \in 1 .. enqueued : name[h] # second
      BY <1>0, <1>1, <1>7, <2>1 DEF Unique
    <3>2. \A d \in Dirs : dir[d][second] = 0
      BY <1>0, <3>1 DEF GhostInv, FilesHoldTheirName
    <3>3. \A e \in Dirs : In(e, g)' <=> e = "queue"
      BY <1>0, <1>1, <1>2, <2>1, <3>2 DEF In
    <3>4. started[g] = 0
      <4>1. g \in Graphs /\ g \notin 1 .. enqueued /\ started \in [Graphs -> Nat]
        BY <1>0, <2>1 DEF GhostInv, GhostTypeOK
      <4>2. ~(started[g] > 0) /\ started[g] \in Nat
        BY <4>1 DEF GhostInv, NamesAndStarts
      <4> QED  BY <4>2
    <3> QED  BY <1>0, <3>3, <3>4 DEF PlaceInv, Dirs, Routes
  <2>2. CASE g \in 1 .. enqueued
    <3>1. Unique(g) /\ name[g] # second
      BY <1>0, <1>1, <1>7, <2>2 DEF Unique
    <3>2. \A e \in Dirs : In(e, g)' <=> In(e, g)
      BY <1>1, <1>2, <2>2, <3>1 DEF In, GhostInv, NamesAndStarts
    <3> QED  BY <1>0, <2>2, <3>1, <3>2, PlaceUntouched
  <2> QED  BY <1>1, <1>7, <2>1, <2>2
<1>8. ASSUME NEW s \in Shifts
      PROVE  ShiftInv(s)'
  <2>0. ShiftInv(s) /\ shift'[s] = shift[s]
    BY <1>0 DEF GhostInv
  <2>1. \A f : Named(f) => Named(f)'
    BY <1>1 DEF Named
  <2>2. shift[s].at = "claim" => shift[s].graph \in 1 .. enqueued
    BY DEF GhostInv, GhostTypeOK
  <2>3. ASSUME shift[s].at = "reject", NEW g \in 1 .. enqueued',
               name'[g] = shift[s].file, Unique(g)', kind[g] = "safe"
        PROVE  ~In("queue", g)'
    <3>1. PICK h \in 1 .. enqueued : name[h] = shift[s].file
      BY <2>0, <2>3 DEF ShiftInv, Named
    <3>2. h = g
      BY <1>1, <2>3, <3>1 DEF Unique
    <3>3. Unique(g) /\ name[g] # second
      BY <1>0, <1>1, <2>3, <3>2 DEF Unique
    <3>4. ~In("queue", g)
      BY <2>0, <2>3, <3>1, <3>2, <3>3 DEF ShiftInv
    <3> QED
      BY <1>0, <1>1, <1>2, <3>2, <3>3, <3>4 DEF In, GhostInv, NamesAndStarts
  <2> QED  BY <1>0, <1>1, <2>0, <2>1, <2>2, <2>3 DEF ShiftInv
<1> QED  BY <1>4, <1>5, <1>6, <1>7, <1>8 DEF GhostInv

-----------------------------------------------------------------------------

(* Steps of a shift that move no file.                                     *)
LEMMA WalkStep ==
  ASSUME GhostInv, NEW s \in Shifts,
         StartShift(s) \/ LoadNext(s) \/ EndShift(s) \/ Crash(s)
           \/ \E route \in Routes : Executed(s, route)
  PROVE  GhostInv'
<1>0. /\ UNCHANGED <<dir, kind, name, enqueued, second, disabled, started>>
      /\ shift \in [Shifts -> ShiftRecord] /\ ShiftInv(s)
  BY DEF StartShift, LoadNext, EndShift, Crash, Executed, GhostInv, GhostTypeOK, ShiftRecord
<1>1. ASSUME NEW r \in ShiftRecord, shift' = [shift EXCEPT ![s] = r], crashes' \in 0 .. MaxCrashes,
             r.at \in {"claim", "executing", "route"} =>
               r.graph \in 1 .. enqueued /\ r.file \in Files,
             \A f \in r.todo : Named(f),
             r.at \in {"claim", "reject", "executing", "route"} => r.file \in Files /\ Named(r.file),
             r.at = "claim" => kind[r.graph] = "safe" /\ name[r.graph] = r.file,
             r.at = "reject" => \A g \in 1 .. enqueued :
               name[g] = r.file /\ Unique(g) /\ kind[g] = "safe" => ~In("queue", g),
             r.at = "route" => r.to \in Routes
      PROVE  GhostInv'
  <2>1. /\ shift'[s] = r /\ shift' \in [Shifts -> ShiftRecord]
        /\ \A t \in Shifts : t # s => shift'[t] = shift[t]
    BY <1>0, <1>1
  <2>2. GhostTypeOK'
    BY <1>0, <1>1, <2>1 DEF GhostInv, GhostTypeOK, ShiftRecord
  <2>3. ShiftInv(s)'
    BY <1>0, <1>1, <2>1 DEF ShiftInv, Named, Unique, In
  <2>4. \A t \in Shifts : t # s => ShiftInv(t)'
    BY <1>0, <2>1, ShiftUntouched DEF In
  <2> QED  BY <1>0, <2>2, <2>3, <2>4, FilesUntouched DEF GhostInv
<1>2. NoShift \in ShiftRecord /\ NoShift.todo = {} /\ NoShift.at = "off"
  BY GhostAssumption DEF NoShift, ShiftRecord, ShiftSteps, Dirs, Files
<1>3. crashes \in 0 .. MaxCrashes
  BY DEF GhostInv, GhostTypeOK
<1>4. CASE StartShift(s)
  <2> DEFINE r == [NoShift EXCEPT !.at = "next", !.todo = InDir("queue")]
  <2>1. r \in ShiftRecord /\ r.at = "next" /\ r.todo = InDir("queue")
    <3>1. InDir("queue") \in SUBSET Files
      BY DEF InDir
    <3> QED  BY <1>2, <3>1 DEF ShiftRecord, ShiftSteps
  <2>2. \A f \in InDir("queue") : Named(f)
    BY DEF InDir, Named, GhostInv, FilesHoldTheirName, Dirs
  <2>3. shift' = [shift EXCEPT ![s] = r] /\ crashes' = crashes
    BY <1>4 DEF StartShift
  <2> QED  BY <1>1, <1>3, <2>1, <2>2, <2>3
<1>5. CASE LoadNext(s)
  <2> DEFINE f == Oldest(shift[s].todo)
             g == dir["queue"][f]
             r == [at |-> Verdict(g), todo |-> shift[s].todo \ {f}, file |-> f,
                   graph |-> g, to |-> "rejected"]
  <2>1. /\ shift[s].todo \in SUBSET Files /\ shift[s].todo # {}
        /\ shift' = [shift EXCEPT ![s] = r] /\ crashes' = crashes
    BY <1>0, <1>5 DEF LoadNext, ShiftRecord
  <2>2. f \in shift[s].todo
    BY <2>1, OldestIsMember
  <2>3. f \in Files /\ Named(f) /\ "queue" \in Dirs /\ "rejected" \in Dirs
    BY <1>0, <2>1, <2>2 DEF ShiftInv, Dirs
  <2>4. g \in 0 .. MaxGraphs /\ (g # 0 => g \in 1 .. enqueued /\ name[g] = f)
    BY <2>3 DEF GhostInv, GhostTypeOK, FilesHoldTheirName
  <2>5. /\ Verdict(g) \in {"claim", "reject"}
        /\ Verdict(g) = "claim" => g # 0 /\ kind[g] = "safe"
        /\ Verdict(g) = "reject" => g = 0 \/ kind[g] # "safe"
    BY DEF Verdict
  <2>6. Verdict(g) = "reject" =>
          \A h \in 1 .. enqueued : name[h] = f /\ kind[h] = "safe" => ~In("queue", h)
    BY <2>5 DEF In
  <2>7. r \in ShiftRecord
    BY <2>1, <2>3, <2>4, <2>5 DEF ShiftRecord, ShiftSteps
  <2>8. /\ r.at = Verdict(g) /\ r.todo \subseteq shift[s].todo /\ r.file = f /\ r.graph = g
    OBVIOUS
  <2> HIDE DEF r, f, g
  <2> QED  BY <1>0, <1>1, <1>3, <2>1, <2>3, <2>4, <2>5, <2>6, <2>7, <2>8 DEF ShiftInv
<1>6. CASE EndShift(s) \/ Crash(s)
  <2>1. shift' = [shift EXCEPT ![s] = NoShift] /\ crashes' \in 0 .. MaxCrashes
    BY <1>3, <1>6, GhostAssumption DEF EndShift, Crash
  <2> QED  BY <1>1, <1>2, <2>1
<1>7. ASSUME NEW route \in Routes, Executed(s, route)
      PROVE  GhostInv'
  <2> DEFINE r == [shift[s] EXCEPT !.at = "route", !.to = route]
  <2>1. /\ shift[s].at = "executing" /\ shift[s] \in ShiftRecord /\ route \in Dirs
        /\ shift[s].graph \in 1 .. enqueued /\ shift[s].file \in Files
        /\ crashes' = crashes /\ shift' = [shift EXCEPT ![s] = r]
    BY <1>0, <1>7 DEF Executed, GhostInv, GhostTypeOK, Dirs
  <2>2. /\ r \in ShiftRecord /\ r.at = "route" /\ r.todo = shift[s].todo /\ r.file = shift[s].file
        /\ r.graph = shift[s].graph /\ r.to = route
    BY <2>1 DEF ShiftRecord, ShiftSteps
  <2> HIDE DEF r
  <2> QED  BY <1>0, <1>1, <1>3, <2>1, <2>2 DEF ShiftInv
<1> QED  BY <1>4, <1>5, <1>6, <1>7

(* The file a shift moves: gone, and the shift ends, or renamed.           *)
LEMMA MoveStep ==
  ASSUME GhostInv, NEW s \in Shifts, NEW from \in Dirs, NEW to \in Dirs, from # to, to # "queue",
         NEW at \in {"next", "executing"}, MoveFile(s, from, to, at),
         shift[s].file \in Files, Named(shift[s].file),
         at = "executing" => shift[s].graph \in 1 .. enqueued,
         UNCHANGED <<kind, name, enqueued, second, disabled, crashes>>,
         started' \in [Graphs -> Nat]
  PROVE  /\ GhostTypeOK' /\ FilesHoldTheirName'
         /\ \A t \in Shifts : ShiftInv(t)'
<1> DEFINE f == shift[s].file
<1>0. /\ shift \in [Shifts -> ShiftRecord] /\ shift[s] \in ShiftRecord
      /\ dir \in [Dirs -> [Files -> 0 .. MaxGraphs]] /\ ShiftInv(s)
  BY DEF GhostInv, GhostTypeOK, ShiftRecord
<1>1. /\ dir' \in [Dirs -> [Files -> 0 .. MaxGraphs]] /\ FilesHoldTheirName'
      /\ \A g \in 1 .. enqueued : Unique(g) /\ In("queue", g)' => In("queue", g)
  <2>1. CASE dir[from][f] = 0
    <3>1. dir' = dir
      BY <2>1 DEF MoveFile
    <3> QED  BY <1>0, <3>1 DEF GhostInv, FilesHoldTheirName, In
  <2>2. CASE dir[from][f] # 0
    <3>1. dir' = Moved(from, to, f) /\ "queue" \in Dirs
      BY <2>2 DEF MoveFile, Dirs
    <3> QED  BY <2>2, <3>1, MoveIs
  <2> QED  BY <2>1, <2>2
<1>2. PICK r \in ShiftRecord :
        /\ shift' = [shift EXCEPT ![s] = r]
        /\ r.at \in {"aborted", "next", "executing"}
        /\ r.at = "executing" => at = "executing" /\ r.file = f /\ r.graph = shift[s].graph
        /\ \A h \in r.todo : Named(h)
  <2>1. CASE dir[from][f] = 0
    <3> DEFINE r == [NoShift EXCEPT !.at = "aborted"]
    <3>1. shift' = [shift EXCEPT ![s] = r]
      BY <2>1 DEF MoveFile
    <3>2. r \in ShiftRecord /\ r.at = "aborted" /\ r.todo = {}
      BY GhostAssumption DEF NoShift, ShiftRecord, ShiftSteps, Dirs, Files
    <3> HIDE DEF r
    <3> QED  BY <3>1, <3>2
  <2>2. CASE dir[from][f] # 0
    <3> DEFINE r == [shift[s] EXCEPT !.at = at]
    <3>1. shift' = [shift EXCEPT ![s] = r]
      BY <1>0, <2>2 DEF MoveFile
    <3>2. /\ r \in ShiftRecord /\ r.at = at /\ r.todo = shift[s].todo /\ r.file = f
          /\ r.graph = shift[s].graph
      BY <1>0 DEF ShiftRecord, ShiftSteps
    <3>3. \A h \in shift[s].todo : Named(h)
      BY <1>0 DEF ShiftInv
    <3> HIDE DEF r
    <3> QED  BY <3>1, <3>2, <3>3
  <2> QED  BY <2>1, <2>2
<1>3. /\ shift'[s] = r /\ shift' \in [Shifts -> ShiftRecord]
      /\ \A t \in Shifts : t # s => shift'[t] = shift[t]
  BY <1>0, <1>2
<1>4. GhostTypeOK'
  BY <1>0, <1>1, <1>2, <1>3 DEF GhostInv, GhostTypeOK, ShiftRecord
<1>5. ShiftInv(s)'
  BY <1>2, <1>3 DEF ShiftInv, Named
<1>6. \A t \in Shifts : t # s => ShiftInv(t)'
  BY <1>1, <1>3, ShiftUntouched
<1> QED  BY <1>1, <1>4, <1>5, <1>6

LEMMA RejectStep == ASSUME GhostInv, NEW s \in Shifts, Reject(s) PROVE GhostInv'
<1> DEFINE f == shift[s].file
<1>0. /\ MoveFile(s, "queue", "rejected", "next") /\ shift[s].at = "reject"
      /\ UNCHANGED <<kind, name, enqueued, second, disabled, started, crashes>>
      /\ f \in Files /\ Named(f) /\ started \in [Graphs -> Nat]
      /\ "queue" \in Dirs /\ "rejected" \in Dirs /\ ShiftInv(s)
  BY DEF Reject, GhostInv, GhostTypeOK, ShiftInv, Dirs
<1>1. GhostTypeOK' /\ FilesHoldTheirName' /\ \A t \in Shifts : ShiftInv(t)'
  BY <1>0, MoveStep
<1>2. NamesAndStarts'
  BY <1>0 DEF GhostInv, NamesAndStarts
<1>3. \A g \in 1 .. enqueued : Unique(g)' <=> Unique(g)
  BY <1>0 DEF Unique
<1>4. ASSUME NEW g \in 1 .. enqueued, Unique(g)
      PROVE  PlaceInv(g)'
  <2>1. CASE dir["queue"][f] = 0
    <3>1. \A e \in Dirs : In(e, g)' <=> In(e, g)
      BY <1>0, <2>1 DEF MoveFile, In
    <3> QED  BY <1>0, <1>4, <3>1, PlaceUntouched
  <2>2. CASE dir["queue"][f] # 0 /\ name[g] # f
    <3>1. \A e \in Dirs : In(e, g)' <=> In(e, g)
      BY <1>0, <2>2, MoveIs DEF MoveFile
    <3> QED  BY <1>0, <1>4, <3>1, PlaceUntouched
  <2>3. CASE dir["queue"][f] # 0 /\ name[g] = f
    <3>1. In("queue", g) /\ \A e \in Dirs : In(e, g)' <=> e = "rejected"
      BY <1>0, <1>4, <2>3, MoveIs DEF MoveFile
    <3>2. kind[g] # "safe" /\ started[g] = 0
      BY <1>0, <1>4, <2>3, <3>1 DEF ShiftInv, GhostInv, PlaceInv
    <3> QED  BY <1>0, <3>1, <3>2 DEF PlaceInv, Routes, Dirs
  <2> QED  BY <2>1, <2>2, <2>3
<1> QED  BY <1>0, <1>1, <1>2, <1>3, <1>4 DEF GhostInv

LEMMA RouteStep == ASSUME GhostInv, NEW s \in Shifts, Route(s) PROVE GhostInv'
<1> DEFINE f == shift[s].file
           to == shift[s].to
<1>0. /\ MoveFile(s, "running", to, "next") /\ shift[s].at = "route"
      /\ UNCHANGED <<kind, name, enqueued, second, disabled, started, crashes>>
      /\ f \in Files /\ Named(f) /\ started \in [Graphs -> Nat]
      /\ "running" \in Dirs /\ to \in Routes /\ to \in Dirs /\ to # "running" /\ to # "queue"
  BY DEF Route, GhostInv, GhostTypeOK, ShiftInv, Dirs, Routes
<1>1. GhostTypeOK' /\ FilesHoldTheirName' /\ \A t \in Shifts : ShiftInv(t)'
  BY <1>0, MoveStep
<1>2. NamesAndStarts'
  BY <1>0 DEF GhostInv, NamesAndStarts
<1>3. \A g \in 1 .. enqueued : Unique(g)' <=> Unique(g)
  BY <1>0 DEF Unique
<1>4. ASSUME NEW g \in 1 .. enqueued, Unique(g)
      PROVE  PlaceInv(g)'
  <2>1. CASE dir["running"][f] = 0
    <3>1. \A e \in Dirs : In(e, g)' <=> In(e, g)
      BY <1>0, <2>1 DEF MoveFile, In
    <3> QED  BY <1>0, <1>4, <3>1, PlaceUntouched
  <2>2. CASE dir["running"][f] # 0 /\ name[g] # f
    <3>1. \A e \in Dirs : In(e, g)' <=> In(e, g)
      BY <1>0, <2>2, MoveIs DEF MoveFile
    <3> QED  BY <1>0, <1>4, <3>1, PlaceUntouched
  <2>3. CASE dir["running"][f] # 0 /\ name[g] = f
    <3>1. In("running", g) /\ \A e \in Dirs : In(e, g)' <=> e = to
      BY <1>0, <1>4, <2>3, MoveIs DEF MoveFile
    <3>2. started[g] = 1
      BY <1>4, <3>1 DEF GhostInv, PlaceInv
    <3> QED  BY <1>0, <3>1, <3>2 DEF PlaceInv, Routes, Dirs
  <2> QED  BY <2>1, <2>2, <2>3
<1> QED  BY <1>0, <1>1, <1>2, <1>3, <1>4 DEF GhostInv

LEMMA ClaimStep == ASSUME GhostInv, NEW s \in Shifts, Claim(s) PROVE GhostInv'
<1> DEFINE f == shift[s].file
           c == shift[s].graph
<1>0. /\ MoveFile(s, "queue", "running", "executing") /\ shift[s].at = "claim"
      /\ started' = IF dir["queue"][f] = 0 THEN started ELSE [started EXCEPT ![c] = @ + 1]
      /\ UNCHANGED <<kind, name, enqueued, second, disabled, crashes>>
      /\ f \in Files /\ Named(f) /\ started \in [Graphs -> Nat]
      /\ "queue" \in Dirs /\ "running" \in Dirs
      /\ c \in 1 .. enqueued /\ kind[c] = "safe" /\ name[c] = f
      /\ enqueued \in 0 .. MaxGraphs
  BY DEF Claim, GhostInv, GhostTypeOK, ShiftInv, Dirs
<1>1. c \in Graphs /\ started' \in [Graphs -> Nat]
  BY <1>0, GhostAssumption DEF Graphs
<1>2. GhostTypeOK' /\ FilesHoldTheirName' /\ \A t \in Shifts : ShiftInv(t)'
  BY <1>0, <1>1, MoveStep
<1>3. NamesAndStarts'
  BY <1>0 DEF GhostInv, NamesAndStarts
<1>4. \A g \in 1 .. enqueued : g \in Graphs /\ (Unique(g)' <=> Unique(g))
  BY <1>0, GhostAssumption DEF Unique, Graphs, GhostInv, GhostTypeOK
<1>5. ASSUME NEW g \in 1 .. enqueued, Unique(g)
      PROVE  PlaceInv(g)'
  <2>1. CASE dir["queue"][f] = 0
    <3>1. \A e \in Dirs : In(e, g)' <=> In(e, g)
      BY <1>0, <2>1 DEF MoveFile, In
    <3> QED  BY <1>0, <1>5, <2>1, <3>1, PlaceUntouched
  <2>2. CASE dir["queue"][f] # 0 /\ name[g] # f
    <3>1. \A e \in Dirs : In(e, g)' <=> In(e, g)
      BY <1>0, <2>2, MoveIs DEF MoveFile
    <3>2. started'[g] = started[g]
      BY <1>0, <1>4, <2>2
    <3> QED  BY <1>0, <1>5, <3>1, <3>2, PlaceUntouched
  <2>3. CASE dir["queue"][f] # 0 /\ name[g] = f
    <3>1. In("queue", g) /\ \A e \in Dirs : In(e, g)' <=> e = "running"
      BY <1>0, <1>5, <2>3, MoveIs DEF MoveFile
    <3>2. started[g] = 0
      BY <1>5, <3>1 DEF GhostInv, PlaceInv
    <3>3. c = g
      BY <1>0, <1>5, <2>3 DEF Unique
    <3>4. started'[g] = 1
      BY <1>0, <1>4, <2>3, <3>2, <3>3
    <3> QED  BY <1>0, <3>1, <3>4 DEF PlaceInv, Routes, Dirs
  <2> QED  BY <2>1, <2>2, <2>3
<1> QED  BY <1>0, <1>2, <1>3, <1>4, <1>5 DEF GhostInv

-----------------------------------------------------------------------------

LEMMA StepPreserves == ASSUME GhostInv, [GhostNext]_ghostVars PROVE GhostInv'
<1>1. CASE Tick \/ KillSwitch \/ UNCHANGED ghostVars
  <2>1. /\ UNCHANGED <<dir, kind, name, enqueued, shift, started, crashes>>
        /\ second' \in Files /\ disabled' \in BOOLEAN
    <3>1. second \in Files /\ disabled \in BOOLEAN
      BY DEF GhostInv, GhostTypeOK
    <3>2. CASE Tick
      BY <3>1, <3>2, GhostAssumption DEF Tick, Files
    <3>3. CASE KillSwitch
      BY <3>1, <3>3 DEF KillSwitch
    <3>4. CASE UNCHANGED ghostVars
      BY <3>1, <3>4 DEF ghostVars
    <3> QED  BY <1>1, <3>2, <3>3, <3>4
  <2>2. GhostTypeOK'
    BY <2>1 DEF GhostInv, GhostTypeOK
  <2>3. \A s \in Shifts : ShiftInv(s)'
    BY <2>1, ShiftUntouched DEF In
  <2> QED  BY <2>1, <2>2, <2>3, FilesUntouched DEF GhostInv
<1>2. ASSUME NEW s \in Shifts, StartShift(s) \/ ShiftStep(s) \/ Crash(s)
      PROVE  GhostInv'
  BY <1>2, WalkStep, RejectStep, ClaimStep, RouteStep DEF ShiftStep
<1> QED  BY <1>1, <1>2, EnqueueStep DEF GhostNext

LEMMA Invariant == GhostSpec => []GhostInv
<1> QED  BY InitEstablishes, StepPreserves, PTL DEF GhostSpec

(* Every state of the queue and its shifts is in the types stated for it.  *)
THEOREM GhostTypeCorrect == GhostSpec => []GhostTypeOK
<1>1. GhostInv => GhostTypeOK
  BY DEF GhostInv
<1> QED  BY <1>1, Invariant, PTL

(* For any number of overlapping shifts and kills: a graph with a name of  *)
(* its own starts at most once (processOne, ghost/shift.ts).               *)
THEOREM AlwaysStartedOnce == GhostSpec => []StartedOnce
<1>1. ASSUME GhostInv, NEW g \in 1 .. enqueued, Unique(g) PROVE started[g] <= 1
  <2>1. PlaceInv(g)
    BY <1>1 DEF GhostInv
  <2>2. PICK d \in Dirs : In(d, g)
    BY <2>1 DEF PlaceInv
  <2> QED  BY <2>1, <2>2 DEF PlaceInv, Dirs
<1>2. GhostInv => StartedOnce
  BY <1>1 DEF StartedOnce
<1> QED  BY <1>2, Invariant, PTL

(* For any number of overlapping shifts and kills: such a graph is in one  *)
(* file of one directory.                                                  *)
THEOREM AlwaysInOnePlace == GhostSpec => []InOnePlace
<1>1. ASSUME GhostInv, NEW g \in 1 .. enqueued, Unique(g) PROVE Cardinality(Holding(g)) = 1
  <2>1. PICK d \in Dirs : \A e \in Dirs : In(e, g) <=> e = d
    BY <1>1 DEF GhostInv, PlaceInv
  <2>2. name[g] \in Files /\ g # 0
    BY <1>1 DEF GhostInv, NamesAndStarts
  <2>3. \A e \in Dirs, f \in Files : dir[e][f] = g => f = name[g]
    BY <1>1, <2>2 DEF GhostInv, FilesHoldTheirName
  <2>4. Holding(g) = {<<d, name[g]>>}
    BY <2>1, <2>2, <2>3 DEF Holding, In
  <2> QED  BY <2>4, FS_Singleton
<1>2. GhostInv => InOnePlace
  BY <1>1 DEF InOnePlace
<1> QED  BY <1>2, Invariant, PTL

(* The directory of a file always tells what happened to its graph.        *)
THEOREM DirectoryAlwaysTells == GhostSpec => []DirectoryTellsHistory
<1>1. ASSUME GhostInv, NEW d \in Dirs, NEW f \in Files, dir[d][f] # 0, Unique(dir[d][f])
      PROVE  LET g == dir[d][f] IN /\ d \in Routes => started[g] = 1
                                   /\ d \in {"queue", "rejected"} => started[g] = 0
                                   /\ d = "rejected" => kind[g] # "safe"
  <2> DEFINE g == dir[d][f]
  <2>1. g \in 1 .. enqueued /\ In(d, g)
    BY <1>1 DEF GhostInv, FilesHoldTheirName, In
  <2>2. PlaceInv(g)
    BY <1>1, <2>1 DEF GhostInv
  <2> QED  BY <2>1, <2>2 DEF PlaceInv
<1>2. GhostInv => DirectoryTellsHistory
  BY <1>1 DEF DirectoryTellsHistory
<1> QED  BY <1>2, Invariant, PTL

(* Whatever names collide: a graph that starts passed the assessment.      *)
THEOREM OnlySafeEverStart == GhostSpec => []OnlySafeGraphsStart
<1>1. GhostInv => OnlySafeGraphsStart
  BY DEF GhostInv, NamesAndStarts, OnlySafeGraphsStart
<1> QED  BY <1>1, Invariant, PTL

(* For any number of overlapping shifts and kills: what lies where, and    *)
(* what ran, follow from the safety assessment (assessGraph in             *)
(* processOne, ghost/shift.ts).                                            *)
THEOREM FilesAlwaysTellTheTruth == GhostSpec => []FilesTellTheTruth
<1>1. DirectoryTellsHistory /\ OnlySafeGraphsStart => FilesTellTheTruth
  BY DEF FilesTellTheTruth
<1> QED  BY <1>1, DirectoryAlwaysTells, OnlySafeEverStart, PTL

-----------------------------------------------------------------------------
(* The ledger.                                                             *)

Granted(e) == e.kind = "granted"
Consumed(e) == e.kind = "consumed"

(* The table holds what was appended, and the clock is ahead of it.        *)
TimeInv ==
  /\ clock \in Nat
  /\ IsFiniteSet(appended)
  /\ rows \subseteq appended
  /\ \A e \in appended : e.ts \in Nat /\ e.ts < clock
  /\ \A e \in appended : e.session \in Sessions \cup {None} /\ e.kind \in Kinds
                         /\ e.token \in Tokens \cup {None}

(* An archive run takes the oldest rows and leaves no gap.                 *)
Suffix == \A x \in rows, y \in appended : x.ts <= y.ts => y \in rows

(* A token is granted once.                                                *)
GrantedOnce ==
  /\ \A e, f \in appended : Granted(e) /\ Granted(f) /\ e.token = f.token => e = f
  /\ \A w \in Writers, e \in appended :
       Granted(writer[w]) /\ Granted(e) => e.token # writer[w].token
  /\ \A v, w \in Writers :
       Granted(writer[v]) /\ Granted(writer[w]) /\ writer[v].token = writer[w].token => v = w

(* A consumption, made or under way, follows the grant of its token.       *)
ConsumedAfterGrant ==
  /\ \A w \in Writers : Consumed(writer[w]) => w = Consumer
  /\ Consumed(writer[Consumer]) =>
       \E e \in appended : Granted(e) /\ e.token = writer[Consumer].token
  /\ \A f \in appended : Consumed(f) => \E e \in appended : Granted(e) /\ e.token = f.token
  /\ \A e, f \in appended : Granted(e) /\ Consumed(f) /\ e.token = f.token => e.ts < f.ts

(* What the consumption under way has behind it.                           *)
PendingPastWindow ==
  Consumed(writer[Consumer]) =>
    \A f \in appended :
      Consumed(f) /\ f.token = writer[Consumer].token =>
        Cardinality(ConsumedBetween(f.ts, clock)) >= Window

TokenInv ==
  /\ TimeInv /\ WritersTypeOK /\ ArchiveTypeOK /\ Suffix
  /\ GrantedOnce /\ ConsumedAfterGrant /\ PendingPastWindow /\ SpentAgainOnlyPastWindow

USE DEF Granted, Consumed, ledgerVars

-----------------------------------------------------------------------------
(* Steps that append nothing                                               *)

(* A writer's record is its session row's, its end is Idle.                *)
LEMMA NewWriter ==
  ASSUME NEW w \in Writers, WritersTypeOK, NEW s \in Sessions, NEW k \in Kinds,
         NEW t \in Tokens \cup {None}, EnsureSession(w, s, k, t)
  PROVE  /\ WritersTypeOK'
         /\ writer'[w] = [pc |-> "ensured", session |-> s, kind |-> k, token |-> t]
         /\ \A v \in Writers \ {w} : writer'[v] = writer[v]
BY DEF WritersTypeOK, EnsureSession, Idle

LEMMA IdleWriter ==
  ASSUME NEW w \in Writers, WritersTypeOK, writer' = [writer EXCEPT ![w] = Idle]
  PROVE  /\ WritersTypeOK'
         /\ writer'[w].kind = "work"
         /\ \A v \in Writers \ {w} : writer'[v] = writer[v]
BY DEF WritersTypeOK, Idle, Kinds

(* A writer that grants and consumes nothing disturbs nothing.             *)
LEMMA HarmlessWriter ==
  ASSUME TokenInv, UNCHANGED <<clock, rows, appended, archive>>, NEW w \in Writers, WritersTypeOK',
         writer'[w].kind = "work", \A v \in Writers \ {w} : writer'[v] = writer[v]
  PROVE  TokenInv'
<1>1. TimeInv' /\ ArchiveTypeOK' /\ Suffix' /\ SpentAgainOnlyPastWindow'
  BY DEF TokenInv, TimeInv, ArchiveTypeOK, Suffix, SpentAgainOnlyPastWindow, ConsumedBetween
<1>2. \A v \in Writers : writer'[v].kind # "work" => v # w /\ writer'[v] = writer[v]
  OBVIOUS
<1>3. GrantedOnce'
  BY <1>2 DEF TokenInv, GrantedOnce
<1>4. ConsumedAfterGrant'
  BY <1>2, LedgerAssumption DEF TokenInv, ConsumedAfterGrant
<1>5. PendingPastWindow'
  BY <1>2, LedgerAssumption DEF TokenInv, PendingPastWindow, ConsumedBetween
<1> QED  BY <1>1, <1>3, <1>4, <1>5 DEF TokenInv

LEMMA LogWorkStep ==
  ASSUME TokenInv, NEW w \in Writers, LogWork(w) PROVE TokenInv'
<1>1. PICK s \in Sessions \ {PolicySession} : EnsureSession(w, s, "work", None)
  BY DEF LogWork
<1>2. s \in Sessions /\ "work" \in Kinds /\ None \in Tokens \cup {None} /\ WritersTypeOK
  BY DEF TokenInv, Kinds
<1>3. /\ WritersTypeOK'
      /\ writer'[w] = [pc |-> "ensured", session |-> s, kind |-> "work", token |-> None]
      /\ \A v \in Writers \ {w} : writer'[v] = writer[v]
  BY <1>1, <1>2, NewWriter
<1>4. UNCHANGED <<clock, rows, appended, archive>>
  BY <1>1 DEF EnsureSession
<1> QED  BY <1>3, <1>4, HarmlessWriter

LEMMA WriterEndsStep ==
  ASSUME TokenInv, NEW w \in Writers, WriterEnds(w) PROVE TokenInv'
BY IdleWriter, HarmlessWriter DEF WriterEnds, TokenInv

(* A token that is granted is in no event and in no writer.                *)
LEMMA GrantStep ==
  ASSUME TokenInv, NEW w \in Writers, Grant(w) PROVE TokenInv'
<1>1. PICK t \in Tokens : /\ \A e \in appended : ~(Granted(e) /\ e.token = t)
                          /\ \A v \in Writers : writer[v].token # t
                          /\ EnsureSession(w, PolicySession, "granted", t)
  BY DEF Grant
<1>2. /\ WritersTypeOK'
      /\ writer'[w].kind = "granted" /\ writer'[w].token = t
      /\ \A v \in Writers \ {w} : writer'[v] = writer[v]
  <2>1. /\ PolicySession \in Sessions /\ "granted" \in Kinds /\ t \in Tokens \cup {None}
        /\ WritersTypeOK
    BY LedgerAssumption DEF TokenInv, Kinds
  <2>2. /\ WritersTypeOK'
        /\ writer'[w] = [pc |-> "ensured", session |-> PolicySession,
                         kind |-> "granted", token |-> t]
        /\ \A v \in Writers \ {w} : writer'[v] = writer[v]
    BY <1>1, <2>1, NewWriter
  <2> QED  BY <2>2
<1>3. UNCHANGED <<clock, rows, appended, archive>> /\ w # Consumer
  BY <1>1 DEF EnsureSession, Grant
<1>4. TimeInv' /\ ArchiveTypeOK' /\ Suffix' /\ SpentAgainOnlyPastWindow'
  BY <1>3 DEF TokenInv, TimeInv, ArchiveTypeOK, Suffix, SpentAgainOnlyPastWindow, ConsumedBetween
<1>5. GrantedOnce'
  BY <1>1, <1>2, <1>3 DEF TokenInv, GrantedOnce
<1>6. writer'[Consumer] = writer[Consumer]
  BY <1>2, <1>3, LedgerAssumption
<1>7. ConsumedAfterGrant'
  BY <1>2, <1>3, <1>6 DEF TokenInv, ConsumedAfterGrant
<1>8. PendingPastWindow'
  BY <1>3, <1>6 DEF TokenInv, PendingPastWindow, ConsumedBetween
<1> QED  BY <1>2, <1>4, <1>5, <1>7, <1>8 DEF TokenInv

(* An earlier consumption of the token is still in the table, because the  *)
(* grant is, and outside of the window, because the token looks unspent.   *)
LEMMA UnspentIsPastWindow ==
  ASSUME TokenInv, NEW e \in Unspent, NEW f \in appended, Consumed(f), f.token = e.token
  PROVE  Cardinality(ConsumedBetween(f.ts, clock)) >= Window
<1> DEFINE Younger == {g \in OfKind("consumed") : g.ts > f.ts}
<1>1. e \in rows /\ Granted(e) /\ \A g \in FindEventsByKind("consumed") : g.token # e.token
  BY DEF Unspent, FindEventsByKind, OfKind
<1>2. e.ts < f.ts /\ e.ts \in Nat /\ f.ts \in Nat
  BY <1>1 DEF TokenInv, TimeInv, ConsumedAfterGrant
<1>3. f \in OfKind("consumed")
  BY <1>1, <1>2 DEF TokenInv, Suffix, OfKind
<1>4. ~(Cardinality(Younger) < Window)
  BY <1>1, <1>3 DEF FindEventsByKind
<1>5. IsFiniteSet(ConsumedBetween(f.ts, clock))
  BY FS_Subset DEF TokenInv, TimeInv, ConsumedBetween
<1>6. Younger \subseteq ConsumedBetween(f.ts, clock)
  BY <1>2 DEF TokenInv, TimeInv, OfKind, ConsumedBetween
<1>7. /\ Cardinality(Younger) <= Cardinality(ConsumedBetween(f.ts, clock))
      /\ Cardinality(Younger) \in Nat /\ Cardinality(ConsumedBetween(f.ts, clock)) \in Nat
  BY <1>5, <1>6, FS_Subset, FS_CardinalityType
<1> QED  BY <1>4, <1>7, LedgerAssumption

(* The grant of an unspent token is in the table, so no other consumption  *)
(* of it is in the window.                                                 *)
LEMMA ConsumeStep ==
  ASSUME TokenInv, Consume PROVE TokenInv'
<1>1. PICK e \in Unspent : EnsureSession(Consumer, PolicySession, "consumed", e.token)
  BY DEF Consume
<1>2. e \in appended /\ Granted(e)
  BY DEF Unspent, FindEventsByKind, OfKind, TokenInv, TimeInv
<1>3. /\ WritersTypeOK'
      /\ writer'[Consumer].kind = "consumed" /\ writer'[Consumer].token = e.token
      /\ \A v \in Writers \ {Consumer} : writer'[v] = writer[v]
  <2>1. /\ Consumer \in Writers /\ PolicySession \in Sessions /\ "consumed" \in Kinds
        /\ e.token \in Tokens \cup {None} /\ WritersTypeOK
    BY <1>2, LedgerAssumption DEF TokenInv, TimeInv, Kinds
  <2>2. /\ WritersTypeOK'
        /\ writer'[Consumer] = [pc |-> "ensured", session |-> PolicySession,
                                kind |-> "consumed", token |-> e.token]
        /\ \A v \in Writers \ {Consumer} : writer'[v] = writer[v]
    BY <1>1, <2>1, NewWriter
  <2> QED  BY <2>2
<1>4. UNCHANGED <<clock, rows, appended, archive>>
  BY <1>1 DEF EnsureSession
<1>5. TimeInv' /\ ArchiveTypeOK' /\ Suffix' /\ SpentAgainOnlyPastWindow'
  BY <1>4 DEF TokenInv, TimeInv, ArchiveTypeOK, Suffix, SpentAgainOnlyPastWindow, ConsumedBetween
<1>6. GrantedOnce'
  BY <1>3, <1>4 DEF TokenInv, GrantedOnce
<1>7. ConsumedAfterGrant'
  BY <1>2, <1>3, <1>4 DEF TokenInv, ConsumedAfterGrant
<1>8. PendingPastWindow'
  <2> SUFFICES ASSUME NEW f \in appended, Consumed(f), f.token = e.token
               PROVE  Cardinality(ConsumedBetween(f.ts, clock)) >= Window
    BY <1>3, <1>4 DEF PendingPastWindow, ConsumedBetween
  <2> QED  BY UnspentIsPastWindow
<1> QED  BY <1>3, <1>5, <1>6, <1>7, <1>8 DEF TokenInv

-----------------------------------------------------------------------------
(* Steps that append or archive                                            *)

(* Appending adds one event, the youngest, of what the writer had at hand. *)
LEMMA AppendStep ==
  ASSUME TokenInv, NEW w \in Writers, NEW event, event.ts = clock,
         event.kind = writer[w].kind, event.token = writer[w].token,
         event.session \in Sessions \cup {None}, event.kind \in Kinds,
         event.token \in Tokens \cup {None},
         rows' = rows \cup {event}, appended' = appended \cup {event},
         clock' = clock + 1, archive' = archive,
         WritersTypeOK', \A v \in Writers \ {w} : writer'[v] = writer[v],
         writer'[w].kind = "work"
  PROVE  TokenInv'
<1>1. TimeInv'
  BY FS_AddElement DEF TokenInv, TimeInv
<1>2. ArchiveTypeOK'
  BY DEF TokenInv, ArchiveTypeOK
<1>3. Suffix'
  BY DEF TokenInv, TimeInv, Suffix
<1>4. \A v \in Writers : writer'[v].kind # "work" => v # w /\ writer'[v] = writer[v]
  OBVIOUS
<1>5. GrantedOnce'
  BY <1>4 DEF TokenInv, GrantedOnce
<1>6. ConsumedAfterGrant'
  <2>1. \A v \in Writers : Consumed(writer[v])' => v = Consumer
    BY <1>4 DEF TokenInv, ConsumedAfterGrant
  <2>2. Consumed(writer[Consumer])' =>
          \E e \in appended' : Granted(e) /\ e.token = writer'[Consumer].token
    BY <1>4, LedgerAssumption DEF TokenInv, ConsumedAfterGrant
  <2>3. \A f \in appended' : Consumed(f) => \E e \in appended' : Granted(e) /\ e.token = f.token
    BY DEF TokenInv, ConsumedAfterGrant
  <2>4. ASSUME NEW e \in appended', NEW f \in appended', Granted(e), Consumed(f), e.token = f.token
        PROVE  e.ts < f.ts
    <3>1. CASE f \in appended /\ e \in appended
      BY <2>4, <3>1 DEF TokenInv, ConsumedAfterGrant
    <3>2. CASE f = event /\ e \in appended
      BY <3>2 DEF TokenInv, TimeInv
    <3>3. CASE e = event
      <4>1. f \in appended \/ f = event
        OBVIOUS
      <4>2. f # event
        BY <2>4, <3>3
      <4>3. PICK g \in appended : Granted(g) /\ g.token = f.token
        BY <2>4, <4>1, <4>2 DEF TokenInv, ConsumedAfterGrant
      <4> QED  BY <2>4, <3>3, <4>3 DEF TokenInv, GrantedOnce
    <3> QED  BY <3>1, <3>2, <3>3
  <2> QED  BY <2>1, <2>2, <2>3, <2>4 DEF ConsumedAfterGrant
<1>7. ASSUME NEW from \in Nat, NEW to \in Nat, NEW later \in Nat, to <= later,
             Cardinality(ConsumedBetween(from, to)) >= Window
      PROVE  Cardinality(ConsumedBetween(from, later)') >= Window
  <2>1. ConsumedBetween(from, to) \subseteq ConsumedBetween(from, later)'
    BY <1>7 DEF TokenInv, TimeInv, ConsumedBetween
  <2>2. IsFiniteSet(ConsumedBetween(from, later)')
    BY <1>1, FS_Subset DEF TimeInv, ConsumedBetween
  <2>3. Cardinality(ConsumedBetween(from, to)) <= Cardinality(ConsumedBetween(from, later)')
    BY <2>1, <2>2, FS_Subset
  <2>4. /\ Cardinality(ConsumedBetween(from, to)) \in Nat
        /\ Cardinality(ConsumedBetween(from, later)') \in Nat
    BY <2>1, <2>2, FS_Subset, FS_CardinalityType
  <2> QED  BY <1>7, <2>3, <2>4, LedgerAssumption
<1>8. SpentAgainOnlyPastWindow'
  <2> SUFFICES ASSUME NEW e \in appended', NEW f \in appended', Consumed(e), Consumed(f),
                      e.token = f.token, e.ts < f.ts
               PROVE  Cardinality(ConsumedBetween(e.ts, f.ts)') >= Window
    BY DEF SpentAgainOnlyPastWindow
  <2>1. e \in appended /\ e.ts \in Nat /\ e.ts <= clock /\ f.ts \in Nat /\ f.ts <= clock
    BY DEF TokenInv, TimeInv
  <2>2. CASE f \in appended
    BY <1>7, <2>1, <2>2 DEF TokenInv, SpentAgainOnlyPastWindow
  <2>3. CASE f = event
    <3>1. w = Consumer /\ Consumed(writer[Consumer]) /\ e.token = writer[Consumer].token
      BY <2>3 DEF TokenInv, ConsumedAfterGrant
    <3>2. Cardinality(ConsumedBetween(e.ts, clock)) >= Window
      BY <2>1, <3>1 DEF TokenInv, PendingPastWindow
    <3> QED  BY <1>7, <2>1, <2>3, <3>2
  <2> QED  BY <2>2, <2>3
<1>9. PendingPastWindow'
  <2> SUFFICES ASSUME Consumed(writer'[Consumer]), NEW f \in appended',
                      Consumed(f), f.token = writer'[Consumer].token
               PROVE  Cardinality(ConsumedBetween(f.ts, clock)') >= Window
    BY DEF PendingPastWindow
  <2>1. Consumer # w /\ writer'[Consumer] = writer[Consumer]
    BY <1>4, LedgerAssumption
  <2>2. f \in appended
    BY <2>1 DEF TokenInv, ConsumedAfterGrant
  <2>3. f.ts \in Nat /\ clock \in Nat
    BY <2>2 DEF TokenInv, TimeInv
  <2>4. Cardinality(ConsumedBetween(f.ts, clock)) >= Window
    BY <2>1, <2>2 DEF TokenInv, PendingPastWindow
  <2>5. PICK later \in Nat : later = clock + 1
    BY <2>3
  <2>6. Cardinality(ConsumedBetween(f.ts, later)') >= Window
    BY <1>7, <2>3, <2>4, <2>5
  <2>7. ConsumedBetween(f.ts, later)' = ConsumedBetween(f.ts, clock)'
    BY <2>5 DEF ConsumedBetween
  <2> QED  BY <2>6, <2>7
<1> QED  BY <1>1, <1>2, <1>3, <1>5, <1>6, <1>8, <1>9 DEF TokenInv


LEMMA AppendEventStep ==
  ASSUME TokenInv, NEW w \in Writers, AppendEvent(w) PROVE TokenInv'
<1> DEFINE s == writer[w].session
           event == [session |-> s, offset |-> NextOffset(s), ts |-> clock,
                     kind |-> writer[w].kind, token |-> writer[w].token]
<1>1. event.ts = clock /\ event.kind = writer[w].kind /\ event.token = writer[w].token
  OBVIOUS
<1>2. /\ event.session \in Sessions \cup {None} /\ event.kind \in Kinds
      /\ event.token \in Tokens \cup {None} /\ WritersTypeOK
  BY DEF TokenInv, WritersTypeOK
<1> HIDE DEF event
<1>3. CASE rows' = rows \cup {event}
  <2>1. /\ appended' = appended \cup {event} /\ clock' = clock + 1 /\ archive' = archive
        /\ writer' = IF writer[w].kind = "work" THEN writer ELSE [writer EXCEPT ![w] = Idle]
    <3>1. event \notin rows
      BY <1>1 DEF TokenInv, TimeInv
    <3> QED  BY <1>3, <3>1 DEF AppendEvent, event
  <2>2. /\ WritersTypeOK' /\ writer'[w].kind = "work"
        /\ \A v \in Writers \ {w} : writer'[v] = writer[v]
    <3>1. CASE writer[w].kind = "work"
      BY <1>2, <2>1, <3>1 DEF WritersTypeOK
    <3>2. CASE writer[w].kind # "work"
      BY <1>2, <2>1, <3>2, IdleWriter
    <3> QED  BY <3>1, <3>2
  <2> QED  BY <1>1, <1>2, <1>3, <2>1, <2>2, AppendStep
<1>4. CASE UNCHANGED <<clock, rows, appended>> /\ writer' = [writer EXCEPT ![w] = Idle]
  <2>1. archive' = archive
    BY DEF AppendEvent
  <2> QED  BY <1>2, <1>4, <2>1, IdleWriter, HarmlessWriter
<1> QED  BY <1>3, <1>4 DEF AppendEvent, event

(* The archive run, whatever --before is, touches rows only to drop the    *)
(* oldest.                                                                 *)
LEMMA ArchiveKeepsTokens ==
  ASSUME TokenInv, ArchiveStep PROVE TokenInv'
<1>1. UNCHANGED <<clock, writer, appended>>
  BY DEF ArchiveStep, ArchiveSelect, ArchiveCount, ArchiveWrite, ArchiveDelete, ArchiveEnds
<1>2. rows' = rows \/ rows' = rows \ OlderThan(archive.before)
  BY DEF ArchiveStep, ArchiveSelect, ArchiveCount, ArchiveWrite, ArchiveDelete, ArchiveEnds
<1>3. archive.before \in Nat
  BY DEF TokenInv, ArchiveTypeOK
<1>4. rows' \subseteq rows /\ Suffix'
  BY <1>1, <1>2, <1>3 DEF TokenInv, TimeInv, Suffix, OlderThan
<1>5. ArchiveTypeOK'
  <2>1. CASE \E before \in 1 .. MaxClock + Ahead : ArchiveSelect(before)
    BY <1>1, <2>1, LedgerAssumption
       DEF TokenInv, TimeInv, ArchiveTypeOK, ArchiveSelect, OlderThan
  <2>2. CASE ArchiveCount
    BY <1>1, <2>2 DEF TokenInv, ArchiveTypeOK, ArchiveCount
  <2>3. CASE ArchiveWrite
    BY <1>1, <2>3 DEF TokenInv, ArchiveTypeOK, ArchiveWrite
  <2>4. CASE ArchiveDelete \/ ArchiveEnds
    BY <2>4 DEF ArchiveTypeOK, ArchiveDelete, ArchiveEnds, NotArchiving
  <2> QED  BY <2>1, <2>2, <2>3, <2>4 DEF ArchiveStep
<1>6. TimeInv' /\ WritersTypeOK' /\ SpentAgainOnlyPastWindow'
  BY <1>1, <1>4 DEF TokenInv, TimeInv, WritersTypeOK, SpentAgainOnlyPastWindow, ConsumedBetween
<1>7. GrantedOnce' /\ ConsumedAfterGrant' /\ PendingPastWindow'
  BY <1>1 DEF TokenInv, GrantedOnce, ConsumedAfterGrant, PendingPastWindow, ConsumedBetween
<1> QED  BY <1>4, <1>5, <1>6, <1>7 DEF TokenInv

-----------------------------------------------------------------------------
(* The theorems                                                            *)

LEMMA TokenInductive == LedgerSpec => []TokenInv
<1>1. LedgerInit => TokenInv
  <2> SUFFICES ASSUME LedgerInit PROVE TokenInv
    OBVIOUS
  <2>1. TimeInv /\ Suffix /\ SpentAgainOnlyPastWindow
    BY FS_EmptySet DEF LedgerInit, TimeInv, Suffix, SpentAgainOnlyPastWindow
  <2>2. WritersTypeOK /\ ArchiveTypeOK
    BY DEF LedgerInit, WritersTypeOK, ArchiveTypeOK, Idle, NotArchiving, Kinds
  <2>3. \A w \in Writers : writer[w].kind = "work"
    BY DEF LedgerInit, Idle
  <2>4. GrantedOnce /\ ConsumedAfterGrant /\ PendingPastWindow
    BY <2>3, LedgerAssumption DEF LedgerInit, GrantedOnce, ConsumedAfterGrant, PendingPastWindow
  <2> QED  BY <2>1, <2>2, <2>4 DEF TokenInv
<1>2. TokenInv /\ [LedgerNext]_ledgerVars => TokenInv'
  <2> SUFFICES ASSUME TokenInv, [LedgerNext]_ledgerVars PROVE TokenInv'
    OBVIOUS
  <2>1. CASE \E w \in Writers : WriterStep(w)
    BY <2>1, LogWorkStep, GrantStep, AppendEventStep, WriterEndsStep DEF WriterStep
  <2>2. CASE Consume
    BY <2>2, ConsumeStep
  <2>3. CASE ArchiveStep
    BY <2>3, ArchiveKeepsTokens
  <2>4. CASE UNCHANGED ledgerVars
    BY <2>4 DEF TokenInv, TimeInv, WritersTypeOK, ArchiveTypeOK, Suffix, GrantedOnce,
         ConsumedAfterGrant, PendingPastWindow, SpentAgainOnlyPastWindow, ConsumedBetween
  <2> QED  BY <2>1, <2>2, <2>3, <2>4 DEF LedgerNext
<1> QED  BY <1>1, <1>2, PTL DEF LedgerSpec

(* The one consumer spends a token twice only across Window consumptions,  *)
(* whatever is archived and however many tokens are granted meanwhile      *)
(* (policy/evaluator.ts consumeApprovalToken).                             *)
THEOREM SpentOnlyPastWindow == LedgerSpec => []SpentAgainOnlyPastWindow
<1>1. TokenInv => SpentAgainOnlyPastWindow
  BY DEF TokenInv
<1> QED  BY <1>1, TokenInductive, PTL

(* The run deletes only what it read, and what it wrote when it deletes.   *)
ArchiveInv ==
  /\ rows \subseteq appended
  /\ appended \subseteq rows \cup sidecars
  /\ archive.pc # "idle" => /\ archive.before <= clock
                            /\ OlderThan(archive.before) \subseteq archive.picked
  /\ archive.pc = "written" => archive.picked \subseteq sidecars

(* The foreign key: an event goes with its session row, also when the      *)
(* archive run deletes sessions.                                           *)
RowsInv ==
  /\ sessions \subseteq Sessions
  /\ sidecars \subseteq appended
  /\ \A e \in rows : e.session \in sessions

LEMMA RowsInductive == LedgerSpec => []RowsInv
<1>1. LedgerInit => RowsInv
  BY DEF LedgerInit, RowsInv
<1>2. TokenInv /\ RowsInv /\ [LedgerNext]_ledgerVars => RowsInv'
  <2> SUFFICES ASSUME TokenInv, RowsInv, [LedgerNext]_ledgerVars PROVE RowsInv'
    OBVIOUS
  <2>1. CASE \E w \in Writers : LogWork(w) \/ Grant(w)
    BY <2>1, LedgerAssumption DEF RowsInv, LogWork, Grant, EnsureSession
  <2>2. CASE Consume
    BY <2>2, LedgerAssumption DEF RowsInv, Consume, EnsureSession
  <2>3. CASE \E w \in Writers : AppendEvent(w)
    BY <2>3 DEF RowsInv, AppendEvent
  <2>4. CASE \E w \in Writers : WriterEnds(w)
    BY <2>4 DEF RowsInv, WriterEnds
  <2>5. CASE ArchiveStep
    <3>1. archive.picked \subseteq appended
      BY DEF TokenInv, ArchiveTypeOK
    <3> QED  BY <2>5, <3>1 DEF RowsInv, ArchiveStep, ArchiveSelect, ArchiveCount,
                  ArchiveWrite, ArchiveDelete, ArchiveEnds
  <2>6. CASE UNCHANGED ledgerVars
    BY <2>6 DEF RowsInv
  <2> QED  BY <2>1, <2>2, <2>3, <2>4, <2>5, <2>6 DEF LedgerNext, WriterStep
<1> QED  BY <1>1, <1>2, TokenInductive, PTL DEF LedgerSpec

(* Type correctness: whatever a sidecar, a picked row or the table holds   *)
(* was appended by a writer (ledger/index.ts appendEvent).                 *)
THEOREM LedgerTyped == LedgerSpec => []LedgerTypeOK
<1>1. TokenInv /\ RowsInv => LedgerTypeOK
  BY DEF TokenInv, TimeInv, RowsInv, LedgerTypeOK
<1> QED  BY <1>1, TokenInductive, RowsInductive, PTL

(* No event is lost by an archive run that does not reach into the future, *)
(* at whichever step it dies and whatever is appended meanwhile, and every *)
(* row keeps its session row (ledger/index.ts archive).                    *)
THEOREM NoEventIsLost ==
  ASSUME Ahead <= Age PROVE LedgerSpec => []EventsAreKept
<1>1. LedgerInit => ArchiveInv
  BY DEF LedgerInit, ArchiveInv, NotArchiving
<1>2. TokenInv /\ ArchiveInv /\ [LedgerNext]_ledgerVars => ArchiveInv'
  <2> SUFFICES ASSUME TokenInv, ArchiveInv, [LedgerNext]_ledgerVars PROVE ArchiveInv'
    OBVIOUS
  <2>1. clock \in Nat /\ archive.before \in Nat /\ ArchiveTypeOK
    BY DEF TokenInv, TimeInv, ArchiveTypeOK
  <2>2. ASSUME UNCHANGED <<clock, rows, appended, sidecars, archive>> PROVE ArchiveInv'
    BY <2>2 DEF ArchiveInv, OlderThan
  <2>3. CASE \E w \in Writers : LogWork(w) \/ Grant(w) \/ WriterEnds(w)
    BY <2>2, <2>3 DEF LogWork, Grant, WriterEnds, EnsureSession
  <2>4. CASE Consume
    BY <2>2, <2>4 DEF Consume, EnsureSession
  <2>5. ASSUME NEW w \in Writers, AppendEvent(w) PROVE ArchiveInv'
    <3>1. archive' = archive /\ sidecars' = sidecars
      BY <2>5 DEF AppendEvent
    <3>2. CASE UNCHANGED <<clock, rows, appended>>
      BY <2>2, <3>1, <3>2
    <3>3. CASE \E event : /\ event.ts = clock /\ clock' = clock + 1
                          /\ rows' = rows \cup {event} /\ appended' = appended \cup {event}
      BY <2>1, <3>1, <3>3 DEF ArchiveInv, OlderThan
    <3> QED  BY <2>5, <3>2, <3>3 DEF AppendEvent
  <2>6. CASE \E before \in 1 .. MaxClock + Ahead : ArchiveSelect(before)
    BY <2>1, <2>6, LedgerAssumption DEF ArchiveInv, ArchiveSelect, OlderThan
  <2>7. CASE ArchiveCount
    BY <2>1, <2>7 DEF ArchiveInv, ArchiveTypeOK, ArchiveCount, OlderThan
  <2>8. CASE ArchiveWrite
    BY <2>1, <2>8 DEF ArchiveInv, ArchiveTypeOK, ArchiveWrite, OlderThan
  <2>9. CASE ArchiveDelete
    BY <2>1, <2>9 DEF ArchiveInv, ArchiveTypeOK, ArchiveDelete, NotArchiving, OlderThan
  <2>10. CASE ArchiveEnds
    BY <2>10 DEF ArchiveInv, ArchiveEnds, NotArchiving
  <2>11. CASE UNCHANGED ledgerVars
    BY <2>2, <2>11
  <2> QED  BY <2>3, <2>4, <2>5, <2>6, <2>7, <2>8, <2>9, <2>10, <2>11
           DEF LedgerNext, WriterStep, ArchiveStep
<1>3. ArchiveInv /\ RowsInv => EventsAreKept
  BY DEF ArchiveInv, RowsInv, EventsAreKept
<1> QED  BY <1>1, <1>2, <1>3, TokenInductive, RowsInductive, PTL DEF LedgerSpec

-----------------------------------------------------------------------------
(* The quality ledger.                                                     *)
(*                                                                         *)
(* Sorting.  A strict total order on a finite set gives every rank once.   *)

StrictTotal(S, R) ==
  /\ \A a \in S : <<a, a>> \notin R
  /\ \A a, b \in S : a # b => <<a, b>> \in R \/ <<b, a>> \in R
  /\ \A a, b, c \in S : <<a, b>> \in R /\ <<b, c>> \in R => <<a, c>> \in R

Before(a, S, R) == Cardinality({b \in S : <<b, a>> \in R})

LEMMA RanksFill ==
  ASSUME NEW S, IsFiniteSet(S), NEW R, StrictTotal(S, R)
  PROVE  /\ \A a \in S : Before(a, S, R) + 1 \in 1 .. Cardinality(S)
                         /\ Before(a, S, R) \in Nat
         /\ \A a, b \in S : Before(a, S, R) = Before(b, S, R) => a = b
         /\ \A i \in 1 .. Cardinality(S) : \E a \in S : Before(a, S, R) = i - 1
<1>1. PICK rank : rank = [a \in S |-> Before(a, S, R) + 1]
  OBVIOUS
<1>2. PICK n \in Nat : n = Cardinality(S)
  BY FS_CardinalityType
<1>3. ASSUME NEW a \in S
      PROVE  /\ IsFiniteSet({b \in S : <<b, a>> \in R})
             /\ Before(a, S, R) \in Nat /\ Before(a, S, R) < n
  <2>1. PICK B : B = {b \in S : <<b, a>> \in R}
    OBVIOUS
  <2>2. B \in SUBSET S /\ a \notin B
    BY <2>1 DEF StrictTotal
  <2>3. IsFiniteSet(B) /\ Cardinality(B) <= n /\ Cardinality(B) # n /\ Cardinality(B) \in Nat
    BY <1>2, <2>2, FS_Subset, FS_CardinalityType
  <2>4. Cardinality(B) < n
    BY <2>3
  <2> QED BY <2>1, <2>3, <2>4 DEF Before
<1>4. ASSUME NEW a \in S, NEW b \in S, <<a, b>> \in R
      PROVE  Before(a, S, R) < Before(b, S, R)
  <2>1. PICK A, B : A = {c \in S : <<c, a>> \in R} /\ B = {c \in S : <<c, b>> \in R}
    OBVIOUS
  <2>2. A \in SUBSET B /\ a \in B /\ a \notin A
    BY <1>4, <2>1 DEF StrictTotal
  <2>3. IsFiniteSet(B) /\ Cardinality(A) \in Nat /\ Cardinality(B) \in Nat
    BY <1>3, <2>1 DEF Before
  <2>4. Cardinality(A) <= Cardinality(B) /\ Cardinality(A) # Cardinality(B)
    BY <2>2, <2>3, FS_Subset
  <2>5. Before(a, S, R) = Cardinality(A) /\ Before(b, S, R) = Cardinality(B)
    BY <2>1 DEF Before
  <2> QED BY <2>3, <2>4, <2>5
<1>5. rank \in [S -> 1 .. n]
  <2>1. ASSUME NEW a \in S PROVE rank[a] \in 1 .. n
    <3>1. PICK k : k = Before(a, S, R)
      OBVIOUS
    <3>2. rank[a] = k + 1 /\ k \in Nat /\ k < n
      BY <1>1, <1>3, <3>1
    <3> QED BY <3>2
  <2> QED BY <1>1, <2>1
<1>6. ASSUME NEW a \in S, NEW b \in S, Before(a, S, R) = Before(b, S, R) PROVE a = b
  <2>1. Before(a, S, R) \in Nat /\ Before(b, S, R) \in Nat
    BY <1>3
  <2>2. ~(<<a, b>> \in R) /\ ~(<<b, a>> \in R)
    BY <1>4, <1>6, <2>1
  <2> QED BY <2>2 DEF StrictTotal
<1>7. rank \in Injection(S, 1 .. n)
  <2>1. ASSUME NEW a \in S, NEW b \in S, rank[a] = rank[b] PROVE a = b
    <3>1. Before(a, S, R) \in Nat /\ Before(b, S, R) \in Nat
      BY <1>3
    <3>2. Before(a, S, R) + 1 = Before(b, S, R) + 1
      BY <1>1, <2>1
    <3>3. Before(a, S, R) = Before(b, S, R)
      BY <3>1, <3>2
    <3> QED BY <1>6, <3>3
  <2> QED BY <1>5, <2>1 DEF Injection, IsInjective
<1>8. IsFiniteSet(1 .. n) /\ Cardinality(1 .. n) = n
  BY FS_Interval, <1>2
<1>9. rank \in Surjection(S, 1 .. n)
  BY <1>2, <1>7, <1>8, FS_Injection
<1>10. ASSUME NEW i \in 1 .. Cardinality(S) PROVE \E a \in S : Before(a, S, R) = i - 1
  <2>1. PICK a \in S : rank[a] = i
    BY <1>2, <1>9 DEF Surjection
  <2>2. PICK k : k = Before(a, S, R)
    OBVIOUS
  <2>3. rank[a] = k + 1
    BY <1>1, <2>2
  <2>5. k \in Nat
    BY <1>3, <2>2
  <2>4. k = i - 1
    BY <2>1, <2>3, <2>5
  <2> QED BY <2>2, <2>4
<1>11. ASSUME NEW a \in S
       PROVE  Before(a, S, R) + 1 \in 1 .. Cardinality(S) /\ Before(a, S, R) \in Nat
  BY <1>1, <1>2, <1>3, <1>5
<1> QED BY <1>6, <1>10, <1>11

(* InOrder lists the set, each member once.                                *)
LEMMA InOrderIs ==
  ASSUME NEW S, IsFiniteSet(S), NEW R, StrictTotal(S, R)
  PROVE  /\ Cardinality(S) \in Nat
         /\ InOrder(S, R) \in [1 .. Cardinality(S) -> S]
         /\ \A i, j \in 1 .. Cardinality(S) : InOrder(S, R)[i] = InOrder(S, R)[j] => i = j
         /\ \A x \in S : \E i \in 1 .. Cardinality(S) : InOrder(S, R)[i] = x
<1>1. PICK n \in Nat : n = Cardinality(S)
  BY FS_CardinalityType
<1>2. PICK at : at = InOrder(S, R)
  OBVIOUS
<1>3. ASSUME NEW i \in 1 .. n
      PROVE  at[i] \in S /\ Before(at[i], S, R) = i - 1
  <2>1. \E a \in S : Before(a, S, R) = i - 1
    BY <1>1, RanksFill
  <2>2. at[i] = CHOOSE x \in S : Before(x, S, R) = i - 1
    BY <1>1, <1>2 DEF InOrder, Before
  <2> QED BY <2>1, <2>2
<1>4. at \in [1 .. n -> S]
  <2>1. at = [i \in 1 .. n |-> CHOOSE x \in S : Cardinality({y \in S : <<y, x>> \in R}) = i - 1]
    BY <1>1, <1>2 DEF InOrder
  <2> QED BY <1>3, <2>1
<1>5. ASSUME NEW i \in 1 .. n, NEW j \in 1 .. n, at[i] = at[j] PROVE i = j
  <2>1. i - 1 = j - 1
    BY <1>3, <1>5
  <2> QED BY <2>1
<1>6. ASSUME NEW x \in S PROVE \E i \in 1 .. n : at[i] = x
  <2>1. PICK k : k = Before(x, S, R)
    OBVIOUS
  <2>2. k + 1 \in 1 .. n /\ k \in Nat
    BY <1>1, <2>1, RanksFill
  <2>3. at[k + 1] \in S /\ Before(at[k + 1], S, R) = k + 1 - 1
    BY <1>3, <2>2
  <2>4. k + 1 - 1 = k
    BY <2>2
  <2>5. at[k + 1] = x
    BY <2>1, <2>3, <2>4, RanksFill
  <2> QED BY <2>2, <2>5
<1> QED BY <1>1, <1>2, <1>4, <1>5, <1>6

LEMMA ImageFinite ==
  ASSUME NEW S, IsFiniteSet(S), NEW m PROVE IsFiniteSet({m[x] : x \in S})
<1>1. PICK T, f : T = {m[x] : x \in S} /\ f = [x \in S |-> m[x]]
  OBVIOUS
<1>2. f \in Surjection(S, T)
  BY <1>1 DEF Surjection
<1> QED BY <1>1, <1>2, FS_Surjection

Places(I) == InOrder(I, Lesser(I))

Lists(at, I) ==
  /\ at \in [1 .. Cardinality(I) -> I]
  /\ \A i, j \in 1 .. Cardinality(I) : at[i] = at[j] => i = j
  /\ \A x \in I : \E i \in 1 .. Cardinality(I) : at[i] = x

(* The places kept are those of I, each once.                              *)
LEMMA KeepIs ==
  ASSUME NEW I, IsFiniteSet(I), I \subseteq Int, NEW s
  PROVE  /\ Cardinality(I) \in Nat
         /\ Lists(Places(I), I)
         /\ Keep(s, I) = [n \in 1 .. Cardinality(I) |-> s[Places(I)[n]]]
         /\ Len(Keep(s, I)) = Cardinality(I)
<1>1. StrictTotal(I, Lesser(I))
  BY DEF StrictTotal, Lesser
<1>2. PICK at : at = Places(I)
  OBVIOUS
<1>3. PICK n \in Nat : n = Cardinality(I)
  BY FS_CardinalityType
<1>4. Lists(at, I)
  BY <1>1, <1>2, <1>3, InOrderIs DEF Lists, Places
<1>5. Keep(s, I) = [m \in 1 .. n |-> s[at[m]]]
  BY <1>2, <1>3 DEF Keep, Places
<1>6. Len([m \in 1 .. n |-> s[at[m]]]) = n
  OBVIOUS
<1> QED BY <1>2, <1>3, <1>4, <1>5, <1>6

-----------------------------------------------------------------------------
(* The rows of a packet.                                                   *)

RowOK(e, k) ==
  /\ e.packet = k /\ e.kind \in EventKinds \ {"human_decision"}
  /\ e.kind = "worker_run" => e.class = Packet[k].class /\ e.model \in Keys
  /\ e.kind = "model_event" =>
       /\ e.model \in Keys /\ e.total \in Nat /\ e.ok \in 0 .. e.total
       /\ e.role = "reviewer" => e.class = Packet[k].reviewClass

IsSeq(s) == s \in Seq({s[i] : i \in DOMAIN s})

RowSeq(s, k) == IsSeq(s) /\ Len(s) \in Nat /\ \A i \in 1 .. Len(s) : RowOK(s[i], k)

LEMMA SeqIs ==
  ASSUME NEW n \in Nat, NEW s, s = [i \in 1 .. n |-> s[i]]
  PROVE  IsSeq(s) /\ Len(s) = n
<1>1. PICK S : S = {s[i] : i \in 1 .. n}
  OBVIOUS
<1>2. DOMAIN s = 1 .. n
  OBVIOUS
<1>3. s \in [1 .. n -> S]
  BY <1>1
<1>4. s \in Seq(S) /\ Len(s) = n
  BY <1>3
<1>5. S = {s[i] : i \in DOMAIN s}
  BY <1>1, <1>2
<1> QED BY <1>4, <1>5 DEF IsSeq

LEMMA ConcatIs ==
  ASSUME NEW k, NEW s, NEW t, RowSeq(s, k), RowSeq(t, k)
  PROVE  RowSeq(s \o t, k)
<1>1. PICK S : S = {s[i] : i \in DOMAIN s} \cup {t[i] : i \in DOMAIN t}
  OBVIOUS
<1>2. s \in Seq(S) /\ t \in Seq(S)
  <2>1. s \in Seq({s[i] : i \in DOMAIN s}) /\ t \in Seq({t[i] : i \in DOMAIN t})
    BY DEF RowSeq, IsSeq
  <2> QED BY <1>1, <2>1
<1>3. PICK u : u = s \o t
  OBVIOUS
<1>4. u \in Seq(S) /\ Len(u) = Len(s) + Len(t)
  BY <1>2, <1>3, ConcatProperties
<1>5. ASSUME NEW i \in 1 .. Len(u)
      PROVE  u[i] = IF i <= Len(s) THEN s[i] ELSE t[i - Len(s)]
  BY <1>2, <1>3, <1>4, ConcatProperties
<1>6. Len(s) \in Nat /\ Len(t) \in Nat /\ \A i \in 1 .. Len(s) : RowOK(s[i], k)
  BY DEF RowSeq
<1>7. \A i \in 1 .. Len(t) : RowOK(t[i], k)
  BY DEF RowSeq
<1>8. ASSUME NEW i \in 1 .. Len(u) PROVE RowOK(u[i], k)
  <2>1. CASE i <= Len(s)
    <3>1. i \in 1 .. Len(s) /\ u[i] = s[i]
      BY <1>4, <1>5, <1>6, <2>1
    <3> QED BY <1>6, <3>1
  <2>2. CASE ~(i <= Len(s))
    <3>1. i - Len(s) \in 1 .. Len(t) /\ u[i] = t[i - Len(s)]
      BY <1>4, <1>5, <1>6, <2>2
    <3> QED BY <1>7, <3>1
  <2> QED BY <2>1, <2>2
<1>9. IsSeq(u) /\ Len(u) \in Nat
  <2>1. u = [i \in 1 .. Len(u) |-> u[i]] /\ Len(u) \in Nat
    BY <1>4, <1>6
  <2> QED BY <2>1, SeqIs
<1> QED BY <1>3, <1>8, <1>9 DEF RowSeq

LEMMA WorkerRunsAre == ASSUME NEW k \in Packets PROVE RowSeq(WorkerRuns(k), k)
<1>1. Packet[k].candidates \in Seq(Candidate)
  BY PacketAssumption
<1>2. PICK n \in Nat : n = Len(Packet[k].candidates)
  BY <1>1
<1>3. \A i \in 1 .. n : Packet[k].candidates[i] \in Candidate
  BY <1>1, <1>2
<1>4. PICK s : s = WorkerRuns(k)
  OBVIOUS
<1>5. s = [i \in 1 .. n |-> s[i]]
  BY <1>2, <1>4 DEF WorkerRuns
<1>6. IsSeq(s) /\ Len(s) = n
  BY <1>5, SeqIs
<1>7. ASSUME NEW i \in 1 .. n PROVE RowOK(s[i], k)
  <2>1. /\ s[i].packet = k /\ s[i].kind = "worker_run" /\ s[i].class = Packet[k].class
        /\ s[i].model = Packet[k].candidates[i].model
    BY <1>2, <1>4 DEF WorkerRuns
  <2>2. Packet[k].candidates[i].model \in Keys
    BY <1>3 DEF Candidate
  <2> QED BY <2>1, <2>2 DEF RowOK, EventKinds
<1> QED BY <1>4, <1>6, <1>7 DEF RowSeq

LEMMA ArbiterDecisionIs == ASSUME NEW k \in Packets PROVE RowSeq(ArbiterDecision(k), k)
<1>1. PICK e : ArbiterDecision(k) = <<e>> /\ e.packet = k /\ e.kind = "arbiter_decision"
  <2>1. PICK v : v = {i \in 1 .. Len(Packet[k].candidates) : Packet[k].candidates[i].verified}
    OBVIOUS
  <2>2. PICK e : e = [kind |-> "arbiter_decision", packet |-> k,
                      any |-> v # {}, chosen |-> Packet[k].selected \in v]
    OBVIOUS
  <2>3. ArbiterDecision(k) = <<e>>
    BY <2>1, <2>2 DEF ArbiterDecision
  <2>4. e.packet = k /\ e.kind = "arbiter_decision"
    BY <2>2
  <2> QED BY <2>3, <2>4
<1>2. <<e>> = [i \in 1 .. 1 |-> e] /\ Len(<<e>>) = 1 /\ <<e>>[1] = e
  OBVIOUS
<1>3. IsSeq(<<e>>)
  BY <1>2, SeqIs
<1>4. RowOK(e, k)
  BY <1>1 DEF RowOK, EventKinds
<1> QED BY <1>1, <1>2, <1>3, <1>4 DEF RowSeq

LEMMA ReviewFindingsAre == ASSUME NEW k \in Packets PROVE RowSeq(ReviewFindings(k), k)
<1>1. PICK reviews : reviews = Packet[k].reviewers
  OBVIOUS
<1>2. reviews \in Seq(Review)
  BY <1>1, PacketAssumption
<1>3. PICK n \in Nat : n = Len(reviews)
  BY <1>2
<1>4. PICK m : m = [r \in 1 .. n |-> {r} \X (1 .. Len(reviews[r].findings))]
  OBVIOUS
<1>5. PICK found : found = UNION {m[r] : r \in 1 .. n}
  OBVIOUS
<1>6. found = UNION {{r} \X (1 .. Len(reviews[r].findings)) : r \in 1 .. Len(reviews)}
  BY <1>3, <1>4, <1>5
<1>7. IsFiniteSet(found)
  <2>1. ASSUME NEW r \in 1 .. n PROVE IsFiniteSet(m[r])
    <3>1. reviews[r].findings \in Seq({"low", "medium", "high"})
      <4>1. reviews[r] \in Review
        BY <1>2, <1>3
      <4> QED BY <4>1 DEF Review
    <3>2. PICK j \in Nat : j = Len(reviews[r].findings)
      BY <3>1
    <3>3. IsFiniteSet({r}) /\ IsFiniteSet(1 .. j)
      <4>1. IsFiniteSet({r})
        BY FS_Singleton
      <4>2. IsFiniteSet(1 .. j)
        BY FS_Interval, <3>2
      <4> QED BY <4>1, <4>2
    <3>4. IsFiniteSet({r} \X (1 .. j))
      BY <3>3, FS_Product
    <3> QED BY <1>4, <3>2, <3>4
  <2>2. IsFiniteSet(1 .. n)
    BY FS_Interval
  <2>3. IsFiniteSet({m[r] : r \in 1 .. n})
    BY <2>2, ImageFinite
  <2>4. \A x \in {m[r] : r \in 1 .. n} : IsFiniteSet(x)
    BY <2>1
  <2> QED BY <1>5, <2>3, <2>4, FS_UNION
<1>8. PICK c \in Nat : c = Cardinality(found)
  BY <1>7, FS_CardinalityType
<1>9. PICK s : s = ReviewFindings(k)
  OBVIOUS
<1>10. PICK at : at = InOrder(found, PairLesser(found))
  OBVIOUS
<1>11. s = [i \in 1 .. c |->
          [kind |-> "review_finding", packet |-> k, model |-> reviews[at[i][1]].model,
           class |-> Packet[k].reviewClass,
           severity |-> reviews[at[i][1]].findings[at[i][2]]]]
  BY <1>1, <1>6, <1>8, <1>9, <1>10 DEF ReviewFindings
<1>12. IsSeq(s) /\ Len(s) = c
  <2>1. s = [i \in 1 .. c |-> s[i]]
    BY <1>11
  <2> QED BY <2>1, SeqIs
<1>13. ASSUME NEW i \in 1 .. c PROVE RowOK(s[i], k)
  <2>1. s[i].packet = k /\ s[i].kind = "review_finding"
    BY <1>11
  <2> QED BY <2>1 DEF RowOK, EventKinds
<1> QED BY <1>9, <1>12, <1>13 DEF RowSeq

LEMMA ModelEventsAre ==
  ASSUME NEW k \in Packets, NEW role \in {"builder", "reviewer"}
  PROVE  RowSeq(ModelEvents(k, role), k)
<1>1. PICK calls : calls = IF role = "builder" THEN Packet[k].candidates ELSE Packet[k].reviewers
  OBVIOUS
<1>2. PICK n \in Nat : n = Len(calls)
  BY <1>1, PacketAssumption
<1>3. ASSUME NEW i \in 1 .. n PROVE calls[i].model \in Keys
  <2>1. CASE role = "builder"
    <3>1. calls \in Seq(Candidate)
      BY <1>1, <2>1, PacketAssumption
    <3>2. calls[i] \in Candidate
      BY <1>2, <3>1
    <3> QED BY <3>2 DEF Candidate
  <2>2. CASE role # "builder"
    <3>1. calls \in Seq(Review)
      BY <1>1, <2>2, PacketAssumption
    <3>2. calls[i] \in Review
      BY <1>2, <3>1
    <3> QED BY <3>2 DEF Review
  <2> QED BY <2>1, <2>2
<1>4. PICK I : I = {i \in 1 .. n : /\ calls[i].model # Absent
                                   /\ \A j \in 1 .. i - 1 : calls[j].model # calls[i].model}
  OBVIOUS
<1>5. PICK f : f = [i \in 1 .. n |-> calls[i].model]
  OBVIOUS
<1>6. ModelsOf(calls) = Keep(f, I)
  BY <1>2, <1>4, <1>5 DEF ModelsOf
<1>7. IsFiniteSet(1 .. n) /\ I \subseteq 1 .. n
  BY <1>4, FS_Interval
<1>8. IsFiniteSet(I) /\ I \subseteq Int
  <2>1. I \in SUBSET (1 .. n)
    BY <1>7
  <2>2. IsFiniteSet(I)
    BY <1>7, <2>1, FS_Subset
  <2> QED BY <2>1, <2>2
<1>9. PICK c \in Nat : c = Cardinality(I) /\ c = Len(Keep(f, I))
  BY <1>8, KeepIs
<1>10. PICK at : at \in [1 .. c -> I] /\ Keep(f, I) = [m \in 1 .. c |-> f[at[m]]]
  <2>1. Lists(Places(I), I)
    BY <1>8, KeepIs
  <2>2. Keep(f, I) = [m \in 1 .. c |-> f[Places(I)[m]]]
    <3>1. Keep(f, I) = [m \in 1 .. Cardinality(I) |-> f[Places(I)[m]]]
      BY <1>8, KeepIs
    <3> QED BY <1>9, <3>1
  <2> QED BY <1>9, <2>1, <2>2 DEF Lists
<1>11. ASSUME NEW i \in 1 .. c PROVE Keep(f, I)[i] \in Keys
  <2>1. at[i] \in 1 .. n
    BY <1>7, <1>10
  <2> QED BY <1>3, <1>5, <1>10, <2>1
<1>12. PICK ok : ok = {i \in 1 .. n : IF role = "builder" THEN calls[i].collected ELSE calls[i].ok}
  OBVIOUS
<1>13. PICK s : s = ModelEvents(k, role)
  OBVIOUS
<1>14. s = [i \in 1 .. c |->
          [kind |-> "model_event", packet |-> k, role |-> role, model |-> Keep(f, I)[i],
           class |-> IF role = "builder" THEN Packet[k].class ELSE Packet[k].reviewClass,
           total |-> Cardinality(CallsOf(calls, Keep(f, I)[i])),
           ok |-> Cardinality(CallsOf(calls, Keep(f, I)[i]) \cap ok)]]
  BY <1>1, <1>2, <1>6, <1>9, <1>12, <1>13 DEF ModelEvents
<1>15. IsSeq(s) /\ Len(s) = c
  <2>1. s = [i \in 1 .. c |-> s[i]]
    BY <1>14
  <2> QED BY <2>1, SeqIs
<1>16. ASSUME NEW i \in 1 .. c PROVE RowOK(s[i], k)
  <2>1. PICK C : C = CallsOf(calls, Keep(f, I)[i])
    OBVIOUS
  <2>2. C \subseteq 1 .. n
    BY <1>2, <2>1 DEF CallsOf
  <2>3. IsFiniteSet(C)
    BY <1>7, <2>2, FS_Subset
  <2>4. C \cap ok \in SUBSET C
    OBVIOUS
  <2>5. /\ Cardinality(C) \in Nat /\ Cardinality(C \cap ok) \in Nat
        /\ Cardinality(C \cap ok) <= Cardinality(C)
    BY <2>3, <2>4, FS_Subset, FS_CardinalityType
  <2>6. /\ s[i].packet = k /\ s[i].kind = "model_event" /\ s[i].model = Keep(f, I)[i]
        /\ s[i].role = role
        /\ role = "reviewer" => s[i].class = Packet[k].reviewClass
        /\ s[i].total = Cardinality(C) /\ s[i].ok = Cardinality(C \cap ok)
    BY <1>14, <2>1
  <2>7. s[i].total \in Nat /\ s[i].ok \in 0 .. s[i].total
    BY <2>5, <2>6
  <2> QED BY <1>11, <2>6, <2>7 DEF RowOK, EventKinds
<1> QED BY <1>13, <1>15, <1>16 DEF RowSeq

(* An event is told by its id, and belongs to its packet.                  *)
LEMMA EventsAre ==
  ASSUME NEW k \in Packets
  PROVE  /\ IsSeq(BuildEvents(k)) /\ Len(BuildEvents(k)) \in Nat
         /\ \A i \in 1 .. Len(BuildEvents(k)) :
              /\ BuildEvents(k)[i].id = <<k, BuildEvents(k)[i].row.kind, i>>
              /\ RowOK(BuildEvents(k)[i].row, k)
<1>1. PICK s : s = WorkerRuns(k) \o ReviewFindings(k) \o ArbiterDecision(k)
                     \o ModelEvents(k, "builder") \o ModelEvents(k, "reviewer")
  OBVIOUS
<1>2. RowSeq(WorkerRuns(k) \o ReviewFindings(k), k)
  BY WorkerRunsAre, ReviewFindingsAre, ConcatIs
<1>3. RowSeq(WorkerRuns(k) \o ReviewFindings(k) \o ArbiterDecision(k), k)
  BY <1>2, ArbiterDecisionIs, ConcatIs
<1>4. RowSeq(WorkerRuns(k) \o ReviewFindings(k) \o ArbiterDecision(k)
               \o ModelEvents(k, "builder"), k)
  BY <1>3, ModelEventsAre, ConcatIs
<1>5. RowSeq(s, k)
  BY <1>1, <1>4, ModelEventsAre, ConcatIs
<1>6. PICK n \in Nat : n = Len(s)
  BY <1>5 DEF RowSeq
<1>7. BuildEvents(k) = [i \in 1 .. n |-> [id |-> <<k, s[i].kind, i>>, row |-> s[i]]]
  BY <1>1, <1>6 DEF BuildEvents
<1>8. PICK t : t = BuildEvents(k)
  OBVIOUS
<1>9. IsSeq(t) /\ Len(t) = n
  <2>1. t = [i \in 1 .. n |-> t[i]]
    BY <1>7, <1>8
  <2> QED BY <2>1, SeqIs
<1>10. ASSUME NEW i \in 1 .. n PROVE t[i].id = <<k, t[i].row.kind, i>> /\ RowOK(t[i].row, k)
  <2>1. t[i].row = s[i] /\ t[i].id = <<k, s[i].kind, i>>
    BY <1>7, <1>8
  <2>2. RowOK(s[i], k)
    BY <1>5, <1>6 DEF RowSeq
  <2> QED BY <2>1, <2>2
<1> QED BY <1>8, <1>9, <1>10

-----------------------------------------------------------------------------
(* The ingest.  What is complete in the index is written, a writer has     *)
(* left to write what is not, and without an index all rows are legacy.    *)

EventsOf(k) == {BuildEvents(k)[i] : i \in 1 .. Len(BuildEvents(k))}
AllEvents(kd) == UNION {{e \in EventsOf(k) : e.row.kind = kd} : k \in Packets}

Written(e) == \E i \in 1 .. Len(files[e.row.kind]) : files[e.row.kind][i] = e
Stored(k) == \A e \in EventsOf(k) : Written(e)

IndexRow == [packet : Packets, status : {"in_progress", "complete"}]

WriterOK(p) ==
  LET w == proc[p] IN
    /\ w = [pc |-> w.pc, packet |-> w.packet, force |-> w.force, rows |-> w.rows]
    /\ w.pc \in {"idle", "check", "scan", "backfill", "begin", "rows"}
    /\ w.pc # "idle" => w.packet \in Packets
    /\ w.pc = "backfill" => w.rows \in Seq(IndexRow)
    /\ w.pc = "rows" =>
         /\ w.rows \in Seq(EventsOf(w.packet)) /\ index # NoIndex
         /\ \A e \in EventsOf(w.packet) :
              Written(e) \/ \E i \in 1 .. Len(w.rows) : w.rows[i] = e

FilesTyped ==
  /\ files = [kd \in EventKinds |-> files[kd]]
  /\ \A kd \in IngestKinds : files[kd] \in Seq(AllEvents(kd))

IndexOK ==
  /\ index \in Seq(IndexRow)
  /\ \A k \in Packets :
       (\E i \in 1 .. Len(index) : index[i].packet = k /\ index[i].status = "complete") =>
         Stored(k) \/ k \in mistaken
  /\ index = NoIndex =>
       \A i \in 1 .. Len(files["worker_run"]) : files["worker_run"][i].row.packet \in Legacy

StoreInv ==
  /\ FilesTyped
  /\ IndexOK
  /\ ended \subseteq Packets
  /\ proc = [p \in Procs |-> proc[p]]
  /\ \A p \in Procs : WriterOK(p)
  /\ \A k \in Legacy : Stored(k)

-----------------------------------------------------------------------------

LEMMA EventIs ==
  ASSUME NEW k \in Packets, NEW e \in EventsOf(k)
  PROVE  /\ \E i \in 1 .. Len(BuildEvents(k)) :
              e = BuildEvents(k)[i] /\ e.id = <<k, e.row.kind, i>>
         /\ RowOK(e.row, k) /\ e.row.packet = k /\ e.row.kind \in IngestKinds
         /\ e \in AllEvents(e.row.kind)
<1>1. PICK i \in 1 .. Len(BuildEvents(k)) : e = BuildEvents(k)[i]
  BY DEF EventsOf
<1>2. e.id = <<k, e.row.kind, i>> /\ RowOK(e.row, k)
  BY <1>1, EventsAre
<1>3. e.row.packet = k /\ e.row.kind \in IngestKinds
  BY <1>2 DEF RowOK, IngestKinds
<1>4. e \in {d \in EventsOf(k) : d.row.kind = e.row.kind}
  OBVIOUS
<1>5. e \in AllEvents(e.row.kind)
  BY <1>4 DEF AllEvents
<1> QED BY <1>1, <1>2, <1>3, <1>5

LEMMA SameEvent ==
  ASSUME NEW k \in Packets, NEW e \in EventsOf(k), NEW j \in Packets, NEW d \in EventsOf(j),
         e.id = d.id
  PROVE  e = d /\ j = k
<1>1. PICK i \in 1 .. Len(BuildEvents(k)) : e = BuildEvents(k)[i] /\ e.id = <<k, e.row.kind, i>>
  BY EventIs
<1>2. PICK h \in 1 .. Len(BuildEvents(j)) : d = BuildEvents(j)[h] /\ d.id = <<j, d.row.kind, h>>
  BY EventIs
<1>3. k = j /\ i = h
  BY <1>1, <1>2
<1> QED BY <1>1, <1>2, <1>3

LEMMA AllAre ==
  ASSUME NEW kd, NEW e \in AllEvents(kd)
  PROVE  \E k \in Packets : e \in EventsOf(k) /\ e.row.kind = kd
BY DEF AllEvents

LEMMA EventsFinite ==
  ASSUME NEW k \in Packets
  PROVE  Len(BuildEvents(k)) \in Nat /\ BuildEvents(k) \in Seq(EventsOf(k))
<1>1. PICK s : s = BuildEvents(k)
  OBVIOUS
<1>2. IsSeq(s) /\ Len(s) \in Nat
  BY <1>1, EventsAre
<1>3. s \in Seq({s[i] : i \in DOMAIN s}) /\ DOMAIN s = 1 .. Len(s)
  BY <1>2 DEF IsSeq
<1>4. {s[i] : i \in DOMAIN s} = EventsOf(k)
  BY <1>1, <1>3 DEF EventsOf
<1> QED BY <1>1, <1>2, <1>3, <1>4

(* What a writer without an index left.                                    *)
LEMMA LegacyAre ==
  ASSUME NEW kd \in IngestKinds
  PROVE  /\ LegacyRows(kd) \in Seq(AllEvents(kd))
         /\ \A n \in 1 .. Len(LegacyRows(kd)) : LegacyRows(kd)[n].row.packet \in Legacy
         /\ \A k \in Legacy : \A e \in EventsOf(k) :
              e.row.kind = kd => \E n \in 1 .. Len(LegacyRows(kd)) : LegacyRows(kd)[n] = e
<1>1. PICK m : m = [k \in Legacy |->
                      {<<k, i>> : i \in {j \in 1 .. Len(BuildEvents(k)) :
                                           BuildEvents(k)[j].row.kind = kd}}]
  OBVIOUS
<1>2. PICK old : old = UNION {m[k] : k \in Legacy}
  OBVIOUS
<1>3. old = UNION {{<<k, i>> : i \in {j \in 1 .. Len(BuildEvents(k)) :
                                        BuildEvents(k)[j].row.kind = kd}} : k \in Legacy}
  BY <1>1, <1>2
<1>4. Legacy \subseteq Packets /\ IsFiniteSet(Legacy) /\ Packets \subseteq Nat
  BY QualityAssumption, PacketAssumption
<1>5. ASSUME NEW k \in Legacy
      PROVE  /\ \A x \in m[k] : /\ x[1] = k /\ x[2] \in 1 .. Len(BuildEvents(k)) /\ x = <<x[1], x[2]>>
                                /\ BuildEvents(k)[x[2]].row.kind = kd
             /\ IsFiniteSet(m[k])
  <2>1. PICK n \in Nat : n = Len(BuildEvents(k))
    BY <1>4, EventsFinite
  <2>2. m[k] = {<<k, i>> : i \in {j \in 1 .. n : BuildEvents(k)[j].row.kind = kd}}
    BY <1>1, <2>1
  <2>3. PICK J, f : /\ J = {j \in 1 .. n : BuildEvents(k)[j].row.kind = kd}
                    /\ f = [j \in J |-> <<k, j>>]
    OBVIOUS
  <2>4. IsFiniteSet(1 .. n) /\ J \in SUBSET (1 .. n)
    BY <2>3, FS_Interval
  <2>5. IsFiniteSet(J)
    BY <2>4, FS_Subset
  <2>6. IsFiniteSet({f[j] : j \in J})
    BY <2>5, ImageFinite
  <2>7. m[k] = {f[j] : j \in J}
    BY <2>2, <2>3
  <2>8. ASSUME NEW x \in m[k]
        PROVE  /\ x[1] = k /\ x[2] \in 1 .. Len(BuildEvents(k)) /\ x = <<x[1], x[2]>>
               /\ BuildEvents(k)[x[2]].row.kind = kd
    BY <2>1, <2>2
  <2>9. IsFiniteSet(m[k])
    BY <2>6, <2>7
  <2> QED BY <2>8, <2>9
<1>6. IsFiniteSet(old)
  <2>1. IsFiniteSet({m[k] : k \in Legacy})
    BY <1>4, ImageFinite
  <2>2. \A x \in {m[k] : k \in Legacy} : IsFiniteSet(x)
    BY <1>5
  <2> QED BY <1>2, <2>1, <2>2, FS_UNION
<1>7. ASSUME NEW x \in old
      PROVE  /\ x = <<x[1], x[2]>> /\ x[1] \in Legacy /\ x[1] \in Nat /\ x[2] \in Nat
             /\ x[2] \in 1 .. Len(BuildEvents(x[1])) /\ BuildEvents(x[1])[x[2]].row.kind = kd
  <2>1. PICK k \in Legacy : x \in m[k]
    BY <1>2
  <2>2. x[1] = k /\ x[2] \in 1 .. Len(BuildEvents(k)) /\ x = <<x[1], x[2]>>
        /\ BuildEvents(k)[x[2]].row.kind = kd
    BY <1>5, <2>1
  <2>3. x[2] \in Nat
    BY <2>2
  <2> QED BY <1>4, <2>2, <2>3
<1>8. StrictTotal(old, PairLesser(old))
  <2>1. ASSUME NEW a \in old, NEW b \in old
        PROVE  <<a, b>> \in PairLesser(old) <=> a[1] < b[1] \/ (a[1] = b[1] /\ a[2] < b[2])
    BY DEF PairLesser
  <2>2. ASSUME NEW a \in old PROVE <<a, a>> \notin PairLesser(old)
    BY <1>7, <2>1
  <2>3. ASSUME NEW a \in old, NEW b \in old, a # b
        PROVE  <<a, b>> \in PairLesser(old) \/ <<b, a>> \in PairLesser(old)
    <3>1. a[1] # b[1] \/ a[2] # b[2]
      BY <1>7, <2>3
    <3> QED BY <1>7, <2>1, <3>1
  <2>4. ASSUME NEW a \in old, NEW b \in old, NEW c \in old,
               <<a, b>> \in PairLesser(old), <<b, c>> \in PairLesser(old)
        PROVE  <<a, c>> \in PairLesser(old)
    <3>1. /\ a[1] \in Nat /\ a[2] \in Nat /\ b[1] \in Nat /\ b[2] \in Nat
          /\ c[1] \in Nat /\ c[2] \in Nat
      BY <1>7
    <3>2. a[1] < b[1] \/ (a[1] = b[1] /\ a[2] < b[2])
      BY <2>1, <2>4
    <3>3. b[1] < c[1] \/ (b[1] = c[1] /\ b[2] < c[2])
      BY <2>1, <2>4
    <3>4. a[1] < c[1] \/ (a[1] = c[1] /\ a[2] < c[2])
      BY <3>1, <3>2, <3>3
    <3> QED BY <2>1, <3>4
  <2> QED BY <2>2, <2>3, <2>4 DEF StrictTotal
<1>9. PICK at : at = InOrder(old, PairLesser(old))
  OBVIOUS
<1>10. PICK c \in Nat : c = Cardinality(old)
  BY <1>6, FS_CardinalityType
<1>11. at \in [1 .. c -> old] /\ \A x \in old : \E i \in 1 .. c : at[i] = x
  BY <1>6, <1>8, <1>9, <1>10, InOrderIs
<1>12. PICK s : s = LegacyRows(kd)
  OBVIOUS
<1>13. s = [n \in 1 .. c |-> BuildEvents(at[n][1])[at[n][2]]]
  BY <1>3, <1>9, <1>10, <1>12 DEF LegacyRows
<1>14. ASSUME NEW n \in 1 .. c
       PROVE  at[n][1] \in Legacy /\ s[n] \in EventsOf(at[n][1]) /\ s[n].row.kind = kd
  <2>1. at[n] \in old /\ s[n] = BuildEvents(at[n][1])[at[n][2]]
    BY <1>11, <1>13
  <2>2. /\ at[n][1] \in Legacy /\ at[n][2] \in 1 .. Len(BuildEvents(at[n][1]))
        /\ BuildEvents(at[n][1])[at[n][2]].row.kind = kd
    BY <1>7, <2>1
  <2> QED BY <2>1, <2>2 DEF EventsOf
<1>15. ASSUME NEW n \in 1 .. c PROVE s[n] \in AllEvents(kd) /\ s[n].row.packet \in Legacy
  <2>1. PICK k \in Packets : k = at[n][1]
    BY <1>4, <1>14
  <2>2. PICK e \in EventsOf(k) : e = s[n]
    BY <1>14, <2>1
  <2>3. e.row.packet = k /\ e \in AllEvents(e.row.kind)
    BY EventIs
  <2> QED BY <1>14, <2>1, <2>2, <2>3
<1>16. s \in Seq(AllEvents(kd)) /\ Len(s) = c
  <2>1. s \in [1 .. c -> AllEvents(kd)]
    BY <1>13, <1>15
  <2> QED BY <2>1
<1>17. ASSUME NEW k \in Legacy, NEW e \in EventsOf(k), e.row.kind = kd
       PROVE  \E n \in 1 .. c : s[n] = e
  <2>1. PICK i \in 1 .. Len(BuildEvents(k)) : e = BuildEvents(k)[i]
    BY DEF EventsOf
  <2>2. <<k, i>> \in m[k]
    BY <1>1, <1>17, <2>1
  <2>3. <<k, i>> \in old
    BY <1>2, <2>2
  <2>4. PICK n \in 1 .. c : at[n] = <<k, i>>
    BY <1>11, <2>3
  <2>5. s[n] = e
    BY <1>13, <2>1, <2>4
  <2> QED BY <2>5
<1> QED BY <1>12, <1>15, <1>16, <1>17

-----------------------------------------------------------------------------

LEMMA InitStored == Init => StoreInv
<1> SUFFICES ASSUME Init PROVE StoreInv
  OBVIOUS
<1>1. ended = Legacy /\ index = <<>> /\ files = [kd \in EventKinds |-> LegacyRows(kd)]
      /\ proc = [p \in Procs |-> NotIngesting]
  BY DEF Init, NoIndex
<1>2. \A kd \in IngestKinds : kd \in EventKinds /\ files[kd] = LegacyRows(kd)
  BY <1>1 DEF IngestKinds
<1>3. FilesTyped
  <2>1. files = [kd \in EventKinds |-> files[kd]]
    BY <1>1
  <2>2. \A kd \in IngestKinds : files[kd] \in Seq(AllEvents(kd))
    BY <1>2, LegacyAre
  <2> QED BY <2>1, <2>2 DEF FilesTyped
<1>4. "worker_run" \in IngestKinds
  BY DEF IngestKinds, EventKinds
<1>5. IndexOK
  <2>1. index \in Seq(IndexRow) /\ Len(index) = 0
    BY <1>1
  <2>2. \A i \in 1 .. Len(files["worker_run"]) : files["worker_run"][i].row.packet \in Legacy
    BY <1>2, <1>4, LegacyAre
  <2> QED BY <2>1, <2>2 DEF IndexOK
<1>6. ASSUME NEW k \in Legacy PROVE Stored(k)
  <2>1. ASSUME NEW e \in EventsOf(k) PROVE Written(e)
    <3>1. k \in Packets
      BY QualityAssumption
    <3>2. e.row.kind \in IngestKinds
      BY <3>1, EventIs
    <3>3. PICK kd \in IngestKinds : kd = e.row.kind
      BY <3>2
    <3>4. \E n \in 1 .. Len(LegacyRows(kd)) : LegacyRows(kd)[n] = e
      BY <3>3, LegacyAre
    <3> QED BY <1>2, <3>3, <3>4 DEF Written
  <2> QED BY <2>1 DEF Stored
<1>7. ASSUME NEW p \in Procs PROVE WriterOK(p)
  <2>1. proc[p] = NotIngesting
    BY <1>1
  <2> QED BY <2>1 DEF WriterOK, NotIngesting
<1>8. proc = [p \in Procs |-> proc[p]] /\ ended \subseteq Packets
  BY <1>1, QualityAssumption
<1> QED BY <1>3, <1>5, <1>6, <1>7, <1>8 DEF StoreInv

(* As long as nothing is appended or removed, what is written stays so.    *)
LEMMA WrittenStays ==
  ASSUME files' = files
  PROVE  (\A e : Written(e)' <=> Written(e)) /\ (\A k : Stored(k)' <=> Stored(k))
<1>1. \A e : Written(e)' <=> Written(e)
  BY DEF Written
<1>2. \A k : Stored(k)' <=> Stored(k)
  BY <1>1 DEF Stored
<1> QED BY <1>1, <1>2

StartedWriter(w) ==
  /\ w = [pc |-> w.pc, packet |-> w.packet, force |-> w.force, rows |-> w.rows]
  /\ w.pc \in {"idle", "check", "scan", "backfill", "begin"}
  /\ w.pc # "idle" => w.packet \in Packets
  /\ w.pc = "backfill" => w.rows \in Seq(IndexRow)

LEMMA WriterStarts ==
  ASSUME StoreInv, files' = files, ended' \subseteq Packets, IndexOK', index # NoIndex => index' # NoIndex,
         proc' = proc \/ \E p \in Procs : \E w : proc' = [proc EXCEPT ![p] = w] /\ StartedWriter(w)
  PROVE  StoreInv'
<1>1. FilesTyped'
  BY DEF StoreInv, FilesTyped
<1>2. \A k \in Legacy : Stored(k)'
  BY WrittenStays DEF StoreInv
<1>3. proc' = [p \in Procs |-> proc'[p]]
  BY DEF StoreInv
<1>4. ASSUME NEW p \in Procs, proc'[p] = proc[p] PROVE WriterOK(p)'
  <2>1. WriterOK(p)
    BY DEF StoreInv
  <2>2. \A e : Written(e)' <=> Written(e)
    BY WrittenStays
  <2> QED BY <1>4, <2>1, <2>2 DEF WriterOK
<1>5. ASSUME NEW p \in Procs, StartedWriter(proc'[p]) PROVE WriterOK(p)'
  BY <1>5 DEF WriterOK, StartedWriter
<1>6. ASSUME NEW p \in Procs PROVE proc'[p] = proc[p] \/ StartedWriter(proc'[p])
  BY DEF StoreInv
<1> QED BY <1>1, <1>2, <1>3, <1>4, <1>5, <1>6 DEF StoreInv

LEMMA IndexStays ==
  ASSUME StoreInv, files' = files, index' = index, mistaken' = mistaken PROVE IndexOK'
BY WrittenStays DEF StoreInv, IndexOK

LEMMA OrchestrateStores ==
  ASSUME StoreInv, NEW p \in Procs, NEW k \in Packets, NEW skip \in BOOLEAN, Orchestrate(p, k, skip)
  PROVE  StoreInv'
<1>1. files' = files /\ index' = index /\ mistaken' = mistaken /\ ended' = ended \cup {k}
  BY DEF Orchestrate
<1>2. PICK w : w = [NotIngesting EXCEPT !.pc = "check", !.packet = k]
  OBVIOUS
<1>3. StartedWriter(w)
  BY <1>2 DEF StartedWriter, NotIngesting
<1>4. proc' = proc \/ proc' = [proc EXCEPT ![p] = w]
  BY <1>2 DEF Orchestrate
<1>5. ended' \subseteq Packets
  BY <1>1 DEF StoreInv
<1>6. IndexOK'
  BY <1>1, IndexStays
<1> QED BY <1>1, <1>3, <1>4, <1>5, <1>6, WriterStarts

LEMMA IngestStores ==
  ASSUME StoreInv, NEW p \in Procs, NEW k \in Packets, NEW force \in BOOLEAN, Ingest(p, k, force)
  PROVE  StoreInv'
<1>1. files' = files /\ index' = index /\ mistaken' = mistaken /\ ended' = ended
  BY DEF Ingest
<1>2. PICK w : w = [NotIngesting EXCEPT !.packet = k, !.force = force,
                                        !.pc = IF force THEN "begin" ELSE "check"]
  OBVIOUS
<1>3. StartedWriter(w)
  BY <1>2 DEF StartedWriter, NotIngesting
<1>4. proc' = [proc EXCEPT ![p] = w]
  BY <1>2 DEF Ingest
<1>5. ended' \subseteq Packets
  BY <1>1 DEF StoreInv
<1>6. IndexOK'
  BY <1>1, IndexStays
<1> QED BY <1>1, <1>3, <1>4, <1>5, <1>6, WriterStarts

LEMMA DieStores ==
  ASSUME StoreInv, NEW p \in Procs, Die(p) PROVE StoreInv'
<1>1. files' = files /\ index' = index /\ mistaken' = mistaken /\ ended' = ended
  BY DEF Die
<1>2. StartedWriter(NotIngesting) /\ proc' = [proc EXCEPT ![p] = NotIngesting]
  BY DEF StartedWriter, NotIngesting, Die
<1>3. ended' \subseteq Packets
  BY <1>1 DEF StoreInv
<1>4. IndexOK'
  BY <1>1, IndexStays
<1> QED BY <1>1, <1>2, <1>3, <1>4, WriterStarts

LEMMA StillStores ==
  ASSUME StoreInv, UNCHANGED <<files, index, mistaken, ended, proc>> PROVE StoreInv'
<1>1. ended' \subseteq Packets
  BY DEF StoreInv
<1>2. IndexOK'
  BY IndexStays
<1> QED BY <1>1, <1>2, WriterStarts

(* The packet is refused, or begun, or looked for in worker-runs.jsonl.    *)
LEMMA CheckIndexStores ==
  ASSUME StoreInv, NEW p \in Procs, CheckIndex(p) PROVE StoreInv'
<1>1. files' = files /\ index' = index /\ mistaken' = mistaken /\ ended' = ended
  BY DEF CheckIndex
<1>2. PICK v : v = proc[p]
  OBVIOUS
<1>3. /\ v = [pc |-> v.pc, packet |-> v.packet, force |-> v.force, rows |-> v.rows]
      /\ v.packet \in Packets
  <2>1. WriterOK(p) /\ proc[p].pc = "check"
    BY DEF StoreInv, CheckIndex
  <2> QED BY <1>2, <2>1 DEF WriterOK
<1>4. PICK w : /\ w = IF index # NoIndex /\ Complete(v.packet) THEN NotIngesting
                      ELSE [v EXCEPT !.pc = IF index = NoIndex THEN "scan" ELSE "begin"]
               /\ proc' = [proc EXCEPT ![p] = w]
  BY <1>2 DEF CheckIndex
<1>5. StartedWriter(NotIngesting)
  BY DEF StartedWriter, NotIngesting
<1>6. ASSUME NEW pc \in {"scan", "begin"} PROVE StartedWriter([v EXCEPT !.pc = pc])
  BY <1>3 DEF StartedWriter
<1>7. StartedWriter(w)
  BY <1>4, <1>5, <1>6
<1>8. IndexOK' /\ ended' \subseteq Packets
  BY <1>1, IndexStays DEF StoreInv
<1> QED BY <1>1, <1>4, <1>7, <1>8, WriterStarts

LEMMA BackfillRowsAre ==
  ASSUME StoreInv PROVE BackfillRows \in Seq(IndexRow)
<1>1. PICK s : s = files["worker_run"]
  OBVIOUS
<1>2. s \in Seq(AllEvents("worker_run"))
  BY <1>1 DEF StoreInv, FilesTyped, IngestKinds, EventKinds
<1>3. PICK n \in Nat : n = Len(s)
  BY <1>2
<1>4. PICK found : found = {s[i].row.packet : i \in 1 .. n}
  OBVIOUS
<1>5. FoundInRuns = found
  BY <1>1, <1>3, <1>4 DEF FoundInRuns
<1>6. ASSUME NEW i \in 1 .. n PROVE s[i].row.packet \in Packets
  <2>1. s[i] \in AllEvents("worker_run")
    BY <1>2, <1>3
  <2>2. PICK k \in Packets : s[i] \in EventsOf(k)
    BY <2>1, AllAre
  <2>3. PICK e \in EventsOf(k) : e = s[i]
    BY <2>2
  <2> QED BY <2>3, EventIs
<1>7. found \subseteq Packets /\ found \subseteq Nat
  BY <1>4, <1>6, PacketAssumption
<1>8. IsFiniteSet(found)
  <2>1. PICK J, f : J = 1 .. n /\ f = [i \in J |-> s[i].row.packet]
    OBVIOUS
  <2>2. IsFiniteSet(J)
    BY <2>1, FS_Interval
  <2>3. IsFiniteSet({f[i] : i \in J})
    BY <2>2, ImageFinite
  <2>4. found = {f[i] : i \in J}
    BY <1>4, <2>1
  <2> QED BY <2>3, <2>4
<1>9. StrictTotal(found, Lesser(found))
  BY <1>7 DEF StrictTotal, Lesser
<1>10. PICK c \in Nat : c = Cardinality(found)
  BY <1>8, FS_CardinalityType
<1>11. PICK at : at = InOrder(found, Lesser(found))
  OBVIOUS
<1>12. at \in [1 .. c -> found]
  BY <1>8, <1>9, <1>10, <1>11, InOrderIs
<1>13. BackfillRows = [i \in 1 .. c |-> [packet |-> at[i], status |-> "complete"]]
  BY <1>5, <1>10, <1>11 DEF BackfillRows
<1>14. ASSUME NEW i \in 1 .. c PROVE [packet |-> at[i], status |-> "complete"] \in IndexRow
  BY <1>7, <1>12 DEF IndexRow
<1>15. BackfillRows \in [1 .. c -> IndexRow]
  BY <1>13, <1>14
<1> QED BY <1>15

LEMMA ScanRunsStores ==
  ASSUME StoreInv, NEW p \in Procs, ScanRuns(p) PROVE StoreInv'
<1>1. files' = files /\ index' = index /\ mistaken' = mistaken /\ ended' = ended
  BY DEF ScanRuns
<1>2. PICK v, b : v = proc[p] /\ b = BackfillRows
  OBVIOUS
<1>3. WriterOK(p) /\ v.pc = "scan" /\ proc = [q \in Procs |-> proc[q]]
  BY <1>2 DEF StoreInv, ScanRuns
<1>4. PICK k, f, r : k \in Packets /\ v = [pc |-> "scan", packet |-> k, force |-> f, rows |-> r]
  BY <1>2, <1>3 DEF WriterOK
<1>5. PICK w : w = [pc |-> "backfill", packet |-> k, force |-> f, rows |-> b]
  OBVIOUS
<1>6. proc' = [proc EXCEPT ![p] = w]
  <2>1. proc' = [proc EXCEPT ![p].pc = "backfill", ![p].rows = b]
    BY <1>2 DEF ScanRuns
  <2>2. proc'[p] = [[v EXCEPT !.pc = "backfill"] EXCEPT !.rows = b]
    BY <1>2, <1>3, <2>1
  <2>3. proc'[p] = w
    BY <1>4, <1>5, <2>2
  <2>4. \A q \in Procs : q # p => proc'[q] = proc[q]
    BY <1>3, <2>1
  <2>5. proc' = [q \in Procs |-> proc'[q]]
    BY <1>3, <2>1
  <2> QED BY <1>3, <2>3, <2>4, <2>5
<1>7. StartedWriter(w)
  <2>1. w.pc = "backfill" /\ w.packet = k /\ w.rows = b /\ b \in Seq(IndexRow)
    BY <1>2, <1>5, BackfillRowsAre
  <2> QED BY <1>4, <1>5, <2>1 DEF StartedWriter
<1>8. IndexOK' /\ ended' \subseteq Packets
  BY <1>1, IndexStays DEF StoreInv
<1> QED BY <1>1, <1>6, <1>7, <1>8, WriterStarts

(* What the backfill takes for complete is an earlier writer's, or         *)
(* complete already, or mistaken from now on.                              *)
LEMMA BackfillStores ==
  ASSUME StoreInv, NEW p \in Procs, Backfill(p) PROVE StoreInv'
<1>1. PICK v, done, found : /\ v = proc[p] /\ done = v.rows
                            /\ found = {done[i].packet : i \in 1 .. Len(done)}
  OBVIOUS
<1>2. /\ v.pc = "backfill" /\ files' = files /\ ended' = ended /\ index' = index \o done
      /\ mistaken' = mistaken \cup {k \in found \ Legacy : ~Complete(k)}
      /\ proc' = [proc EXCEPT ![p] = IF v.packet \in found THEN NotIngesting
                                     ELSE [v EXCEPT !.pc = "begin", !.rows = <<>>]]
  BY <1>1 DEF Backfill
<1>3. WriterOK(p) /\ IndexOK
  BY DEF StoreInv
<1>4. /\ done \in Seq(IndexRow) /\ index \in Seq(IndexRow) /\ v.packet \in Packets
      /\ v = [pc |-> v.pc, packet |-> v.packet, force |-> v.force, rows |-> v.rows]
  BY <1>1, <1>2, <1>3 DEF WriterOK, IndexOK
<1>5. PICK m \in Nat, n \in Nat : m = Len(index) /\ n = Len(done)
  BY <1>4
<1>6. /\ index' \in Seq(IndexRow) /\ Len(index') = m + n
      /\ \A i \in 1 .. m + n : index'[i] = IF i <= m THEN index[i] ELSE done[i - m]
  BY <1>2, <1>4, <1>5, ConcatProperties
<1>7. index # NoIndex => index' # NoIndex
  BY <1>4, <1>5, <1>6 DEF NoIndex
<1>8. \A k : Stored(k)' <=> Stored(k)
  BY <1>2, WrittenStays
<1>9. ASSUME NEW k \in Packets, Complete(k) PROVE Stored(k)' \/ k \in mistaken'
  <2>1. Stored(k) \/ k \in mistaken
    BY <1>3, <1>9 DEF Complete, IndexOK
  <2> QED BY <1>2, <1>8, <2>1
<1>10. ASSUME NEW k \in Packets, NEW i \in 1 .. Len(index'),
              index'[i].packet = k, index'[i].status = "complete"
       PROVE  Stored(k)' \/ k \in mistaken'
  <2>1. CASE i <= m
    <3>1. i \in 1 .. Len(index) /\ index[i] = index'[i]
      BY <1>5, <1>6, <2>1
    <3> QED BY <1>9, <1>10, <3>1 DEF Complete
  <2>2. CASE ~(i <= m)
    <3>1. i - m \in 1 .. Len(done) /\ done[i - m] = index'[i]
      BY <1>5, <1>6, <2>2
    <3>2. k \in found
      BY <1>1, <1>10, <3>1
    <3>3. CASE k \in Legacy
      BY <1>8, <3>3 DEF StoreInv
    <3>4. CASE k \notin Legacy /\ ~Complete(k)
      BY <1>2, <3>2, <3>4
    <3> QED BY <1>9, <3>3, <3>4
  <2> QED BY <2>1, <2>2
<1>11. IndexOK'
  <2>1. index' = NoIndex => index = NoIndex
    BY <1>7
  <2> QED BY <1>2, <1>3, <1>6, <1>10, <2>1 DEF IndexOK
<1>12. PICK w : /\ w = IF v.packet \in found THEN NotIngesting
                       ELSE [v EXCEPT !.pc = "begin", !.rows = <<>>]
                /\ proc' = [proc EXCEPT ![p] = w]
  BY <1>2
<1>13. StartedWriter(w)
  <2>1. StartedWriter(NotIngesting)
    BY DEF StartedWriter, NotIngesting
  <2>2. PICK u : u = [v EXCEPT !.pc = "begin", !.rows = <<>>]
    OBVIOUS
  <2>3. u = [pc |-> "begin", packet |-> v.packet, force |-> v.force, rows |-> <<>>]
    BY <1>4, <2>2
  <2>4. StartedWriter(u)
    BY <1>4, <2>3 DEF StartedWriter
  <2> QED BY <1>12, <2>1, <2>2, <2>4
<1>14. ended' \subseteq Packets
  BY <1>2 DEF StoreInv
<1> QED BY <1>2, <1>7, <1>11, <1>12, <1>13, <1>14, WriterStarts

(* A row more in the index.                                                *)
LEMMA IndexGrows ==
  ASSUME IndexOK, files' = files, NEW r \in IndexRow, index' = Append(index, r),
         r.status = "complete" => Stored(r.packet),
         \A k : Stored(k) \/ k \in mistaken => Stored(k) \/ k \in mistaken'
  PROVE  IndexOK' /\ index' # NoIndex
<1>1. PICK n \in Nat : n = Len(index)
  BY DEF IndexOK
<1>2. /\ index' \in Seq(IndexRow) /\ Len(index') = n + 1 /\ index'[n + 1] = r
      /\ \A i \in 1 .. n : index'[i] = index[i]
  <2>1. index \in Seq(IndexRow)
    BY DEF IndexOK
  <2> QED BY <1>1, <2>1, AppendProperties
<1>3. index' # NoIndex
  BY <1>1, <1>2 DEF NoIndex
<1>4. ASSUME NEW k \in Packets, NEW i \in 1 .. Len(index'),
             index'[i].packet = k, index'[i].status = "complete"
      PROVE  Stored(k) \/ k \in mistaken'
  <2>1. CASE i = n + 1
    BY <1>2, <1>4, <2>1
  <2>2. CASE i # n + 1
    <3>1. i \in 1 .. Len(index) /\ index[i] = index'[i]
      BY <1>1, <1>2, <2>2
    <3> QED BY <1>4, <3>1 DEF IndexOK
  <2> QED BY <2>1, <2>2
<1>5. \A k : Stored(k)' <=> Stored(k)
  BY WrittenStays
<1>6. \A k \in Packets :
        (\E i \in 1 .. Len(index') : index'[i].packet = k /\ index'[i].status = "complete") =>
          Stored(k)' \/ k \in mistaken'
  BY <1>4, <1>5
<1> QED BY <1>2, <1>3, <1>6 DEF IndexOK

LEMMA AppendBeginStores ==
  ASSUME StoreInv, NEW p \in Procs, AppendBegin(p) PROVE StoreInv'
<1>1. PICK k : k = proc[p].packet
  OBVIOUS
<1>2. /\ files' = files /\ ended' = ended /\ mistaken' = mistaken /\ proc[p].pc = "begin"
      /\ index' = Append(index, [packet |-> k, status |-> "in_progress"])
      /\ proc' = [proc EXCEPT ![p].rows = BuildEvents(k), ![p].pc = "rows"]
  BY <1>1 DEF AppendBegin, WithIndexRow
<1>3. WriterOK(p) /\ proc = [q \in Procs |-> proc[q]] /\ IndexOK
  BY DEF StoreInv
<1>4. k \in Packets
  BY <1>1, <1>2, <1>3 DEF WriterOK
<1>5. IndexOK' /\ index' # NoIndex
  <2>1. PICK r : r = [packet |-> k, status |-> "in_progress"]
    OBVIOUS
  <2>2. r \in IndexRow /\ r.status = "in_progress"
    BY <1>4, <2>1 DEF IndexRow
  <2>3. index' = Append(index, r)
    BY <1>2, <2>1
  <2> QED BY <1>2, <1>3, <2>2, <2>3, IndexGrows
<1>6. FilesTyped' /\ ended' \subseteq Packets
  BY <1>2 DEF StoreInv, FilesTyped
<1>7. (\A e : Written(e)' <=> Written(e)) /\ \A j \in Legacy : Stored(j)'
  BY <1>2, WrittenStays DEF StoreInv
<1>8. proc' = [q \in Procs |-> proc'[q]]
  BY <1>2, <1>3
<1>9. ASSUME NEW q \in Procs PROVE WriterOK(q)'
  <2>1. CASE q # p
    <3>1. WriterOK(q) /\ proc'[q] = proc[q]
      BY <1>2, <1>3, <2>1 DEF StoreInv
    <3> QED BY <1>5, <1>7, <3>1 DEF WriterOK
  <2>2. CASE q = p
    <3>1. PICK w, v : w = proc'[p] /\ v = proc[p]
      OBVIOUS
    <3>2. PICK f, s : v = [pc |-> "begin", packet |-> k, force |-> f, rows |-> s]
      BY <1>1, <1>2, <1>3, <3>1 DEF WriterOK
    <3>3. w = [pc |-> "rows", packet |-> k, force |-> f, rows |-> BuildEvents(k)]
      <4>1. w = [[v EXCEPT !.rows = BuildEvents(k)] EXCEPT !.pc = "rows"]
        BY <1>2, <1>3, <3>1
      <4> QED BY <3>2, <4>1
    <3>4. BuildEvents(k) \in Seq(EventsOf(k))
      BY <1>4, EventsFinite
    <3>5. \A e \in EventsOf(k) : \E i \in 1 .. Len(BuildEvents(k)) : BuildEvents(k)[i] = e
      BY DEF EventsOf
    <3> QED BY <1>4, <1>5, <2>2, <3>1, <3>3, <3>4, <3>5 DEF WriterOK
  <2> QED BY <2>1, <2>2
<1> QED BY <1>5, <1>6, <1>7, <1>8, <1>9 DEF StoreInv

LEMMA AppendCompleteStores ==
  ASSUME StoreInv, NEW p \in Procs, AppendComplete(p) PROVE StoreInv'
<1>1. PICK k : k = proc[p].packet
  OBVIOUS
<1>2. /\ files' = files /\ ended' = ended /\ proc[p].pc = "rows" /\ proc[p].rows = <<>>
      /\ index' = Append(index, [packet |-> k, status |-> "complete"])
      /\ mistaken' = mistaken \ {k}
      /\ proc' = [proc EXCEPT ![p] = NotIngesting]
  BY <1>1 DEF AppendComplete, WithIndexRow
<1>3. WriterOK(p) /\ IndexOK
  BY DEF StoreInv
<1>4. k \in Packets
  BY <1>1, <1>2, <1>3 DEF WriterOK
<1>5. Stored(k)
  <2>1. \A e \in EventsOf(k) : Written(e) \/ \E i \in 1 .. Len(<<>>) : <<>>[i] = e
    BY <1>1, <1>2, <1>3 DEF WriterOK
  <2> QED BY <2>1 DEF Stored
<1>6. IndexOK' /\ index' # NoIndex
  <2>1. PICK r : r = [packet |-> k, status |-> "complete"]
    OBVIOUS
  <2>2. r \in IndexRow /\ r.packet = k
    BY <1>4, <2>1 DEF IndexRow
  <2>3. index' = Append(index, r)
    BY <1>2, <2>1
  <2>4. \A j : Stored(j) \/ j \in mistaken => Stored(j) \/ j \in mistaken'
    BY <1>2, <1>5
  <2> QED BY <1>2, <1>3, <1>5, <2>2, <2>3, <2>4, IndexGrows
<1>7. StartedWriter(NotIngesting) /\ ended' \subseteq Packets
  BY <1>2 DEF StartedWriter, NotIngesting, StoreInv
<1> QED BY <1>2, <1>6, <1>7, WriterStarts

(* A row more in a file.                                                   *)
LEMMA RowWritten ==
  ASSUME FilesTyped, NEW kd \in IngestKinds, NEW e \in AllEvents(kd),
         files' = [files EXCEPT ![kd] = Append(@, e)]
  PROVE  /\ FilesTyped' /\ Written(e)'
         /\ \A d : d.row.kind \in IngestKinds /\ Written(d) => Written(d)'
         /\ Len(files[kd]) \in Nat /\ Len(files'[kd]) = Len(files[kd]) + 1
         /\ files'[kd][Len(files[kd]) + 1] = e
         /\ \A i \in 1 .. Len(files[kd]) : files'[kd][i] = files[kd][i]
         /\ \A m \in EventKinds : m # kd => files'[m] = files[m]
<1>1. PICK s, n : s = files[kd] /\ n = Len(s)
  OBVIOUS
<1>2. s \in Seq(AllEvents(kd)) /\ n \in Nat /\ kd \in EventKinds
  BY <1>1 DEF FilesTyped, IngestKinds
<1>3. PICK t : t = Append(s, e)
  OBVIOUS
<1>4. /\ t \in Seq(AllEvents(kd)) /\ Len(t) = n + 1 /\ t[n + 1] = e
      /\ \A i \in 1 .. n : t[i] = s[i]
  BY <1>1, <1>2, <1>3, AppendProperties
<1>5. /\ files' = [m \in EventKinds |-> files'[m]] /\ files'[kd] = t
      /\ \A m \in EventKinds : m # kd => files'[m] = files[m]
  BY <1>1, <1>2, <1>3 DEF FilesTyped
<1>6. ASSUME NEW m \in IngestKinds PROVE files'[m] \in Seq(AllEvents(m))
  <2>1. CASE m = kd
    BY <1>4, <1>5, <2>1
  <2>2. CASE m # kd
    BY <1>5, <2>2 DEF FilesTyped, IngestKinds
  <2> QED BY <2>1, <2>2
<1>7. FilesTyped'
  BY <1>5, <1>6 DEF FilesTyped
<1>8. e.row.kind = kd
  BY AllAre
<1>9. Written(e)'
  <2>1. n + 1 \in 1 .. Len(t)
    BY <1>2, <1>4
  <2> QED BY <1>4, <1>5, <1>8, <2>1 DEF Written
<1>10. ASSUME NEW d, d.row.kind \in IngestKinds, Written(d) PROVE Written(d)'
  <2>1. PICK m \in IngestKinds : m = d.row.kind
    BY <1>10
  <2>2. PICK i \in 1 .. Len(files[m]) : files[m][i] = d
    BY <1>10, <2>1 DEF Written
  <2>3. CASE m = kd
    <3>1. i \in 1 .. n /\ i \in 1 .. Len(t) /\ t[i] = d
      BY <1>1, <1>2, <1>4, <2>2, <2>3
    <3> QED BY <1>5, <2>1, <2>3, <3>1 DEF Written
  <2>4. CASE m # kd
    <3>1. files'[m] = files[m]
      BY <1>5, <2>4 DEF IngestKinds
    <3> QED BY <2>1, <2>2, <3>1 DEF Written
  <2> QED BY <2>3, <2>4
<1> QED BY <1>1, <1>2, <1>4, <1>5, <1>7, <1>9, <1>10

LEMMA AppendRowStores ==
  ASSUME StoreInv, NEW p \in Procs, AppendRow(p) PROVE StoreInv'
<1>1. PICK k, s, e : k = proc[p].packet /\ s = proc[p].rows /\ e = Head(s)
  OBVIOUS
<1>2. /\ proc[p].pc = "rows" /\ s # <<>> /\ index' = index /\ mistaken' = mistaken
      /\ ended' = ended
      /\ files' = [files EXCEPT ![e.row.kind] = Append(@, e)]
      /\ proc' = [proc EXCEPT ![p].rows = Tail(s)]
  BY <1>1 DEF AppendRow
<1>3. WriterOK(p) /\ proc = [q \in Procs |-> proc[q]] /\ IndexOK /\ FilesTyped
  BY DEF StoreInv
<1>4. /\ k \in Packets /\ s \in Seq(EventsOf(k)) /\ index # NoIndex
      /\ \A d \in EventsOf(k) : Written(d) \/ \E i \in 1 .. Len(s) : s[i] = d
  BY <1>1, <1>2, <1>3 DEF WriterOK
<1>5. /\ e \in EventsOf(k) /\ Tail(s) \in Seq(EventsOf(k)) /\ e = s[1]
      /\ Len(Tail(s)) = Len(s) - 1 /\ \A i \in 1 .. Len(Tail(s)) : Tail(s)[i] = s[i + 1]
      /\ Len(s) \in Nat
  <2>1. Len(s) \in Nat /\ Len(s) # 0
    BY <1>2, <1>4
  <2>2. e = s[1] /\ s[1] \in EventsOf(k)
    BY <1>1, <1>2, <1>4, <2>1
  <2>3. Tail(s) \in Seq(EventsOf(k)) /\ Len(Tail(s)) = Len(s) - 1
    BY <1>2, <1>4
  <2>4. \A i \in 1 .. Len(Tail(s)) : Tail(s)[i] = s[i + 1]
    BY <1>2, <1>4, <2>1
  <2> QED BY <2>1, <2>2, <2>3, <2>4
<1>6. PICK kd \in IngestKinds : kd = e.row.kind
  BY <1>4, <1>5, EventIs
<1>7. e \in AllEvents(kd) /\ files' = [files EXCEPT ![kd] = Append(@, e)]
  BY <1>2, <1>4, <1>5, <1>6, EventIs
<1>8. /\ FilesTyped' /\ Written(e)'
      /\ \A d : d.row.kind \in IngestKinds /\ Written(d) => Written(d)'
  BY <1>3, <1>7, RowWritten
<1>9. ASSUME NEW j \in Packets, NEW d \in EventsOf(j), Written(d) PROVE Written(d)'
  BY <1>8, <1>9, EventIs
<1>10. ASSUME NEW j \in Packets, Stored(j) PROVE Stored(j)'
  BY <1>9, <1>10 DEF Stored
<1>11. IndexOK'
  <2>1. index' # NoIndex /\ index' \in Seq(IndexRow)
    BY <1>2, <1>3, <1>4 DEF IndexOK
  <2>2. ASSUME NEW j \in Packets, NEW i \in 1 .. Len(index'),
               index'[i].packet = j, index'[i].status = "complete"
        PROVE  Stored(j)' \/ j \in mistaken'
    <3>1. Stored(j) \/ j \in mistaken
      BY <1>2, <1>3, <2>2 DEF IndexOK
    <3> QED BY <1>2, <1>10, <3>1
  <2> QED BY <2>1, <2>2 DEF IndexOK
<1>12. ASSUME NEW q \in Procs PROVE WriterOK(q)'
  <2>1. CASE q # p
    <3>1. WriterOK(q) /\ proc'[q] = proc[q] /\ index' = index
      BY <1>2, <1>3, <2>1 DEF StoreInv
    <3> QED BY <1>9, <3>1 DEF WriterOK
  <2>2. CASE q = p
    <3>1. PICK w, v : w = proc'[p] /\ v = proc[p]
      OBVIOUS
    <3>2. PICK f : v = [pc |-> "rows", packet |-> k, force |-> f, rows |-> s]
      BY <1>1, <1>2, <1>3, <3>1 DEF WriterOK
    <3>3. w = [pc |-> "rows", packet |-> k, force |-> f, rows |-> Tail(s)]
      <4>1. w = [v EXCEPT !.rows = Tail(s)]
        BY <1>2, <1>3, <3>1
      <4> QED BY <3>2, <4>1
    <3>4. ASSUME NEW d \in EventsOf(k)
          PROVE  Written(d)' \/ \E i \in 1 .. Len(Tail(s)) : Tail(s)[i] = d
      <4>1. CASE Written(d)
        BY <1>4, <1>9, <4>1
      <4>2. CASE ~Written(d)
        <5>1. PICK i \in 1 .. Len(s) : s[i] = d
          BY <1>4, <4>2
        <5>2. CASE i = 1
          BY <1>5, <1>8, <5>1, <5>2
        <5>3. CASE i # 1
          <6>1. i - 1 \in 1 .. Len(Tail(s)) /\ i - 1 + 1 = i
            BY <1>5, <5>1, <5>3
          <6>2. Tail(s)[i - 1] = d
            BY <1>5, <5>1, <6>1
          <6> QED BY <6>1, <6>2
        <5> QED BY <5>2, <5>3
      <4> QED BY <4>1, <4>2
    <3>5. index' # NoIndex
      BY <1>2, <1>4
    <3>6. k \in Packets /\ Tail(s) \in Seq(EventsOf(k))
      BY <1>4, <1>5
    <3>7. proc'[q] = w /\ w.pc = "rows" /\ w.packet = k /\ w.rows = Tail(s)
      BY <2>2, <3>1, <3>3
    <3>8. w = [pc |-> w.pc, packet |-> w.packet, force |-> w.force, rows |-> w.rows]
      BY <3>3
    <3> QED BY <3>4, <3>5, <3>6, <3>7, <3>8 DEF WriterOK
  <2> QED BY <2>1, <2>2
<1>13. proc' = [q \in Procs |-> proc'[q]] /\ ended' \subseteq Packets
  BY <1>2, <1>3 DEF StoreInv
<1>14. \A j \in Legacy : Stored(j)'
  BY <1>10, QualityAssumption DEF StoreInv
<1> QED BY <1>8, <1>11, <1>12, <1>13, <1>14 DEF StoreInv

LEMMA MarkStores ==
  ASSUME StoreInv, NEW d, NEW k, NEW b, Mark(d, k, b) PROVE StoreInv'
<1>1. PICK e : files' = [files EXCEPT !["human_decision"] = Append(@, e)]
  BY DEF Mark
<1>2. UNCHANGED <<ended, index, mistaken, proc>>
  BY DEF Mark
<1>3. files = [m \in EventKinds |-> files[m]]
  BY DEF StoreInv, FilesTyped
<1>4. /\ files' = [m \in EventKinds |-> files'[m]]
      /\ \A m \in IngestKinds : files'[m] = files[m]
  BY <1>1, <1>3 DEF IngestKinds
<1>5. FilesTyped'
  BY <1>4 DEF StoreInv, FilesTyped
<1>6. ASSUME NEW j \in Packets, NEW h \in EventsOf(j) PROVE Written(h)' <=> Written(h)
  <2>1. PICK m \in IngestKinds : m = h.row.kind
    BY EventIs
  <2>2. files'[m] = files[m]
    BY <1>4
  <2> QED BY <2>1, <2>2 DEF Written
<1>7. ASSUME NEW j \in Packets PROVE Stored(j)' <=> Stored(j)
  BY <1>6 DEF Stored
<1>8. files'["worker_run"] = files["worker_run"]
  BY <1>4 DEF IngestKinds, EventKinds
<1>9. IndexOK'
  BY <1>2, <1>7, <1>8 DEF StoreInv, IndexOK
<1>10. ASSUME NEW q \in Procs PROVE WriterOK(q)'
  <2>1. WriterOK(q) /\ proc'[q] = proc[q] /\ index' = index
    BY <1>2 DEF StoreInv
  <2> QED BY <1>6, <2>1 DEF WriterOK
<1>11. \A j \in Legacy : Stored(j)'
  BY <1>7, QualityAssumption DEF StoreInv
<1> QED BY <1>2, <1>5, <1>9, <1>10, <1>11 DEF StoreInv

LEMMA StoreHolds == Spec => []StoreInv
<1>1. StoreInv /\ [Next]_vars => StoreInv'
  <2> SUFFICES ASSUME StoreInv, [Next]_vars PROVE StoreInv'
    OBVIOUS
  <2>1. ASSUME NEW p \in Procs, NEW k \in Packets, NEW skip \in BOOLEAN, Orchestrate(p, k, skip)
        PROVE  StoreInv'
    BY <2>1, OrchestrateStores
  <2>2. ASSUME NEW p \in Procs, NEW k \in Packets, NEW force \in BOOLEAN, Ingest(p, k, force)
        PROVE  StoreInv'
    BY <2>2, IngestStores
  <2>3. ASSUME NEW p \in Procs, CheckIndex(p) PROVE StoreInv'
    BY <2>3, CheckIndexStores
  <2>12. ASSUME NEW p \in Procs, ScanRuns(p) PROVE StoreInv'
    BY <2>12, ScanRunsStores
  <2>13. ASSUME NEW p \in Procs, Backfill(p) PROVE StoreInv'
    BY <2>13, BackfillStores
  <2>4. ASSUME NEW p \in Procs, AppendBegin(p) PROVE StoreInv'
    BY <2>4, AppendBeginStores
  <2>5. ASSUME NEW p \in Procs, AppendRow(p) PROVE StoreInv'
    BY <2>5, AppendRowStores
  <2>6. ASSUME NEW p \in Procs, AppendComplete(p) PROVE StoreInv'
    BY <2>6, AppendCompleteStores
  <2>7. ASSUME NEW p \in Procs, Die(p) PROVE StoreInv'
    BY <2>7, DieStores
  <2>8. ASSUME NEW k \in Packets, LoseReview(k) PROVE StoreInv'
    BY <2>8, StillStores DEF LoseReview
  <2>9. ASSUME NEW d \in Decisions, NEW k \in ended \cup {Absent}, NEW b \in 0 .. 2, Mark(d, k, b)
        PROVE  StoreInv'
    BY <2>9, MarkStores
  <2>10. ASSUME NEW class \in Classes, Apply(class) PROVE StoreInv'
    BY <2>10, StillStores DEF Apply
  <2>11. CASE UNCHANGED vars
    BY <2>11, StillStores DEF vars
  <2> QED BY <2>1, <2>2, <2>3, <2>4, <2>5, <2>6, <2>7, <2>8, <2>9, <2>10, <2>11,
            <2>12, <2>13 DEF Next
<1> QED BY <1>1, InitStored, PTL DEF Spec

-----------------------------------------------------------------------------
(* The reader.                                                             *)

LEMMA LeastNumber ==
  ASSUME NEW T \in SUBSET Nat, T # {} PROVE \E n \in T : \A m \in T : n <= m
<1>1. PICK n \in T : \A m \in T : <<m, n>> \notin OpToRel(<, Nat)
  BY NatLessThanWellFounded, WFMin
<1>2. \A m \in T : ~(m < n)
  BY <1>1 DEF OpToRel
<1>3. n \in Nat /\ \A m \in T : m \in Nat
  OBVIOUS
<1>4. \A m \in T : n <= m
  BY <1>2, <1>3
<1> QED BY <1>4

(* Every event that was written is read, and once.                         *)
LEMMA ReadIs ==
  ASSUME FilesTyped, NEW kd \in IngestKinds, NEW t, t = ReadKind(kd)
  PROVE  /\ Len(t) \in Nat
         /\ \A j \in 1 .. Len(t) : t[j] \in AllEvents(kd)
         /\ \A i, j \in 1 .. Len(t) : t[i] = t[j] => i = j
         /\ \A e \in AllEvents(kd) : Written(e) => \E j \in 1 .. Len(t) : t[j] = e
<1>1. PICK s : s = files[kd]
  OBVIOUS
<1>2. s \in Seq(AllEvents(kd))
  BY <1>1 DEF FilesTyped
<1>3. PICK n \in Nat : n = Len(s)
  BY <1>2
<1>4. PICK first : first = {i \in 1 .. n : \A j \in 1 .. i - 1 : s[j].id # s[i].id}
  OBVIOUS
<1>5. t = Keep(s, first)
  BY <1>1, <1>3, <1>4 DEF ReadKind
<1>6. IsFiniteSet(first) /\ first \subseteq 1 .. n /\ first \subseteq Int
  <2>1. IsFiniteSet(1 .. n) /\ first \in SUBSET (1 .. n)
    BY <1>4, FS_Interval
  <2>2. IsFiniteSet(first)
    BY <2>1, FS_Subset
  <2> QED BY <2>1, <2>2
<1>7. PICK c \in Nat : c = Cardinality(first)
  BY <1>6, FS_CardinalityType
<1>8. PICK at : at = Places(first)
  OBVIOUS
<1>9. Len(t) = c
  BY <1>5, <1>6, <1>7, KeepIs
<1>10. t = [j \in 1 .. c |-> s[at[j]]]
  <2>1. t = [j \in 1 .. Cardinality(first) |-> s[Places(first)[j]]]
    BY <1>5, <1>6, KeepIs
  <2> QED BY <1>7, <1>8, <2>1
<1>11. Lists(at, first)
  BY <1>6, <1>8, KeepIs
<1>12. /\ at \in [1 .. c -> first] /\ \A i, j \in 1 .. c : at[i] = at[j] => i = j
       /\ \A x \in first : \E i \in 1 .. c : at[i] = x
  BY <1>7, <1>11 DEF Lists
<1>13. ASSUME NEW j \in 1 .. c PROVE at[j] \in first /\ at[j] \in 1 .. n /\ t[j] = s[at[j]]
  BY <1>6, <1>10, <1>12
<1>14. ASSUME NEW j \in 1 .. c PROVE t[j] \in AllEvents(kd)
  BY <1>2, <1>3, <1>13
<1>15. ASSUME NEW i \in 1 .. c, NEW j \in 1 .. c, t[i] = t[j] PROVE i = j
  <2>1. PICK x \in 1 .. n, y \in 1 .. n : x = at[i] /\ y = at[j] /\ x \in first /\ y \in first
    BY <1>13
  <2>2. s[x].id = s[y].id
    BY <1>13, <1>15, <2>1
  <2>3. ~(x < y) /\ ~(y < x)
    BY <1>4, <2>1, <2>2
  <2>4. x = y
    BY <2>3
  <2> QED BY <1>12, <2>1, <2>4
<1>16. ASSUME NEW e \in AllEvents(kd), Written(e) PROVE \E j \in 1 .. c : t[j] = e
  <2>1. PICK k \in Packets : e \in EventsOf(k) /\ e.row.kind = kd
    BY AllAre
  <2>2. PICK T : T = {i \in 1 .. n : s[i] = e}
    OBVIOUS
  <2>3. T \in SUBSET Nat /\ T # {}
    BY <1>1, <1>3, <1>16, <2>1, <2>2 DEF Written
  <2>4. PICK m \in T : \A i \in T : m <= i
    BY <2>3, LeastNumber
  <2>5. m \in 1 .. n /\ s[m] = e
    BY <2>2, <2>4
  <2>6. ASSUME NEW i \in 1 .. m - 1, s[i].id = s[m].id PROVE FALSE
    <3>1. i \in 1 .. n /\ i < m
      BY <2>5
    <3>2. s[i] \in AllEvents(kd)
      BY <1>2, <1>3, <3>1
    <3>3. PICK h \in Packets : s[i] \in EventsOf(h)
      BY <3>2, AllAre
    <3>4. PICK d \in EventsOf(h) : d = s[i]
      BY <3>3
    <3>5. d.id = e.id
      BY <2>5, <2>6, <3>4
    <3>6. d = e
      BY <2>1, <3>5, SameEvent
    <3>7. i \in T
      BY <2>2, <3>1, <3>4, <3>6
    <3> QED BY <2>4, <3>1, <3>7
  <2>7. m \in first
    BY <1>4, <2>5, <2>6
  <2>8. PICK j \in 1 .. c : at[j] = m
    BY <1>12, <2>7
  <2>9. t[j] = e
    BY <1>13, <2>5, <2>8
  <2> QED BY <2>9
<1> QED BY <1>9, <1>14, <1>15, <1>16

(* The readers count no row of a packet twice, and of what was ingested    *)
(* nothing is missing, whichever processes ingested it, at the same time,  *)
(* again or by force, and wherever they died: but for a packet that a      *)
(* backfill took for an earlier writer's while its ingest was under way.   *)
THEOREM PacketsAlwaysCountOnce == Spec => []CountedOnce
<1>1. ASSUME StoreInv, NEW k \in Packets PROVE NothingTwice(k)
  <2>1. FilesTyped
    BY <1>1 DEF StoreInv
  <2>2. ASSUME NEW kd \in IngestKinds, NEW t, t = ReadKind(kd), NEW j \in 1 .. Len(t),
               t[j].row.packet = k
        PROVE  /\ \E i \in 1 .. Len(BuildEvents(k)) : t[j] = BuildEvents(k)[i]
               /\ \A h \in 1 .. j - 1 : t[h] # t[j]
    <3>1. t[j] \in AllEvents(kd) /\ Len(t) \in Nat
      BY <2>1, <2>2, ReadIs
    <3>2. PICK m \in Packets : t[j] \in EventsOf(m)
      BY <3>1, AllAre
    <3>3. PICK e \in EventsOf(m) : e = t[j]
      BY <3>2
    <3>4. m = k
      BY <2>2, <3>3, EventIs
    <3>5. ASSUME NEW h \in 1 .. j - 1, t[h] = t[j] PROVE FALSE
      <4>1. h \in 1 .. Len(t) /\ h # j
        BY <3>1
      <4> QED BY <2>1, <2>2, <3>5, <4>1, ReadIs
    <3> QED BY <3>3, <3>4, <3>5 DEF EventsOf
  <2> QED BY <2>2 DEF NothingTwice
<1>2. ASSUME StoreInv, NEW k \in Packets, AlreadyIngested(k), k \notin mistaken PROVE Stored(k)
  <2>1. CASE index # NoIndex
    BY <1>2, <2>1 DEF AlreadyIngested, Complete, IndexOK, StoreInv
  <2>2. CASE index = NoIndex
    <3>1. PICK i \in 1 .. Len(files["worker_run"]) : files["worker_run"][i].row.packet = k
      BY <1>2, <2>2 DEF AlreadyIngested, FoundInRuns
    <3>2. k \in Legacy
      BY <1>2, <2>2, <3>1 DEF IndexOK, StoreInv
    <3> QED BY <1>2, <3>2 DEF StoreInv
  <2> QED BY <2>1, <2>2
<1>3. ASSUME StoreInv, NEW k \in Packets, Stored(k) PROVE Whole(k)
  <2>1. ASSUME NEW i \in 1 .. Len(BuildEvents(k)), NEW e, e = BuildEvents(k)[i]
        PROVE  /\ e.row.kind \in IngestKinds
               /\ \E j \in 1 .. Len(ReadKind(e.row.kind)) : ReadKind(e.row.kind)[j] = e
    <3>1. e \in EventsOf(k)
      BY <2>1 DEF EventsOf
    <3>2. PICK kd \in IngestKinds : kd = e.row.kind
      BY <3>1, EventIs
    <3>3. e \in AllEvents(kd) /\ Written(e)
      BY <1>3, <3>1, <3>2, EventIs DEF Stored
    <3>4. PICK t : t = ReadKind(kd)
      OBVIOUS
    <3>5. \E j \in 1 .. Len(t) : t[j] = e
      BY <1>3, <3>3, <3>4, ReadIs DEF StoreInv
    <3> QED BY <3>2, <3>4, <3>5
  <2> QED BY <2>1 DEF Whole
<1>4. StoreInv => CountedOnce
  BY <1>1, <1>2, <1>3 DEF CountedOnce
<1> QED BY <1>4, StoreHolds, PTL

-----------------------------------------------------------------------------
(* The scores are ordered.                                                 *)

LEMMA RootIs == ASSUME NEW x \in Nat PROVE Root(x) \in Nat
<1>1. PICK T : T = {s \in Nat : x < s * s}
  OBVIOUS
<1>2. x + 1 \in T
  <2>1. (x + 1) * (x + 1) = x * x + 2 * x + 1 /\ x * x \in Nat
    OBVIOUS
  <2>2. x < (x + 1) * (x + 1)
    BY <2>1
  <2> QED BY <1>1, <2>2
<1>3. PICK s \in T : \A m \in T : s <= m
  <2>1. T \in SUBSET Nat /\ T # {}
    BY <1>1, <1>2
  <2> QED BY <2>1, LeastNumber
<1>4. s \in Nat /\ x < s * s /\ s # 0
  BY <1>1, <1>3
<1>5. PICK r \in Nat : s = r + 1
  <2>1. s - 1 \in Nat /\ s = (s - 1) + 1
    BY <1>4
  <2> QED BY <2>1
<1>6. r * r <= x
  <2>1. r \notin T
    BY <1>3, <1>5
  <2>2. r * r \in Nat
    OBVIOUS
  <2> QED BY <1>1, <2>1, <2>2
<1>7. r <= r * r
  <2>1. CASE r = 0
    BY <2>1
  <2>2. CASE r # 0
    <3>1. PICK q \in Nat : r = q + 1
      <4>1. r - 1 \in Nat /\ r = (r - 1) + 1
        BY <2>2
      <4> QED BY <4>1
    <3>2. r * r = q * q + 2 * q + 1 /\ q * q \in Nat
      BY <3>1
    <3> QED BY <3>1, <3>2
  <2> QED BY <2>1, <2>2
<1>8. r \in 0 .. x
  <2>1. r * r \in Nat
    OBVIOUS
  <2> QED BY <1>6, <1>7, <2>1
<1>9. r * r <= x /\ x < (r + 1) * (r + 1)
  BY <1>4, <1>5, <1>6
<1>10. Root(x) \in 0 .. x
  BY <1>8, <1>9 DEF Root
<1> QED BY <1>10

LEMMA WilsonIs ==
  ASSUME NEW n \in Nat \ {0}, NEW w \in 0 .. n PROVE WilsonLowerBound(n, w) \in Int
<1>1. PICK d \in Nat : d = n - w
  <2>1. n - w \in Nat
    OBVIOUS
  <2> QED BY <2>1
<1>2. PICK x : x = 4 * w * (n - w) * 1000000
  OBVIOUS
<1>3. x \in Nat
  <2>1. w \in Nat /\ w * d \in Nat
    BY <1>1
  <2>2. 4 * w * d \in Nat
    BY <2>1
  <2> QED BY <1>1, <1>2, <2>2
<1>4. x \div n \in Nat
  BY <1>3
<1>5. PICK root \in Nat : root = Root(x \div n + 3841600)
  BY <1>4, RootIs
<1>6. PICK y \in Int : y = (2000 * w + 3842) * 1000 - 1960 * root
  OBVIOUS
<1>7. y \div (2000 * n + 7683) \in Int
  BY <1>6
<1> QED BY <1>2, <1>5, <1>6, <1>7 DEF WilsonLowerBound

LEMMA LowerBoundIs ==
  ASSUME NEW s, s.samples \in Nat \ {0}, s.wins \in 0 .. s.samples
  PROVE  LowerBound(s) \in Int
<1>1. CASE s.samples \in 1 .. MaxSamples
  <2>1. BoundTable[s.samples][s.wins] = WilsonLowerBound(s.samples, s.wins)
    BY <1>1 DEF BoundTable
  <2> QED BY <1>1, <2>1, WilsonIs DEF LowerBound
<1>2. CASE s.samples \notin 1 .. MaxSamples
  BY <1>2, WilsonIs DEF LowerBound
<1> QED BY <1>1, <1>2

(* A row that is read is one of some packet.                               *)
LEMMA RowsRead ==
  ASSUME FilesTyped, NEW kd \in IngestKinds, NEW t, t = ReadKind(kd), NEW i \in 1 .. Len(t)
  PROVE  t[i].row.kind = kd /\ \E k \in Packets : RowOK(t[i].row, k)
<1>1. t[i] \in AllEvents(kd)
  BY ReadIs
<1>2. PICK k \in Packets : t[i] \in EventsOf(k) /\ t[i].row.kind = kd
  BY <1>1, AllAre
<1>3. PICK e \in EventsOf(k) : e = t[i]
  BY <1>2
<1>4. RowOK(e.row, k)
  BY EventIs
<1> QED BY <1>2, <1>3, <1>4

ScoreOK(s, class) ==
  /\ s.role \in {"builder", "reviewer"} /\ s.model \in Nat
  /\ s.samples \in Nat /\ s.wins \in 0 .. s.samples
  /\ s.samples # 0 => IF s.role = "builder" THEN \E k \in Packets : Packet[k].class = class
                      ELSE \E k \in Packets : Packet[k].reviewClass = class

LEMMA SetsCount ==
  ASSUME NEW S, IsFiniteSet(S), NEW T \in SUBSET S
  PROVE  Cardinality(S) \in Nat /\ Cardinality(T) \in 0 .. Cardinality(S)
         /\ (Cardinality(S) # 0 => S # {})
<1>1. IsFiniteSet(T) /\ Cardinality(T) <= Cardinality(S)
  BY FS_Subset
<1>2. Cardinality(S) \in Nat /\ Cardinality(T) \in Nat
  BY <1>1, FS_CardinalityType
<1>3. Cardinality(S) # 0 => S # {}
  BY FS_EmptySet
<1> QED BY <1>1, <1>2, <1>3

LEMMA BuilderScoreIs ==
  ASSUME FilesTyped, NEW class, NEW model \in ModelsIn(ReadKind("worker_run"))
  PROVE  /\ ScoreOK(BuilderScore(class, model), class)
         /\ BuilderScore(class, model).role = "builder" /\ BuilderScore(class, model).model = model
<1>1. PICK t : t = ReadKind("worker_run")
  OBVIOUS
<1>2. "worker_run" \in IngestKinds
  BY DEF IngestKinds, EventKinds
<1>3. PICK n \in Nat : n = Len(t)
  BY <1>1, <1>2, ReadIs
<1>4. ASSUME NEW i \in 1 .. n
      PROVE  t[i].row.model \in Keys /\ \E k \in Packets : t[i].row.class = Packet[k].class
  <2>1. t[i].row.kind = "worker_run" /\ \E k \in Packets : RowOK(t[i].row, k)
    BY <1>1, <1>2, <1>3, RowsRead
  <2> QED BY <2>1 DEF RowOK
<1>5. model \in Nat
  <2>1. PICK i \in 1 .. n : model = t[i].row.model /\ model # Absent
    BY <1>1, <1>3 DEF ModelsIn
  <2> QED BY <1>4, <2>1 DEF Keys
<1>6. PICK own : own = {i \in 1 .. n : t[i].row.class = class /\ t[i].row.model = model}
  OBVIOUS
<1>7. PICK won : won = {i \in own : t[i].row.outcome = "selected"}
  OBVIOUS
<1>8. PICK m : m = [i \in 1 .. n |-> t[i].row.packet]
  OBVIOUS
<1>9. PICK S, T : S = {m[i] : i \in own} /\ T = {m[i] : i \in won}
  OBVIOUS
<1>10. S = {t[i].row.packet : i \in own} /\ T = {t[i].row.packet : i \in won}
  BY <1>6, <1>7, <1>8, <1>9
<1>11. IsFiniteSet(S) /\ T \in SUBSET S
  <2>1. own \in SUBSET (1 .. n) /\ IsFiniteSet(1 .. n)
    BY <1>6, FS_Interval
  <2>2. IsFiniteSet(own)
    BY <2>1, FS_Subset
  <2>3. IsFiniteSet(S)
    BY <1>9, <2>2, ImageFinite
  <2> QED BY <1>7, <1>9, <2>3
<1>12. PICK b : b = BuilderScore(class, model)
  OBVIOUS
<1>13. b = [role |-> "builder", model |-> model, samples |-> Cardinality(S), wins |-> Cardinality(T)]
  BY <1>1, <1>3, <1>6, <1>7, <1>10, <1>12 DEF BuilderScore
<1>14. /\ Cardinality(S) \in Nat /\ Cardinality(T) \in 0 .. Cardinality(S)
       /\ (Cardinality(S) # 0 => S # {})
  BY <1>11, SetsCount
<1>15. S # {} => \E k \in Packets : Packet[k].class = class
  <2>1. ASSUME S # {} PROVE \E k \in Packets : Packet[k].class = class
    <3>1. PICK i \in own : TRUE
      BY <1>9, <2>1
    <3>2. i \in 1 .. n /\ t[i].row.class = class
      BY <1>6
    <3> QED BY <1>4, <3>2
  <2> QED BY <2>1
<1>16. ScoreOK(b, class)
  <2>1. b.role = "builder" /\ b.model = model /\ b.samples = Cardinality(S) /\ b.wins = Cardinality(T)
    BY <1>13
  <2> QED BY <1>5, <1>14, <1>15, <2>1 DEF ScoreOK
<1> QED BY <1>12, <1>13, <1>16

LEMMA ReviewerScoreIs ==
  ASSUME FilesTyped, NEW class, NEW model \in ModelsIn(ReadKind("model_event"))
  PROVE  /\ ScoreOK(ReviewerScore(class, model), class)
         /\ ReviewerScore(class, model).role = "reviewer" /\ ReviewerScore(class, model).model = model
<1>1. PICK t : t = ReadKind("model_event")
  OBVIOUS
<1>2. "model_event" \in IngestKinds
  BY DEF IngestKinds, EventKinds
<1>3. PICK n \in Nat : n = Len(t)
  BY <1>1, <1>2, ReadIs
<1>4. ASSUME NEW i \in 1 .. n
      PROVE  /\ t[i].row.model \in Keys /\ t[i].row.total \in Nat
             /\ t[i].row.ok \in 0 .. t[i].row.total
             /\ t[i].row.role = "reviewer" =>
                  \E k \in Packets : t[i].row.class = Packet[k].reviewClass
  <2>1. t[i].row.kind = "model_event" /\ \E k \in Packets : RowOK(t[i].row, k)
    BY <1>1, <1>2, <1>3, RowsRead
  <2> QED BY <2>1 DEF RowOK
<1>5. model \in Nat
  <2>1. PICK i \in 1 .. n : model = t[i].row.model /\ model # Absent
    BY <1>1, <1>3 DEF ModelsIn
  <2> QED BY <1>4, <2>1 DEF Keys
<1>6. PICK own : own = {i \in 1 .. n : /\ t[i].row.role = "reviewer"
                                       /\ t[i].row.class = class /\ t[i].row.model = model}
  OBVIOUS
<1>7. PICK m, v : /\ m = [i \in 1 .. n |-> {i} \X (1 .. t[i].row.total)]
                  /\ v = [i \in 1 .. n |-> {i} \X (1 .. t[i].row.ok)]
  OBVIOUS
<1>8. PICK S, T : S = UNION {m[i] : i \in own} /\ T = UNION {v[i] : i \in own}
  OBVIOUS
<1>9. /\ S = UNION {{i} \X (1 .. t[i].row.total) : i \in own}
      /\ T = UNION {{i} \X (1 .. t[i].row.ok) : i \in own}
  BY <1>6, <1>7, <1>8
<1>10. IsFiniteSet(S)
  <2>1. own \in SUBSET (1 .. n) /\ IsFiniteSet(1 .. n)
    BY <1>6, FS_Interval
  <2>2. IsFiniteSet(own)
    BY <2>1, FS_Subset
  <2>3. IsFiniteSet({m[i] : i \in own})
    BY <2>2, ImageFinite
  <2>4. ASSUME NEW i \in own PROVE IsFiniteSet(m[i])
    <3>1. PICK j \in Nat : j = t[i].row.total
      BY <1>4, <2>1
    <3>2. IsFiniteSet({i})
      BY FS_Singleton
    <3>3. IsFiniteSet(1 .. j)
      BY FS_Interval
    <3>4. IsFiniteSet({i} \X (1 .. j))
      BY <3>2, <3>3, FS_Product
    <3> QED BY <1>7, <2>1, <3>1, <3>4
  <2>5. \A x \in {m[i] : i \in own} : IsFiniteSet(x)
    BY <2>4
  <2> QED BY <1>8, <2>3, <2>5, FS_UNION
<1>11. T \in SUBSET S
  <2>1. ASSUME NEW i \in own PROVE v[i] \subseteq m[i]
    <3>1. i \in 1 .. n
      BY <1>6
    <3>2. t[i].row.total \in Nat /\ t[i].row.ok \in 0 .. t[i].row.total
      BY <1>4, <3>1
    <3>3. 1 .. t[i].row.ok \subseteq 1 .. t[i].row.total
      BY <3>2
    <3> QED BY <1>7, <3>1, <3>3
  <2> QED BY <1>8, <2>1
<1>12. PICK b : b = ReviewerScore(class, model)
  OBVIOUS
<1>13. b = [role |-> "reviewer", model |-> model, samples |-> Cardinality(S), wins |-> Cardinality(T)]
  BY <1>1, <1>3, <1>6, <1>9, <1>12 DEF ReviewerScore
<1>14. /\ Cardinality(S) \in Nat /\ Cardinality(T) \in 0 .. Cardinality(S)
       /\ (Cardinality(S) # 0 => S # {})
  BY <1>10, <1>11, SetsCount
<1>15. S # {} => \E k \in Packets : Packet[k].reviewClass = class
  <2>1. ASSUME S # {} PROVE \E k \in Packets : Packet[k].reviewClass = class
    <3>1. PICK i \in own : TRUE
      BY <1>8, <2>1
    <3>2. i \in 1 .. n /\ t[i].row.class = class /\ t[i].row.role = "reviewer"
      BY <1>6
    <3> QED BY <1>4, <3>2
  <2> QED BY <2>1
<1>16. ScoreOK(b, class)
  <2>1. b.role = "reviewer" /\ b.model = model /\ b.samples = Cardinality(S) /\ b.wins = Cardinality(T)
    BY <1>13
  <2> QED BY <1>5, <1>14, <1>15, <2>1 DEF ScoreOK
<1> QED BY <1>12, <1>13, <1>16

(* A class that is built is none that is reviewed: what has samples for it *)
(* is all of one role, and each model has one score.                       *)
LEMMA ScoresAre ==
  ASSUME FilesTyped, NEW class
  PROVE  /\ IsFiniteSet(Scores(class))
         /\ \A s \in Scores(class) : ScoreOK(s, class)
         /\ \A s, t \in Scores(class) :
              s.samples # 0 /\ t.samples # 0 /\ s.model = t.model => s = t
<1>1. PICK M, N : M = ModelsIn(ReadKind("worker_run")) /\ N = ModelsIn(ReadKind("model_event"))
  OBVIOUS
<1>2. PICK f, g : /\ f = [x \in M |-> BuilderScore(class, x)]
                  /\ g = [x \in N |-> ReviewerScore(class, x)]
  OBVIOUS
<1>3. PICK A, B : A = {f[x] : x \in M} /\ B = {g[x] : x \in N}
  OBVIOUS
<1>4. Scores(class) = A \cup B
  BY <1>1, <1>2, <1>3 DEF Scores
<1>5. ASSUME NEW kd \in IngestKinds PROVE IsFiniteSet(ModelsIn(ReadKind(kd)))
  <2>1. PICK t : t = ReadKind(kd)
    OBVIOUS
  <2>2. PICK n \in Nat : n = Len(t)
    BY <2>1, ReadIs
  <2>3. PICK m : m = [i \in 1 .. n |-> t[i].row.model]
    OBVIOUS
  <2>4. IsFiniteSet({m[i] : i \in 1 .. n})
    <3>1. IsFiniteSet(1 .. n)
      BY FS_Interval
    <3> QED BY <3>1, ImageFinite
  <2>5. ModelsIn(t) \subseteq {m[i] : i \in 1 .. n}
    BY <2>2, <2>3 DEF ModelsIn
  <2> QED BY <2>1, <2>4, <2>5, FS_Subset
<1>6. IsFiniteSet(A) /\ IsFiniteSet(B)
  <2>1. IsFiniteSet(M) /\ IsFiniteSet(N)
    BY <1>1, <1>5 DEF IngestKinds, EventKinds
  <2> QED BY <1>3, <2>1, ImageFinite
<1>7. IsFiniteSet(A \cup B)
  BY <1>6, FS_Union
<1>8. ASSUME NEW x \in M
      PROVE  ScoreOK(f[x], class) /\ f[x].role = "builder" /\ f[x].model = x
  BY <1>1, <1>2, BuilderScoreIs
<1>9. ASSUME NEW x \in N
      PROVE  ScoreOK(g[x], class) /\ g[x].role = "reviewer" /\ g[x].model = x
  BY <1>1, <1>2, ReviewerScoreIs
<1>10. \A s \in A \cup B : ScoreOK(s, class)
  BY <1>3, <1>8, <1>9
<1>11. ASSUME NEW s \in A, NEW t \in B, s.samples # 0, t.samples # 0 PROVE FALSE
  <2>1. s.role = "builder" /\ t.role = "reviewer" /\ ScoreOK(s, class) /\ ScoreOK(t, class)
    BY <1>3, <1>8, <1>9
  <2>2. PICK k \in Packets : Packet[k].class = class
    BY <1>11, <2>1 DEF ScoreOK
  <2>3. PICK j \in Packets : Packet[j].reviewClass = class
    BY <1>11, <2>1 DEF ScoreOK
  <2> QED BY <2>2, <2>3, PacketAssumption
<1>12. ASSUME NEW s \in A, NEW t \in A, s.model = t.model PROVE s = t
  BY <1>3, <1>8, <1>12
<1>13. ASSUME NEW s \in B, NEW t \in B, s.model = t.model PROVE s = t
  BY <1>3, <1>9, <1>13
<1>14. ASSUME NEW s \in A \cup B, NEW t \in A \cup B,
              s.samples # 0, t.samples # 0, s.model = t.model
       PROVE  s = t
  <2>1. CASE s \in A /\ t \in A
    BY <1>12, <1>14, <2>1
  <2>2. CASE s \in B /\ t \in B
    BY <1>13, <1>14, <2>2
  <2>3. CASE s \in A /\ t \in B
    BY <1>11, <1>14, <2>3
  <2>4. CASE s \in B /\ t \in A
    BY <1>11, <1>14, <2>4
  <2> QED BY <2>1, <2>2, <2>3, <2>4
<1> QED BY <1>4, <1>7, <1>10, <1>14

(* The evidence names no model twice.                                      *)
LEMMA EvidenceIs ==
  ASSUME FilesTyped, NEW class, NEW ev, ev = Evidence(class)
  PROVE  /\ Len(ev) \in Nat /\ (Len(ev) = 0 <=> ev = <<>>)
         /\ \A i \in 1 .. Len(ev) : ev[i].model \in Nat
         /\ \A i, j \in 1 .. Len(ev) : ev[i].model = ev[j].model => i = j
<1>1. PICK S : S = {s \in Scores(class) : s.samples >= MinSamples}
  OBVIOUS
<1>2. PICK R : R = {q \in S \X S : Better(q[1], q[2])}
  OBVIOUS
<1>3. IsFiniteSet(S)
  <2>1. IsFiniteSet(Scores(class))
    BY ScoresAre
  <2> QED BY <1>1, <2>1, FS_Subset
<1>4. ASSUME NEW s \in S
      PROVE  /\ s \in Scores(class) /\ s.samples # 0 /\ LowerBound(s) \in Int
             /\ s.role \in {"builder", "reviewer"} /\ s.model \in Nat
  <2>1. s \in Scores(class) /\ s.samples >= MinSamples
    BY <1>1
  <2>2. ScoreOK(s, class)
    BY <2>1, ScoresAre
  <2>3. s.samples \in Nat \ {0}
    BY <2>1, <2>2, QualityAssumption DEF ScoreOK
  <2> QED BY <2>1, <2>2, <2>3, LowerBoundIs DEF ScoreOK
<1>5. ASSUME NEW s \in S, NEW t \in S, s.model = t.model PROVE s = t
  BY <1>4, <1>5, ScoresAre
<1>6. \A s, t \in S : <<s, t>> \in R <=> Better(s, t)
  BY <1>2
<1>7. StrictTotal(S, R)
  <2>1. ASSUME NEW s \in S PROVE <<s, s>> \notin R
    BY <1>4, <1>6 DEF Better
  <2>2. ASSUME NEW s \in S, NEW t \in S, s # t PROVE <<s, t>> \in R \/ <<t, s>> \in R
    <3>1. s.model # t.model
      BY <1>5, <2>2
    <3> QED BY <1>4, <1>6, <3>1 DEF Better
  <2>3. ASSUME NEW s \in S, NEW t \in S, NEW u \in S, <<s, t>> \in R, <<t, u>> \in R
        PROVE  <<s, u>> \in R
    <3>1. Better(s, t) /\ Better(t, u)
      BY <1>6, <2>3
    <3>2. PICK a, b, c : a = LowerBound(s) /\ b = LowerBound(t) /\ c = LowerBound(u)
      OBVIOUS
    <3>3. a \in Int /\ b \in Int /\ c \in Int
      BY <1>4, <3>2
    <3>4. Better(s, u)
      BY <1>4, <3>1, <3>2, <3>3 DEF Better
    <3> QED BY <1>6, <3>4
  <2> QED BY <2>1, <2>2, <2>3 DEF StrictTotal
<1>8. ev = InOrder(S, R)
  BY <1>1, <1>2 DEF Evidence
<1>9. PICK n \in Nat : n = Cardinality(S)
  BY <1>3, FS_CardinalityType
<1>10. /\ ev \in [1 .. n -> S]
       /\ \A i, j \in 1 .. n : ev[i] = ev[j] => i = j
  BY <1>3, <1>7, <1>8, <1>9, InOrderIs
<1>11. ev \in Seq(S) /\ Len(ev) = n
  BY <1>10
<1>12. Len(ev) = 0 <=> ev = <<>>
  BY <1>11
<1>13. \A i \in 1 .. n : ev[i].model \in Nat
  BY <1>4, <1>10
<1>14. \A i, j \in 1 .. n : ev[i].model = ev[j].model => i = j
  BY <1>5, <1>10
<1> QED BY <1>11, <1>12, <1>13, <1>14

-----------------------------------------------------------------------------
(* What was followed: the primary of an applied class is the model that    *)
(* ranks first on the evidence there is.                                   *)

Ranked(class) ==
  /\ Evidence(class) # <<>> /\ policy[class] # <<>>
  /\ Head(policy[class]) = Evidence(class)[1].model

AppliedInv ==
  /\ applied \subseteq Classes
  /\ policy \in [Classes -> Seq(Nat)]
  /\ \A class \in applied : Ranked(class)

(* The evidence is drawn from the runs and the model events alone.         *)
LEMMA EvidenceStays ==
  ASSUME files'["worker_run"] = files["worker_run"],
         files'["model_event"] = files["model_event"], NEW class
  PROVE  Evidence(class)' = Evidence(class)
<1>1. /\ ReadKind("worker_run")' = ReadKind("worker_run")
      /\ ReadKind("model_event")' = ReadKind("model_event")
  BY DEF ReadKind
<1>2. \A model : /\ BuilderScore(class, model)' = BuilderScore(class, model)
                 /\ ReviewerScore(class, model)' = ReviewerScore(class, model)
  <2>1. \A model : BuilderScore(class, model)' = BuilderScore(class, model)
    BY <1>1 DEF BuilderScore
  <2>2. \A model : ReviewerScore(class, model)' = ReviewerScore(class, model)
    <3>1. PICK t : t = ReadKind("model_event")
      OBVIOUS
    <3>2. ReadKind("model_event")' = t
      BY <1>1, <3>1
    <3> SUFFICES ASSUME NEW model
                 PROVE  ReviewerScore(class, model)' = ReviewerScore(class, model)
      OBVIOUS
    <3>3. PICK own : own = {i \in 1 .. Len(t) : /\ t[i].row.role = "reviewer"
                                                /\ t[i].row.class = class
                                                /\ t[i].row.model = model}
      OBVIOUS
    <3>4. PICK S, T : /\ S = UNION {{i} \X (1 .. t[i].row.total) : i \in own}
                      /\ T = UNION {{i} \X (1 .. t[i].row.ok) : i \in own}
      OBVIOUS
    <3>5. ReviewerScore(class, model) = [role |-> "reviewer", model |-> model,
                                         samples |-> Cardinality(S), wins |-> Cardinality(T)]
      BY <3>1, <3>3, <3>4 DEF ReviewerScore
    <3>6. ReviewerScore(class, model)' = [role |-> "reviewer", model |-> model,
                                          samples |-> Cardinality(S), wins |-> Cardinality(T)]
      BY <3>2, <3>3, <3>4, ZenonT(20) DEF ReviewerScore
    <3> QED BY <3>5, <3>6
  <2> QED BY <2>1, <2>2
<1>3. Scores(class)' = Scores(class)
  BY <1>1, <1>2 DEF Scores
<1> QED BY <1>3 DEF Evidence

LEMMA RankedStays ==
  ASSUME AppliedInv, files'["worker_run"] = files["worker_run"],
         files'["model_event"] = files["model_event"], UNCHANGED <<policy, applied>>
  PROVE  AppliedInv'
<1>1. ASSUME NEW class \in applied PROVE Ranked(class)'
  <2>1. Evidence(class)' = Evidence(class)
    BY EvidenceStays
  <2> QED BY <2>1 DEF AppliedInv, Ranked
<1> QED BY <1>1 DEF AppliedInv

(* What the operator may apply is the model that ranks first.              *)
LEMMA AdviceIs ==
  ASSUME NEW class, NEW advice, advice = RecommendPolicy(class),
         advice.action \in {"promote_alternate", "add_candidate"}
  PROVE  Evidence(class) # <<>> /\ advice.model = Evidence(class)[1].model
<1>1. PICK ev : ev = Evidence(class)
  OBVIOUS
<1> QED BY <1>1 DEF RecommendPolicy, Advice

LEMMA ApplyRanks ==
  ASSUME FilesTyped, AppliedInv, NEW class \in Classes, Apply(class) PROVE AppliedInv'
<1>1. PICK advice : advice = RecommendPolicy(class)
  OBVIOUS
<1>2. PICK m, ev : m = advice.model /\ ev = Evidence(class)
  OBVIOUS
<1>3. ev # <<>> /\ m = ev[1].model
  <2>1. advice.action \in {"promote_alternate", "add_candidate"}
    BY <1>1 DEF Apply
  <2> QED BY <1>1, <1>2, <2>1, AdviceIs
<1>4. m \in Nat
  <2>1. Len(ev) \in Nat /\ Len(ev) # 0 /\ \A i \in 1 .. Len(ev) : ev[i].model \in Nat
    BY <1>2, <1>3, EvidenceIs
  <2> QED BY <1>3, <2>1
<1>5. PICK s \in Seq(Nat) : s = policy[class]
  BY DEF AppliedInv
<1>6. PICK I : I = {i \in 1 .. Len(s) : s[i] # m}
  OBVIOUS
<1>7. PICK others : others = Keep(s, I)
  OBVIOUS
<1>8. others \in Seq(Nat)
  <2>1. IsFiniteSet(I) /\ I \subseteq 1 .. Len(s) /\ I \subseteq Int
    <3>1. PICK n \in Nat : n = Len(s)
      OBVIOUS
    <3>2. IsFiniteSet(1 .. n)
      BY FS_Interval
    <3> QED BY <1>6, <3>1, <3>2, FS_Subset
  <2>2. PICK c \in Nat : c = Cardinality(I)
    BY <2>1, FS_CardinalityType
  <2>3. PICK at : at = Places(I)
    OBVIOUS
  <2>4. at \in [1 .. c -> I] /\ others = [n \in 1 .. c |-> s[at[n]]]
    <3>1. Lists(at, I) /\ others = [n \in 1 .. Cardinality(I) |-> s[Places(I)[n]]]
      BY <1>7, <2>1, <2>3, KeepIs
    <3> QED BY <2>2, <2>3, <3>1 DEF Lists
  <2>5. ASSUME NEW n \in 1 .. c PROVE s[at[n]] \in Nat
    <3>1. at[n] \in 1 .. Len(s)
      BY <2>1, <2>4
    <3> QED BY <3>1
  <2> QED BY <2>2, <2>4, <2>5
<1>9. PICK new : new = <<m>> \o others
  OBVIOUS
<1>10. new \in Seq(Nat) /\ new # <<>> /\ Head(new) = m
  <2>1. <<m>> \in Seq(Nat) /\ Len(<<m>>) = 1 /\ <<m>>[1] = m
    BY <1>4
  <2>2. new \in Seq(Nat) /\ Len(new) = 1 + Len(others) /\ new[1] = m
    BY <1>8, <1>9, <2>1
  <2> QED BY <1>8, <2>2
<1>11. policy' = [policy EXCEPT ![class] = new] /\ applied' = applied \cup {class} /\ files' = files
  BY <1>1, <1>2, <1>5, <1>6, <1>7, <1>9 DEF Apply
<1>12. policy' \in [Classes -> Seq(Nat)] /\ policy'[class] = new
  BY <1>10, <1>11 DEF AppliedInv
<1>13. applied' \subseteq Classes
  BY <1>11 DEF AppliedInv
<1>14. ASSUME NEW c \in applied' PROVE Ranked(c)'
  <2>1. Evidence(c)' = Evidence(c)
    BY <1>11, EvidenceStays
  <2>2. CASE c = class
    BY <1>2, <1>3, <1>10, <1>12, <2>1, <2>2 DEF Ranked
  <2>3. CASE c # class
    <3>1. Ranked(c) /\ policy'[c] = policy[c]
      BY <1>11, <2>3 DEF AppliedInv
    <3> QED BY <2>1, <3>1 DEF Ranked
  <2> QED BY <2>2, <2>3
<1> QED BY <1>12, <1>13, <1>14 DEF AppliedInv

LEMMA AppliedHolds == Spec => []AppliedInv
<1>1. Init => AppliedInv
  BY QualityAssumption DEF Init, AppliedInv
<1>2. StoreInv /\ AppliedInv /\ [Next]_vars => AppliedInv'
  <2> SUFFICES ASSUME StoreInv, AppliedInv, [Next]_vars PROVE AppliedInv'
    OBVIOUS
  <2>1. ASSUME NEW p \in Procs, NEW k \in Packets, NEW skip \in BOOLEAN, Orchestrate(p, k, skip)
        PROVE  AppliedInv'
    BY <2>1, RankedStays DEF Orchestrate
  <2>2. ASSUME NEW p \in Procs, NEW k \in Packets, NEW force \in BOOLEAN, Ingest(p, k, force)
        PROVE  AppliedInv'
    BY <2>2, RankedStays DEF Ingest
  <2>3. ASSUME NEW p \in Procs, CheckIndex(p) PROVE AppliedInv'
    BY <2>3, RankedStays DEF CheckIndex
  <2>12. ASSUME NEW p \in Procs, ScanRuns(p) PROVE AppliedInv'
    BY <2>12, RankedStays DEF ScanRuns
  <2>13. ASSUME NEW p \in Procs, Backfill(p) PROVE AppliedInv'
    BY <2>13, RankedStays DEF Backfill
  <2>4. ASSUME NEW p \in Procs, AppendBegin(p) PROVE AppliedInv'
    BY <2>4, RankedStays DEF AppendBegin
  <2>5. ASSUME NEW p \in Procs, AppendRow(p) PROVE AppliedInv'
    BY <2>5 DEF AppendRow, AppliedInv
  <2>6. ASSUME NEW p \in Procs, AppendComplete(p) PROVE AppliedInv'
    BY <2>6, RankedStays DEF AppendComplete
  <2>7. ASSUME NEW p \in Procs, Die(p) PROVE AppliedInv'
    BY <2>7, RankedStays DEF Die
  <2>8. ASSUME NEW k \in Packets, LoseReview(k) PROVE AppliedInv'
    BY <2>8, RankedStays DEF LoseReview
  <2>9. ASSUME NEW d \in Decisions, NEW k \in ended \cup {Absent}, NEW b \in 0 .. 2, Mark(d, k, b)
        PROVE  AppliedInv'
    <3>1. PICK e : files' = [files EXCEPT !["human_decision"] = Append(@, e)]
      BY <2>9 DEF Mark
    <3>2. files = [kd \in EventKinds |-> files[kd]]
      BY DEF StoreInv, FilesTyped
    <3>3. /\ files'["worker_run"] = files["worker_run"]
          /\ files'["model_event"] = files["model_event"]
      BY <3>1, <3>2 DEF EventKinds
    <3> QED BY <2>9, <3>3, RankedStays DEF Mark
  <2>10. ASSUME NEW class \in Classes, Apply(class) PROVE AppliedInv'
    BY <2>10, ApplyRanks DEF StoreInv
  <2>11. CASE UNCHANGED vars
    BY <2>11, RankedStays DEF vars
  <2> QED BY <2>1, <2>2, <2>3, <2>4, <2>5, <2>6, <2>7, <2>8, <2>9, <2>10, <2>11,
            <2>12, <2>13 DEF Next
<1> QED BY <1>1, <1>2, StoreHolds, PTL DEF Spec

(* RecommendPolicy: once its advice was followed and until a row is        *)
(* appended, the primary ranks first, so it is neither demoted nor         *)
(* replaced, whatever the bounds come to and however many models there     *)
(* are.                                                                    *)
THEOREM AdviceAlwaysSettles == Spec => []AdviceSettles
<1>1. StoreInv /\ AppliedInv => AdviceSettles
  <2> SUFFICES ASSUME StoreInv, AppliedInv, NEW class \in applied
               PROVE  RecommendPolicy(class).action \in {"none", "warn_thin_primary"}
    BY DEF AdviceSettles
  <2>1. PICK ev, m : ev = Evidence(class) /\ m = Primary(class)
    OBVIOUS
  <2>2. PICK s \in Seq(Nat) : s = policy[class] /\ s # <<>> /\ Head(s) = ev[1].model /\ ev # <<>>
    BY <2>1 DEF AppliedInv, Ranked
  <2>3. m = ev[1].model
    BY <2>1, <2>2 DEF Primary
  <2>4. m \in Listed(class)
    <3>1. 1 \in 1 .. Len(s) /\ s[1] = Head(s)
      BY <2>2
    <3> QED BY <2>2, <2>3, <3>1 DEF Listed
  <2>5. ~RanksLast(class, ev)
    <3>1. /\ Len(ev) \in Nat
          /\ \A i, j \in 1 .. Len(ev) : ev[i].model = ev[j].model => i = j
      BY <2>1, EvidenceIs DEF StoreInv
    <3>2. PICK n \in Nat : n = Len(ev)
      BY <3>1
    <3>3. n > 1 => ev[n].model # ev[1].model
      BY <3>1, <3>2
    <3> QED BY <2>1, <2>3, <3>2, <3>3 DEF RanksLast
  <2>6. ev[1].model \notin Listed(class) \ {m} /\ ev[1].model \in Listed(class)
    BY <2>3, <2>4
  <2>7. \/ RecommendPolicy(class) = Advice("none", m)
        \/ RecommendPolicy(class) = Advice("warn_thin_primary", m)
    BY <2>1, <2>2, <2>5, <2>6 DEF RecommendPolicy
  <2> QED BY <2>7 DEF Advice
<1> QED BY <1>1, StoreHolds, AppliedHolds, PTL

=============================================================================
