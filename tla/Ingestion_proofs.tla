-------------------------- MODULE Ingestion_proofs ---------------------------
(***************************************************************************)
(* Proofs about the daemon, the operator's process and the life cycles,    *)
(* for any jobs, families, artifacts and parsers.                          *)
(*                                                                         *)
(* IInv is inductive.  What holds it together: the daemon has writer.lock  *)
(* from the begin of a tick to its end, so nobody recovers its claim; a    *)
(* run belongs to one process for ever; and what the store has of a run is *)
(* exactly what its process has done so far.  The steps are grouped by what*)
(* they change: a process alone (LocalStep), a job that is closed          *)
(* (FinishStep), or what is stored of a run (StoreStep).                   *)
(***************************************************************************)
EXTENDS Ingestion, SequenceTheorems, TLAPS

USE IngestionAssumption, NoneAssumption

LEMMA AttemptNat == ASSUME NEW n \in Attempt PROVE n \in Nat /\ n >= 1
<1>1. PICK j \in Job : n \in 1 .. MaxAttempts[j]
  BY DEF Attempt
<1> QED BY <1>1

(* The roles under which a life cycle saves its artifacts: one for each,   *)
(* the result in the last place only, and all that an observation cites.   *)
LEMMA IngestFacts ==
  ASSUME NEW f \in Families, NEW n, Sized(f, n)
  PROVE  /\ n \in 1 .. 3
         /\ \A i \in 1 .. n :
               /\ Ingest(f, n)[i] \in Roles
               /\ Ingest(f, n)[i] \in {"primary", "postcode_query"} <=> i = n
         /\ \A role \in Cites(f) : \E i \in 1 .. n : Ingest(f, n)[i] = role
<1> USE DEF Sized, Capture, Replay, Ingest, Cites, Roles
<1>1. CASE f = "bank_rate"
  BY <1>1 DEF BankRateCapture, BankRateReplay, BankRateIngest, BankRateCites
<1>2. CASE f = "pld"
  BY <1>2 DEF PldCapture, FileReplay, PldIngest, PldCites
<1>3. CASE f = "macro"
  BY <1>3 DEF MacroCapture, MacroReplay, MacroIngest, MacroCites
<1>4. CASE f = "onspd"
  BY <1>4 DEF OnspdCapture, OnspdReplay, OnspdIngest, OnspdCites
<1>5. CASE f = "file"
  <2>1. n = 1 \/ n = 2
    BY <1>5 DEF FileCapture, FileReplay
  <2>2. Ingest(f, n) = FileIngest(n) /\ Cites(f) = {"primary"}
    BY <1>5 DEF FileCites
  <2>3. CASE n = 1
    BY <2>2, <2>3 DEF FileIngest
  <2>4. CASE n = 2
    <3>1. Ingest(f, n) = <<"discovery", "primary">>
      BY <2>2, <2>4 DEF FileIngest
    <3> QED BY <2>2, <2>4, <3>1
  <2> QED BY <2>1, <2>3, <2>4
<1>6. CASE f = "file_selected"
  <2>1. n = 1 \/ n = 3
    BY <1>6 DEF FileCapture, FileReplay
  <2>2. Ingest(f, n) = FileIngest(n) /\ Cites(f) = {"primary"}
    BY <1>6 DEF FileCites
  <2>3. CASE n = 1
    BY <2>2, <2>3 DEF FileIngest
  <2>4. CASE n = 3
    <3>1. Ingest(f, n) = <<"discovery", "supporting", "primary">>
      BY <2>2, <2>4 DEF FileIngest
    <3> QED BY <2>2, <2>4, <3>1
  <2> QED BY <2>1, <2>3, <2>4
<1> QED BY <1>1, <1>2, <1>3, <1>4, <1>5, <1>6 DEF Families

LEMMA CaptureLength ==
  ASSUME NEW f \in Families PROVE Len(Capture(f)) \in 1 .. 3
BY DEF Families, Capture, BankRateCapture, PldCapture, MacroCapture,
       OnspdCapture, FileCapture

(* Only jobs of the production lane ask for promotion.                     *)
LEMMA PromotionIsProduction ==
  ASSUME NEW j \in Job, AsksPromotion(j) PROVE j \in Production
BY DEF AsksPromotion, Families, BankRatePromote, PldPromote, MacroPromote,
       OnspdPromote, FilePromote

-----------------------------------------------------------------------------

JobRecord == [state : {"absent", "queued", "claimed", "running",
                       "retry_wait"} \cup Ended,
              attempts : {0} \cup Attempt,
              owner : Process \cup {None},
              lease : {"none", "live", "stale"}]

LEMMA JobFacts ==
  ASSUME IInv
  PROVE  /\ job \in [Job -> JobRecord]
         /\ \A j \in Job : job[j] \in JobRecord /\ job[j].attempts \in Nat
<1>1. job \in [Job -> JobRecord]
  BY DEF IInv, TypeOK, JobRecord
<1>2. \A j \in Job : job[j].attempts \in {0} \cup Attempt
  BY <1>1 DEF JobRecord
<1> QED BY <1>1, <1>2, AttemptNat

(* A process and what it carries.                                          *)
LEMMA ProcessFacts ==
  ASSUME IInv, NEW p \in Process
  PROVE  /\ proc[p] \in ProcessRecord
         /\ Shape(p, proc[p])
         /\ Contents(proc[p], evidence, observed, captured, objects)
         /\ proc[p].pc \notin Bare => /\ proc[p].job \in Job
                                      /\ Family[proc[p].job] \in Families
         /\ proc[p].pc \in HasRun => /\ proc[p].no \in Attempt
                                     /\ proc[p].no \in Nat
                                     /\ RunOf(p) \in Run
<1>1. /\ proc[p] \in ProcessRecord
      /\ Shape(p, proc[p])
      /\ Contents(proc[p], evidence, observed, captured, objects)
  BY DEF IInv, TypeOK, Shapes, ContentsAreExact
<1>2. ASSUME proc[p].pc \notin Bare
      PROVE  proc[p].job \in Job /\ Family[proc[p].job] \in Families
  BY <1>1, <1>2 DEF Shape, ProcessRecord
<1>3. ASSUME proc[p].pc \in HasRun
      PROVE  proc[p].no \in Attempt /\ proc[p].no \in Nat /\ RunOf(p) \in Run
  <2>1. proc[p].no \in Attempt /\ proc[p].job \in Job
    BY <1>1, <1>2, <1>3 DEF Shape, ProcessRecord, HasRun, Ingesting, Bare
  <2> QED BY <2>1, AttemptNat DEF RunOf, Run
<1> QED BY <1>1, <1>2, <1>3

-----------------------------------------------------------------------------
(* Steps of a process alone.                                               *)

StoreOK == /\ DataIsOfRuns /\ EvidenceIsBacked /\ ObservationsAreEvidenced
           /\ CapturesAreEvidence /\ ResultsAreComplete

LEMMA StoreUnchanged ==
  ASSUME StoreOK, UNCHANGED <<run, data>>
  PROVE  StoreOK'
<1>1. DataIsOfRuns' /\ EvidenceIsBacked' /\ ObservationsAreEvidenced'
      /\ CapturesAreEvidence'
  BY DEF data, StoreOK, DataIsOfRuns, EvidenceIsBacked, ObservationsAreEvidenced,
         CapturesAreEvidence
<1>2. ResultsAreComplete'
  BY DEF data, StoreOK, ResultsAreComplete, ResultOf
<1> QED BY <1>1, <1>2 DEF StoreOK

(* A process that stays with its run, or leaves a job that is not its own  *)
(* any more, that is stale, or that is noted as left behind.               *)
LEMMA LocalStep ==
  ASSUME IInv, NEW p \in Process, NEW new \in ProcessRecord,
         proc' = [proc EXCEPT ![p] = new], UNCHANGED <<job, run, data>>,
         writer' \in Process \cup {None}, orphaned' \subseteq Job,
         orphaned \subseteq orphaned', crashes' \in 0 .. MaxCrashes,
         Shape(p, new), WriterIsHeld',
         Contents(new, evidence, observed, captured, objects),
         new.pc # "claimed",
         new.pc \in HasRun => /\ proc[p].pc \in HasRun
                              /\ new.job = proc[p].job /\ new.no = proc[p].no,
         \/ new.job = proc[p].job
         \/ p = "operator"
         \/ proc[p].job \in Job =>
               \/ job[proc[p].job].owner # "daemon"
               \/ job[proc[p].job].lease = "stale"
               \/ proc[p].job \in orphaned'
  PROVE  IInv'
<1>1. TypeOK'
  BY DEF IInv, TypeOK, data
<1>2. Shapes'
  <2>1. ASSUME NEW q \in Process PROVE Shape(q, proc'[q])
    BY <2>1 DEF IInv, TypeOK, Shapes
  <2> QED BY <2>1 DEF Shapes
<1>3. JobsAreOwned' /\ RunsFollowJobs'
  BY DEF IInv, JobsAreOwned, RunsFollowJobs
<1>4. ClaimsAreKept'
  <2> USE DEF IInv, ClaimsAreKept
  <2>1. /\ proc'[p] = new
        /\ \A q \in Process : q # p => proc'[q] = proc[q]
    BY DEF TypeOK
  <2>2. proc'["daemon"].pc = "claimed" =>
          /\ job'[proc'["daemon"].job].state = "claimed"
          /\ job'[proc'["daemon"].job].owner = "daemon"
    BY <2>1 DEF Process
  <2>3. proc'["daemon"].pc \in HasRun => Owns("daemon")'
    BY <2>1 DEF Process, Owns
  <2>4. \A j \in Job : job'[j].owner = "daemon" =>
          job'[j].lease = "stale" \/ j \in orphaned' \/ proc'["daemon"].job = j
    BY <2>1 DEF Process
  <2>5. proc'["operator"].pc \in HasRun =>
          proc'["operator"].no <= job'[proc'["operator"].job].attempts
    BY <2>1 DEF Process
  <2>6. ASSUME NEW q \in Process, NEW s \in Process, q # s,
               proc'[q].pc \in HasRun, proc'[s].pc \in HasRun
        PROVE  RunOf(q)' # RunOf(s)'
    BY <2>1, <2>6 DEF RunOf
  <2> QED BY <2>2, <2>3, <2>4, <2>5, <2>6
<1>5. ContentsAreExact'
  <2>1. ASSUME NEW q \in Process
        PROVE  Contents(proc'[q], evidence, observed, captured, objects)
    BY DEF IInv, TypeOK, ContentsAreExact
  <2> QED BY <2>1 DEF ContentsAreExact, data
<1>6. StoreOK'
  BY StoreUnchanged DEF IInv, StoreOK
<1> QED BY <1>1, <1>2, <1>3, <1>4, <1>5, <1>6 DEF IInv, StoreOK

LEMMA IdleFacts ==
  /\ Idle \in ProcessRecord /\ Idle.pc = "idle" /\ Idle.job = None
  /\ Down \in ProcessRecord /\ Down.pc = "down" /\ Down.job = None
  /\ \A p \in Process : Shape(p, Idle)
  /\ Shape("daemon", Down)
  /\ Idle.no = 0 /\ Down.no = 0 /\ Idle.kept = 0 /\ Idle.taken = <<>>
<1>1. <<>> \in Seq(Content)
  OBVIOUS
<1>2. \A e \in Seq(Content) :
        LET q == [pc |-> "idle", job |-> None, no |-> 0, taken |-> e,
                  kept |-> 0, todo |-> {}]
        IN  /\ q \in ProcessRecord /\ q.pc = "idle" /\ q.job = None
            /\ q.no = 0 /\ q.kept = 0 /\ q.taken = e
  BY DEF ProcessRecord
<1>3. /\ Idle \in ProcessRecord /\ Idle.pc = "idle" /\ Idle.job = None
      /\ Idle.no = 0 /\ Idle.kept = 0 /\ Idle.taken = <<>>
  BY <1>1, <1>2, Zenon DEF Idle
<1>4. \A q \in ProcessRecord :
        /\ [q EXCEPT !.pc = "down"] \in ProcessRecord
        /\ [q EXCEPT !.pc = "down"].pc = "down"
        /\ [q EXCEPT !.pc = "down"].job = q.job
        /\ [q EXCEPT !.pc = "down"].no = q.no
        /\ [q EXCEPT !.pc = "down"].kept = q.kept
  BY DEF ProcessRecord
<1>5. /\ Down \in ProcessRecord /\ Down.pc = "down" /\ Down.job = None
      /\ Down.no = 0 /\ Down.kept = 0
  BY <1>3, <1>4 DEF Down
<1> QED BY <1>3, <1>5 DEF Shape, Bare, HasRun, Ingesting

(* A process ends, dies or starts again; the daemon's job, if it is still  *)
(* its own, is stale or noted as left behind.                              *)
LEMMA EndStep ==
  ASSUME IInv, NEW p \in Process, NEW new \in {Idle, Down},
         new = Down => p = "daemon",
         proc' = [proc EXCEPT ![p] = new], UNCHANGED <<job, run, data>>,
         writer' = IF writer = p THEN None ELSE writer,
         orphaned' \subseteq Job, orphaned \subseteq orphaned',
         crashes' \in 0 .. MaxCrashes,
         \/ p = "operator"
         \/ proc[p].job \in Job =>
               \/ job[proc[p].job].owner # "daemon"
               \/ job[proc[p].job].lease = "stale"
               \/ proc[p].job \in orphaned'
  PROVE  IInv'
<1>1. new \in ProcessRecord /\ Shape(p, new) /\ new.pc \in {"idle", "down"}
  BY IdleFacts
<1>2. Contents(new, evidence, observed, captured, objects)
  BY <1>1 DEF Contents, Writing, HasRun, Ingesting
<1>3. WriterIsHeld'
  <2>1. proc'[p] = new /\ \A q \in Process : q # p => proc'[q] = proc[q]
    BY DEF IInv, TypeOK
  <2> QED BY <1>1, <2>1 DEF IInv, TypeOK, WriterIsHeld, HasRun, Ingesting, Process
<1>4. writer' \in Process \cup {None}
  BY DEF IInv, TypeOK
<1>5. new.pc # "claimed" /\ new.pc \notin HasRun
  BY <1>1 DEF HasRun, Ingesting
<1> QED BY <1>1, <1>2, <1>3, <1>4, <1>5, LocalStep

(* A process that moves on has what it had.                                *)
LEMMA ContentsMoved ==
  ASSUME NEW a, NEW b, NEW ev, NEW ob, NEW cap, NEW files,
         Contents(a, ev, ob, cap, files),
         b.job = a.job, b.no = a.no, b.taken = a.taken, b.kept = a.kept,
         b.pc \notin {"observing", "publishing"},
         b.pc \in Writing => a.pc \in Writing \ {"observing"}
  PROVE  Contents(b, ev, ob, cap, files)
BY DEF Contents

(* A process moves on in its run and nothing else happens, except that the *)
(* operator's process drops writer.lock.                                   *)
LEMMA GotoStep ==
  ASSUME IInv, NEW p \in Process, NEW c \in HasRun \ {"publishing", "observing"},
         proc[p].pc \in HasRun, Goto(p, c), UNCHANGED <<job, run, data>>,
         writer' = IF p = "operator" /\ writer = p THEN None ELSE writer,
         UNCHANGED <<orphaned, crashes>>,
         Shape(p, [proc[p] EXCEPT !.pc = c]),
         c \in Writing => proc[p].pc \in Writing \ {"observing"}
  PROVE  IInv'
<1> DEFINE new == [proc[p] EXCEPT !.pc = c]
<1>1. /\ new \in ProcessRecord /\ new.pc = c /\ new.job = proc[p].job
      /\ new.no = proc[p].no /\ new.taken = proc[p].taken
      /\ new.kept = proc[p].kept
  <2>1. \A q \in ProcessRecord :
          LET m == [q EXCEPT !.pc = c]
          IN  /\ m \in ProcessRecord /\ m.pc = c /\ m.job = q.job
              /\ m.no = q.no /\ m.taken = q.taken /\ m.kept = q.kept
    BY DEF ProcessRecord, HasRun
  <2>2. proc[p] \in ProcessRecord
    BY ProcessFacts
  <2> QED BY <2>1, <2>2
<1>2. proc' = [proc EXCEPT ![p] = new] /\ Shape(p, new)
  BY DEF Goto, Set
<1> HIDE DEF new
<1>3. Contents(new, evidence, observed, captured, objects)
  BY <1>1, ProcessFacts, ContentsMoved
<1>4. WriterIsHeld'
  <2>1. proc'[p] = new /\ \A q \in Process : q # p => proc'[q] = proc[q]
    BY <1>2 DEF IInv, TypeOK
  <2>2. CASE p = "daemon"
    BY <1>1, <2>1, <2>2 DEF IInv, WriterIsHeld, Process
  <2>3. CASE p = "operator"
    BY <1>1, <2>1, <2>3 DEF IInv, WriterIsHeld, Process
  <2> QED BY <2>2, <2>3 DEF Process
<1>5. /\ writer' \in Process \cup {None} /\ orphaned' \subseteq Job
      /\ orphaned \subseteq orphaned' /\ crashes' \in 0 .. MaxCrashes
  BY DEF IInv, TypeOK
<1>6. new.pc # "claimed"
  BY <1>1 DEF HasRun, Ingesting
<1> QED BY <1>1, <1>2, <1>3, <1>4, <1>5, <1>6, LocalStep

(* The steps that only move a process.                                     *)
LEMMA MoveSteps ==
  ASSUME IInv, \/ TickRefused \/ NothingDue \/ CaptureFails \/ HandOver
               \/ ChecksFail \/ GiveUp \/ Restart
               \/ \E p \in Process : ChecksPass(p) \/ Fail(p) \/ Crash(p)
  PROVE  IInv'
<1> USE DEF Process
<1>1. orphaned \subseteq Job /\ crashes \in 0 .. MaxCrashes /\ MaxCrashes \in Nat
  BY DEF IInv, TypeOK
<1>2. "daemon" \in Process /\ "operator" \in Process
  OBVIOUS
<1>3. CASE TickRefused
  <2>1. proc["daemon"].job \notin Job
    BY <1>2, <1>3, ProcessFacts DEF TickRefused, Shape, Bare
  <2>2. /\ proc' = [proc EXCEPT !["daemon"] = Down]
        /\ UNCHANGED <<job, run, data, orphaned, crashes>>
        /\ writer' = IF writer = "daemon" THEN None ELSE writer
    BY <1>3 DEF TickRefused, Set
  <2> QED BY <1>1, <1>2, <2>1, <2>2, EndStep
<1>4. CASE Restart
  <2>1. proc["daemon"].job \notin Job
    BY <1>2, <1>4, ProcessFacts DEF Restart, Shape, Bare
  <2>2. /\ proc' = [proc EXCEPT !["daemon"] = Idle]
        /\ UNCHANGED <<job, run, data, orphaned, crashes>>
        /\ writer' = IF writer = "daemon" THEN None ELSE writer
    BY <1>4 DEF Restart, Set
  <2>3. Idle # Down
    BY IdleFacts
  <2> QED BY <1>1, <1>2, <2>1, <2>2, <2>3, EndStep
<1>5. CASE NothingDue
  <2>1. proc["daemon"].job \notin Job
    BY <1>2, <1>5, ProcessFacts DEF NothingDue, Shape, Bare
  <2>2. /\ proc' = [proc EXCEPT !["daemon"] = Idle]
        /\ UNCHANGED <<job, run, data, orphaned, crashes>>
        /\ writer' = IF writer = "daemon" THEN None ELSE writer
    BY <1>5 DEF NothingDue, Leave, Set
  <2>3. Idle # Down
    BY IdleFacts
  <2> QED BY <1>1, <1>2, <2>1, <2>2, <2>3, EndStep
<1>6. CASE GiveUp
  <2>1. proc["operator"].job \in Job
    BY <1>2, <1>6, ProcessFacts DEF GiveUp, Bare
  <2>2. /\ proc' = [proc EXCEPT !["operator"] = Idle]
        /\ UNCHANGED <<job, run, data, crashes>>
        /\ orphaned \subseteq orphaned' /\ orphaned' \subseteq Job
        /\ writer' = IF writer = "operator" THEN None ELSE writer
    BY <1>1, <1>6, <2>1 DEF GiveUp, Leave, Set
  <2>3. Idle # Down
    BY IdleFacts
  <2> QED BY <1>1, <1>2, <2>2, <2>3, EndStep
<1>7. ASSUME NEW p \in Process, Crash(p) PROVE IInv'
  <2> DEFINE new == IF p = "daemon" THEN Down ELSE Idle
  <2>1. proc[p].job \in Job \cup {None}
    BY ProcessFacts DEF ProcessRecord
  <2>2. /\ proc' = [proc EXCEPT ![p] = new]
        /\ UNCHANGED <<job, run, data>>
        /\ writer' = IF writer = p THEN None ELSE writer
        /\ crashes' \in 0 .. MaxCrashes
    BY <1>1, <1>7 DEF Crash, Set
  <2>3. /\ orphaned \subseteq orphaned' /\ orphaned' \subseteq Job
        /\ p = "daemon" /\ proc[p].job \in Job =>
              job[proc[p].job].owner # "daemon" \/ proc[p].job \in orphaned'
    BY <1>1, <1>7, <2>1 DEF Crash
  <2>4. Idle # Down
    BY IdleFacts
  <2> QED BY <2>2, <2>3, <2>4, EndStep
<1>8. CASE CaptureFails
  <2> DEFINE d == proc["daemon"]
  <2>1. d.pc = "capturing" /\ d.pc \in HasRun
    BY <1>8 DEF CaptureFails, HasRun
  <2>2. Shape("daemon", [d EXCEPT !.pc = "refused"])
    BY <1>2, <2>1, ProcessFacts DEF Shape, Bare, HasRun, Ingesting, ProcessRecord
  <2>3. "refused" \in HasRun \ {"publishing", "observing"} /\ "refused" \notin Writing
    BY DEF HasRun, Writing
  <2>4. /\ Goto("daemon", "refused")
        /\ UNCHANGED <<job, run, data, writer, orphaned, crashes>>
    BY <1>8 DEF CaptureFails
  <2> QED BY <1>2, <2>1, <2>2, <2>3, <2>4, GotoStep
<1>9. CASE ChecksFail
  <2> DEFINE d == proc["daemon"]
  <2>1. d.pc = "checking" /\ d.pc \in HasRun
    BY <1>9 DEF ChecksFail, HasRun
  <2>2. Shape("daemon", [d EXCEPT !.pc = "refused"])
    BY <1>2, <2>1, ProcessFacts DEF Shape, Bare, HasRun, Ingesting, ProcessRecord
  <2>3. "refused" \in HasRun \ {"publishing", "observing"} /\ "refused" \notin Writing
    BY DEF HasRun, Writing
  <2>4. /\ Goto("daemon", "refused")
        /\ UNCHANGED <<job, run, data, writer, orphaned, crashes>>
    BY <1>9 DEF ChecksFail
  <2> QED BY <1>2, <2>1, <2>2, <2>3, <2>4, GotoStep
<1>10. CASE HandOver
  <2> DEFINE d == proc["daemon"]
  <2>1. d.pc = "capturing" /\ d.pc \in HasRun /\ d.pc \in Writing \ {"observing"}
    BY <1>10 DEF HandOver, HasRun, Writing
  <2>2. Shape("daemon", [d EXCEPT !.pc = "checking"])
    BY <1>2, <1>10, <2>1, ProcessFacts
       DEF HandOver, Shape, Sized, Bare, HasRun, Ingesting, ProcessRecord
  <2>3. "checking" \in HasRun \ {"publishing", "observing"}
    BY DEF HasRun
  <2>4. /\ Goto("daemon", "checking")
        /\ UNCHANGED <<job, run, data, writer, orphaned, crashes>>
    BY <1>10 DEF HandOver
  <2> QED BY <1>2, <2>1, <2>2, <2>3, <2>4, GotoStep
<1>11. ASSUME NEW p \in Process, ChecksPass(p) PROVE IInv'
  <2> DEFINE d == proc[p]
  <2>1. d.pc = "checking" /\ d.pc \in HasRun /\ d.pc \in Writing \ {"observing"}
    BY <1>11 DEF ChecksPass, HasRun, Writing
  <2>2. Sized(Family[d.job], Len(d.taken)) /\ d.kept = 0
    BY <2>1, ProcessFacts DEF Shape, Ingesting
  <2>3. Len(d.taken) \in 1 .. 3
    <3>1. Family[d.job] \in Families
      BY <2>1, ProcessFacts DEF Bare
    <3>2. \A f \in Families : \A n : Sized(f, n) => n \in 1 .. 3
      BY IngestFacts
    <3> QED BY <2>2, <3>1, <3>2
  <2> DEFINE new == [d EXCEPT !.pc = "persisting"]
  <2>8. /\ new.pc = "persisting" /\ new.job = d.job /\ new.no = d.no
        /\ new.kept = d.kept /\ new.taken = d.taken
    BY ProcessFacts DEF ProcessRecord
  <2> HIDE DEF new
  <2>4. Shape(p, new)
    <3>1. new.kept < Len(new.taken) /\ Sized(Family[new.job], Len(new.taken))
      BY <2>2, <2>3, <2>8, SMTT(30)
    <3>2. new.job # None /\ new.no # 0
      BY <2>1, <2>8, ProcessFacts DEF Shape, Bare
    <3> QED BY <2>8, <3>1, <3>2 DEF Shape, Bare, HasRun, Ingesting
  <2>5. "persisting" \in HasRun \ {"publishing", "observing"}
    BY DEF HasRun, Ingesting
  <2>6. /\ Goto(p, "persisting")
        /\ UNCHANGED <<job, run, data, writer, orphaned, crashes>>
    BY <1>11 DEF ChecksPass
  <2>7. ~(p = "operator" /\ writer = p)
    BY <2>1 DEF IInv, WriterIsHeld
  <2> QED BY <2>1, <2>4, <2>5, <2>6, <2>7, GotoStep DEF new
<1>12. ASSUME NEW p \in Process, Fail(p) PROVE IInv'
  <2> DEFINE d == proc[p]
  <2>1. d.pc \in Ingesting \ {"closing"} /\ d.pc \in HasRun
    BY <1>12 DEF Fail, HasRun
  <2>2. Shape(p, [d EXCEPT !.pc = "closing"])
    BY <2>1, ProcessFacts DEF Shape, Bare, HasRun, Ingesting, ProcessRecord
  <2>3. "closing" \in HasRun \ {"publishing", "observing"} /\ "closing" \notin Writing
    BY DEF HasRun, Ingesting, Writing
  <2>4. /\ Goto(p, "closing")
        /\ UNCHANGED <<job, run, data, orphaned, crashes>>
        /\ writer' = IF p = "operator" /\ writer = p THEN None ELSE writer
    BY <1>12 DEF Fail
  <2> QED BY <2>1, <2>2, <2>3, <2>4, GotoStep
<1> QED BY <1>3, <1>4, <1>5, <1>6, <1>7, <1>8, <1>9, <1>10, <1>11, <1>12

(* The records to observe are those of the last artifact.                  *)
LEMMA ParseStep ==
  ASSUME IInv, NEW p \in Process, Parse(p)
  PROVE  IInv'
<1> DEFINE d      == proc[p]
           last   == d.kept = Len(d.taken)
           parsed == RecordsOf[d.taken[d.kept]]
           new    == [d EXCEPT !.pc = IF last THEN "observing" ELSE "persisting",
                               !.todo = IF last THEN parsed ELSE {}]
<1>1. /\ d.pc = "parsing" /\ d.pc \in HasRun /\ d.pc \in Writing
      /\ proc' = [proc EXCEPT ![p] = new]
      /\ UNCHANGED <<job, run, data, writer, orphaned, crashes>>
  BY DEF Parse, Set, HasRun, Ingesting, Writing
<1>2. /\ d \in ProcessRecord /\ Shape(p, d) /\ d.kept \in 1 .. Len(d.taken)
      /\ d.taken \in Seq(Content)
      /\ Contents(d, evidence, observed, captured, objects)
  BY <1>1, ProcessFacts DEF Shape, ProcessRecord
<1>3. parsed \in SUBSET Record
  <2>1. d.taken[d.kept] \in Content
    BY <1>2, ElementOfSeq
  <2> QED BY <2>1
<1>4. /\ new \in ProcessRecord
      /\ new.pc = IF last THEN "observing" ELSE "persisting"
      /\ new.todo = IF last THEN parsed ELSE {}
      /\ new.job = d.job /\ new.no = d.no /\ new.taken = d.taken
      /\ new.kept = d.kept
  BY <1>2, <1>3 DEF ProcessRecord, Ingesting
<1> HIDE DEF new
<1>5. Shape(p, new)
  <2>1. /\ new.kept <= Len(new.taken) /\ Len(new.taken) \in Nat
        /\ new.kept \in Nat
    BY <1>2, <1>4, LenProperties
  <2>2. /\ new.job # None /\ new.no # 0
        /\ Sized(Family[new.job], Len(new.taken))
    BY <1>1, <1>2, <1>4 DEF Shape, Bare, Ingesting
  <2>3. last => /\ new.kept = Len(new.taken)
                /\ new.todo \subseteq RecordsOf[new.taken[Len(new.taken)]]
    BY <1>4
  <2>4. ~last => new.kept < Len(new.taken)
    BY <1>4, <2>1
  <2>5. new.pc \in {"observing", "persisting"}
    BY <1>4
  <2> QED BY <1>4, <2>2, <2>3, <2>4, <2>5 DEF Shape, Bare, HasRun, Ingesting
<1>6. Contents(new, evidence, observed, captured, objects)
  <2>1. CASE ~last
    <3>1. new.pc = "persisting"
      BY <1>4, <2>1
    <3> QED BY <1>1, <1>2, <1>4, <3>1, ContentsMoved
  <2>2. CASE last
    <3>1. new.pc = "observing" /\ new.todo = RecordsOf[new.taken[Len(new.taken)]]
      BY <1>4, <2>2
    <3>2. RecordsOf[new.taken[Len(new.taken)]] \ new.todo = {}
      BY <3>1
    <3> HIDE DEF d, last, parsed
    <3>3. d.pc = "parsing" /\ d.pc \in Writing
      BY <1>1
    <3> QED BY <1>2, <1>4, <3>1, <3>2, <3>3 DEF Contents
  <2> QED BY <2>1, <2>2
<1>7. WriterIsHeld'
  <2>1. proc'[p] = new /\ \A q \in Process : q # p => proc'[q] = proc[q]
    BY <1>1 DEF IInv, TypeOK
  <2>2. new.pc \in HasRun /\ new.pc # "publishing" /\ d.pc # "publishing"
    BY <1>1, <1>4 DEF HasRun, Ingesting
  <2>3. CASE p = "daemon"
    BY <1>1, <2>1, <2>2, <2>3 DEF IInv, WriterIsHeld, Process
  <2>4. CASE p = "operator"
    BY <1>1, <2>1, <2>2, <2>4 DEF IInv, WriterIsHeld, Process
  <2> QED BY <2>3, <2>4 DEF Process
<1>8. /\ writer' \in Process \cup {None} /\ orphaned' \subseteq Job
      /\ orphaned \subseteq orphaned' /\ crashes' \in 0 .. MaxCrashes
      /\ new.pc # "claimed"
  BY <1>1, <1>4 DEF IInv, TypeOK
<1> QED BY <1>1, <1>4, <1>5, <1>6, <1>7, <1>8, LocalStep

-----------------------------------------------------------------------------
(* Steps that close a run.                                                 *)

(* What is stored stays right when runs start or fail.                     *)
LEMMA StoreFailed ==
  ASSUME IInv, UNCHANGED data,
         \A r \in Run : \/ run'[r] = run[r]
                        \/ /\ run[r] \in {"none", "running"}
                           /\ run'[r] \in {"running", "failed"}
  PROVE  StoreOK'
<1>1. /\ \A e \in evidence : e.run \in Run
      /\ \A o \in observed : o.run \in Run
      /\ \A x \in captured : x.run \in Run
      /\ promoted \subseteq Run
  BY DEF IInv, TypeOK
<1>2. DataIsOfRuns'
  BY <1>1 DEF IInv, DataIsOfRuns, data
<1>3. EvidenceIsBacked' /\ ObservationsAreEvidenced'
  BY DEF IInv, EvidenceIsBacked, ObservationsAreEvidenced, data
<1>4. CapturesAreEvidence'
  BY <1>1 DEF IInv, CapturesAreEvidence, data
<1>5. ResultsAreComplete'
  <2>1. \A r \in Run : ResultOf(r)' = ResultOf(r)
    BY DEF ResultOf, data
  <2>2. \A r \in Run : {o.record : o \in {x \in observed : x.run = r}}'
                         = {o.record : o \in {x \in observed : x.run = r}}
    BY DEF data
  <2> SUFFICES ASSUME NEW r \in Run
               PROVE  /\ run'[r] \in {"succeeded", "empty"} =>
                           /\ ResultOf(r)' # {}
                           /\ \A e \in ResultOf(r)' :
                                RecordsOf[e.content] =
                                   {o.record : o \in {x \in observed' : x.run = r}}
                      /\ run'[r] = "empty" => \A o \in observed' : o.run # r
                      /\ r \in promoted' => run'[r] = "succeeded" /\ r[1] \in Production
    BY DEF ResultsAreComplete
  <2>3. observed' = observed /\ promoted' = promoted
    BY DEF data
  <2>4. CASE run'[r] = run[r]
    BY <2>1, <2>2, <2>3, <2>4, SMTT(30) DEF IInv, ResultsAreComplete
  <2>5. CASE run[r] \in {"none", "running"} /\ run'[r] \in {"running", "failed"}
    BY <2>3, <2>5 DEF IInv, ResultsAreComplete
  <2> QED BY <2>4, <2>5
<1> QED BY <1>2, <1>3, <1>4, <1>5 DEF StoreOK

LEMMA FreeFacts ==
  ASSUME IInv, NEW j \in Job,
         NEW state \in {"queued", "retry_wait"} \cup Ended
  PROVE  /\ Free(j, state) \in JobRecord
         /\ Free(j, state).state = state
         /\ Free(j, state).owner = None /\ Free(j, state).lease = "none"
         /\ Free(j, state).attempts = job[j].attempts
<1>1. job[j] \in JobRecord
  BY JobFacts
<1>2. \A q \in JobRecord :
        LET f == [q EXCEPT !.state = state, !.owner = None, !.lease = "none"]
        IN  /\ f \in JobRecord /\ f.state = state /\ f.owner = None
            /\ f.lease = "none" /\ f.attempts = q.attempts
  BY DEF JobRecord
<1> QED BY <1>1, <1>2 DEF Free

(* A process that holds its claim and may write closes its run and leaves. *)
LEMMA FinishStep ==
  ASSUME IInv, NEW p \in Process, proc[p].pc \in HasRun, Owns(p), MayWrite(p),
         NEW status \in {"succeeded", "empty", "failed"},
         NEW state \in {"retry_wait"} \cup Ended,
         Finished(p, status, state), Leave(p), StoreOK', promoted' \subseteq Run,
         UNCHANGED <<planned, objects, evidence, observed, captured, orphaned,
                     crashes>>
  PROVE  IInv'
<1> DEFINE d == proc[p]  j == proc[p].job  n == proc[p].no
<1>1. /\ j \in Job /\ n \in Attempt /\ n \in Nat /\ n = job[j].attempts
      /\ job[j].state = "running" /\ job[j].owner = p
      /\ <<j, n>> \in Run
  BY ProcessFacts DEF Owns, Bare, HasRun, Ingesting, Run
<1>2. /\ job' = [job EXCEPT ![j] = Free(j, state)]
      /\ run' = [run EXCEPT ![<<j, n>>] = status]
      /\ proc' = [proc EXCEPT ![p] = Idle]
      /\ writer' = IF writer = p THEN None ELSE writer
  BY DEF Finished, RunOf, Leave, Set
<1>3. /\ job'[j] = Free(j, state) /\ Free(j, state) \in JobRecord
      /\ \A k \in Job : k # j => job'[k] = job[k]
      /\ job' \in [Job -> JobRecord]
  BY <1>1, <1>2, JobFacts, FreeFacts
<1>13. /\ job'[j].state = state /\ job'[j].owner = None
       /\ job'[j].lease = "none" /\ job'[j].attempts = job[j].attempts
  <2>1. state \in {"queued", "retry_wait"} \cup Ended
    OBVIOUS
  <2>2. /\ Free(j, state).state = state /\ Free(j, state).owner = None
        /\ Free(j, state).lease = "none"
        /\ Free(j, state).attempts = job[j].attempts
    BY <1>1, <2>1, FreeFacts
  <2> QED BY <1>3, <2>2
<1>4. /\ run' \in [Run -> {"none", "running", "succeeded", "empty", "failed"}]
      /\ run'[<<j, n>>] = status
      /\ \A r \in Run : r # <<j, n>> => run'[r] = run[r]
  BY <1>1, <1>2 DEF IInv, TypeOK
<1>5. proc'[p] = Idle /\ \A q \in Process : q # p => proc'[q] = proc[q]
  BY <1>2 DEF IInv, TypeOK
<1>6. TypeOK'
  <2>1. proc' \in [Process -> ProcessRecord]
    BY <1>2, IdleFacts DEF IInv, TypeOK
  <2> QED BY <1>2, <1>3, <1>4, <2>1 DEF IInv, TypeOK, JobRecord
<1>7. Shapes'
  BY <1>5, IdleFacts DEF IInv, Shapes
<1>8. WriterIsHeld'
  BY <1>2, <1>5, IdleFacts
     DEF IInv, TypeOK, WriterIsHeld, HasRun, Ingesting, Process
<1>9. JobsAreOwned'
  BY <1>3, FreeFacts, <1>1 DEF IInv, JobsAreOwned, Ended
<1>10. RunsFollowJobs'
  <2> SUFFICES ASSUME NEW k \in Job, NEW m \in Attempt
               PROVE  /\ run'[<<k, m>>] = "none" <=> m > job'[k].attempts
                      /\ run'[<<k, m>>] = "running"
                            <=> job'[k].state = "running" /\ m = job'[k].attempts
    BY DEF RunsFollowJobs
  <2>1. /\ run[<<k, m>>] = "none" <=> m > job[k].attempts
        /\ run[<<k, m>>] = "running"
              <=> job[k].state = "running" /\ m = job[k].attempts
    BY DEF IInv, RunsFollowJobs
  <2>2. <<k, m>> \in Run /\ m \in Nat
    BY AttemptNat DEF Run
  <2>3. CASE k # j
    BY <1>3, <1>4, <2>1, <2>2, <2>3
  <2>4. CASE k = j /\ m # n
    BY <1>1, <1>3, <1>4, <2>1, <2>2, <2>4, FreeFacts DEF Ended
  <2>5. CASE k = j /\ m = n
    BY <1>1, <1>3, <1>4, <2>1, <2>2, <2>5, FreeFacts DEF Ended
  <2> QED BY <2>3, <2>4, <2>5
<1>11. ClaimsAreKept'
  <2>1. ASSUME p = "operator" PROVE proc["daemon"].pc \notin {"claimed"} \cup HasRun
    BY <2>1 DEF IInv, WriterIsHeld, MayWrite
  <2>2. proc'["daemon"].pc \notin {"claimed"} \cup HasRun
    BY <1>5, <2>1, IdleFacts DEF Process, HasRun, Ingesting
  <2>3. \A k \in Job : job'[k].owner = "daemon" =>
          job'[k].lease = "stale" \/ k \in orphaned' \/ proc'["daemon"].job = k
    <3> SUFFICES ASSUME NEW k \in Job, job'[k].owner = "daemon"
                 PROVE  job'[k].lease = "stale" \/ k \in orphaned'
                           \/ proc'["daemon"].job = k
      OBVIOUS
    <3>1. k # j /\ job'[k] = job[k]
      BY <1>1, <1>3, FreeFacts
    <3>2. job[k].lease = "stale" \/ k \in orphaned \/ proc["daemon"].job = k
      BY <3>1 DEF IInv, ClaimsAreKept
    <3>3. CASE p = "daemon"
      BY <3>1, <3>2, <3>3
    <3>4. CASE p = "operator"
      BY <1>5, <3>1, <3>2, <3>4 DEF Process
    <3> QED BY <3>3, <3>4 DEF Process
  <2>4. proc'["operator"].pc \in HasRun =>
          proc'["operator"].no <= job'[proc'["operator"].job].attempts
    <3> SUFFICES ASSUME proc'["operator"].pc \in HasRun
                 PROVE  proc'["operator"].no <= job'[proc'["operator"].job].attempts
      OBVIOUS
    <3>1. p # "operator" /\ proc'["operator"] = proc["operator"]
      BY <1>5, IdleFacts DEF Process, HasRun, Ingesting
    <3>2. proc["operator"].no <= job[proc["operator"].job].attempts
      BY <3>1 DEF IInv, ClaimsAreKept
    <3>3. proc["operator"].job \in Job
      BY <3>1, ProcessFacts DEF Process, HasRun, Ingesting, Bare
    <3>4. \A k \in Job : job'[k].attempts = job[k].attempts
      BY <1>3, <1>13
    <3> QED BY <3>1, <3>2, <3>3, <3>4
  <2>5. ASSUME NEW q \in Process, NEW s \in Process, q # s,
               proc'[q].pc \in HasRun, proc'[s].pc \in HasRun
        PROVE  FALSE
    BY <1>5, <2>5, IdleFacts DEF Process, HasRun, Ingesting
  <2> QED BY <2>2, <2>3, <2>4, <2>5 DEF ClaimsAreKept
<1>12. ContentsAreExact'
  <2>1. ASSUME NEW q \in Process
        PROVE  Contents(proc'[q], evidence, observed, captured, objects)
    <3>1. CASE q = p
      BY <1>5, <3>1, IdleFacts DEF Contents, Writing, HasRun, Ingesting
    <3>2. CASE q # p
      BY <1>5, <3>2 DEF IInv, ContentsAreExact
    <3> QED BY <3>1, <3>2
  <2> QED BY <2>1 DEF ContentsAreExact
<1> QED BY <1>6, <1>7, <1>8, <1>9, <1>10, <1>11, <1>12 DEF IInv, StoreOK

(* The run of a process that owns its claim is running.                    *)
LEMMA OwnedRun ==
  ASSUME IInv, NEW p \in Process, proc[p].pc \in HasRun, Owns(p)
  PROVE  RunOf(p) \in Run /\ run[RunOf(p)] = "running"
BY ProcessFacts DEF IInv, RunsFollowJobs, Owns, RunOf, HasRun, Ingesting, Bare

(* The daemon owns its claim in a run and may write.                       *)
LEMMA DaemonOwns ==
  ASSUME IInv, proc["daemon"].pc \in HasRun
  PROVE  Owns("daemon") /\ MayWrite("daemon") /\ "daemon" \in Process
BY DEF IInv, ClaimsAreKept, WriterIsHeld, MayWrite, Process

(* A run fails and its process leaves.                                     *)
LEMMA FailedStep ==
  ASSUME IInv, NEW p \in Process, proc[p].pc \in HasRun, Owns(p), MayWrite(p),
         NEW state \in {"retry_wait"} \cup Ended, Finished(p, "failed", state),
         Leave(p), UNCHANGED <<data, orphaned, crashes>>
  PROVE  IInv'
<1>1. RunOf(p) \in Run /\ run[RunOf(p)] = "running"
  BY OwnedRun
<1>2. /\ run' = [run EXCEPT ![RunOf(p)] = "failed"]
      /\ run \in [Run -> {"none", "running", "succeeded", "empty", "failed"}]
  BY DEF Finished, IInv, TypeOK
<1>3. \A r \in Run : \/ run'[r] = run[r]
                     \/ /\ run[r] \in {"none", "running"}
                        /\ run'[r] \in {"running", "failed"}
  BY <1>1, <1>2
<1>4. StoreOK'
  BY <1>3, StoreFailed
<1>5. promoted' \subseteq Run /\ UNCHANGED <<planned, objects, evidence, observed,
                                            captured, orphaned, crashes>>
  BY DEF data, IInv, TypeOK
<1> QED BY <1>4, <1>5, FinishStep

LEMMA CloseSteps ==
  ASSUME IInv, Refuse \/ SupervisorCloses \/ \E p \in Process : Close(p)
  PROVE  IInv'
<1>1. CASE Refuse
  <2>1. /\ proc["daemon"].pc \in HasRun /\ Finished("daemon", "failed", "failed")
        /\ Leave("daemon") /\ UNCHANGED <<data, orphaned, crashes>>
    BY <1>1 DEF Refuse, HasRun
  <2> QED BY <2>1, DaemonOwns, FailedStep DEF Ended
<1>2. CASE SupervisorCloses
  <2> DEFINE j == proc["daemon"].job
  <2>1. /\ proc["daemon"].pc \in HasRun /\ SupervisorFinishes("daemon")
        /\ Leave("daemon") /\ UNCHANGED <<data, orphaned, crashes>>
    BY <1>2 DEF SupervisorCloses, HasRun
  <2>2. CASE job[j].lease = "live"
    <3>1. PICK state \in {"retry_wait", "dead_letter"} :
             Finished("daemon", "failed", state)
      BY <2>1, <2>2 DEF SupervisorFinishes
    <3> QED BY <2>1, <3>1, DaemonOwns, FailedStep DEF Ended
  <2>3. CASE job[j].lease # "live"
    <3>1. UNCHANGED <<job, run>>
      BY <2>1, <2>3 DEF SupervisorFinishes
    <3>2. j \in Job /\ job[j].owner = "daemon"
      BY <2>1, DaemonOwns, ProcessFacts DEF Owns, HasRun, Ingesting, Bare
    <3>3. job[j].lease = "stale"
      BY <2>3, <3>2, JobFacts DEF IInv, JobsAreOwned, JobRecord
    <3>4. /\ proc' = [proc EXCEPT !["daemon"] = Idle]
          /\ writer' = IF writer = "daemon" THEN None ELSE writer
          /\ Idle # Down /\ orphaned' \subseteq Job /\ orphaned \subseteq orphaned'
          /\ crashes' \in 0 .. MaxCrashes /\ "daemon" \in Process
      BY <2>1, IdleFacts DEF Leave, Set, IInv, TypeOK, Process
    <3> QED BY <2>1, <3>1, <3>3, <3>4, EndStep
  <2> QED BY <2>2, <2>3
<1>3. ASSUME NEW p \in Process, Close(p) PROVE IInv'
  <2>1. proc[p].pc \in HasRun /\ Leave(p) /\ UNCHANGED <<data, crashes>>
    BY <1>3 DEF Close, HasRun, Ingesting
  <2>2. CASE MayWrite(p) /\ Owns(p)
    <3>1. Finished(p, "failed", "failed") /\ UNCHANGED orphaned
      BY <1>3, <2>2 DEF Close
    <3> QED BY <2>1, <2>2, <3>1, FailedStep DEF Ended
  <2>3. CASE ~(MayWrite(p) /\ Owns(p))
    <3>1. p = "operator"
      BY <2>1, <2>3, DaemonOwns DEF Process
    <3>2. proc[p].job \in Job
      BY <2>1, ProcessFacts DEF HasRun, Ingesting, Bare
    <3>3. /\ UNCHANGED <<job, run>>
          /\ orphaned' = IF Owns(p) THEN orphaned \cup {proc[p].job} ELSE orphaned
      BY <1>3, <2>3 DEF Close
    <3>4. /\ proc' = [proc EXCEPT ![p] = Idle]
          /\ writer' = IF writer = p THEN None ELSE writer
          /\ Idle # Down /\ orphaned' \subseteq Job /\ orphaned \subseteq orphaned'
          /\ crashes' \in 0 .. MaxCrashes
      BY <2>1, <3>2, <3>3, IdleFacts DEF Leave, Set, IInv, TypeOK
    <3> QED BY <2>1, <3>1, <3>3, <3>4, EndStep
  <2> QED BY <2>2, <2>3
<1> QED BY <1>1, <1>2, <1>3

(* A life cycle that is through has stored its result: its evidence is     *)
(* that of all its artifacts, and its observations are the records of the  *)
(* last one.                                                               *)
LEMMA ResultIsStored ==
  ASSUME IInv, NEW p \in Process, proc[p].pc = "observing", proc[p].todo = {},
         NEW c, c = proc[p].taken[Len(proc[p].taken)]
  PROVE  /\ ResultOf(RunOf(p)) # {}
         /\ \A e \in ResultOf(RunOf(p)) : e.content = c
         /\ {o.record : o \in {x \in observed : x.run = RunOf(p)}} = RecordsOf[c]
         /\ RecordsOf[c] = {} => \A o \in observed : o.run # RunOf(p)
         /\ \A x \in captured : x.run = RunOf(p) =>
               \E e \in evidence : e.run = x.run /\ e.content = x.content
<1> DEFINE d     == proc[p]
           N     == Len(d.taken)
           r     == RunOf(p)
           roles == Ingest(Family[d.job], N)
<1>1. /\ d.kept = N /\ Sized(Family[d.job], N) /\ Family[d.job] \in Families
      /\ d.taken \in Seq(Content)
  BY ProcessFacts DEF Shape, Ingesting, Bare, ProcessRecord
<1>2. /\ N \in 1 .. 3
      /\ \A i \in 1 .. N : roles[i] \in {"primary", "postcode_query"} <=> i = N
  <2> HIDE DEF N
  <2> QED BY <1>1, IngestFacts
<1>3. /\ Kept(r, roles, d.taken, N, evidence, captured)
      /\ Seen(r, RecordsOf[c] \ d.todo, observed)
  BY <1>1, ProcessFacts DEF Contents, Writing, HasRun, Ingesting, RunOf
<1>4. RecordsOf[c] \ d.todo = RecordsOf[c] /\ RecordsOf[c] \subseteq Record
  <2>1. N \in 1 .. Len(d.taken) /\ c = d.taken[N]
    BY <1>2, SMTT(30)
  <2>2. c \in Content
    BY <1>1, <2>1, ElementOfSeq
  <2> QED BY <2>2
<1>5. \A o \in observed : o.record \in Record
  BY DEF IInv, TypeOK
<1> HIDE DEF d, N, r, roles
<1>6. {o.record : o \in {x \in observed : x.run = r}} = RecordsOf[c]
  <2>1. \A record \in Record :
          (\E o \in observed : o.run = r /\ o.record = record)
             <=> record \in RecordsOf[c]
    BY <1>3, <1>4, SMTT(30) DEF Seen
  <2> QED BY <1>4, <1>5, <2>1, SMTT(30)
<1>7. RecordsOf[c] = {} => \A o \in observed : o.run # r
  BY <1>3, <1>4, <1>5 DEF Seen
<1>8. c = d.taken[N]
  BY DEF d, N
<1>9. ResultOf(r) # {}
  <2> DEFINE e == [run |-> r, role |-> roles[N], content |-> d.taken[N]]
  <2>1. N \in 1 .. N
    BY <1>2
  <2>2. e \in evidence
    BY <1>3, <2>1 DEF Kept
  <2>3. e.run = r /\ e.role \in {"primary", "postcode_query"}
    BY <1>2, <2>1
  <2> QED BY <2>2, <2>3 DEF ResultOf
<1>10. ASSUME NEW e \in ResultOf(r) PROVE e.content = c
  <2>1. e \in evidence /\ e.run = r /\ e.role \in {"primary", "postcode_query"}
    BY DEF ResultOf
  <2>2. PICK i \in 1 .. N : e.role = roles[i] /\ e.content = d.taken[i]
    BY <1>3, <2>1 DEF Kept
  <2>3. i = N
    BY <1>2, <2>1, <2>2
  <2> QED BY <1>8, <2>2, <2>3
<1>11. ASSUME NEW x \in captured, x.run = r
       PROVE  \E e \in evidence : e.run = x.run /\ e.content = x.content
  <2>1. PICK i \in 1 .. N : d.taken[i] = x.content
    BY <1>3, <1>11 DEF Kept, N
  <2> DEFINE e == [run |-> r, role |-> roles[i], content |-> d.taken[i]]
  <2>2. e \in evidence
    BY <1>3, <2>1 DEF Kept
  <2> QED BY <1>11, <2>1, <2>2
<1> QED BY <1>6, <1>7, <1>9, <1>10, <1>11 DEF r

LEMMA FinishedWell ==
  ASSUME IInv, NEW p \in Process, Finish(p)
  PROVE  IInv'
<1> DEFINE j      == proc[p].job
           c      == proc[p].taken[Len(proc[p].taken)]
           r0     == RunOf(p)
           status == IF RecordsOf[c] = {} THEN "empty" ELSE "succeeded"
           promote == status = "succeeded" /\ AsksPromotion(j)
<1>1. /\ proc[p].pc = "observing" /\ proc[p].pc \in HasRun /\ proc[p].todo = {}
      /\ MayWrite(p) /\ Owns(p) /\ Finished(p, status, status) /\ Leave(p)
      /\ promoted' = IF promote THEN promoted \cup {r0} ELSE promoted
      /\ UNCHANGED <<planned, objects, evidence, observed, captured, orphaned,
                     crashes>>
  BY DEF Finish, AllObserved, HasRun, Ingesting
<1>2. r0 \in Run /\ run[r0] = "running" /\ j \in Job /\ r0[1] = j
  BY <1>1, OwnedRun, ProcessFacts DEF RunOf, HasRun, Ingesting, Bare
<1>3. /\ ResultOf(r0) # {}
      /\ \A e \in ResultOf(r0) : e.content = c
      /\ {o.record : o \in {x \in observed : x.run = r0}} = RecordsOf[c]
      /\ RecordsOf[c] = {} => \A o \in observed : o.run # r0
      /\ \A x \in captured : x.run = r0 =>
            \E e \in evidence : e.run = x.run /\ e.content = x.content
  BY <1>1, ResultIsStored
<1>4. /\ run' = [run EXCEPT ![r0] = status]
      /\ run'[r0] = status /\ \A r \in Run : r # r0 => run'[r] = run[r]
      /\ status \in {"succeeded", "empty"}
  BY <1>1, <1>2 DEF Finished, IInv, TypeOK
<1>5. promote => j \in Production
  BY <1>2, PromotionIsProduction
<1>6. /\ promoted' \subseteq promoted \cup {r0} /\ promoted \subseteq Run
      /\ r0 \in promoted' => promote \/ r0 \in promoted
  BY <1>1 DEF IInv, TypeOK
<1>7. r0 \notin promoted
  BY <1>2 DEF IInv, ResultsAreComplete
<1>8. status = "empty" => RecordsOf[c] = {}
  OBVIOUS
<1>9. promote => status = "succeeded"
  OBVIOUS
<1> HIDE DEF r0, status, c, promote
<1>10. /\ \A e \in evidence : e.run \in Run
       /\ \A o \in observed : o.run \in Run
       /\ \A x \in captured : x.run \in Run
  BY DEF IInv, TypeOK
<1>11. DataIsOfRuns' /\ EvidenceIsBacked' /\ ObservationsAreEvidenced'
  <2>1. UNCHANGED <<objects, evidence, observed, captured>>
    BY <1>1
  <2>2. DataIsOfRuns'
    BY <1>4, <1>10, <2>1 DEF IInv, DataIsOfRuns
  <2> QED BY <2>1, <2>2 DEF IInv, EvidenceIsBacked, ObservationsAreEvidenced
<1>12. CapturesAreEvidence'
  BY <1>1, <1>3, <1>4, <1>10 DEF IInv, CapturesAreEvidence
<1>13. ResultsAreComplete'
  <2>1. observed' = observed /\ \A r \in Run : ResultOf(r)' = ResultOf(r)
    BY <1>1 DEF ResultOf
  <2> SUFFICES ASSUME NEW r \in Run
               PROVE  /\ run'[r] \in {"succeeded", "empty"} =>
                           /\ ResultOf(r)' # {}
                           /\ \A e \in ResultOf(r)' :
                                RecordsOf[e.content] =
                                   {o.record : o \in {x \in observed' : x.run = r}}
                      /\ run'[r] = "empty" => \A o \in observed' : o.run # r
                      /\ r \in promoted' => run'[r] = "succeeded" /\ r[1] \in Production
    BY DEF ResultsAreComplete
  <2>2. CASE r = r0
    BY <1>2, <1>3, <1>4, <1>5, <1>6, <1>7, <1>8, <1>9, <2>1, <2>2
  <2>3. CASE r # r0
    BY <1>4, <1>6, <2>1, <2>3, SMTT(30) DEF IInv, ResultsAreComplete
  <2> QED BY <2>2, <2>3
<1>14. StoreOK'
  BY <1>11, <1>12, <1>13 DEF StoreOK
<1>15. promoted' \subseteq Run /\ status \in {"retry_wait"} \cup Ended
  BY <1>2, <1>4, <1>6 DEF Ended
<1> QED BY <1>1, <1>4, <1>14, <1>15, FinishStep

-----------------------------------------------------------------------------
(* Steps that claim, start and recover jobs.                               *)

LEMMA ProcessUpdate ==
  ASSUME IInv, NEW p \in Process, NEW new \in ProcessRecord, Shape(p, new),
         Contents(new, evidence, observed, captured, objects),
         proc' = [proc EXCEPT ![p] = new], UNCHANGED data
  PROVE  /\ proc' \in [Process -> ProcessRecord] /\ Shapes' /\ ContentsAreExact'
         /\ proc'[p] = new /\ \A q \in Process : q # p => proc'[q] = proc[q]
<1>1. /\ proc' \in [Process -> ProcessRecord]
      /\ proc'[p] = new /\ \A q \in Process : q # p => proc'[q] = proc[q]
  BY DEF IInv, TypeOK
<1>2. Shapes'
  BY <1>1 DEF IInv, Shapes
<1>3. ASSUME NEW q \in Process
      PROVE  Contents(proc'[q], evidence, observed, captured, objects)
  BY <1>1 DEF IInv, ContentsAreExact
<1> QED BY <1>1, <1>2, <1>3 DEF ContentsAreExact, data

(* The parts of IInv that the steps of this section do not prove one by one*)
LEMMA JobStep ==
  ASSUME IInv, UNCHANGED <<data, crashes>>, job' \in [Job -> JobRecord],
         run' \in [Run -> {"none", "running", "succeeded", "empty", "failed"}],
         \A r \in Run : \/ run'[r] = run[r]
                        \/ /\ run[r] \in {"none", "running"}
                           /\ run'[r] \in {"running", "failed"},
         proc' \in [Process -> ProcessRecord], Shapes', ContentsAreExact',
         writer' \in Process \cup {None}, orphaned' \subseteq Job,
         WriterIsHeld', JobsAreOwned', RunsFollowJobs', ClaimsAreKept'
  PROVE  IInv'
<1>1. StoreOK'
  BY StoreFailed
<1>2. TypeOK'
  BY DEF IInv, TypeOK, data, JobRecord
<1> QED BY <1>1, <1>2 DEF IInv, StoreOK

(* recover_expired gives back claims and fails runs.                       *)
LEMMA RecoveredFacts ==
  ASSUME IInv, NEW R \in SUBSET Stale
  PROVE  /\ RecoveredJobs(R) \in [Job -> JobRecord]
         /\ \A k \in Job : k \notin R => RecoveredJobs(R)[k] = job[k]
         /\ \A k \in R : /\ RecoveredJobs(R)[k].owner = None
                         /\ RecoveredJobs(R)[k].lease = "none"
                         /\ RecoveredJobs(R)[k].state
                               \in {"queued", "retry_wait", "dead_letter"}
         /\ \A k \in Job : RecoveredJobs(R)[k].attempts = job[k].attempts
         /\ RecoveredRuns(R) \in
               [Run -> {"none", "running", "succeeded", "empty", "failed"}]
         /\ \A r \in Run : \/ RecoveredRuns(R)[r] = run[r]
                           \/ run[r] = "running" /\ RecoveredRuns(R)[r] = "failed"
         /\ \A k \in Job, m \in Attempt :
               RecoveredRuns(R)[<<k, m>>] =
                  IF k \in R /\ run[<<k, m>>] = "running" THEN "failed"
                  ELSE run[<<k, m>>]
<1>1. R \subseteq Job
  BY DEF Stale
<1>2. \A k \in Job : k \notin R => RecoveredJobs(R)[k] = job[k]
  BY DEF RecoveredJobs
<1>3. ASSUME NEW k \in R
      PROVE  \E state \in {"queued", "retry_wait", "dead_letter"} :
                RecoveredJobs(R)[k] = Free(k, state)
  BY <1>1, <1>3 DEF RecoveredJobs
<1>4. ASSUME NEW k \in R
      PROVE  /\ RecoveredJobs(R)[k] \in JobRecord
             /\ RecoveredJobs(R)[k].owner = None
             /\ RecoveredJobs(R)[k].lease = "none"
             /\ RecoveredJobs(R)[k].state \in {"queued", "retry_wait", "dead_letter"}
             /\ RecoveredJobs(R)[k].attempts = job[k].attempts
  BY <1>1, <1>3, <1>4, FreeFacts DEF Ended
<1>5. \A k \in Job : RecoveredJobs(R)[k] \in JobRecord
  BY <1>2, <1>4, JobFacts
<1>6. RecoveredJobs(R) \in [Job -> JobRecord]
  <2>1. RecoveredJobs(R) = [k \in Job |-> RecoveredJobs(R)[k]]
    BY DEF RecoveredJobs
  <2> QED BY <1>5, <2>1
<1>7. \A k \in Job : RecoveredJobs(R)[k].attempts = job[k].attempts
  BY <1>2, <1>4
<1>8. run \in [Run -> {"none", "running", "succeeded", "empty", "failed"}]
  BY DEF IInv, TypeOK
<1>9. \A r \in Run : RecoveredRuns(R)[r] =
                        IF r[1] \in R /\ run[r] = "running" THEN "failed" ELSE run[r]
  BY DEF RecoveredRuns
<1>10. RecoveredRuns(R) \in
         [Run -> {"none", "running", "succeeded", "empty", "failed"}]
  BY <1>8 DEF RecoveredRuns
<1>11. \A k \in Job, m \in Attempt : <<k, m>> \in Run /\ <<k, m>>[1] = k
  BY DEF Run
<1>12. \A k \in Job, m \in Attempt :
         RecoveredRuns(R)[<<k, m>>] =
            IF k \in R /\ run[<<k, m>>] = "running" THEN "failed"
            ELSE run[<<k, m>>]
  BY <1>9, <1>11
<1>13. \A r \in Run : \/ RecoveredRuns(R)[r] = run[r]
                      \/ run[r] = "running" /\ RecoveredRuns(R)[r] = "failed"
  BY <1>9
<1> QED BY <1>2, <1>4, <1>6, <1>7, <1>10, <1>12, <1>13

(* The runs follow the jobs when some are recovered and none of the others *)
(* starts or stops running.                                                *)
LEMMA RecoveredFollow ==
  ASSUME IInv, NEW R \in SUBSET Stale, run' = RecoveredRuns(R),
         \A k \in Job : /\ job'[k].attempts = job[k].attempts
                        /\ job'[k].state = "running"
                              <=> k \notin R /\ job[k].state = "running"
  PROVE  RunsFollowJobs'
<1> SUFFICES ASSUME NEW k \in Job, NEW m \in Attempt
             PROVE  /\ run'[<<k, m>>] = "none" <=> m > job'[k].attempts
                    /\ run'[<<k, m>>] = "running"
                          <=> job'[k].state = "running" /\ m = job'[k].attempts
  BY DEF RunsFollowJobs
<1>1. /\ run[<<k, m>>] = "none" <=> m > job[k].attempts
      /\ run[<<k, m>>] = "running"
            <=> job[k].state = "running" /\ m = job[k].attempts
  BY DEF IInv, RunsFollowJobs
<1>2. run'[<<k, m>>] = IF k \in R /\ run[<<k, m>>] = "running" THEN "failed"
                       ELSE run[<<k, m>>]
  BY RecoveredFacts
<1> QED BY <1>1, <1>2

LEMMA TickStep ==
  ASSUME IInv, BeginTick
  PROVE  IInv'
<1> DEFINE new == [proc["daemon"] EXCEPT !.pc = "ticking"]
<1>1. /\ proc["daemon"].pc = "idle" /\ writer = None /\ writer' = "daemon"
      /\ job' = RecoveredJobs(Stale) /\ run' = RecoveredRuns(Stale)
      /\ orphaned' = orphaned \ Stale
      /\ proc' = [proc EXCEPT !["daemon"] = new]
      /\ UNCHANGED <<data, crashes>> /\ "daemon" \in Process
  BY DEF BeginTick, TickWriter, Goto, Set, Process
<1>2. proc["daemon"] \in ProcessRecord /\ Shape("daemon", proc["daemon"])
  BY <1>1, ProcessFacts
<1>3. /\ new \in ProcessRecord /\ new.pc = "ticking"
      /\ new.job = proc["daemon"].job /\ new.no = proc["daemon"].no
      /\ new.kept = proc["daemon"].kept
  BY <1>2 DEF ProcessRecord
<1> HIDE DEF new
<1>4. new.job = None /\ Shape("daemon", new)
  BY <1>1, <1>2, <1>3 DEF Shape, Bare, HasRun, Ingesting
<1>5. Contents(new, evidence, observed, captured, objects)
  BY <1>3 DEF Contents, Writing, HasRun, Ingesting
<1>6. /\ proc' \in [Process -> ProcessRecord] /\ Shapes' /\ ContentsAreExact'
      /\ proc'["daemon"] = new /\ proc'["operator"] = proc["operator"]
  BY <1>1, <1>3, <1>4, <1>5, ProcessUpdate DEF Process
<1>7. WriterIsHeld'
  BY <1>1, <1>3, <1>6 DEF IInv, WriterIsHeld
<1>8. /\ job' \in [Job -> JobRecord]
      /\ \A k \in Job : k \notin Stale => job'[k] = job[k]
      /\ \A k \in Stale : /\ job'[k].owner = None /\ job'[k].lease = "none"
                          /\ job'[k].state \in {"queued", "retry_wait", "dead_letter"}
      /\ \A k \in Job : job'[k].attempts = job[k].attempts
      /\ run' \in [Run -> {"none", "running", "succeeded", "empty", "failed"}]
      /\ \A r \in Run : \/ run'[r] = run[r]
                        \/ run[r] = "running" /\ run'[r] = "failed"
  BY <1>1, RecoveredFacts
<1>9. JobsAreOwned'
  BY <1>8 DEF IInv, JobsAreOwned
<1>10. RunsFollowJobs'
  BY <1>1, <1>8, RecoveredFollow
<1>11. ClaimsAreKept'
  <2>1. \A k \in Job : job'[k].owner = "daemon" => k \in orphaned'
    <3> SUFFICES ASSUME NEW k \in Job, job'[k].owner = "daemon" PROVE k \in orphaned'
      OBVIOUS
    <3>1. k \notin Stale /\ job'[k] = job[k]
      BY <1>8
    <3>2. job[k].lease # "stale" /\ proc["daemon"].job # k
      BY <1>3, <1>4, <3>1 DEF Stale
    <3> QED BY <1>1, <3>1, <3>2 DEF IInv, ClaimsAreKept
  <2>2. proc["operator"].pc \in HasRun => proc["operator"].job \in Job
    BY ProcessFacts DEF Process, HasRun, Ingesting, Bare
  <2>3. new.pc \notin {"claimed"} \cup HasRun
    BY <1>3 DEF HasRun, Ingesting
  <2> QED BY <1>6, <1>8, <2>1, <2>2, <2>3 DEF IInv, ClaimsAreKept, Process
<1>12. writer' \in Process \cup {None} /\ orphaned' \subseteq Job
  BY <1>1 DEF IInv, TypeOK
<1> QED BY <1>1, <1>6, <1>7, <1>8, <1>9, <1>10, <1>11, <1>12, JobStep

(* The runs follow the jobs when no job starts or stops running.           *)
LEMMA SameRunsFollow ==
  ASSUME IInv, run' = run,
         \A k \in Job : /\ job'[k].attempts = job[k].attempts
                        /\ job'[k].state = "running" <=> job[k].state = "running"
  PROVE  RunsFollowJobs'
<1> SUFFICES ASSUME NEW k \in Job, NEW m \in Attempt
             PROVE  /\ run'[<<k, m>>] = "none" <=> m > job'[k].attempts
                    /\ run'[<<k, m>>] = "running"
                          <=> job'[k].state = "running" /\ m = job'[k].attempts
  BY DEF RunsFollowJobs
<1>1. /\ run[<<k, m>>] = "none" <=> m > job[k].attempts
      /\ run[<<k, m>>] = "running"
            <=> job[k].state = "running" /\ m = job[k].attempts
  BY DEF IInv, RunsFollowJobs
<1> QED BY <1>1

LEMMA ClaimNextStep ==
  ASSUME IInv, NEW j \in Job, ClaimNext(j)
  PROVE  IInv'
<1> DEFINE new == [Idle EXCEPT !.pc = "claimed", !.job = j]
<1>1. /\ proc["daemon"].pc = "ticking" /\ job[j].state \in {"queued", "retry_wait"}
      /\ job' = [job EXCEPT ![j].state = "claimed", ![j].owner = "daemon",
                            ![j].lease = "live"]
      /\ proc' = [proc EXCEPT !["daemon"] = new]
      /\ UNCHANGED <<run, data, writer, orphaned, crashes>> /\ "daemon" \in Process
  BY DEF ClaimNext, Set, Process
<1>2. /\ new \in ProcessRecord /\ new.pc = "claimed" /\ new.job = j /\ new.no = 0
      /\ new.kept = 0 /\ new.taken = <<>>
  <2>1. \A q \in ProcessRecord :
          LET c == [q EXCEPT !.pc = "claimed", !.job = j]
          IN  /\ c \in ProcessRecord /\ c.pc = "claimed" /\ c.job = j
              /\ c.no = q.no /\ c.kept = q.kept /\ c.taken = q.taken
    BY DEF ProcessRecord
  <2> QED BY <2>1, IdleFacts
<1> HIDE DEF new
<1>3. Shape("daemon", new)
  BY <1>2 DEF Shape, Bare, HasRun, Ingesting
<1>4. Contents(new, evidence, observed, captured, objects)
  BY <1>2 DEF Contents, Writing, HasRun, Ingesting
<1>5. /\ proc' \in [Process -> ProcessRecord] /\ Shapes' /\ ContentsAreExact'
      /\ proc'["daemon"] = new /\ proc'["operator"] = proc["operator"]
  BY <1>1, <1>2, <1>3, <1>4, ProcessUpdate DEF Process
<1>6. WriterIsHeld'
  BY <1>1, <1>2, <1>5 DEF IInv, WriterIsHeld
<1>7. /\ job' \in [Job -> JobRecord] /\ \A k \in Job : k # j => job'[k] = job[k]
      /\ job'[j].state = "claimed" /\ job'[j].owner = "daemon"
      /\ job'[j].lease = "live" /\ job'[j].attempts = job[j].attempts
  <2>1. job \in [Job -> JobRecord] /\ job[j] \in JobRecord
    BY JobFacts
  <2>2. \A q \in JobRecord :
          LET c == [q EXCEPT !.state = "claimed", !.owner = "daemon", !.lease = "live"]
          IN  /\ c \in JobRecord /\ c.state = "claimed" /\ c.owner = "daemon"
              /\ c.lease = "live" /\ c.attempts = q.attempts
    BY DEF JobRecord, Process
  <2> DEFINE c == [job[j] EXCEPT !.state = "claimed", !.owner = "daemon",
                                 !.lease = "live"]
  <2>3. job' = [job EXCEPT ![j] = c]
    BY <1>1, <2>1
  <2>4. /\ c \in JobRecord /\ c.state = "claimed" /\ c.owner = "daemon"
        /\ c.lease = "live" /\ c.attempts = job[j].attempts
    BY <2>1, <2>2
  <2> HIDE DEF c
  <2>5. job'[j] = c /\ \A k \in Job : k # j => job'[k] = job[k]
    BY <2>1, <2>3
  <2>6. job' \in [Job -> JobRecord]
    BY <2>1, <2>3, <2>4
  <2> QED BY <2>4, <2>5, <2>6
<1>8. JobsAreOwned'
  BY <1>1, <1>7 DEF IInv, JobsAreOwned
<1>9. RunsFollowJobs'
  BY <1>1, <1>7, SameRunsFollow
<1>10. ClaimsAreKept'
  <2>1. proc["daemon"].job = None
    BY <1>1, ProcessFacts DEF Shape, Bare
  <2>2. \A k \in Job : job'[k].owner = "daemon" =>
          job'[k].lease = "stale" \/ k \in orphaned' \/ proc'["daemon"].job = k
    BY <1>1, <1>2, <1>5, <1>7, <2>1 DEF IInv, ClaimsAreKept
  <2>3. new.pc \notin HasRun
    BY <1>2 DEF HasRun, Ingesting
  <2>4. proc["operator"].pc \in HasRun => proc["operator"].job \in Job
    BY ProcessFacts DEF Process, HasRun, Ingesting, Bare
  <2>5. \A k \in Job : job'[k].attempts = job[k].attempts
    BY <1>7
  <2> QED BY <1>2, <1>5, <1>7, <2>2, <2>3, <2>4, <2>5
          DEF IInv, ClaimsAreKept, Process
<1>11. /\ run' \in [Run -> {"none", "running", "succeeded", "empty", "failed"}]
       /\ writer' \in Process \cup {None} /\ orphaned' \subseteq Job
       /\ \A r \in Run : run'[r] = run[r]
  BY <1>1 DEF IInv, TypeOK
<1> QED BY <1>1, <1>5, <1>6, <1>7, <1>8, <1>9, <1>10, <1>11, JobStep

(* A claim becomes a run with a number that no process has.                *)
LEMMA StartedStep ==
  ASSUME IInv, NEW p \in Process, proc[p].pc = "claimed",
         NEW c \in {"capturing", "checking", "persisting"}, Started(p, c),
         c = "capturing" <=> p = "daemon",
         p = "operator" => MayWrite(p),
         UNCHANGED <<data, writer, orphaned, crashes>>
  PROVE  IInv'
<1> DEFINE d   == proc[p]
           j   == proc[p].job
           n   == job[j].attempts + 1
           new == [d EXCEPT !.pc = c, !.no = n]
<1>1. /\ job[j].state = "claimed" /\ job[j].owner = p /\ n \in Attempt
      /\ job' = [job EXCEPT ![j].state = "running", ![j].attempts = n]
      /\ run' = [run EXCEPT ![<<j, n>>] = "running"]
      /\ proc' = [proc EXCEPT ![p] = new]
  BY DEF Started, Set
<1>2. /\ d \in ProcessRecord /\ Shape(p, d) /\ j \in Job
      /\ job[j].attempts \in Nat /\ n \in Nat /\ Family[j] \in Families
  BY ProcessFacts, JobFacts DEF Bare
<1>3. /\ new \in ProcessRecord /\ new.pc = c /\ new.no = n /\ new.job = j
      /\ new.taken = d.taken /\ new.kept = d.kept
  BY <1>1, <1>2 DEF ProcessRecord, Ingesting
<1>4. <<j, n>> \in Run /\ run[<<j, n>>] = "none"
  BY <1>1, <1>2 DEF IInv, RunsFollowJobs, Run
<1> HIDE DEF new, n
<1>5. Shape(p, new)
  <2>1. d.kept = 0 /\ j # None /\ n # 0
    BY <1>1, <1>2, AttemptNat DEF Shape, Ingesting, Bare
  <2>2. CASE p = "daemon"
    <3>1. new.pc = "capturing" /\ d.taken = <<>>
      BY <1>2, <1>3, <2>2 DEF Shape
    <3>2. Len(new.taken) = 0
      BY <1>3, <3>1, EmptySeq
    <3>3. Len(Capture(Family[new.job])) \in 1 .. 3
      BY <1>2, <1>3, CaptureLength
    <3>4. Len(new.taken) <= Len(Capture(Family[new.job]))
      BY <3>2, <3>3
    <3> QED BY <1>3, <2>1, <2>2, <3>1, <3>4 DEF Shape, Bare, HasRun, Ingesting
  <2>3. CASE p = "operator"
    <3>1. new.pc \in {"checking", "persisting"}
      BY <1>3, <2>3
    <3>2. Sized(Family[new.job], Len(new.taken))
      BY <1>2, <1>3, <2>3 DEF Shape
    <3>3. \A f \in Families : \A m : Sized(f, m) => m \in 1 .. 3
      BY IngestFacts
    <3>5. Family[new.job] \in Families /\ new.kept = 0
      BY <1>2, <1>3, <2>1
    <3>6. Len(new.taken) \in 1 .. 3
      BY <3>2, <3>3, <3>5
    <3>4. new.kept < Len(new.taken)
      BY <3>5, <3>6, SMTT(30)
    <3> QED BY <1>3, <2>1, <2>3, <3>1, <3>2, <3>4
            DEF Shape, Bare, HasRun, Ingesting
  <2> QED BY <2>2, <2>3 DEF Process
<1>6. Contents(new, evidence, observed, captured, objects)
  <2>1. new.kept = 0
    BY <1>2, <1>3 DEF Shape, Ingesting
  <2>2. /\ \A e \in evidence : e.run # <<j, n>>
        /\ \A o \in observed : o.run # <<j, n>>
        /\ \A x \in captured : x.run # <<j, n>>
    BY <1>4 DEF IInv, DataIsOfRuns
  <2>3. \A roles, taken : Kept(<<j, n>>, roles, taken, 0, evidence, captured)
    BY <2>2 DEF Kept
  <2>4. Seen(<<j, n>>, {}, observed)
    BY <2>2 DEF Seen
  <2> QED BY <1>3, <2>1, <2>3, <2>4 DEF Contents
<1>7. /\ proc' \in [Process -> ProcessRecord] /\ Shapes' /\ ContentsAreExact'
      /\ proc'[p] = new /\ \A q \in Process : q # p => proc'[q] = proc[q]
  BY <1>1, <1>3, <1>5, <1>6, ProcessUpdate
<1>8. new.pc \in HasRun \ {"publishing"}
  BY <1>3 DEF HasRun, Ingesting
<1>9. WriterIsHeld'
  <2>1. CASE p = "daemon"
    BY <1>7, <1>8, <2>1 DEF IInv, WriterIsHeld, Process
  <2>2. CASE p = "operator"
    BY <1>7, <1>8, <2>2 DEF IInv, WriterIsHeld, Process
  <2> QED BY <2>1, <2>2 DEF Process
<1>10. /\ job' \in [Job -> JobRecord] /\ \A k \in Job : k # j => job'[k] = job[k]
       /\ job'[j].state = "running" /\ job'[j].owner = p
       /\ job'[j].lease = job[j].lease /\ job'[j].attempts = n
  <2>1. job \in [Job -> JobRecord] /\ job[j] \in JobRecord
    BY <1>2, JobFacts
  <2> QED BY <1>1, <1>2, <2>1 DEF JobRecord
<1>11. /\ run' \in [Run -> {"none", "running", "succeeded", "empty", "failed"}]
       /\ run'[<<j, n>>] = "running"
       /\ \A r \in Run : r # <<j, n>> => run'[r] = run[r]
  BY <1>1, <1>4 DEF IInv, TypeOK
<1>12. JobsAreOwned'
  BY <1>1, <1>10 DEF IInv, JobsAreOwned
<1>13. RunsFollowJobs'
  <2> SUFFICES ASSUME NEW k \in Job, NEW m \in Attempt
               PROVE  /\ run'[<<k, m>>] = "none" <=> m > job'[k].attempts
                      /\ run'[<<k, m>>] = "running"
                            <=> job'[k].state = "running" /\ m = job'[k].attempts
    BY DEF RunsFollowJobs
  <2>1. /\ run[<<k, m>>] = "none" <=> m > job[k].attempts
        /\ run[<<k, m>>] = "running"
              <=> job[k].state = "running" /\ m = job[k].attempts
    BY DEF IInv, RunsFollowJobs
  <2>2. <<k, m>> \in Run /\ m \in Nat
    BY AttemptNat DEF Run
  <2>3. n = job[j].attempts + 1
    BY DEF n
  <2>4. CASE k # j
    BY <1>10, <1>11, <2>1, <2>2, <2>4
  <2>5. CASE k = j /\ m # n
    <3>1. run'[<<k, m>>] = run[<<k, m>>]
      BY <1>11, <2>2, <2>5
    <3>2. run[<<k, m>>] # "running"
      BY <1>1, <2>1, <2>5
    <3>3. m > job[j].attempts <=> m > n
      BY <1>2, <2>2, <2>3, <2>5
    <3> QED BY <1>10, <2>1, <2>5, <3>1, <3>2, <3>3
  <2>6. CASE k = j /\ m = n
    BY <1>10, <1>11, <2>2, <2>6
  <2> QED BY <2>4, <2>5, <2>6
<1>14. \A k \in Job : job'[k].attempts \in Nat /\ job'[k].attempts >= job[k].attempts
  BY <1>2, <1>10, JobFacts DEF n
<1>15. \A q \in Process : q # p /\ proc[q].pc \in HasRun /\ proc[q].job = j
                             => proc[q].no <= job[j].attempts
  <2> SUFFICES ASSUME NEW q \in Process, proc[q].pc \in HasRun, proc[q].job = j
               PROVE  proc[q].no <= job[j].attempts
    OBVIOUS
  <2>1. CASE q = "daemon"
    <3>1. proc[q].no = job[j].attempts
      BY <2>1 DEF IInv, ClaimsAreKept, Owns
    <3> QED BY <1>2, <3>1
  <2>2. CASE q = "operator"
    BY <2>2 DEF IInv, ClaimsAreKept
  <2> QED BY <2>1, <2>2 DEF Process
<1>16. ClaimsAreKept'
  <2>1. CASE p = "daemon"
    <3>1. proc'["daemon"] = new /\ proc'["operator"] = proc["operator"]
      BY <1>7, <2>1 DEF Process
    <3>2. Owns("daemon")'
      BY <1>3, <1>10, <2>1, <3>1 DEF Owns
    <3>3. \A k \in Job : job'[k].owner = "daemon" =>
            job'[k].lease = "stale" \/ k \in orphaned' \/ proc'["daemon"].job = k
      BY <1>3, <1>10, <2>1, <3>1 DEF IInv, ClaimsAreKept
    <3>4. proc'["operator"].pc \in HasRun =>
            proc'["operator"].no <= job'[proc'["operator"].job].attempts
      <4> SUFFICES ASSUME proc["operator"].pc \in HasRun
                   PROVE  proc["operator"].no <= job'[proc["operator"].job].attempts
        BY <3>1
      <4>1. proc["operator"].job \in Job /\ proc["operator"].no \in Nat
        BY ProcessFacts DEF Process, HasRun, Ingesting, Bare
      <4>2. proc["operator"].no <= job[proc["operator"].job].attempts
        BY DEF IInv, ClaimsAreKept
      <4> QED BY <1>14, <4>1, <4>2, JobFacts
    <3>5. proc["operator"].pc \in HasRun =>
            <<proc["operator"].job, proc["operator"].no>> # <<j, n>>
      BY <1>2, <1>15, <2>1, ProcessFacts DEF Process, n
    <3>6. proc'["daemon"].pc # "claimed"
      BY <1>3, <3>1
    <3> QED BY <1>3, <3>1, <3>2, <3>3, <3>4, <3>5, <3>6
            DEF ClaimsAreKept, Process, RunOf
  <2>2. CASE p = "operator"
    <3>1. proc'["operator"] = new /\ proc'["daemon"] = proc["daemon"]
      BY <1>7, <2>2 DEF Process
    <3>2. proc["daemon"].pc \notin {"claimed"} \cup HasRun
      BY <2>2 DEF IInv, WriterIsHeld, MayWrite
    <3>3. \A k \in Job : job'[k].owner = "daemon" =>
            job'[k].lease = "stale" \/ k \in orphaned' \/ proc'["daemon"].job = k
      BY <1>3, <1>10, <2>2, <3>1 DEF IInv, ClaimsAreKept
    <3>4. proc'["operator"].no <= job'[proc'["operator"].job].attempts
      BY <1>2, <1>3, <1>10, <3>1 DEF n
    <3> QED BY <3>1, <3>2, <3>3, <3>4 DEF ClaimsAreKept, Process
  <2> QED BY <2>1, <2>2 DEF Process
<1>17. writer' \in Process \cup {None} /\ orphaned' \subseteq Job
  BY DEF IInv, TypeOK
<1>18. \A r \in Run : \/ run'[r] = run[r]
                      \/ /\ run[r] \in {"none", "running"}
                         /\ run'[r] \in {"running", "failed"}
  BY <1>4, <1>11
<1> QED BY <1>7, <1>9, <1>10, <1>11, <1>12, <1>13, <1>16, <1>17, <1>18, JobStep

LEMMA StartSteps ==
  ASSUME IInv, StartRun \/ StartOwn
  PROVE  IInv'
<1>1. CASE StartRun
  <2>1. /\ proc["daemon"].pc = "claimed" /\ Started("daemon", "capturing")
        /\ UNCHANGED <<data, writer, orphaned, crashes>> /\ "daemon" \in Process
    BY <1>1 DEF StartRun, Process
  <2> QED BY <2>1, StartedStep
<1>2. CASE StartOwn
  <2> DEFINE c == IF RunFirst(proc["operator"].job) THEN "checking" ELSE "persisting"
  <2>1. /\ proc["operator"].pc = "claimed" /\ Started("operator", c)
        /\ MayWrite("operator")
        /\ UNCHANGED <<data, writer, orphaned, crashes>> /\ "operator" \in Process
    BY <1>2 DEF StartOwn, Process
  <2>2. c \in {"checking", "persisting"}
    OBVIOUS
  <2> HIDE DEF c
  <2> QED BY <2>1, <2>2, StartedStep
<1> QED BY <1>1, <1>2

LEMMA ExpireStep ==
  ASSUME IInv, NEW j \in Job, Expire(j)
  PROVE  IInv'
<1>1. /\ job[j].lease = "live" /\ job' = [job EXCEPT ![j].lease = "stale"]
      /\ UNCHANGED <<run, data, proc, writer, orphaned, crashes>>
  BY DEF Expire
<1>2. /\ job' \in [Job -> JobRecord] /\ \A k \in Job : k # j => job'[k] = job[k]
      /\ job'[j].state = job[j].state /\ job'[j].owner = job[j].owner
      /\ job'[j].lease = "stale" /\ job'[j].attempts = job[j].attempts
  <2>1. job \in [Job -> JobRecord] /\ job[j] \in JobRecord
    BY JobFacts
  <2>2. \A q \in JobRecord :
          LET c == [q EXCEPT !.lease = "stale"]
          IN  /\ c \in JobRecord /\ c.state = q.state /\ c.owner = q.owner
              /\ c.lease = "stale" /\ c.attempts = q.attempts
    BY DEF JobRecord
  <2>3. job' = [job EXCEPT ![j] = [job[j] EXCEPT !.lease = "stale"]]
    BY <1>1, <2>1
  <2> QED BY <2>1, <2>2, <2>3
<1>3. \A k \in Job : /\ job'[k].state = job[k].state
                     /\ job'[k].owner = job[k].owner
                     /\ job'[k].attempts = job[k].attempts
                     /\ job'[k].lease = job[k].lease \/ job'[k].lease = "stale"
  BY <1>2
<1>4. JobsAreOwned'
  BY <1>1, <1>2 DEF IInv, JobsAreOwned
<1>5. RunsFollowJobs'
  BY <1>1, <1>3, SameRunsFollow
<1>6. \A p \in Process : proc[p].pc \in HasRun \cup {"claimed"} => proc[p].job \in Job
  BY ProcessFacts DEF HasRun, Ingesting, Bare
<1>7. ClaimsAreKept'
  <2>1. /\ proc["daemon"].pc = "claimed" =>
              /\ job'[proc["daemon"].job].state = "claimed"
              /\ job'[proc["daemon"].job].owner = "daemon"
        /\ proc["daemon"].pc \in HasRun => Owns("daemon")'
    BY <1>1, <1>3, <1>6 DEF IInv, ClaimsAreKept, Owns, Process
  <2>2. \A k \in Job : job'[k].owner = "daemon" =>
          job'[k].lease = "stale" \/ k \in orphaned \/ proc["daemon"].job = k
    BY <1>3 DEF IInv, ClaimsAreKept
  <2>3. proc["operator"].pc \in HasRun =>
          proc["operator"].no <= job'[proc["operator"].job].attempts
    BY <1>3, <1>6 DEF IInv, ClaimsAreKept, Process
  <2> QED BY <1>1, <2>1, <2>2, <2>3 DEF IInv, ClaimsAreKept, RunOf
<1>8. /\ proc' \in [Process -> ProcessRecord] /\ Shapes' /\ ContentsAreExact'
      /\ writer' \in Process \cup {None} /\ orphaned' \subseteq Job
      /\ run' \in [Run -> {"none", "running", "succeeded", "empty", "failed"}]
      /\ \A r \in Run : run'[r] = run[r]
  BY <1>1 DEF IInv, TypeOK, Shapes, ContentsAreExact, data
<1>9. WriterIsHeld'
  BY <1>1 DEF IInv, WriterIsHeld
<1> QED BY <1>1, <1>2, <1>4, <1>5, <1>7, <1>8, <1>9, JobStep

(* The artifacts of an operator's process are as many as its life cycle    *)
(* reads.                                                                  *)
LEMMA ArtifactsFacts ==
  ASSUME NEW j \in Job, Kind[j] \in {"fixture", "reparse"},
         NEW taken \in Artifacts(j)
  PROVE  taken \in Seq(Content) /\ Sized(Family[j], Len(taken))
<1>1. Family[j] \in Families /\ Published[Family[j]] \subseteq Content
  OBVIOUS
<1>2. CASE Kind[j] = "fixture"
  <2>1. taken \in [1 .. 1 -> Content]
    BY <1>1, <1>2 DEF Artifacts
  <2>2. taken \in Seq(Content) /\ Len(taken) = 1
    <3>1. \A n \in Nat : taken \in [1 .. n -> Content] =>
             taken \in Seq(Content) /\ Len(taken) = n
      OBVIOUS
    <3> QED BY <2>1, <3>1
  <2>3. Len(Capture(Family[j])) = 1
    <3>1. Family[j] = "bank_rate"
      BY <1>2
    <3> QED BY <3>1 DEF Capture, BankRateCapture
  <2> QED BY <2>2, <2>3 DEF Sized
<1>3. CASE Kind[j] = "reparse"
  <2>1. /\ taken \in UNION {[1 .. n -> Content] : n \in 1 .. 2}
        /\ Replayable(j, taken)
    BY <1>3 DEF Artifacts
  <2>2. PICK n \in 1 .. 2 : taken \in [1 .. n -> Content]
    BY <2>1
  <2>3. taken \in Seq(Content)
    BY <2>2
  <2>4. Len(taken) = Len(Replay(Family[j]))
    BY <2>1 DEF Replayable
  <2> QED BY <2>3, <2>4 DEF Sized
<1> QED BY <1>2, <1>3

LEMMA EnqueueStep ==
  ASSUME IInv, NEW j \in Job, EnqueueOwn(j)
  PROVE  IInv'
<1>1. PICK taken \in Artifacts(j) :
         Set("operator", [Idle EXCEPT !.pc = "enqueued", !.job = j, !.taken = taken])
  BY DEF EnqueueOwn
<1> DEFINE new == [Idle EXCEPT !.pc = "enqueued", !.job = j, !.taken = taken]
<1>2. /\ proc["operator"].pc = "idle" /\ job[j].state = "absent"
      /\ Kind[j] \in {"fixture", "reparse"}
      /\ job' = [job EXCEPT ![j].state = "queued"]
      /\ proc' = [proc EXCEPT !["operator"] = new]
      /\ UNCHANGED <<run, data, writer, orphaned, crashes>> /\ "operator" \in Process
  BY <1>1 DEF EnqueueOwn, Set, Process
<1>3. taken \in Seq(Content) /\ Sized(Family[j], Len(taken))
  BY <1>1, <1>2, ArtifactsFacts
<1>4. /\ new \in ProcessRecord /\ new.pc = "enqueued" /\ new.job = j /\ new.no = 0
      /\ new.kept = 0 /\ new.taken = taken
  <2>1. \A q \in ProcessRecord :
          LET c == [q EXCEPT !.pc = "enqueued", !.job = j, !.taken = taken]
          IN  /\ c \in ProcessRecord /\ c.pc = "enqueued" /\ c.job = j
              /\ c.no = q.no /\ c.kept = q.kept /\ c.taken = taken
    BY <1>3 DEF ProcessRecord
  <2> QED BY <2>1, IdleFacts
<1> HIDE DEF new
<1>5. Shape("operator", new)
  BY <1>3, <1>4 DEF Shape, Bare, HasRun, Ingesting
<1>6. Contents(new, evidence, observed, captured, objects)
  BY <1>4 DEF Contents, Writing, HasRun, Ingesting
<1>7. /\ proc' \in [Process -> ProcessRecord] /\ Shapes' /\ ContentsAreExact'
      /\ proc'["operator"] = new /\ proc'["daemon"] = proc["daemon"]
  BY <1>2, <1>4, <1>5, <1>6, ProcessUpdate DEF Process
<1>8. WriterIsHeld'
  BY <1>2, <1>4, <1>7 DEF IInv, WriterIsHeld
<1>9. /\ job' \in [Job -> JobRecord] /\ \A k \in Job : k # j => job'[k] = job[k]
      /\ job'[j].state = "queued" /\ job'[j].owner = job[j].owner
      /\ job'[j].lease = job[j].lease /\ job'[j].attempts = job[j].attempts
  <2>1. job \in [Job -> JobRecord] /\ job[j] \in JobRecord
    BY JobFacts
  <2>2. \A q \in JobRecord :
          LET c == [q EXCEPT !.state = "queued"]
          IN  /\ c \in JobRecord /\ c.state = "queued" /\ c.owner = q.owner
              /\ c.lease = q.lease /\ c.attempts = q.attempts
    BY DEF JobRecord
  <2>3. job' = [job EXCEPT ![j] = [job[j] EXCEPT !.state = "queued"]]
    BY <1>2, <2>1
  <2> QED BY <2>1, <2>2, <2>3
<1>10. JobsAreOwned'
  BY <1>2, <1>9 DEF IInv, JobsAreOwned
<1>11. RunsFollowJobs'
  BY <1>2, <1>9, SameRunsFollow
<1>12. \A k \in Job : /\ job'[k].owner = job[k].owner /\ job'[k].lease = job[k].lease
                      /\ job'[k].attempts = job[k].attempts
                      /\ job[k].state # "absent" => job'[k].state = job[k].state
  BY <1>2, <1>9
<1>13. ClaimsAreKept'
  <2>1. proc["daemon"].pc \in HasRun \cup {"claimed"} => proc["daemon"].job \in Job
    BY ProcessFacts DEF HasRun, Ingesting, Bare, Process
  <2>2. /\ proc["daemon"].pc = "claimed" =>
              /\ job'[proc["daemon"].job].state = "claimed"
              /\ job'[proc["daemon"].job].owner = "daemon"
        /\ proc["daemon"].pc \in HasRun => Owns("daemon")'
    BY <1>7, <1>12, <2>1 DEF IInv, ClaimsAreKept, Owns, Process
  <2>3. \A k \in Job : job'[k].owner = "daemon" =>
          job'[k].lease = "stale" \/ k \in orphaned' \/ proc'["daemon"].job = k
    BY <1>2, <1>7, <1>12 DEF IInv, ClaimsAreKept
  <2>4. new.pc \notin HasRun
    BY <1>4 DEF HasRun, Ingesting
  <2> QED BY <1>7, <2>2, <2>3, <2>4 DEF ClaimsAreKept, Process
<1>14. /\ run' \in [Run -> {"none", "running", "succeeded", "empty", "failed"}]
       /\ writer' \in Process \cup {None} /\ orphaned' \subseteq Job
       /\ \A r \in Run : run'[r] = run[r]
  BY <1>2 DEF IInv, TypeOK
<1> QED BY <1>2, <1>7, <1>8, <1>9, <1>10, <1>11, <1>13, <1>14, JobStep

(* A claim for one job: while the operator's process may write, the daemon *)
(* is between two ticks, so what is recovered is not what it works on.     *)
LEMMA ClaimOwnStep ==
  ASSUME IInv, NEW R \in SUBSET Stale, NEW lease \in {"live", "stale"},
         ClaimOwn(R, lease)
  PROVE  IInv'
<1> DEFINE o   == proc["operator"]
           j   == proc["operator"].job
           rec == RecoveredJobs(R)
           new == [o EXCEPT !.pc = "claimed"]
<1>1. /\ o.pc = "enqueued" /\ MayWrite("operator") /\ rec[j].state = "queued"
      /\ job' = [rec EXCEPT ![j].state = "claimed", ![j].owner = "operator",
                            ![j].lease = lease]
      /\ run' = RecoveredRuns(R) /\ orphaned' = orphaned \ R
      /\ proc' = [proc EXCEPT !["operator"] = new]
      /\ UNCHANGED <<data, writer, crashes>> /\ "operator" \in Process
  BY DEF ClaimOwn, Goto, Set, Process
<1>2. o \in ProcessRecord /\ Shape("operator", o) /\ j \in Job
  BY <1>1, ProcessFacts DEF Bare
<1>3. /\ new \in ProcessRecord /\ new.pc = "claimed" /\ new.job = j
      /\ new.no = o.no /\ new.kept = o.kept /\ new.taken = o.taken
  BY <1>2 DEF ProcessRecord
<1>4. /\ rec \in [Job -> JobRecord] /\ rec[j] \in JobRecord
      /\ \A k \in Job : k \notin R => rec[k] = job[k]
      /\ \A k \in R : /\ rec[k].owner = None /\ rec[k].lease = "none"
                      /\ rec[k].state \in {"queued", "retry_wait", "dead_letter"}
      /\ \A k \in Job : rec[k].attempts = job[k].attempts
      /\ run' \in [Run -> {"none", "running", "succeeded", "empty", "failed"}]
      /\ \A r \in Run : \/ run'[r] = run[r]
                        \/ run[r] = "running" /\ run'[r] = "failed"
  BY <1>1, <1>2, RecoveredFacts
<1> HIDE DEF new, rec
<1>5. Shape("operator", new)
  BY <1>1, <1>2, <1>3 DEF Shape, Bare, HasRun, Ingesting
<1>6. Contents(new, evidence, observed, captured, objects)
  BY <1>3 DEF Contents, Writing, HasRun, Ingesting
<1>7. /\ proc' \in [Process -> ProcessRecord] /\ Shapes' /\ ContentsAreExact'
      /\ proc'["operator"] = new /\ proc'["daemon"] = proc["daemon"]
  BY <1>1, <1>3, <1>5, <1>6, ProcessUpdate DEF Process
<1>8. WriterIsHeld'
  BY <1>1, <1>3, <1>7 DEF IInv, WriterIsHeld
<1>9. /\ job' \in [Job -> JobRecord] /\ \A k \in Job : k # j => job'[k] = rec[k]
      /\ job'[j].state = "claimed" /\ job'[j].owner = "operator"
      /\ job'[j].lease = lease /\ job'[j].attempts = job[j].attempts
  <2>1. \A q \in JobRecord :
          LET c == [q EXCEPT !.state = "claimed", !.owner = "operator",
                             !.lease = lease]
          IN  /\ c \in JobRecord /\ c.state = "claimed" /\ c.owner = "operator"
              /\ c.lease = lease /\ c.attempts = q.attempts
    BY DEF JobRecord, Process
  <2> DEFINE c == [rec[j] EXCEPT !.state = "claimed", !.owner = "operator",
                                 !.lease = lease]
  <2>2. job' = [rec EXCEPT ![j] = c]
    BY <1>1, <1>2, <1>4
  <2>3. /\ c \in JobRecord /\ c.state = "claimed" /\ c.owner = "operator"
        /\ c.lease = lease /\ c.attempts = rec[j].attempts
    BY <1>4, <2>1
  <2> HIDE DEF c
  <2>4. job'[j] = c /\ \A k \in Job : k # j => job'[k] = rec[k]
    BY <1>2, <1>4, <2>2
  <2>5. job' \in [Job -> JobRecord]
    BY <1>2, <1>4, <2>2, <2>3
  <2> QED BY <1>2, <1>4, <2>3, <2>4, <2>5
<1>10. JobsAreOwned'
  <2> SUFFICES ASSUME NEW k \in Job
               PROVE  /\ job'[k].owner # None <=> job'[k].state \in {"claimed", "running"}
                      /\ job'[k].owner # None <=> job'[k].lease # "none"
    BY DEF JobsAreOwned
  <2>1. CASE k = j
    BY <1>9, <2>1
  <2>2. CASE k # j /\ k \in R
    BY <1>4, <1>9, <2>2
  <2>3. CASE k # j /\ k \notin R
    BY <1>4, <1>9, <2>3 DEF IInv, JobsAreOwned
  <2> QED BY <2>1, <2>2, <2>3
<1>11. RunsFollowJobs'
  <2>1. ASSUME NEW k \in Job
        PROVE  job'[k].state = "running" <=> k \notin R /\ job[k].state = "running"
    <3>1. CASE k = j
      BY <1>1, <1>4, <1>9, <3>1
    <3>2. CASE k # j
      BY <1>4, <1>9, <3>2
    <3> QED BY <3>1, <3>2
  <2>2. \A k \in Job : job'[k].attempts = job[k].attempts
    BY <1>4, <1>9
  <2> QED BY <1>1, <2>1, <2>2, RecoveredFollow
<1>12. ClaimsAreKept'
  <2>1. proc'["daemon"].pc \notin {"claimed"} \cup HasRun
    BY <1>1, <1>7 DEF IInv, WriterIsHeld, MayWrite
  <2>2. ASSUME NEW k \in Job, job'[k].owner = "daemon"
        PROVE  job'[k].lease = "stale" \/ k \in orphaned' \/ proc'["daemon"].job = k
    <3>1. k # j /\ k \notin R /\ job'[k] = job[k]
      BY <1>4, <1>9, <2>2
    <3> QED BY <1>1, <1>7, <2>2, <3>1 DEF IInv, ClaimsAreKept
  <2>3. proc'["operator"].pc \notin HasRun
    BY <1>3, <1>7 DEF HasRun, Ingesting
  <2> QED BY <2>1, <2>2, <2>3 DEF ClaimsAreKept, Process
<1>13. writer' \in Process \cup {None} /\ orphaned' \subseteq Job
  BY <1>1 DEF IInv, TypeOK
<1> QED BY <1>1, <1>4, <1>7, <1>8, <1>9, <1>10, <1>11, <1>12, <1>13, JobStep

-----------------------------------------------------------------------------
(* Steps that store something of a run.                                    *)

(* What is stored of run r is nothing of the run of q.                     *)
LEMMA ContentsOfOthers ==
  ASSUME NEW q, NEW r, q.pc \in Writing => <<q.job, q.no>> # r,
         Contents(q, evidence, observed, captured, objects),
         evidence \subseteq evidence', observed \subseteq observed',
         captured \subseteq captured', objects \subseteq objects',
         \A e \in evidence' \ evidence : e.run = r,
         \A o \in observed' \ observed : o.run = r,
         \A x \in captured' \ captured : x.run = r
  PROVE  Contents(q, evidence', observed', captured', objects')
<1> SUFFICES ASSUME q.pc \in Writing
             PROVE  Contents(q, evidence', observed', captured', objects')
  BY DEF Contents
<1> DEFINE r1 == <<q.job, q.no>>
<1>1. r1 # r
  OBVIOUS
<1> HIDE DEF r1
<1>2. \A roles, taken, n : Kept(r1, roles, taken, n, evidence, captured)
                              => Kept(r1, roles, taken, n, evidence', captured')
  <2> SUFFICES ASSUME NEW roles, NEW taken, NEW n,
                      Kept(r1, roles, taken, n, evidence, captured)
               PROVE  Kept(r1, roles, taken, n, evidence', captured')
    OBVIOUS
  <2>1. \A e \in evidence' : e.run = r1 => e \in evidence
    BY <1>1
  <2>2. \A x \in captured' : x.run = r1 => x \in captured
    BY <1>1
  <2> QED BY <2>1, <2>2 DEF Kept
<1>3. \A records : Seen(r1, records, observed) => Seen(r1, records, observed')
  <2> SUFFICES ASSUME NEW records, Seen(r1, records, observed)
               PROVE  Seen(r1, records, observed')
    OBVIOUS
  <2>1. \A o \in observed' : o.run = r1 => o \in observed
    BY <1>1
  <2> QED BY <2>1 DEF Seen
<1> QED BY <1>2, <1>3 DEF Contents, r1

(* A process that owns its claim adds to what is stored of its run.        *)
LEMMA StoreStep ==
  ASSUME IInv, NEW p \in Process, proc[p].pc \in HasRun, Owns(p),
         NEW new \in ProcessRecord, Shape(p, new), new.pc \in HasRun,
         new.job = proc[p].job, new.no = proc[p].no,
         proc' = [proc EXCEPT ![p] = new],
         UNCHANGED <<planned, job, run, promoted, orphaned, crashes>>,
         writer' \in Process \cup {None}, WriterIsHeld',
         objects \subseteq objects', objects' \subseteq Content,
         evidence \subseteq evidence',
         \A e \in evidence' \ evidence :
            /\ e \in [run : Run, role : Roles, content : Content]
            /\ e.run = RunOf(p) /\ e.content \in objects',
         observed \subseteq observed',
         \A o \in observed' \ observed :
            /\ o \in [run : Run, record : Record, cites : SUBSET Roles]
            /\ o.run = RunOf(p)
            /\ \A role \in o.cites : \E e \in evidence : e.run = o.run /\ e.role = role,
         captured \subseteq captured',
         \A x \in captured' \ captured :
            x \in [run : Run, content : Content] /\ x.run = RunOf(p),
         Contents(new, evidence', observed', captured', objects')
  PROVE  IInv'
<1> DEFINE r0 == RunOf(p)
<1>1. r0 \in Run /\ run[r0] = "running" /\ r0 = <<proc[p].job, proc[p].no>>
  BY OwnedRun DEF RunOf
<1>2. /\ proc' \in [Process -> ProcessRecord]
      /\ proc'[p] = new /\ \A q \in Process : q # p => proc'[q] = proc[q]
  BY DEF IInv, TypeOK
<1>3. TypeOK'
  <2>1. evidence' \subseteq [run : Run, role : Roles, content : Content]
    BY DEF IInv, TypeOK
  <2>2. observed' \subseteq [run : Run, record : Record, cites : SUBSET Roles]
    BY DEF IInv, TypeOK
  <2>3. captured' \subseteq [run : Run, content : Content]
    BY DEF IInv, TypeOK
  <2> QED BY <1>2, <2>1, <2>2, <2>3 DEF IInv, TypeOK
<1>4. Shapes'
  BY <1>2 DEF IInv, Shapes
<1>5. JobsAreOwned' /\ RunsFollowJobs'
  BY DEF IInv, JobsAreOwned, RunsFollowJobs
<1>6. /\ \A e \in evidence' : e \in evidence \/ e.run = r0
      /\ \A o \in observed' : o \in observed \/ o.run = r0
      /\ \A x \in captured' : x \in captured \/ x.run = r0
  OBVIOUS
<1> HIDE DEF r0
<1>7. DataIsOfRuns'
  <2>1. run' = run
    OBVIOUS
  <2> QED BY <1>1, <1>6, <2>1 DEF IInv, DataIsOfRuns
<1>8. EvidenceIsBacked'
  BY DEF IInv, EvidenceIsBacked
<1>9. ObservationsAreEvidenced'
  <2> SUFFICES ASSUME NEW o \in observed', NEW role \in o.cites
               PROVE  \E e \in evidence' : e.run = o.run /\ e.role = role
    BY DEF ObservationsAreEvidenced
  <2>1. \E e \in evidence : e.run = o.run /\ e.role = role
    BY DEF IInv, ObservationsAreEvidenced
  <2> QED BY <2>1
<1>10. CapturesAreEvidence'
  <2> SUFFICES ASSUME NEW x \in captured', run[x.run] \in {"succeeded", "empty"}
               PROVE  \E e \in evidence' : e.run = x.run /\ e.content = x.content
    BY DEF CapturesAreEvidence
  <2>1. x \in captured
    BY <1>1, <1>6
  <2>2. \E e \in evidence : e.run = x.run /\ e.content = x.content
    BY <2>1 DEF IInv, CapturesAreEvidence
  <2> QED BY <2>2
<1>11. ResultsAreComplete'
  <2> SUFFICES ASSUME NEW r \in Run
               PROVE  /\ run[r] \in {"succeeded", "empty"} =>
                           /\ ResultOf(r)' # {}
                           /\ \A e \in ResultOf(r)' :
                                RecordsOf[e.content] =
                                   {o.record : o \in {x \in observed' : x.run = r}}
                      /\ run[r] = "empty" => \A o \in observed' : o.run # r
                      /\ r \in promoted => run[r] = "succeeded" /\ r[1] \in Production
    BY DEF ResultsAreComplete
  <2>1. CASE r = r0
    BY <1>1, <2>1 DEF IInv, ResultsAreComplete
  <2>2. CASE r # r0
    <3>1. /\ \A e \in evidence' : e.run = r => e \in evidence
          /\ \A o \in observed' : o.run = r => o \in observed
      BY <1>6, <2>2
    <3>2. ResultOf(r)' = ResultOf(r)
      BY <3>1 DEF ResultOf
    <3>3. {x \in observed' : x.run = r} = {x \in observed : x.run = r}
      BY <3>1
    <3>4. /\ run[r] \in {"succeeded", "empty"} =>
                /\ ResultOf(r) # {}
                /\ \A e \in ResultOf(r) :
                     RecordsOf[e.content] =
                        {o.record : o \in {x \in observed : x.run = r}}
          /\ run[r] = "empty" => \A o \in observed : o.run # r
          /\ r \in promoted => run[r] = "succeeded" /\ r[1] \in Production
      BY DEF IInv, ResultsAreComplete
    <3> QED BY <3>1, <3>2, <3>3, <3>4, SMTT(30)
  <2> QED BY <2>1, <2>2
<1>12. ContentsAreExact'
  <2> SUFFICES ASSUME NEW q \in Process
               PROVE  Contents(proc'[q], evidence', observed', captured', objects')
    BY DEF ContentsAreExact
  <2>1. CASE q = p
    BY <1>2, <2>1
  <2>2. CASE q # p
    <3>1. proc[q].pc \in Writing => <<proc[q].job, proc[q].no>> # r0
      BY <2>2 DEF IInv, ClaimsAreKept, Writing, RunOf, r0
    <3>2. Contents(proc[q], evidence, observed, captured, objects)
      BY ProcessFacts
    <3>3. /\ \A e \in evidence' \ evidence : e.run = r0
          /\ \A o \in observed' \ observed : o.run = r0
          /\ \A x \in captured' \ captured : x.run = r0
      BY <1>6
    <3>4. Contents(proc[q], evidence', observed', captured', objects')
      BY <3>1, <3>2, <3>3, ContentsOfOthers
    <3> QED BY <1>2, <2>2, <3>4
  <2> QED BY <2>1, <2>2
<1>13. ClaimsAreKept'
  <2>1. proc'["daemon"].pc = "claimed" =>
          /\ job'[proc'["daemon"].job].state = "claimed"
          /\ job'[proc'["daemon"].job].owner = "daemon"
    BY <1>2 DEF IInv, ClaimsAreKept, Process, HasRun, Ingesting
  <2>2. proc'["daemon"].pc \in HasRun => Owns("daemon")'
    BY <1>2 DEF IInv, ClaimsAreKept, Process, Owns
  <2>3. \A j \in Job : job'[j].owner = "daemon" =>
          job'[j].lease = "stale" \/ j \in orphaned' \/ proc'["daemon"].job = j
    BY <1>2 DEF IInv, ClaimsAreKept, Process
  <2>4. proc'["operator"].pc \in HasRun =>
          proc'["operator"].no <= job'[proc'["operator"].job].attempts
    BY <1>2 DEF IInv, ClaimsAreKept, Process
  <2>5. ASSUME NEW q \in Process, NEW s \in Process, q # s,
               proc'[q].pc \in HasRun, proc'[s].pc \in HasRun
        PROVE  RunOf(q)' # RunOf(s)'
    BY <1>2, <2>5 DEF IInv, ClaimsAreKept, RunOf
  <2> QED BY <2>1, <2>2, <2>3, <2>4, <2>5 DEF ClaimsAreKept
<1> QED BY <1>3, <1>4, <1>5, <1>7, <1>8, <1>9, <1>10, <1>11, <1>12, <1>13 DEF IInv

(* writer.lock is where it was, or where the step leaves it.               *)
LEMMA WriterKept ==
  ASSUME IInv, NEW p \in Process, NEW new \in ProcessRecord,
         proc' = [proc EXCEPT ![p] = new],
         proc[p].pc \in HasRun, new.pc \in HasRun,
         p = "daemon" => writer' = writer,
         p = "operator" => \/ /\ writer' = writer
                              /\ new.pc = "publishing" <=> proc[p].pc = "publishing"
                           \/ /\ writer \in {None, p} /\ writer' = p
                              /\ new.pc = "publishing"
                           \/ /\ writer \in {None, p} /\ writer' = None
                              /\ new.pc # "publishing"
  PROVE  WriterIsHeld' /\ writer' \in Process \cup {None}
<1>1. proc'[p] = new /\ \A q \in Process : q # p => proc'[q] = proc[q]
  BY DEF IInv, TypeOK
<1>2. writer \in Process \cup {None}
  BY DEF IInv, TypeOK
<1>3. CASE p = "daemon"
  BY <1>1, <1>2, <1>3 DEF IInv, WriterIsHeld, Process
<1>4. CASE p = "operator"
  <2>1. proc'["operator"] = new /\ proc'["daemon"] = proc["daemon"]
    BY <1>1, <1>4 DEF Process
  <2> QED BY <1>2, <1>4, <2>1 DEF IInv, WriterIsHeld, Process
<1> QED BY <1>3, <1>4 DEF Process

LEMMA CaptureStep ==
  ASSUME IInv, NEW c \in Content, CaptureArtifact(c)
  PROVE  IInv'
<1> DEFINE d   == proc["daemon"]
           r0  == RunOf("daemon")
           N   == Len(d.taken)
           new == [d EXCEPT !.taken = Append(@, c)]
<1>1. /\ d.pc = "capturing" /\ d.pc \in HasRun /\ N < Len(Capture(Family[d.job]))
      /\ objects' = objects \cup {c}
      /\ captured' = captured \cup {[run |-> r0, content |-> c]}
      /\ proc' = [proc EXCEPT !["daemon"] = new]
      /\ UNCHANGED <<planned, job, run, promoted, evidence, observed, writer,
                     orphaned, crashes>>
      /\ "daemon" \in Process
  BY DEF CaptureArtifact, Set, Process, HasRun
<1>2. Owns("daemon") /\ r0 \in Run
  BY <1>1, DaemonOwns, ProcessFacts
<1>3. /\ d \in ProcessRecord /\ Shape("daemon", d) /\ Family[d.job] \in Families
      /\ d.taken \in Seq(Content) /\ N \in Nat /\ d.kept = 0
      /\ Contents(d, evidence, observed, captured, objects)
  BY <1>1, ProcessFacts, LenProperties DEF ProcessRecord, Shape, Bare, Ingesting
<1> DEFINE more == Append(d.taken, c)
<1>4. /\ more \in Seq(Content) /\ Len(more) = N + 1
      /\ \A i \in 1 .. N : more[i] = d.taken[i]
      /\ more[N + 1] = c
  BY <1>3, AppendProperties
<1> HIDE DEF more
<1>5. /\ new \in ProcessRecord /\ new.pc = d.pc /\ new.job = d.job
      /\ new.no = d.no /\ new.kept = d.kept /\ new.taken = more
      /\ new.todo = d.todo
  BY <1>3, <1>4 DEF ProcessRecord, more
<1> HIDE DEF new
<1>6. Shape("daemon", new)
  <2>1. Len(new.taken) <= Len(Capture(Family[new.job]))
    BY <1>1, <1>3, <1>4, <1>5, CaptureLength
  <2>2. new.pc = "capturing" /\ new.job # None /\ new.no # 0 /\ new.kept = 0
    BY <1>1, <1>3, <1>5 DEF Shape, Bare
  <2> QED BY <2>1, <2>2 DEF Shape, Bare, HasRun, Ingesting
<1>7. Contents(new, evidence', observed', captured', objects')
  <2> DEFINE roles0 == Ingest(Family[d.job], N)
             roles  == Ingest(Family[new.job], Len(new.taken))
  <2>1. /\ Kept(r0, roles0, d.taken, 0, evidence, captured)
        /\ Seen(r0, {}, observed)
    BY <1>1, <1>3 DEF Contents, Writing, RunOf
  <2>2. r0 = <<new.job, new.no>>
    BY <1>5 DEF RunOf
  <2> HIDE DEF d, r0, roles0, roles, N
  <2>3. \A x \in captured' : x.run = r0 =>
           \E i \in 1 .. Len(more) : more[i] = x.content
    <3> SUFFICES ASSUME NEW x \in captured', x.run = r0
                 PROVE  \E i \in 1 .. Len(more) : more[i] = x.content
      OBVIOUS
    <3>1. CASE x \in captured
      <4>1. PICK i \in 1 .. N : d.taken[i] = x.content
        BY <2>1, <3>1 DEF Kept, N
      <4>2. i \in 1 .. Len(more) /\ more[i] = x.content
        BY <1>3, <1>4, <4>1
      <4> QED BY <4>2
    <3>2. CASE x = [run |-> r0, content |-> c]
      <4>1. x.content = c /\ N + 1 \in 1 .. Len(more)
        BY <1>3, <1>4, <3>2
      <4> QED BY <1>4, <4>1
    <3> QED BY <1>1, <3>1, <3>2
  <2>4. Kept(r0, roles, more, 0, evidence, captured')
    BY <2>1, <2>3 DEF Kept
  <2>5. new.pc = "capturing" /\ new.kept = 0 /\ UNCHANGED <<evidence, observed>>
    BY <1>1, <1>3, <1>5
  <2> QED BY <1>5, <2>1, <2>2, <2>4, <2>5 DEF Contents, roles
<1>8. WriterIsHeld' /\ writer' \in Process \cup {None}
  BY <1>1, <1>5, WriterKept
<1>9. objects' \subseteq Content
  BY <1>1 DEF IInv, TypeOK
<1>10. \A x \in captured' \ captured :
          x \in [run : Run, content : Content] /\ x.run = RunOf("daemon")
  BY <1>1, <1>2
<1>11. /\ new.pc \in HasRun /\ new.job = proc["daemon"].job
       /\ new.no = proc["daemon"].no
  BY <1>1, <1>5
<1>12. /\ objects \subseteq objects' /\ captured \subseteq captured'
       /\ evidence' = evidence /\ observed' = observed
       /\ UNCHANGED <<planned, job, run, promoted, orphaned, crashes>>
       /\ proc["daemon"].pc \in HasRun
  BY <1>1
<1> HIDE DEF d, r0, N
<1> QED BY <1>1, <1>2, <1>5, <1>6, <1>7, <1>8, <1>9, <1>10, <1>11, <1>12, StoreStep

LEMMA PersistFileStep ==
  ASSUME IInv, NEW p \in Process, PersistFile(p)
  PROVE  IInv'
<1> DEFINE d   == proc[p]
           new == [d EXCEPT !.pc = "publishing"]
<1>1. /\ d.pc = "persisting" /\ d.pc \in HasRun /\ d.pc \in Writing
      /\ MayWrite(p) /\ Owns(p)
      /\ p = "daemon" => Current(p) \in objects
      /\ objects' = IF p = "daemon" THEN objects ELSE objects \cup {Current(p)}
      /\ writer' = p /\ proc' = [proc EXCEPT ![p] = new]
      /\ UNCHANGED <<planned, job, run, promoted, evidence, observed, captured,
                     orphaned, crashes>>
  BY DEF PersistFile, StoredFile, Goto, Set, HasRun, Ingesting, Writing
<1>2. /\ d \in ProcessRecord /\ Shape(p, d) /\ d.taken \in Seq(Content)
      /\ d.kept < Len(d.taken) /\ d.kept \in Nat /\ Len(d.taken) \in Nat
      /\ Contents(d, evidence, observed, captured, objects)
  <2>1. /\ d \in ProcessRecord /\ Shape(p, d)
        /\ Contents(d, evidence, observed, captured, objects)
    BY ProcessFacts
  <2>2. d.taken \in Seq(Content) /\ d.kept \in Nat
    BY <2>1 DEF ProcessRecord
  <2>3. d.kept < Len(d.taken)
    BY <1>1, <2>1 DEF Shape
  <2> QED BY <2>1, <2>2, <2>3, LenProperties
<1>3. Current(p) \in Content
  <2>1. d.kept + 1 \in 1 .. Len(d.taken)
    BY <1>2
  <2> QED BY <1>2, <2>1, ElementOfSeq DEF Current
<1>4. /\ new \in ProcessRecord /\ new.pc = "publishing" /\ new.job = d.job
      /\ new.no = d.no /\ new.kept = d.kept /\ new.taken = d.taken
  BY <1>2 DEF ProcessRecord, Ingesting
<1> HIDE DEF new
<1>5. Shape(p, new)
  <2>1. new.kept < Len(new.taken) /\ Sized(Family[new.job], Len(new.taken))
    BY <1>1, <1>2, <1>4 DEF Shape, Ingesting
  <2>2. new.job # None /\ new.no # 0
    BY <1>1, <1>2, <1>4 DEF Shape, Bare
  <2> QED BY <1>4, <2>1, <2>2 DEF Shape, Bare, HasRun, Ingesting
<1>6. Current(p) \in objects' /\ objects \subseteq objects' /\ objects' \subseteq Content
  BY <1>1, <1>3 DEF IInv, TypeOK
<1>7. Contents(new, evidence', observed', captured', objects')
  <2>1. new.taken[new.kept + 1] \in objects'
    BY <1>4, <1>6 DEF Current
  <2>2. UNCHANGED <<evidence, observed, captured>> /\ d.pc = "persisting"
    BY <1>1
  <2> HIDE DEF d
  <2> QED BY <1>1, <1>2, <1>4, <2>1, <2>2 DEF Contents
<1>8. new.pc \in HasRun
  BY <1>4 DEF HasRun, Ingesting
<1>9. WriterIsHeld' /\ writer' \in Process \cup {None}
  <2>1. p = "daemon" => writer = "daemon"
    BY <1>1 DEF IInv, WriterIsHeld
  <2>2. writer \in {None, p}
    BY <1>1 DEF MayWrite
  <2> QED BY <1>1, <1>4, <1>8, <2>1, <2>2, WriterKept
<1>10. new.job = proc[p].job /\ new.no = proc[p].no /\ proc[p].pc \in HasRun
  BY <1>1, <1>4
<1> HIDE DEF d
<1> QED BY <1>1, <1>4, <1>5, <1>6, <1>7, <1>8, <1>9, <1>10, StoreStep

LEMMA PersistRowsStep ==
  ASSUME IInv, NEW p \in Process, PersistRows(p)
  PROVE  IInv'
<1> DEFINE d     == proc[p]
           r0    == RunOf(p)
           N     == Len(d.taken)
           k     == d.kept + 1
           roles == Ingest(Family[d.job], N)
           row   == [run |-> r0, role |-> roles[k], content |-> d.taken[k]]
           new   == [d EXCEPT !.pc = "parsing", !.kept = @ + 1]
<1>1. /\ d.pc = "publishing" /\ d.pc \in HasRun /\ d.pc \in Writing /\ Owns(p)
      /\ evidence' = evidence \cup {row}
      /\ writer' = IF p = "daemon" THEN writer ELSE None
      /\ proc' = [proc EXCEPT ![p] = new]
      /\ UNCHANGED <<planned, job, run, promoted, objects, observed, captured,
                     orphaned, crashes>>
  BY DEF PersistRows, Rows, RoleOf, Current, Set, HasRun, Ingesting, Writing
<1>2. /\ d \in ProcessRecord /\ Shape(p, d) /\ d.taken \in Seq(Content)
      /\ d.kept < N /\ d.kept \in Nat /\ N \in Nat
      /\ Sized(Family[d.job], N) /\ Family[d.job] \in Families
      /\ Contents(d, evidence, observed, captured, objects)
      /\ r0 \in Run
  BY <1>1, ProcessFacts, LenProperties DEF ProcessRecord, Shape, Ingesting, Bare
<1>3. N \in 1 .. 3 /\ \A i \in 1 .. N : roles[i] \in Roles
  <2> HIDE DEF N
  <2> QED BY <1>2, IngestFacts
<1>4. k \in 1 .. N /\ k \in 0 .. 3 /\ k \in Nat
  <2>1. \A a, b \in Nat : a < b /\ b \in 1 .. 3 =>
           a + 1 \in 1 .. b /\ a + 1 \in 0 .. 3 /\ a + 1 \in Nat
    OBVIOUS
  <2>2. d.kept \in Nat /\ N \in Nat /\ d.kept < N /\ N \in 1 .. 3
    BY <1>2, <1>3
  <2> QED BY <2>1, <2>2
<1>5. d.taken[k] \in Content /\ d.taken[k] \in objects /\ roles[k] \in Roles
  <2>1. d.taken[k] \in Content
    BY <1>2, <1>4, ElementOfSeq
  <2>2. d.taken[k] \in objects
    BY <1>1, <1>2 DEF Contents
  <2> QED BY <1>3, <1>4, <2>1, <2>2
<1>6. /\ new \in ProcessRecord /\ new.pc = "parsing" /\ new.job = d.job
      /\ new.no = d.no /\ new.kept = k /\ new.taken = d.taken
  BY <1>2, <1>4 DEF ProcessRecord, Ingesting
<1>7. row.run = r0 /\ row.role = roles[k] /\ row.content = d.taken[k]
  OBVIOUS
<1>8. row \in [run : Run, role : Roles, content : Content]
  BY <1>2, <1>5
<1>9. /\ Kept(r0, roles, d.taken, d.kept, evidence, captured)
      /\ Seen(r0, {}, observed)
  BY <1>1, <1>2 DEF Contents, RunOf
<1>10. r0 = <<d.job, d.no>>
  BY DEF RunOf
<1> HIDE DEF new
<1>11. Shape(p, new)
  <2>1. new.kept \in 1 .. Len(new.taken) /\ Sized(Family[new.job], Len(new.taken))
    BY <1>2, <1>4, <1>6
  <2>2. new.job # None /\ new.no # 0
    BY <1>1, <1>2, <1>6 DEF Shape, Bare
  <2> QED BY <1>6, <2>1, <2>2 DEF Shape, Bare, HasRun, Ingesting
<1>12. Kept(r0, roles, d.taken, k, evidence', captured')
  <2>1. \A i \in 1 .. k : i = k \/ i \in 1 .. d.kept
    BY <1>2
  <2>2. \A i \in 1 .. d.kept : i \in 1 .. k
    BY <1>2
  <2>3. k \in 1 .. k
    BY <1>4
  <2>8. row = [run |-> r0, role |-> roles[k], content |-> d.taken[k]]
    OBVIOUS
  <2> HIDE DEF d, r0, N, k, roles, row
  <2>4. \A e \in evidence' : e.run = r0 =>
           \E i \in 1 .. k : e.role = roles[i] /\ e.content = d.taken[i]
    <3> SUFFICES ASSUME NEW e \in evidence', e.run = r0
                 PROVE  \E i \in 1 .. k : e.role = roles[i] /\ e.content = d.taken[i]
      OBVIOUS
    <3>1. CASE e \in evidence
      <4>1. PICK i \in 1 .. d.kept : e.role = roles[i] /\ e.content = d.taken[i]
        BY <1>9, <3>1 DEF Kept
      <4> QED BY <2>2, <4>1
    <3>2. CASE e = row
      BY <1>7, <2>3, <3>2
    <3> QED BY <1>1, <3>1, <3>2
  <2>5. \A i \in 1 .. k :
           [run |-> r0, role |-> roles[i], content |-> d.taken[i]] \in evidence'
    <3> SUFFICES ASSUME NEW i \in 1 .. k
                 PROVE  [run |-> r0, role |-> roles[i], content |-> d.taken[i]]
                           \in evidence'
      OBVIOUS
    <3>1. CASE i = k
      BY <1>1, <2>8, <3>1
    <3>2. CASE i \in 1 .. d.kept
      BY <1>1, <1>9, <3>2 DEF Kept
    <3> QED BY <2>1, <3>1, <3>2
  <2>6. captured' = captured
    BY <1>1
  <2>7. \A x \in captured' : x.run = r0 =>
           \E i \in 1 .. Len(d.taken) : d.taken[i] = x.content
    BY <1>9, <2>6 DEF Kept
  <2> QED BY <2>4, <2>5, <2>7 DEF Kept
<1>13. Contents(new, evidence', observed', captured', objects')
  <2>1. observed' = observed /\ roles = Ingest(Family[new.job], Len(new.taken))
    BY <1>1, <1>6
  <2> HIDE DEF d, r0, N, k, roles, row
  <2> QED BY <1>6, <1>9, <1>10, <1>12, <2>1 DEF Contents
<1>14. new.pc \in HasRun
  BY <1>6 DEF HasRun, Ingesting
<1>15. WriterIsHeld' /\ writer' \in Process \cup {None}
  <2>1. p = "operator" => writer = "operator"
    BY <1>1 DEF IInv, WriterIsHeld
  <2> QED BY <1>1, <1>6, <1>14, <2>1, WriterKept DEF Process
<1>16. /\ objects \subseteq objects' /\ objects' \subseteq Content
       /\ evidence \subseteq evidence' /\ observed' = observed
       /\ captured' = captured
       /\ UNCHANGED <<planned, job, run, promoted, orphaned, crashes>>
       /\ new.job = proc[p].job /\ new.no = proc[p].no /\ proc[p].pc \in HasRun
  BY <1>1, <1>6 DEF IInv, TypeOK
<1>17. \A e \in evidence' \ evidence :
          /\ e \in [run : Run, role : Roles, content : Content]
          /\ e.run = RunOf(p) /\ e.content \in objects'
  <2>1. row \in [run : Run, role : Roles, content : Content] /\ row.run = RunOf(p)
        /\ row.content \in objects'
    BY <1>1, <1>5, <1>8
  <2> HIDE DEF row
  <2> QED BY <1>1, <2>1
<1> HIDE DEF d, r0, N, k, roles, row
<1> QED BY <1>1, <1>6, <1>11, <1>13, <1>14, <1>15, <1>16, <1>17, StoreStep

LEMMA ObserveStep ==
  ASSUME IInv, NEW p \in Process, NEW record \in Record, Observe(p, record)
  PROVE  IInv'
<1> DEFINE d     == proc[p]
           r0    == RunOf(p)
           N     == Len(d.taken)
           f     == Family[d.job]
           roles == Ingest(f, N)
           all   == RecordsOf[d.taken[N]]
           row   == [run |-> r0, record |-> record, cites |-> Cites(f)]
           new   == [d EXCEPT !.todo = @ \ {record}]
<1>1. /\ d.pc = "observing" /\ d.pc \in HasRun /\ d.pc \in Writing /\ Owns(p)
      /\ record \in d.todo
      /\ observed' = observed \cup {row}
      /\ proc' = [proc EXCEPT ![p] = new]
      /\ UNCHANGED <<planned, job, run, promoted, objects, evidence, captured,
                     writer, orphaned, crashes>>
  BY DEF Observe, Set, HasRun, Ingesting, Writing
<1>2. /\ d \in ProcessRecord /\ Shape(p, d) /\ d.kept = N /\ d.todo \subseteq all
      /\ Sized(f, N) /\ f \in Families
      /\ Contents(d, evidence, observed, captured, objects)
      /\ r0 \in Run /\ r0 = <<d.job, d.no>>
  BY <1>1, ProcessFacts DEF Shape, Ingesting, Bare, RunOf
<1>3. /\ \A i \in 1 .. N : roles[i] \in Roles
      /\ \A role \in Cites(f) : \E i \in 1 .. N : roles[i] = role
  <2> HIDE DEF N, f
  <2> QED BY <1>2, IngestFacts
<1>4. /\ new \in ProcessRecord /\ new.pc = "observing" /\ new.job = d.job
      /\ new.no = d.no /\ new.kept = d.kept /\ new.taken = d.taken
      /\ new.todo = d.todo \ {record}
  BY <1>1, <1>2 DEF ProcessRecord
<1>5. row.run = r0 /\ row.record = record /\ row.cites = Cites(f)
  OBVIOUS
<1>6. /\ Kept(r0, roles, d.taken, N, evidence, captured)
      /\ Seen(r0, all \ d.todo, observed)
  BY <1>1, <1>2 DEF Contents
<1> HIDE DEF new
<1>7. Shape(p, new)
  <2>1. /\ new.kept = Len(new.taken) /\ Sized(Family[new.job], Len(new.taken))
        /\ new.todo \subseteq RecordsOf[new.taken[Len(new.taken)]]
    BY <1>2, <1>4
  <2>2. new.job # None /\ new.no # 0
    BY <1>1, <1>2, <1>4 DEF Shape, Bare
  <2> QED BY <1>4, <2>1, <2>2 DEF Shape, Bare, HasRun, Ingesting
<1>8. Seen(r0, all \ new.todo, observed')
  <2>1. record \in all
    BY <1>1, <1>2
  <2> HIDE DEF d, r0, all, row
  <2> SUFFICES ASSUME NEW x \in Record
               PROVE  (\E o \in observed' : o.run = r0 /\ o.record = x)
                         <=> x \in all \ new.todo
    BY DEF Seen
  <2>2. (\E o \in observed : o.run = r0 /\ o.record = x) <=> x \in all \ d.todo
    BY <1>6 DEF Seen
  <2>3. CASE x = record
    BY <1>1, <1>4, <1>5, <2>1, <2>3
  <2>4. CASE x # record
    BY <1>1, <1>4, <1>5, <2>2, <2>4
  <2> QED BY <2>3, <2>4
<1>9. Contents(new, evidence', observed', captured', objects')
  <2>1. /\ evidence' = evidence /\ captured' = captured
        /\ roles = Ingest(Family[new.job], Len(new.taken))
        /\ all = RecordsOf[new.taken[Len(new.taken)]]
        /\ r0 = <<new.job, new.no>> /\ new.kept = N
    BY <1>1, <1>2, <1>4
  <2> HIDE DEF d, r0, N, f, roles, all, row
  <2> QED BY <1>4, <1>6, <1>8, <2>1 DEF Contents
<1>10. new.pc \in HasRun
  BY <1>4 DEF HasRun, Ingesting
<1>11. WriterIsHeld' /\ writer' \in Process \cup {None}
  BY <1>1, <1>4, <1>10, WriterKept
<1>12. Cites(f) \subseteq Roles
  BY <1>3
<1>13. \A role \in Cites(f) : \E e \in evidence : e.run = r0 /\ e.role = role
  <2> HIDE DEF d, r0, N, f, roles, all, row
  <2> SUFFICES ASSUME NEW role \in Cites(f)
               PROVE  \E e \in evidence : e.run = r0 /\ e.role = role
    OBVIOUS
  <2>1. PICK i \in 1 .. N : roles[i] = role
    BY <1>3
  <2>2. [run |-> r0, role |-> roles[i], content |-> d.taken[i]] \in evidence
    BY <1>6, <2>1 DEF Kept
  <2> QED BY <2>1, <2>2
<1>14. \A o \in observed' \ observed :
          /\ o \in [run : Run, record : Record, cites : SUBSET Roles]
          /\ o.run = RunOf(p)
          /\ \A role \in o.cites : \E e \in evidence : e.run = o.run /\ e.role = role
  <2>1. /\ row \in [run : Run, record : Record, cites : SUBSET Roles]
        /\ row.run = RunOf(p)
    BY <1>2, <1>12
  <2> HIDE DEF d, r0, N, f, roles, all, row
  <2> QED BY <1>1, <1>5, <1>13, <2>1
<1>15. /\ objects \subseteq objects' /\ objects' \subseteq Content
       /\ evidence' = evidence /\ observed \subseteq observed'
       /\ captured' = captured
       /\ UNCHANGED <<planned, job, run, promoted, orphaned, crashes>>
       /\ new.job = proc[p].job /\ new.no = proc[p].no /\ proc[p].pc \in HasRun
  BY <1>1, <1>4 DEF IInv, TypeOK
<1> HIDE DEF d, r0, N, f, roles, all, row
<1> QED BY <1>1, <1>4, <1>7, <1>9, <1>10, <1>11, <1>14, <1>15, StoreStep

-----------------------------------------------------------------------------
(* The theorems.                                                           *)

LEMMA InitLemma == Init => IInv
<1> SUFFICES ASSUME Init PROVE IInv
  OBVIOUS
<1> DEFINE first(j) ==
      [state |-> IF j \in planned /\ Kind[j] \in {"scheduled", "backfill"}
                 THEN "queued" ELSE "absent",
       attempts |-> 0, owner |-> None, lease |-> "none"]
<1>1. /\ planned \in Plans /\ job = [j \in Job |-> first(j)]
      /\ run = [r \in Run |-> "none"]
      /\ promoted = {} /\ objects = {} /\ evidence = {} /\ observed = {}
      /\ proc = [p \in Process |-> Idle] /\ writer = None
      /\ captured = {} /\ orphaned = {} /\ crashes = 0
  BY DEF Init
<1>2. \A j \in Job : /\ first(j) \in JobRecord
                     /\ first(j).state \in {"queued", "absent"}
                     /\ first(j).attempts = 0 /\ first(j).owner = None
                     /\ first(j).lease = "none"
  BY DEF JobRecord
<1> HIDE DEF first
<1>3. /\ job \in [Job -> JobRecord]
      /\ \A j \in Job : /\ job[j].state \in {"queued", "absent"}
                        /\ job[j].attempts = 0 /\ job[j].owner = None
                        /\ job[j].lease = "none"
  BY <1>1, <1>2
<1>4. /\ proc \in [Process -> ProcessRecord]
      /\ \A p \in Process : proc[p] = Idle /\ proc[p].pc = "idle"
                            /\ Shape(p, proc[p])
      /\ "daemon" \in Process /\ "operator" \in Process
  BY <1>1, IdleFacts DEF Process
<1>5. TypeOK
  BY <1>1, <1>3, <1>4 DEF TypeOK, JobRecord
<1>6. Shapes /\ WriterIsHeld
  BY <1>1, <1>4 DEF Shapes, WriterIsHeld, HasRun, Ingesting
<1>7. JobsAreOwned
  BY <1>3 DEF JobsAreOwned
<1>8. RunsFollowJobs
  <2> SUFFICES ASSUME NEW k \in Job, NEW m \in Attempt
               PROVE  /\ run[<<k, m>>] = "none" <=> m > job[k].attempts
                      /\ run[<<k, m>>] = "running"
                            <=> job[k].state = "running" /\ m = job[k].attempts
    BY DEF RunsFollowJobs
  <2>1. run[<<k, m>>] = "none"
    BY <1>1 DEF Run
  <2>2. m > 0
    BY AttemptNat
  <2> QED BY <1>3, <2>1, <2>2
<1>9. DataIsOfRuns /\ EvidenceIsBacked /\ ObservationsAreEvidenced
      /\ CapturesAreEvidence
  BY <1>1 DEF DataIsOfRuns, EvidenceIsBacked, ObservationsAreEvidenced,
              CapturesAreEvidence
<1>10. ResultsAreComplete
  <2>1. \A r \in Run : run[r] = "none"
    BY <1>1
  <2> QED BY <1>1, <2>1 DEF ResultsAreComplete
<1>11. ClaimsAreKept
  <2>1. \A p \in Process : proc[p].pc \notin {"claimed"} \cup HasRun
    BY <1>4 DEF HasRun, Ingesting
  <2> QED BY <1>3, <1>4, <2>1 DEF ClaimsAreKept
<1>12. ContentsAreExact
  BY <1>4 DEF ContentsAreExact, Contents, Writing, HasRun, Ingesting
<1> QED BY <1>5, <1>6, <1>7, <1>8, <1>9, <1>10, <1>11, <1>12 DEF IInv

LEMMA Stuttering == ASSUME IInv, UNCHANGED vars PROVE IInv'
<1>1. UNCHANGED <<planned, job, run, promoted, objects, evidence, observed, proc,
                  writer, captured, orphaned, crashes>>
  BY DEF vars
<1>2. TypeOK' /\ Shapes' /\ WriterIsHeld'
  BY <1>1 DEF IInv, TypeOK, Shapes, WriterIsHeld
<1>3. JobsAreOwned' /\ RunsFollowJobs' /\ ContentsAreExact'
  BY <1>1 DEF IInv, JobsAreOwned, RunsFollowJobs, ContentsAreExact
<1>4. ClaimsAreKept'
  BY <1>1 DEF IInv, ClaimsAreKept, Owns, RunOf
<1>5. StoreOK'
  BY <1>1, StoreUnchanged DEF IInv, StoreOK, data
<1> QED BY <1>2, <1>3, <1>4, <1>5 DEF IInv, StoreOK

LEMMA LifeCycleStep ==
  ASSUME IInv, NEW p \in Process, LifeCycle(p)
  PROVE  IInv'
<1>1. CASE ChecksPass(p) \/ Fail(p)
  BY <1>1, MoveSteps
<1>2. CASE PersistFile(p)
  BY <1>2, PersistFileStep
<1>3. CASE PersistRows(p)
  BY <1>3, PersistRowsStep
<1>4. CASE Parse(p)
  BY <1>4, ParseStep
<1>5. CASE \E record \in Record : Observe(p, record)
  BY <1>5, ObserveStep
<1>6. CASE Finish(p)
  BY <1>6, FinishedWell
<1>7. CASE Close(p)
  BY <1>7, CloseSteps
<1> QED BY <1>1, <1>2, <1>3, <1>4, <1>5, <1>6, <1>7 DEF LifeCycle

(* Every step of either process, of time and of the failures keeps IInv.   *)
LEMMA Inductive == IInv /\ [Next]_vars => IInv'
<1> SUFFICES ASSUME IInv, [Next]_vars PROVE IInv'
  OBVIOUS
<1>1. CASE BeginTick
  BY <1>1, TickStep
<1>2. CASE TickRefused \/ Restart \/ \E p \in Process : Crash(p)
  BY <1>2, MoveSteps
<1>3. CASE Tick
  <2>1. CASE \E j \in Job : ClaimNext(j)
    BY <2>1, ClaimNextStep
  <2>2. CASE NothingDue \/ CaptureFails \/ HandOver \/ ChecksFail
    BY <2>2, MoveSteps
  <2>3. CASE StartRun
    BY <2>3, StartSteps
  <2>4. CASE Refuse \/ SupervisorCloses
    BY <2>4, CloseSteps
  <2>5. CASE \E c \in Content : CaptureArtifact(c)
    BY <2>5, CaptureStep
  <2>6. CASE LifeCycle("daemon")
    BY <2>6, LifeCycleStep DEF Process
  <2> QED BY <1>3, <2>1, <2>2, <2>3, <2>4, <2>5, <2>6 DEF Tick
<1>4. CASE \E j \in Job : EnqueueOwn(j)
  BY <1>4, EnqueueStep
<1>5. CASE Operate
  <2>1. CASE \E R \in SUBSET Stale, lease \in {"live", "stale"} : ClaimOwn(R, lease)
    BY <2>1, ClaimOwnStep
  <2>2. CASE StartOwn
    BY <2>2, StartSteps
  <2>3. CASE GiveUp
    BY <2>3, MoveSteps
  <2>4. CASE LifeCycle("operator")
    BY <2>4, LifeCycleStep DEF Process
  <2> QED BY <1>5, <2>1, <2>2, <2>3, <2>4 DEF Operate
<1>6. CASE \E j \in Job : Expire(j)
  BY <1>6, ExpireStep
<1>7. CASE UNCHANGED vars
  BY <1>7, Stuttering
<1> QED BY <1>1, <1>2, <1>3, <1>4, <1>5, <1>6, <1>7 DEF Next

(* Two processes, any number of deaths and any lease that passes meanwhile:*)
(* the daemon's tick keeps writer.lock, a run is that of one process, and  *)
(* what the store has of a run is exactly what its process has done.       *)
THEOREM Invariance == Spec => []IInv
<1> QED BY InitLemma, Inductive, PTL DEF Spec

(* No row names an artifact that is not published, every observation cites *)
(* evidence of its own run in each role, and a run that ended well has     *)
(* evidence of all it captured, whatever died in between.                  *)
THEOREM EvidenceIsAlwaysWhole == Spec => []EvidenceIsWhole
<1>1. IInv => EvidenceIsWhole
  BY DEF IInv, EvidenceIsWhole
<1> QED BY <1>1, Invariance, PTL

(* A run that ended well stored exactly the records of its saved artifact, *)
(* and only such a run of the production lane is promoted.                 *)
THEOREM ResultsAreAlwaysComplete == Spec => []ResultsAreComplete
<1>1. IInv => ResultsAreComplete
  BY DEF IInv
<1> QED BY <1>1, Invariance, PTL

(* The life cycle in a tick never loses its claim, although no operation   *)
(* of it looks at the lease, and a tick leaves no live run behind.         *)
THEOREM TicksAlwaysKeepTheirRuns == Spec => []TicksKeepAndEndTheirRuns
<1>1. IInv => TicksKeepAndEndTheirRuns
  <2> SUFFICES ASSUME IInv PROVE TicksKeepAndEndTheirRuns
    OBVIOUS
  <2>1. TickKeepsItsClaim
    BY DEF IInv, ClaimsAreKept, HasRun, TickKeepsItsClaim
  <2>2. TicksEndTheirRuns
    <3> SUFFICES ASSUME proc["daemon"].pc = "idle", NEW j \in Job,
                        job[j].owner = "daemon"
                 PROVE  job[j].lease = "stale" \/ j \in orphaned
      BY DEF TicksEndTheirRuns
    <3>1. proc["daemon"].job = None
      BY ProcessFacts DEF Process, Shape, Bare
    <3> QED BY <3>1 DEF IInv, ClaimsAreKept
  <2> QED BY <2>1, <2>2 DEF TicksKeepAndEndTheirRuns
<1> QED BY <1>1, Invariance, PTL

-----------------------------------------------------------------------------
(* Closed runs.                                                            *)

LEMMA SealedByStatus ==
  ASSUME UNCHANGED data,
         \A r \in Run : run'[r] = run[r] \/ run[r] \in {"none", "running"}
  PROVE  SealsClosedRuns
BY DEF data, SealsClosedRuns

LEMMA SealedByFinish ==
  ASSUME IInv, NEW p \in Process, proc[p].pc \in HasRun, Owns(p), NEW status,
         NEW state, Finished(p, status, state),
         UNCHANGED <<evidence, observed, captured>>
  PROVE  SealsClosedRuns
<1>1. RunOf(p) \in Run /\ run[RunOf(p)] = "running"
  BY OwnedRun
<1>2. /\ run' = [run EXCEPT ![RunOf(p)] = status]
      /\ run \in [Run -> {"none", "running", "succeeded", "empty", "failed"}]
  BY DEF Finished, IInv, TypeOK
<1>3. \A r \in Run : run[r] \notin {"none", "running"} => run'[r] = run[r]
  BY <1>1, <1>2
<1> QED BY <1>3 DEF SealsClosedRuns

LEMMA SealedByStart ==
  ASSUME IInv, NEW p \in Process, proc[p].pc = "claimed", NEW c, Started(p, c),
         UNCHANGED data
  PROVE  SealsClosedRuns
<1> DEFINE j == proc[p].job
           n == job[j].attempts + 1
<1>1. n \in Attempt /\ run' = [run EXCEPT ![<<j, n>>] = "running"]
  BY DEF Started
<1>2. j \in Job /\ job[j].attempts \in Nat
  BY ProcessFacts, JobFacts DEF Bare
<1>3. run[<<j, n>>] = "none"
  BY <1>1, <1>2 DEF IInv, RunsFollowJobs
<1>4. run \in [Run -> {"none", "running", "succeeded", "empty", "failed"}]
  BY DEF IInv, TypeOK
<1> HIDE DEF j, n
<1>5. \A r \in Run : run'[r] = run[r] \/ run[r] \in {"none", "running"}
  BY <1>1, <1>3, <1>4
<1> QED BY <1>5, SealedByStatus

LEMMA SealedByStore ==
  ASSUME IInv, NEW p \in Process, proc[p].pc \in HasRun, Owns(p), run' = run,
         \A e \in evidence' \ evidence : e.run = RunOf(p),
         \A o \in observed' \ observed : o.run = RunOf(p),
         \A x \in captured' \ captured : x.run = RunOf(p)
  PROVE  SealsClosedRuns
BY OwnedRun DEF SealsClosedRuns

LEMMA LifeCycleSeals ==
  ASSUME IInv, NEW p \in Process, LifeCycle(p)
  PROVE  SealsClosedRuns
<1>1. CASE ChecksPass(p) \/ Parse(p) \/ Fail(p)
  <2>1. UNCHANGED <<run, data>>
    BY <1>1 DEF ChecksPass, Parse, Fail
  <2> QED BY <2>1, SealedByStatus
<1>2. CASE PersistFile(p)
  <2>1. UNCHANGED <<run, evidence, observed, captured>>
    BY <1>2 DEF PersistFile
  <2> QED BY <2>1 DEF SealsClosedRuns
<1>3. CASE PersistRows(p)
  <2>1. /\ proc[p].pc \in HasRun /\ Owns(p)
        /\ UNCHANGED <<run, observed, captured>>
    BY <1>3 DEF PersistRows, HasRun, Ingesting
  <2>2. \A e \in evidence' \ evidence : e.run = RunOf(p)
    BY <1>3 DEF PersistRows, Rows
  <2> QED BY <2>1, <2>2, SealedByStore
<1>4. CASE \E record \in Record : Observe(p, record)
  <2>1. PICK record \in Record : Observe(p, record)
    BY <1>4
  <2>2. /\ proc[p].pc \in HasRun /\ Owns(p)
        /\ UNCHANGED <<run, evidence, captured>>
    BY <2>1 DEF Observe, HasRun, Ingesting
  <2>3. \A o \in observed' \ observed : o.run = RunOf(p)
    BY <2>1 DEF Observe
  <2> QED BY <2>2, <2>3, SealedByStore
<1>5. CASE Finish(p)
  <2>1. /\ proc[p].pc \in HasRun /\ Owns(p)
        /\ UNCHANGED <<evidence, observed, captured>>
        /\ \E status : Finished(p, status, status)
    BY <1>5 DEF Finish, HasRun, Ingesting
  <2> QED BY <2>1, SealedByFinish
<1>6. CASE Close(p)
  <2>1. proc[p].pc \in HasRun /\ UNCHANGED data
    BY <1>6 DEF Close, HasRun, Ingesting
  <2>2. CASE MayWrite(p) /\ Owns(p)
    <3>1. Finished(p, "failed", "failed") /\ UNCHANGED <<evidence, observed, captured>>
      BY <1>6, <2>1, <2>2 DEF Close, data
    <3> QED BY <2>1, <2>2, <3>1, SealedByFinish
  <2>3. CASE ~(MayWrite(p) /\ Owns(p))
    <3>1. run' = run
      BY <1>6, <2>3 DEF Close
    <3> QED BY <2>1, <3>1, SealedByStatus
  <2> QED BY <2>2, <2>3
<1> QED BY <1>1, <1>2, <1>3, <1>4, <1>5, <1>6 DEF LifeCycle

LEMMA TickSeals ==
  ASSUME IInv, Tick
  PROVE  SealsClosedRuns
<1>1. CASE \/ \E j \in Job : ClaimNext(j)
           \/ NothingDue \/ CaptureFails \/ HandOver \/ ChecksFail
  <2>1. (\E j \in Job : ClaimNext(j)) => UNCHANGED <<run, data>>
    BY DEF ClaimNext
  <2>2. NothingDue => UNCHANGED <<run, data>>
    BY DEF NothingDue
  <2>3. CaptureFails \/ HandOver \/ ChecksFail => UNCHANGED <<run, data>>
    BY DEF CaptureFails, HandOver, ChecksFail
  <2>4. UNCHANGED <<run, data>>
    BY <1>1, <2>1, <2>2, <2>3
  <2> QED BY <2>4, SealedByStatus
<1>2. CASE StartRun
  BY <1>2, SealedByStart DEF StartRun, Process
<1>3. CASE Refuse
  <2>1. /\ proc["daemon"].pc \in HasRun /\ Finished("daemon", "failed", "failed")
        /\ UNCHANGED <<evidence, observed, captured>>
    BY <1>3 DEF Refuse, HasRun, data
  <2> QED BY <2>1, DaemonOwns, SealedByFinish
<1>4. CASE SupervisorCloses
  <2>1. /\ proc["daemon"].pc \in HasRun /\ UNCHANGED data
        /\ SupervisorFinishes("daemon")
    BY <1>4 DEF SupervisorCloses, HasRun
  <2>2. CASE run' = run
    BY <2>1, <2>2, SealedByStatus
  <2>3. CASE \E state : Finished("daemon", "failed", state)
    <3>1. UNCHANGED <<evidence, observed, captured>>
      BY <2>1 DEF data
    <3> QED BY <2>1, <2>3, <3>1, DaemonOwns, SealedByFinish
  <2> QED BY <2>1, <2>2, <2>3 DEF SupervisorFinishes
<1>5. CASE \E c \in Content : CaptureArtifact(c)
  <2>1. PICK c \in Content : CaptureArtifact(c)
    BY <1>5
  <2>2. /\ proc["daemon"].pc \in HasRun
        /\ UNCHANGED <<run, evidence, observed>>
    BY <2>1 DEF CaptureArtifact, HasRun
  <2>3. \A x \in captured' \ captured : x.run = RunOf("daemon")
    BY <2>1 DEF CaptureArtifact
  <2> QED BY <2>2, <2>3, DaemonOwns, SealedByStore
<1>6. CASE LifeCycle("daemon")
  BY <1>6, LifeCycleSeals DEF Process
<1> QED BY <1>1, <1>2, <1>3, <1>4, <1>5, <1>6 DEF Tick

LEMMA NextSeals ==
  ASSUME IInv, Next
  PROVE  SealsClosedRuns
<1>1. CASE BeginTick
  <2>1. UNCHANGED data /\ run' = RecoveredRuns(Stale)
    BY <1>1 DEF BeginTick
  <2>2. \A r \in Run : run'[r] = run[r] \/ run[r] \in {"none", "running"}
    BY <2>1, RecoveredFacts
  <2> QED BY <2>1, <2>2, SealedByStatus
<1>2. CASE \/ TickRefused \/ Restart
           \/ \E p \in Process : Crash(p)
           \/ \E j \in Job : EnqueueOwn(j) \/ Expire(j)
  <2>1. TickRefused \/ Restart => UNCHANGED <<run, data>>
    BY DEF TickRefused, Restart
  <2>2. (\E p \in Process : Crash(p)) => UNCHANGED <<run, data>>
    BY DEF Crash
  <2>3. (\E j \in Job : EnqueueOwn(j) \/ Expire(j)) => UNCHANGED <<run, data>>
    BY DEF EnqueueOwn, Expire
  <2>4. UNCHANGED <<run, data>>
    BY <1>2, <2>1, <2>2, <2>3
  <2> QED BY <2>4, SealedByStatus
<1>3. CASE Tick
  BY <1>3, TickSeals
<1>4. CASE Operate
  <2>1. CASE \E R \in SUBSET Stale, lease \in {"live", "stale"} : ClaimOwn(R, lease)
    <3>1. PICK R \in SUBSET Stale, lease \in {"live", "stale"} : ClaimOwn(R, lease)
      BY <2>1
    <3>2. UNCHANGED data /\ run' = RecoveredRuns(R)
      BY <3>1 DEF ClaimOwn
    <3>3. \A r \in Run : run'[r] = run[r] \/ run[r] \in {"none", "running"}
      BY <3>2, RecoveredFacts
    <3> QED BY <3>2, <3>3, SealedByStatus
  <2>2. CASE StartOwn
    BY <2>2, SealedByStart DEF StartOwn, Process
  <2>3. CASE GiveUp
    <3>1. UNCHANGED <<run, data>>
      BY <2>3 DEF GiveUp
    <3> QED BY <3>1, SealedByStatus
  <2>4. CASE LifeCycle("operator")
    BY <2>4, LifeCycleSeals DEF Process
  <2> QED BY <1>4, <2>1, <2>2, <2>3, <2>4 DEF Operate
<1> QED BY <1>1, <1>2, <1>3, <1>4 DEF Next

(* Neither a process that lost its claim nor one that is late adds to a    *)
(* run that was closed, and no closed run gets another status.             *)
THEOREM ClosedRunsStaySealed == Spec => ClosedRunsAreSealed
<1>1. IInv /\ [Next]_vars => [SealsClosedRuns]_vars
  BY NextSeals
<1> QED BY <1>1, Invariance, PTL DEF Spec, ClosedRunsAreSealed
=============================================================================
