-------------------------- MODULE CanonicalStream --------------------------
(***************************************************************************)
(* What the runs of one datasource definition write, and what readers of   *)
(* canonical_latest_v1 see: the observation revisions of each record key,  *)
(* the stream heads, full-snapshot tombstones, human review, promotion and *)
(* revocation (src/nan_fung/operational.py and 0003_canonical_views.sql).  *)
(*                                                                         *)
(* A revision is written, and becomes the head of its stream, while its    *)
(* run is still running; it becomes canonical only when that run, or a     *)
(* later run that saw the same record again, has succeeded and is promoted.*)
(* Several runs of the definition may be running at once (the daemon and a *)
(* lifecycle started from the CLI), and any of them may die: the queue     *)
(* (module JobStore) then fails its attempt.                               *)
(***************************************************************************)
EXTENDS Integers, Sequences, FiniteSets

CONSTANTS
    Run,           \* ingestion runs
    Key,           \* record keys
    Value,         \* contents of a record, up to observation_hash
    Scope,         \* full-snapshot deletion scopes
    Lane,          \* lanes a run may use
    Production,    \* the production_ingestion lane
    Definition,    \* the datasource definitions to consider
    MaxRevisions,  \* bound: revisions of one record
    NoScope, NoValue, NoLane

ASSUME LaneAssumption == Production \in Lane /\ NoLane \notin Lane

(* snapshot_mode and promotion_policy of a definition, the lanes its runs  *)
(* use and the contents its source publishes.                              *)
ASSUME DefinitionAssumption ==
    Definition \subseteq [mode   : {"incremental", "full_snapshot"},
                          policy : {"automatic", "manual_review"},
                          lanes  : SUBSET Lane,
                          values : SUBSET Value]
ASSUME BoundAssumption == MaxRevisions \in Nat
ASSUME NullAssumption == NoScope \notin Scope /\ NoValue \notin Value

VARIABLES
    definition, \* the definition the runs belong to
    status,     \* status of the run and of its attempt; "failed" stands for
                \* every closed status but "succeeded"
    lane,       \* ingestion_run.lane
    evidence,   \* runs with at least one run_evidence row
    scope,      \* ingestion_run.snapshot_scope_hash
    complete,   \* runs with snapshot_complete = 1
    stream,     \* observation_revision rows of a lane and key, by revision_no
    linked,     \* run_observation: <<run, key, revision_no>>
    review,     \* review_task.state of the run's review
    decisions   \* run_promotion rows of the run, oldest first

vars == <<definition, status, lane, evidence, scope, complete, stream, linked,
          review, decisions>>

Statuses == {"none", "running", "succeeded", "failed"}
Revision == [action : {"upsert", "tombstone"},
             value  : Value \cup {NoValue},
             scope  : Scope \cup {NoScope},
             by     : Run]

TypeOK ==
    /\ definition \in Definition
    /\ status \in [Run -> Statuses]
    /\ lane \in [Run -> Lane \cup {NoLane}]
    /\ evidence \subseteq Run
    /\ scope \in [Run -> Scope \cup {NoScope}]
    /\ complete \subseteq Run
    /\ stream \in [Lane -> [Key -> Seq(Revision)]]
    /\ linked \subseteq Run \X Key \X Nat
    /\ review \in [Run -> {"none", "open", "approved", "rejected"}]
    /\ decisions \in [Run -> Seq({"approved", "revoked"})]

Init ==
    /\ definition \in Definition
    /\ status = [r \in Run |-> "none"]
    /\ lane = [r \in Run |-> NoLane]
    /\ evidence = {}
    /\ scope = [r \in Run |-> NoScope]
    /\ complete = {}
    /\ stream = [l \in Lane |-> [k \in Key |-> <<>>]]
    /\ linked = {}
    /\ review = [r \in Run |-> "none"]
    /\ decisions = [r \in Run |-> <<>>]

-----------------------------------------------------------------------------
(* The stream head of a record, and what a run has seen.                   *)

HeadNo(l, k) == Len(stream[l][k])
HeadOf(l, k) == stream[l][k][HeadNo(l, k)]

HeadIsUpsert(l, k) == HeadNo(l, k) # 0 /\ HeadOf(l, k).action = "upsert"

(* Streams are kept per lane: a run reads and writes the heads of its own. *)
StreamLane(r) == lane[r]

(* Keys of the upsert revisions linked to the run, from this or an earlier *)
(* run.                                                                    *)
Seen(r) == {k \in Key : \E n \in 1..HeadNo(StreamLane(r), k) :
                           /\ <<r, k, n>> \in linked
                           /\ stream[StreamLane(r)][k][n].action = "upsert"}

-----------------------------------------------------------------------------
(* What readers see.                                                       *)

(* current_run_promotion_v1: the latest decision of the run.               *)
Approved(r) == /\ decisions[r] # <<>>
               /\ decisions[r][Len(decisions[r])] = "approved"

(* Mutant: the view does not look at the decision, only at its existence.  *)
EverApproved(k) ==
    {n \in 1..HeadNo(Production, k) :
        \E r \in Run : /\ <<r, k, n>> \in linked
                       /\ lane[r] = Production
                       /\ status[r] = "succeeded"}

(* canonical_event_v1: revisions of k seen by a succeeded production run   *)
(* whose current decision is an approval.                                  *)
CanonicalEvents(k) ==
    {n \in 1..HeadNo(Production, k) :
        \E r \in Run : /\ <<r, k, n>> \in linked
                       /\ lane[r] = Production
                       /\ status[r] = "succeeded"
                       /\ Approved(r)}

(* Mutant: the rows are ranked by revision_no in the wrong direction.      *)
OldestCanonicalNo(k) ==
    IF CanonicalEvents(k) = {} THEN 0
    ELSE CHOOSE n \in CanonicalEvents(k) : \A m \in CanonicalEvents(k) : n <= m

(* canonical_latest_v1 ranks the events by revision_no; 0 is no row.       *)
CanonicalNo(k) ==
    IF CanonicalEvents(k) = {} THEN 0
    ELSE CHOOSE n \in CanonicalEvents(k) : \A m \in CanonicalEvents(k) : n >= m

(* ... and drops the record when the first is a tombstone.                 *)
Canonical(k) ==
    IF CanonicalNo(k) = 0 \/ stream[Production][k][CanonicalNo(k)].action = "tombstone"
    THEN NoValue ELSE stream[Production][k][CanonicalNo(k)].value

-----------------------------------------------------------------------------
(* A run and what it writes.  _require_running_run guards every write.     *)

StartRun(r, l) ==
    /\ status[r] = "none"
    /\ l \in definition.lanes
    /\ status' = [status EXCEPT ![r] = "running"]
    /\ lane' = [lane EXCEPT ![r] = l]
    /\ UNCHANGED <<definition, evidence, scope, complete, stream, linked,
                   review, decisions>>

(* persist_evidence, for the first required artifact of the run.           *)
PersistEvidence(r) ==
    /\ status[r] = "running"
    /\ r \notin evidence
    /\ evidence' = evidence \cup {r}
    /\ UNCHANGED <<definition, status, lane, scope, complete, stream, linked,
                   review, decisions>>

(* begin_full_snapshot: the scope is declared once.                        *)
BeginFullSnapshot(r, s) ==
    /\ definition.mode = "full_snapshot"
    /\ status[r] = "running"
    /\ scope[r] = NoScope
    /\ scope' = [scope EXCEPT ![r] = s]
    /\ complete' = complete \ {r}
    /\ UNCHANGED <<definition, status, lane, evidence, stream, linked, review,
                   decisions>>

(* The head is reused when it is an upsert with the same hash.             *)
Reuses(l, k, v) == HeadIsUpsert(l, k) /\ HeadOf(l, k).value = v

(* persist_observation: reuse the head, or append a revision that becomes  *)
(* the head; either way link it to the run.                                *)
PersistObservation(r, k, v) ==
    LET l == StreamLane(r)
        row == [action |-> "upsert", value |-> v, scope |-> scope[r], by |-> r]
        n == IF Reuses(l, k, v) THEN HeadNo(l, k) ELSE HeadNo(l, k) + 1
    IN  /\ status[r] = "running"
        /\ r \in evidence
        /\ v \in definition.values
        /\ definition.mode = "full_snapshot" => scope[r] # NoScope
        /\ n <= MaxRevisions
        /\ stream' = IF Reuses(l, k, v) THEN stream
                     ELSE [stream EXCEPT ![l][k] = Append(@, row)]
        /\ linked' = linked \cup {<<r, k, n>>}
        /\ UNCHANGED <<definition, status, lane, evidence, scope, complete,
                       review, decisions>>

(* Mutant: the deletion scope of the head is not compared.                 *)
MissingInAnyScope(r) ==
    {k \in Key : HeadIsUpsert(StreamLane(r), k) /\ k \notin Seen(r)}

(* The keys finalize_full_snapshot deletes: live heads last written in the *)
(* same scope, that the run has not seen.                                  *)
Missing(r) ==
    {k \in Key : /\ HeadIsUpsert(StreamLane(r), k)
                 /\ HeadOf(StreamLane(r), k).scope = scope[r]
                 /\ k \notin Seen(r)}

(* finalize_full_snapshot, with a completeness proof for the exact scope.  *)
FinalizeFullSnapshot(r) ==
    LET l == StreamLane(r)
        row == [action |-> "tombstone", value |-> NoValue, scope |-> scope[r],
                by |-> r]
    IN  /\ definition.mode = "full_snapshot"
        /\ status[r] = "running"
        /\ scope[r] # NoScope
        /\ r \in evidence
        /\ \A k \in Missing(r) : HeadNo(l, k) < MaxRevisions
        /\ stream' = [stream EXCEPT ![l] =
              [k \in Key |-> IF k \in Missing(r) THEN Append(@[k], row) ELSE @[k]]]
        /\ linked' = linked \cup {<<r, k, HeadNo(l, k) + 1>> : k \in Missing(r)}
        /\ complete' = complete \cup {r}
        /\ UNCHANGED <<definition, status, lane, evidence, scope, review,
                       decisions>>

(* import_manual_evidence opens a review before it finishes the run.       *)
OpenReview(r) ==
    /\ definition.policy = "manual_review"
    /\ status[r] = "running"
    /\ r \in evidence
    /\ review[r] = "none"
    /\ review' = [review EXCEPT ![r] = "open"]
    /\ UNCHANGED <<definition, status, lane, evidence, scope, complete,
                   stream, linked, decisions>>

(* The conditions finish_run puts on promote=True.                         *)
MayPromote(r, s) ==
    /\ s = "succeeded"
    /\ lane[r] = Production
    /\ definition.policy = "automatic"
    /\ definition.mode = "full_snapshot" => r \in complete

(* finish_run; recover_expired closes the run of a dead worker the same    *)
(* way, with s = "failed".                                                 *)
FinishRun(r, s, promote) ==
    /\ status[r] = "running"
    /\ promote => MayPromote(r, s)
    /\ status' = [status EXCEPT ![r] = s]
    /\ decisions' = IF promote
                    THEN [decisions EXCEPT ![r] = Append(@, "approved")]
                    ELSE decisions
    /\ UNCHANGED <<definition, lane, evidence, scope, complete, stream,
                   linked, review>>

-----------------------------------------------------------------------------
(* The operator.                                                           *)

(* decide_review: the first decision stands.                               *)
DecideReview(r, d) ==
    /\ review[r] = "open"
    /\ review' = [review EXCEPT ![r] = d]
    /\ UNCHANGED <<definition, status, lane, evidence, scope, complete,
                   stream, linked, decisions>>

(* Mutant: promote_review does not look for an earlier approval.           *)
PromoteReviewAgain(r) ==
    /\ review[r] = "approved"
    /\ definition.policy = "manual_review"
    /\ lane[r] = Production
    /\ status[r] = "succeeded"
    /\ ~Approved(r)
    /\ decisions' = [decisions EXCEPT ![r] = Append(@, "approved")]
    /\ UNCHANGED <<definition, status, lane, evidence, scope, complete,
                   stream, linked, review>>

(* promote_review: an approved review of a successful production run.  A   *)
(* run that ever was approved (the review is linked to a promotion) is     *)
(* answered with that promotion or refused, even after a revocation.       *)
PromoteReview(r) ==
    /\ review[r] = "approved"
    /\ definition.policy = "manual_review"
    /\ lane[r] = Production
    /\ status[r] = "succeeded"
    /\ \A i \in 1..Len(decisions[r]) : decisions[r][i] # "approved"
    /\ decisions' = [decisions EXCEPT ![r] = Append(@, "approved")]
    /\ UNCHANGED <<definition, status, lane, evidence, scope, complete,
                   stream, linked, review>>

(* revoke_promotion: the latest decision is an approval; a second call is  *)
(* answered with the first revocation.                                     *)
RevokePromotion(r) ==
    /\ Approved(r)
    /\ lane[r] = Production
    /\ status[r] = "succeeded"
    /\ decisions' = [decisions EXCEPT ![r] = Append(@, "revoked")]
    /\ UNCHANGED <<definition, status, lane, evidence, scope, complete,
                   stream, linked, review>>

Next ==
    \E r \in Run :
        \/ \E l \in Lane : StartRun(r, l)
        \/ PersistEvidence(r)
        \/ \E s \in Scope : BeginFullSnapshot(r, s)
        \/ \E k \in Key, v \in Value : PersistObservation(r, k, v)
        \/ FinalizeFullSnapshot(r)
        \/ OpenReview(r)
        \/ \E s \in {"succeeded", "failed"}, promote \in BOOLEAN :
              FinishRun(r, s, promote)
        \/ \E d \in {"approved", "rejected"} : DecideReview(r, d)
        \/ PromoteReview(r)
        \/ RevokePromotion(r)

Spec == Init /\ [][Next]_vars

-----------------------------------------------------------------------------
(* Safety.                                                                 *)

(* Every revision changes the record: no upsert repeats the content of the *)
(* revision before it, and a tombstone follows an upsert of its own scope. *)
EveryRevisionChanges ==
    \A l \in Lane, k \in Key : \A n \in 1..HeadNo(l, k) :
        LET new == stream[l][k][n]
        IN  IF n = 1 THEN new.action = "upsert"
            ELSE LET old == stream[l][k][n - 1]
                 IN  \/ new.action = "upsert"
                           /\ (old.action = "upsert" => old.value # new.value)
                     \/ /\ new.action = "tombstone"
                        /\ old.action = "upsert"
                        /\ old.scope = new.scope

(* A run has one history of decisions: approved once, revoked at most once,*)
(* never approved again; and an approved run is a production run that      *)
(* succeeded, whose review (under manual review) was approved and whose    *)
(* full snapshot was finalized.                                            *)
DecisionHistory ==
    \A r \in Run :
        /\ decisions[r] \in {<<>>, <<"approved">>, <<"approved", "revoked">>}
        /\ decisions[r] # <<>> =>
              /\ lane[r] = Production /\ status[r] = "succeeded"
              /\ IF definition.policy = "manual_review" THEN review[r] = "approved"
                 ELSE definition.mode = "full_snapshot" => r \in complete

(* Lanes are isolated: a run is linked to revisions of its own lane's      *)
(* stream, and a revision belongs to the stream of the run that wrote it.  *)
LanesAreIsolated ==
    /\ \A x \in linked : x[3] \in 1..HeadNo(lane[x[1]], x[2])
    /\ \A l \in Lane, k \in Key : \A n \in 1..HeadNo(l, k) :
          /\ lane[stream[l][k][n].by] = l
          /\ <<stream[l][k][n].by, k, n>> \in linked

(* The rows of a stream agree: revisions that change the record, linked to *)
(* runs of their own lane.                                                 *)
StreamsAreConsistent == TypeOK /\ EveryRevisionChanges /\ LanesAreIsolated

(* A run has a lane from its start on, and nothing is linked to it before. *)
RunsStartBare ==
    /\ \A r \in Run : status[r] = "none" <=> lane[r] = NoLane
    /\ \A x \in linked : status[x[1]] # "none"

(* The inductive invariant of the proofs.                                  *)
IInv == StreamsAreConsistent /\ DecisionHistory /\ RunsStartBare

(* What a reader sees changes only when a run is promoted or a promotion is*)
(* revoked: nothing a run writes, and no run that fails, shows through.    *)
ReadersSeeOnlyDecisions ==
    [][decisions' = decisions => \A k \in Key : Canonical(k)' = Canonical(k)]_vars

(* An older revision that is approved late does not outrank a newer one:   *)
(* without a revocation a record never goes back to an earlier revision.   *)
CanonicalMovesForward ==
    [][(\A r \in Run : Approved(r) => Approved(r)') =>
          \A k \in Key : CanonicalNo(k)' >= CanonicalNo(k)]_vars

=============================================================================
