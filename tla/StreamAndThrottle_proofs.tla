---------------------- MODULE StreamAndThrottle_proofs ----------------------
(***************************************************************************)
(* Proofs about two tables of the store.  First the record streams and     *)
(* what readers see of them (CanonicalStream), for any number of runs,     *)
(* keys, lanes, scopes and revisions; then the gate around each request    *)
(* (HostThrottle), for any number of hosts and processes, any pacing       *)
(* interval and any Retry-After delays.  The two share nothing.            *)
(***************************************************************************)
EXTENDS CanonicalStream, HostThrottle, SequenceTheorems, WellFoundedInduction,
        TLAPS

(* A set of natural numbers with an upper bound has a largest element.     *)
LEMMA MaximumExists ==
  ASSUME NEW m \in Nat, NEW S \in SUBSET (0..m), S # {}
  PROVE  \E x \in S : \A y \in S : x >= y
<1> DEFINE U == {u \in Nat : \A y \in S : u >= y}
           R == OpToRel(<, Nat)
<1>1. m \in U
  OBVIOUS
<1>2. \E u \in U : \A v \in U : ~(<<v, u>> \in R)
  <2>1. IsWellFoundedOn(R, Nat)
    BY NatLessThanWellFounded
  <2>2. U \subseteq Nat /\ U # {}
    BY <1>1
  <2> HIDE DEF U, R
  <2> QED BY <2>1, <2>2, WFMin
<1>3. PICK u \in U : \A v \in U : u <= v
  <2>1. PICK u \in U : \A v \in U : ~(<<v, u>> \in R)
    BY <1>2
  <2>2. ASSUME NEW v \in U PROVE u <= v
    <3>1. ~(v < u)
      BY <2>1 DEF OpToRel
    <3> QED BY <3>1
  <2> QED BY <2>2
<1>4. u \in S
  <2>1. SUFFICES ASSUME u \notin S PROVE FALSE
    OBVIOUS
  <2>2. PICK y \in S : TRUE
    OBVIOUS
  <2>4. u \in Nat /\ y \in Nat /\ u >= y /\ u # y
    BY <2>1
  <2>5. u - 1 \in Nat /\ \A z \in S : u - 1 >= z
    BY <2>1, <2>4
  <2>3. u - 1 \in U
    BY <2>5
  <2> QED BY <1>3, <2>3, <2>4
<1> QED BY <1>4

-----------------------------------------------------------------------------
(* The invariant.                                                          *)

LEMMA InitInv ==
  ASSUME Init
  PROVE  IInv
<1>1. TypeOK
  BY DEF Init, TypeOK, Statuses
<1>2. \A l \in Lane, k \in Key : HeadNo(l, k) = 0
  BY DEF Init, HeadNo
<1>3. EveryRevisionChanges /\ LanesAreIsolated
  BY <1>2 DEF Init, EveryRevisionChanges, LanesAreIsolated
<1>4. DecisionHistory /\ RunsStartBare
  BY LaneAssumption DEF Init, DecisionHistory, RunsStartBare
<1> QED BY <1>1, <1>3, <1>4 DEF IInv, StreamsAreConsistent

(* Steps that write no revision.                                           *)
LEMMA StreamsKept ==
  ASSUME StreamsAreConsistent, TypeOK', UNCHANGED <<lane, stream, linked>>
  PROVE  StreamsAreConsistent'
  BY DEF StreamsAreConsistent, EveryRevisionChanges, LanesAreIsolated, HeadNo

(* A run that starts had no lane and no links, so nothing is said of it    *)
(* that its lane could change.                                             *)
LEMMA StartRunInv ==
  ASSUME IInv, NEW r \in Run, NEW l \in Lane, StartRun(r, l)
  PROVE  IInv'
<1>1. TypeOK'
  BY DEF IInv, StreamsAreConsistent, TypeOK, StartRun, Statuses
<1>2. \A q \in Run : q # r => lane'[q] = lane[q] /\ status'[q] = status[q]
  BY DEF IInv, StreamsAreConsistent, TypeOK, StartRun
<1>3. /\ lane[r] = NoLane /\ lane'[r] = l /\ status'[r] = "running"
      /\ status[r] = "none" /\ l # NoLane
  BY LaneAssumption
     DEF IInv, StreamsAreConsistent, TypeOK, StartRun, RunsStartBare
<1>4. EveryRevisionChanges'
  BY DEF IInv, StreamsAreConsistent, EveryRevisionChanges, StartRun, HeadNo
<1>5. LanesAreIsolated'
  <2>1. ASSUME NEW x \in linked PROVE x[3] \in 1..HeadNo(lane[x[1]], x[2])'
    <3>1. x[1] \in Run /\ x[1] # r
      BY <1>3 DEF IInv, StreamsAreConsistent, TypeOK, RunsStartBare
    <3> QED BY <3>1, <1>2
            DEF IInv, StreamsAreConsistent, LanesAreIsolated, HeadNo, StartRun
  <2>2. ASSUME NEW m \in Lane, NEW k \in Key, NEW n \in 1..HeadNo(m, k)'
        PROVE  /\ (lane[stream[m][k][n].by] = m)'
               /\ (<<stream[m][k][n].by, k, n>> \in linked)'
    <3>1. /\ stream' = stream /\ linked' = linked /\ n \in 1..HeadNo(m, k)
      BY DEF StartRun, HeadNo
    <3>2. stream[m][k][n] \in Revision
      BY <3>1 DEF IInv, StreamsAreConsistent, TypeOK, HeadNo
    <3>3. lane[stream[m][k][n].by] = m /\ <<stream[m][k][n].by, k, n>> \in linked
      BY <3>1 DEF IInv, StreamsAreConsistent, LanesAreIsolated
    <3>4. stream[m][k][n].by \in Run /\ stream[m][k][n].by # r
      BY <1>3, <3>2, <3>3, LaneAssumption DEF Revision
    <3> QED BY <1>2, <3>1, <3>3, <3>4
  <2> QED BY <2>1, <2>2 DEF LanesAreIsolated, StartRun
<1>6. DecisionHistory'
  BY <1>2, <1>3 DEF IInv, DecisionHistory, StartRun
<1>7. RunsStartBare'
  <2>1. \A q \in Run : (status[q] = "none" <=> lane[q] = NoLane)'
    BY <1>2, <1>3 DEF IInv, RunsStartBare
  <2>2. \A x \in linked : x[1] \in Run /\ status'[x[1]] # "none"
    BY <1>2, <1>3 DEF IInv, RunsStartBare, StreamsAreConsistent, TypeOK
  <2> QED BY <2>1, <2>2 DEF RunsStartBare, StartRun
<1> QED BY <1>1, <1>4, <1>5, <1>6, <1>7 DEF IInv, StreamsAreConsistent

(* A running run r adds the links L, and the revision row to the streams of*)
(* the keys K in its lane.                                                 *)
Appends(r, K, row, L) ==
  /\ status[r] = "running"
  /\ row \in Revision /\ row.by = r
  /\ stream' \in [Lane -> [Key -> Seq(Revision)]]
  /\ \A l \in Lane, k \in Key :
        stream'[l][k] = IF l = lane[r] /\ k \in K
                        THEN Append(stream[l][k], row) ELSE stream[l][k]
  /\ linked' = linked \cup L
  /\ \A x \in L : \E k \in Key, n \in Nat :
        x = <<r, k, n>> /\ n \in 1..Len(stream'[lane[r]][k])
  /\ \A k \in K : <<r, k, HeadNo(lane[r], k) + 1>> \in L
  /\ UNCHANGED <<definition, status, lane, evidence, scope, review, decisions>>

(* The revision changes the record it is appended to.                      *)
Follows(l, k, row) ==
  \/ /\ row.action = "upsert"
     /\ HeadIsUpsert(l, k) => HeadOf(l, k).value # row.value
  \/ /\ row.action = "tombstone"
     /\ HeadIsUpsert(l, k)
     /\ HeadOf(l, k).scope = row.scope

(* What an append does to a stream: the old revisions stay.                *)
LEMMA AppendFacts ==
  ASSUME IInv, NEW r \in Run, NEW K \in SUBSET Key, NEW row, NEW L,
         Appends(r, K, row, L), NEW l \in Lane, NEW k \in Key
  PROVE  /\ HeadNo(l, k) \in Nat /\ stream[l][k] \in Seq(Revision)
         /\ HeadNo(l, k)' = IF l = lane[r] /\ k \in K
                            THEN HeadNo(l, k) + 1 ELSE HeadNo(l, k)
         /\ \A n \in 1..HeadNo(l, k) : stream'[l][k][n] = stream[l][k][n]
         /\ l = lane[r] /\ k \in K => stream'[l][k][HeadNo(l, k) + 1] = row
<1>1. stream[l][k] \in Seq(Revision)
  BY DEF IInv, StreamsAreConsistent, TypeOK
<1>2. stream'[l][k] = IF l = lane[r] /\ k \in K
                      THEN Append(stream[l][k], row) ELSE stream[l][k]
  BY DEF Appends
<1>3. row \in Revision
  BY DEF Appends
<1> QED BY <1>1, <1>2, <1>3 DEF HeadNo

(* The revisions of every stream still change the record.                  *)
LEMMA AppendChanges ==
  ASSUME IInv, NEW r \in Run, NEW K \in SUBSET Key, NEW row, NEW L,
         Appends(r, K, row, L), \A k \in K : Follows(lane[r], k, row)
  PROVE  EveryRevisionChanges'
<1> SUFFICES ASSUME NEW l \in Lane, NEW k \in Key, NEW n \in 1..HeadNo(l, k)'
             PROVE  LET new == stream'[l][k][n]
                        old == stream'[l][k][n - 1]
                    IN  IF n = 1 THEN new.action = "upsert"
                        ELSE \/ new.action = "upsert"
                                   /\ (old.action = "upsert" => old.value # new.value)
                             \/ /\ new.action = "tombstone"
                                /\ old.action = "upsert"
                                /\ old.scope = new.scope
  BY DEF EveryRevisionChanges
<1>a. /\ HeadNo(l, k) \in Nat
      /\ HeadNo(l, k)' = IF l = lane[r] /\ k \in K
                         THEN HeadNo(l, k) + 1 ELSE HeadNo(l, k)
      /\ \A m \in 1..HeadNo(l, k) : stream'[l][k][m] = stream[l][k][m]
      /\ l = lane[r] /\ k \in K => stream'[l][k][HeadNo(l, k) + 1] = row
  BY AppendFacts
<1>1. CASE n \in 1..HeadNo(l, k)
  <2>1. stream'[l][k][n] = stream[l][k][n]
    BY <1>1, <1>a
  <2>2. n # 1 => stream'[l][k][n - 1] = stream[l][k][n - 1]
    BY <1>1, <1>a
  <2> QED BY <1>1, <2>1, <2>2
          DEF IInv, StreamsAreConsistent, EveryRevisionChanges
<1>2. CASE n \notin 1..HeadNo(l, k)
  <2>1. l = lane[r] /\ k \in K /\ n = HeadNo(l, k) + 1
    BY <1>2, <1>a
  <2>2. stream'[l][k][n] = row
    BY <2>1, <1>a
  <2>3. n # 1 => stream'[l][k][n - 1] = HeadOf(l, k)
    BY <2>1, <1>a DEF HeadOf
  <2>4. Follows(l, k, row)
    BY <2>1
  <2>5. HeadIsUpsert(l, k) <=> n # 1 /\ HeadOf(l, k).action = "upsert"
    BY <2>1, <1>a DEF HeadIsUpsert
  <2> QED BY <2>2, <2>3, <2>4, <2>5 DEF Follows
<1> QED BY <1>1, <1>2

(* The new links and revisions belong to the lane of the run.              *)
LEMMA AppendIsolated ==
  ASSUME IInv, NEW r \in Run, NEW K \in SUBSET Key, NEW row, NEW L,
         Appends(r, K, row, L), lane[r] \in Lane
  PROVE  LanesAreIsolated'
<1>1. ASSUME NEW x \in linked' PROVE x[3] \in 1..HeadNo(lane[x[1]], x[2])'
  <2>1. CASE x \in linked
    <3>1. x[1] \in Run /\ x[2] \in Key /\ lane[x[1]] \in Lane
      BY <2>1 DEF IInv, StreamsAreConsistent, TypeOK, RunsStartBare
    <3>2. x[3] \in 1..HeadNo(lane[x[1]], x[2])
      BY <2>1 DEF IInv, StreamsAreConsistent, LanesAreIsolated
    <3>3. /\ HeadNo(lane[x[1]], x[2]) \in Nat
          /\ \/ HeadNo(lane[x[1]], x[2])' = HeadNo(lane[x[1]], x[2])
             \/ HeadNo(lane[x[1]], x[2])' = HeadNo(lane[x[1]], x[2]) + 1
      <4>1. ASSUME NEW l \in Lane, NEW k \in Key
            PROVE  /\ HeadNo(l, k) \in Nat
                   /\ \/ HeadNo(l, k)' = HeadNo(l, k)
                      \/ HeadNo(l, k)' = HeadNo(l, k) + 1
        BY AppendFacts
      <4>2. lane' = lane
        BY DEF Appends
      <4> QED BY <3>1, <4>1, <4>2 DEF HeadNo
    <3> QED BY <3>2, <3>3
  <2>2. CASE x \in L
    BY <2>2 DEF Appends, HeadNo
  <2> QED BY <2>1, <2>2 DEF Appends
<1>2. ASSUME NEW l \in Lane, NEW k \in Key, NEW n \in 1..HeadNo(l, k)'
      PROVE  /\ lane'[stream'[l][k][n].by] = l
             /\ <<stream'[l][k][n].by, k, n>> \in linked'
  <2> HeadNo(l, k) \in Nat
    BY AppendFacts
  <2>1. CASE n \in 1..HeadNo(l, k)
    <3>1. stream'[l][k][n] = stream[l][k][n]
      BY <2>1, AppendFacts
    <3> QED BY <2>1, <3>1 DEF IInv, StreamsAreConsistent, LanesAreIsolated, Appends
  <2>2. CASE n \notin 1..HeadNo(l, k)
    <3>1. l = lane[r] /\ k \in K /\ n = HeadNo(l, k) + 1
      BY <2>2, AppendFacts
    <3>2. stream'[l][k][n] = row
      BY <3>1, AppendFacts
    <3> QED BY <3>1, <3>2 DEF Appends
  <2> QED BY <2>1, <2>2
<1> QED BY <1>1, <1>2 DEF LanesAreIsolated

LEMMA AppendInv ==
  ASSUME IInv, NEW r \in Run, NEW K \in SUBSET Key, NEW row, NEW L,
         Appends(r, K, row, L), \A k \in K : Follows(lane[r], k, row),
         complete' = complete \/ complete' = complete \cup {r}
  PROVE  IInv'
<1>1. lane[r] \in Lane
  BY DEF IInv, RunsStartBare, StreamsAreConsistent, TypeOK, Appends
<1>2. TypeOK'
  <2>1. L \subseteq Run \X Key \X Nat
    BY DEF Appends
  <2> QED BY <2>1 DEF IInv, StreamsAreConsistent, TypeOK, Appends
<1>3. DecisionHistory'
  BY DEF IInv, DecisionHistory, Appends
<1>4. RunsStartBare'
  <2>1. \A x \in L : x[1] = r
    BY DEF Appends
  <2> QED BY <2>1 DEF IInv, RunsStartBare, Appends
<1> QED BY <1>1, <1>2, <1>3, <1>4, AppendChanges, AppendIsolated
        DEF IInv, StreamsAreConsistent

(* persist_observation reuses the head, or appends a revision of another   *)
(* content.                                                                *)
LEMMA PersistObservationInv ==
  ASSUME IInv, NEW r \in Run, NEW k \in Key, NEW v \in Value,
         PersistObservation(r, k, v)
  PROVE  \E K \in SUBSET Key, row \in Revision, L \in SUBSET (Run \X Key \X Nat) :
            Appends(r, K, row, L) /\ \A q \in K : Follows(lane[r], q, row)
<1> DEFINE row == [action |-> "upsert", value |-> v, scope |-> scope[r], by |-> r]
<1>1. /\ status[r] = "running" /\ lane[r] \in Lane
      /\ stream \in [Lane -> [Key -> Seq(Revision)]]
      /\ HeadNo(lane[r], k) \in Nat
  BY DEF IInv, RunsStartBare, StreamsAreConsistent, TypeOK, PersistObservation,
         HeadNo
<1>2. row \in Revision /\ row.by = r /\ row.action = "upsert" /\ row.value = v
  BY DEF Revision, IInv, StreamsAreConsistent, TypeOK
<1> HIDE DEF row
<1>3. CASE Reuses(lane[r], k, v)
  <2> DEFINE L == {<<r, k, HeadNo(lane[r], k)>>}
  <2>1. /\ linked' = linked \cup L /\ stream' = stream
        /\ UNCHANGED <<definition, status, lane, evidence, scope, review, decisions>>
    BY <1>3 DEF PersistObservation, StreamLane
  <2>2. HeadNo(lane[r], k) \in 1..Len(stream'[lane[r]][k])
    BY <1>1, <1>3, <2>1 DEF Reuses, HeadIsUpsert, HeadNo
  <2>3. Appends(r, {}, row, L)
    BY <1>1, <1>2, <2>1, <2>2 DEF Appends
  <2>4. L \in SUBSET (Run \X Key \X Nat)
    BY <1>1
  <2> HIDE DEF L
  <2> QED BY <1>2, <2>3, <2>4
<1>4. CASE ~Reuses(lane[r], k, v)
  <2> DEFINE L == {<<r, k, HeadNo(lane[r], k) + 1>>}
  <2>1. /\ linked' = linked \cup L
        /\ stream' = [stream EXCEPT ![lane[r]][k] = Append(@, row)]
        /\ UNCHANGED <<definition, status, lane, evidence, scope, review, decisions>>
    BY <1>4 DEF PersistObservation, StreamLane, row
  <2>2. /\ stream' \in [Lane -> [Key -> Seq(Revision)]]
        /\ \A m \in Lane, q \in Key :
              stream'[m][q] = IF m = lane[r] /\ q \in {k}
                              THEN Append(stream[m][q], row) ELSE stream[m][q]
    BY <1>1, <1>2, <2>1
  <2>3. HeadNo(lane[r], k) + 1 \in 1..Len(stream'[lane[r]][k])
    <3>1. stream'[lane[r]][k] = Append(stream[lane[r]][k], row)
      BY <1>1, <2>2
    <3> QED BY <1>1, <1>2, <3>1 DEF HeadNo
  <2>4. Appends(r, {k}, row, L)
    BY <1>1, <1>2, <2>1, <2>2, <2>3 DEF Appends
  <2>5. Follows(lane[r], k, row)
    BY <1>2, <1>4 DEF Follows, Reuses
  <2>6. L \in SUBSET (Run \X Key \X Nat) /\ {k} \in SUBSET Key
    BY <1>1
  <2> HIDE DEF L
  <2> QED BY <1>2, <2>4, <2>5, <2>6
<1> QED BY <1>3, <1>4

(* finalize_full_snapshot appends tombstones to live heads of its scope.   *)
LEMMA FinalizeInv ==
  ASSUME IInv, NEW r \in Run, FinalizeFullSnapshot(r)
  PROVE  \E K \in SUBSET Key, row \in Revision, L \in SUBSET (Run \X Key \X Nat) :
            Appends(r, K, row, L) /\ \A q \in K : Follows(lane[r], q, row)
<1> DEFINE row == [action |-> "tombstone", value |-> NoValue, scope |-> scope[r],
                   by |-> r]
           K == Missing(r)
           L == {<<r, k, HeadNo(lane[r], k) + 1>> : k \in K}
<1>1. /\ status[r] = "running" /\ lane[r] \in Lane
      /\ stream \in [Lane -> [Key -> Seq(Revision)]]
      /\ \A k \in Key : HeadNo(lane[r], k) \in Nat
  BY DEF IInv, RunsStartBare, StreamsAreConsistent, TypeOK, FinalizeFullSnapshot,
         HeadNo
<1>2. /\ row \in Revision /\ row.by = r /\ row.action = "tombstone"
      /\ row.scope = scope[r]
  BY DEF Revision, IInv, StreamsAreConsistent, TypeOK
<1>3. /\ linked' = linked \cup L
      /\ stream' = [stream EXCEPT ![lane[r]] =
            [k \in Key |-> IF k \in K THEN Append(@[k], row) ELSE @[k]]]
      /\ UNCHANGED <<definition, status, lane, evidence, scope, review, decisions>>
  BY DEF FinalizeFullSnapshot, StreamLane
<1>4. K \in SUBSET Key /\ \A k \in K : Follows(lane[r], k, row)
  BY <1>2 DEF Missing, Follows, StreamLane
<1>5. L \in SUBSET (Run \X Key \X Nat)
  BY <1>1, <1>4
<1> HIDE DEF row, K
<1>6. /\ stream' \in [Lane -> [Key -> Seq(Revision)]]
      /\ \A m \in Lane, q \in Key :
            stream'[m][q] = IF m = lane[r] /\ q \in K
                            THEN Append(stream[m][q], row) ELSE stream[m][q]
  BY <1>1, <1>2, <1>3
<1>7. ASSUME NEW k \in K PROVE HeadNo(lane[r], k) + 1 \in 1..Len(stream'[lane[r]][k])
  <2>1. stream'[lane[r]][k] = Append(stream[lane[r]][k], row)
    BY <1>1, <1>4, <1>6
  <2> QED BY <1>1, <1>2, <1>4, <2>1 DEF HeadNo
<1>8. \A x \in L : \E k \in Key, n \in Nat :
        x = <<r, k, n>> /\ n \in 1..Len(stream'[lane[r]][k])
  BY <1>1, <1>4, <1>7
<1>9. \A k \in K : <<r, k, HeadNo(lane[r], k) + 1>> \in L
  OBVIOUS
<1> HIDE DEF L
<1>10. Appends(r, K, row, L)
  BY <1>1, <1>2, <1>3, <1>6, <1>8, <1>9 DEF Appends
<1> QED BY <1>2, <1>4, <1>5, <1>10

(* Steps that append nothing and change no lane.                           *)
LEMMA QuietStep ==
  ASSUME IInv, TypeOK', DecisionHistory', UNCHANGED <<lane, stream, linked>>,
         \A r \in Run : status'[r] = "none" <=> status[r] = "none"
  PROVE  IInv'
<1>1. StreamsAreConsistent'
  BY StreamsKept DEF IInv
<1>2. \A x \in linked : x[1] \in Run
  BY DEF IInv, StreamsAreConsistent, TypeOK
<1>3. RunsStartBare'
  BY <1>2 DEF IInv, RunsStartBare
<1> QED BY <1>1, <1>3 DEF IInv

(* persist_evidence and begin_full_snapshot.                               *)
LEMMA PrepareInv ==
  ASSUME IInv, NEW r \in Run,
         PersistEvidence(r) \/ \E s \in Scope : BeginFullSnapshot(r, s)
  PROVE  IInv'
<1>1. TypeOK'
  BY ZenonT(60) DEF IInv, StreamsAreConsistent, TypeOK, PersistEvidence, BeginFullSnapshot
<1>2. DecisionHistory'
  BY DEF IInv, DecisionHistory, PersistEvidence, BeginFullSnapshot
<1>3. UNCHANGED <<lane, stream, linked, status>>
  BY DEF PersistEvidence, BeginFullSnapshot
<1> QED BY <1>1, <1>2, <1>3, QuietStep

(* open a review, and decide it.                                           *)
LEMMA ReviewInv ==
  ASSUME IInv, NEW r \in Run,
         OpenReview(r) \/ \E d \in {"approved", "rejected"} : DecideReview(r, d)
  PROVE  IInv'
<1>1. TypeOK'
  BY DEF IInv, StreamsAreConsistent, TypeOK, OpenReview, DecideReview
<1>2. /\ UNCHANGED <<definition, lane, stream, linked, status, decisions, complete>>
      /\ \A q \in Run : q # r => review'[q] = review[q]
      /\ review[r] \in {"none", "open"}
  BY DEF IInv, StreamsAreConsistent, TypeOK, OpenReview, DecideReview
<1>3. DecisionHistory'
  BY <1>2 DEF IInv, DecisionHistory
<1> QED BY <1>1, <1>2, <1>3, QuietStep

(* The three histories a run may have, and what one more decision makes.   *)
LEMMA Histories ==
  /\ Append(<<>>, "approved") = <<"approved">>
  /\ Append(<<"approved">>, "revoked") = <<"approved", "revoked">>
  /\ <<"approved">>[Len(<<"approved">>)] = "approved"
  /\ <<"approved", "revoked">>[Len(<<"approved", "revoked">>)] = "revoked"
  /\ <<"approved", "revoked">>[1] = "approved"
  /\ Len(<<"approved">>) = 1 /\ Len(<<"approved", "revoked">>) = 2
  /\ <<>> # <<"approved">> /\ <<>> # <<"approved", "revoked">>
<1>1. Append(<<>>, "approved") = <<"approved">>
  OBVIOUS
<1>2. Append(<<"approved">>, "revoked") = <<"approved", "revoked">>
  <2> DEFINE D == {"approved", "revoked"}
             s == Append(<<"approved">>, "revoked")
             t == <<"approved", "revoked">>
  <2>1. s \in Seq(D) /\ t \in Seq(D) /\ Len(s) = 2 /\ Len(t) = 2
    OBVIOUS
  <2>2. s[1] = t[1] /\ s[2] = t[2]
    OBVIOUS
  <2>3. \A i \in 1..2 : s[i] = t[i]
    BY <2>2
  <2> HIDE DEF s, t, D
  <2>4. s = t
    BY <2>1, <2>3, SeqEqual
  <2> QED BY <2>4 DEF s, t
<1>3. Len(<<"approved">>) = 1 /\ Len(<<"approved", "revoked">>) = 2
  OBVIOUS
<1>4. Len(<<>>) = 0
  OBVIOUS
<1>5. /\ <<"approved">>[1] = "approved" /\ <<"approved", "revoked">>[1] = "approved"
      /\ <<"approved", "revoked">>[2] = "revoked"
  OBVIOUS
<1>6. <<>> # <<"approved">> /\ <<>> # <<"approved", "revoked">>
  BY <1>3, <1>4
<1> QED BY <1>1, <1>2, <1>3, <1>5, <1>6

(* finish_run: a run that runs has no decision, so a promotion is its first.*)
LEMMA FinishRunInv ==
  ASSUME IInv, NEW r \in Run, NEW s \in {"succeeded", "failed"},
         NEW promote \in BOOLEAN, FinishRun(r, s, promote)
  PROVE  IInv'
<1>1. TypeOK'
  BY DEF IInv, StreamsAreConsistent, TypeOK, FinishRun, Statuses
<1>2. /\ UNCHANGED <<definition, lane, stream, linked, review, complete>>
      /\ status[r] = "running" /\ status'[r] = s
      /\ \A q \in Run : q # r => status'[q] = status[q] /\ decisions'[q] = decisions[q]
  BY DEF IInv, StreamsAreConsistent, TypeOK, FinishRun
<1>3. decisions[r] = <<>>
  BY <1>2 DEF IInv, DecisionHistory
<1>4. \/ decisions'[r] = <<>>
      \/ decisions'[r] = <<"approved">> /\ MayPromote(r, s)
  BY <1>3, Histories DEF IInv, StreamsAreConsistent, TypeOK, FinishRun
<1>5. DecisionHistory'
  BY <1>2, <1>4 DEF IInv, DecisionHistory, MayPromote
<1> QED BY <1>1, <1>2, <1>5, QuietStep

(* promote_review is the first decision of its run, revoke_promotion the   *)
(* second.                                                                 *)
LEMMA DecisionInv ==
  ASSUME IInv, NEW r \in Run, PromoteReview(r) \/ RevokePromotion(r)
  PROVE  IInv'
<1>1. TypeOK'
  <2>1. \E d \in {"approved", "revoked"} :
           decisions' = [decisions EXCEPT ![r] = Append(@, d)]
    BY DEF PromoteReview, RevokePromotion
  <2>2. decisions' \in [Run -> Seq({"approved", "revoked"})]
    BY <2>1 DEF IInv, StreamsAreConsistent, TypeOK
  <2> QED BY <2>2 DEF IInv, StreamsAreConsistent, TypeOK, PromoteReview,
                      RevokePromotion
<1>2. /\ UNCHANGED <<definition, lane, stream, linked, status, review, complete>>
      /\ \A q \in Run : q # r => decisions'[q] = decisions[q]
      /\ lane[r] = Production /\ status[r] = "succeeded"
  BY DEF IInv, StreamsAreConsistent, TypeOK, PromoteReview, RevokePromotion
<1>3. decisions[r] \in {<<>>, <<"approved">>, <<"approved", "revoked">>}
  BY DEF IInv, DecisionHistory
<1>4. CASE PromoteReview(r)
  <2>1. decisions[r] = <<>>
    BY <1>3, <1>4, Histories DEF PromoteReview
  <2>2. decisions'[r] = <<"approved">>
    BY <1>4, <2>1, Histories DEF PromoteReview, IInv, StreamsAreConsistent, TypeOK
  <2>3. definition.policy = "manual_review" /\ review[r] = "approved"
    BY <1>4 DEF PromoteReview
  <2>4. DecisionHistory'
    BY <1>2, <2>2, <2>3 DEF IInv, DecisionHistory
  <2> QED BY <1>1, <1>2, <2>4, QuietStep
<1>5. CASE RevokePromotion(r)
  <2>1. decisions[r] = <<"approved">>
    BY <1>3, <1>5, Histories DEF RevokePromotion, Approved
  <2>2. decisions'[r] = <<"approved", "revoked">>
    BY <1>5, <2>1, Histories DEF RevokePromotion, IInv, StreamsAreConsistent, TypeOK
  <2>3. DecisionHistory'
    BY <1>2, <2>1, <2>2, Histories DEF IInv, DecisionHistory
  <2> QED BY <1>1, <1>2, <2>3, QuietStep
<1> QED BY <1>4, <1>5

(* What a step is: an append by one run, or one of the quiet steps.        *)
LEMMA NextInv ==
  ASSUME IInv, [Next]_vars
  PROVE  IInv'
<1>1. CASE UNCHANGED vars
  <2>1. TypeOK' /\ DecisionHistory'
    BY <1>1 DEF IInv, StreamsAreConsistent, TypeOK, DecisionHistory, vars
  <2> QED BY <1>1, <2>1, QuietStep DEF vars
<1>2. CASE Next
  <2> PICK r \in Run :
        \/ \E l \in Lane : StartRun(r, l)
        \/ PersistEvidence(r)
        \/ \E s \in Scope : BeginFullSnapshot(r, s)
        \/ \E k \in Key, v \in Value : PersistObservation(r, k, v)
        \/ FinalizeFullSnapshot(r)
        \/ OpenReview(r)
        \/ \E s \in {"succeeded", "failed"}, promote \in BOOLEAN :
              FinishRun(r, s, promote)
        \/ \E d \in {"approved", "rejected"} : DecideReview(r, d)
        \/ PromoteReview(r)
        \/ RevokePromotion(r)
    BY <1>2 DEF Next
  <2>1. ASSUME NEW k \in Key, NEW v \in Value, PersistObservation(r, k, v)
        PROVE  IInv'
    <3>1. complete' = complete
      BY <2>1 DEF PersistObservation
    <3> QED BY <2>1, <3>1, PersistObservationInv, AppendInv
  <2>2. CASE FinalizeFullSnapshot(r)
    <3>1. complete' = complete \cup {r}
      BY <2>2 DEF FinalizeFullSnapshot
    <3> QED BY <2>2, <3>1, FinalizeInv, AppendInv
  <2> QED BY <2>1, <2>2, StartRunInv, PrepareInv, ReviewInv, FinishRunInv,
             DecisionInv
<1> QED BY <1>1, <1>2

(* IInv holds of every behaviour: the streams, the decisions and the runs  *)
(* of the store agree, whoever runs, dies, reviews or revokes.             *)
THEOREM Inductive == Spec => []IInv
  BY InitInv, NextInv, PTL DEF Spec

(* The rows of a stream agree with each other and with their runs: every   *)
(* revision changes its record and belongs to the lane of its run.         *)
THEOREM StreamsConsistent == Spec => []StreamsAreConsistent
<1>1. IInv => StreamsAreConsistent
  BY DEF IInv
<1> QED BY <1>1, Inductive, PTL

(* A run is approved once, revoked at most once, and only a production run *)
(* that succeeded, was reviewed and complete as its definition asks.       *)
THEOREM DecisionsAreHistories == Spec => []DecisionHistory
<1>1. IInv => DecisionHistory
  BY DEF IInv
<1> QED BY <1>1, Inductive, PTL

-----------------------------------------------------------------------------
(* What readers see.                                                       *)

(* The canonical revision of a record is the largest of its events.        *)
IsLargestEvent(k) ==
  /\ HeadNo(Production, k) \in Nat
  /\ CanonicalEvents(k) # {} =>
        /\ CanonicalNo(k) \in CanonicalEvents(k)
        /\ \A m \in CanonicalEvents(k) : CanonicalNo(k) >= m
  /\ CanonicalEvents(k) = {} => CanonicalNo(k) = 0

LEMMA CanonicalIsLargest ==
  ASSUME NEW k \in Key
  PROVE  IInv => IsLargestEvent(k)
<1> SUFFICES ASSUME IInv PROVE IsLargestEvent(k)
  OBVIOUS
<1>1. HeadNo(Production, k) \in Nat
  BY LaneAssumption DEF IInv, StreamsAreConsistent, TypeOK, HeadNo
<1>2. CanonicalEvents(k) \in SUBSET (0..HeadNo(Production, k))
  BY <1>1 DEF CanonicalEvents
<1>3. CASE CanonicalEvents(k) # {}
  <2>1. \E x \in CanonicalEvents(k) : \A y \in CanonicalEvents(k) : x >= y
    BY <1>1, <1>2, <1>3, MaximumExists
  <2> QED BY <1>1, <1>3, <2>1 DEF CanonicalNo, IsLargestEvent
<1>4. CASE CanonicalEvents(k) = {}
  BY <1>1, <1>4 DEF CanonicalNo, IsLargestEvent
<1> QED BY <1>3, <1>4

(* A step writes revisions only behind those that exist, links only running*)
(* runs, and changes neither the lane nor the result of a run that         *)
(* succeeded.                                                              *)
LEMMA StepFacts ==
  ASSUME IInv, [Next]_vars
  PROVE  /\ \A k \in Key :
              /\ HeadNo(Production, k)' >= HeadNo(Production, k)
              /\ \A n \in 1..HeadNo(Production, k) :
                    stream'[Production][k][n] = stream[Production][k][n]
         /\ linked \subseteq linked'
         /\ \A x \in linked' \ linked : status'[x[1]] = "running"
         /\ \A r \in Run : status[r] = "succeeded" =>
               status'[r] = "succeeded" /\ lane'[r] = lane[r]
         /\ \A r \in Run : status'[r] = "succeeded" /\ status[r] # "succeeded" =>
               decisions[r] = <<>>
<1> DEFINE Goal ==
      /\ \A k \in Key :
           /\ HeadNo(Production, k)' >= HeadNo(Production, k)
           /\ \A n \in 1..HeadNo(Production, k) :
                 stream'[Production][k][n] = stream[Production][k][n]
      /\ linked \subseteq linked'
      /\ \A x \in linked' \ linked : status'[x[1]] = "running"
      /\ \A r \in Run : status[r] = "succeeded" =>
            status'[r] = "succeeded" /\ lane'[r] = lane[r]
      /\ \A r \in Run : status'[r] = "succeeded" /\ status[r] # "succeeded" =>
            decisions[r] = <<>>
<1> SUFFICES Goal
  OBVIOUS
<1>a. \A k \in Key : HeadNo(Production, k) \in Nat
  BY CanonicalIsLargest DEF IsLargestEvent
<1>b. ASSUME NEW r \in Run, NEW K \in SUBSET Key, NEW row, NEW L,
             Appends(r, K, row, L)
      PROVE  Goal
  <2>1. ASSUME NEW k \in Key
        PROVE  /\ HeadNo(Production, k)' >= HeadNo(Production, k)
               /\ \A n \in 1..HeadNo(Production, k) :
                     stream'[Production][k][n] = stream[Production][k][n]
    <3>1. ASSUME NEW l \in Lane
          PROVE  /\ HeadNo(l, k) \in Nat /\ stream[l][k] \in Seq(Revision)
                 /\ HeadNo(l, k)' = IF l = lane[r] /\ k \in K
                                    THEN HeadNo(l, k) + 1 ELSE HeadNo(l, k)
                 /\ \A n \in 1..HeadNo(l, k) : stream'[l][k][n] = stream[l][k][n]
                 /\ l = lane[r] /\ k \in K => stream'[l][k][HeadNo(l, k) + 1] = row
      BY <1>b, AppendFacts
    <3> QED BY <1>a, <3>1, LaneAssumption
  <2>2. \A x \in L : x[1] = r
    BY <1>b DEF Appends
  <2>3. /\ linked' = linked \cup L /\ status[r] = "running"
        /\ UNCHANGED <<status, lane>>
    BY <1>b DEF Appends
  <2> QED BY <2>1, <2>2, <2>3
<1>c. ASSUME UNCHANGED <<stream, linked>>,
             \A r \in Run : status[r] = "succeeded" =>
               status'[r] = "succeeded" /\ lane'[r] = lane[r],
             \A r \in Run : status'[r] = "succeeded" /\ status[r] # "succeeded" =>
               status[r] = "running"
      PROVE  Goal
  <2>1. \A r \in Run : status[r] = "running" => decisions[r] = <<>>
    BY DEF IInv, DecisionHistory
  <2> QED BY <1>a, <1>c, <2>1 DEF HeadNo
<1>1. CASE UNCHANGED vars
  BY <1>1, <1>c DEF vars
<1>2. CASE Next
  <2> PICK r \in Run :
        \/ \E l \in Lane : StartRun(r, l)
        \/ PersistEvidence(r)
        \/ \E s \in Scope : BeginFullSnapshot(r, s)
        \/ \E k \in Key, v \in Value : PersistObservation(r, k, v)
        \/ FinalizeFullSnapshot(r)
        \/ OpenReview(r)
        \/ \E s \in {"succeeded", "failed"}, promote \in BOOLEAN :
              FinishRun(r, s, promote)
        \/ \E d \in {"approved", "rejected"} : DecideReview(r, d)
        \/ PromoteReview(r)
        \/ RevokePromotion(r)
    BY <1>2 DEF Next
  <2>0. /\ status \in [Run -> Statuses]
        /\ lane \in [Run -> Lane \cup {NoLane}]
    BY DEF IInv, StreamsAreConsistent, TypeOK
  <2> HIDE DEF Goal
  <2>1. ASSUME NEW k \in Key, NEW v \in Value, PersistObservation(r, k, v)
        PROVE  Goal
    BY <2>1, <1>b, PersistObservationInv
  <2>2. CASE FinalizeFullSnapshot(r)
    BY <2>2, <1>b, FinalizeInv
  <2>3. ASSUME NEW l \in Lane, StartRun(r, l) PROVE Goal
    BY <2>0, <2>3, <1>c DEF StartRun
  <2>4. ASSUME NEW s \in {"succeeded", "failed"}, NEW promote \in BOOLEAN,
               FinishRun(r, s, promote)
        PROVE  Goal
    BY <2>0, <2>4, <1>c DEF FinishRun
  <2>5. CASE \/ PersistEvidence(r)
             \/ \E s \in Scope : BeginFullSnapshot(r, s)
             \/ OpenReview(r)
             \/ \E d \in {"approved", "rejected"} : DecideReview(r, d)
             \/ PromoteReview(r)
             \/ RevokePromotion(r)
    <3>1. UNCHANGED <<stream, linked, status, lane>>
      BY <2>5 DEF PersistEvidence, BeginFullSnapshot, OpenReview, DecideReview,
                  PromoteReview, RevokePromotion
    <3> QED BY <3>1, <1>c
  <2> QED BY <2>1, <2>2, <2>3, <2>4, <2>5
<1> QED BY <1>1, <1>2

(* Without a new decision the canonical events of a record stay.           *)
LEMMA EventsFollowDecisions ==
  ASSUME IInv, [Next]_vars, decisions' = decisions, NEW k \in Key
  PROVE  CanonicalEvents(k)' = CanonicalEvents(k)
<1> IInv'
  BY NextInv
<1>a. HeadNo(Production, k) \in Nat /\ HeadNo(Production, k)' \in Nat
  BY LaneAssumption DEF IInv, StreamsAreConsistent, TypeOK, HeadNo
<1>1. ASSUME NEW n \in CanonicalEvents(k) PROVE n \in CanonicalEvents(k)'
  <2>1. PICK r \in Run : /\ <<r, k, n>> \in linked /\ lane[r] = Production
                         /\ status[r] = "succeeded" /\ Approved(r)
    BY DEF CanonicalEvents
  <2>2. /\ <<r, k, n>> \in linked' /\ lane'[r] = Production
        /\ status'[r] = "succeeded" /\ Approved(r)'
    BY <2>1, StepFacts DEF Approved
  <2>3. n \in 1..HeadNo(Production, k)'
    BY <1>a, StepFacts DEF CanonicalEvents
  <2> QED BY <2>2, <2>3 DEF CanonicalEvents
<1>2. ASSUME NEW n \in CanonicalEvents(k)' PROVE n \in CanonicalEvents(k)
  <2>1. PICK r \in Run : /\ <<r, k, n>> \in linked' /\ lane'[r] = Production
                         /\ status'[r] = "succeeded" /\ Approved(r)'
    BY DEF CanonicalEvents
  <2>2. Approved(r) /\ decisions[r] # <<>>
    BY <2>1 DEF Approved
  <2>3. status[r] = "succeeded" /\ lane[r] = Production
    BY <2>1, <2>2, StepFacts
  <2>4. <<r, k, n>> \in linked
    <3>1. <<r, k, n>>[1] = r
      OBVIOUS
    <3> QED BY <2>1, <3>1, StepFacts
  <2>5. n \in 1..HeadNo(Production, k)
    <3> DEFINE x == <<r, k, n>>
    <3>1. x[1] = r /\ x[2] = k /\ x[3] = n /\ x \in linked
      BY <2>4
    <3> HIDE DEF x
    <3> QED BY <2>3, <3>1 DEF IInv, StreamsAreConsistent, LanesAreIsolated
  <2> QED BY <2>2, <2>3, <2>4, <2>5 DEF CanonicalEvents
<1> QED BY <1>1, <1>2

(* Nothing a run writes, and no run that fails, shows through: readers see *)
(* a change only with a promotion or a revocation.                         *)
THEOREM ReadersFollowDecisions == Spec => ReadersSeeOnlyDecisions
<1>1. ASSUME IInv, [Next]_vars
      PROVE  [decisions' = decisions =>
                 \A k \in Key : Canonical(k)' = Canonical(k)]_vars
  <2> SUFFICES ASSUME decisions' = decisions, NEW k \in Key
               PROVE  Canonical(k)' = Canonical(k)
    OBVIOUS
  <2>1. CanonicalEvents(k)' = CanonicalEvents(k)
    BY <1>1, EventsFollowDecisions
  <2>2. CanonicalNo(k)' = CanonicalNo(k)
    BY <2>1 DEF CanonicalNo
  <2>3. CanonicalNo(k) # 0 => CanonicalNo(k) \in 1..HeadNo(Production, k)
    BY <1>1, CanonicalIsLargest DEF CanonicalEvents, IsLargestEvent
  <2>4. CanonicalNo(k) # 0 => stream'[Production][k][CanonicalNo(k)]
                                = stream[Production][k][CanonicalNo(k)]
    BY <1>1, <2>3, StepFacts
  <2> QED BY <2>2, <2>4 DEF Canonical
<1> QED BY <1>1, Inductive, PTL DEF Spec, ReadersSeeOnlyDecisions

(* A late approval of an older revision does not outrank a newer one: only *)
(* a revocation can take a record back.                                    *)
THEOREM CanonicalForward == Spec => CanonicalMovesForward
<1>1. ASSUME IInv, [Next]_vars
      PROVE  [(\A r \in Run : Approved(r) => Approved(r)') =>
                 \A k \in Key : CanonicalNo(k)' >= CanonicalNo(k)]_vars
  <2> SUFFICES ASSUME \A r \in Run : Approved(r) => Approved(r)', NEW k \in Key
               PROVE  CanonicalNo(k)' >= CanonicalNo(k)
    OBVIOUS
  <2>0. IInv'
    BY <1>1, NextInv
  <2>1. HeadNo(Production, k) \in Nat /\ HeadNo(Production, k)' \in Nat
    BY <1>1, <2>0, LaneAssumption DEF IInv, StreamsAreConsistent, TypeOK, HeadNo
  <2>2. CanonicalEvents(k) \subseteq CanonicalEvents(k)'
    <3> SUFFICES ASSUME NEW n \in CanonicalEvents(k) PROVE n \in CanonicalEvents(k)'
      OBVIOUS
    <3>1. PICK r \in Run : /\ <<r, k, n>> \in linked /\ lane[r] = Production
                           /\ status[r] = "succeeded" /\ Approved(r)
      BY DEF CanonicalEvents
    <3>2. /\ <<r, k, n>> \in linked' /\ lane'[r] = Production
          /\ status'[r] = "succeeded" /\ Approved(r)'
      BY <1>1, <3>1, StepFacts
    <3>3. n \in 1..HeadNo(Production, k)'
      BY <1>1, <2>1, StepFacts DEF CanonicalEvents
    <3> QED BY <3>2, <3>3 DEF CanonicalEvents
  <2>3. /\ CanonicalEvents(k) \subseteq Nat /\ CanonicalEvents(k)' \subseteq Nat
    BY <2>1 DEF CanonicalEvents
  <2>4. IsLargestEvent(k)
    BY <1>1, CanonicalIsLargest
  <2>5. IsLargestEvent(k)'
    <3>1. (IInv => IsLargestEvent(k))'
      BY CanonicalIsLargest, PTL
    <3> QED BY <2>0, <3>1
  <2> QED BY <2>2, <2>3, <2>4, <2>5 DEF IsLargestEvent
<1> QED BY <1>1, Inductive, PTL DEF Spec, CanonicalMovesForward

-----------------------------------------------------------------------------
(* The host throttle: what the table keeps is inductive (GateInv), and     *)
(* from it no permit is given during a Retry-After and the paced permits   *)
(* of a host are an interval apart.                                        *)

USE ThrottleAssumption, NoneAssumption

(* What record_host_response stores keeps the pacing, extends a block to   *)
(* the deadline just received, and never shortens one still in force.      *)
LEMMA RecordedFacts ==
    ASSUME GateInv, NEW h \in Host, NEW response \in Response,
           NEW at \in Nat, at <= now, throttle[h] # None,
           NEW until, until = RetryUntil(response, at),
           NEW later, later = IF until = None THEN deadline[h]
                              ELSE Later(deadline[h], until)
    PROVE  /\ Recorded(h, response, at) \in Row
           /\ later \in Nat /\ later >= deadline[h]
           /\ Recorded(h, response, at).nextAllowed >= throttle[h].nextAllowed
           /\ Recorded(h, response, at).nextAllowed >= later
           /\ Recorded(h, response, at).blockedUntil # None =>
                 Recorded(h, response, at).blockedUntil <= later
           /\ later > now => Recorded(h, response, at).blockedUntil = later
<1>1. until \in Nat \cup {None}
  <2>1. response.kind = "throttled" => response.retryAfter \in RetryAfter \cup {None}
    BY DEF Response
  <2>2. CASE response.kind = "throttled" /\ response.retryAfter \in Nat
    BY <2>2 DEF RetryUntil
  <2>3. CASE ~(response.kind = "throttled" /\ response.retryAfter \in Nat)
    BY <2>1, <2>3 DEF RetryUntil
  <2> QED BY <2>2, <2>3
<1>2. throttle[h] \in Row /\ deadline[h] \in Nat /\ now \in Nat
  BY DEF GateInv, GateTypeOK
<1>3. /\ throttle[h].nextAllowed >= deadline[h]
      /\ throttle[h].blockedUntil # None => throttle[h].blockedUntil <= deadline[h]
      /\ deadline[h] > now => throttle[h].blockedUntil = deadline[h]
  BY DEF GateInv, ThrottleIsStored
<1> DEFINE kept  == IF Blocked(h, at) THEN throttle[h].blockedUntil ELSE None
           block == Latest(kept, until)
           next  == IF throttle[h] # None /\ StillAhead(throttle[h].nextAllowed, at)
                    THEN throttle[h].nextAllowed ELSE at
<1>4. /\ kept \in Nat \cup {None}
      /\ kept # None => kept <= deadline[h]
      /\ deadline[h] > now => kept = deadline[h]
  BY <1>2, <1>3 DEF Blocked, StillAhead, Row
<1>5. next \in Nat /\ next >= throttle[h].nextAllowed
  BY <1>2 DEF StillAhead, Row
<1>6. Recorded(h, response, at) =
         [nextAllowed |-> Latest(next, block), blockedUntil |-> block]
  BY DEF Recorded
<1> HIDE DEF kept, next
<1>7. /\ block \in Nat \cup {None}
      /\ later \in Nat /\ later >= deadline[h]
      /\ block # None => block <= later
      /\ later > now => block = later
  BY <1>1, <1>2, <1>4 DEF Latest, Later
<1>8. until # None => block # None /\ block >= until
  BY <1>1, <1>4 DEF Latest, Later
<1> HIDE DEF block
<1>9. Latest(next, block) \in Nat /\ Latest(next, block) >= next
      /\ (block # None => Latest(next, block) >= block)
  BY <1>5, <1>7 DEF Latest, Later
<1>10. Latest(next, block) >= later
  BY <1>1, <1>2, <1>3, <1>5, <1>7, <1>8, <1>9 DEF Later, Row
<1> QED BY <1>2, <1>5, <1>6, <1>7, <1>9, <1>10 DEF Row

(* The invariant is inductive.                                             *)
LEMMA GateInductive == GateInv /\ [GateNext]_gateVars => GateInv'
<1> SUFFICES ASSUME GateInv, [GateNext]_gateVars PROVE GateInv'
  OBVIOUS
<1>1. ASSUME NEW a \in Acquirer, NEW h \in Host, NEW continued \in SUBSET Host,
             Acquire(a, h, continued)
      PROVE  GateInv'
  <2> DEFINE new == [Idle EXCEPT !.pc = "clock", !.host = h,
                                 !.permitted = continued]
  <2>1. /\ new \in AcquirerState
        /\ new.at = 0 /\ new.pc = "clock" /\ new.host = h
    BY DEF AcquirerState, Idle
  <2>2. acquirer' = [acquirer EXCEPT ![a] = new] /\ UNCHANGED <<now, throttle>>
    BY <1>1 DEF Acquire
  <2> HIDE DEF new
  <2>3. AcquirersAreInStep'
    BY <2>1, <2>2 DEF GateInv, GateTypeOK, AcquirersAreInStep
  <2>4. ThrottleIsStored'
    BY <1>1 DEF Acquire, GateInv, ThrottleIsStored
  <2> QED BY <1>1, <2>1, <2>2, <2>3, <2>4 DEF Acquire, GateInv, GateTypeOK
<1>2. ASSUME NEW a \in Acquirer, ReadClock(a) PROVE GateInv'
  <2> DEFINE q == acquirer[a]
             new == [q EXCEPT !.pc = IF @ = "clock" THEN "permit" ELSE "record",
                              !.at = now]
  <2>1. q \in AcquirerState /\ now \in Nat
    BY DEF GateInv, GateTypeOK
  <2>2. /\ new \in AcquirerState
        /\ new.at = now /\ new.host = q.host /\ new.response = q.response
        /\ new.pc = IF q.pc = "clock" THEN "permit" ELSE "record"
    BY <2>1 DEF AcquirerState
  <2>3. acquirer' = [acquirer EXCEPT ![a] = new]
    BY <1>2, <2>1 DEF ReadClock, GateInv, GateTypeOK
  <2>4. /\ q.host \in Host
        /\ q.pc \in {"clock", "answered"}
        /\ q.pc = "answered" => throttle[q.host] # None /\ q.response \in Response
    BY <1>2 DEF ReadClock, GateInv, AcquirersAreInStep
  <2> HIDE DEF new
  <2>5. AcquirersAreInStep'
    BY <1>2, <2>1, <2>2, <2>3, <2>4 DEF ReadClock, GateInv, GateTypeOK,
       AcquirersAreInStep
  <2>6. ThrottleIsStored'
    BY <1>2 DEF ReadClock, GateInv, ThrottleIsStored
  <2>7. UNCHANGED <<now, throttle, lastPermit, deadline>>
    BY <1>2 DEF ReadClock
  <2>8. acquirer' \in [Acquirer -> AcquirerState]
    BY <2>2, <2>3 DEF GateInv, GateTypeOK
  <2> QED BY <2>5, <2>6, <2>7, <2>8, Zenon DEF GateInv, GateTypeOK
<1>3. ASSUME NEW a \in Acquirer, Permit(a) PROVE GateInv'
  <2> DEFINE h == acquirer[a].host
             at == acquirer[a].at
             continuation == h \in acquirer[a].permitted
  <2>1. h \in Host /\ at \in Nat /\ at <= now /\ acquirer[a] \in AcquirerState
    BY <1>3 DEF Permit, GateInv, GateTypeOK, AcquirersAreInStep, AcquirerState
  <2>2. CASE Refuses(h, at, continuation)
    BY <1>3, <2>1, <2>2 DEF Permit, GateInv, GateTypeOK, ThrottleIsStored,
       AcquirersAreInStep, AcquirerState, Idle
  <2>3. CASE ~Refuses(h, at, continuation)
    <3> DEFINE paced == throttle[h] = None \/ ~continuation
    <3>1. /\ acquirer' = [acquirer EXCEPT ![a].pc = "open", ![a].at = 0,
                             ![a].permitted = @ \cup {h}]
          /\ throttle' = IF paced THEN [throttle EXCEPT ![h] = Reservation(h, at)] ELSE throttle
          /\ lastPermit' = IF paced THEN [lastPermit EXCEPT ![h] = at]
                                    ELSE lastPermit
          /\ UNCHANGED <<now, deadline>>
      BY <1>3, <2>3 DEF Permit
    <3>2. Reservation(h, at) \in Row
      BY <2>1 DEF Reservation, GateInv, GateTypeOK, Row
    <3>3. throttle'[h] # None /\ \A k \in Host : throttle[k] # None => throttle'[k] # None
      BY <2>1, <3>1, <3>2 DEF GateInv, GateTypeOK
    <3>4. GateTypeOK'
      BY <2>1, <3>1, <3>2 DEF GateInv, GateTypeOK, AcquirerState
    <3>5. AcquirersAreInStep'
      BY <2>1, <3>1, <3>3 DEF GateInv, GateTypeOK, AcquirersAreInStep, AcquirerState
    <3>6. paced => at + Interval >= deadline[h]
      BY <2>1, <2>3 DEF Refuses, Blocked, StillAhead, GateInv, GateTypeOK,
         ThrottleIsStored, Row
    <3>7. ThrottleIsStored'
      BY <2>1, <3>1, <3>2, <3>6 DEF Reservation, GateInv, GateTypeOK,
         ThrottleIsStored, Row
    <3> QED BY <3>4, <3>5, <3>7 DEF GateInv
  <2> QED BY <2>2, <2>3
<1>4. ASSUME NEW a \in Acquirer, NEW response \in Response, Open(a, response)
      PROVE  GateInv'
  <2>1. acquirer \in [Acquirer -> AcquirerState]
    BY DEF GateInv, GateTypeOK
  <2>2. acquirer' = [acquirer EXCEPT ![a].pc = "answered",
                                     ![a].response = response]
    BY <1>4 DEF Open
  <2> DEFINE q == acquirer[a]
             new == [q EXCEPT !.pc = "answered", !.response = response]
  <2>6. /\ q \in AcquirerState /\ new \in AcquirerState
        /\ new.pc = "answered" /\ new.host = q.host /\ new.response = response
        /\ new.at = q.at
    <3>1. q \in AcquirerState
      BY <2>1
    <3> HIDE DEF q
    <3> QED BY <3>1 DEF AcquirerState
  <2>7. acquirer' = [acquirer EXCEPT ![a] = new]
    BY <2>1, <2>2
  <2> HIDE DEF new
  <2>3. acquirer' \in [Acquirer -> AcquirerState]
    BY <2>1, <2>6, <2>7
  <2>4. AcquirersAreInStep'
    BY <1>4, <2>1, <2>6, <2>7 DEF Open, GateInv, AcquirersAreInStep
  <2>5. ThrottleIsStored'
    BY <1>4 DEF Open, GateInv, ThrottleIsStored
  <2> QED BY <1>4, <2>3, <2>4, <2>5 DEF Open, GateInv, GateTypeOK
<1>5. ASSUME NEW a \in Acquirer, RecordResponse(a) PROVE GateInv'
  <2> DEFINE h == acquirer[a].host
             at == acquirer[a].at
             response == acquirer[a].response
             until == RetryUntil(response, at)
             later == IF until = None THEN deadline[h]
                      ELSE Later(deadline[h], until)
             new == Recorded(h, response, at)
  <2>1. /\ h \in Host /\ at \in Nat /\ at <= now /\ response \in Response
        /\ throttle[h] # None /\ acquirer[a] \in AcquirerState
    BY <1>5 DEF RecordResponse, GateInv, GateTypeOK, AcquirersAreInStep, AcquirerState
  <2>2. /\ new \in Row
        /\ later \in Nat /\ later >= deadline[h]
        /\ new.nextAllowed >= throttle[h].nextAllowed
        /\ new.nextAllowed >= later
        /\ new.blockedUntil # None => new.blockedUntil <= later
        /\ later > now => new.blockedUntil = later
    BY <2>1, RecordedFacts
  <2>3. /\ throttle' = [throttle EXCEPT ![h] = new]
        /\ deadline' = [deadline EXCEPT ![h] = later]
        /\ UNCHANGED <<now, lastPermit>>
    BY <1>5 DEF RecordResponse
  <2>4. acquirer' = [acquirer EXCEPT ![a] =
              IF response.kind = "redirect" /\ @.redirects < MaxRedirects
              THEN NextHop(@, response.to)
              ELSE Idle]
    BY <1>5 DEF RecordResponse
  <2>5. response.kind = "redirect" => response.to \in Host
    BY <2>1 DEF Response
  <2> HIDE DEF new, later, until
  <2>6. GateTypeOK'
    <3>1. Idle \in AcquirerState
      BY DEF Idle, AcquirerState
    <3>2. ASSUME NEW q \in AcquirerState, NEW k \in Host
          PROVE  NextHop(q, k) \in AcquirerState
      BY DEF AcquirerState, NextHop
    <3>3. acquirer' \in [Acquirer -> AcquirerState]
      BY <2>1, <2>4, <2>5, <3>1, <3>2 DEF GateInv, GateTypeOK
    <3> QED BY <2>1, <2>2, <2>3, <3>3 DEF GateInv, GateTypeOK
  <2>7. ThrottleIsStored'
    BY <2>1, <2>2, <2>3 DEF GateInv, GateTypeOK, ThrottleIsStored, Row
  <2>8. AcquirersAreInStep'
    BY <2>1, <2>2, <2>3, <2>4, <2>5 DEF GateInv, GateTypeOK, AcquirersAreInStep,
       AcquirerState, Idle, NextHop
  <2> QED BY <2>6, <2>7, <2>8 DEF GateInv
<1>6. ASSUME NEW a \in Acquirer, Crash(a) PROVE GateInv'
  BY <1>6 DEF Crash, GateInv, GateTypeOK, ThrottleIsStored, AcquirersAreInStep,
              AcquirerState, Idle
<1>7. CASE Tick
  BY <1>7 DEF Tick, GateInv, GateTypeOK, ThrottleIsStored, AcquirersAreInStep,
              AcquirerState
<1>8. CASE UNCHANGED gateVars
  BY <1>8 DEF gateVars, GateInv, GateTypeOK, ThrottleIsStored, AcquirersAreInStep
<1> QED BY <1>1, <1>2, <1>3, <1>4, <1>5, <1>6, <1>7, <1>8 DEF GateNext

(* Only permit_host lets a request out, and only where it does not refuse. *)
LEMMA PermitStep ==
    ASSUME GateInv, [GateNext]_gateVars, NEW a \in Acquirer, Permitted(a)
    PROVE  LET h == acquirer[a].host
               at == acquirer[a].at
           IN  /\ h \in Host /\ at \in Nat /\ at <= now
               /\ ~Refuses(h, at, h \in acquirer[a].permitted)
<1> USE DEF Permitted
<1>0. acquirer \in [Acquirer -> AcquirerState] /\ acquirer' # acquirer
  BY DEF GateInv, GateTypeOK
<1>1. ASSUME NEW b \in Acquirer, NEW h \in Host, NEW continued \in SUBSET Host,
             Acquire(b, h, continued)
      PROVE  FALSE
  BY <1>0, <1>1 DEF Acquire, Idle
<1>2. ASSUME NEW b \in Acquirer, ReadClock(b) PROVE FALSE
  BY <1>0, <1>2 DEF ReadClock, AcquirerState
<1>3. ASSUME NEW b \in Acquirer, NEW response \in Response, Open(b, response)
      PROVE  FALSE
  BY <1>0, <1>3 DEF Open, AcquirerState
<1>4. ASSUME NEW b \in Acquirer, RecordResponse(b) PROVE FALSE
  <2>1. acquirer'[a] = acquirer[a] \/ a = b
    BY <1>0, <1>4 DEF RecordResponse
  <2> QED BY <1>0, <1>4, <2>1 DEF RecordResponse, NextHop, Idle
<1>5. ASSUME NEW b \in Acquirer, Crash(b) PROVE FALSE
  BY <1>0, <1>5 DEF Crash, Idle
<1>6. ~Tick /\ ~UNCHANGED gateVars
  BY <1>0 DEF Tick, gateVars
<1>7. PICK b \in Acquirer : Permit(b)
  BY <1>1, <1>2, <1>3, <1>4, <1>5, <1>6 DEF GateNext
<1>8. Permit(a)
  <2>1. acquirer'[a] = acquirer[a] \/ a = b
    BY <1>0, <1>7 DEF Permit
  <2> QED BY <1>7, <2>1
<1>9. acquirer[a].host \in Host /\ acquirer[a].at \in Nat /\ acquirer[a].at <= now
  BY <1>0, <1>8 DEF Permit, GateInv, AcquirersAreInStep, AcquirerState
<1>10. ASSUME acquirer' = [acquirer EXCEPT ![a] = Idle] PROVE FALSE
  BY <1>0, <1>10 DEF Idle
<1> QED BY <1>8, <1>9, <1>10 DEF Permit

(* The table, its history and the processes stay in step for ever.         *)
LEMMA GateInvariance == GateSpec => []GateInv
<1>1. GateInit => GateInv
  BY DEF GateInit, GateInv, GateTypeOK, ThrottleIsStored, AcquirersAreInStep,
         AcquirerState, Idle
<1> QED BY <1>1, GateInductive, PTL DEF GateSpec

(* Every throttle row and every acquirer keeps its type: no deadline is    *)
(* computed from a row that is not there.                                  *)
THEOREM GateTypeCorrect == GateSpec => []GateTypeOK
<1>1. GateInv => GateTypeOK
  BY DEF GateInv
<1> QED BY <1>1, GateInvariance, PTL

(* A recorded Retry-After stays in the row until it is over, and           *)
(* next_allowed_at never moves back across it or into the last interval.   *)
THEOREM ThrottleStored == GateSpec => []ThrottleIsStored
<1>1. GateInv => ThrottleIsStored
  BY DEF GateInv
<1> QED BY <1>1, GateInvariance, PTL

(* permit_host lets no request out while a Retry-After is in force.        *)
THEOREM RetryAfterHonoured == GateSpec => RetryAfterIsHonoured
<1>1. ASSUME GateInv, [GateNext]_gateVars, NEW a \in Acquirer, Permitted(a)
      PROVE  deadline[acquirer[a].host] <= now
  <2> QED BY <1>1, PermitStep DEF Refuses, Blocked, StillAhead, GateInv, GateTypeOK,
             ThrottleIsStored, Row
<1>2. GateInv /\ [GateNext]_gateVars =>
         [\A a \in Acquirer :
            Permitted(a) => deadline[acquirer[a].host] <= now]_gateVars
  BY <1>1
<1> QED BY <1>2, GateInvariance, PTL DEF GateSpec, RetryAfterIsHonoured

(* Paced permits of one host are an interval apart.                        *)
THEOREM Paced == GateSpec => RequestsArePaced
<1> DEFINE Apart(a) ==
       LET h == acquirer[a].host
       IN  Permitted(a) /\ h \notin acquirer[a].permitted
              /\ lastPermit[h] # None
           => lastPermit[h] + Interval <= acquirer[a].at
<1>1. ASSUME GateInv, [GateNext]_gateVars, NEW a \in Acquirer PROVE Apart(a)
  <2> SUFFICES ASSUME Permitted(a),
                      acquirer[a].host \notin acquirer[a].permitted,
                      lastPermit[acquirer[a].host] # None
               PROVE  lastPermit[acquirer[a].host] + Interval <= acquirer[a].at
    OBVIOUS
  <2> QED BY <1>1, PermitStep DEF Refuses, GateInv, GateTypeOK, ThrottleIsStored, Row
<1>2. GateInv /\ [GateNext]_gateVars => [\A a \in Acquirer : Apart(a)]_gateVars
  BY <1>1
<1> QED BY <1>2, GateInvariance, PTL DEF GateSpec, RequestsArePaced
=============================================================================
