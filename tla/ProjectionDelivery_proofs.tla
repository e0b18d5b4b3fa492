---------------------- MODULE ProjectionDelivery_proofs ---------------------
(***************************************************************************)
(* Proofs about the delivery of projections, for any number of keys,       *)
(* revisions, anchors, rules and faults, and any page size.                *)
(***************************************************************************)
EXTENDS ProjectionDelivery, FiniteSetTheorems, SequenceTheorems,
        WellFoundedInduction, TLAPS

-----------------------------------------------------------------------------
(* Pages.                                                                  *)

(* A set of natural numbers that is not empty has a least element.         *)
LEMMA LeastExists ==
  ASSUME NEW S \in SUBSET Nat, S # {}
  PROVE  \E x \in S : \A y \in S : x <= y
<1> DEFINE R == OpToRel(<, Nat)
<1>1. IsWellFoundedOn(R, Nat)
  BY NatLessThanWellFounded
<1>2. \E x \in S : \A y \in S : ~(<<y, x>> \in R)
  <2> HIDE DEF R
  <2> QED BY <1>1, WFMin
<1>3. PICK x \in S : \A y \in S : ~(<<y, x>> \in R)
  BY <1>2
<1>4. ASSUME NEW y \in S PROVE x <= y
  <2>1. ~(y < x)
    BY <1>3 DEF OpToRel
  <2> QED BY <2>1
<1> QED BY <1>4

(* What is assumed of the constants, as facts about single ones.           *)
LEMMA Constants ==
  /\ Key \subseteq Nat /\ Anchor \subseteq Nat
  /\ PageSize \in Nat \ {0} /\ MaxAttempts \in Nat \ {0}
  /\ MaxRows \in Nat /\ MaxNow \in Nat /\ MaxRevisions \in Nat
  /\ MaxCommands \in Nat /\ MaxFaults \in Nat
  /\ None \notin Process /\ None \notin Revision
<1>1. \A n \in {PageSize, MaxAttempts, DayLength, WeekLength} : n \in Nat \ {0}
  BY DeliveryAssumption
<1>2. {MaxRows, MaxNow, MaxRevisions, MaxCommands, MaxFaults} \subseteq Nat
  BY DeliveryAssumption
<1>3. Key \subseteq Nat /\ Anchor \subseteq Nat
  BY DeliveryAssumption
<1>4. None \notin Process /\ None \notin Revision
  BY NoneAssumption
<1> QED BY <1>1, <1>2, <1>3, <1>4

(* A revision's fields.                                                    *)
LEMMA RevisionFields ==
  ASSUME NEW r \in Revision
  PROVE  /\ r.key \in Key /\ r.key \in Nat
         /\ r.rev \in 1 .. MaxRevisions /\ r.rev \in Nat
         /\ r.at \in 0 .. MaxNow /\ r.at \in Nat
         /\ r.gone \in BOOLEAN
<1>1. r.key \in Key /\ r.rev \in 1 .. MaxRevisions /\ r.at \in 0 .. MaxNow
  BY Zenon DEF Revision
<1>3. r.gone \in BOOLEAN
  BY Zenon DEF Revision
<1>2. r.key \in Nat /\ r.rev \in Nat /\ r.at \in Nat
  <2>1. Key \subseteq Nat /\ MaxRevisions \in Nat /\ MaxNow \in Nat
    BY Constants
  <2>2. 1 .. MaxRevisions \subseteq Nat /\ 0 .. MaxNow \subseteq Nat
    BY <2>1
  <2> QED BY <1>1, <2>1, <2>2, Zenon
<1> QED BY <1>1, <1>2, <1>3, Zenon

(* The rows a query sorts: of each key at most one.                        *)
OnePerKey(rows) ==
    /\ rows \subseteq Revision
    /\ IsFiniteSet(rows)
    /\ \A r, q \in rows : r.key = q.key => r = q

Rank(rows, r) == Cardinality({q \in rows : PageOrder(q, r)})

(* The order of a query is a strict total order of its rows.               *)
LEMMA OrderIsTotal ==
  ASSUME NEW rows, OnePerKey(rows), NEW r \in rows, NEW q \in rows
  PROVE  /\ ~PageOrder(r, r)
         /\ PageOrder(r, q) => ~PageOrder(q, r)
         /\ r # q => (PageOrder(r, q) \/ PageOrder(q, r))
<1>1. /\ r.key \in Nat /\ r.at \in Nat
      /\ q.key \in Nat /\ q.at \in Nat
  BY RevisionFields DEF OnePerKey
<1>2. r # q => r.key # q.key
  BY DEF OnePerKey
<1> QED BY <1>1, <1>2 DEF PageOrder

LEMMA OrderIsTransitive ==
  ASSUME NEW r \in Revision, NEW q \in Revision, NEW s \in Revision,
         PageOrder(r, q), PageOrder(q, s)
  PROVE  PageOrder(r, s)
<1>1. /\ r.key \in Nat /\ r.at \in Nat
      /\ q.key \in Nat /\ q.at \in Nat
      /\ s.key \in Nat /\ s.at \in Nat
  BY RevisionFields
<1> QED BY <1>1 DEF PageOrder

LEMMA RankIsBounded ==
  ASSUME NEW rows, OnePerKey(rows), NEW r \in rows
  PROVE  /\ Rank(rows, r) \in Nat
         /\ Rank(rows, r) < Cardinality(rows)
<1> DEFINE before == {q \in rows : PageOrder(q, r)}
<1>1. IsFiniteSet(rows)
  BY DEF OnePerKey
<1>2. before \subseteq rows \ {r}
  BY OrderIsTotal
<1>3. /\ IsFiniteSet(rows \ {r})
      /\ Cardinality(rows \ {r}) = Cardinality(rows) - 1
  BY <1>1, FS_RemoveElement
<1>4. /\ IsFiniteSet(before)
      /\ Cardinality(before) <= Cardinality(rows \ {r})
  BY <1>2, <1>3, FS_Subset
<1>5. Cardinality(before) \in Nat /\ Cardinality(rows) \in Nat
  BY <1>1, <1>4, FS_CardinalityType
<1> QED BY <1>3, <1>4, <1>5 DEF Rank

LEMMA RankGrows ==
  ASSUME NEW rows, OnePerKey(rows), NEW r \in rows, NEW q \in rows,
         PageOrder(r, q)
  PROVE  Rank(rows, r) < Rank(rows, q)
<1> DEFINE low  == {s \in rows : PageOrder(s, r)}
           high == {s \in rows : PageOrder(s, q)}
<1>1. IsFiniteSet(rows) /\ rows \subseteq Revision
  BY DEF OnePerKey
<1>2. IsFiniteSet(low) /\ IsFiniteSet(high)
  BY <1>1, FS_Subset
<1>3. r \notin low
  BY OrderIsTotal
<1>4. low \cup {r} \subseteq high
  <2>1. ASSUME NEW s \in low PROVE s \in high
    <3>1. s \in Revision /\ r \in Revision /\ q \in Revision
      BY <1>1
    <3> QED BY <3>1, <2>1, OrderIsTransitive
  <2> QED BY <2>1
<1>5. Cardinality(low \cup {r}) = Cardinality(low) + 1
  BY <1>2, <1>3, FS_AddElement
<1>6. Cardinality(low \cup {r}) <= Cardinality(high)
  BY <1>2, <1>4, FS_Subset
<1>7. Cardinality(low) \in Nat /\ Cardinality(high) \in Nat
  BY <1>2, FS_CardinalityType
<1> HIDE DEF low, high
<1>8. Cardinality(low) < Cardinality(high)
  BY <1>5, <1>6, <1>7
<1> QED BY <1>8 DEF Rank, low, high

(* A page that holds all rows is all rows.                                 *)
LEMMA FirstIsAll ==
  ASSUME NEW rows, OnePerKey(rows), NEW n \in Nat, Cardinality(rows) <= n
  PROVE  First(n, rows) = rows
<1>1. ASSUME NEW r \in rows PROVE r \in First(n, rows)
  <2>1. Cardinality(rows) \in Nat
    BY FS_CardinalityType DEF OnePerKey
  <2>2. Rank(rows, r) < n
    BY <2>1, RankIsBounded
  <2> QED BY <2>2 DEF First, Rank
<1> QED BY <1>1 DEF First

(* A page of rows that are not all has a last one.                         *)
LEMMA LastExists ==
  ASSUME NEW rows, OnePerKey(rows), rows # {}, NEW n \in Nat \ {0}
  PROVE  \E l \in First(n, rows) :
            \A q \in First(n, rows) : q = l \/ PageOrder(q, l)
<1>1. PICK m \in rows : \A q \in rows : Rank(rows, m) <= Rank(rows, q)
  <2> DEFINE ranks == {Rank(rows, r) : r \in rows}
  <2>1. ranks \in SUBSET Nat /\ ranks # {}
    BY RankIsBounded
  <2>2. PICK x \in ranks : \A y \in ranks : x <= y
    <3> HIDE DEF ranks
    <3> QED BY <2>1, LeastExists
  <2> QED BY <2>2
<1>2. Rank(rows, m) = 0
  <2>1. ASSUME NEW q \in rows, PageOrder(q, m) PROVE FALSE
    <3>1. Rank(rows, q) < Rank(rows, m)
      BY <2>1, RankGrows
    <3>2. Rank(rows, q) \in Nat /\ Rank(rows, m) \in Nat
      BY RankIsBounded
    <3> QED BY <1>1, <3>1, <3>2
  <2>2. {q \in rows : PageOrder(q, m)} = {}
    BY <2>1
  <2> QED BY <2>2, FS_EmptySet DEF Rank
<1>3. m \in First(n, rows)
  BY <1>2 DEF First, Rank
<1>4. \A r \in First(n, rows) :
         r \in rows /\ Rank(rows, r) \in Nat /\ Rank(rows, r) < n
  BY RankIsBounded DEF First, Rank
<1>5. PICK l \in First(n, rows) :
         \A q \in First(n, rows) : n - Rank(rows, l) <= n - Rank(rows, q)
  <2> DEFINE ranks == {n - Rank(rows, r) : r \in First(n, rows)}
  <2>1. ranks \in SUBSET Nat /\ ranks # {}
    BY <1>3, <1>4
  <2>2. PICK x \in ranks : \A y \in ranks : x <= y
    <3> HIDE DEF ranks
    <3> QED BY <2>1, LeastExists
  <2> QED BY <2>2
<1>6. ASSUME NEW q \in First(n, rows), q # l PROVE PageOrder(q, l)
  <2>1. Rank(rows, q) <= Rank(rows, l)
    BY <1>4, <1>5
  <2>2. ~PageOrder(l, q)
    <3>1. SUFFICES ASSUME PageOrder(l, q) PROVE FALSE
      OBVIOUS
    <3>2. Rank(rows, l) < Rank(rows, q)
      BY <1>4, <3>1, RankGrows
    <3> QED BY <1>4, <2>1, <3>2
  <2> QED BY <1>4, <1>6, <2>2, OrderIsTotal
<1> QED BY <1>6

(* The rows up to a boundary and those beyond it; without one, all are.    *)
UpTo(rows, after) == {r \in rows : after # None /\ ~PageOrder(after, r)}
PageFrom(rows, after) == {r \in rows : after # None => PageOrder(after, r)}

IsLast(l, rows) == \A q \in rows : q = l \/ PageOrder(q, l)

(* After a full page the boundary is its last row: what lies not beyond it *)
(* is what lay not beyond the old boundary, and the page.                  *)
LEMMA BoundaryMoves ==
  ASSUME NEW rows, OnePerKey(rows), NEW n \in Nat \ {0},
         NEW after \in rows \cup {None}, None \notin rows,
         NEW page, page = PageFrom(rows, after),
         NEW l \in First(n, page), IsLast(l, First(n, page))
  PROVE  UpTo(rows, l) = UpTo(rows, after) \cup First(n, page)
<1> USE DEF PageFrom, IsLast
<1> DEFINE old == {r \in rows : after # None /\ ~PageOrder(after, r)}
<1>1. OnePerKey(page) /\ page \subseteq rows
  BY FS_Subset DEF OnePerKey
<1>2. l \in page /\ First(n, page) \subseteq page
  BY DEF First
<1>r. rows \subseteq Revision
  BY DEF OnePerKey
<1>3. ASSUME NEW r \in rows, ~PageOrder(l, r) PROVE r \in old \cup First(n, page)
  <2>1. CASE r \notin page
    BY <2>1
  <2>2. CASE r \in page /\ r = l
    BY <2>2
  <2>3. CASE r \in page /\ r # l
    <3>1. PageOrder(r, l)
      BY <1>1, <1>2, <1>3, <2>3, OrderIsTotal
    <3>2. Rank(page, r) < Rank(page, l)
      BY <1>1, <1>2, <2>3, <3>1, RankGrows
    <3>3. Rank(page, r) \in Nat /\ Rank(page, l) \in Nat
      BY <1>1, <1>2, <2>3, RankIsBounded
    <3>4. Rank(page, l) < n
      BY DEF First, Rank
    <3>5. Rank(page, r) < n
      BY <3>2, <3>3, <3>4
    <3> QED BY <2>3, <3>5 DEF First, Rank
  <2> QED BY <2>1, <2>2, <2>3
<1>4. ASSUME NEW r \in First(n, page) PROVE r \in rows /\ ~PageOrder(l, r)
  <2>1. r \in rows /\ l \in rows
    BY <1>1, <1>2
  <2> QED BY <2>1, OrderIsTotal
<1>5. ASSUME NEW r \in old PROVE r \in rows /\ ~PageOrder(l, r)
  <2>1. after \in rows /\ after # None /\ r \in rows /\ ~PageOrder(after, r)
    OBVIOUS
  <2>2. PageOrder(after, l) /\ l \in rows
    BY <1>1, <1>2, <2>1
  <2>3. r = after \/ PageOrder(r, after)
    BY <2>1, OrderIsTotal
  <2>4. PageOrder(r, l)
    BY <1>r, <2>1, <2>2, <2>3, OrderIsTransitive
  <2> QED BY <2>1, <2>2, <2>4, OrderIsTotal
<1>6. l # None
  BY <1>1, <1>2
<1> QED BY <1>3, <1>4, <1>5, <1>6 DEF UpTo

(* AsOf of a canonical state.                                              *)
AsOfIn(revisions, anchor) == Latest({r \in revisions : r.at <= anchor})

(* RevisionsAreNumbered of a canonical state.                              *)
Numbered(revisions) ==
    /\ IsFiniteSet(revisions)
    /\ \A r, q \in revisions : r.key = q.key /\ r.rev = q.rev => r = q

(* Of the revisions of a key one is in force.                              *)
LEMMA LatestOnePerKey ==
  ASSUME NEW revisions, revisions \subseteq Revision, Numbered(revisions)
  PROVE  OnePerKey(Latest(revisions)) /\ Latest(revisions) \subseteq revisions
<1>1. Latest(revisions) \subseteq revisions
  BY DEF Latest
<1>2. IsFiniteSet(Latest(revisions))
  BY <1>1, FS_Subset DEF Numbered
<1>3. ASSUME NEW r \in Latest(revisions), NEW q \in Latest(revisions),
             r.key = q.key
      PROVE  r = q
  <2>1. r.rev \in Nat /\ q.rev \in Nat
    BY <1>1, RevisionFields
  <2>2. r.rev <= q.rev /\ q.rev <= r.rev
    BY <1>1, <1>3 DEF Latest
  <2>3. r.rev = q.rev
    BY <2>1, <2>2
  <2> QED BY <1>1, <1>3, <2>3 DEF Numbered
<1> QED BY <1>1, <1>2, <1>3 DEF OnePerKey

LEMMA AsOfOnePerKey ==
  ASSUME NEW revisions, revisions \subseteq Revision, Numbered(revisions),
         NEW anchor, NEW kind
  PROVE  /\ OnePerKey(OfKind(AsOfIn(revisions, anchor), kind))
         /\ AsOfIn(revisions, anchor) \subseteq revisions
<1> DEFINE seen == {r \in revisions : r.at <= anchor}
           all  == AsOfIn(revisions, anchor)
           rows == OfKind(all, kind)
<1>1. seen \subseteq revisions /\ all \subseteq seen /\ rows \subseteq all
  BY DEF AsOfIn, Latest, OfKind
<1>2. IsFiniteSet(rows)
  BY <1>1, FS_Subset DEF Numbered
<1>3. ASSUME NEW r \in rows, NEW q \in rows, r.key = q.key
      PROVE  r = q
  <2>1. r.rev \in Nat /\ q.rev \in Nat
    BY <1>1, RevisionFields
  <2>2. r.rev <= q.rev /\ q.rev <= r.rev
    BY <1>1, <1>3 DEF Latest, AsOfIn
  <2>3. r.rev = q.rev
    BY <2>1, <2>2
  <2> QED BY <1>1, <1>3, <2>3 DEF Numbered
<1> QED BY <1>1, <1>2, <1>3 DEF OnePerKey

-----------------------------------------------------------------------------
(* The inductive invariant by subject: the surroundings, the publishers,   *)
(* the records and the jobs.                                               *)

World ==
    /\ demand \in Demands
    /\ now \in 0 .. MaxNow
    /\ canonical \subseteq Revision
    /\ indexes \subseteq canonical
    /\ Numbered(canonical)
    /\ writer \in Process \cup {None}
    /\ commands \in 0 .. MaxCommands
    /\ faults \in 0 .. MaxFaults

(* DeliveryOf of a publisher's record.                                     *)
DeliveryFrom(r) == [anchor |-> r.anchor, rows |-> r.rows, rules |-> r.rules]

(* The rows of the kinds before one.                                       *)
KindsBefore(all, kind) ==
    {r \in all : \E i \in 1 .. kind - 1 : KindOf[r.key] = Kinds[i]}

(* PagesAreExact of a publisher's record.                                  *)
Paged(r, c) ==
    /\ r.kind <= Len(Kinds)
    /\ r.after # None
          => r.after \in OfKind(AsOfIn(c, r.anchor), Kinds[r.kind])
    /\ r.rows = KindsBefore(AsOfIn(c, r.anchor), r.kind)
                \cup UpTo(OfKind(AsOfIn(c, r.anchor), Kinds[r.kind]), r.after)

(* All that holds of a publisher p with record r, when the canonical rows  *)
(* are c, the tables ix, the lease is w's, and h was written.              *)
ProcInv(p, r, c, ix, w, sh, h) ==
    /\ r \in ProcessRecord
    /\ r.pc # "idle" => r.anchor \in Anchor
    /\ r.total \in 0 .. MaxRows
    /\ r.rows \subseteq c
    /\ (r.pc # "idle") <=> (w = p)
    /\ r.pc \in {"loading", "rendering", "writing", "recording"} =>
          ix = Latest(c) /\ r.counts = Counts(Latest(c))
    /\ r.pc \in {"rendering", "writing", "recording"} =>
          r.rows = AsOfIn(c, r.anchor)
    /\ r.pc \in {"writing", "recording"} => sh = None
    /\ r.pc = "writing" => \A i \in 1 .. 4 : i < r.next =>
          Artifacts(DeliveryFrom(r))[i] \in h
    /\ r.pc = "loading" => Paged(r, c)
    /\ r.pc \in {"claimed", "rebuilding"} =>
          r.kind = 1 /\ r.after = None /\ r.rows = {}
    /\ r.pc \in {"claimed", "rebuilding", "loading", "rendering"} => r.next = 1

Procs ==
    /\ proc \in [Process -> ProcessRecord]
    /\ \A p \in Process :
          ProcInv(p, proc[p], canonical, indexes, writer, shown, history)

(* ReplaysAddNothing of the events ev, manifest rows aud and alerts al.     *)
OneEventEach(ev, aud) ==
    \A d \in {ev[i] : i \in DOMAIN ev} :
        Cardinality({i \in DOMAIN ev : ev[i] = d})
           = Cardinality({r \in aud : r.delivery = d})
AlertsAreThose(al, aud) == al = UNION {AlertsOf(r.delivery) : r \in aud}

Records ==
    /\ \A d \in DOMAIN manifests : d \in Delivery
    /\ shown \in Delivery \cup {None}
    /\ events \in Seq(Delivery)
    /\ ManifestsComeLast /\ ShownIsWhole /\ RecordsAreWhole
    /\ OneEventEach(events, audited) /\ AlertsAreThose(alerts, audited)

JobRecord == [state : {"absent", "queued", "claimed", "running", "retry_wait"}
                          \cup Ended,
              attempts : 0 .. MaxAttempts, lease : {"none", "live", "stale"}]

JobOK(j) ==
    /\ j \in JobRecord
    /\ (j.lease # "none") <=> (j.state \in {"claimed", "running"})
    /\ j.state \in {"absent", "queued", "retry_wait", "claimed"} =>
          j.attempts < MaxAttempts

(* SucceededIsRecorded of an anchor, the tables being aud and outs.        *)
HasLineage(a, aud, outs) ==
    \E r \in aud : /\ r.delivery.anchor = a
                   /\ \A x \in ArtifactSet(r.delivery) :
                         Output(r.delivery, x) \in outs

JobsInv ==
    /\ job \in [Anchor -> JobRecord]
    /\ \A a \in Anchor : JobOK(job[a])
    /\ \A a \in Anchor : job[a].state = "succeeded"
                            => HasLineage(a, audited, outputs)

DaemonInv ==
    /\ proc["daemon"].pc = "claimed"
          => job[proc["daemon"].anchor].state = "claimed"
    /\ proc["daemon"].pc = "finishing" =>
          \E r \in audited : r.delivery.anchor = proc["daemon"].anchor

Shape == World /\ Procs /\ Records /\ JobsInv /\ DaemonInv

LEMMA ShapeToInv ==
  ASSUME Shape
  PROVE  IInv
<1> USE DEF Shape
<1>1. /\ proc \in [Process -> ProcessRecord]
      /\ \A p \in Process :
            ProcInv(p, proc[p], canonical, indexes, writer, shown, history)
  BY DEF Procs
<1>2. ASSUME NEW p \in Process
      PROVE  /\ proc[p].pc \in {"idle", "claimed", "finishing"} \cup Publishing
             /\ proc[p].pc # "idle" => proc[p].anchor \in Anchor
             /\ proc[p].rules \subseteq Rule
             /\ proc[p].kind \in 1 .. Len(Kinds) + 1
             /\ proc[p].after \in Revision \cup {None}
             /\ proc[p].total \in 0 .. MaxRows
             /\ proc[p].rows \subseteq canonical
             /\ proc[p].next \in 1 .. 5
  <2>1. proc[p] \in ProcessRecord
    BY <1>1
  <2>2. /\ proc[p].pc \in {"idle", "claimed", "finishing"} \cup Publishing
        /\ proc[p].rules \subseteq Rule
        /\ proc[p].kind \in 1 .. Len(Kinds) + 1
        /\ proc[p].after \in Revision \cup {None}
        /\ proc[p].next \in 1 .. 5
    BY <2>1, Zenon DEF ProcessRecord
  <2> QED BY <1>1, <2>2 DEF ProcInv
<1>3. TypeOK
  <2>1. /\ job \in [Anchor -> JobRecord]
        /\ \A a \in Anchor : (job[a].lease # "none")
                               <=> (job[a].state \in {"claimed", "running"})
    BY DEF JobsInv, JobOK
  <2> QED BY <1>2, <2>1 DEF TypeOK, World, Records, JobRecord
<1>4. PublicationIsCoherent
  BY <1>1 DEF ProcInv, PublicationIsCoherent, AsOfIn, AsOf
<1>5. PublishersAreAlone
  BY <1>1 DEF ProcInv, PublishersAreAlone, DeliveryOf, DeliveryFrom
<1>6. PagesAreExact
  BY <1>1 DEF ProcInv, PagesAreExact, Paged, KindsBefore, UpTo, AsOfIn, AsOf,
              Beyond
<1>7. RevisionsAreNumbered
  BY DEF World, Numbered, RevisionsAreNumbered
<1>8. SucceededIsRecorded
  BY DEF JobsInv, HasLineage, SucceededIsRecorded
<1>9. JobsFollowTheDaemon
  BY DEF JobsInv, JobOK, DaemonInv, JobsFollowTheDaemon
<1>10. ReplaysAddNothing
  BY DEF Records, ReplaysAddNothing, OneEventEach, AlertsAreThose
<1>11. PublicationsStartBare
  BY <1>1 DEF ProcInv, PublicationsStartBare
<1> QED BY <1>1, <1>3, <1>4, <1>5, <1>6, <1>7, <1>8, <1>9, <1>10, <1>11
        DEF IInv, Records, LineageIsTrue

-----------------------------------------------------------------------------
(* What the steps have in common.                                          *)

(* Fields of a publisher's record.                                         *)
LEMMA ProcessFields ==
  ASSUME NEW r \in ProcessRecord
  PROVE  /\ r.pc \in {"idle", "claimed", "finishing"} \cup Publishing
         /\ r.anchor \in Anchor \cup {0} /\ r.rules \subseteq Rule
         /\ r.counts \in {<<>>} \cup [1 .. Len(Kinds) -> Nat]
         /\ r.kind \in 1 .. Len(Kinds) + 1 /\ r.after \in Revision \cup {None}
         /\ r.total \in Nat /\ r.rows \subseteq Revision /\ r.next \in 1 .. 5
BY Zenon DEF ProcessRecord

(* A publisher without the lease is idle, and idle is all that matters.    *)
LEMMA IdleProcess ==
  ASSUME NEW p, NEW r, NEW c, NEW ix, NEW w, NEW sh, NEW h,
         NEW c2, NEW ix2, NEW w2, NEW sh2, NEW h2,
         ProcInv(p, r, c, ix, w, sh, h), w # p, w2 # p, c \subseteq c2
  PROVE  ProcInv(p, r, c2, ix2, w2, sh2, h2)
BY DEF ProcInv

LEMMA IdleIsTyped == Idle \in ProcessRecord
BY DEF Idle, ProcessRecord, Publishing, Kinds

LEMMA IdleIsSound ==
  ASSUME NEW p, NEW c, NEW ix, NEW w, NEW sh, NEW h, w # p
  PROVE  ProcInv(p, Idle, c, ix, w, sh, h)
<1>1. Idle \in ProcessRecord
  BY IdleIsTyped
<1>2. 0 \in 0 .. MaxRows
  BY Constants
<1> QED BY <1>1, <1>2 DEF ProcInv, Idle

(* One publisher takes a step; the other has not got the lease.            *)
LEMMA ProcessStep ==
  ASSUME Shape, NEW p \in Process, NEW s,
         proc' = [proc EXCEPT ![p] = s],
         proc[p].pc # "idle" \/ writer = None,
         writer' \in {p, None}, canonical' = canonical,
         ProcInv(p, s, canonical', indexes', writer', shown', history')
  PROVE  Procs'
<1>1. /\ proc \in [Process -> ProcessRecord]
      /\ \A q \in Process :
            ProcInv(q, proc[q], canonical, indexes, writer, shown, history)
  BY DEF Shape, Procs
<1>2. writer \in {p, None}
  BY <1>1 DEF ProcInv
<1>3. ASSUME NEW q \in Process, q # p
      PROVE  ProcInv(q, proc'[q], canonical', indexes', writer', shown', history')
  <2>1. writer # q /\ writer' # q
    BY <1>2, <1>3, Constants
  <2>2. proc'[q] = proc[q]
    BY <1>1, <1>3
  <2>3. ProcInv(q, proc[q], canonical, indexes, writer, shown, history)
    BY <1>1
  <2>4. canonical \subseteq canonical'
    OBVIOUS
  <2> HIDE DEF ProcInv
  <2> QED BY <2>1, <2>2, <2>3, <2>4, IdleProcess
<1>4. proc'[p] = s /\ s \in ProcessRecord
  BY <1>1 DEF ProcInv
<1>5. proc' \in [Process -> ProcessRecord]
  BY <1>1, <1>4
<1> QED BY <1>3, <1>4, <1>5 DEF Procs

LEMMA ProcsStay ==
  ASSUME Shape, UNCHANGED <<proc, writer, shown, history>>,
         \/ canonical' = canonical /\ indexes' = indexes
         \/ canonical \subseteq canonical' /\ writer = None
  PROVE  Procs'
<1>1. /\ proc \in [Process -> ProcessRecord]
      /\ \A q \in Process :
            ProcInv(q, proc[q], canonical, indexes, writer, shown, history)
  BY DEF Shape, Procs
<1>2. ASSUME NEW q \in Process
      PROVE  ProcInv(q, proc'[q], canonical', indexes', writer', shown', history')
  <2>1. CASE canonical' = canonical /\ indexes' = indexes
    BY <1>1, <2>1
  <2>2. CASE canonical \subseteq canonical' /\ writer = None
    <3>1. writer # q /\ writer' # q
      BY <2>2, Constants
    <3>2. ProcInv(q, proc[q], canonical, indexes, writer, shown, history)
      BY <1>1
    <3> QED BY <2>2, <3>1, <3>2, IdleProcess
  <2> QED BY <2>1, <2>2
<1> QED BY <1>1, <1>2 DEF Procs

LEMMA RecordsStay ==
  ASSUME Shape, UNCHANGED <<disk, ledger>>
  PROVE  Records'
<1>1. UNCHANGED <<files, manifests, history, shown, outputs, audited, alerts,
                  events>>
  BY DEF disk, ledger
<1>2. Records
  BY DEF Shape
<1>3. ManifestsComeLast'
  BY <1>1, <1>2 DEF Records, ManifestsComeLast
<1>4. ShownIsWhole'
  BY <1>1, <1>2 DEF Records, ShownIsWhole
<1>5. OneEventEach(events', audited') /\ AlertsAreThose(alerts', audited')
  BY <1>1, <1>2 DEF Records
<1>6. RecordsAreWhole'
  BY <1>1, <1>2 DEF Records, RecordsAreWhole
<1> QED BY <1>1, <1>2, <1>3, <1>4, <1>5, <1>6 DEF Records

(* Lineage is never lost.                                                  *)
LEMMA JobsStay ==
  ASSUME Shape, UNCHANGED job, audited \subseteq audited', outputs \subseteq outputs'
  PROVE  JobsInv'
BY DEF Shape, JobsInv, HasLineage

LEMMA JobStep ==
  ASSUME Shape, NEW a \in Anchor, NEW j, job' = [job EXCEPT ![a] = j],
         UNCHANGED <<audited, outputs>>, JobOK(j),
         j.state = "succeeded" => HasLineage(a, audited, outputs)
  PROVE  JobsInv'
<1>1. job \in [Anchor -> JobRecord] /\ \A b \in Anchor : JobOK(job[b])
  BY DEF Shape, JobsInv
<1>2. j \in JobRecord
  BY DEF JobOK
<1>3. job' \in [Anchor -> JobRecord]
  BY <1>1, <1>2
<1>4. ASSUME NEW b \in Anchor
      PROVE  /\ JobOK(job'[b])
             /\ job'[b].state = "succeeded" => HasLineage(b, audited', outputs')
  <2>1. CASE b = a
    BY <1>1, <2>1
  <2>2. CASE b # a
    BY <1>1, <2>2 DEF Shape, JobsInv
  <2> QED BY <2>1, <2>2
<1> QED BY <1>3, <1>4 DEF JobsInv

LEMMA JobFields ==
  ASSUME NEW j, JobOK(j)
  PROVE  /\ j \in JobRecord
         /\ j.state \in {"absent", "queued", "claimed", "running", "retry_wait",
                         "succeeded", "dead_letter"}
         /\ j.attempts \in 0 .. MaxAttempts
         /\ j.lease \in {"none", "live", "stale"}
         /\ (j.lease # "none") <=> (j.state \in {"claimed", "running"})
         /\ j.state \in {"absent", "queued", "retry_wait", "claimed"} =>
               j.attempts < MaxAttempts
BY DEF JobOK, JobRecord, Ended

(* A job whose attempt was given up waits while it has one left.           *)
LEMMA RetriedIsSound ==
  ASSUME NEW j, JobOK(j)
  PROVE  /\ JobOK(Retried(j)) /\ Retried(j).state \in {"retry_wait", "dead_letter"}
<1>1. Retried(j) \in JobRecord
  BY JobFields DEF Retried, JobRecord, Ended
<1>2. /\ Retried(j).state = IF j.attempts < MaxAttempts THEN "retry_wait"
                            ELSE "dead_letter"
      /\ Retried(j).lease = "none"
      /\ Retried(j).attempts = j.attempts
  BY JobFields DEF Retried, JobRecord
<1> QED BY <1>1, <1>2 DEF JobOK

LEMMA RecoveredIsSound ==
  ASSUME NEW j, JobOK(j)
  PROVE  /\ JobOK(Recovered(j))
         /\ Recovered(j).state = "succeeded" => j.state = "succeeded"
<1> DEFINE q == [j EXCEPT !.state = "queued", !.lease = "none"]
<1>1. CASE j.lease = "stale" /\ j.state = "running"
  BY <1>1, RetriedIsSound DEF Recovered
<1>2. CASE j.lease = "stale" /\ j.state = "claimed"
  <2>0. j \in JobRecord
    BY DEF JobOK
  <2>1. q \in JobRecord
    BY <2>0 DEF JobRecord, Ended
  <2>2. q.state = "queued" /\ q.lease = "none" /\ q.attempts = j.attempts
    BY JobFields DEF JobRecord
  <2>3. JobOK(q)
    BY <1>2, <2>1, <2>2, JobFields DEF JobOK
  <2>4. Recovered(j) = q
    BY <1>2 DEF Recovered
  <2> QED BY <2>2, <2>3, <2>4
<1>3. CASE j.lease # "stale" \/ j.state \notin {"running", "claimed"}
  BY <1>3 DEF Recovered
<1> QED BY <1>1, <1>2, <1>3

(* A tick's recovery keeps what holds of the jobs.                         *)
LEMMA RecoveryStep ==
  ASSUME Shape, NEW jobs, jobs = [b \in Anchor |-> Recovered(job[b])]
  PROVE  /\ jobs \in [Anchor -> JobRecord]
         /\ \A b \in Anchor :
               /\ JobOK(jobs[b])
               /\ jobs[b].state = "succeeded" => HasLineage(b, audited, outputs)
<1>1. ASSUME NEW b \in Anchor
      PROVE  /\ JobOK(jobs[b])
             /\ jobs[b].state = "succeeded" => HasLineage(b, audited, outputs)
  BY RecoveredIsSound DEF Shape, JobsInv
<1>2. ASSUME NEW b \in Anchor PROVE jobs[b] \in JobRecord
  BY <1>1 DEF JobOK
<1> QED BY <1>1, <1>2

LEMMA FinishedIsSound ==
  ASSUME NEW j, JobOK(j), NEW status
  PROVE  /\ JobOK(Finished(j, status))
         /\ Finished(j, status).state = "succeeded" =>
               j.state = "succeeded" \/ status = "succeeded"
<1> DEFINE q == [j EXCEPT !.state = "succeeded", !.lease = "none"]
<1>1. CASE j.lease # "live"
  BY <1>1 DEF Finished
<1>2. CASE j.lease = "live" /\ status = "succeeded"
  <2>0. j \in JobRecord
    BY DEF JobOK
  <2>1. q \in JobRecord
    BY <2>0 DEF JobRecord, Ended
  <2>2. q.state = "succeeded" /\ q.lease = "none" /\ q.attempts = j.attempts
    BY JobFields DEF JobRecord
  <2>3. JobOK(q)
    BY <2>1, <2>2 DEF JobOK
  <2> QED BY <1>2, <2>3 DEF Finished
<1>3. CASE j.lease = "live" /\ status # "succeeded"
  <2>1. Finished(j, status) = Retried(j)
    BY <1>3 DEF Finished
  <2> QED BY <2>1, RetriedIsSound
<1> QED BY <1>1, <1>2, <1>3

-----------------------------------------------------------------------------
(* The initial state and the steps of the surroundings.                    *)

LEMMA InitShape ==
  ASSUME Init
  PROVE  Shape
<1>1. World
  <2>1. IsFiniteSet({})
    BY FS_EmptySet
  <2>2. 0 \in 0 .. MaxNow /\ 0 \in 0 .. MaxCommands /\ 0 \in 0 .. MaxFaults
    BY Constants
  <2> QED BY <2>1, <2>2 DEF Init, World, Numbered
<1>2. Procs
  <2>1. ASSUME NEW p \in Process
        PROVE  ProcInv(p, proc[p], canonical, indexes, writer, shown, history)
    <3>1. writer # p /\ proc[p] = Idle
      BY Constants DEF Init
    <3> QED BY <3>1, IdleIsSound
  <2>2. proc \in [Process -> ProcessRecord]
    BY IdleIsTyped DEF Init
  <2> QED BY <2>1, <2>2 DEF Procs
<1>3. Records
  <2>1. /\ DOMAIN manifests = {} /\ shown = None /\ events = <<>>
        /\ outputs = {} /\ audited = {} /\ alerts = {}
    BY DEF Init
  <2>2. events \in Seq(Delivery) /\ DOMAIN events = {}
    BY <2>1
  <2>3. OneEventEach(events, audited)
    BY <2>2 DEF OneEventEach
  <2>4. AlertsAreThose(alerts, audited)
    BY <2>1 DEF AlertsAreThose
  <2>5. ManifestsComeLast /\ ShownIsWhole
    BY <2>1 DEF ManifestsComeLast, ShownIsWhole
  <2>6. RecordsAreWhole
    BY <2>1, FS_EmptySet DEF RecordsAreWhole
  <2> QED BY <2>1, <2>2, <2>3, <2>4, <2>5, <2>6 DEF Records
<1>4. JobsInv
  <2> DEFINE j == [state |-> "absent", attempts |-> 0, lease |-> "none"]
  <2>1. JobOK(j)
    BY Constants DEF JobOK, JobRecord
  <2>2. j \in JobRecord /\ j.state # "succeeded"
    BY <2>1 DEF JobOK
  <2>3. job = [a \in Anchor |-> j]
    BY DEF Init
  <2> HIDE DEF j
  <2> QED BY <2>1, <2>2, <2>3 DEF JobsInv
<1>5. DaemonInv
  BY DEF Init, DaemonInv, Idle, Process
<1> QED BY <1>1, <1>2, <1>3, <1>4, <1>5 DEF Shape

(* While nobody holds the lease the daemon is idle.                        *)
LEMMA FreeLease ==
  ASSUME Shape, writer = None
  PROVE  \A p \in Process : proc[p].pc = "idle"
<1>1. ASSUME NEW p \in Process PROVE proc[p].pc = "idle"
  <2>1. ProcInv(p, proc[p], canonical, indexes, writer, shown, history)
    BY DEF Shape, Procs
  <2>2. writer # p
    BY Constants
  <2> QED BY <2>1, <2>2 DEF ProcInv
<1> QED BY <1>1

LEMMA TickStep ==
  ASSUME Shape, Tick
  PROVE  Shape'
<1>1. UNCHANGED <<canonical, indexes, job, proc, writer, disk, ledger, bounds>>
  BY DEF Tick
<1>2. World'
  BY <1>1, Constants DEF Tick, Shape, World, bounds
<1>3. Procs'
  BY <1>1, ProcsStay DEF disk
<1>4. Records'
  BY <1>1, RecordsStay
<1>5. JobsInv'
  BY <1>1, JobsStay DEF ledger
<1>6. DaemonInv'
  BY <1>1 DEF Shape, DaemonInv, ledger
<1> QED BY <1>2, <1>3, <1>4, <1>5, <1>6 DEF Shape

(* A revision that was not there has its number to itself.                 *)
LEMMA NumberedGrows ==
  ASSUME NEW c, Numbered(c), NEW row,
         \A r \in c : ~(r.key = row.key /\ r.rev = row.rev)
  PROVE  Numbered(c \cup {row})
<1>1. IsFiniteSet(c \cup {row})
  BY FS_AddElement DEF Numbered
<1>2. ASSUME NEW r \in c \cup {row}, NEW q \in c \cup {row},
             r.key = q.key, r.rev = q.rev
      PROVE  r = q
  <2>1. CASE r \in c /\ q \in c
    BY <1>2, <2>1 DEF Numbered
  <2>2. CASE ~(r \in c /\ q \in c)
    BY <1>2, <2>2
  <2> QED BY <2>1, <2>2
<1> QED BY <1>1, <1>2 DEF Numbered

LEMMA PromoteStep ==
  ASSUME Shape, NEW k \in Key, NEW rev \in 1 .. MaxRevisions, NEW gone \in BOOLEAN,
         Promote(k, rev, gone)
  PROVE  Shape'
<1> DEFINE row == [key |-> k, rev |-> rev, at |-> now, gone |-> gone]
<1>1. UNCHANGED <<now, indexes, job, proc, writer, disk, ledger, bounds>>
  BY DEF Promote
<1>2. canonical' = canonical \cup {row} /\ writer = None
  BY DEF Promote
<1>3. canonical \subseteq Revision /\ IsFiniteSet(canonical) /\ Numbered(canonical)
  BY DEF Shape, World, Numbered
<1>4. \A r \in canonical : ~(r.key = k /\ r.rev = rev)
  BY DEF Promote
<1>5. row \in Revision
  <2>1. now \in 0 .. MaxNow
    BY DEF Shape, World
  <2> QED BY <2>1, Zenon DEF Revision
<1>6. Numbered(canonical \cup {row})
  <2>1. row.key = k /\ row.rev = rev
    OBVIOUS
  <2> HIDE DEF row
  <2>2. \A r \in canonical : ~(r.key = row.key /\ r.rev = row.rev)
    BY <1>4, <2>1
  <2> QED BY <1>3, <2>2, NumberedGrows
<1> HIDE DEF row
<1>7. World'
  BY <1>1, <1>2, <1>5, <1>6 DEF Shape, World, bounds
<1>8. Procs'
  BY <1>1, <1>2, ProcsStay DEF disk
<1>9. Records'
  BY <1>1, RecordsStay
<1>10. JobsInv'
  BY <1>1, JobsStay DEF ledger
<1>11. DaemonInv'
  BY <1>1 DEF Shape, DaemonInv, ledger
<1> QED BY <1>7, <1>8, <1>9, <1>10, <1>11 DEF Shape

LEMMA JobAt ==
  ASSUME Shape, NEW a \in Anchor
  PROVE  /\ JobOK(job[a])
         /\ job[a].state = "succeeded" => HasLineage(a, audited, outputs)
BY DEF Shape, JobsInv

(* What the steps of the surroundings that change jobs have in common.     *)
LEMMA JobsOnly ==
  ASSUME Shape, JobsInv',
         UNCHANGED <<now, canonical, indexes, proc, writer, disk, ledger, bounds>>,
         proc["daemon"].pc = "claimed" =>
            job'[proc["daemon"].anchor].state = job[proc["daemon"].anchor].state
  PROVE  Shape'
<1>1. World'
  BY DEF Shape, World, bounds
<1>2. Procs'
  BY ProcsStay DEF disk
<1>3. Records'
  BY RecordsStay
<1>4. DaemonInv'
  BY DEF Shape, DaemonInv, ledger
<1> QED BY <1>1, <1>2, <1>3, <1>4 DEF Shape

LEMMA EnqueueStep ==
  ASSUME Shape, NEW a \in Anchor, Enqueue(a)
  PROVE  Shape'
<1> DEFINE j == [job[a] EXCEPT !.state = "queued"]
<1>1. job \in [Anchor -> JobRecord] /\ job[a] \in JobRecord
  BY DEF Shape, JobsInv
<1>2. job' = [job EXCEPT ![a] = j] /\ job[a].state = "absent" /\ writer = None
  BY <1>1 DEF Enqueue
<1>3. JobOK(job[a])
  BY JobAt
<1>4. j \in JobRecord /\ j.state = "queued" /\ j.lease = job[a].lease
      /\ j.attempts = job[a].attempts
  BY <1>1 DEF JobRecord
<1>5. JobOK(j)
  BY <1>2, <1>3, <1>4 DEF JobOK
<1>6. UNCHANGED <<now, canonical, indexes, proc, writer, disk, ledger, bounds>>
  BY DEF Enqueue
<1>7. UNCHANGED <<audited, outputs>>
  BY <1>6 DEF ledger
<1> HIDE DEF j
<1>8. JobsInv'
  BY <1>2, <1>4, <1>5, <1>7, JobStep
<1>9. proc["daemon"].pc = "idle"
  BY <1>2, FreeLease DEF Process
<1> QED BY <1>6, <1>8, <1>9, JobsOnly

LEMMA LeasePassesStep ==
  ASSUME Shape, NEW a \in Anchor, LeasePasses(a)
  PROVE  Shape'
<1> DEFINE j == [job[a] EXCEPT !.lease = "stale"]
<1>1. job \in [Anchor -> JobRecord] /\ job[a] \in JobRecord
  BY DEF Shape, JobsInv
<1>2. job' = [job EXCEPT ![a] = j] /\ job[a].lease = "live"
  BY <1>1 DEF LeasePasses
<1>3. JobOK(job[a]) /\ (job[a].state = "succeeded" => HasLineage(a, audited, outputs))
  BY JobAt
<1>4. j \in JobRecord /\ j.state = job[a].state /\ j.lease = "stale"
      /\ j.attempts = job[a].attempts
  BY <1>1 DEF JobRecord
<1>5. JobOK(j)
  BY <1>2, <1>3, <1>4 DEF JobOK
<1>6. UNCHANGED <<now, canonical, indexes, proc, writer, disk, ledger, bounds>>
  BY DEF LeasePasses
<1>7. UNCHANGED <<audited, outputs>>
  BY <1>6 DEF ledger
<1> HIDE DEF j
<1>8. JobsInv'
  BY <1>2, <1>3, <1>4, <1>5, <1>7, JobStep
<1>9. \A b \in Anchor : job'[b].state = job[b].state
  BY <1>1, <1>2, <1>4
<1>10. proc["daemon"].pc = "claimed" => proc["daemon"].anchor \in Anchor
  <2>1. ProcInv("daemon", proc["daemon"], canonical, indexes, writer, shown,
                history)
    BY DEF Shape, Procs, Process
  <2> QED BY <2>1 DEF ProcInv
<1> QED BY <1>6, <1>8, <1>9, <1>10, JobsOnly

LEMMA RebuildCommandStep ==
  ASSUME Shape, RebuildCommand
  PROVE  Shape'
<1>1. UNCHANGED <<now, canonical, job, proc, writer, disk, ledger, bounds>>
  BY DEF RebuildCommand
<1>2. indexes' = Latest(canonical) /\ writer = None
  BY DEF RebuildCommand
<1>3. World'
  BY <1>1, <1>2, LatestOnePerKey DEF Shape, World, bounds
<1>4. Procs'
  BY <1>1, <1>2, ProcsStay DEF disk
<1>5. Records'
  BY <1>1, RecordsStay
<1>6. JobsInv'
  BY <1>1, JobsStay DEF ledger
<1>7. DaemonInv'
  BY <1>1 DEF Shape, DaemonInv, ledger
<1> QED BY <1>3, <1>4, <1>5, <1>6, <1>7 DEF Shape

LEMMA IdleTickStep ==
  ASSUME Shape, IdleTick
  PROVE  Shape'
<1> DEFINE jobs == [b \in Anchor |-> Recovered(job[b])]
<1>1. UNCHANGED <<now, canonical, indexes, proc, writer, disk, ledger, bounds>>
  BY DEF IdleTick
<1>2. job' = jobs /\ proc["daemon"].pc = "idle"
  BY DEF IdleTick
<1> HIDE DEF jobs
<1>3. /\ jobs \in [Anchor -> JobRecord]
      /\ \A b \in Anchor :
            /\ JobOK(jobs[b])
            /\ jobs[b].state = "succeeded" => HasLineage(b, audited, outputs)
  BY RecoveryStep DEF jobs
<1>4. JobsInv'
  BY <1>1, <1>2, <1>3 DEF JobsInv, ledger
<1> QED BY <1>1, <1>2, <1>4, JobsOnly

-----------------------------------------------------------------------------
(* The publishers start and end.                                           *)

LEMMA BeginTickStep ==
  ASSUME Shape, NEW a \in Anchor, BeginTick(a)
  PROVE  Shape'
<1> DEFINE jobs == [b \in Anchor |-> Recovered(job[b])]
           j    == [jobs[a] EXCEPT !.state = "claimed", !.lease = "live"]
           s    == [Idle EXCEPT !.pc = "claimed", !.anchor = a]
<1>1. UNCHANGED <<now, canonical, indexes, disk, ledger, bounds>>
  BY DEF BeginTick
<1>2. /\ writer = None /\ writer' = "daemon"
      /\ jobs[a].state \in {"queued", "retry_wait"}
      /\ proc' = [proc EXCEPT !["daemon"] = s]
  BY DEF BeginTick
<1>3. /\ jobs \in [Anchor -> JobRecord]
      /\ \A b \in Anchor :
            /\ JobOK(jobs[b])
            /\ jobs[b].state = "succeeded" => HasLineage(b, audited, outputs)
  <2> HIDE DEF jobs
  <2> QED BY RecoveryStep DEF jobs
<1>4. job' = [jobs EXCEPT ![a] = j]
  <2>1. job' = [jobs EXCEPT ![a].state = "claimed", ![a].lease = "live"]
    BY DEF BeginTick
  <2> HIDE DEF jobs
  <2> QED BY <1>3, <2>1
<1> HIDE DEF jobs
<1>5. JobOK(j) /\ j \in JobRecord /\ j.state = "claimed"
  <2>1. jobs[a] \in JobRecord /\ JobOK(jobs[a])
    BY <1>3
  <2>2. j \in JobRecord /\ j.state = "claimed" /\ j.lease = "live"
        /\ j.attempts = jobs[a].attempts
    BY <2>1 DEF JobRecord
  <2> HIDE DEF j
  <2> QED BY <1>2, <2>1, <2>2 DEF JobOK
<1> HIDE DEF j
<1>6. JobsInv'
  <2>1. job' \in [Anchor -> JobRecord]
    BY <1>3, <1>4, <1>5
  <2>2. ASSUME NEW b \in Anchor
        PROVE  /\ JobOK(job'[b])
               /\ job'[b].state = "succeeded" => HasLineage(b, audited', outputs')
    <3>1. job'[b] = IF b = a THEN j ELSE jobs[b]
      BY <1>3, <1>4
    <3>2. UNCHANGED <<audited, outputs>>
      BY <1>1 DEF ledger
    <3> QED BY <1>3, <1>5, <3>1, <3>2
  <2> QED BY <2>1, <2>2 DEF JobsInv
<1>7. ProcInv("daemon", s, canonical', indexes', writer', shown', history')
  <2>1. s \in ProcessRecord
    BY IdleIsTyped DEF ProcessRecord
  <2>2. /\ s.pc = "claimed" /\ s.anchor = a /\ s.total = 0 /\ s.rows = {}
        /\ s.kind = 1 /\ s.after = None /\ s.next = 1
    BY DEF Idle
  <2>3. 0 \in 0 .. MaxRows
    BY Constants
  <2> HIDE DEF s
  <2> QED BY <1>2, <2>1, <2>2, <2>3 DEF ProcInv
<1>8. s.pc = "claimed" /\ s.anchor = a
  BY DEF Idle
<1> HIDE DEF s
<1>9. Procs'
  BY <1>1, <1>2, <1>7, ProcessStep DEF Process
<1>10. DaemonInv'
  <2>1. proc'["daemon"] = s
    BY <1>2 DEF Shape, Procs, Process
  <2>2. job'[a] = j
    BY <1>3, <1>4
  <2> QED BY <1>5, <1>8, <2>1, <2>2 DEF DaemonInv
<1>11. World'
  BY <1>1, <1>2 DEF Shape, World, bounds, Process
<1>12. Records'
  BY <1>1, RecordsStay
<1> QED BY <1>6, <1>9, <1>10, <1>11, <1>12 DEF Shape

(* What follows of the daemon when p takes a step that claims or finishes  *)
(* nothing.                                                                *)
LEMMA DaemonStep ==
  ASSUME Shape, NEW p \in Process, NEW s, proc' = [proc EXCEPT ![p] = s],
         s.pc \notin {"claimed", "finishing"}, audited \subseteq audited',
         p = "daemon" \/ job' = job
  PROVE  DaemonInv'
<1>1. proc \in [Process -> ProcessRecord]
  BY DEF Shape, Procs
<1>2. CASE p = "daemon"
  <2>1. proc'["daemon"] = s
    BY <1>1, <1>2
  <2> QED BY <2>1 DEF DaemonInv
<1>3. CASE p # "daemon"
  <2>1. proc'["daemon"] = proc["daemon"] /\ job' = job
    BY <1>1, <1>3 DEF Process
  <2> QED BY <2>1 DEF Shape, DaemonInv
<1> QED BY <1>2, <1>3

(* A publisher's record.                                                   *)
LEMMA ProcAt ==
  ASSUME Shape, NEW p \in Process
  PROVE  /\ proc \in [Process -> ProcessRecord]
         /\ proc[p] \in ProcessRecord
         /\ ProcInv(p, proc[p], canonical, indexes, writer, shown, history)
         /\ proc[p].pc # "idle" => writer = p /\ proc[p].anchor \in Anchor
<1>1. ProcInv(p, proc[p], canonical, indexes, writer, shown, history)
  BY DEF Shape, Procs
<1> QED BY <1>1 DEF Shape, Procs, ProcInv

LEMMA StartSystemJobStep ==
  ASSUME Shape, StartSystemJob
  PROVE  Shape'
<1> DEFINE a == proc["daemon"].anchor
           j == [job[a] EXCEPT !.state = "running", !.attempts = @ + 1]
           s == [proc["daemon"] EXCEPT !.pc = "rebuilding"]
<1>1. UNCHANGED <<now, canonical, indexes, writer, disk, ledger, bounds>>
  BY DEF StartSystemJob
<1>2. "daemon" \in Process /\ proc["daemon"].pc = "claimed"
  BY DEF StartSystemJob, Process
<1>3. /\ proc \in [Process -> ProcessRecord] /\ proc["daemon"] \in ProcessRecord
      /\ ProcInv("daemon", proc["daemon"], canonical, indexes, writer, shown,
                 history)
      /\ writer = "daemon" /\ a \in Anchor
  BY <1>2, ProcAt
<1>4. job \in [Anchor -> JobRecord] /\ job[a] \in JobRecord /\ JobOK(job[a])
  BY <1>3, JobAt DEF Shape, JobsInv
<1>5. job[a].state = "claimed"
  BY <1>2 DEF Shape, DaemonInv
<1>6. job' = [job EXCEPT ![a] = j] /\ proc' = [proc EXCEPT !["daemon"] = s]
  <2>1. /\ job' = [job EXCEPT ![a].state = "running", ![a].attempts = @ + 1]
        /\ proc' = [proc EXCEPT !["daemon"].pc = "rebuilding"]
    BY DEF StartSystemJob
  <2> HIDE DEF a
  <2> QED BY <1>3, <1>4, <2>1
<1>7. JobOK(j) /\ j.state = "running"
  <2>1. /\ job[a].attempts \in 0 .. MaxAttempts /\ job[a].attempts < MaxAttempts
        /\ job[a].lease \in {"none", "live", "stale"} /\ job[a].lease # "none"
    BY <1>4, <1>5, JobFields
  <2>2. job[a].attempts + 1 \in 0 .. MaxAttempts
    BY <2>1, Constants
  <2> HIDE DEF a
  <2>3. /\ j \in JobRecord /\ j.state = "running" /\ j.lease = job[a].lease
        /\ j.attempts = job[a].attempts + 1
    BY <1>4, <2>2 DEF JobRecord
  <2> HIDE DEF j
  <2> QED BY <2>1, <2>3 DEF JobOK
<1>8. ProcInv("daemon", s, canonical', indexes', writer', shown', history')
      /\ s.pc = "rebuilding"
  <2>1. /\ s \in ProcessRecord /\ s.pc = "rebuilding" /\ s.anchor = a
        /\ s.total = proc["daemon"].total /\ s.rows = proc["daemon"].rows
        /\ s.kind = proc["daemon"].kind /\ s.after = proc["daemon"].after
        /\ s.next = proc["daemon"].next
    BY <1>3 DEF ProcessRecord, Publishing
  <2> HIDE DEF s, a
  <2> QED BY <1>1, <1>2, <1>3, <2>1 DEF ProcInv
<1> HIDE DEF s, j, a
<1>9. UNCHANGED <<audited, outputs, shown, history>>
  BY <1>1 DEF ledger, disk
<1>10. JobsInv'
  BY <1>3, <1>6, <1>7, <1>9, JobStep
<1>11. Procs'
  BY <1>1, <1>2, <1>3, <1>6, <1>8, ProcessStep
<1>12. DaemonInv'
  BY <1>2, <1>6, <1>8, <1>9, DaemonStep
<1>13. World'
  BY <1>1 DEF Shape, World, bounds
<1>14. Records'
  BY <1>1, RecordsStay
<1> QED BY <1>10, <1>11, <1>12, <1>13, <1>14 DEF Shape

LEMMA PublishCommandStep ==
  ASSUME Shape, NEW a \in Anchor, NEW rules \in {{}, Rule}, PublishCommand(a, rules)
  PROVE  Shape'
<1> DEFINE s == [Idle EXCEPT !.pc = "rebuilding", !.anchor = a, !.rules = rules]
<1>1. UNCHANGED <<now, canonical, indexes, job, disk, ledger, demand, faults>>
  BY DEF PublishCommand
<1>2. /\ writer = None /\ writer' = "operator"
      /\ proc' = [proc EXCEPT !["operator"] = s]
      /\ commands < MaxCommands /\ commands' = commands + 1
  BY DEF PublishCommand
<1>3. ProcInv("operator", s, canonical', indexes', writer', shown', history')
      /\ s.pc = "rebuilding"
  <2>1. s \in ProcessRecord
    BY IdleIsTyped DEF ProcessRecord, Publishing
  <2>2. /\ s.pc = "rebuilding" /\ s.anchor = a /\ s.total = 0 /\ s.rows = {}
        /\ s.kind = 1 /\ s.after = None /\ s.next = 1
    BY DEF Idle
  <2>3. 0 \in 0 .. MaxRows
    BY Constants
  <2> HIDE DEF s
  <2> QED BY <1>2, <2>1, <2>2, <2>3 DEF ProcInv
<1> HIDE DEF s
<1>4. UNCHANGED <<audited, outputs, shown, history>>
  BY <1>1 DEF ledger, disk
<1>5. "operator" \in Process
  BY DEF Process
<1>6. Procs'
  BY <1>1, <1>2, <1>3, <1>5, ProcessStep
<1>7. DaemonInv'
  BY <1>1, <1>2, <1>3, <1>4, <1>5, DaemonStep
<1>8. World'
  BY <1>1, <1>2, Constants DEF Shape, World, Process
<1>9. Records'
  BY <1>1, RecordsStay
<1>10. JobsInv'
  BY <1>1, <1>4, JobsStay
<1> QED BY <1>6, <1>7, <1>8, <1>9, <1>10 DEF Shape

(* A publisher ends, in whatever way.                                      *)
LEMMA LeaveStep ==
  ASSUME Shape, NEW p \in Process, proc[p].pc # "idle",
         proc' = [proc EXCEPT ![p] = Idle], writer' = None,
         p = "daemon" \/ job' = job, JobsInv',
         UNCHANGED <<now, canonical, indexes, disk, ledger, demand, commands>>,
         faults' \in 0 .. MaxFaults
  PROVE  Shape'
<1>1. writer' # p
  BY Constants
<1>2. ProcInv(p, Idle, canonical', indexes', writer', shown', history')
  BY <1>1, IdleIsSound
<1>3. Procs'
  BY <1>2, ProcessStep
<1>4. Idle.pc = "idle"
  BY DEF Idle
<1>5. audited \subseteq audited'
  BY DEF ledger
<1>6. DaemonInv'
  BY <1>4, <1>5, DaemonStep
<1>7. World'
  BY DEF Shape, World
<1>8. Records'
  BY RecordsStay
<1> QED BY <1>3, <1>6, <1>7, <1>8 DEF Shape

(* The daemon closes its attempt with a status.                            *)
LEMMA CloseJob ==
  ASSUME Shape, proc["daemon"].pc # "idle", NEW status, NEW a,
         a = proc["daemon"].anchor,
         job' = [job EXCEPT ![a] = Finished(@, status)],
         UNCHANGED <<audited, outputs>>,
         status = "succeeded" => proc["daemon"].pc = "finishing"
  PROVE  JobsInv'
<1> DEFINE j == Finished(job[a], status)
<1>1. "daemon" \in Process
  BY DEF Process
<1>2. a \in Anchor
  BY <1>1, ProcAt
<1>3. JobOK(job[a]) /\ (job[a].state = "succeeded" => HasLineage(a, audited, outputs))
  BY <1>2, JobAt
<1>4. JobOK(j) /\ (j.state = "succeeded" =>
                     job[a].state = "succeeded" \/ status = "succeeded")
  BY <1>3, FinishedIsSound
<1>5. status = "succeeded" => HasLineage(a, audited, outputs)
  <2>1. SUFFICES ASSUME status = "succeeded" PROVE HasLineage(a, audited, outputs)
    OBVIOUS
  <2>2. PICK r \in audited : r.delivery.anchor = a
    BY <2>1 DEF Shape, DaemonInv
  <2>3. \A x \in ArtifactSet(r.delivery) : Output(r.delivery, x) \in outputs
    BY DEF Shape, Records, RecordsAreWhole
  <2> QED BY <2>2, <2>3 DEF HasLineage
<1>6. job' = [job EXCEPT ![a] = j]
  BY DEF Shape, JobsInv
<1> HIDE DEF j
<1> QED BY <1>2, <1>3, <1>4, <1>5, <1>6, JobStep

LEMMA FinishSystemJobStep ==
  ASSUME Shape, FinishSystemJob
  PROVE  Shape'
<1>1. UNCHANGED <<now, canonical, indexes, disk, ledger, bounds>>
  BY DEF FinishSystemJob
<1>2. /\ "daemon" \in Process /\ proc["daemon"].pc = "finishing"
      /\ proc' = [proc EXCEPT !["daemon"] = Idle] /\ writer' = None
  BY DEF FinishSystemJob, Process
<1>3. PICK a : a = proc["daemon"].anchor
  OBVIOUS
<1>4. job' = [job EXCEPT ![a] = Finished(@, "succeeded")]
  BY <1>3 DEF FinishSystemJob, StatusOf
<1>5. UNCHANGED <<audited, outputs>>
  BY <1>1 DEF ledger
<1>6. JobsInv'
  BY <1>2, <1>3, <1>4, <1>5, CloseJob
<1>7. UNCHANGED <<now, canonical, indexes, disk, ledger, demand, commands>>
      /\ faults' \in 0 .. MaxFaults
  BY <1>1 DEF Shape, World, bounds
<1> QED BY <1>2, <1>6, <1>7, LeaveStep

LEMMA RaiseStep ==
  ASSUME Shape, NEW p \in Process, proc[p].pc \in Publishing, Raise(p),
         faults' \in 0 .. MaxFaults
  PROVE  Shape'
<1>1. UNCHANGED <<now, canonical, indexes, disk, ledger, demand, commands>>
  BY DEF Raise
<1>2. proc[p].pc # "idle" /\ StatusOf(proc[p].pc) = "failed"
  BY DEF Publishing, StatusOf
<1>3. writer = p
  BY <1>2, ProcAt
<1>4. proc' = [proc EXCEPT ![p] = Idle] /\ writer' = None
  BY <1>3 DEF Raise
<1>5. audited \subseteq audited' /\ outputs \subseteq outputs'
      /\ UNCHANGED <<audited, outputs>>
  BY <1>1 DEF ledger
<1>6. (p = "daemon" \/ job' = job) /\ JobsInv'
  <2>1. CASE p = "daemon"
    <3>1. PICK a : a = proc["daemon"].anchor
      OBVIOUS
    <3>2. job' = [job EXCEPT ![a] = Finished(@, "failed")]
      BY <1>2, <2>1, <3>1 DEF Raise
    <3>3. proc["daemon"].pc # "idle"
      BY <1>2, <2>1
    <3> QED BY <1>5, <2>1, <3>1, <3>2, <3>3, CloseJob
  <2>2. CASE p # "daemon"
    <3>1. job' = job
      BY <2>2 DEF Raise
    <3> QED BY <1>5, <3>1, JobsStay
  <2> QED BY <2>1, <2>2
<1> QED BY <1>1, <1>2, <1>4, <1>6, LeaveStep

LEMMA TooManyRowsStep ==
  ASSUME Shape, NEW p \in Process, TooManyRows(p)
  PROVE  Shape'
<1>1. proc[p].pc \in Publishing /\ Raise(p)
  BY DEF TooManyRows, Publishing
<1>2. faults' \in 0 .. MaxFaults
  BY DEF TooManyRows, Shape, World
<1> QED BY <1>1, <1>2, RaiseStep

LEMMA FailStep ==
  ASSUME Shape, NEW p \in Process, Fail(p)
  PROVE  Shape'
<1>1. proc[p].pc \in Publishing /\ Raise(p)
  BY DEF Fail
<1>2. faults' \in 0 .. MaxFaults
  BY Constants DEF Fail, Shape, World
<1> QED BY <1>1, <1>2, RaiseStep

LEMMA CrashStep ==
  ASSUME Shape, NEW p \in Process, Crash(p)
  PROVE  Shape'
<1>1. UNCHANGED <<now, canonical, indexes, job, disk, ledger, demand, commands>>
  BY DEF Crash
<1>2. proc[p].pc # "idle" /\ proc' = [proc EXCEPT ![p] = Idle]
  BY DEF Crash
<1>3. writer = p
  BY <1>2, ProcAt
<1>4. writer' = None
  BY <1>3 DEF Crash
<1>5. faults' \in 0 .. MaxFaults
  BY Constants DEF Crash, Shape, World
<1>6. JobsInv'
  BY <1>1, JobsStay DEF ledger
<1> QED BY <1>1, <1>2, <1>4, <1>5, <1>6, LeaveStep

-----------------------------------------------------------------------------
(* The steps of a publication.                                             *)

LEMMA CountsAreTyped ==
  ASSUME NEW rows, IsFiniteSet(rows)
  PROVE  Counts(rows) \in [1 .. Len(Kinds) -> Nat]
<1>1. ASSUME NEW kind PROVE Cardinality(OfKind(rows, kind)) \in Nat
  BY FS_Subset, FS_CardinalityType DEF OfKind
<1> QED BY <1>1 DEF Counts

LEMMA RebuildStep ==
  ASSUME Shape, NEW p \in Process, Rebuild(p)
  PROVE  Shape'
<1> DEFINE r == proc[p]
           s == [r EXCEPT !.pc = "loading", !.counts = Counts(Latest(canonical))]
<1>1. UNCHANGED <<now, canonical, job, disk, ledger, bounds>>
  BY DEF Rebuild
<1>2. /\ r.pc = "rebuilding" /\ indexes' = Latest(canonical) /\ writer' = p
  BY DEF Rebuild, Nested
<1>3. /\ proc \in [Process -> ProcessRecord] /\ r \in ProcessRecord
      /\ ProcInv(p, r, canonical, indexes, writer, shown, history)
  BY ProcAt
<1>4. proc' = [proc EXCEPT ![p] = s]
  BY <1>3 DEF Rebuild
<1>5. canonical \subseteq Revision /\ Numbered(canonical)
  BY DEF Shape, World
<1>6. /\ OnePerKey(Latest(canonical)) /\ Latest(canonical) \subseteq canonical
      /\ IsFiniteSet(Latest(canonical))
  BY <1>5, LatestOnePerKey DEF OnePerKey
<1>7. Counts(Latest(canonical)) \in [1 .. Len(Kinds) -> Nat]
  BY <1>6, CountsAreTyped
<1>8. /\ s \in ProcessRecord /\ s.pc = "loading" /\ s.anchor = r.anchor
      /\ s.counts = Counts(Latest(canonical)) /\ s.kind = r.kind
      /\ s.after = r.after /\ s.total = r.total /\ s.rows = r.rows
      /\ s.next = r.next
  <2> HIDE DEF r
  <2> QED BY <1>3, <1>7 DEF ProcessRecord, Publishing
<1>9. /\ r.kind = 1 /\ r.after = None /\ r.rows = {} /\ r.next = 1
      /\ r.anchor \in Anchor /\ r.total \in 0 .. MaxRows
  BY <1>2, <1>3 DEF ProcInv
<1> HIDE DEF r, s
<1>10. Paged(s, canonical)
  <2>1. s.kind = 1 /\ s.after = None /\ s.rows = {}
    BY <1>8, <1>9
  <2>2. KindsBefore(AsOfIn(canonical, s.anchor), s.kind) = {}
    BY <2>1 DEF KindsBefore
  <2>3. UpTo(OfKind(AsOfIn(canonical, s.anchor), Kinds[s.kind]), s.after) = {}
    BY <2>1 DEF UpTo
  <2>4. 1 <= Len(Kinds)
    BY DEF Kinds
  <2> QED BY <2>1, <2>2, <2>3, <2>4 DEF Paged
<1>11. ProcInv(p, s, canonical', indexes', writer', shown', history')
  BY <1>1, <1>2, <1>8, <1>9, <1>10 DEF ProcInv
<1>12. proc[p].pc # "idle"
  BY <1>2 DEF r
<1>13. Procs'
  BY <1>1, <1>2, <1>4, <1>11, <1>12, ProcessStep
<1>14. UNCHANGED <<audited, outputs>>
  BY <1>1 DEF ledger
<1>15. DaemonInv'
  BY <1>1, <1>4, <1>8, <1>14, DaemonStep
<1>16. World'
  BY <1>1, <1>2, <1>6 DEF Shape, World, bounds
<1>17. Records'
  BY <1>1, RecordsStay
<1>18. JobsInv'
  BY <1>1, <1>14, JobsStay
<1> QED BY <1>13, <1>15, <1>16, <1>17, <1>18 DEF Shape

(* Every row is of one of the kinds that are loaded.                       *)
LEMMA AllKinds ==
  ASSUME NEW all, all \subseteq Revision
  PROVE  KindsBefore(all, Len(Kinds) + 1) = all
<1>1. ASSUME NEW r \in all
      PROVE  \E i \in 1 .. Len(Kinds) : KindOf[r.key] = Kinds[i]
  BY RevisionFields, DeliveryAssumption
<1>2. Len(Kinds) + 1 - 1 = Len(Kinds)
  BY DEF Kinds
<1> QED BY <1>1, <1>2 DEF KindsBefore

(* What one page adds: all rows up to a new boundary, or the rest of the   *)
(* kind.                                                                   *)
LEMMA PageAdds ==
  ASSUME NEW c, c \subseteq Revision, Numbered(c), NEW r \in ProcessRecord,
         Paged(r, c),
         NEW all, all = AsOfIn(c, r.anchor),
         NEW rows, rows = OfKind(all, Kinds[r.kind]),
         NEW page, page = PageFrom(rows, r.after),
         NEW last, last = LastOf(First(PageSize, page))
  PROVE  /\ First(PageSize, page) \subseteq rows
         /\ Cardinality(page) > PageSize =>
               /\ last \in rows
               /\ r.rows \cup First(PageSize, page)
                     = KindsBefore(all, r.kind) \cup UpTo(rows, last)
         /\ ~(Cardinality(page) > PageSize) =>
               r.rows \cup First(PageSize, page) = KindsBefore(all, r.kind + 1)
<1>1. OnePerKey(rows) /\ all \subseteq c
  BY AsOfOnePerKey
<1>2. OnePerKey(page) /\ page \subseteq rows /\ IsFiniteSet(page)
  BY <1>1, FS_Subset DEF OnePerKey, PageFrom
<1>3. PageSize \in Nat \ {0} /\ Cardinality(page) \in Nat
  BY <1>2, Constants, FS_CardinalityType
<1>4. First(PageSize, page) \subseteq page
  BY DEF First
<1>5. r.rows = KindsBefore(all, r.kind) \cup UpTo(rows, r.after)
  BY DEF Paged
<1>6. None \notin rows
  BY <1>1, Constants DEF OnePerKey
<1>7. r.after \in rows \cup {None}
  BY DEF Paged
<1>8. ASSUME Cardinality(page) > PageSize
      PROVE  /\ last \in rows
             /\ r.rows \cup First(PageSize, page)
                   = KindsBefore(all, r.kind) \cup UpTo(rows, last)
  <2>1. page # {}
    <3>1. SUFFICES ASSUME page = {} PROVE FALSE
      OBVIOUS
    <3>2. Cardinality(page) = 0
      BY <3>1, FS_EmptySet
    <3> QED BY <1>3, <1>8, <3>2
  <2>2. \E q \in First(PageSize, page) :
           \A x \in First(PageSize, page) : x = q \/ PageOrder(x, q)
    BY <1>2, <1>3, <2>1, LastExists
  <2>3. /\ last \in First(PageSize, page)
        /\ \A x \in First(PageSize, page) : x = last \/ PageOrder(x, last)
    BY <2>2 DEF LastOf
  <2>5. last \in rows
    BY <1>2, <1>4, <2>3
  <2>6. UpTo(rows, last) = UpTo(rows, r.after) \cup First(PageSize, page)
    <3>1. IsLast(last, First(PageSize, page)) /\ last \in First(PageSize, page)
      BY <2>3 DEF IsLast
    <3>2. OnePerKey(rows) /\ PageSize \in Nat \ {0}
      BY <1>1, <1>3
    <3>3. \A l \in First(PageSize, page) : IsLast(l, First(PageSize, page)) =>
             UpTo(rows, l) = UpTo(rows, r.after) \cup First(PageSize, page)
      BY <1>6, <1>7, <3>2, BoundaryMoves
    <3> QED BY <3>1, <3>3, Zenon
  <2> QED BY <1>5, <2>5, <2>6
<1>9. ASSUME ~(Cardinality(page) > PageSize)
      PROVE  r.rows \cup First(PageSize, page) = KindsBefore(all, r.kind + 1)
  <2>1. First(PageSize, page) = page
    BY <1>2, <1>3, <1>9, FirstIsAll
  <2>2. UpTo(rows, r.after) \cup page = rows
    BY DEF UpTo, PageFrom
  <2>3. r.kind \in Nat \ {0}
    BY ProcessFields DEF Kinds
  <2>4. KindsBefore(all, r.kind + 1) = KindsBefore(all, r.kind) \cup rows
    <3>1. \A i : i \in 1 .. (r.kind + 1) - 1 <=> (i \in 1 .. r.kind - 1 \/ i = r.kind)
      BY <2>3
    <3> QED BY <3>1 DEF KindsBefore, OfKind
  <2> QED BY <1>5, <2>1, <2>2, <2>4
<1> QED BY <1>2, <1>4, <1>8, <1>9

(* The record of a publisher that has read a page.                         *)
Loaded(r, page, total, after, kind, pc) ==
    [r EXCEPT !.rows = r.rows \cup page, !.total = total, !.after = after,
              !.kind = kind, !.pc = pc]

LEMMA LoadedFields ==
  ASSUME NEW r \in ProcessRecord, NEW page, NEW total, NEW after, NEW kind, NEW pc
  PROVE  LET s == Loaded(r, page, total, after, kind, pc)
         IN  /\ s.pc = pc /\ s.anchor = r.anchor /\ s.counts = r.counts
             /\ s.rules = r.rules /\ s.kind = kind /\ s.after = after
             /\ s.total = total /\ s.rows = r.rows \cup page /\ s.next = r.next
BY DEF Loaded, ProcessRecord

LEMMA LoadedIsTyped ==
  ASSUME NEW r \in ProcessRecord, NEW page \in SUBSET Revision,
         NEW total \in Nat, NEW after \in Revision \cup {None},
         NEW kind \in 1 .. Len(Kinds) + 1, NEW pc \in {"loading", "rendering"}
  PROVE  Loaded(r, page, total, after, kind, pc) \in ProcessRecord
<1>1. pc \in {"idle", "claimed", "finishing"} \cup Publishing
  BY DEF Publishing
<1>2. r.rows \cup page \in SUBSET Revision
  BY ProcessFields
<1> QED BY <1>1, <1>2 DEF Loaded, ProcessRecord

LEMMA LoadPageStep ==
  ASSUME Shape, NEW p \in Process, LoadPage(p)
  PROVE  Shape'
<1>1. UNCHANGED <<now, canonical, indexes, job, writer, disk, ledger, bounds>>
  BY DEF LoadPage
<1>2. PICK r : r = proc[p]
  OBVIOUS
<1>3. /\ proc \in [Process -> ProcessRecord] /\ r \in ProcessRecord
      /\ ProcInv(p, r, canonical, indexes, writer, shown, history)
  BY <1>2, ProcAt
<1>4. PICK all : all = AsOfIn(canonical, r.anchor)
  OBVIOUS
<1>5. PICK rows : rows = OfKind(all, Kinds[r.kind])
  OBVIOUS
<1>6. PICK page : page = PageFrom(rows, r.after)
  OBVIOUS
<1>7. PICK last : last = LastOf(First(PageSize, page))
  OBVIOUS
<1>8. PICK total : total = Total(p)
  OBVIOUS
<1> DEFINE more  == Cardinality(page) > PageSize
           after == IF more THEN last ELSE None
           kind  == IF more THEN r.kind ELSE r.kind + 1
           pc    == IF ~more /\ r.kind = Len(Kinds) THEN "rendering" ELSE "loading"
           s     == Loaded(r, First(PageSize, page), total, after, kind, pc)
<1>9. /\ r.pc = "loading" /\ r.kind <= Len(Kinds) /\ total <= MaxRows
  BY <1>2, <1>8 DEF LoadPage
<1>10. page = After(Kinds[r.kind], r.anchor, r.after)
  BY <1>4, <1>5, <1>6 DEF After, AsOf, AsOfIn, PageFrom, Beyond
<1>11. proc' = [proc EXCEPT ![p] = s]
  <2>1. After(Kinds[proc[p].kind], proc[p].anchor, proc[p].after) = page
    BY <1>2, <1>10
  <2> QED BY <1>2, <1>7, <1>8, <2>1 DEF LoadPage, Loaded
<1>12. canonical \subseteq Revision /\ Numbered(canonical)
  BY DEF Shape, World
<1>13. Paged(r, canonical) /\ r.anchor \in Anchor /\ r.rows \subseteq canonical
       /\ r.next = 1 /\ writer = p
       /\ indexes = Latest(canonical) /\ r.counts = Counts(Latest(canonical))
  BY <1>3, <1>9 DEF ProcInv
<1>14. /\ First(PageSize, page) \subseteq rows
       /\ more =>
             /\ last \in rows
             /\ r.rows \cup First(PageSize, page)
                   = KindsBefore(all, r.kind) \cup UpTo(rows, last)
       /\ ~more =>
             r.rows \cup First(PageSize, page) = KindsBefore(all, r.kind + 1)
  BY <1>3, <1>4, <1>5, <1>6, <1>7, <1>12, <1>13, PageAdds
<1>15. OnePerKey(rows) /\ rows \subseteq all /\ all \subseteq canonical
  <2>1. OnePerKey(rows) /\ all \subseteq canonical
    BY <1>4, <1>5, <1>12, AsOfOnePerKey
  <2>2. rows \subseteq all
    BY <1>5 DEF OfKind
  <2> QED BY <2>1, <2>2
<1>16. total \in Nat
  <2>1. Cardinality(rows) \in Nat
    BY <1>15, FS_CardinalityType DEF OnePerKey
  <2>2. r.total \in Nat
    BY <1>3, ProcessFields
  <2>3. total = IF r.after = None THEN r.total + Cardinality(rows) ELSE r.total
    BY <1>2, <1>4, <1>5, <1>8 DEF Total, AsOf, AsOfIn
  <2> QED BY <2>1, <2>2, <2>3
<1>17. r.kind \in 1 .. Len(Kinds) + 1 /\ Len(Kinds) = 4
  BY <1>3, ProcessFields DEF Kinds
<1>18. kind \in 1 .. Len(Kinds) + 1 /\ pc \in {"loading", "rendering"}
  <2> HIDE DEF more
  <2> QED BY <1>9, <1>17
<1>19. after \in Revision \cup {None}
  BY <1>12, <1>14, <1>15
<1>20. /\ s \in ProcessRecord
       /\ s.pc = pc /\ s.anchor = r.anchor /\ s.counts = r.counts
       /\ s.kind = kind /\ s.after = after /\ s.total = total
       /\ s.rows = r.rows \cup First(PageSize, page) /\ s.next = r.next
  <2>1. First(PageSize, page) \subseteq Revision
    BY <1>12, <1>14, <1>15
  <2>2. s = Loaded(r, First(PageSize, page), total, after, kind, pc)
    OBVIOUS
  <2>3. r \in ProcessRecord
    BY <1>3
  <2> HIDE DEF more, after, kind, pc, s
  <2>4. First(PageSize, page) \in SUBSET Revision
    BY <2>1
  <2>5. s \in ProcessRecord
    <3>1. Loaded(r, First(PageSize, page), total, after, kind, pc) \in ProcessRecord
      BY <1>16, <1>18, <1>19, <2>3, <2>4, LoadedIsTyped, Zenon
    <3> QED BY <2>2, <3>1
  <2> QED BY <2>2, <2>3, <2>5, LoadedFields
<1> HIDE DEF s
<1>21. Paged(s, canonical) \/ ~(pc = "loading")
  <2>1. CASE more
    <3>1. s.after = last /\ s.kind = r.kind
      BY <1>20, <2>1
    <3>2. s.rows = KindsBefore(all, s.kind) \cup UpTo(rows, s.after)
      BY <1>14, <1>20, <2>1, <3>1
    <3>3. s.after \in rows
      BY <1>14, <2>1, <3>1
    <3> HIDE DEF more
    <3> QED BY <1>4, <1>5, <1>9, <1>20, <3>1, <3>2, <3>3 DEF Paged
  <2>2. CASE ~more /\ r.kind # Len(Kinds)
    <3>1. s.after = None /\ s.kind = r.kind + 1
      BY <1>20, <2>2
    <3>2. s.rows = KindsBefore(all, s.kind)
      BY <1>14, <1>20, <2>2, <3>1
    <3>3. s.kind <= Len(Kinds)
      BY <1>9, <1>17, <2>2, <3>1
    <3>4. UpTo(OfKind(all, Kinds[s.kind]), s.after) = {}
      BY <3>1 DEF UpTo
    <3> HIDE DEF more
    <3> QED BY <1>4, <1>20, <3>1, <3>2, <3>3, <3>4 DEF Paged
  <2>3. CASE ~more /\ r.kind = Len(Kinds)
    BY <2>3
  <2> QED BY <2>1, <2>2, <2>3
<1>22. pc = "rendering" => s.rows = all
  <2>1. SUFFICES ASSUME ~more, r.kind = Len(Kinds) PROVE s.rows = all
    OBVIOUS
  <2>2. s.rows = KindsBefore(all, Len(Kinds) + 1)
    BY <1>14, <1>20, <2>1
  <2>3. all \subseteq Revision
    BY <1>12, <1>15
  <2> QED BY <2>2, <2>3, AllKinds
<1>23. s.rows \subseteq canonical
  BY <1>13, <1>14, <1>15, <1>20
<1>24. total \in 0 .. MaxRows
  BY <1>9, <1>16, Constants
<1> HIDE DEF pc, kind, after, more
<1>25. ProcInv(p, s, canonical', indexes', writer', shown', history')
  BY <1>1, <1>4, <1>13, <1>18, <1>20, <1>21, <1>22, <1>23, <1>24 DEF ProcInv
<1>26. proc[p].pc # "idle" /\ s.pc \notin {"claimed", "finishing"}
  BY <1>2, <1>9, <1>18, <1>20
<1>27. Procs'
  BY <1>1, <1>11, <1>13, <1>25, <1>26, ProcessStep
<1>28. UNCHANGED <<audited, outputs>>
  BY <1>1 DEF ledger
<1>29. DaemonInv'
  BY <1>1, <1>11, <1>26, <1>28, DaemonStep
<1>30. World'
  BY <1>1 DEF Shape, World, bounds
<1>31. Records'
  BY <1>1, RecordsStay
<1>32. JobsInv'
  BY <1>1, <1>28, JobsStay
<1> QED BY <1>27, <1>29, <1>30, <1>31, <1>32 DEF Shape

(* A publisher's record with another position.                             *)
At(r, pc, next) == [r EXCEPT !.pc = pc, !.next = next]

LEMMA AtFields ==
  ASSUME NEW r \in ProcessRecord, NEW pc \in Publishing \cup {"finishing"},
         NEW next \in 1 .. 5
  PROVE  LET s == At(r, pc, next)
         IN  /\ s \in ProcessRecord
             /\ s.pc = pc /\ s.next = next /\ s.anchor = r.anchor
             /\ s.counts = r.counts /\ s.rules = r.rules /\ s.kind = r.kind
             /\ s.after = r.after /\ s.total = r.total /\ s.rows = r.rows
             /\ DeliveryFrom(s) = DeliveryFrom(r)
<1>1. pc \in {"idle", "claimed", "finishing"} \cup Publishing
  OBVIOUS
<1>2. At(r, pc, next) \in ProcessRecord
  BY <1>1 DEF At, ProcessRecord
<1>3. LET s == At(r, pc, next)
      IN  /\ s.pc = pc /\ s.next = next /\ s.anchor = r.anchor
          /\ s.counts = r.counts /\ s.rules = r.rules /\ s.kind = r.kind
          /\ s.after = r.after /\ s.total = r.total /\ s.rows = r.rows
  BY DEF At, ProcessRecord
<1> QED BY <1>2, <1>3 DEF DeliveryFrom

LEMMA RenderStep ==
  ASSUME Shape, NEW p \in Process, Render(p)
  PROVE  Shape'
<1>1. UNCHANGED <<now, canonical, indexes, job, writer, files, manifests, history,
                  ledger, bounds>>
  BY DEF Render
<1>2. PICK r : r = proc[p]
  OBVIOUS
<1>3. /\ proc \in [Process -> ProcessRecord] /\ r \in ProcessRecord
      /\ ProcInv(p, r, canonical, indexes, writer, shown, history)
  BY <1>2, ProcAt
<1>4. r.pc = "rendering" /\ shown' = None
  BY <1>2 DEF Render
<1>5. r.next = 1 /\ writer = p
  BY <1>3, <1>4 DEF ProcInv
<1>6. PICK s : s = At(r, "writing", 1)
  OBVIOUS
<1>7. proc' = [proc EXCEPT ![p] = s]
  <2>1. s = [r EXCEPT !.pc = "writing"]
    BY <1>3, <1>5, <1>6 DEF At, ProcessRecord
  <2>2. proc' = [proc EXCEPT ![p] = [proc[p] EXCEPT !.pc = "writing"]]
    BY DEF Render
  <2> QED BY <1>2, <2>1, <2>2
<1>8. /\ s \in ProcessRecord /\ s.pc = "writing" /\ s.next = 1
      /\ s.anchor = r.anchor /\ s.counts = r.counts /\ s.total = r.total
      /\ s.rows = r.rows
  <2>1. "writing" \in Publishing \cup {"finishing"} /\ 1 \in 1 .. 5
    BY DEF Publishing
  <2> QED BY <1>3, <1>6, <2>1, AtFields, ZenonT(30)
<1>9. ProcInv(p, s, canonical', indexes', writer', shown', history')
  <2>1. \A i \in 1 .. 4 : ~(i < 1)
    OBVIOUS
  <2> QED BY <1>1, <1>3, <1>4, <1>5, <1>8, <2>1 DEF ProcInv
<1>10. proc[p].pc # "idle" /\ s.pc \notin {"claimed", "finishing"}
  BY <1>2, <1>4, <1>8
<1>11. Procs'
  BY <1>1, <1>5, <1>7, <1>9, <1>10, ProcessStep
<1>12. UNCHANGED <<outputs, audited, alerts, events>>
  BY <1>1 DEF ledger
<1>13. DaemonInv'
  BY <1>1, <1>7, <1>10, <1>12, DaemonStep
<1>14. World'
  BY <1>1 DEF Shape, World, bounds
<1>15. JobsInv'
  BY <1>1, <1>12, JobsStay
<1>16. Records'
  <2>1. Records
    BY DEF Shape
  <2>2. ManifestsComeLast' /\ RecordsAreWhole'
    BY <1>1, <1>12, <2>1 DEF Records, ManifestsComeLast, RecordsAreWhole
  <2>3. OneEventEach(events', audited') /\ AlertsAreThose(alerts', audited')
    BY <1>12, <2>1 DEF Records
  <2>4. ShownIsWhole'
    BY <1>4 DEF ShownIsWhole
  <2> QED BY <1>1, <1>4, <1>12, <2>1, <2>2, <2>3, <2>4 DEF Records
<1> QED BY <1>11, <1>13, <1>14, <1>15, <1>16 DEF Shape

(* The artifact that a type names.                                         *)
LEMMA ChosenArtifact ==
  ASSUME NEW d, NEW i \in 1 .. 4, NEW a,
         a = CHOOSE x \in ArtifactSet(d) : x.type = WriteOrder[i]
  PROVE  a = Artifacts(d)[i]
<1>1. \A j \in 1 .. 4 : Artifacts(d)[j].type = WriteOrder[j]
  BY DEF Artifacts, WriteOrder
<1>2. \A j, k \in 1 .. 4 : WriteOrder[j] = WriteOrder[k] => j = k
  BY DEF WriteOrder
<1>3. \A x \in ArtifactSet(d) : x.type = WriteOrder[i] => x = Artifacts(d)[i]
  BY <1>1, <1>2 DEF ArtifactSet
<1>4. Artifacts(d)[i] \in ArtifactSet(d)
  BY DEF ArtifactSet
<1> QED BY <1>1, <1>3, <1>4

(* The four artifacts are in history once all of them were written.        *)
LEMMA AllWritten ==
  ASSUME NEW d, NEW h, \A i \in 1 .. 4 : Artifacts(d)[i] \in h
  PROVE  ArtifactSet(d) \subseteq h
BY DEF ArtifactSet

(* A file replaces the old one, and only that one.                         *)
LEMMA PutFacts ==
  ASSUME NEW f, NEW x, NEW content
  PROVE  /\ DOMAIN Put(f, x, content) = DOMAIN f \cup {x}
         /\ Put(f, x, content)[x] = content
BY DEF Put

(* The delivery of a publisher that has an anchor.                         *)
LEMMA DeliveryIsTyped ==
  ASSUME NEW r \in ProcessRecord, r.anchor \in Anchor
  PROVE  DeliveryFrom(r) \in Delivery
BY ProcessFields DEF DeliveryFrom, Delivery

LEMMA WriteFileStep ==
  ASSUME Shape, NEW p \in Process, WriteFile(p)
  PROVE  Shape'
<1>1. UNCHANGED <<now, canonical, indexes, job, writer, shown, ledger, bounds>>
  BY DEF WriteFile
<1>2. PICK r : r = proc[p]
  OBVIOUS
<1>3. /\ proc \in [Process -> ProcessRecord] /\ r \in ProcessRecord
      /\ ProcInv(p, r, canonical, indexes, writer, shown, history)
  BY <1>2, ProcAt
<1>4. r.pc = "writing" /\ proc[p].pc # "idle"
  BY <1>2 DEF WriteFile
<1>5. /\ shown = None /\ writer = p /\ r.anchor \in Anchor
      /\ \A i \in 1 .. 4 : i < r.next => Artifacts(DeliveryFrom(r))[i] \in history
  BY <1>3, <1>4 DEF ProcInv
<1>6. r.next \in 1 .. 5 /\ Len(WriteOrder) = 5
  BY <1>3, ProcessFields DEF WriteOrder
<1>7. PICK d : d = DeliveryFrom(r)
  OBVIOUS
<1>8. d = DeliveryOf(p) /\ d \in Delivery
  BY <1>2, <1>3, <1>5, <1>7, DeliveryIsTyped DEF DeliveryOf, DeliveryFrom
<1>9. UNCHANGED <<outputs, audited, alerts, events>>
  BY <1>1 DEF ledger
<1>10. Records
  BY DEF Shape
<1>11. RecordsAreWhole' /\ ShownIsWhole'
  BY <1>1, <1>5, <1>9, <1>10 DEF Records, RecordsAreWhole, ShownIsWhole
<1>12. OneEventEach(events', audited') /\ AlertsAreThose(alerts', audited')
  BY <1>9, <1>10 DEF Records
<1>13. World'
  BY <1>1 DEF Shape, World, bounds
<1>14. JobsInv'
  BY <1>1, <1>9, JobsStay
<1>15. /\ DOMAIN manifests \subseteq DOMAIN manifests'
       /\ history \subseteq history'
       /\ \A x \in DOMAIN manifests' : x \in Delivery
       /\ \A x \in DOMAIN manifests' : ArtifactSet(x) \subseteq history'
       /\ \E s : /\ proc' = [proc EXCEPT ![p] = s]
                 /\ s.pc \notin {"claimed", "finishing"}
                 /\ ProcInv(p, s, canonical, indexes, writer, shown, history')
  <2>1. CASE r.next = 5
    <3>1. WriteOrder[proc[p].next] = "audit"
      BY <1>2, <2>1 DEF WriteOrder
    <3>2. /\ manifests' = Put(manifests, d, proc[p].counts) /\ history' = history
      BY <1>8, <3>1 DEF WriteFile, WriteManifest
    <3>3. DOMAIN manifests' = DOMAIN manifests \cup {d}
      BY <3>2, PutFacts
    <3>4. ArtifactSet(d) \subseteq history
      BY <1>5, <1>7, <2>1, AllWritten
    <3>5. PICK s : s = At(r, "recording", 5)
      OBVIOUS
    <3>6. proc' = [proc EXCEPT ![p] = s]
      <4>1. s = [r EXCEPT !.pc = "recording"]
        BY <1>3, <2>1, <3>5 DEF At, ProcessRecord
      <4>2. proc' = [proc EXCEPT ![p] = [proc[p] EXCEPT !.pc = "recording"]]
        BY <1>2, <1>6, <2>1 DEF WriteFile
      <4> QED BY <1>2, <4>1, <4>2
    <3>7. /\ s \in ProcessRecord /\ s.pc = "recording"
          /\ s.anchor = r.anchor /\ s.counts = r.counts /\ s.total = r.total
          /\ s.rows = r.rows
      <4>1. "recording" \in Publishing \cup {"finishing"} /\ 5 \in 1 .. 5
        BY DEF Publishing
      <4> QED BY <1>3, <3>5, <4>1, AtFields, ZenonT(30)
    <3>8. ProcInv(p, s, canonical, indexes, writer, shown, history')
      BY <1>3, <1>4, <3>7 DEF ProcInv
    <3> QED BY <1>8, <1>10, <3>2, <3>3, <3>4, <3>6, <3>7, <3>8
            DEF Records, ManifestsComeLast
  <2>2. CASE r.next # 5
    <3>1. PICK n : n = r.next
      OBVIOUS
    <3>2. n \in 1 .. 4 /\ n + 1 \in 1 .. 5
      BY <1>6, <2>2, <3>1
    <3>3. WriteOrder[n] # "audit"
      BY <3>2 DEF WriteOrder
    <3>4. PICK a : a = CHOOSE x \in ArtifactSet(d) : x.type = WriteOrder[n]
      OBVIOUS
    <3>5. history' = history \cup {a} /\ manifests' = manifests
      BY <1>2, <1>8, <3>1, <3>3, <3>4 DEF WriteFile, WriteArtifact
    <3>6. a = Artifacts(d)[n]
      BY <3>2, <3>4, ChosenArtifact
    <3>7. PICK s : s = At(r, "writing", n + 1)
      OBVIOUS
    <3>8. proc' = [proc EXCEPT ![p] = s]
      <4>1. s = [r EXCEPT !.next = n + 1]
        BY <1>3, <1>4, <3>7 DEF At, ProcessRecord
      <4>2. proc' = [proc EXCEPT ![p] = [proc[p] EXCEPT !.next = n + 1]]
        BY <1>2, <1>3, <1>6, <2>2, <3>1 DEF WriteFile
      <4> QED BY <1>2, <4>1, <4>2
    <3>9. /\ s \in ProcessRecord /\ s.pc = "writing" /\ s.next = n + 1
          /\ s.anchor = r.anchor /\ s.counts = r.counts /\ s.total = r.total
          /\ s.rows = r.rows /\ DeliveryFrom(s) = d
      <4>1. "writing" \in Publishing \cup {"finishing"}
        BY DEF Publishing
      <4> QED BY <1>3, <1>7, <3>2, <3>7, <4>1, AtFields, ZenonT(30)
    <3>10. \A i \in 1 .. 4 : i < n + 1 => Artifacts(d)[i] \in history'
      <4>1. ASSUME NEW i \in 1 .. 4, i < n + 1 PROVE Artifacts(d)[i] \in history'
        <5>1. i < n \/ i = n
          BY <3>2, <4>1
        <5> QED BY <1>5, <1>7, <3>1, <3>5, <3>6, <5>1
      <4> QED BY <4>1
    <3>11. ProcInv(p, s, canonical, indexes, writer, shown, history')
      BY <1>3, <1>4, <3>9, <3>10 DEF ProcInv
    <3> QED BY <1>10, <3>5, <3>8, <3>9, <3>11 DEF Records, ManifestsComeLast
  <2> QED BY <2>1, <2>2
<1>16. ManifestsComeLast'
  BY <1>9, <1>10, <1>15 DEF Records, ManifestsComeLast
<1>17. Records'
  BY <1>1, <1>9, <1>10, <1>11, <1>12, <1>15, <1>16 DEF Records
<1>18. PICK s : /\ proc' = [proc EXCEPT ![p] = s]
                /\ s.pc \notin {"claimed", "finishing"}
                /\ ProcInv(p, s, canonical, indexes, writer, shown, history')
  BY <1>15
<1>19. ProcInv(p, s, canonical', indexes', writer', shown', history')
  BY <1>1, <1>18
<1>20. Procs'
  BY <1>1, <1>4, <1>5, <1>18, <1>19, ProcessStep
<1>21. DaemonInv'
  BY <1>1, <1>9, <1>18, DaemonStep
<1> QED BY <1>13, <1>14, <1>17, <1>20, <1>21 DEF Shape

(* A manifest row that is new brings the one event it is entitled to.      *)
LEMMA EventIsAdded ==
  ASSUME NEW ev \in Seq(Delivery), NEW aud, IsFiniteSet(aud),
         OneEventEach(ev, aud),
         \A r \in aud : \E i \in DOMAIN ev : ev[i] = r.delivery,
         NEW d \in Delivery, NEW row, row \notin aud, row.delivery = d
  PROVE  OneEventEach(Append(ev, d), aud \cup {row})
<1>1. PICK more : more = Append(ev, d)
  OBVIOUS
<1>2. PICK n : n = Len(ev)
  OBVIOUS
<1>3. /\ n \in Nat /\ DOMAIN ev = 1 .. n /\ DOMAIN more = 1 .. (n + 1)
      /\ more[n + 1] = d /\ \A i \in 1 .. n : more[i] = ev[i]
  <2>1. Len(ev) \in Nat /\ DOMAIN ev = 1 .. Len(ev)
    BY LenProperties
  <2>2. /\ Append(ev, d) \in Seq(Delivery) /\ Len(Append(ev, d)) = Len(ev) + 1
        /\ \A i \in 1 .. Len(ev) : Append(ev, d)[i] = ev[i]
        /\ Append(ev, d)[Len(ev) + 1] = d
    BY AppendProperties
  <2>3. DOMAIN Append(ev, d) = 1 .. Len(ev) + 1
    BY <2>2, LenProperties
  <2> QED BY <1>1, <1>2, <2>1, <2>2, <2>3
<1>0. SUFFICES OneEventEach(more, aud \cup {row})
  BY <1>1
<1>4. SUFFICES ASSUME NEW e \in {more[i] : i \in DOMAIN more}
               PROVE  Cardinality({i \in DOMAIN more : more[i] = e})
                        = Cardinality({r \in aud \cup {row} : r.delivery = e})
  BY Zenon DEF OneEventEach
<1> DEFINE I == {i \in DOMAIN ev : ev[i] = e}
           J == {i \in DOMAIN more : more[i] = e}
           R == {r \in aud : r.delivery = e}
           S == {r \in aud \cup {row} : r.delivery = e}
<1>5. IsFiniteSet(I) /\ IsFiniteSet(R)
  <2>1. IsFiniteSet(1 .. n)
    BY <1>3, FS_Interval
  <2> QED BY <1>3, <2>1, FS_Subset
<1>6. (\E i \in DOMAIN ev : ev[i] = e) => Cardinality(I) = Cardinality(R)
  BY ZenonT(60) DEF OneEventEach
<1>7. CASE e # d
  <2>1. I = J
    BY <1>3, <1>7
  <2>2. R = S
    BY <1>7
  <2>3. \E i \in DOMAIN ev : ev[i] = e
    BY <1>3, <1>7
  <2> QED BY <1>6, <2>1, <2>2, <2>3
<1>8. CASE e = d
  <2>1. J = I \cup {n + 1} /\ n + 1 \notin I
    BY <1>3, <1>8
  <2>2. S = R \cup {row} /\ row \notin R
    BY <1>8
  <2>3. Cardinality(I) = Cardinality(R)
    <3>1. CASE \E i \in DOMAIN ev : ev[i] = e
      BY <1>6, <3>1
    <3>2. CASE ~ \E i \in DOMAIN ev : ev[i] = e
      <4>1. I = {} /\ R = {}
        BY <3>2
      <4> QED BY <4>1
    <3> QED BY <3>1, <3>2
  <2>4. Cardinality(J) = Cardinality(I) + 1
    BY <1>5, <2>1, FS_AddElement
  <2>5. Cardinality(S) = Cardinality(R) + 1
    BY <1>5, <2>2, FS_AddElement
  <2> QED BY <2>3, <2>4, <2>5
<1> QED BY <1>7, <1>8

LEMMA AlertsAreAdded ==
  ASSUME NEW al, NEW aud, AlertsAreThose(al, aud), NEW row, NEW d,
         row.delivery = d
  PROVE  AlertsAreThose(al \cup AlertsOf(d), aud \cup {row})
BY DEF AlertsAreThose

LEMMA AlertsWereThose ==
  ASSUME NEW al, NEW aud, AlertsAreThose(al, aud), NEW row \in aud
  PROVE  AlertsOf(row.delivery) \subseteq al
BY DEF AlertsAreThose

(* What a record leaves behind, whoever makes it.                          *)
LEMMA RecordLedger ==
  ASSUME Shape, NEW p \in Process, Record(p),
         NEW d, d = DeliveryOf(p), d \in Delivery,
         NEW row, row = [delivery |-> d, counts |-> proc[p].counts]
  PROVE  Records' /\ audited' = audited \cup {row} /\ outputs \subseteq outputs'
<1>1. UNCHANGED <<files, manifests, history>>
  BY DEF Record
<1>2. PICK rows : rows = {Output(d, a) : a \in ArtifactSet(d)}
  OBVIOUS
<1>3. /\ outputs' = outputs \cup rows /\ audited' = audited \cup {row}
      /\ alerts' = alerts \cup AlertsOf(d) /\ events' = EventsAfter(d, rows, row)
      /\ shown' = d
  BY <1>2 DEF Record, RecordedAlerts
<1>4. /\ d \in DOMAIN manifests
      /\ \A a \in ArtifactSet(d) : files[a.path] = a.content
  BY DEF Record, Validated
<1>5. Records
  BY DEF Shape
<1>6. row.delivery = d
  OBVIOUS
<1>7. ManifestsComeLast'
  <2>1. ArtifactSet(d) \subseteq history
    BY <1>4, <1>5 DEF Records, ManifestsComeLast
  <2>2. ASSUME NEW o \in outputs'
        PROVE  o.delivery \in DOMAIN manifests' /\ o.artifact \in history'
    <3>1. CASE o \in outputs
      BY <1>1, <1>5, <3>1 DEF Records, ManifestsComeLast
    <3>2. CASE o \in rows
      <4>1. PICK a \in ArtifactSet(d) : o = Output(d, a)
        BY <1>2, <3>2
      <4>2. o.delivery = d /\ o.artifact = a
        BY <4>1 DEF Output
      <4> QED BY <1>1, <1>4, <2>1, <4>2
    <3> QED BY <1>3, <3>1, <3>2
  <2>3. \A x \in DOMAIN manifests' : ArtifactSet(x) \subseteq history'
    BY <1>1, <1>5 DEF Records, ManifestsComeLast
  <2> QED BY <2>2, <2>3 DEF ManifestsComeLast
<1>8. ShownIsWhole'
  BY <1>1, <1>3, <1>4 DEF ShownIsWhole
<1>9. /\ events \in Seq(Delivery) /\ OneEventEach(events, audited)
      /\ AlertsAreThose(alerts, audited) /\ IsFiniteSet(audited)
  BY <1>5 DEF Records, RecordsAreWhole
<1>10. \A r \in audited :
          /\ \A x \in ArtifactSet(r.delivery) : Output(r.delivery, x) \in outputs
          /\ \E i \in DOMAIN events : events[i] = r.delivery
  BY <1>5 DEF Records, RecordsAreWhole
<1>11. AlertsAreThose(alerts', audited')
  BY <1>3, <1>6, <1>9, AlertsAreAdded
<1>12. /\ events' \in Seq(Delivery) /\ OneEventEach(events', audited')
       /\ \A r \in audited' : \E i \in DOMAIN events' : events'[i] = r.delivery
  <2>1. CASE row \in audited
    <3>1. rows \subseteq outputs
      BY <1>2, <1>6, <1>10, <2>1
    <3>2. AlertsOf(d) \subseteq alerts
      BY <1>6, <1>9, <2>1, AlertsWereThose
    <3>3. events' = events
      BY <1>3, <2>1, <3>1, <3>2 DEF EventsAfter
    <3>4. audited' = audited
      BY <1>3, <2>1
    <3> QED BY <1>9, <1>10, <3>3, <3>4
  <2>2. CASE row \notin audited
    <3>1. events' = Append(events, d)
      BY <1>3, <2>2 DEF EventsAfter
    <3>2. OneEventEach(events', audited')
      <4>1. \A r \in audited : \E i \in DOMAIN events : events[i] = r.delivery
        BY <1>10
      <4>2. OneEventEach(Append(events, d), audited \cup {row})
        BY <1>6, <1>9, <2>2, <4>1, EventIsAdded
      <4> QED BY <1>3, <3>1, <4>2
    <3>3. /\ DOMAIN events' = 1 .. Len(events) + 1 /\ DOMAIN events = 1 .. Len(events)
          /\ events'[Len(events) + 1] = d /\ Len(events) \in Nat
          /\ \A i \in 1 .. Len(events) : events'[i] = events[i]
      BY <1>9, <3>1
    <3>4. ASSUME NEW r \in audited'
          PROVE  \E i \in DOMAIN events' : events'[i] = r.delivery
      <4>1. CASE r \in audited
        <5>1. PICK i \in DOMAIN events : events[i] = r.delivery
          BY <1>10, <4>1
        <5>2. i \in DOMAIN events' /\ events'[i] = r.delivery
          BY <3>3, <5>1
        <5> QED BY <5>2
      <4>2. CASE r = row
        <5>1. Len(events) + 1 \in DOMAIN events'
          BY <3>3
        <5> QED BY <1>6, <3>3, <4>2, <5>1
      <4> QED BY <1>3, <4>1, <4>2
    <3>5. events' \in Seq(Delivery)
      BY <1>9, <3>1
    <3> QED BY <3>2, <3>4, <3>5
  <2> QED BY <2>1, <2>2
<1>13. RecordsAreWhole'
  <2>1. IsFiniteSet(audited')
    BY <1>3, <1>9, FS_AddElement
  <2>2. ASSUME NEW r \in audited'
        PROVE  \A x \in ArtifactSet(r.delivery) : Output(r.delivery, x) \in outputs'
    <3>1. CASE r \in audited
      BY <1>3, <1>10, <3>1
    <3>2. CASE r = row
      BY <1>2, <1>3, <1>6, <3>2
    <3> QED BY <1>3, <3>1, <3>2
  <2> QED BY <1>12, <2>1, <2>2 DEF RecordsAreWhole
<1>14. Records'
  BY <1>1, <1>3, <1>5, <1>7, <1>8, <1>11, <1>12, <1>13 DEF Records
<1> QED BY <1>3, <1>14

LEMMA RecordStep ==
  ASSUME Shape, NEW p \in Process, Record(p)
  PROVE  Shape'
<1>1. UNCHANGED <<now, canonical, indexes, job, files, manifests, history, bounds>>
  BY DEF Record
<1>2. PICK r : r = proc[p]
  OBVIOUS
<1>3. /\ proc \in [Process -> ProcessRecord] /\ r \in ProcessRecord
      /\ ProcInv(p, r, canonical, indexes, writer, shown, history)
  BY <1>2, ProcAt
<1>4. r.pc = "recording" /\ proc[p].pc # "idle"
  BY <1>2 DEF Record
<1>5. writer = p /\ r.anchor \in Anchor /\ r.total \in 0 .. MaxRows
      /\ r.rows \subseteq canonical
  BY <1>3, <1>4 DEF ProcInv
<1>6. PICK d : d = DeliveryOf(p)
  OBVIOUS
<1>7. d \in Delivery /\ d.anchor = r.anchor
  BY <1>2, <1>3, <1>5, <1>6, DeliveryIsTyped DEF DeliveryOf, DeliveryFrom
<1>8. PICK row : row = [delivery |-> d, counts |-> proc[p].counts]
  OBVIOUS
<1>9. Records' /\ audited' = audited \cup {row} /\ outputs \subseteq outputs'
  BY <1>6, <1>7, <1>8, RecordLedger
<1>10. JobsInv'
  BY <1>1, <1>9, JobsStay
<1>11. World' /\ Procs' /\ DaemonInv'
  <2>1. CASE p = "daemon"
    <3>1. PICK s : s = At(r, "finishing", r.next)
      OBVIOUS
    <3>2. proc' = [proc EXCEPT ![p] = s] /\ writer' = writer
      <4>1. s = [r EXCEPT !.pc = "finishing"]
        BY <1>3, <3>1 DEF At, ProcessRecord
      <4>2. /\ proc' = [proc EXCEPT ![p] = [proc[p] EXCEPT !.pc = "finishing"]]
            /\ writer' = writer
        BY <2>1 DEF Record
      <4> QED BY <1>2, <4>1, <4>2
    <3>3. /\ s \in ProcessRecord /\ s.pc = "finishing"
          /\ s.anchor = r.anchor /\ s.total = r.total /\ s.rows = r.rows
      <4>1. "finishing" \in Publishing \cup {"finishing"} /\ r.next \in 1 .. 5
        BY <1>3, ProcessFields
      <4> QED BY <1>3, <3>1, <4>1, AtFields
    <3>4. ProcInv(p, s, canonical', indexes', writer', shown', history')
      BY <1>1, <1>5, <3>2, <3>3 DEF ProcInv
    <3>5. Procs'
      BY <1>1, <1>4, <1>5, <3>2, <3>4, ProcessStep
    <3>6. DaemonInv'
      <4>1. proc'["daemon"] = s
        BY <1>3, <2>1, <3>2
      <4>2. row \in audited' /\ row.delivery.anchor = s.anchor
        BY <1>7, <1>8, <1>9, <3>3
      <4> QED BY <3>3, <4>1, <4>2 DEF DaemonInv
    <3>7. World'
      BY <1>1, <3>2 DEF Shape, World, bounds
    <3> QED BY <3>5, <3>6, <3>7
  <2>2. CASE p # "daemon"
    <3>1. proc' = [proc EXCEPT ![p] = Idle] /\ writer' = None
      BY <2>2 DEF Record
    <3>2. writer' # p
      BY <3>1, Constants
    <3>3. ProcInv(p, Idle, canonical', indexes', writer', shown', history')
      BY <3>2, IdleIsSound
    <3>4. Procs'
      BY <1>1, <1>4, <3>1, <3>3, ProcessStep
    <3>5. Idle.pc \notin {"claimed", "finishing"}
      BY DEF Idle
    <3>6. DaemonInv'
      BY <1>1, <1>9, <3>1, <3>5, DaemonStep
    <3>7. World'
      BY <1>1, <3>1 DEF Shape, World, bounds
    <3> QED BY <3>4, <3>6, <3>7
  <2> QED BY <2>1, <2>2
<1> QED BY <1>9, <1>10, <1>11 DEF Shape

LEMMA StutterStep ==
  ASSUME Shape, UNCHANGED vars
  PROVE  Shape'
<1>1. UNCHANGED <<now, canonical, indexes, job, proc, writer, disk, ledger, bounds>>
  BY DEF vars, disk, ledger, bounds
<1>2. JobsInv'
  BY <1>1, JobsStay DEF ledger
<1> QED BY <1>1, <1>2, JobsOnly

-----------------------------------------------------------------------------
(* The theorems.                                                           *)

LEMMA NextShape ==
  ASSUME Shape, [Next]_vars
  PROVE  Shape'
<1>1. CASE Tick
  BY <1>1, TickStep
<1>2. CASE \E k \in Key, rev \in 1 .. MaxRevisions, gone \in BOOLEAN :
               Promote(k, rev, gone)
  BY <1>2, PromoteStep
<1>3. CASE \E a \in Anchor : Enqueue(a) \/ LeasePasses(a) \/ BeginTick(a)
  BY <1>3, EnqueueStep, LeasePassesStep, BeginTickStep
<1>4. CASE RebuildCommand \/ IdleTick \/ StartSystemJob \/ FinishSystemJob
  BY <1>4, RebuildCommandStep, IdleTickStep, StartSystemJobStep,
     FinishSystemJobStep
<1>5. CASE \E a \in Anchor, rules \in {{}, Rule} : PublishCommand(a, rules)
  BY <1>5, PublishCommandStep
<1>6. CASE \E p \in Process : Deliver(p)
  <2>1. PICK p \in Process : Deliver(p)
    BY <1>6
  <2> QED BY <2>1, RebuildStep, LoadPageStep, TooManyRowsStep, RenderStep,
             WriteFileStep, RecordStep DEF Deliver
<1>7. CASE \E p \in Process : Fail(p) \/ Crash(p)
  BY <1>7, FailStep, CrashStep
<1>8. CASE UNCHANGED vars
  BY <1>8, StutterStep
<1> QED BY <1>1, <1>2, <1>3, <1>4, <1>5, <1>6, <1>7, <1>8 DEF Next

(* The inductive invariant, with the rows that the pages so far must have  *)
(* brought and the exclusion of the publishers, is never left.             *)
THEOREM Inductive == Spec => []IInv
<1>1. Init => Shape
  BY InitShape
<1>2. Shape /\ [Next]_vars => Shape'
  BY NextShape
<1>3. Shape => IInv
  BY ShapeToInv
<1> QED BY <1>1, <1>2, <1>3, PTL DEF Spec

(* No manifest and no lineage row names a file that was never published,   *)
(* and a job that succeeded has its lineage, wherever publishers died.     *)
THEOREM LineageTrue == Spec => []LineageIsTrue
<1>1. IInv => LineageIsTrue
  BY DEF IInv
<1> QED BY <1>1, Inductive, PTL

(* What is rendered is the canonical state as of the anchor, complete and  *)
(* of one moment, for any page size and any number of rows that became     *)
(* available at the same time.                                             *)
THEOREM PublicationCoherent == Spec => []PublicationIsCoherent
<1>1. IInv => PublicationIsCoherent
  BY DEF IInv
<1> QED BY <1>1, Inductive, PTL

(* Between a record and the next publication the output directory shows    *)
(* the recorded delivery whole.                                            *)
THEOREM ShownWhole == Spec => []ShownIsWhole
<1>1. IInv => ShownIsWhole
  BY DEF IInv
<1> QED BY <1>1, Inductive, PTL

(* A delivery that is repeated adds no event and no alert.                 *)
THEOREM ReplaysHarmless == Spec => []ReplaysAddNothing
<1>1. IInv => ReplaysAddNothing
  BY DEF IInv
<1> QED BY <1>1, Inductive, PTL

=============================================================================
