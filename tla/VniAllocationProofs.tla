------------------------ MODULE VniAllocationProofs ------------------------
(***************************************************************************)
(* For any set of routers, of VNIs and of configured ranges: the types of  *)
(* VniAllocation, that the allocation table and the routers agree, in what *)
(* order released VNIs are taken again, and that a create fails for want   *)
(* of a VNI only when there is none.                                       *)
(***************************************************************************)
EXTENDS VniAllocation, WellFoundedInduction, TLAPS

\* What VniOwnership needs to be inductive: a create that is not decided has no
\* router yet, and a router that is not committed shows no VNI.
CreatesHaveNoRouter ==
  /\ \A r \in Routers : txn[r].open => outcome[r] = "pending"
  /\ \A r \in Routers : outcome[r] = "pending" => r \notin live
  /\ \A r \in Routers : r \notin live => evpnVni[r] = NoVni

IInv == TypeOK /\ VniOwnership /\ CreatesHaveNoRouter

-----------------------------------------------------------------------------
\* A NoTxn record is a transaction value.
LEMMA NoTxnType == NoTxn \in Txns
BY DEF NoTxn, Txns, Requests

\* A router without a committed row owns no row, so RouterAllocation is empty.
LEMMA NewRouterOwnsNothing ==
  ASSUME IInv, NEW r \in Routers, r \notin live
  PROVE  /\ \A v \in Vnis : owner[v] # r
         /\ RouterAllocation(r) = {}
<1>0. r # NoRouter
  BY VniAssumption
<1>1. \A v \in Vnis : owner[v] # r
  BY <1>0 DEF IInv, VniOwnership
<1>2. rows \subseteq Vnis
  BY DEF IInv, TypeOK
<1> QED
  BY <1>1, <1>2 DEF RouterAllocation

\* Committing a VNI that is free, for a router that is not committed, keeps
\* the invariant.
LEMMA CommitKeepsIInv ==
  ASSUME IInv, NEW r \in Routers, NEW v \in Vnis, outcome[r] = "pending",
         owner[v] = NoRouter, Commit(r, v)
  PROVE  IInv'
<1>0. r \notin live
  BY DEF IInv, CreatesHaveNoRouter
<1>1. \A w \in Vnis : owner[w] # r
  BY <1>0, NewRouterOwnsNothing
<1>2. TypeOK'
  BY NoTxnType, VniAssumption DEF IInv, TypeOK, Commit, Close, Decided
<1>3. VniOwnership'
  <2>1. \A w \in Vnis : owner'[w] # NoRouter =>
          w \in rows' /\ owner'[w] \in live' /\ evpnVni'[owner'[w]] = w
    <3> SUFFICES ASSUME NEW w \in Vnis, owner'[w] # NoRouter
                 PROVE  w \in rows' /\ owner'[w] \in live' /\ evpnVni'[owner'[w]] = w
      OBVIOUS
    <3>1. CASE w = v
      BY <3>1 DEF IInv, TypeOK, Commit
    <3>2. CASE w # v
      <4>1. owner'[w] = owner[w] /\ owner[w] # r
        BY <3>2, <1>1 DEF IInv, TypeOK, Commit
      <4>2. w \in rows /\ owner[w] \in live /\ evpnVni[owner[w]] = w
        BY <4>1 DEF IInv, VniOwnership
      <4> QED
        BY <4>1, <4>2 DEF IInv, TypeOK, Commit
    <3> QED
      BY <3>1, <3>2
  <2>2. \A q \in live' : evpnVni'[q] # NoVni => owner'[evpnVni'[q]] = q
    <3> SUFFICES ASSUME NEW q \in live', evpnVni'[q] # NoVni
                 PROVE  owner'[evpnVni'[q]] = q
      OBVIOUS
    <3>1. CASE q = r
      BY <3>1 DEF IInv, TypeOK, Commit
    <3>2. CASE q # r
      <4>1. q \in live /\ q \in Routers /\ evpnVni'[q] = evpnVni[q]
        BY <3>2 DEF IInv, TypeOK, Commit
      <4>2. evpnVni[q] \in Vnis /\ owner[evpnVni[q]] = q
        BY <4>1 DEF IInv, TypeOK, VniOwnership
      <4>3. evpnVni[q] # v
        BY <4>1, <4>2, VniAssumption
      <4> QED
        BY <4>1, <4>2, <4>3 DEF IInv, TypeOK, Commit
    <3> QED
      BY <3>1, <3>2
  <2> QED
    BY <2>1, <2>2 DEF VniOwnership
<1>4. CreatesHaveNoRouter'
  BY NoTxnType DEF IInv, TypeOK, CreatesHaveNoRouter, Commit, Close, NoTxn, Txns
<1> QED
  BY <1>2, <1>3, <1>4 DEF IInv

\* An exception in a create transaction keeps the invariant.
LEMMA FailKeepsIInv ==
  ASSUME IInv, NEW r \in Routers, NEW err \in Decided, Fail(r, err)
  PROVE  IInv'
<1>1. TypeOK'
  BY NoTxnType DEF IInv, TypeOK, Fail, Close, table
<1>2. VniOwnership'
  BY DEF IInv, VniOwnership, Fail, table
<1>3. CreatesHaveNoRouter'
  BY NoTxnType DEF IInv, TypeOK, CreatesHaveNoRouter, Fail, Close, NoTxn, Txns, Decided
<1> QED
  BY <1>1, <1>2, <1>3 DEF IInv

\* Opening a transaction for a router that does not exist keeps the invariant.
LEMMA BeginKeepsIInv ==
  ASSUME IInv, NEW r \in Routers, r \notin live,
         NEW mode, NEW req \in Requests, BeginAllocation(r, mode, req)
  PROVE  IInv'
<1>1. [open |-> TRUE, req |-> req, ranges |-> ranges, seen |-> rows] \in Txns
  BY DEF IInv, TypeOK, Txns
<1>2. TypeOK'
  BY <1>1 DEF IInv, TypeOK, BeginAllocation, table
<1>3. VniOwnership'
  BY DEF IInv, VniOwnership, BeginAllocation, table
<1>4. CreatesHaveNoRouter'
  BY DEF IInv, TypeOK, CreatesHaveNoRouter, BeginAllocation
<1> QED
  BY <1>2, <1>3, <1>4 DEF IInv

-----------------------------------------------------------------------------
\* A create request, before any allocation.
LEMMA CreateRouterKeepsIInv ==
  ASSUME IInv, NEW r \in Routers, NEW mode \in Modes, NEW req \in Requests,
         CreateRouter(r, mode, req)
  PROVE  IInv'
<1>0. r \notin live /\ outcome[r] # "pending"
  BY DEF CreateRouter
<1>1. CASE RejectEvpnVni(r, mode, req)
  <2>1. TypeOK'
    BY <1>1 DEF IInv, TypeOK, RejectEvpnVni, table, Decided
  <2>2. VniOwnership'
    BY <1>1 DEF IInv, VniOwnership, RejectEvpnVni, table
  <2>3. CreatesHaveNoRouter'
    BY <1>0, <1>1 DEF IInv, TypeOK, CreatesHaveNoRouter, RejectEvpnVni
  <2> QED
    BY <2>1, <2>2, <2>3 DEF IInv
<1>2. CASE CreateWithoutVni(r, mode, req)
  <2>1. TypeOK'
    BY <1>2 DEF IInv, TypeOK, CreateWithoutVni, table, Decided
  <2>2. VniOwnership'
    BY <1>0, <1>2, NewRouterOwnsNothing
    DEF IInv, TypeOK, VniOwnership, CreateWithoutVni, table
  <2>3. CreatesHaveNoRouter'
    BY <1>0, <1>2 DEF IInv, TypeOK, CreatesHaveNoRouter, CreateWithoutVni
  <2> QED
    BY <2>1, <2>2, <2>3 DEF IInv
<1>3. CASE BeginAllocation(r, mode, req)
  BY <1>0, <1>3, BeginKeepsIInv
<1> QED
  BY <1>1, <1>2, <1>3 DEF CreateRouter

\* allocate_vni_for_router, all branches.
LEMMA AllocateKeepsIInv ==
  ASSUME IInv, NEW r \in Routers, Allocate(r)
  PROVE  IInv'
<1>0. outcome[r] = "pending" /\ r \notin live
  BY DEF Allocate, IInv, CreatesHaveNoRouter
<1>1. RouterAllocation(r) = {}
  BY <1>0, NewRouterOwnsNothing
<1>2. AllocateAuto(r) \/ AllocateSpecific(r)
  BY <1>1 DEF Allocate
<1>3. txn[r] \in Txns /\ txn[r].req \in Requests /\ txn[r].ranges \subseteq Vnis
  BY DEF IInv, TypeOK, Txns
<1>4. CASE AllocateAuto(r)
  <2>1. CASE NeverUsed(txn[r].seen, txn[r].ranges) # {}
    <3>1. PICK v \in NeverUsed(txn[r].seen, txn[r].ranges) : AllocateNeverUsed(r, v)
      BY <1>4, <2>1 DEF AllocateAuto
    <3>2. v \in Vnis
      BY <3>1, <1>3 DEF NeverUsed
    <3>3. CASE v \notin rows
      <4>1. owner[v] = NoRouter
        BY <3>2, <3>3 DEF IInv, VniOwnership
      <4> QED
        BY <3>1, <3>2, <3>3, <4>1, <1>0, CommitKeepsIInv DEF AllocateNeverUsed
    <3>4. CASE v \in rows
      <4>1. /\ txn' = [txn EXCEPT ![r] = NoTxn]
            /\ UNCHANGED <<ranges, table, live, evpnVni, outcome, clock>>
        BY <3>1, <3>4 DEF AllocateNeverUsed
      <4>2. TypeOK'
        BY <4>1, NoTxnType DEF IInv, TypeOK, table
      <4>3. VniOwnership'
        BY <4>1 DEF IInv, VniOwnership, table
      <4>4. CreatesHaveNoRouter'
        BY <4>1, <1>0 DEF IInv, TypeOK, CreatesHaveNoRouter
      <4> QED
        BY <4>2, <4>3, <4>4 DEF IInv
    <3> QED
      BY <3>3, <3>4
  <2>2. CASE NeverUsed(txn[r].seen, txn[r].ranges) = {}
    <3>1. AllocateReleased(r)
      BY <1>4, <2>2 DEF AllocateAuto
    <3>2. CASE FirstReleased(txn[r].ranges) = {}
      BY <3>1, <3>2, FailKeepsIInv DEF AllocateReleased, Decided
    <3>3. CASE FirstReleased(txn[r].ranges) # {}
      <4>1. PICK v \in FirstReleased(txn[r].ranges) : Commit(r, v)
        BY <3>1, <3>3 DEF AllocateReleased
      <4>2. v \in Vnis /\ owner[v] = NoRouter
        BY <4>1, <1>3 DEF FirstReleased, ReleasedIn
      <4> QED
        BY <4>1, <4>2, <1>0, CommitKeepsIInv
    <3> QED
      BY <3>2, <3>3
  <2> QED
    BY <2>1, <2>2
<1>5. CASE AllocateSpecific(r)
  <2> DEFINE v == txn[r].req
  <2>1. v \in Vnis
    BY <1>3, <1>5 DEF AllocateSpecific, Requests
  <2>2. CASE v \notin txn[r].ranges
    BY <1>5, <2>2, FailKeepsIInv DEF AllocateSpecific, Decided
  <2>3. CASE v \in txn[r].ranges /\ v \in rows /\ owner[v] # NoRouter
    BY <1>5, <2>3, FailKeepsIInv DEF AllocateSpecific, Decided
  <2>4. CASE v \in txn[r].ranges /\ ~(v \in rows /\ owner[v] # NoRouter)
    <3>1. Commit(r, v)
      BY <1>5, <2>4 DEF AllocateSpecific
    <3>2. owner[v] = NoRouter
      BY <2>1, <2>4 DEF IInv, VniOwnership
    <3> QED
      BY <3>1, <3>2, <2>1, <1>0, CommitKeepsIInv
  <2> QED
    BY <2>2, <2>3, <2>4
<1> QED
  BY <1>2, <1>4, <1>5

\* release_vni_for_router in the delete's transaction.
LEMMA DeleteRouterKeepsIInv ==
  ASSUME IInv, NEW r \in Routers, DeleteRouter(r)
  PROVE  IInv'
<1>1. TypeOK'
  BY DEF IInv, TypeOK, DeleteRouter
<1>2. VniOwnership'
  <2>1. \A v \in Vnis : owner'[v] = IF v \in rows /\ owner[v] = r THEN NoRouter ELSE owner[v]
    BY DEF DeleteRouter, RouterAllocation
  <2>2. \A v \in Vnis : owner'[v] # NoRouter =>
          owner'[v] = owner[v] /\ owner[v] # r /\ owner[v] # NoRouter
    BY <2>1 DEF IInv, VniOwnership
  <2>3. \A q \in live' : q \in live /\ q # r /\ evpnVni'[q] = evpnVni[q]
    BY DEF IInv, TypeOK, DeleteRouter
  <2>4. \A v \in Vnis : owner'[v] # NoRouter =>
          v \in rows' /\ owner'[v] \in live' /\ evpnVni'[owner'[v]] = v
    BY <2>2, <2>3 DEF IInv, VniOwnership, DeleteRouter
  <2>5. \A q \in live' : evpnVni'[q] # NoVni => owner'[evpnVni'[q]] = q
    BY <2>1, <2>3 DEF IInv, TypeOK, VniOwnership
  <2> QED
    BY <2>4, <2>5 DEF VniOwnership
<1>3. CreatesHaveNoRouter'
  BY DEF IInv, TypeOK, CreatesHaveNoRouter, DeleteRouter
<1> QED
  BY <1>1, <1>2, <1>3 DEF IInv

\* Every step of the specification keeps the invariant.
LEMMA NextKeepsIInv == IInv /\ [Next]_vars => IInv'
<1> SUFFICES ASSUME IInv, [Next]_vars PROVE IInv'
  OBVIOUS
<1>1. CASE \E r \in Routers, mode \in Modes, req \in Requests : CreateRouter(r, mode, req)
  BY <1>1, CreateRouterKeepsIInv
<1>2. CASE \E r \in Routers : Allocate(r)
  BY <1>2, AllocateKeepsIInv
<1>3. CASE \E r \in Routers : Retry(r)
  <2>1. PICK r \in Routers : Retry(r)
    BY <1>3
  <2>2. outcome[r] = "pending" /\ BeginAllocation(r, "auto", AutoVni)
    BY <2>1 DEF Retry
  <2>3. r \notin live /\ AutoVni \in Requests
    BY <2>2 DEF IInv, CreatesHaveNoRouter, Requests
  <2> QED
    BY <2>2, <2>3, BeginKeepsIInv
<1>4. CASE \E r \in Routers : Abort(r)
  BY <1>4, FailKeepsIInv DEF Abort, Decided
<1>5. CASE \E r \in Routers : DeleteRouter(r)
  BY <1>5, DeleteRouterKeepsIInv
<1>6. CASE \E new \in RangeSets : Reconfigure(new)
  BY <1>6, VniAssumption
  DEF IInv, TypeOK, VniOwnership, CreatesHaveNoRouter, Reconfigure, table
<1>7. CASE Tick
  BY <1>7, VniAssumption
  DEF IInv, TypeOK, VniOwnership, CreatesHaveNoRouter, Tick, table
<1>8. CASE UNCHANGED vars
  BY <1>8 DEF IInv, TypeOK, VniOwnership, CreatesHaveNoRouter, vars
<1> QED
  BY <1>1, <1>2, <1>3, <1>4, <1>5, <1>6, <1>7, <1>8 DEF Next

\* The initial table is empty and no create is under way.
LEMMA InitIInv == Init => IInv
<1> SUFFICES ASSUME Init PROVE IInv
  OBVIOUS
<1>1. TypeOK
  BY VniAssumption, NoTxnType DEF Init, TypeOK
<1>2. VniOwnership
  BY DEF Init, VniOwnership
<1>3. CreatesHaveNoRouter
  BY DEF Init, CreatesHaveNoRouter, NoTxn
<1> QED
  BY <1>1, <1>2, <1>3 DEF IInv

\* For every set of routers, VNIs and ranges, every interleaving of create and
\* delete transactions keeps the columns of the allocation table, the routers
\* and the open transactions within their types.
THEOREM VniTypeCorrect == Spec => []TypeOK
<1>1. IInv => TypeOK
  BY DEF IInv
<1> QED
  BY InitIInv, NextKeepsIInv, <1>1, PTL DEF Spec

\* For every set of routers, VNIs and ranges, no interleaving of create and
\* delete transactions lets two routers share a VNI, a router hold two, or a
\* VNI stay with a router that does not exist.
THEOREM VniOwnershipHolds == Spec => []VniOwnership
<1>1. IInv => VniOwnership
  BY DEF IInv
<1> QED
  BY InitIInv, NextKeepsIInv, <1>1, PTL DEF Spec

-----------------------------------------------------------------------------
\* What the two action properties need besides: a row that nobody holds has a
\* stamp, because only release_vni_for_router empties the column; and what the
\* snapshot of an open create shows is still in the table, because no row is
\* ever removed.
History ==
  /\ \A v \in rows : owner[v] = NoRouter => releasedAt[v] # 0
  /\ \A r \in Routers : txn[r].open => txn[r].seen \subseteq rows

HInv == IInv /\ History

\* A set of naturals that is not empty has a least element.
LEMMA LeastNatural ==
  ASSUME NEW S \in SUBSET Nat, S # {}
  PROVE  \E x \in S : \A y \in S : x <= y
<1> DEFINE Less == {p \in Nat \X Nat : p[1] < p[2]}
<1>1. IsWellFoundedOn(Less, Nat)
  BY NatLessThanWellFounded, Zenon DEF OpToRel
<1>2. \A y \in Nat, x \in Nat : y < x => <<y, x>> \in Less
  BY SMT
<1> HIDE DEF Less
<1>3. PICK x \in S : \A y \in S : ~ (<<y, x>> \in Less)
  BY <1>1, WFMin, Zenon
<1>4. \A y \in S : ~ (y < x)
  BY <1>2, <1>3
<1> QED
  BY <1>4, SMT

\* _find_never_used_vni finds nothing only when every VNI of the ranges has a
\* row in the snapshot.
LEMMA NeverUsedFinds ==
  ASSUME NEW seen, NEW rng \in SUBSET Vnis, NeverUsed(seen, rng) = {}
  PROVE  rng \subseteq seen
<1>1. rng \ seen \in SUBSET Nat
  BY VniAssumption
<1>2. rng \ seen # {} => \E v \in rng \ seen : \A w \in rng \ seen : v <= w
  BY <1>1, LeastNatural
<1> QED
  BY <1>2 DEF NeverUsed

\* _find_released_allocation finds nothing only when the ranges have no
\* released row: the released rows have an earliest stamp, and the rows with
\* that stamp a lowest VNI.
LEMMA FirstReleasedFinds ==
  ASSUME TypeOK, NEW rng \in SUBSET Vnis, FirstReleased(rng) = {}
  PROVE  ReleasedIn(rng) = {}
<1> SUFFICES ASSUME ReleasedIn(rng) # {} PROVE FALSE
  OBVIOUS
<1> DEFINE R == ReleasedIn(rng)
           Stamps == {releasedAt[v] : v \in R}
<1>1. R \subseteq Vnis /\ R \subseteq Nat
  BY VniAssumption DEF ReleasedIn
<1>2. \A v \in R : releasedAt[v] \in Nat
  BY <1>1, VniAssumption DEF TypeOK
<1>3. Stamps \in SUBSET Nat /\ Stamps # {}
  BY <1>2
<1>4. PICK s \in Stamps : \A t \in Stamps : s <= t
  BY <1>3, LeastNatural
<1> DEFINE Early == {v \in R : releasedAt[v] = s}
<1>5. Early \in SUBSET Nat /\ Early # {}
  BY <1>1, <1>4
<1>6. PICK v \in Early : \A w \in Early : v <= w
  BY <1>5, LeastNatural
<1>7. ASSUME NEW w \in R PROVE Before(v, w)
  <2>1. releasedAt[v] = s /\ s <= releasedAt[w] /\ s \in Nat /\ releasedAt[w] \in Nat
    BY <1>2, <1>3, <1>4, <1>6
  <2>2. releasedAt[w] = s => v <= w
    BY <1>6
  <2> QED
    BY <2>1, <2>2 DEF Before
<1>8. v \in FirstReleased(rng)
  BY <1>6, <1>7 DEF FirstReleased
<1> QED
  BY <1>8

\* An open create whose snapshot shows no never-used VNI has ranges that are
\* all in the table.
LEMMA SnapshotExhausted ==
  ASSUME HInv, NEW r \in Routers, txn[r].open,
         NeverUsed(txn[r].seen, txn[r].ranges) = {}
  PROVE  txn[r].ranges \subseteq rows
<1>1. txn[r].ranges \in SUBSET Vnis
  BY DEF HInv, IInv, TypeOK, Txns
<1>2. txn[r].ranges \subseteq txn[r].seen
  BY <1>1, NeverUsedFinds
<1>3. txn[r].seen \subseteq rows
  BY DEF HInv, History
<1> QED
  BY <1>2, <1>3

-----------------------------------------------------------------------------
\* How an allocation ends: with the commit of a VNI nobody holds, or with the
\* transaction closed and the table as it was.
LEMMA AllocateEnds ==
  ASSUME IInv, NEW r \in Routers, Allocate(r)
  PROVE  \/ \E v \in Vnis : owner[v] = NoRouter /\ Commit(r, v)
         \/ txn' = [txn EXCEPT ![r] = NoTxn] /\ UNCHANGED table
<1>1. AllocateAuto(r) \/ AllocateSpecific(r)
  BY NewRouterOwnsNothing DEF Allocate, IInv, CreatesHaveNoRouter
<1>2. txn[r].req \in Requests /\ txn[r].ranges \subseteq Vnis
  BY DEF IInv, TypeOK, Txns
<1>3. \A v \in Vnis : v \notin rows => owner[v] = NoRouter
  BY DEF IInv, VniOwnership
<1>4. CASE AllocateAuto(r)
  <2>1. CASE NeverUsed(txn[r].seen, txn[r].ranges) # {}
    <3>1. PICK v \in NeverUsed(txn[r].seen, txn[r].ranges) : AllocateNeverUsed(r, v)
      BY <1>4, <2>1 DEF AllocateAuto
    <3>2. v \in Vnis
      BY <3>1, <1>2 DEF NeverUsed
    <3> QED
      BY <3>1, <3>2, <1>3 DEF AllocateNeverUsed
  <2>2. CASE NeverUsed(txn[r].seen, txn[r].ranges) = {}
    <3>1. AllocateReleased(r)
      BY <1>4, <2>2 DEF AllocateAuto
    <3> QED
      BY <3>1, <1>2 DEF AllocateReleased, FirstReleased, ReleasedIn, Fail, Close
  <2> QED
    BY <2>1, <2>2
<1>5. CASE AllocateSpecific(r)
  BY <1>5, <1>2, <1>3 DEF AllocateSpecific, Requests, Fail, Close
<1> QED
  BY <1>1, <1>4, <1>5

\* Committing a VNI keeps the history: its row is held, and rows only grow.
LEMMA CommitKeepsHistory ==
  ASSUME HInv, NEW r \in Routers, NEW v \in Vnis, Commit(r, v)
  PROVE  History'
<1>1. \A w \in rows' : owner'[w] = NoRouter => releasedAt'[w] # 0
  <2> SUFFICES ASSUME NEW w \in rows', owner'[w] = NoRouter PROVE releasedAt'[w] # 0
    OBVIOUS
  <2>1. w # v
    BY VniAssumption DEF HInv, IInv, TypeOK, Commit
  <2>2. w \in rows /\ owner'[w] = owner[w] /\ releasedAt'[w] = releasedAt[w]
    BY <2>1 DEF HInv, IInv, TypeOK, Commit
  <2> QED
    BY <2>2 DEF HInv, History
<1>2. \A q \in Routers : txn'[q].open => txn'[q] = txn[q]
  BY DEF HInv, IInv, TypeOK, Commit, Close, NoTxn
<1>3. rows \subseteq rows'
  BY DEF Commit
<1> QED
  BY <1>1, <1>2, <1>3 DEF HInv, History

\* Closing a create, or leaving the transactions alone, with the table as it
\* was keeps the history.
LEMMA TableKeepsHistory ==
  ASSUME HInv, UNCHANGED table,
         \A q \in Routers : txn'[q].open => txn'[q] = txn[q] \/ txn'[q].seen = rows
  PROVE  History'
BY DEF HInv, History, table

\* Every step of the specification keeps the history.
LEMMA NextKeepsHistory == HInv /\ [Next]_vars => History'
<1> SUFFICES ASSUME HInv, [Next]_vars PROVE History'
  OBVIOUS
<1>0. txn \in [Routers -> Txns]
  BY DEF HInv, IInv, TypeOK
<1>1. ASSUME NEW r \in Routers, NEW mode, NEW req, BeginAllocation(r, mode, req)
      PROVE  History'
  BY <1>0, <1>1, TableKeepsHistory DEF BeginAllocation, table
<1>2. CASE \E r \in Routers, mode \in Modes, req \in Requests : CreateRouter(r, mode, req)
  <2>1. PICK r \in Routers, mode \in Modes, req \in Requests : CreateRouter(r, mode, req)
    BY <1>2
  <2>2. CASE RejectEvpnVni(r, mode, req)
    BY <2>2, TableKeepsHistory DEF RejectEvpnVni
  <2>3. CASE CreateWithoutVni(r, mode, req)
    BY <2>3, TableKeepsHistory DEF CreateWithoutVni
  <2> QED
    BY <2>1, <2>2, <2>3, <1>1 DEF CreateRouter
<1>3. CASE \E r \in Routers : Allocate(r)
  <2>1. PICK r \in Routers : Allocate(r)
    BY <1>3
  <2>2. CASE txn' = [txn EXCEPT ![r] = NoTxn] /\ UNCHANGED table
    BY <2>2, <1>0, TableKeepsHistory DEF NoTxn
  <2> QED
    BY <2>1, <2>2, AllocateEnds, CommitKeepsHistory DEF HInv
<1>4. CASE \E r \in Routers : Retry(r)
  BY <1>4, <1>1 DEF Retry
<1>5. CASE \E r \in Routers : Abort(r)
  <2>1. PICK r \in Routers : txn' = [txn EXCEPT ![r] = NoTxn] /\ UNCHANGED table
    BY <1>5 DEF Abort, Fail, Close
  <2> QED
    BY <2>1, <1>0, TableKeepsHistory DEF NoTxn
<1>6. CASE \E r \in Routers : DeleteRouter(r)
  <2>1. PICK r \in Routers : DeleteRouter(r)
    BY <1>6
  <2>2. rows' = rows /\ txn' = txn /\ rows \subseteq Vnis /\ clock # 0
    BY <2>1 DEF DeleteRouter, HInv, IInv, TypeOK
  <2>3. ASSUME NEW v \in rows', owner'[v] = NoRouter PROVE releasedAt'[v] # 0
    <3>1. CASE v \in RouterAllocation(r)
      BY <3>1, <2>1, <2>2, <2>3 DEF DeleteRouter
    <3>2. CASE v \notin RouterAllocation(r)
      <4>1. owner'[v] = owner[v] /\ releasedAt'[v] = releasedAt[v]
        BY <3>2, <2>1, <2>2 DEF DeleteRouter
      <4> QED
        BY <4>1, <2>2, <2>3 DEF HInv, History
    <3> QED
      BY <3>1, <3>2
  <2> QED
    BY <2>2, <2>3 DEF HInv, History
<1>7. CASE \E new \in RangeSets : Reconfigure(new)
  BY <1>7, TableKeepsHistory DEF Reconfigure
<1>8. CASE Tick
  BY <1>8, TableKeepsHistory DEF Tick
<1>9. CASE UNCHANGED vars
  BY <1>9, TableKeepsHistory DEF vars, table
<1> QED
  BY <1>2, <1>3, <1>4, <1>5, <1>6, <1>7, <1>8, <1>9 DEF Next

\* The invariant with the history holds in every reachable state.
LEMMA HistoryHolds == Spec => []HInv
<1>1. Init => HInv
  BY InitIInv DEF Init, HInv, History, NoTxn
<1>2. HInv /\ [Next]_vars => HInv'
  BY NextKeepsIInv, NextKeepsHistory DEF HInv
<1> QED
  BY <1>1, <1>2, PTL DEF Spec

\* A released VNI becomes a router's only in the allocation of that router.
LEMMA TakenByAllocation ==
  ASSUME HInv, Next, NEW r \in Routers, NEW v \in rows,
         owner[v] = NoRouter, owner'[v] = r
  PROVE  Allocate(r)
<1>1. v \in Vnis /\ owner'[v] # owner[v] /\ owner \in [Vnis -> Routers \cup {NoRouter}]
  BY VniAssumption DEF HInv, IInv, TypeOK
<1>2. \A q \in Routers : ~Retry(q) /\ ~Abort(q)
  BY <1>1 DEF Retry, BeginAllocation, Abort, Fail, table
<1>3. \A q \in Routers, mode \in Modes, req \in Requests : ~CreateRouter(q, mode, req)
  BY <1>1 DEF CreateRouter, RejectEvpnVni, CreateWithoutVni, BeginAllocation, table
<1>4. \A q \in Routers : ~DeleteRouter(q)
  BY <1>1 DEF DeleteRouter
<1>5. PICK q \in Routers : Allocate(q)
  BY <1>1, <1>2, <1>3, <1>4 DEF Next, Reconfigure, Tick, table
<1>6. PICK w \in Vnis : Commit(q, w)
  BY <1>1, <1>5, AllocateEnds DEF HInv, table
<1>7. w = v /\ owner'[v] = q
  BY <1>1, <1>6 DEF Commit
<1> QED
  BY <1>5, <1>7

\* What an automatic allocation that takes the released VNI v has found.
LEMMA AutoTakesFirst ==
  ASSUME HInv, NEW r \in Routers, NEW v \in rows, Allocate(r),
         owner[v] = NoRouter, owner'[v] = r, txn[r].req = AutoVni
  PROVE  NeverUsed(txn[r].seen, txn[r].ranges) = {} /\ v \in FirstReleased(txn[r].ranges)
<1>1. v \in Vnis /\ owner'[v] # owner[v] /\ owner \in [Vnis -> Routers \cup {NoRouter}]
  BY VniAssumption DEF HInv, IInv, TypeOK
<1>2. AllocateAuto(r)
  BY NewRouterOwnsNothing DEF Allocate, AllocateSpecific, HInv, IInv, CreatesHaveNoRouter
<1>3. \A w : Commit(r, w) => w = v
  BY <1>1 DEF Commit
<1>4. NeverUsed(txn[r].seen, txn[r].ranges) = {}
  <2>1. \A w : ~AllocateNeverUsed(r, w)
    BY <1>1, <1>3 DEF AllocateNeverUsed, table
  <2> QED
    BY <1>2, <2>1 DEF AllocateAuto
<1>5. AllocateReleased(r)
  BY <1>2, <1>4 DEF AllocateAuto
<1>6. PICK w \in FirstReleased(txn[r].ranges) : Commit(r, w)
  BY <1>1, <1>5 DEF AllocateReleased, Fail, table
<1> QED
  BY <1>3, <1>4, <1>6

\* For every set of routers, VNIs and ranges and every interleaving of the
\* transactions: an automatic create re-takes a released VNI only when all VNIs
\* of its ranges have been used, and then the one whose release is the oldest,
\* although the search for a never-used VNI answers from an old snapshot.
THEOREM QuarantineKept == Spec => QuarantineOrder
<1>1. ASSUME HInv, Next, NEW r \in Routers, NEW v \in rows,
             owner[v] = NoRouter, owner'[v] = r, txn[r].req = AutoVni
      PROVE  /\ v \in txn[r].ranges /\ releasedAt[v] # 0
             /\ txn[r].ranges \subseteq rows
             /\ \A w \in rows \cap txn[r].ranges :
                  owner[w] = NoRouter => releasedAt[v] <= releasedAt[w]
  <2>1. Allocate(r)
    BY <1>1, TakenByAllocation
  <2>2. NeverUsed(txn[r].seen, txn[r].ranges) = {} /\ v \in FirstReleased(txn[r].ranges)
    BY <1>1, <2>1, AutoTakesFirst
  <2>3. txn[r].ranges \subseteq rows
    BY <1>1, <2>1, <2>2, SnapshotExhausted DEF Allocate
  <2>4. v \in ReleasedIn(txn[r].ranges) /\ \A w \in ReleasedIn(txn[r].ranges) : Before(v, w)
    BY <2>2 DEF FirstReleased
  <2>5. \A w \in rows : releasedAt[w] \in Nat
    <3>1. rows \subseteq Vnis /\ releasedAt \in [Vnis -> 0..MaxClock]
      BY <1>1 DEF HInv, IInv, TypeOK
    <3>2. 0..MaxClock \subseteq Nat
      BY VniAssumption
    <3> QED
      BY <3>1, <3>2
  <2>6. ASSUME NEW w \in rows \cap txn[r].ranges, owner[w] = NoRouter
        PROVE  releasedAt[v] <= releasedAt[w]
    BY <1>1, <2>4, <2>5, <2>6 DEF ReleasedIn, Before
  <2> QED
    BY <1>1, <2>3, <2>4, <2>6 DEF ReleasedIn, HInv, History
<1>2. HInv /\ [Next]_vars =>
        [\A r \in Routers, v \in rows :
           (owner[v] = NoRouter /\ owner'[v] = r /\ txn[r].req = AutoVni) =>
             /\ v \in txn[r].ranges /\ releasedAt[v] # 0
             /\ txn[r].ranges \subseteq rows
             /\ \A w \in rows \cap txn[r].ranges :
                  owner[w] = NoRouter => releasedAt[v] <= releasedAt[w]]_vars
  BY <1>1
<1> QED
  BY <1>2, HistoryHolds, PTL DEF Spec, QuarantineOrder

\* For every set of routers, VNIs and ranges and every interleaving of the
\* transactions: UnderstackVNINoAvailable is raised only when each VNI of the
\* ranges the create reads is held by a committed router.
THEOREM ExhaustionHolds == Spec => ExhaustionIsReal
<1>1. ASSUME HInv, Next, NEW r \in Routers, txn[r].open, outcome'[r] = "NoAvailable"
      PROVE  \A v \in txn[r].ranges : owner[v] \in live
  <2>1. outcome[r] = "pending" /\ r \notin live /\ outcome \in [Routers -> Decided \cup {"none", "pending"}]
    BY <1>1 DEF HInv, IInv, TypeOK, CreatesHaveNoRouter
  <2>2. outcome'[r] # outcome[r]
    BY <1>1, <2>1
  <2>3. \A q \in Routers : ~Retry(q) /\ ~Abort(q) /\ ~DeleteRouter(q)
    BY <1>1, <2>1, <2>2 DEF Retry, BeginAllocation, Abort, Fail, Close, DeleteRouter
  <2>4. \A q \in Routers, mode \in Modes, req \in Requests : ~CreateRouter(q, mode, req)
    BY <1>1, <2>1, <2>2 DEF CreateRouter, RejectEvpnVni, CreateWithoutVni, BeginAllocation
  <2>5. PICK q \in Routers : Allocate(q)
    BY <1>1, <2>2, <2>3, <2>4 DEF Next, Reconfigure, Tick
  <2>6. AllocateAuto(q) \/ AllocateSpecific(q)
    BY <1>1, <2>5, NewRouterOwnsNothing DEF Allocate, HInv, IInv, CreatesHaveNoRouter
  <2>7. \A w : ~Commit(q, w)
    BY <1>1, <2>1, <2>2 DEF Commit, Close
  <2>8. AllocateAuto(q)
    BY <1>1, <2>1, <2>2, <2>6, <2>7 DEF AllocateSpecific, Fail, Close
  <2>9. NeverUsed(txn[q].seen, txn[q].ranges) = {}
    BY <2>2, <2>7, <2>8 DEF AllocateAuto, AllocateNeverUsed
  <2>10. FirstReleased(txn[q].ranges) = {} /\ Fail(q, "NoAvailable")
    BY <2>7, <2>8, <2>9 DEF AllocateAuto, AllocateReleased
  <2>11. q = r
    BY <2>1, <2>2, <2>10 DEF Fail, Close
  <2>12. txn[r].ranges \in SUBSET Vnis
    BY <1>1 DEF HInv, IInv, TypeOK, Txns
  <2>13. ReleasedIn(txn[r].ranges) = {} /\ txn[r].ranges \subseteq rows
    BY <1>1, <2>9, <2>10, <2>11, <2>12, FirstReleasedFinds, SnapshotExhausted DEF HInv, IInv
  <2>14. \A v \in txn[r].ranges : owner[v] # NoRouter
    BY <2>13 DEF ReleasedIn
  <2> QED
    BY <1>1, <2>12, <2>14 DEF HInv, IInv, VniOwnership
<1>2. HInv /\ [Next]_vars =>
        [\A r \in Routers :
           (txn[r].open /\ outcome'[r] = "NoAvailable") =>
              \A v \in txn[r].ranges : owner[v] \in live]_vars
  BY <1>1
<1> QED
  BY <1>2, HistoryHolds, PTL DEF Spec, ExhaustionIsReal
=============================================================================
