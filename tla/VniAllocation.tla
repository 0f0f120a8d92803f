--------------------------- MODULE VniAllocation ---------------------------
(***************************************************************************)
(* Router VNI allocation: the UnderstackVniPlugin callbacks of vrf.py and  *)
(* the table helper UnderstackVniDbHelper of understack_vni_db.py.         *)
(*                                                                         *)
(* A router create runs in a database transaction of its own, opened by    *)
(* Neutron, and several of them run at once (API workers, replicas).  The  *)
(* search for a never-used VNI is a plain SELECT and so answers from the   *)
(* snapshot the transaction started with; every other query of the helper  *)
(* is a locking read (with_for_update) and sees the latest committed rows, *)
(* with the row locks held to the commit.  A transaction is therefore two  *)
(* steps: the one that takes the snapshot, and the one that writes and     *)
(* commits.  Between the two any other transaction may commit.             *)
(***************************************************************************)
EXTENDS Integers

CONSTANTS
  Routers,     \* router ids
  Vnis,        \* the VNIs of the instance
  RangeSets,   \* the values CONF.understack_vni.vni_ranges may take, as sets
  AutoVni,     \* an evpn_vni for which is_auto_vni holds
  NoVni,       \* evpn_vni: None on a router
  NoRouter,    \* router_id NULL
  MaxClock     \* bound on the clock that stamps released_at

ASSUME VniAssumption ==
  /\ Vnis \subseteq Nat
  /\ RangeSets \subseteq SUBSET Vnis
  /\ AutoVni \notin Vnis /\ NoVni \notin Vnis /\ NoRouter \notin Routers
  /\ MaxClock \in Nat \ {0}

VARIABLES
  ranges,      \* the configured ranges, as the set of VNIs they cover
  rows,        \* VNIs that have a row in understack_router_vni_allocations
  owner,       \* column router_id of those rows
  releasedAt,  \* column released_at of those rows, 0 for NULL
  live,        \* committed routers
  evpnVni,     \* the evpn_vni the create of a router returned
  txn,         \* the open create transaction of a router
  outcome,     \* how the latest create request of a router stands
  clock        \* timeutils.utcnow(), in the resolution of the column

vars == <<ranges, rows, owner, releasedAt, live, evpnVni, txn, outcome, clock>>
table == <<rows, owner, releasedAt>>

Modes == {"off", "on", "auto"}
Requests == Vnis \cup {AutoVni}
Decided == {"created", "BadRequest", "NotInRange", "InUse", "NoAvailable",
            "RouterHasVNI", "aborted"}
NoTxn == [open |-> FALSE, req |-> AutoVni, ranges |-> {}, seen |-> {}]
Txns == [open : BOOLEAN, req : Requests, ranges : SUBSET Vnis, seen : SUBSET Vnis]

TypeOK ==
  /\ ranges \in SUBSET Vnis
  /\ rows \in SUBSET Vnis
  /\ owner \in [Vnis -> Routers \cup {NoRouter}]
  /\ releasedAt \in [Vnis -> 0..MaxClock]
  /\ live \in SUBSET Routers
  /\ evpnVni \in [Routers -> Vnis \cup {NoVni}]
  /\ txn \in [Routers -> Txns]
  /\ outcome \in [Routers -> Decided \cup {"none", "pending"}]
  /\ clock \in 1..MaxClock

Init ==
  /\ ranges \in RangeSets
  /\ rows = {}
  /\ owner = [v \in Vnis |-> NoRouter]
  /\ releasedAt = [v \in Vnis |-> 0]
  /\ live = {}
  /\ evpnVni = [r \in Routers |-> NoVni]
  /\ txn = [r \in Routers |-> NoTxn]
  /\ outcome = [r \in Routers |-> "none"]
  /\ clock = 1

-----------------------------------------------------------------------------
\* The queries of UnderstackVniDbHelper.

\* _get_router_allocation
RouterAllocation(r) == {v \in rows : owner[v] = r}

\* _find_never_used_vni, over the rows a snapshot shows: the lowest VNI of the
\* merged ranges that has no row, as a set that is empty when there is none.
NeverUsed(seen, rng) ==
  {v \in rng \ seen : \A w \in rng \ seen : v <= w}

\* _find_released_allocation: the released row of the ranges that comes first
\* by (released_at, vni).
Before(v, w) ==
  \/ releasedAt[v] < releasedAt[w]
  \/ releasedAt[v] = releasedAt[w] /\ v <= w

\* Faulty variant: a VNI released within the current tick is not offered.
ReleasedBeforeNow(rng) ==
  {v \in rows \cap rng : owner[v] = NoRouter /\ releasedAt[v] < clock}

ReleasedIn(rng) == {v \in rows \cap rng : owner[v] = NoRouter}

FirstReleased(rng) ==
  {v \in ReleasedIn(rng) : \A w \in ReleasedIn(rng) : Before(v, w)}

-----------------------------------------------------------------------------
\* Ends of a create transaction.

Close(r, res) ==
  /\ txn' = [txn EXCEPT ![r] = NoTxn]
  /\ outcome' = [outcome EXCEPT ![r] = res]

\* The exception aborts the transaction: no router, no allocation.
Fail(r, err) ==
  /\ Close(r, err)
  /\ UNCHANGED <<ranges, table, live, evpnVni, clock>>

\* The row for v becomes r's, new or re-taken, and the router is committed.
Commit(r, v) ==
  /\ rows' = rows \cup {v}
  /\ owner' = [owner EXCEPT ![v] = r]
  /\ releasedAt' = [releasedAt EXCEPT ![v] = 0]
  /\ live' = live \cup {r}
  /\ evpnVni' = [evpnVni EXCEPT ![r] = v]
  /\ Close(r, "created")
  /\ UNCHANGED <<ranges, clock>>

\* _process_router_create up to allocate_vni_for_router: mode is what
\* _router_vni_alloc resolves from the flavor, req the evpn_vni of the request.
RejectEvpnVni(r, mode, req) ==
  /\ mode = "off" /\ req # AutoVni
  /\ outcome' = [outcome EXCEPT ![r] = "BadRequest"]
  /\ UNCHANGED <<ranges, table, live, evpnVni, txn, clock>>

CreateWithoutVni(r, mode, req) ==
  /\ mode \in {"off", "on"} /\ req = AutoVni
  /\ live' = live \cup {r}
  /\ evpnVni' = [evpnVni EXCEPT ![r] = NoVni]
  /\ outcome' = [outcome EXCEPT ![r] = "created"]
  /\ UNCHANGED <<ranges, table, txn, clock>>

BeginAllocation(r, mode, req) ==
  /\ mode = "auto" \/ (mode = "on" /\ req # AutoVni)
  /\ txn' = [txn EXCEPT ![r] = [open |-> TRUE, req |-> req,
                                 ranges |-> ranges, seen |-> rows]]
  /\ outcome' = [outcome EXCEPT ![r] = "pending"]
  /\ UNCHANGED <<ranges, table, live, evpnVni, clock>>

CreateRouter(r, mode, req) ==
  /\ r \notin live /\ outcome[r] # "pending"
  /\ \/ RejectEvpnVni(r, mode, req)
     \/ CreateWithoutVni(r, mode, req)
     \/ BeginAllocation(r, mode, req)

-----------------------------------------------------------------------------
\* allocate_vni_for_router.  A router that has an allocation keeps it.
KeepExisting(r) ==
  \E v \in RouterAllocation(r) :
     IF txn[r].req \in {AutoVni, v} THEN Commit(r, v) ELSE Fail(r, "RouterHasVNI")

\* _allocate_auto_vni, never-used branch.  The snapshot may be stale: the flush
\* then hits the primary key, and Neutron runs the create again in a new
\* transaction.
\*
\* Faulty variant: the retry goes on inside the same snapshot.
AllocateNeverUsedSameSnapshot(r, v) ==
  IF v \notin rows
  THEN Commit(r, v)
  ELSE UNCHANGED vars

AllocateNeverUsed(r, v) ==
  IF v \notin rows
  THEN Commit(r, v)
  ELSE /\ txn' = [txn EXCEPT ![r] = NoTxn]
       /\ UNCHANGED <<ranges, table, live, evpnVni, outcome, clock>>

\* _allocate_auto_vni once the snapshot shows no never-used VNI.
AllocateReleased(r) ==
  LET first == FirstReleased(txn[r].ranges) IN
  IF first = {} THEN Fail(r, "NoAvailable") ELSE \E v \in first : Commit(r, v)

AllocateAuto(r) ==
  /\ txn[r].req = AutoVni
  /\ LET fresh == NeverUsed(txn[r].seen, txn[r].ranges) IN
     IF fresh # {}
     THEN \E v \in fresh : AllocateNeverUsed(r, v)
     ELSE AllocateReleased(r)

\* Faulty variant: the row of a VNI in use is re-taken like a released one.
AllocateSpecificUnchecked(r) ==
  LET v == txn[r].req IN
  /\ v # AutoVni
  /\ IF v \notin txn[r].ranges THEN Fail(r, "NotInRange") ELSE Commit(r, v)

\* _validate_vni_in_ranges and _allocate_specific_vni.
AllocateSpecific(r) ==
  LET v == txn[r].req IN
  /\ v # AutoVni
  /\ IF v \notin txn[r].ranges THEN Fail(r, "NotInRange")
     ELSE IF v \in rows /\ owner[v] # NoRouter THEN Fail(r, "InUse")
     ELSE Commit(r, v)

Allocate(r) ==
  /\ txn[r].open
  /\ IF RouterAllocation(r) # {}
     THEN KeepExisting(r)
     ELSE AllocateAuto(r) \/ AllocateSpecific(r)

\* Neutron's retry after the duplicate key: a new transaction, a new snapshot.
Retry(r) ==
  /\ outcome[r] = "pending" /\ ~txn[r].open
  /\ BeginAllocation(r, "auto", AutoVni)

\* Another precommit callback, or the database, fails the transaction.
Abort(r) ==
  /\ txn[r].open
  /\ Fail(r, "aborted")

\* Faulty variant: the foreign key's SET NULL is relied on to free the row.
DeleteRouterBySetNull(r) ==
  /\ r \in live
  /\ live' = live \ {r}
  /\ evpnVni' = [evpnVni EXCEPT ![r] = NoVni]
  /\ owner' = [v \in Vnis |-> IF v \in RouterAllocation(r) THEN NoRouter ELSE owner[v]]
  /\ outcome' = [outcome EXCEPT ![r] = "none"]
  /\ UNCHANGED <<ranges, rows, releasedAt, txn, clock>>

\* _process_router_delete: release_vni_for_router in the delete's transaction.
DeleteRouter(r) ==
  /\ r \in live
  /\ live' = live \ {r}
  /\ evpnVni' = [evpnVni EXCEPT ![r] = NoVni]
  /\ owner' = [v \in Vnis |-> IF v \in RouterAllocation(r) THEN NoRouter ELSE owner[v]]
  /\ releasedAt' = [v \in Vnis |-> IF v \in RouterAllocation(r) THEN clock ELSE releasedAt[v]]
  /\ outcome' = [outcome EXCEPT ![r] = "none"]
  /\ UNCHANGED <<ranges, rows, txn, clock>>

\* The operator changes vni_ranges; each allocation reads them afresh.
Reconfigure(new) ==
  /\ new # ranges
  /\ ranges' = new
  /\ UNCHANGED <<table, live, evpnVni, txn, outcome, clock>>

Tick ==
  /\ clock < MaxClock
  /\ clock' = clock + 1
  /\ UNCHANGED <<ranges, table, live, evpnVni, txn, outcome>>

Next ==
  \/ \E r \in Routers, mode \in Modes, req \in Requests : CreateRouter(r, mode, req)
  \/ \E r \in Routers : Allocate(r)
  \/ \E r \in Routers : Retry(r)
  \/ \E r \in Routers : Abort(r)
  \/ \E r \in Routers : DeleteRouter(r)
  \/ \E new \in RangeSets : Reconfigure(new)
  \/ Tick

Spec == Init /\ [][Next]_vars

\* Neutron runs every transaction it opened to its end and retries the ones
\* the database refused.
Fairness == \A r \in Routers : WF_vars(Allocate(r)) /\ WF_vars(Retry(r))

FairSpec == Spec /\ Fairness

-----------------------------------------------------------------------------
\* The table and the routers agree: a row in use belongs to a committed router
\* whose evpn_vni is that VNI, and a router whose create returned a VNI is the
\* one that VNI's row names.  So no two routers ever share a VNI, no router
\* holds two, no aborted create keeps one, and a delete gives back its VNI
\* (allocate_vni_for_router, release_vni_for_router).
VniOwnership ==
  /\ \A v \in Vnis : owner[v] # NoRouter =>
        v \in rows /\ owner[v] \in live /\ evpnVni[owner[v]] = v
  /\ \A r \in live : evpnVni[r] # NoVni => owner[evpnVni[r]] = r

\* An automatic create re-takes a released VNI only when its ranges have no
\* never-used VNI left, although it looked for one in a snapshot; and it takes
\* one of its ranges, whose release was stamped and before which no other
\* reusable VNI was released (_allocate_auto_vni, _find_released_allocation).
QuarantineOrder ==
  [][\A r \in Routers, v \in rows :
       (owner[v] = NoRouter /\ owner'[v] = r /\ txn[r].req = AutoVni) =>
         /\ v \in txn[r].ranges /\ releasedAt[v] # 0
         /\ txn[r].ranges \subseteq rows
         /\ \A w \in rows \cap txn[r].ranges :
              owner[w] = NoRouter => releasedAt[v] <= releasedAt[w]]_vars

\* UnderstackVNINoAvailable is raised only when every VNI of the ranges is
\* held by a committed router.
ExhaustionIsReal ==
  [][\A r \in Routers :
       (txn[r].open /\ outcome'[r] = "NoAvailable") =>
          \A v \in txn[r].ranges : owner[v] \in live]_vars

\* A create that lost the race for a never-used VNI is retried until it gets a
\* VNI or an error: rows are never removed, so it cannot lose for ever.
EveryCreateDecided ==
  \A r \in Routers : outcome[r] = "pending" ~> outcome[r] # "pending"
=============================================================================
