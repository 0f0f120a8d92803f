------------------------ MODULE SegmentBindingProofs ------------------------
(***************************************************************************)
(* Bound ports keep their VLANs, no segment in use is released and the     *)
(* switches follow Neutron, proved for any number of ports, subports,      *)
(* networks, vlan groups, nodes and concurrent requests.                   *)
(***************************************************************************)
EXTENDS SegmentBindingSteps

USE ZenonT(40)

-----------------------------------------------------------------------------
\* Requests on a network do not overlap.  What a step of t can reach then: the
\* networks of its request, the rows of t or of the subports of an unbound port t,
\* and segments that are not in use.
Reach(t) == Footprint(t, IF work[t] = Idle THEN work'[t].port ELSE work[t].port)

Touches(t, w) ==
  \/ w[1] = t /\ (t \in Subports => trunk[t] = NoPort)
              /\ (t \in Ports => t \notin bound \/ t \notin bound')
  \/ t \in Ports /\ t \notin bound /\ work[t] # Idle /\ work[t].port = t /\ w[1] \in SubportsOf(t)

SerialFrame(t) ==
  /\ \A u \in Tasks : u # t /\ work[u] # Idle => Reach(t) \cap Footprint(u, work[u].port) = {}
  /\ \A w \in Rows : levels'[w] = levels[w] \/ Touches(t, w)
  /\ \A g \in SegIds : \/ segs'[g] = segs[g] \/ segs[g] = Free
                       \/ segs[g].net \in Reach(t) /\ ~InUse(g)
  /\ t \in Subports /\ trunk'[t] # trunk[t] =>
       \A q \in {trunk[t], trunk'[t]} : q = NoPort \/ NetOf[q] \in Reach(t)
  /\ work'[t] # Idle => Footprint(t, work[t].port)' \subseteq Reach(t)

SInv ==
  /\ env.serial /\ Apart
  /\ \A t \in Tasks : Undisturbed(t)
  /\ \A p \in bound : \A t \in {p} \cup SubportsOf(p) : GoodLevel(t, p)

\* A request that starts is apart from the others by the promise,
LEMMA StartsApart ==
  ASSUME KInv, SInv, NEW t \in Tasks, NEW op, NEW p, MayStart(op, t, p), work'[t].port = p
  PROVE  /\ Reach(t) = Footprint(t, p)
         /\ \A u \in Tasks : u # t /\ work[u] # Idle => Reach(t) \cap Footprint(u, work[u].port) = {}
<1>1. work[t] = Idle /\ Reach(t) = Footprint(t, p)
  BY DEF MayStart, Reach
<1>2. \A u \in {v \in Tasks : work[v] # Idle} :
        Footprint(t, p) \cap Footprint(u, work[u].port) = {}
  BY DEF MayStart, SInv
<1> QED BY <1>1, <1>2

\* and stays so.
LEMMA GoesOnApart ==
  ASSUME KInv, SInv, NEW t \in Tasks, work[t].pc # "idle"
  PROVE  /\ Reach(t) = Footprint(t, work[t].port) /\ work[t] # Idle
         /\ \A u \in Tasks : u # t /\ work[u] # Idle => Reach(t) \cap Footprint(u, work[u].port) = {}
<1>1. work[t] # Idle
  BY IdleRecord
<1>2. Reach(t) = Footprint(t, work[t].port)
  BY <1>1 DEF Reach
<1> QED BY <1>1, <1>2 DEF SInv, Apart

LEMMA SameFootprint ==
  ASSUME trunk' = trunk, NEW t, NEW p, work'[t].port = p
  PROVE  Footprint(t, work[t].port)' = Footprint(t, p)
  BY DEF Footprint, SubportsOf

LEMMA OnlyNewSegments ==
  ASSUME LInv, NEW n, NEW x, NEW g \in SegIds, GetOrAllocate(n, x, g)
  PROVE  \A h \in SegIds : segs'[h] = segs[h] \/ segs[h] = Free
  BY DEF LInv, TypeOK, GetOrAllocate, Fresh

LEMMA PortFrame ==
  ASSUME KInv, SInv, NEW p \in Ports,
         BindPort(p) \/ UnbindPort(p) \/ DeletePort(p) \/ PortWork(p)
  PROVE  SerialFrame(p)
<1> USE DEF Becomes, OnlyWork, Moves, Ends
<1>0. /\ LInv /\ StepOf(p) /\ p \in Tasks /\ p \notin Subports /\ Shape(p) /\ Holds(p) /\ Owns(p)
      /\ levels \in [Rows -> SegIds \cup {NoSeg}] /\ <<p, HostOf[p]>> \in Rows
  BY Constants, PortStep, RowOfPort DEF KInv, LInv, TypeOK, Tasks
<1>1. trunk' = trunk
  BY DEF BindPort, UnbindPort, DeletePort, PortWork, BindOwnSegment, CommitBinding,
         FindReleased, ReleaseSegmentIfUnused
<1>2. CASE BindPort(p) \/ UnbindPort(p) \/ DeletePort(p)
  <2>1. work'[p].port = p
    BY <1>0, <1>2, BindPortForm, UnbindPortForm, DeletePortForm
  <2>2. \E op : MayStart(op, p, p)
    BY <1>2 DEF BindPort, UnbindPort, DeletePort
  <2>3. /\ Reach(p) = Footprint(p, p)
        /\ \A u \in Tasks : u # p /\ work[u] # Idle => Reach(p) \cap Footprint(u, work[u].port) = {}
    BY <1>0, <2>1, <2>2, StartsApart
  <2>4. UNCHANGED segs
    BY <1>2 DEF BindPort, UnbindPort, DeletePort
  <2>5. \A w \in Rows : levels'[w] = levels[w] \/ Touches(p, w)
    <3>1. CASE BindPort(p)
      BY <3>1 DEF BindPort
    <3>2. CASE UnbindPort(p) \/ DeletePort(p)
      <4>1. p \notin bound' /\ levels' = [levels EXCEPT ![<<p, HostOf[p]>>] = NoSeg]
        BY <3>2 DEF UnbindPort, DeletePort
      <4> QED BY <1>0, <4>1, SMTT(30) DEF Touches
    <3> QED BY <1>2, <3>1, <3>2
  <2>6. Footprint(p, work[p].port)' \subseteq Reach(p)
    BY <1>1, <2>1, <2>3, SameFootprint
  <2> QED BY <1>0, <2>3, <2>4, <2>5, <2>6 DEF SerialFrame
<1>3. CASE PortWork(p)
  <2>1. work[p].pc # "idle"
    BY <1>3 DEF PortWork, BindOwnSegment, CommitBinding, FindReleased, ReleaseSegmentIfUnused, At
  <2>2. /\ Reach(p) = Footprint(p, work[p].port)
        /\ \A u \in Tasks : u # p /\ work[u] # Idle => Reach(p) \cap Footprint(u, work[u].port) = {}
    BY <1>0, <2>1, GoesOnApart
  <2>3. work'[p] # Idle => work'[p].port = work[p].port
    BY <1>0, <1>3, BindOwnSegmentForm, CommitBindingForm, FindReleasedForm, ReleaseIfUnusedForm
       DEF PortWork
  <2>4. \A g \in SegIds : segs'[g] = segs[g] \/ segs[g] = Free
    <3>1. CASE BindOwnSegment(p)
      BY <1>0, <3>1, BindOwnSegmentForm, OnlyNewSegments
    <3>2. CASE ~BindOwnSegment(p)
      BY <1>3, <3>2 DEF PortWork, CommitBinding, FindReleased, ReleaseSegmentIfUnused
    <3> QED BY <3>1, <3>2
  <2>5. \A w \in Rows : levels'[w] = levels[w] \/ Touches(p, w)
    <3>1. CASE CommitBinding(p)
      <4>1. levels' = levels \/ levels' = [levels EXCEPT ![<<p, HostOf[p]>>] = work[p].own]
        BY <1>0, <3>1, CommitBindingForm
      <4>2. p \notin bound
        BY <1>0, <3>1 DEF CommitBinding, At, Owns
      <4> QED BY <1>0, <4>1, <4>2, SMTT(30) DEF Touches
    <3>2. CASE ~CommitBinding(p)
      BY <1>3, <3>2 DEF PortWork, BindOwnSegment, FindReleased, ReleaseSegmentIfUnused
    <3> QED BY <3>1, <3>2
  <2>6. work'[p] # Idle => Footprint(p, work[p].port)' \subseteq Reach(p)
    BY <1>1, <2>2, <2>3, SameFootprint
  <2> QED BY <1>0, <2>2, <2>4, <2>5, <2>6 DEF SerialFrame
<1> QED BY <1>2, <1>3

LEMMA SubportFrame ==
  ASSUME KInv, SInv, NEW s \in Subports,
         \/ \E p \in Ports, op \in Adds : AddSubport(s, p, op)
         \/ RemoveSubport(s) \/ SubportWork(s)
  PROVE  SerialFrame(s)
<1> USE DEF Becomes, OnlyWork, Moves, Ends
<1>0. /\ LInv /\ StepOf(s) /\ s \in Tasks /\ Shape(s) /\ Holds(s) /\ Owns(s)
      /\ trunk \in [Subports -> Ports \cup {NoPort}]
  BY SubportStep DEF KInv, LInv, TypeOK, Tasks
<1>1. UNCHANGED <<segs, levels>>
  BY DEF AddSubport, RemoveSubport, SubportWork, CommitSubport, SubportPostcommit
<1>2. CASE \E p \in Ports, op \in Adds : AddSubport(s, p, op)
  <2>1. PICK p \in Ports, op \in Adds : AddSubport(s, p, op)
    BY <1>2
  <2>2. work'[s].port = p /\ MayStart(op, s, p) /\ trunk' = trunk
    BY <1>0, <2>1, AddSubportForm DEF AddSubport
  <2>3. /\ Reach(s) = Footprint(s, p)
        /\ \A u \in Tasks : u # s /\ work[u] # Idle => Reach(s) \cap Footprint(u, work[u].port) = {}
    BY <1>0, <2>2, StartsApart
  <2>4. Footprint(s, work[s].port)' \subseteq Reach(s)
    BY <2>2, <2>3, SameFootprint
  <2> QED BY <1>0, <1>1, <2>2, <2>3, <2>4 DEF SerialFrame
<1>3. CASE RemoveSubport(s)
  <2>2. work'[s].port = trunk[s] /\ MayStart("remove", s, trunk[s])
    BY <1>0, <1>3, RemoveSubportForm DEF RemoveSubport
  <2>3. /\ Reach(s) = Footprint(s, trunk[s])
        /\ \A u \in Tasks : u # s /\ work[u] # Idle => Reach(s) \cap Footprint(u, work[u].port) = {}
    BY <1>0, <2>2, StartsApart
  <2>4. NetOf[trunk[s]] \in Reach(s)
    BY <2>3 DEF Footprint
  <2>5. trunk' = [trunk EXCEPT ![s] = NoPort]
    BY <1>3 DEF RemoveSubport
  <2>6. {q \in Subports : trunk'[q] = trunk[s]} \subseteq SubportsOf(trunk[s])
    BY <1>0, <1>3, <2>5 DEF SubportsOf, RemoveSubport
  <2>7. Footprint(s, work[s].port)' \subseteq Reach(s)
    BY <2>2, <2>3, <2>6 DEF Footprint, SubportsOf
  <2> QED BY <1>0, <1>1, <2>3, <2>4, <2>5, <2>7 DEF SerialFrame
<1>4. CASE SubportWork(s)
  <2>1. work[s].pc # "idle"
    BY <1>4 DEF SubportWork, CommitSubport, SubportPostcommit
  <2>2. /\ Reach(s) = Footprint(s, work[s].port)
        /\ \A u \in Tasks : u # s /\ work[u] # Idle => Reach(s) \cap Footprint(u, work[u].port) = {}
    BY <1>0, <2>1, GoesOnApart
  <2>3. work'[s] # Idle => work'[s].port = work[s].port
    BY <1>0, <1>4, CommitSubportForm, SubportPostcommitForm DEF SubportWork
  <2>4. CASE SubportPostcommit(s)
    <3>1. trunk' = trunk
      BY <2>4 DEF SubportPostcommit
    <3>2. work'[s] # Idle => Footprint(s, work[s].port)' \subseteq Reach(s)
      BY <2>2, <2>3, <3>1, SameFootprint
    <3> QED BY <1>0, <1>1, <2>2, <3>1, <3>2 DEF SerialFrame
  <2>5. CASE CommitSubport(s)
    <3>1. trunk' = [trunk EXCEPT ![s] = work[s].port] /\ trunk[s] = NoPort
      BY <1>0, <2>5, CommitSubportForm DEF CommitSubport, Owns, Adds, Shape
    <3>2. NetOf[work[s].port] \in Reach(s) /\ NetOf[s] \in Reach(s)
      BY <2>2 DEF Footprint
    <3>3. {q \in Subports : trunk'[q] = work[s].port} \subseteq SubportsOf(work[s].port) \cup {s}
      BY <1>0, <3>1 DEF SubportsOf
    <3>4. work'[s] # Idle => Footprint(s, work[s].port)' \subseteq Reach(s)
      BY <2>2, <2>3, <3>2, <3>3, SMTT(30) DEF Footprint, SubportsOf
    <3> QED BY <1>0, <1>1, <2>2, <3>1, <3>2, <3>4 DEF SerialFrame
  <2> QED BY <1>4, <2>4, <2>5 DEF SubportWork
<1> QED BY <1>2, <1>3, <1>4

LEMMA TaskFrame ==
  ASSUME KInv, SInv, NEW t \in Tasks, TaskWork(t)
  PROVE  SerialFrame(t)
<1> USE DEF Becomes, OnlyWork, Moves, Ends
<1>0. /\ LInv /\ StepOf(t) /\ Shape(t) /\ Holds(t) /\ Owns(t) /\ Undisturbed(t)
      /\ levels \in [Rows -> SegIds \cup {NoSeg}] /\ segs \in [SegIds -> Segments]
  BY TaskStep DEF KInv, LInv, TypeOK, SInv
<1>1. trunk' = trunk /\ work[t].pc # "idle" /\ bound' = bound
  BY DEF TaskWork, SubportSegment, SubportLevel, CleanSubport, DeleteUnusedSegment,
         ReleaseSegment, CleanDone, Sync
<1>2. /\ Reach(t) = Footprint(t, work[t].port) /\ work[t] # Idle
      /\ \A u \in Tasks : u # t /\ work[u] # Idle => Reach(t) \cap Footprint(u, work[u].port) = {}
  BY <1>1, GoesOnApart
<1>3. work'[t] # Idle => work'[t].port = work[t].port
  BY <1>0, SubportSegmentForm, SubportLevelForm, CleanSubportForm, DeleteUnusedSegmentForm,
     ReleaseSegmentForm, CleanDoneForm, SyncForm DEF TaskWork
<1>4. work'[t] # Idle => Footprint(t, work[t].port)' \subseteq Reach(t)
  BY <1>1, <1>2, <1>3, SameFootprint
\* The subports it works on are those of an unbound port, or itself.
<1>5. ASSUME work[t].pc \in {"level", "clean"}, NEW s \in work[t].todo
      PROVE  \A w \in Rows : w[1] = s => Touches(t, w)
  <2>1. CASE t \in Subports
    <3>1. s = t /\ trunk[t] = NoPort /\ t \notin Ports
      BY Constants, <1>0, <1>2, <1>5, <2>1 DEF Shape, Owns, Adds
    <3> QED BY <3>1 DEF Touches
  <2>2. CASE t \in Ports
    <3>1. work[t].op \in {"bind", "unbind"} /\ work[t].port = t /\ t \notin bound
      BY Constants, <1>0, <1>2, <1>5, <2>2 DEF Shape, Owns
    <3>2. s \in SubportsOf(t)
      BY <1>0, <1>5, <3>1 DEF Undisturbed
    <3> QED BY <1>2, <2>2, <3>1, <3>2 DEF Touches
  <2> QED BY <2>1, <2>2 DEF Tasks
<1>6. CASE SubportSegment(t)
  <2>1. levels' = levels
    BY <1>6 DEF SubportSegment
  <2>2. \A g \in SegIds : segs'[g] = segs[g] \/ segs[g] = Free
    BY <1>0, <1>6, SubportSegmentForm, OnlyNewSegments
  <2> QED BY <1>1, <1>2, <1>4, <2>1, <2>2 DEF SerialFrame
<1>7. CASE SubportLevel(t)
  <2>1. segs' = segs /\ work[t].pc = "level" /\ work[t].cur \in work[t].todo
    BY <1>0, <1>7 DEF SubportLevel, Holds
  <2>2. levels' = levels \/ levels' = [levels EXCEPT ![<<work[t].cur, HostFor(t)>>] = work[t].seg]
    BY <1>0, <1>7, SubportLevelForm
  <2>3. \A w \in Rows : levels'[w] = levels[w] \/ w[1] = work[t].cur
    BY <1>0, <2>2, SMTT(30)
  <2>4. \A w \in Rows : levels'[w] = levels[w] \/ Touches(t, w)
    BY <1>5, <2>1, <2>3
  <2> QED BY <1>1, <1>2, <1>4, <2>1, <2>4 DEF SerialFrame
<1>8. CASE CleanSubport(t)
  <2>1. segs' = segs /\ work[t].pc = "clean"
    BY <1>8 DEF CleanSubport
  <2>2. PICK s \in work[t].todo :
          levels' = levels \/ levels' = [levels EXCEPT ![<<s, HostFor(t)>>] = NoSeg]
    BY <1>0, <1>8, CleanSubportForm
  <2>3. \A w \in Rows : levels'[w] = levels[w] \/ w[1] = s
    BY <1>0, <2>2, SMTT(30)
  <2>4. \A w \in Rows : levels'[w] = levels[w] \/ Touches(t, w)
    BY <1>5, <2>1, <2>3
  <2> QED BY <1>1, <1>2, <1>4, <2>1, <2>4 DEF SerialFrame
<1>9. CASE ReleaseSegment(t)
  <2>1. /\ work[t].pc = "free" /\ segs' = [segs EXCEPT ![work[t].seg] = Free]
        /\ levels' = [w \in Rows |-> IF levels[w] = work[t].seg THEN NoSeg ELSE levels[w]]
    BY <1>9 DEF ReleaseSegment
  <2>2. ~InUse(work[t].seg) /\ work[t].seg \in SegIds /\ work[t].seg # NoSeg
    BY Constants, <1>0, <2>1 DEF Undisturbed, Holds
  <2>3. segs[work[t].seg].net \in Reach(t)
    BY <1>0, <1>2, <2>2 DEF Undisturbed
  <2>4. \A w \in Rows : levels'[w] = levels[w]
    BY <2>1, <2>2 DEF InUse
  <2>5. \A g \in SegIds : \/ segs'[g] = segs[g]
                          \/ segs[g].net \in Reach(t) /\ ~InUse(g)
    BY <1>0, <2>1, <2>2, <2>3
  <2> QED BY <1>1, <1>2, <1>4, <2>4, <2>5 DEF SerialFrame
<1>10. CASE DeleteUnusedSegment(t) \/ CleanDone(t) \/ Sync(t)
  <2>1. segs' = segs /\ levels' = levels
    BY <1>10 DEF DeleteUnusedSegment, CleanDone, Sync
  <2> QED BY <1>1, <1>2, <1>4, <2>1 DEF SerialFrame
<1> QED BY <1>6, <1>7, <1>8, <1>9, <1>10 DEF TaskWork

\* With that, the other requests are not disturbed, and neither are the levels of
\* a bound port.
LEMMA FootprintHas ==
  \A t, p : NetOf[t] \in Footprint(t, p) /\ NetOf[p] \in Footprint(t, p)
            /\ \A s \in SubportsOf(p) : NetOf[s] \in Footprint(t, p)
  BY DEF Footprint

LEMMA SubportsElsewhere ==
  ASSUME KInv, NEW t \in Tasks, StepOf(t), SerialFrame(t), NEW q \in Ports,
         NetOf[q] \notin Reach(t)
  PROVE  SubportsOf(q)' = SubportsOf(q)
<1>1. \A s \in Subports : (trunk'[s] = q) <=> (trunk[s] = q)
  BY SegmentAssumption DEF StepOf, SerialFrame
<1> QED BY <1>1 DEF SubportsOf

LEMMA LevelStays ==
  ASSUME KInv, SInv, NEW t \in Tasks, StepOf(t), SerialFrame(t), NEW s \in Tasks, NEW p \in Ports,
         GoodLevel(s, p), levels'[s, HostOf[p]] = levels[s, HostOf[p]]
  PROVE  GoodLevel(s, p)'
<1>1. <<s, HostOf[p]>> \in Rows
  BY RowOfPort
<1>3. levels[s, HostOf[p]] \in SegIds
  BY <1>1 DEF GoodLevel, KInv, LInv, TypeOK
<1>4. InUse(levels[s, HostOf[p]])
  BY <1>1 DEF InUse
<1>5. segs[levels[s, HostOf[p]]] # Free
  BY SegmentAssumption, NetIsNotFree DEF GoodLevel
<1>6. segs'[levels[s, HostOf[p]]] = segs[levels[s, HostOf[p]]]
  BY <1>3, <1>4, <1>5 DEF SerialFrame
<1> QED BY <1>6 DEF GoodLevel

LEMMA LevelsElsewhere ==
  ASSUME KInv, SInv, NEW t \in Tasks, StepOf(t), SerialFrame(t), NEW s \in Tasks, NEW p \in Ports,
         GoodLevel(s, p), ~Touches(t, <<s, HostOf[p]>>)
  PROVE  GoodLevel(s, p)'
<1>1. <<s, HostOf[p]>> \in Rows
  BY RowOfPort
<1>2. levels'[s, HostOf[p]] = levels[s, HostOf[p]]
  BY <1>1 DEF SerialFrame
<1> QED BY <1>2, LevelStays

LEMMA OthersUndisturbed ==
  ASSUME KInv, KInv', SInv, NEW t \in Tasks, StepOf(t), SerialFrame(t),
         NEW u \in Tasks, u # t
  PROVE  Undisturbed(u)'
<1>1. work'[u] = work[u] /\ Undisturbed(u) /\ Shape(u) /\ Owns(u) /\ Holds(u)
  BY DEF StepOf, SInv, KInv, LInv
<1>2. CASE work[u] = Idle
  BY <1>1, <1>2, IdleRecord DEF Undisturbed, Adds
<1>3. CASE work[u] # Idle
  <2>1. /\ Reach(t) \cap Footprint(u, work[u].port) = {} /\ work[u].port \in Ports
        /\ NetOf[u] \notin Reach(t) /\ NetOf[work[u].port] \notin Reach(t)
        /\ \A s \in SubportsOf(work[u].port) : NetOf[s] \notin Reach(t)
    <3>1. Reach(t) \cap Footprint(u, work[u].port) = {} /\ work[u].port \in Ports
      BY <1>1, <1>3 DEF SerialFrame, Shape
    <3> QED BY <3>1, FootprintHas
  <2>2. \A q : q = work[u].port => SubportsOf(q)' = SubportsOf(q)
    BY <2>1, SubportsElsewhere
  <2>3. SubportsOf(work[u].port)' = SubportsOf(work[u].port)
    BY <1>1, <2>2 DEF SubportsOf
  <2>4. Footprint(u, work[u].port)' = Footprint(u, work[u].port)
    BY <1>1, <2>3 DEF Footprint, SubportsOf
  <2>5. work[u].own # NoSeg => segs'[work[u].own] # Free
    <3>1. ASSUME work[u].own # NoSeg
          PROVE  segs[work[u].own].net = NetOf[u] /\ work[u].own \in SegIds
      <4>1. work[u].own \in SegIds
        BY <1>1, <3>1 DEF KInv, LInv, TypeOK, Works
      <4>2. IsOrWas(work[u].own, NetOf[u], u) /\ segs[work[u].own] # Free
        BY <1>1, <3>1 DEF KInv, SegmentsKnown, Undisturbed
      <4> QED BY <4>1, <4>2 DEF IsOrWas
    <3> QED BY <1>1, <2>1, <3>1 DEF SerialFrame, Undisturbed
  <2>6. work[u].seg # NoSeg => segs'[work[u].seg] = segs[work[u].seg]
    <3>1. work[u].seg # NoSeg =>
            work[u].seg \in SegIds /\ segs[work[u].seg].net \notin Reach(t)
      BY <1>1, <2>1 DEF Undisturbed, KInv, LInv, TypeOK
    <3> QED BY <1>1, <3>1 DEF SerialFrame, Undisturbed
  <2>7. work[u].op \in {"bind", "unbind"} => work[u].todo \subseteq SubportsOf(u)' /\ work[u].port = u
    BY <1>1, <1>3, <2>2 DEF Undisturbed, Shape, Adds
  <2>8. ASSUME work[u].op = "bind", work[u].pc \in {"own", "subs", "level"},
               NEW s \in SubportsOf(u)' \ work[u].todo
        PROVE  GoodLevel(s, u)'
    <3>1. s \in SubportsOf(u) \ work[u].todo /\ u \in Ports /\ trunk[s] = u /\ s \in Tasks
      BY <1>1, <1>3, <2>2, <2>8, SMTT(30) DEF Shape, Adds, SubportsOf, Tasks
    <3>2. GoodLevel(s, u)
      BY <1>1, <2>8, <3>1 DEF Undisturbed
    <3>3. ~Touches(t, <<s, HostOf[u]>>)
      BY <3>1, SegmentAssumption DEF Touches, SubportsOf
    <3> QED BY <3>1, <3>2, <3>3, LevelsElsewhere
  <2>9. work[u].pc = "commit" => work[u].port \notin bound'
    <3>1. work[u].port # t
      BY <2>1, FootprintHas DEF Reach
    <3> QED BY <1>1, <2>1, <3>1 DEF Undisturbed, StepOf
  <2>10. ASSUME work[u].op \in Adds, work[u].pc = "subs", work[u].todo = {}
         PROVE  GoodLevel(u, work[u].port)'
    <3>1. trunk[u] = NoPort /\ u \in Subports /\ GoodLevel(u, work[u].port)
      BY <1>1, <1>3, <2>10 DEF Owns, Shape, Undisturbed, Adds
    <3>2. ~Touches(t, <<u, HostOf[work[u].port]>>)
      BY <3>1, SegmentAssumption DEF Touches, SubportsOf
    <3>3. \A q \in Ports : q = work[u].port => GoodLevel(u, q)'
      BY <3>1, <3>2, LevelsElsewhere
    <3> QED BY <1>1, <2>1, <3>3 DEF GoodLevel
  <2>11. ASSUME work[u].pc = "free"  PROVE ~InUse(work[u].seg)'
    <3>1. work[u].seg \in SegIds /\ work[u].seg # NoSeg
      BY <1>1, <2>11, SegmentAssumption DEF Holds
    <3>2. SUFFICES ASSUME NEW w \in Rows, levels'[w] = work[u].seg  PROVE FALSE
      BY <1>1 DEF InUse
    <3>3. Touches(t, w)
      BY <1>1, <2>11, <3>2 DEF Undisturbed, InUse, SerialFrame
    <3>4. NetOf[w[1]] \in Reach(t)
      BY <3>3, FootprintHas DEF Touches, Reach
    <3>5. segs'[work[u].seg].net = NetOf[w[1]]
      BY <3>1, <3>2 DEF KInv, SegmentsKnown
    <3>6. segs[work[u].seg].net \notin Reach(t)
      BY <1>1, <2>1, <3>1 DEF Undisturbed
    <3> QED BY <2>6, <3>1, <3>4, <3>5, <3>6
  <2> QED BY <1>1, <2>4, <2>5, <2>6, <2>7, <2>8, <2>9, <2>10, <2>11 DEF Undisturbed
<1> QED BY <1>2, <1>3

LEMMA ApartKept ==
  ASSUME KInv, SInv, NEW t \in Tasks, StepOf(t), SerialFrame(t)
  PROVE  Apart'
<1>1. ASSUME NEW u \in Tasks, u # t, work[u] # Idle
      PROVE  /\ Footprint(u, work[u].port)' = Footprint(u, work[u].port)
             /\ work'[t] # Idle =>
                  Footprint(t, work[t].port)' \cap Footprint(u, work[u].port) = {}
  <2>1. work'[u] = work[u] /\ Reach(t) \cap Footprint(u, work[u].port) = {} /\ work[u].port \in Ports
    BY <1>1 DEF StepOf, SerialFrame, KInv, LInv, Shape
  <2>2. NetOf[work[u].port] \notin Reach(t)
    BY <2>1, FootprintHas
  <2>3. \A q : q = work[u].port => SubportsOf(q)' = SubportsOf(q)
    BY <2>1, <2>2, SubportsElsewhere
  <2>4. Footprint(u, work[u].port)' = Footprint(u, work[u].port)
    BY <2>1, <2>3 DEF Footprint, SubportsOf
  <2> QED BY <2>1, <2>4 DEF SerialFrame
<1>2. \A u \in Tasks : u # t => work'[u] = work[u]
  BY DEF StepOf
<1>3. ASSUME NEW u \in Tasks, NEW v \in Tasks, u # v, work'[u] # Idle, work'[v] # Idle
      PROVE  Footprint(u, work[u].port)' \cap Footprint(v, work[v].port)' = {}
  <2>1. CASE u # t /\ v # t
    <3>1. Footprint(u, work[u].port) \cap Footprint(v, work[v].port) = {}
      BY <1>2, <1>3, <2>1 DEF SInv, Apart
    <3> QED BY <1>1, <1>2, <1>3, <2>1, <3>1
  <2>2. CASE u = t
    BY <1>1, <1>2, <1>3, <2>2
  <2>3. CASE v = t
    BY <1>1, <1>2, <1>3, <2>3
  <2> QED BY <2>1, <2>2, <2>3
<1> QED BY <1>3 DEF Apart

LEMMA SerialKept ==
  ASSUME KInv, KInv', SInv, NEW t \in Tasks, StepOf(t), SerialFrame(t), Undisturbed(t)',
         t \in bound' /\ t \notin bound =>
           \A s \in {t} \cup SubportsOf(t) : GoodLevel(s, t)',
         t \in Subports /\ trunk'[t] # trunk[t] =>
           \A q \in bound : q = trunk'[t] => GoodLevel(t, q)'
  PROVE  SInv'
<1>1. \A u \in Tasks : Undisturbed(u)'
  BY OthersUndisturbed
<1>2. Apart' /\ env'.serial
  BY ApartKept DEF SInv, StepOf
<1>3. ASSUME NEW p \in bound', NEW s \in {p} \cup SubportsOf(p)'
      PROVE  GoodLevel(s, p)'
  <2>0. p \in Ports /\ s \in Tasks /\ (s = p \/ (s \in Subports /\ trunk'[s] = p))
    BY DEF StepOf, SubportsOf, Tasks
  <2>1. CASE p # t /\ s # t
    <3>1. p \in bound /\ s \in {p} \cup SubportsOf(p)
      BY <2>0, <2>1 DEF StepOf, SubportsOf
    <3>2. ~Touches(t, <<s, HostOf[p]>>)
      BY Constants, <2>0, <2>1, <3>1 DEF Touches, SubportsOf
    <3> QED BY <2>0, <3>1, <3>2, LevelsElsewhere DEF SInv
  <2>2. CASE p # t /\ s = t
    <3>1. s \in Subports /\ trunk'[t] = p /\ p \in bound
      BY <2>0, <2>2 DEF StepOf
    <3>2. CASE trunk'[t] = trunk[t]
      <4>1. GoodLevel(s, p)
        BY <2>2, <3>1, <3>2 DEF SInv, SubportsOf
      <4>2. ~Touches(t, <<s, HostOf[p]>>)
        BY Constants, <2>0, <2>2, <3>1, <3>2 DEF Touches
      <4> QED BY <2>0, <4>1, <4>2, LevelsElsewhere
    <3>3. CASE trunk'[t] # trunk[t]
      BY <2>2, <3>1, <3>3
    <3> QED BY <3>2, <3>3
  <2>3. CASE p = t
    <3>1. s \in {t} \cup SubportsOf(t)
      BY <2>0, <2>3 DEF StepOf, SubportsOf
    <3>2. CASE t \notin bound
      BY <2>3, <3>1, <3>2
    <3>3. CASE t \in bound
      <4>1. GoodLevel(s, p)
        BY <2>3, <3>1, <3>3 DEF SInv
      <4>2. ~Touches(t, <<s, HostOf[p]>>)
        BY <2>0, <2>3, <3>1, <3>3 DEF Touches
      <4> QED BY <2>0, <4>1, <4>2, LevelsElsewhere
    <3> QED BY <3>2, <3>3
  <2> QED BY <2>1, <2>2, <2>3
<1> QED BY <1>1, <1>2, <1>3 DEF SInv

LEMMA EndedUndisturbed == ASSUME NEW t, work'[t] = Idle  PROVE Undisturbed(t)'
  BY IdleRecord DEF Undisturbed, Adds

\* The segment of a network in a physnet is not Free.
LEMMA FoundSegments ==
  ASSUME NEW n \in Nets, NEW x  PROVE \A g \in SegmentsOf(n, x) : g \in SegIds /\ segs[g] # Free
  BY NetIsNotFree DEF SegmentsOf

LEMMA PortSerial ==
  ASSUME KInv, SInv, NEW p \in Ports,
         BindPort(p) \/ UnbindPort(p) \/ DeletePort(p) \/ PortWork(p)
  PROVE  SInv'
<1> USE DEF Becomes, OnlyWork, Moves, Ends
<1>0. /\ KInv' /\ LInv /\ StepOf(p) /\ SerialFrame(p) /\ p \in Tasks /\ p \notin Subports
      /\ Shape(p) /\ Holds(p) /\ Owns(p) /\ Undisturbed(p) /\ NetOf[p] \in Nets
  BY Constants, PortStep, PortKnown, PortFrame DEF KInv, LInv, Tasks, SInv
<1>1. trunk' = trunk
  BY DEF BindPort, UnbindPort, DeletePort, PortWork, BindOwnSegment, CommitBinding,
         FindReleased, ReleaseSegmentIfUnused
<1>2. SubportsOf(p)' = SubportsOf(p)
  BY <1>1 DEF SubportsOf
<1>3. CASE BindPort(p)
  <2>1. PICK g \in SegmentsOf(NetOf[p], PhysOf[p]) \cup {NoSeg} :
          Becomes(p, "bind", IF g = NoSeg THEN "own" ELSE "subs", p, g, NoSeg, SubportsOf(p), NoPort)
    BY <1>0, <1>3, BindPortForm
  <2>2. segs' = segs /\ bound' = bound
    BY <1>3 DEF BindPort
  <2>3. g # NoSeg => segs[g] # Free
    BY <1>0, <2>1, FoundSegments
  <2>4. Undisturbed(p)'
    BY <1>2, <2>1, <2>2, <2>3 DEF Undisturbed, Adds
  <2> QED BY <1>0, <2>2, <2>4, SerialKept
<1>4. CASE UnbindPort(p) \/ DeletePort(p)
  <2>1. p \notin bound'
    BY <1>4 DEF UnbindPort, DeletePort
  <2>2. Undisturbed(p)'
    <3>1. CASE UnbindPort(p)
      <4>1. /\ work'[p].op = "unbind" /\ work'[p].pc = "clean" /\ work'[p].own = NoSeg
            /\ work'[p].seg = NoSeg /\ work'[p].todo = SubportsOf(p)
        BY <1>0, <3>1, UnbindPortForm
      <4>2. SubportsOf(p)' = SubportsOf(p)
        BY <3>1 DEF UnbindPort, SubportsOf
      <4> QED BY <4>1, <4>2 DEF Undisturbed, Adds
    <3>2. CASE DeletePort(p)
      <4>1. /\ work'[p].op = "delete" /\ work'[p].pc \in {"sync", "find"}
            /\ work'[p].own = NoSeg /\ work'[p].seg = NoSeg
        BY <1>0, <3>2, DeletePortForm
      <4> QED BY <4>1 DEF Undisturbed, Adds
    <3> QED BY <1>4, <3>1, <3>2
  <2> QED BY <1>0, <2>1, <2>2, SerialKept
<1>5. CASE BindOwnSegment(p)
  <2>1. levels' = levels /\ bound' = bound /\ work[p].op = "bind" /\ work[p].pc = "own" /\ work[p].port = p
    BY <1>0, <1>5, IdleRecord DEF BindOwnSegment, At, Shape
  <2>2. CASE Ends(p)
    BY <1>0, <2>1, <2>2, EndedUndisturbed, SerialKept
  <2>3. CASE \E g \in SegIds :
              /\ GetOrAllocate(NetOf[p], PhysOf[p], g)
              /\ Becomes(p, "bind", "subs", work[p].port, g, work[p].seg, work[p].todo, work[p].cur)
    <3>1. PICK g \in SegIds :
              /\ GetOrAllocate(NetOf[p], PhysOf[p], g)
              /\ Becomes(p, "bind", "subs", work[p].port, g, work[p].seg, work[p].todo, work[p].cur)
      BY <2>3
    <3>2. segs'[g].net \in Nets
      BY Constants, <1>0, <2>1, <3>1, AllocateKeeps, SMTT(30) DEF KInv
    <3>3. segs'[g] # Free
      BY Constants, <3>2, SMTT(30) DEF Free
    <3>4. work[p].seg # NoSeg => segs'[work[p].seg] = segs[work[p].seg]
      BY <1>0, <3>1, OnlyNewSegments DEF Undisturbed, LInv, TypeOK
    <3>5. \A s \in SubportsOf(p) \ work[p].todo : GoodLevel(s, p)'
      <4>1. \A s \in SubportsOf(p) \ work[p].todo : s \in Tasks /\ GoodLevel(s, p)
        BY <1>0, <2>1 DEF Undisturbed, SubportsOf, Tasks
      <4> QED BY <1>0, <2>1, <4>1, LevelStays
    <3>6. Footprint(p, work[p].port)' = Footprint(p, work[p].port)
      BY <1>1, <3>1 DEF Footprint, SubportsOf
    <3>7. Undisturbed(p)'
      BY <1>0, <1>2, <2>1, <3>1, <3>3, <3>4, <3>5, <3>6 DEF Undisturbed, Adds
    <3> QED BY <1>0, <2>1, <3>7, SerialKept
  <2> QED BY <1>0, <1>5, <2>2, <2>3, BindOwnSegmentForm
<1>6. CASE CommitBinding(p)
  <2>1. /\ work[p].op = "bind" /\ work[p].pc = "subs" /\ work[p].port = p /\ work[p].todo = {}
        /\ work[p].own \in SegIds /\ segs' = segs
    BY <1>0, <1>6, IdleRecord DEF CommitBinding, At, Shape, Holds
  <2>2. CASE Ends(p) /\ bound' = bound
    BY <1>0, <2>2, EndedUndisturbed, SerialKept
  <2>3. CASE /\ segs[work[p].own] # Free /\ Moves(p, "sync") /\ bound' = bound \cup {p}
             /\ levels' = [levels EXCEPT ![<<p, HostOf[p]>>] = work[p].own]
    <3>1. Footprint(p, work[p].port)' = Footprint(p, work[p].port)
      BY <1>1, <2>3 DEF Footprint, SubportsOf
    <3>2. Undisturbed(p)'
      BY <1>0, <2>1, <2>3, <3>1 DEF Undisturbed, Adds
    <3>3. segs[work[p].own].net = NetOf[p] /\ segs[work[p].own].phys = PhysOf[p]
      BY Constants, <1>0, <2>1, <2>3 DEF KInv, SegmentsKnown, IsOrWas
    <3>4. <<p, HostOf[p]>> \in Rows /\ levels \in [Rows -> SegIds \cup {NoSeg}]
      BY <1>0, RowOfPort DEF LInv, TypeOK
    <3>5. GoodLevel(p, p)'
      BY Constants, <2>1, <2>3, <3>3, <3>4 DEF GoodLevel
    <3>6. ASSUME NEW s \in SubportsOf(p)  PROVE GoodLevel(s, p)'
      <4>1. s \in Tasks /\ s # p /\ GoodLevel(s, p)
        BY <1>0, <2>1 DEF Undisturbed, SubportsOf, Tasks
      <4>2. levels'[s, HostOf[p]] = levels[s, HostOf[p]]
        BY <2>3, <3>4, <4>1, RowOfPort
      <4> QED BY <1>0, <4>1, <4>2, LevelStays
    <3> QED BY <1>0, <3>2, <3>5, <3>6, SerialKept
  <2> QED BY <1>0, <1>6, <2>2, <2>3, CommitBindingForm
<1>7. CASE FindReleased(p)
  <2>1. segs' = segs /\ bound' = bound /\ work[p].op = "delete" /\ work[p].port = p
    BY <1>0, <1>7, IdleRecord DEF FindReleased, At, Shape
  <2>2. CASE Moves(p, "sync")
    <3>1. Footprint(p, work[p].port)' = Footprint(p, work[p].port)
      BY <1>1, <2>2 DEF Footprint, SubportsOf
    <3>2. Undisturbed(p)'
      BY <1>0, <2>1, <2>2, <3>1 DEF Undisturbed, Adds
    <3> QED BY <1>0, <2>1, <3>2, SerialKept
  <2>3. CASE \E g \in SegmentsOf(NetOf[p], PhysOf[p]) :
               Becomes(p, "delete", "check", work[p].port, work[p].own, g, work[p].todo, work[p].cur)
    <3>1. PICK g \in SegmentsOf(NetOf[p], PhysOf[p]) :
               Becomes(p, "delete", "check", work[p].port, work[p].own, g, work[p].todo, work[p].cur)
      BY <2>3
    <3>2. segs[g].net = NetOf[p] /\ segs[g] # Free
      BY <1>0, FoundSegments DEF SegmentsOf
    <3>3. NetOf[p] \in Footprint(p, work[p].port)'
      BY DEF Footprint
    <3>4. Undisturbed(p)'
      BY <1>0, <2>1, <3>1, <3>2, <3>3 DEF Undisturbed, Adds
    <3> QED BY <1>0, <2>1, <3>4, SerialKept
  <2> QED BY <1>0, <1>7, <2>2, <2>3, FindReleasedForm
<1>8. CASE ReleaseSegmentIfUnused(p)
  <2>1. /\ segs' = segs /\ bound' = bound /\ levels' = levels
        /\ work[p].op = "delete" /\ work[p].port = p /\ work[p].pc = "check"
    BY <1>0, <1>8, IdleRecord DEF ReleaseSegmentIfUnused, At, Shape
  <2>2. PICK pc \in {"sync", "free"} : Moves(p, pc) /\ (pc = "free" => ~InUse(work[p].seg))
    BY <1>0, <1>8, ReleaseIfUnusedForm
  <2>3. Footprint(p, work[p].port)' = Footprint(p, work[p].port)
    BY <1>1, <2>2 DEF Footprint, SubportsOf
  <2>4. pc = "free" => ~InUse(work[p].seg)'
    BY <2>1, <2>2 DEF InUse
  <2>5. Undisturbed(p)'
    BY <1>0, <2>1, <2>2, <2>3, <2>4 DEF Undisturbed, Adds
  <2> QED BY <1>0, <2>1, <2>5, SerialKept
<1> QED BY <1>3, <1>4, <1>5, <1>6, <1>7, <1>8 DEF PortWork

LEMMA SubportSerial ==
  ASSUME KInv, SInv, NEW s \in Subports,
         \/ \E p \in Ports, op \in Adds : AddSubport(s, p, op)
         \/ RemoveSubport(s) \/ SubportWork(s)
  PROVE  SInv'
<1> USE DEF Becomes, OnlyWork, Moves, Ends
<1>0. /\ KInv' /\ LInv /\ StepOf(s) /\ SerialFrame(s) /\ s \in Tasks /\ s \notin Ports
      /\ Shape(s) /\ Holds(s) /\ Owns(s) /\ Undisturbed(s)
      /\ trunk \in [Subports -> Ports \cup {NoPort}]
  BY Constants, SubportStep, SubportKnown, SubportFrame DEF KInv, LInv, TypeOK, Tasks, SInv
<1>1. UNCHANGED <<segs, levels, bound>> /\ s \notin bound'
  BY <1>0 DEF AddSubport, RemoveSubport, SubportWork, CommitSubport, SubportPostcommit, StepOf
<1>2. CASE \E p \in Ports, op \in Adds : AddSubport(s, p, op)
  <2>1. PICK p \in Ports, op \in Adds : AddSubport(s, p, op)
    BY <1>2
  <2>2. trunk' = trunk
    BY <2>1 DEF AddSubport
  <2>3. Undisturbed(s)'
    <3>1. /\ work'[s].op \in Adds /\ work'[s].own = NoSeg /\ work'[s].seg = NoSeg
          /\ \/ work'[s].pc = "subs" /\ work'[s].todo = {s}
             \/ work'[s].pc = "commit" /\ work'[s].port \notin bound'
      BY <1>0, <1>1, <2>1, AddSubportForm, SMTT(30)
    <3> QED BY <3>1 DEF Undisturbed, Adds
  <2> QED BY <1>0, <1>1, <2>2, <2>3, SerialKept
<1>3. CASE RemoveSubport(s)
  <2>1. trunk'[s] = NoPort
    BY <1>0, <1>3 DEF RemoveSubport
  <2>2. Undisturbed(s)'
    BY <1>0, <1>3, RemoveSubportForm DEF Undisturbed, Adds
  <2>3. NoPort \notin bound
    BY Constants DEF KInv, LInv, TypeOK
  <2> QED BY <1>0, <1>1, <2>1, <2>2, <2>3, SerialKept
<1>4. CASE CommitSubport(s)
  <2>1. /\ trunk' = [trunk EXCEPT ![s] = work[s].port] /\ trunk[s] = NoPort
        /\ work[s].op \in Adds
        /\ work[s].pc = "commit" \/ (work[s].pc = "subs" /\ work[s].todo = {})
    BY <1>0, <1>4, CommitSubportForm DEF CommitSubport, Owns, Adds, Shape
  <2>2. Undisturbed(s)'
    <3>1. CASE Ends(s)
      BY <3>1, EndedUndisturbed
    <3>2. CASE Moves(s, "post")
      <4>1. SubportsOf(work[s].port) \subseteq {q \in Subports : trunk'[q] = work[s].port}
        BY <1>0, <2>1 DEF SubportsOf
      <4>2. Footprint(s, work[s].port) \subseteq Footprint(s, work[s].port)'
        BY <3>2, <4>1, SMTT(30) DEF Footprint, SubportsOf
      <4> QED BY <1>0, <1>1, <2>1, <3>2, <4>2 DEF Undisturbed, Adds
    <3> QED BY <1>0, <1>4, <3>1, <3>2, CommitSubportForm
  <2>3. ASSUME NEW q \in bound, q = trunk'[s]  PROVE GoodLevel(s, q)'
    <3>1. q = work[s].port
      BY <1>0, <2>1, <2>3
    <3>2. GoodLevel(s, q)
      BY <1>0, <2>1, <2>3, <3>1 DEF Undisturbed
    <3> QED BY <1>1, <3>2 DEF GoodLevel
  <2> QED BY <1>0, <1>1, <2>2, <2>3, SerialKept
<1>5. CASE SubportPostcommit(s)
  <2>1. trunk' = trunk /\ work[s].pc = "post" /\ work[s].op \in {"add", "remove"}
    BY <1>0, <1>5, IdleRecord DEF SubportPostcommit, Shape, Adds
  <2>2. CASE Ends(s)
    BY <1>0, <1>1, <2>1, <2>2, EndedUndisturbed, SerialKept
  <2>3. CASE /\ work'[s].op = work[s].op /\ work'[s].pc \in {"sync", "clean"}
             /\ work'[s].port = work[s].port /\ work'[s].own = work[s].own
             /\ work'[s].seg = work[s].seg
    <3>1. Footprint(s, work[s].port)' = Footprint(s, work[s].port)
      BY <2>1, <2>3 DEF Footprint, SubportsOf
    <3>2. Undisturbed(s)'
      BY <1>0, <1>1, <2>1, <2>3, <3>1 DEF Undisturbed, Adds
    <3> QED BY <1>0, <1>1, <2>1, <3>2, SerialKept
  <2> QED BY <1>0, <1>5, <2>2, <2>3, SubportPostcommitForm
<1> QED BY <1>2, <1>3, <1>4, <1>5 DEF SubportWork

LEMMA TaskSerial ==
  ASSUME KInv, SInv, NEW t \in Tasks, TaskWork(t)
  PROVE  SInv'
<1> USE DEF Becomes, OnlyWork, Moves, Ends
<1>0. /\ KInv' /\ LInv /\ StepOf(t) /\ SerialFrame(t)
      /\ Shape(t) /\ Holds(t) /\ Owns(t) /\ Undisturbed(t)
      /\ levels \in [Rows -> SegIds \cup {NoSeg}] /\ segs \in [SegIds -> Segments]
      /\ work[t].todo \subseteq Subports /\ work[t].seg \in SegIds \cup {NoSeg}
      /\ work[t].own \in SegIds \cup {NoSeg}
  BY TaskStep, TaskKnown, TaskFrame DEF KInv, LInv, TypeOK, SInv
<1>1. trunk' = trunk /\ work[t].pc # "idle" /\ bound' = bound
  BY DEF TaskWork, SubportSegment, SubportLevel, CleanSubport, DeleteUnusedSegment,
         ReleaseSegment, CleanDone, Sync
<1>2. /\ work[t] # Idle /\ work[t].port \in Ports
      /\ t \in Ports => work[t].port = t
      /\ SubportsOf(t)' = SubportsOf(t)
  BY Constants, <1>0, <1>1, IdleRecord DEF Shape, SubportsOf
\* It is enough to show that t is not disturbed itself.
<1>3. ASSUME Undisturbed(t)'  PROVE SInv'
  BY <1>0, <1>1, <1>3, SerialKept
<1>4. ASSUME work'[t] = Idle  PROVE SInv'
  BY <1>3, <1>4, EndedUndisturbed
<1>5. ASSUME work'[t].port = work[t].port
      PROVE  Footprint(t, work[t].port)' = Footprint(t, work[t].port)
  BY <1>1, <1>5 DEF Footprint, SubportsOf
<1>6. ASSUME work[t].pc \in {"subs", "level", "clean"}
      PROVE  \A s \in work[t].todo : /\ s \in Tasks /\ NetOf[s] \in Nets
                                     /\ NetOf[s] \in Footprint(t, work[t].port)
                                     /\ <<s, HostFor(t)>> \in Rows
  <2>1. \A s \in work[t].todo : s = t \/ s \in SubportsOf(work[t].port)
    BY <1>0, <1>2, <1>6 DEF Shape, Undisturbed
  <2>2. \A s \in work[t].todo : s \in Tasks
    BY <1>0 DEF Tasks
  <2>3. \A s \in work[t].todo : NetOf[s] \in Footprint(t, work[t].port)
    BY <2>1, FootprintHas
  <2> QED BY Constants, <1>2, <2>2, <2>3, RowOfPort DEF HostFor
<1>7. CASE SubportSegment(t)
  <2>1. levels' = levels /\ work[t].pc = "subs"
    BY <1>7 DEF SubportSegment
  <2>2. CASE Ends(t)
    BY <1>4, <2>2
  <2>3. CASE \E s \in work[t].todo, g \in SegIds :
              /\ GetOrAllocate(NetOf[s], PhysOf[work[t].port], g)
              /\ Becomes(t, work[t].op, "level", work[t].port, work[t].own, g, work[t].todo, s)
    <3>1. PICK s \in work[t].todo, g \in SegIds :
              /\ GetOrAllocate(NetOf[s], PhysOf[work[t].port], g)
              /\ Becomes(t, work[t].op, "level", work[t].port, work[t].own, g, work[t].todo, s)
      BY <2>3
    <3>2. NetOf[s] \in Nets /\ NetOf[s] \in Footprint(t, work[t].port) /\ PhysOf[work[t].port] \in Physnets
      BY Constants, <1>2, <1>6, <2>1
    <3>3. segs'[g].net = NetOf[s]
      <4>1. LInv /\ SegmentsKnown /\ GetOrAllocate(NetOf[s], PhysOf[work[t].port], g)
        BY <3>1 DEF KInv
      <4>2. NetOf[s] \in Nets /\ PhysOf[work[t].port] \in Physnets /\ levels' = levels
        BY <2>1, <3>2
      <4> QED BY <4>1, <4>2, AllocateKeeps
    <3>4. segs'[g] # Free
      BY Constants, <3>2, <3>3, SMTT(30) DEF Free
    <3>5. work[t].own # NoSeg => segs'[work[t].own] # Free
      BY <1>0, <3>1, OnlyNewSegments DEF Undisturbed
    <3>6. work[t].op = "bind" => \A r \in SubportsOf(t) \ work[t].todo : GoodLevel(r, t)'
      <4>1. work[t].op = "bind" =>
              \A r \in SubportsOf(t) \ work[t].todo : r \in Tasks /\ t \in Ports /\ GoodLevel(r, t)
        BY <1>0, <1>2, <2>1 DEF Undisturbed, SubportsOf, Tasks, Shape, Adds
      <4> QED BY <1>0, <2>1, <4>1, LevelStays
    <3>7. Undisturbed(t)'
      BY <1>0, <1>2, <1>5, <3>1, <3>2, <3>3, <3>4, <3>5, <3>6 DEF Undisturbed
    <3> QED BY <1>3, <3>7
  <2> QED BY <1>0, <1>7, <2>2, <2>3, SubportSegmentForm
<1>8. CASE SubportLevel(t)
  <2>1. segs' = segs /\ work[t].pc = "level" /\ work[t].cur \in work[t].todo /\ work[t].seg \in SegIds
    BY <1>0, <1>8 DEF SubportLevel, Holds
  <2>2. CASE Ends(t)
    BY <1>4, <2>2
  <2>3. CASE /\ segs[work[t].seg] # Free
             /\ levels' = [levels EXCEPT ![<<work[t].cur, HostFor(t)>>] = work[t].seg]
             /\ Becomes(t, work[t].op, "subs", work[t].port, work[t].own, NoSeg,
                        work[t].todo \ {work[t].cur}, NoPort)
    <3>1. /\ segs[work[t].seg].net = NetOf[work[t].cur]
          /\ segs[work[t].seg].phys = PhysOf[work[t].port]
      BY <2>1, <2>3 DEF KInv, SegmentsKnown, IsOrWas
    <3>2. <<work[t].cur, HostFor(t)>> \in Rows
      BY <1>6, <2>1
    <3>4. \A q \in Ports, r \in Tasks : q = work[t].port /\ r = work[t].cur => GoodLevel(r, q)'
      BY Constants, <1>0, <2>1, <2>3, <3>1, <3>2 DEF GoodLevel, HostFor
    <3>5. ASSUME work[t].op = "bind", NEW r \in SubportsOf(t) \ (work[t].todo \ {work[t].cur})
          PROVE  GoodLevel(r, t)'
      <4>0. r \in Tasks /\ t \in Ports /\ work[t].port = t
        BY <1>0, <1>2, <3>5 DEF SubportsOf, Tasks, Shape, Adds
      <4>1. CASE r = work[t].cur
        BY <3>4, <4>0, <4>1
      <4>2. CASE r # work[t].cur
        <5>1. GoodLevel(r, t)
          BY <1>0, <2>1, <3>5, <4>2 DEF Undisturbed
        <5>2. levels'[r, HostOf[t]] = levels[r, HostOf[t]]
          BY <1>0, <2>3, <3>2, <4>0, <4>2, RowOfPort
        <5> QED BY <1>0, <4>0, <5>1, <5>2, LevelStays
      <4> QED BY <4>1, <4>2
    <3>6. ASSUME work[t].op \in Adds  PROVE GoodLevel(t, work[t].port)'
      <4>1. work[t].cur = t
        BY <1>0, <1>2, <2>1, <3>6 DEF Shape, Adds
      <4>2. \A q \in Ports : q = work[t].port => GoodLevel(t, q)'
        BY <3>4, <4>1
      <4> QED BY <1>2, <2>3, <4>2 DEF GoodLevel
    <3>7. Undisturbed(t)'
      <4>1. work[t].op = "bind" \/ work[t].op \in Adds
        BY <1>0, <1>2, <2>1 DEF Shape
      <4>2. /\ work'[t].op = work[t].op /\ work'[t].pc = "subs" /\ work'[t].seg = NoSeg
            /\ work'[t].own = work[t].own /\ work'[t].todo = work[t].todo \ {work[t].cur}
        BY <2>3
      <4>3. work[t].op = "bind" => work'[t].todo \subseteq SubportsOf(t)'
        BY <1>0, <1>2, <4>2 DEF Undisturbed
      <4>4. work[t].op = "bind" => \A r \in SubportsOf(t)' \ work'[t].todo : GoodLevel(r, t)'
        BY <1>2, <3>5, <4>2
      <4> QED BY <1>0, <2>1, <3>6, <4>1, <4>2, <4>3, <4>4 DEF Undisturbed, Adds
    <3> QED BY <1>3, <3>7
  <2> QED BY <1>0, <1>8, <2>2, <2>3, SubportLevelForm
<1>9. CASE CleanSubport(t)
  <2>1. segs' = segs /\ work[t].pc = "clean" /\ work[t].op # "bind" /\ work[t].op \notin Adds
    BY <1>0, <1>2, <1>9 DEF CleanSubport, Shape, Adds
  <2>2. PICK s \in work[t].todo :
           \/ Becomes(t, work[t].op, "clean", work[t].port, work[t].own, work[t].seg,
                      work[t].todo \ {s}, work[t].cur)
           \/ /\ levels[<<s, HostFor(t)>>] # NoSeg
              /\ Becomes(t, work[t].op, "checkSub", work[t].port, work[t].own,
                         levels[<<s, HostFor(t)>>], work[t].todo \ {s}, work[t].cur)
    BY <1>0, <1>9, CleanSubportForm
  <2>3. work'[t].seg # NoSeg => /\ segs[work'[t].seg] # Free
                                /\ segs[work'[t].seg].net \in Footprint(t, work[t].port)
    <3>1. CASE work'[t].seg = work[t].seg
      BY <1>0, <3>1 DEF Undisturbed
    <3>2. CASE work'[t].seg = levels[<<s, HostFor(t)>>] /\ levels[<<s, HostFor(t)>>] # NoSeg
      <4>1. segs[work'[t].seg].net = NetOf[s]
        BY <1>6, <2>1, <3>2 DEF KInv, SegmentsKnown
      <4> QED BY <1>6, <2>1, <4>1, NetIsNotFree
    <3> QED BY <2>2, <3>1, <3>2
  <2>4. /\ work'[t].port = work[t].port /\ work'[t].op = work[t].op /\ work'[t].own = work[t].own
        /\ work'[t].todo \subseteq work[t].todo /\ work'[t].pc \in {"clean", "checkSub"}
    BY <2>2
  <2>5. Undisturbed(t)'
    BY <1>0, <1>2, <1>5, <2>1, <2>3, <2>4 DEF Undisturbed
  <2> QED BY <1>3, <2>5
<1>10. CASE DeleteUnusedSegment(t)
  <2>1. /\ UNCHANGED <<segs, levels>> /\ work[t].pc = "checkSub"
        /\ work[t].op # "bind" /\ work[t].op \notin Adds
    BY <1>0, <1>2, <1>10 DEF DeleteUnusedSegment, Shape, Adds
  <2>2. CASE Ends(t)
    BY <1>4, <2>2
  <2>3. CASE \E pc \in {"clean", "free"} : Moves(t, pc) /\ (pc = "free" => ~InUse(work[t].seg))
    <3>1. work'[t].pc = "free" => ~InUse(work[t].seg)'
      BY <2>1, <2>3 DEF InUse
    <3>2. Undisturbed(t)'
      BY <1>0, <1>2, <1>5, <2>1, <2>3, <3>1 DEF Undisturbed
    <3> QED BY <1>3, <3>2
  <2> QED BY <1>0, <1>10, <2>2, <2>3, DeleteUnusedSegmentForm
<1>11. CASE ReleaseSegment(t)
  <2>1. /\ work[t].pc = "free" /\ work[t].op # "bind" /\ work[t].op \notin Adds /\ work[t].own = NoSeg
    BY <1>0, <1>2, <1>11 DEF ReleaseSegment, Shape, Adds, Holds
  <2>2. /\ work'[t].pc \in {"sync", "clean"} /\ work'[t].seg = NoSeg /\ work'[t].own = NoSeg
        /\ work'[t].op = work[t].op /\ work'[t].todo = work[t].todo
    BY <1>0, <1>11, <2>1, ReleaseSegmentForm
  <2>3. Undisturbed(t)'
    BY <1>0, <1>2, <2>1, <2>2 DEF Undisturbed
  <2> QED BY <1>3, <2>3
<1>12. CASE CleanDone(t)
  <2>1. UNCHANGED segs /\ Moves(t, "sync") /\ work[t].op # "bind" /\ work[t].op \notin Adds
    BY <1>0, <1>2, <1>12, CleanDoneForm DEF CleanDone, Shape, Adds
  <2>2. Undisturbed(t)'
    BY <1>0, <1>2, <1>5, <2>1 DEF Undisturbed
  <2> QED BY <1>3, <2>2
<1>13. CASE Sync(t)
  BY <1>0, <1>4, <1>13, SyncForm
<1> QED BY <1>7, <1>8, <1>9, <1>10, <1>11, <1>12, <1>13 DEF TaskWork

LEMMA SerialStep == ASSUME KInv, SInv, Next  PROVE SInv'
<1>1. CASE \E p \in Ports : BindPort(p) \/ UnbindPort(p) \/ DeletePort(p) \/ PortWork(p)
  BY <1>1, PortSerial
<1>2. CASE \E s \in Subports : \/ \E p \in Ports, op \in Adds : AddSubport(s, p, op)
                               \/ RemoveSubport(s) \/ SubportWork(s)
  BY <1>2, SubportSerial
<1>3. CASE \E t \in Tasks : TaskWork(t)
  BY <1>3, TaskSerial
<1> QED BY <1>1, <1>2, <1>3 DEF Next, Adds
-----------------------------------------------------------------------------
\* The switches.  Either requests on a network do not overlap, or every node has
\* one port; and no trunk is created with subports.
FInv ==
  /\ KInv /\ "addTrunk" \notin env.ops
  /\ SInv \/ OnePortPerHost
  /\ \A x \in Physnets : fabric[x] = Desired(x) \/ \E t \in Tasks : WillSync(t, x)

LEMMA DesiredSame ==
  ASSUME LInv, NEW x, bound' \subseteq Ports,
         \A q \in Ports : PhysOf[q] = x =>
           /\ q \in bound' <=> q \in bound
           /\ q \in bound => /\ SubportsOf(q)' = SubportsOf(q)
                             /\ \A a \in {q} \cup SubportsOf(q) :
                                  levels'[a, HostOf[q]] = levels[a, HostOf[q]]
  PROVE  Desired(x)' = Desired(x)
<1>1. bound \subseteq Ports
  BY DEF LInv, TypeOK
<1>2. ASSUME NEW c \in Tasks \X SegIds
      PROVE  (\E p \in bound' : /\ PhysOf[p] = x /\ c[1] \in {p} \cup SubportsOf(p)'
                                /\ levels'[c[1], HostOf[p]] = c[2])
             <=> (\E p \in bound : /\ PhysOf[p] = x /\ c[1] \in {p} \cup SubportsOf(p)
                                   /\ levels[c[1], HostOf[p]] = c[2])
  BY <1>1
<1> QED BY <1>2 DEF Desired

\* What a step does to the syncs that are due.
SyncFrame(t) ==
  \A x \in Physnets :
    /\ Desired(x)' = Desired(x) \/ WillSync(t, x)'
    /\ fabric'[x] = fabric[x] \/ fabric'[x] = Desired(x)'
    /\ WillSync(t, x) => WillSync(t, x)' \/ fabric'[x] = Desired(x)'
    /\ \A u \in Tasks : u # t /\ WillSync(u, x) => WillSync(u, x)' \/ WillSync(t, x)'

LEMMA SyncKept ==
  ASSUME FInv, KInv', SInv => SInv', NEW t \in Tasks, StepOf(t), SyncFrame(t)
  PROVE  FInv'
<1>1. ASSUME NEW x \in Physnets
      PROVE  fabric'[x] = Desired(x)' \/ \E u \in Tasks : WillSync(u, x)'
  <2>1. CASE fabric[x] = Desired(x)
    BY <2>1 DEF SyncFrame
  <2>2. CASE \E u \in Tasks : WillSync(u, x)
    BY <2>2 DEF SyncFrame
  <2> QED BY <2>1, <2>2 DEF FInv
<1>2. OnePortPerHost' <=> OnePortPerHost
  BY DEF OnePortPerHost, StepOf
<1> QED BY <1>1, <1>2 DEF FInv, StepOf

\* The syncs of others stay due while their segments stay and their port bound.
LEMMA OthersSync ==
  ASSUME LInv, NEW t \in Tasks, StepOf(t), NEW u \in Tasks, u # t, NEW x, WillSync(u, x),
         work[u].pc = "checkSub" => segs'[work[u].seg] # Free \/ segs[work[u].seg] = Free,
         work[u].pc = "post" => work[u].port # t \/ t \in bound'
  PROVE  WillSync(u, x)'
<1>1. work'[u] = work[u]
  BY DEF StepOf
<1>2. work[u].port \in Ports
  BY DEF LInv, Shape, WillSync
<1> QED BY <1>1, <1>2 DEF WillSync, StepOf

LEMMA NoFrame ==
  ASSUME LInv, NEW t \in Tasks, StepOf(t), UNCHANGED <<levels, bound, trunk, fabric>>,
         \A g \in SegIds : segs[g] # Free => segs'[g] # Free,
         \A x \in Physnets : WillSync(t, x) => WillSync(t, x)'
  PROVE  SyncFrame(t)
<1>1. ASSUME NEW x \in Physnets  PROVE Desired(x)' = Desired(x)
  BY DEF Desired, SubportsOf
<1>2. ASSUME NEW x \in Physnets, NEW u \in Tasks, u # t, WillSync(u, x)  PROVE WillSync(u, x)'
  <2>1. work[u].pc = "checkSub" => work[u].seg \in SegIds
    BY DEF LInv, Holds
  <2>2. work[u].pc = "post" /\ work[u].port = t => t \in bound'
    BY <1>2 DEF WillSync
  <2> QED BY <1>2, <2>1, <2>2, OthersSync
<1> QED BY <1>1, <1>2 DEF SyncFrame

LEMMA PortSync ==
  ASSUME FInv, NEW p \in Ports,
         BindPort(p) \/ UnbindPort(p) \/ DeletePort(p) \/ PortWork(p)
  PROVE  SyncFrame(p)
<1> USE DEF Becomes, OnlyWork, Moves, Ends
<1>0. /\ LInv /\ StepOf(p) /\ p \in Tasks /\ p \notin Subports /\ Shape(p) /\ Holds(p) /\ Owns(p)
      /\ levels \in [Rows -> SegIds \cup {NoSeg}] /\ <<p, HostOf[p]>> \in Rows
  BY Constants, PortStep, RowOfPort DEF FInv, KInv, LInv, TypeOK, Tasks
<1>1. trunk' = trunk /\ fabric' = fabric /\ \A g \in SegIds : segs[g] # Free => segs'[g] # Free
  <2>1. CASE BindOwnSegment(p)
    BY <1>0, <2>1, BindOwnSegmentForm, OnlyNewSegments DEF BindOwnSegment
  <2>2. CASE ~BindOwnSegment(p)
    BY <2>2 DEF BindPort, UnbindPort, DeletePort, PortWork, CommitBinding,
         FindReleased, ReleaseSegmentIfUnused
  <2> QED BY <2>1, <2>2
<1>2. CASE BindPort(p)
  <2>1. UNCHANGED <<levels, bound>> /\ work[p] = Idle
    BY <1>2 DEF BindPort, MayStart
  <2> QED BY <1>0, <1>1, <2>1, NoFrame DEF WillSync
<1>3. CASE BindOwnSegment(p)
  <2>1. UNCHANGED <<levels, bound>> /\ work[p].pc = "own"
    BY <1>3 DEF BindOwnSegment, At
  <2> QED BY <1>0, <1>1, <2>1, NoFrame DEF WillSync
<1>4. CASE FindReleased(p) \/ ReleaseSegmentIfUnused(p)
  <2>1. UNCHANGED <<levels, bound>>
    BY <1>4 DEF FindReleased, ReleaseSegmentIfUnused
  <2>2. work'[p].pc \in {"sync", "check", "free"} /\ work'[p].port = work[p].port
    BY <1>0, <1>4, FindReleasedForm, ReleaseIfUnusedForm
  <2>3. work'[p] # Idle
    BY <2>2, IdleRecord
  <2>4. \A x \in Physnets : WillSync(p, x) => WillSync(p, x)'
    BY <2>2, <2>3 DEF WillSync
  <2> QED BY <1>0, <1>1, <2>1, <2>4, NoFrame
<1>5. CASE CommitBinding(p) /\ UNCHANGED <<levels, bound>>
  <2>1. work[p].pc = "subs"
    BY <1>5 DEF CommitBinding, At
  <2> QED BY <1>0, <1>1, <1>5, <2>1, NoFrame DEF WillSync
<1>6. CASE \/ UnbindPort(p) \/ DeletePort(p)
           \/ CommitBinding(p) /\ ~UNCHANGED <<levels, bound>>
  <2>1. work'[p].pc \in {"clean", "find", "sync"} /\ work'[p].port = p
    <3>1. CASE UnbindPort(p)
      BY <1>0, <3>1, UnbindPortForm
    <3>2. CASE DeletePort(p)
      BY <1>0, <3>2, DeletePortForm
    <3>3. CASE CommitBinding(p) /\ ~UNCHANGED <<levels, bound>>
      <4>1. work[p].port = p
        BY <1>0, <3>3, IdleRecord DEF CommitBinding, At, Shape
      <4> QED BY <1>0, <3>3, <4>1, CommitBindingForm
    <3> QED BY <1>6, <3>1, <3>2, <3>3
  <2>2. WillSync(p, PhysOf[p])'
    BY <2>1, IdleRecord DEF WillSync
  <2>3. \E g : levels' = [levels EXCEPT ![<<p, HostOf[p]>>] = g]
    BY <1>0, <1>6, CommitBindingForm DEF UnbindPort, DeletePort
  <2>4. ASSUME NEW x \in Physnets, x # PhysOf[p]  PROVE Desired(x)' = Desired(x)
    <3>1. ASSUME NEW q \in Ports, PhysOf[q] = x, q \in bound, NEW a \in {q} \cup SubportsOf(q)
          PROVE  levels'[a, HostOf[q]] = levels[a, HostOf[q]]
      <4>1. a # p /\ <<a, HostOf[q]>> \in Rows
        BY <1>0, <2>4, <3>1, RowOfPort DEF SubportsOf, Tasks
      <4> QED BY <1>0, <2>3, <4>1
    <3>2. \A q \in Ports : SubportsOf(q)' = SubportsOf(q)
      BY <1>1 DEF SubportsOf
    <3>3. \A q \in Ports : PhysOf[q] = x => (q \in bound' <=> q \in bound)
      BY <1>0, <2>4 DEF StepOf
    <3>4. bound' \subseteq Ports
      BY <1>0 DEF StepOf
    <3> QED BY <1>0, <3>1, <3>2, <3>3, <3>4, DesiredSame
  <2>5. \A x \in Physnets : WillSync(p, x) => x = PhysOf[p]
    BY <1>0 DEF WillSync, Shape
  <2>6. ASSUME NEW x \in Physnets, NEW u \in Tasks, u # p, WillSync(u, x)
        PROVE  WillSync(u, x)' \/ WillSync(p, x)'
    <3>1. CASE work[u].pc = "post" /\ work[u].port = p
      BY <2>2, <2>6, <3>1 DEF WillSync
    <3>2. CASE ~(work[u].pc = "post" /\ work[u].port = p)
      <4>1. work[u].pc = "checkSub" => work[u].seg \in SegIds
        BY <1>0 DEF LInv, Holds
      <4> QED BY <1>0, <1>1, <2>6, <3>2, <4>1, OthersSync
    <3> QED BY <3>1, <3>2
  <2> QED BY <1>1, <2>2, <2>4, <2>5, <2>6 DEF SyncFrame
<1> QED BY <1>2, <1>3, <1>4, <1>5, <1>6 DEF PortWork
LEMMA SubportSync ==
  ASSUME FInv, NEW s \in Subports,
         \/ \E p \in Ports, op \in Adds : AddSubport(s, p, op)
         \/ RemoveSubport(s) \/ SubportWork(s)
  PROVE  SyncFrame(s)
<1> USE DEF Becomes, OnlyWork, Moves, Ends
<1>0. /\ LInv /\ StepOf(s) /\ s \in Tasks /\ s \notin Ports /\ Shape(s) /\ Owns(s)
      /\ trunk \in [Subports -> Ports \cup {NoPort}] /\ bound \subseteq Ports
  BY Constants, SubportStep DEF FInv, KInv, LInv, TypeOK, Tasks
<1>1. UNCHANGED <<segs, levels, bound, fabric>>
  BY DEF AddSubport, RemoveSubport, SubportWork, CommitSubport, SubportPostcommit
<1>2. CASE \E p \in Ports, op \in Adds : AddSubport(s, p, op)
  <2>1. trunk' = trunk /\ work[s] = Idle
    BY <1>2 DEF AddSubport, MayStart
  <2> QED BY <1>0, <1>1, <2>1, NoFrame DEF WillSync
<1>3. CASE SubportPostcommit(s)
  <2>1. trunk' = trunk /\ work[s].pc = "post"
    BY <1>3 DEF SubportPostcommit
  <2>2. work[s].port \in bound =>
          work'[s].pc \in {"sync", "clean"} /\ work'[s].port = work[s].port
    BY <1>0, <1>3, SubportPostcommitForm
  <2>3. \A x \in Physnets : WillSync(s, x) => WillSync(s, x)'
    BY <2>1, <2>2, IdleRecord DEF WillSync
  <2> QED BY <1>0, <1>1, <2>1, <2>3, NoFrame
<1>4. CASE RemoveSubport(s) \/ CommitSubport(s)
  <2>1. /\ work'[s].pc = "post" /\ work'[s].port \in Ports
        /\ {trunk[s], trunk'[s]} = {NoPort, work'[s].port}
        /\ work[s].pc \in {"idle", "commit", "subs"}
    <3>1. CASE RemoveSubport(s)
      <4>1. trunk[s] \in Ports /\ work[s] = Idle /\ trunk'[s] = NoPort
        BY <1>0, <3>1 DEF RemoveSubport, MayStart
      <4> QED BY <1>0, <3>1, <4>1, RemoveSubportForm, IdleRecord
    <3>2. CASE CommitSubport(s)
      <4>1. work[s].pc \in {"commit", "subs"}
        BY <3>2 DEF CommitSubport
      <4>2. work[s] # Idle /\ work[s].op # "addTrunk"
        BY <4>1, <1>0, IdleRecord DEF FInv, LInv, Bounds
      <4>3. work[s].op = "add" /\ work'[s].pc = "post" /\ work'[s].port = work[s].port
        BY <1>0, <3>2, <4>2, CommitSubportForm
      <4>4. work[s].port \in Ports /\ trunk[s] = NoPort
        BY <1>0, <4>1, <4>2, <4>3 DEF Shape, Owns, Adds
      <4>5. trunk'[s] = work[s].port
        BY <1>0, <3>2 DEF CommitSubport
      <4> QED BY <4>1, <4>3, <4>4, <4>5
    <3> QED BY <1>4, <3>1, <3>2
  <2>2. ASSUME NEW x \in Physnets, ~WillSync(s, x)'  PROVE Desired(x)' = Desired(x)
    <3>1. PhysOf[work'[s].port] # x \/ work'[s].port \notin bound'
      BY <2>1, <2>2, IdleRecord DEF WillSync
    <3>2. ASSUME NEW q \in Ports, PhysOf[q] = x, q \in bound  PROVE SubportsOf(q)' = SubportsOf(q)
      <4>1. q \notin {trunk[s], trunk'[s]}
        BY Constants, <1>1, <2>1, <3>1, <3>2
      <4> QED BY <1>0, <4>1 DEF SubportsOf, StepOf
    <3> QED BY <1>0, <1>1, <3>2, DesiredSame
  <2>3. ASSUME NEW x \in Physnets, NEW u \in Tasks, u # s, WillSync(u, x)  PROVE WillSync(u, x)'
    <3>1. work[u].pc = "post" => work[u].port # s
      BY <1>0, <2>3 DEF LInv, Shape, WillSync
    <3> QED BY <1>0, <1>1, <2>3, <3>1, OthersSync
  <2>4. \A x \in Physnets : ~WillSync(s, x)
    BY <2>1 DEF WillSync
  <2> QED BY <1>1, <2>2, <2>3, <2>4 DEF SyncFrame
<1> QED BY <1>2, <1>3, <1>4 DEF SubportWork

\* The rows that a request writes for subports are not those of a bound port.
LEMMA SubportRows ==
  ASSUME FInv, NEW t \in Tasks, work[t] # Idle,
         NEW s \in work[t].todo, work[t].pc \in {"level", "clean"},
         NEW q \in Ports, q \in bound, s \in SubportsOf(q), HostOf[q] = HostFor(t)
  PROVE  FALSE
<1>1. /\ LInv /\ Shape(t) /\ Owns(t) /\ Bounds /\ q \in env.tasks
      /\ work[t].port \in Ports \cap env.tasks /\ s \in Subports /\ trunk[s] = q
  BY DEF FInv, KInv, LInv, Shape, Bounds, TypeOK, SubportsOf
<1>2. CASE t \in Subports
  BY Constants, <1>1, <1>2 DEF Shape, Owns, Adds
<1>3. CASE t \in Ports
  <2>1. t \notin bound /\ work[t].port = t /\ work[t].op \in {"bind", "unbind"}
    BY Constants, <1>1, <1>3 DEF Shape, Owns, Adds
  <2>2. CASE SInv
    BY <1>1, <2>1, <2>2 DEF SInv, Undisturbed, SubportsOf
  <2>3. CASE OnePortPerHost
    BY <1>1, <2>1, <2>3 DEF OnePortPerHost, HostFor
  <2> QED BY <2>2, <2>3 DEF FInv
<1> QED BY <1>2, <1>3 DEF Tasks

LEMMA RowsOnly ==
  ASSUME FInv, NEW t \in Tasks, work[t] # Idle, StepOf(t),
         NEW s \in work[t].todo, work[t].pc \in {"level", "clean"},
         NEW g, levels' = [levels EXCEPT ![<<s, HostFor(t)>>] = g],
         UNCHANGED <<bound, trunk>>, NEW x \in Physnets
  PROVE  Desired(x)' = Desired(x)
<1>1. /\ LInv /\ s \in Subports /\ work[t].port \in Ports
      /\ levels \in [Rows -> SegIds \cup {NoSeg}] /\ bound \subseteq Ports
  BY SMTT(30) DEF FInv, KInv, LInv, Shape, TypeOK
<1>2. ASSUME NEW q \in Ports, q \in bound, NEW a \in {q} \cup SubportsOf(q)
      PROVE  levels'[a, HostOf[q]] = levels[a, HostOf[q]]
  <2>1. <<a, HostOf[q]>> \in Rows
    BY <1>2, RowOfPort DEF SubportsOf, Tasks
  <2>2. <<a, HostOf[q]>> # <<s, HostFor(t)>>
    BY Constants, <1>1, <1>2, SubportRows
  <2> QED BY <1>1, <2>1, <2>2
<1>3. \A q \in Ports : SubportsOf(q)' = SubportsOf(q)
  BY DEF SubportsOf
<1> QED BY <1>1, <1>2, <1>3, DesiredSame

LEMMA TaskSync ==
  ASSUME FInv, NEW t \in Tasks, TaskWork(t), SInv => SInv'
  PROVE  SyncFrame(t)
<1> USE DEF Becomes, OnlyWork, Moves, Ends
<1>0. /\ KInv /\ LInv /\ StepOf(t) /\ Shape(t) /\ Holds(t) /\ SegmentsKnown /\ LevelsInPhysnet
      /\ levels \in [Rows -> SegIds \cup {NoSeg}] /\ segs \in [SegIds -> Segments]
  BY TaskStep DEF FInv, KInv, LInv, TypeOK
<1>1. UNCHANGED <<bound, trunk>> /\ work[t] # Idle /\ work[t].port \in Ports
  BY <1>0, IdleRecord DEF TaskWork, SubportSegment, SubportLevel, CleanSubport,
     DeleteUnusedSegment, ReleaseSegment, CleanDone, Sync, Shape
<1>2. ASSUME \A g \in SegIds : segs[g] # Free => segs'[g] # Free
      PROVE  \A x \in Physnets : \A u \in Tasks : u # t /\ WillSync(u, x) => WillSync(u, x)'
  <2>1. ASSUME NEW u \in Tasks  PROVE work[u].pc = "checkSub" => work[u].seg \in SegIds
    BY <1>0 DEF LInv, Holds
  <2>2. ASSUME NEW x \in Physnets, NEW u \in Tasks, u # t, WillSync(u, x)
        PROVE  work[u].pc = "post" => work[u].port # t \/ t \in bound'
    BY <1>1, <2>2 DEF WillSync
  <2> QED BY <1>0, <1>2, <2>1, <2>2, OthersSync
<1>3. CASE SubportSegment(t)
  <2>1. \A g \in SegIds : segs[g] # Free => segs'[g] # Free
    BY <1>0, <1>3, SubportSegmentForm, OnlyNewSegments
  <2>2. UNCHANGED <<levels, fabric>> /\ work[t].pc = "subs"
    BY <1>3 DEF SubportSegment
  <2> QED BY <1>0, <1>1, <2>1, <2>2, NoFrame DEF WillSync
<1>4. CASE SubportLevel(t)
  <2>1. work[t].pc = "level" /\ UNCHANGED <<segs, fabric>>
    BY <1>4 DEF SubportLevel
  <2>2. work[t].cur \in work[t].todo
    BY <1>0, <2>1 DEF Holds
  <2>3. CASE UNCHANGED levels
    BY <1>0, <1>1, <2>1, <2>3, NoFrame DEF WillSync
  <2>4. CASE \E g : levels' = [levels EXCEPT ![<<work[t].cur, HostFor(t)>>] = g]
    <3>1. \A x \in Physnets : Desired(x)' = Desired(x)
      BY <1>0, <1>1, <2>1, <2>2, <2>4, RowsOnly
    <3> QED BY <1>2, <2>1, <3>1 DEF SyncFrame, WillSync
  <2> QED BY <1>0, <1>4, <2>3, <2>4, SubportLevelForm
<1>5. CASE CleanSubport(t)
  <2>1. work[t].pc = "clean" /\ UNCHANGED <<segs, fabric>>
    BY <1>5 DEF CleanSubport
  <2>2. PICK s \in work[t].todo :
          \/ work'[t].pc = "clean" /\ work'[t].port = work[t].port /\ UNCHANGED levels
          \/ /\ levels[<<s, HostFor(t)>>] # NoSeg
             /\ work'[t].pc = "checkSub" /\ work'[t].port = work[t].port
             /\ work'[t].seg = levels[<<s, HostFor(t)>>]
             /\ levels' = [levels EXCEPT ![<<s, HostFor(t)>>] = NoSeg]
    BY <1>0, <1>5, CleanSubportForm
  <2>3. CASE work'[t].pc = "clean" /\ work'[t].port = work[t].port /\ UNCHANGED levels
    <3>1. \A x \in Physnets : WillSync(t, x) => WillSync(t, x)'
      BY <2>3, IdleRecord DEF WillSync
    <3> QED BY <1>0, <1>1, <2>1, <2>3, <3>1, NoFrame
  <2>4. CASE /\ levels[<<s, HostFor(t)>>] # NoSeg
             /\ work'[t].pc = "checkSub" /\ work'[t].port = work[t].port
             /\ work'[t].seg = levels[<<s, HostFor(t)>>]
             /\ levels' = [levels EXCEPT ![<<s, HostFor(t)>>] = NoSeg]
    <3>1. s \in Tasks /\ <<s, HostFor(t)>> \in Rows
      BY <1>0, <1>1, RowOfPort DEF LInv, TypeOK, Tasks, HostFor
    <3>2. segs[work'[t].seg].net \in Nets
      BY Constants, <1>0, <2>4, <3>1 DEF SegmentsKnown
    <3>3. segs'[work'[t].seg] # Free
      BY <2>1, <3>2, NetIsNotFree
    <3>4. \A x \in Physnets : WillSync(t, x) => WillSync(t, x)'
      BY <2>4, <3>3, IdleRecord DEF WillSync
    <3>5. \A x \in Physnets : Desired(x)' = Desired(x)
      BY <1>0, <1>1, <2>1, <2>4, RowsOnly
    <3> QED BY <1>2, <2>1, <3>4, <3>5 DEF SyncFrame
  <2> QED BY <2>2, <2>3, <2>4
<1>6. CASE DeleteUnusedSegment(t) \/ CleanDone(t)
  <2>1. UNCHANGED <<segs, levels, fabric>>
    BY <1>6 DEF DeleteUnusedSegment, CleanDone
  <2>2. \/ work[t].pc = "checkSub" /\ segs[work[t].seg] = Free
        \/ work'[t].pc \in {"clean", "free", "sync"} /\ work'[t].port = work[t].port
    BY <1>0, <1>6, DeleteUnusedSegmentForm, CleanDoneForm DEF DeleteUnusedSegment
  <2>3. \A x \in Physnets : WillSync(t, x) => WillSync(t, x)'
    BY <2>2, IdleRecord DEF WillSync
  <2> QED BY <1>0, <1>1, <2>1, <2>3, NoFrame
<1>7. CASE Sync(t)
  <2>1. /\ UNCHANGED <<segs, levels>> /\ PhysOf[work[t].port] \in Physnets
        /\ fabric' = [fabric EXCEPT ![PhysOf[work[t].port]] = Desired(PhysOf[work[t].port])]
        /\ fabric \in [Physnets -> SUBSET (Tasks \X SegIds)]
    BY Constants, <1>0, <1>1, <1>7 DEF Sync, LInv, TypeOK
  <2>2. \A x \in Physnets : Desired(x)' = Desired(x)
    BY <1>1, <2>1 DEF Desired, SubportsOf
  <2> QED BY <1>2, <2>1, <2>2 DEF SyncFrame, WillSync
<1>8. CASE ReleaseSegment(t)
  <2> DEFINE g == work[t].seg
             y == PhysOf[work[t].port]
  <2>1. /\ g \in SegIds /\ fabric' = fabric /\ work[t].pc = "free"
        /\ segs' = [segs EXCEPT ![g] = Free]
        /\ levels' = [w \in Rows |-> IF levels[w] = g THEN NoSeg ELSE levels[w]]
    BY <1>0, <1>8 DEF ReleaseSegment, Holds
  <2>2. work'[t].pc \in {"clean", "sync"} /\ work'[t].port = work[t].port
    BY <1>0, <1>8, ReleaseSegmentForm
  <2>3. \A x \in Physnets : x = y => WillSync(t, x)'
    BY <2>2, IdleRecord DEF WillSync
  <2>4. ASSUME NEW x \in Physnets, x # y  PROVE Desired(x)' = Desired(x)
    <3>1. ASSUME NEW q \in Ports, PhysOf[q] = x, q \in bound, NEW a \in {q} \cup SubportsOf(q)
          PROVE  levels'[a, HostOf[q]] = levels[a, HostOf[q]]
      <4>1. a \in Tasks /\ <<a, HostOf[q]>> \in Rows
        BY <3>1, RowOfPort DEF SubportsOf, Tasks
      <4>2. levels[a, HostOf[q]] # g
        <5>1. CASE SInv
          BY <2>1, <4>1, <5>1 DEF SInv, Undisturbed, InUse
        <5>2. CASE OnePortPerHost
          <6>1. q \in Ports \cap env.tasks
            BY <1>0, <3>1 DEF LInv, Bounds
          <6>2. segs[g] = Free \/ segs[g].phys = y
            BY Constants, <1>0, <2>1, <5>2 DEF LevelsInPhysnet
          <6>3. levels[a, HostOf[q]] = g => segs[g].phys = x /\ segs[g].net = NetOf[a]
            <7>1. levels[a, HostOf[q]] # NoSeg => segs[levels[a, HostOf[q]]].phys = PhysOf[q]
              BY <1>0, <4>1, <5>2, <6>1 DEF LevelsInPhysnet
            <7>2. levels[<<a, HostOf[q]>>] = g => segs[g].net = NetOf[<<a, HostOf[q]>>[1]]
              BY Constants, <1>0, <2>1, <4>1 DEF SegmentsKnown
            <7> QED BY Constants, <2>1, <3>1, <7>1, <7>2
          <6>4. NetOf[a] \in Nets
            BY Constants, <4>1
          <6> QED BY <2>4, <6>2, <6>3, <6>4, NetIsNotFree
        <5> QED BY <5>1, <5>2 DEF FInv
      <4> QED BY <2>1, <4>1, <4>2
    <3>2. \A q \in Ports : SubportsOf(q)' = SubportsOf(q)
      BY <1>1 DEF SubportsOf
    <3>3. bound' \subseteq Ports
      BY <1>0 DEF StepOf
    <3> QED BY <1>0, <1>1, <3>1, <3>2, <3>3, DesiredSame
  <2>5. ASSUME NEW x \in Physnets, NEW u \in Tasks, u # t, WillSync(u, x)
        PROVE  WillSync(u, x)' \/ WillSync(t, x)'
    <3>1. work[u].pc = "post" => work[u].port # t \/ t \in bound'
      BY <1>1, <2>5 DEF WillSync
    <3>2. CASE work[u].pc = "checkSub" /\ work[u].seg = g
      <4>1. segs[g] # Free /\ x = PhysOf[work[u].port] /\ work'[u] = work[u]
        BY <1>0, <2>5, <3>2 DEF WillSync, StepOf
      <4>2. CASE SInv
        <5>1. segs'[g] # Free
          BY Constants, <2>1, <3>2, <4>1, <4>2 DEF SInv, Undisturbed
        <5> QED BY <1>0, <2>1, <5>1
      <4>3. CASE OnePortPerHost
        <5>1. segs[g].phys = y /\ segs[g].phys = x
          BY Constants, <1>0, <2>1, <3>2, <4>1, <4>3 DEF LevelsInPhysnet
        <5> QED BY <2>3, <5>1
      <4> QED BY <4>2, <4>3 DEF FInv
    <3>3. CASE ~(work[u].pc = "checkSub" /\ work[u].seg = g)
      <4>1. work[u].pc = "checkSub" => work[u].seg \in SegIds
        BY <1>0 DEF LInv, Holds
      <4>2. work[u].pc = "checkSub" => segs'[work[u].seg] = segs[work[u].seg]
        BY <1>0, <2>1, <3>3, <4>1
      <4> QED BY <1>0, <2>5, <3>1, <4>2, OthersSync
    <3> QED BY <3>2, <3>3
  <2>6. \A x \in Physnets : WillSync(t, x) => x = y
    BY DEF WillSync
  <2> QED BY <2>1, <2>3, <2>4, <2>5, <2>6 DEF SyncFrame
<1> QED BY <1>3, <1>4, <1>5, <1>6, <1>7, <1>8 DEF TaskWork

LEMMA SyncStep == ASSUME FInv, Next  PROVE FInv'
<1>1. KInv' /\ (SInv => SInv')
  BY KnownStep, SerialStep DEF FInv
<1>2. CASE \E p \in Ports : BindPort(p) \/ UnbindPort(p) \/ DeletePort(p) \/ PortWork(p)
  <2>1. PICK p \in Ports : BindPort(p) \/ UnbindPort(p) \/ DeletePort(p) \/ PortWork(p)
    BY <1>2
  <2>2. p \in Tasks /\ StepOf(p) /\ SyncFrame(p)
    BY <2>1, PortStep, PortSync DEF FInv, KInv, Tasks
  <2> QED BY <1>1, <2>2, SyncKept
<1>3. CASE \E s \in Subports : \/ \E p \in Ports, op \in Adds : AddSubport(s, p, op)
                               \/ RemoveSubport(s) \/ SubportWork(s)
  <2>1. PICK s \in Subports : \/ \E p \in Ports, op \in Adds : AddSubport(s, p, op)
                              \/ RemoveSubport(s) \/ SubportWork(s)
    BY <1>3
  <2>2. s \in Tasks /\ StepOf(s) /\ SyncFrame(s)
    BY <2>1, SubportStep, SubportSync DEF FInv, KInv, Tasks
  <2> QED BY <1>1, <2>2, SyncKept
<1>4. CASE \E t \in Tasks : TaskWork(t)
  <2>1. PICK t \in Tasks : TaskWork(t)
    BY <1>4
  <2>2. StepOf(t) /\ SyncFrame(t)
    BY <1>1, <2>1, TaskStep, TaskSync DEF FInv, KInv
  <2> QED BY <1>1, <2>1, <2>2, SyncKept
<1> QED BY <1>2, <1>3, <1>4 DEF Next, Adds

-----------------------------------------------------------------------------
LEMMA InvariantParts ==
  SegIInv <=> /\ KInv /\ (env.serial => SInv)
              /\ ("addTrunk" \notin env.ops /\ (env.serial \/ OnePortPerHost) => FInv)
<1>1. env.serial \in BOOLEAN \/ ~TypeOK
  BY SegmentAssumption DEF TypeOK
<1> QED BY <1>1 DEF SegIInv, KInv, LInv, SInv, FInv, SerialInv, SyncAhead

LEMMA SegInitial == Init => SegIInv
<1> SUFFICES ASSUME Init  PROVE SegIInv
  OBVIOUS
<1> USE SegmentAssumption DEF Init
<1>1. TypeOK
  <2>1. Idle \in [op : Requests \cup {"none"}, pc : Pcs, port : Ports \cup {NoPort},
                  own : SegIds \cup {NoSeg}, seg : SegIds \cup {NoSeg},
                  todo : SUBSET Subports, cur : Subports \cup {NoPort}]
    BY DEF Idle, Pcs
  <2> QED BY <2>1, SMTT(30) DEF TypeOK, Pcs
<1>2. \A t \in Tasks : work[t] = Idle
  OBVIOUS
<1>3. \A t \in Tasks : Shape(t) /\ Holds(t) /\ Owns(t)
  BY <1>2, IdleRecord DEF Shape, Holds, Owns, Adds
<1>4. Bounds
  BY <1>2 DEF Bounds
<1>5. SegmentsKnown /\ LevelsInPhysnet
  <2>1. \A t \in Tasks, p \in Ports : levels[t, HostOf[p]] = NoSeg
    BY RowOfPort
  <2> QED BY <1>2, <2>1, IdleRecord DEF SegmentsKnown, LevelsInPhysnet
<1>6. SerialInv
  BY <1>2, IdleRecord DEF SerialInv, Apart, Undisturbed, Adds
<1>7. SyncAhead
  BY DEF SyncAhead, Desired
<1> QED BY <1>1, <1>3, <1>4, <1>5, <1>6, <1>7 DEF SegIInv

LEMMA SegInductive == SegIInv /\ [Next]_vars => SegIInv'
<1> SUFFICES ASSUME SegIInv, [Next]_vars  PROVE SegIInv'
  OBVIOUS
<1>1. CASE Next
  <2>1. env' = env /\ (OnePortPerHost' <=> OnePortPerHost)
    <3>1. env' = env
      BY <1>1 DEF Next, BindPort, UnbindPort, DeletePort, AddSubport, RemoveSubport, PortWork,
         BindOwnSegment, CommitBinding, FindReleased, ReleaseSegmentIfUnused, SubportWork,
         CommitSubport, SubportPostcommit, TaskWork, SubportSegment, SubportLevel, CleanSubport,
         DeleteUnusedSegment, ReleaseSegment, CleanDone, Sync
    <3> QED BY <3>1 DEF OnePortPerHost
  <2>2. KInv'
    BY <1>1, InvariantParts, KnownStep
  <2>3. env.serial => SInv'
    BY <1>1, InvariantParts, SerialStep
  <2>4. "addTrunk" \notin env.ops /\ (env.serial \/ OnePortPerHost) => FInv'
    BY <1>1, InvariantParts, SyncStep
  <2>5. TypeOK' /\ (\A t \in Tasks : Shape(t) /\ Holds(t) /\ Owns(t))' /\ Bounds'
        /\ SegmentsKnown' /\ LevelsInPhysnet'
    BY <2>2 DEF KInv, LInv
  <2>6. SerialInv'
    BY <2>1, <2>3 DEF SInv, SerialInv
  <2>7. SyncAhead'
    BY <2>1, <2>4 DEF FInv, SyncAhead
  <2> QED BY <2>5, <2>6, <2>7 DEF SegIInv
<1>2. CASE UNCHANGED vars
  <2>1. TypeOK' /\ (\A t \in Tasks : Shape(t) /\ Holds(t) /\ Owns(t))' /\ Bounds'
    <3>1. TypeOK'
      BY <1>2 DEF vars, SegIInv, TypeOK
    <3>2. ASSUME NEW t \in Tasks  PROVE Shape(t)' /\ Holds(t)' /\ Owns(t)'
      BY <1>2 DEF vars, SegIInv, Shape, Holds, Owns, SubportsOf
    <3>3. Bounds'
      BY <1>2 DEF vars, SegIInv, Bounds
    <3> QED BY <3>1, <3>2, <3>3
  <2>2. SegmentsKnown' /\ LevelsInPhysnet'
    BY <1>2 DEF vars, SegIInv, SegmentsKnown, LevelsInPhysnet, IsOrWas, OnePortPerHost
  <2>3. SerialInv'
    <3>1. \A p : SubportsOf(p)' = SubportsOf(p)
      BY <1>2 DEF vars, SubportsOf
    <3>2. Apart' <=> Apart
      BY <1>2, <3>1, SMTT(30) DEF vars, Apart, Footprint, SubportsOf
    <3>3. ASSUME NEW t \in Tasks  PROVE Undisturbed(t)' <=> Undisturbed(t)
      <4>1. (InUse(work[t].seg))' <=> InUse(work[t].seg)
        BY <1>2 DEF vars, InUse
      <4> QED BY <1>2, <3>1, <4>1 DEF vars, Undisturbed, GoodLevel, Footprint, SubportsOf
    <3>4. \A p, t : GoodLevel(t, p)' <=> GoodLevel(t, p)
      BY <1>2 DEF vars, GoodLevel
    <3> QED BY <1>2, <3>1, <3>2, <3>3, <3>4 DEF vars, SegIInv, SerialInv
  <2>4. SyncAhead'
    <3>1. \A x : Desired(x)' = Desired(x)
      BY <1>2 DEF vars, Desired, SubportsOf
    <3>2. \A t, x : WillSync(t, x)' <=> WillSync(t, x)
      BY <1>2 DEF vars, WillSync
    <3>3. OnePortPerHost' <=> OnePortPerHost
      BY <1>2 DEF vars, OnePortPerHost
    <3> QED BY <1>2, <3>1, <3>2, <3>3 DEF vars, SegIInv, SyncAhead
  <2> QED BY <2>1, <2>2, <2>3, <2>4 DEF SegIInv
<1> QED BY <1>1, <1>2

LEMMA SegInvariant == Spec => []SegIInv
  BY SegInitial, SegInductive, PTL DEF Spec

\* The tables and the requests keep their types: every binding level names a
\* segment id and every request works on a port.
THEOREM SegmentTypes == Spec => []TypeOK
<1>1. SegIInv => TypeOK
  BY DEF SegIInv
<1> QED BY <1>1, SegInvariant, PTL

\* bind_port, _handle_segment_allocation and the releases of other requests:
\* while requests on one network do not overlap, a bound port and every subport
\* of its trunk have a VLAN of their network in the physnet of the port.
THEOREM VlansOfBoundPorts == Spec => []BoundPortsHaveVlans
<1>1. SegIInv => BoundPortsHaveVlans
  BY DEF SegIInv, SerialInv, GoodLevel, BoundPortsHaveVlans
<1> QED BY <1>1, SegInvariant, PTL

\* release_segment_if_unused and _delete_unused_segment check that a segment is
\* unused in one database access and release it in another: it still is, while
\* requests on one network do not overlap.
THEOREM ReleasesOnlyUnused == Spec => ReleasedOnlyUnused
<1>1. ASSUME SegIInv, Next, NEW g \in SegIds, env.serial, segs[g] # Free, segs'[g] = Free
      PROVE  ~InUse(g)
  <2>1. KInv /\ SInv
    BY <1>1, InvariantParts
  <2>2. \A t \in Tasks : SerialFrame(t) => ~InUse(g)
    BY <1>1 DEF SerialFrame
  <2>3. CASE \E p \in Ports : BindPort(p) \/ UnbindPort(p) \/ DeletePort(p) \/ PortWork(p)
    BY <2>1, <2>2, <2>3, PortFrame DEF Tasks
  <2>4. CASE \E s \in Subports : \/ \E p \in Ports, op \in Adds : AddSubport(s, p, op)
                                 \/ RemoveSubport(s) \/ SubportWork(s)
    BY <2>1, <2>2, <2>4, SubportFrame DEF Tasks
  <2>5. CASE \E t \in Tasks : TaskWork(t)
    BY <2>1, <2>2, <2>5, TaskFrame
  <2> QED BY <1>1, <2>3, <2>4, <2>5 DEF Next, Adds
<1>2. SegIInv /\ [Next]_vars =>
        [\A g \in SegIds : env.serial /\ segs[g] # Free /\ segs'[g] = Free => ~InUse(g)]_vars
  BY <1>1
<1> QED BY <1>2, SegInvariant, PTL DEF Spec, ReleasedOnlyUnused

\* Undersync is called after every change of a VLAN: once no request is under
\* way, the switches of every vlan group have what Neutron says, when requests on
\* one network do not overlap or every node has one port, however they overlap then.
THEOREM FabricFollowsNeutron == Spec => []FabricInSync
<1>1. SegIInv => FabricInSync
  BY DEF SegIInv, SyncAhead, WillSync, FabricInSync, Quiet
<1> QED BY <1>1, SegInvariant, PTL
=============================================================================
