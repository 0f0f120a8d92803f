------------------------ MODULE SegmentBindingSteps -------------------------
(***************************************************************************)
(* The inductive invariant of SegmentBinding, what each step does to the   *)
(* request it is a step of, and the part of the invariant that holds       *)
(* however requests overlap: where a request can be, the segments it holds *)
(* and those the binding levels name.                                      *)
(***************************************************************************)
EXTENDS SegmentBinding, TLAPS

USE ZenonT(40)

Adds == {"add", "addTrunk"}

\* Where each request can be, and on which port it works.
Shape(t) ==
  \/ work[t] = Idle
  \/ /\ work[t].op = "bind" /\ work[t].pc \in {"own", "subs", "level", "sync"}
     /\ t \in Ports /\ work[t].port = t
  \/ /\ work[t].op = "unbind" /\ work[t].pc \in {"clean", "checkSub", "free", "sync"}
     /\ t \in Ports /\ work[t].port = t
  \/ /\ work[t].op = "delete" /\ work[t].pc \in {"find", "check", "free", "sync"}
     /\ t \in Ports /\ work[t].port = t
  \/ /\ work[t].op \in Adds /\ work[t].pc \in {"commit", "subs", "level", "post", "sync"}
     /\ t \in Subports /\ work[t].port \in Ports /\ work[t].todo \subseteq {t}
     /\ work[t].op = "addTrunk" => work[t].pc # "post"
  \/ /\ work[t].op = "remove" /\ work[t].pc \in {"post", "clean", "checkSub", "free", "sync"}
     /\ t \in Subports /\ work[t].port \in Ports /\ work[t].todo \subseteq {t}

\* The segments a request holds.
Holds(t) ==
  /\ work[t].op = "bind" /\ work[t].pc \in {"subs", "level"} => work[t].own \in SegIds
  /\ work[t].pc \in {"level", "check", "checkSub", "free"} => work[t].seg \in SegIds
  /\ work[t].pc = "level" => work[t].cur \in work[t].todo
  /\ work[t].op # "bind" => work[t].own = NoSeg

\* Only the request of a port binds or unbinds it, and only that of a subport
\* puts it in a trunk or takes it out.
Owns(t) ==
  /\ work[t].op = "bind" /\ work[t].pc \in {"own", "subs", "level"} => t \notin bound
  /\ work[t].op \in {"unbind", "delete"} => t \notin bound
  /\ work[t].op \in Adds /\ work[t].pc \in {"subs", "level", "commit"} => trunk[t] = NoPort
  /\ work[t].op = "remove" => trunk[t] = NoPort

\* The environment's bounds on what is done, for which ports.
Bounds ==
  /\ bound \subseteq env.tasks
  /\ \A s \in Subports : trunk[s] # NoPort => trunk[s] \in env.tasks
  /\ \A t \in Tasks : work[t] # Idle => work[t].op \in env.ops /\ work[t].port \in env.tasks

\* g is gone, or still the segment of network n in the physnet of t's port: an id
\* is not used again while a request holds it.
IsOrWas(g, n, t) ==
  segs[g] = Free \/ (segs[g].net = n /\ segs[g].phys = PhysOf[work[t].port])

SegmentsKnown ==
  /\ \A w \in Rows : levels[w] # NoSeg => segs[levels[w]].net = NetOf[w[1]]
  /\ \A t \in Tasks :
       /\ work[t].own # NoSeg => IsOrWas(work[t].own, NetOf[t], t)
       /\ work[t].pc = "level" => IsOrWas(work[t].seg, NetOf[work[t].cur], t)

\* With one port on a node, the levels on the node are in the physnet of the port.
LevelsInPhysnet ==
  OnePortPerHost =>
    /\ \A t \in Tasks, p \in Ports \cap env.tasks :
         LET g == levels[t, HostOf[p]] IN g # NoSeg => segs[g].phys = PhysOf[p]
    /\ \A t \in Tasks : work[t].seg # NoSeg =>
         LET g == work[t].seg IN segs[g] = Free \/ segs[g].phys = PhysOf[work[t].port]

\* A level on a segment of the network of t in the physnet of p.
GoodLevel(t, p) ==
  LET g == levels[t, HostOf[p]] IN
  g # NoSeg /\ segs[g].net = NetOf[t] /\ segs[g].phys = PhysOf[p]

\* Requests that do not overlap have networks of their own, so that the segments
\* one of them holds are not touched by another.
Apart ==
  \A t, u \in Tasks : t # u /\ work[t] # Idle /\ work[u] # Idle =>
    Footprint(t, work[t].port) \cap Footprint(u, work[u].port) = {}

Undisturbed(t) ==
  /\ work[t].own # NoSeg => segs[work[t].own] # Free
  /\ work[t].seg # NoSeg => /\ segs[work[t].seg] # Free
                            /\ segs[work[t].seg].net \in Footprint(t, work[t].port)
  /\ work[t].op \in {"bind", "unbind"} => work[t].todo \subseteq SubportsOf(t)
  /\ work[t].op = "bind" /\ work[t].pc \in {"own", "subs", "level"} =>
       \A s \in SubportsOf(t) \ work[t].todo : GoodLevel(s, t)
  /\ work[t].pc = "commit" => work[t].port \notin bound
  /\ work[t].op \in Adds /\ work[t].pc = "subs" /\ work[t].todo = {} =>
       GoodLevel(t, work[t].port)
  /\ work[t].pc = "free" => ~InUse(work[t].seg)

SerialInv ==
  env.serial =>
    /\ Apart
    /\ \A t \in Tasks : Undisturbed(t)
    /\ \A p \in bound : \A t \in {p} \cup SubportsOf(p) : GoodLevel(t, p)

\* A request that has its sync of physnet x ahead of it, whatever others do: one
\* after a removal has not once the segment it found is released by another.
WillSync(t, x) ==
  /\ work[t] # Idle /\ PhysOf[work[t].port] = x
  /\ \/ work[t].pc \in {"clean", "find", "check", "free", "sync"}
     \/ work[t].pc = "checkSub" /\ segs[work[t].seg] # Free
     \/ work[t].pc = "post" /\ work[t].port \in bound

SyncAhead ==
  "addTrunk" \notin env.ops /\ (env.serial \/ OnePortPerHost) =>
    \A x \in Physnets : fabric[x] = Desired(x) \/ \E t \in Tasks : WillSync(t, x)

SegIInv ==
  /\ TypeOK
  /\ \A t \in Tasks : Shape(t) /\ Holds(t) /\ Owns(t)
  /\ Bounds /\ SegmentsKnown /\ LevelsInPhysnet /\ SerialInv /\ SyncAhead
-----------------------------------------------------------------------------
Pcs == {"idle", "own", "subs", "level", "commit", "find", "check",
        "clean", "checkSub", "free", "post", "sync"}
Works ==
  [op : Requests \cup {"none"}, pc : Pcs,
   port : Ports \cup {NoPort}, own : SegIds \cup {NoSeg},
   seg : SegIds \cup {NoSeg}, todo : SUBSET Subports,
   cur : Subports \cup {NoPort}]

\* The request of t becomes this one, and no other changes.
Becomes(t, op, pc, port, own, seg, todo, cur) ==
  /\ work' \in [Tasks -> Works]
  /\ \A u \in Tasks : u # t => work'[u] = work[u]
  /\ work'[t].op = op /\ work'[t].pc = pc /\ work'[t].port = port /\ work'[t].own = own
  /\ work'[t].seg = seg /\ work'[t].todo = todo /\ work'[t].cur = cur

\* What the proofs use of the constants.
LEMMA Constants ==
  /\ Ports \cap Subports = {} /\ NoSeg \notin SegIds /\ NoPort \notin Ports /\ NoNet \notin Nets
  /\ NetOf \in [Tasks -> Nets] /\ PhysOf \in [Ports -> Physnets]
  BY SegmentAssumption

LEMMA RowOfPort == \A t \in Tasks, p \in Ports : <<t, HostOf[p]>> \in Rows
  BY DEF Rows, Hosts

LEMMA IdleRecord ==
  /\ Idle \in Works
  /\ Idle.op = "none" /\ Idle.pc = "idle" /\ Idle.port = NoPort /\ Idle.own = NoSeg
  /\ Idle.seg = NoSeg /\ Idle.todo = {} /\ Idle.cur = NoPort
  BY DEF Idle, Works, Pcs

LEMMA WorkUpdate ==
  ASSUME TypeOK, NEW t \in Tasks, NEW r \in Works, work' = [work EXCEPT ![t] = r]
  PROVE  Becomes(t, r.op, r.pc, r.port, r.own, r.seg, r.todo, r.cur) /\ work'[t] = r
  BY DEF TypeOK, Works, Pcs, Becomes

LEMMA DoneForm ==
  ASSUME TypeOK, NEW t \in Tasks, Done(t)
  PROVE  Becomes(t, "none", "idle", NoPort, NoSeg, NoSeg, {}, NoPort) /\ work'[t] = Idle
  BY WorkUpdate, IdleRecord DEF Done

\* One lemma for each way in which a step changes a request.
LEMMA PcForm ==
  ASSUME TypeOK, NEW t \in Tasks, NEW pc \in Pcs,
         work' = [work EXCEPT ![t].pc = pc]
  PROVE  Becomes(t, work[t].op, pc, work[t].port, work[t].own, work[t].seg, work[t].todo, work[t].cur)
<1> DEFINE r == [work[t] EXCEPT !.pc = pc]
<1>1. work[t] \in Works
  BY DEF TypeOK, Works, Pcs
<1>2. work' = [work EXCEPT ![t] = r]
  OBVIOUS
<1>3. /\ r.op = work[t].op /\ r.pc = pc /\ r.port = work[t].port /\ r.own = work[t].own
      /\ r.seg = work[t].seg /\ r.todo = work[t].todo /\ r.cur = work[t].cur
  BY <1>1 DEF Works
<1>4. r \in Works
  BY <1>1 DEF Works
<1> HIDE DEF r
<1> QED BY <1>2, <1>3, <1>4, WorkUpdate

LEMMA OwnForm ==
  ASSUME TypeOK, NEW t \in Tasks, NEW own \in SegIds \cup {NoSeg}, NEW pc \in Pcs,
         work' = [work EXCEPT ![t].own = own, ![t].pc = pc]
  PROVE  Becomes(t, work[t].op, pc, work[t].port, own, work[t].seg, work[t].todo, work[t].cur)
<1> DEFINE r == [work[t] EXCEPT !.own = own, !.pc = pc]
<1>1. work[t] \in Works
  BY DEF TypeOK, Works, Pcs
<1>2. work' = [work EXCEPT ![t] = r]
  OBVIOUS
<1>3. /\ r.op = work[t].op /\ r.pc = pc /\ r.port = work[t].port /\ r.own = own
      /\ r.seg = work[t].seg /\ r.todo = work[t].todo /\ r.cur = work[t].cur
  BY <1>1 DEF Works
<1>4. r \in Works
  BY <1>1 DEF Works
<1> HIDE DEF r
<1> QED BY <1>2, <1>3, <1>4, WorkUpdate

LEMMA SegCurForm ==
  ASSUME TypeOK, NEW t \in Tasks, NEW seg \in SegIds \cup {NoSeg}, NEW cur \in Subports \cup {NoPort}, NEW pc \in Pcs,
         work' = [work EXCEPT ![t].seg = seg, ![t].cur = cur, ![t].pc = pc]
  PROVE  Becomes(t, work[t].op, pc, work[t].port, work[t].own, seg, work[t].todo, cur)
<1> DEFINE r == [work[t] EXCEPT !.seg = seg, !.cur = cur, !.pc = pc]
<1>1. work[t] \in Works
  BY DEF TypeOK, Works, Pcs
<1>2. work' = [work EXCEPT ![t] = r]
  OBVIOUS
<1>3. /\ r.op = work[t].op /\ r.pc = pc /\ r.port = work[t].port /\ r.own = work[t].own
      /\ r.seg = seg /\ r.todo = work[t].todo /\ r.cur = cur
  BY <1>1 DEF Works
<1>4. r \in Works
  BY <1>1 DEF Works
<1> HIDE DEF r
<1> QED BY <1>2, <1>3, <1>4, WorkUpdate

LEMMA LevelForm ==
  ASSUME TypeOK, NEW t \in Tasks, NEW todo \in SUBSET Subports, NEW cur \in Subports \cup {NoPort}, NEW seg \in SegIds \cup {NoSeg}, NEW pc \in Pcs,
         work' = [work EXCEPT ![t].todo = todo, ![t].cur = cur, ![t].seg = seg, ![t].pc = pc]
  PROVE  Becomes(t, work[t].op, pc, work[t].port, work[t].own, seg, todo, cur)
<1> DEFINE r == [work[t] EXCEPT !.todo = todo, !.cur = cur, !.seg = seg, !.pc = pc]
<1>1. work[t] \in Works
  BY DEF TypeOK, Works, Pcs
<1>2. work' = [work EXCEPT ![t] = r]
  OBVIOUS
<1>3. /\ r.op = work[t].op /\ r.pc = pc /\ r.port = work[t].port /\ r.own = work[t].own
      /\ r.seg = seg /\ r.todo = todo /\ r.cur = cur
  BY <1>1 DEF Works
<1>4. r \in Works
  BY <1>1 DEF Works
<1> HIDE DEF r
<1> QED BY <1>2, <1>3, <1>4, WorkUpdate

LEMMA SegForm ==
  ASSUME TypeOK, NEW t \in Tasks, NEW seg \in SegIds \cup {NoSeg}, NEW pc \in Pcs,
         work' = [work EXCEPT ![t].seg = seg, ![t].pc = pc]
  PROVE  Becomes(t, work[t].op, pc, work[t].port, work[t].own, seg, work[t].todo, work[t].cur)
<1> DEFINE r == [work[t] EXCEPT !.seg = seg, !.pc = pc]
<1>1. work[t] \in Works
  BY DEF TypeOK, Works, Pcs
<1>2. work' = [work EXCEPT ![t] = r]
  OBVIOUS
<1>3. /\ r.op = work[t].op /\ r.pc = pc /\ r.port = work[t].port /\ r.own = work[t].own
      /\ r.seg = seg /\ r.todo = work[t].todo /\ r.cur = work[t].cur
  BY <1>1 DEF Works
<1>4. r \in Works
  BY <1>1 DEF Works
<1> HIDE DEF r
<1> QED BY <1>2, <1>3, <1>4, WorkUpdate

LEMMA TodoForm ==
  ASSUME TypeOK, NEW t \in Tasks, NEW todo \in SUBSET Subports,
         work' = [work EXCEPT ![t].todo = todo]
  PROVE  Becomes(t, work[t].op, work[t].pc, work[t].port, work[t].own, work[t].seg, todo, work[t].cur)
<1> DEFINE r == [work[t] EXCEPT !.todo = todo]
<1>1. work[t] \in Works
  BY DEF TypeOK, Works, Pcs
<1>2. work' = [work EXCEPT ![t] = r]
  OBVIOUS
<1>3. /\ r.op = work[t].op /\ r.pc = work[t].pc /\ r.port = work[t].port /\ r.own = work[t].own
      /\ r.seg = work[t].seg /\ r.todo = todo /\ r.cur = work[t].cur
  BY <1>1 DEF Works
<1>4. r \in Works
  BY <1>1 DEF Works
<1> HIDE DEF r
<1> QED BY <1>2, <1>3, <1>4, WorkUpdate

LEMMA CleanForm ==
  ASSUME TypeOK, NEW t \in Tasks, NEW todo \in SUBSET Subports, NEW seg \in SegIds \cup {NoSeg}, NEW pc \in Pcs,
         work' = [work EXCEPT ![t].todo = todo, ![t].seg = seg, ![t].pc = pc]
  PROVE  Becomes(t, work[t].op, pc, work[t].port, work[t].own, seg, todo, work[t].cur)
<1> DEFINE r == [work[t] EXCEPT !.todo = todo, !.seg = seg, !.pc = pc]
<1>1. work[t] \in Works
  BY DEF TypeOK, Works, Pcs
<1>2. work' = [work EXCEPT ![t] = r]
  OBVIOUS
<1>3. /\ r.op = work[t].op /\ r.pc = pc /\ r.port = work[t].port /\ r.own = work[t].own
      /\ r.seg = seg /\ r.todo = todo /\ r.cur = work[t].cur
  BY <1>1 DEF Works
<1>4. r \in Works
  BY <1>1 DEF Works
<1> HIDE DEF r
<1> QED BY <1>2, <1>3, <1>4, WorkUpdate

LEMMA PcTodoForm ==
  ASSUME TypeOK, NEW t \in Tasks, NEW pc \in Pcs, NEW todo \in SUBSET Subports,
         work' = [work EXCEPT ![t].pc = pc, ![t].todo = todo]
  PROVE  Becomes(t, work[t].op, pc, work[t].port, work[t].own, work[t].seg, todo, work[t].cur)
<1> DEFINE r == [work[t] EXCEPT !.pc = pc, !.todo = todo]
<1>1. work[t] \in Works
  BY DEF TypeOK, Works, Pcs
<1>2. work' = [work EXCEPT ![t] = r]
  OBVIOUS
<1>3. /\ r.op = work[t].op /\ r.pc = pc /\ r.port = work[t].port /\ r.own = work[t].own
      /\ r.seg = work[t].seg /\ r.todo = todo /\ r.cur = work[t].cur
  BY <1>1 DEF Works
<1>4. r \in Works
  BY <1>1 DEF Works
<1> HIDE DEF r
<1> QED BY <1>2, <1>3, <1>4, WorkUpdate

LEMMA StartForm ==
  ASSUME TypeOK, NEW t \in Tasks, NEW op \in Requests, NEW pc \in Pcs, NEW p \in Ports,
         NEW own \in SegIds \cup {NoSeg}, NEW todo \in SUBSET Subports,
         Start(t, op, pc, p, own, todo)
  PROVE  Becomes(t, op, pc, p, own, NoSeg, todo, NoPort)
<1> DEFINE r == [op |-> op, pc |-> pc, port |-> p, own |-> own,
                 seg |-> NoSeg, todo |-> todo, cur |-> NoPort]
<1>1. r \in Works
  BY DEF Works
<1>2. work' = [work EXCEPT ![t] = r]
  BY DEF Start
<1>3. /\ r.op = op /\ r.pc = pc /\ r.port = p /\ r.own = own
      /\ r.seg = NoSeg /\ r.todo = todo /\ r.cur = NoPort
  OBVIOUS
<1> HIDE DEF r
<1> QED BY <1>1, <1>2, <1>3, WorkUpdate

-----------------------------------------------------------------------------
LInv ==
  /\ TypeOK /\ Bounds
  /\ \A t \in Tasks : Shape(t) /\ Holds(t) /\ Owns(t)

\* What a step does to the request t it is a step of.
OnlyWork == UNCHANGED <<segs, levels, bound, trunk, fabric, env>>
Moves(t, pc) ==
  Becomes(t, work[t].op, pc, work[t].port, work[t].own, work[t].seg, work[t].todo, work[t].cur)
Ends(t) == Becomes(t, "none", "idle", NoPort, NoSeg, NoSeg, {}, NoPort) /\ work'[t] = Idle

LEMMA BindPortForm ==
  ASSUME LInv, NEW p \in Ports, BindPort(p)
  PROVE  /\ \E g \in SegmentsOf(NetOf[p], PhysOf[p]) \cup {NoSeg} :
              Becomes(p, "bind", IF g = NoSeg THEN "own" ELSE "subs", p, g, NoSeg, SubportsOf(p), NoPort)
         /\ p \notin bound /\ OnlyWork
<1>1. PICK g \in SegmentsOf(NetOf[p], PhysOf[p]) \cup {NoSeg} :
        Start(p, "bind", IF g = NoSeg THEN "own" ELSE "subs", p, g, SubportsOf(p))
  BY DEF BindPort
<1>2. /\ g \in SegIds \cup {NoSeg} /\ p \in Tasks /\ SubportsOf(p) \in SUBSET Subports
      /\ "bind" \in Requests /\ (IF g = NoSeg THEN "own" ELSE "subs") \in Pcs
  BY DEF SegmentsOf, Tasks, SubportsOf, Requests, Pcs
<1> QED BY <1>1, <1>2, StartForm DEF LInv, BindPort, OnlyWork

LEMMA BindOwnSegmentForm ==
  ASSUME LInv, NEW p \in Ports, BindOwnSegment(p)
  PROVE  \/ \E g \in SegIds :
              /\ GetOrAllocate(NetOf[p], PhysOf[p], g)
              /\ Becomes(p, "bind", "subs", work[p].port, g, work[p].seg, work[p].todo, work[p].cur)
         \/ Ends(p) /\ UNCHANGED segs
  BY OwnForm, DoneForm DEF LInv, BindOwnSegment, At, Tasks, Pcs, Ends

LEMMA CommitBindingForm ==
  ASSUME LInv, NEW p \in Ports, CommitBinding(p)
  PROVE  \/ /\ segs[work[p].own] # Free /\ Moves(p, "sync") /\ bound' = bound \cup {p}
            /\ levels' = [levels EXCEPT ![<<p, HostOf[p]>>] = work[p].own]
         \/ Ends(p) /\ UNCHANGED <<levels, bound>>
  BY PcForm, DoneForm DEF LInv, CommitBinding, Tasks, Pcs, Ends, Goto, Moves

LEMMA FindReleasedForm ==
  ASSUME LInv, NEW p \in Ports, FindReleased(p)
  PROVE  /\ OnlyWork
         /\ \/ Moves(p, "sync")
            \/ \E g \in SegmentsOf(NetOf[p], PhysOf[p]) :
                 Becomes(p, "delete", "check", work[p].port, work[p].own, g, work[p].todo, work[p].cur)
<1>1. CASE Goto(p, "sync")
  BY <1>1, PcForm DEF LInv, FindReleased, Tasks, Pcs, Goto, Moves, OnlyWork
<1>2. CASE \E g \in SegmentsOf(NetOf[p], PhysOf[p]) :
             work' = [work EXCEPT ![p].seg = g, ![p].pc = "check"]
  <2>1. PICK g \in SegmentsOf(NetOf[p], PhysOf[p]) :
             work' = [work EXCEPT ![p].seg = g, ![p].pc = "check"]
    BY <1>2
  <2>2. g \in SegIds \cup {NoSeg} /\ p \in Tasks /\ "check" \in Pcs
    BY DEF SegmentsOf, Tasks, Pcs
  <2>3. Becomes(p, work[p].op, "check", work[p].port, work[p].own, g, work[p].todo, work[p].cur)
    BY <2>1, <2>2, SegForm DEF LInv
  <2> QED BY <2>3 DEF FindReleased, At, OnlyWork
<1> QED BY <1>1, <1>2 DEF FindReleased

LEMMA ReleaseIfUnusedForm ==
  ASSUME LInv, NEW p \in Ports, ReleaseSegmentIfUnused(p)
  PROVE  /\ OnlyWork
         /\ Moves(p, "sync") \/ (~InUse(work[p].seg) /\ Moves(p, "free"))
  BY PcForm DEF LInv, ReleaseSegmentIfUnused, Tasks, Pcs, Goto, Moves, OnlyWork

LEMMA UnbindPortForm ==
  ASSUME LInv, NEW p \in Ports, UnbindPort(p)
  PROVE  Becomes(p, "unbind", "clean", p, NoSeg, NoSeg, SubportsOf(p), NoPort)
<1>1. SubportsOf(p) \in SUBSET Subports /\ "unbind" \in Requests /\ "clean" \in Pcs /\ p \in Tasks
  BY DEF Tasks, SubportsOf, Requests, Pcs
<1> QED BY <1>1, StartForm DEF LInv, UnbindPort

LEMMA DeletePortForm ==
  ASSUME LInv, NEW p \in Ports, DeletePort(p)
  PROVE  \E pc \in {"sync", "find"} : Becomes(p, "delete", pc, p, NoSeg, NoSeg, {}, NoPort)
<1>1. /\ {} \in SUBSET Subports /\ "delete" \in Requests /\ p \in Tasks
      /\ "sync" \in Pcs /\ "find" \in Pcs
  BY DEF Tasks, Requests, Pcs
<1> QED BY <1>1, StartForm DEF LInv, DeletePort

LEMMA SubportSegmentForm ==
  ASSUME LInv, NEW t \in Tasks, SubportSegment(t)
  PROVE  \/ \E s \in work[t].todo, g \in SegIds :
              /\ GetOrAllocate(NetOf[s], PhysOf[work[t].port], g)
              /\ Becomes(t, work[t].op, "level", work[t].port, work[t].own, g, work[t].todo, s)
         \/ Ends(t) /\ UNCHANGED segs
<1>1. work[t].todo \subseteq Subports
  BY DEF LInv, TypeOK
<1> QED BY <1>1, SegCurForm, DoneForm DEF LInv, SubportSegment, Pcs, Ends

LEMMA SubportLevelForm ==
  ASSUME LInv, NEW t \in Tasks, SubportLevel(t)
  PROVE  \/ /\ segs[work[t].seg] # Free
            /\ levels' = [levels EXCEPT ![<<work[t].cur, HostFor(t)>>] = work[t].seg]
            /\ Becomes(t, work[t].op, "subs", work[t].port, work[t].own, NoSeg,
                       work[t].todo \ {work[t].cur}, NoPort)
         \/ Ends(t) /\ UNCHANGED levels
<1>1. work[t].todo \ {work[t].cur} \in SUBSET Subports
  BY DEF LInv, TypeOK
<1> QED BY <1>1, LevelForm, DoneForm DEF LInv, SubportLevel, Pcs, Ends

LEMMA ReleaseSegmentForm ==
  ASSUME LInv, NEW t \in Tasks, ReleaseSegment(t)
  PROVE  Becomes(t, work[t].op, IF work[t].op = "delete" THEN "sync" ELSE "clean",
                 work[t].port, work[t].own, NoSeg, work[t].todo, work[t].cur)
<1>1. (IF work[t].op = "delete" THEN "sync" ELSE "clean") \in Pcs /\ NoSeg \in SegIds \cup {NoSeg}
  BY DEF Pcs
<1> QED BY <1>1, SegForm DEF LInv, ReleaseSegment

LEMMA CleanSubportForm ==
  ASSUME LInv, NEW t \in Tasks, CleanSubport(t)
  PROVE  \E s \in work[t].todo :
           \/ /\ Becomes(t, work[t].op, "clean", work[t].port, work[t].own, work[t].seg,
                         work[t].todo \ {s}, work[t].cur)
              /\ UNCHANGED levels
           \/ /\ levels[<<s, HostFor(t)>>] # NoSeg
              /\ Becomes(t, work[t].op, "checkSub", work[t].port, work[t].own,
                         levels[<<s, HostFor(t)>>], work[t].todo \ {s}, work[t].cur)
              /\ levels' = [levels EXCEPT ![<<s, HostFor(t)>>] = NoSeg]
<1>1. \A s : work[t].todo \ {s} \in SUBSET Subports
  BY DEF LInv, TypeOK
<1>2. PICK s \in work[t].todo :
       IF levels[<<s, HostFor(t)>>] = NoSeg
       THEN work' = [work EXCEPT ![t].todo = @ \ {s}] /\ UNCHANGED levels
       ELSE /\ work' = [work EXCEPT ![t].todo = @ \ {s}, ![t].seg = levels[<<s, HostFor(t)>>],
                                    ![t].pc = "checkSub"]
            /\ levels' = [levels EXCEPT ![<<s, HostFor(t)>>] = NoSeg]
  BY DEF CleanSubport
<1>3. work[t].pc = "clean"
  BY DEF CleanSubport
<1>4. CASE levels[<<s, HostFor(t)>>] = NoSeg
  BY <1>1, <1>2, <1>3, <1>4, TodoForm DEF LInv
<1>5. CASE levels[<<s, HostFor(t)>>] # NoSeg
  <2>1. <<s, HostFor(t)>> \in Rows
    BY <1>3, RowOfPort, SMTT(30) DEF LInv, Shape, TypeOK, HostFor, Tasks, Idle
  <2>2. levels[<<s, HostFor(t)>>] \in SegIds \cup {NoSeg}
    BY <2>1 DEF LInv, TypeOK
  <2> QED BY <1>1, <1>2, <1>5, <2>2, CleanForm DEF LInv, Pcs
<1> QED BY <1>4, <1>5

LEMMA DeleteUnusedSegmentForm ==
  ASSUME LInv, NEW t \in Tasks, DeleteUnusedSegment(t)
  PROVE  /\ OnlyWork
         /\ \/ Moves(t, "clean")
            \/ segs[work[t].seg] = Free /\ Ends(t)
            \/ ~InUse(work[t].seg) /\ segs[work[t].seg] # Free /\ Moves(t, "free")
  BY PcForm, DoneForm DEF LInv, DeleteUnusedSegment, Goto, Pcs, Moves, Ends, OnlyWork

LEMMA CleanDoneForm ==
  ASSUME LInv, NEW t \in Tasks, CleanDone(t)
  PROVE  OnlyWork /\ Moves(t, "sync")
  BY PcForm DEF LInv, CleanDone, Goto, Pcs, Moves, OnlyWork

LEMMA AddSubportForm ==
  ASSUME LInv, NEW s \in Subports, NEW p \in Ports, NEW op \in Adds, AddSubport(s, p, op)
  PROVE  /\ OnlyWork /\ trunk[s] = NoPort
         /\ \/ p \in bound /\ Becomes(s, op, "subs", p, NoSeg, NoSeg, {s}, NoPort)
            \/ p \notin bound /\ Becomes(s, op, "commit", p, NoSeg, NoSeg, {}, NoPort)
<1>1. /\ op \in Requests /\ s \in Tasks /\ {s} \in SUBSET Subports /\ {} \in SUBSET Subports
      /\ "subs" \in Pcs /\ "commit" \in Pcs
  BY DEF Requests, Adds, Tasks, Pcs
<1> QED BY <1>1, StartForm DEF LInv, AddSubport, OnlyWork

LEMMA CommitSubportForm ==
  ASSUME LInv, NEW s \in Subports, CommitSubport(s)
  PROVE  \/ work[s].op = "add" /\ Moves(s, "post")
         \/ work[s].op = "addTrunk" /\ Ends(s)
<1>1. s \in Tasks /\ work[s].op \in {"add", "addTrunk"}
  BY SMTT(30) DEF LInv, Shape, CommitSubport, Idle, Adds, Tasks
<1> QED BY <1>1, PcForm, DoneForm DEF LInv, CommitSubport, Goto, Pcs, Moves, Ends

LEMMA RemoveSubportForm ==
  ASSUME LInv, NEW s \in Subports, RemoveSubport(s)
  PROVE  Becomes(s, "remove", "post", trunk[s], NoSeg, NoSeg, {}, NoPort)
<1>1. /\ s \in Tasks /\ trunk[s] \in Ports /\ "remove" \in Requests /\ "post" \in Pcs
      /\ {} \in SUBSET Subports
  BY DEF LInv, TypeOK, RemoveSubport, Tasks, Requests, Pcs
<1> QED BY <1>1, StartForm DEF LInv, RemoveSubport

LEMMA SubportPostcommitForm ==
  ASSUME LInv, NEW s \in Subports, SubportPostcommit(s)
  PROVE  /\ OnlyWork
         /\ \/ work[s].port \notin bound /\ Ends(s)
            \/ work[s].port \in bound /\ work[s].op = "add" /\ Moves(s, "sync")
            \/ /\ work[s].port \in bound /\ work[s].op # "add"
               /\ Becomes(s, work[s].op, "clean", work[s].port, work[s].own, work[s].seg,
                          {s}, work[s].cur)
<1>1. s \in Tasks /\ {s} \in SUBSET Subports
  BY DEF Tasks
<1> QED BY <1>1, PcForm, PcTodoForm, DoneForm
        DEF LInv, SubportPostcommit, Goto, Pcs, Moves, Ends, OnlyWork

LEMMA SyncForm == ASSUME LInv, NEW t \in Tasks, Sync(t)  PROVE Ends(t)
  BY DoneForm DEF LInv, Sync, Ends

-----------------------------------------------------------------------------
\* A step of t leaves the requests, the binding and the trunk of others alone.
StepOf(t) ==
  /\ work' \in [Tasks -> Works] /\ \A u \in Tasks : u # t => work'[u] = work[u]
  /\ segs' \in [SegIds -> Segments] /\ levels' \in [Rows -> SegIds \cup {NoSeg}]
  /\ fabric' \in [Physnets -> SUBSET (Tasks \X SegIds)] /\ env' = env
  /\ bound' \in SUBSET Ports /\ trunk' \in [Subports -> Ports \cup {NoPort}]
  /\ \A p \in Ports : p # t => (p \in bound' <=> p \in bound)
  /\ \A s \in Subports : s # t => trunk'[s] = trunk[s]

LEMMA LocalKept ==
  ASSUME LInv, NEW t \in Tasks, StepOf(t), Shape(t)', Holds(t)', Owns(t)',
         t \in bound' => t \in env.tasks,
         t \in Subports /\ trunk'[t] # NoPort => trunk'[t] \in env.tasks,
         work'[t] # Idle => work'[t].op \in env.ops /\ work'[t].port \in env.tasks
  PROVE  LInv'
<1> USE DEF LInv, StepOf
<1>1. TypeOK'
  BY DEF TypeOK, Works, Pcs
<1>2. Bounds'
  BY DEF Bounds, TypeOK, Tasks
<1>3. ASSUME NEW u \in Tasks  PROVE Shape(u)' /\ Holds(u)' /\ Owns(u)'
  <2>1. CASE u = t
    BY <2>1
  <2>2. CASE u # t
    <3>1. work'[u] = work[u]
      BY <2>2
    <3>2. Shape(u)' /\ Holds(u)'
      BY <3>1, SMTT(30) DEF Shape, Holds
    <3>3. u \in bound' <=> u \in bound
      BY <2>2, SegmentAssumption DEF Tasks, TypeOK
    <3>4. u \in Subports => trunk'[u] = trunk[u]
      BY <2>2
    <3>5. Owns(u)'
      BY <3>1, <3>3, <3>4, IdleRecord DEF Owns, Shape, Adds
    <3> QED BY <3>2, <3>5
  <2> QED BY <2>1, <2>2
<1> QED BY <1>1, <1>2, <1>3

\* allocate_dynamic_segment types the table.
LEMMA GetOrAllocateTyped ==
  ASSUME LInv, NEW n \in Nets, NEW x \in Physnets, NEW g \in SegIds, GetOrAllocate(n, x, g)
  PROVE  segs' \in [SegIds -> Segments]
<1>1. [net |-> n, phys |-> x, dynamic |-> TRUE] \in Segments
  BY DEF Segments
<1>2. segs \in [SegIds -> Segments]
  BY DEF LInv, TypeOK
<1> QED BY <1>1, <1>2 DEF GetOrAllocate

\* A step of a port's request.
LEMMA PortStep ==
  ASSUME LInv, NEW p \in Ports,
         BindPort(p) \/ UnbindPort(p) \/ DeletePort(p) \/ PortWork(p)
  PROVE  StepOf(p) /\ LInv'
<1> USE DEF Becomes, OnlyWork, Moves, Ends
<1>0. /\ TypeOK /\ p \in Tasks /\ p \notin Subports /\ <<p, HostOf[p]>> \in Rows
      /\ NetOf[p] \in Nets /\ PhysOf[p] \in Physnets
      /\ Shape(p) /\ Holds(p) /\ Owns(p) /\ Bounds /\ Free \in Segments
  BY Constants, RowOfPort DEF LInv, Tasks, Free, Segments
<1>1. CASE BindPort(p)
  <2>1. StepOf(p)
    BY <1>0, <1>1, BindPortForm, SMTT(30) DEF StepOf, TypeOK
  <2>2. Shape(p)' /\ Holds(p)' /\ Owns(p)'
    BY <1>0, <1>1, BindPortForm, SMTT(30) DEF Shape, Holds, Owns, SegmentsOf, Adds
  <2>3. "bind" \in env.ops /\ p \in env.tasks
    BY <1>1 DEF BindPort, MayStart
  <2>4. p \notin bound' /\ work'[p].op = "bind" /\ work'[p].port = p
    BY <1>1, BindPortForm
  <2> QED BY <1>0, <2>1, <2>2, <2>3, <2>4, LocalKept
<1>2. CASE UnbindPort(p)
  <2>1. StepOf(p)
    BY <1>0, <1>2, UnbindPortForm DEF StepOf, TypeOK, UnbindPort
  <2>2. Shape(p)' /\ Holds(p)' /\ Owns(p)'
    BY <1>0, <1>2, UnbindPortForm DEF Shape, Holds, Owns, UnbindPort, Adds
  <2>3. "unbind" \in env.ops /\ p \in env.tasks
    BY <1>2 DEF UnbindPort, MayStart
  <2>4. work'[p].op = "unbind" /\ work'[p].port = p
    BY <1>2, UnbindPortForm
  <2> QED BY <1>0, <2>1, <2>2, <2>3, <2>4, LocalKept
<1>3. CASE DeletePort(p)
  <2>1. StepOf(p)
    BY <1>0, <1>3, DeletePortForm DEF StepOf, TypeOK, DeletePort
  <2>2. /\ work'[p].pc \in {"sync", "find"} /\ work'[p].op = "delete" /\ work'[p].port = p
        /\ work'[p].own = NoSeg /\ p \notin bound'
    <3>1. p \notin bound'
      BY <1>3 DEF DeletePort
    <3>2. PICK pc \in {"sync", "find"} : Becomes(p, "delete", pc, p, NoSeg, NoSeg, {}, NoPort)
      BY <1>3, DeletePortForm
    <3> QED BY <3>1, <3>2
  <2>3. Shape(p)' /\ Holds(p)' /\ Owns(p)'
    BY IdleRecord, <1>0, <2>2 DEF Shape, Holds, Owns, Adds
  <2>4. "delete" \in env.ops /\ p \in env.tasks
    BY <1>3 DEF DeletePort, MayStart
  <2> QED BY <1>0, <2>1, <2>2, <2>3, <2>4, LocalKept
<1>4. CASE BindOwnSegment(p)
  <2>1. StepOf(p)
    BY <1>0, <1>4, BindOwnSegmentForm, GetOrAllocateTyped DEF StepOf, TypeOK, BindOwnSegment
  <2>2. Shape(p)' /\ Holds(p)' /\ Owns(p)'
    BY IdleRecord, <1>0, <1>4, BindOwnSegmentForm DEF Shape, Holds, Owns, BindOwnSegment, At, Adds
  <2> QED BY IdleRecord, <1>0, <1>4, <2>1, <2>2, BindOwnSegmentForm, LocalKept
          DEF BindOwnSegment, At, Bounds
<1>5. CASE CommitBinding(p)
  <2>1. StepOf(p)
    <3>1. work[p].own \in SegIds /\ UNCHANGED <<segs, trunk, fabric, env>>
      BY <1>0, <1>5 DEF CommitBinding, At, Holds
    <3>2. levels' = levels \/ levels' = [levels EXCEPT ![<<p, HostOf[p]>>] = work[p].own]
      BY <1>5, CommitBindingForm
    <3>3. levels' \in [Rows -> SegIds \cup {NoSeg}]
      BY <1>0, <3>1, <3>2 DEF TypeOK
    <3> QED BY <1>0, <1>5, <3>1, <3>3, CommitBindingForm, SMTT(30) DEF StepOf, TypeOK
  <2>2. Shape(p)' /\ Holds(p)' /\ Owns(p)'
    BY IdleRecord, <1>0, <1>5, CommitBindingForm DEF Shape, Holds, Owns, CommitBinding, At, Adds
  <2> QED BY IdleRecord, <1>0, <1>5, <2>1, <2>2, CommitBindingForm, LocalKept
          DEF CommitBinding, At, Bounds, Shape
<1>6. CASE FindReleased(p)
  <2>1. StepOf(p)
    BY <1>0, <1>6, FindReleasedForm DEF StepOf, TypeOK
  <2>2. Shape(p)' /\ Holds(p)' /\ Owns(p)'
    <3>1. /\ work'[p].pc \in {"sync", "check"} /\ work'[p].op = "delete" /\ work'[p].port = p
          /\ work'[p].pc = "check" => work'[p].seg \in SegIds
      BY IdleRecord, <1>0, <1>6, FindReleasedForm DEF FindReleased, At, Shape, SegmentsOf
    <3>2. p \notin bound'
      BY <1>0, <1>6, FindReleasedForm DEF FindReleased, At, Owns
    <3>3. work'[p].own = NoSeg
      BY <1>0, <1>6, FindReleasedForm DEF FindReleased, At, Holds
    <3> QED BY IdleRecord, <1>0, <3>1, <3>2, <3>3 DEF Shape, Holds, Owns, Adds
  <2> QED BY IdleRecord, <1>0, <1>6, <2>1, <2>2, FindReleasedForm, LocalKept DEF FindReleased, At, Bounds
<1>7. CASE ReleaseSegmentIfUnused(p)
  <2>1. StepOf(p)
    BY <1>0, <1>7, ReleaseIfUnusedForm, SMTT(30) DEF StepOf, TypeOK
  <2>2. Shape(p)' /\ Holds(p)' /\ Owns(p)'
    BY IdleRecord, <1>0, <1>7, ReleaseIfUnusedForm DEF Shape, Holds, Owns, ReleaseSegmentIfUnused, At, Adds
  <2> QED BY IdleRecord, <1>0, <1>7, <2>1, <2>2, ReleaseIfUnusedForm, LocalKept
          DEF ReleaseSegmentIfUnused, At, Bounds
<1> QED BY <1>1, <1>2, <1>3, <1>4, <1>5, <1>6, <1>7 DEF PortWork

\* A step that only a subport's request takes.
LEMMA SubportStep ==
  ASSUME LInv, NEW s \in Subports,
         \/ \E p \in Ports, op \in Adds : AddSubport(s, p, op)
         \/ RemoveSubport(s) \/ SubportWork(s)
  PROVE  StepOf(s) /\ LInv'
<1> USE DEF Becomes, OnlyWork, Moves, Ends
<1>0. /\ TypeOK /\ s \in Tasks /\ s \notin Ports
      /\ Shape(s) /\ Holds(s) /\ Owns(s) /\ Bounds
  BY Constants DEF LInv, Tasks
<1>1. CASE \E p \in Ports, op \in Adds : AddSubport(s, p, op)
  <2>1. PICK p \in Ports, op \in Adds : AddSubport(s, p, op)
    BY <1>1
  <2>2. StepOf(s)
    BY <1>0, <2>1, AddSubportForm, SMTT(30) DEF StepOf, TypeOK
  <2>3. /\ work'[s].op = op /\ work'[s].port = p /\ work'[s].pc \in {"subs", "commit"}
        /\ work'[s].todo \subseteq {s} /\ trunk'[s] = NoPort /\ work'[s].own = NoSeg
    BY <2>1, AddSubportForm
  <2>4. Shape(s)' /\ Holds(s)' /\ Owns(s)'
    BY IdleRecord, <1>0, <2>3 DEF Shape, Holds, Owns, Adds
  <2>5. op \in env.ops /\ p \in env.tasks
    BY <2>1 DEF AddSubport, MayStart
  <2>6. s \notin bound'
    BY <1>0, <2>2 DEF StepOf
  <2> QED BY <1>0, <2>2, <2>3, <2>4, <2>5, <2>6, LocalKept
<1>2. CASE RemoveSubport(s)
  <2>2. StepOf(s)
    BY <1>0, <1>2, RemoveSubportForm DEF StepOf, TypeOK, RemoveSubport
  <2>3. /\ work'[s].op = "remove" /\ work'[s].port = trunk[s] /\ trunk[s] \in Ports
        /\ work'[s].pc = "post" /\ work'[s].todo \subseteq {s} /\ trunk'[s] = NoPort
        /\ work'[s].own = NoSeg
    <3>1. trunk[s] \in Ports /\ trunk'[s] = NoPort
      BY <1>0, <1>2 DEF RemoveSubport, TypeOK
    <3> QED BY <1>2, <3>1, RemoveSubportForm
  <2>4. Shape(s)' /\ Holds(s)' /\ Owns(s)'
    BY IdleRecord, <1>0, <2>3 DEF Shape, Holds, Owns, Adds
  <2>5. "remove" \in env.ops /\ trunk[s] \in env.tasks
    BY <1>2 DEF RemoveSubport, MayStart
  <2>6. s \notin bound'
    BY <1>0, <2>2 DEF StepOf
  <2> QED BY <1>0, <2>2, <2>3, <2>4, <2>5, <2>6, LocalKept
<1>3. CASE CommitSubport(s)
  <2>1. /\ work[s].op \in Adds /\ work[s].port \in Ports /\ work[s].port \in env.tasks
        /\ work[s].op \in env.ops
    BY IdleRecord, <1>0, <1>3, CommitSubportForm DEF Shape, Bounds, Adds
  <2>2. StepOf(s)
    BY <1>0, <1>3, <2>1, CommitSubportForm DEF StepOf, TypeOK, CommitSubport
  <2>3. trunk'[s] = work[s].port
    BY <1>0, <1>3 DEF CommitSubport, TypeOK
  <2>4. Shape(s)' /\ Holds(s)' /\ Owns(s)'
    BY IdleRecord, <1>0, <1>3, <2>1, CommitSubportForm DEF Shape, Holds, Owns, Adds
  <2>6. s \notin bound'
    BY <1>0, <2>2 DEF StepOf
  <2> QED BY <1>0, <1>3, <2>1, <2>2, <2>3, <2>4, <2>6, CommitSubportForm, LocalKept
<1>4. CASE SubportPostcommit(s)
  <2>2. StepOf(s)
    BY <1>0, <1>4, SubportPostcommitForm DEF StepOf, TypeOK
  <2>3. /\ work[s].op \in {"add", "remove"} /\ work[s].port \in Ports
        /\ work[s].op \in env.ops /\ work[s].port \in env.tasks
        /\ work[s].op \in Adds => work[s].todo \subseteq {s}
    BY IdleRecord, <1>0, <1>4 DEF SubportPostcommit, Shape, Adds, Bounds
  <2>4. Shape(s)' /\ Holds(s)' /\ Owns(s)'
    BY <1>0, <1>4, <2>3, SubportPostcommitForm DEF Shape, Holds, Owns, Adds
  <2>6. s \notin bound' /\ trunk' = trunk
    BY <1>0, <1>4, <2>2 DEF StepOf, SubportPostcommit
  <2> QED BY <1>0, <1>4, <2>2, <2>3, <2>4, <2>6, SubportPostcommitForm, LocalKept DEF Bounds
<1> QED BY <1>1, <1>2, <1>3, <1>4 DEF SubportWork

\* A step of the parts that ports and subports share.
LEMMA TaskStep ==
  ASSUME LInv, NEW t \in Tasks, TaskWork(t)
  PROVE  StepOf(t) /\ LInv'
<1> USE DEF Becomes, OnlyWork, Moves, Ends
<1>0. /\ TypeOK /\ Shape(t) /\ Holds(t) /\ Owns(t) /\ Bounds
      /\ work[t] \in Works /\ Free \in Segments
  BY DEF LInv, TypeOK, Works, Pcs, Free, Segments
<1>1. /\ work[t].op \in env.ops /\ work[t].port \in env.tasks /\ work[t].port \in Ports
      /\ PhysOf[work[t].port] \in Physnets /\ UNCHANGED <<bound, trunk, env>>
      /\ \A s \in work[t].todo : s \in Tasks /\ NetOf[s] \in Nets /\ <<s, HostFor(t)>> \in Rows
  <2>1. work[t].pc # "idle" /\ UNCHANGED <<bound, trunk, env>>
    BY DEF TaskWork, SubportSegment, SubportLevel, CleanSubport, DeleteUnusedSegment,
           ReleaseSegment, CleanDone, Sync
  <2>2. work[t].op \in env.ops /\ work[t].port \in env.tasks /\ work[t].port \in Ports
    BY IdleRecord, <1>0, <2>1 DEF Bounds, Shape
  <2>3. \A s \in work[t].todo : s \in Tasks
    BY <1>0 DEF Works, Tasks
  <2> QED BY <2>1, <2>2, <2>3, RowOfPort, SegmentAssumption DEF HostFor
\* It is enough that the request goes on, or ends.
<1>2. ASSUME StepOf(t), Shape(t)', Holds(t)', Owns(t)',
             work'[t] = Idle \/ (work'[t].op = work[t].op /\ work'[t].port = work[t].port)
      PROVE  StepOf(t) /\ LInv'
  <2>1. t \in bound' => t \in env.tasks
    BY <1>0, <1>1 DEF Bounds
  <2>2. t \in Subports /\ trunk'[t] # NoPort => trunk'[t] \in env.tasks
    BY <1>0, <1>1 DEF Bounds
  <2> QED BY <1>1, <1>2, <2>1, <2>2, LocalKept
<1>3. CASE SubportSegment(t)
  <2>1. StepOf(t)
    BY <1>0, <1>1, <1>3, SubportSegmentForm, GetOrAllocateTyped DEF StepOf, TypeOK, SubportSegment
  <2>2. Shape(t)' /\ Holds(t)' /\ Owns(t)'
    BY IdleRecord, <1>0, <1>1, <1>3, SubportSegmentForm DEF Shape, Holds, Owns, SubportSegment, Adds
  <2> QED BY <1>2, <1>3, <2>1, <2>2, SubportSegmentForm
<1>4. CASE SubportLevel(t)
  <2>0. work[t].seg \in SegIds /\ work[t].cur \in work[t].todo /\ work[t].pc = "level"
    BY <1>0, <1>4 DEF SubportLevel, Holds
  <2>1. StepOf(t)
    BY <1>0, <1>1, <1>4, <2>0, SubportLevelForm DEF StepOf, TypeOK, SubportLevel
  <2>2. Shape(t)' /\ Holds(t)' /\ Owns(t)'
    BY IdleRecord, <1>0, <1>1, <1>4, <2>0, SubportLevelForm DEF Shape, Holds, Owns, Adds
  <2> QED BY <1>2, <1>4, <2>1, <2>2, SubportLevelForm
<1>5. CASE CleanSubport(t)
  <2>0. PICK s \in work[t].todo :
           \/ /\ Becomes(t, work[t].op, "clean", work[t].port, work[t].own, work[t].seg,
                         work[t].todo \ {s}, work[t].cur)
              /\ UNCHANGED levels
           \/ /\ levels[<<s, HostFor(t)>>] # NoSeg
              /\ Becomes(t, work[t].op, "checkSub", work[t].port, work[t].own,
                         levels[<<s, HostFor(t)>>], work[t].todo \ {s}, work[t].cur)
              /\ levels' = [levels EXCEPT ![<<s, HostFor(t)>>] = NoSeg]
    BY <1>5, CleanSubportForm
  <2>1. StepOf(t)
    BY <1>0, <1>1, <1>5, <2>0 DEF StepOf, TypeOK, CleanSubport
  <2>2. levels[<<s, HostFor(t)>>] \in SegIds \cup {NoSeg}
    BY <1>0, <1>1 DEF TypeOK
  <2>3. Shape(t)' /\ Holds(t)' /\ Owns(t)'
    BY IdleRecord, <1>0, <1>1, <1>5, <2>0, <2>2 DEF Shape, Holds, Owns, Adds, CleanSubport
  <2> QED BY <1>2, <2>0, <2>1, <2>3
<1>6. CASE DeleteUnusedSegment(t)
  <2>1. StepOf(t)
    BY <1>0, <1>6, DeleteUnusedSegmentForm DEF StepOf, TypeOK
  <2>2. Shape(t)' /\ Holds(t)' /\ Owns(t)'
    BY IdleRecord, <1>0, <1>1, <1>6, DeleteUnusedSegmentForm DEF Shape, Holds, Owns, Adds, DeleteUnusedSegment
  <2> QED BY <1>2, <1>6, <2>1, <2>2, DeleteUnusedSegmentForm
<1>7. CASE ReleaseSegment(t)
  <2>1. StepOf(t)
    BY <1>0, <1>7, ReleaseSegmentForm DEF StepOf, TypeOK, ReleaseSegment
  <2>2. Shape(t)' /\ Holds(t)' /\ Owns(t)'
    <3>1. work[t].pc = "free"
      BY <1>7 DEF ReleaseSegment
    <3>2. CASE work[t].op = "delete"
      BY IdleRecord, <1>0, <1>1, <1>7, <3>1, <3>2, ReleaseSegmentForm DEF Shape, Holds, Owns, Adds
    <3>3. CASE work[t].op # "delete"
      BY IdleRecord, <1>0, <1>1, <1>7, <3>1, <3>3, ReleaseSegmentForm DEF Shape, Holds, Owns, Adds
    <3> QED BY <3>2, <3>3
  <2> QED BY <1>2, <1>7, <2>1, <2>2, ReleaseSegmentForm
<1>8. CASE CleanDone(t)
  <2>1. StepOf(t)
    BY <1>0, <1>8, CleanDoneForm DEF StepOf, TypeOK
  <2>2. Shape(t)' /\ Holds(t)' /\ Owns(t)'
    BY IdleRecord, <1>0, <1>1, <1>8, CleanDoneForm DEF Shape, Holds, Owns, Adds, CleanDone
  <2> QED BY <1>2, <1>8, <2>1, <2>2, CleanDoneForm
<1>9. CASE Sync(t)
  <2>1. StepOf(t)
    BY <1>0, <1>9, SyncForm DEF StepOf, TypeOK, Sync, Desired
  <2>2. Shape(t)' /\ Holds(t)' /\ Owns(t)'
    BY <1>9, SyncForm DEF Shape, Holds, Owns, Adds
  <2> QED BY <1>2, <1>9, <2>1, <2>2, SyncForm
<1> QED BY <1>3, <1>4, <1>5, <1>6, <1>7, <1>8, <1>9 DEF TaskWork

\* Types and the local parts of the invariant hold in every step.
LEMMA LocalStep ==
  ASSUME LInv, Next  PROVE LInv' /\ \E t \in Tasks : StepOf(t)
<1>1. CASE \E p \in Ports : BindPort(p) \/ UnbindPort(p) \/ DeletePort(p) \/ PortWork(p)
  BY <1>1, PortStep DEF Tasks
<1>2. CASE \E s \in Subports : \/ \E p \in Ports, op \in Adds : AddSubport(s, p, op)
                               \/ RemoveSubport(s) \/ SubportWork(s)
  BY <1>2, SubportStep DEF Tasks
<1>3. CASE \E t \in Tasks : TaskWork(t)
  BY <1>3, TaskStep
<1> QED BY <1>1, <1>2, <1>3 DEF Next, Adds
-----------------------------------------------------------------------------
\* What no step does: give a segment that a request holds to another network, or
\* leave a level on a segment that changes.
SegsKept ==
  \A g \in SegIds : \/ segs'[g] = segs[g] \/ segs'[g] = Free
                    \/ segs[g] = Free /\ \A u \in Tasks : g # work[u].own /\ g # work[u].seg

RowKept(w) ==
  \/ levels'[w] = NoSeg
  \/ levels'[w] = levels[w] /\ segs'[levels[w]] = segs[levels[w]]

RowSet(w) ==
  LET g == levels'[w] IN
  /\ g \in SegIds /\ segs'[g].net = NetOf[w[1]]
  /\ \E p \in Ports \cap env.tasks : w[2] = HostOf[p] /\ segs'[g].phys = PhysOf[p]

HoldsKnown(t) ==
  /\ work[t].own # NoSeg => IsOrWas(work[t].own, NetOf[t], t)
  /\ work[t].pc = "level" => IsOrWas(work[t].seg, NetOf[work[t].cur], t)
  /\ OnePortPerHost /\ work[t].seg # NoSeg =>
       segs[work[t].seg] = Free \/ segs[work[t].seg].phys = PhysOf[work[t].port]

LEMMA NetIsNotFree == \A g : segs[g].net \in Nets => segs[g] # Free
  BY SegmentAssumption, SMTT(30) DEF Free

LEMMA KnownKept ==
  ASSUME LInv, LInv', SegmentsKnown, LevelsInPhysnet, NEW t \in Tasks, StepOf(t),
         SegsKept, \A w \in Rows : RowKept(w) \/ RowSet(w), HoldsKnown(t)'
  PROVE  SegmentsKnown' /\ LevelsInPhysnet'
<1> USE DEF StepOf
<1>1. ASSUME NEW w \in Rows, levels'[w] # NoSeg
      PROVE  segs'[levels'[w]].net = NetOf[w[1]]
  BY <1>1, SMTT(30) DEF SegmentsKnown, RowKept, RowSet
<1>2. OnePortPerHost' <=> OnePortPerHost
  BY DEF OnePortPerHost
<1>3. ASSUME NEW u \in Tasks, NEW p \in Ports \cap env'.tasks,
             levels'[u, HostOf[p]] # NoSeg, OnePortPerHost
      PROVE  segs'[levels'[u, HostOf[p]]].phys = PhysOf[p]
  <2>1. <<u, HostOf[p]>> \in Rows /\ p \in Ports \cap env.tasks
    BY RowOfPort
  <2>2. CASE RowKept(<<u, HostOf[p]>>)
    <3>1. /\ levels'[u, HostOf[p]] = levels[u, HostOf[p]] /\ levels[u, HostOf[p]] # NoSeg
          /\ segs'[levels[u, HostOf[p]]] = segs[levels[u, HostOf[p]]]
      BY <1>3, <2>2 DEF RowKept
    <3>2. segs[levels[u, HostOf[p]]].phys = PhysOf[p]
      BY <1>3, <2>1, <3>1 DEF LevelsInPhysnet
    <3> QED BY <3>1, <3>2
  <2>3. CASE RowSet(<<u, HostOf[p]>>)
    <3>1. PICK q \in Ports \cap env.tasks :
            HostOf[p] = HostOf[q] /\ segs'[levels'[u, HostOf[p]]].phys = PhysOf[q]
      BY <2>3 DEF RowSet
    <3>2. p = q
      BY <1>3, <2>1, <3>1 DEF OnePortPerHost
    <3> QED BY <3>1, <3>2
  <2> QED BY <2>1, <2>2, <2>3
<1>4. ASSUME NEW u \in Tasks  PROVE HoldsKnown(u)'
  <2>1. CASE u = t
    BY <2>1
  <2>2. CASE u # t
    <3>1. work'[u] = work[u]
      BY <2>2
    <3>2. HoldsKnown(u)
      BY DEF SegmentsKnown, LevelsInPhysnet, HoldsKnown
    <3>3. work[u].own \in SegIds \cup {NoSeg} /\ work[u].seg \in SegIds \cup {NoSeg}
      BY DEF LInv, TypeOK
    <3>4. work[u].own # NoSeg => segs'[work[u].own] \in {segs[work[u].own], Free}
      BY <3>3 DEF SegsKept
    <3>5. work[u].seg # NoSeg => segs'[work[u].seg] \in {segs[work[u].seg], Free}
      BY <3>3 DEF SegsKept
    <3>6. work[u].pc = "level" => work[u].seg # NoSeg
      BY SegmentAssumption DEF LInv, Holds
    <3> QED BY <3>1, <3>2, <3>4, <3>5, <3>6, <1>2 DEF HoldsKnown, IsOrWas
  <2> QED BY <2>1, <2>2
<1>5. SegmentsKnown'
  BY <1>1, <1>4 DEF SegmentsKnown, HoldsKnown
<1>6. LevelsInPhysnet'
  BY <1>2, <1>3, <1>4 DEF LevelsInPhysnet, HoldsKnown
<1> QED BY <1>5, <1>6

\* A segment that is allocated is new to every request and level.
LEMMA AllocateKeeps ==
  ASSUME LInv, SegmentsKnown, NEW n \in Nets, NEW x \in Physnets, NEW g \in SegIds,
         GetOrAllocate(n, x, g), levels' = levels
  PROVE  /\ SegsKept /\ \A w \in Rows : RowKept(w)
         /\ segs'[g].net = n /\ segs'[g].phys = x
<1>1. CASE g \in SegmentsOf(n, x) /\ UNCHANGED segs
  BY <1>1 DEF SegsKept, RowKept, SegmentsOf
<1>2. CASE g \in Fresh /\ segs' = [segs EXCEPT ![g] = [net |-> n, phys |-> x, dynamic |-> TRUE]]
  <2>1. segs[g] = Free /\ \A u \in Tasks : g # work[u].own /\ g # work[u].seg
    BY <1>2 DEF Fresh
  <2>2. segs \in [SegIds -> Segments]
    BY DEF LInv, TypeOK
  <2>3. SegsKept /\ segs'[g].net = n /\ segs'[g].phys = x
    BY <1>2, <2>1, <2>2 DEF SegsKept
  <2>4. ASSUME NEW w \in Rows  PROVE RowKept(w)
    <3>1. CASE levels[w] = NoSeg
      BY <3>1 DEF RowKept
    <3>2. CASE levels[w] # NoSeg
      <4>1. segs[levels[w]].net \in Nets /\ levels[w] \in SegIds
        BY <3>2, SegmentAssumption DEF SegmentsKnown, Rows, LInv, TypeOK
      <4>2. levels[w] # g
        BY <2>1, <4>1, NetIsNotFree
      <4> QED BY <1>2, <2>2, <4>1, <4>2 DEF RowKept
    <3> QED BY <3>1, <3>2
  <2> QED BY <2>3, <2>4
<1> QED BY <1>1, <1>2 DEF GetOrAllocate

KInv == LInv /\ SegmentsKnown /\ LevelsInPhysnet

\* What a request held it goes on holding, or lets go.
LEMMA HoldsGoOn ==
  ASSUME KInv, NEW t \in Tasks, StepOf(t), SegsKept, work'[t].pc # "level",
         work'[t].own = NoSeg \/ (work'[t].own = work[t].own /\ work'[t].port = work[t].port),
         work'[t].seg = NoSeg \/ (work'[t].seg = work[t].seg /\ work'[t].port = work[t].port)
  PROVE  HoldsKnown(t)'
<1>1. HoldsKnown(t)
  BY DEF KInv, SegmentsKnown, LevelsInPhysnet, HoldsKnown
<1>2. work[t].own \in SegIds \cup {NoSeg} /\ work[t].seg \in SegIds \cup {NoSeg}
  BY DEF KInv, LInv, TypeOK
<1>3. work[t].own # NoSeg => segs'[work[t].own] \in {segs[work[t].own], Free}
  BY <1>2 DEF SegsKept
<1>4. work[t].seg # NoSeg => segs'[work[t].seg] \in {segs[work[t].seg], Free}
  BY <1>2 DEF SegsKept
<1>5. OnePortPerHost' <=> OnePortPerHost
  BY DEF OnePortPerHost, StepOf
<1> QED BY <1>1, <1>3, <1>4, <1>5 DEF HoldsKnown, IsOrWas

\* Without a change of the tables, it is enough to look at what t holds.
LEMMA TablesStay ==
  ASSUME KInv, LInv', NEW t \in Tasks, StepOf(t), UNCHANGED <<segs, levels>>,
         \/ HoldsKnown(t)'
         \/ /\ work'[t].pc # "level"
            /\ work'[t].own = NoSeg \/ (work'[t].own = work[t].own /\ work'[t].port = work[t].port)
            /\ work'[t].seg = NoSeg \/ (work'[t].seg = work[t].seg /\ work'[t].port = work[t].port)
  PROVE  KInv'
<1>1. SegsKept /\ \A w \in Rows : RowKept(w)
  BY DEF SegsKept, RowKept
<1> QED BY <1>1, KnownKept, HoldsGoOn DEF KInv

LEMMA PortKnown ==
  ASSUME KInv, NEW p \in Ports,
         BindPort(p) \/ UnbindPort(p) \/ DeletePort(p) \/ PortWork(p)
  PROVE  KInv'
<1> USE DEF Becomes, OnlyWork, Moves, Ends
<1>0. /\ LInv /\ StepOf(p) /\ LInv' /\ p \in Tasks /\ Shape(p) /\ Holds(p)
      /\ NetOf[p] \in Nets /\ PhysOf[p] \in Physnets
  BY Constants, PortStep DEF KInv, Tasks, LInv
<1>1. CASE BindPort(p)
  <2>1. PICK g \in SegmentsOf(NetOf[p], PhysOf[p]) \cup {NoSeg} :
          Becomes(p, "bind", IF g = NoSeg THEN "own" ELSE "subs", p, g, NoSeg, SubportsOf(p), NoPort)
    BY <1>0, <1>1, BindPortForm
  <2>2. UNCHANGED <<segs, levels>> /\ work'[p].pc # "level"
    BY <1>0, <1>1, <2>1 DEF BindPort
  <2>3. HoldsKnown(p)'
    BY <2>1, <2>2 DEF HoldsKnown, IsOrWas, SegmentsOf
  <2> QED BY <1>0, <2>2, <2>3, TablesStay
<1>2. CASE UnbindPort(p) \/ DeletePort(p)
  <2>1. work'[p].pc # "level" /\ work'[p].own = NoSeg /\ work'[p].seg = NoSeg
    BY <1>0, <1>2, UnbindPortForm, DeletePortForm
  <2>2. UNCHANGED segs /\ levels' = [levels EXCEPT ![<<p, HostOf[p]>>] = NoSeg]
    BY <1>2 DEF UnbindPort, DeletePort
  <2>3. SegsKept /\ \A w \in Rows : RowKept(w)
    BY <1>0, <2>2 DEF SegsKept, RowKept, LInv, TypeOK
  <2> QED BY <1>0, <2>1, <2>3, HoldsGoOn, KnownKept DEF KInv
<1>4. CASE BindOwnSegment(p)
  <2>1. levels' = levels
    BY <1>4 DEF BindOwnSegment
  <2>2. CASE Ends(p) /\ UNCHANGED segs
    BY <1>0, <2>1, <2>2, TablesStay
  <2>3. CASE \E g \in SegIds :
              /\ GetOrAllocate(NetOf[p], PhysOf[p], g)
              /\ Becomes(p, "bind", "subs", work[p].port, g, work[p].seg, work[p].todo, work[p].cur)
    <3>1. PICK g \in SegIds :
              /\ GetOrAllocate(NetOf[p], PhysOf[p], g)
              /\ Becomes(p, "bind", "subs", work[p].port, g, work[p].seg, work[p].todo, work[p].cur)
      BY <2>3
    <3>2. /\ SegsKept /\ \A w \in Rows : RowKept(w)
          /\ segs'[g].net = NetOf[p] /\ segs'[g].phys = PhysOf[p]
      BY <1>0, <2>1, <3>1, AllocateKeeps DEF KInv
    <3>3. work[p].port = p /\ work[p].seg \in SegIds \cup {NoSeg}
      BY <1>0, <1>4, IdleRecord DEF BindOwnSegment, At, Shape, LInv, TypeOK
    <3>4. OnePortPerHost' <=> OnePortPerHost
      BY <1>0 DEF OnePortPerHost, StepOf
    <3>5. work[p].seg # NoSeg => segs'[work[p].seg] \in {segs[work[p].seg], Free}
      BY <3>2, <3>3, <1>0 DEF SegsKept
    <3>6. HoldsKnown(p)
      BY <1>0 DEF KInv, SegmentsKnown, LevelsInPhysnet, HoldsKnown
    <3>7. HoldsKnown(p)'
      BY <3>1, <3>2, <3>3, <3>4, <3>5, <3>6 DEF HoldsKnown, IsOrWas
    <3> QED BY <1>0, <3>2, <3>7, KnownKept DEF KInv
  <2> QED BY <1>0, <1>4, <2>2, <2>3, BindOwnSegmentForm
<1>5. CASE CommitBinding(p)
  <2>1. /\ UNCHANGED segs /\ work'[p].pc # "level"
        /\ work'[p].own = NoSeg \/ (work'[p].own = work[p].own /\ work'[p].port = work[p].port)
        /\ work'[p].seg = NoSeg \/ (work'[p].seg = work[p].seg /\ work'[p].port = work[p].port)
    BY <1>0, <1>5, CommitBindingForm DEF CommitBinding
  <2>2. CASE UNCHANGED levels
    BY <1>0, <2>1, <2>2, TablesStay
  <2>3. CASE /\ segs[work[p].own] # Free
             /\ levels' = [levels EXCEPT ![<<p, HostOf[p]>>] = work[p].own]
    <3>1. work[p].port = p /\ p \in env.tasks /\ work[p].own \in SegIds
      <4>1. work[p].op = "bind" /\ work[p].pc = "subs" /\ work[p] # Idle /\ p \in Tasks
        BY <1>5, IdleRecord DEF CommitBinding, At, Tasks
      <4>2. Shape(p) /\ Holds(p) /\ Bounds
        BY <1>0, <4>1 DEF LInv
      <4>3. work[p].port = p
        BY <4>1, <4>2 DEF Shape, Adds
      <4> QED BY <4>1, <4>2, <4>3 DEF Holds, Bounds
    <3>2. segs[work[p].own].net = NetOf[p] /\ segs[work[p].own].phys = PhysOf[p]
      BY Constants, <1>0, <2>3, <3>1 DEF KInv, SegmentsKnown, IsOrWas
    <3>3. <<p, HostOf[p]>> \in Rows /\ levels \in [Rows -> SegIds \cup {NoSeg}]
      BY <1>0, RowOfPort DEF LInv, TypeOK
    <3>4. RowSet(<<p, HostOf[p]>>)
      BY <2>1, <2>3, <3>1, <3>2, <3>3 DEF RowSet
    <3>5. \A w \in Rows : w # <<p, HostOf[p]>> => RowKept(w)
      BY <2>1, <2>3, <3>3 DEF RowKept
    <3>6. SegsKept
      BY <2>1 DEF SegsKept
    <3> QED BY <1>0, <2>1, <3>4, <3>5, <3>6, HoldsGoOn, KnownKept DEF KInv
  <2> QED BY <1>0, <1>5, <2>2, <2>3, CommitBindingForm
<1>6. CASE FindReleased(p)
  <2>1. UNCHANGED <<segs, levels>>
    BY <1>6 DEF FindReleased
  <2>2. CASE Moves(p, "sync")
    BY <1>0, <2>1, <2>2, TablesStay
  <2>3. CASE \E g \in SegmentsOf(NetOf[p], PhysOf[p]) :
               Becomes(p, "delete", "check", work[p].port, work[p].own, g, work[p].todo, work[p].cur)
    <3>1. PICK g \in SegmentsOf(NetOf[p], PhysOf[p]) :
               Becomes(p, "delete", "check", work[p].port, work[p].own, g, work[p].todo, work[p].cur)
      BY <2>3
    <3>2. work[p].port = p
      BY <1>0, <1>6, IdleRecord DEF FindReleased, At, Shape
    <3>3. HoldsKnown(p)'
      BY <1>0, <2>1, <3>1, <3>2 DEF HoldsKnown, IsOrWas, KInv, SegmentsKnown, SegmentsOf
    <3> QED BY <1>0, <2>1, <3>3, TablesStay
  <2> QED BY <1>0, <1>6, <2>2, <2>3, FindReleasedForm
<1>7. CASE ReleaseSegmentIfUnused(p)
  BY <1>0, <1>7, ReleaseIfUnusedForm, TablesStay
<1> QED BY <1>1, <1>2, <1>4, <1>5, <1>6, <1>7 DEF PortWork

LEMMA SubportKnown ==
  ASSUME KInv, NEW s \in Subports,
         \/ \E p \in Ports, op \in Adds : AddSubport(s, p, op)
         \/ RemoveSubport(s) \/ SubportWork(s)
  PROVE  KInv'
<1> USE DEF Becomes, OnlyWork, Moves, Ends
<1>0. LInv /\ StepOf(s) /\ LInv' /\ s \in Tasks
  BY SubportStep DEF KInv, Tasks
<1>1. CASE \E p \in Ports, op \in Adds : AddSubport(s, p, op)
  BY <1>0, <1>1, AddSubportForm, TablesStay
<1>2. CASE RemoveSubport(s)
  BY <1>0, <1>2, RemoveSubportForm, TablesStay DEF RemoveSubport
<1>3. CASE CommitSubport(s)
  BY <1>0, <1>3, CommitSubportForm, TablesStay DEF CommitSubport
<1>4. CASE SubportPostcommit(s)
  BY <1>0, <1>4, SubportPostcommitForm, TablesStay
<1> QED BY <1>1, <1>2, <1>3, <1>4 DEF SubportWork

LEMMA TaskKnown ==
  ASSUME KInv, NEW t \in Tasks, TaskWork(t)
  PROVE  KInv'
<1> USE DEF Becomes, OnlyWork, Moves, Ends
<1>0. /\ LInv /\ StepOf(t) /\ LInv' /\ Shape(t) /\ Holds(t)
      /\ work[t].own \in SegIds \cup {NoSeg} /\ work[t].seg \in SegIds \cup {NoSeg}
      /\ levels \in [Rows -> SegIds \cup {NoSeg}] /\ segs \in [SegIds -> Segments]
  BY TaskStep DEF KInv, LInv, TypeOK
<1>1. /\ work[t].port \in env.tasks /\ work[t].port \in Ports
      /\ PhysOf[work[t].port] \in Physnets
      /\ \A s \in work[t].todo : s \in Tasks /\ NetOf[s] \in Nets /\ <<s, HostFor(t)>> \in Rows
  <2>1. work[t].pc # "idle"
    BY DEF TaskWork, SubportSegment, SubportLevel, CleanSubport, DeleteUnusedSegment,
           ReleaseSegment, CleanDone, Sync
  <2>2. work[t].port \in env.tasks /\ work[t].port \in Ports
    BY <1>0, <2>1, IdleRecord DEF LInv, Bounds, Shape
  <2>3. \A s \in work[t].todo : s \in Tasks
    BY <1>0 DEF LInv, TypeOK, Tasks
  <2> QED BY Constants, <2>2, <2>3, RowOfPort DEF HostFor
<1>2. HoldsKnown(t) /\ (OnePortPerHost' <=> OnePortPerHost)
  BY <1>0 DEF KInv, SegmentsKnown, LevelsInPhysnet, HoldsKnown, StepOf, OnePortPerHost
<1>3. CASE SubportSegment(t)
  <2>1. levels' = levels
    BY <1>3 DEF SubportSegment
  <2>2. CASE Ends(t) /\ UNCHANGED segs
    BY <1>0, <2>1, <2>2, TablesStay
  <2>3. CASE \E s \in work[t].todo, g \in SegIds :
              /\ GetOrAllocate(NetOf[s], PhysOf[work[t].port], g)
              /\ Becomes(t, work[t].op, "level", work[t].port, work[t].own, g, work[t].todo, s)
    <3>1. PICK s \in work[t].todo, g \in SegIds :
              /\ GetOrAllocate(NetOf[s], PhysOf[work[t].port], g)
              /\ Becomes(t, work[t].op, "level", work[t].port, work[t].own, g, work[t].todo, s)
      BY <2>3
    <3>2. /\ SegsKept /\ \A w \in Rows : RowKept(w)
          /\ segs'[g].net = NetOf[s] /\ segs'[g].phys = PhysOf[work[t].port]
      <4>1. NetOf[s] \in Nets /\ PhysOf[work[t].port] \in Physnets
        BY <1>1
      <4>2. LInv /\ SegmentsKnown /\ GetOrAllocate(NetOf[s], PhysOf[work[t].port], g)
        BY <3>1 DEF KInv
      <4> QED BY Constants, <2>1, <4>1, <4>2, AllocateKeeps, SMTT(30)
    <3>3. work[t].own # NoSeg => segs'[work[t].own] \in {segs[work[t].own], Free}
      BY <1>0, <3>2 DEF SegsKept
    <3>4. HoldsKnown(t)'
      BY <1>2, <3>1, <3>2, <3>3 DEF HoldsKnown, IsOrWas
    <3> QED BY <1>0, <3>2, <3>4, KnownKept DEF KInv
  <2> QED BY <1>0, <1>3, <2>2, <2>3, SubportSegmentForm
<1>4. CASE SubportLevel(t)
  <2>1. /\ UNCHANGED segs /\ work'[t].pc # "level" /\ work'[t].seg = NoSeg
        /\ work'[t].own = NoSeg \/ (work'[t].own = work[t].own /\ work'[t].port = work[t].port)
    BY <1>0, <1>4, SubportLevelForm DEF SubportLevel
  <2>2. CASE UNCHANGED levels
    BY <1>0, <2>1, <2>2, TablesStay
  <2>3. CASE /\ segs[work[t].seg] # Free
             /\ levels' = [levels EXCEPT ![<<work[t].cur, HostFor(t)>>] = work[t].seg]
    <3>1. work[t].seg \in SegIds /\ work[t].cur \in work[t].todo /\ work[t].pc = "level"
      BY <1>0, <1>4 DEF SubportLevel, Holds
    <3>2. /\ segs[work[t].seg].net = NetOf[work[t].cur]
          /\ segs[work[t].seg].phys = PhysOf[work[t].port]
      BY <1>2, <2>3, <3>1 DEF HoldsKnown, IsOrWas
    <3>3. <<work[t].cur, HostFor(t)>> \in Rows
      BY <1>1, <3>1
    <3>4. RowSet(<<work[t].cur, HostFor(t)>>)
      BY <1>0, <1>1, <2>1, <2>3, <3>1, <3>2, <3>3 DEF RowSet, HostFor
    <3>5. \A w \in Rows : w # <<work[t].cur, HostFor(t)>> => RowKept(w)
      BY <1>0, <2>1, <2>3, <3>3 DEF RowKept
    <3>6. SegsKept
      BY <2>1 DEF SegsKept
    <3> QED BY <1>0, <2>1, <3>4, <3>5, <3>6, HoldsGoOn, KnownKept DEF KInv
  <2> QED BY <1>0, <1>4, <2>2, <2>3, SubportLevelForm
<1>5. CASE CleanSubport(t)
  <2>1. UNCHANGED segs
    BY <1>5 DEF CleanSubport
  <2>2. PICK s \in work[t].todo :
           \/ /\ Becomes(t, work[t].op, "clean", work[t].port, work[t].own, work[t].seg,
                         work[t].todo \ {s}, work[t].cur)
              /\ UNCHANGED levels
           \/ /\ levels[<<s, HostFor(t)>>] # NoSeg
              /\ Becomes(t, work[t].op, "checkSub", work[t].port, work[t].own,
                         levels[<<s, HostFor(t)>>], work[t].todo \ {s}, work[t].cur)
              /\ levels' = [levels EXCEPT ![<<s, HostFor(t)>>] = NoSeg]
    BY <1>0, <1>5, CleanSubportForm
  <2>3. CASE UNCHANGED levels /\ work'[t].pc = "clean"
    BY <1>0, <2>1, <2>2, <2>3, TablesStay
  <2>4. CASE /\ levels[<<s, HostFor(t)>>] # NoSeg
             /\ Becomes(t, work[t].op, "checkSub", work[t].port, work[t].own,
                        levels[<<s, HostFor(t)>>], work[t].todo \ {s}, work[t].cur)
             /\ levels' = [levels EXCEPT ![<<s, HostFor(t)>>] = NoSeg]
    <3>1. SegsKept /\ \A w \in Rows : RowKept(w)
      BY <1>0, <2>1, <2>4 DEF SegsKept, RowKept
    <3>2. OnePortPerHost => segs[levels[<<s, HostFor(t)>>]].phys = PhysOf[work[t].port]
      <4>1. s \in Tasks /\ work[t].port \in Ports \cap env.tasks
        BY <1>1
      <4>2. OnePortPerHost /\ levels[s, HostOf[work[t].port]] # NoSeg =>
              segs[levels[s, HostOf[work[t].port]]].phys = PhysOf[work[t].port]
        BY <4>1 DEF KInv, LevelsInPhysnet
      <4> QED BY <2>4, <4>2 DEF HostFor
    <3>3. HoldsKnown(t)'
      BY <1>2, <2>1, <2>4, <3>2 DEF HoldsKnown, IsOrWas
    <3> QED BY <1>0, <3>1, <3>3, KnownKept DEF KInv
  <2> QED BY <2>2, <2>3, <2>4
<1>6. CASE DeleteUnusedSegment(t)
  BY <1>0, <1>6, DeleteUnusedSegmentForm, TablesStay
<1>7. CASE ReleaseSegment(t)
  <2>1. /\ work'[t].pc # "level" /\ work'[t].seg = NoSeg
        /\ work'[t].own = work[t].own /\ work'[t].port = work[t].port
    BY <1>0, <1>7, ReleaseSegmentForm
  <2>2. SegsKept
    BY <1>0, <1>7 DEF ReleaseSegment, SegsKept
  <2>3. \A w \in Rows : RowKept(w)
    BY <1>0, <1>7 DEF ReleaseSegment, RowKept
  <2> QED BY <1>0, <2>1, <2>2, <2>3, HoldsGoOn, KnownKept DEF KInv
<1>8. CASE CleanDone(t)
  BY <1>0, <1>8, CleanDoneForm, TablesStay
<1>9. CASE Sync(t)
  BY <1>0, <1>9, SyncForm, TablesStay DEF Sync
<1> QED BY <1>3, <1>4, <1>5, <1>6, <1>7, <1>8, <1>9 DEF TaskWork

LEMMA KnownStep == ASSUME KInv, Next  PROVE KInv'
<1>1. CASE \E p \in Ports : BindPort(p) \/ UnbindPort(p) \/ DeletePort(p) \/ PortWork(p)
  BY <1>1, PortKnown
<1>2. CASE \E s \in Subports : \/ \E p \in Ports, op \in Adds : AddSubport(s, p, op)
                               \/ RemoveSubport(s) \/ SubportWork(s)
  BY <1>2, SubportKnown
<1>3. CASE \E t \in Tasks : TaskWork(t)
  BY <1>3, TaskKnown
<1> QED BY <1>1, <1>2, <1>3 DEF Next, Adds
=============================================================================
