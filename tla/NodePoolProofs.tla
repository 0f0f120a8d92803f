--------------------------- MODULE NodePoolProofs ---------------------------
(***************************************************************************)
(* Proofs about the shared pool of nodes (NodePool), first of the routers  *)
(* that take nodes from it, then of the enrolments that put them there,    *)
(* for any number of nodes, ports, routers, requests and workflow runs and *)
(* any calls that may fail, while requests for one resource class do not   *)
(* overlap.                                                                *)
(***************************************************************************)
EXTENDS NodePool, TLAPS

USE ZenonT(40)

-----------------------------------------------------------------------------
\* The inductive invariant.

\* Runs are records, and a run that is not idle is of a request that there is.
JobsTyped ==
  /\ job = [w \in Workflows |-> job[w]]
  /\ \A w \in Workflows :
       /\ job[w] = [pc |-> job[w].pc, req |-> job[w].req, node |-> job[w].node,
                    state |-> job[w].state, todo |-> job[w].todo]
       /\ job[w].pc # "idle" => job[w].req \in scope.requests

\* A request works on a node or on none; a committed router has none under way.
Placed ==
  /\ scope \in Scopes /\ faults = scope.faults
  /\ \A r \in Routers : /\ proc[r].node = NoNode <=> proc[r].pc \in {"idle", "lookup"}
                        /\ r \in live => At(r, "idle")

\* Requests for one class do not overlap, and a request stays in its class.
OneAtATime ==
  /\ \A r, q \in Routers : r # q /\ ClassOf[r] = ClassOf[q] => At(r, "idle") \/ At(q, "idle")
  /\ \A r \in Routers : proc[r].node # NoNode => class[proc[r].node] = ClassOf[r]

\* No router request works on a node that is being enrolled, nor is about to
\* look it up; and what the engine changes is in none of the states of a node
\* in use.
EnginePcs == {"create", "plan", "stepDown", "metadata", "ports", "manage", "provide"}
EngineStates == {"absent", "enroll", "manageable", "available"}
EnrolledApart ==
  \A w \in Workflows :
    /\ Enrolling(w) => \A r \in Routers : /\ proc[r].node # Node(w)
                                          /\ At(r, "lookup") => inst[Node(w)] # r
    /\ job[w].pc \in EnginePcs => state[Node(w)] \in EngineStates

\* From its stamping on, a create has its node for itself.
Stamped(r, n) ==
  inst[n] = r /\ lessee[n] = r /\ \A m \in Nodes : inst[m] = r => m = n

Adopting(r) ==
  /\ proc[r].pc \in {"adopt", "wait", "commit"} =>
       Stamped(r, proc[r].node) /\ state[proc[r].node] # "deleting"
  /\ At(r, "commit") => state[proc[r].node] = "active"

\* A router that is committed, or whose release has yet to find its node, owns
\* an active node that no request works on.
OwnedBy(r, n) ==
  /\ state[n] = "active" /\ class[n] = ClassOf[r] /\ Stamped(r, n)
  /\ \A q \in Routers : proc[q].node # n

Owners ==
  \A r \in Routers : r \in live \/ At(r, "lookup") => \E n \in Nodes : OwnedBy(r, n)

\* While only early calls fail: the states a node may be in at each step of the
\* request that works on it, and every other node is returned.
Unstamped(n) == inst[n] = NoRouter /\ lessee[n] = NoRouter

OnTrack(r, n) ==
  LET pc == proc[r].pc IN
  /\ pc \in {"anchor", "createAnchor", "manage"} => state[n] = "available" /\ Unstamped(n)
  /\ pc \in {"stamp", "adopt", "clearProvide", "provide"} => state[n] = "manageable"
  /\ pc = "wait" => state[n] \in {"adopting", "active", "adopt failed"}
  /\ pc = "reread" => state[n] \in {"available", "manageable", "active", "adopt failed"}
  /\ pc = "clear" => state[n] = "available"
  /\ pc = "provide" => Unstamped(n)
  /\ pc = "undeploy" => state[n] = "active"
  /\ pc = "undeployWait" => state[n] \in {"deleting", "available"}

WorkedOn(n) == \E r \in Routers : proc[r].node = n \/ (At(r, "lookup") /\ inst[n] = r)

Untouched == {n \in Nodes \ scope.absent : RequestsFor(n) = {}}

Returning ==
  faults \subseteq EarlyCalls =>
    \A n \in Untouched : /\ \A r \in Routers : proc[r].node = n => OnTrack(r, n)
                         /\ ~WorkedOn(n) => Returned(n)

PoolInv ==
  /\ TypeOK /\ JobsTyped /\ Placed /\ OneAtATime /\ EnrolledApart
  /\ \A r \in Routers : Adopting(r)
  /\ Owners /\ Returning

-----------------------------------------------------------------------------
\* Router requests: what a step leaves alone.

\* Only the request of r moves, and it is on node n or done.
Moves(r, n) ==
  /\ \A q \in Routers \ {r} : proc'[q] = proc[q]
  /\ proc'[r] = Idle \/ (proc'[r].node = n /\ proc'[r].pc \in CreatePcs \cup ReturnPcs)

\* Only node n may change, and only the stamps of r are put on it.
OnlyNode(r, n) ==
  /\ \A m \in Nodes \ {n} : state'[m] = state[m] /\ inst'[m] = inst[m] /\ lessee'[m] = lessee[m]
  /\ inst'[n] \in {inst[n], r, NoRouter}

\* A step of the request of r on its node n; it may commit the router.
WorkStep(r, n) ==
  /\ TypeOK' /\ Moves(r, n) /\ OnlyNode(r, n)
  /\ UNCHANGED <<class, faults, enrollVars, scope>>
  /\ \/ live' = live
     \/ /\ live' = live \cup {r} /\ At(r, "commit")
        /\ proc'[r] = Idle /\ UNCHANGED ironicVars

\* What it has to leave behind while only early calls fail.
Leaves(r, n) ==
  IF proc'[r] = Idle THEN Returned(n)' ELSE OnTrack(r, n)'

LEMMA Idles ==
  Idle.pc = "idle" /\ Idle.node = NoNode /\ Idle \in [pc : Pcs, node : Nodes \cup {NoNode}]
  BY DEF Idle, Pcs

LEMMA GotoForm ==
  ASSUME TypeOK, NEW r \in Routers, NEW pc \in CreatePcs \cup ReturnPcs, Goto(r, pc)
  PROVE  /\ proc' \in [Routers -> [pc : Pcs, node : Nodes \cup {NoNode}]]
         /\ proc'[r].pc = pc /\ proc'[r].node = proc[r].node /\ proc'[r] # Idle
         /\ Moves(r, proc[r].node)
<1>1. pc \in Pcs /\ pc # "idle"
  BY DEF Pcs, CreatePcs, ReturnPcs
<1> QED BY <1>1, Idles DEF TypeOK, Goto, Moves

LEMMA FinishForm ==
  ASSUME TypeOK, NEW r \in Routers, Finish(r)
  PROVE  /\ proc' \in [Routers -> [pc : Pcs, node : Nodes \cup {NoNode}]]
         /\ proc'[r] = Idle /\ \A n : Moves(r, n)
  BY Idles DEF TypeOK, Finish, Moves

\* The request of another router is on another node, and so is what another
\* router owns and what is being enrolled.
LEMMA Alone ==
  ASSUME PoolInv, NEW r \in Routers, NEW n \in Nodes, proc[r].node = n
  PROVE  /\ r \notin live /\ ~At(r, "lookup")
         /\ \A q \in Routers \ {r} : proc[q].node # n
         /\ \A q \in Routers, m \in Nodes : OwnedBy(q, m) => m # n
         /\ \A w \in Workflows : Enrolling(w) => Node(w) # n
<1>1. n # NoNode
  BY AdoptionAssumption
<1>2. r \notin live /\ ~At(r, "lookup") /\ ~At(r, "idle")
  BY <1>1 DEF PoolInv, Placed, At
<1>3. ASSUME NEW q \in Routers, q # r, proc[q].node = n  PROVE FALSE
  BY <1>1, <1>2, <1>3, SMTT(30) DEF PoolInv, Placed, OneAtATime, At
<1>4. \A q \in Routers, m \in Nodes : OwnedBy(q, m) => m # n
  BY DEF OwnedBy
<1>5. \A w \in Workflows : Enrolling(w) => Node(w) # n
  BY DEF PoolInv, EnrolledApart
<1> QED BY <1>2, <1>3, <1>4, <1>5

LEMMA WorkStepKeeps ==
  ASSUME PoolInv, NEW r \in Routers, NEW n \in Nodes, proc[r].node = n, WorkStep(r, n),
         Adopting(r)', faults \subseteq EarlyCalls /\ n \in Untouched => Leaves(r, n)
  PROVE  PoolInv'
<1>1. /\ r \notin live /\ ~At(r, "lookup")
      /\ \A q \in Routers \ {r} : proc[q].node # n
      /\ \A q \in Routers, m \in Nodes : OwnedBy(q, m) => m # n
      /\ \A w \in Workflows : Enrolling(w) => Node(w) # n
  BY Alone
<1>2. n # NoNode /\ NoRouter \notin Routers
  BY AdoptionAssumption, NoRouterAssumption
<1>3. /\ proc'[r].node = NoNode <=> proc'[r].pc \in {"idle", "lookup"}
      /\ proc'[r].pc # "lookup" /\ (proc'[r].node # NoNode => proc'[r].node = n)
      /\ At(r, "idle")' <=> proc'[r] = Idle
  BY <1>2, Idles DEF WorkStep, Moves, CreatePcs, ReturnPcs, At
<1>4. JobsTyped'
  BY DEF PoolInv, JobsTyped, WorkStep, enrollVars
<1>5. Placed'
  BY <1>1, <1>3 DEF PoolInv, Placed, WorkStep, Moves, At
<1>6. OneAtATime'
  BY <1>1, <1>2, <1>3, SMTT(30) DEF PoolInv, OneAtATime, Placed, WorkStep, Moves, At
<1>7. EnrolledApart'
  <2> SUFFICES ASSUME NEW w \in Workflows
               PROVE  /\ Enrolling(w) => \A q \in Routers : /\ proc'[q].node # Node(w)
                                                            /\ At(q, "lookup")' => inst'[Node(w)] # q
                      /\ job[w].pc \in EnginePcs => state'[Node(w)] \in EngineStates
    BY DEF EnrolledApart, WorkStep, enrollVars, Enrolling, Node, Ask
  <2>1. Enrolling(w) => Node(w) \in Nodes \ {n} 
    BY <1>1, EnrollAssumption, ScopeAssumption DEF PoolInv, JobsTyped, Placed, Enrolling, Node, Ask
  <2>2. job[w].pc \in EnginePcs => Enrolling(w)
    BY DEF EnginePcs, Enrolling
  <2>3. Enrolling(w) => state'[Node(w)] = state[Node(w)] /\ inst'[Node(w)] = inst[Node(w)]
    BY <2>1 DEF WorkStep, OnlyNode
  <2>4. ASSUME Enrolling(w), NEW q \in Routers
        PROVE  proc'[q].node # Node(w) /\ (At(q, "lookup")' => inst'[Node(w)] # q)
    <3>1. CASE q = r
      <4>1. Node(w) # NoNode
        BY <2>1, <2>4, AdoptionAssumption
      <4> QED BY <1>3, <2>1, <2>4, <3>1, <4>1 DEF At
    <3>2. CASE q # r
      BY <2>3, <2>4, <3>2 DEF PoolInv, EnrolledApart, WorkStep, Moves, At
    <3> QED BY <3>1, <3>2
  <2> QED BY <2>2, <2>3, <2>4 DEF PoolInv, EnrolledApart
<1>8. ASSUME NEW q \in Routers \ {r}, NEW m \in Nodes \ {n}, Stamped(q, m)
      PROVE  Stamped(q, m)'
  BY <1>2, <1>8 DEF Stamped, WorkStep, OnlyNode
<1>9. ASSUME NEW q \in Routers  PROVE Adopting(q)'
  <2>1. CASE q # r
    <3>1. ASSUME proc[q].pc \in {"adopt", "wait", "commit"}
          PROVE  proc[q].node \in Nodes \ {n}
      BY <1>1, <2>1, <3>1 DEF PoolInv, TypeOK, Placed
    <3>2. proc'[q] = proc[q]
      BY <2>1 DEF WorkStep, Moves
    <3>3. ASSUME proc[q].pc \in {"adopt", "wait", "commit"}
          PROVE  Stamped(q, proc[q].node)' /\ state'[proc[q].node] = state[proc[q].node]
      <4>1. Stamped(q, proc[q].node)
        BY <3>3 DEF PoolInv, Adopting
      <4>2. \A m : m = proc[q].node => Stamped(q, m)'
        BY <1>8, <2>1, <3>1, <3>3, <4>1
      <4>3. state'[proc[q].node] = state[proc[q].node]
        BY <3>1, <3>3 DEF WorkStep, OnlyNode
      <4> QED BY <3>2, <4>2, <4>3 DEF Stamped
    <3> QED BY <3>2, <3>3 DEF PoolInv, Adopting, At, Stamped
  <2> QED BY <2>1
<1>10. Owners'
  <2> SUFFICES ASSUME NEW q \in Routers, q \in live' \/ At(q, "lookup")'
               PROVE  \E m \in Nodes : OwnedBy(q, m)'
    BY DEF Owners
  <2>1. CASE q # r
    <3>1. q \in live \/ At(q, "lookup")
      BY <2>1 DEF WorkStep, Moves, At
    <3>2. PICK m \in Nodes : OwnedBy(q, m)
      BY <3>1 DEF PoolInv, Owners
    <3>3. m # n /\ Stamped(q, m)'
      BY <1>1, <1>8, <2>1, <3>2 DEF OwnedBy
    <3>4. \A p \in Routers : proc'[p].node # m
      BY <1>3, <3>2, <3>3, AdoptionAssumption DEF OwnedBy, WorkStep, Moves
    <3>5. OwnedBy(q, m)'
      BY <3>2, <3>3, <3>4 DEF OwnedBy, WorkStep, OnlyNode
    <3> QED BY <3>5
  <2>2. CASE q = r
    <3>1. At(r, "commit") /\ proc'[r] = Idle /\ UNCHANGED ironicVars
      BY <1>1, <1>3, <2>2 DEF WorkStep, At
    <3>2. Stamped(r, n) /\ state[n] = "active" /\ class[n] = ClassOf[r]
      BY <1>2, <3>1 DEF PoolInv, Adopting, At, OneAtATime
    <3>3. \A p \in Routers : proc'[p].node # n
      BY <1>1, <1>2, <3>1, Idles DEF WorkStep, Moves
    <3>4. OwnedBy(r, n)'
      BY <3>1, <3>2, <3>3 DEF OwnedBy, Stamped, ironicVars, stamps
    <3> QED BY <2>2, <3>4
  <2> QED BY <2>1, <2>2
<1>11. Returning'
  <2> SUFFICES ASSUME faults \subseteq EarlyCalls, NEW m \in Untouched
               PROVE  /\ \A q \in Routers : proc'[q].node = m => OnTrack(q, m)'
                      /\ ~WorkedOn(m)' => Returned(m)'
    BY DEF Returning, WorkStep, Untouched, RequestsFor
  <2>1. CASE m = n
    <3>1. \A q \in Routers : proc'[q].node = n => q = r /\ proc'[r] # Idle
      BY <1>1, <1>2, Idles DEF WorkStep, Moves
    <3>2. ~WorkedOn(n)' => proc'[r] = Idle
      BY DEF WorkedOn, WorkStep, Moves
    <3>3. Leaves(r, n)
      BY <2>1
    <3> QED BY <2>1, <3>1, <3>2, <3>3 DEF Leaves
  <2>2. CASE m # n
    <3>1. /\ \A q \in Routers : proc[q].node = m => OnTrack(q, m)
          /\ ~WorkedOn(m) => Returned(m)
      BY DEF PoolInv, Returning
    <3>2. m \in Nodes /\ state'[m] = state[m] /\ inst'[m] = inst[m] /\ lessee'[m] = lessee[m]
      BY <2>2 DEF Untouched, WorkStep, OnlyNode
    <3>3. ASSUME NEW q \in Routers, proc'[q].node = m  PROVE OnTrack(q, m)'
      <4>1. q # r /\ proc'[q] = proc[q]
        BY <1>3, <2>2, <3>2, <3>3, AdoptionAssumption DEF WorkStep, Moves
      <4> QED BY <3>1, <3>2, <3>3, <4>1 DEF OnTrack, Unstamped
    <3>4. ASSUME ~WorkedOn(m)'  PROVE Returned(m)'
      <4>1. ASSUME NEW q \in Routers, proc[q].node = m \/ (At(q, "lookup") /\ inst[m] = q)
            PROVE  FALSE
        <5>1. q # r
          BY <1>1, <2>2, <4>1
        <5>2. proc'[q] = proc[q]
          BY <5>1 DEF WorkStep, Moves
        <5> QED BY <3>2, <3>4, <4>1, <5>2 DEF WorkedOn, At
      <4>2. Returned(m)
        BY <3>1, <4>1 DEF WorkedOn
      <4> QED BY <3>2, <4>2 DEF Returned, WorkStep
    <3> QED BY <3>3, <3>4
  <2> QED BY <2>1, <2>2
<1> QED BY <1>4, <1>5, <1>6, <1>7, <1>9, <1>10, <1>11 DEF PoolInv, WorkStep

Verbs == {"manage", "provide", "adopt", "undeploy"}

LEMMA ProvisionForm ==
  ASSUME TypeOK, NEW n \in Nodes, NEW verb \in Verbs, SetProvisionState(n, verb)
  PROVE  /\ IronicTypeOK' /\ UNCHANGED <<inst, lessee, class>>
         /\ state[n] \in ValidFrom(verb) /\ state'[n] = LeadsTo(verb)
         /\ \A m \in Nodes \ {n} : state'[m] = state[m]
<1>1. LeadsTo(verb) \in ProvisionStates
  BY DEF Verbs, LeadsTo, ProvisionStates
<1> QED BY <1>1 DEF TypeOK, IronicTypeOK, SetProvisionState, Accepts, stamps

LEMMA OwnerForm ==
  ASSUME TypeOK, NEW n \in Nodes, NEW x \in Routers \cup {NoRouter}, SetOwner(n, x)
  PROVE  /\ IronicTypeOK' /\ UNCHANGED <<state, class>> /\ inst'[n] = x /\ lessee'[n] = x
         /\ \A m \in Nodes \ {n} : inst'[m] = inst[m] /\ lessee'[m] = lessee[m]
  BY DEF TypeOK, IronicTypeOK, SetOwner

\* Every step of a request on its node has this form, the commit apart.
LEMMA StepForm ==
  ASSUME TypeOK, NEW r \in Routers, NEW n \in Nodes, proc[r].node = n,
         \/ UNCHANGED ironicVars
         \/ \E verb \in Verbs : SetProvisionState(n, verb)
         \/ \E x \in {r, NoRouter} : SetOwner(n, x),
         Finish(r) \/ \E pc \in CreatePcs \cup ReturnPcs : Goto(r, pc),
         anchors' \in Nat, UNCHANGED <<live, faults, enrollVars, scope>>
  PROVE  WorkStep(r, n)
<1>1. Moves(r, n) /\ proc' \in [Routers -> [pc : Pcs, node : Nodes \cup {NoNode}]]
  BY GotoForm, FinishForm
<1>2. OnlyNode(r, n) /\ IronicTypeOK' /\ class' = class
  <2>1. CASE UNCHANGED ironicVars
    BY <2>1 DEF TypeOK, IronicTypeOK, OnlyNode, ironicVars, stamps
  <2>2. CASE \E verb \in Verbs : SetProvisionState(n, verb)
    BY <2>2, ProvisionForm DEF OnlyNode
  <2>3. CASE \E x \in {r, NoRouter} : SetOwner(n, x)
    BY <2>3, OwnerForm DEF OnlyNode
  <2> QED BY <2>1, <2>2, <2>3
<1>3. TypeOK'
  BY <1>1, <1>2 DEF TypeOK
<1> QED BY <1>1, <1>2, <1>3 DEF WorkStep

LEMMA OnNode ==
  ASSUME PoolInv, NEW r \in Routers, ~At(r, "idle"), ~At(r, "lookup")
  PROVE  proc[r].node \in Nodes
  BY DEF PoolInv, Placed, TypeOK, At

\* The anchor network: the node is as it was selected.
LEMMA AnchorKeeps ==
  ASSUME PoolInv, NEW r \in Routers, FindAnchor(r) \/ CreateAnchor(r),
         UNCHANGED <<enrollVars, scope>>
  PROVE  PoolInv'
<1>1. PICK n \in Nodes : proc[r].node = n /\ proc[r].pc \in {"anchor", "createAnchor"} /\ TypeOK
  BY OnNode DEF FindAnchor, CreateAnchor, At, PoolInv
<1>2. /\ UNCHANGED <<ironicVars, live, faults>> /\ anchors' \in Nat
      /\ Finish(r) \/ \E pc \in {"manage", "createAnchor"} : Goto(r, pc)
  BY <1>1, SMTT(30) DEF FindAnchor, CreateAnchor, TypeOK
<1>3. WorkStep(r, n)
  BY <1>1, <1>2, StepForm DEF CreatePcs
<1>4. proc'[r] = Idle \/ (proc'[r].pc \in {"manage", "createAnchor"} /\ proc'[r] # Idle)
  BY <1>1, <1>2, GotoForm, FinishForm DEF CreatePcs
<1>5. Adopting(r)'
  BY <1>4, Idles DEF Adopting, At
<1>6. ASSUME faults \subseteq EarlyCalls, n \in Untouched  PROVE Leaves(r, n)
  <2>1. state'[n] = "available" /\ Unstamped(n)'
    BY <1>1, <1>2, <1>6 DEF PoolInv, Returning, OnTrack, Unstamped, ironicVars, stamps
  <2>2. Returned(n)'
    BY <2>1 DEF Returned, Unstamped
  <2>3. proc'[r] # Idle => OnTrack(r, n)'
    BY <1>4, <2>1 DEF OnTrack
  <2> QED BY <2>2, <2>3 DEF Leaves
<1> QED BY <1>1, <1>3, <1>5, <1>6, WorkStepKeeps

\* manage, adopt and undeploy: accepted, refused, failed, or the answer lost.
LEMMA ProvisionStep ==
  ASSUME PoolInv, NEW r \in Routers, NEW n \in Nodes, proc[r].node = n, NEW call,
         NEW verb \in Verbs, NEW ok \in CreatePcs \cup ReturnPcs,
         NEW failed \in {"reread", "clear"},
         Provision(r, call, verb, ok, failed), UNCHANGED <<live, faults, anchors, enrollVars, scope>>
  PROVE  /\ WorkStep(r, n) /\ proc'[r] # Idle /\ proc'[r].node = n /\ UNCHANGED <<inst, lessee, class>>
         /\ \/ /\ state[n] \in ValidFrom(verb) /\ state'[n] = LeadsTo(verb)
               /\ proc'[r].pc = ok \/ (proc'[r].pc = failed /\ Fault(call))
            \/ /\ state[n] \notin ValidFrom(verb) \/ Fault(call)
               /\ proc'[r].pc = failed /\ state' = state
<1>1. TypeOK /\ anchors' \in Nat /\ failed \in CreatePcs \cup ReturnPcs
  BY DEF PoolInv, TypeOK, ReturnPcs
<1>2. CASE SetProvisionState(n, verb) /\ Goto(r, ok)
  BY <1>1, <1>2, StepForm, GotoForm, ProvisionForm
<1>3. CASE (~Accepts(n, verb) \/ Fault(call)) /\ UNCHANGED ironicVars /\ Goto(r, failed)
  BY <1>1, <1>3, StepForm, GotoForm DEF Accepts, ironicVars, stamps
<1>4. CASE Fault(call) /\ SetProvisionState(n, verb) /\ Goto(r, failed)
  BY <1>1, <1>4, StepForm, GotoForm, ProvisionForm
<1> QED BY <1>2, <1>3, <1>4 DEF Provision

LEMMA ManageKeeps ==
  ASSUME PoolInv, NEW r \in Routers, Manage(r), UNCHANGED <<enrollVars, scope>>
  PROVE  PoolInv'
<1>1. PICK n \in Nodes : proc[r].node = n /\ proc[r].pc = "manage"
  BY OnNode DEF Manage, At
<1>2. /\ WorkStep(r, n) /\ proc'[r] # Idle /\ UNCHANGED <<inst, lessee, class>>
      /\ \/ state'[n] = "manageable" /\ proc'[r].pc \in {"stamp", "reread"}
         \/ proc'[r].pc = "reread" /\ state' = state
  <2>1. /\ "manage" \in Verbs /\ "stamp" \in CreatePcs \cup ReturnPcs /\ "reread" \in {"reread", "clear"}
        /\ LeadsTo("manage") = "manageable"
    BY DEF Verbs, CreatePcs, LeadsTo
  <2>2. /\ WorkStep(r, n) /\ proc'[r] # Idle /\ proc'[r].node = n /\ UNCHANGED <<inst, lessee, class>>
        /\ \/ /\ state[n] \in ValidFrom("manage") /\ state'[n] = LeadsTo("manage")
              /\ proc'[r].pc = "stamp" \/ (proc'[r].pc = "reread" /\ Fault("manage"))
           \/ /\ state[n] \notin ValidFrom("manage") \/ Fault("manage")
              /\ proc'[r].pc = "reread" /\ state' = state
    BY <1>1, <2>1, ProvisionStep, SMTT(30) DEF Manage
  <2> QED BY <2>1, <2>2
<1>3. Adopting(r)'
  BY <1>2 DEF Adopting, At
<1>4. ASSUME faults \subseteq EarlyCalls, n \in Untouched  PROVE Leaves(r, n)
  <2>1. state[n] = "available"
    BY <1>1, <1>4 DEF PoolInv, Returning, OnTrack
  <2>2. OnTrack(r, n)'
    BY <1>2, <2>1 DEF OnTrack
  <2> QED BY <1>2, <2>2 DEF Leaves
<1> QED BY <1>1, <1>2, <1>3, <1>4, WorkStepKeeps

LEMMA StampKeeps ==
  ASSUME PoolInv, NEW r \in Routers, Stamp(r), UNCHANGED <<enrollVars, scope>>
  PROVE  PoolInv'
<1>1. PICK n \in Nodes : proc[r].node = n /\ proc[r].pc = "stamp" /\ TypeOK /\ anchors' \in Nat
  BY OnNode DEF Stamp, At, PoolInv, TypeOK
<1>2. /\ UNCHANGED ironicVars \/ SetOwner(n, r)
      /\ \/ Goto(r, "adopt") /\ StampAllowed(n, r) /\ SetOwner(n, r)
         \/ Goto(r, "reread")
  BY <1>1 DEF Stamp
<1>3. WorkStep(r, n)
  BY <1>1, <1>2, StepForm DEF Stamp, CreatePcs, ReturnPcs
<1>4. /\ proc'[r] # Idle /\ state' = state /\ proc'[r].node = n
      /\ \/ proc'[r].pc = "reread"
         \/ proc'[r].pc = "adopt" /\ StampAllowed(n, r) /\ SetOwner(n, r)
  BY <1>1, <1>2, GotoForm, OwnerForm DEF CreatePcs, ReturnPcs, ironicVars
<1>5. Adopting(r)'
  <2>1. CASE proc'[r].pc = "reread"
    BY <2>1 DEF Adopting, At
  <2>2. CASE proc'[r].pc = "adopt" /\ StampAllowed(n, r) /\ SetOwner(n, r)
    <3>1. Stamped(r, n)'
      BY <1>1, <2>2, OwnerForm DEF Stamped, StampAllowed
    <3>2. state'[n] # "deleting"
      BY <1>4, <2>2 DEF StampAllowed, UpdateAllowed, Transitional
    <3> QED BY <1>4, <2>2, <3>1, <3>2 DEF Adopting, At, Stamped
  <2> QED BY <1>4, <2>1, <2>2
<1>6. ASSUME faults \subseteq EarlyCalls, n \in Untouched  PROVE Leaves(r, n)
  <2>1. state[n] = "manageable"
    BY <1>1, <1>6 DEF PoolInv, Returning, OnTrack
  <2>2. OnTrack(r, n)'
    BY <1>4, <2>1 DEF OnTrack
  <2> QED BY <1>4, <2>2 DEF Leaves
<1> QED BY <1>1, <1>3, <1>5, <1>6, WorkStepKeeps

LEMMA AdoptKeeps ==
  ASSUME PoolInv, NEW r \in Routers, Adopt(r), UNCHANGED <<enrollVars, scope>>
  PROVE  PoolInv'
<1>1. PICK n \in Nodes : proc[r].node = n /\ proc[r].pc = "adopt"
  BY OnNode DEF Adopt, At
<1>2. /\ WorkStep(r, n) /\ proc'[r] # Idle /\ UNCHANGED <<inst, lessee, class>> /\ proc'[r].node = n
      /\ \/ /\ state'[n] = "adopting"
            /\ proc'[r].pc = "wait" \/ (proc'[r].pc = "reread" /\ Fault("adopt"))
         \/ /\ proc'[r].pc = "reread" /\ state' = state
  <2>1. /\ "adopt" \in Verbs /\ "wait" \in CreatePcs \cup ReturnPcs /\ "reread" \in {"reread", "clear"}
        /\ LeadsTo("adopt") = "adopting"
    BY DEF Verbs, CreatePcs, LeadsTo
  <2>2. /\ WorkStep(r, n) /\ proc'[r] # Idle /\ proc'[r].node = n /\ UNCHANGED <<inst, lessee, class>>
        /\ \/ /\ state[n] \in ValidFrom("adopt") /\ state'[n] = LeadsTo("adopt")
              /\ proc'[r].pc = "wait" \/ (proc'[r].pc = "reread" /\ Fault("adopt"))
           \/ /\ state[n] \notin ValidFrom("adopt") \/ Fault("adopt")
              /\ proc'[r].pc = "reread" /\ state' = state
    BY <1>1, <2>1, ProvisionStep, SMTT(30) DEF Adopt
  <2> QED BY <2>1, <2>2
<1>3. Stamped(r, n)
  BY <1>1 DEF PoolInv, Adopting
<1>4. Adopting(r)'
  BY <1>2, <1>3 DEF Adopting, At, Stamped
<1>5. ASSUME faults \subseteq EarlyCalls, n \in Untouched  PROVE Leaves(r, n)
  <2>1. state[n] = "manageable" /\ ~Fault("adopt")
    BY <1>1, <1>5 DEF PoolInv, Returning, OnTrack, Fault, EarlyCalls
  <2>2. OnTrack(r, n)'
    BY <1>2, <2>1 DEF OnTrack
  <2> QED BY <1>2, <2>2 DEF Leaves
<1> QED BY <1>1, <1>2, <1>4, <1>5, WorkStepKeeps

LEMMA WaitKeeps ==
  ASSUME PoolInv, NEW r \in Routers, WaitActive(r), UNCHANGED <<enrollVars, scope>>
  PROVE  PoolInv'
<1>1. PICK n \in Nodes : proc[r].node = n /\ proc[r].pc = "wait" /\ TypeOK /\ anchors' \in Nat
  BY OnNode DEF WaitActive, At, PoolInv, TypeOK
<1>2. /\ UNCHANGED <<ironicVars, live, faults>>
      /\ \/ Goto(r, "commit") /\ state[n] = "active"
         \/ Goto(r, "reread") /\ (state[n] \notin {"active", "adopting"} \/ Fault("wait"))
  BY <1>1 DEF WaitActive
<1>3. WorkStep(r, n)
  BY <1>1, <1>2, StepForm DEF CreatePcs, ReturnPcs
<1>4. /\ proc'[r] # Idle /\ proc'[r].node = n /\ UNCHANGED <<state, inst, lessee>>
      /\ \/ proc'[r].pc = "commit" /\ state[n] = "active"
         \/ proc'[r].pc = "reread" /\ (state[n] \notin {"active", "adopting"} \/ Fault("wait"))
  BY <1>1, <1>2, GotoForm DEF CreatePcs, ReturnPcs, ironicVars, stamps
<1>5. Stamped(r, n)
  BY <1>1 DEF PoolInv, Adopting
<1>6. Adopting(r)'
  BY <1>4, <1>5 DEF Adopting, At, Stamped
<1>7. ASSUME faults \subseteq EarlyCalls, n \in Untouched  PROVE Leaves(r, n)
  <2>1. state[n] \in {"adopting", "active", "adopt failed"} /\ ~Fault("wait")
    BY <1>1, <1>7 DEF PoolInv, Returning, OnTrack, Fault, EarlyCalls
  <2>2. OnTrack(r, n)'
    BY <1>4, <2>1 DEF OnTrack
  <2> QED BY <1>4, <2>2 DEF Leaves
<1> QED BY <1>1, <1>3, <1>6, <1>7, WorkStepKeeps

\* The commit: the node is active and stamped, and stays so.
LEMMA CommitKeeps ==
  ASSUME PoolInv, NEW r \in Routers, CommitRouter(r), UNCHANGED <<enrollVars, scope>>
  PROVE  PoolInv'
<1>1. PICK n \in Nodes : proc[r].node = n /\ proc[r].pc = "commit" /\ TypeOK
  BY OnNode DEF CommitRouter, At, PoolInv
<1>2. /\ live' = live \cup {r} \/ (live' = live /\ Fault("txn"))
      /\ Finish(r) /\ UNCHANGED <<ironicVars, faults, anchors>>
  BY DEF CommitRouter
<1>3. proc'[r] = Idle /\ Moves(r, n) /\ proc' \in [Routers -> [pc : Pcs, node : Nodes \cup {NoNode}]]
  BY <1>1, <1>2, FinishForm
<1>4. TypeOK'
  BY <1>1, <1>2, <1>3 DEF TypeOK, IronicTypeOK, ironicVars, stamps
<1>5. WorkStep(r, n)
  BY <1>1, <1>2, <1>3, <1>4 DEF WorkStep, OnlyNode, ironicVars, stamps, At
<1>6. Adopting(r)'
  BY <1>3, Idles DEF Adopting, At
<1>7. ASSUME faults \subseteq EarlyCalls  PROVE Leaves(r, n)
  <2>1. state[n] = "active" /\ inst[n] = r
    BY <1>1 DEF PoolInv, Adopting, At, Stamped
  <2>2. live' = live \cup {r}
    BY <1>2, <1>7 DEF Fault, EarlyCalls
  <2>3. Returned(n)'
    BY <1>2, <2>1, <2>2 DEF Returned, ironicVars, stamps
  <2> QED BY <1>3, <2>3 DEF Leaves
<1> QED BY <1>1, <1>5, <1>6, <1>7, WorkStepKeeps

\* The rollback and the release: re-read, clear, provide or undeploy.
LEMMA RereadKeeps ==
  ASSUME PoolInv, NEW r \in Routers, Reread(r), UNCHANGED <<enrollVars, scope>>
  PROVE  PoolInv'
<1>1. PICK n \in Nodes : proc[r].node = n /\ proc[r].pc = "reread" /\ TypeOK /\ anchors' \in Nat
  BY OnNode DEF Reread, At, PoolInv, TypeOK
<1>2. /\ UNCHANGED <<ironicVars, live, faults>>
      /\ \/ PlanFor(state[n]) # "idle" /\ Goto(r, PlanFor(state[n]))
         \/ (PlanFor(state[n]) = "idle" \/ Fault("get")) /\ Finish(r)
  BY <1>1 DEF Reread
<1>3. PICK next : next = PlanFor(state[n])
  OBVIOUS
<1>4. \/ next = "clear" /\ state[n] = "available"
      \/ next = "clearProvide" /\ state[n] = "manageable"
      \/ next = "undeploy" /\ state[n] = "active"
      \/ next = "idle" /\ state[n] \notin {"available", "manageable", "active"}
  BY <1>3 DEF PlanFor
<1>5. WorkStep(r, n)
  BY <1>1, <1>2, <1>3, <1>4, StepForm DEF ReturnPcs
<1>6. /\ UNCHANGED <<state, inst, lessee>>
      /\ \/ proc'[r] # Idle /\ proc'[r].pc = next /\ next # "idle"
         \/ proc'[r] = Idle /\ (next = "idle" \/ Fault("get"))
  BY <1>1, <1>2, <1>3, <1>4, GotoForm, FinishForm DEF ReturnPcs, ironicVars, stamps
<1>7. Adopting(r)'
  BY <1>4, <1>6, Idles DEF Adopting, At
<1>8. ASSUME faults \subseteq EarlyCalls, n \in Untouched  PROVE Leaves(r, n)
  <2>1. state[n] \in {"available", "manageable", "active", "adopt failed"} /\ ~Fault("get")
    BY <1>1, <1>8 DEF PoolInv, Returning, OnTrack, Fault, EarlyCalls
  <2>2. CASE next = "idle"
    BY <1>4, <1>6, <2>1, <2>2 DEF Leaves, Returned
  <2>3. CASE next # "idle"
    <3>1. OnTrack(r, n)'
      BY <1>4, <1>6, <2>1, <2>3 DEF OnTrack
    <3> QED BY <1>6, <2>1, <2>3, <3>1 DEF Leaves
  <2> QED BY <2>2, <2>3
<1> QED BY <1>1, <1>5, <1>7, <1>8, WorkStepKeeps

LEMMA ClearKeeps ==
  ASSUME PoolInv, NEW r \in Routers, Clear(r), UNCHANGED <<enrollVars, scope>>
  PROVE  PoolInv'
<1>1. PICK n \in Nodes : /\ proc[r].node = n /\ TypeOK /\ anchors' \in Nat
                         /\ proc[r].pc \in {"clear", "clearProvide"}
  BY OnNode DEF Clear, At, PoolInv, TypeOK
<1>2. /\ \/ SetOwner(n, NoRouter)
         \/ (~UpdateAllowed(n) \/ Fault("clear")) /\ UNCHANGED ironicVars
      /\ \/ At(r, "clear") /\ Finish(r)
         \/ At(r, "clearProvide") /\ Goto(r, "provide")
  BY <1>1 DEF Clear
<1>3. WorkStep(r, n)
  BY <1>1, <1>2, StepForm DEF Clear, ReturnPcs
<1>4. /\ \/ At(r, "clear") /\ proc'[r] = Idle
         \/ At(r, "clearProvide") /\ proc'[r] # Idle /\ proc'[r].pc = "provide"
      /\ state' = state
  BY <1>1, <1>2, GotoForm, FinishForm, OwnerForm DEF ReturnPcs, ironicVars
<1>5. Adopting(r)'
  BY <1>4, Idles DEF Adopting, At
<1>6. ASSUME faults \subseteq EarlyCalls, n \in Untouched  PROVE Leaves(r, n)
  <2>1. /\ At(r, "clear") => state[n] = "available"
        /\ At(r, "clearProvide") => state[n] = "manageable"
        /\ ~Fault("clear")
    BY <1>1, <1>6 DEF PoolInv, Returning, OnTrack, Fault, EarlyCalls, At
  <2>2. UpdateAllowed(n)
    BY <1>2, <2>1 DEF UpdateAllowed, Transitional
  <2>3. Unstamped(n)'
    BY <1>1, <1>2, <2>1, <2>2, OwnerForm DEF Unstamped
  <2>4. CASE At(r, "clear")
    BY <1>4, <2>1, <2>3, <2>4 DEF Leaves, Returned, Unstamped, At
  <2>5. CASE At(r, "clearProvide")
    <3>1. OnTrack(r, n)'
      BY <1>4, <2>1, <2>3, <2>5 DEF OnTrack, At
    <3> QED BY <1>4, <2>5, <3>1 DEF Leaves, At
  <2> QED BY <1>4, <2>4, <2>5
<1> QED BY <1>1, <1>3, <1>5, <1>6, WorkStepKeeps

LEMMA ProvideKeeps ==
  ASSUME PoolInv, NEW r \in Routers, Provide(r), UNCHANGED <<enrollVars, scope>>
  PROVE  PoolInv'
<1>1. PICK n \in Nodes : proc[r].node = n /\ proc[r].pc = "provide" /\ TypeOK /\ anchors' \in Nat
  BY OnNode DEF Provide, At, PoolInv, TypeOK
<1>2. /\ \/ SetProvisionState(n, "provide")
         \/ (state[n] # "manageable" \/ Fault("provide")) /\ UNCHANGED ironicVars
      /\ Finish(r)
  BY <1>1 DEF Provide, Accepts, ValidFrom
<1>3. WorkStep(r, n)
  BY <1>1, <1>2, StepForm DEF Provide, Verbs
<1>4. proc'[r] = Idle
  BY <1>1, <1>2, FinishForm
<1>5. Adopting(r)'
  BY <1>4, Idles DEF Adopting, At
<1>6. ASSUME faults \subseteq EarlyCalls, n \in Untouched  PROVE Leaves(r, n)
  <2>1. state[n] = "manageable" /\ ~Fault("provide") /\ Unstamped(n)
    BY <1>1, <1>6 DEF PoolInv, Returning, OnTrack, Fault, EarlyCalls
  <2>2. state'[n] = "available" /\ UNCHANGED <<inst, lessee>>
    BY <1>1, <1>2, <2>1, ProvisionForm DEF Verbs, LeadsTo
  <2> QED BY <1>4, <2>1, <2>2 DEF Leaves, Returned, Unstamped
<1> QED BY <1>1, <1>3, <1>5, <1>6, WorkStepKeeps

LEMMA UndeployKeeps ==
  ASSUME PoolInv, NEW r \in Routers, Undeploy(r), UNCHANGED <<enrollVars, scope>>
  PROVE  PoolInv'
<1>1. PICK n \in Nodes : proc[r].node = n /\ proc[r].pc = "undeploy"
  BY OnNode DEF Undeploy, At
<1>2. /\ WorkStep(r, n) /\ proc'[r] # Idle /\ UNCHANGED <<inst, lessee, class>>
      /\ \/ /\ state'[n] = "deleting"
            /\ proc'[r].pc = "undeployWait" \/ (proc'[r].pc = "clear" /\ Fault("undeploy"))
         \/ proc'[r].pc = "clear" /\ (state[n] # "active" \/ Fault("undeploy"))
  <2>1. /\ "undeploy" \in Verbs /\ "undeployWait" \in CreatePcs \cup ReturnPcs
        /\ LeadsTo("undeploy") = "deleting" /\ ValidFrom("undeploy") = {"active"}
        /\ "clear" \in {"reread", "clear"}
    BY DEF Verbs, ReturnPcs, LeadsTo, ValidFrom
  <2> QED BY <1>1, <2>1, ProvisionStep, SMTT(30) DEF Undeploy
<1>3. Adopting(r)'
  BY <1>2 DEF Adopting, At
<1>4. ASSUME faults \subseteq EarlyCalls, n \in Untouched  PROVE Leaves(r, n)
  <2>1. state[n] = "active" /\ ~Fault("undeploy")
    BY <1>1, <1>4 DEF PoolInv, Returning, OnTrack, Fault, EarlyCalls
  <2>2. OnTrack(r, n)'
    BY <1>2, <2>1 DEF OnTrack
  <2> QED BY <1>2, <2>2 DEF Leaves
<1> QED BY <1>1, <1>2, <1>3, <1>4, WorkStepKeeps

LEMMA UndeployWaitKeeps ==
  ASSUME PoolInv, NEW r \in Routers, UndeployWait(r), UNCHANGED <<enrollVars, scope>>
  PROVE  PoolInv'
<1>1. PICK n \in Nodes : proc[r].node = n /\ proc[r].pc = "undeployWait" /\ TypeOK /\ anchors' \in Nat
  BY OnNode DEF UndeployWait, At, PoolInv, TypeOK
<1>2. /\ UNCHANGED <<ironicVars, live, faults>> /\ Goto(r, "clear")
      /\ state[n] # "deleting" \/ Fault("undeploy")
  BY <1>1 DEF UndeployWait
<1>3. WorkStep(r, n)
  BY <1>1, <1>2, StepForm DEF ReturnPcs
<1>4. proc'[r] # Idle /\ proc'[r].pc = "clear" /\ state' = state
  BY <1>1, <1>2, GotoForm DEF ReturnPcs, ironicVars
<1>5. Adopting(r)'
  BY <1>4 DEF Adopting, At
<1>6. ASSUME faults \subseteq EarlyCalls, n \in Untouched  PROVE Leaves(r, n)
  <2>1. state[n] \in {"deleting", "available"} /\ ~Fault("undeploy")
    BY <1>1, <1>6 DEF PoolInv, Returning, OnTrack, Fault, EarlyCalls
  <2>2. OnTrack(r, n)'
    BY <1>2, <1>4, <2>1 DEF OnTrack
  <2> QED BY <1>4, <2>2 DEF Leaves
<1> QED BY <1>1, <1>3, <1>5, <1>6, WorkStepKeeps

-----------------------------------------------------------------------------
\* Requests that start, a release that finds its node, and Ironic by itself.

LEMMA ApartKept ==
  ASSUME PoolInv, UNCHANGED <<state, inst, job>>,
         \A w \in Workflows : Enrolling(w) => \A q \in Routers :
           proc'[q].node # Node(w) /\ (proc'[q].pc = "lookup" => inst[Node(w)] # q)
  PROVE  EnrolledApart'
  BY DEF PoolInv, EnrolledApart, Enrolling, Node, Ask, At

\* available_node_for_resource_class: nobody works on the node.
LEMMA SelectKeeps ==
  ASSUME Exclusive, PoolInv, NEW r \in Routers, MayRoute(r), SelectNode(r),
         UNCHANGED <<enrollVars, scope>>
  PROVE  PoolInv'
<1>1. PICK n \in Nodes : /\ n \in AvailableNodes(r)
                         /\ proc' = [proc EXCEPT ![r] = [pc |-> "anchor", node |-> n]]
  BY DEF SelectNode, AvailableNodes
<1>2. /\ UNCHANGED <<state, inst, lessee, class, live, faults, anchors, ports, info, job, scope>>
      /\ At(r, "idle") /\ r \notin live /\ state[n] = "available" /\ class[n] = ClassOf[r]
      /\ n # NoNode /\ \A q \in Routers \ {r} : At(q, "idle") \/ ClassOf[q] # ClassOf[r]
  BY <1>1, AdoptionAssumption DEF SelectNode, MayStart, AvailableNodes, ironicVars, stamps, enrollVars
<1>3. /\ proc'[r].pc = "anchor" /\ proc'[r].node = n
      /\ \A q \in Routers \ {r} : proc'[q] = proc[q]
      /\ proc' \in [Routers -> [pc : Pcs, node : Nodes \cup {NoNode}]]
  BY <1>1 DEF PoolInv, TypeOK, Pcs, CreatePcs
<1>4. \A q \in Routers : proc[q].node # n
  BY <1>2, SMTT(30) DEF PoolInv, OneAtATime, Placed, At
<1>5. \A q \in Routers, m \in Nodes : OwnedBy(q, m) => m # n
  BY <1>2 DEF OwnedBy
<1>6. \A w \in Workflows : Enrolling(w) => Node(w) # n
  BY <1>2 DEF MayRoute, Apart, Node
<1>7. TypeOK' /\ JobsTyped'
  BY <1>2, <1>3 DEF PoolInv, TypeOK, IronicTypeOK, JobsTyped
<1>8. Placed' /\ OneAtATime'
  BY <1>2, <1>3, SMTT(30) DEF PoolInv, Placed, OneAtATime, At
<1>9. EnrolledApart'
  <2>1. ASSUME NEW w \in Workflows, Enrolling(w), NEW q \in Routers
        PROVE  proc'[q].node # Node(w) /\ (proc'[q].pc = "lookup" => inst[Node(w)] # q)
    <3>1. CASE q = r
      BY <1>3, <1>6, <2>1, <3>1
    <3>2. CASE q # r
      BY <1>3, <2>1, <3>2 DEF PoolInv, EnrolledApart, At
    <3> QED BY <3>1, <3>2
  <2> QED BY <1>2, <2>1, ApartKept
<1>10. ASSUME NEW q \in Routers  PROVE Adopting(q)'
  BY <1>2, <1>3, SMTT(30) DEF PoolInv, Adopting, At, Stamped
<1>11. Owners'
  <2> SUFFICES ASSUME NEW q \in Routers, q \in live \/ At(q, "lookup")'
               PROVE  \E m \in Nodes : OwnedBy(q, m)'
    BY <1>2 DEF Owners
  <2>1. q \in live \/ At(q, "lookup")
    BY <1>3 DEF At
  <2>2. PICK m \in Nodes : OwnedBy(q, m)
    BY <2>1 DEF PoolInv, Owners
  <2>3. m # n
    BY <1>5, <2>2
  <2> QED BY <1>2, <1>3, <2>2, <2>3, SMTT(30) DEF OwnedBy, Stamped
<1>12. Returning'
  <2> SUFFICES ASSUME faults \subseteq EarlyCalls, NEW m \in Untouched
               PROVE  /\ \A q \in Routers : proc'[q].node = m => OnTrack(q, m)'
                      /\ ~WorkedOn(m)' => Returned(m)'
    BY <1>2 DEF Returning, Untouched, RequestsFor
  <2>1. /\ \A q \in Routers : proc[q].node = m => OnTrack(q, m)
        /\ ~WorkedOn(m) => Returned(m)
    BY DEF PoolInv, Returning
  <2>2. WorkedOn(m) => WorkedOn(m)'
    BY <1>2, <1>3, AdoptionAssumption DEF WorkedOn, At, Untouched, PoolInv, Placed
  <2>3. ASSUME NEW q \in Routers \ {r}, proc'[q].node = m  PROVE OnTrack(q, m)'
    BY <1>2, <1>3, <2>1, <2>3 DEF OnTrack, Unstamped
  <2>4. CASE m = n
    <3>1. ~WorkedOn(n)
      <4>1. \A q \in Routers : At(q, "lookup") => inst[n] # q
        BY <1>5, SMTT(30) DEF PoolInv, Owners, OwnedBy, Stamped
      <4> QED BY <1>4, <4>1 DEF WorkedOn
    <3>2. Unstamped(n)
      BY <1>2, <2>1, <2>4, <3>1 DEF Returned, Unstamped
    <3>3. OnTrack(r, n)'
      BY <1>2, <1>3, <3>2 DEF OnTrack, Unstamped
    <3>4. WorkedOn(n)'
      BY <1>3 DEF WorkedOn
    <3> QED BY <2>3, <2>4, <3>3, <3>4
  <2>5. CASE m # n
    <3>1. Returned(m) => Returned(m)'
      BY <1>2 DEF Returned
    <3> QED BY <1>3, <2>1, <2>2, <2>3, <2>5, <3>1
  <2> QED BY <2>4, <2>5
<1> QED BY <1>7, <1>8, <1>9, <1>10, <1>11, <1>12 DEF PoolInv

\* A delete: the router still owns its node until the node is found.
LEMMA DeleteKeeps ==
  ASSUME Exclusive, PoolInv, NEW r \in Routers, MayRoute(r), DeleteRouter(r),
         UNCHANGED <<enrollVars, scope>>
  PROVE  PoolInv'
<1>1. /\ UNCHANGED <<state, inst, lessee, class, faults, anchors, ports, info, job, scope>>
      /\ At(r, "idle") /\ r \in live /\ live' = live \ {r}
      /\ \A q \in Routers \ {r} : At(q, "idle") \/ ClassOf[q] # ClassOf[r]
  BY DEF DeleteRouter, MayStart, ironicVars, stamps, enrollVars
<1>2. /\ proc'[r].pc = "lookup" /\ proc'[r].node = NoNode /\ proc[r].node = NoNode
      /\ \A q \in Routers \ {r} : proc'[q] = proc[q]
      /\ proc' \in [Routers -> [pc : Pcs, node : Nodes \cup {NoNode}]]
  <2>1. proc[r].node = NoNode /\ "lookup" \in Pcs
    BY <1>1 DEF PoolInv, Placed, At, Pcs
  <2> QED BY <2>1 DEF PoolInv, TypeOK, DeleteRouter, Goto
<1>3. PICK n \in Nodes : OwnedBy(r, n)
  BY <1>1 DEF PoolInv, Owners
<1>4. \A w \in Workflows : Enrolling(w) => class[Node(w)] # ClassOf[r]
  BY DEF MayRoute, Apart, Node
<1>5. ASSUME NEW w \in Workflows, Enrolling(w)  PROVE inst[Node(w)] # r
  <2>1. Node(w) \in Nodes
    BY <1>5, EnrollAssumption, ScopeAssumption DEF PoolInv, JobsTyped, Placed, Enrolling, Node, Ask
  <2> QED BY <1>3, <1>4, <1>5, <2>1 DEF OwnedBy, Stamped
<1>6. TypeOK' /\ JobsTyped'
  BY <1>1, <1>2 DEF PoolInv, TypeOK, IronicTypeOK, JobsTyped
<1>7. Placed' /\ OneAtATime'
  BY <1>1, <1>2, SMTT(30) DEF PoolInv, Placed, OneAtATime, At
<1>8. EnrolledApart'
  <2>1. ASSUME NEW w \in Workflows, Enrolling(w), NEW q \in Routers
        PROVE  proc'[q].node # Node(w) /\ (proc'[q].pc = "lookup" => inst[Node(w)] # q)
    BY <1>2, <1>5, <2>1 DEF PoolInv, EnrolledApart, At
  <2> QED BY <1>1, <2>1, ApartKept
<1>9. ASSUME NEW q \in Routers  PROVE Adopting(q)'
  <2>1. CASE q = r
    BY <1>2, <2>1 DEF Adopting, At
  <2>2. CASE q # r
    BY <1>1, <1>2, <2>2, SMTT(30) DEF PoolInv, Adopting, At, Stamped
  <2> QED BY <2>1, <2>2
<1>10. \A q, m : OwnedBy(q, m) => OwnedBy(q, m)'
  BY <1>1, <1>2 DEF OwnedBy, Stamped
<1>11. Owners'
  BY <1>1, <1>2, <1>3, <1>10 DEF PoolInv, Owners, At
<1>12. Returning'
  <2> SUFFICES ASSUME faults \subseteq EarlyCalls, NEW m \in Untouched
               PROVE  /\ \A q \in Routers : proc'[q].node = m => OnTrack(q, m)'
                      /\ ~WorkedOn(m)' => Returned(m)'
    BY <1>1 DEF Returning, Untouched, RequestsFor
  <2>1. /\ \A q \in Routers : proc[q].node = m => OnTrack(q, m)
        /\ ~WorkedOn(m) => Returned(m)
    BY DEF PoolInv, Returning
  <2>2. m \in Nodes /\ m # NoNode
    BY AdoptionAssumption DEF Untouched
  <2>3. ASSUME NEW q \in Routers, proc'[q].node = m  PROVE OnTrack(q, m)'
    BY <1>1, <1>2, <2>1, <2>2, <2>3 DEF OnTrack, Unstamped
  <2>4. ASSUME ~WorkedOn(m)'  PROVE Returned(m)'
    <3>1. ~WorkedOn(m) /\ inst[m] # r
      BY <1>1, <1>2, <2>4 DEF WorkedOn, At
    <3> QED BY <1>1, <2>1, <3>1 DEF Returned
  <2> QED BY <2>3, <2>4
<1> QED BY <1>6, <1>7, <1>8, <1>9, <1>11, <1>12 DEF PoolInv

\* A release that ends without its node, or dies before it has found it.
LEMMA LeaveKeeps ==
  ASSUME PoolInv, NEW r \in Routers, At(r, "lookup"), Finish(r), ~(faults \subseteq EarlyCalls),
         UNCHANGED <<ironicVars, live, faults, anchors, enrollVars, scope>>
  PROVE  PoolInv'
<1>1. /\ UNCHANGED <<state, inst, lessee, class, ports, info, job>>
      /\ proc' \in [Routers -> [pc : Pcs, node : Nodes \cup {NoNode}]]
      /\ proc'[r].pc = "idle" /\ proc'[r].node = NoNode
      /\ \A q \in Routers \ {r} : proc'[q] = proc[q]
  BY FinishForm, Idles DEF PoolInv, ironicVars, stamps, enrollVars, Moves
<1>2. TypeOK' /\ JobsTyped'
  BY <1>1 DEF PoolInv, TypeOK, IronicTypeOK, JobsTyped
<1>3. Placed' /\ OneAtATime'
  BY <1>1, SMTT(30) DEF PoolInv, Placed, OneAtATime, At
<1>4. EnrolledApart'
  <2>1. \A w \in Workflows : Enrolling(w) => Node(w) # NoNode
    BY AdoptionAssumption, EnrollAssumption, ScopeAssumption
       DEF PoolInv, JobsTyped, Placed, Enrolling, Node, Ask
  <2>2. ASSUME NEW w \in Workflows, Enrolling(w), NEW q \in Routers
        PROVE  proc'[q].node # Node(w) /\ (proc'[q].pc = "lookup" => inst[Node(w)] # q)
    BY <1>1, <2>1, <2>2 DEF PoolInv, EnrolledApart, At
  <2> QED BY <1>1, <2>2, ApartKept
<1>5. ASSUME NEW q \in Routers  PROVE Adopting(q)'
  BY <1>1, SMTT(30) DEF PoolInv, Adopting, At, Stamped
<1>6. Owners'
  <2>1. \A q, m : OwnedBy(q, m) /\ m # NoNode => OwnedBy(q, m)'
    BY <1>1 DEF OwnedBy, Stamped
  <2> QED BY <1>1, <2>1, AdoptionAssumption DEF PoolInv, Owners, At
<1>7. Returning'
  BY DEF Returning
<1> QED BY <1>2, <1>3, <1>4, <1>5, <1>6, <1>7 DEF PoolInv

\* A release finds the node its router owns.
LEMMA LookupKeeps ==
  ASSUME PoolInv, NEW r \in Routers, Lookup(r), UNCHANGED <<enrollVars, scope>>
  PROVE  PoolInv'
<1>1. /\ UNCHANGED <<state, inst, lessee, class, live, faults, anchors, ports, info, job, scope>>
      /\ At(r, "lookup")
  BY DEF Lookup, ironicVars, stamps, enrollVars
<1>2. PICK n \in Nodes : OwnedBy(r, n)
  BY <1>1 DEF PoolInv, Owners
<1>3. CASE Finish(r) /\ (NodeOfRouter(r) = {} \/ Fault("get"))
  <2>1. ~(faults \subseteq EarlyCalls)
    BY <1>2, <1>3 DEF NodeOfRouter, OwnedBy, Stamped, Fault, EarlyCalls
  <2> QED BY <1>1, <1>3, <2>1, LeaveKeeps DEF ironicVars, stamps
<1>4. CASE \E m \in NodeOfRouter(r) : proc' = [proc EXCEPT ![r] = [pc |-> "reread", node |-> m]]
  <2>1. proc' = [proc EXCEPT ![r] = [pc |-> "reread", node |-> n]]
    BY <1>2, <1>4 DEF NodeOfRouter, OwnedBy, Stamped
  <2>2. /\ proc'[r].pc = "reread" /\ proc'[r].node = n /\ n # NoNode
        /\ \A q \in Routers \ {r} : proc'[q] = proc[q]
        /\ proc' \in [Routers -> [pc : Pcs, node : Nodes \cup {NoNode}]]
    BY <2>1, AdoptionAssumption DEF PoolInv, TypeOK, Pcs, ReturnPcs
  <2>3. /\ \A q \in Routers : proc[q].node # n
        /\ inst[n] = r /\ class[n] = ClassOf[r] /\ state[n] = "active"
        /\ \A m \in Nodes : inst[m] = r => m = n
    BY <1>2 DEF OwnedBy, Stamped
  <2>4. \A w \in Workflows : Enrolling(w) => Node(w) # n
    BY <1>1, <2>3 DEF PoolInv, EnrolledApart
  <2>5. TypeOK' /\ JobsTyped'
    BY <1>1, <2>2 DEF PoolInv, TypeOK, IronicTypeOK, JobsTyped
  <2>6. Placed' /\ OneAtATime'
    BY <1>1, <2>2, <2>3, SMTT(30) DEF PoolInv, Placed, OneAtATime, At
  <2>7. EnrolledApart'
    <3>1. ASSUME NEW w \in Workflows, Enrolling(w), NEW q \in Routers
          PROVE  proc'[q].node # Node(w) /\ (proc'[q].pc = "lookup" => inst[Node(w)] # q)
      <4>1. CASE q = r
        BY <2>2, <2>4, <3>1, <4>1
      <4>2. CASE q # r
        BY <2>2, <3>1, <4>2 DEF PoolInv, EnrolledApart, At
      <4> QED BY <4>1, <4>2
    <3> QED BY <1>1, <3>1, ApartKept
  <2>8. ASSUME NEW q \in Routers  PROVE Adopting(q)'
    BY <1>1, <2>2, SMTT(30) DEF PoolInv, Adopting, At, Stamped
  <2>9. Owners'
    <3> SUFFICES ASSUME NEW q \in Routers, q \in live \/ At(q, "lookup")'
                 PROVE  \E m \in Nodes : OwnedBy(q, m)'
      BY <1>1 DEF Owners
    <3>1. q # r /\ (q \in live \/ At(q, "lookup"))
      BY <1>1, <2>2 DEF At, PoolInv, Placed
    <3>2. PICK m \in Nodes : OwnedBy(q, m)
      BY <3>1 DEF PoolInv, Owners
    <3>3. m # n
      BY <2>3, <3>1, <3>2 DEF OwnedBy, Stamped
    <3> QED BY <1>1, <2>2, <3>2, <3>3 DEF OwnedBy, Stamped
  <2>10. Returning'
    <3> SUFFICES ASSUME faults \subseteq EarlyCalls, NEW m \in Untouched
                 PROVE  /\ \A q \in Routers : proc'[q].node = m => OnTrack(q, m)'
                        /\ ~WorkedOn(m)' => Returned(m)'
      BY <1>1 DEF Returning, Untouched, RequestsFor
    <3>1. /\ \A q \in Routers : proc[q].node = m => OnTrack(q, m)
          /\ ~WorkedOn(m) => Returned(m)
      BY DEF PoolInv, Returning
    <3>2. ASSUME NEW q \in Routers, q # r, proc'[q].node = m  PROVE OnTrack(q, m)'
      BY <1>1, <2>2, <3>1, <3>2 DEF OnTrack, Unstamped
    <3>3. proc'[r].node = m => OnTrack(r, m)'
      BY <1>1, <2>2, <2>3 DEF OnTrack
    <3>4. ASSUME ~WorkedOn(m)'  PROVE Returned(m)'
      <4>1. m \in Nodes /\ m # n
        BY <2>2, <3>4 DEF WorkedOn, Untouched
      <4>2. ~WorkedOn(m)
        <5>1. ASSUME NEW q \in Routers, proc[q].node = m \/ (At(q, "lookup") /\ inst[m] = q)
              PROVE  FALSE
          <6>1. q # r
            BY <1>1, <2>3, <4>1, <5>1, AdoptionAssumption DEF PoolInv, Placed, At
          <6>2. proc'[q] = proc[q] /\ inst'[m] = inst[m]
            BY <1>1, <2>2, <6>1
          <6> QED BY <3>4, <5>1, <6>2 DEF WorkedOn, At
        <5> QED BY <5>1 DEF WorkedOn
      <4> QED BY <1>1, <3>1, <4>2 DEF Returned
    <3> QED BY <3>2, <3>3, <3>4
  <2> QED BY <2>5, <2>6, <2>7, <2>8, <2>9, <2>10 DEF PoolInv
<1> QED BY <1>3, <1>4 DEF Lookup

LEMMA CrashKeeps ==
  ASSUME PoolInv, NEW r \in Routers, Crash(r), UNCHANGED <<enrollVars, scope>>
  PROVE  PoolInv'
<1>1. /\ Finish(r) /\ UNCHANGED <<ironicVars, live, faults, anchors>>
      /\ ~(faults \subseteq EarlyCalls) /\ ~At(r, "idle") /\ TypeOK /\ anchors' \in Nat
  BY DEF Crash, Fault, EarlyCalls, PoolInv, TypeOK
<1>2. CASE At(r, "lookup")
  BY <1>1, <1>2, LeaveKeeps
<1>3. CASE ~At(r, "lookup")
  <2>1. PICK n \in Nodes : proc[r].node = n
    BY <1>1, <1>3, OnNode
  <2>2. WorkStep(r, n)
    BY <1>1, <2>1, StepForm
  <2>3. proc'[r] = Idle
    BY <1>1, FinishForm
  <2>4. Adopting(r)'
    BY <2>3, Idles DEF Adopting, At
  <2> QED BY <1>1, <2>1, <2>2, <2>4, WorkStepKeeps
<1> QED BY <1>2, <1>3

LEMMA IronicKeeps ==
  ASSUME PoolInv, NEW n \in Nodes, Ironic(n), UNCHANGED <<enrollVars, scope>>
  PROVE  PoolInv'
<1>1. /\ UNCHANGED <<lessee, class, live, faults, proc, anchors, ports, info, job>>
      /\ \/ /\ state[n] = "adopting" /\ inst' = inst
            /\ \E s \in {"active", "adopt failed"} : state' = [state EXCEPT ![n] = s]
         \/ /\ state[n] = "deleting" /\ state' = [state EXCEPT ![n] = "available"]
            /\ inst' = [inst EXCEPT ![n] = NoRouter]
  BY DEF Ironic, FinishAdopt, FinishUndeploy, stamps, enrollVars
<1>2. /\ \A m \in Nodes \ {n} : state'[m] = state[m] /\ inst'[m] = inst[m]
      /\ \/ state[n] = "adopting" /\ inst'[n] = inst[n] /\ state'[n] \in {"active", "adopt failed"}
         \/ state[n] = "deleting" /\ inst'[n] = NoRouter /\ state'[n] = "available"
  BY <1>1 DEF PoolInv, TypeOK, IronicTypeOK
<1>3. NoRouter \notin Routers
  BY NoRouterAssumption
<1>4. \A r \in Routers, m \in Nodes : OwnedBy(r, m) => m # n
  BY <1>2 DEF OwnedBy
<1>5. TypeOK'
  BY <1>1 DEF PoolInv, TypeOK, IronicTypeOK, ProvisionStates
<1>6. JobsTyped' /\ Placed' /\ OneAtATime'
  BY <1>1 DEF PoolInv, JobsTyped, Placed, OneAtATime, At
<1>7. EnrolledApart'
  <2> SUFFICES ASSUME NEW w \in Workflows
               PROVE  /\ Enrolling(w) => \A r \in Routers : /\ proc[r].node # Node(w)
                                                            /\ At(r, "lookup") => inst'[Node(w)] # r
                      /\ job[w].pc \in EnginePcs => state'[Node(w)] \in EngineStates
    BY <1>1 DEF EnrolledApart, Enrolling, Node, Ask, At
  <2>1. Enrolling(w) => Node(w) \in Nodes
    BY EnrollAssumption, ScopeAssumption DEF PoolInv, JobsTyped, Placed, Enrolling, Node, Ask
  <2>2. job[w].pc \in EnginePcs => Enrolling(w)
    BY DEF EnginePcs, Enrolling
  <2>3. job[w].pc \in EnginePcs => Node(w) # n
    BY <1>2 DEF PoolInv, EnrolledApart, EngineStates
  <2>4. Enrolling(w) => inst'[Node(w)] \in {inst[Node(w)], NoRouter}
    BY <1>2, <2>1
  <2> QED BY <1>2, <1>3, <2>1, <2>2, <2>3, <2>4 DEF PoolInv, EnrolledApart
<1>8. ASSUME NEW r \in Routers, NEW m \in Nodes, Stamped(r, m), state[m] # "deleting"
      PROVE  Stamped(r, m)'
  BY <1>1, <1>2, <1>3, <1>8 DEF Stamped
<1>9. ASSUME NEW r \in Routers  PROVE Adopting(r)'
  <2>1. CASE proc[r].pc \in {"adopt", "wait", "commit"}
    <3>1. PICK m \in Nodes : proc[r].node = m
      BY <2>1 DEF PoolInv, Placed, TypeOK
    <3>2. Stamped(r, m) /\ state[m] # "deleting" /\ (At(r, "commit") => state[m] = "active")
      BY <2>1, <3>1 DEF PoolInv, Adopting
    <3>3. Stamped(r, m)' /\ state'[m] # "deleting" /\ (At(r, "commit") => state'[m] = "active")
      BY <1>2, <1>8, <3>2
    <3> QED BY <1>1, <3>1, <3>3 DEF Adopting, At, Stamped
  <2>2. CASE proc[r].pc \notin {"adopt", "wait", "commit"}
    BY <1>1, <2>2 DEF Adopting, At
  <2> QED BY <2>1, <2>2
<1>10. ASSUME NEW r \in Routers, NEW m \in Nodes, OwnedBy(r, m)  PROVE OwnedBy(r, m)'
  <2>1. m # n /\ Stamped(r, m)'
    BY <1>4, <1>8, <1>10 DEF OwnedBy
  <2> QED BY <1>1, <1>2, <1>10, <2>1 DEF OwnedBy
<1>11. Owners'
  BY <1>1, <1>10 DEF PoolInv, Owners, At
<1>12. Returning'
  <2> SUFFICES ASSUME faults \subseteq EarlyCalls, NEW m \in Untouched
               PROVE  /\ \A r \in Routers : proc[r].node = m => OnTrack(r, m)'
                      /\ ~WorkedOn(m)' => Returned(m)'
    BY <1>1 DEF Returning, Untouched, RequestsFor
  <2>1. /\ \A r \in Routers : proc[r].node = m => OnTrack(r, m)
        /\ ~WorkedOn(m) => Returned(m)
    BY DEF PoolInv, Returning
  <2>2. CASE m = n
    <3>1. ASSUME NEW r \in Routers, proc[r].node = n  PROVE OnTrack(r, n)'
      <4>1. OnTrack(r, n)
        BY <2>1, <2>2, <3>1
      <4> QED BY <1>1, <1>2, <4>1 DEF OnTrack
    <3>2. \A r \in Routers : At(r, "lookup") => inst[n] # r
      BY <1>4, SMTT(30) DEF PoolInv, Owners, OwnedBy, Stamped
    <3>3. ~Returned(n)
      BY <1>2 DEF Returned
    <3>4. WorkedOn(n)'
      BY <1>1, <2>1, <2>2, <3>2, <3>3 DEF WorkedOn
    <3> QED BY <2>2, <3>1, <3>4
  <2>3. CASE m # n
    <3>1. m \in Nodes /\ state'[m] = state[m] /\ inst'[m] = inst[m] /\ lessee'[m] = lessee[m]
      BY <1>1, <1>2, <2>3 DEF Untouched
    <3>2. ASSUME NEW r \in Routers, proc[r].node = m  PROVE OnTrack(r, m)'
      BY <1>1, <2>1, <3>1, <3>2 DEF OnTrack, Unstamped
    <3>3. WorkedOn(m) => WorkedOn(m)'
      BY <1>1, <3>1 DEF WorkedOn, At
    <3>4. Returned(m) => Returned(m)'
      BY <1>1, <3>1 DEF Returned
    <3> QED BY <2>1, <3>2, <3>3, <3>4
  <2> QED BY <2>2, <2>3
<1> QED BY <1>5, <1>6, <1>7, <1>9, <1>11, <1>12 DEF PoolInv

\* Steps that touch neither the nodes nor the requests: those of the server.
LEMMA ElsewhereKeeps ==
  ASSUME PoolInv, UNCHANGED <<vars, enrollVars, scope>>
  PROVE  PoolInv'
<1>1. UNCHANGED <<state, inst, lessee, class, live, faults, proc, anchors, ports, info, job, scope>>
  BY DEF vars, ironicVars, stamps, enrollVars
<1>2. TypeOK' /\ JobsTyped' /\ Placed' /\ OneAtATime'
  BY <1>1 DEF PoolInv, TypeOK, IronicTypeOK, JobsTyped, Placed, OneAtATime, At
<1>3. EnrolledApart'
  BY <1>1 DEF PoolInv, EnrolledApart, Enrolling, Node, Ask, At
<1>4. ASSUME NEW r \in Routers  PROVE Adopting(r)'
  BY <1>1 DEF PoolInv, Adopting, At, Stamped
<1>5. Owners'
  <2>1. \A r, n : OwnedBy(r, n) => OwnedBy(r, n)'
    BY <1>1 DEF OwnedBy, Stamped
  <2> QED BY <1>1, <2>1 DEF PoolInv, Owners, At
<1>6. Returning'
  <2>1. ASSUME NEW r, NEW n, OnTrack(r, n)  PROVE OnTrack(r, n)'
    BY <1>1, <2>1 DEF OnTrack, Unstamped
  <2>2. \A n : (WorkedOn(n)' <=> WorkedOn(n)) /\ (Returned(n)' <=> Returned(n))
    BY <1>1 DEF WorkedOn, Returned, At
  <2> QED BY <1>1, <2>1, <2>2 DEF PoolInv, Returning, Untouched, RequestsFor
<1> QED BY <1>2, <1>3, <1>4, <1>5, <1>6 DEF PoolInv

-----------------------------------------------------------------------------
\* Enrolments.

IsJob(j) ==
  j = [pc |-> j.pc, req |-> j.req, node |-> j.node, state |-> j.state, todo |-> j.todo]

JobStep(w) ==
  /\ job' = [v \in Workflows |-> job'[v]] /\ IsJob(job'[w])
  /\ \A v \in Workflows \ {w} : job'[v] = job[v]

LEMMA JobForm ==
  ASSUME JobsTyped, NEW w \in Workflows, NEW j, IsJob(j), job' = [job EXCEPT ![w] = j]
  PROVE  JobStep(w) /\ job'[w] = j
  BY DEF JobsTyped, JobStep

\* The updates of some fields of a run.
LEMMA JobPc ==
  ASSUME JobsTyped, NEW w \in Workflows, NEW a, job' = [job EXCEPT ![w].pc = a]
  PROVE  JobStep(w) /\ job'[w].pc = a /\ job'[w].req = job[w].req
<1>1. IsJob(job[w])
  BY DEF JobsTyped, IsJob
<1> QED BY <1>1 DEF JobsTyped, IsJob, JobStep

LEMMA JobTodo ==
  ASSUME JobsTyped, NEW w \in Workflows, NEW a, job' = [job EXCEPT ![w].todo = a]
  PROVE  JobStep(w) /\ job'[w].pc = job[w].pc /\ job'[w].req = job[w].req
<1>1. IsJob(job[w])
  BY DEF JobsTyped, IsJob
<1> QED BY <1>1 DEF JobsTyped, IsJob, JobStep

LEMMA JobPcNode ==
  ASSUME JobsTyped, NEW w \in Workflows, NEW a, NEW b, job' = [job EXCEPT ![w].pc = a, ![w].node = b]
  PROVE  JobStep(w) /\ job'[w].pc = a /\ job'[w].req = job[w].req
<1>1. IsJob(job[w])
  BY DEF JobsTyped, IsJob
<1> QED BY <1>1 DEF JobsTyped, IsJob, JobStep

LEMMA JobPcState ==
  ASSUME JobsTyped, NEW w \in Workflows, NEW a, NEW b, job' = [job EXCEPT ![w].pc = a, ![w].state = b]
  PROVE  JobStep(w) /\ job'[w].pc = a /\ job'[w].req = job[w].req
<1>1. IsJob(job[w])
  BY DEF JobsTyped, IsJob
<1> QED BY <1>1 DEF JobsTyped, IsJob, JobStep

LEMMA JobTodoPc ==
  ASSUME JobsTyped, NEW w \in Workflows, NEW a, NEW b, job' = [job EXCEPT ![w].todo = b, ![w].pc = a]
  PROVE  JobStep(w) /\ job'[w].pc = a /\ job'[w].req = job[w].req
<1>1. IsJob(job[w])
  BY DEF JobsTyped, IsJob
<1> QED BY <1>1 DEF JobsTyped, IsJob, JobStep

LEMMA JobRead ==
  ASSUME JobsTyped, NEW w \in Workflows, NEW a, NEW b, NEW c,
         job' = [job EXCEPT ![w].pc = a, ![w].node = b, ![w].state = c]
  PROVE  JobStep(w) /\ job'[w].pc = a /\ job'[w].req = job[w].req
<1>1. IsJob(job[w])
  BY DEF JobsTyped, IsJob
<1> QED BY <1>1 DEF JobsTyped, IsJob, JobStep

LEMMA JobCreated ==
  ASSUME JobsTyped, NEW w \in Workflows, NEW a, NEW b, NEW c,
         job' = [job EXCEPT ![w].pc = a, ![w].state = c, ![w].node = b]
  PROVE  JobStep(w) /\ job'[w].pc = a /\ job'[w].req = job[w].req
<1>1. IsJob(job[w])
  BY DEF JobsTyped, IsJob
<1> QED BY <1>1 DEF JobsTyped, IsJob, JobStep

LEMMA JobEnds ==
  ASSUME JobsTyped, NEW w \in Workflows, End(w)
  PROVE  JobStep(w) /\ job'[w].pc = "idle"
<1>1. IsJob(IdleJob) /\ IdleJob.pc = "idle"
  BY DEF IsJob, IdleJob
<1> QED BY <1>1, JobForm DEF End

\* What a step of run w may change: its record, and its node while the engine
\* runs.
EnrollFrame(w) ==
  /\ JobStep(w)
  /\ job'[w].pc = "idle" \/ (job'[w].req = job[w].req /\ Enrolling(w))
  /\ state' \in [Nodes -> ProvisionStates] /\ class' \in [Nodes -> Classes]
  /\ UNCHANGED <<inst, lessee>>
  /\ \/ UNCHANGED <<state, class>>
     \/ /\ job[w].pc \in EnginePcs /\ state'[Node(w)] \in EngineStates
        /\ \A m \in Nodes \ {Node(w)} : state'[m] = state[m] /\ class'[m] = class[m]
  /\ job'[w].pc \in EnginePcs => state'[Node(w)] \in EngineStates

LEMMA NodeOfRun ==
  ASSUME PoolInv, NEW w \in Workflows, Enrolling(w)
  PROVE  Node(w) \in Nodes /\ Ask(w).class \in Classes /\ job[w].req \in scope.requests
  BY EnrollAssumption, ScopeAssumption DEF PoolInv, JobsTyped, Placed, Enrolling, Node, Ask

\* Steps of a run that leave Ironic alone.
LEMMA QuietEnroll ==
  ASSUME PoolInv, NEW w \in Workflows, Enrolling(w), JobStep(w), UNCHANGED ironicVars,
         \/ job'[w].pc = "idle"
         \/ /\ job'[w].req = job[w].req
            /\ job'[w].pc \in EnginePcs => state[Node(w)] \in EngineStates
  PROVE  EnrollFrame(w)
  BY DEF EnrollFrame, PoolInv, TypeOK, IronicTypeOK, ironicVars, stamps, EnginePcs

LEMMA EnrollSteps ==
  ASSUME PoolInv, NEW w \in Workflows, EnrollStep(w)
  PROVE  EnrollFrame(w)
<1>0. JobsTyped /\ TypeOK /\ job[w].pc # "idle"
  <2>1. job[w].pc # "idle"
    BY DEF EnrollStep, FindNode, CreateNode, PlanPorts, StepDown, UpdateMetadata, ApplyPortPlan,
           MakeManageable, MakeAvailable, LookupFirewall, RejectDrift, PatchFirewall, CrashEnroll, JobAt
  <2> QED BY <2>1 DEF PoolInv
<1>1. Enrolling(w)
  BY DEF EnrollStep, FindNode, CreateNode, PlanPorts, StepDown, UpdateMetadata, ApplyPortPlan,
         MakeManageable, MakeAvailable, LookupFirewall, RejectDrift, PatchFirewall, CrashEnroll,
         JobAt, Enrolling
<1>2. Node(w) \in Nodes /\ Ask(w).class \in Classes
  BY <1>1, NodeOfRun
<1>3. job[w].pc \in EnginePcs => state[Node(w)] \in EngineStates
  BY DEF PoolInv, EnrolledApart
<1>4. CASE FindNode(w)
  <2>1. UNCHANGED ironicVars
    BY <1>4 DEF FindNode
  <2>2. \/ End(w)
        \/ /\ \/ JobGoto(w, "create")
              \/ \E b, c : job' = [job EXCEPT ![w].pc = "plan", ![w].node = b, ![w].state = c]
           /\ state[Node(w)] \in EngineStates
    BY <1>4 DEF FindNode, EngineStates, REENROLLABLE_STATES
  <2>3. \/ job'[w].pc = "idle" /\ JobStep(w)
        \/ job'[w].req = job[w].req /\ JobStep(w) /\ state[Node(w)] \in EngineStates
    <3>1. CASE End(w)
      BY <1>0, <3>1, JobEnds
    <3>2. CASE JobGoto(w, "create") /\ state[Node(w)] \in EngineStates
      BY <1>0, <3>2, JobPc DEF JobGoto
    <3>3. CASE /\ \E b, c : job' = [job EXCEPT ![w].pc = "plan", ![w].node = b, ![w].state = c]
               /\ state[Node(w)] \in EngineStates
      <4>1. PICK b, c : job' = [job EXCEPT ![w].pc = "plan", ![w].node = b, ![w].state = c]
        BY <3>3
      <4> QED BY <1>0, <3>3, <4>1, JobRead
    <3> QED BY <2>2, <3>1, <3>2, <3>3
  <2> QED BY <1>1, <2>1, <2>3, QuietEnroll
<1>5. CASE CreateNode(w)
  <2>1. CASE state[Node(w)] # "absent" /\ End(w) /\ UNCHANGED ironicVars
    BY <1>0, <1>1, <2>1, JobEnds, QuietEnroll
  <2>2. CASE /\ state[Node(w)] = "absent" /\ state' = [state EXCEPT ![Node(w)] = "enroll"]
             /\ class' = [class EXCEPT ![Node(w)] = Ask(w).class]
             /\ job' = [job EXCEPT ![w].pc = "plan", ![w].state = "enroll",
                              ![w].node = [class |-> Ask(w).class, info |-> Ask(w).info]]
             /\ UNCHANGED stamps
    <3>1. JobStep(w) /\ job'[w].pc = "plan" /\ job'[w].req = job[w].req
      BY <1>0, <2>2, JobCreated
    <3>2. state' \in [Nodes -> ProvisionStates] /\ class' \in [Nodes -> Classes]
      BY <1>0, <1>2, <2>2 DEF TypeOK, IronicTypeOK, ProvisionStates
    <3>3. /\ state'[Node(w)] \in EngineStates
          /\ \A m \in Nodes \ {Node(w)} : state'[m] = state[m] /\ class'[m] = class[m]
      BY <1>0, <1>2, <2>2 DEF TypeOK, IronicTypeOK, EngineStates
    <3>4. job[w].pc \in EnginePcs
      BY <1>5 DEF CreateNode, JobAt, EnginePcs
    <3> QED BY <1>1, <2>2, <3>1, <3>2, <3>3, <3>4 DEF EnrollFrame, stamps
  <2> QED BY <1>5, <2>1, <2>2 DEF CreateNode
<1>6. CASE PlanPorts(w)
  <2>1. UNCHANGED ironicVars /\ job[w].pc \in EnginePcs
    BY <1>6 DEF PlanPorts, JobAt, EnginePcs
  <2>2. End(w) \/ \E a, b : job' = [job EXCEPT ![w].todo = b, ![w].pc = a]
    BY <1>6 DEF PlanPorts
  <2>3. (job'[w].pc = "idle" \/ job'[w].req = job[w].req) /\ JobStep(w)
    <3>1. CASE End(w)
      BY <1>0, <3>1, JobEnds
    <3>2. ASSUME NEW a, NEW b, job' = [job EXCEPT ![w].todo = b, ![w].pc = a]
          PROVE  JobStep(w) /\ job'[w].req = job[w].req
      BY <1>0, <3>2, JobTodoPc
    <3> QED BY <2>2, <3>1, <3>2
  <2> QED BY <1>1, <1>3, <2>1, <2>3, QuietEnroll
<1>7. ASSUME NEW verb \in {"manage", "provide"}, NEW j, Transition(w, verb, j), job[w].pc \in EnginePcs,
             job' = j => JobStep(w) /\ job'[w].req = job[w].req
      PROVE  EnrollFrame(w)
  <2>1. CASE ~Accepts(Node(w), verb) /\ End(w) /\ UNCHANGED ironicVars
    BY <1>0, <1>1, <2>1, JobEnds, QuietEnroll
  <2>2. CASE SetProvisionState(Node(w), verb) /\ job' = j
    <3>1. LeadsTo(verb) \in EngineStates
      BY DEF LeadsTo, EngineStates
    <3>2. /\ IronicTypeOK' /\ UNCHANGED <<inst, lessee, class>> /\ state'[Node(w)] \in EngineStates
          /\ \A m \in Nodes \ {Node(w)} : state'[m] = state[m]
      BY <1>0, <1>2, <2>2, <3>1, ProvisionForm DEF Verbs
    <3> QED BY <1>1, <1>7, <2>2, <3>2 DEF EnrollFrame, IronicTypeOK
  <2> QED BY <1>7, <2>1, <2>2 DEF Transition
<1>8. CASE StepDown(w)
  <2>1. PICK j : /\ j = [job EXCEPT ![w].pc = "metadata", ![w].state = "manageable"]
                 /\ Transition(w, "manage", j)
    BY <1>8 DEF StepDown
  <2>2. ASSUME job' = j  PROVE JobStep(w) /\ job'[w].req = job[w].req
    <3>1. job' = [job EXCEPT ![w].pc = "metadata", ![w].state = "manageable"]
      BY <2>1, <2>2
    <3> QED BY <1>0, <3>1, JobPcState
  <2>3. job[w].pc \in EnginePcs
    BY <1>8 DEF StepDown, JobAt, EnginePcs
  <2> QED BY <1>7, <2>1, <2>2, <2>3
<1>9. CASE MakeManageable(w)
  <2>1. PICK j : j = [job EXCEPT ![w].pc = "provide"] /\ Transition(w, "manage", j)
    BY <1>9 DEF MakeManageable
  <2>2. job' = j => JobStep(w) /\ job'[w].req = job[w].req
    BY <1>0, <2>1, JobPc
  <2>3. job[w].pc \in EnginePcs
    BY <1>9 DEF MakeManageable, JobAt, EnginePcs
  <2> QED BY <1>7, <2>1, <2>2, <2>3
<1>10. CASE MakeAvailable(w)
  <2>1. PICK j : j = [job EXCEPT ![w].pc = "done"] /\ Transition(w, "provide", j)
    BY <1>10 DEF MakeAvailable
  <2>2. job' = j => JobStep(w) /\ job'[w].req = job[w].req
    BY <1>0, <2>1, JobPc
  <2>3. job[w].pc \in EnginePcs
    BY <1>10 DEF MakeAvailable, JobAt, EnginePcs
  <2> QED BY <1>7, <2>1, <2>2, <2>3
<1>11. CASE UpdateMetadata(w)
  <2>1. job[w].pc \in EnginePcs
    BY <1>11 DEF UpdateMetadata, JobAt, EnginePcs
  <2>2. CASE End(w) /\ UNCHANGED ironicVars
    BY <1>0, <1>1, <2>2, JobEnds, QuietEnroll
  <2>3. CASE /\ class' = class \/ class' = [class EXCEPT ![Node(w)] = Ask(w).class]
             /\ \E pc : JobGoto(w, pc)
             /\ UNCHANGED <<state, stamps>>
    <3>1. JobStep(w) /\ job'[w].req = job[w].req
      BY <1>0, <2>3, JobPc DEF JobGoto
    <3>2. /\ class' \in [Nodes -> Classes]
          /\ \A m \in Nodes \ {Node(w)} : class'[m] = class[m]
      BY <1>0, <1>2, <2>3 DEF TypeOK, IronicTypeOK
    <3> QED BY <1>0, <1>1, <1>3, <2>1, <2>3, <3>1, <3>2 DEF EnrollFrame, TypeOK, IronicTypeOK, stamps
  <2> QED BY <1>11, <2>2, <2>3 DEF UpdateMetadata
<1>12. CASE ApplyPortPlan(w)
  <2>1. UNCHANGED ironicVars /\ job[w].pc \in EnginePcs
    BY <1>12 DEF ApplyPortPlan, JobAt, EnginePcs
  <2>2. \/ End(w)
        \/ \E todo : job' = [job EXCEPT ![w].todo = todo]
        \/ \E pc : JobGoto(w, pc)
    BY <1>12 DEF ApplyPortPlan
  <2>3. (job'[w].pc = "idle" \/ job'[w].req = job[w].req) /\ JobStep(w)
    BY <1>0, <2>2, JobTodo, JobPc, JobEnds DEF JobGoto
  <2> QED BY <1>1, <1>3, <2>1, <2>3, QuietEnroll
<1>13. CASE LookupFirewall(w) \/ RejectDrift(w) \/ PatchFirewall(w) \/ CrashEnroll(w)
  <2>1. UNCHANGED ironicVars
    BY <1>13 DEF LookupFirewall, RejectDrift, PatchFirewall, CrashEnroll
  <2>2. \/ End(w)
        \/ \E pc \in {"find", "patch", "done"} : JobGoto(w, pc)
        \/ \E node : job' = [job EXCEPT ![w].pc = "drift", ![w].node = node]
    BY <1>13 DEF LookupFirewall, RejectDrift, PatchFirewall, CrashEnroll
  <2>3. /\ JobStep(w)
        /\ job'[w].pc = "idle" \/ (job'[w].req = job[w].req /\ job'[w].pc \notin EnginePcs)
    <3>1. CASE End(w)
      BY <1>0, <3>1, JobEnds
    <3>2. CASE \E pc \in {"find", "patch", "done"} : JobGoto(w, pc)
      BY <1>0, <3>2, JobPc DEF JobGoto, EnginePcs
    <3>3. CASE \E node : job' = [job EXCEPT ![w].pc = "drift", ![w].node = node]
      <4>1. PICK node : job' = [job EXCEPT ![w].pc = "drift", ![w].node = node]
        BY <3>3
      <4>2. JobStep(w) /\ job'[w].pc = "drift" /\ job'[w].req = job[w].req
        BY <1>0, <4>1, JobPcNode
      <4> QED BY <4>2 DEF EnginePcs
    <3> QED BY <2>2, <3>1, <3>2, <3>3
  <2> QED BY <1>1, <2>1, <2>3, QuietEnroll
<1> QED BY <1>4, <1>5, <1>6, <1>8, <1>9, <1>10, <1>11, <1>12, <1>13 DEF EnrollStep

\* A step of an enrolment changes no node that a router owns or works on.

LEMMA EnrollFrameKeeps ==
  ASSUME PoolInv, NEW w \in Workflows, EnrollFrame(w), Enrolling(w),
         UNCHANGED <<live, faults, proc, anchors, scope>>
  PROVE  PoolInv'
<1>1. PICK n \in Nodes : n = Node(w)
  BY NodeOfRun
<1>2. /\ \A r \in Routers : proc[r].node # n /\ (At(r, "lookup") => inst[n] # r)
      /\ job[w].pc \in EnginePcs => state[n] \in EngineStates
  BY <1>1 DEF PoolInv, EnrolledApart
<1>3. /\ UNCHANGED <<inst, lessee>>
      /\ \A m \in Nodes \ {n} : state'[m] = state[m] /\ class'[m] = class[m]
      /\ job'[w].pc \in EnginePcs => state'[n] \in EngineStates
      /\ (state'[n] # state[n] \/ class'[n] # class[n]) =>
            state[n] \in EngineStates /\ state'[n] \in EngineStates
      /\ \A v \in Workflows \ {w} : job'[v] = job[v]
  BY <1>1, <1>2 DEF EnrollFrame, JobStep
<1>4. TypeOK'
  BY DEF PoolInv, TypeOK, IronicTypeOK, EnrollFrame
<1>5. JobsTyped'
  <2> SUFFICES ASSUME NEW v \in Workflows
               PROVE  IsJob(job'[v]) /\ (job'[v].pc # "idle" => job'[v].req \in scope.requests)
    BY DEF JobsTyped, IsJob, EnrollFrame, JobStep
  <2>1. CASE v = w
    BY <2>1, NodeOfRun DEF EnrollFrame, JobStep
  <2>2. CASE v # w
    BY <2>2, SMTT(30) DEF PoolInv, JobsTyped, IsJob, EnrollFrame, JobStep
  <2> QED BY <2>1, <2>2
<1>6. Placed'
  BY DEF PoolInv, Placed, At
<1>7. OneAtATime'
  BY <1>2, <1>3 DEF PoolInv, OneAtATime, At, TypeOK
<1>8. EnrolledApart'
  <2> SUFFICES ASSUME NEW v \in Workflows
               PROVE  /\ Enrolling(v)' => \A r \in Routers : /\ proc[r].node # Node(v)'
                                                             /\ At(r, "lookup") => inst[Node(v)'] # r
                      /\ job'[v].pc \in EnginePcs => state'[Node(v)'] \in EngineStates
    BY <1>3 DEF EnrolledApart, At
  <2>1. CASE v = w
    <3>1. Enrolling(w)' => Node(w)' = n
      BY <1>1 DEF EnrollFrame, Enrolling, Node, Ask
    <3>2. job'[w].pc \in EnginePcs => Enrolling(w)'
      BY DEF EnginePcs, Enrolling
    <3> QED BY <1>2, <1>3, <2>1, <3>1, <3>2
  <2>2. CASE v # w
    <3>1. job'[v] = job[v]
      BY <1>3, <2>2
    <3>2. (Enrolling(v)' <=> Enrolling(v)) /\ Node(v)' = Node(v)
      BY <3>1 DEF Enrolling, Node, Ask
    <3>3. job[v].pc \in EnginePcs => Enrolling(v)
      BY DEF EnginePcs, Enrolling
    <3>4. Enrolling(v) => Node(v) \in Nodes
      BY NodeOfRun
    <3>5. job[v].pc \in EnginePcs => state'[Node(v)] \in EngineStates
      BY <1>3, <3>3, <3>4 DEF PoolInv, EnrolledApart
    <3> QED BY <3>1, <3>2, <3>5 DEF PoolInv, EnrolledApart
  <2> QED BY <2>1, <2>2
<1>9. ASSUME NEW r \in Routers  PROVE Adopting(r)'
  <2>1. CASE proc[r].pc \in {"adopt", "wait", "commit"}
    <3>1. PICK m \in Nodes \ {n} : proc[r].node = m
      BY <1>2, <2>1 DEF PoolInv, Placed, TypeOK
    <3>2. Stamped(r, m) /\ state[m] # "deleting" /\ (At(r, "commit") => state[m] = "active")
      BY <2>1, <3>1 DEF PoolInv, Adopting
    <3> QED BY <1>3, <3>1, <3>2 DEF Adopting, At, Stamped
  <2>2. CASE proc[r].pc \notin {"adopt", "wait", "commit"}
    BY <2>2 DEF Adopting, At
  <2> QED BY <2>1, <2>2
<1>10. ASSUME NEW r \in Routers, NEW m \in Nodes, OwnedBy(r, m)  PROVE OwnedBy(r, m)'
  <2>1. state'[m] = state[m] /\ class'[m] = class[m]
    BY <1>3, <1>10 DEF OwnedBy, EngineStates
  <2> QED BY <1>3, <1>10, <2>1 DEF OwnedBy, Stamped
<1>11. Owners'
  BY <1>10 DEF PoolInv, Owners, At
<1>12. Returning'
  <2> SUFFICES ASSUME faults \subseteq EarlyCalls, NEW m \in Untouched
               PROVE  /\ \A r \in Routers : proc[r].node = m => OnTrack(r, m)'
                      /\ ~WorkedOn(m)' => Returned(m)'
    BY DEF Returning, Untouched, RequestsFor
  <2>1. /\ \A r \in Routers : proc[r].node = m => OnTrack(r, m)
        /\ ~WorkedOn(m) => Returned(m)
    BY DEF PoolInv, Returning
  <2>2. m # n
    BY <1>1, NodeOfRun DEF Untouched, RequestsFor, Node, Ask
  <2>3. m \in Nodes /\ state'[m] = state[m] /\ inst'[m] = inst[m] /\ lessee'[m] = lessee[m]
    BY <1>3, <2>2 DEF Untouched
  <2>4. ASSUME NEW r \in Routers, proc[r].node = m  PROVE OnTrack(r, m)'
    BY <2>1, <2>3, <2>4 DEF OnTrack, Unstamped
  <2>5. (WorkedOn(m) => WorkedOn(m)') /\ (Returned(m) => Returned(m)')
    BY <2>3 DEF WorkedOn, Returned, At
  <2> QED BY <2>1, <2>4, <2>5
<1> QED BY <1>4, <1>5, <1>6, <1>7, <1>8, <1>9, <1>11, <1>12 DEF PoolInv

\* An enrolment starts: no request works on its node, nor is about to.
LEMMA StartKeeps ==
  ASSUME Exclusive, PoolInv, NEW w \in Workflows, NEW i \in Requests, MayEnroll(w, i),
         StartEnroll(w, i), UNCHANGED <<live, faults, proc, anchors, scope>>
  PROVE  PoolInv'
<1>1. UNCHANGED <<state, inst, lessee, class>> /\ i \in scope.requests
  BY DEF StartEnroll, MayEnroll, ironicVars, stamps
<1>2. JobStep(w) /\ job'[w].req = i /\ job'[w].pc \in {"lookup", "find"}
  <2>1. PICK j : /\ j = [IdleJob EXCEPT !.req = i, !.pc = IF Asks[i].fw THEN "lookup" ELSE "find"]
                 /\ job' = [job EXCEPT ![w] = j]
    BY DEF StartEnroll
  <2>2. IsJob(j) /\ j.req = i /\ j.pc \in {"lookup", "find"}
    BY <2>1 DEF IsJob, IdleJob
  <2> QED BY <2>1, <2>2, JobForm DEF PoolInv
<1>3. PICK n \in Nodes : n = Asks[i].node
  BY EnrollAssumption
<1>4. ASSUME NEW r \in Routers  PROVE proc[r].node # n /\ (At(r, "lookup") => inst[n] # r)
  <2>1. CASE At(r, "idle")
    <3>1. proc[r].node = NoNode
      BY <2>1 DEF PoolInv, Placed, At
    <3> QED BY <2>1, <3>1, AdoptionAssumption DEF At
  <2>2. CASE ~At(r, "idle")
    <3>1. ClassOf[r] # class[n]
      BY <1>3, <2>2 DEF MayEnroll, Apart
    <3>2. proc[r].node # n
      BY <3>1, AdoptionAssumption DEF PoolInv, OneAtATime
    <3>3. At(r, "lookup") => inst[n] # r
      BY <3>1 DEF PoolInv, Owners, OwnedBy, Stamped
    <3> QED BY <3>2, <3>3
  <2> QED BY <2>1, <2>2
<1>5. JobsTyped'
  <2> SUFFICES ASSUME NEW v \in Workflows
               PROVE  IsJob(job'[v]) /\ (job'[v].pc # "idle" => job'[v].req \in scope.requests)
    BY <1>2 DEF JobsTyped, IsJob, JobStep
  <2>1. CASE v = w
    BY <1>1, <1>2, <2>1 DEF JobStep
  <2>2. CASE v # w
    BY <1>2, <2>2, SMTT(30) DEF PoolInv, JobsTyped, IsJob, JobStep
  <2> QED BY <2>1, <2>2
<1>6. TypeOK' /\ Placed' /\ OneAtATime'
  BY <1>1 DEF PoolInv, TypeOK, IronicTypeOK, Placed, OneAtATime, At
<1>7. EnrolledApart'
  <2> SUFFICES ASSUME NEW v \in Workflows
               PROVE  /\ Enrolling(v)' => \A r \in Routers : /\ proc[r].node # Node(v)'
                                                             /\ At(r, "lookup") => inst[Node(v)'] # r
                      /\ job'[v].pc \in EnginePcs => state[Node(v)'] \in EngineStates
    BY <1>1 DEF EnrolledApart, At
  <2>1. CASE v = w
    <3>1. Node(w)' = n /\ job'[w].pc \notin EnginePcs
      BY <1>2, <1>3 DEF Node, Ask, EnginePcs
    <3> QED BY <1>4, <2>1, <3>1
  <2>2. CASE v # w
    <3>1. job'[v] = job[v]
      BY <1>2, <2>2 DEF JobStep
    <3>2. (Enrolling(v)' <=> Enrolling(v)) /\ Node(v)' = Node(v)
      BY <3>1 DEF Enrolling, Node, Ask
    <3> QED BY <3>1, <3>2 DEF PoolInv, EnrolledApart
  <2> QED BY <2>1, <2>2
<1>8. ASSUME NEW r \in Routers  PROVE Adopting(r)'
  BY <1>1 DEF PoolInv, Adopting, At, Stamped
<1>9. Owners'
  <2>1. \A r, m : OwnedBy(r, m) => OwnedBy(r, m)'
    BY <1>1 DEF OwnedBy, Stamped
  <2> QED BY <1>1, <2>1 DEF PoolInv, Owners, At
<1>10. Returning'
  <2>1. ASSUME NEW r, NEW m, OnTrack(r, m)  PROVE OnTrack(r, m)'
    BY <1>1, <2>1 DEF OnTrack, Unstamped
  <2>2. \A m : (WorkedOn(m)' <=> WorkedOn(m)) /\ (Returned(m)' <=> Returned(m))
    BY <1>1 DEF WorkedOn, Returned, At
  <2> QED BY <1>1, <2>1, <2>2 DEF PoolInv, Returning, Untouched, RequestsFor
<1> QED BY <1>5, <1>6, <1>7, <1>8, <1>9, <1>10 DEF PoolInv

-----------------------------------------------------------------------------
\* The invariant, and what follows.
LEMMA PoolInitial ==
  ASSUME PoolInit
  PROVE  PoolInv
<1>1. TypeOK
  BY AdoptionAssumption, ScopeAssumption, Idles
     DEF PoolInit, TypeOK, IronicTypeOK, ProvisionStates
<1>2. JobsTyped
  BY DEF PoolInit, EnrollInit, JobsTyped, IdleJob
<1>3. Placed /\ OneAtATime
  BY Idles DEF PoolInit, Placed, OneAtATime, At
<1>4. EnrolledApart
  BY DEF PoolInit, EnrollInit, EnrolledApart, Enrolling, IdleJob, EnginePcs
<1>5. (\A r \in Routers : Adopting(r)) /\ Owners
  BY Idles DEF PoolInit, Adopting, Owners, At
<1>6. Returning
  <2> SUFFICES ASSUME NEW n \in Untouched
               PROVE  /\ \A r \in Routers : proc[r].node # n
                      /\ Returned(n)
    BY DEF Returning
  <2>1. n \in Nodes /\ n \notin scope.absent /\ n # NoNode
    BY AdoptionAssumption DEF Untouched
  <2> QED BY <2>1, Idles DEF PoolInit, Returned
<1> QED BY <1>1, <1>2, <1>3, <1>4, <1>5, <1>6 DEF PoolInv

LEMMA PoolInductive ==
  ASSUME Exclusive, PoolInv, [PoolNext]_poolVars
  PROVE  PoolInv'
<1>1. CASE UNCHANGED poolVars
  BY <1>1, ElsewhereKeeps DEF poolVars
<1>2. CASE Serve
  BY <1>2, ElsewhereKeeps DEF Serve
<1>3. CASE Enroll
  <2>1. UNCHANGED <<live, faults, proc, anchors, scope>>
    BY <1>3 DEF Enroll
  <2>2. ASSUME NEW w \in Workflows, EnrollStep(w)  PROVE PoolInv'
    <3>1. EnrollFrame(w) /\ Enrolling(w)
      BY <2>2, EnrollSteps DEF EnrollStep, FindNode, CreateNode, PlanPorts, StepDown, UpdateMetadata,
         ApplyPortPlan, MakeManageable, MakeAvailable, LookupFirewall, RejectDrift, PatchFirewall,
         CrashEnroll, JobAt, Enrolling
    <3> QED BY <2>1, <2>2, <3>1, EnrollFrameKeeps
  <2> QED BY <1>3, <2>1, <2>2, StartKeeps DEF Enroll
<1>4. CASE Route
  <2>1. UNCHANGED <<enrollVars, scope>>
    BY <1>4 DEF Route
  <2>2. ASSUME NEW r \in Routers, Work(r)  PROVE PoolInv'
    BY <2>1, <2>2, AnchorKeeps, ManageKeeps, StampKeeps, AdoptKeeps, WaitKeeps, CommitKeeps,
       RereadKeeps, ClearKeeps, ProvideKeeps, UndeployKeeps, UndeployWaitKeeps, LookupKeeps DEF Work
  <2>3. ASSUME NEW r \in Routers, RefuseCreate(r)  PROVE PoolInv'
    BY <2>1, <2>3, ElsewhereKeeps DEF RefuseCreate
  <2> QED BY <1>4, <2>1, <2>2, <2>3, SelectKeeps, DeleteKeeps, CrashKeeps, IronicKeeps DEF Route
<1> QED BY <1>1, <1>2, <1>3, <1>4 DEF PoolNext

LEMMA PoolInvariant ==
  ASSUME Exclusive
  PROVE  PoolSpec => []PoolInv
<1>1. PoolInit => PoolInv
  BY PoolInitial
<1>2. PoolInv /\ [PoolNext]_poolVars => PoolInv'
  BY PoolInductive
<1> QED BY <1>1, <1>2, PTL DEF PoolSpec

\* adopt_node_for_router, _return_node_to_available and the enrolments of the
\* same nodes: while requests for one resource class do not overlap, a committed
\* router owns one active node of its class, whatever fails, answers late or dies.
THEOREM RoutersOwnNodes ==
  ASSUME Exclusive
  PROVE  PoolSpec => []CommittedRouterOwnsNode
<1>1. PoolInv => CommittedRouterOwnsNode
  <2> SUFFICES ASSUME PoolInv, NEW r \in live
               PROVE  \E n \in Nodes : /\ state[n] = "active" /\ class[n] = ClassOf[r]
                                       /\ inst[n] = r /\ lessee[n] = r
                                       /\ \A m \in Nodes : inst[m] = r => m = n
    BY DEF CommittedRouterOwnsNode
  <2>1. r \in Routers
    BY DEF PoolInv, TypeOK
  <2> QED BY <2>1, SMTT(30) DEF PoolInv, Owners, OwnedBy, Stamped
<1> QED BY <1>1, PoolInvariant, PTL

\* _return_node_to_available: under the same promise, every node that no
\* enrolment works on is returned when the requests are over, if only calls up to
\* the stamping failed.
THEOREM NodesComeBack ==
  ASSUME Exclusive
  PROVE  PoolSpec => []NodesAreReturned
<1>1. PoolInv => NodesAreReturned
  <2> SUFFICES ASSUME PoolInv, Quiet, faults \subseteq EarlyCalls, NEW n \in Untouched
               PROVE  Returned(n)
    BY DEF NodesAreReturned, Untouched
  <2>1. ~WorkedOn(n)
    <3>1. n \in Nodes /\ n # NoNode
      BY AdoptionAssumption DEF Untouched
    <3> QED BY <3>1 DEF WorkedOn, Quiet, PoolInv, Placed, At
  <2> QED BY <2>1 DEF PoolInv, Returning
<1> QED BY <1>1, PoolInvariant, PTL

\* A request moves by its own steps.
LEMMA OthersStay ==
  ASSUME TypeOK, NEW p \in Routers, NEW r \in Routers, p # r,
         SelectNode(p) \/ DeleteRouter(p) \/ Work(p) \/ Crash(p)
  PROVE  proc'[r] = proc[r]
<1>1. \/ \E x : proc' = [proc EXCEPT ![p] = x]
      \/ \E pc : Goto(p, pc)
  BY DEF SelectNode, DeleteRouter, Work, Crash, FindAnchor, CreateAnchor, Manage, Stamp, Adopt,
         WaitActive, CommitRouter, Reread, Clear, Provide, Undeploy, UndeployWait, Lookup,
         Provision, Finish
<1> QED BY <1>1 DEF TypeOK, Goto

\* _clear_ownership clears whatever stamps the node has: under the same promise
\* they are never those of another router that is committed or adopts the node.
THEOREM ClearsNoOthersStamps ==
  ASSUME Exclusive
  PROVE  PoolSpec => ClearsOnlyOwnStamps
<1>1. ASSUME PoolInv, PoolNext, NEW r \in Routers, NEW q \in Routers, r # q,
             proc[r].pc \in {"clear", "clearProvide"}, proc'[r] # proc[r],
             NEW n \in Nodes, InUse(q, n)
      PROVE  inst'[n] = q
  <2>1. PICK m \in Nodes : proc[r].node = m
    BY <1>1, OnNode DEF At
  <2>2. n # m
    <3>1. CASE q \in live
      BY <1>1, <2>1, <3>1, SMTT(30) DEF PoolInv, Owners, OwnedBy, Stamped, InUse
    <3>2. CASE proc[q].node = n
      BY <1>1, <2>1, <3>2, Alone
    <3> QED BY <1>1, <3>1, <3>2 DEF InUse
  <2>3. Clear(r) \/ Crash(r)
    <3>1. proc' # proc /\ TypeOK
      BY <1>1 DEF PoolInv
    <3>2. Route
      BY <1>1, <3>1 DEF PoolNext, Serve, Enroll, vars
    <3>3. \A n1 \in Nodes : ~Ironic(n1)
      BY <3>1 DEF Ironic
    <3>4. \A p \in Routers : ~RefuseCreate(p)
      BY <3>1 DEF RefuseCreate, vars
    <3>5. PICK p \in Routers : SelectNode(p) \/ DeleteRouter(p) \/ Work(p) \/ Crash(p)
      BY <3>2, <3>3, <3>4 DEF Route
    <3>6. p = r
      BY <1>1, <3>1, <3>5, OthersStay
    <3> QED BY <1>1, <3>5, <3>6
        DEF SelectNode, MayStart, DeleteRouter, Work, FindAnchor, CreateAnchor, Manage, Stamp, Adopt,
            WaitActive, CommitRouter, Reread, Provide, Undeploy, UndeployWait, Lookup, At
  <2>4. inst'[n] = inst[n]
    <3>1. CASE UNCHANGED ironicVars
      BY <3>1 DEF ironicVars, stamps
    <3>2. CASE SetOwner(m, NoRouter)
      BY <1>1, <2>1, <2>2, <3>2, OwnerForm DEF PoolInv
    <3> QED BY <2>1, <2>3, <3>1, <3>2 DEF Clear, Crash
  <2> QED BY <1>1, <2>4 DEF InUse
<1>2. PoolInv /\ [PoolNext]_poolVars =>
        [\A r, q \in Routers :
           (r # q /\ proc[r].pc \in {"clear", "clearProvide"} /\ proc'[r] # proc[r]) =>
             \A n \in Nodes : InUse(q, n) => inst'[n] = q]_vars
  BY <1>1 DEF poolVars
<1> QED BY <1>2, PoolInvariant, PTL DEF PoolSpec, ClearsOnlyOwnStamps

-----------------------------------------------------------------------------
\* Enrolments.  A port that run has listed as old is still so, or has been changed
\* by another run of the same request, field by field.
LlcAsRequested(p, llc) == llc[2] = p.peer /\ (p.sid # Unset => llc[1] = p.sid)

Between(p, old, cur) ==
  IF old = NoPort THEN cur = NoPort \/ PortAsRequested(p, cur)
  ELSE /\ cur # NoPort /\ cur.mac \in {old.mac, p.mac} /\ cur.net \in {old.net, p.net}
       /\ cur.llc = old.llc \/ LlcAsRequested(p, cur.llc)
       /\ p.sid = Unset => cur.llc[1] = old.llc[1]

\* A plan against the ports of the node: what it leaves alone is as requested.
PlanFits(todo, q, p) ==
  /\ DOMAIN todo \subseteq DOMAIN q.ports
  /\ \A l \in DOMAIN q.ports :
       IF l \in DOMAIN todo
       THEN /\ todo[l].old \in PortRecords \cup {NoPort}
            /\ todo[l].new = DesiredPort(q.ports[l], todo[l].old)
            /\ Between(q.ports[l], todo[l].old, p[l])
       ELSE PortAsRequested(q.ports[l], p[l])

AllPorts(q, p) == \A l \in DOMAIN q.ports : PortAsRequested(q.ports[l], p[l])
Metadata(q, c, i) == c = q.class /\ (q.info # Unset => i = q.info)
AsAsked(q, c, i, p) == Metadata(q, c, i) /\ AllPorts(q, p)

\* A run j of request q against its node: provision state s, class c, metadata i
\* and ports p.
Fits(j, q, s, c, i, p) ==
  /\ j.pc \in {"plan", "stepDown", "metadata"} => c \in {j.node.class, q.class}
  /\ j.pc \in {"plan", "stepDown", "metadata", "drift", "patch"} /\ q.info # Unset =>
       i \in {j.node.info, q.info}
  /\ j.pc \in {"stepDown", "metadata", "ports"} => PlanFits(j.todo, q, p)
  /\ j.pc = "metadata" /\ j.state = "available" => DOMAIN j.todo = {}
  /\ j.pc = "ports" => Metadata(q, c, i) /\ j.state # "available"
  /\ j.pc \in {"manage", "provide"} => AsAsked(q, c, i, p)
  /\ j.pc \in EnginePcs /\ j.state # "available" /\ s = "available" => AsAsked(q, c, i, p)
  /\ j.pc \in {"drift", "patch"} => s = "active" /\ c = q.class
  /\ j.pc = "patch" => AllPorts(q, p)

\* Overlapping runs on a node are of one request.
OneRequest ==
  \A v, w \in Workflows :
    Enrolling(v) /\ Enrolling(w) /\ Node(v) = Node(w) => job[v].req = job[w].req

RunsFit ==
  \A w \in Workflows : Enrolling(w) =>
    Fits(job[w], Ask(w), state[Node(w)], class[Node(w)], info[Node(w)], ports[Node(w)])

\* A node that was enrolled and is in the pool, in use, or in the hands of a
\* router request, is described by a request.
PoolStates == {"available", "adopting", "adopt failed", "active", "deleting"}
Held(n) == state[n] \in PoolStates \/ \E r \in Routers : proc[r].node = n

PoolDescribed ==
  \A n \in scope.absent : Held(n) => \E i \in RequestsFor(n) : Described(n, Asks[i])

EnrollInv == PoolInv /\ EnrollTypeOK /\ OneRequest /\ RunsFit /\ PoolDescribed
LEMMA PatchedForm ==
  ASSUME NEW a, NEW b, NEW c, NEW old, NEW cur, NEW new, new = [mac |-> a, net |-> b, llc |-> c],
         NEW x, x = Patched(cur, old, new)
  PROVE  /\ x.mac = IF a # old.mac THEN a ELSE cur.mac
         /\ x.net = IF b # old.net THEN b ELSE cur.net
         /\ x.llc = IF c # old.llc THEN c ELSE cur.llc
         /\ x = [mac |-> x.mac, net |-> x.net, llc |-> x.llc]
  BY SMTT(30) DEF Patched

LEMMA PortFields ==
  ASSUME NEW x \in PortRecords
  PROVE  /\ x.llc = <<x.llc[1], x.llc[2]>> /\ x.llc[1] \in SwitchIds /\ x # NoPort
         /\ x = [mac |-> x.mac, net |-> x.net, llc |-> x.llc]
  BY EnrollAssumption, SMTT(30) DEF PortRecords

LEMMA DesiredFits ==
  ASSUME NEW p \in Wanted, NEW old \in PortRecords \cup {NoPort}
  PROVE  DesiredPort(p, old) \in PortRecords /\ PortAsRequested(p, DesiredPort(p, old))
<1>1. SwitchId(p, old) \in SwitchIds
  <2>1. CASE p.sid # Unset
    BY <2>1 DEF SwitchId, SwitchIds
  <2>2. CASE p.sid = Unset /\ old = NoPort
    BY <2>2 DEF SwitchId, SwitchIds
  <2>3. CASE p.sid = Unset /\ old # NoPort
    BY <2>3, PortFields DEF SwitchId
  <2> QED BY <2>1, <2>2, <2>3
<1>2. DesiredPort(p, old) \in PortRecords
  BY <1>1, SMTT(30) DEF DesiredPort, PortRecords
<1>3. DesiredPort(p, old) # NoPort
  BY <1>2, EnrollAssumption
<1> QED BY <1>2, <1>3, SMTT(30) DEF DesiredPort, PortAsRequested, SwitchId

\* A port that the listing shows as wanted is so, and a listed port is as listed.
LEMMA ListedFits ==
  ASSUME NEW p \in Wanted, NEW old \in PortRecords \cup {NoPort}
  PROVE  Between(p, old, old) /\ (old = DesiredPort(p, old) => PortAsRequested(p, old))
<1>1. old = DesiredPort(p, old) => PortAsRequested(p, old)
  BY DesiredFits
<1> QED BY <1>1 DEF Between

\* The patch of a port that other runs of the request may have changed leaves it
\* as requested, and keeps a switch_id that the request does not give.
LEMMA PatchFits ==
  ASSUME NEW p \in Wanted, NEW old \in PortRecords, NEW cur \in PortRecords,
         Between(p, old, cur), NEW x, x = Patched(cur, old, DesiredPort(p, old))
  PROVE  /\ x \in PortRecords /\ PortAsRequested(p, x)
         /\ p.sid = Unset => x.llc[1] = cur.llc[1]
<1>1. PICK new : new = DesiredPort(p, old)
  OBVIOUS
<1>2. /\ new \in PortRecords /\ PortAsRequested(p, new) /\ old # NoPort
      /\ p.sid = Unset => new.llc[1] = old.llc[1]
  BY <1>1, DesiredFits, PortFields, SMTT(30) DEF DesiredPort, SwitchId
<1>3. new = [mac |-> new.mac, net |-> new.net, llc |-> new.llc]
  BY <1>2, PortFields
<1>4. /\ x.mac = IF new.mac # old.mac THEN new.mac ELSE cur.mac
      /\ x.net = IF new.net # old.net THEN new.net ELSE cur.net
      /\ x.llc = IF new.llc # old.llc THEN new.llc ELSE cur.llc
      /\ x = [mac |-> x.mac, net |-> x.net, llc |-> x.llc]
  BY <1>1, <1>3, PatchedForm, SMTT(30)
<1>5. x \in PortRecords
  BY <1>2, <1>4, SMTT(30) DEF PortRecords
<1>6. x.mac = p.mac /\ x.net = p.net
  BY <1>2, <1>4 DEF Between, PortAsRequested
<1>7. LlcAsRequested(p, x.llc) /\ (p.sid = Unset => x.llc[1] = cur.llc[1])
  <2>1. LlcAsRequested(p, new.llc)
    BY <1>2 DEF LlcAsRequested, PortAsRequested
  <2>2. CASE new.llc # old.llc
    BY <1>2, <1>4, <2>1, <2>2 DEF Between
  <2>3. CASE new.llc = old.llc
    BY <1>2, <1>4, <2>1, <2>3 DEF Between
  <2> QED BY <2>2, <2>3
<1> QED BY <1>5, <1>6, <1>7, PortFields DEF PortAsRequested, LlcAsRequested

\* What a run of request q does to its node: it goes towards the request.
PortAdvances(p, cur, new) ==
  /\ PortAsRequested(p, new)
  /\ cur # NoPort /\ p.sid = Unset => new.llc[1] = cur.llc[1]

Advance(q, s, c, i, p, s1, c1, i1, p1) ==
  /\ c1 \in {c, q.class} /\ i1 \in {i, q.info}
  /\ \A l \in Labels : \/ p1[l] = p[l]
                       \/ l \in DOMAIN q.ports /\ PortAdvances(q.ports[l], p[l], p1[l])
  /\ s1 = "available" => s = "available" \/ AsAsked(q, c1, i1, p1)
  /\ s = "active" => s1 = "active"

LEMMA BetweenStays ==
  ASSUME NEW p, NEW old, NEW cur, NEW new, Between(p, old, cur), PortAdvances(p, cur, new)
  PROVE  Between(p, old, new)
<1>1. CASE old = NoPort
  BY <1>1 DEF Between, PortAdvances
<1>2. CASE old # NoPort
  BY <1>2 DEF Between, PortAdvances, PortAsRequested, LlcAsRequested
<1> QED BY <1>1, <1>2

\* and so disturbs no other run of the same request.
LEMMA AskedStays ==
  ASSUME NEW q, DOMAIN q.ports \subseteq Labels, NEW s, NEW c, NEW i, NEW p,
         NEW s1, NEW c1, NEW i1, NEW p1, Advance(q, s, c, i, p, s1, c1, i1, p1)
  PROVE  /\ AllPorts(q, p) => AllPorts(q, p1)
         /\ Metadata(q, c, i) => Metadata(q, c1, i1)
         /\ AsAsked(q, c, i, p) => AsAsked(q, c1, i1, p1)
         /\ \A todo : PlanFits(todo, q, p) => PlanFits(todo, q, p1)
<1>1. AllPorts(q, p) => AllPorts(q, p1)
  BY DEF AllPorts, Advance, PortAdvances
<1>2. Metadata(q, c, i) => Metadata(q, c1, i1)
  BY DEF Metadata, Advance
<1>3. ASSUME NEW todo, PlanFits(todo, q, p)  PROVE PlanFits(todo, q, p1)
  <2> SUFFICES ASSUME NEW l \in DOMAIN q.ports
               PROVE  IF l \in DOMAIN todo
                      THEN /\ todo[l].old \in PortRecords \cup {NoPort}
                           /\ todo[l].new = DesiredPort(q.ports[l], todo[l].old)
                           /\ Between(q.ports[l], todo[l].old, p1[l])
                      ELSE PortAsRequested(q.ports[l], p1[l])
    BY <1>3 DEF PlanFits
  <2>1. p1[l] = p[l] \/ PortAdvances(q.ports[l], p[l], p1[l])
    BY DEF Advance
  <2>2. CASE l \in DOMAIN todo
    BY <1>3, <2>1, <2>2, BetweenStays DEF PlanFits
  <2>3. CASE l \notin DOMAIN todo
    BY <1>3, <2>1, <2>3 DEF PlanFits, PortAdvances
  <2> QED BY <2>2, <2>3
<1> QED BY <1>1, <1>2, <1>3 DEF AsAsked

LEMMA FitsStays ==
  ASSUME NEW j, NEW q, DOMAIN q.ports \subseteq Labels, NEW s, NEW c, NEW i, NEW p,
         NEW s1, NEW c1, NEW i1, NEW p1, Advance(q, s, c, i, p, s1, c1, i1, p1),
         Fits(j, q, s, c, i, p)
  PROVE  Fits(j, q, s1, c1, i1, p1)
<1>1. /\ AllPorts(q, p) => AllPorts(q, p1)
      /\ Metadata(q, c, i) => Metadata(q, c1, i1)
      /\ AsAsked(q, c, i, p) => AsAsked(q, c1, i1, p1)
      /\ PlanFits(j.todo, q, p) => PlanFits(j.todo, q, p1)
  BY AskedStays
<1>2. /\ c1 \in {c, q.class} /\ i1 \in {i, q.info}
      /\ s1 = "available" => s = "available" \/ AsAsked(q, c1, i1, p1)
      /\ s = "active" => s1 = "active"
  BY DEF Advance
<1> QED BY <1>1, <1>2 DEF Fits

-----------------------------------------------------------------------------
\* The steps of a run.  Run w is of request q, on node n, and fits it.
OfRun(w, n, q) ==
  /\ PoolInv /\ EnrollTypeOK
  /\ n = Node(w) /\ q = Ask(w) /\ Enrolling(w)
  /\ q.info \in {Asks[k].info : k \in Requests}
  /\ DOMAIN q.ports \subseteq Labels /\ \A l \in DOMAIN q.ports : q.ports[l] \in Wanted
  /\ Fits(job[w], q, state[n], class[n], info[n], ports[n])

\* A step goes towards the request, and w fits the node that it leaves; a run that
\* ends well leaves it as requested, and so does one that changes a node in
\* the pool.
EnrollEffect(w, n, q) ==
  /\ EnrollTypeOK' /\ \A m \in Nodes \ {n} : ports'[m] = ports[m] /\ info'[m] = info[m]
  /\ Advance(q, state[n], class[n], info[n], ports[n], state'[n], class'[n], info'[n], ports'[n])
  /\ job'[w].pc \notin {"idle", "done"} =>
       Fits(job'[w], q, state'[n], class'[n], info'[n], ports'[n])
  /\ job'[w].pc = "done" => AsAsked(q, class'[n], info'[n], ports'[n])
  /\ \/ UNCHANGED <<state, class, info, ports>>
     \/ state'[n] \notin PoolStates
     \/ AsAsked(q, class'[n], info'[n], ports'[n])

LEMMA NodeStays ==
  ASSUME NEW w \in Workflows, NEW n \in Nodes, NEW q, EnrollTypeOK,
         UNCHANGED <<ironicVars, info, ports>>,
         job'[w].pc \notin {"idle", "done"} =>
           Fits(job'[w], q, state[n], class[n], info[n], ports[n]),
         job'[w].pc = "done" => AsAsked(q, class[n], info[n], ports[n])
  PROVE  EnrollEffect(w, n, q)
<1>1. UNCHANGED <<state, class, info, ports>>
  BY DEF ironicVars
<1>2. EnrollTypeOK'
  BY <1>1 DEF EnrollTypeOK
<1>3. Advance(q, state[n], class[n], info[n], ports[n], state'[n], class'[n], info'[n], ports'[n])
  BY <1>1 DEF Advance
<1> QED BY <1>1, <1>2, <1>3 DEF EnrollEffect

LEMMA RunEnds ==
  ASSUME NEW w \in Workflows, NEW n \in Nodes, NEW q, OfRun(w, n, q), End(w),
         UNCHANGED <<ironicVars, info, ports>>
  PROVE  EnrollEffect(w, n, q)
<1>1. job'[w].pc = "idle"
  BY JobEnds DEF OfRun, PoolInv
<1> QED BY <1>1, NodeStays DEF OfRun

LEMMA RunRecord ==
  ASSUME JobsTyped, NEW w \in Workflows
  PROVE  IsJob(job[w])
  BY DEF JobsTyped, IsJob

LEMMA FindEffect ==
  ASSUME NEW w \in Workflows, NEW n \in Nodes, NEW q, OfRun(w, n, q), FindNode(w)
  PROVE  EnrollEffect(w, n, q)
<1>1. UNCHANGED <<ironicVars, info, ports>> /\ EnrollTypeOK /\ JobsTyped
  BY DEF FindNode, OfRun, PoolInv
<1>2. CASE End(w)
  BY <1>1, <1>2, RunEnds
<1>3. CASE state[n] = "absent" /\ JobGoto(w, "create")
  <2>1. job'[w].pc = "create"
    BY <1>1, <1>3, JobPc DEF JobGoto
  <2>2. Fits(job'[w], q, state[n], class[n], info[n], ports[n])
    BY <1>3, <2>1 DEF Fits
  <2> QED BY <1>1, <2>1, <2>2, NodeStays
<1>4. CASE job' = [job EXCEPT ![w].pc = "plan", ![w].node = ReadNode(n), ![w].state = state[n]]
  <2>0. PICK b, c : b = ReadNode(n) /\ c = state[n]
    OBVIOUS
  <2>1. job'[w].pc = "plan" /\ job'[w].node = b /\ job'[w].state = state[n]
    <3>1. job' = [job EXCEPT ![w].pc = "plan", ![w].node = b, ![w].state = c]
      BY <1>4, <2>0
    <3>2. IsJob(job[w])
      BY <1>1, RunRecord
    <3>3. job'[w].pc = "plan" /\ job'[w].node = b /\ job'[w].state = c
      BY <1>1, <3>1, <3>2 DEF JobsTyped, IsJob
    <3> QED BY <2>0, <3>3
  <2>2. job'[w].node.class = class[n] /\ job'[w].node.info = info[n]
    BY <2>0, <2>1, SMTT(30) DEF ReadNode
  <2>3. Fits(job'[w], q, state[n], class[n], info[n], ports[n])
    BY <2>1, <2>2 DEF Fits
  <2> QED BY <1>1, <2>1, <2>3, NodeStays
<1> QED BY <1>2, <1>3, <1>4 DEF FindNode, OfRun

LEMMA CreateEffect ==
  ASSUME NEW w \in Workflows, NEW n \in Nodes, NEW q, OfRun(w, n, q), CreateNode(w)
  PROVE  EnrollEffect(w, n, q)
<1>1. CASE End(w) /\ UNCHANGED <<ports, info, ironicVars>>
  BY <1>1, RunEnds
<1>2. CASE /\ state[n] = "absent" /\ state' = [state EXCEPT ![n] = "enroll"]
           /\ class' = [class EXCEPT ![n] = q.class] /\ info' = [info EXCEPT ![n] = q.info]
           /\ job' = [job EXCEPT ![w].pc = "plan", ![w].state = "enroll",
                                 ![w].node = [class |-> q.class, info |-> q.info]]
           /\ UNCHANGED ports
  <2>1. /\ state'[n] = "enroll" /\ class'[n] = q.class /\ info'[n] = q.info
        /\ \A m \in Nodes \ {n} : info'[m] = info[m]
        /\ info' \in [Nodes -> {Asks[k].info : k \in Requests} \cup {Unset}]
    BY <1>2 DEF OfRun, PoolInv, TypeOK, IronicTypeOK, EnrollTypeOK
  <2>2. /\ job'[w].pc = "plan" /\ job'[w].state = "enroll"
        /\ job'[w].node.class = q.class /\ job'[w].node.info = q.info
    <3>1. JobsTyped
      BY DEF OfRun, PoolInv
    <3>2. PICK b : b = [class |-> q.class, info |-> q.info]
      OBVIOUS
    <3>3. job' = [job EXCEPT ![w].pc = "plan", ![w].state = "enroll", ![w].node = b]
      BY <1>2, <3>2
    <3>4. job'[w].pc = "plan" /\ job'[w].state = "enroll" /\ job'[w].node = b
      <4>1. IsJob(job[w])
        BY <3>1, RunRecord
      <4> QED BY <3>1, <3>3, <4>1 DEF JobsTyped, IsJob
    <3>5. b.class = q.class /\ b.info = q.info
      BY <3>2, SMTT(30)
    <3> QED BY <3>4, <3>5
  <2>3. Fits(job'[w], q, state'[n], class'[n], info'[n], ports'[n])
    BY <2>1, <2>2 DEF Fits
  <2>4. Advance(q, state[n], class[n], info[n], ports[n], state'[n], class'[n], info'[n], ports'[n])
    BY <1>2, <2>1 DEF Advance
  <2>5. EnrollTypeOK' /\ state'[n] \notin PoolStates
    BY <1>2, <2>1 DEF OfRun, EnrollTypeOK, PoolStates
  <2> QED BY <1>2, <2>1, <2>2, <2>3, <2>4, <2>5 DEF EnrollEffect
<1> QED BY <1>1, <1>2 DEF CreateNode, OfRun

LEMMA PlanEffect ==
  ASSUME NEW w \in Workflows, NEW n \in Nodes, NEW q, OfRun(w, n, q), PlanPorts(w)
  PROVE  EnrollEffect(w, n, q)
<1>1. UNCHANGED <<ironicVars, info, ports>> /\ EnrollTypeOK /\ JobsTyped /\ job[w].pc = "plan"
  BY DEF PlanPorts, OfRun, PoolInv, JobAt
<1>2. CASE End(w)
  BY <1>1, <1>2, RunEnds
<1>3. ASSUME NEW todo, todo = [l \in Pending(n, q) |-> PortPlan(n, q, l)], NEW pc,
             pc = IF DOMAIN todo # {} /\ job[w].state = "available" THEN "stepDown" ELSE "metadata",
             job' = [job EXCEPT ![w].todo = todo, ![w].pc = pc]
      PROVE  EnrollEffect(w, n, q)
  <2>1. /\ job'[w].pc = pc /\ job'[w].node = job[w].node /\ job'[w].state = job[w].state
        /\ job'[w].todo = todo
    <3>1. IsJob(job[w])
      BY <1>1, RunRecord
    <3>2. job' = [job EXCEPT ![w].todo = todo, ![w].pc = pc]
      BY <1>3
    <3> QED BY <1>1, <3>1, <3>2 DEF JobsTyped, IsJob
  <2>2. PlanFits(todo, q, ports[n])
    <3>1. DOMAIN todo = Pending(n, q) /\ DOMAIN todo \subseteq DOMAIN q.ports
      BY <1>3 DEF Pending
    <3>2. ASSUME NEW l \in DOMAIN q.ports
          PROVE  IF l \in DOMAIN todo
                 THEN /\ todo[l].old \in PortRecords \cup {NoPort}
                      /\ todo[l].new = DesiredPort(q.ports[l], todo[l].old)
                      /\ Between(q.ports[l], todo[l].old, ports[n][l])
                 ELSE PortAsRequested(q.ports[l], ports[n][l])
      <4>1. /\ q.ports[l] \in Wanted /\ ports[n][l] \in PortRecords \cup {NoPort}
        BY DEF OfRun, EnrollTypeOK
      <4>2. /\ Between(q.ports[l], ports[n][l], ports[n][l])
            /\ ports[n][l] = DesiredPort(q.ports[l], ports[n][l]) =>
                 PortAsRequested(q.ports[l], ports[n][l])
        BY <4>1, ListedFits
      <4>3. CASE l \in DOMAIN todo
        <5>1. todo[l] = [old |-> ports[n][l], new |-> DesiredPort(q.ports[l], ports[n][l])]
          BY <1>3, <3>1, <4>3 DEF PortPlan
        <5>2. todo[l].old = ports[n][l] /\ todo[l].new = DesiredPort(q.ports[l], ports[n][l])
          BY <5>1, SMTT(30)
        <5> QED BY <4>1, <4>2, <4>3, <5>2
      <4>4. CASE l \notin DOMAIN todo
        BY <3>1, <4>2, <4>4 DEF Pending, PortPlan
      <4> QED BY <4>3, <4>4
    <3> QED BY <3>1, <3>2 DEF PlanFits
  <2>3. Fits(job[w], q, state[n], class[n], info[n], ports[n])
    BY DEF OfRun
  <2>4. /\ pc \in {"stepDown", "metadata"}
        /\ pc = "metadata" /\ job[w].state = "available" => DOMAIN todo = {}
    BY <1>3
  <2>5. Fits(job'[w], q, state[n], class[n], info[n], ports[n])
    BY <1>1, <2>1, <2>2, <2>3, <2>4 DEF Fits, EnginePcs
  <2> QED BY <1>1, <2>1, <2>4, <2>5, NodeStays
<1> QED BY <1>2, <1>3 DEF PlanPorts, OfRun

\* The calls that move the node, accepted.
LEMMA MoveForm ==
  ASSUME NEW w \in Workflows, NEW n \in Nodes, NEW q, OfRun(w, n, q),
         NEW verb \in Verbs, SetProvisionState(n, verb), UNCHANGED <<info, ports>>
  PROVE  /\ state[n] \in ValidFrom(verb) /\ state'[n] = LeadsTo(verb)
         /\ UNCHANGED <<class, info, ports>> /\ EnrollTypeOK'
<1>1. TypeOK /\ EnrollTypeOK
  BY DEF OfRun, PoolInv
<1>2. state[n] \in ValidFrom(verb) /\ state'[n] = LeadsTo(verb) /\ class' = class
  BY <1>1, ProvisionForm
<1> QED BY <1>1, <1>2 DEF EnrollTypeOK

LEMMA StepDownEffect ==
  ASSUME NEW w \in Workflows, NEW n \in Nodes, NEW q, OfRun(w, n, q), StepDown(w)
  PROVE  EnrollEffect(w, n, q)
<1>1. UNCHANGED <<info, ports>> /\ JobsTyped /\ job[w].pc = "stepDown"
  BY DEF StepDown, OfRun, PoolInv, JobAt
<1>2. CASE End(w) /\ UNCHANGED ironicVars
  BY <1>1, <1>2, RunEnds
<1>3. CASE /\ SetProvisionState(n, "manage")
           /\ job' = [job EXCEPT ![w].pc = "metadata", ![w].state = "manageable"]
  <2>1. /\ job'[w].pc = "metadata" /\ job'[w].state = "manageable"
        /\ job'[w].node = job[w].node /\ job'[w].todo = job[w].todo
    <3>1. IsJob(job[w])
      BY <1>1, RunRecord
    <3> QED BY <1>1, <1>3, <3>1 DEF JobsTyped, IsJob
  <2>2. /\ state[n] \in {"enroll", "available", "adopt failed"} /\ state'[n] = "manageable"
        /\ UNCHANGED <<class, info, ports>> /\ EnrollTypeOK'
    BY <1>1, <1>3, MoveForm DEF Verbs, ValidFrom, LeadsTo
  <2>3. Fits(job[w], q, state[n], class[n], info[n], ports[n])
    BY DEF OfRun
  <2>4. Fits(job'[w], q, state'[n], class'[n], info'[n], ports'[n])
    BY <1>1, <2>1, <2>2, <2>3 DEF Fits
  <2>5. Advance(q, state[n], class[n], info[n], ports[n], state'[n], class'[n], info'[n], ports'[n])
    BY <2>2 DEF Advance
  <2> QED BY <2>1, <2>2, <2>4, <2>5 DEF EnrollEffect, PoolStates
<1> QED BY <1>2, <1>3 DEF StepDown, Transition, OfRun

LEMMA MakeManageableEffect ==
  ASSUME NEW w \in Workflows, NEW n \in Nodes, NEW q, OfRun(w, n, q), MakeManageable(w)
  PROVE  EnrollEffect(w, n, q)
<1>1. UNCHANGED <<info, ports>> /\ JobsTyped /\ job[w].pc = "manage"
  BY DEF MakeManageable, OfRun, PoolInv, JobAt
<1>2. CASE End(w) /\ UNCHANGED ironicVars
  BY <1>1, <1>2, RunEnds
<1>3. CASE SetProvisionState(n, "manage") /\ job' = [job EXCEPT ![w].pc = "provide"]
  <2>1. job'[w].pc = "provide"
    BY <1>1, <1>3, JobPc
  <2>2. /\ state[n] \in {"enroll", "available", "adopt failed"} /\ state'[n] = "manageable"
        /\ UNCHANGED <<class, info, ports>> /\ EnrollTypeOK'
    BY <1>1, <1>3, MoveForm DEF Verbs, ValidFrom, LeadsTo
  <2>3. AsAsked(q, class[n], info[n], ports[n])
    BY <1>1 DEF OfRun, Fits
  <2>4. Fits(job'[w], q, state'[n], class'[n], info'[n], ports'[n])
    BY <2>1, <2>2, <2>3 DEF Fits
  <2>5. Advance(q, state[n], class[n], info[n], ports[n], state'[n], class'[n], info'[n], ports'[n])
    BY <2>2 DEF Advance
  <2> QED BY <2>1, <2>2, <2>4, <2>5 DEF EnrollEffect, PoolStates
<1> QED BY <1>2, <1>3 DEF MakeManageable, Transition, OfRun

LEMMA MakeAvailableEffect ==
  ASSUME NEW w \in Workflows, NEW n \in Nodes, NEW q, OfRun(w, n, q), MakeAvailable(w)
  PROVE  EnrollEffect(w, n, q)
<1>1. UNCHANGED <<info, ports>> /\ JobsTyped /\ job[w].pc = "provide"
  BY DEF MakeAvailable, OfRun, PoolInv, JobAt
<1>2. CASE End(w) /\ UNCHANGED ironicVars
  BY <1>1, <1>2, RunEnds
<1>3. CASE SetProvisionState(n, "provide") /\ job' = [job EXCEPT ![w].pc = "done"]
  <2>1. job'[w].pc = "done"
    BY <1>1, <1>3, JobPc
  <2>2. /\ state[n] = "manageable" /\ UNCHANGED <<class, info, ports>> /\ EnrollTypeOK'
    BY <1>1, <1>3, MoveForm DEF Verbs, ValidFrom, LeadsTo
  <2>3. AsAsked(q, class'[n], info'[n], ports'[n])
    BY <1>1, <2>2 DEF OfRun, Fits
  <2>4. Advance(q, state[n], class[n], info[n], ports[n], state'[n], class'[n], info'[n], ports'[n])
    BY <2>2, <2>3 DEF Advance
  <2> QED BY <2>1, <2>2, <2>3, <2>4 DEF EnrollEffect
<1> QED BY <1>2, <1>3 DEF MakeAvailable, Transition, OfRun

LEMMA MetadataEffect ==
  ASSUME NEW w \in Workflows, NEW n \in Nodes, NEW q, OfRun(w, n, q), UpdateMetadata(w)
  PROVE  EnrollEffect(w, n, q)
<1>1. UNCHANGED ports /\ JobsTyped /\ job[w].pc = "metadata" /\ EnrollTypeOK /\ TypeOK
  BY DEF UpdateMetadata, OfRun, PoolInv, JobAt
<1>2. CASE End(w) /\ UNCHANGED <<info, ironicVars>>
  BY <1>1, <1>2, RunEnds
<1>3. ASSUME NEW pc, JobGoto(w, pc), UNCHANGED <<state, stamps>>,
             pc = IF DOMAIN job[w].todo = {} /\ job[w].state = "available" THEN "done" ELSE "ports",
             info' = IF q.info # Unset /\ q.info # job[w].node.info
                     THEN [info EXCEPT ![n] = q.info] ELSE info,
             class' = IF q.class # job[w].node.class THEN [class EXCEPT ![n] = q.class] ELSE class
      PROVE  EnrollEffect(w, n, q)
  <2>1. /\ job'[w].pc = pc /\ job'[w].state = job[w].state /\ job'[w].todo = job[w].todo
    <3>1. IsJob(job[w])
      BY <1>1, RunRecord
    <3> QED BY <1>1, <1>3, <3>1 DEF JobsTyped, IsJob, JobGoto
  <2>2. Fits(job[w], q, state[n], class[n], info[n], ports[n])
    BY DEF OfRun
  <2>3. /\ class'[n] = q.class
        /\ q.info # Unset => info'[n] = q.info
        /\ q.info = Unset => info'[n] = info[n]
    <3>1. /\ class[n] \in {job[w].node.class, q.class}
          /\ q.info # Unset => info[n] \in {job[w].node.info, q.info}
      BY <1>1, <2>2 DEF Fits
    <3>2. class'[n] = q.class
      BY <1>1, <1>3, <3>1 DEF TypeOK, IronicTypeOK
    <3>3. CASE q.info # Unset /\ q.info # job[w].node.info
      BY <1>1, <1>3, <3>2, <3>3 DEF EnrollTypeOK
    <3>4. CASE ~(q.info # Unset /\ q.info # job[w].node.info)
      BY <1>3, <3>1, <3>2, <3>4
    <3> QED BY <3>3, <3>4
  <2>4. EnrollTypeOK' /\ \A m \in Nodes \ {n} : info'[m] = info[m]
    BY <1>1, <1>3 DEF EnrollTypeOK, OfRun
  <2>5. Metadata(q, class'[n], info'[n])
    BY <2>3 DEF Metadata
  <2>6. Advance(q, state[n], class[n], info[n], ports[n], state'[n], class'[n], info'[n], ports'[n])
    BY <1>1, <1>3, <2>3 DEF Advance
  <2>7. PlanFits(job[w].todo, q, ports'[n])
    BY <1>1, <2>2 DEF Fits
  <2>8. DOMAIN job[w].todo = {} => AsAsked(q, class'[n], info'[n], ports'[n])
    BY <2>5, <2>7 DEF PlanFits, AsAsked, AllPorts
  <2>9. job[w].state # "available" /\ state[n] = "available" =>
          AsAsked(q, class'[n], info'[n], ports'[n])
    <3>1. DOMAIN q.ports \subseteq Labels
      BY DEF OfRun
    <3>2. AsAsked(q, class[n], info[n], ports[n]) => AsAsked(q, class'[n], info'[n], ports'[n])
      BY <2>6, <3>1, AskedStays
    <3> QED BY <1>1, <2>2, <3>2 DEF Fits, EnginePcs
  <2>10. job[w].state = "available" => DOMAIN job[w].todo = {}
    BY <1>1, <2>2 DEF Fits
  <2>11. state[n] \in EngineStates
    <3>1. job[w].pc \in EnginePcs => state[Node(w)] \in EngineStates
      BY DEF OfRun, PoolInv, EnrolledApart
    <3> QED BY <1>1, <3>1 DEF OfRun, EnginePcs
  <2>12. state'[n] \notin PoolStates \/ AsAsked(q, class'[n], info'[n], ports'[n])
    BY <1>3, <2>8, <2>9, <2>10, <2>11 DEF PoolStates, EngineStates
  <2>13. CASE pc = "done"
    BY <1>1, <1>3, <2>1, <2>4, <2>6, <2>8, <2>12, <2>13 DEF EnrollEffect
  <2>14. CASE pc = "ports" /\ job[w].state # "available"
    <3>1. Fits(job'[w], q, state'[n], class'[n], info'[n], ports'[n])
      BY <1>3, <2>1, <2>5, <2>7, <2>9, <2>14 DEF Fits
    <3> QED BY <1>1, <2>1, <2>4, <2>6, <2>12, <2>14, <3>1 DEF EnrollEffect
  <2> QED BY <1>3, <2>10, <2>13, <2>14
<1> QED BY <1>2, <1>3 DEF UpdateMetadata, OfRun

LEMMA LookupEffect ==
  ASSUME NEW w \in Workflows, NEW n \in Nodes, NEW q, OfRun(w, n, q), LookupFirewall(w)
  PROVE  EnrollEffect(w, n, q)
<1>1. UNCHANGED <<ironicVars, info, ports>> /\ EnrollTypeOK /\ JobsTyped
  BY DEF LookupFirewall, OfRun, PoolInv
<1>2. CASE End(w)
  BY <1>1, <1>2, RunEnds
<1>3. CASE JobGoto(w, "find")
  <2>1. job'[w].pc = "find"
    BY <1>1, <1>3, JobPc DEF JobGoto
  <2>2. Fits(job'[w], q, state[n], class[n], info[n], ports[n])
    BY <2>1 DEF Fits, EnginePcs
  <2> QED BY <1>1, <2>1, <2>2, NodeStays
<1>4. CASE /\ state[n] = "active" /\ class[n] = q.class
           /\ job' = [job EXCEPT ![w].pc = "drift", ![w].node = ReadNode(n)]
  <2>1. PICK r : r = ReadNode(n)
    OBVIOUS
  <2>2. job' = [job EXCEPT ![w].pc = "drift", ![w].node = r]
    BY <1>4, <2>1
  <2>3. job'[w].pc = "drift" /\ job'[w].node = r
    <3>1. IsJob(job[w])
      BY <1>1, RunRecord
    <3> QED BY <1>1, <2>2, <3>1 DEF JobsTyped, IsJob
  <2>4. r.info = info[n]
    BY <2>1, SMTT(30) DEF ReadNode
  <2>5. Fits(job'[w], q, state[n], class[n], info[n], ports[n])
    BY <1>4, <2>3, <2>4 DEF Fits, EnginePcs
  <2> QED BY <1>1, <2>3, <2>5, NodeStays
<1> QED BY <1>2, <1>3, <1>4 DEF LookupFirewall, OfRun

LEMMA DriftEffect ==
  ASSUME NEW w \in Workflows, NEW n \in Nodes, NEW q, OfRun(w, n, q), RejectDrift(w)
  PROVE  EnrollEffect(w, n, q)
<1>1. /\ UNCHANGED <<ironicVars, info, ports>> /\ EnrollTypeOK /\ JobsTyped
      /\ job[w].pc = "drift"
  BY DEF RejectDrift, OfRun, PoolInv, JobAt
<1>2. CASE End(w)
  BY <1>1, <1>2, RunEnds
<1>3. CASE Pending(n, q) = {} /\ JobGoto(w, "patch")
  <2>1. job'[w].pc = "patch" /\ job'[w].node = job[w].node
    <3>1. IsJob(job[w])
      BY <1>1, RunRecord
    <3> QED BY <1>1, <1>3, <3>1 DEF JobsTyped, IsJob, JobGoto
  <2>2. AllPorts(q, ports[n])
    <3>1. ASSUME NEW l \in DOMAIN q.ports
          PROVE  PortAsRequested(q.ports[l], ports[n][l])
      <4>1. q.ports[l] \in Wanted /\ ports[n][l] \in PortRecords \cup {NoPort}
        BY DEF OfRun, EnrollTypeOK
      <4>2. ports[n][l] = DesiredPort(q.ports[l], ports[n][l])
        <5>1. PICK e : e = PortPlan(n, q, l)
          OBVIOUS
        <5>2. e.old = e.new
          BY <1>3, <5>1 DEF Pending
        <5>3. e.old = ports[n][l] /\ e.new = DesiredPort(q.ports[l], ports[n][l])
          BY <5>1, SMTT(30) DEF PortPlan
        <5> QED BY <5>2, <5>3
      <4> QED BY <4>1, <4>2, ListedFits
    <3> QED BY <3>1 DEF AllPorts
  <2>3. Fits(job'[w], q, state[n], class[n], info[n], ports[n])
    BY <1>1, <2>1, <2>2 DEF Fits, EnginePcs, OfRun
  <2> QED BY <1>1, <2>1, <2>3, NodeStays
<1> QED BY <1>2, <1>3 DEF RejectDrift, OfRun

LEMMA FirewallEffect ==
  ASSUME NEW w \in Workflows, NEW n \in Nodes, NEW q, OfRun(w, n, q), PatchFirewall(w)
  PROVE  EnrollEffect(w, n, q)
<1>1. UNCHANGED <<ironicVars, ports>> /\ EnrollTypeOK /\ JobsTyped /\ job[w].pc = "patch"
  BY DEF PatchFirewall, OfRun, PoolInv, JobAt
<1>2. CASE End(w) /\ UNCHANGED info
  BY <1>1, <1>2, RunEnds
<1>3. CASE /\ info' = IF q.info # Unset /\ q.info # job[w].node.info
                      THEN [info EXCEPT ![n] = q.info] ELSE info
           /\ JobGoto(w, "done")
  <2>1. job'[w].pc = "done"
    BY <1>1, <1>3, JobPc DEF JobGoto
  <2>2. Fits(job[w], q, state[n], class[n], info[n], ports[n])
    BY DEF OfRun
  <2>3. /\ q.info # Unset => info'[n] = q.info
        /\ q.info = Unset => info'[n] = info[n]
    <3>1. CASE q.info # Unset /\ q.info # job[w].node.info
      BY <1>1, <1>3, <3>1 DEF EnrollTypeOK
    <3>2. CASE ~(q.info # Unset /\ q.info # job[w].node.info)
      BY <1>1, <1>3, <2>2, <3>2 DEF Fits
    <3> QED BY <3>1, <3>2
  <2>4. EnrollTypeOK' /\ \A m \in Nodes \ {n} : info'[m] = info[m]
    BY <1>1, <1>3 DEF EnrollTypeOK, OfRun
  <2>5. UNCHANGED <<state, class>>
    BY <1>1 DEF ironicVars
  <2>6. AsAsked(q, class'[n], info'[n], ports'[n])
    BY <1>1, <2>2, <2>3, <2>5 DEF Fits, AsAsked, Metadata
  <2>7. Advance(q, state[n], class[n], info[n], ports[n], state'[n], class'[n], info'[n], ports'[n])
    BY <1>1, <2>3, <2>5 DEF Advance
  <2> QED BY <1>1, <2>1, <2>4, <2>6, <2>7 DEF EnrollEffect
<1> QED BY <1>2, <1>3 DEF PatchFirewall, OfRun

\* One port of the plan is created or patched.
LEMMA PortEffect ==
  ASSUME NEW w \in Workflows, NEW n \in Nodes, NEW q, OfRun(w, n, q), job[w].pc = "ports",
         NEW l \in DOMAIN job[w].todo, NEW x \in PortRecords,
         PortAdvances(q.ports[l], ports[n][l], x),
         ports' = [ports EXCEPT ![n][l] = x],
         job' = [job EXCEPT ![w].todo = [k \in DOMAIN job[w].todo \ {l} |-> job[w].todo[k]]],
         UNCHANGED <<info, ironicVars>>
  PROVE  EnrollEffect(w, n, q)
<1>1. /\ EnrollTypeOK /\ JobsTyped /\ DOMAIN q.ports \subseteq Labels
      /\ Fits(job[w], q, state[n], class[n], info[n], ports[n]) /\ UNCHANGED <<state, class>>
  BY DEF OfRun, PoolInv, ironicVars
<1>2. /\ PlanFits(job[w].todo, q, ports[n]) /\ Metadata(q, class[n], info[n])
      /\ job[w].state # "available"
      /\ state[n] = "available" => AsAsked(q, class[n], info[n], ports[n])
  BY <1>1 DEF Fits, EnginePcs
<1>3. l \in DOMAIN q.ports /\ l \in Labels
  BY <1>1, <1>2 DEF PlanFits
<1>4. /\ ports' \in [Nodes -> [Labels -> PortRecords \cup {NoPort}]]
      /\ ports'[n][l] = x /\ \A k \in Labels \ {l} : ports'[n][k] = ports[n][k]
      /\ \A m \in Nodes \ {n} : ports'[m] = ports[m]
  BY <1>1, <1>3 DEF EnrollTypeOK
<1>5. PICK todo : todo = [k \in DOMAIN job[w].todo \ {l} |-> job[w].todo[k]]
  OBVIOUS
<1>6. /\ job'[w].pc = "ports" /\ job'[w].state = job[w].state /\ job'[w].todo = todo
  <2>1. IsJob(job[w])
    BY <1>1, RunRecord
  <2>2. job' = [job EXCEPT ![w].todo = todo]
    BY <1>5
  <2> QED BY <1>1, <2>1, <2>2 DEF JobsTyped, IsJob
<1>7. PlanFits(todo, q, ports'[n])
  <2>1. DOMAIN todo = DOMAIN job[w].todo \ {l}
    BY <1>5
  <2>2. \A k \in DOMAIN todo : todo[k] = job[w].todo[k]
    BY <1>5
  <2>3. ASSUME NEW k \in DOMAIN q.ports
        PROVE  IF k \in DOMAIN todo
               THEN /\ todo[k].old \in PortRecords \cup {NoPort}
                    /\ todo[k].new = DesiredPort(q.ports[k], todo[k].old)
                    /\ Between(q.ports[k], todo[k].old, ports'[n][k])
               ELSE PortAsRequested(q.ports[k], ports'[n][k])
    <3>1. CASE k = l
      <4>1. k \notin DOMAIN todo /\ ports'[n][k] = x
        BY <1>4, <2>1, <3>1
      <4> QED BY <3>1, <4>1 DEF PortAdvances
    <3>2. CASE k # l
      <4>1. ports'[n][k] = ports[n][k] /\ (k \in DOMAIN todo <=> k \in DOMAIN job[w].todo)
        BY <1>1, <1>4, <2>1, <3>2
      <4> QED BY <1>2, <2>2, <4>1 DEF PlanFits
    <3> QED BY <3>1, <3>2
  <2> QED BY <1>2, <2>1, <2>3 DEF PlanFits
<1>8. Advance(q, state[n], class[n], info[n], ports[n], state'[n], class'[n], info'[n], ports'[n])
  BY <1>1, <1>3, <1>4 DEF Advance
<1>9. state[n] = "available" => AsAsked(q, class'[n], info'[n], ports'[n])
  <2>1. AsAsked(q, class[n], info[n], ports[n]) => AsAsked(q, class'[n], info'[n], ports'[n])
    BY <1>1, <1>8, AskedStays, SMTT(30)
  <2> QED BY <1>2, <2>1
<1>10. Fits(job'[w], q, state'[n], class'[n], info'[n], ports'[n])
  BY <1>1, <1>2, <1>6, <1>7, <1>9 DEF Fits
<1>11. state[n] \in EngineStates
  <2>1. job[w].pc \in EnginePcs => state[Node(w)] \in EngineStates
    BY DEF OfRun, PoolInv, EnrolledApart
  <2> QED BY <2>1 DEF OfRun, EnginePcs
<1>12. EnrollTypeOK' /\ (state'[n] \notin PoolStates \/ AsAsked(q, class'[n], info'[n], ports'[n]))
  BY <1>1, <1>4, <1>9, <1>11 DEF EnrollTypeOK, EngineStates, PoolStates
<1> QED BY <1>4, <1>6, <1>8, <1>10, <1>12 DEF EnrollEffect

LEMMA ApplyEffect ==
  ASSUME NEW w \in Workflows, NEW n \in Nodes, NEW q, OfRun(w, n, q), ApplyPortPlan(w)
  PROVE  EnrollEffect(w, n, q)
<1>1. /\ UNCHANGED <<info, ironicVars>> /\ EnrollTypeOK /\ JobsTyped /\ job[w].pc = "ports"
      /\ Fits(job[w], q, state[n], class[n], info[n], ports[n])
      /\ \A l \in DOMAIN q.ports : l \in Labels /\ q.ports[l] \in Wanted
  BY DEF ApplyPortPlan, OfRun, PoolInv, JobAt
<1>2. /\ PlanFits(job[w].todo, q, ports[n]) /\ Metadata(q, class[n], info[n])
      /\ job[w].state # "available"
  BY <1>1 DEF Fits
<1>3. CASE End(w) /\ UNCHANGED ports
  BY <1>1, <1>3, RunEnds
<1>4. ASSUME NEW l \in DOMAIN job[w].todo, NEW old, old = job[w].todo[l].old,
             NEW new, new = job[w].todo[l].new,
             IF old = NoPort THEN CreateAllowed(n, l, new) ELSE ChangeAllowed(n, l, new),
             ports' = [ports EXCEPT ![n][l] =
               IF old = NoPort THEN new ELSE Patched(ports[n][l], old, new)],
             job' = [job EXCEPT ![w].todo = [k \in DOMAIN job[w].todo \ {l} |-> job[w].todo[k]]]
      PROVE  EnrollEffect(w, n, q)
  <2>1. PICK p : p = q.ports[l]
    OBVIOUS
  <2>2. /\ l \in DOMAIN q.ports /\ p \in Wanted /\ l \in Labels
        /\ old \in PortRecords \cup {NoPort} /\ new = DesiredPort(p, old)
        /\ Between(p, old, ports[n][l])
    BY <1>1, <1>2, <1>4, <2>1 DEF PlanFits
  <2>3. PICK x : x = IF old = NoPort THEN new ELSE Patched(ports[n][l], old, new)
    OBVIOUS
  <2>4. x \in PortRecords /\ PortAdvances(p, ports[n][l], x)
    <3>1. CASE old = NoPort
      <4>1. ports[n][l] = NoPort
        BY <1>4, <3>1 DEF CreateAllowed
      <4> QED BY <2>2, <2>3, <3>1, <4>1, DesiredFits DEF PortAdvances
    <3>2. CASE old # NoPort
      <4>1. PICK cur : cur = ports[n][l]
        OBVIOUS
      <4>2. cur \in PortRecords /\ old \in PortRecords
        <5>1. ports[n][l] # NoPort
          BY <1>4, <3>2 DEF ChangeAllowed
        <5>2. ports[n][l] \in PortRecords \cup {NoPort}
          BY <1>1, <2>2 DEF EnrollTypeOK
        <5> QED BY <2>2, <3>2, <4>1, <5>1, <5>2
      <4>3. x = Patched(cur, old, DesiredPort(p, old)) /\ Between(p, old, cur)
        BY <2>2, <2>3, <3>2, <4>1
      <4>4. /\ x \in PortRecords /\ PortAsRequested(p, x)
            /\ p.sid = Unset => x.llc[1] = cur.llc[1]
        BY <2>2, <4>2, <4>3, PatchFits
      <4> QED BY <4>1, <4>4 DEF PortAdvances
    <3> QED BY <3>1, <3>2
  <2>5. ports' = [ports EXCEPT ![n][l] = x]
    BY <1>4, <2>3
  <2> QED BY <1>1, <1>4, <2>1, <2>4, <2>5, PortEffect
<1>5. ASSUME DOMAIN job[w].todo = {}, NEW pc \in {"manage", "provide"}, JobGoto(w, pc),
             UNCHANGED ports
      PROVE  EnrollEffect(w, n, q)
  <2>1. job'[w].pc = pc
    BY <1>1, <1>5, JobPc DEF JobGoto
  <2>2. AsAsked(q, class[n], info[n], ports[n])
    BY <1>2, <1>5 DEF PlanFits, AsAsked, AllPorts
  <2>3. Fits(job'[w], q, state[n], class[n], info[n], ports[n])
    BY <1>5, <2>1, <2>2 DEF Fits
  <2> QED BY <1>1, <1>5, <2>1, <2>2, <2>3, NodeStays
<1> QED BY <1>2, <1>3, <1>4, <1>5 DEF ApplyPortPlan, OfRun

-----------------------------------------------------------------------------
\* A run that is under way, ready for the lemmas above.
LEMMA RunReady ==
  ASSUME EnrollInv, NEW w \in Workflows, Enrolling(w)
  PROVE  /\ Node(w) \in Nodes /\ OfRun(w, Node(w), Ask(w))
         /\ job[w].req \in RequestsFor(Node(w)) /\ Ask(w) = Asks[job[w].req]
<1>1. PoolInv /\ Node(w) \in Nodes /\ job[w].req \in scope.requests
  BY NodeOfRun DEF EnrollInv
<1>2. job[w].req \in Requests
  BY <1>1, ScopeAssumption DEF PoolInv, Placed
<1>3. Ask(w) = Asks[job[w].req] /\ Node(w) = Ask(w).node
  BY DEF Ask, Node
<1>4. DOMAIN Ask(w).ports \subseteq Labels
  BY <1>2, <1>3, EnrollAssumption
<1>5. /\ Ask(w).info \in {Asks[k].info : k \in Requests}
      /\ \A l \in DOMAIN Ask(w).ports : Ask(w).ports[l] \in Wanted
  <2>1. PICK k \in Requests : Ask(w) = Asks[k]
    BY <1>2, <1>3
  <2>2. ASSUME NEW l \in DOMAIN Asks[k].ports  PROVE Asks[k].ports[l] \in Wanted
    BY SMTT(30) DEF Wanted
  <2> QED BY <2>1, <2>2
<1>6. Fits(job[w], Ask(w), state[Node(w)], class[Node(w)], info[Node(w)], ports[Node(w)])
  BY DEF EnrollInv, RunsFit
<1> QED BY <1>1, <1>3, <1>4, <1>5, <1>6 DEF OfRun, EnrollInv, RequestsFor

LEMMA StepEffect ==
  ASSUME EnrollInv, NEW w \in Workflows, EnrollStep(w)
  PROVE  Enrolling(w) /\ EnrollFrame(w) /\ EnrollEffect(w, Node(w), Ask(w))
<1>1. Enrolling(w) /\ EnrollFrame(w)
  BY EnrollSteps DEF EnrollInv, EnrollStep, FindNode, CreateNode, PlanPorts, StepDown,
     UpdateMetadata, ApplyPortPlan, MakeManageable, MakeAvailable, LookupFirewall, RejectDrift,
     PatchFirewall, CrashEnroll, JobAt, Enrolling
<1>2. Node(w) \in Nodes /\ OfRun(w, Node(w), Ask(w))
  BY <1>1, RunReady
<1>3. CASE CrashEnroll(w)
  <2>1. End(w) /\ UNCHANGED <<ironicVars, info, ports>>
    BY <1>3 DEF CrashEnroll
  <2>2. PICK n, q : n \in Nodes /\ n = Node(w) /\ q = Ask(w)
    BY <1>2
  <2>3. OfRun(w, n, q)
    BY <1>2, <2>2
  <2>4. EnrollEffect(w, n, q)
    BY <2>1, <2>2, <2>3, RunEnds
  <2> QED BY <1>1, <2>2, <2>4
<1> QED BY <1>1, <1>2, <1>3, FindEffect, CreateEffect, PlanEffect, StepDownEffect, MetadataEffect,
    ApplyEffect, MakeManageableEffect, MakeAvailableEffect, LookupEffect, DriftEffect, FirewallEffect
    DEF EnrollStep

\* The step of a run disturbs neither the other runs nor what is in the pool.
LEMMA EnrollStepKeeps ==
  ASSUME EnrollInv, NEW w \in Workflows, EnrollStep(w),
         UNCHANGED <<live, faults, proc, anchors, scope>>
  PROVE  EnrollInv'
<1>1. Enrolling(w) /\ EnrollFrame(w)
  BY StepEffect
<1>2. PICK n, q : n \in Nodes /\ n = Node(w) /\ q = Ask(w)
  BY <1>1, RunReady
<1>3. EnrollEffect(w, n, q)
  BY <1>2, StepEffect
<1>4. /\ OfRun(w, n, q) /\ job[w].req \in RequestsFor(n) /\ q = Asks[job[w].req]
      /\ DOMAIN q.ports \subseteq Labels
  BY <1>1, <1>2, RunReady DEF OfRun
<1>5. PoolInv /\ PoolInv' /\ EnrollTypeOK'
  BY <1>1, <1>3, EnrollFrameKeeps DEF EnrollInv, EnrollEffect
<1>6. \A v \in Workflows \ {w} : job'[v] = job[v]
  BY <1>1 DEF EnrollFrame, JobStep
<1>7. \A m \in Nodes \ {n} : /\ state'[m] = state[m] /\ class'[m] = class[m]
                             /\ info'[m] = info[m] /\ ports'[m] = ports[m]
  BY <1>1, <1>2, <1>3 DEF EnrollFrame, EnrollEffect
<1>8. ASSUME NEW v \in Workflows, Enrolling(v)'
      PROVE  Enrolling(v) /\ job'[v].req = job[v].req /\ Node(v)' = Node(v) /\ Ask(v)' = Ask(v)
  <2>1. Enrolling(v) /\ job'[v].req = job[v].req
    <3>1. CASE v = w
      BY <1>1, <1>8, <3>1 DEF EnrollFrame, Enrolling
    <3>2. CASE v # w
      BY <1>6, <1>8, <3>2 DEF Enrolling
    <3> QED BY <3>1, <3>2
  <2> QED BY <2>1 DEF Node, Ask
<1>9. OneRequest'
  <2> SUFFICES ASSUME NEW u \in Workflows, NEW v \in Workflows, Enrolling(u)', Enrolling(v)',
                      Node(u)' = Node(v)'
               PROVE  job'[u].req = job'[v].req
    BY DEF OneRequest
  <2>1. /\ Enrolling(u) /\ job'[u].req = job[u].req /\ Node(u)' = Node(u)
        /\ Enrolling(v) /\ job'[v].req = job[v].req /\ Node(v)' = Node(v)
    BY <1>8
  <2>2. job[u].req = job[v].req
    BY <2>1 DEF EnrollInv, OneRequest
  <2> QED BY <2>1, <2>2
<1>10. RunsFit'
  <2> SUFFICES ASSUME NEW v \in Workflows, Enrolling(v)'
               PROVE  Fits(job'[v], Ask(v), state'[Node(v)], class'[Node(v)], info'[Node(v)],
                           ports'[Node(v)])
    BY <1>8 DEF RunsFit
  <2>1. Enrolling(v) /\ job'[v].req = job[v].req
    BY <1>8
  <2>2. CASE v = w
    BY <1>2, <1>3, <2>2 DEF EnrollEffect, Enrolling
  <2>3. CASE v # w /\ Node(v) = n
    <3>1. job'[v] = job[v] /\ Ask(v) = q
      BY <1>1, <1>2, <1>6, <2>1, <2>3 DEF EnrollInv, OneRequest, Ask
    <3>2. Fits(job[v], q, state[n], class[n], info[n], ports[n])
      BY <2>1, <2>3, <3>1 DEF EnrollInv, RunsFit
    <3>3. Advance(q, state[n], class[n], info[n], ports[n],
                  state'[n], class'[n], info'[n], ports'[n])
      BY <1>3 DEF EnrollEffect
    <3>4. Fits(job[v], q, state'[n], class'[n], info'[n], ports'[n])
      BY <1>4, <3>2, <3>3, FitsStays, SMTT(30)
    <3> QED BY <2>3, <3>1, <3>4
  <2>4. CASE v # w /\ Node(v) # n
    <3>1. Node(v) \in Nodes /\ job'[v] = job[v]
      BY <1>6, <2>1, <2>4, RunReady
    <3>2. Fits(job[v], Ask(v), state[Node(v)], class[Node(v)], info[Node(v)], ports[Node(v)])
      BY <2>1 DEF EnrollInv, RunsFit
    <3> QED BY <1>7, <2>4, <3>1, <3>2
  <2> QED BY <2>2, <2>3, <2>4
<1>11. PoolDescribed'
  <2> SUFFICES ASSUME NEW m \in scope.absent, Held(m)'
               PROVE  \E i \in RequestsFor(m) : Described(m, Asks[i])'
    BY DEF PoolDescribed, RequestsFor
  <2>0. m \in Nodes
    BY <1>5, ScopeAssumption DEF PoolInv, Placed
  <2>1. CASE m # n
    <3>1. PICK i \in RequestsFor(m) : Described(m, Asks[i])
      BY <1>7, <2>0, <2>1 DEF EnrollInv, PoolDescribed, Held
    <3>2. Described(m, Asks[i])'
      BY <1>7, <2>0, <2>1, <3>1 DEF Described
    <3> QED BY <3>2
  <2>2. CASE m = n
    <3>1. state'[n] \in PoolStates
      BY <1>1, <1>2, <1>5, <2>2 DEF Held, PoolInv, EnrolledApart
    <3>2. CASE UNCHANGED <<state, class, info, ports>>
      <4>1. PICK i \in RequestsFor(m) : Described(m, Asks[i])
        BY <2>2, <3>1, <3>2 DEF EnrollInv, PoolDescribed, Held
      <4>2. Described(m, Asks[i])'
        BY <3>2, <4>1 DEF Described
      <4> QED BY <4>2
    <3>3. CASE AsAsked(q, class'[n], info'[n], ports'[n])
      <4>1. PICK k \in RequestsFor(n) : q = Asks[k]
        BY <1>4
      <4>2. Described(m, Asks[k])'
        BY <2>2, <3>3, <4>1 DEF Described, AsAsked, Metadata, AllPorts
      <4> QED BY <2>2, <4>1, <4>2
    <3> QED BY <1>3, <3>1, <3>2, <3>3 DEF EnrollEffect
  <2> QED BY <2>1, <2>2
<1> QED BY <1>5, <1>9, <1>10, <1>11 DEF EnrollInv

\* An enrolment starts: of the request of the other runs on its node.
LEMMA EnrollStartKeeps ==
  ASSUME Exclusive, EnrollInv, NEW w \in Workflows, NEW i \in Requests, MayEnroll(w, i),
         StartEnroll(w, i), UNCHANGED <<live, faults, proc, anchors, scope>>
  PROVE  EnrollInv'
<1>1. UNCHANGED <<state, class, info, ports>>
  BY DEF StartEnroll, ironicVars
<1>2. JobStep(w) /\ job'[w].req = i /\ job'[w].pc \in {"lookup", "find"}
  <2>1. PICK j : /\ j = [IdleJob EXCEPT !.req = i, !.pc = IF Asks[i].fw THEN "lookup" ELSE "find"]
                 /\ job' = [job EXCEPT ![w] = j]
    BY DEF StartEnroll
  <2>2. IsJob(j) /\ j.req = i /\ j.pc \in {"lookup", "find"}
    BY <2>1 DEF IsJob, IdleJob
  <2> QED BY <2>1, <2>2, JobForm DEF EnrollInv, PoolInv
<1>3. PoolInv' /\ EnrollTypeOK'
  BY <1>1, StartKeeps DEF EnrollInv, EnrollTypeOK
<1>4. ASSUME NEW v \in Workflows, v # w
      PROVE  /\ job'[v] = job[v] /\ (Enrolling(v)' <=> Enrolling(v))
             /\ Node(v)' = Node(v) /\ Ask(v)' = Ask(v)
  BY <1>2, <1>4 DEF JobStep, Enrolling, Node, Ask
<1>5. ASSUME NEW v \in Workflows, v # w, Enrolling(v)', Node(v)' = Node(w)'
      PROVE  job'[v].req = i
  <2>1. Enrolling(v) /\ Node(v) = Asks[i].node
    BY <1>2, <1>4, <1>5 DEF Node, Ask
  <2> QED BY <1>4, <1>5, <2>1 DEF MayEnroll
<1>6. OneRequest'
  <2> SUFFICES ASSUME NEW u \in Workflows, NEW v \in Workflows, Enrolling(u)', Enrolling(v)',
                      Node(u)' = Node(v)'
               PROVE  job'[u].req = job'[v].req
    BY DEF OneRequest
  <2>1. CASE u = w \/ v = w
    BY <1>2, <1>5, <2>1
  <2>2. CASE u # w /\ v # w
    <3>1. /\ Enrolling(u) /\ Enrolling(v) /\ Node(u) = Node(v)
          /\ job'[u] = job[u] /\ job'[v] = job[v]
      BY <1>4, <2>2
    <3> QED BY <3>1 DEF EnrollInv, OneRequest
  <2> QED BY <2>1, <2>2
<1>7. RunsFit'
  <2> SUFFICES ASSUME NEW v \in Workflows, Enrolling(v)'
               PROVE  Fits(job'[v], Ask(v)', state[Node(v)'], class[Node(v)'], info[Node(v)'],
                           ports[Node(v)'])
    BY <1>1 DEF RunsFit
  <2>1. CASE v = w
    BY <1>2, <2>1 DEF Fits, EnginePcs
  <2>2. CASE v # w
    BY <1>4, <2>2 DEF EnrollInv, RunsFit
  <2> QED BY <2>1, <2>2
<1>8. PoolDescribed'
  <2>1. \A n, q : Described(n, q)' <=> Described(n, q)
    BY <1>1 DEF Described
  <2>2. \A n : (Held(n)' <=> Held(n)) /\ RequestsFor(n)' = RequestsFor(n)
    BY <1>1 DEF Held, RequestsFor
  <2> QED BY <2>1, <2>2 DEF EnrollInv, PoolDescribed
<1> QED BY <1>3, <1>6, <1>7, <1>8 DEF EnrollInv

\* Routers take described nodes, and move no node that is being enrolled.
RouteFrame ==
  /\ UNCHANGED <<class, enrollVars, scope>>
  /\ \A n \in Nodes : /\ Held(n)' => Held(n)
                      /\ \/ state'[n] = state[n] \/ state[n] \in Transitional
                         \/ \E r \in Routers : proc[r].node = n

LEMMA RouteFrameKeeps ==
  ASSUME EnrollInv, RouteFrame, PoolInv'
  PROVE  EnrollInv'
<1>1. UNCHANGED <<class, job, info, ports, scope>>
  BY DEF RouteFrame, enrollVars
<1>2. EnrollTypeOK' /\ OneRequest'
  BY <1>1 DEF EnrollInv, EnrollTypeOK, OneRequest, Enrolling, Node, Ask
<1>3. RunsFit'
  <2> SUFFICES ASSUME NEW w \in Workflows, Enrolling(w)
               PROVE  Fits(job[w], Ask(w), state'[Node(w)], class[Node(w)], info[Node(w)],
                           ports[Node(w)])
    BY <1>1 DEF RunsFit, Enrolling, Node, Ask
  <2>1. Node(w) \in Nodes /\ \A r \in Routers : proc[r].node # Node(w)
    BY RunReady DEF EnrollInv, PoolInv, EnrolledApart
  <2>2. Fits(job[w], Ask(w), state[Node(w)], class[Node(w)], info[Node(w)], ports[Node(w)])
    BY DEF EnrollInv, RunsFit
  <2>3. CASE state'[Node(w)] = state[Node(w)]
    BY <2>2, <2>3
  <2>4. CASE state[Node(w)] \in Transitional
    <3>1. job[w].pc \notin EnginePcs
      BY <2>4 DEF EnrollInv, PoolInv, EnrolledApart, EngineStates, Transitional
    <3>2. job[w].pc \notin {"drift", "patch"}
      BY <2>2, <2>4 DEF Fits, Transitional
    <3> QED BY <3>1, <3>2 DEF Fits, EnginePcs
  <2> QED BY <2>1, <2>3, <2>4 DEF RouteFrame
<1>4. PoolDescribed'
  <2> SUFFICES ASSUME NEW n \in scope.absent, Held(n)'
               PROVE  \E i \in RequestsFor(n) : Described(n, Asks[i])'
    BY <1>1 DEF PoolDescribed, RequestsFor
  <2>1. n \in Nodes
    BY ScopeAssumption DEF EnrollInv, PoolInv, Placed
  <2>2. PICK i \in RequestsFor(n) : Described(n, Asks[i])
    BY <2>1 DEF RouteFrame, EnrollInv, PoolDescribed
  <2>3. Described(n, Asks[i])'
    BY <1>1, <2>2 DEF Described
  <2> QED BY <2>3
<1> QED BY <1>2, <1>3, <1>4 DEF EnrollInv

\* A step of a request on its node n.
LEMMA WorkFrame ==
  ASSUME PoolInv, NEW r \in Routers, NEW n \in Nodes, proc[r].node = n, WorkStep(r, n)
  PROVE  RouteFrame
<1>1. /\ UNCHANGED <<class, enrollVars, scope>>
      /\ \A m \in Nodes \ {n} : state'[m] = state[m]
      /\ \A p \in Routers : proc'[p].node = proc[p].node \/ proc'[p].node = NoNode
  BY Idles DEF WorkStep, OnlyNode, Moves
<1>2. ASSUME NEW m \in Nodes, Held(m)'  PROVE Held(m)
  BY <1>1, <1>2, AdoptionAssumption DEF Held
<1> QED BY <1>1, <1>2 DEF RouteFrame

LEMMA QuietFrame ==
  ASSUME PoolInv, UNCHANGED <<state, class, enrollVars, scope>>,
         \A r \in Routers : \/ proc'[r].node \in {proc[r].node, NoNode}
                            \/ state[proc'[r].node] \in PoolStates
  PROVE  RouteFrame
<1>1. ASSUME NEW n \in Nodes, Held(n)'  PROVE Held(n)
  BY <1>1, AdoptionAssumption DEF Held
<1> QED BY <1>1 DEF RouteFrame

LEMMA StaysOrLeaves ==
  ASSUME TypeOK, NEW r \in Routers, Finish(r) \/ \E pc : Goto(r, pc)
  PROVE  \A p \in Routers : proc'[p].node \in {proc[p].node, NoNode}
<1>1. CASE Finish(r)
  BY <1>1, Idles DEF TypeOK, Finish
<1>2. ASSUME NEW pc, Goto(r, pc)  PROVE \A p \in Routers : proc'[p].node = proc[p].node
  BY <1>2 DEF TypeOK, Goto
<1> QED BY <1>1, <1>2

LEMMA WorkFrames ==
  ASSUME PoolInv, NEW r \in Routers, Work(r), UNCHANGED <<enrollVars, scope>>
  PROVE  RouteFrame
<1>1. TypeOK
  BY DEF PoolInv
<1>2. ASSUME UNCHANGED ironicVars \/ \E x : SetOwner(proc[r].node, x),
             Finish(r) \/ \E pc : Goto(r, pc)
      PROVE  RouteFrame
  <2>1. UNCHANGED <<state, class>>
    BY <1>2 DEF ironicVars, SetOwner
  <2>2. \A p \in Routers : proc'[p].node \in {proc[p].node, NoNode}
    BY <1>1, <1>2, StaysOrLeaves
  <2> QED BY <2>1, <2>2, QuietFrame
<1>3. CASE FindAnchor(r) \/ CreateAnchor(r) \/ WaitActive(r) \/ CommitRouter(r) \/ UndeployWait(r)
  <2>1. UNCHANGED ironicVars /\ (Finish(r) \/ \E pc : Goto(r, pc))
    BY <1>3 DEF FindAnchor, CreateAnchor, WaitActive, CommitRouter, UndeployWait
  <2> QED BY <1>2, <2>1
<1>4. CASE Reread(r)
  <2>1. UNCHANGED ironicVars /\ (Finish(r) \/ \E pc : Goto(r, pc))
    BY <1>4 DEF Reread
  <2> QED BY <1>2, <2>1
<1>5. CASE Stamp(r) \/ Clear(r)
  <2>1. /\ UNCHANGED ironicVars \/ \E x : SetOwner(proc[r].node, x)
        /\ Finish(r) \/ \E pc : Goto(r, pc)
    BY <1>5 DEF Stamp, Clear
  <2> QED BY <1>2, <2>1
<1>6. CASE Manage(r) \/ Adopt(r) \/ Undeploy(r) \/ Provide(r)
  <2>1. PICK n \in Nodes : proc[r].node = n
    BY <1>6, OnNode DEF Manage, Adopt, Undeploy, Provide, At
  <2>2. UNCHANGED ironicVars \/ \E verb \in Verbs : SetProvisionState(n, verb)
    BY <1>6, <2>1 DEF Manage, Adopt, Undeploy, Provide, Provision, Verbs
  <2>3. Finish(r) \/ \E pc \in CreatePcs \cup ReturnPcs : Goto(r, pc)
    BY <1>6 DEF Manage, Adopt, Undeploy, Provide, Provision, CreatePcs, ReturnPcs
  <2>4. UNCHANGED <<live, faults, enrollVars, scope>> /\ anchors' \in Nat
    BY <1>1, <1>6 DEF Manage, Adopt, Undeploy, Provide, TypeOK
  <2>5. WorkStep(r, n)
    BY <1>1, <2>1, <2>2, <2>3, <2>4, StepForm
  <2> QED BY <2>1, <2>5, WorkFrame
<1>7. CASE Lookup(r)
  <2>1. CASE UNCHANGED ironicVars /\ Finish(r)
    BY <1>2, <2>1
  <2>2. ASSUME NEW n \in NodeOfRouter(r), UNCHANGED ironicVars,
               proc' = [proc EXCEPT ![r] = [pc |-> "reread", node |-> n]]
        PROVE  RouteFrame
    <3>1. state[n] = "active"
      <4>1. At(r, "lookup") /\ n \in Nodes /\ inst[n] = r
        BY <1>7, <2>2 DEF Lookup, NodeOfRouter
      <4>2. PICK m \in Nodes : OwnedBy(r, m)
        BY <4>1 DEF PoolInv, Owners
      <4> QED BY <4>1, <4>2 DEF OwnedBy, Stamped
    <3>2. \A p \in Routers : proc'[p].node = proc[p].node \/ proc'[p].node = n
      BY <1>1, <2>2, SMTT(30) DEF TypeOK
    <3>3. UNCHANGED <<state, class>>
      BY <2>2 DEF ironicVars
    <3> QED BY <3>1, <3>2, <3>3, QuietFrame DEF PoolStates
  <2> QED BY <1>7, <2>1, <2>2 DEF Lookup
<1> QED BY <1>3, <1>4, <1>5, <1>6, <1>7 DEF Work

LEMMA RouteFrames ==
  ASSUME PoolInv, Route
  PROVE  RouteFrame
<1>1. TypeOK /\ UNCHANGED <<enrollVars, scope>>
  BY DEF PoolInv, Route
<1>2. ASSUME NEW r \in Routers, SelectNode(r)  PROVE RouteFrame
  <2>1. PICK n \in Nodes : /\ state[n] = "available"
                           /\ proc' = [proc EXCEPT ![r] = [pc |-> "anchor", node |-> n]]
    BY <1>2 DEF SelectNode, AvailableNodes
  <2>2. \A p \in Routers : proc'[p].node = proc[p].node \/ proc'[p].node = n
    BY <1>1, <2>1, SMTT(30) DEF TypeOK
  <2>3. UNCHANGED <<state, class>>
    BY <1>2 DEF SelectNode, ironicVars
  <2> QED BY <1>1, <2>1, <2>2, <2>3, QuietFrame DEF PoolStates
<1>3. ASSUME NEW r \in Routers, DeleteRouter(r) \/ Crash(r)  PROVE RouteFrame
  <2>1. UNCHANGED <<state, class>> /\ \A p \in Routers : proc'[p].node \in {proc[p].node, NoNode}
    BY <1>1, <1>3, StaysOrLeaves DEF DeleteRouter, Crash, ironicVars
  <2> QED BY <1>1, <2>1, QuietFrame
<1>4. ASSUME NEW r \in Routers, RefuseCreate(r)  PROVE RouteFrame
  <2>1. UNCHANGED <<state, class>> /\ \A p \in Routers : proc'[p].node \in {proc[p].node, NoNode}
    BY <1>4 DEF RefuseCreate, vars, ironicVars
  <2> QED BY <1>1, <2>1, QuietFrame
<1>5. ASSUME NEW n \in Nodes, Ironic(n)  PROVE RouteFrame
  <2>1. /\ UNCHANGED <<proc, class>> /\ state[n] \in Transitional
        /\ \A m \in Nodes \ {n} : state'[m] = state[m]
    BY <1>1, <1>5 DEF Ironic, FinishAdopt, FinishUndeploy, Transitional, TypeOK, IronicTypeOK
  <2>2. Held(n)
    BY <2>1 DEF Held, PoolStates, Transitional
  <2>3. ASSUME NEW m \in Nodes, Held(m)'  PROVE Held(m)
    BY <2>1, <2>2, <2>3 DEF Held
  <2> QED BY <1>1, <2>1, <2>3 DEF RouteFrame
<1> QED BY <1>1, <1>2, <1>3, <1>4, <1>5, WorkFrames DEF Route

-----------------------------------------------------------------------------
LEMMA EnrollInitial ==
  ASSUME PoolInit
  PROVE  EnrollInv
<1>1. PoolInv
  BY PoolInitial
<1>2. EnrollTypeOK
  BY DEF PoolInit, EnrollInit, EnrollTypeOK
<1>3. \A w \in Workflows : ~Enrolling(w)
  BY DEF PoolInit, EnrollInit, Enrolling, IdleJob
<1>4. PoolDescribed
  <2> SUFFICES ASSUME NEW n \in scope.absent  PROVE ~Held(n)
    BY DEF PoolDescribed
  <2>1. n \in Nodes /\ n # NoNode
    BY <1>1, ScopeAssumption, AdoptionAssumption DEF PoolInv, Placed
  <2> QED BY <2>1, Idles DEF PoolInit, Held, PoolStates
<1> QED BY <1>1, <1>2, <1>3, <1>4 DEF EnrollInv, OneRequest, RunsFit

LEMMA EnrollInductive ==
  ASSUME Exclusive, EnrollInv, [PoolNext]_poolVars
  PROVE  EnrollInv'
<1>1. PoolInv /\ PoolInv'
  BY PoolInductive DEF EnrollInv
<1>2. CASE UNCHANGED <<vars, enrollVars, scope>>
  <2>1. UNCHANGED <<state, class, proc, enrollVars, scope>>
    BY <1>2 DEF vars, ironicVars
  <2>2. \A r \in Routers : proc'[r].node \in {proc[r].node, NoNode}
    BY <2>1
  <2>3. RouteFrame
    BY <1>1, <2>1, <2>2, QuietFrame
  <2> QED BY <1>1, <2>3, RouteFrameKeeps
<1>3. CASE UNCHANGED poolVars
  BY <1>2, <1>3 DEF poolVars
<1>4. CASE Serve
  BY <1>2, <1>4 DEF Serve
<1>5. CASE Enroll
  BY <1>5, EnrollStepKeeps, EnrollStartKeeps DEF Enroll
<1>6. CASE Route
  BY <1>1, <1>6, RouteFrames, RouteFrameKeeps
<1> QED BY <1>3, <1>4, <1>5, <1>6 DEF PoolNext

LEMMA EnrollInvariant ==
  ASSUME Exclusive
  PROVE  PoolSpec => []EnrollInv
<1>1. PoolInit => EnrollInv
  BY EnrollInitial
<1>2. EnrollInv /\ [PoolNext]_poolVars => EnrollInv'
  BY EnrollInductive
<1> QED BY <1>1, <1>2, PTL DEF PoolSpec

\* netdev_reconciler.enroll steps a node down before it changes its ports, and
\* make_available comes last: while enrolments and router requests keep apart, a
\* node that came by an enrolment is in the pool only as a request describes it,
\* whichever runs failed, died or overlapped.
THEOREM EnrolledAreDescribed ==
  ASSUME Exclusive
  PROVE  PoolSpec => []AvailableIsDescribed
<1>1. EnrollInv => AvailableIsDescribed
  BY DEF EnrollInv, PoolDescribed, Held, PoolStates, AvailableIsDescribed
<1> QED BY <1>1, EnrollInvariant, PTL

\* enroll and _update_active_firewall: under the same promise, a run that
\* succeeds leaves its node as its request describes it, however old the
\* listing is that it planned from.
THEOREM PromiseKept ==
  ASSUME Exclusive
  PROVE  PoolSpec => EnrollKeepsPromise
<1>1. ASSUME EnrollInv, PoolNext, NEW w \in Workflows, job'[w].pc = "done", job[w].pc # "done"
      PROVE  Described(Node(w), Ask(w))'
  <2>1. JobsTyped /\ job' # job
    BY <1>1 DEF EnrollInv, PoolInv
  <2>2. Enroll
    BY <1>1, <2>1 DEF PoolNext, Route, Serve, enrollVars
  <2>3. ASSUME NEW v \in Workflows, NEW i \in Requests, StartEnroll(v, i)  PROVE FALSE
    <3>1. PICK j : /\ j = [IdleJob EXCEPT !.req = i, !.pc = IF Asks[i].fw THEN "lookup" ELSE "find"]
                   /\ job' = [job EXCEPT ![v] = j]
      BY <2>3 DEF StartEnroll
    <3>2. IsJob(j) /\ j.pc \in {"lookup", "find"}
      BY <3>1 DEF IsJob, IdleJob
    <3>3. JobStep(v) /\ job'[v] = j
      BY <2>1, <3>1, <3>2, JobForm
    <3> QED BY <1>1, <3>2, <3>3 DEF JobStep
  <2>4. PICK v \in Workflows : EnrollStep(v)
    BY <2>2, <2>3 DEF Enroll
  <2>5. Enrolling(v) /\ EnrollFrame(v) /\ EnrollEffect(v, Node(v), Ask(v))
    BY <1>1, <2>4, StepEffect
  <2>6. v = w
    BY <1>1, <2>5 DEF EnrollFrame, JobStep
  <2>7. Node(w)' = Node(w) /\ Ask(w)' = Ask(w)
    BY <1>1, <2>5, <2>6 DEF EnrollFrame, Node, Ask
  <2>8. PICK n, q : n = Node(w) /\ q = Ask(w)
    OBVIOUS
  <2>9. AsAsked(q, class'[n], info'[n], ports'[n])
    BY <1>1, <2>5, <2>6, <2>8 DEF EnrollEffect
  <2>10. Node(w)' = n /\ Ask(w)' = q
    BY <2>7, <2>8
  <2> QED BY <2>9, <2>10 DEF Described, AsAsked, Metadata, AllPorts
<1>2. EnrollInv /\ [PoolNext]_poolVars =>
        [\A w \in Workflows : job'[w].pc = "done" /\ job[w].pc # "done" =>
            Described(Node(w), Ask(w))']_poolVars
  BY <1>1
<1> QED BY <1>2, EnrollInvariant, PTL DEF PoolSpec, EnrollKeepsPromise

\* plan_netdev_port: under the same promise, the real switch_id of a port is
\* replaced by a placeholder only when a request gives the placeholder.
THEOREM RealSwitchIdsStay ==
  ASSUME Exclusive
  PROVE  PoolSpec => SwitchIdKept
<1>1. ASSUME EnrollInv, PoolNext, NEW n \in Nodes, NEW l \in Labels,
             ports[n][l] # NoPort, ports[n][l].llc[1] # Placeholder,
             ports'[n][l].llc[1] = Placeholder
      PROVE  PlaceholderAsked(n, l)
  <2>1. ports' # ports
    BY <1>1
  <2>2. Enroll
    BY <1>1, <2>1 DEF PoolNext, Route, Serve, enrollVars
  <2>3. PICK w \in Workflows : EnrollStep(w)
    BY <2>1, <2>2 DEF Enroll, StartEnroll
  <2>4. PICK q : q = Ask(w)
    OBVIOUS
  <2>5. Enrolling(w) /\ EnrollEffect(w, Node(w), q)
    BY <1>1, <2>3, <2>4, StepEffect
  <2>6. n = Node(w)
    BY <1>1, <2>5 DEF EnrollEffect
  <2>7. PICK i \in RequestsFor(n) : q = Asks[i]
    BY <1>1, <2>4, <2>5, <2>6, RunReady
  <2>8. l \in DOMAIN q.ports /\ PortAdvances(q.ports[l], ports[n][l], ports'[n][l])
    BY <1>1, <2>5, <2>6 DEF EnrollEffect, Advance
  <2>9. q.ports[l].sid = Placeholder
    BY <1>1, <2>8 DEF PortAdvances, PortAsRequested
  <2> QED BY <2>7, <2>8, <2>9 DEF PlaceholderAsked
<1>2. EnrollInv /\ [PoolNext]_poolVars =>
        [\A n \in Nodes, l \in Labels :
           ports[n][l] # NoPort /\ ports[n][l].llc[1] # Placeholder =>
             ports'[n][l].llc[1] # Placeholder \/ PlaceholderAsked(n, l)]_poolVars
  BY <1>1
<1> QED BY <1>2, EnrollInvariant, PTL DEF PoolSpec, SwitchIdKept
=============================================================================
