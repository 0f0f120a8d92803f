----------------------------- MODULE Nautobotop -----------------------------
(***************************************************************************)
(* nautobotop: the operator that keeps Nautobot like the ConfigMaps of a   *)
(* Nautobot resource.  A reconcile takes the kinds whose data changed, or  *)
(* every kind once the sync interval is over, and walks them in dependency *)
(* order: it creates or updates each item, then destroys what is no longer *)
(* listed.  The first error ends it and loses the hashes it collected.     *)
(* Users edit the ConfigMaps and change Nautobot meanwhile, API calls      *)
(* fail, and the operator restarts.                                        *)
(***************************************************************************)
EXTENDS NautobotResources, FiniteSets

CONSTANTS
  Environments,  \* configurations users may write, what Nautobot holds, faults
  MaxEdits,      \* edits of the configuration
  MaxDrift,      \* changes of Nautobot by users
  MaxFaults,     \* failing calls and restarts
  None

VARIABLES
  env,      \* the environment of the behaviour
  config,   \* the Nautobot resource and its ConfigMaps
  objects,  \* what Nautobot holds
  status,   \* the status of the Nautobot resource
  job,      \* the reconcile that is running, or None
  used,     \* edits, drift and faults so far
  touched   \* a user changed Nautobot since the reconcile began

vars == <<env, config, objects, status, job, used, touched>>

-----------------------------------------------------------------------------
(* ConfigMaps and objects. *)

\* The files of one kind: missing ConfigMap, no file, malformed file, or items.
Data(tag, items) == [tag |-> tag, items |-> items]
NeverSynced == Data("never", {})
Managed == DOMAIN config.data

ItemsOf(data, k) == data[k].items
NamesOf(data, k) == {i.name : i \in ItemsOf(data, k)}

\* The id an item's object has: its own, or the one Nautobot assigns.
IdFor(k, item) == IF item.id # None THEN item.id ELSE <<k, item.name>>

RefOf(k, field) == CHOOSE r \in SyncOf[k].refs : r.field = field
Children(k, id, pool) == {o \in pool : o.kind = k /\ <<"parent", id>> \in o.refs}

\* Nautobot refuses an object whose name another one of its kind has, whose id
\* exists, or that refers to what is not there.
Accepts(o, pool) ==
  /\ \A p \in pool : p.id # o.id /\ ~(p.kind = o.kind /\ p.name = o.name)
  /\ \A r \in o.refs : \E p \in pool : p.id = r[2]

\* It refuses to destroy what another object requires; a reference that is not
\* required protects its target or is cleared, depending on the field.
Requires(p, id) ==
  \E r \in p.refs : r[2] = id /\ (r[1] = "parent" \/
    \E s \in SyncOf[p.kind].refs : s.field = r[1] /\ s.miss \in {"fail", "create"})
Refers(p, id) == \E r \in p.refs : r[2] = id
Cleared(p, id) == [p EXCEPT !.refs = {r \in @ : r[2] # id}]

-----------------------------------------------------------------------------
Init ==
  /\ env \in Environments
  /\ config = env.start
  /\ objects = env.objects
  /\ status = [hashes |-> [k \in DOMAIN env.start.data |-> NeverSynced],
               message |-> "", recent |-> FALSE]
  /\ job = None
  /\ used = [edits |-> 0, drift |-> 0, faults |-> 0]
  /\ touched = FALSE

\* A fault of this kind may happen now.
CanFail(f) == f \in env.faults /\ used.faults < MaxFaults
Faulty(f) == f = "none" \/ CanFail(f)
Count(f) == used' = IF f = "none" THEN used ELSE [used EXCEPT !.faults = @ + 1]

\* Faulty variant: the interval is ignored.
ShouldSyncChangesOnly(recent, current, previous) == current # previous

\* shouldSync: the data changed, or the interval is over (or never synced).
ShouldSync(recent, current, previous) == current # previous \/ ~recent

\* What the client preloads; collections it could not load stay empty.
PreLoadCacheForLookup(f) ==
  IF f = "preload" THEN {} ELSE {o \in objects : ServiceOf[o.kind].cached}

\* Reconcile, up to the first resource: aggregate the ConfigMaps (a missing one
\* is an error), decide what to sync, preload the cache.
Reconcile ==
  /\ job = None
  /\ LET due == {k \in Managed : ShouldSync(status.recent, config.data[k], status.hashes[k])}
     IN  \/ /\ ~config.enabled \/ \E k \in Managed : config.data[k].tag = "missing"
            /\ UNCHANGED vars
         \/ /\ config.enabled /\ \A k \in Managed : config.data[k].tag # "missing"
            /\ due = {}
            /\ status' = [status EXCEPT !.message = "unchanged"]
            /\ UNCHANGED <<env, config, objects, job, used, touched>>
         \/ /\ config.enabled /\ \A k \in Managed : config.data[k].tag # "missing"
            /\ due # {}
            /\ \E f \in {"none", "preload"} :
                 /\ Faulty(f)
                 /\ Count(f)
                 /\ job' = [plan |-> SelectSeq(SyncOrder, LAMBDA k : k \in due), kinds |-> due,
                            data |-> config.data, phase |-> "kind", todo |-> {}, synced |-> {},
                            obsolete |-> {}, cache |-> PreLoadCacheForLookup(f),
                            hashes |-> status.hashes, report |-> FALSE, part |-> <<>>]
            /\ touched' = FALSE
            /\ UNCHANGED <<env, config, objects, status>>

-----------------------------------------------------------------------------
(* A reconcile that runs: job.plan is what is left, its head is current. *)

Kind == Head(job.plan)
Running(phase) == job # None /\ job.plan # <<>> /\ job.phase = phase

\* An error ends the reconcile: neither hashes nor report reach the status.
Fail == job' = None

\* A lookup by name or id: in the preloaded collection, then in the API, which
\* finds nothing when it is down.
Lookup(k, field, value, down) ==
  LET Hits(pool) == {o \in pool : o.kind = k /\ o[field] = value}
  IN  IF ServiceOf[k].cached /\ Hits(job.cache) # {} THEN Hits(job.cache)
      ELSE IF down THEN {} ELSE Hits(objects)
GetByName(k, name, down) == Lookup(k, "name", name, down)
GetByID(k, id, down) == IF id = None THEN {} ELSE Lookup(k, "id", id, down)

\* SyncAll of a kind: nothing without files, an error for a malformed one.
SyncKind ==
  /\ Running("kind")
  /\ LET data == job.data[Kind] IN
     \/ data.tag = "none" /\ job' = [job EXCEPT !.plan = Tail(@), !.hashes[Kind] = data]
     \/ data.tag = "malformed" /\ Fail
     \/ data.tag = "items"
        /\ job' = [job EXCEPT !.phase = "items", !.todo = data.items, !.synced = {}]
  /\ UNCHANGED <<env, config, objects, status, used, touched>>

\* The object an item is taken to be.
Existing(k, item, down) ==
  LET byId == GetByID(k, item.id, down) IN
  IF SyncOf[k].find = "key" \/ (SyncOf[k].find = "id or key" /\ byId = {} /\ item.id = None)
  THEN GetByName(k, item.name, down) ELSE byId

\* The references of an item that are found, with the ids they have.
Target(k, r) == RefOf(k, r[1]).to
Found(k, item, down) == {r \in item.refs : GetByName(Target(k, r), r[2], down) # {}}
Missing(k, item, down, miss) ==
  {r \in item.refs \ Found(k, item, down) : RefOf(k, r[1]).miss = miss}

Blank(k, id, name) == [kind |-> k, id |-> id, name |-> name, val |-> None, refs |-> {},
                       parts |-> {}, owned |-> TRUE]
\* Manufacturers and groups an item needs and the operator creates.
Made(k, item, down) ==
  {Blank(Target(k, r), <<Target(k, r), r[2]>>, r[2]) : r \in Missing(k, item, down, "create")}

Resolved(k, item, down) ==
  {<<r[1], (CHOOSE o \in GetByName(Target(k, r), r[2], down) : TRUE).id>> :
     r \in Found(k, item, down)}
  \cup {<<r[1], <<Target(k, r), r[2]>>>> : r \in Missing(k, item, down, "create")}
  \cup (IF SyncOf[k].tree /\ item.parent # None
        THEN {<<"parent", IdFor(k, CHOOSE p \in ItemsOf(job.data, k) : p.name = item.parent)>>}
        ELSE {})

\* Faulty variant: only names are compared.
CompareNames(o, k, item, refs) == o.name = item.name

\* CompareJSONFields: every field of the request has its value in the object,
\* relationships aside.
CompareJSONFields(o, k, item, refs) ==
  /\ o.name = item.name /\ o.val = item.val
  /\ \A r \in refs : r \in o.refs \/
       \E s \in SyncOf[k].refs : s.field = r[1] /\ s.miss = "relation"

\* What a create or an update makes of the item; fields it leaves out keep their
\* value.  A permission's groups are replaced.
Written(k, o, item, refs) ==
  [o EXCEPT !.name = item.name, !.val = item.val,
            !.refs = refs \cup {r \in @ : /\ ~SyncOf[k].always
                                          /\ \A q \in refs : q[1] # r[1]}]

Replace(pool, o) == {p \in pool : p.id # o.id} \cup {o}

\* The item that syncSingle... takes next (parents first, otherwise any), and
\* whether an API call fails meanwhile: lookups, the write, or its answer.
Taking(item, f) ==
  /\ Running("items")
  /\ SyncOf[Kind].tree => \A p \in job.todo : p.name # item.parent
  /\ Faulty(f)
  /\ Count(f)
  /\ UNCHANGED <<env, config, status, touched>>

\* A failing lookup is reported; so is the VLAN group a device names in vain.
Reported(item, f) ==
  f = "get" \/ (Kind = "device" /\ Missing(Kind, item, FALSE, "relation") # {})

\* The item is done; templates and cluster members follow.
Done(item, id, cache, report) ==
  job' = [job EXCEPT !.todo = @ \ {item}, !.synced = @ \cup {id}, !.cache = cache,
                     !.report = @ \/ report, !.part = <<item, id>>,
                     !.phase = IF SyncOf[Kind].parts \/ (SyncOf[Kind].members /\ item.members # {})
                               THEN "parts" ELSE @]

\* A reference the item needs is not found.
ReferenceMissing(item, f) ==
  /\ Taking(item, f)
  /\ f \in {"none", "get"}
  /\ Missing(Kind, item, f = "get", "fail") # {}
  /\ Fail
  /\ UNCHANGED objects

\* The object is found and is as the item says.
SkipItem(item, f) ==
  /\ Taking(item, f)
  /\ f \in {"none", "get"}
  /\ Missing(Kind, item, f = "get", "fail") = {}
  /\ ~SyncOf[Kind].always
  /\ \E o \in Existing(Kind, item, f = "get") :
       /\ CompareJSONFields(o, Kind, item, Resolved(Kind, item, f = "get"))
       /\ Done(item, o.id, job.cache, Reported(item, f))
  /\ objects' = objects \cup Made(Kind, item, f = "get")

\* The object is not found and is created.
CreateItem(item, f) ==
  /\ Taking(item, f)
  /\ Missing(Kind, item, f = "get", "fail") = {}
  /\ Existing(Kind, item, f = "get") = {}
  /\ LET world == objects \cup Made(Kind, item, f = "get")
         new == Written(Kind, Blank(Kind, IdFor(Kind, item), item.name), item,
                        Resolved(Kind, item, f = "get"))
     IN  IF f = "write" \/ ~Accepts(new, world) THEN Fail /\ objects' = world
         ELSE /\ objects' = world \cup {new}
              /\ IF f = "lost" THEN Fail
                 ELSE Done(item, new.id, job.cache \cup {new}, Reported(item, f))

\* The object is found and differs.
UpdateItem(item, f) ==
  /\ Taking(item, f)
  /\ Missing(Kind, item, f = "get", "fail") = {}
  /\ \E o \in Existing(Kind, item, f = "get") :
     LET refs == Resolved(Kind, item, f = "get")
         world == objects \cup Made(Kind, item, f = "get")
         live == {p \in world : p.id = o.id}
         new == {Written(Kind, p, item, refs) : p \in live}
     IN  /\ SyncOf[Kind].always \/ ~CompareJSONFields(o, Kind, item, refs)
         /\ IF f = "write" \/ live = {} \/ \E n \in new : ~Accepts(n, world \ live)
            THEN Fail /\ objects' = world
            ELSE /\ objects' = (world \ live) \cup new
                 /\ IF f = "lost" THEN Fail
                    ELSE \E n \in new :
                           Done(item, o.id, IF o \in job.cache THEN Replace(job.cache, n)
                                            ELSE job.cache, Reported(item, f))

SyncItem ==
  \E item \in IF job = None THEN {} ELSE job.todo, f \in {"none", "get", "write", "lost"} :
    \/ ReferenceMissing(item, f)
    \/ SkipItem(item, f)
    \/ CreateItem(item, f)
    \/ UpdateItem(item, f)

\* The interface, console port, power port and module bay templates of a device
\* type, by name: a failing call is reported and leaves a template as it was.
SyncTemplates(f) ==
  \E o \in {o \in objects : o.id = job.part[2]} :
  \E parts \in IF f = "none" THEN {job.part[1].parts}
               ELSE {p \in SUBSET (o.parts \cup job.part[1].parts) :
                       o.parts \cap job.part[1].parts \subseteq p} :
    objects' = Replace(objects, [o EXCEPT !.parts = parts])

\* syncClusterDevices: the devices listed (and found) are assigned to the cluster
\* and the others in it unassigned.
SyncClusterDevices(f) ==
  LET id == job.part[2]
      wanted == UNION {{o.id : o \in GetByName("device", n, FALSE)} : n \in job.part[1].members}
      moved(o) == IF o.id \in wanted
                  THEN {r \in o.refs : r[1] # "cluster"} \cup {<<"cluster", id>>}
                  ELSE o.refs \ {<<"cluster", id>>}
  IN  \E skipped \in IF f = "none" THEN {{}} ELSE SUBSET {o.id : o \in objects} :
        objects' = {IF o.kind # "device" \/ o.id \in skipped THEN o
                    ELSE [o EXCEPT !.refs = moved(o)] : o \in objects}

\* What follows an item; when a user destroyed its object meanwhile every call
\* fails.
SyncParts ==
  /\ Running("parts")
  /\ \E f \in {"none", "parts"} :
       /\ Faulty(f)
       /\ Count(f)
       /\ LET gone == ~\E o \in objects : o.id = job.part[2]
              unknown == {n \in job.part[1].members : GetByName("device", n, FALSE) = {}}
          IN  /\ \/ gone /\ UNCHANGED objects
                 \/ ~gone /\ SyncOf[Kind].parts /\ SyncTemplates(f)
                 \/ ~gone /\ SyncOf[Kind].members /\ SyncClusterDevices(f)
              /\ job' = [job EXCEPT !.phase = "items", !.part = <<>>,
                                    !.report = @ \/ gone \/ f # "none" \/ unknown # {}]
  /\ UNCHANGED <<env, config, status, touched>>

-----------------------------------------------------------------------------
(* What is no longer listed. *)

IsObsolete(o) ==
  \/ SyncOf[Kind].obsolete = "name" /\ o.name \notin NamesOf(job.data, Kind)
  \/ SyncOf[Kind].obsolete = "id" /\ o.id \notin job.synced

\* deleteObsolete...: ListAll returns the pages it got before an error.
ListObsolete ==
  /\ Running("items") /\ job.todo = {}
  /\ \E f \in {"none", "list"} :
       /\ Faulty(f)
       /\ Count(f)
       /\ LET all == {o.id : o \in {o \in objects : o.kind = Kind /\ IsObsolete(o)}} IN
          \E listed \in IF f = "none" THEN {all} ELSE SUBSET all :
            job' = [job EXCEPT !.phase = "destroy", !.obsolete = listed,
                               !.report = @ \/ f # "none"]
  /\ UNCHANGED <<env, config, objects, status, touched>>

\* Faulty variant: whoever created the object.
OwnedAlways(o) == TRUE

\* IsCreatedByUser.
Owned(o) == o.owned

\* Destroy of one obsolete object, children first: only what the operator's user
\* created; errors are reported and otherwise ignored.
Destroy ==
  \E id \in IF Running("destroy") THEN job.obsolete ELSE {}, f \in {"none", "owner", "write"} :
    /\ Faulty(f)
    /\ Count(f)
    /\ SyncOf[Kind].tree => \A c \in Children(Kind, id, objects) : c.id \notin job.obsolete
    /\ LET live == {o \in objects : o.id = id}
           left(report) == job' = [job EXCEPT !.obsolete = @ \ {id}, !.report = @ \/ report]
       IN  \/ /\ f # "none" \/ live = {} \/ \E p \in objects : Refers(p, id)
              /\ f = "none" => \A o \in live : Owned(o)
              /\ left(TRUE)
              /\ UNCHANGED objects
           \/ /\ f = "none" /\ \E o \in live : ~Owned(o)
              /\ left(FALSE)
              /\ UNCHANGED objects
           \/ /\ f = "none" /\ live # {} /\ \A o \in live : Owned(o)
              /\ ~\E p \in objects : Requires(p, id)
              /\ objects' = {Cleared(p, id) : p \in objects \ live}
              /\ job' = [job EXCEPT !.obsolete = @ \ {id}, !.cache = {c \in @ : c.id # id}]
    /\ UNCHANGED <<env, config, status, touched>>

\* The kind is done: its hash is kept for the status.
FinishKind ==
  /\ Running("destroy") /\ job.obsolete = {}
  /\ job' = [job EXCEPT !.plan = Tail(@), !.phase = "kind",
                        !.hashes[Kind] = job.data[Kind]]
  /\ UNCHANGED <<env, config, objects, status, used, touched>>

\* Every kind is done: the status gets the hashes, the time and the report.
\* The update may be refused (someone changed the resource), which loses them.
FinishReconcile ==
  /\ job # None /\ job.plan = <<>>
  /\ \E f \in {"none", "status"} :
       /\ Faulty(f)
       /\ Count(f)
       /\ status' = IF f # "none" THEN status
                    ELSE [hashes |-> job.hashes, recent |-> TRUE,
                          message |-> IF job.report THEN "errors" ELSE "successful"]
  /\ Fail
  /\ UNCHANGED <<env, config, objects, touched>>

-----------------------------------------------------------------------------
(* The rest of the world. *)

\* The operator restarts.
Restart ==
  /\ job # None /\ CanFail("restart")
  /\ Count("restart")
  /\ Fail
  /\ UNCHANGED <<env, config, objects, status, touched>>

\* Users change the Nautobot resource or its ConfigMaps.
Edit ==
  /\ used.edits < MaxEdits
  /\ config' \in env.configs \ {config}
  /\ used' = [used EXCEPT !.edits = @ + 1]
  /\ UNCHANGED <<env, objects, status, job, touched>>

\* Users change an object in Nautobot, or destroy one nothing refers to.
Drift ==
  /\ env.drift /\ used.drift < MaxDrift
  /\ \E o \in {o \in objects : o.kind \in Managed} :
       \/ objects' = Replace(objects, [o EXCEPT !.val = "drifted"])
       \/ (~\E p \in objects : Refers(p, o.id)) /\ objects' = objects \ {o}
  /\ used' = [used EXCEPT !.drift = @ + 1]
  /\ touched' = TRUE
  /\ UNCHANGED <<env, config, status, job>>

\* syncIntervalSeconds pass after the last sync.
Elapse ==
  /\ status.recent
  /\ status' = [status EXCEPT !.recent = FALSE]
  /\ UNCHANGED <<env, config, objects, job, used, touched>>

Operator == \/ Reconcile \/ SyncKind \/ SyncItem \/ SyncParts \/ ListObsolete \/ Destroy
            \/ FinishKind \/ FinishReconcile

Next == Operator \/ Restart \/ Edit \/ Drift \/ Elapse

Spec == Init /\ [][Next]_vars

\* The workqueue runs every reconcile to its end and starts another after an
\* error, after requeueAfter and when a ConfigMap changes; time passes.
FairSpec == Spec /\ WF_vars(Operator) /\ WF_vars(Elapse)

-----------------------------------------------------------------------------
Tags == {"never", "missing", "none", "malformed", "items"}

TypeOK ==
  /\ status.message \in {"", "unchanged", "successful", "errors"}
  /\ status.recent \in BOOLEAN
  /\ \A k \in Managed : status.hashes[k].tag \in Tags \ {"missing", "malformed"}
  /\ \A o, p \in objects : o.id = p.id => o = p
  /\ \A o \in objects : \A r \in o.refs : \E p \in objects : p.id = r[2]
  /\ job # None =>
       /\ job.phase \in {"kind", "items", "parts", "destroy"}
       /\ job.plan \in Seq(Managed) /\ job.kinds \subseteq Managed
       /\ job.plan # <<>> => job.todo \subseteq ItemsOf(job.data, Kind)
       /\ \A k \in Managed : job.hashes[k].tag # "malformed"

-----------------------------------------------------------------------------
(* Properties. *)

\* The object of an item has its name, value, templates and references, those
\* included that may be left out or only the ones the item needs.
Mirrors(o, k, data, item, misses) ==
  /\ o.kind = k /\ o.name = item.name /\ o.val = item.val
  /\ SyncOf[k].parts => o.parts = item.parts
  /\ \A r \in item.refs : RefOf(k, r[1]).miss \in misses =>
       \E t \in objects : t.kind = Target(k, r) /\ t.name = r[2] /\ <<r[1], t.id>> \in o.refs
  /\ SyncOf[k].tree /\ item.parent # None =>
       \E t \in objects : t.kind = k /\ t.name = item.parent /\ <<"parent", t.id>> \in o.refs
  /\ SyncOf[k].members /\ item.members # {} =>
       \A d \in objects : d.kind = "device" =>
         (<<"cluster", o.id>> \in d.refs <=> d.name \in item.members)

InSync(k, data, misses) ==
  /\ \A item \in ItemsOf(data, k) : \E o \in objects : Mirrors(o, k, data, item, misses)
  /\ SyncOf[k].obsolete # "never" =>
       \A o \in objects : o.kind = k /\ o.owned => o.name \in NamesOf(data, k)

\* When a reconcile records "Sync Successful", every kind it synced is in Nautobot
\* as the data it read says, with the references items need, and nothing else the
\* operator created is left of these kinds, unless users changed Nautobot while
\* it ran: no failing lookup, listing, ownership check, refused delete or restart
\* in between goes unreported.
SuccessIsTrue ==
  [][(job # None /\ job' = None /\ status'.message = "successful" /\ status' # status
      /\ ~touched) =>
       \A k \in job.kinds : job.data[k].tag = "items" =>
         InSync(k, job.data, {"fail", "create"})]_vars

\* An object disappears only when the operator created it and the data being
\* synced does not list it, neither by name nor by id.
OnlyObsoleteDestroyed ==
  [][\A o \in objects : used'.drift = used.drift /\ (\A p \in objects' : p.id # o.id) =>
       /\ o.owned /\ o.kind = Kind
       /\ \A i \in ItemsOf(job.data, o.kind) : i.name # o.name /\ i.id # o.id]_vars

\* The order of the kinds is right for the references between them: unless users
\* interfere, an item is never synced before what it needs of the kinds the same
\* reconcile syncs.
NeededFirst ==
  Running("items") /\ ~touched =>
    \A item \in job.todo : \A r \in item.refs :
      /\ RefOf(Kind, r[1]).miss = "fail" /\ Target(Kind, r) \in job.kinds
      /\ r[2] \in NamesOf(job.data, Target(Kind, r))
      => GetByName(Target(Kind, r), r[2], FALSE) # {}

\* Once users leave a usable configuration alone, Nautobot becomes and stays what
\* it says, whatever failed, drifted or restarted before: changed data is synced,
\* errors are retried, and the interval repairs drift and left-overs.
Usable ==
  /\ config.enabled
  /\ \A k \in Managed :
       /\ config.data[k].tag \in {"items", "none"}
       /\ \A item \in ItemsOf(config.data, k) : \A r \in item.refs :
            RefOf(k, r[1]).miss = "fail" /\ Target(k, r) \in Managed =>
              r[2] \in NamesOf(config.data, Target(k, r))
Converged ==
  \A k \in Managed : config.data[k].tag = "items" =>
    InSync(k, config.data, {"fail", "create", "omit"})
Converges == <>[]Usable => <>[]Converged

\* When the operator would answer "No changes detected", every item of the
\* configuration is in Nautobot as it says, unless users changed Nautobot.
NoChangesIsTrue ==
  job = None /\ used.drift = 0
  /\ (\A k \in Managed : ~ShouldSync(status.recent, config.data[k], status.hashes[k])) =>
    \A k \in Managed : \A item \in ItemsOf(config.data, k) :
      \E o \in objects : Mirrors(o, k, config.data, item, {"fail"})
=============================================================================
