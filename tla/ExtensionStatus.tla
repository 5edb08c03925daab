--------------------------- MODULE ExtensionStatus ---------------------------
(***************************************************************************)
(* The status path of ExtensionService resources.                          *)
(*                                                                         *)
(* internal/status/extensionstatus.go keeps, for the build in progress,    *)
(* one ExtensionCacheEntry per ExtensionService: the generation the build  *)
(* observed and the conditions it decided on.  When the build is done an   *)
(* entry becomes a StatusUpdate whose mutator is run later, by the status  *)
(* update handler, against the object as the API server then has it.       *)
(*                                                                         *)
(* Several replicas of the process run (SesameDeploymentSpec.Replicas      *)
(* defaults to 2) and all of them keep an object cache; only the replica   *)
(* that was elected leader builds from it and hands its updates to the API *)
(* server (serve.go sets leader election up and registers the status       *)
(* update handler with the manager).  A write that changes the status of   *)
(* an object is an update of the object like any other: every informer     *)
(* delivers it to its event handler, which rebuilds.                       *)
(* What makes this path hard is that the three parties are never in step:  *)
(* the API server has the newest object, each replica builds from its own  *)
(* informer view of it, and an update is applied some time after the build *)
(* that produced it, possibly after another replica took over.             *)
(***************************************************************************)
EXTENDS Naturals, Sequences, FiniteSets, SequencesExt

CONSTANTS
    Replicas,        \* the replicas of the control plane
    Objects,         \* the ExtensionService resources (namespace/name)
    MaxGeneration,   \* bound: updates of an object's spec
    MaxDepChanges,   \* bound: appearances/disappearances of a referenced Service
    MaxRestarts,     \* bound: replica stops and lease expiries
    MaxRecreates,    \* bound: delete-and-recreate of an object under its name
    MaxPending,      \* bound: status updates a replica has emitted and not yet written
    StaleLeaders,    \* TRUE: a lease may expire while its holder still runs
    NoLeader         \* the lease is free

ASSUME /\ Replicas # {} /\ Objects # {}
       /\ MaxGeneration \in Nat \ {0}
       /\ MaxDepChanges \in Nat /\ MaxRestarts \in Nat /\ MaxRecreates \in Nat
       /\ MaxPending \in Nat /\ MaxPending >= Cardinality(Objects)
       /\ StaleLeaders \in BOOLEAN
       /\ NoLeader \notin Replicas

VARIABLES
    uid,         \* API server: which object has the name o (it counts the recreations)
    specs,       \* API server: specs[o][g] is the validity of generation g of o's spec
    depOK,       \* API server: the Service that o targets exists
    status,      \* API server: status.conditions of o, keyed by condition type
    seen,        \* seen[r][o]: the copy of o in r's informer cache (generation 0: none)
    seenDep,     \* seenDep[r][o]: r's informer view of depOK[o]
    unseen,      \* <<r, o>>: a write of o's status is an event r's informer still has
    dirty,       \* dirty[r]: r's event handler has a rebuild pending
    pending,     \* pending[r]: the status updates r emitted, oldest first, not yet written
    lease,       \* the holder of the leader election lease
    elected,     \* elected[r]: r was told it is the leader
    budget       \* what is left of MaxDepChanges, MaxRestarts, MaxRecreates

apiVars     == <<uid, specs, depOK, status>>
replicaVars == <<seen, seenDep, unseen, dirty, pending>>
leaderVars  == <<lease, elected>>
vars        == <<apiVars, replicaVars, leaderVars, budget>>

-----------------------------------------------------------------------------
(* Data *)

ValidCondition == "Valid"          \* the one condition type this program writes
OtherCondition == "Other"          \* a condition type owned by some other controller
ConditionTypes == {ValidCondition, OtherCondition}

ConditionStatus == {"Unknown", "True", "False"}

DetailedCondition == [status : ConditionStatus, observedGeneration : 0..MaxGeneration]

ConditionsBy(types) == UNION {[ts -> DetailedCondition] : ts \in SUBSET types}

\* ExtensionCacheEntry: the conditions of one object and the generation observed.
ExtensionCacheEntry == [generation : 1..MaxGeneration,
                        conditions : ConditionsBy({ValidCondition})]

\* k8s.StatusUpdate: the object's name and the mutator closed over the entry.
StatusUpdate == [name : Objects, entry : ExtensionCacheEntry]

\* An object as an informer caches it: which object, its generation, and
\* whether the spec of that generation is valid.
CachedObject == [uid : 0..MaxRecreates, generation : 0..MaxGeneration,
                 validity : {"good", "bad"}]

NotListed == [uid |-> 0, generation |-> 0, validity |-> "bad"]

Current(o) == [uid |-> uid[o], generation |-> Len(specs[o]),
               validity |-> specs[o][Len(specs[o])]]

\* The object as the mutator receives it.
LiveObject(o) == [generation |-> Len(specs[o]), conditions |-> status[o]]

-----------------------------------------------------------------------------
(* internal/status/extensionstatus.go *)

\* ConditionFor: the cached condition of the type, created Unknown if absent.
ConditionFor(conditions, condType) ==
    [t \in DOMAIN conditions \cup {condType} |->
        IF t \in DOMAIN conditions THEN conditions[t]
        ELSE [status |-> "Unknown", observedGeneration |-> 0]]

\* The mutator, faulty: the staleness check on ObservedGeneration is missing.
MutateNoStaleCheck(entry, obj) ==
    [t \in DOMAIN obj.conditions \cup DOMAIN entry.conditions |->
        IF t \in DOMAIN entry.conditions
        THEN [entry.conditions[t] EXCEPT !.observedGeneration = entry.generation]
        ELSE obj.conditions[t]]

\* The mutator, faulty: ObservedGeneration is taken from the object being
\* patched instead of the generation the build saw.
MutateStampLive(entry, obj) ==
    [t \in DOMAIN obj.conditions \cup DOMAIN entry.conditions |->
        IF /\ t \in DOMAIN entry.conditions
           /\ ~ (/\ t \in DOMAIN obj.conditions
                 /\ obj.conditions[t].observedGeneration > obj.generation)
        THEN [entry.conditions[t] EXCEPT !.observedGeneration = obj.generation]
        ELSE obj.conditions[t]]

\* The mutator, faulty: the stamp is one past the generation the build saw.
MutateStampNext(entry, obj) ==
    [t \in DOMAIN obj.conditions \cup DOMAIN entry.conditions |->
        IF /\ t \in DOMAIN entry.conditions
           /\ ~ (/\ t \in DOMAIN obj.conditions
                 /\ obj.conditions[t].observedGeneration > entry.generation)
        THEN [entry.conditions[t] EXCEPT !.observedGeneration = entry.generation + 1]
        ELSE obj.conditions[t]]

\* The mutator, faulty: the object's condition list is replaced by the entry's.
MutateReplaceList(entry, obj) ==
    [t \in DOMAIN entry.conditions |->
        IF /\ t \in DOMAIN obj.conditions
           /\ obj.conditions[t].observedGeneration > entry.generation
        THEN obj.conditions[t]
        ELSE [entry.conditions[t] EXCEPT !.observedGeneration = entry.generation]]

\* The mutator of AsStatusUpdate: the new status.conditions of obj.  Each
\* condition of the entry is stamped with the entry's generation; it is
\* appended when the object has none of its type, dropped when the object's
\* is of a newer generation, and copied over the object's otherwise.  The
\* conditions of other types are left as they are.
Mutate(entry, obj) ==
    LET Stamped(t) == [entry.conditions[t] EXCEPT !.observedGeneration = entry.generation]
        Stale(t)   == /\ t \in DOMAIN obj.conditions
                      /\ obj.conditions[t].observedGeneration > entry.generation
    IN  [t \in DOMAIN obj.conditions \cup DOMAIN entry.conditions |->
            IF t \in DOMAIN entry.conditions /\ ~ Stale(t)
            THEN Stamped(t) ELSE obj.conditions[t]]

AsStatusUpdate(o, entry) == [name |-> o, entry |-> entry]

\* ExtensionAccessor, faulty: the entry always records the first generation.
ExtensionAccessorFirstGeneration(cache, o, generation) ==
    IF o \in DOMAIN cache THEN cache
    ELSE [p \in DOMAIN cache \cup {o} |->
            IF p = o THEN [generation |-> 1, conditions |-> <<>>] ELSE cache[p]]

\* ExtensionAccessor: the cache with an entry for o, added with the generation
\* of the object the build holds if the cache had none.
ExtensionAccessor(cache, o, generation) ==
    IF o \in DOMAIN cache THEN cache
    ELSE [p \in DOMAIN cache \cup {o} |->
            IF p = o THEN [generation |-> generation, conditions |-> <<>>]
            ELSE cache[p]]

-----------------------------------------------------------------------------
(* The build, as far as ExtensionService status goes *)

\* What a build decides on from a replica's view: the resource is valid when
\* its spec is and the Service it targets resolves.
Verdict(r, o) ==
    IF seen[r][o].validity = "good" /\ seenDep[r][o] THEN "True" ELSE "False"

\* The extension service processor on one object: take the entry, set the
\* Valid condition, release the entry back to the cache.
ProcessExtension(r, cache, o) ==
    LET held  == ExtensionAccessor(cache, o, seen[r][o].generation)
        conds == ConditionFor(held[o].conditions, ValidCondition)
        done  == [conds EXCEPT ![ValidCondition].status = Verdict(r, o)]
    IN  [held EXCEPT ![o].conditions = done]

Listed(r) == {o \in Objects : seen[r][o] # NotListed}

\* The status cache a build of r ends with.
StatusCacheOf(r) ==
    FoldSet(LAMBDA o, cache : ProcessExtension(r, cache, o), <<>>, Listed(r))

\* Its status updates, in the order the given sequence of objects names.
UpdatesOf(cache, order) ==
    [i \in DOMAIN order |-> AsStatusUpdate(order[i], cache[order[i]])]

-----------------------------------------------------------------------------
(* Initial state: every object exists at generation 1 with no status, no    *)
(* replica has listed anything, nobody leads.                               *)

Init ==
    /\ uid      = [o \in Objects |-> 0]
    /\ specs    \in [Objects -> {<<"good">>, <<"bad">>}]
    /\ depOK    \in [Objects -> BOOLEAN]
    /\ status   = [o \in Objects |-> <<>>]
    /\ seen     = [r \in Replicas |-> [o \in Objects |-> NotListed]]
    /\ seenDep  = [r \in Replicas |-> [o \in Objects |-> FALSE]]
    /\ unseen   = {}
    /\ dirty    = [r \in Replicas |-> FALSE]
    /\ pending  = [r \in Replicas |-> <<>>]
    /\ lease    = NoLeader
    /\ elected  = [r \in Replicas |-> FALSE]
    /\ budget   = [dep |-> MaxDepChanges, restart |-> MaxRestarts,
                   recreate |-> MaxRecreates]

-----------------------------------------------------------------------------
(* The cluster *)

\* A user updates the spec of o: the API server bumps metadata.generation.
UpdateSpec(o) ==
    /\ Len(specs[o]) < MaxGeneration
    /\ \E validity \in {"good", "bad"} :
           specs' = [specs EXCEPT ![o] = Append(@, validity)]
    /\ UNCHANGED <<uid, depOK, status, replicaVars, leaderVars, budget>>

\* The Service that o targets appears or disappears.
ChangeDependency(o) ==
    /\ budget.dep > 0
    /\ budget' = [budget EXCEPT !.dep = @ - 1]
    /\ depOK' = [depOK EXCEPT ![o] = ~ @]
    /\ UNCHANGED <<uid, specs, status, replicaVars, leaderVars>>

\* The API server takes a write of o's status: a write that changes it is an
\* update of the object, which every informer that watches it gets to deliver.
WriteStatus(o, conditions) ==
    /\ status' = [status EXCEPT ![o] = conditions]
    /\ unseen' = IF conditions = status[o] THEN unseen
                 ELSE unseen \cup (Replicas \X {o})

\* Another controller adds its own condition to o's status.
OtherControllerWrites(o) ==
    /\ OtherCondition \notin DOMAIN status[o]
    /\ WriteStatus(o, [t \in DOMAIN status[o] \cup {OtherCondition} |->
                         IF t = OtherCondition
                         THEN [status |-> "True", observedGeneration |-> Len(specs[o])]
                         ELSE status[o][t]])
    /\ UNCHANGED <<uid, specs, depOK, seen, seenDep, dirty, pending, leaderVars, budget>>

\* o is deleted and created again under the same name: a new object, whose
\* generation starts at 1 and whose status is empty.
Recreate(o) ==
    /\ budget.recreate > 0
    /\ budget' = [budget EXCEPT !.recreate = @ - 1]
    /\ uid' = [uid EXCEPT ![o] = @ + 1]
    /\ \E validity \in {"good", "bad"} :
           specs' = [specs EXCEPT ![o] = <<validity>>]
    /\ status' = [status EXCEPT ![o] = <<>>]
    /\ UNCHANGED <<depOK, replicaVars, leaderVars>>

-----------------------------------------------------------------------------
(* A replica *)

\* The informer of r delivers the current ExtensionService o to the event
\* handler, which puts it in the object cache and arms the rebuild timers.
\* Every update of the object is an event, a write of its status included.
DeliverExtension(r, o) ==
    /\ seen[r][o] # Current(o) \/ <<r, o>> \in unseen
    /\ seen' = [seen EXCEPT ![r][o] = Current(o)]
    /\ unseen' = unseen \ {<<r, o>>}
    /\ dirty' = [dirty EXCEPT ![r] = TRUE]
    /\ UNCHANGED <<apiVars, seenDep, pending, leaderVars, budget>>

\* The informer of r delivers the add or delete of the Service o targets.
DeliverService(r, o) ==
    /\ seenDep[r][o] # depOK[o]
    /\ seenDep' = [seenDep EXCEPT ![r][o] = depOK[o]]
    /\ dirty' = [dirty EXCEPT ![r] = TRUE]
    /\ UNCHANGED <<apiVars, seen, unseen, pending, leaderVars, budget>>

\* The leader check, faulty: the followers write status, the leader does not.
LeadingInverted(r) == ~ elected[r]

\* A replica rebuilds and writes status only while it has been told it leads.
Leading(r) == elected[r]

\* The rebuild timer of r fires.  The leader builds from its object cache and
\* emits the status updates of the build, in no particular order among the
\* objects; they are written later, oldest first,
\* without holding the event handler up.  A follower builds nothing.
Build(r) ==
    /\ dirty[r]
    /\ dirty' = [dirty EXCEPT ![r] = FALSE]
    /\ IF Leading(r)
       THEN /\ Len(pending[r]) + Cardinality(Listed(r)) <= MaxPending
            /\ \E order \in SetToSeqs(Listed(r)) :
                   pending' = [pending EXCEPT ![r] =
                                  @ \o UpdatesOf(StatusCacheOf(r), order)]
       ELSE UNCHANGED pending
    /\ UNCHANGED <<apiVars, seen, seenDep, unseen, leaderVars, budget>>

\* The status update handler of r takes the oldest update, gets the object,
\* runs the mutator on it and writes the status back.  The write carries the
\* resourceVersion that was read, so a write that succeeds is a
\* read-modify-write of the object as the API server has it.
ApplyStatusUpdate(r) ==
    /\ pending[r] # <<>>
    /\ LET upd == Head(pending[r])
       IN  WriteStatus(upd.name, Mutate(upd.entry, LiveObject(upd.name)))
    /\ pending' = [pending EXCEPT ![r] = Tail(@)]
    /\ UNCHANGED <<uid, specs, depOK, seen, seenDep, dirty, leaderVars, budget>>

-----------------------------------------------------------------------------
(* Leadership and restarts *)

\* On election, faulty: the event handler is not told to rebuild.
DirtyOnElectionMissing(r) == dirty

\* On election the event handler is notified and schedules a rebuild, so that
\* the status of what it cached as a follower gets written.
DirtyOnElection(r) == [dirty EXCEPT ![r] = TRUE]

\* r wins the election: the manager starts the runnables that need it (the
\* status update handler, the leadership notifier).
AcquireLease(r) ==
    /\ lease = NoLeader /\ ~ elected[r]
    /\ lease' = r
    /\ elected' = [elected EXCEPT ![r] = TRUE]
    /\ dirty' = DirtyOnElection(r)
    /\ UNCHANGED <<apiVars, seen, seenDep, unseen, pending, budget>>

\* LeaderElectionReleaseOnCancel: a leader gives the lease up on its way out.
ReleaseOnCancel(r) == IF lease = r THEN NoLeader ELSE lease

\* r is stopped and started again (a rollout, a crash).  All it held in memory
\* is gone, the events its informer had not delivered with it.
Restart(r) ==
    /\ budget.restart > 0
    /\ budget' = [budget EXCEPT !.restart = @ - 1]
    /\ seen'    = [seen EXCEPT ![r] = [o \in Objects |-> NotListed]]
    /\ seenDep' = [seenDep EXCEPT ![r] = [o \in Objects |-> FALSE]]
    /\ unseen'  = {e \in unseen : e[1] # r}
    /\ dirty'   = [dirty EXCEPT ![r] = FALSE]
    /\ pending' = [pending EXCEPT ![r] = <<>>]
    /\ elected' = [elected EXCEPT ![r] = FALSE]
    /\ lease'   = ReleaseOnCancel(r)
    /\ UNCHANGED apiVars

\* The lease of r runs out (r is partitioned or paused) although r has not
\* stopped: until it is told, r goes on as a leader.
LeaseExpires(r) ==
    /\ StaleLeaders
    /\ lease = r
    /\ budget.restart > 0
    /\ budget' = [budget EXCEPT !.restart = @ - 1]
    /\ lease' = NoLeader
    /\ UNCHANGED <<apiVars, replicaVars, elected>>

\* A replica that lost its lease is told so: it stops rebuilding and writing
\* status, and keeps its object cache.
StopLeading(r) ==
    /\ elected[r] /\ lease # r
    /\ elected' = [elected EXCEPT ![r] = FALSE]
    /\ pending' = [pending EXCEPT ![r] = <<>>]
    /\ UNCHANGED <<apiVars, seen, seenDep, unseen, dirty, lease, budget>>

-----------------------------------------------------------------------------

Cluster ==
    \E o \in Objects :
        \/ UpdateSpec(o)
        \/ ChangeDependency(o)
        \/ OtherControllerWrites(o)
        \/ Recreate(o)

Replica(r) ==
    \/ \E o \in Objects : DeliverExtension(r, o) \/ DeliverService(r, o)
    \/ Build(r)
    \/ ApplyStatusUpdate(r)

Leadership(r) ==
    \/ AcquireLease(r)
    \/ Restart(r)
    \/ LeaseExpires(r)
    \/ StopLeading(r)

Next ==
    \/ Cluster
    \/ \E r \in Replicas : Replica(r) \/ Leadership(r)

Spec == Init /\ [][Next]_vars

\* Every replica keeps running its own steps, the election goes on while the
\* lease is free, and a deposed leader is told in the end.  The cluster and the
\* restarts are under no obligation.
Fairness ==
    \A r \in Replicas :
        /\ WF_vars(Replica(r))
        /\ WF_vars(AcquireLease(r))
        /\ WF_vars(StopLeading(r))

FairSpec == Spec /\ Fairness

-----------------------------------------------------------------------------
(* Properties *)

TypeOK ==
    /\ uid \in [Objects -> 0..MaxRecreates]
    /\ specs \in [Objects -> UNION {[1..n -> {"good", "bad"}] : n \in 1..MaxGeneration}]
    /\ depOK \in [Objects -> BOOLEAN]
    /\ status \in [Objects -> ConditionsBy(ConditionTypes)]
    /\ seen \in [Replicas -> [Objects -> CachedObject]]
    /\ seenDep \in [Replicas -> [Objects -> BOOLEAN]]
    /\ unseen \subseteq Replicas \X Objects
    /\ dirty \in [Replicas -> BOOLEAN]
    /\ \A r \in Replicas :
             pending[r] \in Seq(StatusUpdate) /\ Len(pending[r]) <= MaxPending
    /\ lease \in Replicas \cup {NoLeader}
    /\ elected \in [Replicas -> BOOLEAN]
    /\ budget \in [dep : 0..MaxDepChanges, restart : 0..MaxRestarts,
                   recreate : 0..MaxRecreates]

\* The status as its readers see it: which object has the name, its
\* generation, and status.conditions.
Register ==
    INSTANCE StatusRegister WITH
        Types      <- ConditionTypes,
        Owned      <- ValidCondition,
        object     <- [o \in Objects |-> [uid |-> uid[o], generation |-> Len(specs[o])]],
        conditions <- status

\* Status monotonicity, and "Sesame will not modify any other Conditions set
\* in this block" (the mutator of AsStatusUpdate, run by whichever replica
\* believes it leads, however late): every step of the replicas and of the
\* cluster is a step of the register of StatusRegister.  The Valid condition
\* of an object, once shown, is only replaced by a verdict on the same or a
\* newer generation, a write never shows Unknown, and the conditions of
\* other controllers survive every write.
ImplementsStatusRegister == Register!Spec

\* The Valid condition says which generation it is about (ExtensionAccessor
\* records the generation of the object the build held, the mutator stamps
\* it): a condition that reports True names a generation whose spec is valid,
\* even when the object has moved on between the build and the write.
TrueOnlyOfAValidSpec ==
    \A o \in Objects :
        ValidCondition \in DOMAIN status[o] =>
            LET c == status[o][ValidCondition]
            IN  /\ c.status # "Unknown"
                /\ c.observedGeneration \in 1..Len(specs[o])
                /\ c.status = "True" => specs[o][c.observedGeneration] = "good"

\* observedGeneration is a generation the object has had: no condition is
\* ahead of metadata.generation (the mutator stamps the generation a build
\* observed on whatever object now has the name).
StatusNeverAheadOfObject ==
    \A o \in Objects : \A t \in DOMAIN status[o] :
        status[o][t].observedGeneration <= Len(specs[o])

\* What the status should say once nothing changes any more.
StatusCurrent(o) ==
    /\ ValidCondition \in DOMAIN status[o]
    /\ status[o][ValidCondition].observedGeneration = Len(specs[o])
    /\ status[o][ValidCondition].status =
           (IF specs[o][Len(specs[o])] = "good" /\ depOK[o] THEN "True" ELSE "False")

\* Every rejected or accepted resource gets to know: when the cluster stops
\* changing, the Valid condition of every object ends up describing its
\* latest generation and the verdict on it, and stays so (event handler
\* rebuild on change and on election, Send, the status update handler).
\* The mutator lets an older verdict on the same generation through
\* (`currCond.ObservedGeneration > ObservedGeneration` is all it skips), so a
\* leader that lost its lease, or a new one whose informer lags, can put a
\* wrong verdict over the right one; that write is an event for the leader,
\* whose rebuild writes the right one again.
StatusConverges == <>[](\A o \in Objects : StatusCurrent(o))

=============================================================================
