------------------------------- MODULE Serve -------------------------------
(***************************************************************************)
(* One process of `sesame serve`, from doServe to the return of the        *)
(* manager (cmd/sesame/serve.go).                                          *)
(*                                                                         *)
(* doServe wires the parts together and registers them with the manager    *)
(* as runnables; the manager starts the informers, the runnables that do   *)
(* not need leadership (the event handler, the xDS server) and, once the   *)
(* election is won, those that do (the status writers, the leadership      *)
(* notifier).  The parts then run side by side:                            *)
(*                                                                         *)
(*   informers --> event handler --> DAG --> resource caches --+           *)
(*                                        snapshot handler <---+           *)
(*   xDS server: waits for the informers to sync, registers its            *)
(*   snapshotter, serves the streams of the Envoys                         *)
(*                                                                         *)
(* The contents of the cluster are abstracted to a count of events: the    *)
(* first InitialObjects of them are the objects that exist when the        *)
(* process starts, the others are later changes.  A DAG, a resource cache, *)
(* a snapshot or a discovery response is identified by the number of       *)
(* events the object cache held when it was built.                         *)
(***************************************************************************)
EXTENDS Naturals, Sequences, FiniteSets

CONSTANTS
    Envoys,               \* the proxies that open discovery streams
    InitialObjects,       \* the objects in the cluster when the process starts
    MaxChanges,           \* bound: changes to the cluster afterwards
    ServerType,           \* XDSServerConfig.Type
    LeaderElection,       \* FALSE: --disable-leader-election
    StaticStatusAddress   \* TRUE: Ingress.StatusAddress is configured

EnvoyServerType  == "envoy"
SesameServerType == "sesame"

ASSUME /\ InitialObjects \in Nat \ {0} /\ MaxChanges \in Nat
       /\ ServerType \in {EnvoyServerType, SesameServerType}
       /\ LeaderElection \in BOOLEAN /\ StaticStatusAddress \in BOOLEAN

Total == InitialObjects + MaxChanges

VARIABLES
    pc,            \* where doServe is: "setup", "wired", "started", "returned"
    ctxDone,       \* the context of the manager is cancelled
    elected,       \* the manager has won the election (or runs without one)
    cluster,       \* events the API server has produced
    listed,        \* events the informer stores have taken in
    handled,       \* events the event handler has put in its object cache
    pending,       \* the event handler has a rebuild pending (its timers run)
    holdoff,       \* what is left of the holdoff timer, in ticks
    maxDelay,      \* what is left of the maximum delay timer, in ticks
    waited,        \* history: ticks since the pending rebuild was first asked for
    built,         \* the object cache the resource caches were last built from, <<>> if never
    snapshotters,  \* the snapshotters registered with the snapshot handler
    snapshotted,   \* the contents the snapshot handler last made a snapshot of
    held,          \* the snapshot in the xDS server's snapshot cache, <<>> if none
    xds,           \* the xDS server: "idle", "waiting", "serving", "stopping", "returned"
    open,          \* the Envoys with an open stream
    sent,          \* sent[e]: the configurations sent on the stream of e, in order
    lbStatus,      \* the channel to the load balancer status writer
    lbKnown        \* the load balancer status writer has the address

mgrVars   == <<pc, ctxDone, elected>>
timers    == <<pending, holdoff, maxDelay, waited>>
eventVars == <<cluster, listed, handled, timers, built>>
snapVars  == <<snapshotters, snapshotted, held>>
xdsVars   == <<xds, open, sent>>
lbVars    == <<lbStatus, lbKnown>>
vars      == <<mgrVars, eventVars, snapVars, xdsVars, lbVars>>

V3Cache == "v3cache"     \* the snapshot cache of the go-control-plane server

-----------------------------------------------------------------------------
(* doServe *)

\* The channel to the status writer, faulty: made without a buffer.
LBStatusUnbuffered == 0

\* lbStatus is made with room for one address.
LBStatusCapacity == 1

\* doServe up to mgr.Start: the parts are made and registered.  A configured
\* status address is put in the channel of the load balancer status writer,
\* which is not running yet.
Wire ==
    /\ pc = "setup"
    /\ IF StaticStatusAddress
       THEN /\ Len(lbStatus) < LBStatusCapacity
            /\ lbStatus' = Append(lbStatus, "address")
       ELSE UNCHANGED lbStatus
    /\ pc' = "wired"
    /\ UNCHANGED <<ctxDone, elected, eventVars, snapVars, xdsVars, lbKnown>>

\* doServe returns an error before anything was started (the configuration
\* cannot be read or does not validate, a registration fails).
SetupFails ==
    /\ pc = "setup"
    /\ pc' = "returned"
    /\ UNCHANGED <<ctxDone, elected, eventVars, snapVars, xdsVars, lbVars>>

\* xdsServer.NeedLeaderElection, faulty: the xDS server waits for the election.
XdsNeedsLeaderElection == TRUE

\* xdsServer.NeedLeaderElection: every replica serves xDS.
XdsNeedLeaderElection == FALSE

\* EventHandlerConfig.HoldoffDelay and HoldoffMaxDelay, in ticks of 100ms.
HoldoffDelay    == 1
HoldoffMaxDelay == 5

\* The maximum delay timer after a request, faulty: restarted like the holdoff.
MaxDelayRestarted(running, left) == HoldoffMaxDelay

\* The maximum delay timer after a request for a rebuild: armed if it is not
\* running, left alone if it is.
MaxDelayAfterEvent(running, left) == IF running THEN left ELSE HoldoffMaxDelay

\* A rebuild is asked for: the holdoff starts again, the maximum delay does
\* not.
Schedule ==
    /\ pending' = TRUE
    /\ holdoff' = HoldoffDelay
    /\ maxDelay' = MaxDelayAfterEvent(pending, maxDelay)
    /\ waited' = IF pending THEN waited ELSE 0

\* mgr.Start: the informers and the runnables that need no leadership start.
\* Without leader election the manager counts as elected from the start.
ManagerStart ==
    /\ pc = "wired"
    /\ pc' = "started"
    /\ elected' = ~ LeaderElection
    /\ IF LeaderElection THEN UNCHANGED timers ELSE Schedule
    /\ xds' = IF XdsNeedLeaderElection /\ LeaderElection THEN "idle" ELSE "waiting"
    /\ UNCHANGED <<ctxDone, cluster, listed, handled, built, snapVars, open, sent, lbVars>>

Running == pc = "started" /\ ~ ctxDone

-----------------------------------------------------------------------------
(* The cluster and the informers *)

\* Something in the cluster changes.
ClusterChanges ==
    /\ cluster < Total
    /\ cluster' = cluster + 1
    /\ UNCHANGED <<mgrVars, listed, handled, timers, built, snapVars, xdsVars, lbVars>>

\* The informers take in some of what the API server has (the initial list,
\* then the watch).
InformerLists ==
    /\ Running
    /\ \E n \in (listed + 1)..cluster : listed' = n
    /\ UNCHANGED <<mgrVars, cluster, handled, timers, built, snapVars, xdsVars, lbVars>>

\* WaitForCacheSync: the stores of the informers hold the initial list.
CacheSynced == listed >= InitialObjects

-----------------------------------------------------------------------------
(* The event handler, the builder and the snapshot handler *)

\* The event handler takes events from the informers into its object cache
\* and asks for a rebuild.
HandleEvent ==
    /\ Running
    /\ \E n \in (handled + 1)..listed : handled' = n
    /\ Schedule
    /\ UNCHANGED <<mgrVars, cluster, listed, built, snapVars, xdsVars, lbVars>>

\* A tick of the clock while a rebuild is pending.  A timer that has run out
\* fires before the clock goes on.
Tick ==
    /\ Running /\ pending
    /\ holdoff > 0 /\ maxDelay > 0
    /\ holdoff' = holdoff - 1 /\ maxDelay' = maxDelay - 1
    /\ waited' = waited + 1
    /\ UNCHANGED <<mgrVars, cluster, listed, handled, pending, built, snapVars, xdsVars, lbVars>>

\* Refresh of the snapshot handler: a snapshot of the resource caches goes to
\* every registered snapshotter, if the caches changed since the last one.
Refreshed(contents) ==
    IF contents = snapshotted
    THEN UNCHANGED <<snapshotted, held>>
    ELSE /\ snapshotted' = contents
         /\ held' = IF V3Cache \in snapshotters THEN contents ELSE held

\* The holdoff or the maximum delay runs out.  The leader builds the DAG from
\* the object cache, the observers update the resource caches, the snapshot
\* handler refreshes.  A follower keeps its object cache and builds nothing.
Rebuild ==
    /\ Running /\ pending
    /\ holdoff = 0 \/ maxDelay = 0
    /\ pending' = FALSE /\ holdoff' = 0 /\ maxDelay' = 0 /\ waited' = 0
    /\ IF elected
       THEN /\ built' = <<handled>>
            /\ Refreshed(<<handled>>)
       ELSE UNCHANGED <<built, snapshotted, held>>
    /\ UNCHANGED <<mgrVars, cluster, listed, handled, snapshotters, xdsVars, lbVars>>

-----------------------------------------------------------------------------
(* Leadership *)

\* The election is won: the manager starts the runnables that need it.  The
\* notifier tells the event handler, which schedules a rebuild.
Elect ==
    /\ Running /\ LeaderElection /\ ~ elected
    /\ elected' = TRUE
    /\ Schedule
    /\ xds' = IF xds = "idle" THEN "waiting" ELSE xds
    /\ UNCHANGED <<pc, ctxDone, cluster, listed, handled, built, snapVars, open, sent, lbVars>>

\* The load balancer status writer, started on election, takes the address.
ReceiveLBStatus ==
    /\ Running /\ elected
    /\ lbStatus # <<>>
    /\ lbStatus' = Tail(lbStatus)
    /\ lbKnown' = TRUE
    /\ UNCHANGED <<mgrVars, eventVars, snapVars, xdsVars>>

-----------------------------------------------------------------------------
(* The xDS server *)

\* What the server answers from, faulty: always the snapshot cache.
OfferedFromSnapshotCache == held

\* What the server has to offer a stream: the snapshot in the snapshot cache
\* (type envoy) or the resource caches themselves (type sesame).
Offered == IF ServerType = EnvoyServerType THEN held ELSE built

\* xdsServer.Start once the informers have synced: the server is made, the
\* snapshotter registered (type envoy), the address listened on.  Listen may
\* fail, and then Start returns the error and the manager stops.
XdsServe ==
    /\ Running /\ xds = "waiting" /\ CacheSynced
    /\ snapshotters' = IF ServerType = EnvoyServerType
                       THEN snapshotters \cup {V3Cache} ELSE snapshotters
    /\ \/ xds' = "serving" /\ UNCHANGED ctxDone
       \/ xds' = "returned" /\ ctxDone' = TRUE
    /\ UNCHANGED <<pc, elected, eventVars, snapshotted, held, open, sent, lbVars>>

\* The context is cancelled while Start waits for the informers: Start
\* returns an error.
XdsSyncAborted ==
    /\ ctxDone /\ xds \in {"idle", "waiting"}
    /\ xds' = "returned"
    /\ UNCHANGED <<mgrVars, eventVars, snapVars, open, sent, lbVars>>

\* An Envoy opens a stream and subscribes.
Connect(e) ==
    /\ xds = "serving" /\ e \notin open
    /\ open' = open \cup {e}
    /\ sent' = [sent EXCEPT ![e] = <<>>]
    /\ UNCHANGED <<mgrVars, eventVars, snapVars, xds, lbVars>>

\* What the stream of e was sent last, <<>> if nothing yet.
LastSent(e) == IF sent[e] = <<>> THEN <<>> ELSE <<sent[e][Len(sent[e])]>>

\* The staleness of a stream, faulty: the last answer is not looked at.
StaleWhateverSent(e) == Offered # <<>>

\* A stream is stale when the server has something to offer that it was not
\* sent last.
Stale(e) == Offered # <<>> /\ LastSent(e) # Offered

\* The server answers the pending request of a stream that has not got what
\* it has to offer.
Respond(e) ==
    /\ xds = "serving" /\ e \in open
    /\ Stale(e)
    /\ sent' = [sent EXCEPT ![e] = Append(@, Offered[1])]
    /\ UNCHANGED <<mgrVars, eventVars, snapVars, xds, open, lbVars>>

\* Stopping the server, faulty: GracefulStop, which waits for the streams.
OpenAfterGracefulStop(streams) == streams

\* grpcServer.Stop tears every session down.
OpenAfterStop(streams) == {}

\* The goroutine of Start sees the context cancelled and stops the server;
\* Serve returns when no session is left.
XdsStop ==
    /\ ctxDone /\ xds \in {"serving", "stopping"}
    /\ open' = OpenAfterStop(open)
    /\ xds' = IF open' = {} THEN "returned" ELSE "stopping"
    /\ UNCHANGED <<mgrVars, eventVars, snapVars, sent, lbVars>>

-----------------------------------------------------------------------------
(* Shutdown *)

\* SIGTERM or SIGINT: the signal handler cancels the context.
Signal ==
    /\ Running
    /\ ctxDone' = TRUE
    /\ UNCHANGED <<pc, elected, eventVars, snapVars, xdsVars, lbVars>>

\* mgr.Start returns when the runnables have; doServe returns with it.
ManagerReturns ==
    /\ pc = "started" /\ ctxDone /\ xds = "returned"
    /\ pc' = "returned"
    /\ UNCHANGED <<ctxDone, elected, eventVars, snapVars, xdsVars, lbVars>>

\* The process has exited.
Exited ==
    /\ pc = "returned"
    /\ UNCHANGED vars

-----------------------------------------------------------------------------

Init ==
    /\ pc = "setup" /\ ctxDone = FALSE /\ elected = FALSE
    /\ cluster = InitialObjects /\ listed = 0 /\ handled = 0
    /\ pending = FALSE /\ holdoff = 0 /\ maxDelay = 0 /\ waited = 0
    /\ built = <<>>
    /\ snapshotters = {} /\ snapshotted = <<>> /\ held = <<>>
    /\ xds = "idle" /\ open = {} /\ sent = [e \in Envoys |-> <<>>]
    /\ lbStatus = <<>> /\ lbKnown = FALSE

Process ==
    \/ Wire \/ ManagerStart
    \/ InformerLists \/ HandleEvent \/ Tick \/ Rebuild
    \/ ReceiveLBStatus
    \/ XdsServe \/ XdsSyncAborted \/ XdsStop
    \/ \E e \in Envoys : Respond(e)
    \/ ManagerReturns

Environment ==
    \/ SetupFails
    \/ ClusterChanges
    \/ Elect
    \/ \E e \in Envoys : Connect(e)
    \/ Signal
    \/ Exited

Next == Process \/ Environment

Spec == Init /\ [][Next]_vars

\* The process takes its steps.  It may be that Listen never works, that the
\* election is never won: only the steps of the process itself are fair, and
\* of XdsServe the one where Listen works.
Fairness ==
    /\ WF_vars(Wire) /\ WF_vars(ManagerStart)
    /\ WF_vars(InformerLists) /\ WF_vars(HandleEvent)
    /\ WF_vars(Tick) /\ WF_vars(Rebuild)
    /\ WF_vars(ReceiveLBStatus)
    /\ WF_vars(XdsServe /\ xds' = "serving")
    /\ WF_vars(XdsSyncAborted) /\ WF_vars(XdsStop)
    /\ \A e \in Envoys : WF_vars(Respond(e))
    /\ WF_vars(ManagerReturns)

FairSpec == Spec /\ Fairness

-----------------------------------------------------------------------------
(* Properties *)

Contents == 0..Total

TypeOK ==
    /\ pc \in {"setup", "wired", "started", "returned"}
    /\ ctxDone \in BOOLEAN /\ elected \in BOOLEAN
    /\ cluster \in InitialObjects..Total
    /\ listed \in 0..cluster /\ handled \in 0..listed
    /\ built \in {<<>>} \cup {<<c>> : c \in 0..handled}
    /\ pending \in BOOLEAN
    /\ holdoff \in 0..HoldoffDelay /\ maxDelay \in 0..HoldoffMaxDelay
    /\ waited \in Nat
    /\ snapshotters \subseteq {V3Cache}
    /\ snapshotted \in {<<>>} \cup {<<c>> : c \in Contents}
    /\ held \in {<<>>} \cup {<<c>> : c \in Contents}
    /\ xds \in {"idle", "waiting", "serving", "stopping", "returned"}
    /\ open \subseteq Envoys
    /\ sent \in [Envoys -> UNION {[1..n -> Contents] : n \in 0..(Total + 1)}]
    /\ lbStatus \in {<<>>, <<"address">>}
    /\ lbKnown \in BOOLEAN

\* doServe gets to mgr.Start or returns an error: it does not hang on the
\* status address it puts in the channel of a writer that is not running yet
\* (the buffer of lbStatus).
StartupCompletes == <>(pc # "setup")

\* The streams have been sent the configuration of the cluster as it is.
Configured == \A e \in open : LastSent(e) = <<cluster>>

\* Every Envoy with a stream ends up with the configuration of the cluster as
\* it is, once the cluster stops changing, on whichever replica its stream is:
\* xdsServer.NeedLeaderElection returns false, so a replica serves xDS
\* whether it leads or not.
EnvoysConverge == <>[]Configured

\* The same of the replica that leads, whenever it came to lead: what it
\* took into its object cache as a follower is built on election, and what
\* changes later within the holdoff (informers, event handler, rebuild, the
\* resource caches or the snapshot the xDS server answers from).
LeaderEnvoysConverge == <>[](elected => Configured)

\* However the events keep coming, a rebuild that was asked for is not put
\* off for longer than HoldoffMaxDelay: an event while one is pending starts
\* the holdoff again and leaves the maximum delay running (the event handler
\* doServe makes with 100ms and 500ms).
RebuildWithinMaxDelay == waited <= HoldoffMaxDelay

\* After the context is cancelled the process exits: the xDS server does not
\* wait for the requests the Envoys keep pending (grpcServer.Stop in
\* xdsServer.Start).
ShutdownCompletes == ctxDone ~> (pc = "returned")

\* "waiting for informer caches to sync": what the xDS server sends an Envoy
\* covers at least the objects that were in the cluster when the process
\* started; a configuration built from part of them would drop routes that
\* exist.
NeverServesPartialConfiguration ==
    \A e \in Envoys : \A i \in DOMAIN sent[e] : sent[e][i] >= InitialObjects

=============================================================================
