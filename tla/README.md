# Sesame control plane: TLA+ models

Sesame is an ingress controller: it watches a Kubernetes cluster, builds a
routing graph from Ingress, HTTPProxy, Gateway API and ExtensionService
objects, serves the resulting Envoy configuration over xDS, and writes the
verdict on every object back into its status. This directory holds TLA+
models of the parts of that program whose source is in the repository, the
TLC configurations that check them, and `PROJECT.json`, which maps every
definition to the lines it models.

Run a configuration with `tlc -workers 2 -config <file>.cfg <MC module>`.

## The system and what is modelled

| Part | Source | Module | State |
|---|---|---|---|
| Command line, configuration file, SesameConfiguration | `cmd/sesame/serve.go` (`registerServe`, `NewServer`, head of `doServe`, `getDAGBuilder`), `cmd/sesame/servecontext.go` | `ServeConfig` | partly |
| Process life cycle: wiring, manager, xDS server, shutdown | `cmd/sesame/serve.go` (`doServe`, `xdsServer`) | `Serve` | partly |
| Wiring of `doServe` call by call: listener configuration, rate limit service, informers, metrics, health and debug services, Gateway API controllers, status address | `cmd/sesame/serve.go` (`doServe`, `setup...`, `informOnResource`, `AccessLogFormatterExtensions`), `servecontext.go` (`parseDefaultHTTPVersions`), `internal/k8s/clients.go` | `ServeWiring` | modelled |
| TLS of the xDS server | `cmd/sesame/servecontext.go` (`grpcOptions`, `tlsconfig`, `verifyTLSFlags`), `servecontext_test.go` | `XdsTLS` | modelled |
| ExtensionService status: cache entry, status update, leader | `internal/status/extensionstatus.go`, `serve.go` (leader election options) | `ExtensionStatus` | modelled |
| What the status of an ExtensionService promises | `apis/projectsesame/v1alpha1/extensionservice.go` (`ExtensionServiceStatus`) | `StatusRegister` | abstract specification |
| End-to-end deployment harness | `test/e2e/deployment.go` and the suites that call it | `Deployment` | partly |
| Event handler, builder and processors, resource caches, snapshot handler, discovery server | not in the repository's sources | in `Serve` and `ExtensionStatus`, from the specification | partly |
| Match-condition resolver | only `internal/dag/conditions_test.go` | - | not modelled |
| Other API types, generated deep copies, fixtures, test cases | `apis/`, `internal/fixture`, `internal/featuretests`, `*_test.go` | - | not modelled |

How the parts interact. `main` parses the command line twice; the action of
`--config-path` loads the file in between (`ServeConfig`). `NewServer` makes
the controller-runtime manager with or without leader election; `doServe`
arrives at a `SesameConfigurationSpec` (from the resource, or converted from
the serve context), derives the namespaces to watch, makes the builder and
wires informers, event handler, snapshot handler, status writer and xDS server
into the manager (`ServeConfig` up to the builder, `ServeWiring` for the
calls of the wiring one by one, `Serve` from the wiring on, with the wiring
as one step). `xdsServer.Start` makes the gRPC server with the credentials of
`grpcOptions`, and every TLS handshake of an Envoy loads the certificate, the
key and the CA from disk again (`XdsTLS`). Once the manager runs, informers feed the event handler, a rebuild fills
the resource caches and the status cache, every replica serves xDS, and the
leader alone writes status (`Serve` for the xDS side, `ExtensionStatus` for
the status side). The end-to-end harness drives a real cluster from outside
(`Deployment`).

### ServeConfig

A field of the serve context is abstracted to where its value came from:
`"default"`, `"file"`, `"env"` or `"flag"`. That is what the order of
precedence is about, and what the conversions (`ctx.Config = *params`,
`convertToSesameConfigurationSpec`) preserve or lose. The value of
`--root-namespaces` is kept as what `strings.Split` makes of it: a sequence
(`roots`) of one to `MaxRoots` items, each a namespace or the empty string
(`Blank`), which is what an empty value, a leading, a trailing or a doubled
comma yield. `proxyRootNamespaces` turns the one-item sequence `<<"">>` into
no root namespaces and leaves every other sequence as it is, empty items
included.

| Code | Definition |
|---|---|
| flags of `registerServe`, by target | `LeaderElectionFlags`, `ConfigFlags`, `EnvarFlags`, `ContextFlags`, `ActionFlags` |
| kingpin's parse (library; from its documentation) | `SetDefaults`, `SetValues` |
| `parseConfig` | `BothConfigured`, `ParseConfigReturnsEarly`, `LoadedConfig`, the disjuncts of `Parse` |
| the two parses of `main` | `FirstParse`, `SecondParse` |
| `NewServer` | `NewServer`, `ManagerOptions` |
| the structs `serveContext` and `ServerConfig` | `ServeContext` |
| `convertToSesameConfigurationSpec`: the gateway, the policy, the two certificates and the server type it takes from `ctx.Config`, then the literal that is returned | `GatewayConfig`, `PolicyConfig`, `CertificateOf`, `XDSServerType`, `ConvertToSesameConfigurationSpec` |
| `proxyRootNamespaces`, `setMetricsFromConfig` | `ProxyRootNamespaces`, `Blank`, `SetMetricsFromConfig` |
| `doServe`, up to the builder | `DoServe`, `InformerNamespaces`, `DagBuilderConfig` |
| `getDAGBuilder` | `GetDAGBuilder` |

### Serve

One replica: `pc` follows `doServe` (`setup`, `wired`, `started`,
`returned`), `xds` follows `xdsServer.Start` (`idle`, `waiting` for the cache
sync, `serving`, `stopping`, `returned`). The cluster produces events, the
informer stores list them, the event handler takes them in and rebuilds; an
Envoy opens a stream and is answered from the resource caches (server type
`sesame`) or from the snapshot cache (server type `envoy`). The load balancer
status channel and its writer are part of the state because `doServe` sends
on the channel before the manager starts.

The event handler does not rebuild at once. Every event (and the start of
the manager, and the election) calls `Schedule`: the hold-off timer
(`HoldoffDelay`, 100 ms) starts over, the maximum-delay timer
(`HoldoffMaxDelay`, 500 ms) starts only if none is running. Time is explicit:
a `Tick` is 100 ms and takes one unit off both timers, and no tick passes a
timer that has run out, so `Rebuild` is the only step left to the handler
then. The two delays are the values `doServe` puts into
`EventHandlerConfig`; what the handler does with them is taken from the
specification, because the handler is not among the sources. `waited` is a
history variable, the ticks since the oldest event a rebuild has not yet
covered.

### ServeWiring

`doServe` is straight-line code in which nearly every call can end the
process. `DoServe(cfg)` is the sequence of calls a configuration leads to,
put together from the operators that stand for `setupMetrics`, `setupHealth`,
`setupDebugService`, `setupGatewayAPI` and the choice of the source of the
status address; `todo` holds the calls still to make, and one action per kind
of call carries out the head of it.

| Code | Definition |
|---|---|
| `NewServer`, `k8s.NewRestConfig` | `NewServer`, `NewRestConfig` |
| `ParseTimeoutPolicy`, the `ListenerConfig` literal, `parseDefaultHTTPVersions`, `AccessLogFormatterExtensions` | `ListenerConfig`, `ParseDefaultHTTPVersions`, `AccessLogFormatterExtensions` |
| `setupRateLimitService` | `SetupRateLimitService`, `RateLimitConfig` |
| `mgr.Add` (status update handler, event handler, HTTP services, status writer, xDS server, notifier) | `MgrAdd` |
| `informOnResource` with `log.Fatal` | `InformOnResource`, `InformOnDefaultResources` |
| `setupGatewayAPI` | `SetupGatewayAPI`, `RegisterController`, `NeedLeadershipNotification` |
| `setupMetrics`, `setupHealth`, `setupDebugService` | operators of the same names |
| the static status address or the watch on Envoy's Service | `LoadBalancerStatusSource`, `SendStatusAddress` |
| `mgr.Start` | `Start` |

An error that `doServe` returns leaves `pc = "error"`, `log.Fatal` leaves
`pc = "fatal"`; `Restart` is the kubelet starting the container again, with
nothing kept. The ExtensionService of the rate limit service is absent,
present without a timeout policy, with one, or with one that does not parse,
and changes at any time (`ChangeExtensionService`). A parsed list of HTTP
versions comes in any order, as the iteration of a Go map yields it. The
strings of the access log are abstracted to whether they hold the command
operator `REQ_WITHOUT_QUERY`.

### XdsTLS

The three files are generations: a key fits the certificate of its
generation, and a client certificate is accepted by the CA generation that
issued it. A rotation writes certificate, key and CA in separate steps
(`WriteCertificate`, `WriteKey`, `WriteCA`), as the rotation of
`TestServeContextCertificateHandling` does, and the Envoys get certificates of
the new CA in their own time (`Reissue`). `loadConfig` is three actions, one
per read (`LoadCertificate`, `LoadKey`, `ReadCAFile`), run once by the server
at start-up (`GrpcOptions`, `Tlsconfig`) and once per handshake
(`GetConfigForClient`, `Handshake`), for each Envoy on its own. `hello[e]` is
what was on disk when the ClientHello of `e` arrived. A failed first load is
fatal; the process is started again (`Restart`). Without a TLS block, or with
`Insecure`, the server takes every connection (`ConnectPlaintext`).
`AuthenticatedUnlessInsecure` is about the other case: with a TLS block that
does not say `Insecure`, every open session has been through a handshake with
a server certificate and a client CA, whatever the files on disk were at
start-up and whichever of the three `verifyTLSFlags` found missing.

### ExtensionStatus

Two replicas, each with an informer cache that lags the API server, an event
handler with a pending rebuild, and a queue of status updates. A build reads
the informer copy and emits an `ExtensionCacheEntry` (`ConditionFor`,
`ExtensionAccessor`); the leader applies the update to the live object with
the mutator of `AsStatusUpdate` (`Mutate`). Leadership is a lease that is
acquired, released on shutdown (`ReleaseOnCancel`), or lost; with
`StaleLeaders` a replica that lost the lease goes on writing until it is
told. Objects change generation, are deleted and created again; the Service
an ExtensionService targets comes and goes.

A write that changes the status of an object is an update of the object, and
`informOnResource` hands every update of an ExtensionService to the event
handler: `WriteStatus` puts the object into `unseen` for every replica, and
`DeliverExtension` delivers it like a change of the spec and asks for a
rebuild. A write that changes nothing is no event, so a leader whose verdict
is already shown comes to rest. The informers, the election and the restart
of a replica are steps of controller-runtime and of the cluster; they are
modelled from the specification and marked so in `PROJECT.json`, as are the
build and the status update handler.

`StatusRegister` is the abstract specification of the same status: a register
per object with one owned condition type, on which `Report` writes a verdict
on some generation unless a verdict on a newer one is shown, `Foreign` sets a
condition of another type, and `Edit` and `Replace` change the object. It has
no replicas, caches, queues or leaders. `ExtensionStatus` instantiates it
(`Register`) with the generation as the number of specs so far and the
conditions as the live status; `ImplementsStatusRegister` is its
specification, checked as a property of `ExtensionStatus`.

### Deployment

A suite is a sequence of calls on one `Deployment` struct (`Program`): the
`Ensure...` and `Delete...` sequences, `StartLocalSesame`/`StopLocalSesame`,
and the three waits. Every call carries the Ginkgo node it is made in (`In`):
`BeforeSuite`, `JustBeforeEach`, `AfterEach` and `AfterSuite` as
`ingress_test.go` has them, and the one `It` of the upgrade suite. A call
that fails does not end the suite: `AfterFailure` leaves out the rest of its
node and goes on with what Ginkgo still runs (after a `BeforeSuite` only the
`AfterSuite`, after a `JustBeforeEach` the `AfterEach` of the same test and
then the next test), and `failed` records the node and the reason of every
failure in order.

| Code | Definition |
|---|---|
| `ensureResource`, `EnsureDeleted`, `EnsureCertgenJob` | `EnsureResource`, `EnsureDeleted`, `ResourceVersionAfterDeletion`, `EnsureCertgenJob` |
| `EnsureResourcesForLocalSesame`, `DeleteResourcesForLocalSesame` and their in-cluster counterparts | sequences of the same names, `Bootstrap`, `LocalContainers`, `LocalDaemonSet`, `SetImage` |
| `StartLocalSesame`: the SesameConfiguration or the file is made, then the process is started; every error returns a nil session and an empty name | `StartLocalSesame` (started; made but not started; nothing made), `Configured` |
| `StopLocalSesame`: delete the resource, terminate the session, remove the file, returning at the first error | `StopLocalSesame` (stopped; the deletion of `""` refused; `Terminate` on a nil session) |
| the three waits | `WaitForSesameDeploymentUpdated`, `WaitForEnvoyDaemonSetOutOfDate`, `WaitForEnvoyDaemonSetUpdated`, `Poll` |
| the hooks of the suites | `LocalTest`, `InclusterTest`, `UpgradeTest`, `Program` |

`sesame` counts the processes (`running`) and the configurations (`configs`)
the harness has started and not stopped, and remembers whether the test holds
a session (`session`) and whether the configuration is a resource or a file
(`crd`). An object is abstracted to whether it exists or is being
deleted; the copy of it in the struct to whether it carries a resourceVersion
(`held`); the status of the Envoy DaemonSet to the comparisons the waits make
(`observed`, `updated`, `available`). The cluster takes steps of its own:
deletions finish (`Finalize`), the DaemonSet controller sees a new template,
replaces pods and sees them ready, the Deployment controller rolls the Sesame
pods, a running Sesame creates the leader election objects. These steps are
modelled from the behaviour of Kubernetes, not from this repository. The
hooks of the in-cluster suite are not among the sources; `InclusterTest` is
what the `startSesameDeployment` parameter and the comment of `EnsureDeleted`
("ensure object can be used again") describe. Every wait is a
`wait.PollImmediate` with a timeout: `Poll` returns when the condition holds
and fails the test with a timeout when it does not. The length of the timeout
is not modelled, so a poll may give up at any moment the condition does not
hold; either way it ends, and with it the suite, whatever the cluster does
(`SuiteEnds`).

## Runs

| Run | Module, configuration | Result | What it shows |
|---|---|---|---|
| `status_safety` | `MCExtensionStatus`, `ExtensionStatusSafety.cfg` | pass | `ExtensionStatus` implements `StatusRegister`: every step of two replicas, with stale leaders and recreated objects, is a step of the register or changes nothing a reader sees. The Valid condition never goes back to an older generation and other controllers' conditions survive every write. |
| `status_liveness` | `MCExtensionStatus`, `ExtensionStatusLiveness.cfg` | pass | With leadership handed over on shutdown or taken from a leader that outlives its lease, the status ends up as the verdict on the newest generation; a True condition is only ever about a valid spec. An older verdict on the same generation can replace the right one (the mutator skips only what is older by generation), and the leader, which gets that write as an event, writes the right one again. |
| `status_recreate` | `MCExtensionStatus`, `ExtensionStatusRecreate.cfg` | violation | An update addressed by name lands on an object created after the build, with the old object's generation. |
| `serve_lifecycle` | `MCServe`, `ServeSesame.cfg` | pass | Start-up does not hang on the status channel, the Envoys of a replica that leads converge to the configuration of the cluster whenever the election was won, shutdown completes; and no event waits longer than the maximum delay for its rebuild, however many events follow it. |
| `serve_partial` | `MCServe`, `ServePartial.cfg` | violation | After the cache sync an Envoy can be sent a configuration built from part of the initial objects. |
| `serve_follower` | `MCServe`, `ServeFollower.cfg` | violation | A replica that is never elected serves xDS and builds nothing: its Envoys stay without configuration. |
| `serve_wiring` | `MCServeWiring`, `ServeWiring.cfg` | pass | Whatever the configuration, a started manager has exactly one service answering `/health` and `/healthz`, at the health address; and a process whose configuration can be served gets its manager started, through refused calls, a rate limit ExtensionService that was missing or wrong at first, and restarts. |
| `xds_tls` | `MCXdsTLS`, `XdsTLS.cfg` | pass | Under rotation a handshake is served with a certificate and a CA no older than those on disk when it began; a server with a TLS block that is not `Insecure` has no session that was not authenticated; and every Envoy whose certificate is of the CA on disk gets connected in the end, torn reads and a fatal start-up notwithstanding. |
| `serve_config_precedence` | `MCServeConfig`, `ServeConfigPrecedence.cfg` | pass | A flag on the command line wins over the file through both parses; the informers cover the namespace of every secret the builder is configured with, for every list of root namespaces, empty items included. |
| `serve_config_election` | `MCServeConfig`, `ServeConfigElection.cfg` | violation | Leader election settings of the file are replaced by the flags' defaults at the second parse. |
| `serve_config_ingress_policy` | `MCServeConfig`, `ServeConfigIngressPolicy.cfg` | violation | `policy.applyToIngress` never reaches the Ingress processor. |
| `deployment_suites` | `MCDeployment`, `DeploymentSuites.cfg` | pass | A creation is refused for a stale resourceVersion only after a deletion that timed out; nothing exists without what it depends on, whichever calls failed and whatever the clean-up nodes then deleted; a passed upgrade test has really seen the rollout; every sesame, configuration or Sesame Deployment left to the next test is accounted for by an `AfterEach` that failed; and every suite comes to its end: no wait outlasts its timeout. |

The violations are recorded under `findings` in `PROJECT.json`, each with the
line it is about.

Every property of a passing run has a mutant in `PROJECT.json`: a definition of
the model changed the way a plausible bug would change the code (a dropped
staleness check, an unbuffered channel, a missing reset of the
resourceVersion, a wait that is skipped or that has no timeout, a sesame
stopped at the end of the node that started it, a maximum
delay that every event starts over, credentials left out when a file is
missing), under which TLC finds the property violated.

## Bounds

* `ExtensionStatus`: two replicas (one leader, one that takes over), one
  object, two generations, one recreation, one restart or lease expiry, one
  pending update per replica (`MaxPending`; a build waits for the write of
  the one before). Every scenario of the properties needs two writers and two
  versions of one object; a second object adds only independent copies. One
  expiry is what it takes for a deposed leader and its successor to write
  side by side, one restart for a hand-over with updates lost.
  `SYMMETRY` over the replicas is used in the safety runs only.
* `Serve`: two Envoys, two initial objects and, in `ServeSesame.cfg`, three
  later changes (`MaxChanges`; two in `ServePartial.cfg`). Two objects are
  what it takes for a build to cover part of the cluster; two Envoys for one
  to connect before and one after a build. Five events and the election are
  six calls of `Schedule`, one per tick: the shortest stream of events that
  would hold a rebuild back past `HoldoffMaxDelay` (five ticks) if the
  maximum delay were started over by each of them. `HoldoffDelay = 1` and
  `HoldoffMaxDelay = 5` are the code's 100 ms and 500 ms in ticks of 100 ms.
* `ServeWiring`: the configurations vary what the clients and the listener
  are made of (kubeconfig, timeouts, HTTP versions, access log, rate limit)
  with the services at their defaults, and the services, informers and
  controllers (rate limit, health address and port, Gateway, root namespaces,
  status address, Envoy's Service namespace) with the listener at its
  default: the two groups do not meet in any step. The lists of HTTP versions
  have a repetition and an unknown version. `MaxFailures = 1`: one call is
  refused for reasons outside the process, at any place; the failures the
  configuration or the ExtensionService cause are not bounded.
* `XdsTLS`: two Envoys, certificate and CA of generation 1 or 2 (one rotation
  of each), starting from a disk with or without files. Two Envoys are what it
  takes for one handshake to fall into the rotation while the other is
  connected; a second rotation repeats the first.
* `ServeConfig`: every command line, environment and file over one flag of
  each kind (with a default, without, with an environment variable, context
  flags), the file-only fields that reach the builder, two namespaces and two
  SesameConfiguration resources, and every value of `--root-namespaces` of
  one or two items (`MaxRoots = 2`): two items are what it takes for an empty
  item beside a namespace. `Init` enumerates all of them (about 860,000
  states).
* `Deployment`: the three kinds of suite, two tests each (`Tests = 2`). The
  second test is the one that meets what the first left in the struct and in
  the cluster, and what a failed `AfterEach` left running. With every call
  able to fail and the suite going on after it, the run has about 78,600
  states.
  Leftovers of an earlier suite (the namespace, the bootstrap ConfigMap, the
  two CRDs no deletion removes) are enumerated in `Init`.

## Fairness

* `ExtensionStatus.FairSpec`: weak fairness of each replica's own steps
  (informer delivery, build, write), of the election while the lease is free,
  and of telling a deposed leader. These are goroutines and client-go loops
  that run as long as the process does. Changes of the cluster and restarts
  are not fair: nothing obliges them to happen.
* `Serve.FairSpec`: weak fairness of the steps of the process (wiring, manager
  start, informers, event handler, rebuild, xDS serve and stop, answers to
  Envoys) and of `Tick`: time passes while a timer runs. The election is
  not fair: `NewServer` configures it and nothing obliges a replica to win.
* `ServeWiring.FairSpec`: weak fairness of the process's next call and of the
  restart: `doServe` is one goroutine that runs to `mgr.Start`, and the
  Deployment restarts a container that exited. The ExtensionService changes
  without fairness.
* `XdsTLS.FairSpec`: weak fairness of the start-up, of the restart after
  `log.Fatal`, of each connection's handshake on its own (gRPC runs one
  goroutine per connection, so one Envoy's retries cannot starve another's
  handshake), of each Envoy's next attempt, and of `WriteKey` (who wrote a
  certificate writes its key). New rotations and reissued client certificates
  are not fair.
* `Deployment.FairSpec`: weak fairness of the harness alone (`Harness`): the
  test process makes its next call, and a poll returns or reaches its
  timeout. No step of the cluster is fair; `SuiteEnds` holds even when
  the cluster never moves.
* `ServeConfig` states safety only. Its behaviours end (the configuration is
  built), and so do those of `Deployment` (the suite is over), of
  `ExtensionStatus`, whose budget of changes runs out, and of `ServeWiring`,
  which ends where `mgr.Start` takes over: their configurations do not check
  deadlock. `XdsTLS` and `Serve` are checked for deadlock.

## Hazards

`PROJECT.json` lists, under `hazards`, what is hard to reach by a test in this
code and which property covers it. Those without a property, and why:

* empty items of `--root-namespaces` (`servecontext.go:234`): `ServeConfig`
  reaches the configurations in which `""` is a root namespace of the builder
  and a namespace of the informers; the code and its tests say nothing of
  what such a value should mean;
* a connection authenticated under a CA that was rotated out afterwards stays
  open (`servecontext.go:208`): `XdsTLS` reaches the state, the code makes no
  claim about it;
* the rate limit ExtensionService is read once, at start-up
  (`serve.go:565`): `ServeWiring` has the later change, what the listener
  cache does with the value is outside the sources;
* the upgrade suite reading the old Envoy Service into the struct it then
  writes back (`upgrade_test.go:52`);
* the leader election Lease and ConfigMap being deleted right after the
  Sesame Deployment (`deployment.go:786`): a pod that is still terminating
  creates them again. `Deployment` takes the pods to be gone with their
  object; when Kubernetes collects them is not in the repository;
* the wait of `JustBeforeEach` returning at once from the second test on
  (`ingress_test.go:84`): the Envoy pods are available since the test before.
  `Deployment` reaches the wait that passes with no sesame running; what the
  Envoys hold by then is not in the model;
* the snapshotter of the server type `envoy` being registered after a first
  build (`serve.go:628`), below;
* a SesameConfiguration without `xdsServer.tls` starting a plaintext server
  although `--insecure` was not asked for (`servecontext.go:154`): `XdsTLS`
  reaches the state; whether validation rejects such a resource is decided
  outside the sources. `AuthenticatedUnlessInsecure` is about a TLS block
  that is there;
* `WaitForEnvoyDaemonSetOutOfDate` started after the rollout has finished
  (`deployment.go:360`): it can only time out, and an upgrade that went well
  is reported as failed. `Deployment` reaches it; `SuiteEnds` says no more
  than that the wait ends.

At `deployment.go:646`, `NoSesameOutlivesItsTest` counts what the tests left
behind against the `AfterEach` nodes that failed: `StopLocalSesame` returns
before it terminates the process when the deletion is refused, and panics on
the nil session of a start that failed, and each time the `AfterEach` has
failed, so that no process, configuration or Deployment reaches the next
test unreported. At `deployment.go:834`, `EveryCreateAccepted` names the one
way a create is refused for a resourceVersion: a deletion whose poll timed
out returns before the resourceVersion is cleared, and the create of the
next test is refused if the object is gone by then.

`serve_lifecycle` checks `LeaderEnvoysConverge` for the server type `sesame`:
the Envoys of a replica that leads. `xdsServer.NeedLeaderElection` is false,
so a replica that never leads serves xDS too (`serve.go:610`), and the
specification has a follower build nothing: `serve_follower` shows the
streams of such a replica staying empty (`EnvoysConverge`). With the server
type `envoy` the snapshotter is registered in `xdsServer.Start`
(`serve.go:628`): a build that ends before that publishes to nobody, and the
snapshot cache stays empty until the resource caches change again. `Serve`
has both server types and reaches that state; the runs instantiate the type
`sesame`, the default, and no convergence is claimed for the other, because
what `AddSnapshotter` does with the last snapshot is in `internal/xdscache`,
which is not among the sources.

## Not modelled, and why

* The routing graph and the Envoy resources made from it: data, of a size TLC
  cannot enumerate usefully; the feature tests cover single inputs
  (`internal/featuretests/v3/httpproxy.go` holds constructors of match
  conditions for them).
* The contents served by the HTTP endpoints (metrics, health, debug), the
  gRPC transport, X.509 and the TLS record protocol, the Kubernetes client:
  libraries. Which services exist and what a handshake loads is modelled.
* `zz_generated.deepcopy.go`: generated copies of the API types, with no
  behaviour of their own. `sesamedeployment.go`: types without a controller
  among the sources.
* The regular expression of `AccessLogFormatterExtensions`: abstracted to
  whether a string holds the command operator. The grammar it would have to
  be compared with is that of Envoy's access log format, which is not in the
  repository.
* The schema of `ExtensionService` (`extensionservice.go`, the kubebuilder
  markers) and the processor that judges a spec: the API server and the
  processor enforce them, and neither is among the sources. The model has a
  spec as valid or not.
* `DeepCopy` in `AsStatusUpdate`: the mutator works on a copy, so the cached
  object is never changed by a write. The model's `Mutate` is a function of
  its argument; aliasing cannot be expressed in it, and is ruled out by the
  copy.
* `k8s.NewCoreClient`: `NewServer` and `doServe` do not call it.
* `EnsureRateLimitResources` and the fixtures of the end-to-end tests:
  sequences of `ensureResource` calls with nothing of their own.
* `StartKubectlPortForward` and `StopKubectlPortForward` of the infra suite:
  a child process of the test with no state in the cluster. The nodes of the
  local suite are modelled as `ingress_test.go` has them, without it.
* A local sesame that exits by itself after it was started, and the pods of a
  deleted workload outliving its object: the first is the process under test
  failing, the second the garbage collection of Kubernetes.
* The match-condition resolver: its implementation
  (`internal/dag/conditions.go`) is not among the sources, only its tests
  are. It is a pure function of one include chain; a model could be written
  from the specification alone and compared with nothing of this repository
  but the cases the test file already runs.

## Left for later

`XdsTLS` composed with `Serve`: the fatal first load of the certificates ends
the replica that `Serve` has started, and with it its leadership; the two
modules share `xdsServer.Start` and nothing else so far.

An abstract xDS view that `Serve` would implement was considered and left
out: `LeaderEnvoysConverge` already states what the view would promise, and a
mapping that projects `Serve` onto the configuration each Envoy holds would
hold by the shape of the model.
