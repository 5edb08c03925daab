----------------------------- MODULE ServeWiring -----------------------------
(***************************************************************************)
(* What `sesame serve` registers with the manager before it starts it      *)
(* (cmd/sesame/serve.go: NewServer, doServe from the listener              *)
(* configuration on, the setup... functions; internal/k8s/clients.go).     *)
(*                                                                         *)
(* doServe is a sequence of calls, each of which may end the process: an   *)
(* error that doServe returns, or log.Fatal where an informer or a         *)
(* controller cannot be made.  DoServe gives the calls a configuration     *)
(* leads to; the actions carry out the next one.  A process that ended is  *)
(* started again by its Deployment, and what it read from the cluster the  *)
(* first time (the ExtensionService of the rate limit service) may have    *)
(* changed by then.  Serve has all of this as the two steps Wire and       *)
(* SetupFails.                                                             *)
(***************************************************************************)
EXTENDS Naturals, Sequences, FiniteSets, SequencesExt

CONSTANTS
    HTTPVersionLists,   \* the values of Envoy.DefaultHTTPVersions explored
    Configs,            \* the configurations explored
    MaxFailures         \* bound: calls that fail for reasons outside the process

VARIABLES
    config,             \* the SesameConfigurationSpec and the client flags
    extensionService,   \* the ExtensionService of the rate limit service, in the cluster
    pc,                 \* "new", "setup", "started", "error" or "fatal"
    todo,               \* the calls doServe has still to make
    restConfig,         \* where the client configuration came from, <<>> if not made
    listenerConfig,     \* xdscache_v3.ListenerConfig, as far as it is computed here
    runnables,          \* what was added to the manager
    informers,          \* the event handlers added to informers
    lbStatus,           \* the channel of the load balancer status writer
    failures            \* calls that have failed so far

made == <<restConfig, listenerConfig, runnables, informers, lbStatus>>
vars == <<config, extensionService, pc, todo, made, failures>>

ReqWithoutQuery == "envoy.formatter.req_without_query"

AccessLog == [format : {"envoy", "json"},
              formatString : {"nil", "plain", "REQ_WITHOUT_QUERY"},
              fields : {"plain", "REQ_WITHOUT_QUERY"}]

Config ==
    [kubeconfig : BOOLEAN, inCluster : BOOLEAN, timeouts : {"valid", "invalid"},
     versions : HTTPVersionLists, accessLog : AccessLog, rateLimit : BOOLEAN,
     health : [address : BOOLEAN, port : BOOLEAN],    \* the same as of the metrics
     gateway : BOOLEAN, rootNamespaces : BOOLEAN,
     ingress : {"nil", "class", "address"}, serviceNamespace : BOOLEAN]

ASSUME Configs \subseteq Config /\ MaxFailures \in Nat

Call(op, arg) == [op |-> op, arg |-> arg]

Runnable(name) == [name |-> name, at |-> "none", paths |-> {}, notify |-> {}]

HTTPService(name, at, paths) == [Runnable(name) EXCEPT !.at = at, !.paths = paths]

Informer(resource, handler) == [resource |-> resource, handler |-> handler]

-----------------------------------------------------------------------------
(* internal/k8s/clients.go, servecontext.go and the helpers of serve.go *)

\* NewRestConfig: the kubeconfig file unless --incluster is given.
NewRestConfig(kubeconfig, inCluster) ==
    IF kubeconfig /\ ~ inCluster THEN "kubeconfig" ELSE "in-cluster"

\* parseDefaultHTTPVersions, faulty: every known version of the list is kept.
ParseDefaultHTTPVersionsKeepingAll(versions) ==
    {SelectSeq(versions, LAMBDA v : v \in {"HTTP/1.1", "HTTP/2"})}

\* parseDefaultHTTPVersions: the known versions of the list, each once, in
\* the order the iteration of a map yields: any.
ParseDefaultHTTPVersions(versions) ==
    SetToSeqs(ToSet(versions) \cap {"HTTP/1.1", "HTTP/2"})

\* AccessLogFormatterExtensions: the formatter the format in use needs, found
\* by looking for the command operator in the format string (envoy) or in the
\* fields (json).
AccessLogFormatterExtensions(log) ==
    IF \/ log.format = "envoy" /\ log.formatString = "REQ_WITHOUT_QUERY"
       \/ log.format = "json" /\ log.fields = "REQ_WITHOUT_QUERY"
    THEN {ReqWithoutQuery} ELSE {}

HealthPaths == {"/health", "/healthz"}

\* setupMetrics: the metrics service, which also answers the health checks
\* when they are configured on its address and port.
SetupMetrics(cfg) ==
    <<Call("Add", HTTPService("metricsvc", "metrics",
            {"/metrics"} \cup IF cfg.health.address /\ cfg.health.port
                              THEN HealthPaths ELSE {}))>>

\* setupHealth, faulty: a service of its own only if address and port differ.
SetupHealthBothDiffer(cfg) ==
    IF ~ cfg.health.address /\ ~ cfg.health.port
    THEN <<Call("Add", HTTPService("healthsvc", "health", HealthPaths))>>
    ELSE <<>>

\* setupHealth: a health service of its own if the address or the port is
\* not the one of the metrics.
SetupHealth(cfg) ==
    IF ~ cfg.health.address \/ ~ cfg.health.port
    THEN <<Call("Add", HTTPService("healthsvc", "health", HealthPaths))>>
    ELSE <<>>

SetupDebugService == <<Call("Add", HTTPService("debugsvc", "debug", {"/debug"}))>>

GatewayControllers == <<"gatewayclass-controller", "gateway-controller",
                        "httproute-controller", "tlsroute-controller">>

\* setupGatewayAPI: with a Gateway configured, the four controllers and the
\* informers on ReferencePolicies and Namespaces.
SetupGatewayAPI(cfg) ==
    IF cfg.gateway
    THEN [i \in 1..4 |-> Call("Register", GatewayControllers[i])]
         \o <<Call("Inform", Informer("referencepolicies", "eventHandler")),
              Call("Inform", Informer("namespaces", "eventHandler"))>>
    ELSE <<>>

\* What setupGatewayAPI returns: the controllers that write status.
NeedLeadershipNotification(cfg) ==
    IF cfg.gateway THEN {GatewayControllers[1], GatewayControllers[2]} ELSE {}

DefaultResources ==
    {"httpproxies", "tlscertificatedelegations", "extensionservices",
     "sesameconfigurations", "services", "ingresses", "ingressclasses"}

\* The informers on the default resources, in the order the map yields.
InformOnDefaultResources ==
    LET order == SetToSeq(DefaultResources)
    IN  [i \in DOMAIN order |-> Call("Inform", Informer(order[i], "eventHandler"))]

\* Where the load balancer status writer gets the address from: the
\* configuration, or the status of Envoy's Service.
LoadBalancerStatusSource(cfg) ==
    IF cfg.ingress = "address"
    THEN <<Call("Send", "address")>>
    ELSE <<Call("Inform", Informer("services",
               IF cfg.serviceNamespace THEN "namespaceFilter(statusWatcher)"
               ELSE "statusWatcher"))>>

\* The notifier tells the event handler, the observer and the Gateway
\* controllers that the replica leads.
Notifier(cfg) ==
    [Runnable("notifier") EXCEPT
        !.notify = {"eventHandler", "observer"} \cup NeedLeadershipNotification(cfg)]

\* doServe from the listener configuration to mgr.Start.
DoServe(cfg) ==
    <<Call("ListenerConfig", "-"), Call("SetupRateLimitService", "-"),
      Call("Add", Runnable("statusUpdateHandler"))>>
    \o InformOnDefaultResources
    \o SetupGatewayAPI(cfg)
    \o <<Call("Inform", Informer("secrets",
            IF cfg.rootNamespaces THEN "namespaceFilter(eventHandler)" ELSE "eventHandler")),
         Call("Inform", Informer("endpoints", "endpointsTranslator")),
         Call("Add", Runnable("eventHandler"))>>
    \o SetupMetrics(cfg) \o SetupHealth(cfg) \o SetupDebugService
    \o <<Call("Add", Runnable("loadBalancerStatusWriter"))>>
    \o LoadBalancerStatusSource(cfg)
    \o <<Call("Add", Runnable("xdsServer")),
         Call("Add", Notifier(cfg)),
         Call("Start", "-")>>

-----------------------------------------------------------------------------
(* The calls *)

Calling(op) == pc = "setup" /\ todo # <<>> /\ Head(todo).op = op

\* The call is done and doServe goes on.
Return == todo' = Tail(todo) /\ UNCHANGED <<pc, failures>>

\* The call fails for a reason of its own making.
Ends(how) == pc' = how /\ UNCHANGED <<todo, made, failures>>

\* The call fails because the API server or the system refuses.
Refused(how) ==
    /\ failures < MaxFailures
    /\ failures' = failures + 1
    /\ pc' = how
    /\ UNCHANGED <<todo, made>>

\* NewServer: the clients and the manager.
NewServer ==
    /\ pc = "new"
    /\ \/ /\ restConfig' = <<NewRestConfig(config.kubeconfig, config.inCluster)>>
          /\ pc' = "setup" /\ todo' = DoServe(config)
          /\ UNCHANGED <<listenerConfig, runnables, informers, lbStatus, failures>>
       \/ Refused("error")
    /\ UNCHANGED <<config, extensionService>>

\* The listener configuration: the timeouts have to parse.
ListenerConfig ==
    /\ Calling("ListenerConfig")
    /\ IF config.timeouts = "invalid"
       THEN Ends("error")
       ELSE /\ \E parsed \in ParseDefaultHTTPVersions(config.versions) :
                   listenerConfig' =
                       [listenerConfig EXCEPT
                           !.DefaultHTTPVersions = parsed,
                           !.AccessLogFormatterExtensions =
                               AccessLogFormatterExtensions(config.accessLog)]
            /\ Return
            /\ UNCHANGED <<restConfig, runnables, informers, lbStatus>>
    /\ UNCHANGED <<config, extensionService>>

\* What setupRateLimitService makes of the ExtensionService, faulty: one
\* without a timeout policy is an error.
RateLimitConfigNeedsTimeout(service) ==
    IF service = "timeout" THEN <<"timeout">> ELSE <<>>

\* What setupRateLimitService makes of the ExtensionService it gets from the
\* API server: nothing (an error) when there is none or when its response
\* timeout does not parse.
RateLimitConfig(service) ==
    CASE service = "timeout"   -> <<"timeout">>
      [] service = "noTimeout" -> <<"default">>
      [] OTHER                 -> <<>>

\* setupRateLimitService: the ExtensionService is read from the API server,
\* the caches of the manager not being started yet.
SetupRateLimitService ==
    /\ Calling("SetupRateLimitService")
    /\ \/ ~ config.rateLimit /\ Return /\ UNCHANGED made
       \/ /\ config.rateLimit /\ RateLimitConfig(extensionService) # <<>>
          /\ listenerConfig' = [listenerConfig EXCEPT
                 !.RateLimitConfig = RateLimitConfig(extensionService)]
          /\ Return
          /\ UNCHANGED <<restConfig, runnables, informers, lbStatus>>
       \/ config.rateLimit /\ RateLimitConfig(extensionService) = <<>> /\ Ends("error")
       \/ config.rateLimit /\ Refused("error")
    /\ UNCHANGED <<config, extensionService>>

\* mgr.Add.
MgrAdd ==
    /\ Calling("Add")
    /\ \/ /\ runnables' = runnables \cup {Head(todo).arg}
          /\ Return
          /\ UNCHANGED <<restConfig, listenerConfig, informers, lbStatus>>
       \/ Refused("error")
    /\ UNCHANGED <<config, extensionService>>

\* controller.Register...Controller, in setupGatewayAPI.
RegisterController ==
    /\ Calling("Register")
    /\ \/ /\ runnables' = runnables \cup {Runnable(Head(todo).arg)}
          /\ Return
          /\ UNCHANGED <<restConfig, listenerConfig, informers, lbStatus>>
       \/ Refused("fatal")
    /\ UNCHANGED <<config, extensionService>>

\* informOnResource: the handler is added to the informer of the manager's
\* cache.
InformOnResource ==
    /\ Calling("Inform")
    /\ \/ /\ informers' = informers \cup {Head(todo).arg}
          /\ Return
          /\ UNCHANGED <<restConfig, listenerConfig, runnables, lbStatus>>
       \/ Refused("fatal")
    /\ UNCHANGED <<config, extensionService>>

\* lbStatus is made with room for one address.
LBStatusCapacity == 1

\* lbsw.lbStatus <- the configured address: the writer is not running yet.
SendStatusAddress ==
    /\ Calling("Send")
    /\ Len(lbStatus) < LBStatusCapacity
    /\ lbStatus' = Append(lbStatus, Head(todo).arg)
    /\ Return
    /\ UNCHANGED <<config, extensionService, restConfig, listenerConfig,
                   runnables, informers>>

\* mgr.Start.
Start ==
    /\ Calling("Start")
    /\ pc' = "started" /\ todo' = <<>>
    /\ UNCHANGED <<config, extensionService, made, failures>>

-----------------------------------------------------------------------------
(* The surroundings *)

\* The listener configuration before doServe has computed any of it.
NoListenerConfig ==
    [DefaultHTTPVersions |-> <<>>, AccessLogFormatterExtensions |-> {},
     RateLimitConfig |-> <<>>]

\* The process ended and its container is started again.
Restart ==
    /\ pc \in {"error", "fatal"}
    /\ pc' = "new" /\ todo' = <<>>
    /\ restConfig' = <<>> /\ listenerConfig' = NoListenerConfig
    /\ runnables' = {} /\ informers' = {} /\ lbStatus' = <<>>
    /\ UNCHANGED <<config, extensionService, failures>>

ExtensionServices == {"absent", "noTimeout", "timeout", "invalidTimeout"}

\* The ExtensionService is created, deleted or edited.
ChangeExtensionService ==
    /\ config.rateLimit
    /\ \E service \in ExtensionServices \ {extensionService} :
           extensionService' = service
    /\ UNCHANGED <<config, pc, todo, made, failures>>

Init ==
    /\ config \in Configs
    /\ extensionService \in ExtensionServices
    /\ ~ config.rateLimit => extensionService = "absent"
    /\ pc = "new" /\ todo = <<>>
    /\ restConfig = <<>> /\ listenerConfig = NoListenerConfig
    /\ runnables = {} /\ informers = {} /\ lbStatus = <<>>
    /\ failures = 0

Process ==
    \/ NewServer \/ ListenerConfig \/ SetupRateLimitService
    \/ MgrAdd \/ RegisterController \/ InformOnResource
    \/ SendStatusAddress \/ Start

Next == Process \/ Restart \/ ChangeExtensionService

Spec == Init /\ [][Next]_vars

\* The process runs, and so does the kubelet that restarts it.
FairSpec == Spec /\ WF_vars(Process) /\ WF_vars(Restart)

-----------------------------------------------------------------------------
(* Properties *)

TypeOK ==
    /\ config \in Config
    /\ extensionService \in ExtensionServices
    /\ pc \in {"new", "setup", "started", "error", "fatal"}
    /\ \E n \in 0..Len(DoServe(config)) : todo = SubSeq(DoServe(config), n + 1, Len(DoServe(config)))
    /\ restConfig \in {<<>>, <<"kubeconfig">>, <<"in-cluster">>}
    /\ listenerConfig \in
           [DefaultHTTPVersions : {<<>>, <<"HTTP/1.1">>, <<"HTTP/2">>,
                                   <<"HTTP/1.1", "HTTP/2">>, <<"HTTP/2", "HTTP/1.1">>},
            AccessLogFormatterExtensions : SUBSET {ReqWithoutQuery},
            RateLimitConfig : {<<>>, <<"default">>, <<"timeout">>}]
    /\ \A r \in runnables : DOMAIN r = {"name", "at", "paths", "notify"}
    /\ \A i \in informers : DOMAIN i = {"resource", "handler"}
    /\ lbStatus \in {<<>>, <<"address">>}
    /\ failures \in 0..MaxFailures

\* The health checks of the kubelet are answered whatever is configured for
\* the metrics (setupMetrics and setupHealth look at the same two pairs of
\* address and port, each on its own): once the manager is started, one
\* service answers /health and /healthz, and it listens where the health
\* address says.
HealthServedOnce ==
    pc = "started" =>
        \A path \in HealthPaths :
            \E r \in runnables :
                /\ path \in r.paths
                /\ r.at = "health" \/ (config.health.address /\ config.health.port)
                /\ \A q \in runnables : path \in q.paths => q = r

\* The configuration can be served: its timeouts parse and the
\* ExtensionService of its rate limit service is there to be read.
Servable ==
    /\ config.timeouts = "valid"
    /\ config.rateLimit => extensionService \in {"noTimeout", "timeout"}

\* A process that ended during start-up is started again and reads the
\* cluster again (setupRateLimitService gets the ExtensionService from the
\* API server in doServe): once the configuration can be served and stays
\* so, the manager gets started, although the ExtensionService was missing
\* or wrong at the first attempts, and although calls were refused.
StartsOnceServable == []<>(pc = "started" \/ ~ Servable)

=============================================================================
