---------------------------- MODULE ServeConfig ----------------------------
(***************************************************************************)
(* How `sesame serve` arrives at the configuration it runs with.           *)
(*                                                                         *)
(* cmd/sesame/serve.go registers the flags of the serve command on one     *)
(* serveContext, binds two of them (--config-path, --sesame-config-name)   *)
(* to the parseConfig action and relies on main parsing the command line   *)
(* twice, so that the values of the configuration file end up below the    *)
(* values of the environment and of the flags.  NewServer then takes the   *)
(* leader-election settings from the context, and doServe turns the        *)
(* context, or the SesameConfiguration resource, into the configuration    *)
(* from which the informers and the DAG builder are made.                  *)
(*                                                                         *)
(* A setting is abstracted to where its value came from ("default",        *)
(* "file", "env", "flag"): that is what the precedence rules tell apart.   *)
(* Namespaces are model values.                                            *)
(***************************************************************************)
EXTENDS Naturals, Sequences, FiniteSets, SequencesExt

CONSTANTS
    Flags,          \* the flags of the serve command the model explores
    FileFields,     \* the fields of config.Parameters a configuration file may set
    Namespaces,     \* the namespaces a setting may name
    MaxRoots,       \* bound: the items of --root-namespaces
    NoCert,         \* a certificate reference that is nil
    Resources,      \* the SesameConfiguration resources the cluster may hold
    NotFound        \* the resource is not in the cluster

(***************************************************************************)
(* The flags of registerServe, by what they are bound to.                  *)
(***************************************************************************)
\* Flags bound to ctx.Config.LeaderElection, each with a Default(...).
LeaderElectionFlags ==
    {"leader-election-lease-duration", "leader-election-renew-deadline",
     "leader-election-retry-period", "leader-election-resource-name",
     "leader-election-resource-namespace"}

\* Flags bound to other fields of ctx.Config, without a default.
ConfigFlags ==
    {"incluster", "kubeconfig", "ingress-status-address", "envoy-service-name",
     "envoy-service-namespace", "accesslog-format", "debug"}

\* Flags bound to ctx.ServerConfig that also read an environment variable.
EnvarFlags == {"sesame-cafile", "sesame-cert-file", "sesame-key-file"}

\* Flags bound to fields of the serveContext outside ctx.Config.
ContextFlags ==
    {"disable-leader-election", "xds-address", "xds-port", "stats-address",
     "stats-port", "debug-http-address", "debug-http-port", "http-address",
     "http-port", "health-address", "health-port", "insecure",
     "root-namespaces", "ingress-class-name", "envoy-http-access-log",
     "envoy-https-access-log", "envoy-service-http-address",
     "envoy-service-https-address", "envoy-service-http-port",
     "envoy-service-https-port", "use-proxy-protocol", "kubernetes-debug"}

\* The two flags bound to the parseConfig action.
ActionFlags == {"config-path", "sesame-config-name"}

BoundFlags == LeaderElectionFlags \cup ConfigFlags \cup EnvarFlags \cup ContextFlags

\* Fields of config.Parameters that no flag is bound to: only a
\* configuration file sets them.
FileOnlyFields ==
    {"Policy.ApplyToIngress", "Metrics.Sesame", "TLS.FallbackCertificate",
     "TLS.ClientCertificate", "GatewayConfig", "Server.XDSServerType"}

\* Every field ctx.Config = *params replaces.
ConfigFields == LeaderElectionFlags \cup ConfigFlags \cup FileOnlyFields

ASSUME /\ Flags \subseteq BoundFlags
       /\ FileFields \subseteq ConfigFields
       /\ NoCert \notin Namespaces
       /\ MaxRoots \in Nat \ {0}
       /\ NotFound \notin Resources

\* The fields of the serveContext the model follows.
Fields == Flags \cup FileFields

\* Where the value of a field came from.
Source == {"default", "file", "env", "flag"}

\* The serveContext: the fields the flags and the file are bound to.
ServeContext == [Fields -> Source]

\* The name that is left of an item of --root-namespaces with nothing but
\* white space in it.
Blank == ""

\* What doServe works from: the part of a SesameConfigurationSpec that
\* decides which namespaces are watched, how the builder is set up and what
\* the xDS server answers from.
SesameConfigurationSpec ==
    [RootNamespaces : Seq(Namespaces \cup {Blank}),
     FallbackCertificate : Namespaces \cup {NoCert},
     ClientCertificate : Namespaces \cup {NoCert},
     ApplyToIngress : BOOLEAN,
     Gateway : BOOLEAN,
     Metrics : Source,
     XDSServerType : {"sesame", "envoy"}]

VARIABLES
    argv,               \* the flags given on the command line
    env,                \* the flags whose environment variable is set
    file,               \* the fields the configuration file sets
    fileOK,             \* the file opens, parses and validates
    roots,              \* --root-namespaces: the items between its commas
    secrets,            \* the namespaces of the certificates the file names
    resource,           \* the SesameConfiguration resource of the cluster
    pc,                 \* where main is
    ctx,                \* serveContext: field -> source of its value
    parsed,             \* parseConfig's `parsed`
    options,            \* manager.Options of NewServer
    sesameConfiguration,\* doServe's sesameConfiguration, <<>> before it is made
    informerNamespaces, \* doServe's informerNamespaces
    builder             \* the dag.Builder of getDAGBuilder, <<>> before it is made

inputs == <<argv, env, file, fileOK, roots, secrets, resource>>
made   == <<options, sesameConfiguration, informerNamespaces, builder>>
vars   == <<inputs, pc, ctx, parsed, made>>

\* The source of field f in context c; a field the model does not follow
\* keeps its default.
Src(c, f) == IF f \in DOMAIN c THEN c[f] ELSE "default"

-----------------------------------------------------------------------------
(***************************************************************************)
(* Parsing the command line.                                               *)
(***************************************************************************)
\* newServeContext: every field at its built-in default.
NewServeContext == [f \in Fields |-> "default"]

\* kingpin, for every flag not on the command line: the value of its
\* environment variable, else its Default(...), else nothing.
SetDefaults(c) ==
    [f \in Fields |->
        CASE f \in argv \/ f \notin BoundFlags -> c[f]
          [] f \in EnvarFlags \cap env         -> "env"
          [] f \in LeaderElectionFlags         -> "default"
          [] OTHER                             -> c[f]]

\* kingpin, for every flag on the command line: its value into its target.
SetValues(c) == [f \in Fields |-> IF f \in argv THEN "flag" ELSE c[f]]

\* parseConfig refuses a file together with a resource.
BothConfigured == ActionFlags \subseteq argv

\* Mutant: parseConfig reads the file on every parse.
ParseConfigReturnsEarlyNever(p) == "config-path" \notin argv

\* parseConfig: `if parsed || configFile == "" { return nil }`.
ParseConfigReturnsEarly(p) == p \/ "config-path" \notin argv

\* parseConfig: `ctx.Config = *params`, params being the defaults of
\* config.Parameters with the fields of the file on top.
LoadedConfig(c) ==
    [f \in Fields |->
        IF f \in ConfigFields
        THEN IF f \in file THEN "file" ELSE "default"
        ELSE c[f]]

\* One kingpin Parse: defaults, values, then the action of every action
\* flag that is on the command line.
Parse(next) ==
    LET values == SetValues(SetDefaults(ctx)) IN
    \/ /\ argv \cap ActionFlags = {} \/ (~BothConfigured /\ ParseConfigReturnsEarly(parsed))
       /\ ctx' = values
       /\ pc' = next
       /\ UNCHANGED parsed
    \/ /\ BothConfigured
       /\ ctx' = values
       /\ pc' = "failed"
       /\ UNCHANGED parsed
    \/ /\ argv \cap ActionFlags # {}
       /\ ~BothConfigured
       /\ ~ParseConfigReturnsEarly(parsed)
       /\ \/ /\ fileOK
             /\ parsed' = TRUE
             /\ ctx' = LoadedConfig(values)
             /\ pc' = next
          \/ /\ ~fileOK
             /\ ctx' = values
             /\ pc' = "failed"
             /\ UNCHANGED parsed

\* main parses the command line, and parses it again.
FirstParse ==
    /\ pc = "parse"
    /\ Parse("parseAgain")
    /\ UNCHANGED <<inputs, made>>

SecondParse ==
    /\ pc = "parseAgain"
    /\ Parse("newServer")
    /\ UNCHANGED <<inputs, made>>

-----------------------------------------------------------------------------
(***************************************************************************)
(* NewServer: the manager and its leader election.                         *)
(***************************************************************************)
ElectionFields == Fields \cap LeaderElectionFlags

\* manager.Options: leader election and, when it is on, where its
\* settings came from.
ManagerOptions ==
    [LeaderElection : BOOLEAN, settings : [ElectionFields -> Source \cup {"unset"}]]

NewServer ==
    /\ pc = "newServer"
    /\ \/ /\ options' =
                IF Src(ctx, "disable-leader-election") = "flag"
                THEN [LeaderElection |-> FALSE,
                      settings |-> [f \in ElectionFields |-> "unset"]]
                ELSE [LeaderElection |-> TRUE,
                      settings |-> [f \in ElectionFields |-> ctx[f]]]
          /\ pc' = "doServe"
       \/ /\ pc' = "failed"     \* no REST config, no client, no manager
          /\ UNCHANGED options
    /\ UNCHANGED <<inputs, ctx, parsed, sesameConfiguration, informerNamespaces, builder>>

-----------------------------------------------------------------------------
(***************************************************************************)
(* doServe: the configuration, the namespaces to watch, the builder.       *)
(***************************************************************************)
\* proxyRootNamespaces: nil when the flag is empty or white space; else its
\* items, each trimmed, the empty ones among them.
ProxyRootNamespaces(c) ==
    LET rootNamespaces == IF Src(c, "root-namespaces") = "flag" THEN roots ELSE <<Blank>>
    IN  IF rootNamespaces = <<Blank>> THEN <<>> ELSE rootNamespaces

\* setMetricsFromConfig: the file's metrics address over the context's.
SetMetricsFromConfig(c) ==
    IF Src(c, "Metrics.Sesame") = "file" THEN "file" ELSE Src(c, "http-address")

\* A certificate of the file, nil when the file names none.
CertificateOf(c, field, which) ==
    IF Src(c, field) = "file" THEN secrets[which] ELSE NoCert

\* gatewayConfig: a pointer left nil where the file has no gateway.
GatewayConfig(c) == Src(c, "GatewayConfig") = "file"

\* policy: the header policies, and ApplyToIngress as the file has it.
PolicyConfig(c) == [ApplyToIngress |-> Src(c, "Policy.ApplyToIngress") = "file"]

\* The type of the xDS server: envoy when the file says so, sesame for
\* whatever else it says.
XDSServerType(c) ==
    IF Src(c, "Server.XDSServerType") = "file" THEN "envoy" ELSE "sesame"

\* convertToSesameConfigurationSpec: the SesameConfigurationSpec put
\* together from what was taken from ctx.Config.
ConvertToSesameConfigurationSpec(c) ==
    [RootNamespaces      |-> ProxyRootNamespaces(c),
     FallbackCertificate |-> CertificateOf(c, "TLS.FallbackCertificate", "fallback"),
     ClientCertificate   |-> CertificateOf(c, "TLS.ClientCertificate", "client"),
     ApplyToIngress      |-> PolicyConfig(c).ApplyToIngress,
     Gateway             |-> GatewayConfig(c),
     Metrics             |-> SetMetricsFromConfig(c),
     XDSServerType       |-> XDSServerType(c)]

\* appended to the namespaces when the certificate is set and its
\* namespace is not among them yet.
WithNamespaceOf(namespaces, cert) ==
    IF cert # NoCert /\ ~Contains(namespaces, cert)
    THEN Append(namespaces, cert)
    ELSE namespaces

\* Mutant: only the root namespaces are watched.
InformerNamespacesRootsOnly(cfg) == cfg.RootNamespaces

\* Mutant: the certificates are not checked for nil.
InformerNamespacesNoNilCheck(cfg) ==
    IF cfg.RootNamespaces = <<>>
    THEN <<>>
    ELSE cfg.RootNamespaces \o <<cfg.FallbackCertificate, cfg.ClientCertificate>>

\* The namespaces informers are started for; none restricts nothing.
InformerNamespaces(cfg) ==
    IF cfg.RootNamespaces = <<>>
    THEN <<>>
    ELSE WithNamespaceOf(WithNamespaceOf(cfg.RootNamespaces, cfg.FallbackCertificate),
                         cfg.ClientCertificate)

\* The dagBuilderConfig doServe passes: applyHeaderPolicyToIngress is not
\* among the fields it sets, and so has Go's zero value.
DagBuilderConfig(cfg) ==
    [rootNamespaces             |-> cfg.RootNamespaces,
     gatewayAPIConfigured       |-> cfg.Gateway,
     headersPolicy              |-> "configured",
     applyHeaderPolicyToIngress |-> FALSE,
     clientCert                 |-> cfg.ClientCertificate,
     fallbackCert               |-> cfg.FallbackCertificate]

\* getDAGBuilder: the header policies of the processors, the processors in
\* their order, the secrets the cache keeps whoever refers to them.
GetDAGBuilder(dbc) ==
    [ProxyHeadersPolicy   |-> dbc.headersPolicy,
     IngressHeadersPolicy |-> IF dbc.applyHeaderPolicyToIngress
                              THEN dbc.headersPolicy ELSE "empty",
     Processors           |-> <<"Ingress", "ExtensionService", "HTTPProxy">>
                              \o (IF dbc.gatewayAPIConfigured THEN <<"GatewayAPI">> ELSE <<>>)
                              \o <<"Listener">>,
     RootNamespaces       |-> dbc.rootNamespaces,
     ConfiguredSecretRefs |-> SelectSeq(<<dbc.fallbackCert, dbc.clientCert>>,
                                        LAMBDA cert : cert # NoCert)]

\* The configuration doServe arrives at, when it arrives at one.
Configured(cfg) ==
    /\ sesameConfiguration' = <<cfg>>
    /\ informerNamespaces' = InformerNamespaces(cfg)
    /\ builder' = <<GetDAGBuilder(DagBuilderConfig(cfg))>>
    /\ pc' = "wired"

DoServe ==
    /\ pc = "doServe"
    /\ \/ /\ "sesame-config-name" \in argv
          /\ resource # NotFound
          /\ Configured(resource)
       \/ /\ "sesame-config-name" \notin argv
          /\ Configured(ConvertToSesameConfigurationSpec(ctx))
       \/ /\ pc' = "failed"     \* no such resource, or Validate refuses
          /\ UNCHANGED <<sesameConfiguration, informerNamespaces, builder>>
    /\ UNCHANGED <<inputs, ctx, parsed, options>>

-----------------------------------------------------------------------------
\* A command line, an environment, a file and a cluster.
Init ==
    /\ argv \in SUBSET (Flags \cup ActionFlags)
    /\ env \in SUBSET (Flags \cap EnvarFlags)
    /\ file \in SUBSET FileFields
    /\ fileOK \in BOOLEAN
    /\ "config-path" \notin argv => file = {} /\ fileOK
    /\ roots \in UNION {[1..n -> Namespaces \cup {Blank}] : n \in 1..MaxRoots}
    /\ "root-namespaces" \notin argv => roots = <<Blank>>
    /\ secrets \in [{"fallback", "client"} -> Namespaces]
    /\ resource \in Resources \cup {NotFound}
    /\ "sesame-config-name" \notin argv => resource = NotFound
    /\ pc = "parse"
    /\ ctx = NewServeContext
    /\ parsed = FALSE
    /\ options = [LeaderElection |-> FALSE, settings |-> [f \in ElectionFields |-> "unset"]]
    /\ sesameConfiguration = <<>>
    /\ informerNamespaces = <<>>
    /\ builder = <<>>

Next == FirstParse \/ SecondParse \/ NewServer \/ DoServe

Spec == Init /\ [][Next]_vars

-----------------------------------------------------------------------------
\* The variables have their types.
TypeOK ==
    /\ argv \subseteq Flags \cup ActionFlags
    /\ env \subseteq Flags \cap EnvarFlags
    /\ file \subseteq FileFields
    /\ fileOK \in BOOLEAN
    /\ roots \in Seq(Namespaces \cup {Blank})
    /\ secrets \in [{"fallback", "client"} -> Namespaces]
    /\ resource \in Resources \cup {NotFound}
    /\ pc \in {"parse", "parseAgain", "newServer", "doServe", "wired", "failed"}
    /\ ctx \in ServeContext
    /\ parsed \in BOOLEAN
    /\ options \in ManagerOptions
    /\ informerNamespaces \in Seq(Namespaces \cup {Blank})
    /\ Len(sesameConfiguration) <= 1
    /\ Len(builder) <= 1
    /\ Len(builder) = Len(sesameConfiguration)

\* main is past both parses of the command line.
ParsedTwice == pc \in {"newServer", "doServe", "wired"}

\* registerServe promises that the configuration file is "overridden by env
\* vars, overridden by cli flags": once main has parsed the command line
\* twice, a field whose flag was given holds the value of the flag, and a
\* field whose environment variable is set holds that, whatever parseConfig
\* loaded in between.
FlagsOverrideFile ==
    ParsedTwice =>
        \A f \in Fields \cap BoundFlags :
            /\ f \in argv => ctx[f] = "flag"
            /\ f \in env \ argv => ctx[f] = "env"

\* The other half of that promise: a field the configuration file sets, and
\* no flag and no environment variable, reaches the manager with the value of
\* the file.  NewServer takes the leader-election settings from ctx.Config.
FileOverridesDefaults ==
    (pc \in {"doServe", "wired"} /\ parsed /\ options.LeaderElection) =>
        \A f \in (ElectionFields \cap file) \ argv : options.settings[f] = "file"

\* doServe watches every namespace the builder needs: when informers are
\* restricted to namespaces, the namespace of every secret getDAGBuilder
\* hands the cache as ConfiguredSecretRefs, and every root namespace, is
\* among them.
SecretNamespacesWatched ==
    (pc = "wired" /\ informerNamespaces # <<>>) =>
        \A i \in DOMAIN builder[1].ConfiguredSecretRefs \cup DOMAIN builder[1].RootNamespaces :
            /\ i \in DOMAIN builder[1].ConfiguredSecretRefs =>
                   Contains(informerNamespaces, builder[1].ConfiguredSecretRefs[i])
            /\ i \in DOMAIN builder[1].RootNamespaces =>
                   Contains(informerNamespaces, builder[1].RootNamespaces[i])

\* PolicyConfig.ApplyToIngress says the header policy of the configuration
\* is applied to Ingress objects too: when it is set, getDAGBuilder gives the
\* IngressProcessor the header policy it gives the HTTPProxyProcessor.
IngressPolicyApplied ==
    (pc = "wired" /\ sesameConfiguration[1].ApplyToIngress) =>
        builder[1].IngressHeadersPolicy = builder[1].ProxyHeadersPolicy
=============================================================================
