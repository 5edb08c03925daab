---------------------------- MODULE MCServeWiring ----------------------------
(***************************************************************************)
(* ServeWiring for TLC.  The lists of HTTP versions have a repetition and  *)
(* a version that is not known.  What the configuration says of the        *)
(* clients and the listener, and what it says of the services, informers   *)
(* and controllers, do not meet in any step of doServe: the configurations *)
(* explored vary the one with the other at its default, and the reverse.   *)
(***************************************************************************)
EXTENDS ServeWiring

MCHTTPVersionLists ==
    {<<>>, <<"HTTP/2", "HTTP/1.1">>, <<"HTTP/1.1", "HTTP/3", "HTTP/1.1">>}

Default ==
    [kubeconfig |-> TRUE, inCluster |-> TRUE, timeouts |-> "valid",
     versions |-> <<>>, rateLimit |-> FALSE,
     accessLog |-> [format |-> "envoy", formatString |-> "nil", fields |-> "plain"],
     health |-> [address |-> TRUE, port |-> TRUE], gateway |-> FALSE,
     rootNamespaces |-> FALSE, ingress |-> "class", serviceNamespace |-> FALSE]

MCConfigs ==
    {[Default EXCEPT !.kubeconfig = k, !.inCluster = i, !.timeouts = t,
                     !.versions = v, !.accessLog = a, !.rateLimit = r] :
        k \in BOOLEAN, i \in BOOLEAN, t \in {"valid", "invalid"},
        v \in MCHTTPVersionLists, a \in AccessLog, r \in BOOLEAN}
    \cup
    {[Default EXCEPT !.rateLimit = r, !.health = h, !.gateway = g,
                     !.rootNamespaces = n, !.ingress = s, !.serviceNamespace = e] :
        r \in BOOLEAN, h \in [address : BOOLEAN, port : BOOLEAN], g \in BOOLEAN,
        n \in BOOLEAN, s \in {"nil", "class", "address"}, e \in BOOLEAN}

=============================================================================
