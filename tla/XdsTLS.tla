------------------------------- MODULE XdsTLS -------------------------------
(***************************************************************************)
(* The TLS side of the xDS server (cmd/sesame/servecontext.go:             *)
(* grpcOptions, tlsconfig, verifyTLSFlags).                                *)
(*                                                                         *)
(* The server does not keep its certificate: tlsconfig hands the gRPC      *)
(* library a closure, loadConfig, that reads the certificate, the key and  *)
(* the CA bundle from their files at every handshake, so that rotated      *)
(* files are picked up without a restart.  The three reads are separate,   *)
(* and whoever rotates the files writes them one after the other: a load   *)
(* can see the certificate of one rotation and the key of another.         *)
(*                                                                         *)
(* A certificate or a CA is identified by the number of the rotation that  *)
(* issued it; 0 stands for a file that is not there.                       *)
(***************************************************************************)
EXTENDS Naturals, FiniteSets

CONSTANTS
    Envoys,             \* the proxies that connect to the xDS server
    Server,             \* the caller of loadConfig at start-up
    MaxCertificates,    \* bound: certificates issued (1 + rotations)
    MaxCAs              \* bound: CAs issued (1 + rotations)

ASSUME /\ Server \notin Envoys
       /\ MaxCertificates \in Nat \ {0} /\ MaxCAs \in Nat \ {0}

Callers == Envoys \cup {Server}

VARIABLES
    tls,       \* XDSServerConfig.TLS: <<>> if nil, else <<the record>>
    disk,      \* the files: cert, key (rotation), ca (rotation), caPEM
    pc,        \* the server: "starting", "loading", "tls", "plaintext", "fatal"
    load,      \* load[c]: the call of loadConfig made for c
    hello,     \* hello[e]: the files as they were when e's handshake began
    session,   \* session[e]: <<>>, or <<the tls.Config e's session was made with>>
    issuer     \* issuer[e]: the CA that issued e's client certificate

vars == <<tls, disk, pc, load, hello, session, issuer>>

TLS == [certFile : BOOLEAN, keyFile : BOOLEAN, caFile : BOOLEAN, insecure : BOOLEAN]

Idle == [at |-> "idle", cert |-> 0, ca |-> 0]

Plaintext == [cert |-> 0, ca |-> 0]

-----------------------------------------------------------------------------
(* servecontext.go *)

\* verifyTLSFlags: all three files are named (none, or only some, is an error).
VerifyTLSFlags(t) == t.caFile /\ t.certFile /\ t.keyFile

\* tls.LoadX509KeyPair, first read: the certificate file.
LoadCertificate(c) ==
    /\ load[c].at = "cert"
    /\ load' = [load EXCEPT ![c] =
                   IF disk.cert = 0 THEN [@ EXCEPT !.at = "failed"]
                   ELSE [@ EXCEPT !.at = "key", !.cert = disk.cert]]
    /\ UNCHANGED <<tls, disk, pc, hello, session, issuer>>

\* The key pair, faulty: the key is matched with the certificate the server
\* started with.
LoadKeyOfFirstCertificate(c) ==
    /\ load[c].at = "key"
    /\ load' = [load EXCEPT ![c].at =
                   IF disk.key = (IF c = Server THEN load[c].cert ELSE load[Server].cert)
                   THEN "ca" ELSE "failed"]
    /\ UNCHANGED <<tls, disk, pc, hello, session, issuer>>

\* tls.LoadX509KeyPair, second read: the key file, which has to be the key of
\* the certificate just read.
LoadKey(c) ==
    /\ load[c].at = "key"
    /\ load' = [load EXCEPT ![c].at =
                   IF disk.key = load[c].cert THEN "ca" ELSE "failed"]
    /\ UNCHANGED <<tls, disk, pc, hello, session, issuer>>

\* ioutil.ReadFile of the CA file and AppendCertsFromPEM: a file that is not
\* there or holds no certificate fails the load; otherwise the tls.Config is
\* made of what was read.
ReadCAFile(c) ==
    /\ load[c].at = "ca"
    /\ load' = [load EXCEPT ![c] =
                   IF disk.ca = 0 \/ ~ disk.caPEM THEN [@ EXCEPT !.at = "failed"]
                   ELSE [@ EXCEPT !.at = "done", !.ca = disk.ca]]
    /\ UNCHANGED <<tls, disk, pc, hello, session, issuer>>

LoadConfig(c) == LoadCertificate(c) \/ LoadKey(c) \/ ReadCAFile(c)

\* grpcOptions, faulty: flags that do not verify leave the server without
\* credentials instead of ending the process.
GrpcOptionsUnverified ==
    /\ pc = "starting"
    /\ IF tls = <<>> \/ tls[1].insecure \/ ~ VerifyTLSFlags(tls[1])
       THEN pc' = "plaintext" /\ UNCHANGED load
       ELSE pc' = "loading" /\ load' = [load EXCEPT ![Server].at = "cert"]
    /\ UNCHANGED <<tls, disk, hello, session, issuer>>

\* grpcOptions, called by xdsServer.Start: without a TLS block, or with
\* Insecure set, the server gets no credentials.  Otherwise tlsconfig checks
\* the flags (an error is fatal) and calls loadConfig a first time.
GrpcOptions ==
    /\ pc = "starting"
    /\ IF tls = <<>> \/ tls[1].insecure
       THEN pc' = "plaintext" /\ UNCHANGED load
       ELSE IF ~ VerifyTLSFlags(tls[1])
            THEN pc' = "fatal" /\ UNCHANGED load
            ELSE pc' = "loading" /\ load' = [load EXCEPT ![Server].at = "cert"]
    /\ UNCHANGED <<tls, disk, hello, session, issuer>>

\* tlsconfig after its first loadConfig: an error is fatal, a configuration
\* is dropped and the server starts with GetConfigForClient.
Tlsconfig ==
    /\ pc = "loading"
    /\ load[Server].at \in {"done", "failed"}
    /\ pc' = IF load[Server].at = "done" THEN "tls" ELSE "fatal"
    /\ UNCHANGED <<tls, disk, load, hello, session, issuer>>

\* GetConfigForClient, faulty: the configuration loaded at start-up is used.
GetConfigForClientAtStartup(e) ==
    /\ pc = "tls" /\ session[e] = <<>> /\ load[e].at = "idle"
    /\ load' = [load EXCEPT ![e] = load[Server]]
    /\ hello' = [hello EXCEPT ![e] = disk]
    /\ UNCHANGED <<tls, disk, pc, session, issuer>>

\* GetConfigForClient: the ClientHello of e arrives and loadConfig is called.
GetConfigForClient(e) ==
    /\ pc = "tls" /\ session[e] = <<>> /\ load[e].at = "idle"
    /\ load' = [load EXCEPT ![e].at = "cert"]
    /\ hello' = [hello EXCEPT ![e] = disk]
    /\ UNCHANGED <<tls, disk, pc, session, issuer>>

\* The handshake, faulty: the error of loadConfig is not looked at.
HandshakeIgnoringError(e) ==
    /\ e \in Envoys
    /\ load[e].at \in {"done", "failed"}
    /\ session' = [session EXCEPT ![e] =
                      IF issuer[e] = load[e].ca \/ load[e].at = "failed"
                      THEN <<[cert |-> load[e].cert, ca |-> load[e].ca]>>
                      ELSE <<>>]
    /\ load' = [load EXCEPT ![e] = Idle]
    /\ UNCHANGED <<tls, disk, pc, hello, issuer>>

\* The handshake of e ends.  With a configuration the client certificate is
\* required and verified against ClientCAs; a failed load, or a certificate of
\* another CA, ends the handshake with an alert and e will try again.
Handshake(e) ==
    /\ e \in Envoys
    /\ load[e].at \in {"done", "failed"}
    /\ session' = [session EXCEPT ![e] =
                      IF load[e].at = "done" /\ issuer[e] = load[e].ca
                      THEN <<[cert |-> load[e].cert, ca |-> load[e].ca]>>
                      ELSE <<>>]
    /\ load' = [load EXCEPT ![e] = Idle]
    /\ UNCHANGED <<tls, disk, pc, hello, issuer>>

\* A server without credentials takes every connection.
ConnectPlaintext(e) ==
    /\ pc = "plaintext" /\ session[e] = <<>>
    /\ session' = [session EXCEPT ![e] = <<Plaintext>>]
    /\ UNCHANGED <<tls, disk, pc, load, hello, issuer>>

-----------------------------------------------------------------------------
(* The surroundings *)

\* log.Fatal ended the process: the container is started again.
Restart ==
    /\ pc = "fatal"
    /\ pc' = "starting"
    /\ load' = [c \in Callers |-> Idle]
    /\ session' = [e \in Envoys |-> <<>>]
    /\ UNCHANGED <<tls, disk, hello, issuer>>

\* The stream of e ends (the proxy restarts, the connection is cut).
Disconnect(e) ==
    /\ session[e] # <<>>
    /\ session' = [session EXCEPT ![e] = <<>>]
    /\ UNCHANGED <<tls, disk, pc, load, hello, issuer>>

\* A rotation writes the new certificate, and then its key.
WriteCertificate ==
    /\ disk.key = disk.cert /\ disk.cert < MaxCertificates
    /\ disk' = [disk EXCEPT !.cert = @ + 1]
    /\ UNCHANGED <<tls, pc, load, hello, session, issuer>>

WriteKey ==
    /\ disk.key # disk.cert
    /\ disk' = [disk EXCEPT !.key = disk.cert]
    /\ UNCHANGED <<tls, pc, load, hello, session, issuer>>

\* The CA is replaced, or a CA file that held no certificate is put right.
WriteCA ==
    /\ \/ disk.ca < MaxCAs /\ disk' = [disk EXCEPT !.ca = @ + 1, !.caPEM = TRUE]
       \/ ~ disk.caPEM /\ disk.ca > 0 /\ disk' = [disk EXCEPT !.caPEM = TRUE]
    /\ UNCHANGED <<tls, pc, load, hello, session, issuer>>

\* e is given a client certificate of the CA now in the file.
Reissue(e) ==
    /\ disk.ca > 0 /\ issuer[e] # disk.ca
    /\ issuer' = [issuer EXCEPT ![e] = disk.ca]
    /\ UNCHANGED <<tls, disk, pc, load, hello, session>>

-----------------------------------------------------------------------------

\* convertToSesameConfigurationSpec: from the flags the TLS block is always
\* there, with a file named where its flag was given.
XDSServerTLS(caFile, sesameCert, sesameKey, permitInsecureGRPC) ==
    <<[caFile |-> caFile, certFile |-> sesameCert, keyFile |-> sesameKey,
       insecure |-> permitInsecureGRPC]>>

\* The TLS block is the one of the flags, or the one of a SesameConfiguration,
\* which may have none.  The files when the process first starts: the
\* certificates may not have been generated yet, and the CA file may hold
\* something else.
Init ==
    /\ tls \in {<<>>} \cup {<<t>> : t \in TLS}
              \cup {XDSServerTLS(a, c, k, i) : a, c, k, i \in BOOLEAN}
    /\ disk \in {d \in [cert : 0..1, key : 0..1, ca : 0..1, caPEM : BOOLEAN] :
                    d.cert = d.key}
    /\ pc = "starting"
    /\ load = [c \in Callers |-> Idle]
    /\ hello = [e \in Envoys |-> disk]
    /\ session = [e \in Envoys |-> <<>>]
    /\ issuer \in [Envoys -> 1..MaxCAs]

\* xdsServer.Start up to grpcServer.Serve.
Start == GrpcOptions \/ Tlsconfig \/ LoadConfig(Server)

\* The goroutine that serves the connection of e.
Serve(e) == LoadConfig(e) \/ Handshake(e)

EnvoyStep(e) == GetConfigForClient(e) \/ ConnectPlaintext(e)

Rotation == WriteCertificate \/ WriteKey \/ WriteCA

Next ==
    \/ Start
    \/ Restart
    \/ Rotation
    \/ \E e \in Envoys : Serve(e) \/ EnvoyStep(e) \/ Disconnect(e) \/ Reissue(e)

Spec == Init /\ [][Next]_vars

\* Start-up and every connection's goroutine run; a proxy without a stream
\* keeps dialling; the container that exited is started again; a rotation
\* that wrote the certificate writes the key.  Rotations, disconnections and
\* new client certificates are under no obligation.
Fairness ==
    /\ WF_vars(Start)
    /\ WF_vars(Restart)
    /\ WF_vars(WriteKey)
    /\ \A e \in Envoys : WF_vars(Serve(e)) /\ WF_vars(EnvoyStep(e))

FairSpec == Spec /\ Fairness

-----------------------------------------------------------------------------
(* Properties *)

Config == [cert : 1..MaxCertificates, ca : 1..MaxCAs] \cup {Plaintext}

TypeOK ==
    /\ tls \in {<<>>} \cup {<<t>> : t \in TLS}
    /\ disk \in [cert : 0..MaxCertificates, key : 0..MaxCertificates,
                 ca : 0..MaxCAs, caPEM : BOOLEAN]
    /\ pc \in {"starting", "loading", "tls", "plaintext", "fatal"}
    /\ load \in [Callers -> [at : {"idle", "cert", "key", "ca", "done", "failed"},
                             cert : 0..MaxCertificates, ca : 0..MaxCAs]]
    /\ hello \in [Envoys -> [cert : 0..MaxCertificates, key : 0..MaxCertificates,
                             ca : 0..MaxCAs, caPEM : BOOLEAN]]
    /\ session \in [Envoys -> {<<>>} \cup {<<c>> : c \in Config}]
    /\ issuer \in [Envoys -> 1..MaxCAs]

\* "Lazily loads certificates and key at TLS handshake to ensure that latest
\* certificates are used in case they have been rotated" (tlsconfig, and
\* TestServeContextCertificateHandling): the certificate and the CA a
\* handshake is made with are never older than what the files held when the
\* handshake began, whatever was rotated since the server started.
HandshakeUsesLatest ==
    \A e \in Envoys :
        load[e].at = "done" =>
            /\ load[e].cert >= hello[e].cert
            /\ load[e].ca >= hello[e].ca

\* A TLS block that does not say Insecure is never served in plaintext,
\* whichever files are named or missing and however often the process is
\* started again: every stream the server then has was opened with a
\* certificate of the server and a client certificate verified against a CA
\* (grpcOptions, log.Fatal in tlsconfig, RequireAndVerifyClientCert).  Only a
\* configuration without the block, or one that says Insecure, gives up both.
AuthenticatedUnlessInsecure ==
    \A e \in Envoys :
        tls # <<>> /\ ~ tls[1].insecure /\ session[e] # <<>> =>
            session[e][1].cert > 0 /\ session[e][1].ca > 0

\* The files are in order for e: a certificate with its key, a CA bundle, and
\* e's client certificate issued by that CA.
InOrder(e) ==
    /\ tls # <<>> /\ ~ tls[1].insecure /\ VerifyTLSFlags(tls[1])
    /\ disk.cert > 0 /\ disk.key = disk.cert
    /\ disk.ca > 0 /\ disk.caPEM /\ issuer[e] = disk.ca

\* Rotation needs no restart (loadConfig at every handshake; log.Fatal only at
\* start-up): once the files are in order for a proxy and stay so, the proxy
\* gets its stream, also when the server started with files that were
\* missing or torn and when the CA was replaced since.
EnvoysConnect ==
    \A e \in Envoys : []<>(session[e] # <<>> \/ ~ InOrder(e))

=============================================================================
