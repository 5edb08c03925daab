----------------------------- MODULE Deployment -----------------------------
(***************************************************************************)
(* The deployment harness of the end-to-end suites (test/e2e/deployment.go)*)
(* against a cluster that has controllers of its own.                      *)
(*                                                                         *)
(* A suite is a sequence of calls on one Deployment struct, made from the  *)
(* nodes of a Ginkgo suite: after a call that fails, the rest of its node  *)
(* is left out and the nodes that clean up still run.  The struct keeps,   *)
(* for every object of the rendered manifest, the copy the client last     *)
(* filled in, resourceVersion included; the cluster keeps the objects      *)
(* and finishes deletions, rolls out workloads and reports their status    *)
(* in steps of its own.  An object is abstracted to whether it exists, the *)
(* resourceVersion of a copy to whether it is set, the status of a workload*)
(* to the comparisons the waits of the harness make on it.                 *)
(***************************************************************************)
EXTENDS Naturals, Sequences, FiniteSets, SequencesExt

CONSTANTS
    Suites,         \* the suites run, of "local", "incluster" and "upgrade"
    Tests           \* the number of tests a suite runs

ASSUME /\ Suites \subseteq {"local", "incluster", "upgrade"}
       /\ Tests \in Nat

\* The objects of the rendered manifest, in the order UnmarshalResources
\* decodes them into the struct.
Rendered ==
    <<"Namespace", "SesameServiceAccount", "EnvoyServiceAccount", "SesameConfigMap",
      "ExtensionServiceCRD", "HTTPProxyCRD", "TLSCertDelegationCRD",
      "SesameConfigurationCRD", "SesameDeploymentCRD", "CertgenServiceAccount",
      "SesameRoleBinding", "CertgenRole", "CertgenJob", "SesameClusterRoleBinding",
      "SesameClusterRole", "SesameService", "EnvoyService", "SesameDeployment",
      "EnvoyDaemonSet">>

\* Objects the harness makes a new copy of at every call.
Fresh == {"envoy-bootstrap", "SesameConfiguration", "leaderElectionLease",
          "leaderElectionConfigMap"}

Resources == ToSet(Rendered) \cup Fresh

VARIABLES
    suite,      \* the suite that runs
    cluster,    \* object -> "absent", "present" or "terminating"
    held,       \* object -> the copy in the struct has a resourceVersion
    todo,       \* the calls the suite has still to make, <<call, object, node>>
    polling,    \* the call at the head has made its request and polls
    failed,     \* the calls that failed so far, <<node, why>>
    daemonSet,  \* the template of d.EnvoyDaemonSet
    dsStatus,   \* the status of the Envoy DaemonSet in the cluster
    deployment, \* the Sesame Deployment: its template and its ready pods
    sesame      \* the local sesame: the processes that run, the configurations
                \* (files or resources) that exist, whether the test holds a
                \* session, and UsingSesameConfigCRD()

vars == <<suite, cluster, held, todo, polling, failed, daemonSet, dsStatus, deployment, sesame>>

workloads == <<dsStatus, deployment>>

-----------------------------------------------------------------------------
(***************************************************************************)
(* The suites, as the calls they make.                                     *)
(***************************************************************************)
Calls(call, objects) == [i \in DOMAIN objects |-> <<call, objects[i]>>]

\* Mutant: the service accounts are deleted before the workloads.
DeleteResourcesForInclusterSesameAccountsFirst ==
    Calls("delete", <<"EnvoyServiceAccount", "SesameServiceAccount", "EnvoyDaemonSet",
                      "SesameDeployment", "leaderElectionLease",
                      "leaderElectionConfigMap", "EnvoyService", "SesameService",
                      "SesameClusterRole", "SesameClusterRoleBinding", "CertgenJob",
                      "CertgenRole", "SesameRoleBinding", "CertgenServiceAccount",
                      "TLSCertDelegationCRD", "ExtensionServiceCRD", "HTTPProxyCRD",
                      "SesameConfigMap">>)

\* Mutant: the DaemonSet is ensured before the ConfigMap it mounts.
EnsureResourcesForLocalSesameDaemonSetFirst ==
    Calls("ensure", <<"Namespace", "EnvoyServiceAccount", "ExtensionServiceCRD",
                      "HTTPProxyCRD", "TLSCertDelegationCRD", "SesameConfigurationCRD",
                      "SesameDeploymentCRD", "EnvoyService">>)
    \o <<<<"localDaemonSet", "EnvoyDaemonSet">>, <<"ensure", "EnvoyDaemonSet">>,
         <<"bootstrap", "envoy-bootstrap">>, <<"ensure", "envoy-bootstrap">>>>

EnsureResourcesForLocalSesame ==
    Calls("ensure", <<"Namespace", "EnvoyServiceAccount", "ExtensionServiceCRD",
                      "HTTPProxyCRD", "TLSCertDelegationCRD", "SesameConfigurationCRD",
                      "SesameDeploymentCRD", "EnvoyService">>)
    \o <<<<"bootstrap", "envoy-bootstrap">>, <<"ensure", "envoy-bootstrap">>,
         <<"localDaemonSet", "EnvoyDaemonSet">>, <<"ensure", "EnvoyDaemonSet">>>>

DeleteResourcesForLocalSesame ==
    Calls("delete", <<"EnvoyDaemonSet", "SesameConfigMap", "EnvoyService",
                      "TLSCertDelegationCRD", "ExtensionServiceCRD", "HTTPProxyCRD",
                      "EnvoyServiceAccount">>)

EnsureResourcesForInclusterSesame(startSesameDeployment) ==
    Calls("ensure", SubSeq(Rendered, 1, 12))
    \o <<<<"image", "CertgenJob">>, <<"certgenJob", "CertgenJob">>>>
    \o Calls("ensure", <<"SesameClusterRoleBinding", "SesameClusterRole",
                         "SesameService", "EnvoyService">>)
    \o <<<<"image", "SesameDeployment">>>>
    \o (IF startSesameDeployment THEN <<<<"ensure", "SesameDeployment">>>> ELSE <<>>)
    \o <<<<"image", "EnvoyDaemonSet">>, <<"ensure", "EnvoyDaemonSet">>>>

DeleteResourcesForInclusterSesame ==
    Calls("delete", <<"EnvoyDaemonSet", "SesameDeployment", "leaderElectionLease",
                      "leaderElectionConfigMap", "EnvoyService", "SesameService",
                      "SesameClusterRole", "SesameClusterRoleBinding", "CertgenJob",
                      "CertgenRole", "SesameRoleBinding", "CertgenServiceAccount",
                      "TLSCertDelegationCRD", "ExtensionServiceCRD", "HTTPProxyCRD",
                      "SesameConfigMap", "EnvoyServiceAccount", "SesameServiceAccount">>)

\* The calls of one node of a suite.
In(node, calls) == [i \in DOMAIN calls |-> Append(calls[i], node)]

\* Mutant: the sesame is stopped at the end of the node that started it.
LocalTestStoppingInline ==
    In("JustBeforeEach", <<<<"start", "SesameConfiguration">>,
                           <<"waitUpdated", "EnvoyDaemonSet">>,
                           <<"stop", "SesameConfiguration">>>>)

\* A test against a local sesame: JustBeforeEach and AfterEach.
LocalTest ==
    In("JustBeforeEach", <<<<"start", "SesameConfiguration">>,
                           <<"waitUpdated", "EnvoyDaemonSet">>>>)
    \o In("AfterEach", <<<<"stop", "SesameConfiguration">>>>)

\* A test against a sesame in the cluster: its Deployment is made for the
\* test and deleted after it.
InclusterTest ==
    In("JustBeforeEach", <<<<"ensure", "SesameDeployment">>,
                           <<"waitDeployment", "SesameDeployment">>>>)
    \o In("AfterEach", <<<<"delete", "SesameDeployment">>>>)

\* The upgrade test: the new manifest over a running installation, then the
\* three waits.
UpgradeTest ==
    EnsureResourcesForInclusterSesame(TRUE)
    \o <<<<"waitDeployment", "SesameDeployment">>, <<"waitOutOfDate", "EnvoyDaemonSet">>,
         <<"waitUpdated", "EnvoyDaemonSet">>>>

RECURSIVE Times(_, _)
Times(calls, n) == IF n = 0 THEN <<>> ELSE calls \o Times(calls, n - 1)

Program ==
    CASE suite = "local" ->
            In("BeforeSuite", EnsureResourcesForLocalSesame) \o Times(LocalTest, Tests)
            \o In("AfterSuite", DeleteResourcesForLocalSesame)
      [] suite = "incluster" ->
            In("BeforeSuite", EnsureResourcesForInclusterSesame(FALSE))
            \o Times(InclusterTest, Tests)
            \o In("AfterSuite", DeleteResourcesForInclusterSesame)
      [] suite = "upgrade" -> In("It", UpgradeTest)

\* What is left of a suite when the call at its head fails: the rest of the
\* node is left out, and after a BeforeSuite every test is.
AfterFailure(calls) ==
    LET node == Head(calls)[3]
        run  == {i \in 2..Len(calls) :
                    /\ calls[i][3] # node
                    /\ node = "BeforeSuite" => calls[i][3] = "AfterSuite"}
    IN  IF run = {} THEN <<>> ELSE SubSeq(calls, Min(run), Len(calls))

-----------------------------------------------------------------------------
(***************************************************************************)
(* The call at the head of the suite.                                      *)
(***************************************************************************)
Calling(call) == todo # <<>> /\ Head(todo)[1] = call

Obj == Head(todo)[2]

\* The call returns nil.
Return == todo' = Tail(todo) /\ polling' = FALSE /\ UNCHANGED <<suite, failed>>

\* The call returns an error, or panics: its node has failed.
Fail(why) ==
    /\ todo' = AfterFailure(todo) /\ polling' = FALSE
    /\ failed' = Append(failed, <<Head(todo)[3], why>>)
    /\ UNCHANGED suite

\* The status a DaemonSet has before its controller has seen it: every
\* count is zero, so the updated pods equal the desired ones.
NoStatus == [observed |-> FALSE, updated |-> TRUE, available |-> FALSE]

\* What writing the object does to the workloads: a DaemonSet whose
\* template was written is to be looked at again by its controller, and
\* the Deployment is to have pods of the template written.
Written(o, created) ==
    /\ dsStatus' = IF o # "EnvoyDaemonSet" THEN dsStatus
                   ELSE IF created THEN NoStatus
                   ELSE [dsStatus EXCEPT !.observed = FALSE]
    /\ deployment' = IF o # "SesameDeployment" THEN deployment
                     ELSE [deployment EXCEPT !.spec = "new"]

-----------------------------------------------------------------------------
(***************************************************************************)
(* The calls of the harness.                                               *)
(***************************************************************************)
\* ensureResource: Get, then Create when there is no such object and Update
\* with the resourceVersion read when there is.  The API server refuses to
\* create an object that carries a resourceVersion.
EnsureResource ==
    /\ Calling("ensure")
    /\ LET o == Obj
           created == cluster[o] = "absent" IN
       \/ IF created /\ held[o]
          THEN /\ Fail("resourceVersion")
               /\ UNCHANGED <<cluster, held, workloads>>
          ELSE /\ cluster' = [cluster EXCEPT ![o] = IF created THEN "present" ELSE @]
               /\ held' = [held EXCEPT ![o] = o \notin Fresh]
               /\ Written(o, created)
               /\ Return
       \/ /\ Fail("api")
          /\ UNCHANGED <<cluster, held, workloads>>
    /\ UNCHANGED <<daemonSet, sesame>>

\* Mutant: the resourceVersion stays in the copy after the deletion.
ResourceVersionAfterDeletionKept == TRUE

\* EnsureDeleted: `obj.SetResourceVersion("")` once the object is gone.
ResourceVersionAfterDeletion == FALSE

\* EnsureDeleted: Delete, done when there was no such object; else poll
\* until Get finds it gone (every Get fills the copy in again), and clear
\* the resourceVersion of the copy.
EnsureDeleted ==
    /\ Calling("delete")
    /\ LET o == Obj IN
       \/ /\ ~polling /\ cluster[o] = "absent"
          /\ Return
          /\ UNCHANGED <<cluster, held>>
       \/ /\ ~polling /\ cluster[o] # "absent"
          /\ cluster' = [cluster EXCEPT ![o] = "terminating"]
          /\ polling' = TRUE
          /\ UNCHANGED <<suite, held, todo, failed>>
       \/ /\ polling /\ cluster[o] = "absent"
          /\ held' = [held EXCEPT ![o] = ResourceVersionAfterDeletion]
          /\ Return
          /\ UNCHANGED cluster
       \/ /\ polling /\ cluster[o] # "absent"
          /\ held' = [held EXCEPT ![o] = TRUE]
          /\ Fail("timeout")
          /\ UNCHANGED cluster
       \/ /\ ~polling
          /\ Fail("api")
          /\ UNCHANGED <<cluster, held>>
    /\ UNCHANGED <<daemonSet, workloads, sesame>>

\* EnsureCertgenJob: delete the job of that name when there is one, poll
\* until there is none, create d.CertgenJob.
EnsureCertgenJob ==
    /\ Calling("certgenJob")
    /\ LET o == Obj IN
       \/ /\ ~polling
          /\ cluster' = [cluster EXCEPT ![o] = IF @ = "absent" THEN @ ELSE "terminating"]
          /\ polling' = TRUE
          /\ UNCHANGED <<suite, held, todo, failed>>
       \/ /\ polling /\ cluster[o] = "absent"
          /\ IF held[o]
             THEN Fail("resourceVersion") /\ UNCHANGED <<cluster, held>>
             ELSE /\ cluster' = [cluster EXCEPT ![o] = "present"]
                  /\ held' = [held EXCEPT ![o] = TRUE]
                  /\ Return
       \/ /\ polling /\ cluster[o] # "absent"
          /\ Fail("timeout")
          /\ UNCHANGED <<cluster, held>>
       \/ /\ Fail("api")
          /\ UNCHANGED <<cluster, held>>
    /\ UNCHANGED <<daemonSet, workloads, sesame>>

\* EnsureResourcesForInclusterSesame before it ensures a workload: the
\* template has the containers the rendered manifest has, and gets the
\* image under test.
SetImage ==
    /\ Calling("image")
    /\ IF Obj = "EnvoyDaemonSet" => daemonSet.initContainers = 1 /\ daemonSet.containers = 2
       THEN Return
       ELSE Fail("invalid")
    /\ UNCHANGED <<cluster, held, daemonSet, workloads, sesame>>

\* EnsureResourcesForLocalSesame: `sesame bootstrap` into a temporary file,
\* the contents of which become the envoy-bootstrap ConfigMap.
Bootstrap ==
    /\ Calling("bootstrap")
    /\ Return \/ Fail("exec")
    /\ UNCHANGED <<cluster, held, daemonSet, workloads, sesame>>

\* Mutant: the slice starts one container too far.
LocalContainersOffByOne(n) == n - 2

\* `Containers[1:]`: the shutdown-manager container is dropped.
LocalContainers(n) == n - 1

\* EnsureResourcesForLocalSesame: the DaemonSet of the manifest made into
\* one for a local sesame, in place: the bootstrap ConfigMap as a volume,
\* no init container, no shutdown-manager container.
LocalDaemonSet ==
    /\ Calling("localDaemonSet")
    /\ IF daemonSet.containers >= 2
       THEN /\ daemonSet' = [containers |-> LocalContainers(daemonSet.containers),
                             initContainers |-> 0, local |-> TRUE]
            /\ Return
       ELSE /\ Fail("panic")           \* Containers[1]: index out of range
            /\ UNCHANGED daemonSet
    /\ UNCHANGED <<cluster, held, workloads, sesame>>

\* The SesameConfigurations in the cluster, as long as there is one.
Configured(s) == IF s.crd /\ s.configs > 0 THEN "present" ELSE "absent"

\* StartLocalSesame: the configuration as a resource of a random name or as
\* a temporary file, then the process.  Neither is taken back when the
\* start of the process fails, and the test then holds nil and "".
StartLocalSesame ==
    /\ Calling("start")
    /\ \/ /\ sesame' = [sesame EXCEPT !.session = TRUE, !.running = @ + 1,
                                       !.configs = @ + 1]
          /\ Return
       \/ /\ sesame' = [sesame EXCEPT !.session = FALSE, !.configs = @ + 1]
          /\ Fail("exec")
       \/ /\ sesame' = [sesame EXCEPT !.session = FALSE]
          /\ Fail("api")
    /\ cluster' = [cluster EXCEPT ![Obj] = Configured(sesame')]
    /\ UNCHANGED <<held, daemonSet, workloads>>

\* StopLocalSesame: the resource deleted, the process terminated, the file
\* removed.  An error of the deletion (the one of the name "" always is
\* one) returns before the other two; Terminate of a nil session panics.
StopLocalSesame ==
    /\ Calling("stop")
    /\ \/ /\ sesame.session
          /\ sesame' = [sesame EXCEPT !.running = @ - 1, !.configs = @ - 1]
          /\ Return
       \/ /\ sesame.crd
          /\ Fail("api")
          /\ UNCHANGED sesame
       \/ /\ ~ sesame.crd /\ ~ sesame.session
          /\ Fail("panic")
          /\ UNCHANGED sesame
    /\ cluster' = [cluster EXCEPT ![Obj] = Configured(sesame')]
    /\ UNCHANGED <<held, daemonSet, workloads>>

\* Mutant: the poll has no timeout (wait.PollImmediateInfinite).
PollWithoutTimeout(condition) ==
    /\ condition /\ Return
    /\ UNCHANGED <<cluster, held, daemonSet, workloads, sesame>>

\* wait.PollImmediate: nil as soon as the condition holds, an error when
\* the time is up and it does not.
Poll(condition) ==
    /\ IF condition THEN Return ELSE Fail("timeout")
    /\ UNCHANGED <<cluster, held, daemonSet, workloads, sesame>>

\* As many ready pods of the image of d.SesameDeployment as it has replicas.
SesameDeploymentUpdated == deployment.pods = "new"

\* Mutant: the wait for the update to propagate is passed at once.
OutOfDateAlways(status) == TRUE

\* UpdatedNumberScheduled < DesiredNumberScheduled
OutOfDate(status) == ~status.updated

\* NumberAvailable and UpdatedNumberScheduled are DesiredNumberScheduled,
\* which is not zero.
Updated(status) == status.available /\ status.updated

WaitForSesameDeploymentUpdated == Calling("waitDeployment") /\ Poll(SesameDeploymentUpdated)

WaitForEnvoyDaemonSetOutOfDate == Calling("waitOutOfDate") /\ Poll(OutOfDate(dsStatus))

WaitForEnvoyDaemonSetUpdated == Calling("waitUpdated") /\ Poll(Updated(dsStatus))

-----------------------------------------------------------------------------
(***************************************************************************)
(* The cluster.                                                            *)
(***************************************************************************)
\* A deletion finishes; the pods of a workload go with it.
Finalize(o) ==
    /\ cluster[o] = "terminating"
    /\ cluster' = [cluster EXCEPT ![o] = "absent"]
    /\ dsStatus' = IF o = "EnvoyDaemonSet" THEN NoStatus ELSE dsStatus
    /\ deployment' = IF o = "SesameDeployment"
                     THEN [deployment EXCEPT !.pods = "none"] ELSE deployment
    /\ UNCHANGED <<suite, held, todo, polling, failed, daemonSet, sesame>>

\* The DaemonSet controller sees the template written: until then the
\* status is the one of the template before.
ObserveDaemonSet ==
    /\ cluster["EnvoyDaemonSet"] = "present"
    /\ ~dsStatus.observed
    /\ dsStatus' = [dsStatus EXCEPT !.observed = TRUE, !.updated = FALSE]
    /\ UNCHANGED <<suite, cluster, held, todo, polling, failed, daemonSet, deployment, sesame>>

\* It replaces the pods by pods of the template.
ReplaceEnvoyPods ==
    /\ cluster["EnvoyDaemonSet"] = "present"
    /\ dsStatus.observed /\ ~dsStatus.updated
    /\ dsStatus' = [dsStatus EXCEPT !.updated = TRUE, !.available = FALSE]
    /\ UNCHANGED <<suite, cluster, held, todo, polling, failed, daemonSet, deployment, sesame>>

\* An Envoy is ready once an xDS server has configured it: the local
\* sesame, or a pod of the Sesame Deployment.
EnvoyReady ==
    /\ cluster["EnvoyDaemonSet"] = "present"
    /\ dsStatus.observed /\ dsStatus.updated /\ ~dsStatus.available
    /\ IF daemonSet.local THEN sesame.running > 0 ELSE deployment.pods # "none"
    /\ dsStatus' = [dsStatus EXCEPT !.available = TRUE]
    /\ UNCHANGED <<suite, cluster, held, todo, polling, failed, daemonSet, deployment, sesame>>

\* The Deployment controller brings the pods to the template.
RollDeployment ==
    /\ cluster["SesameDeployment"] = "present"
    /\ deployment.pods # deployment.spec
    /\ deployment' = [deployment EXCEPT !.pods = deployment.spec]
    /\ UNCHANGED <<suite, cluster, held, todo, polling, failed, daemonSet, dsStatus, sesame>>

\* A sesame in the cluster takes part in the election ("configmapsleases"),
\* which makes the Lease and the ConfigMap when there is none.
LeaderElection ==
    /\ deployment.pods # "none"
    /\ \E o \in {"leaderElectionLease", "leaderElectionConfigMap"} :
          /\ cluster[o] = "absent"
          /\ cluster' = [cluster EXCEPT ![o] = "present"]
    /\ UNCHANGED <<suite, held, todo, polling, failed, daemonSet, workloads, sesame>>

-----------------------------------------------------------------------------
\* What the deletions of an earlier suite leave in the cluster.
Leftovers == {"Namespace", "envoy-bootstrap", "SesameConfigurationCRD", "SesameDeploymentCRD"}

\* An installation of the previous release, rolled out.
Installed == ToSet(Rendered) \cup {"leaderElectionLease", "leaderElectionConfigMap"}

Init ==
    /\ suite \in Suites
    /\ todo = Program
    /\ polling = FALSE
    /\ failed = <<>>
    \* the upgrade suite reads the Envoy Service into the struct beforehand
    /\ held = [o \in Resources |-> suite = "upgrade" /\ o = "EnvoyService"]
    /\ daemonSet = [containers |-> 2, initContainers |-> 1, local |-> FALSE]
    /\ sesame \in [running : {0}, configs : {0}, session : {FALSE}, crd : BOOLEAN]
    /\ IF suite = "upgrade"
       THEN /\ cluster = [o \in Resources |-> IF o \in Installed THEN "present" ELSE "absent"]
            /\ dsStatus = [observed |-> TRUE, updated |-> TRUE, available |-> TRUE]
            /\ deployment = [spec |-> "old", pods |-> "old"]
       ELSE /\ \E left \in SUBSET Leftovers :
                 cluster = [o \in Resources |-> IF o \in left THEN "present" ELSE "absent"]
            /\ dsStatus = NoStatus
            /\ deployment = [spec |-> "new", pods |-> "none"]

Harness ==
    \/ EnsureResource
    \/ EnsureDeleted
    \/ EnsureCertgenJob
    \/ SetImage
    \/ Bootstrap
    \/ LocalDaemonSet
    \/ StartLocalSesame
    \/ StopLocalSesame
    \/ WaitForSesameDeploymentUpdated
    \/ WaitForEnvoyDaemonSetOutOfDate
    \/ WaitForEnvoyDaemonSetUpdated

Cluster ==
    \/ \E o \in Resources : Finalize(o)
    \/ ObserveDaemonSet
    \/ ReplaceEnvoyPods
    \/ EnvoyReady
    \/ RollDeployment
    \/ LeaderElection

Next == Harness \/ Cluster

Spec == Init /\ [][Next]_vars

\* The harness makes its calls one after the other; the cluster is under no
\* obligation to finish a deletion or a rollout.
FairSpec == Spec /\ WF_vars(Harness)

-----------------------------------------------------------------------------
Phases == {"absent", "present", "terminating"}

Status == [observed : BOOLEAN, updated : BOOLEAN, available : BOOLEAN]

\* The type invariant.  An Envoy DaemonSet always has its envoy container
\* (LocalDaemonSet drops the shutdown-manager only).
TypeOK ==
    /\ suite \in Suites
    /\ cluster \in [Resources -> Phases]
    /\ held \in [Resources -> BOOLEAN]
    /\ todo \in Seq(Seq(STRING))
    /\ polling \in BOOLEAN
    /\ failed \in Seq({"BeforeSuite", "JustBeforeEach", "AfterEach", "AfterSuite", "It"}
                      \X {"api", "timeout", "resourceVersion", "exec", "invalid", "panic"})
    /\ daemonSet \in [containers : 1..2, initContainers : 0..1, local : BOOLEAN]
    /\ dsStatus \in Status
    /\ deployment \in [spec : {"old", "new"}, pods : {"none", "old", "new"}]
    /\ sesame \in [running : 0..Tests, configs : 0..Tests, session : BOOLEAN,
                   crd : BOOLEAN]

\* A create is refused for the resourceVersion of its copy only after a
\* deletion that timed out: EnsureDeleted clears the resourceVersion its
\* polling Get put into the copy of the struct, so that the next test can
\* create the Sesame Deployment from the same copy again, and only the
\* return on the timeout of the poll leaves it set, for a create that comes
\* once the deletion has finished after all.
EveryCreateAccepted ==
    \A i \in DOMAIN failed :
        failed[i][2] = "resourceVersion" => \E j \in 1..(i - 1) : failed[j][2] = "timeout"

RolledOut == dsStatus.observed /\ Updated(dsStatus)

\* When the upgrade test passes, the cluster runs the new release: the
\* Envoy DaemonSet controller has seen the new template and every pod of
\* it is available, and the Sesame pods are the new ones.  The waits of
\* the test read a status the controller may not have brought up to date
\* (WaitForEnvoyDaemonSetOutOfDate before WaitForEnvoyDaemonSetUpdated).
RolloutObserved ==
    suite = "upgrade" /\ todo = <<>> /\ failed = <<>> => RolledOut /\ SesameDeploymentUpdated

\* A suite ends, passed or failed, whatever the cluster does or fails to do:
\* every wait of the harness (for a deletion to finish, for the pods of the
\* Deployment, for the DaemonSet to go out of date and to be updated) is a
\* poll with a timeout, also the one that starts after what it waits for is
\* over.
SuiteEnds == <>(todo = <<>>)

\* No test is in progress: the suite is before the first node of a test
\* (in its BeforeSuite, or at the first call of a JustBeforeEach, where the
\* test before has ended) or after the last (in its AfterSuite, or over).
BetweenTests ==
    \/ todo = <<>>
    \/ Head(todo)[3] \notin {"JustBeforeEach", "AfterEach"}
    \/ Head(todo)[3] = "JustBeforeEach" /\ Head(todo)[1] \in {"start", "ensure"}

\* The tests whose AfterEach failed, and was reported to.
FailedAfterEach == Cardinality({i \in DOMAIN failed : failed[i][1] = "AfterEach"})

\* What the tests so far left behind: processes, configurations (files or
\* resources), a Sesame Deployment.
LeftBehind ==
    {sesame.running, sesame.configs, IF cluster["SesameDeployment"] = "absent" THEN 0 ELSE 1}

\* The sesame of a test does not outlive it unnoticed, whether the test
\* passed or not: StopLocalSesame, or EnsureDeleted of the Sesame Deployment,
\* is in an AfterEach, which also runs when StartLocalSesame or the wait that
\* follows it failed.  StopLocalSesame returns on an error of the deletion
\* before it terminates the process and removes the file, and panics on the
\* nil session of a start that failed: each time the AfterEach fails, and
\* no process, configuration or Deployment is left to the next test that a
\* failed AfterEach does not account for.
NoSesameOutlivesItsTest ==
    suite # "upgrade" /\ BetweenTests => \A left \in LeftBehind : left <= FailedAfterEach

\* What an object cannot do without.
Requires(o) ==
    CASE o = "EnvoyDaemonSet" ->
            {"Namespace", "EnvoyServiceAccount"}
            \cup (IF daemonSet.local THEN {"envoy-bootstrap"} ELSE {})
      [] o = "SesameDeployment" -> {"Namespace", "SesameServiceAccount", "SesameConfigMap"}
      [] o = "CertgenJob" -> {"Namespace", "CertgenServiceAccount", "CertgenRole",
                              "SesameRoleBinding"}
      [] o = "SesameConfiguration" -> {"Namespace", "SesameConfigurationCRD"}
      [] OTHER -> {}

\* Whatever the suite has in the cluster has what it depends on there too:
\* the orders in which EnsureResourcesFor... create and DeleteResourcesFor...
\* delete never leave a workload without its namespace, service account or
\* ConfigMap, nor a SesameConfiguration without its CRD, at any step and at
\* whichever call the suite stops.
DependenciesPresent ==
    \A o \in Resources :
        cluster[o] # "absent" => \A r \in Requires(o) : cluster[r] = "present"
=============================================================================
