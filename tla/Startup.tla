------------------------------ MODULE Startup ------------------------------
(***************************************************************************)
(* The replicas of the controller from the start of their containers to    *)
(* the moment they serve: main wires the process up, the certificate       *)
(* rotator provides a certificate, a goroutine registers the webhooks once *)
(* it is there, readiness lets the Service route to the replica, and       *)
(* leader election decides whose controller runs.                          *)
(*                                                                         *)
(* The parts wait for each other across processes: a container starts only *)
(* once kube-root-ca.crt is published, writes of ConfigMaps pass through   *)
(* the validating webhook that the replicas serve (failurePolicy=Fail),    *)
(* and sweeps wait for the webhook.  The registry of a replica is one      *)
(* value here, brought up to date in one step: see RuleCache.              *)
(***************************************************************************)
EXTENDS Integers

CONSTANTS
    Replicas,
    Nobody,     \* no leader, nothing to write
    Contents,   \* the rules Beyla writes
    NoRules,    \* a registry nothing is loaded into
    Setups      \* flags and environment the replicas may be given:
                \*   webhooks     ENABLE_WEBHOOKS is not "false"
                \*   installed    the cluster has the webhook configurations
                \*   rotation     --enable-cert-rotation
                \*   rotatorFlags the flags the rotator requires are set
                \*   elect        --leader-elect
                \*   addr         WEBHOOK_SERVICE_ADDR ("" when not set)
                \*   podNs        POD_NAMESPACE ("" when not set)
                \*   watchNs      WATCH_NAMESPACE ("" when not set)
                \*   config       --config: "", "good" or "bad"

ASSUME SetupsAreFlagsAndNames ==
    Setups \subseteq [webhooks : BOOLEAN, installed : BOOLEAN,
                      rotation : BOOLEAN, rotatorFlags : BOOLEAN,
                      elect : BOOLEAN, addr : STRING,
                      podNs : STRING, watchNs : STRING,
                      config : {"", "good", "bad"}]

\* Webhooks are not served where nothing would call them. The reverse does
\* happen: the configurations are objects of the cluster, and stay when a
\* process is started with ENABLE_WEBHOOKS=false.
ASSUME EnabledWebhooksAreInstalled ==
    \A s \in Setups : s.webhooks => s.installed

ASSUME SomeReplica == Replicas # {}

ASSUME NobodyIsNobody == Nobody \notin Replicas \cup Contents

ASSUME RulesAreSomething == NoRules \notin Contents

VARIABLES
    setup,      \* the one of Setups that applies
    rootCA,     \* kube-root-ca.crt is published in the controller's namespace
    secret,     \* the Secret holds a certificate
    bundles,    \* webhook configurations that have the caBundle
    phase,      \* replica |-> "off", "main" (before mgr.Start) or "running"
    hooks,      \* replica |-> how far setupWebhooks has come
    mounted,    \* replicas with the certificate on disk
    listening,  \* replicas whose webhook server listens
    endpoints,  \* replicas the Service routes to
    leader,     \* the holder of the lease
    rules,      \* what the ConfigMaps say
    pending,    \* what Beyla is trying to write
    view        \* replica |-> what its registry holds

certs  == <<secret, bundles, mounted>>
local  == <<phase, hooks, listening, view>>
beyla  == <<rules, pending>>
vars   == <<setup, rootCA, certs, local, endpoints, leader, beyla>>

\* What setupWebhooks has done: nothing and never will, nothing yet because it
\* waits for the certificate, added the server to the manager, registered the
\* pod webhook, registered the validating webhook too.
Progress == <<"none", "waiting", "added", "pod", "both">>

ServerAdded(r) == hooks[r] \in {"added", "pod", "both"}

Running(r) == phase[r] = "running"

-----------------------------------------------------------------------------
(* What main makes of flags and environment.                               *)

watchNamespace(s) == IF s.watchNs # "" THEN s.watchNs ELSE s.podNs

\* The names the certificate is issued for; the .cluster.local variant of a
\* name is left out.
ServiceDNSNames(addr) == {addr} \ {""}

\* main exits before it starts the manager.
Refused(s) ==
    \/ watchNamespace(s) = ""
    \/ s.config = "bad"
    \/ /\ s.webhooks /\ s.rotation
       /\ ~s.rotatorFlags \/ s.podNs = "" \/ ServiceDNSNames(s.addr) = {}

\* Mutant: the sweep's gates do not depend on ENABLE_WEBHOOKS.
GatedAlways(s) == TRUE

\* WebhookReady and WebhookServiceAddr are handed to the reconciler.
Gated(s) == s.webhooks

\* The controllers of replica r run.
Active(r) == Running(r) /\ (setup.elect => leader = r)

\* Mutant: RequireLeaderElection is left at its default.
RotatorRunsOnLeader(r) == Active(r) /\ setup.webhooks /\ setup.rotation

\* The rotator runs on every replica (RequireLeaderElection: false).
RotatorRuns(r) == Running(r) /\ setup.webhooks /\ setup.rotation

-----------------------------------------------------------------------------
(* Admission of ConfigMap writes.                                          *)

\* The namespaceSelector and the matchConditions of the webhook configuration,
\* whatever ENABLE_WEBHOOKS says to the replicas.
Intercepted(name, marked) ==
    setup.installed /\ name # "kube-root-ca.crt" /\ marked

\* A call of the webhook called hook can be answered.
Answered(hook) ==
    /\ hook \in bundles
    /\ \E r \in endpoints \cap listening :
          hooks[r] = "both" \/ (hook = "pod" /\ hooks[r] = "pod")

\* The dial of WebhookServiceAddr.
Routable == endpoints \cap listening # {}

\* reconcileRollouts of replica r goes on to the sweep.
GateOpen(r) ==
    Gated(setup) => r \in listening /\ (setup.addr # "" => Routable)

-----------------------------------------------------------------------------
\* Certificates that the rotator does not manage are there from the start.
Init ==
    /\ setup \in Setups
    /\ rootCA = FALSE
    /\ secret = ~setup.rotation
    /\ bundles = IF setup.rotation \/ ~setup.installed THEN {}
                 ELSE {"pod", "configmap"}
    /\ mounted = IF setup.rotation THEN {} ELSE Replicas
    /\ phase = [r \in Replicas |-> "off"]
    /\ hooks = [r \in Replicas |-> "none"]
    /\ listening = {} /\ endpoints = {}
    /\ leader = Nobody
    /\ rules \in Contents /\ pending = Nobody
    /\ view = [r \in Replicas |-> NoRules]

\* The control plane publishes kube-root-ca.crt in every namespace. In the
\* watched one the validating webhook may be asked.
PublishRootCA ==
    /\ ~rootCA
    /\ watchNamespace(setup) = setup.podNs /\ Intercepted("kube-root-ca.crt", FALSE)
          => Answered("configmap")
    /\ rootCA' = TRUE
    /\ UNCHANGED <<setup, certs, local, endpoints, leader, beyla>>

\* Its service account token cannot be mounted without kube-root-ca.crt.
StartContainer(r) ==
    /\ phase[r] = "off" /\ rootCA
    /\ phase' = [phase EXCEPT ![r] = "main"]
    /\ UNCHANGED <<setup, rootCA, certs, hooks, listening, view, endpoints,
                   leader, beyla>>

\* main up to mgr.Start.
Main(r) ==
    /\ phase[r] = "main"
    /\ phase' = [phase EXCEPT ![r] = IF Refused(setup) THEN "off"
                                     ELSE "running"]
    /\ hooks' = [hooks EXCEPT ![r] =
                    IF Refused(setup) \/ ~setup.webhooks THEN "none"
                    ELSE IF setup.rotation THEN "waiting" ELSE "both"]
    /\ UNCHANGED <<setup, rootCA, certs, listening, view, endpoints, leader,
                   beyla>>

-----------------------------------------------------------------------------
(* The certificate rotator.                                                *)

IssueCertificate(r) ==
    /\ RotatorRuns(r) /\ ~secret
    /\ secret' = TRUE
    /\ UNCHANGED <<setup, rootCA, bundles, mounted, local, endpoints, leader,
                   beyla>>

MountCertificate(r) ==
    /\ RotatorRuns(r) /\ secret /\ r \notin mounted
    /\ mounted' = mounted \cup {r}
    /\ UNCHANGED <<setup, rootCA, secret, bundles, local, endpoints, leader,
                   beyla>>

\* Mutant: the validating webhook configuration is not on the list.
InjectBundlesOfPods(r) ==
    /\ RotatorRuns(r) /\ r \in mounted /\ bundles = {}
    /\ bundles' = {"pod"}
    /\ UNCHANGED <<setup, rootCA, secret, mounted, local, endpoints, leader,
                   beyla>>

InjectBundles(r) ==
    /\ RotatorRuns(r) /\ r \in mounted /\ bundles = {}
    /\ bundles' = {"pod", "configmap"}
    /\ UNCHANGED <<setup, rootCA, secret, mounted, local, endpoints, leader,
                   beyla>>

-----------------------------------------------------------------------------
(* The webhook server.                                                     *)

\* Mutant: the webhooks are registered without waiting for the certificate.
RegisterAtOnce(r) ==
    /\ Running(r)
    /\ \E i \in 2..4 : /\ hooks[r] = Progress[i]
                       /\ hooks' = [hooks EXCEPT ![r] = Progress[i + 1]]
    /\ UNCHANGED <<setup, rootCA, certs, phase, listening, view, endpoints,
                   leader, beyla>>

\* The goroutine, once the certificate is ready: setupWebhooks adds the server
\* to the running manager, then registers one webhook after the other.
Register(r) ==
    /\ Running(r) /\ r \in mounted
    /\ \E i \in 2..4 : /\ hooks[r] = Progress[i]
                       /\ hooks' = [hooks EXCEPT ![r] = Progress[i + 1]]
    /\ UNCHANGED <<setup, rootCA, certs, phase, listening, view, endpoints,
                   leader, beyla>>

\* The manager starts a server it has been given; it needs the certificate.
Listen(r) ==
    /\ Running(r) /\ ServerAdded(r) /\ r \in mounted /\ r \notin listening
    /\ listening' = listening \cup {r}
    /\ UNCHANGED <<setup, rootCA, certs, phase, hooks, view, endpoints, leader,
                   beyla>>

\* The readyz checks: a ping, and the started server unless it never starts.
Ready(r) == Running(r) /\ (setup.webhooks => r \in listening)

\* A readiness probe changes what the Service routes to.
Probe(r) ==
    /\ Ready(r) # (r \in endpoints)
    /\ endpoints' = IF Ready(r) THEN endpoints \cup {r} ELSE endpoints \ {r}
    /\ UNCHANGED <<setup, rootCA, certs, local, leader, beyla>>

-----------------------------------------------------------------------------
(* Leader, registry, writes.                                               *)

Elect(r) ==
    /\ setup.elect /\ Running(r) /\ leader = Nobody
    /\ leader' = r
    /\ UNCHANGED <<setup, rootCA, certs, local, endpoints, beyla>>

\* Mutant: what is loaded stays.
LoadOnce(r) ==
    /\ Active(r) /\ view[r] = NoRules
    /\ view' = [view EXCEPT ![r] = rules]
    /\ UNCHANGED <<setup, rootCA, certs, phase, hooks, listening, endpoints,
                   leader, beyla>>

\* The reconciler of a replica brings its registry up to date.
Load(r) ==
    /\ Active(r) /\ view[r] # rules
    /\ view' = [view EXCEPT ![r] = rules]
    /\ UNCHANGED <<setup, rootCA, certs, phase, hooks, listening, endpoints,
                   leader, beyla>>

\* Beyla has something new to write, and repeats the write until it succeeds.
Wish(v) ==
    /\ pending = Nobody /\ v # rules
    /\ pending' = v
    /\ UNCHANGED <<setup, rootCA, certs, local, endpoints, leader, rules>>

Write ==
    /\ pending # Nobody
    /\ Intercepted("state", TRUE) => Answered("configmap")
    /\ rules' = pending /\ pending' = Nobody
    /\ UNCHANGED <<setup, rootCA, certs, local, endpoints, leader>>

\* Mutant: the registry survives the process.
ExitKeepsView(r) ==
    /\ phase[r] # "off"
    /\ phase' = [phase EXCEPT ![r] = "off"]
    /\ hooks' = [hooks EXCEPT ![r] = "none"]
    /\ listening' = listening \ {r}
    /\ leader' = IF leader = r THEN Nobody ELSE leader
    /\ UNCHANGED <<setup, rootCA, certs, view, endpoints, beyla>>

\* The process ends: it crashes, loses the lease, fails to register a webhook
\* or is shut down while it waits for the certificate. The lease runs out, and
\* the Service routes to the replica until the next probe.
Exit(r) ==
    /\ phase[r] # "off"
    /\ phase' = [phase EXCEPT ![r] = "off"]
    /\ hooks' = [hooks EXCEPT ![r] = "none"]
    /\ listening' = listening \ {r}
    /\ view' = [view EXCEPT ![r] = NoRules]
    /\ leader' = IF leader = r THEN Nobody ELSE leader
    /\ UNCHANGED <<setup, rootCA, certs, endpoints, beyla>>

-----------------------------------------------------------------------------
Step(r) ==
    \/ StartContainer(r) \/ Main(r)
    \/ IssueCertificate(r) \/ MountCertificate(r) \/ InjectBundles(r)
    \/ Register(r) \/ Listen(r) \/ Probe(r) \/ Load(r)

Next ==
    \/ PublishRootCA \/ Write
    \/ \E r \in Replicas : Step(r) \/ Elect(r) \/ Exit(r)
    \/ \E v \in Contents : Wish(v)

Spec == Init /\ [][Next]_vars

\* Each part goes on: kubelet and control plane, rotator, goroutine, server,
\* probes, leader election and reconciler; Beyla repeats its writes.
Fairness ==
    /\ WF_vars(PublishRootCA) /\ WF_vars(Write)
    /\ \A r \in Replicas :
          /\ WF_vars(StartContainer(r)) /\ WF_vars(Main(r))
          /\ WF_vars(IssueCertificate(r)) /\ WF_vars(MountCertificate(r))
          /\ WF_vars(InjectBundles(r)) /\ WF_vars(Register(r))
          /\ WF_vars(Listen(r)) /\ WF_vars(Probe(r)) /\ WF_vars(Load(r))
    /\ WF_vars(\E r \in Replicas : Elect(r))

FairSpec == Spec /\ Fairness

-----------------------------------------------------------------------------
\* Type correctness; a process that is not running neither listens nor leads,
\* and its registry is gone.
TypeOK ==
    /\ setup \in Setups
    /\ rootCA \in BOOLEAN /\ secret \in BOOLEAN
    /\ bundles \subseteq {"pod", "configmap"}
    /\ phase \in [Replicas -> {"off", "main", "running"}]
    /\ hooks \in [Replicas -> {Progress[i] : i \in 1..5}]
    /\ mounted \subseteq Replicas /\ endpoints \subseteq Replicas
    /\ listening \subseteq {r \in Replicas : Running(r) /\ ServerAdded(r)}
    /\ leader \in {r \in Replicas : Running(r)} \cup {Nobody}
    /\ rules \in Contents /\ pending \in Contents \cup {Nobody}
    /\ view \in [Replicas -> Contents \cup {NoRules}]
    /\ \A r \in Replicas : view[r] # NoRules => Active(r)

\* Nothing starts before what it stands on, in any replica, however often
\* processes end and start again: no container without kube-root-ca.crt, no
\* controller under a refused setup, no webhook server before its certificate
\* is on the replica's own disk (its certwatcher would fail), no caBundle in the
\* webhook configurations before some replica can present the certificate.
StartsInOrder ==
    /\ \A r \in Replicas : /\ phase[r] # "off" => rootCA
                           /\ Running(r) => ~Refused(setup)
                           /\ ServerAdded(r) => setup.webhooks /\ r \in mounted
    /\ mounted # {} => secret
    /\ bundles # {} => mounted # {}

\* No process ends any more.
Steady == <>[][\A r \in Replicas : ~Exit(r)]_vars

\* Replicas that are set up completely all come to serve, both webhooks if
\* they are enabled: nothing waits in a circle, neither the certificate, its
\* late registration and readiness, nor the publication of kube-root-ca.crt,
\* the container that needs it and the webhook that may refuse it.
ReplicasServe ==
    Steady /\ ~Refused(setup) =>
        <>[](\A r \in Replicas : /\ r \in endpoints
                                 /\ setup.webhooks => hooks[r] = "both")

\* Some controller runs, and its sweeps are not put off forever, with webhooks
\* disabled too.
SweepsMayRun ==
    Steady /\ ~Refused(setup) =>
        <>[](\E r \in Replicas : Active(r) /\ GateOpen(r))

\* The fail-closed validating webhook delays Beyla's writes but does not lose
\* them: each is accepted in the end. It takes a process that serves the
\* webhook: where the configuration is installed and webhooks are disabled,
\* annotated ConfigMaps are refused for good.
WritesLand ==
    Steady /\ ~Refused(setup) /\ (setup.installed => setup.webhooks) =>
        []<>(pending = Nobody)

\* Beyla writes nothing new any more.
Settled == <>[][\A v \in Contents : ~Wish(v)]_vars

\* Every replica whose controllers run comes to hold the current rules, after
\* a change of leader too.
ViewsConverge ==
    Steady /\ Settled /\ ~Refused(setup) =>
        <>[](\A r \in Replicas : Active(r) => view[r] = rules)

\* Every replica that serves admissions comes to hold the current rules.
ServedViewsConverge ==
    Steady /\ Settled /\ ~Refused(setup) =>
        <>[](\A r \in endpoints : view[r] = rules)

=============================================================================
