--------------------------- MODULE StartupProofs ---------------------------
(***************************************************************************)
(* Any number of replicas, under any setup, start in order.                *)
(***************************************************************************)
EXTENDS Startup, TLAPS

LEMMA ProgressValues ==
    {Progress[i] : i \in 1..5} = {"none", "waiting", "added", "pod", "both"}
BY DEF Progress

(* Registration advances from a state in which it waits for the            *)
(* certificate, and ends in one in which the server has been added.        *)
LEMMA RegisterAdvances ==
    ASSUME NEW r \in Replicas, Register(r)
    PROVE  /\ hooks[r] \in {"waiting", "added", "pod"}
           /\ \E h \in {"added", "pod", "both"} :
                 hooks' = [hooks EXCEPT ![r] = h]
<1>1. PICK i \in 2..4 : /\ hooks[r] = Progress[i]
                        /\ hooks' = [hooks EXCEPT ![r] = Progress[i + 1]]
  BY DEF Register
<1>2. /\ Progress[2] = "waiting" /\ Progress[3] = "added"
      /\ Progress[4] = "pod" /\ Progress[5] = "both"
  BY DEF Progress
<1>3. i = 2 \/ i = 3 \/ i = 4
  OBVIOUS
<1>4. /\ Progress[i] \in {"waiting", "added", "pod"}
      /\ Progress[i + 1] \in {"added", "pod", "both"}
  BY <1>2, <1>3
<1> QED BY <1>1, <1>4

(***************************************************************************)
(* The state stays well typed; a process that does not run neither listens *)
(* nor leads, and only a replica whose controllers run holds any rules: a  *)
(* follower's registry is empty, a former leader's is gone.                *)
(***************************************************************************)
THEOREM StartupTypeCorrect == Spec => []TypeOK
<1> USE NobodyIsNobody, RulesAreSomething, SetupsAreFlagsAndNames
<1>1. Init => TypeOK
  BY ProgressValues DEF Init, TypeOK, Running, ServerAdded, Active
<1>2. ASSUME TypeOK, [Next]_vars PROVE TypeOK'
  <2>1. CASE PublishRootCA
    BY <1>2, <2>1 DEF TypeOK, PublishRootCA, certs, local, beyla, Running,
                      ServerAdded, Active
  <2>2. CASE Write
    BY <1>2, <2>2 DEF TypeOK, Write, certs, local, beyla, Running,
                      ServerAdded, Active
  <2>3. ASSUME NEW v \in Contents, Wish(v) PROVE TypeOK'
    BY <1>2, <2>3 DEF TypeOK, Wish, certs, local, beyla, Running,
                      ServerAdded, Active
  <2>4. ASSUME NEW r \in Replicas, StartContainer(r) PROVE TypeOK'
    BY <1>2, <2>4 DEF TypeOK, StartContainer, certs, local, beyla, Running,
                      ServerAdded, Active
  <2>5. ASSUME NEW r \in Replicas, Main(r) PROVE TypeOK'
    <3>1. PICK h \in {"none", "waiting", "both"} :
             hooks' = [hooks EXCEPT ![r] = h]
      BY <2>5 DEF Main
    <3>2. PICK f \in {"off", "running"} : phase' = [phase EXCEPT ![r] = f]
      BY <2>5 DEF Main
    <3>3. /\ hooks' \in [Replicas -> {Progress[i] : i \in 1..5}]
          /\ phase' \in [Replicas -> {"off", "main", "running"}]
      BY <1>2, <3>1, <3>2, ProgressValues DEF TypeOK
    <3>4. /\ phase[r] = "main"
          /\ UNCHANGED <<setup, rootCA, secret, bundles, mounted, listening,
                         view, endpoints, leader, rules, pending>>
      BY <2>5 DEF Main, certs, beyla
    <3>5. r \notin listening /\ leader # r /\ view[r] = NoRules
      BY <1>2, <3>4 DEF TypeOK, Running, Active
    <3>6. \A q \in Replicas \ {r} : hooks'[q] = hooks[q] /\ phase'[q] = phase[q]
      BY <1>2, <3>1, <3>2 DEF TypeOK
    <3>7. listening' \subseteq {q \in Replicas : Running(q)' /\ ServerAdded(q)'}
      BY <1>2, <3>4, <3>5, <3>6 DEF TypeOK, Running, ServerAdded
    <3>8. /\ leader' \in {q \in Replicas : Running(q)'} \cup {Nobody}
          /\ \A q \in Replicas : view'[q] # NoRules => Active(q)'
      BY <1>2, <3>4, <3>5, <3>6 DEF TypeOK, Running, Active
    <3> QED BY <1>2, <3>3, <3>4, <3>7, <3>8 DEF TypeOK
  <2>6. ASSUME NEW r \in Replicas,
               IssueCertificate(r) \/ MountCertificate(r) \/ InjectBundles(r)
        PROVE  TypeOK'
    BY <1>2, <2>6 DEF TypeOK, IssueCertificate, MountCertificate,
                      InjectBundles, certs, local, beyla, Running,
                      ServerAdded, Active
  <2>7. ASSUME NEW r \in Replicas, Register(r) PROVE TypeOK'
    <3>1. PICK h \in {"added", "pod", "both"} :
             hooks' = [hooks EXCEPT ![r] = h]
      BY <2>7, RegisterAdvances
    <3>2. /\ hooks' \in [Replicas -> {Progress[i] : i \in 1..5}]
          /\ \A q \in Replicas : ServerAdded(q) => ServerAdded(q)'
      BY <1>2, <3>1, ProgressValues DEF TypeOK, ServerAdded
    <3>3. UNCHANGED <<setup, rootCA, secret, bundles, mounted, phase, listening,
                      view, endpoints, leader, rules, pending>>
      BY <2>7 DEF Register, certs, beyla
    <3> QED BY <1>2, <3>2, <3>3 DEF TypeOK, Running, Active
  <2>8. ASSUME NEW r \in Replicas, Listen(r) \/ Probe(r) PROVE TypeOK'
    BY <1>2, <2>8 DEF TypeOK, Listen, Probe, certs, local, beyla, Running,
                      ServerAdded, Active
  <2>9. ASSUME NEW r \in Replicas, Load(r) PROVE TypeOK'
    BY <1>2, <2>9 DEF TypeOK, Load, certs, local, beyla, Running,
                      ServerAdded, Active
  <2>10. ASSUME NEW r \in Replicas, Elect(r) PROVE TypeOK'
    BY <1>2, <2>10 DEF TypeOK, Elect, certs, local, beyla, Running,
                       ServerAdded, Active
  <2>11. ASSUME NEW r \in Replicas, Exit(r) PROVE TypeOK'
    BY <1>2, <2>11, ProgressValues
       DEF TypeOK, Exit, certs, local, beyla, Running, ServerAdded, Active
  <2>12. CASE UNCHANGED vars
    BY <1>2, <2>12 DEF TypeOK, vars, certs, local, beyla, Running,
                       ServerAdded, Active
  <2> QED BY <1>2, <2>1, <2>2, <2>3, <2>4, <2>5, <2>6, <2>7, <2>8, <2>9,
             <2>10, <2>11, <2>12 DEF Next, Step
<1> QED BY <1>1, <1>2, PTL DEF Spec

-----------------------------------------------------------------------------
\* Besides: a certificate that is not rotated is there on every replica, and
\* only enabled webhooks are ever registered.
InOrder ==
    /\ StartsInOrder
    /\ ~setup.rotation => mounted = Replicas /\ secret
    /\ \A r \in Replicas : hooks[r] # "none" => setup.webhooks

(***************************************************************************)
(* No container without kube-root-ca.crt, no controller under a refused    *)
(* setup, no webhook server before the certificate is on its replica's     *)
(* disk, no caBundle before a replica can present the certificate:         *)
(* whatever number of replicas end and start again, in whatever order.     *)
(***************************************************************************)
THEOREM ReplicasStartInOrder == Spec => []StartsInOrder
<1>1. Init => InOrder
  BY SomeReplica DEF Init, InOrder, StartsInOrder, Running, ServerAdded
<1>2. ASSUME TypeOK, InOrder, [Next]_vars PROVE InOrder'
  <2> USE DEF TypeOK, InOrder, StartsInOrder, Running, ServerAdded
  <2>1. CASE PublishRootCA
    BY <1>2, <2>1 DEF PublishRootCA, certs, local
  <2>2. CASE Write \/ \E v \in Contents : Wish(v)
    BY <1>2, <2>2 DEF Write, Wish, certs, local
  <2>3. ASSUME NEW r \in Replicas, StartContainer(r) PROVE InOrder'
    BY <1>2, <2>3 DEF StartContainer, certs
  <2>4. ASSUME NEW r \in Replicas, Main(r) PROVE InOrder'
    BY <1>2, <2>4 DEF Main, certs
  <2>5. ASSUME NEW r \in Replicas,
               IssueCertificate(r) \/ MountCertificate(r) \/ InjectBundles(r)
        PROVE  InOrder'
    BY <1>2, <2>5 DEF IssueCertificate, MountCertificate, InjectBundles, local
  <2>6. ASSUME NEW r \in Replicas, Register(r) PROVE InOrder'
    <3>1. PICK h : hooks' = [hooks EXCEPT ![r] = h]
      BY <2>6, RegisterAdvances
    <3>2. r \in mounted /\ setup.webhooks
      BY <1>2, <2>6, RegisterAdvances DEF Register
    <3> QED BY <1>2, <2>6, <3>1, <3>2 DEF Register, certs
  <2>7. ASSUME NEW r \in Replicas,
               Listen(r) \/ Probe(r) \/ Load(r) \/ Elect(r)
        PROVE  InOrder'
    BY <1>2, <2>7 DEF Listen, Probe, Load, Elect, certs, local
  <2>8. ASSUME NEW r \in Replicas, Exit(r) PROVE InOrder'
    BY <1>2, <2>8 DEF Exit, certs
  <2>9. CASE UNCHANGED vars
    BY <1>2, <2>9 DEF vars, certs, local
  <2> QED BY <1>2, <2>1, <2>2, <2>3, <2>4, <2>5, <2>6, <2>7, <2>8, <2>9
          DEF Next, Step
<1>3. InOrder => StartsInOrder
  BY DEF InOrder
<1> QED BY <1>1, <1>2, <1>3, StartupTypeCorrect, PTL DEF Spec

=============================================================================
