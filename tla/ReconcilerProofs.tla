-------------------------- MODULE ReconcilerProofs --------------------------
(***************************************************************************)
(* What the runs check of the reconciler on a few ConfigMaps and nodes,    *)
(* for every number of them: its state stays well typed, the registry      *)
(* never silently lags behind the caches, an entry that is right stays so  *)
(* until something changes, and a sweep decides on the rules of the moment *)
(* whenever it can know them. And under which conditions what the code     *)
(* breaks would hold.                                                      *)
(***************************************************************************)
EXTENDS Reconciler, SelectionProofs, TLAPS

(* A key whose entry may be out of date: work for it is pending, or the    *)
(* change never reached the queue.                                         *)
Excused(k) == Pending(k) \/ k \in missed

(* The locals of a reconcile before it has written the registry are those  *)
(* of the cache, or its key is queued again.                               *)
LocalsCurrent ==
    /\ pc = "node" =>
          /\ hasSelectorAnnotation(got)
          /\ Excused(key) \/ got = cms[key]
    /\ pc = "load" =>
          /\ hasSelectorAnnotation(got)
          /\ Excused(key) \/ (got = cms[key] /\ NodeEligible(got, nodes))
    /\ pc = "drop" =>
          Excused(key) \/ Want(key) = Absent \/ (failed /\ got # Absent)

(* The same for the snapshot a refresh builds, key by key; with nothing    *)
(* changed since the rollouts began it is current without an excuse.       *)
RefreshCurrent ==
    pc = "filter" =>
        \A k \in CMKeys :
            /\ Excused(k) \/ IF k \in todo THEN listed[k] = cms[k]
                             ELSE StoredEntry(instruments[k]) = Want(k)
            /\ ~moved => IF k \in todo THEN listed[k] = cms[k]
                         ELSE StoredEntry(instruments[k]) = Want(k)

(* The inductive invariant.                                                *)
IInv ==
    /\ TypeOK
    /\ RegistryCurrent
    /\ LocalsCurrent
    /\ RefreshCurrent
    /\ SnapshotExact

-----------------------------------------------------------------------------
(* What a ConfigMap contributes.                                           *)

LEMMA LoadedType ==
    ASSUME NEW cm \in ConfigMaps
    PROVE  LoadedEntry(cm) \in Entries
BY ParsedType, StoredType DEF LoadedEntry, Entries

LEMMA UnmarkedContributesNothing ==
    ASSUME NEW cm, NEW ns, ~hasSelectorAnnotation(cm)
    PROVE  Contribution(cm, ns) = Absent
BY DEF Contribution

LEMMA IneligibleContributesNothing ==
    ASSUME NEW cm, NEW ns, ~NodeEligible(cm, ns)
    PROVE  Contribution(cm, ns) = Absent
BY DEF Contribution

LEMMA EligibleContributesItsEntry ==
    ASSUME NEW cm, NEW ns, hasSelectorAnnotation(cm), NodeEligible(cm, ns)
    PROVE  Contribution(cm, ns) = LoadedEntry(cm)
BY DEF Contribution

(* A node matters only to the ConfigMaps that name it.                     *)
LEMMA OtherNodesDoNotMatter ==
    ASSUME NEW cm \in Objects, hasSelectorAnnotation(cm),
           NEW ns \in [NodeNames -> NodeStates],
           NEW n \in NodeNames, NEW s, cm.node # n
    PROVE  /\ NodeEligible(cm, [ns EXCEPT ![n] = s]) <=> NodeEligible(cm, ns)
           /\ Contribution(cm, [ns EXCEPT ![n] = s]) = Contribution(cm, ns)
<1>1. cm \in ConfigMaps
  BY DEF Objects, hasSelectorAnnotation
<1>2. cm.node \in NodeNames \cup {""}
  BY <1>1 DEF ConfigMaps
<1>3. NodeEligible(cm, [ns EXCEPT ![n] = s]) <=> NodeEligible(cm, ns)
  BY <1>2 DEF NodeEligible
<1> QED BY <1>3 DEF Contribution

(* What a refresh keeps of a listed ConfigMap is what it contributes.      *)
LEMMA RefreshedEntry ==
    ASSUME NEW cm \in ConfigMaps, hasSelectorAnnotation(cm), NEW ns
    PROVE  StoredEntry(IF NodeEligible(cm, ns) /\ ~ParseFails(cm)
                       THEN ParsedConfig(cm) ELSE Absent)
             = Contribution(cm, ns)
<1>1. CASE NodeEligible(cm, ns) /\ ~ParseFails(cm)
  BY <1>1, ParsedType, AbsentIsNoValue DEF StoredEntry, Contribution, LoadedEntry
<1>2. CASE ~(NodeEligible(cm, ns) /\ ~ParseFails(cm))
  BY <1>2 DEF StoredEntry, Contribution, LoadedEntry
<1> QED BY <1>1, <1>2

-----------------------------------------------------------------------------
(* Type correctness.                                                       *)

(* A failed ReplicaSet lookup hides the workload of a pod or changes       *)
(* nothing at all.                                                         *)
LEMMA LookupsAgree ==
    ASSUME NEW found \in Lookups, NEW p \in Slots,
           resolveWorkload(PodInfo[p][found[p]]) # NoWorkload
    PROVE  PodInfo[p][found[p]] = PodInfo[p][TRUE]
<1>1. found[p] \in BOOLEAN
  BY DEF Lookups
<1>2. \A b \in BOOLEAN : PodInfo[p][b] = Resolve(Meta[p], Meta[p].name, b)
  BY DEF PodInfo
<1>3. CASE found[p] = TRUE
  BY <1>3
<1>4. CASE found[p] = FALSE
  BY <1>4, <1>2, TruncatedOwner
<1> QED BY <1>1, <1>3, <1>4

(* A sweep schedules workloads of the cluster, whatever lookups fail.      *)
LEMMA SweepsWorkloads ==
    ASSUME NEW R, NEW P, NEW targets, NEW cleanup, NEW found \in Lookups
    PROVE  SweepWorkloads(R, P, targets, cleanup, found) \subseteq Workloads
<1> SUFFICES ASSUME NEW p \in Slots,
                    resolveWorkload(PodInfo[p][found[p]]) # NoWorkload
             PROVE  resolveWorkload(PodInfo[p][found[p]]) \in Workloads
  BY DEF SweepWorkloads, Rollable
<1>1. WorkloadOf[p] = resolveWorkload(PodInfo[p][found[p]])
  BY LookupsAgree DEF WorkloadOf
<1> QED BY <1>1 DEF Workloads

LEMMA EmptyType == Empty \in [CMKeys -> Entries] /\ Empty \in [CMKeys -> Objects]
BY DEF Empty, Entries, Objects

LEMMA InitTypeOK == Init => TypeOK
<1> SUFFICES ASSUME Init PROVE TypeOK
  OBVIOUS
<1>1. cms \in [CMKeys -> Objects]
  BY WritesAreConfigMaps DEF Init, Objects
<1>2. Annotated(cms) \subseteq CMKeys
  BY DEF Annotated
<1> QED BY <1>1, <1>2, EmptyType
        DEF Init, TypeOK, WorkerIdle, RefreshIdle, PCs, Objects

(* The end of a reconcile resets its locals.                               *)
LEMMA DoneTypeOK ==
    ASSUME TypeOK, WorkerDone, waiting' \in {waiting, waiting \cup {key}},
           pc # "idle", registry' \in [CMKeys -> Entries],
           UNCHANGED <<cluster, queue, missed, nodeEvents, podVars>>
    PROVE  TypeOK'
BY EmptyType DEF TypeOK, WorkerDone, cluster, podVars, PCs, Objects

LEMMA StepTypeOK == TypeOK /\ [Next]_vars => TypeOK'
<1> SUFFICES ASSUME TypeOK, [Next]_vars PROVE TypeOK'
  OBVIOUS
<1> USE DEF cluster, events, podVars, refresh, worker
<1>1. ASSUME NEW k \in CMKeys, NEW v \in Writes[k], WriteCM(k, v) PROVE TypeOK'
  <2>1. v \in Objects
    BY WritesAreConfigMaps DEF Objects
  <2> QED BY <1>1, <2>1 DEF WriteCM, TypeOK
<1>2. ASSUME NEW n \in NodeNames, NEW s \in NodeStates, WriteNode(n, s)
      PROVE  TypeOK'
  BY <1>2 DEF WriteNode, TypeOK
<1>3. ASSUME NEW n \in NodeNames, HandleNodeEvent(n) PROVE TypeOK'
  BY <1>3 DEF HandleNodeEvent, TypeOK, ConfigMapsForNode
<1>4. ASSUME NEW n \in NodeNames, HandleNodeEventFails(n) PROVE TypeOK'
  BY <1>4 DEF HandleNodeEventFails, TypeOK, ConfigMapsForNode
<1>5. ASSUME NEW k \in CMKeys, Resync(k) PROVE TypeOK'
  BY <1>5 DEF Resync, TypeOK
<1>6. ASSUME NEW k \in CMKeys, Fire(k) PROVE TypeOK'
  BY <1>6 DEF Fire, TypeOK
<1>7. CASE WebhookUp \/ WebhookDown
  BY <1>7 DEF WebhookUp, WebhookDown, TypeOK
<1>8. ASSUME NEW p \in Slots, PodStep(p) PROVE TypeOK'
  BY <1>8 DEF PodStep, TypeOK
<1>9. CASE Restart
  BY <1>9, EmptyType DEF Restart, TypeOK, Annotated, PCs, Objects
<1>10. ASSUME NEW k \in CMKeys, Begin(k) PROVE TypeOK'
  BY <1>10 DEF Begin, TypeOK, PCs, hasSelectorAnnotation, Objects
<1>11. ASSUME NEW k \in CMKeys, BeginFails(k) PROVE TypeOK'
  BY <1>11 DEF BeginFails, TypeOK
<1>12. CASE CheckNode
  BY <1>12 DEF CheckNode, GoTo, TypeOK, PCs
<1>13. CASE CheckNodeFails
  BY <1>13 DEF CheckNodeFails, GoTo, TypeOK, PCs
<1>14. CASE Drop
  <2>1. registry' \in [CMKeys -> Entries]
    BY <1>14 DEF Drop, TypeOK, Entries
  <2>2. CASE got = Absent
    BY <1>14, <2>1, <2>2 DEF Drop, GoTo, TypeOK, PCs
  <2>3. CASE got # Absent
    BY <1>14, <2>1, <2>3, DoneTypeOK DEF Drop, Return, Retry
  <2> QED BY <2>2, <2>3
<1>15. CASE LoadInvalid
  <2>1. registry' \in [CMKeys -> Entries]
    BY <1>15 DEF LoadInvalid, TypeOK, Entries
  <2> QED BY <1>15, <2>1, DoneTypeOK DEF LoadInvalid, Return
<1>16. CASE LoadPanics
  BY <1>16, DoneTypeOK DEF LoadPanics, Retry, TypeOK
<1>17. CASE Load
  <2>1. Stored(ParsedConfig(got)) \in Entries
    BY <1>17, ParsedType, StoredType DEF Load, TypeOK, Entries
  <2>2. registry' \in [CMKeys -> Entries]
    BY <1>17, <2>1 DEF Load, TypeOK
  <2>3. CASE ~Cleaning /\ SweepTargets = {}
    BY <1>17, <2>2, <2>3, DoneTypeOK DEF Load, Return
  <2>4. CASE ~(~Cleaning /\ SweepTargets = {})
    BY <1>17, <2>2, <2>4 DEF Load, GoTo, TypeOK, PCs
  <2> QED BY <2>3, <2>4
<1>18. CASE GateOff \/ GateDefers
  BY <1>18, DoneTypeOK DEF GateOff, GateDefers, Return, Retry, TypeOK
<1>19. CASE GatePasses
  BY <1>19 DEF GatePasses, TypeOK, PCs
<1>20. CASE RefreshList
  BY <1>20, EmptyType DEF RefreshList, TypeOK, PCs
<1>21. ASSUME NEW k \in CMKeys, RefreshOne(k) PROVE TypeOK'
  <2>1. listed[k] \in ConfigMaps
    BY <1>21 DEF RefreshOne, TypeOK, Annotated, hasSelectorAnnotation, Objects
  <2>2. instruments' \in [CMKeys -> Entries]
    BY <1>21, <2>1, ParsedType DEF RefreshOne, TypeOK, Entries
  <2> QED BY <1>21, <2>2 DEF RefreshOne, TypeOK
<1>22. ASSUME NEW k \in CMKeys, RefreshPanics(k) PROVE TypeOK'
  BY <1>22, DoneTypeOK DEF RefreshPanics, Retry, TypeOK
<1>23. CASE RefreshFails
  BY <1>23, DoneTypeOK DEF RefreshFails, Retry, TypeOK
<1>24. CASE Replace
  <2>1. \A k \in CMKeys : instruments[k] # Absent =>
                             Stored(instruments[k]) \in Entries
    BY StoredType DEF TypeOK, Entries
  <2>2. registry' \in [CMKeys -> Entries]
    BY <1>24, <2>1 DEF Replace, StoredEntry, Entries
  <2> QED BY <1>24, <2>2 DEF Replace, GoTo, TypeOK, PCs
<1>25. CASE Sweep
  <2>1. toRestart' \subseteq Workloads
    BY <1>25, SweepsWorkloads DEF Sweep
  <2> QED BY <1>25, <2>1 DEF Sweep, GoTo, TypeOK, PCs
<1>26. CASE SweepFails
  BY <1>26, DoneTypeOK DEF SweepFails, Return, Retry, TypeOK
<1>27. ASSUME NEW w \in Workloads, Patch(w) PROVE TypeOK'
  BY <1>27 DEF Patch, PodsOf, TypeOK
<1>28. ASSUME NEW w \in Workloads, PatchFails(w) PROVE TypeOK'
  BY <1>28 DEF PatchFails, TypeOK
<1>29. CASE SweepDone
  BY <1>29, DoneTypeOK DEF SweepDone, Return, Retry, TypeOK
<1>30. CASE UNCHANGED vars
  BY <1>30 DEF vars, TypeOK
<1> QED
  BY <1>1, <1>2, <1>3, <1>4, <1>5, <1>6, <1>7, <1>8, <1>9, <1>10, <1>11,
     <1>12, <1>13, <1>14, <1>15, <1>16, <1>17, <1>18, <1>19, <1>20, <1>21,
     <1>22, <1>23, <1>24, <1>25, <1>26, <1>27, <1>28, <1>29, <1>30
     DEF Next, Routine, Work, Disturbance, Change, Failure

(* The state of the reconciler is well typed in every reachable state: in  *)
(* particular a panic, a failed call or a crash leaves no half-written     *)
(* local behind, and a sweep whose ReplicaSet lookups fail never patches   *)
(* anything but a workload that owns pods.                                 *)
THEOREM TypeCorrect == Spec => []TypeOK
BY InitTypeOK, StepTypeOK, PTL DEF Spec

-----------------------------------------------------------------------------
(* The registry and the caches.                                            *)

Consistent == RegistryCurrent /\ LocalsCurrent /\ RefreshCurrent /\ SnapshotExact

LEMMA InitConsistent == Init => Consistent
<1> SUFFICES ASSUME Init PROVE Consistent
  OBVIOUS
<1>1. ASSUME NEW k \in CMKeys PROVE registry[k] = Want(k) \/ Pending(k)
  <2>1. CASE hasSelectorAnnotation(cms[k])
    BY <2>1 DEF Init, Annotated, Pending
  <2>2. CASE ~hasSelectorAnnotation(cms[k])
    BY <2>2, UnmarkedContributesNothing DEF Init, Empty, Want
  <2> QED BY <2>1, <2>2
<1> QED BY <1>1 DEF Init, WorkerIdle, Consistent, RegistryCurrent,
                    LocalsCurrent, RefreshCurrent, SnapshotExact

(* Steps around the worker that change neither ConfigMaps nor nodes keep   *)
(* the invariant as long as they forget no excuse.                         *)
LEMMA ExcusesKept ==
    ASSUME IInv,
           UNCHANGED <<cms, nodes, registry, refresh, pc, key, got>>,
           failed' = failed \/ pc = "patch",
           \A k \in CMKeys : Excused(k) => Excused(k)'
    PROVE  Consistent'
<1> USE DEF IInv, TypeOK, refresh, Want
<1>1. RegistryCurrent'
  BY DEF RegistryCurrent, Excused
<1>2. LocalsCurrent'
  BY DEF LocalsCurrent, PCs
<1>3. RefreshCurrent'
  BY DEF RefreshCurrent
<1>4. SnapshotExact'
  BY DEF SnapshotExact, Cleaning
<1> QED BY <1>1, <1>2, <1>3, <1>4 DEF Consistent

(* A change of the caches keeps the invariant if every key it concerns is  *)
(* excused afterwards.                                                     *)
LEMMA ChangesAreExcused ==
    ASSUME IInv, moved' = TRUE,
           UNCHANGED <<registry, listed, todo, instruments, worker>>,
           \A k \in CMKeys :
              \/ Excused(k)'
              \/ /\ Excused(k) => Excused(k)'
                 /\ Want(k)' = Want(k)
                 /\ hasSelectorAnnotation(cms[k]) =>
                       /\ cms'[k] = cms[k]
                       /\ NodeEligible(cms[k], nodes') <=>
                             NodeEligible(cms[k], nodes)
    PROVE  Consistent'
<1> USE DEF IInv, TypeOK, worker
<1>1. RegistryCurrent'
  BY DEF RegistryCurrent, Excused
<1>2. LocalsCurrent'
  BY DEF LocalsCurrent, PCs
<1>3. RefreshCurrent'
  <2> SUFFICES ASSUME pc = "filter", NEW k \in CMKeys
               PROVE  Excused(k)' \/ IF k \in todo THEN listed[k] = cms'[k]
                                     ELSE StoredEntry(instruments[k]) = Want(k)'
    BY DEF RefreshCurrent
  <2>1. k \in todo => hasSelectorAnnotation(listed[k])
    BY DEF Annotated
  <2> QED BY <2>1 DEF RefreshCurrent
<1>4. SnapshotExact'
  BY DEF SnapshotExact
<1> QED BY <1>1, <1>2, <1>3, <1>4 DEF Consistent

(* The end of a reconcile, once the entry of its key is right or the key   *)
(* is to be tried again.                                                   *)
LEMMA DoneConsistent ==
    ASSUME IInv, WorkerDone,
           \A k \in CMKeys : registry'[k] = Want(k)' \/ Excused(k)'
    PROVE  Consistent'
BY DEF WorkerDone, Consistent, RegistryCurrent, LocalsCurrent, RefreshCurrent,
       SnapshotExact, Excused

(* Beyond the writes of the registry at its start, a reconcile leaves      *)
(* every entry current or excused.                                         *)
LEMMA WrittenIsCurrent ==
    ASSUME IInv, pc \notin {"node", "load", "drop"}
    PROVE  \A k \in CMKeys : registry[k] = Want(k) \/ Excused(k)
BY DEF IInv, RegistryCurrent, Excused

LEMMA RetryKeepsCurrent ==
    ASSUME IInv, Retry, pc # "idle",
           UNCHANGED <<cluster, queue, missed, nodeEvents, registry>>
    PROVE  Consistent'
<1> SUFFICES ASSUME NEW k \in CMKeys
             PROVE  registry'[k] = Want(k)' \/ Excused(k)'
  BY DoneConsistent DEF Retry
<1> USE DEF cluster, Want, Excused, Pending
<1>1. CASE k = key
  BY <1>1 DEF Retry
<1>2. CASE k # key
  BY <1>2 DEF Retry, IInv, RegistryCurrent
<1> QED BY <1>1, <1>2

LEMMA ReturnKeepsCurrent ==
    ASSUME IInv, Return, pc \notin {"idle", "node", "load", "drop"},
           UNCHANGED <<cluster, queue, missed, nodeEvents, registry>>
    PROVE  Consistent'
<1>1. \A k \in CMKeys : registry'[k] = Want(k)' \/ Excused(k)'
  BY WrittenIsCurrent DEF Return, cluster, Want, Excused, Pending
<1> QED BY <1>1, DoneConsistent DEF Return

LEMMA StepConsistent == IInv /\ [Next]_vars => Consistent'
<1> SUFFICES ASSUME IInv, [Next]_vars PROVE Consistent'
  OBVIOUS
<1> USE DEF cluster, events, podVars, refresh
<1>1. ASSUME NEW k \in CMKeys, NEW v \in Writes[k], WriteCM(k, v)
      PROVE  Consistent'
  <2> SUFFICES ASSUME NEW j \in CMKeys
               PROVE  \/ Excused(j)'
                      \/ /\ Excused(j) => Excused(j)'
                         /\ Want(j)' = Want(j)
                         /\ hasSelectorAnnotation(cms[j]) =>
                               /\ cms'[j] = cms[j]
                               /\ NodeEligible(cms[j], nodes') <=>
                                     NodeEligible(cms[j], nodes)
    BY <1>1, ChangesAreExcused DEF WriteCM
  <2>1. CASE j # k
    BY <1>1, <2>1 DEF WriteCM, IInv, TypeOK, Want, Excused, Pending
  <2>2. CASE j = k
    <3>1. CASE hasSelectorAnnotation(v) \/ hasSelectorAnnotation(cms[k])
      BY <1>1, <2>2, <3>1 DEF WriteCM, IInv, TypeOK, Excused, Pending,
                              hasSelectorAnnotation
    <3>2. CASE ~hasSelectorAnnotation(v) /\ ~hasSelectorAnnotation(cms[k])
      <4>1. cms'[k] = v /\ nodes' = nodes
        BY <1>1 DEF WriteCM, IInv, TypeOK
      <4>2. Want(k)' = Want(k)
        BY <3>2, <4>1, UnmarkedContributesNothing DEF Want
      <4>3. Excused(k) => Excused(k)'
        BY <1>1, <3>2, <4>1 DEF WriteCM, Excused, Pending, hasSelectorAnnotation
      <4> QED BY <2>2, <3>2, <4>2, <4>3
    <3> QED BY <3>1, <3>2
  <2> QED BY <2>1, <2>2
<1>2. ASSUME NEW n \in NodeNames, NEW s \in NodeStates, WriteNode(n, s)
      PROVE  Consistent'
  <2> SUFFICES ASSUME NEW j \in CMKeys
               PROVE  \/ Excused(j)'
                      \/ /\ Excused(j) => Excused(j)'
                         /\ Want(j)' = Want(j)
                         /\ hasSelectorAnnotation(cms[j]) =>
                               /\ cms'[j] = cms[j]
                               /\ NodeEligible(cms[j], nodes') <=>
                                     NodeEligible(cms[j], nodes)
    BY <1>2, ChangesAreExcused DEF WriteNode
  <2>1. Excused(j) => Excused(j)'
    BY <1>2 DEF WriteNode, Excused, Pending
  <2>2. CASE ~hasSelectorAnnotation(cms[j])
    BY <1>2, <2>1, <2>2, UnmarkedContributesNothing DEF WriteNode, Want
  <2>3. CASE hasSelectorAnnotation(cms[j]) /\ cms[j].node = n
    BY <1>2, <2>3 DEF WriteNode, Excused, Pending
  <2>4. CASE hasSelectorAnnotation(cms[j]) /\ cms[j].node # n
    <3>1. cms[j] \in Objects /\ nodes \in [NodeNames -> NodeStates]
      BY DEF IInv, TypeOK
    <3>2. cms' = cms /\ nodes' = [nodes EXCEPT ![n] = s]
      BY <1>2 DEF WriteNode
    <3> QED BY <2>1, <2>4, <3>1, <3>2, OtherNodesDoNotMatter DEF Want
  <2> QED BY <2>2, <2>3, <2>4
<1>3. ASSUME NEW n \in NodeNames, HandleNodeEvent(n) PROVE Consistent'
  <2>1. \A k \in CMKeys : Excused(k) => Excused(k)'
    BY <1>3 DEF HandleNodeEvent, Excused, Pending, ConfigMapsForNode
  <2> QED BY <1>3, <2>1, ExcusesKept DEF HandleNodeEvent, worker
<1>4. ASSUME NEW n \in NodeNames, HandleNodeEventFails(n) PROVE Consistent'
  <2>1. \A k \in CMKeys : Excused(k) => Excused(k)'
    BY <1>4 DEF HandleNodeEventFails, Excused, Pending, ConfigMapsForNode
  <2> QED BY <1>4, <2>1, ExcusesKept DEF HandleNodeEventFails, worker
<1>5. ASSUME NEW k \in CMKeys, Resync(k) PROVE Consistent'
  <2>1. \A j \in CMKeys : Excused(j) => Excused(j)'
    BY <1>5 DEF Resync, Excused, Pending
  <2> QED BY <1>5, <2>1, ExcusesKept DEF Resync, worker
<1>6. ASSUME NEW k \in CMKeys, Fire(k) PROVE Consistent'
  <2>1. \A j \in CMKeys : Excused(j) => Excused(j)'
    BY <1>6 DEF Fire, Excused, Pending
  <2> QED BY <1>6, <2>1, ExcusesKept DEF Fire, worker
<1>7. CASE WebhookUp \/ WebhookDown
  BY <1>7, ExcusesKept DEF WebhookUp, WebhookDown, worker, Excused, Pending
<1>8. ASSUME NEW p \in Slots, PodStep(p) PROVE Consistent'
  BY <1>8, ExcusesKept DEF PodStep, worker, Excused, Pending
<1>9. CASE Restart
  <2> SUFFICES ASSUME NEW k \in CMKeys
               PROVE  registry'[k] = Want(k)' \/ Excused(k)'
    BY <1>9, DoneConsistent DEF Restart, WorkerDone
  <2>1. CASE hasSelectorAnnotation(cms[k])
    BY <1>9, <2>1 DEF Restart, Annotated, Excused, Pending
  <2>2. CASE ~hasSelectorAnnotation(cms[k])
    BY <1>9, <2>2, UnmarkedContributesNothing DEF Restart, Empty, Want
  <2> QED BY <2>1, <2>2
<1>10. ASSUME NEW k \in CMKeys, Begin(k) PROVE Consistent'
  <2>1. RegistryCurrent'
    BY <1>10 DEF Begin, IInv, RegistryCurrent, Want, Pending
  <2>2. LocalsCurrent'
    BY <1>10, UnmarkedContributesNothing DEF Begin, LocalsCurrent, Want
  <2> QED BY <1>10, <2>1, <2>2 DEF Begin, Consistent, RefreshCurrent, SnapshotExact
<1>11. ASSUME NEW k \in CMKeys, BeginFails(k) PROVE Consistent'
  <2>1. \A j \in CMKeys : Excused(j) => Excused(j)'
    BY <1>11 DEF BeginFails, Excused, Pending
  <2> QED BY <1>11, <2>1, ExcusesKept DEF BeginFails, worker
<1>12. CASE CheckNode
  <2>1. RegistryCurrent'
    BY <1>12 DEF CheckNode, GoTo, IInv, RegistryCurrent, Want, Pending
  <2>2. LocalsCurrent'
    BY <1>12, IneligibleContributesNothing
       DEF CheckNode, GoTo, IInv, LocalsCurrent, Want, Excused, Pending
  <2> QED BY <1>12, <2>1, <2>2
          DEF CheckNode, GoTo, Consistent, RefreshCurrent, SnapshotExact
<1>13. CASE CheckNodeFails
  <2>1. RegistryCurrent'
    BY <1>13 DEF CheckNodeFails, GoTo, IInv, RegistryCurrent, Want, Pending
  <2>2. LocalsCurrent'
    BY <1>13, AbsentIsNoValue DEF CheckNodeFails, GoTo, IInv, TypeOK, LocalsCurrent
  <2> QED BY <1>13, <2>1, <2>2
          DEF CheckNodeFails, GoTo, Consistent, RefreshCurrent, SnapshotExact
<1>14. CASE Drop
  <2>1. \A k \in CMKeys : \/ registry'[k] = Want(k)' \/ Excused(k)'
                          \/ k = key /\ failed /\ got # Absent
    BY <1>14 DEF Drop, GoTo, Return, Retry, IInv, TypeOK, RegistryCurrent,
                 LocalsCurrent, Want, Excused, Pending
  <2>2. CASE got = Absent
    BY <1>14, <2>1, <2>2 DEF Drop, GoTo, Consistent, RegistryCurrent, Excused,
                             LocalsCurrent, RefreshCurrent, SnapshotExact
  <2>3. CASE got # Absent
    <3>1. \A k \in CMKeys : registry'[k] = Want(k)' \/ Excused(k)'
      BY <1>14, <2>1, <2>3 DEF Drop, Return, Retry, Excused, Pending
    <3> QED BY <1>14, <2>3, <3>1, DoneConsistent DEF Drop, Return, Retry
  <2> QED BY <2>2, <2>3
<1>15. CASE LoadInvalid
  <2>1. Excused(key) \/ Want(key) = Absent
    BY <1>15, EligibleContributesItsEntry
       DEF LoadInvalid, IInv, LocalsCurrent, Want, LoadedEntry
  <2>2. \A k \in CMKeys : registry'[k] = Want(k)' \/ Excused(k)'
    BY <1>15, <2>1 DEF LoadInvalid, Return, IInv, TypeOK, RegistryCurrent, Want,
                       Excused, Pending
  <2> QED BY <1>15, <2>2, DoneConsistent DEF LoadInvalid, Return
<1>16. CASE LoadPanics
  BY <1>16, RetryKeepsCurrent DEF LoadPanics
<1>17. CASE Load
  <2>1. Excused(key) \/ Want(key) = Stored(ParsedConfig(got))
    BY <1>17, EligibleContributesItsEntry
       DEF Load, IInv, LocalsCurrent, Want, LoadedEntry
  <2>2. \A k \in CMKeys : registry'[k] = Want(k)' \/ Excused(k)'
    BY <1>17, <2>1 DEF Load, GoTo, Return, IInv, TypeOK, RegistryCurrent, Want,
                       Excused, Pending
  <2>3. CASE ~Cleaning /\ SweepTargets = {}
    BY <1>17, <2>2, <2>3, DoneConsistent DEF Load, Return
  <2>4. CASE ~(~Cleaning /\ SweepTargets = {})
    BY <1>17, <2>2, <2>4 DEF Load, GoTo, Consistent, RegistryCurrent, Excused,
                             LocalsCurrent, RefreshCurrent, SnapshotExact
  <2> QED BY <2>3, <2>4
<1>18. CASE GateOff \/ GateDefers
  BY <1>18, ReturnKeepsCurrent, RetryKeepsCurrent DEF GateOff, GateDefers
<1>19. CASE GatePasses
  <2>1. RegistryCurrent'
    BY <1>19 DEF GatePasses, IInv, RegistryCurrent, Want, Pending
  <2> QED BY <1>19, <2>1 DEF GatePasses, Consistent, LocalsCurrent,
                             RefreshCurrent, SnapshotExact, Cleaning
<1>20. CASE RefreshList
  <2>1. RegistryCurrent'
    BY <1>20 DEF RefreshList, IInv, RegistryCurrent, Want, Pending
  <2>2. RefreshCurrent'
    <3> SUFFICES ASSUME NEW k \in CMKeys
                 PROVE  IF k \in todo' THEN listed'[k] = cms'[k]
                        ELSE StoredEntry(instruments'[k]) = Want(k)'
      BY DEF RefreshCurrent
    <3>1. CASE k \in todo'
      BY <1>20, <3>1 DEF RefreshList
    <3>2. CASE k \notin todo'
      <4>1. ~hasSelectorAnnotation(cms[k])
        BY <1>20, <3>2 DEF RefreshList, Annotated
      <4>2. StoredEntry(instruments'[k]) = Absent
        BY <1>20 DEF RefreshList, StoredEntry, Empty
      <4> QED BY <1>20, <3>2, <4>1, <4>2, UnmarkedContributesNothing
              DEF RefreshList, Want
    <3> QED BY <3>1, <3>2
  <2> QED BY <1>20, <2>1, <2>2 DEF RefreshList, Consistent, LocalsCurrent,
                                   SnapshotExact
<1>21. ASSUME NEW k \in CMKeys, RefreshOne(k) PROVE Consistent'
  <2>1. RegistryCurrent'
    BY <1>21 DEF RefreshOne, worker, IInv, RegistryCurrent, Want, Pending
  <2>2. RefreshCurrent'
    <3>1. listed[k] \in ConfigMaps /\ hasSelectorAnnotation(listed[k])
      BY <1>21 DEF RefreshOne, IInv, TypeOK, Annotated, hasSelectorAnnotation,
                   Objects
    <3>2. StoredEntry(instruments'[k]) = Contribution(listed[k], nodes)
      BY <1>21, <3>1, RefreshedEntry DEF RefreshOne, IInv, TypeOK
    <3> SUFFICES ASSUME NEW j \in CMKeys
                 PROVE  /\ \/ Excused(j)'
                           \/ IF j \in todo' THEN listed'[j] = cms'[j]
                              ELSE StoredEntry(instruments'[j]) = Want(j)'
                        /\ ~moved' =>
                              IF j \in todo' THEN listed'[j] = cms'[j]
                              ELSE StoredEntry(instruments'[j]) = Want(j)'
      BY DEF RefreshCurrent
    <3>3. Excused(j) => Excused(j)'
      BY <1>21 DEF RefreshOne, Excused, Pending
    <3>4. CASE j = k
      BY <1>21, <3>2, <3>3, <3>4 DEF RefreshOne, IInv, RefreshCurrent, Want
    <3>5. CASE j # k
      BY <1>21, <3>3, <3>5 DEF RefreshOne, IInv, TypeOK, RefreshCurrent, Want
    <3> QED BY <3>4, <3>5
  <2> QED BY <1>21, <2>1, <2>2 DEF RefreshOne, worker, Consistent,
                                   LocalsCurrent, SnapshotExact
<1>22. ASSUME NEW k \in CMKeys, RefreshPanics(k) PROVE Consistent'
  BY <1>22, RetryKeepsCurrent DEF RefreshPanics
<1>23. CASE RefreshFails
  BY <1>23, RetryKeepsCurrent DEF RefreshFails
<1>24. CASE Replace
  <2>1. \A k \in CMKeys : registry'[k] = StoredEntry(instruments[k])
    BY <1>24 DEF Replace, StoredEntry
  <2>2. \A k \in CMKeys : /\ registry'[k] = Want(k)' \/ Excused(k)'
                          /\ ~moved' => registry'[k] = Want(k)'
    BY <1>24, <2>1 DEF Replace, GoTo, IInv, RefreshCurrent, Want, Excused, Pending
  <2> QED BY <1>24, <2>2 DEF Replace, GoTo, Consistent, RegistryCurrent,
                Excused, LocalsCurrent, RefreshCurrent, SnapshotExact
<1>25. CASE Sweep
  <2>1. RegistryCurrent'
    BY <1>25 DEF Sweep, GoTo, IInv, RegistryCurrent, Want, Pending
  <2>2. SnapshotExact'
    BY <1>25 DEF Sweep, GoTo, IInv, SnapshotExact, Want, Cleaning
  <2> QED BY <1>25, <2>1, <2>2 DEF Sweep, GoTo, Consistent, LocalsCurrent,
                                   RefreshCurrent
<1>26. CASE SweepFails
  BY <1>26, ReturnKeepsCurrent, RetryKeepsCurrent DEF SweepFails
<1>27. ASSUME NEW w \in Workloads, Patch(w) PROVE Consistent'
  BY <1>27, ExcusesKept DEF Patch, Excused, Pending
<1>28. ASSUME NEW w \in Workloads, PatchFails(w) PROVE Consistent'
  BY <1>28, ExcusesKept DEF PatchFails, Excused, Pending
<1>29. CASE SweepDone
  BY <1>29, ReturnKeepsCurrent, RetryKeepsCurrent DEF SweepDone
<1>30. CASE UNCHANGED vars
  BY <1>30, ExcusesKept DEF vars, worker, Excused, Pending
<1> QED
  BY <1>1, <1>2, <1>3, <1>4, <1>5, <1>6, <1>7, <1>8, <1>9, <1>10, <1>11,
     <1>12, <1>13, <1>14, <1>15, <1>16, <1>17, <1>18, <1>19, <1>20, <1>21,
     <1>22, <1>23, <1>24, <1>25, <1>26, <1>27, <1>28, <1>29, <1>30
     DEF Next, Routine, Work, Disturbance, Change, Failure

LEMMA Invariance == Spec => []IInv
<1>1. Init => IInv
  BY InitTypeOK, InitConsistent DEF IInv, Consistent
<1>2. IInv /\ [Next]_vars => IInv'
  BY StepTypeOK, StepConsistent DEF IInv, Consistent
<1> QED BY <1>1, <1>2, PTL DEF Spec

(* For any number of ConfigMaps and nodes, and whatever changes between    *)
(* the steps of a reconcile: an entry of the registry that is not what its *)
(* ConfigMap deserves has work pending for it, is being rewritten, or      *)
(* belongs to a ConfigMap whose change reached no queue.                   *)
THEOREM RegistryStaysCurrent == Spec => []RegistryCurrent
<1>1. IInv => RegistryCurrent
  BY DEF IInv
<1> QED BY <1>1, Invariance, PTL

(* For any number of ConfigMaps and nodes, a cleanup sweep decides on      *)
(* exactly what the ConfigMaps deserve, however stale or empty the         *)
(* registry was when it began, unless one has changed meanwhile.           *)
THEOREM SnapshotIsExact == Spec => []SnapshotExact
<1>1. IInv => SnapshotExact
  BY DEF IInv
<1> QED BY <1>1, Invariance, PTL

-----------------------------------------------------------------------------
(* Cleanup.                                                                *)

LEMMA OnlySweepSweeps == [Next]_vars /\ SweepStep => Sweep
<1> SUFFICES ASSUME [Next]_vars, pc = "sweep", pc' = "patch" PROVE Sweep
  BY DEF SweepStep
<1> USE DEF worker, WorkerDone, Return, Retry, GoTo
<1>1. ~Change
  BY DEF Change, WriteCM, WriteNode
<1>2. ~(Restart \/ WebhookDown \/ WebhookUp)
  BY DEF Restart, WebhookDown, WebhookUp
<1>3. ~\E p \in Slots : PodStep(p)
  BY DEF PodStep
<1>4. ~Failure
  BY DEF Failure, BeginFails, HandleNodeEventFails, PatchFails, CheckNodeFails,
         RefreshFails, SweepFails
<1>5. ~\E k \in CMKeys : Begin(k) \/ Fire(k) \/ Resync(k)
  BY DEF Begin, Fire, Resync
<1>6. ~\E n \in NodeNames : HandleNodeEvent(n)
  BY DEF HandleNodeEvent
<1>7. ~\E k \in CMKeys : RefreshOne(k) \/ RefreshPanics(k)
  BY DEF RefreshOne, RefreshPanics
<1>8. ~(SweepDone \/ \E w \in Workloads : Patch(w))
  BY DEF SweepDone, Patch
<1>9. ~(CheckNode \/ Drop \/ LoadInvalid \/ LoadPanics \/ Load \/ GateOff
          \/ GateDefers \/ GatePasses \/ RefreshList \/ Replace)
  BY DEF CheckNode, Drop, LoadInvalid, LoadPanics, Load, GateOff, GateDefers,
         GatePasses, RefreshList, Replace
<1>10. ~UNCHANGED vars
  BY DEF vars
<1> QED BY <1>1, <1>2, <1>3, <1>4, <1>5, <1>6, <1>7, <1>8, <1>9, <1>10
        DEF Next, Routine, Work, Disturbance

(* For any ConfigMaps, nodes, pods and owner chains: the sweep that        *)
(* follows the removal of a selection restarts a workload only for a pod   *)
(* of it that is injected and that no ConfigMap of the moment selects,     *)
(* even when ReplicaSet lookups fail.                                      *)
THEOREM CleanupIsSafe == Spec => CleanupProtects
<1> DEFINE Spares == SweepStep /\ Cleaning /\ ~moved =>
               \A w \in toRestart' :
                  \E p \in PodsOf(w) : /\ pods[p] # Absent
                                       /\ IsInstrumented(pods[p].hash)
                                       /\ ~Selected(p)
<1>1. ASSUME IInv, [Next]_vars PROVE Spares
  <2> SUFFICES ASSUME SweepStep, Cleaning, ~moved, NEW w \in toRestart'
               PROVE  \E p \in PodsOf(w) : /\ pods[p] # Absent
                                           /\ IsInstrumented(pods[p].hash)
                                           /\ ~Selected(p)
    OBVIOUS
  <2>1. PICK found \in Lookups :
           toRestart' = SweepWorkloads(registry, pods, SweepTargets, Cleaning,
                                       found)
    BY <1>1, OnlySweepSweeps DEF Sweep
  <2>2. PICK p \in Rollable(registry, pods, SweepTargets, Cleaning, found) :
           w = resolveWorkload(PodInfo[p][found[p]]) /\ w # NoWorkload
    BY <2>1 DEF SweepWorkloads
  <2>3. p \in Slots
    BY <2>2 DEF Rollable
  <2>4. PodInfo[p][found[p]] = PodInfo[p][TRUE]
    BY <2>2, <2>3, LookupsAgree
  <2>5. p \in PodsOf(w)
    BY <2>2, <2>3, <2>4 DEF PodsOf, WorkloadOf
  <2>6. pods[p] # Absent /\ IsInstrumented(pods[p].hash)
    BY <2>2 DEF Rollable
  <2>7. registry = WantAll
    BY <1>1 DEF IInv, TypeOK, SnapshotExact, SweepStep, WantAll
  <2>8. Match(registry, PodInfo[p][found[p]]) = NoMatch
    BY <2>2 DEF Rollable, NeedsRollout
  <2>9. ~Selected(p)
    BY <2>4, <2>7, <2>8 DEF Selected
  <2> QED BY <2>5, <2>6, <2>9
<1>2. IInv /\ [Next]_vars => [Spares]_vars
  BY <1>1
<1> QED BY <1>2, Invariance, PTL DEF Spec, CleanupProtects

-----------------------------------------------------------------------------
(* Rollouts are worth it.                                                  *)

(* No workload's template carries the annotation itself.                   *)
TemplatesAreUnstamped == \A p \in Slots : ~IsInstrumented(Meta[p].stamp)

(* What the sweep replaces, the webhook changes.                           *)
LEMMA NeededRolloutChanges ==
    ASSUME TemplatesAreUnstamped, NEW p \in Slots,
           NEW R, NEW hash, NEW cleanup,
           Match(R, AdmissionInfo[p][TRUE]) = Match(R, PodInfo[p][TRUE]),
           NeedsRollout(R, Meta[p], hash, PodInfo[p][TRUE], cleanup)
    PROVE  Readmitted(R, p) # hash
<1>1. CASE Match(R, PodInfo[p][TRUE]) = NoMatch
  <2>1. IsInstrumented(hash) /\ ~IsInstrumented(Meta[p].stamp)
    BY <1>1 DEF NeedsRollout, TemplatesAreUnstamped
  <2>2. Readmitted(R, p) = Meta[p].stamp
    BY <1>1 DEF Readmitted, DefaultOutcome
  <2> QED BY <2>1, <2>2
<1>2. CASE Match(R, PodInfo[p][TRUE]) # NoMatch
  <2>1. /\ EffectiveImage(Match(R, PodInfo[p][TRUE])) # ""
        /\ ~PreloadsSomethingElse(Meta[p])
        /\ hash # WantedHash(Match(R, PodInfo[p][TRUE]))
    BY <1>2 DEF NeedsRollout, IsInstrumentedWithWantedConfig
  <2>2. Readmitted(R, p) = WantedHash(Match(R, PodInfo[p][TRUE]))
    BY <1>2, <2>1 DEF Readmitted, DefaultOutcome,
                      IsInstrumentedWithWantedConfig
  <2> QED BY <2>1, <2>2
<1> QED BY <1>1, <1>2

(* For any rules, and templates that do not carry the annotation           *)
(* themselves: a sweep schedules a workload only for a pod of it that      *)
(* comes out of its next admission with another annotation, on whatever    *)
(* registry and under whatever lookups it decided, unless the rules of the *)
(* moment select that pod otherwise without its generated name.            *)
THEOREM RolloutsAreUseful ==
    ASSUME TemplatesAreUnstamped
    PROVE  Spec => SweepsAreUseful
<1> DEFINE Useful == SweepStep =>
               \A w \in toRestart' :
                  \E p \in PodsOf(w) :
                     /\ pods[p] # Absent
                     /\ NamedAlike(p) => Readmitted(registry, p) # pods[p].hash
<1>1. ASSUME TypeOK, [Next]_vars PROVE Useful
  <2> SUFFICES ASSUME SweepStep, NEW w \in toRestart'
               PROVE  \E p \in PodsOf(w) :
                       /\ pods[p] # Absent
                       /\ NamedAlike(p) => Readmitted(registry, p) # pods[p].hash
    OBVIOUS
  <2>1. PICK found \in Lookups :
           toRestart' = SweepWorkloads(registry, pods, SweepTargets, Cleaning,
                                       found)
    BY <1>1, OnlySweepSweeps DEF Sweep
  <2>2. PICK p \in Rollable(registry, pods, SweepTargets, Cleaning, found) :
           w = resolveWorkload(PodInfo[p][found[p]]) /\ w # NoWorkload
    BY <2>1 DEF SweepWorkloads
  <2>3. p \in Slots
    BY <2>2 DEF Rollable
  <2>4. PodInfo[p][found[p]] = PodInfo[p][TRUE]
    BY <2>2, <2>3, LookupsAgree
  <2>5. p \in PodsOf(w)
    BY <2>2, <2>3, <2>4 DEF PodsOf, WorkloadOf
  <2>6. /\ pods[p] # Absent
        /\ NeedsRollout(registry, Meta[p], pods[p].hash, PodInfo[p][TRUE],
                        Cleaning)
    BY <2>2, <2>4 DEF Rollable
  <2>7. NamedAlike(p) => Readmitted(registry, p) # pods[p].hash
    BY <2>3, <2>6, NeededRolloutChanges DEF NamedAlike
  <2> QED BY <2>5, <2>6, <2>7
<1>2. TypeOK /\ [Next]_vars => [Useful]_vars
  BY <1>1
<1> QED BY <1>2, TypeCorrect, PTL DEF Spec, SweepsAreUseful

-----------------------------------------------------------------------------
(* A cluster left alone.                                                   *)

LEMMA RightOnceWritten ==
    ASSUME NEW k, registry'[k] = Want(k)',
           pc' \notin {"node", "load", "drop", "filter"}
    PROVE  Right(k)'
BY DEF Right, LocalsRight

LEMMA ElsewhereWritten ==
    ASSUME NEW k, Right(k), k # key \/ pc \notin {"node", "load", "drop"}
    PROVE  registry[k] = Want(k)
BY DEF Right, Rewriting

(* What a step does for an entry that is right, or that the worker begins  *)
(* to look at: it is right afterwards, and not taken out for a moment.     *)
KeptRight(k) ==
    /\ Right(k) \/ Taken(k) => Right(k)'
    /\ Right(k) /\ registry[k] = Want(k) => registry'[k] = Want(k)'

LEMMA OthersKeepRight ==
    ASSUME NEW k,
           UNCHANGED <<cms, nodes, registry, pc, key, got, listed, todo,
                       instruments>>
    PROVE  KeptRight(k)
BY DEF KeptRight, Taken, Right, Rewriting, LocalsRight, Want

(* A step that ends the part of a reconcile that writes its entry.         *)
LEMMA WritesKeepRight ==
    ASSUME NEW k \in CMKeys, pc # "idle",
           Right(k) => registry'[k] = Want(k)',
           pc' \notin {"node", "load", "drop", "filter"}
    PROVE  KeptRight(k)
BY RightOnceWritten DEF KeptRight, Taken

LEMMA UnwrittenKeepsRight ==
    ASSUME NEW k \in CMKeys, pc \notin {"idle", "node", "load", "drop"},
           UNCHANGED <<cms, nodes, registry>>,
           pc' \notin {"node", "load", "drop", "filter"}
    PROVE  KeptRight(k)
<1>1. Right(k) => registry'[k] = Want(k)'
  BY ElsewhereWritten DEF Want
<1> QED BY <1>1, WritesKeepRight

LEMMA BeginKeepsRight ==
    ASSUME NEW j \in CMKeys, Begin(j), NEW k \in CMKeys
    PROVE  KeptRight(k)
<1> USE DEF cluster
<1>1. /\ pc = "idle" /\ key' = j /\ got' = cms[j] /\ registry' = registry
      /\ pc' = IF hasSelectorAnnotation(cms[j]) THEN "node" ELSE "drop"
      /\ Want(k)' = Want(k) /\ cms' = cms
  BY DEF Begin, Want
<1>2. LocalsRight(k)'
  <2>1. CASE k = j
    <3>1. pc' = "drop" => Want(k)' = Absent
      BY <1>1, <2>1, UnmarkedContributesNothing DEF Want
    <3> QED BY <1>1, <2>1, <3>1 DEF LocalsRight
  <2>2. CASE k # j
    BY <1>1, <2>2 DEF LocalsRight
  <2> QED BY <2>1, <2>2
<1>3. Right(k) => registry'[k] = Want(k)'
  BY <1>1, ElsewhereWritten
<1>4. Taken(k) => Rewriting(k)'
  BY <1>1 DEF Taken, Rewriting
<1> QED BY <1>1, <1>2, <1>3, <1>4 DEF KeptRight, Right

LEMMA CheckNodeKeepsRight ==
    ASSUME CheckNode, NEW k \in CMKeys
    PROVE  KeptRight(k)
<1> USE DEF cluster, refresh
<1>1. /\ pc = "node" /\ UNCHANGED <<key, got, registry, cms, nodes>>
      /\ pc' = IF NodeEligible(got, nodes) THEN "load" ELSE "drop"
  BY DEF CheckNode, GoTo
<1>2. Want(k)' = Want(k)
  BY <1>1 DEF Want
<1>3. ASSUME LocalsRight(k) PROVE LocalsRight(k)'
  <2>1. CASE k = key
    <3>1. got = cms[k]
      BY <1>1, <1>3, <2>1 DEF LocalsRight
    <3>2. ~NodeEligible(got, nodes) => Want(k) = Absent
      BY <3>1, IneligibleContributesNothing DEF Want
    <3> QED BY <1>1, <1>2, <3>1, <3>2 DEF LocalsRight
  <2>2. CASE k # key
    BY <1>1, <2>2 DEF LocalsRight
  <2> QED BY <2>1, <2>2
<1>4. Rewriting(k) => Rewriting(k)'
  BY <1>1 DEF Rewriting
<1> QED BY <1>1, <1>2, <1>3, <1>4 DEF KeptRight, Taken, Right

LEMMA DropKeepsRight ==
    ASSUME TypeOK, Drop, NEW k \in CMKeys
    PROVE  KeptRight(k)
<1> USE DEF cluster
<1>1. /\ pc = "drop" /\ registry' = [registry EXCEPT ![key] = Absent]
      /\ pc' \in {"gate", "idle"} /\ Want(k)' = Want(k)
  BY DEF Drop, GoTo, Return, Retry, WorkerDone, Want
<1>2. ASSUME Right(k) PROVE registry'[k] = Want(k)
  <2>1. CASE k = key
    BY <1>1, <1>2, <2>1 DEF Right, LocalsRight, TypeOK
  <2>2. CASE k # key
    BY <1>1, <1>2, <2>2, ElsewhereWritten DEF TypeOK
  <2> QED BY <2>1, <2>2
<1> QED BY <1>1, <1>2, WritesKeepRight

LEMMA LoadKeepsRight ==
    ASSUME IInv, LoadInvalid \/ LoadPanics \/ Load, NEW k \in CMKeys
    PROVE  KeptRight(k)
<1> USE DEF cluster
<1>1. /\ pc = "load" /\ pc' \in {"gate", "idle"} /\ Want(k)' = Want(k)
      /\ registry \in [CMKeys -> Entries]
      /\ registry' = IF Panics(got) /\ ~ParseFails(got) THEN registry
                     ELSE [registry EXCEPT ![key] = LoadedEntry(got)]
  <2>1. registry \in [CMKeys -> Entries]
    BY DEF IInv, TypeOK
  <2>2. CASE LoadInvalid
    BY <2>1, <2>2 DEF LoadInvalid, LoadedEntry, Return, WorkerDone, Want
  <2>3. CASE LoadPanics
    BY <2>1, <2>3 DEF LoadPanics, Panics, ParseFails, Retry, WorkerDone, Want
  <2>4. CASE Load
    BY <2>1, <2>4 DEF Load, LoadedEntry, GoTo, Return, WorkerDone, Want
  <2> QED BY <2>2, <2>3, <2>4
<1>2. ASSUME Right(k) PROVE registry'[k] = Want(k)
  <2>1. CASE k = key
    <3>1. /\ got = cms[k] /\ NodeEligible(got, nodes)
          /\ hasSelectorAnnotation(got)
          /\ registry[k] = Want(k) \/ ~Panics(got)
      BY <1>1, <1>2, <2>1
         DEF IInv, LocalsCurrent, Right, LocalsRight, Rewriting
    <3>2. Want(k) = LoadedEntry(got)
      BY <3>1, EligibleContributesItsEntry DEF Want
    <3> QED BY <1>1, <2>1, <3>1, <3>2
  <2>2. CASE k # key
    BY <1>1, <1>2, <2>2, ElsewhereWritten
  <2> QED BY <2>1, <2>2
<1> QED BY <1>1, <1>2, WritesKeepRight

LEMMA RefreshKeepsRight ==
    ASSUME IInv, RefreshList \/ \E j \in CMKeys : RefreshOne(j), NEW k \in CMKeys
    PROVE  KeptRight(k)
<1> USE DEF cluster, worker
<1>1. /\ pc \in {"refresh", "filter"} /\ pc' = "filter"
      /\ UNCHANGED <<registry, cms, nodes>> /\ Want(k)' = Want(k)
  BY DEF RefreshList, RefreshOne, Want
<1>2. ASSUME LocalsRight(k)
      PROVE  IF k \in todo' THEN listed'[k] = cms'[k]
             ELSE StoredEntry(instruments'[k]) = Want(k)
  <2>1. CASE RefreshList
    <3>1. CASE k \in todo'
      BY <2>1, <3>1 DEF RefreshList
    <3>2. CASE k \notin todo'
      <4>1. ~hasSelectorAnnotation(cms[k])
        BY <2>1, <3>2 DEF RefreshList, Annotated
      <4>2. StoredEntry(instruments'[k]) = Absent
        BY <2>1 DEF RefreshList, StoredEntry, Empty
      <4> QED BY <3>2, <4>1, <4>2, UnmarkedContributesNothing DEF Want
    <3> QED BY <3>1, <3>2
  <2>2. ASSUME NEW j \in CMKeys, RefreshOne(j)
        PROVE  IF k \in todo' THEN listed'[k] = cms'[k]
               ELSE StoredEntry(instruments'[k]) = Want(k)
    <3>1. listed[j] \in ConfigMaps /\ hasSelectorAnnotation(listed[j])
      BY <2>2 DEF RefreshOne, IInv, TypeOK, Annotated, hasSelectorAnnotation,
                  Objects
    <3>2. StoredEntry(instruments'[j]) = Contribution(listed[j], nodes)
      BY <2>2, <3>1, RefreshedEntry DEF RefreshOne, IInv, TypeOK
    <3>3. CASE k = j
      BY <1>1, <1>2, <2>2, <3>2, <3>3 DEF RefreshOne, LocalsRight, Want
    <3>4. CASE k # j
      BY <1>1, <1>2, <2>2, <3>4 DEF RefreshOne, LocalsRight, IInv, TypeOK
    <3> QED BY <3>3, <3>4
  <2> QED BY <2>1, <2>2
<1>3. LocalsRight(k) => LocalsRight(k)'
  BY <1>1, <1>2 DEF LocalsRight
<1>4. Right(k) => registry[k] = Want(k)
  BY <1>1, ElsewhereWritten
<1> QED BY <1>1, <1>3, <1>4 DEF KeptRight, Right, Taken

LEMMA ReplaceKeepsRight ==
    ASSUME Replace, NEW k \in CMKeys
    PROVE  KeptRight(k)
<1> USE DEF cluster
<1>1. /\ pc = "filter" /\ pc' = "sweep" /\ todo = {} /\ Want(k)' = Want(k)
      /\ registry'[k] = StoredEntry(instruments[k])
  BY DEF Replace, GoTo, Want
<1>2. Right(k) => registry'[k] = Want(k)
  BY <1>1 DEF Right, LocalsRight
<1> QED BY <1>1, <1>2, WritesKeepRight

LEMMA RoutineKeepsRight ==
    ASSUME IInv, Routine \/ UNCHANGED vars \/ \E p \in Slots : PodStep(p),
           NEW k \in CMKeys
    PROVE  KeptRight(k)
<1> USE DEF cluster, events, podVars, refresh, worker
<1>1. ASSUME NEW j \in CMKeys, Begin(j) PROVE KeptRight(k)
  BY <1>1, BeginKeepsRight
<1>2. CASE \/ \E j \in CMKeys : Fire(j) \/ Resync(j)
           \/ \E n \in NodeNames : HandleNodeEvent(n)
           \/ WebhookUp \/ UNCHANGED vars
           \/ \E w \in Workloads : Patch(w)
           \/ \E p \in Slots : PodStep(p)
  BY <1>2, OthersKeepRight DEF Fire, Resync, HandleNodeEvent, WebhookUp, Patch,
                               PodStep, vars
<1>3. CASE CheckNode
  BY <1>3, CheckNodeKeepsRight
<1>4. CASE Drop
  BY <1>4, DropKeepsRight DEF IInv
<1>5. CASE LoadInvalid \/ LoadPanics \/ Load
  BY <1>5, LoadKeepsRight
<1>6. CASE \/ GateOff \/ GateDefers \/ GatePasses \/ Sweep \/ SweepDone
           \/ \E j \in CMKeys : RefreshPanics(j)
  <2>1. /\ pc \notin {"idle", "node", "load", "drop"}
        /\ pc' \notin {"node", "load", "drop", "filter"}
        /\ UNCHANGED <<cms, nodes, registry>>
    BY <1>6 DEF GateOff, GateDefers, GatePasses, Sweep, SweepDone, RefreshPanics,
                GoTo, Return, Retry, WorkerDone
  <2> QED BY <2>1, UnwrittenKeepsRight
<1>7. CASE RefreshList \/ \E j \in CMKeys : RefreshOne(j)
  BY <1>7, RefreshKeepsRight
<1>8. CASE Replace
  BY <1>8, ReplaceKeepsRight
<1> QED BY <1>1, <1>2, <1>3, <1>4, <1>5, <1>6, <1>7, <1>8 DEF Routine, Work

(* For any number of ConfigMaps and nodes: once the worker has taken a key *)
(* whose ConfigMap can be parsed, only a change, a failing call or a       *)
(* restart lets its entry be, or become, anything but what the ConfigMap   *)
(* deserves.  With RegistryStaysCurrent, by which work is pending for      *)
(* every entry that is not right, this is what convergence rests on; that  *)
(* the pending work is done is left to fairness.                           *)
THEOREM RightEntriesStay == Spec => RightUntilDisturbed
<1> DEFINE Stays == \A k \in CMKeys :
               ~Right(k)' /\ (Right(k) \/ Taken(k)) => Disturbance
<1>1. ASSUME IInv, [Next]_vars, ~Disturbance, NEW k \in CMKeys
      PROVE  Right(k) \/ Taken(k) => Right(k)'
  BY <1>1, RoutineKeepsRight DEF KeptRight, Next
<1>2. IInv /\ [Next]_vars => [Stays]_vars
  BY <1>1
<1> QED BY <1>2, Invariance, PTL DEF Spec, RightUntilDisturbed

-----------------------------------------------------------------------------
(* Sweeps on the rules of the moment.                                      *)

(* A pod without an owner belongs to no workload that can be rolled.       *)
LEMMA OwnerlessPods ==
    ASSUME NEW p \in Slots, Meta[p].refs = <<>>
    PROVE  WorkloadOf[p] = NoWorkload
<1> DEFINE self == [kind |-> "Pod", name |-> Meta[p].name]
           info == PodInfo[p][TRUE]
<1>1. controllerRef(Meta[p].refs) = Absent
  BY DEF controllerRef
<1>2. info.chain = <<self>>
  BY <1>1 DEF PodInfo, Resolve
<1>3. \A i \in DOMAIN info.chain : info.chain[i].kind \notin RolloutKinds
  <2>1. self.kind \notin RolloutKinds
    BY DEF RolloutKinds
  <2>2. DOMAIN <<self>> = 1..1 /\ <<self>>[1] = self
    OBVIOUS
  <2> HIDE DEF self, info
  <2> QED BY <1>2, <2>1, <2>2
<1>4. resolveWorkload(info) = NoWorkload
  BY <1>3 DEF resolveWorkload
<1> QED BY <1>4 DEF WorkloadOf

(* On a registry that is what the ConfigMaps deserve, the sweep asks for a *)
(* rollout just if the pod is not what they ask for.                       *)
LEMMA NeededIfUnsettled ==
    ASSUME registry = WantAll, NEW p \in Slots, Cleaning => ~Selected(p)
    PROVE  NeedsRollout(registry, Meta[p], pods[p].hash, PodInfo[p][TRUE],
                        Cleaning)
             <=> ~Settled(p)
<1> DEFINE match == Match(WantAll, PodInfo[p][TRUE])
<1>1. CASE match = NoMatch
  BY <1>1 DEF NeedsRollout, Settled, SettledWith
<1>2. CASE match # NoMatch
  <2>1. ~Cleaning
    BY <1>2 DEF Selected
  <2>2. NeedsRollout(registry, Meta[p], pods[p].hash, PodInfo[p][TRUE], Cleaning)
          <=> /\ EffectiveImage(match) # ""
              /\ pods[p].hash # WantedHash(match)
              /\ ~PreloadsSomethingElse(Meta[p])
    BY <1>2, <2>1 DEF NeedsRollout, IsInstrumentedWithWantedConfig
  <2>3. Settled(p) <=> (EffectiveImage(match) # "" /\ ~PreloadsSomethingElse(Meta[p])
                          => pods[p].hash = WantedHash(match))
    BY <1>2 DEF Settled, SettledWith
  <2> HIDE DEF match
  <2> QED BY <2>2, <2>3
<1> QED BY <1>1, <1>2

(* The workloads a sweep has to restart.                                   *)
Due == {WorkloadOf[p] : p \in {q \in Slots : InReach(q) /\ ~Settled(q)}}
         \ {NoWorkload}

DecidesExactly ==
    /\ toRestart' \subseteq Due
    /\ "rs" \notin Faults => Due \subseteq toRestart'

LEMMA SweepsOnTheRules ==
    ASSUME [Next]_vars, SweepStep, registry = WantAll
    PROVE  DecidesExactly
<1>1. PICK found \in Lookups :
         toRestart' = SweepWorkloads(registry, pods, SweepTargets, Cleaning,
                                     found)
  BY OnlySweepSweeps DEF Sweep
<1>2. ASSUME NEW w \in toRestart' PROVE w \in Due
  <2>1. PICK p \in Rollable(registry, pods, SweepTargets, Cleaning, found) :
           w = resolveWorkload(PodInfo[p][found[p]]) /\ w # NoWorkload
    BY <1>1, <1>2 DEF SweepWorkloads
  <2>2. p \in Slots
    BY <2>1 DEF Rollable
  <2>3. PodInfo[p][found[p]] = PodInfo[p][TRUE]
    BY <2>1, <2>2, LookupsAgree
  <2>4. NeedsRollout(registry, Meta[p], pods[p].hash, PodInfo[p][TRUE],
                     Cleaning)
    BY <2>1, <2>3 DEF Rollable
  <2>5. Cleaning => ~Selected(p)
    BY <2>4 DEF NeedsRollout, Selected
  <2>6. InReach(p)
    BY <2>1, <2>3, <2>5 DEF Rollable, InReach
  <2>7. ~Settled(p)
    BY <2>2, <2>4, <2>5, NeededIfUnsettled
  <2>8. w = WorkloadOf[p]
    BY <2>1, <2>2, <2>3 DEF WorkloadOf
  <2> QED BY <2>1, <2>2, <2>6, <2>7, <2>8 DEF Due
<1>3. ASSUME "rs" \notin Faults, NEW w \in Due PROVE w \in toRestart'
  <2>1. PICK p \in Slots : /\ InReach(p) /\ ~Settled(p)
                           /\ w = WorkloadOf[p] /\ w # NoWorkload
    BY <1>3 DEF Due
  <2>2. found[p] = TRUE
    BY <1>3 DEF Lookups
  <2>3. Meta[p].refs # <<>>
    BY <2>1, OwnerlessPods
  <2>4. NeedsRollout(registry, Meta[p], pods[p].hash, PodInfo[p][TRUE],
                     Cleaning)
    BY <2>1, NeededIfUnsettled DEF InReach
  <2>5. p \in Rollable(registry, pods, SweepTargets, Cleaning, found)
    BY <2>1, <2>2, <2>3, <2>4 DEF Rollable, InReach
  <2> QED BY <1>1, <2>1, <2>2, <2>5 DEF SweepWorkloads, WorkloadOf
<1> QED BY <1>2, <1>3 DEF DecidesExactly

(* For any ConfigMaps, pods and owner chains: a sweep that finds the       *)
(* registry as the ConfigMaps deserve restarts no workload whose pods are  *)
(* all as they should be, or that is none of its business; if no lookup    *)
(* fails, it overlooks none either.                                        *)
THEOREM SweepsDecideExactly == Spec => SweepsAreExact
<1> DEFINE Exact == SweepStep /\ registry = WantAll => DecidesExactly
<1>1. [Next]_vars => [Exact]_vars
  BY SweepsOnTheRules
<1> QED BY <1>1, PTL DEF Spec, SweepsAreExact, DecidesExactly, Due

(* What the sweep decides on cannot be out of date: no entry has work      *)
(* pending or a lost change, or this is a cleanup, which has refreshed the *)
(* registry, and nothing has changed since it began.                       *)
Informed ==
    \/ \A k \in CMKeys : ~Excused(k)
    \/ Cleaning /\ ~moved

(* Where cold starts may restart a settled workload, this is when they     *)
(* cannot: with nothing pending, or in a cleanup, the registry need not be *)
(* assumed to be right.                                                    *)
THEOREM InformedSweepsDecideExactly ==
    Spec => [][SweepStep /\ Informed => DecidesExactly]_vars
<1> DEFINE Exact == SweepStep /\ Informed => DecidesExactly
<1>1. ASSUME IInv, SweepStep, Informed PROVE registry = WantAll
  <2>1. pc = "sweep" /\ registry \in [CMKeys -> Entries]
    BY <1>1 DEF SweepStep, IInv, TypeOK
  <2>2. \A k \in CMKeys : registry[k] = Want(k)
    BY <1>1, <2>1, WrittenIsCurrent DEF Informed, IInv, SnapshotExact
  <2> QED BY <2>1, <2>2 DEF WantAll
<1>2. IInv /\ [Next]_vars => [Exact]_vars
  BY <1>1, SweepsOnTheRules
<1> QED BY <1>2, Invariance, PTL DEF Spec

-----------------------------------------------------------------------------
(* A ConfigMap stays and loses its annotation, which the predicate of the  *)
(* watch filters, or the handler of a Node event fails.                    *)
Unnoticed ==
    \/ \E k \in CMKeys : /\ hasSelectorAnnotation(cms[k])
                         /\ cms'[k] # Absent /\ ~hasSelectorAnnotation(cms'[k])
    \/ \E n \in NodeNames : HandleNodeEventFails(n)

LEMMA NoticedWrites ==
    ASSUME TypeOK, NEW k \in CMKeys, NEW v \in Writes[k], WriteCM(k, v),
           missed = {}, ~Unnoticed
    PROVE  missed' = {}
<1>1. cms'[k] = v
  BY DEF WriteCM, TypeOK
<1>2. v = Absent \/ hasSelectorAnnotation(v) \/ ~hasSelectorAnnotation(cms[k])
  BY <1>1 DEF Unnoticed
<1>3. CASE v = Absent
  BY <1>3 DEF WriteCM
<1>4. CASE v # Absent
  BY <1>2, <1>4 DEF WriteCM
<1> QED BY <1>3, <1>4

LEMMA NoticedSteps ==
    TypeOK /\ missed = {} /\ [Next /\ ~Unnoticed]_vars => missed' = {}
<1> SUFFICES ASSUME TypeOK, missed = {}, [Next /\ ~Unnoticed]_vars
             PROVE  missed' = {}
  OBVIOUS
<1>1. CASE UNCHANGED vars
  BY <1>1 DEF vars, events
<1>2. ASSUME NEW k \in CMKeys, NEW v \in Writes[k], WriteCM(k, v), ~Unnoticed
      PROVE  missed' = {}
  BY <1>2, NoticedWrites
<1>3. ASSUME NEW n \in NodeNames,
             \/ \E s \in NodeStates : WriteNode(n, s)
             \/ HandleNodeEvent(n)
      PROVE  missed' = {}
  BY <1>3 DEF WriteNode, HandleNodeEvent
<1>4. ASSUME NEW k \in CMKeys,
             \/ Begin(k) \/ BeginFails(k) \/ Fire(k) \/ Resync(k)
             \/ RefreshOne(k) \/ RefreshPanics(k)
      PROVE  missed' = {}
  BY <1>4 DEF Begin, BeginFails, Fire, Resync, RefreshOne, RefreshPanics, events
<1>5. CASE \/ CheckNode \/ CheckNodeFails \/ Drop \/ LoadInvalid \/ LoadPanics
           \/ Load \/ GateOff \/ GateDefers \/ GatePasses
  BY <1>5 DEF CheckNode, CheckNodeFails, Drop, LoadInvalid, LoadPanics, Load,
              GateOff, GateDefers, GatePasses, events
<1>6. CASE \/ RefreshList \/ RefreshFails \/ Replace
           \/ Sweep \/ SweepFails \/ SweepDone
           \/ \E w \in Workloads : Patch(w) \/ PatchFails(w)
  BY <1>6 DEF RefreshList, RefreshFails, Replace, Sweep, SweepFails, SweepDone,
              Patch, PatchFails, events
<1>7. CASE Restart \/ WebhookUp \/ WebhookDown \/ \E p \in Slots : PodStep(p)
  BY <1>7 DEF Restart, WebhookUp, WebhookDown, PodStep, events
<1>8. CASE Next /\ ~Unnoticed
  BY <1>2, <1>3, <1>4, <1>5, <1>6, <1>7, <1>8
     DEF Next, Disturbance, Change, Routine, Work, Failure, Unnoticed
<1> QED BY <1>1, <1>8

(* These two are the only ways in which a change escapes the controller:   *)
(* without them, an entry that is not right has work pending for it, or a  *)
(* reconcile is about to write it.                                         *)
THEOREM NothingIsMissed == Spec /\ [][~Unnoticed]_vars => [](missed = {})
<1> DEFINE NoneMissed == missed = {}
<1>1. Init => NoneMissed
  BY DEF Init
<1>2. TypeOK /\ NoneMissed /\ [Next]_vars /\ [~Unnoticed]_vars => NoneMissed'
  BY NoticedSteps
<1> HIDE DEF NoneMissed
<1>3. Spec /\ [][~Unnoticed]_vars => []NoneMissed
  BY <1>1, <1>2, TypeCorrect, PTL DEF Spec
<1> QED BY <1>3 DEF NoneMissed

(* What the documents promise of the registry, and the code breaks, holds  *)
(* of every behaviour without them in which the registry converges, if in  *)
(* the end no ConfigMap is left that makes its reconciles panic.           *)
THEOREM NoticedChangesArrive ==
    /\ Spec /\ RegistryConverges
    /\ [][~Unnoticed]_vars /\ <>[](\A k \in CMKeys : ~Unloadable(k))
    => RegistryInSync
<1> DEFINE Excusable == \A k \in CMKeys :
                           registry[k] = Want(k) \/ k \in missed \/ Unloadable(k)
           Loadable == \A k \in CMKeys : ~Unloadable(k)
           InSync == \A k \in CMKeys : registry[k] = Want(k)
<1>1. Excusable /\ Loadable /\ missed = {} => InSync
  OBVIOUS
<1> HIDE DEF Excusable, Loadable, InSync
<1>2. Spec /\ [][~Unnoticed]_vars => [](missed = {})
  BY NothingIsMissed
<1>3. []Excusable /\ []Loadable /\ [](missed = {}) => []InSync
  BY <1>1, PTL
<1>4. <>[]Excusable /\ <>[]Loadable /\ [](missed = {}) => <>[]InSync
  BY <1>3, PTL
<1> USE DEF Excusable, Loadable, InSync
<1> QED BY <1>2, <1>4, PTL DEF RegistryConverges, RegistryInSync

=============================================================================
