---------------------------- MODULE CacheProofs ----------------------------
(***************************************************************************)
(* For any number of ConfigMaps and nodes, the controller implements the   *)
(* rule cache: every step of the reconciler is a step of RuleCache or      *)
(* leaves what its readers see alone.                                      *)
(***************************************************************************)
EXTENDS ReconcilerProofs

CacheStep == [Cache!Next]_(Cache!cacheVars)

LEMMA ContributionType ==
    ASSUME NEW cm \in Objects, NEW ns
    PROVE  Contribution(cm, ns) \in Entries
<1>1. CASE hasSelectorAnnotation(cm) /\ NodeEligible(cm, ns)
  <2>1. cm \in ConfigMaps
    BY <1>1 DEF Objects, hasSelectorAnnotation
  <2> QED BY <1>1, <2>1, LoadedType DEF Contribution
<1>2. CASE ~(hasSelectorAnnotation(cm) /\ NodeEligible(cm, ns))
  BY <1>2 DEF Contribution, Entries
<1> QED BY <1>1, <1>2

(* The initial registry is empty, and whatever it lacks is queued.         *)
LEMMA InitIsCacheInit == Init => Cache!Init
<1> SUFFICES ASSUME Init PROVE Cache!Init
  OBVIOUS
<1>1. TypeOK /\ RegistryCurrent
  BY InitTypeOK, InitConsistent DEF Consistent
<1>2. WantAll \in [CMKeys -> Entries]
  BY <1>1, ContributionType DEF WantAll, Want, TypeOK
<1>3. registry = Cache!Nothing
  BY DEF Init, Empty, Cache!Nothing
<1>4. Cache!Lacking(WantAll) \subseteq ExcusedKeys
  BY <1>1 DEF Init, Empty, Cache!Lacking, WantAll, RegistryCurrent, ExcusedKeys
<1> QED BY <1>2, <1>3, <1>4 DEF Cache!Init

(* A step of the worker, or around it, that writes excused entries only.   *)
LEMMA ServeStep ==
    ASSUME IInv, IInv', UNCHANGED <<cms, nodes>>,
           \A k \in CMKeys : registry'[k] # registry[k] => k \in ExcusedKeys
    PROVE  Cache!Serve
<1>1. WantAll' = WantAll
  BY DEF WantAll, Want
<1>2. registry' \in [CMKeys -> Entries]
  BY DEF IInv, TypeOK
<1>3. \A k \in CMKeys \ ExcusedKeys' : registry'[k] = WantAll[k]
  BY <1>1 DEF IInv, RegistryCurrent, ExcusedKeys, WantAll
<1> QED BY <1>1, <1>2, <1>3 DEF Cache!Serve

(* A change of ConfigMaps or nodes that forgets no excuse.                 *)
LEMMA ChangeStep ==
    ASSUME IInv, IInv', registry' = registry, ExcusedKeys \subseteq ExcusedKeys'
    PROVE  Cache!Change
<1>1. WantAll' \in [CMKeys -> Entries]
  BY ContributionType DEF IInv, TypeOK, WantAll, Want
<1>2. ASSUME NEW k \in CMKeys, WantAll'[k] # WantAll[k]
      PROVE  k \in ExcusedKeys'
  <2>1. CASE k \in ExcusedKeys
    BY <2>1
  <2>2. CASE k \notin ExcusedKeys
    <3>1. registry'[k] # Want(k)'
      BY <1>2, <2>2 DEF IInv, RegistryCurrent, ExcusedKeys, WantAll
    <3> QED BY <3>1 DEF IInv, RegistryCurrent, ExcusedKeys
  <2> QED BY <2>1, <2>2
<1> QED BY <1>1, <1>2 DEF Cache!Change

(* The refresh replaces every entry by what it read before: an entry that  *)
(* is not excused is right already, and so is its replacement.             *)
LEMMA ReplaceServes ==
    ASSUME IInv, Replace, NEW k \in CMKeys, registry'[k] # registry[k]
    PROVE  k \in ExcusedKeys
<1>1. registry'[k] = StoredEntry(instruments[k])
  BY DEF Replace, StoredEntry
<1>2. ASSUME k \notin ExcusedKeys PROVE registry'[k] = registry[k]
  <2>1. ~Excused(k) /\ registry[k] = Want(k)
    BY <1>2 DEF IInv, RegistryCurrent, ExcusedKeys, Excused
  <2>2. StoredEntry(instruments[k]) = Want(k)
    BY <2>1 DEF IInv, RefreshCurrent, Replace
  <2> QED BY <1>1, <2>1, <2>2
<1> QED BY <1>2

(* A write of a ConfigMap excuses its key, and a key once excused stays    *)
(* so.                                                                     *)
LEMMA WriteCMKeepsExcuses ==
    ASSUME IInv, NEW k \in CMKeys, NEW v \in Writes[k], WriteCM(k, v)
    PROVE  ExcusedKeys \subseteq ExcusedKeys'
<1> SUFFICES ASSUME NEW j \in CMKeys, j \in ExcusedKeys
             PROVE  j \in ExcusedKeys'
  BY DEF ExcusedKeys
<1>1. UNCHANGED <<pc, key, waiting, nodeEvents>>
  BY DEF WriteCM, worker
<1>2. CASE j # k
  BY <1>1, <1>2 DEF WriteCM, IInv, TypeOK, ExcusedKeys, Pending
<1>3. CASE j = k
  <2>1. CASE hasSelectorAnnotation(v) \/ hasSelectorAnnotation(cms[k])
    BY <1>3, <2>1 DEF WriteCM, ExcusedKeys, Pending, hasSelectorAnnotation
  <2>2. CASE ~hasSelectorAnnotation(v) /\ ~hasSelectorAnnotation(cms[k])
    BY <1>1, <1>3, <2>2 DEF WriteCM, ExcusedKeys, Pending, hasSelectorAnnotation
  <2> QED BY <2>1, <2>2
<1> QED BY <1>2, <1>3

LEMMA WriteNodeKeepsExcuses ==
    ASSUME NEW n \in NodeNames, NEW s \in NodeStates, WriteNode(n, s)
    PROVE  ExcusedKeys \subseteq ExcusedKeys'
BY DEF WriteNode, worker, ExcusedKeys, Pending

(* A restart loses the registry; what it then lacks is queued.             *)
LEMMA RestartLoses ==
    ASSUME IInv', Restart
    PROVE  Cache!Lose
<1>1. WantAll' = WantAll
  BY DEF Restart, WantAll, Want
<1>2. registry' = Cache!Nothing
  BY DEF Restart, Empty, Cache!Nothing
<1>3. Cache!Lacking(WantAll) \subseteq ExcusedKeys'
  BY <1>1 DEF Restart, Empty, Cache!Lacking, IInv, RegistryCurrent,
              ExcusedKeys, WantAll
<1> QED BY <1>1, <1>2, <1>3 DEF Cache!Lose

LEMMA StepIsCacheStep == IInv /\ IInv' /\ [Next]_vars => CacheStep
<1> SUFFICES ASSUME IInv, IInv', [Next]_vars PROVE CacheStep
  OBVIOUS
<1> USE DEF cluster
<1>1. ASSUME NEW k \in CMKeys, NEW v \in Writes[k], WriteCM(k, v)
      PROVE  CacheStep
  <2>1. ExcusedKeys \subseteq ExcusedKeys'
    BY <1>1, WriteCMKeepsExcuses
  <2> QED BY <1>1, <2>1, ChangeStep DEF WriteCM, CacheStep, Cache!Next
<1>2. ASSUME NEW n \in NodeNames, NEW s \in NodeStates, WriteNode(n, s)
      PROVE  CacheStep
  <2>1. ExcusedKeys \subseteq ExcusedKeys'
    BY <1>2, WriteNodeKeepsExcuses
  <2> QED BY <1>2, <2>1, ChangeStep DEF WriteNode, CacheStep, Cache!Next
<1>3. CASE Restart
  BY <1>3, RestartLoses DEF CacheStep, Cache!Next
<1>4. CASE Drop \/ LoadInvalid \/ Load
  <2>1. \A k \in CMKeys : registry'[k] # registry[k] => k \in ExcusedKeys
    BY <1>4 DEF Drop, LoadInvalid, Load, IInv, TypeOK, ExcusedKeys
  <2> QED BY <1>4, <2>1, ServeStep DEF Drop, LoadInvalid, Load, CacheStep,
                                       Cache!Next
<1>5. CASE Replace
  BY <1>5, ReplaceServes, ServeStep DEF Replace, CacheStep, Cache!Next
<1>6. CASE UNCHANGED <<cms, nodes, registry>>
  BY <1>6, ServeStep DEF CacheStep, Cache!Next
<1>7. CASE \/ \E n \in NodeNames : HandleNodeEvent(n) \/ HandleNodeEventFails(n)
           \/ \E k \in CMKeys : Resync(k) \/ Fire(k) \/ Begin(k) \/ BeginFails(k)
           \/ WebhookUp \/ WebhookDown
           \/ \E p \in Slots : PodStep(p)
  BY <1>6, <1>7 DEF HandleNodeEvent, HandleNodeEventFails, Resync, Fire, Begin,
                    BeginFails, WebhookUp, WebhookDown, PodStep
<1>8. CASE \/ CheckNode \/ CheckNodeFails \/ LoadPanics
           \/ GateOff \/ GateDefers \/ GatePasses
  BY <1>6, <1>8 DEF CheckNode, CheckNodeFails, LoadPanics, GateOff, GateDefers,
                    GatePasses
<1>9. CASE \/ RefreshList \/ RefreshFails
           \/ \E k \in CMKeys : RefreshOne(k) \/ RefreshPanics(k)
  BY <1>6, <1>9 DEF RefreshList, RefreshFails, RefreshOne, RefreshPanics
<1>10. CASE \/ Sweep \/ SweepFails \/ SweepDone
            \/ \E w \in Workloads : Patch(w) \/ PatchFails(w)
  BY <1>6, <1>10 DEF Sweep, SweepFails, SweepDone, Patch, PatchFails
<1>11. CASE UNCHANGED vars
  BY <1>6, <1>11 DEF vars
<1> QED
  BY <1>1, <1>2, <1>3, <1>4, <1>5, <1>7, <1>8, <1>9, <1>10, <1>11
     DEF Next, Routine, Work, Disturbance, Change, Failure

(* For any ConfigMaps and nodes, and whatever fails: the reconciler        *)
(* implements the rule cache its readers are promised. In particular the   *)
(* replacement of the whole registry by an older snapshot never disturbs   *)
(* an entry that is right and has no work pending for it.                  *)
THEOREM ReconcilerImplementsCache == Spec => ImplementsCache
<1>1. Init => Cache!Init
  BY InitIsCacheInit
<1>2. IInv /\ IInv' /\ [Next]_vars => [Cache!Next]_(Cache!cacheVars)
  BY StepIsCacheStep DEF CacheStep
<1> QED BY <1>1, <1>2, Invariance, PTL DEF Spec, ImplementsCache, Cache!Spec

=============================================================================
