-------------------------- MODULE ValidatorProofs --------------------------
(***************************************************************************)
(* The validated system, for every set of users, ConfigMaps and nodes: it  *)
(* implements the reconciler, so that the reconciler's theorems hold of it *)
(* too; the reconciler's registry is as trustworthy as the cache, and the  *)
(* webhook keeps what unauthorized users write out of the cache's          *)
(* annotated ConfigMaps, hence out of the registry.                        *)
(***************************************************************************)
EXTENDS Validator, ReconcilerProofs

(* Validation only takes writes away.                                      *)
THEOREM ValidatedImplementsSpec == ValidatedSpec => Spec
<1>1. ValidatedInit => Init
  BY DEF ValidatedInit
<1>2. [ValidatedNext]_vars => [Next]_vars
  <2>1. ASSUME NEW u \in Users, NEW k \in CMKeys, NEW v \in Writes[k],
               Submit(u, k, v)
        PROVE  Next
    BY <2>1 DEF Submit, Next, Disturbance, Change
  <2>2. ASSUME NEW k \in CMKeys, WriteCM(k, Absent) PROVE Next
    BY <2>2 DEF WriteCM, Next, Disturbance, Change
  <2>3. ASSUME NEW n \in NodeNames, NEW s \in NodeStates, WriteNode(n, s)
        PROVE  Next
    BY <2>3 DEF Next, Disturbance, Change
  <2> QED BY <2>1, <2>2, <2>3 DEF ValidatedNext, Next, Disturbance
<1> QED BY <1>1, <1>2, PTL DEF ValidatedSpec, Spec

-----------------------------------------------------------------------------
(* An object that may contribute to the registry.                          *)
Vouched(cm) == hasSelectorAnnotation(cm) => cm \in Trusted

CacheVouched == \A k \in CMKeys : Vouched(cms[k])

(* Everything on the way from the cache to the registry is vouched for:    *)
(* the cache, the object a reconcile holds, the list a refresh works off,  *)
(* and the snapshot it builds.                                             *)
TrustInv ==
    /\ CacheVouched
    /\ pc \in {"node", "load"} => got \in Trusted /\ got.marked
    /\ \A k \in todo : listed[k] \in Trusted /\ listed[k].marked
    /\ \A k \in CMKeys : StoredEntry(instruments[k]) \in TrustedEntries \cup {Absent}
    /\ RegistryTrusted

LEMMA TrustedLoads ==
    ASSUME NEW cm \in Trusted, cm.marked, ~ParseFails(cm)
    PROVE  Stored(ParsedConfig(cm)) \in TrustedEntries
BY DEF TrustedEntries, LoadedEntry

LEMMA EmptyIsTrusted ==
    \A k \in CMKeys : StoredEntry(Empty[k]) = Absent /\ Empty[k] = Absent
BY DEF Empty, StoredEntry

LEMMA InitTrusted == Init /\ CacheVouched => TrustInv
<1> SUFFICES ASSUME Init, CacheVouched PROVE TrustInv
  OBVIOUS
<1> QED BY EmptyIsTrusted DEF Init, WorkerIdle, RefreshIdle, TrustInv,
                              RegistryTrusted

(* The end of a reconcile leaves nothing but the registry and the cache.   *)
LEMMA DoneTrusted ==
    ASSUME TrustInv, WorkerDone, cms' = cms,
           \A k \in CMKeys : registry'[k] \in TrustedEntries \cup {Absent}
    PROVE  TrustInv'
BY EmptyIsTrusted DEF TrustInv, WorkerDone, RegistryTrusted, CacheVouched, Vouched

LEMMA StepTrusted ==
    TypeOK /\ TrustInv /\ CacheVouched' /\ [Next]_vars => TrustInv'
<1> SUFFICES ASSUME TypeOK, TrustInv, CacheVouched', [Next]_vars
             PROVE  TrustInv'
  OBVIOUS
<1> USE DEF cluster, events, podVars, refresh
<1>1. ASSUME NEW k \in CMKeys, NEW v \in Writes[k], WriteCM(k, v)
      PROVE  TrustInv'
  BY <1>1 DEF WriteCM, worker, TrustInv, RegistryTrusted
<1>2. CASE Restart
  BY <1>2, EmptyIsTrusted DEF Restart, TrustInv, RegistryTrusted
<1>3. ASSUME NEW k \in CMKeys, Begin(k) PROVE TrustInv'
  BY <1>3 DEF Begin, TrustInv, RegistryTrusted, CacheVouched, Vouched,
              hasSelectorAnnotation
<1>4. CASE CheckNode \/ CheckNodeFails
  BY <1>4 DEF CheckNode, CheckNodeFails, GoTo, TrustInv, RegistryTrusted
<1>5. CASE Drop \/ LoadInvalid
  <2>1. \A k \in CMKeys : registry'[k] \in TrustedEntries \cup {Absent}
    BY <1>5 DEF Drop, LoadInvalid, TypeOK, TrustInv, RegistryTrusted
  <2>2. CASE WorkerDone
    BY <1>5, <2>1, <2>2, DoneTrusted DEF Drop, LoadInvalid
  <2>3. CASE GoTo("gate")
    BY <1>5, <2>1, <2>3 DEF Drop, LoadInvalid, GoTo, TrustInv, RegistryTrusted
  <2> QED BY <1>5, <2>2, <2>3 DEF Drop, LoadInvalid, Return, Retry
<1>6. CASE Load
  <2>1. Stored(ParsedConfig(got)) \in TrustedEntries
    BY <1>6, TrustedLoads DEF Load, TrustInv
  <2>2. \A k \in CMKeys : registry'[k] \in TrustedEntries \cup {Absent}
    BY <1>6, <2>1 DEF Load, TypeOK, TrustInv, RegistryTrusted
  <2>3. CASE WorkerDone
    BY <1>6, <2>2, <2>3, DoneTrusted DEF Load
  <2>4. CASE GoTo("gate")
    BY <1>6, <2>2, <2>4 DEF Load, GoTo, TrustInv, RegistryTrusted
  <2> QED BY <1>6, <2>3, <2>4 DEF Load, Return
<1>7. CASE \/ LoadPanics \/ GateOff \/ GateDefers \/ RefreshFails \/ SweepFails
           \/ SweepDone \/ \E k \in CMKeys : RefreshPanics(k)
  BY <1>7, DoneTrusted DEF LoadPanics, GateOff, GateDefers, RefreshFails,
           SweepFails, SweepDone, RefreshPanics, Return, Retry, TrustInv,
           RegistryTrusted
<1>8. CASE GatePasses \/ Sweep
  BY <1>8 DEF GatePasses, Sweep, GoTo, TrustInv, RegistryTrusted
<1>9. CASE RefreshList
  <2>1. \A k \in Annotated(cms) : cms[k] \in Trusted /\ cms[k].marked
    BY DEF Annotated, TrustInv, CacheVouched, Vouched, hasSelectorAnnotation
  <2> QED BY <1>9, <2>1, EmptyIsTrusted DEF RefreshList, TrustInv,
                                            RegistryTrusted
<1>10. ASSUME NEW k \in CMKeys, RefreshOne(k) PROVE TrustInv'
  <2>1. listed[k] \in Trusted /\ listed[k].marked
    BY <1>10 DEF RefreshOne, TrustInv
  <2>2. StoredEntry(instruments'[k]) \in TrustedEntries \cup {Absent}
    BY <1>10, <2>1, TrustedLoads DEF RefreshOne, TypeOK, StoredEntry
  <2>3. \A j \in CMKeys : StoredEntry(instruments'[j])
                             \in TrustedEntries \cup {Absent}
    BY <1>10, <2>2 DEF RefreshOne, TypeOK, TrustInv
  <2> QED BY <1>10, <2>3 DEF RefreshOne, worker, TrustInv, RegistryTrusted
<1>11. CASE Replace
  <2>1. \A k \in CMKeys : registry'[k] = StoredEntry(instruments[k])
    BY <1>11 DEF Replace, StoredEntry
  <2> QED BY <1>11, <2>1 DEF Replace, GoTo, TrustInv, RegistryTrusted
<1>12. CASE \E w \in Workloads : Patch(w) \/ PatchFails(w)
  BY <1>12 DEF Patch, PatchFails, TrustInv, RegistryTrusted
<1>13. CASE \/ \E n \in NodeNames, s \in NodeStates : WriteNode(n, s)
            \/ \E n \in NodeNames : HandleNodeEvent(n) \/ HandleNodeEventFails(n)
            \/ \E k \in CMKeys : Resync(k) \/ Fire(k) \/ BeginFails(k)
            \/ WebhookUp \/ WebhookDown
            \/ \E p \in Slots : PodStep(p)
  BY <1>13 DEF WriteNode, HandleNodeEvent, HandleNodeEventFails, Resync, Fire,
               BeginFails, WebhookUp, WebhookDown, PodStep, worker, TrustInv,
               RegistryTrusted
<1>14. CASE UNCHANGED vars
  BY <1>14 DEF vars, worker, TrustInv, RegistryTrusted
<1> QED
  BY <1>1, <1>2, <1>3, <1>4, <1>5, <1>6, <1>7, <1>8, <1>9, <1>10, <1>11,
     <1>12, <1>13, <1>14 DEF Next, Disturbance, Change, Routine, Work, Failure

(* The controller adds nothing of its own. Whatever keeps untrusted        *)
(* contents out of the annotated ConfigMaps of the API server keeps them   *)
(* out of the registry, through restarts, failures, refreshes and retries: *)
(* neither a stale object in a reconcile's hands nor an object that gains  *)
(* or loses the annotation between two reads gets around it. The whole     *)
(* system implements Spec, so this holds with the pods composed as well.   *)
THEOREM VouchedCacheSuffices == Spec /\ []CacheVouched => []RegistryTrusted
<1>1. Spec => []TypeOK
  BY TypeCorrect
<1>2. TypeOK /\ TrustInv /\ CacheVouched' /\ [Next]_vars => TrustInv'
  BY StepTrusted
<1>3. Init /\ CacheVouched => TrustInv
  BY InitTrusted
<1>4. TrustInv => RegistryTrusted
  BY DEF TrustInv
<1> QED BY <1>1, <1>2, <1>3, <1>4, PTL DEF Spec

-----------------------------------------------------------------------------
(* What an unauthorized user writes is not marked.                         *)
LEMMA SubmitVouched ==
    ASSUME TypeOK, CacheVouched, NEW u \in Users, NEW k \in CMKeys,
           NEW v \in Writes[k], Submit(u, k, v)
    PROVE  CacheVouched'
<1>1. Vouched(v)
  BY DEF Submit, Handle, Vouched, Trusted
<1> QED BY <1>1 DEF Submit, WriteCM, TypeOK, CacheVouched, Vouched

LEMMA ValidatedStepVouched ==
    TypeOK /\ CacheVouched /\ [ValidatedNext]_vars => CacheVouched'
<1> SUFFICES ASSUME TypeOK, CacheVouched, [ValidatedNext]_vars
             PROVE  CacheVouched'
  OBVIOUS
<1>1. ASSUME NEW u \in Users, NEW k \in CMKeys, NEW v \in Writes[k],
             Submit(u, k, v)
      PROVE  CacheVouched'
  BY <1>1, SubmitVouched
<1>2. ASSUME NEW k \in CMKeys, WriteCM(k, Absent) PROVE CacheVouched'
  BY <1>2 DEF WriteCM, TypeOK, CacheVouched, Vouched, hasSelectorAnnotation
<1>3. CASE cms' = cms
  BY <1>3 DEF CacheVouched, Vouched
<1>4. CASE Routine \/ Failure \/ Restart \/ WebhookDown
  <2>1. cms' = cms
    BY <1>4 DEF Routine, Work, Failure, Restart, WebhookDown, WebhookUp, Resync,
           HandleNodeEvent, HandleNodeEventFails, Fire, Begin, BeginFails,
           CheckNode, CheckNodeFails, Drop, LoadInvalid, Load, LoadPanics,
           GateOff, GateDefers, GatePasses, RefreshList, RefreshOne,
           RefreshFails, RefreshPanics, Replace, Sweep, SweepFails, SweepDone,
           Patch, PatchFails, cluster
  <2> QED BY <2>1, <1>3
<1> QED BY <1>1, <1>2, <1>3, <1>4 DEF ValidatedNext, WriteNode, PodStep, vars,
                                      cluster

(* For any users and ConfigMaps: only what authorized users wrote into     *)
(* annotated ConfigMaps is ever in the registry, although the object a     *)
(* reconcile holds may be replaced under it, by anyone, before it is       *)
(* loaded.                                                                 *)
THEOREM RegistryStaysTrusted == ValidatedSpec => []RegistryTrusted
<1>1. ValidatedSpec => []TypeOK
  BY ValidatedImplementsSpec, TypeCorrect, PTL
<1>2. TypeOK /\ CacheVouched /\ [ValidatedNext]_vars => CacheVouched'
  BY ValidatedStepVouched
<1>3. ValidatedInit => CacheVouched
  BY DEF ValidatedInit, CacheVouched, Vouched
<1>4. ValidatedSpec => []CacheVouched
  BY <1>1, <1>2, <1>3, PTL DEF ValidatedSpec
<1> QED BY <1>4, ValidatedImplementsSpec, VouchedCacheSuffices, PTL

=============================================================================
