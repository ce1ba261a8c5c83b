--------------------------- MODULE InjectorProofs ---------------------------
(***************************************************************************)
(* The composition, for every value of the constants: its state stays well *)
(* typed, it implements the reconciler's specification (so that what       *)
(* ReconcilerProofs shows holds of the whole system too), no cleanup is    *)
(* forgotten while the process lives, and pods that carry what the         *)
(* ConfigMaps ask for keep it, until nothing is left to restart.           *)
(***************************************************************************)
EXTENDS Injector, ReconcilerProofs

(* The admissions in progress and the cleanups that are due.               *)
AdmTypeOK ==
    /\ adm \in [Slots -> Admissions \cup {Absent}]
    /\ owed \subseteq CMKeys

LEMMA ArrivalType ==
    ASSUME NEW p \in Slots
    PROVE  /\ Arrival(p) \in Admissions
           /\ [Arrival(p) EXCEPT !.stage = "answered"] \in Admissions
BY StampsAreAnnotations DEF Arrival, Admissions

LEMMA PlainType == ASSUME NEW p \in Slots PROVE Plain(p) \in PodStates
BY PodsAsAdmitted, StampsAreAnnotations DEF Plain, Pod

LEMMA InitSystemTypeOK == SystemInit => Init /\ SystemTypeOK
<1> SUFFICES ASSUME SystemInit PROVE Init /\ SystemTypeOK
  OBVIOUS
<1>1. Init
  BY DEF SystemInit
<1>2. TypeOK
  BY <1>1, InitTypeOK
<1> QED BY <1>1, <1>2 DEF SystemInit, SystemTypeOK

-----------------------------------------------------------------------------
(* Every step of the system is one of the reconciler's, or one it does not *)
(* see.                                                                    *)
LEMMA StepMaps == SystemTypeOK /\ [SystemNext]_allVars => [Next]_vars
<1> SUFFICES ASSUME SystemTypeOK, [SystemNext]_allVars PROVE [Next]_vars
  OBVIOUS
<1> USE DEF cluster, events, podVars, refresh, worker
<1>1. CASE Routine /\ UNCHANGED adm /\ Recall
  BY <1>1 DEF Next
<1>2. CASE Change \/ Failure \/ WebhookDown \/ Restart
  BY <1>2 DEF Next, Disturbance
<1>3. ASSUME NEW p \in Slots, Create(p) PROVE [Next]_vars
  <2>1. pods[p] \in PodStates \cup {Absent} /\ pods' = [pods EXCEPT ![p] = pods[p]]
    BY <1>3 DEF Create, SystemTypeOK, TypeOK
  <2>2. PodStep(p)
    BY <1>3, <2>1 DEF Create, PodStep
  <2> QED BY <2>2 DEF Next
<1>4. ASSUME NEW p \in Slots, Terminate(p) PROVE [Next]_vars
  <2>1. pods[p] \in PodStates
    BY <1>4 DEF Terminate, SystemTypeOK, TypeOK
  <2>2. [pods[p] EXCEPT !.terminating = TRUE] \in PodStates
    BY <2>1, PodsAsAdmitted
  <2>3. pods' = [pods EXCEPT ![p] = [pods[p] EXCEPT !.terminating = TRUE]]
    BY <1>4 DEF Terminate, SystemTypeOK, TypeOK
  <2>4. PodStep(p)
    BY <1>4, <2>2, <2>3 DEF Terminate, PodStep
  <2> QED BY <2>4 DEF Next
<1>5. ASSUME NEW p \in Slots, Gone(p) PROVE [Next]_vars
  BY <1>5 DEF Gone, PodStep, Next
<1>6. ASSUME NEW p \in Slots, Persist(p) PROVE [Next]_vars
  <2>1. adm[p] \in Admissions
    BY <1>6 DEF Persist, SystemTypeOK
  <2>2. Pod(adm[p].hash, adm[p].skip) \in PodStates
    BY <2>1, PodsAsAdmitted DEF Pod, Admissions
  <2>3. PodStep(p)
    BY <1>6, <2>2 DEF Persist, PodStep
  <2> QED BY <2>3 DEF Next
<1>7. ASSUME NEW p \in Slots,
             \/ \E found \in BOOLEAN : AdmitMatch(p, found)
             \/ AdmitMutate(p) \/ AdmitIgnored(p)
      PROVE  UNCHANGED vars
  BY <1>7 DEF AdmitMatch, AdmitMutate, AdmitIgnored
<1>8. CASE UNCHANGED allVars
  BY <1>8 DEF allVars, systemVars
<1> QED BY <1>1, <1>2, <1>3, <1>4, <1>5, <1>6, <1>7, <1>8
        DEF SystemNext, SystemDisturbance, SystemRestart, PodRoutine,
            AdmitUnreachable, AdmitTimesOut, AdmitLookupFails

-----------------------------------------------------------------------------
(* Type correctness.                                                       *)

LEMMA AdmitMatchType ==
    ASSUME SystemTypeOK, NEW p \in Slots, NEW found \in BOOLEAN,
           AdmitMatch(p, found)
    PROVE  adm' \in [Slots -> Admissions \cup {Absent}]
<1> DEFINE info == AdmissionInfo[p][found]
           match == Match(registry, info)
<1>1. adm[p] \in Admissions
  BY DEF AdmitMatch, SystemTypeOK
<1>2. CASE DefaultOutcome(registry, Meta[p], adm[p].hash, info) = "success"
  <2>1. match # NoMatch
    BY <1>2 DEF DefaultOutcome
  <2>2. WantedHash(match) \in Annotations
    BY <2>1, WantedHashType DEF SystemTypeOK, TypeOK, Entries, Annotations
  <2> HIDE DEF info, match
  <2>3. [adm[p] EXCEPT !.stage = "matched", !.found = found,
                       !.hash = WantedHash(match)] \in Admissions
    BY <1>1, <2>2 DEF Admissions
  <2>4. adm' = [adm EXCEPT ![p] =
                  [adm[p] EXCEPT !.stage = "matched", !.found = found,
                                 !.hash = WantedHash(match)]]
    BY <1>2 DEF AdmitMatch, SystemTypeOK, info, match
  <2> QED BY <2>3, <2>4 DEF SystemTypeOK
<1>3. CASE DefaultOutcome(registry, Meta[p], adm[p].hash, info) # "success"
  <2> HIDE DEF info, match
  <2>1. [adm[p] EXCEPT !.stage = "answered"] \in Admissions
    BY <1>1 DEF Admissions
  <2>2. adm' = [adm EXCEPT ![p] = [adm[p] EXCEPT !.stage = "answered"]]
    BY <1>3 DEF AdmitMatch, SystemTypeOK, info
  <2> QED BY <2>1, <2>2 DEF SystemTypeOK
<1> QED BY <1>2, <1>3

LEMMA StepAdmTypeOK == SystemTypeOK /\ [SystemNext]_allVars => AdmTypeOK'
<1> SUFFICES ASSUME SystemTypeOK, [SystemNext]_allVars PROVE AdmTypeOK'
  OBVIOUS
<1> DEFINE Typed == adm \in [Slots -> Admissions \cup {Absent}]
<1>0. Typed /\ owed \subseteq CMKeys
  BY DEF SystemTypeOK
<1>1. CASE Routine /\ UNCHANGED adm /\ Recall
  <2>1. pc = "drop" => key \in CMKeys
    BY DEF SystemTypeOK, TypeOK
  <2>2. owed' \subseteq owed \cup {key} /\ (pc # "drop" => owed' \subseteq owed)
    BY <1>1 DEF Recall
  <2> QED BY <1>0, <1>1, <2>1, <2>2 DEF AdmTypeOK
<1>2. CASE (Change \/ Failure \/ WebhookDown) /\ UNCHANGED <<adm, owed>>
  BY <1>0, <1>2 DEF AdmTypeOK
<1>3. CASE SystemRestart
  <2>1. \A p \in Slots : adm'[p] \in Admissions \cup {Absent}
    BY <1>0, <1>3, ArrivalType DEF SystemRestart
  <2> QED BY <1>3, <2>1 DEF SystemRestart, AdmTypeOK
<1>4. ASSUME NEW p \in Slots, NEW found \in BOOLEAN, AdmitMatch(p, found)
      PROVE  Typed'
  BY <1>4, AdmitMatchType
<1>5. ASSUME NEW p \in Slots, AdmitIgnored(p) PROVE Typed'
  BY <1>0, <1>5, ArrivalType DEF AdmitIgnored
<1>6. ASSUME NEW p \in Slots, AdmitMutate(p) PROVE Typed'
  <2> DEFINE skip == BPFGeneratesSpanMetrics(registry,
                                             AdmissionInfo[p][adm[p].found])
             answer == [adm[p] EXCEPT !.stage = "answered", !.skip = skip]
  <2>1. adm[p] \in Admissions
    BY <1>0, <1>6 DEF AdmitMutate
  <2>2. skip \in BOOLEAN
    BY DEF BPFGeneratesSpanMetrics
  <2>3. adm' = [adm EXCEPT ![p] = answer]
    BY <1>0, <1>6 DEF AdmitMutate
  <2> HIDE DEF skip
  <2>4. answer \in Admissions
    BY <2>1, <2>2 DEF Admissions
  <2> QED BY <1>0, <2>3, <2>4
<1>7. ASSUME NEW p \in Slots, Create(p) \/ Terminate(p) \/ Gone(p) \/ Persist(p)
      PROVE  Typed'
  BY <1>0, <1>7, ArrivalType DEF Create, Terminate, Gone, Persist
<1>8. CASE UNCHANGED allVars
  BY <1>0, <1>8 DEF allVars, systemVars, AdmTypeOK
<1> QED BY <1>0, <1>1, <1>2, <1>3, <1>4, <1>5, <1>6, <1>7, <1>8
        DEF SystemNext, SystemDisturbance, PodRoutine, AdmitUnreachable,
            AdmitTimesOut, AdmitLookupFails, AdmTypeOK

LEMMA SystemTyped == SystemSpec => []SystemTypeOK /\ [][Next]_vars
<1>1. SystemInit => SystemTypeOK
  BY InitSystemTypeOK
<1>2. SystemTypeOK /\ [SystemNext]_allVars => SystemTypeOK'
  <2> SUFFICES ASSUME SystemTypeOK, [SystemNext]_allVars PROVE SystemTypeOK'
    OBVIOUS
  <2>1. TypeOK'
    BY StepMaps, StepTypeOK DEF SystemTypeOK
  <2> QED BY <2>1, StepAdmTypeOK DEF AdmTypeOK, SystemTypeOK
<1>3. SystemTypeOK /\ [SystemNext]_allVars => [Next]_vars
  BY StepMaps
<1> QED BY <1>1, <1>2, <1>3, PTL DEF SystemSpec

(* For any ConfigMaps, nodes and pods: what the webhook stamps on a pod,   *)
(* whenever the rules change during its admission, is a digest the sweep   *)
(* and the gauge can compare with, and so is everything else of the        *)
(* composition's state.                                                    *)
THEOREM SystemTypeCorrect == SystemSpec => []SystemTypeOK
BY SystemTyped, PTL

(* The composition implements the reconciler: admissions, rollouts and pod *)
(* deletions are steps the reconciler's specification allows for. All that *)
(* is proved of Spec holds of the whole system.                            *)
THEOREM SystemImplementsSpec == SystemSpec => Spec
<1>1. SystemInit => Init
  BY InitSystemTypeOK
<1> QED BY <1>1, SystemTyped, PTL DEF SystemSpec, Spec

-----------------------------------------------------------------------------
(* Cleanups.                                                               *)

(* A cleanup that is due is queued, or is what the worker is doing; with   *)
(* rollouts switched off none is ever due.                                 *)
OwedInv ==
    /\ \A k \in owed : \/ k \in queue \cup waiting
                       \/ pc # "idle" /\ key = k /\ got = Absent
    /\ NoAutoRestart => owed = {}

LEMMA QuietKeepsOwed ==
    ASSUME OwedInv, owed' \subseteq owed,
           queue \cup waiting \subseteq queue' \cup waiting',
           \/ UNCHANGED <<pc, key, got>>
           \/ pc # "idle" /\ pc' # "idle" /\ UNCHANGED <<key, got>>
    PROVE  OwedInv'
BY DEF OwedInv

LEMMA RetryKeepsOwed ==
    ASSUME OwedInv, owed' \subseteq owed, queue' = queue, Retry
    PROVE  OwedInv'
<1>1. \A k \in owed' : k \in queue' \cup waiting'
  BY DEF OwedInv, Retry
<1>2. NoAutoRestart => owed' = {}
  BY DEF OwedInv
<1> QED BY <1>1, <1>2 DEF OwedInv

(* A reconcile may end for good only if it was not a cleanup that is due.  *)
LEMMA ReturnKeepsOwed ==
    ASSUME OwedInv, owed' \subseteq owed, queue' = queue, Return,
           got # Absent \/ key \notin owed' \/ NoAutoRestart
    PROVE  OwedInv'
BY DEF OwedInv, Return, WorkerDone

LEMMA RecallDrops ==
    ASSUME Recall, ~(pc = "drop" /\ pc' = "gate")
    PROVE  owed' \subseteq owed
BY DEF Recall

LEMMA WorkKeepsOwed ==
    ASSUME SystemTypeOK, OwedInv, Work, Recall
    PROVE  OwedInv'
<1> USE DEF cluster, events, podVars, refresh, worker
<1>1. CASE \/ CheckNode \/ GatePasses \/ RefreshList \/ Replace \/ Sweep
           \/ \E k \in CMKeys : RefreshOne(k)
           \/ \E w \in Workloads : Patch(w)
  <2>1. owed' \subseteq owed
    BY <1>1, RecallDrops DEF CheckNode, GatePasses, RefreshList, Replace, Sweep,
                             RefreshOne, Patch, GoTo
  <2> QED BY <1>1, <2>1, QuietKeepsOwed DEF CheckNode, GatePasses, RefreshList,
                             Replace, Sweep, RefreshOne, Patch, GoTo
<1>2. CASE Drop /\ got = Absent
  <2>1. pc' = "gate" /\ UNCHANGED <<key, got, queue, waiting>>
    BY <1>2 DEF Drop, GoTo
  <2>2. owed' = IF NoAutoRestart THEN owed ELSE owed \cup {key}
    BY <1>2, <2>1 DEF Drop, Recall
  <2>3. \A k \in owed' : \/ k \in queue' \cup waiting'
                         \/ pc' # "idle" /\ key' = k /\ got' = Absent
    BY <1>2, <2>1, <2>2 DEF OwedInv
  <2>4. NoAutoRestart => owed' = {}
    BY <2>2 DEF OwedInv
  <2> QED BY <2>3, <2>4 DEF OwedInv
<1>3. CASE \/ Drop /\ got # Absent
           \/ LoadInvalid \/ LoadPanics \/ Load \/ GateOff \/ GateDefers
           \/ \E k \in CMKeys : RefreshPanics(k)
  <2>1. pc = "load" => got # Absent
    BY AbsentIsNoValue DEF SystemTypeOK, TypeOK
  <2>2. owed' \subseteq owed
    BY <1>3, RecallDrops DEF Drop, LoadInvalid, LoadPanics, Load, GateOff,
                             GateDefers, RefreshPanics, Return, Retry, WorkerDone
  <2>3. queue' = queue
    BY <1>3 DEF Drop, LoadInvalid, LoadPanics, Load, GateOff, GateDefers,
                RefreshPanics
  <2>4. CASE Retry
    BY <2>2, <2>3, <2>4, RetryKeepsOwed
  <2>5. CASE Return
    BY <1>3, <2>1, <2>2, <2>3, <2>4, <2>5, ReturnKeepsOwed
       DEF Drop, LoadInvalid, LoadPanics, Load, GateOff, GateDefers,
           RefreshPanics
  <2>6. CASE GoTo("gate") /\ UNCHANGED got /\ pc = "load"
    BY <2>2, <2>3, <2>6, QuietKeepsOwed DEF GoTo
  <2> QED BY <1>3, <2>4, <2>5, <2>6 DEF Drop, LoadInvalid, LoadPanics, Load,
                             GateOff, GateDefers, RefreshPanics
<1>4. CASE SweepDone
  <2>1. pc = "patch" /\ pc' = "idle" /\ queue' = queue
    BY <1>4 DEF SweepDone, Return, Retry, WorkerDone
  <2>2. owed' = IF failed THEN owed ELSE owed \ {key}
    BY <2>1 DEF Recall
  <2>3. CASE failed /\ Cleaning
    BY <1>4, <2>1, <2>2, <2>3, RetryKeepsOwed DEF SweepDone
  <2>4. CASE ~(failed /\ Cleaning)
    <3>1. got # Absent \/ key \notin owed'
      BY <2>2, <2>4 DEF Cleaning
    <3> QED BY <1>4, <2>1, <2>2, <2>4, <3>1, ReturnKeepsOwed DEF SweepDone
  <2> QED BY <2>3, <2>4
<1>5. ASSUME NEW k \in CMKeys, RefreshOne(k) \/ RefreshPanics(k) PROVE OwedInv'
  <2>1. CASE RefreshOne(k)
    BY <1>1, <2>1
  <2>2. CASE RefreshPanics(k)
    BY <1>3, <2>2
  <2> QED BY <1>5, <2>1, <2>2
<1>6. ASSUME NEW w \in Workloads, Patch(w) PROVE OwedInv'
  BY <1>1, <1>6
<1>7. CASE Drop
  BY <1>2, <1>3, <1>7
<1>8. CASE CheckNode \/ GatePasses \/ RefreshList \/ Replace \/ Sweep
  BY <1>1, <1>8
<1>9. CASE LoadInvalid \/ LoadPanics \/ Load \/ GateOff \/ GateDefers
  BY <1>3, <1>9
<1> QED BY <1>4, <1>5, <1>6, <1>7, <1>8, <1>9 DEF Work

LEMMA StepKeepsOwed ==
    SystemTypeOK /\ OwedInv /\ [SystemNext]_allVars => OwedInv'
<1> SUFFICES ASSUME SystemTypeOK, OwedInv, [SystemNext]_allVars PROVE OwedInv'
  OBVIOUS
<1> USE DEF cluster, events, podVars, refresh, worker
<1>1. CASE Work /\ Recall
  BY <1>1, WorkKeepsOwed
<1>2. ASSUME NEW k \in CMKeys, Begin(k), Recall PROVE OwedInv'
  <2>1. /\ pc = "idle" /\ pc' # "idle" /\ key' = k /\ got' = cms[k]
        /\ queue' = queue \ {k} /\ waiting' = waiting
    BY <1>2 DEF Begin
  <2>2. owed' = IF got' # Absent THEN owed \ {k} ELSE owed
    BY <1>2, <2>1 DEF Recall
  <2>3. \A j \in owed' : \/ j \in queue' \cup waiting'
                         \/ pc' # "idle" /\ key' = j /\ got' = Absent
    BY <2>1, <2>2 DEF OwedInv
  <2>4. NoAutoRestart => owed' = {}
    BY <2>2 DEF OwedInv
  <2> QED BY <2>3, <2>4 DEF OwedInv
<1>3. CASE /\ \/ \E k \in CMKeys : Fire(k) \/ Resync(k)
              \/ \E n \in NodeNames : HandleNodeEvent(n)
              \/ WebhookUp
           /\ Recall
  <2>1. UNCHANGED <<pc, key, got>>
    BY <1>3 DEF Fire, Resync, HandleNodeEvent, WebhookUp
  <2>2. owed' \subseteq owed
    BY <1>3, <2>1, RecallDrops
  <2>3. queue \cup waiting \subseteq queue' \cup waiting'
    BY <1>3 DEF Fire, Resync, HandleNodeEvent, WebhookUp
  <2> QED BY <2>1, <2>2, <2>3, QuietKeepsOwed
<1>4. CASE (Change \/ WebhookDown) /\ UNCHANGED owed
  <2>1. UNCHANGED <<pc, key, got, waiting>> /\ queue \subseteq queue'
    BY <1>4 DEF Change, WriteCM, WriteNode, WebhookDown
  <2> QED BY <1>4, <2>1, QuietKeepsOwed
<1>5. CASE Failure /\ UNCHANGED owed
  <2>1. ASSUME NEW k \in CMKeys, BeginFails(k) PROVE OwedInv'
    BY <1>5, <2>1, QuietKeepsOwed DEF BeginFails
  <2>2. ASSUME NEW n \in NodeNames, HandleNodeEventFails(n) PROVE OwedInv'
    BY <1>5, <2>2, QuietKeepsOwed DEF HandleNodeEventFails
  <2>3. ASSUME NEW w \in Workloads, PatchFails(w) PROVE OwedInv'
    BY <1>5, <2>3, QuietKeepsOwed DEF PatchFails
  <2>4. CASE CheckNodeFails
    BY <1>5, <2>4, QuietKeepsOwed DEF CheckNodeFails, GoTo
  <2>5. CASE RefreshFails
    BY <1>5, <2>5, RetryKeepsOwed DEF RefreshFails
  <2>6. CASE SweepFails
    BY <1>5, <2>6, RetryKeepsOwed, ReturnKeepsOwed DEF SweepFails, Cleaning
  <2> QED BY <1>5, <2>1, <2>2, <2>3, <2>4, <2>5, <2>6 DEF Failure
<1>6. CASE SystemRestart
  BY <1>6 DEF SystemRestart, OwedInv
<1>7. CASE UNCHANGED <<events, worker, owed>>
  BY <1>7, QuietKeepsOwed
<1>8. ASSUME NEW p \in Slots,
             PodRoutine(p) \/ AdmitTimesOut(p) \/ AdmitLookupFails(p)
      PROVE  UNCHANGED <<events, worker>>
  BY <1>8 DEF PodRoutine, AdmitTimesOut, AdmitLookupFails, AdmitUnreachable,
              AdmitIgnored, AdmitMatch, AdmitMutate, Create, Terminate, Gone,
              Persist, vars
<1>9. CASE UNCHANGED allVars
  BY <1>7, <1>9 DEF allVars, systemVars, vars
<1> QED BY <1>1, <1>2, <1>3, <1>4, <1>5, <1>6, <1>7, <1>8, <1>9
        DEF SystemNext, SystemDisturbance, Routine

(* For any ConfigMaps, nodes and pods, as long as the process lives: the   *)
(* restarts that a deleted ConfigMap calls for are under way or queued,    *)
(* however often the webhook is not ready, a list fails, a patch fails or  *)
(* a listed ConfigMap makes the parser panic.                              *)
THEOREM CleanupsAreRemembered == SystemSpec => []CleanupRemembered
<1>1. SystemInit => OwedInv
  BY DEF SystemInit, OwedInv
<1>2. SystemTypeOK /\ OwedInv /\ [SystemNext]_allVars => OwedInv'
  BY StepKeepsOwed
<1>3. OwedInv => CleanupRemembered
  BY DEF OwedInv, CleanupRemembered
<1> QED BY <1>1, <1>2, <1>3, SystemTypeCorrect, PTL DEF SystemSpec

-----------------------------------------------------------------------------
(* A cluster left alone.                                                   *)

(* The step is one of the reconciler's own or of a pod's, none that        *)
(* disturbs.                                                               *)
LEMMA UndisturbedSteps ==
    ASSUME [SystemNext]_allVars, ~SystemDisturbance
    PROVE  \/ Routine /\ UNCHANGED adm
           \/ \E p \in Slots : PodRoutine(p)
           \/ UNCHANGED <<vars, adm>>
BY DEF SystemNext, allVars, systemVars

LEMMA RoutineKeepsCaches ==
    ASSUME Routine
    PROVE  UNCHANGED <<cms, nodes, pods>> /\ (up => up')
<1> USE DEF cluster, podVars, worker
<1>1. CASE \/ \E k \in CMKeys : Begin(k) \/ Fire(k) \/ Resync(k)
           \/ \E n \in NodeNames : HandleNodeEvent(n)
           \/ WebhookUp
  BY <1>1 DEF Begin, Fire, Resync, HandleNodeEvent, WebhookUp
<1>2. CASE Work
  BY <1>2 DEF Work, CheckNode, Drop, LoadInvalid, LoadPanics, Load, GateOff,
              GateDefers, GatePasses, RefreshList, Replace, RefreshOne,
              RefreshPanics, Sweep, SweepDone, Patch
<1> QED BY <1>1, <1>2 DEF Routine

LEMMA PodRoutineKeepsReconciler ==
    ASSUME NEW p \in Slots, PodRoutine(p)
    PROVE  UNCHANGED <<cluster, events, refresh, worker, registry>>
BY DEF PodRoutine, Create, Terminate, Gone, AdmitMatch, AdmitMutate,
       AdmitUnreachable, AdmitIgnored, Persist, vars

LEMMA RegistryStaysSettled ==
    ASSUME IInv, [SystemNext]_allVars, ~SystemDisturbance, RegistrySettled
    PROVE  RegistrySettled' /\ UNCHANGED <<cms, nodes>>
<1> USE DEF cluster, refresh, worker
<1>1. ASSUME NEW k \in CMKeys PROVE KeptRight(k)
  <2>1. CASE Routine
    BY <2>1, RoutineKeepsRight
  <2>2. CASE UNCHANGED vars
    BY <2>2, RoutineKeepsRight
  <2>3. CASE \E p \in Slots : PodRoutine(p)
    BY <2>3, PodRoutineKeepsReconciler, OthersKeepRight
  <2> QED BY <2>1, <2>2, <2>3, UndisturbedSteps
<1>2. UNCHANGED <<cms, nodes>> /\ up'
  <2>1. CASE Routine
    BY <2>1, RoutineKeepsCaches DEF RegistrySettled
  <2>2. CASE UNCHANGED vars
    BY <2>2 DEF vars, RegistrySettled
  <2>3. CASE \E p \in Slots : PodRoutine(p)
    BY <2>3, PodRoutineKeepsReconciler DEF RegistrySettled
  <2> QED BY <2>1, <2>2, <2>3, UndisturbedSteps
<1> QED BY <1>1, <1>2 DEF RegistrySettled, KeptRight

(* No selector tells what the webhook sees of a pod, before its name is    *)
(* assigned, from what the sweep sees of it.                               *)
NamesDoNotMatter ==
    \A p \in Slots, sel \in Selectors :
        SelectorMatch(sel, AdmissionInfo[p][TRUE])
           <=> SelectorMatch(sel, PodInfo[p][TRUE])

(* On the rules of the moment, the webhook answers so that the pod is      *)
(* settled: it is given what it should carry, or it may stay as it is.     *)
LEMMA AnswersSettle ==
    ASSUME NamesDoNotMatter, TemplatesAreUnstamped, SystemTypeOK,
           registry = WantAll, NEW p \in Slots, AdmitMatch(p, TRUE),
           adm[p].hash = Meta[p].stamp
    PROVE  /\ \A q \in Slots \ {p} : adm'[q] = adm[q]
           /\ adm'[p] # Absent => adm'[p].stage # "arrived"
           /\ SettledWith(p, adm'[p].hash)
<1> DEFINE info == AdmissionInfo[p][TRUE]
           match == Match(registry, info)
           a == adm[p]
<1>1. match = Match(WantAll, PodInfo[p][TRUE])
  BY SameMatch DEF NamesDoNotMatter, SystemTypeOK, TypeOK, Entries
<1>2. a \in Admissions /\ adm \in [Slots -> Admissions \cup {Absent}]
  BY DEF AdmitMatch, SystemTypeOK
<1>3. CASE DefaultOutcome(registry, Meta[p], a.hash, info) = "success"
  <2>1. match # NoMatch
    BY <1>3 DEF DefaultOutcome
  <2>2. adm' = [adm EXCEPT ![p] = [a EXCEPT !.stage = "matched", !.found = TRUE,
                                            !.hash = WantedHash(match)]]
    BY <1>2, <1>3 DEF AdmitMatch
  <2>3. SettledWith(p, WantedHash(match))
    BY <1>1, <2>1 DEF SettledWith
  <2> HIDE DEF match, info
  <2>4. adm'[p].stage = "matched" /\ adm'[p].hash = WantedHash(match)
    BY <1>2, <2>2 DEF Admissions
  <2> QED BY <1>2, <2>2, <2>3, <2>4
<1>4. CASE DefaultOutcome(registry, Meta[p], a.hash, info) # "success"
  <2>1. adm' = [adm EXCEPT ![p] = [a EXCEPT !.stage = "answered"]]
    BY <1>2, <1>4 DEF AdmitMatch
  <2>2. SettledWith(p, a.hash)
    <3>1. CASE match = NoMatch
      <4>1. ~IsInstrumented(a.hash)
        BY DEF TemplatesAreUnstamped
      <4> QED BY <1>1, <3>1, <4>1 DEF SettledWith
    <3>2. CASE match # NoMatch
      <4>1. \/ EffectiveImage(match) = "" \/ a.hash = WantedHash(match)
            \/ PreloadsSomethingElse(Meta[p])
        BY <1>4, <3>2 DEF DefaultOutcome, IsInstrumentedWithWantedConfig
      <4> QED BY <1>1, <3>2, <4>1 DEF SettledWith
    <3> QED BY <3>1, <3>2
  <2>3. adm'[p].stage = "answered" /\ adm'[p].hash = a.hash
    BY <1>2, <2>1 DEF Admissions
  <2> QED BY <1>2, <2>1, <2>2, <2>3
<1> QED BY <1>3, <1>4

LEMMA SlotsStaySettled ==
    ASSUME NamesDoNotMatter, TemplatesAreUnstamped, SystemTypeOK,
           RegistrySettled, NEW p \in Slots, PodRoutine(p), NEW q \in Slots,
           SlotSettled(q, pods[q], adm[q])
    PROVE  SlotSettled(q, pods'[q], adm'[q])
<1>0. /\ adm \in [Slots -> Admissions \cup {Absent}]
      /\ pods \in [Slots -> PodStates \cup {Absent}]
  BY DEF SystemTypeOK, TypeOK
<1>1. CASE q # p
  <2>1. pods'[q] = pods[q] /\ adm'[q] = adm[q]
    BY <1>0, <1>1 DEF PodRoutine, Create, Terminate, Gone, AdmitMatch,
              AdmitMutate, AdmitUnreachable, AdmitIgnored, Persist, vars, podVars
  <2> QED BY <2>1
<1>2. CASE q = p /\ Create(p)
  <2>1. pods' = pods /\ adm'[p] = Arrival(p)
    BY <1>0, <1>2 DEF Create
  <2> QED BY <1>2, <2>1 DEF SlotSettled, Arrival
<1>3. CASE q = p /\ Terminate(p)
  <2>1. pods[p] \in PodStates /\ adm' = adm
    BY <1>0, <1>3 DEF Terminate
  <2>2. pods'[p] = [pods[p] EXCEPT !.terminating = TRUE]
    BY <1>0, <1>3 DEF Terminate
  <2>3. pods'[p].terminating
    BY <2>1, <2>2, PodsAsAdmitted
  <2> QED BY <1>3, <2>1, <2>3 DEF SlotSettled
<1>4. CASE q = p /\ Gone(p)
  BY <1>0, <1>4 DEF Gone, SlotSettled
<1>5. CASE q = p /\ AdmitMatch(p, TRUE)
  <2>1. adm[p].hash = Meta[p].stamp /\ pods' = pods
    BY <1>5 DEF AdmitMatch, SlotSettled, vars, podVars
  <2>2. registry = WantAll
    BY DEF RegistrySettled, SystemTypeOK, TypeOK, WantAll
  <2> QED BY <1>5, <2>1, <2>2, AnswersSettle DEF SlotSettled
<1>6. CASE q = p /\ AdmitMutate(p)
  <2>1. /\ adm[p] \in Admissions /\ adm[p].stage = "matched" /\ adm[p] # Absent
        /\ pods' = pods
    BY <1>0, <1>6 DEF AdmitMutate, vars, podVars
  <2>2. adm'[p].stage = "answered" /\ adm'[p].hash = adm[p].hash
    <3> DEFINE skip == BPFGeneratesSpanMetrics(registry,
                                               AdmissionInfo[p][adm[p].found])
    <3>1. adm'[p] = [adm[p] EXCEPT !.stage = "answered", !.skip = skip]
      BY <1>0, <1>6 DEF AdmitMutate
    <3> HIDE DEF skip
    <3> QED BY <2>1, <3>1 DEF Admissions
  <2> QED BY <1>6, <2>1, <2>2 DEF SlotSettled
<1>7. CASE q = p /\ AdmitUnreachable(p)
  BY <1>7 DEF AdmitUnreachable, RegistrySettled
<1>8. CASE q = p /\ Persist(p)
  <2>1. SettledWith(p, adm[p].hash)
    BY <1>8 DEF Persist, SlotSettled
  <2>2. pods'[p] = Pod(adm[p].hash, adm[p].skip) /\ adm'[p] = Absent
    BY <1>0, <1>8 DEF Persist
  <2>3. Pod(adm[p].hash, adm[p].skip).hash = adm[p].hash
    BY DEF Pod
  <2> QED BY <1>8, <2>1, <2>2, <2>3 DEF SlotSettled
<1> QED BY <1>1, <1>2, <1>3, <1>4, <1>5, <1>6, <1>7, <1>8 DEF PodRoutine

(* What an undisturbed step does once the registry is as it should be.     *)
LEMMA UndisturbedKeepsSettled ==
    ASSUME NamesDoNotMatter, TemplatesAreUnstamped, IInv, SystemTypeOK,
           [SystemNext]_allVars, ~SystemDisturbance, RegistrySettled
    PROVE  /\ RegistrySettled' /\ UNCHANGED <<cms, nodes>>
           /\ \A p \in Slots : SlotSettled(p, pods[p], adm[p]) =>
                                  SlotSettled(p, pods'[p], adm'[p])
<1>1. CASE UNCHANGED <<pods, adm>>
  BY <1>1, RegistryStaysSettled
<1>2. CASE \E p \in Slots : PodRoutine(p)
  BY <1>2, RegistryStaysSettled, SlotsStaySettled
<1> QED BY <1>1, <1>2, UndisturbedSteps, RoutineKeepsCaches DEF vars, podVars

(* For any ConfigMaps, nodes and pods, with rules that do not depend on    *)
(* pod names and templates that are not stamped: once the registry holds   *)
(* what the ConfigMaps deserve and the webhook can be reached, both stay   *)
(* so, every pod that is created comes out as it should be, and what is as *)
(* it should be stays so, until something disturbs the cluster.            *)
THEOREM SettledSlotsStay ==
    ASSUME NamesDoNotMatter, TemplatesAreUnstamped
    PROVE  SystemSpec => SettledUntilDisturbed
<1> DEFINE Stays == RegistrySettled =>
               \/ /\ RegistrySettled'
                  /\ \A p \in Slots : SlotSettled(p, pods[p], adm[p]) =>
                                         SlotSettled(p, pods'[p], adm'[p])
               \/ SystemDisturbance
<1>1. IInv /\ SystemTypeOK /\ [SystemNext]_allVars => [Stays]_allVars
  BY UndisturbedKeepsSettled
<1> QED BY <1>1, SystemTypeCorrect, SystemImplementsSpec, Invariance, PTL
        DEF SystemSpec, SettledUntilDisturbed

(* Everything is as it should be, and no restart is on its way.            *)
AllSettled ==
    /\ RegistrySettled
    /\ \A p \in Slots : SlotSettled(p, pods[p], adm[p])
    /\ toRestart = {}

LEMMA OnlySweepsSchedule ==
    ASSUME Routine
    PROVE  toRestart' \subseteq toRestart \/ SweepStep
<1> USE DEF worker
<1>1. CASE \/ \E k \in CMKeys : Begin(k) \/ Fire(k) \/ Resync(k)
           \/ \E n \in NodeNames : HandleNodeEvent(n)
           \/ WebhookUp
  BY <1>1 DEF Begin, Fire, Resync, HandleNodeEvent, WebhookUp
<1>2. CASE Work /\ ~Sweep
  BY <1>2 DEF Work, CheckNode, Drop, LoadInvalid, LoadPanics, Load, GateOff,
              GateDefers, GatePasses, RefreshList, Replace, RefreshOne,
              RefreshPanics, SweepDone, Patch, Return, Retry, WorkerDone
<1>3. CASE Sweep
  BY <1>3 DEF Sweep, GoTo, SweepStep
<1> QED BY <1>1, <1>2, <1>3 DEF Routine

LEMMA NothingIsScheduled ==
    ASSUME SystemTypeOK, [SystemNext]_allVars, ~SystemDisturbance, AllSettled
    PROVE  toRestart' = {}
<1>1. CASE Routine
  <2>1. toRestart' \subseteq {} \/ SweepStep
    BY <1>1, OnlySweepsSchedule DEF AllSettled
  <2>2. ASSUME SweepStep PROVE toRestart' \subseteq {}
    <3>1. registry = WantAll
      BY DEF AllSettled, RegistrySettled, SystemTypeOK, TypeOK, WantAll
    <3>2. toRestart' \subseteq Due
      BY <1>1, <2>2, <3>1, SweepsOnTheRules DEF Next, DecidesExactly
    <3>3. \A p \in Slots : InReach(p) => Settled(p)
      BY DEF AllSettled, SlotSettled, InReach, Settled
    <3> QED BY <3>2, <3>3 DEF Due
  <2> QED BY <2>1, <2>2
<1>2. CASE \E p \in Slots : PodRoutine(p)
  BY <1>2, PodRoutineKeepsReconciler DEF worker, AllSettled
<1>3. CASE UNCHANGED vars
  BY <1>3 DEF vars, worker, AllSettled
<1> QED BY <1>1, <1>2, <1>3, UndisturbedSteps

LEMMA AllStaySettled ==
    ASSUME NamesDoNotMatter, TemplatesAreUnstamped, IInv, SystemTypeOK,
           [SystemNext]_allVars, ~SystemDisturbance, AllSettled
    PROVE  AllSettled'
<1>1. /\ RegistrySettled' /\ UNCHANGED <<cms, nodes>>
      /\ \A p \in Slots : SlotSettled(p, pods'[p], adm'[p])
  BY UndisturbedKeepsSettled DEF AllSettled
<1>2. WantAll' = WantAll
  BY <1>1 DEF WantAll, Want
<1>3. \A p \in Slots : SlotSettled(p, pods[p], adm[p])'
  BY <1>1, <1>2 DEF SlotSettled, SettledWith
<1> QED BY <1>1, <1>3, NothingIsScheduled DEF AllSettled

(* With the same assumptions: a cluster in which every pod, every          *)
(* admission under way and the registry are as they should be, and that is *)
(* left alone from then on, stays so for good; pods may come and go and    *)
(* every resync may sweep again, the controller restarts nothing any more. *)
THEOREM SettledForGood ==
    ASSUME NamesDoNotMatter, TemplatesAreUnstamped
    PROVE  SystemSpec =>
             [](AllSettled /\ [][~SystemDisturbance]_allVars =>
                  []AllSettled /\ [][~\E w \in Workloads : Patch(w)]_allVars)
<1> DEFINE Quiescent == ~SystemDisturbance
           Patching == \E w \in Workloads : Patch(w)
<1>1. ASSUME IInv, SystemTypeOK, [SystemNext]_allVars, [Quiescent]_allVars,
             AllSettled
      PROVE  AllSettled' /\ [~Patching]_allVars
  <2>1. ASSUME ~SystemDisturbance PROVE AllSettled'
    BY <1>1, <2>1, AllStaySettled
  <2>2. ASSUME UNCHANGED allVars PROVE AllSettled'
    <3>1. UNCHANGED <<cms, nodes, up, registry, pc, key, got, listed, todo,
                      instruments, toRestart, pods, adm>>
      BY <2>2 DEF allVars, systemVars, vars, cluster, refresh, worker, podVars
    <3>2. RegistrySettled'
      BY <1>1, <3>1 DEF AllSettled, RegistrySettled, Right, LocalsRight,
                        Rewriting, Want
    <3>3. WantAll' = WantAll
      BY <3>1 DEF WantAll, Want
    <3>4. \A p \in Slots : SlotSettled(p, pods[p], adm[p])'
      BY <1>1, <3>1, <3>3 DEF AllSettled, SlotSettled, SettledWith
    <3> QED BY <1>1, <3>1, <3>2, <3>4 DEF AllSettled
  <2>3. ~Patching
    BY <1>1 DEF AllSettled, Patch
  <2>4. AllSettled'
    BY <1>1, <2>1, <2>2
  <2> HIDE DEF Patching
  <2> QED BY <2>3, <2>4
<1> HIDE DEF Quiescent, Patching
<1>2. /\ IInv /\ SystemTypeOK /\ [SystemNext]_allVars /\ [Quiescent]_allVars
      /\ AllSettled
      => AllSettled' /\ [~Patching]_allVars
  BY <1>1
<1>3. SystemSpec => [](AllSettled /\ [][Quiescent]_allVars =>
                         []AllSettled /\ [][~Patching]_allVars)
  BY <1>2, SystemTypeCorrect, SystemImplementsSpec, Invariance, PTL
     DEF SystemSpec
<1> QED BY <1>3 DEF Quiescent, Patching

=============================================================================
