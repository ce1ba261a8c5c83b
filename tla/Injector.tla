------------------------------ MODULE Injector ------------------------------
(***************************************************************************)
(* The whole system: the ConfigMap controller of Reconciler, the mutating  *)
(* webhook that answers pod creations from the same registry, and the      *)
(* workload controllers and API server that replace the pods of a patched  *)
(* workload.                                                               *)
(*                                                                         *)
(* An admission reads the registry twice, under a lock each time (Match,   *)
(* then BPFGeneratesSpanMetrics), and the pod appears in the cache later   *)
(* still: in between, the reconciler may change the registry and sweep.    *)
(***************************************************************************)
EXTENDS Reconciler

VARIABLES
    adm,    \* slot |-> the admission in progress for its next pod, or Absent:
            \*   stage  "arrived", "matched" (will be mutated) or "answered"
            \*   hash   the InjectedAnnotation so far
            \*   skip   span.metrics.skip is set on its containers
            \*   found  the ReplicaSet lookup succeeded
    owed    \* history: deleted ConfigMaps that this process has taken out
            \* of the registry and not cleaned up after yet

ASSUME PodsAsAdmitted ==
    PodStates = [terminating : BOOLEAN, hash : Annotations, skip : BOOLEAN]

ASSUME StampsAreAnnotations == \A p \in Slots : Meta[p].stamp \in Annotations

systemVars == <<vars, adm>>

allVars == <<systemVars, owed>>

Pod(hash, skip) == [terminating |-> FALSE, hash |-> hash, skip |-> skip]

\* A pod as its template makes it, never touched by the webhook.
Plain(p) == Pod(Meta[p].stamp, FALSE)

Arrival(p) ==
    [stage |-> "arrived", hash |-> Meta[p].stamp, skip |-> FALSE,
     found |-> TRUE]

SystemInit ==
    /\ Init
    /\ pods \in {P \in [Slots -> PodStates \cup {Absent}] :
                    \A p \in Slots : P[p] \in {Absent, Plain(p)}}
    /\ adm = [p \in Slots |-> Absent]
    /\ owed = {}

-----------------------------------------------------------------------------
(* Workload controllers.                                                   *)

\* A pod is created from the current template; its admission begins.
Create(p) ==
    /\ pods[p] = Absent /\ adm[p] = Absent
    /\ adm' = [adm EXCEPT ![p] = Arrival(p)]
    /\ outdated' = outdated \ {p}
    /\ UNCHANGED <<cluster, events, pods, refresh, worker, registry>>

\* A pod is deleted: by the rollout of its workload, or by anyone else.
Terminate(p) ==
    /\ pods[p] # Absent /\ ~pods[p].terminating
    /\ pods' = [pods EXCEPT ![p].terminating = TRUE]
    /\ UNCHANGED <<cluster, events, outdated, refresh, worker, registry, adm>>

Gone(p) ==
    /\ pods[p] # Absent /\ pods[p].terminating
    /\ pods' = [pods EXCEPT ![p] = Absent]
    /\ UNCHANGED <<cluster, events, outdated, refresh, worker, registry, adm>>

-----------------------------------------------------------------------------
(* The webhook.                                                            *)

\* Mutant: the stamp is the matched rule, not its digest.
AdmitMatchUndigested(p, found) ==
    /\ up
    /\ adm[p] # Absent /\ adm[p].stage = "arrived"
    /\ LET info == AdmissionInfo[p][found]
       IN  adm' = [adm EXCEPT ![p] =
              IF DefaultOutcome(registry, Meta[p], @.hash, info) = "success"
              THEN [@ EXCEPT !.stage = "matched", !.found = found,
                             !.hash = <<Match(registry, info).rule>>]
              ELSE [@ EXCEPT !.stage = "answered"]]
    /\ UNCHANGED vars

\* Mutant: the digest is taken before the ConfigMap's image version is applied.
AdmitMatchDefaultImage(p, found) ==
    /\ up
    /\ adm[p] # Absent /\ adm[p].stage = "arrived"
    /\ LET info == AdmissionInfo[p][found]
       IN  adm' = [adm EXCEPT ![p] =
              IF DefaultOutcome(registry, Meta[p], @.hash, info) = "success"
              THEN [@ EXCEPT !.stage = "matched", !.found = found,
                             !.hash = PodConfigHash(DefaultImage,
                                         Match(registry, info).rule)]
              ELSE [@ EXCEPT !.stage = "answered"]]
    /\ UNCHANGED vars

\* Default up to the decision: Resolve, then Match.
AdmitMatch(p, found) ==
    /\ up
    /\ adm[p] # Absent /\ adm[p].stage = "arrived"
    /\ LET info == AdmissionInfo[p][found]
       IN  adm' = [adm EXCEPT ![p] =
              IF DefaultOutcome(registry, Meta[p], @.hash, info) = "success"
              THEN [@ EXCEPT !.stage = "matched", !.found = found,
                             !.hash = WantedHash(Match(registry, info))]
              ELSE [@ EXCEPT !.stage = "answered"]]
    /\ UNCHANGED vars

\* The rest of Default: look at the BPF rules, mutate, stamp, answer.
AdmitMutate(p) ==
    /\ adm[p] # Absent /\ adm[p].stage = "matched"
    /\ adm' = [adm EXCEPT ![p].stage = "answered",
                          ![p].skip = BPFGeneratesSpanMetrics(registry,
                                         AdmissionInfo[p][adm[p].found])]
    /\ UNCHANGED vars

\* failurePolicy=Ignore: without an answer the pod is admitted as it is.
AdmitIgnored(p) ==
    /\ adm[p] # Absent /\ adm[p].stage # "answered"
    /\ adm' = [adm EXCEPT ![p] = [Arrival(p) EXCEPT !.stage = "answered"]]
    /\ UNCHANGED vars

\* The webhook cannot be reached, or it does not answer in time.
AdmitUnreachable(p) == ~up /\ AdmitIgnored(p)

AdmitLookupFails(p) == "rs" \in Faults /\ AdmitMatch(p, FALSE)

AdmitTimesOut(p) == "timeout" \in Faults /\ up /\ AdmitIgnored(p)

\* The admitted pod appears.
Persist(p) ==
    /\ adm[p] # Absent /\ adm[p].stage = "answered"
    /\ pods' = [pods EXCEPT ![p] = Pod(adm[p].hash, adm[p].skip)]
    /\ adm' = [adm EXCEPT ![p] = Absent]
    /\ UNCHANGED <<cluster, events, outdated, refresh, worker, registry>>

\* A restart of the process takes the admissions it was working on with it.
SystemRestart ==
    /\ Restart
    /\ adm' = [p \in Slots |->
                 IF adm[p] = Absent THEN Absent
                 ELSE IF adm[p].stage = "matched"
                      THEN [Arrival(p) EXCEPT !.stage = "answered"]
                      ELSE adm[p]]
    /\ owed' = {}

\* A cleanup is due once the entry of a deleted ConfigMap is dropped, until a
\* sweep for it ends well or the ConfigMap is found to exist again.
Recall ==
    owed' = CASE pc = "drop" /\ pc' = "gate" /\ ~NoAutoRestart
                                                         -> owed \cup {key}
              [] pc = "patch" /\ pc' = "idle" /\ ~failed  -> owed \ {key}
              [] pc = "idle" /\ pc' # "idle" /\ got' # Absent
                                                         -> owed \ {key'}
              [] OTHER                                   -> owed

-----------------------------------------------------------------------------
PodRoutine(p) ==
    \/ Create(p) \/ Terminate(p) \/ Gone(p)
    \/ AdmitMatch(p, TRUE) \/ AdmitMutate(p) \/ AdmitUnreachable(p)
    \/ Persist(p)

SystemDisturbance ==
    \/ (Change \/ Failure \/ WebhookDown) /\ UNCHANGED <<adm, owed>>
    \/ SystemRestart
    \/ \E p \in Slots : (AdmitTimesOut(p) \/ AdmitLookupFails(p))
                          /\ UNCHANGED owed

SystemNext ==
    \/ Routine /\ UNCHANGED adm /\ Recall
    \/ SystemDisturbance
    \/ \E p \in Slots : PodRoutine(p) /\ UNCHANGED owed

SystemSpec == SystemInit /\ [][SystemNext]_allVars

\* On top of the worker's fairness: the informer resyncs, the webhook comes
\* up, rollouts make progress and admissions are answered.
PodFairness(p) ==
    /\ WF_systemVars(p \in outdated /\ Terminate(p))
    /\ WF_systemVars(Gone(p))
    /\ WF_systemVars(Create(p))
    /\ WF_systemVars(AdmitMatch(p, TRUE) \/ AdmitMutate(p)
                        \/ AdmitUnreachable(p))
    /\ WF_systemVars(Persist(p))

SystemFairness ==
    /\ \A k \in CMKeys : /\ SF_systemVars(Begin(k) /\ UNCHANGED adm)
                         /\ WF_systemVars(Fire(k) /\ UNCHANGED adm)
                         /\ WF_systemVars(Resync(k) /\ UNCHANGED adm)
    /\ \A n \in NodeNames : WF_systemVars(HandleNodeEvent(n) /\ UNCHANGED adm)
    /\ WF_systemVars(Work /\ UNCHANGED adm)
    /\ WF_systemVars(WebhookUp /\ UNCHANGED adm)
    /\ \A p \in Slots : PodFairness(p)

FairSystemSpec == SystemSpec /\ SystemFairness

-----------------------------------------------------------------------------
Admissions ==
    [stage : {"arrived", "matched", "answered"}, hash : Annotations,
     skip : BOOLEAN, found : BOOLEAN]

\* Type correctness of the composition: the reconciler's state and the
\* admissions in progress.
SystemTypeOK ==
    /\ TypeOK
    /\ adm \in [Slots -> Admissions \cup {Absent}]
    /\ owed \subseteq CMKeys

\* A deletion leaves its mark in the registry at once, the sweep that cleans up
\* after it may be put off and fail many times; nothing but the work queue
\* remembers it. As long as the process lives, a cleanup that is due is under
\* way or queued again.
CleanupRemembered == owed \subseteq queue \cup waiting \cup {key}

Quiet == <>[][~SystemDisturbance]_systemVars

\* Some loaded ConfigMap names the workload of p as a restart target.
Targeted(p) ==
    /\ Meta[p].ns \notin ProtectedNamespaces /\ WorkloadOf[p] # NoWorkload
    /\ \E k \in CMKeys :
          /\ hasSelectorAnnotation(cms[k]) /\ NodeEligible(cms[k], nodes)
          /\ ~ParseFails(cms[k]) /\ ~Panics(cms[k])
          /\ matchesAnyTarget(PodInfo[p][TRUE], RestartTargets(cms[k]))

Running(p) == pods[p] # Absent /\ ~pods[p].terminating

\* Left alone, every running pod that the restart targets cover ends up with
\* the instrumentation the ConfigMaps ask for, or with none if none is asked
\* for: whatever was in flight when the rules changed, and however sweeps,
\* rollouts and admissions interleaved.
PodsSettle ==
    Quiet => <>[](missed = {} =>
                    \A p \in Slots : Targeted(p) /\ Running(p) => Settled(p))

\* The webhook can be reached, the registry holds what the ConfigMaps deserve,
\* and no reconcile is about to change that.
RegistrySettled == up /\ \A k \in CMKeys : registry[k] = Want(k) /\ Right(k)

\* A pod that runs in slot p carries what the ConfigMaps ask for, and so will
\* the one whose admission is under way.
SlotSettled(p, pod, admission) ==
    /\ pod # Absent /\ ~pod.terminating => SettledWith(p, pod.hash)
    /\ admission # Absent =>
          IF admission.stage = "arrived" THEN admission.hash = Meta[p].stamp
          ELSE SettledWith(p, admission.hash)

\* Once the registry holds what the ConfigMaps deserve, the slots that are as
\* they ask for only grow in number: new pods come out of admission settled,
\* whichever way rollouts, deletions, admissions and sweeps interleave. Only a
\* new change, a failing call, a timeout or a restart can undo one.
SettledUntilDisturbed ==
    [][RegistrySettled =>
         \/ /\ RegistrySettled'
            /\ \A p \in Slots : SlotSettled(p, pods[p], adm[p]) =>
                                   SlotSettled(p, pods'[p], adm'[p])
         \/ SystemDisturbance]_allVars

\* Left alone, every cleanup that is due is done: deferred until the webhook is
\* reachable, repeated until no list, refresh or patch of it fails.
CleanupsFinish == Quiet => <>[](owed = {})

\* Left alone, the controller stops restarting workloads, although every
\* resync makes it sweep again.
RolloutsCease ==
    Quiet => <>[][~\E w \in Workloads : Patch(w)]_systemVars

\* Left alone, a pod at the wanted configuration also agrees with the BPF
\* rules on who generates its span metrics.
SpanMetricsSettle ==
    Quiet => <>[](missed = {} =>
                    \A p \in Slots :
                       Targeted(p) /\ Running(p) /\ Settled(p)
                          /\ IsInstrumented(pods[p].hash) =>
                       pods[p].skip
                          = BPFGeneratesSpanMetrics(WantAll, PodInfo[p][TRUE]))

\* Left alone, no running pod of a workload that can be rolled stays injected
\* when no ConfigMap selects it any more.
RemovalCleansUp ==
    Quiet => <>[](\A p \in Slots :
                     /\ Running(p) /\ WorkloadOf[p] # NoWorkload
                     /\ Meta[p].ns \notin ProtectedNamespaces
                     /\ IsInstrumented(pods[p].hash)
                     => Selected(p))

=============================================================================
