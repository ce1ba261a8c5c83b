----------------------------- MODULE Reconciler -----------------------------
(***************************************************************************)
(* The ConfigMap controller: watch events fill a work queue, one worker    *)
(* reconciles one key at a time, keeps the in-memory registry in step with *)
(* the selector ConfigMaps and the nodes they belong to, and patches       *)
(* workloads so that their pods pass through admission again.              *)
(*                                                                         *)
(* cms and nodes are the contents of the informer caches, which is all the *)
(* controller ever reads.  A ConfigMap event is put on the queue in the    *)
(* step that changes the cache; a Node event waits in nodeEvents until its *)
(* handler has listed the ConfigMaps.  A reconcile is cut into the steps   *)
(* between which the caches may change: each read of a cache, each write   *)
(* of the registry and each patch is a step of its own.                    *)
(***************************************************************************)
EXTENDS Selection

CONSTANTS
    Writes,           \* Writes[k]: the values ConfigMap k may be given
    PodStates,        \* the states a pod may be in (Absent aside)
    Faults,           \* what may fail: API calls, the process
    NoAutoRestart,    \* DefaultSDKConfig.NoAutoRestart
    WebhookChecked    \* WebhookReady and WebhookServiceAddr are configured

ASSUME WritesAreConfigMaps ==
    \A k \in CMKeys : Writes[k] \subseteq ConfigMaps \cup {Absent}

VARIABLES
    cms,          \* ConfigMap cache: key |-> ConfigMap or Absent
    nodes,        \* Node cache: name |-> "absent", "ready" or "terminating"
    nodeEvents,   \* nodes with an event whose handler has not run yet
    queue,        \* keys ready to be reconciled (a key being processed may
                  \* be added again)
    waiting,      \* keys to be added again after a back-off or RequeueAfter
    registry,     \* Registry.instruments: key |-> InjectConfig or Absent
    up,           \* the webhook listens and its Service is routable
    pods,         \* Pod cache: slot |-> pod or Absent
    outdated,     \* slots whose workload template changed since their pod
                  \* was created
    pc,           \* where the worker is
    key,          \* the key it reconciles
    got,          \* what its Get of the ConfigMap returned
    listed,       \* refreshRegistry: the List of ConfigMaps
    todo,         \* refreshRegistry: listed keys not looked at yet
    instruments,  \* refreshRegistry: the snapshot being built
    toRestart,    \* rolloutMatching: workloads still to be patched
    failed,       \* an error this reconcile will return
    missed,       \* history: keys changed by an event that reached no queue
    moved         \* history: no rollouts are under way, or a ConfigMap or
                  \* Node has changed since they began

cluster == <<cms, nodes, up>>
events  == <<nodeEvents, queue, waiting, missed>>
podVars == <<pods, outdated>>
refresh == <<listed, todo, instruments, moved>>
worker  == <<pc, key, got, toRestart, failed>>
vars    == <<cluster, events, podVars, refresh, worker, registry>>

NodeStates == {"absent", "ready", "terminating"}

Empty == [k \in CMKeys |-> Absent]

NoKey == Absent

-----------------------------------------------------------------------------
(* What the registry should hold.                                          *)

hasSelectorAnnotation(cm) == cm # Absent /\ cm.marked

NodeEligible(cm, ns) == cm.node # "" => ns[cm.node] = "ready"

\* The entry of an annotated ConfigMap whose node is eligible.
LoadedEntry(cm) == IF ParseFails(cm) THEN Absent ELSE Stored(ParsedConfig(cm))

\* The entry a ConfigMap deserves, given the nodes.
Contribution(cm, ns) ==
    IF hasSelectorAnnotation(cm) /\ NodeEligible(cm, ns)
    THEN LoadedEntry(cm) ELSE Absent

Want(k) == Contribution(cms[k], nodes)

\* The keys configMapsForNode returns for node n.
ConfigMapsForNode(n) ==
    {k \in CMKeys : hasSelectorAnnotation(cms[k]) /\ cms[k].node = n}

Annotated(objects) == {k \in CMKeys : hasSelectorAnnotation(objects[k])}

\* Whether the reconcile at hand sweeps for cleanup: the ConfigMap is gone,
\* or its config has no install rule.
Cleaning == IF got = Absent THEN TRUE ELSE CleanupOnly(got)

SweepTargets == IF got = Absent THEN {} ELSE RestartTargets(got)

-----------------------------------------------------------------------------
(* The state right after the process has started: nothing loaded, the      *)
(* informers deliver every annotated ConfigMap and every Node.             *)

WorkerIdle ==
    /\ pc = "idle" /\ key = NoKey /\ got = Absent
    /\ toRestart = {} /\ failed = FALSE

RefreshIdle ==
    /\ listed = Empty /\ todo = {} /\ instruments = Empty /\ moved = TRUE

Init ==
    /\ cms \in {c \in [CMKeys -> UNION {Writes[k] : k \in CMKeys}] :
                   \A k \in CMKeys : c[k] \in Writes[k]}
    /\ nodes \in [NodeNames -> NodeStates]
    /\ nodeEvents = {n \in NodeNames : nodes[n] # "absent"}
    /\ queue = Annotated(cms) /\ waiting = {} /\ missed = {}
    /\ registry = Empty
    /\ up = FALSE
    /\ pods \in [Slots -> PodStates \cup {Absent}]
    /\ outdated = {}
    /\ WorkerIdle /\ RefreshIdle

-----------------------------------------------------------------------------
(* The world around the controller.                                        *)

\* ConfigMap k is created, updated or deleted. The watch's predicate looks at
\* the new object, or at the last known one for a deletion: an update that
\* takes the annotation away is filtered.
WriteCM(k, v) ==
    /\ v \in Writes[k] /\ v # cms[k]
    /\ cms' = [cms EXCEPT ![k] = v]
    /\ LET object == IF v = Absent THEN cms[k] ELSE v
       IN  IF hasSelectorAnnotation(object)
           THEN queue' = queue \cup {k} /\ missed' = missed \ {k}
           ELSE /\ queue' = queue
                /\ missed' = IF hasSelectorAnnotation(cms[k])
                             THEN missed \cup {k} ELSE missed
    /\ moved' = TRUE
    /\ UNCHANGED <<nodes, up, nodeEvents, waiting, podVars,
                   listed, todo, instruments, worker, registry>>

\* Mutant: a deletion timestamp on a node is no event.
WriteNodeUnnoticed(n, s) ==
    /\ <<nodes[n], s>> \in {<<"absent", "ready">>, <<"ready", "terminating">>,
                            <<"ready", "absent">>, <<"terminating", "absent">>}
    /\ nodes' = [nodes EXCEPT ![n] = s]
    /\ nodeEvents' = IF s = "terminating" THEN nodeEvents
                     ELSE nodeEvents \cup {n}
    /\ moved' = TRUE
    /\ UNCHANGED <<cms, up, queue, waiting, missed, podVars,
                   listed, todo, instruments, worker, registry>>

\* A node joins, is marked for deletion or leaves: the transitions the Node
\* watch's predicate lets through.
WriteNode(n, s) ==
    /\ <<nodes[n], s>> \in {<<"absent", "ready">>, <<"ready", "terminating">>,
                            <<"ready", "absent">>, <<"terminating", "absent">>}
    /\ nodes' = [nodes EXCEPT ![n] = s]
    /\ nodeEvents' = nodeEvents \cup {n}
    /\ moved' = TRUE
    /\ UNCHANGED <<cms, up, queue, waiting, missed, podVars,
                   listed, todo, instruments, worker, registry>>

\* The handler of the Node watch.
HandleNodeEvent(n) ==
    /\ n \in nodeEvents
    /\ nodeEvents' = nodeEvents \ {n}
    /\ queue' = queue \cup ConfigMapsForNode(n)
    /\ missed' = missed \ ConfigMapsForNode(n)
    /\ UNCHANGED <<cluster, waiting, podVars, refresh, worker, registry>>

\* Its List fails: the error is logged and the event is gone.
HandleNodeEventFails(n) ==
    /\ "nodeList" \in Faults
    /\ n \in nodeEvents
    /\ nodeEvents' = nodeEvents \ {n}
    /\ missed' = missed \cup ConfigMapsForNode(n)
    /\ UNCHANGED <<cluster, queue, waiting, podVars, refresh, worker, registry>>

\* Mutant: updates that change nothing are filtered.
ResyncFiltered(k) ==
    /\ hasSelectorAnnotation(cms[k])
    /\ UNCHANGED vars

\* The informer's periodic resync delivers an update event for a ConfigMap
\* that has not changed.
Resync(k) ==
    /\ hasSelectorAnnotation(cms[k])
    /\ queue' = queue \cup {k}
    /\ missed' = missed \ {k}
    /\ UNCHANGED <<cluster, nodeEvents, waiting, podVars, refresh, worker,
                   registry>>

\* The delay of a retry has passed.
Fire(k) ==
    /\ k \in waiting
    /\ waiting' = waiting \ {k}
    /\ queue' = queue \cup {k}
    /\ UNCHANGED <<cluster, nodeEvents, missed, podVars, refresh, worker,
                   registry>>

\* The webhook starts to serve, or stops being reachable.
WebhookUp ==
    /\ ~up
    /\ up' = TRUE
    /\ UNCHANGED <<cms, nodes, events, podVars, refresh, worker, registry>>

WebhookDown ==
    /\ up
    /\ up' = FALSE
    /\ UNCHANGED <<cms, nodes, events, podVars, refresh, worker, registry>>

\* A pod is created, changes or goes away by other hands; a pod created anew
\* comes from the current template.
PodStep(p) ==
    /\ \E s \in PodStates \cup {Absent} : pods' = [pods EXCEPT ![p] = s]
    /\ outdated' \in {outdated, outdated \ {p}}
    /\ UNCHANGED <<cluster, events, refresh, worker, registry>>

\* The process dies and starts again. Only the cluster survives.
Restart ==
    /\ "crash" \in Faults
    /\ nodeEvents' = {n \in NodeNames : nodes[n] # "absent"}
    /\ queue' = Annotated(cms) /\ waiting' = {} /\ missed' = {}
    /\ registry' = Empty
    /\ up' = FALSE
    /\ pc' = "idle" /\ key' = NoKey /\ got' = Absent
    /\ toRestart' = {} /\ failed' = FALSE
    /\ listed' = Empty /\ todo' = {} /\ instruments' = Empty /\ moved' = TRUE
    /\ UNCHANGED <<cms, nodes, podVars>>

-----------------------------------------------------------------------------
(* The worker. A reconcile ends by returning (nothing is put back) or by   *)
(* asking for a retry, with an error or with RequeueAfter; a panic is      *)
(* recovered by controller-runtime and counts as an error.                 *)

WorkerDone ==
    /\ pc' = "idle" /\ key' = NoKey /\ got' = Absent
    /\ toRestart' = {} /\ failed' = FALSE
    /\ listed' = Empty /\ todo' = {} /\ instruments' = Empty /\ moved' = TRUE

Return == WorkerDone /\ waiting' = waiting

Retry == WorkerDone /\ waiting' = waiting \cup {key}

GoTo(label) == pc' = label /\ UNCHANGED <<key, refresh, waiting, nodeEvents>>

\* Take a key from the queue and Get its ConfigMap.
Begin(k) ==
    /\ pc = "idle" /\ k \in queue
    /\ queue' = queue \ {k}
    /\ missed' = missed \ {k}
    /\ key' = k
    /\ got' = cms[k]
    /\ pc' = IF hasSelectorAnnotation(cms[k]) THEN "node" ELSE "drop"
    /\ UNCHANGED <<cluster, nodeEvents, waiting, podVars, refresh, toRestart,
                   failed, registry>>

\* The Get fails with something else than NotFound.
BeginFails(k) ==
    /\ "getCM" \in Faults
    /\ pc = "idle" /\ k \in queue
    /\ queue' = queue \ {k}
    /\ waiting' = waiting \cup {k}
    /\ UNCHANGED <<cluster, nodeEvents, missed, podVars, refresh, worker,
                   registry>>

\* stateNodeEligible.
CheckNode ==
    /\ pc = "node"
    /\ GoTo(IF NodeEligible(got, nodes) THEN "load" ELSE "drop")
    /\ UNCHANGED <<cluster, queue, missed, podVars, got, toRestart, failed,
                   registry>>

\* Mutant: the error is swallowed.
CheckNodeFailsSilently ==
    /\ "getNode" \in Faults
    /\ pc = "node" /\ got.node # ""
    /\ GoTo("drop")
    /\ UNCHANGED <<cluster, queue, missed, podVars, got, toRestart, failed,
                   registry>>

\* The Get of the Node fails: the entry is dropped and the error returned.
CheckNodeFails ==
    /\ "getNode" \in Faults
    /\ pc = "node" /\ got.node # ""
    /\ GoTo("drop")
    /\ failed' = TRUE
    /\ UNCHANGED <<cluster, queue, missed, podVars, got, toRestart, registry>>

\* Registry.Delete: the ConfigMap is gone (the sweep for cleanup follows),
\* has lost its annotation, or its node is not eligible.
Drop ==
    /\ pc = "drop"
    /\ registry' = [registry EXCEPT ![key] = Absent]
    /\ IF got = Absent THEN GoTo("gate") /\ UNCHANGED <<got, toRestart, failed>>
       ELSE IF failed THEN Retry /\ UNCHANGED nodeEvents
       ELSE Return /\ UNCHANGED nodeEvents
    /\ UNCHANGED <<cluster, queue, missed, podVars>>

\* An invalid payload: ignored, and what was loaded before is dropped.
LoadInvalid ==
    /\ pc = "load" /\ ParseFails(got)
    /\ registry' = [registry EXCEPT ![key] = Absent]
    /\ Return
    /\ UNCHANGED <<cluster, queue, missed, nodeEvents, podVars>>

\* Mutant: a panic ends the reconcile as if nothing were left to do.
LoadPanicsForGood ==
    /\ pc = "load" /\ Panics(got)
    /\ Return
    /\ UNCHANGED <<cluster, queue, missed, nodeEvents, podVars, registry>>

\* A panic of sortEligible.
LoadPanics ==
    /\ pc = "load" /\ Panics(got)
    /\ Retry
    /\ UNCHANGED <<cluster, queue, missed, nodeEvents, podVars, registry>>

\* Mutant: an entry that is there already is kept.
LoadKeepsEntry ==
    /\ pc = "load" /\ ~ParseFails(got) /\ ~Panics(got)
    /\ registry' = [registry EXCEPT ![key] =
                       IF @ = Absent THEN Stored(ParsedConfig(got)) ELSE @]
    /\ IF ~Cleaning /\ SweepTargets = {}
       THEN Return /\ UNCHANGED nodeEvents
       ELSE GoTo("gate") /\ UNCHANGED <<got, toRestart, failed>>
    /\ UNCHANGED <<cluster, queue, missed, podVars>>

\* Registry.Set, then a sweep if there is something to sweep for.
Load ==
    /\ pc = "load" /\ ~ParseFails(got) /\ ~Panics(got)
    /\ registry' = [registry EXCEPT ![key] = Stored(ParsedConfig(got))]
    /\ IF ~Cleaning /\ SweepTargets = {}
       THEN Return /\ UNCHANGED nodeEvents
       ELSE GoTo("gate") /\ UNCHANGED <<got, toRestart, failed>>
    /\ UNCHANGED <<cluster, queue, missed, podVars>>

\* reconcileRollouts: nothing to do, too early, or on to the sweep, which a
\* cleanup precedes by a refresh of the registry.
GateOff ==
    /\ pc = "gate" /\ NoAutoRestart
    /\ Return
    /\ UNCHANGED <<cluster, queue, missed, nodeEvents, podVars, registry>>

\* Mutant: the entry is taken back until the sweep can run.
GateDefersUnloading ==
    /\ pc = "gate" /\ ~NoAutoRestart /\ WebhookChecked /\ ~up
    /\ registry' = [registry EXCEPT ![key] = Absent]
    /\ Retry
    /\ UNCHANGED <<cluster, queue, missed, nodeEvents, podVars>>

\* Mutant: the sweep is given up.
GateDefersForGood ==
    /\ pc = "gate" /\ ~NoAutoRestart /\ WebhookChecked /\ ~up
    /\ Return
    /\ UNCHANGED <<cluster, queue, missed, nodeEvents, podVars, registry>>

GateDefers ==
    /\ pc = "gate" /\ ~NoAutoRestart /\ WebhookChecked /\ ~up
    /\ Retry
    /\ UNCHANGED <<cluster, queue, missed, nodeEvents, podVars, registry>>

\* Mutant: a cleanup sweeps on whatever the registry holds.
GatePassesUnrefreshed ==
    /\ pc = "gate" /\ ~NoAutoRestart /\ (WebhookChecked => up)
    /\ pc' = "sweep"
    /\ moved' = FALSE
    /\ UNCHANGED <<cluster, events, podVars, listed, todo, instruments, key,
                   got, toRestart, failed, registry>>

GatePasses ==
    /\ pc = "gate" /\ ~NoAutoRestart /\ (WebhookChecked => up)
    /\ pc' = IF Cleaning THEN "refresh" ELSE "sweep"
    /\ moved' = FALSE
    /\ UNCHANGED <<cluster, events, podVars, listed, todo, instruments, key,
                   got, toRestart, failed, registry>>

\* Mutant: ConfigMaps without the annotation are looked at too.
RefreshListAll ==
    /\ pc = "refresh"
    /\ pc' = "filter"
    /\ listed' = cms /\ todo' = CMKeys /\ instruments' = Empty
    /\ UNCHANGED <<cluster, events, podVars, moved, key, got, toRestart,
                   failed, registry>>

\* refreshRegistry: List, then look at one ConfigMap after the other, then
\* replace the contents of the registry.
RefreshList ==
    /\ pc = "refresh"
    /\ pc' = "filter"
    /\ listed' = cms /\ todo' = Annotated(cms) /\ instruments' = Empty
    /\ UNCHANGED <<cluster, events, podVars, moved, key, got, toRestart,
                   failed, registry>>

RefreshOne(k) ==
    /\ pc = "filter" /\ k \in todo
    /\ ~(NodeEligible(listed[k], nodes) /\ Panics(listed[k]))
    /\ todo' = todo \ {k}
    /\ instruments' = [instruments EXCEPT ![k] =
          IF NodeEligible(listed[k], nodes) /\ ~ParseFails(listed[k])
          THEN ParsedConfig(listed[k]) ELSE Absent]
    /\ UNCHANGED <<cluster, events, podVars, worker, listed, moved, registry>>

RefreshPanics(k) ==
    /\ pc = "filter" /\ k \in todo
    /\ NodeEligible(listed[k], nodes) /\ Panics(listed[k])
    /\ Retry
    /\ UNCHANGED <<cluster, queue, missed, nodeEvents, podVars, registry>>

\* The List or the Get of a Node fails: the registry keeps what it had.
RefreshFails ==
    /\ \/ pc = "refresh" /\ "listCM" \in Faults
       \/ /\ pc = "filter" /\ "getNode" \in Faults
          /\ \E k \in todo : listed[k].node # ""
    /\ Retry
    /\ UNCHANGED <<cluster, queue, missed, nodeEvents, podVars, registry>>

\* What Registry.Replace keeps of an entry of the snapshot.
StoredEntry(entry) == IF entry = Absent THEN Absent ELSE Stored(entry)

\* Registry.Replace.
Replace ==
    /\ pc = "filter" /\ todo = {}
    /\ registry' = [k \in CMKeys |-> StoredEntry(instruments[k])]
    /\ GoTo("sweep")
    /\ UNCHANGED <<cluster, queue, missed, podVars, got, toRestart, failed>>

\* rolloutMatching: list pods, decide, then patch one workload after the
\* other. Only the worker writes the registry, so the decision is one step.
Lookups ==
    IF "rs" \in Faults THEN [Slots -> BOOLEAN] ELSE [Slots -> {TRUE}]

Sweep ==
    /\ pc = "sweep"
    /\ \E found \in Lookups :
          toRestart' = SweepWorkloads(registry, pods, SweepTargets, Cleaning,
                                      found)
    /\ GoTo("patch")
    /\ UNCHANGED <<cluster, queue, missed, podVars, got, failed, registry>>

\* The List of pods fails: only a cleanup is tried again.
SweepFails ==
    /\ "listPods" \in Faults
    /\ pc = "sweep"
    /\ IF Cleaning THEN Retry ELSE Return
    /\ UNCHANGED <<cluster, queue, missed, nodeEvents, podVars, registry>>

\* The workload that owns the pod of slot p in the cluster.
WorkloadOf == [p \in Slots |-> resolveWorkload(PodInfo[p][TRUE])]

PodsOf(w) == {p \in Slots : WorkloadOf[p] = w}

Workloads == {WorkloadOf[p] : p \in Slots} \ {NoWorkload}

\* Mutant: the marker has the value of the last rollout, nothing changes.
PatchSameMarker(w) ==
    /\ pc = "patch" /\ w \in toRestart
    /\ toRestart' = toRestart \ {w}
    /\ UNCHANGED <<cluster, events, podVars, refresh, pc, key, got, failed,
                   registry>>

\* The template of workload w changes: its pods are to be replaced.
Patch(w) ==
    /\ pc = "patch" /\ w \in toRestart
    /\ toRestart' = toRestart \ {w}
    /\ outdated' = outdated \cup PodsOf(w)
    /\ UNCHANGED <<cluster, events, pods, refresh, pc, key, got, failed,
                   registry>>

PatchFails(w) ==
    /\ "patch" \in Faults
    /\ pc = "patch" /\ w \in toRestart
    /\ toRestart' = toRestart \ {w}
    /\ failed' = TRUE
    /\ UNCHANGED <<cluster, events, podVars, refresh, pc, key, got, registry>>

\* Mutant: a cleanup is repeated whether it failed or not.
SweepDoneAgain ==
    /\ pc = "patch" /\ toRestart = {}
    /\ IF Cleaning THEN Retry ELSE Return
    /\ UNCHANGED <<cluster, queue, missed, nodeEvents, podVars, registry>>

\* Errors of a sweep are returned, and so retried, only for a cleanup.
SweepDone ==
    /\ pc = "patch" /\ toRestart = {}
    /\ IF failed /\ Cleaning THEN Retry ELSE Return
    /\ UNCHANGED <<cluster, queue, missed, nodeEvents, podVars, registry>>

-----------------------------------------------------------------------------
\* The steps the worker takes once it has a key and no call fails.
Work ==
    \/ CheckNode \/ Drop \/ LoadInvalid \/ LoadPanics \/ Load
    \/ GateOff \/ GateDefers \/ GatePasses
    \/ RefreshList \/ Replace
    \/ \E k \in CMKeys : RefreshOne(k) \/ RefreshPanics(k)
    \/ Sweep \/ SweepDone
    \/ \E w \in Workloads : Patch(w)

Failure ==
    \/ \E k \in CMKeys : BeginFails(k)
    \/ \E n \in NodeNames : HandleNodeEventFails(n)
    \/ \E w \in Workloads : PatchFails(w)
    \/ CheckNodeFails \/ RefreshFails \/ SweepFails

\* What may go on forever in a cluster nobody changes.
Routine ==
    \/ \E k \in CMKeys : Begin(k) \/ Fire(k) \/ Resync(k)
    \/ \E n \in NodeNames : HandleNodeEvent(n)
    \/ Work
    \/ WebhookUp

Change ==
    \/ \E k \in CMKeys : \E v \in Writes[k] : WriteCM(k, v)
    \/ \E n \in NodeNames, s \in NodeStates : WriteNode(n, s)

Disturbance == Change \/ Failure \/ Restart \/ WebhookDown

Next == Routine \/ Disturbance \/ \E p \in Slots : PodStep(p)

Spec == Init /\ [][Next]_vars

\* The work queue hands out every key in turn, the worker does not stop, the
\* delays of retries end and handlers run.
Fairness ==
    /\ \A k \in CMKeys : SF_vars(Begin(k)) /\ WF_vars(Fire(k))
    /\ \A n \in NodeNames : WF_vars(HandleNodeEvent(n))
    /\ WF_vars(Work)

FairSpec == Spec /\ Fairness

-----------------------------------------------------------------------------
PCs == {"idle", "node", "load", "drop", "gate", "refresh", "filter", "sweep",
        "patch"}

Entries == InjectConfigs \cup {Absent}

Objects == ConfigMaps \cup {Absent}

\* Type correctness of the reconciler's state: caches, queues, registry and
\* the locals of the reconcile in progress.
TypeOK ==
    /\ cms \in [CMKeys -> Objects]
    /\ nodes \in [NodeNames -> NodeStates]
    /\ nodeEvents \subseteq NodeNames
    /\ queue \subseteq CMKeys /\ waiting \subseteq CMKeys
    /\ missed \subseteq CMKeys
    /\ registry \in [CMKeys -> Entries]
    /\ up \in BOOLEAN
    /\ pods \in [Slots -> PodStates \cup {Absent}]
    /\ outdated \subseteq Slots
    /\ pc \in PCs
    /\ got \in Objects
    /\ pc # "idle" => key \in CMKeys
    /\ pc \in {"node", "load"} => got \in ConfigMaps
    /\ listed \in [CMKeys -> Objects]
    /\ todo \subseteq Annotated(listed)
    /\ instruments \in [CMKeys -> Entries]
    /\ toRestart \subseteq Workloads
    /\ failed \in BOOLEAN /\ moved \in BOOLEAN

\* Work that will bring the entry of k up to date is queued: the key itself,
\* or a Node event whose handler will queue it.
Pending(k) ==
    \/ k \in queue \cup waiting
    \/ hasSelectorAnnotation(cms[k]) /\ cms[k].node \in nodeEvents

\* The registry never silently lags behind the caches: whatever ConfigMaps,
\* nodes and the process itself do between the steps of a reconcile, an entry
\* that differs from what its ConfigMap deserves has work pending for it, is
\* being rewritten by the reconcile at hand, or belongs to a ConfigMap whose
\* change was filtered or lost on the way to the queue (missed).
RegistryCurrent ==
    \A k \in CMKeys :
        \/ registry[k] = Want(k)
        \/ Pending(k)
        \/ k \in missed
        \/ k = key /\ pc \in {"node", "load", "drop"}

\* Keys whose entry need not be what their ConfigMap deserves.
ExcusedKeys ==
    {k \in CMKeys : \/ Pending(k)
                    \/ k \in missed
                    \/ k = key /\ pc \in {"node", "load", "drop"}}

\* The registry the ConfigMaps and nodes, as they are now, deserve.
WantAll == [k \in CMKeys |-> Want(k)]

Cache == INSTANCE RuleCache WITH
            Keys <- CMKeys, Values <- Entries, None <- Absent,
            want <- WantAll, have <- registry, excused <- ExcusedKeys

\* The controller implements the rule cache its readers are promised: beyond
\* RegistryCurrent, no step of a reconcile, not even the replacement of the
\* whole registry by a snapshot taken earlier, disturbs an entry that is right
\* and has no work pending for it.
ImplementsCache == Cache!Spec

\* A cleanup sweep decides on exactly the rules of the moment, on a registry
\* that was empty a moment ago (a cold start) and with earlier events lost
\* all the same, unless a ConfigMap or Node has changed since it began.
SnapshotExact ==
    pc \in {"sweep", "patch"} /\ Cleaning /\ ~moved =>
        \A k \in CMKeys : registry[k] = Want(k)

\* A rule of the ConfigMaps, as they are now, selects the pod of slot p.
Selected(p) == Match(WantAll, PodInfo[p][TRUE]) # NoMatch

SweepStep == pc = "sweep" /\ pc' = "patch"

\* A cleanup sweep schedules a workload only for an injected pod of it that
\* no current rule selects, even when ReplicaSet lookups fail and truncate
\* owner chains.
CleanupProtects ==
    [][SweepStep /\ Cleaning /\ ~moved =>
         \A w \in toRestart' :
            \E p \in PodsOf(w) : /\ pods[p] # Absent
                                 /\ IsInstrumented(pods[p].hash)
                                 /\ ~Selected(p)]_vars

\* The annotation the pod of slot p would carry if it were created now and
\* its admission were decided on registry contents R.
Readmitted(R, p) ==
    LET info == AdmissionInfo[p][TRUE]
    IN  IF DefaultOutcome(R, Meta[p], Meta[p].stamp, info) = "success"
        THEN WantedHash(Match(R, info)) ELSE Meta[p].stamp

\* The rules select the pod of slot p alike with and without the name that a
\* pod created with generateName does not have at its admission.
NamedAlike(p) ==
    Match(registry, AdmissionInfo[p][TRUE])
       = Match(registry, PodInfo[p][TRUE])

\* No rollout is in vain: the sweep and the webhook decide apart from each
\* other, on different views of the pod, yet a sweep schedules a workload only
\* for a pod whose re-admission would change what it carries, unless its
\* selection hangs on a generated name.
SweepsAreUseful ==
    [][SweepStep =>
         \A w \in toRestart' :
            \E p \in PodsOf(w) :
                /\ pods[p] # Absent
                /\ NamedAlike(p) => Readmitted(registry, p) # pods[p].hash]_vars

\* A pod in slot p with annotation hash carries what the current ConfigMaps
\* ask for: the wanted configuration if a rule selects it and the webhook can
\* apply it, nothing if no rule does.
SettledWith(p, hash) ==
    LET match == Match(WantAll, PodInfo[p][TRUE])
    IN  IF match = NoMatch THEN ~IsInstrumented(hash)
        ELSE EffectiveImage(match) # "" /\ ~PreloadsSomethingElse(Meta[p]) =>
                hash = WantedHash(match)

Settled(p) == SettledWith(p, pods[p].hash)

\* The pod of slot p is one the sweep at hand has to look at.
InReach(p) ==
    /\ pods[p] # Absent /\ ~pods[p].terminating
    /\ Meta[p].ns \notin ProtectedNamespaces
    /\ IF Cleaning THEN IsInstrumented(pods[p].hash) /\ ~Selected(p)
       ELSE matchesAnyTarget(PodInfo[p][TRUE], SweepTargets)

\* On a registry that holds what the ConfigMaps deserve, a sweep schedules
\* exactly the workloads with a pod in its reach that does not carry what they
\* ask for: a failing lookup may hide a workload, but brings up no other.
SweepsAreExact ==
    [][SweepStep /\ registry = WantAll =>
         LET due == {WorkloadOf[p] :
                        p \in {q \in Slots : InReach(q) /\ ~Settled(q)}}
                      \ {NoWorkload}
         IN  /\ toRestart' \subseteq due
             /\ "rs" \notin Faults => due \subseteq toRestart']_vars

\* No sweep schedules the workload of pods that all carry what the ConfigMaps
\* ask for.
SweepsSpareSettled ==
    [][SweepStep =>
         \A w \in toRestart' :
            \E p \in PodsOf(w) : pods[p] # Absent /\ ~Settled(p)]_vars

\* The state the gauge should show for a pod the webhook would answer so.
GaugeStatus ==
    [no_matching_selector |-> "unmatched",
     already_instrumented |-> "instrumented",
     ld_preload_conflict  |-> "skipped",
     success              |-> "pending_restart"]

\* The running pods outside the system namespaces.
Live == {p \in Slots : /\ pods[p] # Absent /\ ~pods[p].terminating
                       /\ Meta[p].ns \notin systemNamespaces}

Answer(p) ==
    DefaultOutcome(registry, Meta[p], pods[p].hash, AdmissionInfo[p][TRUE])

\* What a scrape yields, when no lookup fails.
Scrape == Collect(registry, pods, [p \in Slots |-> TRUE])

\* The sum of the gauge over some of its series.
Total(gauge, series) ==
    Cardinality(UNION {{t} \X (1 .. gauge[t]) : t \in series})

SeriesOf(gauge, w, status) ==
    {t \in DOMAIN gauge : /\ t.ns = w.ns
                          /\ t.workload = [kind |-> w.kind, name |-> w.name]
                          /\ t.status = status}

\* At any moment of a change of rules, the state gauge, which classifies the
\* pods in the cache, counts each live pod once, under the workload the sweep
\* would restart for it and under what the webhook would answer if it saw the
\* pod now, as long as an SDK image is configured for it and its selection
\* does not hang on a generated name.
GaugeAgrees ==
    LET gauge == Scrape
    IN  /\ Total(gauge, DOMAIN gauge) = Cardinality(Live)
        /\ \A w \in Workloads, outcome \in DOMAIN GaugeStatus :
              Total(gauge, SeriesOf(gauge, w, GaugeStatus[outcome]))
                 >= Cardinality({p \in Live \cap PodsOf(w) :
                                    NamedAlike(p) /\ Answer(p) = outcome})

\* What the reconcile at hand has read of ConfigMap k is what the caches hold.
LocalsRight(k) ==
    /\ k = key =>
         /\ pc \in {"node", "load"} => got = cms[k]
         /\ pc = "load" => NodeEligible(got, nodes)
         /\ pc = "drop" => Want(k) = Absent
    /\ pc = "filter" => IF k \in todo THEN listed[k] = cms[k]
                        ELSE StoredEntry(instruments[k]) = Want(k)

\* The reconcile at hand is about to write the entry of k.
Rewriting(k) ==
    /\ k = key
    /\ pc = "drop" \/ (pc \in {"node", "load"} /\ ~Panics(got))

\* The entry of k is right, or about to be made right, and nothing read
\* earlier is going to replace it by something else.
Right(k) == (registry[k] = Want(k) \/ Rewriting(k)) /\ LocalsRight(k)

\* The worker takes k from the queue.
Taken(k) ==
    /\ pc = "idle" /\ pc' # "idle" /\ key' = k
    /\ pc' = "node" => ~Panics(got')

\* From the moment a key is taken from the queue, its entry is right or about
\* to be, and only a new change, a failing call or a restart ends that: no
\* reconcile of another key, panic, retry or refresh of the whole registry in
\* between does.
RightUntilDisturbed ==
    [][\A k \in CMKeys :
          ~Right(k)' /\ (Right(k) \/ Taken(k)) => Disturbance]_vars

\* A reconcile of k can only panic.
Unloadable(k) ==
    /\ hasSelectorAnnotation(cms[k]) /\ NodeEligible(cms[k], nodes)
    /\ Panics(cms[k])

\* In a cluster left alone, the registry comes to hold exactly what the
\* ConfigMaps deserve, and stays so; one that makes each of its reconciles
\* panic does not keep the others from it.
RegistryConverges ==
    <>[][~Disturbance]_vars =>
        <>[](\A k \in CMKeys :
                registry[k] = Want(k) \/ k \in missed \/ Unloadable(k))

\* What a failing handler of a Node event loses is made up for: if informers
\* go on to resync, however rarely, only a ConfigMap whose annotation was taken
\* away in place stays out of step for good.
RegistryRecovers ==
    (\A k \in CMKeys : WF_vars(Resync(k))) /\ <>[][~Disturbance]_vars =>
        <>[](\A k \in CMKeys :
                \/ registry[k] = Want(k) \/ Unloadable(k)
                \/ k \in missed /\ ~hasSelectorAnnotation(cms[k]))

\* A panic is recovered and counts as an error: such a ConfigMap is tried
\* again and again, without a resync and without end, and never given up.
PanicsAreRetried ==
    <>[][~Disturbance]_vars =>
        \A k \in CMKeys :
           []<>(Unloadable(k) => k \in missed \/ (pc = "load" /\ key = k))

\* The same without an excuse: the registry follows the annotated ConfigMaps.
RegistryInSync ==
    <>[][~Disturbance]_vars => <>[](\A k \in CMKeys : registry[k] = Want(k))

=============================================================================
