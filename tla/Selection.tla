----------------------------- MODULE Selection -----------------------------
(***************************************************************************)
(* The decisions the injection controller takes from data alone: which     *)
(* rule of the registry a pod matches, which configuration it should       *)
(* carry, what the webhook, the rollout sweep and the state gauge make of  *)
(* it, and what one selector ConfigMap contributes to the registry.        *)
(* Nothing here has state; Reconciler and Injector apply these operators.  *)
(*                                                                         *)
(* Data is abstracted to what the decisions tell apart:                    *)
(*  - a ConfigMap key "namespace/name" is a number, ordered as the strings *)
(*    are (Registry.Match sorts them);                                     *)
(*  - a glob list is the set of names it matches, {} when it is not set;   *)
(*  - a rule's env list is one opaque value, and the FNV digest of a       *)
(*    configuration is the tuple of what is digested (no collisions).      *)
(***************************************************************************)
EXTENDS Integers, Sequences, FiniteSets

CONSTANTS
    CMKeys,           \* keys of the ConfigMaps in the watched namespace
    NodeNames,        \* names of the cluster's nodes
    Absent,           \* "there is none": a missing object, key or annotation
    Malformed,        \* a YAML document that does not unmarshal
    Images,           \* SDK image versions; "" means not set
    Envs,             \* env lists of rules
    Selectors,        \* k8s_selector values that occur in rules
    RestartEntries,   \* decoded entries of eligible_for_restart.yaml
    DefaultImage,     \* DefaultSDKConfig.ImageVersion ("" when not configured)
    Slots,            \* pods that may exist, one slot per pod of a workload
    Meta,             \* Meta[p]: the metadata and spec of the pod in slot p
    ReplicaSets,      \* <<namespace, name>> |-> owner references of that RS
    ProtectedNamespaces

ASSUME KeysAreOrdered == CMKeys \subseteq Nat

ASSUME ImagesIncludeUnset == "" \in Images /\ DefaultImage \in Images

ASSUME NodeNamesAreNotEmpty == "" \notin NodeNames

ASSUME SlotsAreFinite == IsFiniteSet(Slots)

-----------------------------------------------------------------------------
(* What the controller reads.                                              *)

Modes == {"", "skip"}

Rules == [sel : Selectors, mode : Modes, env : Envs]

BPFConfigs == [spanMetrics : BOOLEAN, rules : Seq(Rules)]

InjectConfigs == [image : Images, rules : Seq(Rules), bpf : BPFConfigs]

\* A selector ConfigMap: marked is the presence of the annotation, node its
\* value ("" for a selector that belongs to no node); config and restart are
\* the decoded values of the two data keys, Absent when the key is missing.
ConfigMaps ==
    [marked  : BOOLEAN,
     node    : NodeNames \cup {""},
     config  : InjectConfigs \cup {Absent, Malformed},
     restart : Seq(RestartEntries) \cup {Absent, Malformed}]

ASSUME AbsentIsNoValue ==
    Absent \notin InjectConfigs /\ Absent \notin ConfigMaps

NoMatch == Absent

NoWorkload == Absent

-----------------------------------------------------------------------------
(* podinfo: the owner chain of a pod.                                      *)

FirstIndex(I) == CHOOSE i \in I : \A j \in I : i <= j

LastIndex(I) == CHOOSE i \in I : \A j \in I : j <= i

controllerRef(refs) ==
    LET controllers == {i \in DOMAIN refs : refs[i].controller}
    IN  IF controllers # {} THEN refs[FirstIndex(controllers)]
        ELSE IF refs # <<>> THEN refs[1]
        ELSE Absent

\* The Deployment above a ReplicaSet, if there is one. found is FALSE when the
\* lookup of the ReplicaSet fails: the chain is truncated there, exactly as
\* when the ReplicaSet does not exist.
DeploymentAbove(ns, rs, found) ==
    IF ~found \/ <<ns, rs>> \notin DOMAIN ReplicaSets THEN Absent
    ELSE LET above == controllerRef(ReplicaSets[<<ns, rs>>])
         IN  IF above = Absent THEN Absent
             ELSE IF above.kind # "Deployment" THEN Absent
             ELSE [kind |-> "Deployment", name |-> above.name]

\* Resolve, for the metadata m of a pod that carries the name name.
Resolve(m, name, found) ==
    LET self  == [kind |-> "Pod", name |-> name]
        owner == controllerRef(m.refs)
        link  == [kind |-> owner.kind, name |-> owner.name]
        top   == IF owner.kind = "ReplicaSet"
                 THEN DeploymentAbove(m.ns, owner.name, found) ELSE Absent
    IN  [ns |-> m.ns, labels |-> m.labels,
         chain |-> IF owner = Absent THEN <<self>>
                   ELSE IF top = Absent THEN <<self, link>>
                   ELSE <<self, link, top>>]

\* The labels a pod is counted under: its top-most owner.
Workload(info) == info.chain[Len(info.chain)]

\* The API server assigns the name of a pod created with generateName after
\* admission: the webhook sees such a pod without a name.
AdmissionName(m) == IF m.generated THEN "" ELSE m.name

\* What the sweep and the gauge see of the pod in slot p, and what the webhook
\* sees of it.
PodInfo == [p \in Slots |-> [found \in BOOLEAN |->
               Resolve(Meta[p], Meta[p].name, found)]]

AdmissionInfo == [p \in Slots |-> [found \in BOOLEAN |->
                     Resolve(Meta[p], AdmissionName(Meta[p]), found)]]

-----------------------------------------------------------------------------
(* registry: first match over the contributions of all ConfigMaps.         *)

\* K8sSelector.Match: every populated field must match; names and kinds are
\* tested on the links of the owner chain; a selector with no field at all
\* matches nothing.
SelectorMatch(sel, info) ==
    /\ \/ sel.namespaces # {} \/ sel.ownerNames # {}
       \/ sel.ownerKinds # {} \/ sel.podLabels # {}
    /\ sel.namespaces # {} => info.ns \in sel.namespaces
    /\ (sel.ownerNames # {} \/ sel.ownerKinds # {}) =>
          \E i \in DOMAIN info.chain :
             /\ sel.ownerNames # {} => info.chain[i].name \in sel.ownerNames
             /\ sel.ownerKinds # {} => info.chain[i].kind \in sel.ownerKinds
    /\ sel.podLabels \subseteq info.labels

\* The positions of the rules whose selector matches.
MatchingRules(rules, info) ==
    {i \in DOMAIN rules : SelectorMatch(rules[i].sel, info)}

MatchingKeys(R, info) ==
    {k \in CMKeys : R[k] # Absent /\ MatchingRules(R[k].rules, info) # {}}

\* Registry.Match on registry contents R: ConfigMaps in key order, rules in
\* list order, the first hit decides, and a skip rule decides for "no match".
\* A match is the rule and the image version of the ConfigMap it comes from.
Match(R, info) ==
    LET keys == MatchingKeys(R, info)
    IN  IF keys = {} THEN NoMatch
        ELSE LET cfg  == R[FirstIndex(keys)]
                 rule == cfg.rules[FirstIndex(MatchingRules(cfg.rules, info))]
             IN  IF rule.mode = "skip" THEN NoMatch
                 ELSE [rule |-> rule, image |-> cfg.image]

BPFKeys(R, info) ==
    {k \in CMKeys : /\ R[k] # Absent
                    /\ R[k].bpf.spanMetrics
                    /\ MatchingRules(R[k].bpf.rules, info) # {}}

\* Registry.BPFGeneratesSpanMetrics: the same walk over the BPF rules.
BPFGeneratesSpanMetrics(R, info) ==
    LET keys == BPFKeys(R, info)
    IN  /\ keys # {}
        /\ LET rules == R[FirstIndex(keys)].bpf.rules
           IN  rules[FirstIndex(MatchingRules(rules, info))].mode # "skip"

-----------------------------------------------------------------------------
(* config: the effective SDK configuration and its digest.                 *)

\* WithConfigMapOverrides, reduced to the one field it overrides.
EffectiveImage(match) ==
    IF match.image # "" THEN match.image ELSE DefaultImage

PodConfigHash(image, rule) == <<rule.mode, rule.env, image>>

WantedHash(match) == PodConfigHash(EffectiveImage(match), match.rule)

Hashes == Modes \X Envs \X Images

\* The value of the InjectedAnnotation: Absent when there is none, <<>> for
\* an annotation whose value is the empty string.
Annotations == Hashes \cup {Absent, <<>>}

IsInstrumentedWithWantedConfig(hash, want) == hash = want

IsInstrumented(hash) == hash # Absent /\ hash # <<>>

envVarLdPreloadValue == "libotelinject.so"

isLDPreloadConflict(value) == value \notin {"", envVarLdPreloadValue}

\* m.preloads: the values LD_PRELOAD has in the containers and init containers
\* of the pod's template. Injection never adds a foreign one.
PreloadsSomethingElse(m) ==
    \E value \in m.preloads : isLDPreloadConflict(value)

-----------------------------------------------------------------------------
(* parseConfigMap: the payload of a ConfigMap.                             *)

RestartKinds == {"Deployment", "ReplicaSet", "StatefulSet", "DaemonSet"}

\* sortEligible compares entries through their pointers: a nil entry of a
\* list with at least two entries is dereferenced before nil is looked for.
Panics(cm) ==
    /\ cm.config # Malformed
    /\ cm.restart \notin {Absent, Malformed}
    /\ Len(cm.restart) > 1
    /\ \E i \in DOMAIN cm.restart : cm.restart[i] = Absent

ParseFails(cm) == cm.config = Malformed \/ cm.restart = Malformed

NoConfig == [image |-> "", rules |-> <<>>,
             bpf |-> [spanMetrics |-> FALSE, rules |-> <<>>]]

\* The Instrumentation of a payload that parses.
ParsedConfig(cm) == IF cm.config = Absent THEN NoConfig ELSE cm.config

\* The restart targets of a payload that parses: complete entries of a
\* known kind.
RestartTargets(cm) ==
    IF cm.restart = Absent THEN {}
    ELSE {e \in {cm.restart[i] : i \in DOMAIN cm.restart} :
             /\ e # Absent
             /\ e.ns # ""
             /\ e.kind \in RestartKinds}

\* Reconcile's cleanupOnly: a config without a single install rule.
CleanupOnly(cm) ==
    /\ cm.config # Absent
    /\ \A i \in DOMAIN cm.config.rules : cm.config.rules[i].mode = "skip"

\* What Registry.Set and Registry.Replace keep of an Instrumentation: an
\* empty rule list is the same as no entry.
Stored(cfg) == IF cfg.rules = <<>> THEN Absent ELSE cfg

-----------------------------------------------------------------------------
(* rolloutMatching: the workloads a sweep restarts.                        *)

RolloutKinds == {"Deployment", "StatefulSet", "DaemonSet"}

\* The highest owner in the chain that can be rolled.
resolveWorkload(info) ==
    LET links == {i \in DOMAIN info.chain :
                     info.chain[i].kind \in RolloutKinds}
    IN  IF links = {} THEN NoWorkload
        ELSE LET top == info.chain[LastIndex(links)]
             IN  [ns |-> info.ns, kind |-> top.kind, name |-> top.name]

matchesTarget(info, t) ==
    \E i \in DOMAIN info.chain :
        /\ info.chain[i].kind = t.kind
        /\ t.name = "" \/ t.name = info.chain[i].name

matchesAnyTarget(info, targets) ==
    \E t \in targets : t.ns = info.ns /\ matchesTarget(info, t)

\* Mutant: a cleanup restarts every injected pod, selected or not.
NeedsRolloutIfInjected(R, m, hash, info, cleanup) ==
    IF cleanup \/ Match(R, info) = NoMatch THEN IsInstrumented(hash)
    ELSE /\ EffectiveImage(Match(R, info)) # ""
         /\ ~IsInstrumentedWithWantedConfig(hash, WantedHash(Match(R, info)))
         /\ ~PreloadsSomethingElse(m)

\* Mutant: pods with an LD_PRELOAD of their own are not spared.
NeedsRolloutDespitePreload(R, m, hash, info, cleanup) ==
    LET match == Match(R, info)
    IN  IF match = NoMatch THEN IsInstrumented(hash)
        ELSE /\ ~cleanup
             /\ EffectiveImage(match) # ""
             /\ ~IsInstrumentedWithWantedConfig(hash, WantedHash(match))

\* Mutant: only a cleanup takes instrumentation away.
NeedsRolloutToInstrument(R, m, hash, info, cleanup) ==
    LET match == Match(R, info)
    IN  IF match = NoMatch THEN cleanup /\ IsInstrumented(hash)
        ELSE /\ ~cleanup
             /\ EffectiveImage(match) # ""
             /\ ~IsInstrumentedWithWantedConfig(hash, WantedHash(match))
             /\ ~PreloadsSomethingElse(m)

\* The per-pod decision of the sweep, for annotation value hash.
NeedsRollout(R, m, hash, info, cleanup) ==
    LET match == Match(R, info)
    IN  IF match = NoMatch THEN IsInstrumented(hash)
        ELSE /\ ~cleanup
             /\ EffectiveImage(match) # ""
             /\ ~IsInstrumentedWithWantedConfig(hash, WantedHash(match))
             /\ ~PreloadsSomethingElse(m)

\* The pods of P (slot |-> pod or Absent) that a sweep acts on; found[p] says
\* whether the ReplicaSet lookup for p succeeds. A cleanup sweep looks at the
\* injected pods of the cluster, any other at the pods of its targets.
Rollable(R, P, targets, cleanup, found) ==
    {p \in Slots :
        /\ P[p] # Absent
        /\ ~P[p].terminating
        /\ Meta[p].ns \notin ProtectedNamespaces
        /\ Meta[p].refs # <<>>
        /\ IF cleanup THEN IsInstrumented(P[p].hash)
                      ELSE matchesAnyTarget(PodInfo[p][found[p]], targets)
        /\ NeedsRollout(R, Meta[p], P[p].hash, PodInfo[p][found[p]],
                        cleanup)}

\* One entry per workload, however many of its pods ask for a rollout.
SweepWorkloads(R, P, targets, cleanup, found) ==
    {resolveWorkload(PodInfo[p][found[p]]) :
        p \in Rollable(R, P, targets, cleanup, found)} \ {NoWorkload}

-----------------------------------------------------------------------------
(* The webhook's answer and the state gauge, on the same predicates.       *)

\* PodCustomDefaulter.Default up to the mutation, for annotation value hash.
DefaultOutcome(R, m, hash, info) ==
    LET match == Match(R, info)
    IN  IF match = NoMatch THEN "no_matching_selector"
        ELSE IF EffectiveImage(match) = "" THEN "no_sdk_config"
        ELSE IF IsInstrumentedWithWantedConfig(hash, WantedHash(match))
             THEN "already_instrumented"
        ELSE IF PreloadsSomethingElse(m) THEN "ld_preload_conflict"
        ELSE "success"

\* Mutant: a foreign LD_PRELOAD is looked for first.
classifyConflictFirst(R, m, hash, info) ==
    LET match == Match(R, info)
    IN  IF match = NoMatch THEN "unmatched"
        ELSE IF PreloadsSomethingElse(m) THEN "skipped"
        ELSE IF IsInstrumentedWithWantedConfig(hash, WantedHash(match))
             THEN "instrumented"
        ELSE "pending_restart"

\* PodStateCollector.classify.
classify(R, m, hash, info) ==
    LET match == Match(R, info)
    IN  IF match = NoMatch THEN "unmatched"
        ELSE IF IsInstrumentedWithWantedConfig(hash, WantedHash(match))
             THEN "instrumented"
        ELSE IF PreloadsSomethingElse(m) THEN "skipped"
        ELSE "pending_restart"

systemNamespaces == {"kube-system", "kube-node-lease", "kube-public"}

\* The labels the pod of slot p is counted under, for a pod in the state s (the
\* node's name aside).
labelTuple(R, p, s, found) ==
    [ns |-> Meta[p].ns, workload |-> Workload(PodInfo[p][found]),
     status |-> classify(R, Meta[p], s.hash, PodInfo[p][found])]

\* How many slots have each label; labels is a function on the counted slots.
Tally(labels) ==
    [t \in {labels[p] : p \in DOMAIN labels} |->
        Cardinality({p \in DOMAIN labels : labels[p] = t})]

\* Mutant: pods that are being deleted are counted too.
CollectLeaving(R, P, found) ==
    Tally([p \in {q \in Slots : P[q] # Absent} |->
              labelTuple(R, p, P[p], found[p])])

\* PodStateCollector.Collect: how many pods of P there are per label tuple.
Collect(R, P, found) ==
    Tally([p \in {q \in Slots : /\ P[q] # Absent
                                /\ ~P[q].terminating
                                /\ Meta[q].ns \notin systemNamespaces} |->
              labelTuple(R, p, P[p], found[p])])

=============================================================================
