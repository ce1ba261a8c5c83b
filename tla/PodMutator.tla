----------------------------- MODULE PodMutator -----------------------------
(***************************************************************************)
(* What the mutating webhook writes into a pod: the payload volume, its    *)
(* mounts, the copy init container, and the env vars of each container;    *)
(* and how the controller settles on an injection mode when it boots.      *)
(*                                                                         *)
(* The order of env vars matters: kubelet expands $(VAR) from the vars     *)
(* declared before.  A value is a sequence of chunks, joined by commas; a  *)
(* chunk is a set of atoms, since resource attributes are sorted by key;   *)
(* an atom has an attribute key, the vars it references and its text.      *)
(***************************************************************************)
EXTENDS Integers, SequencesExt

\* Sequences, whatever their elements.
IsSeq(s) == s \in Seq(ToSet(s))

\* At most one element of the list has that name.
AtMostOne(s, name) ==
    \A i \in DOMAIN s : s[i].name = name =>
       \A j \in DOMAIN s : s[j].name = name => i = j

CONSTANTS
    Authored,       \* the pods as their authors write them
    RuleEnvs,       \* rule.Config.Env: sequences of env vars
    Configs,        \* SDK configurations, as the controller's file has them
    Servers,        \* the cluster's versions, in the order it is upgraded
    MaxAdmissions   \* how often a pod is mutated (bound)

ASSUME AdmissionsAssumption == MaxAdmissions \in Nat

\* The image is an image reference; nothing checks the mode.
ASSUME ConfigsAssumption ==
    \A raw \in Configs :
        /\ raw \in [image : STRING, useLabels : BOOLEAN, ip : BOOLEAN,
                    uid : BOOLEAN, debug : BOOLEAN, sdks : SUBSET STRING,
                    mode : STRING]
        /\ raw.image # "emptyDir"

VARIABLES
    author,     \* the pod as its author wrote it
    pod,        \* the pod as it is now
    admissions, \* how often it has been mutated
    server,     \* the cluster's version, an index of Servers
    sdk         \* pm.Cfg of the running controller

vars == <<author, pod, admissions, server, sdk>>

-----------------------------------------------------------------------------
(* The SDK configuration: defaults, and the injection mode.                *)

supportedSDKLangs == {"dotnet", "java", "nodejs", "python"}

\* No enabled_sdks in the file, as opposed to an empty list.
NilSDKs == {"nil"}

\* The default image repository is left to the image's name.
SetDefaults(cfg) ==
    [cfg EXCEPT !.mode = IF @ = "" THEN "auto" ELSE @,
                !.sdks = IF @ = NilSDKs THEN supportedSDKLangs ELSE @]

\* A component of the version is a number and what follows it.
Unusable == -1

parseVersionComponent(s) == IF s.rest \in {"", "+"} THEN s.number ELSE Unusable

\* The version as the two fields have it, else as gitVersion has it; <<>> if
\* neither can be read.
ParseServerVersion(info) ==
    LET fields == <<parseVersionComponent(info.major),
                    parseVersionComponent(info.minor)>>
    IN  IF Unusable \in ToSet(fields) THEN info.gitVersion ELSE fields

\* 1.35 is release 135.
Release(v) == 100 * v[1] + v[2]

\* A cluster is not downgraded, and tells its own version or none.
ASSUME ServersAssumption ==
    /\ IsSeq(Servers) /\ Servers # <<>>
    /\ \A i \in DOMAIN Servers :
          /\ Servers[i].version \in Nat \X Nat
          /\ ParseServerVersion(Servers[i].info) \in {<<>>, Servers[i].version}
    /\ \A i, j \in DOMAIN Servers :
          i <= j => Release(Servers[i].version) <= Release(Servers[j].version)

\* Mutant: one version too early.
SupportsImageVolumeSinceBeta(v) == v[1] > 1 \/ (v[1] = 1 /\ v[2] >= 34)

SupportsImageVolume(v) == v[1] > 1 \/ (v[1] = 1 /\ v[2] >= 35)

\* answers: the API server tells its version.
resolveInjectionMode(cfg, answers, info) ==
    LET v == ParseServerVersion(info)
        supported == answers /\ v # <<>> /\ SupportsImageVolume(v)
    IN  [cfg EXCEPT !.mode = IF @ # "auto" THEN @
                             ELSE IF supported THEN "image"
                             ELSE "init_container"]

usesInitContainer(cfg) == cfg.mode # "image"

-----------------------------------------------------------------------------
(* Values and env vars.                                                    *)

Atom(key, refs, text) == [key |-> key, refs |-> refs, text |-> text]

Lit(text) == IF text = "" THEN <<>> ELSE <<{Atom("", {}, text)}>>

Ref(name) == <<{Atom("", {name}, "")}>>

\* corev1.EnvVar: from is the field path of its ValueFrom, if any.
Var(name, value) == [name |-> name, value |-> value, from |-> ""]

FieldVar(name, path) == [name |-> name, value |-> <<>>, from |-> path]

\* A var has a value or a field to take it from.
IsVar(v) ==
    /\ v = [name |-> v.name, value |-> v.value, from |-> v.from]
    /\ IsSeq(v.value)
    /\ v.value = <<>> \/ v.from = ""

IsEnv(env) == IsSeq(env) /\ \A i \in DOMAIN env : IsVar(env[i])

ASSUME RuleEnvsAssumption == \A ruleEnv \in RuleEnvs : IsEnv(ruleEnv)

envVarLdPreloadName == "LD_PRELOAD"
envVarLdPreloadValue == Lit("libotelinject.so")
envInjectorOtelExtraResourceAttrs == "OTEL_INJECTOR_RESOURCE_ATTRIBUTES"
envInjectorOtelK8sNamespaceName == "OTEL_INJECTOR_K8S_NAMESPACE_NAME"
envInjectorOtelK8sPodName == "OTEL_INJECTOR_K8S_POD_NAME"
envInjectorOtelK8sPodUID == "OTEL_INJECTOR_K8S_POD_UID"
envOtelK8sNodeName == "OTEL_RESOURCE_ATTRIBUTES_NODE_NAME"
envOtelK8sPodIP == "OTEL_RESOURCE_ATTRIBUTES_POD_IP"
injectVolumeName == "otel-inject-instrumentation"
injectInitContainerName == "otel-sdk-inject"

\* Position of the first element of that name, 0 if there is none.
findByName(s, name) == SelectInSeq(s, LAMBDA e : e.name = name)

\* Replace the element of that name, or append.
Upsert(s, e) ==
    LET pos == findByName(s, e.name)
    IN  IF pos = 0 THEN Append(s, e) ELSE ReplaceAt(s, pos, e)

\* The list before and after each of the vars.
Applied(env, ruleEnv) ==
    LET applied[i \in 0 .. Len(ruleEnv)] ==
          IF i = 0 THEN env ELSE Upsert(applied[i - 1], ruleEnv[i])
    IN  applied

applyEnvVars(env, ruleEnv) == Applied(env, ruleEnv)[Len(ruleEnv)]

setEnvVarEvenIfEmpty(env, name, value) == Upsert(env, Var(name, value))

setEnvVar(env, name, value) ==
    IF value = <<>> THEN env ELSE setEnvVarEvenIfEmpty(env, name, value)

Without(env, name) ==
    LET pos == findByName(env, name)
    IN  IF pos = 0 THEN env ELSE RemoveAt(env, pos)

\* The position of the var, or the end of the list.
Place(env, name) ==
    LET pos == findByName(env, name)
    IN  IF pos = 0 THEN Len(env) + 1 ELSE pos

\* Mutant: the position of the combined attributes is not looked at.
setEnvVarFromFieldPathAnywhere(env, name, path) ==
    InsertAt(Without(env, name), Place(env, name), FieldVar(name, path))

\* Mutant: an existing var moves to the end or before the attributes.
setEnvVarFromFieldPathMoved(env, name, path) ==
    LET rest == Without(env, name)
    IN  InsertAt(rest, Place(rest, envInjectorOtelExtraResourceAttrs),
                 FieldVar(name, path))

\* The var goes where it was, but before the combined attributes.
setEnvVarFromFieldPath(env, name, path) ==
    LET rest == Without(env, name)
        pos == Place(env, name)
        attrs == Place(rest, envInjectorOtelExtraResourceAttrs)
    IN  InsertAt(rest, IF attrs < pos THEN attrs ELSE pos,
                 FieldVar(name, path))

-----------------------------------------------------------------------------
(* Resource attributes and service identity.                               *)

\* Kinds that name a resource attribute, in the order of chooseServiceName.
getResourceAttribute ==
    [Deployment  |-> "k8s.deployment.name",
     ReplicaSet  |-> "k8s.replicaset.name",
     StatefulSet |-> "k8s.statefulset.name",
     DaemonSet   |-> "k8s.daemonset.name",
     CronJob     |-> "k8s.cronjob.name",
     Job         |-> "k8s.job.name"]

ServiceNameKinds ==
    <<"Deployment", "ReplicaSet", "StatefulSet", "DaemonSet", "CronJob", "Job">>

\* A ReplicaSet name-hash belongs to Deployment name, a Job to a CronJob.
\* base is the owner's name up to its last dash, "" if it has none.
Parents == [ReplicaSet |-> "Deployment", Job |-> "CronJob"]

HasParent(ref) == ref.core /\ ref.kind \in DOMAIN Parents /\ ref.base # ""

Owner(kind, name) == [kind |-> kind, name |-> name]

\* The owners up to the first one with a parent, and that parent.
ownersFrom(meta) ==
    LET refs == [i \in DOMAIN meta.refs |->
                   Owner(meta.refs[i].kind, meta.refs[i].name)]
        first == SelectInSeq(meta.refs, HasParent)
    IN  IF refs = <<>> THEN <<Owner("Pod", meta.name)>>
        ELSE IF first = 0 THEN refs
        ELSE Append(SubSeq(refs, 1, first),
                    Owner(Parents[meta.refs[first].kind],
                          meta.refs[first].base))

\* Writing one map over another.
Updated(f, g) ==
    [k \in DOMAIN f \cup DOMAIN g |-> IF k \in DOMAIN g THEN g[k] ELSE f[k]]

\* Each kind's attribute names the last owner of that kind.
Labelled(owners) ==
    LET known == {i \in DOMAIN owners :
                    owners[i].kind \in DOMAIN getResourceAttribute}
        attribute(i) == getResourceAttribute[owners[i].kind]
    IN  [a \in {attribute(i) : i \in known} |->
           Atom("", {}, owners[Max({i \in known : attribute(i) = a})].name)]

\* With UIDs, the attribute of a kind is overwritten by the owner's UID.
addParentResourceLabels(meta, includeUID) ==
    LET uids == [i \in DOMAIN meta.refs |->
                   Owner(meta.refs[i].kind, meta.refs[i].uid)]
        named == Labelled(ownersFrom(meta))
    IN  IF includeUID THEN Updated(named, Labelled(uids)) ELSE named

Lookup(f, k) == IF k \in DOMAIN f THEN f[k] ELSE ""

\* The resource annotation, else the first label that is set.
chooseLabelOrAnnotation(meta, useLabels, res, labelKeys) ==
    LET first == SelectInSeq(labelKeys, LAMBDA k : Lookup(meta.labels, k) # "")
    IN  IF Lookup(meta.annotations, res) # ""
        THEN Lit(meta.annotations[res])
        ELSE IF useLabels /\ first # 0
        THEN Lit(meta.labels[labelKeys[first]])
        ELSE <<>>

chooseServiceName(meta, useLabels, podName, resources) ==
    LET chosen == chooseLabelOrAnnotation(meta, useLabels, "service.name",
                     <<"app.kubernetes.io/instance", "app.kubernetes.io/name">>)
        first == SelectInSeq(ServiceNameKinds,
                    LAMBDA k : getResourceAttribute[k] \in DOMAIN resources)
    IN  IF chosen # <<>> THEN chosen
        ELSE IF first # 0
        THEN <<{resources[getResourceAttribute[ServiceNameKinds[first]]]}>>
        ELSE podName

\* tag@digest, or the one that is there; nothing for an image without either
\* or one that cannot be parsed.
parseServiceVersionFromImage(image) ==
    IF image.valid THEN Lit(image.tag) \o Lit(image.digest) ELSE <<>>

chooseServiceVersion(meta, useLabels, image) ==
    LET chosen == chooseLabelOrAnnotation(meta, useLabels, "service.version",
                                          <<"app.kubernetes.io/version">>)
    IN  IF chosen # <<>> THEN chosen ELSE parseServiceVersionFromImage(image)

chooseServiceNamespace(meta, useLabels, namespaceName) ==
    LET chosen == chooseLabelOrAnnotation(meta, useLabels,
                                          "service.namespace", <<>>)
    IN  IF chosen # <<>> THEN chosen ELSE namespaceName

\* The annotation, else namespace.pod.container.
createServiceInstanceId(meta, containerName) ==
    IF Lookup(meta.annotations, "service.instance.id") # ""
    THEN Atom("", {}, meta.annotations["service.instance.id"])
    ELSE Atom("", {envInjectorOtelK8sNamespaceName, envInjectorOtelK8sPodName},
              containerName)

RefAtom(name) == Atom("", {name}, "")

\* The attributes of a container; the pod's annotations have the last word.
ExtraResourceAttributes(cfg, meta, c) ==
    LET owners == addParentResourceLabels(meta, cfg.uid)
        node == [k \in {"k8s.node.name"} |-> RefAtom(envOtelK8sNodeName)]
        ip == [k \in IF cfg.ip THEN {"k8s.pod.ip"} ELSE {} |->
                 RefAtom(envOtelK8sPodIP)]
        id == [k \in {"service.instance.id"} |->
                 createServiceInstanceId(meta, c.name)]
        annotated == [k \in DOMAIN meta.annotations |->
                        Atom("", {}, meta.annotations[k])]
    IN  Updated(Updated(Updated(Updated(owners, node), ip), id), annotated)

\* The downward-API vars, in their order.
setFieldVars(cfg, env) ==
    LET env1 == setEnvVarFromFieldPath(env, envInjectorOtelK8sNamespaceName,
                                       "metadata.namespace")
        env2 == setEnvVarFromFieldPath(env1, envInjectorOtelK8sPodName,
                                       "metadata.name")
        env3 == setEnvVarFromFieldPath(env2, envOtelK8sNodeName,
                                       "spec.nodeName")
        env4 == IF cfg.ip THEN setEnvVarFromFieldPath(env3, envOtelK8sPodIP,
                                                      "status.podIP")
                ELSE env3
    IN  IF cfg.uid THEN setEnvVarFromFieldPath(env4, envInjectorOtelK8sPodUID,
                                               "metadata.uid")
        ELSE env4

\* The service's namespace, name and version.
setServiceVars(cfg, meta, c, env) ==
    LET env1 == setEnvVar(env, "OTEL_INJECTOR_SERVICE_NAMESPACE",
                   chooseServiceNamespace(meta, cfg.useLabels,
                      Ref(envInjectorOtelK8sNamespaceName)))
        env2 == setEnvVar(env1, "OTEL_INJECTOR_SERVICE_NAME",
                   chooseServiceName(meta, cfg.useLabels,
                      Ref(envInjectorOtelK8sPodName),
                      addParentResourceLabels(meta, cfg.uid)))
    IN  setEnvVar(env2, "OTEL_INJECTOR_SERVICE_VERSION",
                  chooseServiceVersion(meta, cfg.useLabels, c.image))

\* Mutant: the service is named before the vars its name may refer to.
setResourceAttributesServiceFirst(cfg, meta, c, env) ==
    setFieldVars(cfg, setServiceVars(cfg, meta, c,
       setEnvVar(env, "OTEL_INJECTOR_K8S_CONTAINER_NAME", Lit(c.name))))

\* The env vars setResourceAttributes writes, in its order.
setResourceAttributes(cfg, meta, c, env) ==
    setServiceVars(cfg, meta, c, setFieldVars(cfg,
       setEnvVar(env, "OTEL_INJECTOR_K8S_CONTAINER_NAME", Lit(c.name))))

\* Mutant: the attributes replace what the rule or the author has set.
injectEnvVarsReplacing(env, attrs) ==
    setEnvVar(env, envInjectorOtelExtraResourceAttrs,
              <<{[attrs[k] EXCEPT !.key = k] : k \in DOMAIN attrs}>>)

\* Append the attributes to those the rule or the author has set.
injectEnvVars(env, attrs) ==
    LET perPodAttrs == {[attrs[k] EXCEPT !.key = k] : k \in DOMAIN attrs}
        pos == findByName(env, envInjectorOtelExtraResourceAttrs)
    IN  IF perPodAttrs = {} THEN env
        ELSE IF pos # 0 /\ env[pos].value # <<>>
        THEN [env EXCEPT ![pos].value = Append(@, perPodAttrs)]
        ELSE setEnvVar(env, envInjectorOtelExtraResourceAttrs, <<perPodAttrs>>)

configureContainerEnvVars(cfg, meta, c, env, spanMetricsSkip) ==
    LET skip == [k \in IF spanMetricsSkip THEN {"span.metrics.skip"} ELSE {} |->
                   Atom("", {}, "true")]
    IN  injectEnvVars(setResourceAttributes(cfg, meta, c, env),
                      Updated(ExtraResourceAttributes(cfg, meta, c), skip))

\* The var whose empty value turns a language off.
EnabledName ==
    [dotnet |-> "DOTNET_AUTO_INSTRUMENTATION_AGENT_PATH_PREFIX",
     java   |-> "JVM_AUTO_INSTRUMENTATION_AGENT_PATH",
     nodejs |-> "NODEJS_AUTO_INSTRUMENTATION_AGENT_PATH",
     python |-> "PYTHON_AUTO_INSTRUMENTATION_AGENT_PATH_PREFIX"]

disableUnless(cfg, lang, env) ==
    IF lang \in cfg.sdks THEN env
    ELSE setEnvVarEvenIfEmpty(env, EnabledName[lang], <<>>)

disableUndesiredSDKs(cfg, env) ==
    disableUnless(cfg, "python", disableUnless(cfg, "nodejs",
       disableUnless(cfg, "java", disableUnless(cfg, "dotnet", env))))

\* The vars that are the same for every pod.
FixedVars(cfg) ==
    <<Var(envVarLdPreloadName, envVarLdPreloadValue),
      Var("OTEL_INJECTOR_CONFIG_FILE", Lit("otelinject.conf")),
      Var("OTEL_SEMCONV_STABILITY_OPT_IN", Lit("http"))>>
    \o (IF cfg.debug THEN <<Var("OTEL_INJECTOR_LOG_LEVEL", Lit("debug"))>>
        ELSE <<>>)

\* The rule's vars, then the fixed ones, then those of the pod.
addEnvVars(cfg, meta, c, ruleEnv, spanMetricsSkip) ==
    LET fixed == applyEnvVars(applyEnvVars(c.env, ruleEnv), FixedVars(cfg))
    IN  disableUndesiredSDKs(cfg,
           configureContainerEnvVars(cfg, meta, c, fixed, spanMetricsSkip))

-----------------------------------------------------------------------------
(* Volume, mounts, init container.                                         *)

Image(version) == [valid |-> TRUE, tag |-> version, digest |-> ""]

\* An emptyDir in init-container mode, else the image itself.
buildVolumeDefinition(cfg) ==
    [name |-> injectVolumeName,
     source |-> IF usesInitContainer(cfg) THEN "emptyDir" ELSE cfg.image]

\* Mutant: a volume of that name is taken to be the right one.
mountVolumeOnce(cfg, volumes) ==
    IF findByName(volumes, injectVolumeName) # 0 THEN volumes
    ELSE Append(volumes, buildVolumeDefinition(cfg))

mountVolume(cfg, volumes) == Upsert(volumes, buildVolumeDefinition(cfg))

Mount(readOnly) == [name |-> injectVolumeName, readOnly |-> readOnly]

\* Mutant: an earlier mount is not looked for.
addMountAgain(c) == Append(c.mounts, Mount(TRUE))

addMount(c) == Upsert(c.mounts, Mount(TRUE))

instrumentContainer(cfg, meta, c, ruleEnv, spanMetricsSkip) ==
    [c EXCEPT !.mounts = addMount(c),
              !.env = addEnvVars(cfg, meta, c, ruleEnv, spanMetricsSkip)]

addCopyInitContainerIfNeeded(cfg, inits) ==
    IF ~usesInitContainer(cfg) THEN inits
    ELSE Upsert(inits, [name |-> injectInitContainerName,
                        image |-> Image(cfg.image), env |-> <<>>,
                        mounts |-> <<Mount(FALSE)>>])

IsContainer(c) ==
    /\ c = [name |-> c.name, image |-> c.image, env |-> c.env,
            mounts |-> c.mounts]
    /\ IsEnv(c.env)
    /\ IsSeq(c.mounts) /\ AtMostOne(c.mounts, injectVolumeName)

IsPod(p) ==
    /\ p = [meta |-> p.meta, volumes |-> p.volumes,
            containers |-> p.containers, inits |-> p.inits, stamp |-> p.stamp]
    /\ IsSeq(p.volumes) /\ AtMostOne(p.volumes, injectVolumeName)
    /\ IsSeq(p.inits)
    /\ \A n \in DOMAIN p.containers : IsContainer(p.containers[n])

\* No two volumes of a pod have the same name, and no author mounts the
\* payload's volume twice.
ASSUME AuthoredAssumption == \A p \in Authored : IsPod(p)

-----------------------------------------------------------------------------
(* The webhook, for a pod that a rule selects.                             *)

isLDPreloadConflict(c) ==
    LET pos == findByName(c.env, envVarLdPreloadName)
    IN  pos # 0 /\ c.env[pos].value \notin {<<>>, envVarLdPreloadValue}

PreloadsSomethingElse(p) ==
    \/ \E i \in DOMAIN p.containers : isLDPreloadConflict(p.containers[i])
    \/ \E i \in DOMAIN p.inits : isLDPreloadConflict(p.inits[i])

\* The digest covers the rule's env and the image.
PodConfigHash(cfg, ruleEnv) == <<ruleEnv, cfg.image>>

\* The pod after Default has mutated and stamped it.
Mutated(p, cfg, ruleEnv, spanMetricsSkip) ==
    [p EXCEPT !.volumes = mountVolume(cfg, @),
              !.containers =
                 [i \in DOMAIN @ |-> instrumentContainer(cfg, p.meta, @[i],
                                        ruleEnv, spanMetricsSkip)],
              !.inits = addCopyInitContainerIfNeeded(cfg, @),
              !.stamp = PodConfigHash(cfg, ruleEnv)]

Booted(raw, answers) ==
    resolveInjectionMode(SetDefaults(raw), answers, Servers[server].info)

Init ==
    /\ author \in Authored
    /\ pod = author
    /\ admissions = 0
    /\ server = 1
    /\ \E raw \in Configs, answers \in BOOLEAN : sdk = Booted(raw, answers)

\* The controller starts again, with another configuration or the same.
Boot(raw, answers) ==
    /\ sdk' = Booted(raw, answers)
    /\ UNCHANGED <<author, pod, admissions, server>>

\* The cluster is upgraded under the running controller.
ServerUpgrade ==
    /\ server < Len(Servers)
    /\ server' = server + 1
    /\ UNCHANGED <<author, pod, admissions, sdk>>

Skips(ruleEnv) ==
    pod.stamp = PodConfigHash(sdk, ruleEnv) \/ PreloadsSomethingElse(pod)

\* The pod, as its author wrote it or as an earlier admission left it, is
\* created and mutated.
Default(ruleEnv, spanMetricsSkip) ==
    /\ admissions < MaxAdmissions
    /\ ~Skips(ruleEnv)
    /\ pod' = Mutated(pod, sdk, ruleEnv, spanMetricsSkip)
    /\ admissions' = admissions + 1
    /\ UNCHANGED <<author, server, sdk>>

\* It is up to date, or preloads something else, and is left alone.
DefaultSkips(ruleEnv) == Skips(ruleEnv) /\ UNCHANGED vars

Next ==
    \/ \E raw \in Configs, answers \in BOOLEAN : Boot(raw, answers)
    \/ ServerUpgrade
    \/ \E ruleEnv \in RuleEnvs :
          \/ \E spanMetricsSkip \in BOOLEAN : Default(ruleEnv, spanMetricsSkip)
          \/ DefaultSkips(ruleEnv)

Spec == Init /\ [][Next]_vars

-----------------------------------------------------------------------------
(* Properties.                                                             *)

Names(s) == {s[i].name : i \in DOMAIN s}

\* kubelet expands a reference of var i to r.
Resolves(env, i, r) == \E j \in 1 .. i - 1 : env[j].name = r

Refs(value) ==
    UNION {UNION {a.refs : a \in value[i]} : i \in DOMAIN value}

Injected == admissions > 0

\* Whatever vars the author and the rule have put where, kubelet can expand
\* every reference in the attributes that the last mutation has added.
AttributesResolve ==
    Injected =>
        \A n \in DOMAIN pod.containers :
            LET env == pod.containers[n].env
                pos == findByName(env, envInjectorOtelExtraResourceAttrs)
            IN  /\ pos # 0
                /\ \A r \in UNION {a.refs : a \in Last(env[pos].value)} :
                      Resolves(env, pos, r)

\* No mutation breaks a reference that worked, in a var that is listed once:
\* the vars setEnvVarFromFieldPath moves never end up behind their consumers,
\* the combined attributes neither before what they use nor behind what uses
\* them.
ReferencesKept ==
    [][pod' # pod =>
         \A n \in DOMAIN pod.containers :
            LET old == pod.containers[n].env
                new == pod'.containers[n].env
            IN  \A i \in DOMAIN old, j \in DOMAIN new :
                  old[i].name = new[j].name /\ AtMostOne(old, old[i].name) =>
                  \A r \in Refs(old[i].value) \cap Refs(new[j].value) :
                     Resolves(old, i, r) => Resolves(new, j, r)]_vars

\* What an env list says of each name, the order aside.
View(env) ==
    [x \in Names(env) |-> [value |-> env[findByName(env, x)].value,
                           from |-> env[findByName(env, x)].from]]

\* What instrumenting the container from nothing, without a rule, sets.
Own(cfg, c, skip) ==
    View(addEnvVars(cfg, pod.meta, [c EXCEPT !.env = <<>>], <<>>, skip))

\* The env vars the container should have: the mutator's own before the
\* rule's (the last of each name) before those it had, the attributes added to
\* the others'.
Merged(cfg, c, ruleEnv, skip) ==
    LET base == Updated(View(c.env), View(Reverse(ruleEnv)))
        own == Own(cfg, c, skip)
        joined == [x \in DOMAIN base \cap {envInjectorOtelExtraResourceAttrs} |->
                     [value |-> base[x].value \o own[x].value, from |-> ""]]
    IN  Updated(Updated(base, own), joined)

\* A mutation merges three sources, in whatever order their vars are listed:
\* none is lost, none is listed twice, and precedence is the mutator's own
\* vars, then the rule's, then the author's.
EnvMerges ==
    [][pod' # pod =>
         \E ruleEnv \in RuleEnvs, skip \in BOOLEAN :
            /\ pod'.stamp = PodConfigHash(sdk, ruleEnv)
            /\ \A n \in DOMAIN pod.containers :
                  LET c == pod.containers[n]
                      new == pod'.containers[n].env
                  IN  /\ View(new) = Merged(sdk, c, ruleEnv, skip)
                      /\ Len(new) = Len(c.env)
                            + Cardinality(Names(new) \ Names(c.env))]_vars

\* The list has e, and nothing else of that name.
OnlyOne(s, e) ==
    \E i \in DOMAIN s :
        s[i] = e /\ \A j \in DOMAIN s : s[j].name = e.name => j = i

Payload(source) == [name |-> injectVolumeName, source |-> source]

\* The digest does not lie: a pod stamped with an SDK image gets that image's
\* payload, from one volume, mounted once and read-only in every container,
\* and filled by a copy of that image if it is an emptyDir; also when it was
\* stamped with another image, or in another mode, before.
PayloadMatchesStamp ==
    Injected =>
        LET image == pod.stamp[2]
            copier == findByName(pod.inits, injectInitContainerName)
        IN  /\ \/ OnlyOne(pod.volumes, Payload(image))
               \/ /\ OnlyOne(pod.volumes, Payload("emptyDir"))
                  /\ copier # 0
                  /\ pod.inits[copier].image = Image(image)
                  /\ OnlyOne(pod.inits[copier].mounts, Mount(FALSE))
            /\ \A n \in DOMAIN pod.containers :
                  OnlyOne(pod.containers[n].mounts, Mount(TRUE))

\* A volume of the payload that is not an image volume can be mounted by any
\* cluster.  Unless its configuration asks for image volumes, a pod is given
\* one only where the cluster has them, from 1.35 on: also when the cluster is
\* upgraded or the controller restarted in between, the API server fails to
\* answer, or reports its version in another way.
PayloadMountable ==
    Injected =>
        \/ OnlyOne(pod.volumes, Payload("emptyDir"))
        \/ \E raw \in Configs : raw.image = pod.stamp[2] /\ raw.mode = "image"
        \/ Release(Servers[server].version) >= 135

\* Whatever is listed before it, a var that the mutator itself adds to a
\* container, the service's name and namespace among them, refers only to vars
\* declared further up.
AddedVarsResolve ==
    [][pod' # pod =>
         \A n \in DOMAIN pod.containers :
            LET new == pod'.containers[n].env
                listed == Names(pod.containers[n].env) \cup Names(pod'.stamp[1])
            IN  \A j \in DOMAIN new : new[j].name \notin listed =>
                   \A r \in Refs(new[j].value) : Resolves(new, j, r)]_vars

\* The list, the pod, without the values of combined attributes.
Blank(env) ==
    [i \in DOMAIN env |->
       IF env[i].name = envInjectorOtelExtraResourceAttrs
       THEN Var(env[i].name, <<>>) ELSE env[i]]

ButAttributes(p) ==
    [p EXCEPT !.containers =
       [n \in DOMAIN @ |-> [@[n] EXCEPT !.env = Blank(p.containers[n].env)]]]

\* The writes of a mutation are idempotent and in place, whatever it found in
\* the pod: made once more, they change nothing and move nothing, but append
\* to the combined attributes.
WritesIdempotent ==
    [][pod' # pod =>
         \A skip \in BOOLEAN :
            ButAttributes(Mutated(pod', sdk, pod'.stamp[1], skip))
               = ButAttributes(pod')]_vars

=============================================================================
