---------------------------- MODULE MCPodMutator ----------------------------
(***************************************************************************)
(* Instances of PodMutator for TLC: a pod with one container, whose env    *)
(* list is any arrangement of a few vars that get in the mutator's way.    *)
(***************************************************************************)
EXTENDS PodMutator

CONSTANT MaxEnv     \* how many env vars the author sets (bound)

Attr(key, refs) == Atom(key, refs, "x")

\* Vars with names of the mutator's own, vars that use them, the combined
\* attributes with an input of theirs.
AuthorVars ==
    {Var("REGION", Lit("eu")),
     Var(envInjectorOtelExtraResourceAttrs, <<{Attr("region", {"REGION"})}>>),
     Var("ALL", Ref(envInjectorOtelExtraResourceAttrs)),
     Var(envInjectorOtelK8sPodName, Lit("mine")),
     Var("WHO", Ref(envInjectorOtelK8sPodName))}

\* Any arrangement of them, someone else's LD_PRELOAD, and a name listed twice.
AuthorEnvs ==
    {<<Var(envVarLdPreloadName, Lit("libjemalloc.so"))>>,
     <<Var("WHO", Ref(envInjectorOtelK8sPodName)),
       Var(envInjectorOtelK8sPodName, Lit("mine")),
       Var("WHO", Ref(envInjectorOtelK8sPodName)),
       Var(envInjectorOtelK8sPodName, Lit("yours"))>>}
    \cup
    UNION {{e \in [1 .. n -> AuthorVars] :
              \A i, j \in 1 .. n : e[i].name = e[j].name => i = j} :
           n \in 0 .. MaxEnv}

OwnerRef(kind, name, base) ==
    [kind |-> kind, name |-> name, base |-> base, uid |-> "uid", core |-> TRUE]

Meta(refs, labels, annotations) ==
    [name |-> "pod", refs |-> refs, labels |-> labels,
     annotations |-> annotations]

\* A pod of a Deployment, and a bare one with labels and annotations.
Metas ==
    {Meta(<<OwnerRef("ReplicaSet", "web-1", "web")>>, <<>>, <<>>),
     Meta(<<>>, "app.kubernetes.io/name" :> "app",
          "service.instance.id" :> "id")}

AppImage == [valid |-> TRUE, tag |-> "1.0", digest |-> ""]

PodOf(meta, env) ==
    [meta |-> meta, volumes |-> <<[name |-> "data", source |-> "pvc"]>>,
     containers |-> <<[name |-> "app", image |-> AppImage, env |-> env,
                       mounts |-> <<[name |-> "data", readOnly |-> FALSE]>>]>>,
     inits |-> <<>>, stamp |-> <<>>]

MCAuthored == {PodOf(m, e) : m \in Metas, e \in AuthorEnvs}

\* No env; static attributes with their input; vars that collide with the
\* mutator's own, one of them twice.
MCRuleEnvs ==
    {<<>>,
     <<Var("TEAM", Lit("a")),
       Var(envInjectorOtelExtraResourceAttrs, <<{Attr("team", {"TEAM"})}>>)>>,
     <<Var(envVarLdPreloadName, Lit("rule.so")),
       Var("OTEL_INJECTOR_SERVICE_NAME", Lit("rule")),
       Var("REGION", Lit("us")), Var("REGION", Lit("ap")),
       Var(envOtelK8sNodeName, Lit("rule"))>>}

Cfg(image, mode, more, sdks) ==
    [image |-> image, mode |-> mode,
     useLabels |-> more, ip |-> more, uid |-> more, debug |-> more,
     sdks |-> sdks]

\* Two versions; the mode given and left to the cluster, options off and on,
\* languages left out and listed.
MCConfigs ==
    {Cfg("v1", "image", FALSE, NilSDKs),
     Cfg("v2", "", TRUE, {"dotnet", "nodejs", "python"})}

Component(number, rest) == [number |-> number, rest |-> rest]

\* 1.34, with the suffix some providers add, and 1.35, which only gitVersion
\* tells.
MCServers ==
    <<[version |-> <<1, 34>>,
       info |-> [major |-> Component(1, ""), minor |-> Component(34, "+"),
                 gitVersion |-> <<1, 34>>]],
      [version |-> <<1, 35>>,
       info |-> [major |-> Component(0, "?"), minor |-> Component(0, "?"),
                 gitVersion |-> <<1, 35>>]]>>

=============================================================================
