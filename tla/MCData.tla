------------------------------- MODULE MCData -------------------------------
(***************************************************************************)
(* The small values the TLC instances are built from: selectors, rules,    *)
(* ConfigMaps, pods.                                                       *)
(***************************************************************************)
EXTENDS Selection, TLC

\* Selectors: everything in namespace "app"; the StatefulSet "db"; the
\* Deployment "web". Only SelPod tests the name of a pod.
SelAll == [namespaces |-> {"app"}, ownerNames |-> {}, ownerKinds |-> {},
           podLabels |-> {}]
SelDb  == [namespaces |-> {}, ownerNames |-> {"db"},
           ownerKinds |-> {"StatefulSet"}, podLabels |-> {}]
SelWeb == [namespaces |-> {}, ownerNames |-> {"web"},
           ownerKinds |-> {"Deployment"}, podLabels |-> {}]

SelPod == [namespaces |-> {}, ownerNames |-> {"web-1-a"}, ownerKinds |-> {},
           podLabels |-> {}]

MCSelectors == {SelAll, SelDb, SelWeb}

NameSelectors == MCSelectors \cup {SelPod}

Install(sel) == [sel |-> sel, mode |-> "", env |-> "e1"]
Skip(sel)    == [sel |-> sel, mode |-> "skip", env |-> "e1"]

NoBPF == [spanMetrics |-> FALSE, rules |-> <<>>]

Config(image, rules) == [image |-> image, rules |-> rules, bpf |-> NoBPF]

Target(kind) == [ns |-> "app", kind |-> kind, name |-> ""]

\* Restart targets: any Deployment, any StatefulSet, and a kind that cannot
\* be restarted; a nil entry.
MCRestartEntries ==
    {Absent, Target("Deployment"), Target("StatefulSet"), Target("CronJob")}

Targets == <<Target("Deployment"), Target("StatefulSet"), Target("CronJob")>>

CM(node, config, restart) ==
    [marked |-> TRUE, node |-> node, config |-> config, restart |-> restart]

Unmarked == [marked |-> FALSE, node |-> "", config |-> Absent,
             restart |-> Absent]

AllV1   == Config("v1", <<Install(SelAll)>>)
WebV1   == Config("v1", <<Install(SelWeb)>>)
WebV2   == Config("v2", <<Install(SelWeb)>>)
NoImage == Config("", <<Install(SelAll)>>)
SkipAll == Config("", <<Skip(SelAll)>>)
NoRules == Config("", <<>>)

\* Pods: one of Deployment "web" through ReplicaSet "web-1", and one of
\* StatefulSet "db", which preloads a library of its own.
Ref(kind, name) == [kind |-> kind, name |-> name, controller |-> TRUE]

PodMeta(name, generated, ref, preloads) ==
    [ns |-> "app", name |-> name, generated |-> generated, labels |-> {},
     refs |-> <<ref>>, preloads |-> preloads, stamp |-> Absent]

OnePod  == "web-1-a" :>
              PodMeta("web-1-a", TRUE, Ref("ReplicaSet", "web-1"),
                      {"", envVarLdPreloadValue})
TwoPods == OnePod
        @@ "db-0" :> PodMeta("db-0", FALSE, Ref("StatefulSet", "db"),
                             {"libjemalloc.so"})

NoPods == <<>>

MCReplicaSets == <<"app", "web-1">> :> <<Ref("Deployment", "web")>>

\* A pod as created, and one injected at image version v1.
PlainPod == [terminating |-> FALSE, hash |-> Absent, skip |-> FALSE]
Injected == [terminating |-> FALSE, hash |-> <<"", "e1", "v1">>,
             skip |-> FALSE]

PlainOrInjected == {PlainPod, Injected}

OnlyInjected == {Injected}

=============================================================================
