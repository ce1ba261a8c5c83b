---------------------------- MODULE MCReconciler ----------------------------
(***************************************************************************)
(* Instances of Reconciler for TLC: two ConfigMaps, at most one node, and  *)
(* for the sweeps a pod of a Deployment and a pod of a StatefulSet.        *)
(***************************************************************************)
EXTENDS Reconciler, MCData

\* Key 1: a rule on the name of the Deployment's pod, or deleted. Key 2: rules
\* for everything and targets, the rules without an image version, or no rules.
SweepWrites ==
    1 :> {Absent, CM("", Config("v2", <<Install(SelPod)>>), Absent)}
 @@ 2 :> {CM("", AllV1, Targets), CM("", NoImage, Targets),
          CM("", NoRules, Absent)}

\* Key 1 belongs to the node, and loses its annotation in place or is malformed.
\* Key 2 is deleted, or gains a nil entry among its restart targets.
ConvergeWrites ==
    1 :> {Unmarked, CM("n1", AllV1, Absent), CM("n1", Malformed, Absent)}
 @@ 2 :> {Absent, CM("", WebV1, Absent),
          CM("", WebV2, <<Target("Deployment"), Absent>>)}

\* A ConfigMap that may lose its annotation in place.
StripWrites == 1 :> {CM("", AllV1, Absent), Unmarked}

\* Two ConfigMaps that never change: key 1 has the restart targets and a rule
\* for the StatefulSet, key 2 selects the Deployment.
StaticWrites == 1 :> {CM("", Config("v1", <<Install(SelDb)>>), Targets)}
             @@ 2 :> {CM("", WebV1, Absent)}

=============================================================================
