----------------------------- MODULE MCInjector -----------------------------
(***************************************************************************)
(* Instances of Injector for TLC: one Deployment pod created with a        *)
(* generated name, one or two node-independent ConfigMaps.                 *)
(***************************************************************************)
EXTENDS Injector, MCData

\* Every state a pod can get into.
SystemPodStates ==
    [terminating : BOOLEAN, hash : Annotations, skip : BOOLEAN]

\* Key 1: skip everything, or nothing. Key 2: install on the Deployment, with
\* the Deployment as restart target.
SettleWrites ==
    1 :> {Absent, CM("", SkipAll, Absent)}
 @@ 2 :> {CM("", WebV1, Targets)}

\* The image version moves from one to another and back to no rules, or the
\* ConfigMap is deleted.
UpgradeWrites ==
    1 :> {Absent, CM("", WebV1, Targets), CM("", WebV2, Targets),
          CM("", NoRules, Targets)}

\* The eBPF side starts or stops to generate span metrics.
BPFWrites ==
    1 :> {CM("", [WebV1 EXCEPT !.bpf = [spanMetrics |-> on,
                                        rules |-> <<Install(SelWeb)>>]],
             Targets) : on \in BOOLEAN}

\* Rules that may be deleted.
RemovalWrites == 1 :> {Absent, CM("", WebV1, Absent)}

=============================================================================
