---------------------------- MODULE MCValidator -----------------------------
(***************************************************************************)
(* The instance of Validator for TLC: Beyla and an operator may write      *)
(* annotated ConfigMaps, a tenant may not.                                 *)
(***************************************************************************)
EXTENDS Validator, MCData

\* Rules of the tenant, in a ConfigMap with and without the annotation.
TenantRules == Config("v2", <<Install(SelAll)>>)

Planted == CM("", TenantRules, Absent)

Hidden == [Planted EXCEPT !.marked = FALSE]

\* Key 1 belongs to the node and has rules. Key 2: rules with restart targets,
\* with a nil entry next to a valid one, an empty rule list, or what the tenant
\* writes.
NilTarget == CM("", WebV1, <<Target("Deployment"), Absent>>)

SyncWrites ==
    1 :> {Absent, CM("n1", WebV1, Absent)}
 @@ 2 :> {Absent, CM("", AllV1, Targets), NilTarget, CM("", NoRules, Absent),
          Hidden, Planted}

MCIntends ==
    [beyla    |-> {CM("n1", WebV1, Absent), NilTarget, CM("", AllV1, Targets)},
     operator |-> {CM("", NoRules, Absent)},
     tenant   |-> {Hidden, Planted}]

=============================================================================
