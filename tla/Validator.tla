----------------------------- MODULE Validator -----------------------------
(***************************************************************************)
(* The validating webhook in front of the ConfigMaps, composed with the    *)
(* controller that consumes them. A create or update reaches the API       *)
(* server's store, and later the cache, only if Handle allows it; without  *)
(* an answer failurePolicy=Fail refuses it, and nothing happens. Deletions *)
(* are not validated.                                                      *)
(***************************************************************************)
EXTENDS Reconciler

CONSTANTS
    Users,            \* who writes ConfigMaps in the watched namespace
    AllowedWriters,   \* the entries of ALLOWED_CONFIGMAP_WRITERS
    Masters,          \* members of system:masters
    Intends           \* Intends[u]: the ConfigMaps u tries to create

\* The entries between the commas of the variable, empty ones dropped.
parseAllowedWriters(raw) == raw \ {""}

\* NewConfigMapValidator drops them once more.
allowedUsers == parseAllowedWriters(AllowedWriters) \ {""}

authorized(u) == u \in allowedUsers \/ u \in Masters

\* Mutant: only ConfigMaps that belong to a node are gated.
HandleOfNodes(u, v) ==
    hasSelectorAnnotation(v) /\ v.node # "" => authorized(u)

Handle(u, v) == hasSelectorAnnotation(v) => authorized(u)

\* User u creates or updates ConfigMap k.
Submit(u, k, v) ==
    /\ v \in Intends[u]
    /\ Handle(u, v)
    /\ WriteCM(k, v)

\* The contents authorized users may have given to annotated ConfigMaps.
Trusted == UNION {Intends[u] : u \in {w \in Users : authorized(w)}}

TrustedEntries == {LoadedEntry(v) : v \in {w \in Trusted : w.marked}}

ValidatedInit ==
    /\ Init
    /\ \A k \in CMKeys : hasSelectorAnnotation(cms[k]) => cms[k] \in Trusted

ValidatedNext ==
    \/ \E u \in Users, k \in CMKeys : \E v \in Writes[k] : Submit(u, k, v)
    \/ \E k \in CMKeys : WriteCM(k, Absent)
    \/ \E n \in NodeNames, s \in NodeStates : WriteNode(n, s)
    \/ Routine \/ Failure \/ Restart \/ WebhookDown
    \/ \E p \in Slots : PodStep(p)

ValidatedSpec == ValidatedInit /\ [][ValidatedNext]_vars

\* Whatever the registry holds was written by an authorized user as the
\* contents of an annotated ConfigMap. Unauthorized users may meanwhile delete
\* and create ConfigMaps, with rules but without the annotation, under the same
\* keys: no stale read, refresh or retry lets their contents in.
RegistryTrusted ==
    \A k \in CMKeys : registry[k] \in TrustedEntries \cup {Absent}

=============================================================================
