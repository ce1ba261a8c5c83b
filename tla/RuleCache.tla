----------------------------- MODULE RuleCache -----------------------------
(***************************************************************************)
(* What the rule registry promises those who read it (sweep, webhook and   *)
(* gauge), whatever the controller does to keep the promise: an entry is   *)
(* what its ConfigMap deserves, or it is excused, because work that will   *)
(* rewrite it is under way or because the change never arrived. An entry   *)
(* that is not excused is never touched, and an entry never changes in the *)
(* same step as what it is made from. Only a restart of the process loses  *)
(* entries, and whatever is then missing is excused.                       *)
(***************************************************************************)
CONSTANTS
    Keys,
    Values,
    None        \* the entry of a key that has none

VARIABLES
    want,       \* key |-> the entry it deserves
    have,       \* key |-> the entry a reader finds
    excused     \* keys whose entry need not be right

cacheVars == <<want, have, excused>>

Nothing == [k \in Keys |-> None]

Lacking(wanted) == {k \in Keys : wanted[k] # None}

Init ==
    /\ want \in [Keys -> Values]
    /\ have = Nothing
    /\ Lacking(want) \subseteq excused

\* ConfigMaps or nodes change: every key they concern is excused.
Change ==
    /\ want' \in [Keys -> Values]
    /\ have' = have
    /\ excused \cup {k \in Keys : want'[k] # want[k]} \subseteq excused'

\* Excused entries are rewritten, from whatever was read before; a key is
\* excused no longer only if its entry is right.
Serve ==
    /\ want' = want
    /\ have' \in [Keys -> Values]
    /\ \A k \in Keys : have'[k] # have[k] => k \in excused
    /\ \A k \in Keys \ excused' : have'[k] = want[k]

Lose ==
    /\ want' = want
    /\ have' = Nothing
    /\ Lacking(want) \subseteq excused'

Next == Change \/ Serve \/ Lose

Spec == Init /\ [][Next]_cacheVars

=============================================================================
