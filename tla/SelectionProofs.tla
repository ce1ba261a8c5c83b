-------------------------- MODULE SelectionProofs --------------------------
(***************************************************************************)
(* Facts about the decisions of Selection, for every value of the          *)
(* constants.                                                              *)
(***************************************************************************)
EXTENDS Selection, WellFoundedInduction, TLAPS

(* A payload that parses yields an Instrumentation, and what the registry  *)
(* keeps of one is an entry or nothing.                                    *)
LEMMA ParsedType ==
    ASSUME NEW cm \in ConfigMaps, ~ParseFails(cm)
    PROVE  ParsedConfig(cm) \in InjectConfigs
<1>1. NoConfig \in InjectConfigs
  <2>1. <<>> \in Seq(Rules)
    OBVIOUS
  <2>2. [spanMetrics |-> FALSE, rules |-> <<>>] \in BPFConfigs
    BY <2>1 DEF BPFConfigs
  <2> QED BY <2>1, <2>2, ImagesIncludeUnset DEF NoConfig, InjectConfigs
<1>2. cm.config \in InjectConfigs \cup {Absent, Malformed}
  BY DEF ConfigMaps
<1> QED BY <1>1, <1>2 DEF ParseFails, ParsedConfig

LEMMA StoredType ==
    ASSUME NEW cfg \in InjectConfigs
    PROVE  Stored(cfg) \in InjectConfigs \cup {Absent}
BY DEF Stored

(* A failed ReplicaSet lookup never makes the sweep see another workload:  *)
(* it sees the one the pod belongs to, or none that can be rolled.         *)
LEMMA TruncatedOwner ==
    ASSUME NEW m, NEW name
    PROVE  \/ resolveWorkload(Resolve(m, name, FALSE)) = NoWorkload
           \/ Resolve(m, name, FALSE) = Resolve(m, name, TRUE)
<1> DEFINE owner == controllerRef(m.refs)
<1>1. CASE owner = Absent
  BY <1>1 DEF Resolve
<1>2. CASE owner # Absent /\ owner.kind # "ReplicaSet"
  BY <1>2 DEF Resolve
<1>3. CASE owner # Absent /\ owner.kind = "ReplicaSet"
  <2> DEFINE pod   == [kind |-> "Pod", name |-> name]
             rs    == [kind |-> owner.kind, name |-> owner.name]
             chain == Resolve(m, name, FALSE).chain
  <2>1. DeploymentAbove(m.ns, owner.name, FALSE) = Absent
    BY DEF DeploymentAbove
  <2>2. chain = <<pod, rs>>
    BY <1>3, <2>1 DEF Resolve
  <2>3. \A i \in DOMAIN chain : chain[i].kind \notin RolloutKinds
    <3>1. \A i \in 1..2 : <<pod, rs>>[i].kind \notin RolloutKinds
      BY <1>3 DEF RolloutKinds
    <3>2. DOMAIN <<pod, rs>> = 1..2
      OBVIOUS
    <3> HIDE DEF pod, rs, chain
    <3> QED BY <2>2, <3>1, <3>2
  <2> QED BY <2>3 DEF resolveWorkload
<1> QED BY <1>1, <1>2, <1>3

-----------------------------------------------------------------------------
(* Matching.                                                               *)

(* The first of some keys or positions is one of them.                     *)
LEMMA FirstIsOneOfThem ==
    ASSUME NEW I \in SUBSET Nat, I # {}
    PROVE  FirstIndex(I) \in I
<1>1. \E i \in I : \A j \in I : ~(<<j, i>> \in OpToRel(<, Nat))
  BY NatLessThanWellFounded, WFMin
<1>2. \E i \in I : \A j \in I : ~(j < i)
  BY <1>1 DEF OpToRel
<1>3. \E i \in I : \A j \in I : i <= j
  BY <1>2
<1> QED BY <1>3 DEF FirstIndex

LEMMA ElementType ==
    ASSUME NEW S, NEW s \in Seq(S), NEW i \in DOMAIN s
    PROVE  s[i] \in S
OBVIOUS

(* A match is an install rule and the image version of one ConfigMap.      *)
LEMMA MatchType ==
    ASSUME NEW R \in [CMKeys -> InjectConfigs \cup {Absent}], NEW info,
           Match(R, info) # NoMatch
    PROVE  /\ Match(R, info).rule \in Rules
           /\ Match(R, info).image \in Images
<1> DEFINE keys == MatchingKeys(R, info)
           cfg == R[FirstIndex(keys)]
           first == FirstIndex(MatchingRules(cfg.rules, info))
<1>1. keys # {}
  BY DEF Match
<1>2. FirstIndex(keys) \in keys
  BY <1>1, FirstIsOneOfThem, KeysAreOrdered DEF MatchingKeys
<1>3. cfg \in InjectConfigs /\ MatchingRules(cfg.rules, info) # {}
  BY <1>2 DEF MatchingKeys
<1>4. cfg.rules \in Seq(Rules) /\ cfg.image \in Images
  BY <1>3 DEF InjectConfigs
<1>5. MatchingRules(cfg.rules, info) \in SUBSET Nat
  BY <1>4 DEF MatchingRules
<1>6. first \in MatchingRules(cfg.rules, info)
  BY <1>3, <1>5, FirstIsOneOfThem
<1>7. cfg.rules[first] \in Rules
  <2>1. first \in DOMAIN cfg.rules
    BY <1>6 DEF MatchingRules
  <2> HIDE DEF first, cfg
  <2> QED BY <1>4, <2>1, ElementType
<1>8. Match(R, info) = [rule |-> cfg.rules[first], image |-> cfg.image]
  BY <1>1 DEF Match
<1> QED BY <1>4, <1>7, <1>8

LEMMA WantedHashType ==
    ASSUME NEW R \in [CMKeys -> InjectConfigs \cup {Absent}], NEW info,
           Match(R, info) # NoMatch
    PROVE  WantedHash(Match(R, info)) \in Hashes
<1>1. EffectiveImage(Match(R, info)) \in Images
  BY MatchType, ImagesIncludeUnset DEF EffectiveImage
<1>2. Match(R, info).rule.mode \in Modes /\ Match(R, info).rule.env \in Envs
  BY MatchType DEF Rules
<1> QED BY <1>1, <1>2 DEF WantedHash, PodConfigHash, Hashes

(* Two views of a pod that no selector tells apart match the same rule.    *)
LEMMA SameMatch ==
    ASSUME NEW R \in [CMKeys -> InjectConfigs \cup {Absent}], NEW a, NEW b,
           \A sel \in Selectors : SelectorMatch(sel, a) <=> SelectorMatch(sel, b)
    PROVE  Match(R, a) = Match(R, b)
<1>1. ASSUME NEW rules \in Seq(Rules)
      PROVE  MatchingRules(rules, a) = MatchingRules(rules, b)
  <2>1. \A i \in DOMAIN rules : rules[i] \in Rules
    BY ElementType
  <2>2. \A i \in DOMAIN rules : rules[i].sel \in Selectors
    BY <2>1 DEF Rules
  <2> QED BY <2>2 DEF MatchingRules
<1>2. \A k \in CMKeys : R[k] # Absent => R[k].rules \in Seq(Rules)
  BY DEF InjectConfigs
<1>3. MatchingKeys(R, a) = MatchingKeys(R, b)
  BY <1>1, <1>2 DEF MatchingKeys
<1>4. CASE MatchingKeys(R, a) = {}
  BY <1>3, <1>4 DEF Match
<1>5. CASE MatchingKeys(R, a) # {}
  <2>1. FirstIndex(MatchingKeys(R, a)) \in MatchingKeys(R, a)
    BY <1>5, FirstIsOneOfThem, KeysAreOrdered DEF MatchingKeys
  <2>2. R[FirstIndex(MatchingKeys(R, a))].rules \in Seq(Rules)
    BY <1>2, <2>1 DEF MatchingKeys
  <2> QED BY <1>1, <1>3, <2>2 DEF Match
<1> QED BY <1>4, <1>5

=============================================================================
