---------------------------- MODULE GaugeProofs ----------------------------
(***************************************************************************)
(* The state gauge counts every pod once, where sweep and webhook see it,  *)
(* for every value of the constants.                                       *)
(***************************************************************************)
EXTENDS InjectorProofs, FiniteSetTheorems, FunctionTheorems

(* The series of a tally add up: over some labels, to the number of those  *)
(* who have one of them.                                                   *)
LEMMA TallyAddsUp ==
    ASSUME NEW labels, IsFiniteSet(DOMAIN labels),
           NEW T \in SUBSET DOMAIN Tally(labels)
    PROVE  Total(Tally(labels), T)
              = Cardinality({p \in DOMAIN labels : labels[p] \in T})
<1> DEFINE S == DOMAIN labels
           Class(t) == {p \in S : labels[p] = t}
           Size(t) == Tally(labels)[t]
           Pairs == UNION {{t} \X (1 .. Size(t)) : t \in T}
           Those == {p \in S : labels[p] \in T}
           Order == [t \in T |-> CHOOSE b : b \in Bijection(1 .. Size(t), Class(t))]
           Pick == [u \in Pairs |-> Order[u[1]][u[2]]]
<1>1. IsFiniteSet(Those)
  BY FS_Subset
<1>2. ASSUME NEW t \in T
      PROVE  Size(t) \in Nat /\ Order[t] \in Bijection(1 .. Size(t), Class(t))
  <2>1. IsFiniteSet(Class(t))
    BY FS_Subset
  <2>2. Size(t) \in Nat /\ ExistsBijection(1 .. Size(t), Class(t))
    <3>1. Size(t) = Cardinality(Class(t))
      BY DEF Tally
    <3> QED BY <2>1, <3>1, FS_CardinalityType
  <2>3. \E b : b \in Bijection(1 .. Size(t), Class(t))
    BY <2>2 DEF ExistsBijection
  <2> QED BY <2>2, <2>3
<1> HIDE DEF Order, Size
<1>3. ASSUME NEW u \in Pairs
      PROVE  /\ u[1] \in T /\ u[2] \in 1 .. Size(u[1])
             /\ u = <<u[1], u[2]>>
             /\ Pick[u] = Order[u[1]][u[2]]
             /\ Pick[u] \in Class(u[1])
  <2>1. u[1] \in T /\ u[2] \in 1 .. Size(u[1]) /\ u = <<u[1], u[2]>>
    OBVIOUS
  <2>2. Order[u[1]] \in [1 .. Size(u[1]) -> Class(u[1])]
    BY <1>2, <2>1 DEF Bijection, Injection
  <2> QED BY <2>1, <2>2
<1>4. Pick \in [Pairs -> Those]
  <2>1. \A u \in Pairs : Pick[u] \in Those
    BY <1>3
  <2> QED BY <2>1
<1>5. ASSUME NEW u \in Pairs, NEW v \in Pairs, Pick[u] = Pick[v]
      PROVE  u = v
  <2>1. Pick[u] \in Class(u[1]) /\ Pick[v] \in Class(v[1])
    BY <1>3
  <2> HIDE DEF Pick, Pairs
  <2>2. u[1] = v[1]
    BY <1>5, <2>1
  <2>3. Order[u[1]] \in Injection(1 .. Size(u[1]), Class(u[1]))
    BY <1>2, <1>3 DEF Bijection
  <2>4. Order[u[1]][u[2]] = Order[u[1]][v[2]]
    BY <1>3, <1>5, <2>2
  <2>5. u[2] \in 1 .. Size(u[1]) /\ v[2] \in 1 .. Size(u[1])
    BY <1>3, <2>2
  <2>6. u[2] = v[2]
    BY <2>3, <2>4, <2>5 DEF Injection, IsInjective
  <2> QED BY <1>3, <2>2, <2>6
<1>6. ASSUME NEW p \in Those
      PROVE  \E u \in Pairs : Pick[u] = p
  <2> DEFINE t == labels[p]
  <2>1. t \in T /\ p \in Class(t)
    OBVIOUS
  <2>2. PICK i \in 1 .. Size(t) : Order[t][i] = p
    BY <1>2, <2>1 DEF Bijection, Surjection
  <2>3. <<t, i>> \in Pairs
    BY <2>1, <2>2
  <2>4. Pick[<<t, i>>] = p
    BY <2>2, <2>3
  <2> QED BY <2>3, <2>4
<1>7. Pick \in Bijection(Pairs, Those)
  <2> HIDE DEF Pick, Pairs, Those
  <2> QED BY <1>4, <1>5, <1>6 DEF Bijection, Injection, IsInjective, Surjection
<1>8. ExistsBijection(Those, Pairs)
  BY <1>7, Fun_ExistsBijSymmetric DEF ExistsBijection
<1>9. Cardinality(Pairs) = Cardinality(Those)
  BY <1>1, <1>8, FS_Bijection
<1> QED BY <1>9 DEF Size, Total

-----------------------------------------------------------------------------
(* Labels.                                                                 *)

LEMMA LastOfOne == \A i \in Nat : LastIndex({i}) = i
BY DEF LastIndex

(* The workload a sweep would roll is the one the gauge counts the pod     *)
(* under: an owner that can be rolled is the top-most one.                 *)
LEMMA RolledIsTopMost ==
    ASSUME NEW m, NEW name, NEW found,
           NEW w, w = resolveWorkload(Resolve(m, name, found)), w # NoWorkload
    PROVE  /\ w.ns = m.ns
           /\ Workload(Resolve(m, name, found)) = [kind |-> w.kind, name |-> w.name]
<1> DEFINE info  == Resolve(m, name, found)
           owner == controllerRef(m.refs)
           self  == [kind |-> "Pod", name |-> name]
           link  == [kind |-> owner.kind, name |-> owner.name]
           top   == IF owner.kind = "ReplicaSet"
                    THEN DeploymentAbove(m.ns, owner.name, found) ELSE Absent
           links == {i \in DOMAIN info.chain :
                        info.chain[i].kind \in RolloutKinds}
<1>1. info.ns = m.ns
  BY DEF Resolve
<1>2. links # {} /\ w
         = [ns |-> info.ns, kind |-> info.chain[LastIndex(links)].kind,
            name |-> info.chain[LastIndex(links)].name]
  BY DEF resolveWorkload
<1>3. CASE owner = Absent
  <2>1. info.chain = <<self>>
    BY <1>3 DEF Resolve
  <2>2. links = {}
    BY <2>1 DEF RolloutKinds
  <2> QED BY <1>2, <2>2
<1>4. CASE owner # Absent /\ top = Absent
  <2>1. info.chain = <<self, link>>
    BY <1>4 DEF Resolve
  <2>2. links = {2}
    <3>1. links \subseteq {2}
      BY <2>1 DEF RolloutKinds
    <3> QED BY <1>2, <3>1
  <2>3. LastIndex(links) = 2 /\ Workload(info) = link /\ info.chain[2] = link
    BY <2>1, <2>2, LastOfOne DEF Workload
  <2> HIDE DEF links, info
  <2> QED BY <1>1, <1>2, <2>3 DEF info
<1>5. CASE owner # Absent /\ top # Absent
  <2>1. owner.kind = "ReplicaSet" /\ top = DeploymentAbove(m.ns, owner.name, found)
    BY <1>5
  <2>2. top = [kind |-> "Deployment", name |-> top.name]
    BY <1>5, <2>1 DEF DeploymentAbove
  <2>3. info.chain = <<self, link, top>>
    BY <1>5 DEF Resolve
  <2> HIDE DEF top
  <2>4. links \subseteq {3}
    BY <2>1, <2>3 DEF RolloutKinds
  <2>5. links = {3}
    BY <1>2, <2>4
  <2>6. LastIndex(links) = 3 /\ Workload(info) = top /\ info.chain[3] = top
    BY <2>3, <2>5, LastOfOne DEF Workload
  <2> HIDE DEF links, info
  <2> QED BY <1>1, <1>2, <2>2, <2>6 DEF info
<1> QED BY <1>3, <1>4, <1>5

LEMMA CountedAsRolled ==
    ASSUME NEW p \in Slots, NEW found \in BOOLEAN,
           NEW w, w = resolveWorkload(PodInfo[p][found]), w # NoWorkload
    PROVE  /\ w.ns = Meta[p].ns
           /\ Workload(PodInfo[p][found]) = [kind |-> w.kind, name |-> w.name]
<1>1. PodInfo[p][found] = Resolve(Meta[p], Meta[p].name, found)
  BY DEF PodInfo
<1> QED BY <1>1, RolledIsTopMost

(* On the same rules and the same annotation, the gauge and the webhook    *)
(* reach corresponding verdicts.                                           *)
LEMMA SameVerdict ==
    ASSUME NEW R, NEW m, NEW hash, NEW seen, NEW cached,
           Match(R, seen) = Match(R, cached),
           DefaultOutcome(R, m, hash, seen) \in DOMAIN GaugeStatus
    PROVE  classify(R, m, hash, cached)
              = GaugeStatus[DefaultOutcome(R, m, hash, seen)]
<1> DEFINE match == Match(R, cached)
<1>1. DOMAIN GaugeStatus = {"no_matching_selector", "already_instrumented",
                            "ld_preload_conflict", "success"}
  BY DEF GaugeStatus
<1>2. CASE match = NoMatch
  BY <1>2 DEF DefaultOutcome, classify, GaugeStatus
<1>3. CASE match # NoMatch /\ EffectiveImage(match) = ""
  BY <1>1, <1>3 DEF DefaultOutcome
<1>4. CASE match # NoMatch /\ EffectiveImage(match) # ""
  BY <1>4 DEF DefaultOutcome, classify, GaugeStatus
<1> QED BY <1>2, <1>3, <1>4

-----------------------------------------------------------------------------
(* For any rules, pods and owners: whatever the sweep, the webhook and the *)
(* workload controllers are in the middle of, the gauge counts every live  *)
(* pod exactly once; and each pod that the rules of the moment select      *)
(* alike with and without its name, and that has an SDK image if they do,  *)
(* under the workload and the status its next admission would find it in.  *)
THEOREM GaugeAlwaysAgrees == Spec => []GaugeAgrees
<1> DEFINE labels == [p \in Live |-> labelTuple(registry, p, pods[p], TRUE)]
<1>1. ASSUME NEW T
      PROVE  Total(Scrape, {t \in DOMAIN Scrape : t \in T})
                = Cardinality({p \in Live : labels[p] \in T})
  <2> DEFINE U == {t \in DOMAIN Scrape : t \in T}
  <2>1. IsFiniteSet(Live)
    BY SlotsAreFinite, FS_Subset DEF Live
  <2>2. Scrape = Tally(labels)
    BY DEF Scrape, Collect, Live
  <2>3. DOMAIN Scrape = {labels[p] : p \in Live}
    BY <2>2 DEF Tally
  <2>4. Total(Scrape, U) = Cardinality({p \in Live : labels[p] \in U})
    <3>1. DOMAIN labels = Live /\ U \in SUBSET DOMAIN Tally(labels)
      BY <2>2
    <3> HIDE DEF U, labels
    <3> QED BY <2>1, <2>2, <3>1, TallyAddsUp
  <2>5. {p \in Live : labels[p] \in U} = {p \in Live : labels[p] \in T}
    BY <2>3
  <2> QED BY <2>4, <2>5
<1>2. ASSUME TypeOK PROVE GaugeAgrees
  <2>1. Total(Scrape, DOMAIN Scrape) = Cardinality(Live)
    <3>1. {p \in Live : labels[p] \in {labels[q] : q \in Live}} = Live
      OBVIOUS
    <3>2. DOMAIN Scrape = {labels[p] : p \in Live}
      BY DEF Scrape, Collect, Tally, Live
    <3>3. DOMAIN Scrape = {t \in DOMAIN Scrape : t \in {labels[q] : q \in Live}}
      BY <3>2
    <3> HIDE DEF labels
    <3> QED BY <1>1, <3>1, <3>3
  <2>2. ASSUME NEW w \in Workloads, NEW outcome \in DOMAIN GaugeStatus
        PROVE  Total(Scrape, SeriesOf(Scrape, w, GaugeStatus[outcome]))
                  >= Cardinality({p \in Live \cap PodsOf(w) :
                                     NamedAlike(p) /\ Answer(p) = outcome})
    <3> DEFINE T == SeriesOf(Scrape, w, GaugeStatus[outcome])
               Counted == {p \in Live : labels[p] \in T}
               Those == {p \in Live \cap PodsOf(w) :
                            NamedAlike(p) /\ Answer(p) = outcome}
    <3>1. Total(Scrape, T) = Cardinality(Counted)
      <4>1. T = {t \in DOMAIN Scrape : t \in T}
        BY DEF SeriesOf
      <4> HIDE DEF T, labels
      <4> QED BY <1>1, <4>1
    <3>2. ASSUME NEW p \in Those PROVE p \in Counted
      <4>1. p \in Slots /\ p \in Live /\ WorkloadOf[p] = w /\ w # NoWorkload
        BY DEF Live, PodsOf, Workloads
      <4>2. w = resolveWorkload(PodInfo[p][TRUE])
        BY <4>1 DEF WorkloadOf
      <4>3. /\ w.ns = Meta[p].ns
            /\ Workload(PodInfo[p][TRUE]) = [kind |-> w.kind, name |-> w.name]
        BY <4>1, <4>2, CountedAsRolled
      <4>4. Match(registry, AdmissionInfo[p][TRUE])
               = Match(registry, PodInfo[p][TRUE])
        BY DEF NamedAlike
      <4>5. classify(registry, Meta[p], pods[p].hash, PodInfo[p][TRUE])
               = GaugeStatus[outcome]
        BY <4>4, SameVerdict DEF Answer
      <4>6. labels[p] = labelTuple(registry, p, pods[p], TRUE)
        BY <4>1
      <4>7. labels[p] \in DOMAIN Scrape
        BY <4>1 DEF Scrape, Collect, Tally, Live
      <4>8. labels[p] \in T
        BY <4>3, <4>5, <4>6, <4>7 DEF labelTuple, SeriesOf
      <4> QED BY <4>1, <4>8
    <3>3. Those \subseteq Counted
      BY <3>2
    <3>4. IsFiniteSet(Counted)
      BY SlotsAreFinite, FS_Subset DEF Live
    <3>5. /\ Cardinality(Those) <= Cardinality(Counted)
          /\ Cardinality(Those) \in Nat /\ Cardinality(Counted) \in Nat
      <4> HIDE DEF Those, Counted
      <4> QED BY <3>3, <3>4, FS_Subset, FS_CardinalityType
    <3> QED BY <3>1, <3>5
  <2> QED BY <2>1, <2>2 DEF GaugeAgrees
<1> QED BY <1>2, TypeCorrect, PTL

(* The same in the composition with the webhook.                           *)
THEOREM SystemGaugeAgrees == SystemSpec => []GaugeAgrees
BY GaugeAlwaysAgrees, SystemImplementsSpec, PTL

=============================================================================
