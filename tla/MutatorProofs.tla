--------------------------- MODULE MutatorProofs ---------------------------
(***************************************************************************)
(* What a mutation does to any pod.  The writes to an env list form an     *)
(* algebra: Edits(a, t, w, F) says that t is a, with w written over the    *)
(* first vars of their names or appended, and with the vars of F brought   *)
(* before the combined attributes.  Edits compose; each helper of the      *)
(* mutator is one; so is a whole mutation, with the same w for every list. *)
(* The theorems read off what they need of it.                             *)
(***************************************************************************)
EXTENDS PodMutator, NaturalsInduction, WellFoundedInduction,
        SequenceTheorems, FiniteSetTheorems, TLAPS

-----------------------------------------------------------------------------
(* Least elements, induction, sequences.                                   *)

LEMMA Least ==
    ASSUME NEW I \in SUBSET Nat, I # {}
    PROVE  \E i \in I : \A j \in I : i <= j
<1>1. \E i \in I : \A j \in I : ~(<<j, i>> \in OpToRel(<, Nat))
  BY NatLessThanWellFounded, WFMin
<1>2. \E i \in I : \A j \in I : ~(j < i)
  BY <1>1 DEF OpToRel
<1> QED BY <1>2

LEMMA MinFacts ==
    ASSUME NEW I \in SUBSET Nat, I # {}
    PROVE  Min(I) \in I /\ \A j \in I : Min(I) <= j
BY Least DEF Min

LEMMA SetInduction ==
    ASSUME NEW S, 0 \in S, \A n \in Nat : n \in S => n + 1 \in S
    PROVE  Nat \subseteq S
<1> SUFFICES ASSUME Nat \ S # {} PROVE FALSE
  OBVIOUS
<1>1. PICK i \in Nat \ S : \A j \in Nat \ S : i <= j
  BY Least
<1> QED BY <1>1, i - 1 \in Nat

LEMMA SeqIsFunction ==
    ASSUME NEW S, NEW s \in Seq(S)
    PROVE  /\ Len(s) \in Nat /\ DOMAIN s = 1..Len(s)
           /\ s = [i \in 1..Len(s) |-> s[i]]
OBVIOUS

LEMMA SeqFacts ==
    ASSUME NEW s, IsSeq(s)
    PROVE /\ Len(s) \in Nat /\ DOMAIN s = 1..Len(s)
          /\ s = [i \in 1..Len(s) |-> s[i]]
BY DEF IsSeq, ToSet

LEMMA SeqIntro ==
    ASSUME NEW n \in Nat, NEW s, s = [i \in 1..n |-> s[i]]
    PROVE IsSeq(s) /\ Len(s) = n
<1>1. s \in [1..n -> ToSet(s)]
  BY DEF ToSet
<1> QED BY <1>1 DEF IsSeq

-----------------------------------------------------------------------------
(* Names in lists: findByName, Upsert, and the moves of field vars.        *)

LEMMA FindByName ==
    ASSUME NEW s, IsSeq(s), NEW name
    PROVE LET p == findByName(s, name)
          IN  \/ p = 0 /\ \A i \in 1..Len(s) : s[i].name # name
              \/ /\ p \in 1..Len(s) /\ s[p].name = name
                 /\ \A i \in 1..Len(s) : s[i].name = name => p <= i
<1> DEFINE I == {i \in 1..Len(s) : s[i].name = name}
<1>1. Len(s) \in Nat
  BY SeqFacts
<1>2. CASE I = {}
  BY <1>2 DEF findByName, SelectInSeq
<1>3. CASE I # {}
  <2>1. I \in SUBSET Nat
    BY <1>1
  <2>2. Min(I) \in I /\ \A j \in I : Min(I) <= j
    <3> HIDE DEF I
    <3> QED BY <1>3, <2>1, MinFacts
  <2>3. findByName(s, name) = Min(I)
    BY <1>3 DEF findByName, SelectInSeq
  <2> QED BY <2>2, <2>3
<1> QED BY <1>2, <1>3

LEMMA UpsertFacts ==
    ASSUME NEW s, IsSeq(s), NEW e
    PROVE LET t == Upsert(s, e)
              p == findByName(s, e.name) IN
          /\ IsSeq(t)
          /\ IF p # 0 THEN Len(t) = Len(s) ELSE Len(t) = Len(s) + 1
          /\ \A i \in 1..Len(t) :
                t[i] = IF i = p \/ i = Len(s) + 1 THEN e ELSE s[i]
<1> DEFINE p == findByName(s, e.name)
<1>1. CASE p = 0
  <2>1. Upsert(s, e) = Append(s, e)
    BY <1>1 DEF Upsert
  <2>2. Append(s, e) = [i \in 1..Len(s)+1 |-> IF i = Len(s) + 1 THEN e ELSE s[i]]
    <3> DEFINE T == ToSet(s) \cup {e}
    <3>1. s \in Seq(T) /\ e \in T
      BY DEF IsSeq
    <3> HIDE DEF T
    <3>2. /\ Append(s, e) \in Seq(T) /\ Len(Append(s, e)) = Len(s) + 1
          /\ \A i \in 1..Len(s) : Append(s, e)[i] = s[i]
          /\ Append(s, e)[Len(s) + 1] = e
      BY <3>1, AppendProperties
    <3>3. Len(s) \in Nat
      BY <3>1
    <3> DEFINE a == Append(s, e)
    <3>4. a = [i \in 1..Len(a) |-> a[i]] /\ Len(a) = Len(s) + 1
      BY <3>2, SeqIsFunction
    <3>5. ASSUME NEW i \in 1..Len(a)
          PROVE  a[i] = IF i = Len(s) + 1 THEN e ELSE s[i]
      BY <3>2, <3>3
    <3> HIDE DEF a
    <3> QED BY <3>4, <3>5 DEF a
  <2>3. IsSeq(Append(s, e)) /\ Len(Append(s,e)) = Len(s) + 1
    BY <2>2, SeqIntro, SeqFacts
  <2> QED BY <1>1, <2>1, <2>2, <2>3, SeqFacts
<1>2. CASE p # 0
  <2>1. Upsert(s, e) = [s EXCEPT ![p] = e]
    BY <1>2 DEF Upsert, ReplaceAt
  <2>2. Upsert(s, e) = [i \in 1..Len(s) |-> IF i = p THEN e ELSE s[i]]
    BY <2>1, SeqFacts
  <2>3. IsSeq(Upsert(s, e)) /\ Len(Upsert(s,e)) = Len(s)
    BY <2>2, SeqIntro, SeqFacts
  <2> QED BY <1>2, <2>2, <2>3, SeqFacts
<1> QED BY <1>1, <1>2

LEMMA AnySeq ==
    ASSUME NEW S, NEW s \in Seq(S) PROVE IsSeq(s)
BY SeqIsFunction, SeqIntro

LEMMA RemoveAtFacts ==
    ASSUME NEW s, IsSeq(s), NEW p \in 1..Len(s)
    PROVE  LET t == RemoveAt(s, p) IN
           /\ IsSeq(t) /\ Len(t) = Len(s) - 1
           /\ \A i \in 1..Len(t) : t[i] = IF i < p THEN s[i] ELSE s[i + 1]
<1> DEFINE T == ToSet(s)
           a == SubSeq(s, 1, p - 1)
           b == SubSeq(s, p + 1, Len(s))
<1>1. Len(s) \in Nat /\ \A i \in 1..Len(s) : s[i] \in T
  BY SeqFacts DEF ToSet
<1> HIDE DEF T
<1>2. /\ a \in Seq(T) /\ Len(a) = p - 1
      /\ \A i \in 1..p - 1 : a[i] = s[i]
  BY <1>1, SubSeqProperties
<1>3. /\ b \in Seq(T) /\ Len(b) = Len(s) - p
      /\ \A i \in 1..Len(s) - p : b[i] = s[p + i]
  BY <1>1, SubSeqProperties
<1> HIDE DEF a, b
<1> DEFINE t == a \o b
<1>4. /\ t \in Seq(T) /\ Len(t) = Len(a) + Len(b)
      /\ \A i \in 1..Len(a) + Len(b) :
            t[i] = IF i <= Len(a) THEN a[i] ELSE b[i - Len(a)]
  BY <1>2, <1>3, ConcatProperties
<1>6. RemoveAt(s, p) = t
  BY DEF RemoveAt, a, b
<1> HIDE DEF t
<1>7. Len(t) = Len(s) - 1
  BY <1>1, <1>2, <1>3, <1>4
<1>5. ASSUME NEW i \in 1..Len(s) - 1
      PROVE  t[i] = IF i < p THEN s[i] ELSE s[i + 1]
  <2>1. CASE i < p
    BY <1>1, <1>2, <1>3, <1>4, <2>1
  <2>2. CASE ~(i < p)
    <3> DEFINE j == i - (p - 1)
    <3>1. /\ j \in 1..Len(s) - p /\ ~(i <= p - 1)
          /\ i \in 1..(p - 1) + (Len(s) - p) /\ p + j = i + 1
      BY <1>1, <2>2
    <3>2. t[i] = b[j]
      BY <1>2, <1>3, <1>4, <3>1
    <3> HIDE DEF j
    <3>3. b[j] = s[p + j]
      BY <1>3, <3>1
    <3> QED BY <2>2, <3>1, <3>2, <3>3
  <2> QED BY <2>1, <2>2
<1> QED BY <1>4, <1>5, <1>6, <1>7, AnySeq

LEMMA InsertAtFacts ==
    ASSUME NEW s, IsSeq(s), NEW p \in 1..Len(s) + 1, NEW e
    PROVE  LET t == InsertAt(s, p, e) IN
           /\ IsSeq(t) /\ Len(t) = Len(s) + 1
           /\ \A i \in 1..Len(t) :
                t[i] = IF i < p THEN s[i] ELSE IF i = p THEN e ELSE s[i - 1]
<1> DEFINE T == ToSet(s) \cup {e}
           a == SubSeq(s, 1, p - 1)
           b == SubSeq(s, p, Len(s))
           c == <<e>>
<1>1. Len(s) \in Nat /\ \A i \in 1..Len(s) : s[i] \in T
  BY SeqFacts DEF ToSet
<1>0. c \in Seq(T) /\ Len(c) = 1 /\ c[1] = e
  OBVIOUS
<1> HIDE DEF T, c
<1>2. /\ a \in Seq(T) /\ Len(a) = p - 1
      /\ \A i \in 1..p - 1 : a[i] = s[i]
  BY <1>1, SubSeqProperties
<1>3. /\ b \in Seq(T) /\ Len(b) = Len(s) - p + 1
      /\ \A i \in 1..Len(s) - p + 1 : b[i] = s[p + i - 1]
  BY <1>1, SubSeqProperties
<1> HIDE DEF a, b
<1> DEFINE d == a \o c
           t == d \o b
<1>4. /\ d \in Seq(T) /\ Len(d) = Len(a) + Len(c)
      /\ \A i \in 1..Len(a) + Len(c) :
            d[i] = IF i <= Len(a) THEN a[i] ELSE c[i - Len(a)]
  BY <1>0, <1>2, ConcatProperties
<1>5. InsertAt(s, p, e) = t
  BY DEF InsertAt, a, b, c
<1> HIDE DEF d
<1>6. /\ t \in Seq(T) /\ Len(t) = Len(d) + Len(b)
      /\ \A i \in 1..Len(d) + Len(b) :
            t[i] = IF i <= Len(d) THEN d[i] ELSE b[i - Len(d)]
  <2>1. d \in Seq(T) /\ b \in Seq(T)
    BY <1>3, <1>4
  <2> QED BY <2>1, ConcatProperties
<1> HIDE DEF t
<1>7. Len(d) = p /\ Len(t) = Len(s) + 1
  BY <1>0, <1>1, <1>2, <1>3, <1>4, <1>6
<1>8. ASSUME NEW i \in 1..Len(s) + 1
      PROVE  t[i] = IF i < p THEN s[i] ELSE IF i = p THEN e ELSE s[i - 1]
  <2>1. CASE i < p
    BY <1>0, <1>1, <1>2, <1>3, <1>4, <1>6, <1>7, <2>1
  <2>2. CASE i = p
    BY <1>0, <1>1, <1>2, <1>3, <1>4, <1>6, <1>7, <2>2
  <2>3. CASE i > p
    <3>1. t[i] = b[i - p] /\ i - p \in 1..Len(s) - p + 1
      BY <1>0, <1>1, <1>2, <1>3, <1>4, <1>6, <1>7, <2>3
    <3> QED BY <1>1, <1>3, <2>3, <3>1
  <2> QED BY <1>1, <2>1, <2>2, <2>3
<1> QED BY <1>5, <1>6, <1>7, <1>8, AnySeq

Attrs == envInjectorOtelExtraResourceAttrs

Moved(env, t, name, path, p, q) ==
    /\ IsSeq(t) /\ q <= p
    /\ Len(t) = IF p <= Len(env) THEN Len(env) ELSE Len(env) + 1
    /\ p <= Len(env) => env[p].name = name
    /\ \A i \in 1..Len(env) : env[i].name = name => p <= i
    /\ \A i \in 1..Len(t) :
          t[i] = IF i < q THEN env[i]
                 ELSE IF i = q THEN FieldVar(name, path)
                 ELSE IF i <= p THEN env[i - 1] ELSE env[i]
    /\ \A i \in 1..Len(env) : env[i].name = Attrs => q <= i
    /\ q < p => q \in 1..Len(env) /\ env[q].name = Attrs

LEMMA PlaceFacts ==
    ASSUME NEW env, IsSeq(env), NEW name
    PROVE  LET p == Place(env, name) IN
           /\ p \in 1..Len(env) + 1
           /\ p <= Len(env) => env[p].name = name
           /\ \A i \in 1..Len(env) : env[i].name = name => p <= i
<1>1. Len(env) \in Nat
  BY SeqFacts
<1> QED BY <1>1, FindByName DEF Place

LEMMA WithoutFacts ==
    ASSUME NEW env, IsSeq(env), NEW name
    PROVE  LET p == Place(env, name)
               rest == Without(env, name) IN
           /\ IsSeq(rest)
           /\ Len(rest) = IF p <= Len(env) THEN Len(env) - 1 ELSE Len(env)
           /\ \A i \in 1..Len(rest) : rest[i] = IF i < p THEN env[i] ELSE env[i + 1]
<1>1. Len(env) \in Nat
  BY SeqFacts
<1>2. CASE findByName(env, name) = 0
  BY <1>1, <1>2 DEF Place, Without
<1>3. CASE findByName(env, name) # 0
  <2>1. findByName(env, name) \in 1..Len(env)
    BY <1>3, FindByName
  <2>2. /\ Place(env, name) = findByName(env, name)
        /\ Without(env, name) = RemoveAt(env, findByName(env, name))
    BY <1>3 DEF Place, Without
  <2> QED BY <1>1, <2>1, <2>2, RemoveAtFacts
<1> QED BY <1>2, <1>3

LEMMA FieldPathMoves ==
    ASSUME NEW env, IsSeq(env), NEW name, name # Attrs, NEW path
    PROVE  \E p, q \in 1..Len(env) + 1 :
              Moved(env, setEnvVarFromFieldPath(env, name, path), name, path, p, q)
<1> DEFINE rest == Without(env, name)
           p == Place(env, name)
           attrs == Place(rest, Attrs)
           q == IF attrs < p THEN attrs ELSE p
           f == FieldVar(name, path)
           t == InsertAt(rest, q, f)
<1>1. setEnvVarFromFieldPath(env, name, path) = t
  BY DEF setEnvVarFromFieldPath, Attrs
<1>2. Len(env) \in Nat
  BY SeqFacts
<1>3. /\ p \in 1..Len(env) + 1
      /\ p <= Len(env) => env[p].name = name
      /\ \A i \in 1..Len(env) : env[i].name = name => p <= i
  BY PlaceFacts
<1>4. /\ IsSeq(rest)
      /\ Len(rest) = IF p <= Len(env) THEN Len(env) - 1 ELSE Len(env)
      /\ \A i \in 1..Len(rest) : rest[i] = IF i < p THEN env[i] ELSE env[i + 1]
  BY WithoutFacts
<1> HIDE DEF rest, p, f
<1>5. /\ attrs \in 1..Len(rest) + 1
      /\ attrs <= Len(rest) => rest[attrs].name = Attrs
      /\ \A i \in 1..Len(rest) : rest[i].name = Attrs => attrs <= i
  BY <1>4, PlaceFacts
<1> HIDE DEF attrs
<1>6. q \in 1..Len(rest) + 1 /\ q <= p /\ q \in 1..Len(env) + 1
  BY <1>2, <1>3, <1>4, <1>5
<1>7. ASSUME NEW i \in 1..Len(env), env[i].name = Attrs PROVE q <= i
  <2>1. CASE i >= p
    BY <1>3, <1>6, <2>1
  <2>2. CASE i < p
    <3>1. i \in 1..Len(rest) /\ rest[i] = env[i]
      BY <1>2, <1>3, <1>4, <2>2
    <3> QED BY <1>3, <1>5, <1>7, <2>2, <3>1
  <2> QED BY <1>3, <2>1, <2>2
<1>8. /\ IsSeq(t) /\ Len(t) = Len(rest) + 1
      /\ \A i \in 1..Len(t) :
            t[i] = IF i < q THEN rest[i] ELSE IF i = q THEN f ELSE rest[i - 1]
  <2> HIDE DEF q
  <2> QED BY <1>4, <1>6, InsertAtFacts
<1>12. ASSUME q < p PROVE q \in 1..Len(env) /\ env[q].name = Attrs
  <2>1. q = attrs /\ q \in 1..Len(rest)
    BY <1>2, <1>3, <1>4, <1>5, <1>12
  <2> HIDE DEF q
  <2> QED BY <1>2, <1>3, <1>4, <1>5, <1>12, <2>1
<1> HIDE DEF t, q
<1>9. ASSUME NEW i \in 1..Len(t)
       PROVE  t[i] = IF i < q THEN env[i] ELSE IF i = q THEN f
                     ELSE IF i <= p THEN env[i - 1] ELSE env[i]
  <2>1. CASE i < q
    BY <1>2, <1>3, <1>4, <1>6, <1>8, <2>1
  <2>2. CASE i = q
    BY <1>8, <2>2
  <2>3. CASE i > q
    <3>1. t[i] = rest[i - 1] /\ i - 1 \in 1..Len(rest)
      BY <1>2, <1>4, <1>6, <1>8, <2>3
    <3>2. rest[i - 1] = IF i <= p THEN env[i - 1] ELSE env[i]
      BY <1>2, <1>3, <1>4, <3>1
    <3> QED BY <1>6, <2>3, <3>1, <3>2
  <2> QED BY <1>6, <2>1, <2>2, <2>3
<1>10. Len(t) = IF p <= Len(env) THEN Len(env) ELSE Len(env) + 1
  BY <1>2, <1>3, <1>4, <1>8
<1>11. Moved(env, t, name, path, p, q)
  BY <1>3, <1>6, <1>7, <1>8, <1>9, <1>10, <1>12 DEF Moved, f
<1> QED BY <1>1, <1>3, <1>6, <1>11

LEMMA AppliedUnfolds ==
    ASSUME NEW env, NEW vs, Len(vs) \in Nat
    PROVE  \A i \in 0..Len(vs) :
              Applied(env, vs)[i] = IF i = 0 THEN env
                                    ELSE Upsert(Applied(env, vs)[i - 1], vs[i])
<1> DEFINE Body(f, n) == [i \in 0..n |->
                            IF i = 0 THEN env ELSE Upsert(f[i - 1], vs[i])]
           Good(n) == \E f : f = Body(f, n)
           S == {n \in Nat : Good(n)}
<1>1. 0 \in S
  <2> DEFINE f == [i \in 0..0 |-> env]
  <2>1. f = Body(f, 0)
    OBVIOUS
  <2> QED BY <2>1
<1>2. ASSUME NEW n \in Nat, n \in S PROVE n + 1 \in S
  <2>1. PICK f : f = Body(f, n)
    BY <1>2
  <2> DEFINE g == [i \in 0..n + 1 |-> IF i <= n THEN f[i]
                                      ELSE Upsert(f[n], vs[n + 1])]
  <2>2. \A i \in 0..n : f[i] = IF i = 0 THEN env ELSE Upsert(f[i - 1], vs[i])
    BY <2>1
  <2>3. ASSUME NEW i \in 0..n + 1
        PROVE  g[i] = IF i = 0 THEN env ELSE Upsert(g[i - 1], vs[i])
    BY <2>2
  <2>4. g = Body(g, n + 1)
    BY <2>3
  <2>5. Good(n + 1)
    <3> HIDE DEF g, Body
    <3> QED BY <2>4
  <2> HIDE DEF Good
  <2> QED BY <2>5
<1>3. Good(Len(vs))
  BY <1>1, <1>2, SetInduction
<1>4. Applied(env, vs) = Body(Applied(env, vs), Len(vs))
  BY <1>3 DEF Applied
<1> QED BY <1>4

-----------------------------------------------------------------------------
(* Edits.                                                                  *)

(* The first element of a name is the one that findByName finds.           *)
LEMMA FirstIsFound ==
    ASSUME NEW s, IsSeq(s), NEW x, NEW p \in 1..Len(s), s[p].name = x,
           \A i \in 1..Len(s) : s[i].name = x => p <= i
    PROVE  findByName(s, x) = p
BY FindByName, SeqFacts

LEMMA NamesFound ==
    ASSUME NEW s, IsSeq(s), NEW x
    PROVE  /\ x \in Names(s) <=> \E i \in 1..Len(s) : s[i].name = x
           /\ x \in Names(s) =>
                /\ findByName(s, x) \in 1..Len(s)
                /\ s[findByName(s, x)].name = x
                /\ \A i \in 1..Len(s) : s[i].name = x => findByName(s, x) <= i
           /\ x \notin Names(s) => findByName(s, x) = 0
<1>1. Len(s) \in Nat /\ DOMAIN s = 1..Len(s)
  BY SeqFacts
<1>2. x \in Names(s) <=> \E i \in 1..Len(s) : s[i].name = x
  BY <1>1 DEF Names
<1> QED BY <1>1, <1>2, FindByName

At(env, x) == env[findByName(env, x)]

(* A name that a lists at most once, t lists at most once.                 *)
KeepsSingle(a, t) == \A x : AtMostOne(a, x) => AtMostOne(t, x)

(* The vars of F are listed before the combined attributes.                *)
Lead(t, F) ==
    /\ F \subseteq Names(t)
    /\ Attrs \in Names(t) =>
          \A r \in F : findByName(t, r) < findByName(t, Attrs)

(* The vars of w are written over the first ones of their names.           *)
Overwrites(a, t, w) ==
    /\ Len(t) = Len(a)
    /\ \A i \in 1..Len(a) :
          t[i] = IF a[i].name \in DOMAIN w /\ findByName(a, a[i].name) = i
                 THEN w[a[i].name] ELSE a[i]

(* t has the names of a and w; says what w says, else what a says; keeps   *)
(* the order of a's first vars, unless it has moved the later one, of F,   *)
(* up; is no longer than it must be; and is a itself, with w written over  *)
(* it, if there was nothing to append or to move.                          *)
Edits(a, t, w, F) ==
    /\ IsEnv(t)
    /\ Names(t) = Names(a) \cup DOMAIN w
    /\ \A x \in Names(t) :
          At(t, x) = IF x \in DOMAIN w THEN w[x] ELSE At(a, x)
    /\ \A x \in Names(a), y \in Names(t) \ F :
          (y \in Names(a) => findByName(a, x) < findByName(a, y)) =>
             findByName(t, x) < findByName(t, y)
    /\ IsFiniteSet(Names(t) \ Names(a))
    /\ Len(t) = Len(a) + Cardinality(Names(t) \ Names(a))
    /\ KeepsSingle(a, t)
    /\ DOMAIN w \subseteq Names(a) /\ Lead(a, F) => Overwrites(a, t, w)

(* The var at a name is a var, and has that name.                          *)
LEMMA AtFacts ==
    ASSUME NEW a, IsEnv(a), NEW x \in Names(a)
    PROVE  IsVar(At(a, x)) /\ At(a, x).name = x
BY NamesFound, SeqFacts DEF IsEnv, At

LEMMA NoEdit ==
    ASSUME NEW a, IsEnv(a), NEW w, DOMAIN w = {}
    PROVE  Edits(a, a, w, {})
<1>1. Len(a) \in Nat
  BY SeqFacts DEF IsEnv
<1>2. Names(a) \ Names(a) = {}
  OBVIOUS
<1>3. Overwrites(a, a, w)
  BY DEF Overwrites
<1> QED BY <1>1, <1>2, <1>3, FS_EmptySet DEF Edits, KeepsSingle

LEMMA EditsCompose ==
    ASSUME NEW a, IsEnv(a), NEW b, NEW t, NEW v, NEW w, NEW F, NEW G, NEW H,
           Edits(a, b, v, F), Edits(b, t, w, G), F \subseteq H, G \subseteq H
    PROVE  Edits(a, t, Updated(v, w), H)
<1> DEFINE u == Updated(v, w)
<1>1. DOMAIN u = DOMAIN v \cup DOMAIN w
  BY DEF Updated
<1>2. \A x \in DOMAIN u : u[x] = IF x \in DOMAIN w THEN w[x] ELSE v[x]
  BY DEF Updated
<1> HIDE DEF u
<1>3. IsEnv(t) /\ Names(t) = Names(a) \cup DOMAIN u
  BY <1>1 DEF Edits
<1>4. ASSUME NEW x \in Names(t)
      PROVE  At(t, x) = IF x \in DOMAIN u THEN u[x] ELSE At(a, x)
  BY <1>1, <1>2 DEF Edits
<1>5. ASSUME NEW x \in Names(a), NEW y \in Names(t) \ H,
             y \in Names(a) => findByName(a, x) < findByName(a, y)
      PROVE  findByName(t, x) < findByName(t, y)
  BY <1>5 DEF Edits
<1> DEFINE A == Names(a)
           B == Names(b)
           T == Names(t)
<1>6. A \subseteq B /\ B \subseteq T
  BY DEF Edits
<1>7. /\ IsFiniteSet(B \ A) /\ IsFiniteSet(T \ B)
      /\ Len(b) = Len(a) + Cardinality(B \ A)
      /\ Len(t) = Len(b) + Cardinality(T \ B)
  BY DEF Edits
<1> HIDE DEF A, B, T
<1>8. T \ A = (B \ A) \cup (T \ B) /\ (B \ A) \cap (T \ B) = {}
  BY <1>6
<1>9. IsFiniteSet(T \ A)
      /\ Cardinality(T \ A) = Cardinality(B \ A) + Cardinality(T \ B)
  <2>1. /\ Cardinality(B \ A) \in Nat /\ Cardinality(T \ B) \in Nat
        /\ Cardinality((B \ A) \cap (T \ B)) = 0
    BY <1>7, <1>8, FS_CardinalityType, FS_EmptySet
  <2>2. /\ IsFiniteSet((B \ A) \cup (T \ B))
        /\ Cardinality((B \ A) \cup (T \ B)) = Cardinality(B \ A)
              + Cardinality(T \ B) - Cardinality((B \ A) \cap (T \ B))
    BY <1>7, FS_Union
  <2>3. /\ IsFiniteSet(T \ A)
        /\ Cardinality(T \ A) = Cardinality((B \ A) \cup (T \ B))
    BY <1>8, <2>2, Zenon
  <2> QED BY <2>1, <2>2, <2>3
<1>10. Len(t) = Len(a) + Cardinality(T \ A)
  BY <1>7, <1>9, SeqFacts, FS_CardinalityType DEF IsEnv
<1>11. KeepsSingle(a, t)
  BY DEF Edits, KeepsSingle
<1>12. ASSUME DOMAIN u \subseteq Names(a), Lead(a, H) PROVE Overwrites(a, t, u)
  <2>1. DOMAIN v \subseteq Names(a) /\ Lead(a, F)
    BY <1>1, <1>12 DEF Lead
  <2>2. Overwrites(a, b, v)
    BY <2>1 DEF Edits
  <2>3. IsSeq(a) /\ IsEnv(b) /\ IsSeq(b) /\ Names(b) = Names(a)
    BY <1>1, <1>12 DEF Edits, IsEnv
  <2>4. ASSUME NEW x \in DOMAIN v PROVE v[x].name = x
    BY <2>3, <2>4, AtFacts DEF Edits
  <2>5. Len(b) = Len(a) /\ \A i \in 1..Len(a) : b[i].name = a[i].name
    BY <2>2, <2>4 DEF Overwrites
  <2>6. ASSUME NEW x \in Names(a) PROVE findByName(b, x) = findByName(a, x)
    BY <2>3, <2>5, <2>6, FirstIsFound, NamesFound
  <2>7. Lead(b, G)
    BY <1>12, <2>3, <2>6 DEF Lead
  <2>8. Overwrites(b, t, w)
    BY <1>1, <1>12, <2>3, <2>7 DEF Edits
  <2>9. ASSUME NEW i \in 1..Len(a)
        PROVE  t[i] = IF a[i].name \in DOMAIN u /\ findByName(a, a[i].name) = i
                      THEN u[a[i].name] ELSE a[i]
    <3>1. a[i].name \in Names(a)
      BY <2>3, NamesFound
    <3> QED BY <1>1, <1>2, <2>2, <2>5, <2>6, <2>8, <3>1 DEF Overwrites
  <2> QED BY <2>5, <2>8, <2>9 DEF Overwrites
<1> QED BY <1>3, <1>4, <1>5, <1>9, <1>10, <1>11, <1>12 DEF Edits, A, T, u

LEMMA UpsertEdits ==
    ASSUME NEW a, IsEnv(a), NEW e, IsVar(e)
    PROVE  Edits(a, Upsert(a, e), [x \in {e.name} |-> e], {})
<1> DEFINE t == Upsert(a, e)
           n == e.name
           p == findByName(a, n)
<1>1. IsSeq(a) /\ Len(a) \in Nat /\ DOMAIN a = 1..Len(a)
  BY SeqFacts DEF IsEnv
<1>2. /\ IsSeq(t) /\ Len(t) = IF p # 0 THEN Len(a) ELSE Len(a) + 1
      /\ \A i \in 1..Len(t) :
            t[i] = IF i = p \/ i = Len(a) + 1 THEN e ELSE a[i]
  BY <1>1, UpsertFacts
<1>3. /\ p \in 0..Len(a)
      /\ n \in Names(a) <=> p # 0
      /\ p # 0 => a[p].name = n
  BY <1>1, NamesFound
<1> HIDE DEF t, p
<1>4. DOMAIN t = 1..Len(t)
  BY <1>2, SeqFacts
<1>5. IsEnv(t)
  BY <1>1, <1>2, <1>4 DEF IsEnv
<1>6. \A i \in 1..Len(a) : i \in 1..Len(t) /\ t[i].name = a[i].name
  BY <1>1, <1>2, <1>3
<1>7. \A i \in 1..Len(t) \ 1..Len(a) : i = Len(a) + 1 /\ p = 0 /\ t[i] = e
  BY <1>1, <1>2, <1>3
<1>8. ASSUME NEW x \in Names(a) PROVE findByName(t, x) = findByName(a, x)
  <2>1. /\ findByName(a, x) \in 1..Len(a) /\ a[findByName(a, x)].name = x
        /\ \A i \in 1..Len(a) : a[i].name = x => findByName(a, x) <= i
    BY <1>1, NamesFound
  <2>2. /\ findByName(a, x) \in 1..Len(t) /\ t[findByName(a, x)].name = x
        /\ \A i \in 1..Len(t) : t[i].name = x => findByName(a, x) <= i
    BY <1>1, <1>2, <1>6, <1>7, <2>1
  <2> QED BY <1>2, <2>2, FirstIsFound
<1>9. ASSUME p = 0 PROVE findByName(t, n) = Len(a) + 1 /\ t[Len(a) + 1] = e
  <2>1. Len(a) + 1 \in 1..Len(t) /\ t[Len(a) + 1] = e
    BY <1>1, <1>2, <1>9
  <2>2. \A i \in 1..Len(a) : t[i].name # n
    BY <1>1, <1>3, <1>6, <1>9, NamesFound
  <2>3. \A i \in 1..Len(t) : t[i].name = n => Len(a) + 1 <= i
    BY <1>1, <1>2, <1>9, <2>2
  <2> QED BY <1>2, <2>1, <2>3, FirstIsFound
<1>10. Names(t) = Names(a) \cup {n}
  <2>1. ASSUME NEW x \in Names(t) PROVE x \in Names(a) \cup {n}
    BY <1>1, <1>2, <1>6, <1>7, NamesFound
  <2>2. ASSUME NEW x \in Names(a) PROVE x \in Names(t)
    BY <1>1, <1>2, <1>6, NamesFound
  <2>3. n \in Names(t)
    BY <1>1, <1>2, <1>3, <1>9, <2>2, NamesFound
  <2> QED BY <2>1, <2>2, <2>3
<1>11. ASSUME NEW x \in Names(t) PROVE At(t, x) = IF x = n THEN e ELSE At(a, x)
  <2>1. CASE x \in Names(a)
    <3>1. /\ findByName(a, x) \in 1..Len(a) /\ a[findByName(a, x)].name = x
          /\ findByName(t, x) = findByName(a, x) /\ findByName(a, x) \in 1..Len(t)
      BY <1>1, <1>2, <1>8, <2>1, NamesFound
    <3>2. CASE x = n
      BY <1>1, <1>2, <1>3, <3>1, <3>2 DEF At, p
    <3>3. CASE x # n
      <4>1. findByName(a, x) # p /\ findByName(a, x) # Len(a) + 1
        BY <1>1, <1>3, <3>1, <3>3
      <4> QED BY <1>2, <3>1, <3>3, <4>1 DEF At
    <3> QED BY <3>2, <3>3
  <2>2. CASE x \notin Names(a)
    BY <1>3, <1>9, <1>10, <2>2 DEF At
  <2> QED BY <2>1, <2>2
<1>12. ASSUME NEW x \in Names(a), NEW y \in Names(t),
              y \in Names(a) => findByName(a, x) < findByName(a, y)
       PROVE  findByName(t, x) < findByName(t, y)
  <2>1. CASE y \in Names(a)
    BY <1>8, <1>12, <2>1
  <2>2. CASE y \notin Names(a)
    <3>1. findByName(t, y) = Len(a) + 1
      BY <1>3, <1>9, <1>10, <2>2
    <3>2. findByName(t, x) \in 1..Len(a)
      BY <1>1, <1>8, NamesFound
    <3> QED BY <1>1, <3>1, <3>2
  <2> QED BY <2>1, <2>2
<1>13. /\ IsFiniteSet(Names(t) \ Names(a))
       /\ Len(t) = Len(a) + Cardinality(Names(t) \ Names(a))
  <2>1. CASE p # 0
    <3>1. Names(t) \ Names(a) = {} /\ Len(t) = Len(a) + 0
      BY <1>1, <1>2, <1>3, <1>10, <2>1
    <3> QED BY <3>1, FS_EmptySet
  <2>2. CASE p = 0
    <3>1. Names(t) \ Names(a) = {n} /\ Len(t) = Len(a) + 1
      BY <1>1, <1>2, <1>3, <1>10, <2>2
    <3> QED BY <3>1, FS_Singleton
  <2> QED BY <2>1, <2>2
<1> DEFINE w == [x \in {n} |-> e]
<1>14. DOMAIN w = {n} /\ w[n] = e
  OBVIOUS
<1> HIDE DEF w
<1>15. KeepsSingle(a, t)
  <2> SUFFICES ASSUME NEW x, AtMostOne(a, x), NEW i \in 1..Len(t),
                      NEW j \in 1..Len(t), t[i].name = x, t[j].name = x
               PROVE  i = j
    BY <1>4 DEF KeepsSingle, AtMostOne
  <2>1. CASE x \in Names(a)
    <3>1. i \in 1..Len(a) /\ j \in 1..Len(a)
      BY <1>1, <1>3, <1>7, <2>1
    <3> QED BY <1>1, <1>6, <3>1 DEF AtMostOne
  <2>2. CASE x \notin Names(a)
    BY <1>1, <1>6, <1>7, <2>2, NamesFound
  <2> QED BY <2>1, <2>2
<1>16. ASSUME n \in Names(a) PROVE Overwrites(a, t, w)
  <2>1. /\ p \in 1..Len(a) /\ Len(t) = Len(a)
        /\ \A i \in 1..Len(a) : t[i] = IF i = p THEN e ELSE a[i]
    <3>1. p # 0 /\ p \in 1..Len(a)
      BY <1>1, <1>3, <1>16
    <3> QED BY <1>1, <1>2, <3>1
  <2>2. ASSUME NEW i \in 1..Len(a)
        PROVE  i = p <=> a[i].name \in DOMAIN w /\ findByName(a, a[i].name) = i
    BY <1>3, <1>14, <2>1 DEF p
  <2> QED BY <1>14, <2>1, <2>2 DEF Overwrites
<1>17. Edits(a, t, w, {})
  BY <1>5, <1>10, <1>11, <1>12, <1>13, <1>14, <1>15, <1>16 DEF Edits
<1> QED BY <1>17 DEF t, w

LEMMA FieldVarIsVar == ASSUME NEW n, NEW path PROVE IsVar(FieldVar(n, path))
BY DEF IsVar, FieldVar, IsSeq, ToSet

Field(n, path) == [x \in {n} |-> FieldVar(n, path)]

LEMMA FieldPathEdits ==
    ASSUME NEW a, IsEnv(a), NEW n, n # Attrs, NEW path
    PROVE  LET t == setEnvVarFromFieldPath(a, n, path) IN
           /\ Edits(a, t, Field(n, path), {n})
           /\ Attrs \in Names(t) => findByName(t, n) < findByName(t, Attrs)
<1> DEFINE t == setEnvVarFromFieldPath(a, n, path)
           f == FieldVar(n, path)
<1>1. IsSeq(a) /\ Len(a) \in Nat /\ DOMAIN a = 1..Len(a)
  BY SeqFacts DEF IsEnv
<1>2. PICK p, q \in 1..Len(a) + 1 : Moved(a, t, n, path, p, q)
  BY <1>1, FieldPathMoves
<1>3. /\ IsSeq(t) /\ q <= p
      /\ Len(t) = IF p <= Len(a) THEN Len(a) ELSE Len(a) + 1
      /\ p <= Len(a) => a[p].name = n
      /\ \A i \in 1..Len(a) : a[i].name = n => p <= i
      /\ \A i \in 1..Len(t) :
            t[i] = IF i < q THEN a[i] ELSE IF i = q THEN f
                   ELSE IF i <= p THEN a[i - 1] ELSE a[i]
      /\ \A i \in 1..Len(a) : a[i].name = Attrs => q <= i
      /\ q < p => q \in 1..Len(a) /\ a[q].name = Attrs
  BY <1>2 DEF Moved
<1>4. IsVar(f) /\ f.name = n
  BY FieldVarIsVar DEF FieldVar
<1> HIDE DEF t, f
<1>5. DOMAIN t = 1..Len(t)
  BY <1>3, SeqFacts
<1> DEFINE to(i) == IF i < q THEN i ELSE IF i < p THEN i + 1 ELSE i
           back(i) == IF i < q THEN i ELSE IF i <= p THEN i - 1 ELSE i
<1>6. ASSUME NEW i \in 1..Len(a), i # p
      PROVE  to(i) \in 1..Len(t) /\ t[to(i)] = a[i] /\ to(i) # q
  <2>1. CASE i < q
    BY <1>1, <1>3, <1>6, <2>1
  <2>2. CASE q <= i /\ i < p
    <3>1. to(i) = i + 1 /\ i + 1 \in 1..Len(t) /\ i + 1 <= p /\ q < i + 1
      BY <1>1, <1>3, <1>6, <2>2
    <3>2. t[i + 1] = a[(i + 1) - 1] /\ (i + 1) - 1 = i
      BY <1>1, <1>3, <3>1
    <3> QED BY <1>1, <3>1, <3>2
  <2>3. CASE p < i
    BY <1>1, <1>3, <1>6, <2>3
  <2> QED BY <1>1, <1>6, <2>1, <2>2, <2>3
<1>7. ASSUME NEW i \in 1..Len(t), i # q
      PROVE  /\ back(i) \in 1..Len(a) /\ t[i] = a[back(i)]
             /\ back(i) # p /\ to(back(i)) = i
  <2>1. CASE i < q
    BY <1>1, <1>3, <1>7, <2>1
  <2>2. CASE q < i /\ i <= p
    <3>1. back(i) = i - 1 /\ i - 1 \in 1..Len(a) /\ q <= i - 1 /\ i - 1 < p
      BY <1>1, <1>3, <1>7, <2>2
    <3>2. t[i] = a[i - 1] /\ to(i - 1) = i
      BY <1>1, <1>3, <2>2, <3>1
    <3> QED BY <1>1, <3>1, <3>2
  <2>3. CASE p < i
    BY <1>1, <1>3, <1>7, <2>3
  <2> QED BY <1>1, <1>3, <1>7, <2>1, <2>2, <2>3
<1>8. q \in 1..Len(t) /\ t[q] = f
  BY <1>1, <1>3
<1>9. IsEnv(t)
  BY <1>3, <1>4, <1>5, <1>7, <1>8, <1>1 DEF IsEnv
<1>10. findByName(t, n) = q
  <2>1. ASSUME NEW i \in 1..Len(t), t[i].name = n PROVE q <= i
    <3> SUFFICES ASSUME i < q PROVE FALSE
      BY <1>1
    <3>1. i \in 1..Len(a) /\ a[i].name = n /\ i < p
      BY <1>1, <1>3, <2>1
    <3> QED BY <1>1, <1>3, <3>1
  <2>2. t[q].name = n
    BY <1>4, <1>8
  <2> QED BY <1>3, <1>8, <2>1, <2>2, FirstIsFound
<1>11. ASSUME NEW x \in Names(a), x # n
       PROVE  /\ findByName(t, x) = to(findByName(a, x))
              /\ findByName(a, x) \in 1..Len(a) /\ findByName(a, x) # p
  <2> DEFINE k == findByName(a, x)
  <2>1. /\ k \in 1..Len(a) /\ a[k].name = x
        /\ \A i \in 1..Len(a) : a[i].name = x => k <= i
    BY <1>1, NamesFound
  <2> HIDE DEF k
  <2>2. k # p
    BY <1>1, <1>3, <1>11, <2>1
  <2>3. to(k) \in 1..Len(t) /\ t[to(k)].name = x
    BY <1>6, <2>1, <2>2
  <2>4. ASSUME NEW i \in 1..Len(t), t[i].name = x PROVE to(k) <= i
    <3>1. i # q
      BY <1>4, <1>8, <1>11, <2>4
    <3>2. k <= back(i) /\ back(i) \in 1..Len(a) /\ to(back(i)) = i
      BY <1>7, <2>1, <2>4, <3>1
    <3> QED BY <1>1, <2>1, <3>2
  <2>5. findByName(t, x) = to(k)
    <3> HIDE DEF to
    <3> QED BY <1>3, <2>3, <2>4, FirstIsFound
  <2> QED BY <2>1, <2>2, <2>5 DEF k
<1>12. Names(t) = Names(a) \cup {n}
  <2>1. ASSUME NEW x \in Names(t) PROVE x \in Names(a) \cup {n}
    <3>1. PICK i \in 1..Len(t) : t[i].name = x
      BY <1>3, NamesFound
    <3>2. CASE i = q
      BY <1>4, <1>8, <3>1, <3>2
    <3>3. CASE i # q
      <4>1. back(i) \in 1..Len(a) /\ a[back(i)].name = x
        BY <1>7, <3>1, <3>3
      <4> QED BY <1>1, <4>1, NamesFound
    <3> QED BY <3>2, <3>3
  <2>2. n \in Names(t)
    BY <1>3, <1>4, <1>8, NamesFound
  <2>3. ASSUME NEW x \in Names(a), x # n PROVE x \in Names(t)
    <3>1. PICK i \in 1..Len(a) : a[i].name = x
      BY <1>1, NamesFound
    <3>2. to(i) \in 1..Len(t) /\ t[to(i)].name = x
      BY <1>1, <1>3, <1>6, <2>3, <3>1
    <3> QED BY <1>3, <3>2, NamesFound
  <2> QED BY <2>1, <2>2, <2>3
<1>13. ASSUME NEW x \in Names(t) PROVE At(t, x) = IF x = n THEN f ELSE At(a, x)
  <2>1. CASE x = n
    BY <1>8, <1>10, <2>1 DEF At
  <2>2. CASE x # n
    <3>1. x \in Names(a)
      BY <1>12, <2>2
    <3> QED BY <1>6, <1>11, <2>2, <3>1 DEF At
  <2> QED BY <2>1, <2>2
<1>14. ASSUME NEW x \in Names(a), NEW y \in Names(t) \ {n},
              y \in Names(a) => findByName(a, x) < findByName(a, y)
       PROVE  findByName(t, x) < findByName(t, y)
  <2>1. y \in Names(a) /\ y # n
    BY <1>12
  <2>2. /\ findByName(t, y) = to(findByName(a, y))
        /\ findByName(a, y) \in 1..Len(a)
    BY <1>11, <2>1
  <2>3. CASE x # n
    BY <1>1, <1>11, <1>14, <2>1, <2>2, <2>3
  <2>4. CASE x = n
    <3>1. findByName(a, x) = p
      <4>1. findByName(a, x) \in 1..Len(a) /\ a[findByName(a, x)].name = n
        BY <1>1, <2>4, NamesFound
      <4>2. p <= findByName(a, x) /\ p \in 1..Len(a)
        BY <1>1, <1>3, <4>1
      <4> QED BY <1>1, <1>3, <4>2, <2>4, FirstIsFound
    <3> QED BY <1>1, <1>3, <1>10, <1>14, <2>1, <2>2, <2>4, <3>1
  <2> QED BY <2>3, <2>4
<1>15. ASSUME Attrs \in Names(t) PROVE findByName(t, n) < findByName(t, Attrs)
  <2>1. Attrs \in Names(a)
    BY <1>12, <1>15
  <2>2. /\ findByName(t, Attrs) = to(findByName(a, Attrs))
        /\ findByName(a, Attrs) \in 1..Len(a) /\ findByName(a, Attrs) # p
    BY <1>11, <2>1
  <2>3. q <= findByName(a, Attrs)
    BY <1>1, <1>3, <2>1, NamesFound
  <2> QED BY <1>1, <1>3, <1>10, <2>2, <2>3
<1>16. /\ IsFiniteSet(Names(t) \ Names(a))
       /\ Len(t) = Len(a) + Cardinality(Names(t) \ Names(a))
  <2>1. CASE p <= Len(a)
    <3>1. n \in Names(a)
      BY <1>1, <1>3, <2>1, NamesFound
    <3>2. Names(t) \ Names(a) = {} /\ Len(t) = Len(a) + 0
      BY <1>1, <1>3, <1>12, <2>1, <3>1
    <3> QED BY <3>2, FS_EmptySet
  <2>2. CASE ~(p <= Len(a))
    <3>1. n \notin Names(a)
      BY <1>1, <1>3, <2>2, NamesFound
    <3>2. Names(t) \ Names(a) = {n} /\ Len(t) = Len(a) + 1
      BY <1>1, <1>3, <1>12, <2>2, <3>1
    <3> QED BY <3>2, FS_Singleton
  <2> QED BY <2>1, <2>2
<1>17. DOMAIN Field(n, path) = {n} /\ Field(n, path)[n] = f
  BY DEF Field, f
<1>18. KeepsSingle(a, t)
  <2> SUFFICES ASSUME NEW x, AtMostOne(a, x), NEW i \in 1..Len(t),
                      NEW j \in 1..Len(t), t[i].name = x, t[j].name = x
               PROVE  i = j
    BY <1>5 DEF KeepsSingle, AtMostOne
  <2>1. ASSUME NEW k \in 1..Len(t), t[k].name = n, x = n PROVE k = q
    <3> SUFFICES ASSUME k # q PROVE FALSE
      OBVIOUS
    <3>1. back(k) \in 1..Len(a) /\ a[back(k)].name = n /\ back(k) # p
      BY <1>7, <2>1
    <3> HIDE DEF back
    <3>2. p \in 1..Len(a) /\ a[p].name = n
      BY <1>1, <1>3, <3>1
    <3> QED BY <1>1, <2>1, <3>1, <3>2 DEF AtMostOne
  <2>2. CASE x = n
    BY <2>1, <2>2
  <2>3. CASE x # n
    <3>1. i # q /\ j # q
      BY <1>4, <1>8, <2>3
    <3>2. /\ back(i) \in 1..Len(a) /\ a[back(i)].name = x /\ to(back(i)) = i
          /\ back(j) \in 1..Len(a) /\ a[back(j)].name = x /\ to(back(j)) = j
      BY <1>7, <3>1
    <3> HIDE DEF back, to
    <3>3. back(i) = back(j)
      BY <1>1, <3>2 DEF AtMostOne
    <3> QED BY <3>2, <3>3
  <2> QED BY <2>2, <2>3
<1>19. ASSUME n \in Names(a), Lead(a, {n})
       PROVE  Overwrites(a, t, Field(n, path))
  <2>1. p = findByName(a, n) /\ p \in 1..Len(a)
    <3>1. findByName(a, n) \in 1..Len(a) /\ a[findByName(a, n)].name = n
      BY <1>1, <1>19, NamesFound
    <3>2. p <= findByName(a, n) /\ p \in 1..Len(a)
      BY <1>1, <1>3, <3>1
    <3> QED BY <1>1, <1>3, <3>2, FirstIsFound
  <2>2. q = p
    <3> SUFFICES ASSUME q < p PROVE FALSE
      BY <1>1, <1>3
    <3>1. Attrs \in Names(a) /\ findByName(a, Attrs) <= q
      BY <1>1, <1>3, NamesFound
    <3>2. p < findByName(a, Attrs) /\ findByName(a, Attrs) \in 1..Len(a)
      BY <1>1, <1>19, <2>1, <3>1, NamesFound DEF Lead
    <3> QED BY <1>1, <1>3, <3>1, <3>2
  <2>3. /\ Len(t) = Len(a)
        /\ \A i \in 1..Len(a) : t[i] = IF i = p THEN f ELSE a[i]
    BY <1>1, <1>3, <2>1, <2>2
  <2>4. ASSUME NEW i \in 1..Len(a)
        PROVE  i = p <=> a[i].name = n /\ findByName(a, a[i].name) = i
    BY <1>3, <2>1
  <2> QED BY <1>17, <2>3, <2>4 DEF Overwrites
<1>20. Edits(a, t, Field(n, path), {n})
  <2> DEFINE w == Field(n, path)
  <2> HIDE DEF w
  <2>1. DOMAIN w = {n} /\ w[n] = f
    BY <1>17 DEF w
  <2>2. DOMAIN w \subseteq Names(a) /\ Lead(a, {n}) => Overwrites(a, t, w)
    BY <1>19, <2>1 DEF w
  <2>3. Edits(a, t, w, {n})
    BY <1>9, <1>12, <1>13, <1>14, <1>16, <1>18, <2>1, <2>2 DEF Edits
  <2> QED BY <2>3 DEF w
<1> QED BY <1>15, <1>20 DEF t

(* The vars a list of vars leaves behind: the last one of each name.       *)
Leaves(vs, w) ==
    /\ DOMAIN w = Names(vs)
    /\ \A x \in DOMAIN w :
          \E k \in DOMAIN vs :
             /\ w[x] = vs[k] /\ vs[k].name = x
             /\ \A m \in DOMAIN vs : vs[m].name = x => m <= k

LEMMA ApplyEdits ==
    ASSUME NEW vs, IsEnv(vs)
    PROVE  \E w : /\ Leaves(vs, w)
                  /\ \A a : IsEnv(a) => Edits(a, applyEnvVars(a, vs), w, {})
<1>1. IsSeq(vs) /\ Len(vs) \in Nat /\ DOMAIN vs = 1..Len(vs)
  BY SeqFacts DEF IsEnv
<1> DEFINE Q(n, w) ==
             /\ DOMAIN w = {vs[k].name : k \in 1..n}
             /\ \A x \in DOMAIN w : \E k \in 1..n :
                   /\ w[x] = vs[k] /\ vs[k].name = x
                   /\ \A m \in 1..n : vs[m].name = x => m <= k
             /\ \A a : IsEnv(a) => Edits(a, Applied(a, vs)[n], w, {})
           S == {n \in Nat : n <= Len(vs) => \E w : Q(n, w)}
<1> HIDE DEF Q
<1>2. 0 \in S
  <2> DEFINE w == [x \in {} |-> x]
  <2>1. DOMAIN w = {} /\ {vs[k].name : k \in 1..0} = {}
    OBVIOUS
  <2>2. ASSUME NEW a, IsEnv(a) PROVE Edits(a, Applied(a, vs)[0], w, {})
    <3>1. Applied(a, vs)[0] = a
      BY <1>1, AppliedUnfolds
    <3> HIDE DEF w
    <3> QED BY <2>1, <2>2, <3>1, NoEdit
  <2> HIDE DEF w
  <2>3. Q(0, w)
    BY <2>1, <2>2 DEF Q
  <2> QED BY <2>3
<1>3. ASSUME NEW n \in Nat, n \in S PROVE n + 1 \in S
  <2> SUFFICES ASSUME n + 1 <= Len(vs) PROVE \E w : Q(n + 1, w)
    OBVIOUS
  <2>1. PICK v : Q(n, v)
    BY <1>1, <1>3
  <2> DEFINE e == vs[n + 1]
             u == [x \in {e.name} |-> e]
             w == Updated(v, u)
  <2>2. n + 1 \in 1..Len(vs) /\ IsVar(e)
    BY <1>1 DEF IsEnv
  <2>3. DOMAIN u = {e.name} /\ u[e.name] = e
    OBVIOUS
  <2>4. ASSUME NEW a, IsEnv(a) PROVE Edits(a, Applied(a, vs)[n + 1], w, {})
    <3>1. Applied(a, vs)[n + 1] = Upsert(Applied(a, vs)[n], e)
      BY <1>1, <2>2, AppliedUnfolds
    <3>2. Edits(a, Applied(a, vs)[n], v, {})
      BY <2>1, <2>4 DEF Q
    <3>3. IsEnv(Applied(a, vs)[n])
      BY <3>2 DEF Edits
    <3>4. Edits(Applied(a, vs)[n], Applied(a, vs)[n + 1], u, {})
      BY <2>2, <3>1, <3>3, UpsertEdits
    <3> HIDE DEF u
    <3> QED BY <2>4, <3>2, <3>4, EditsCompose
  <2> HIDE DEF u, e
  <2>5. /\ DOMAIN w = DOMAIN v \cup {e.name}
        /\ \A x \in DOMAIN w : w[x] = IF x = e.name THEN e ELSE v[x]
    BY <2>3 DEF Updated
  <2> HIDE DEF w
  <2>6. 1..n + 1 = 1..n \cup {n + 1}
    OBVIOUS
  <2>7. DOMAIN w = {vs[k].name : k \in 1..n + 1}
    BY <2>1, <2>5, <2>6 DEF e, Q
  <2>8. ASSUME NEW x \in DOMAIN w
        PROVE  \E k \in 1..n + 1 :
                  /\ w[x] = vs[k] /\ vs[k].name = x
                  /\ \A m \in 1..n + 1 : vs[m].name = x => m <= k
    <3>1. CASE x = e.name
      BY <2>5, <2>6, <3>1 DEF e
    <3>2. CASE x # e.name
      <4>1. x \in DOMAIN v
        BY <2>5, <3>2
      <4>2. PICK k \in 1..n : /\ v[x] = vs[k] /\ vs[k].name = x
                              /\ \A m \in 1..n : vs[m].name = x => m <= k
        BY <2>1, <4>1 DEF Q
      <4> QED BY <2>5, <2>6, <3>2, <4>2 DEF e
    <3> QED BY <3>1, <3>2
  <2>9. Q(n + 1, w)
    BY <2>4, <2>7, <2>8 DEF Q
  <2> QED BY <2>9
<1>4. \E w : Q(Len(vs), w)
  <2>1. Nat \subseteq S
    <3> HIDE DEF S
    <3> QED BY <1>2, <1>3, SetInduction
  <2> QED BY <1>1, <2>1
<1>5. PICK w : Q(Len(vs), w)
  BY <1>4
<1>6. Leaves(vs, w)
  BY <1>1, <1>5 DEF Leaves, Names, Q
<1>7. ASSUME NEW a, IsEnv(a) PROVE Edits(a, applyEnvVars(a, vs), w, {})
  BY <1>5, <1>7 DEF applyEnvVars, Q
<1> QED BY <1>6, <1>7

-----------------------------------------------------------------------------
(* What is written, and what it refers to.                                 *)

LEMMA RefsMember ==
    ASSUME NEW value, NEW r
    PROVE  r \in Refs(value) <=>
              \E i \in DOMAIN value : \E a \in value[i] : r \in a.refs
BY DEF Refs

LEMMA NoRefs == Refs(<<>>) = {} /\ IsSeq(<<>>)
BY RefsMember DEF IsSeq

LEMMA LitFacts == ASSUME NEW text PROVE IsSeq(Lit(text)) /\ Refs(Lit(text)) = {}
<1>1. CASE text = ""
  BY <1>1, NoRefs DEF Lit
<1>2. CASE text # ""
  <2> DEFINE v == <<{Atom("", {}, text)}>>
  <2>1. Lit(text) = v
    BY <1>2 DEF Lit
  <2>2. DOMAIN v = {1} /\ v[1] = {Atom("", {}, text)} /\ v \in Seq({v[1]})
    OBVIOUS
  <2>3. Atom("", {}, text).refs = {}
    BY DEF Atom
  <2> HIDE DEF v
  <2>4. Refs(v) = {}
    BY <2>2, <2>3, RefsMember
  <2> QED BY <2>1, <2>2, <2>4, AnySeq
<1> QED BY <1>1, <1>2

LEMMA VarFacts ==
    ASSUME NEW n, NEW value, IsSeq(value)
    PROVE  /\ IsVar(Var(n, value)) /\ Var(n, value).name = n
           /\ Var(n, value).value = value
BY DEF IsVar, Var

(* Writes that refer to nothing.                                           *)
Plain(w) == \A x \in DOMAIN w : w[x].name = x /\ Refs(w[x].value) = {}

LEMMA PlainUpdated ==
    ASSUME NEW v, NEW w, Plain(v), Plain(w)
    PROVE  Plain(Updated(v, w)) /\ DOMAIN Updated(v, w) = DOMAIN v \cup DOMAIN w
BY DEF Plain, Updated

FixedNames == {envVarLdPreloadName, "OTEL_INJECTOR_CONFIG_FILE",
               "OTEL_SEMCONV_STABILITY_OPT_IN", "OTEL_INJECTOR_LOG_LEVEL"}

LEMMA FixedVarsFacts ==
    ASSUME NEW cfg
    PROVE  /\ IsEnv(FixedVars(cfg)) /\ Names(FixedVars(cfg)) \subseteq FixedNames
           /\ \A i \in DOMAIN FixedVars(cfg) : Refs(FixedVars(cfg)[i].value) = {}
<1> DEFINE V == {Var(n, Lit(text)) : n \in FixedNames,
                   text \in {"libotelinject.so", "otelinject.conf", "http", "debug"}}
           s == <<Var(envVarLdPreloadName, envVarLdPreloadValue),
                  Var("OTEL_INJECTOR_CONFIG_FILE", Lit("otelinject.conf")),
                  Var("OTEL_SEMCONV_STABILITY_OPT_IN", Lit("http"))>>
           d == IF cfg.debug THEN <<Var("OTEL_INJECTOR_LOG_LEVEL", Lit("debug"))>>
                ELSE <<>>
<1>1. s \in Seq(V) /\ d \in Seq(V)
  <2>1. /\ Var(envVarLdPreloadName, envVarLdPreloadValue) \in V
        /\ Var("OTEL_INJECTOR_CONFIG_FILE", Lit("otelinject.conf")) \in V
        /\ Var("OTEL_SEMCONV_STABILITY_OPT_IN", Lit("http")) \in V
        /\ Var("OTEL_INJECTOR_LOG_LEVEL", Lit("debug")) \in V
    BY DEF FixedNames, envVarLdPreloadValue
  <2> HIDE DEF V
  <2> QED BY <2>1
<1>2. FixedVars(cfg) = s \o d
  BY DEF FixedVars
<1>3. \A v \in V : IsVar(v) /\ v.name \in FixedNames /\ Refs(v.value) = {}
  BY LitFacts, VarFacts
<1> HIDE DEF V, s, d
<1>4. FixedVars(cfg) \in Seq(V)
  BY <1>1, <1>2, ConcatProperties
<1>5. \A i \in DOMAIN FixedVars(cfg) : FixedVars(cfg)[i] \in V
  BY <1>4
<1>6. IsSeq(FixedVars(cfg))
  BY <1>4, AnySeq
<1> QED BY <1>3, <1>5, <1>6 DEF IsEnv, Names

LEMMA SetEnvVarEdits ==
    ASSUME NEW n, NEW value, IsSeq(value)
    PROVE  \E w : /\ \/ DOMAIN w = {} /\ value = <<>>
                     \/ DOMAIN w = {n} /\ w[n] = Var(n, value)
                  /\ \A a : IsEnv(a) => Edits(a, setEnvVar(a, n, value), w, {})
<1>1. CASE value = <<>>
  <2> DEFINE w == [x \in {} |-> x]
  <2>1. DOMAIN w = {}
    OBVIOUS
  <2> HIDE DEF w
  <2>2. \A a : IsEnv(a) => Edits(a, setEnvVar(a, n, value), w, {})
    BY <1>1, <2>1, NoEdit DEF setEnvVar
  <2> QED BY <1>1, <2>1, <2>2
<1>2. CASE value # <<>>
  <2> DEFINE e == Var(n, value)
             w == [x \in {e.name} |-> e]
  <2>1. IsVar(e) /\ e.name = n
    BY VarFacts
  <2>2. DOMAIN w = {n} /\ w[n] = e
    BY <2>1
  <2>3. ASSUME NEW a, IsEnv(a) PROVE Edits(a, setEnvVar(a, n, value), w, {})
    <3>1. setEnvVar(a, n, value) = Upsert(a, e)
      BY <1>2 DEF setEnvVar, setEnvVarEvenIfEmpty
    <3> HIDE DEF e
    <3> QED BY <2>1, <2>3, <3>1, UpsertEdits
  <2> HIDE DEF w
  <2> QED BY <2>2, <2>3
<1> QED BY <1>1, <1>2

FieldNames(cfg) ==
    {envInjectorOtelK8sNamespaceName, envInjectorOtelK8sPodName,
     envOtelK8sNodeName}
    \cup (IF cfg.ip THEN {envOtelK8sPodIP} ELSE {})
    \cup (IF cfg.uid THEN {envInjectorOtelK8sPodUID} ELSE {})

LEMMA LeadKept ==
    ASSUME NEW a, NEW t, NEW w, NEW F, NEW G, Edits(a, t, w, G),
           Attrs \notin G, Lead(a, F)
    PROVE  Lead(t, F)
BY DEF Edits, Lead

(* The vars of F are set from fields, before the combined attributes.      *)
SetsFields(a, t, w, F) ==
    Edits(a, t, w, F) /\ Lead(t, F) /\ Plain(w) /\ DOMAIN w = F

LEMMA FieldsCompose ==
    ASSUME NEW a, IsEnv(a), NEW b, NEW t, NEW v, NEW w, NEW F, NEW G,
           SetsFields(a, b, v, F), SetsFields(b, t, w, G), Attrs \notin G
    PROVE  SetsFields(a, t, Updated(v, w), F \cup G)
<1> USE DEF SetsFields
<1>1. F \subseteq F \cup G /\ G \subseteq F \cup G
  OBVIOUS
<1>2. Edits(a, t, Updated(v, w), F \cup G)
  BY <1>1, EditsCompose
<1>3. Lead(t, F)
  BY LeadKept
<1>4. Lead(t, F \cup G)
  BY <1>3 DEF Lead
<1> QED BY <1>2, <1>4, PlainUpdated

FieldIf(cond, n, path) == [x \in (IF cond THEN {n} ELSE {}) |-> FieldVar(n, path)]

LEMMA FieldIfEdits ==
    ASSUME NEW cond \in BOOLEAN, NEW n, n # Attrs, NEW path, NEW a, IsEnv(a)
    PROVE  LET t == IF cond THEN setEnvVarFromFieldPath(a, n, path) ELSE a IN
           /\ SetsFields(a, t, FieldIf(cond, n, path), IF cond THEN {n} ELSE {})
           /\ IsEnv(t)
<1>1. CASE cond
  <2> DEFINE t == setEnvVarFromFieldPath(a, n, path)
  <2>1. FieldIf(cond, n, path) = Field(n, path)
    BY <1>1 DEF FieldIf, Field
  <2>2. Plain(Field(n, path)) /\ DOMAIN Field(n, path) = {n}
    BY NoRefs DEF Plain, Field, FieldVar
  <2>3. /\ Edits(a, t, Field(n, path), {n})
        /\ Attrs \in Names(t) => findByName(t, n) < findByName(t, Attrs)
    BY FieldPathEdits
  <2> HIDE DEF t
  <2>4. n \in Names(t) /\ IsEnv(t)
    BY <2>2, <2>3 DEF Edits
  <2>5. Lead(t, {n})
    BY <2>3, <2>4 DEF Lead
  <2> QED BY <1>1, <2>1, <2>2, <2>3, <2>4, <2>5 DEF t, SetsFields
<1>2. CASE ~cond
  <2>1. DOMAIN FieldIf(cond, n, path) = {}
    BY <1>2 DEF FieldIf
  <2> QED BY <1>2, <2>1, NoEdit DEF Lead, Plain, SetsFields
<1> QED BY <1>1, <1>2

LEMMA EmptyEnv == IsEnv(<<>>)
BY NoRefs DEF IsEnv

LEMMA OwnNamesDiffer ==
    /\ envInjectorOtelK8sNamespaceName # Attrs
    /\ envInjectorOtelK8sPodName # Attrs
    /\ envOtelK8sNodeName # Attrs
    /\ envOtelK8sPodIP # Attrs
    /\ envInjectorOtelK8sPodUID # Attrs
BY DEF Attrs, envInjectorOtelExtraResourceAttrs,
       envInjectorOtelK8sNamespaceName, envInjectorOtelK8sPodName,
       envOtelK8sNodeName, envOtelK8sPodIP, envInjectorOtelK8sPodUID

LEMMA FieldVarsEdit ==
    ASSUME NEW cfg, cfg.ip \in BOOLEAN, cfg.uid \in BOOLEAN
    PROVE  \E w : \A a : IsEnv(a) =>
                SetsFields(a, setFieldVars(cfg, a), w, FieldNames(cfg))
<1> DEFINE n1 == envInjectorOtelK8sNamespaceName
           n2 == envInjectorOtelK8sPodName
           n3 == envOtelK8sNodeName
           n4 == envOtelK8sPodIP
           n5 == envInjectorOtelK8sPodUID
           F1 == {n1}
           F2 == {n2}
           F3 == {n3}
           F4 == IF cfg.ip THEN {n4} ELSE {}
           F5 == IF cfg.uid THEN {n5} ELSE {}
           w1 == FieldIf(TRUE, n1, "metadata.namespace")
           w2 == FieldIf(TRUE, n2, "metadata.name")
           w3 == FieldIf(TRUE, n3, "spec.nodeName")
           w4 == FieldIf(cfg.ip, n4, "status.podIP")
           w5 == FieldIf(cfg.uid, n5, "metadata.uid")
           w == Updated(Updated(Updated(Updated(w1, w2), w3), w4), w5)
<1>1. ASSUME NEW a, IsEnv(a)
      PROVE  SetsFields(a, setFieldVars(cfg, a), w, FieldNames(cfg))
  <2> DEFINE e1 == setEnvVarFromFieldPath(a, n1, "metadata.namespace")
             e2 == setEnvVarFromFieldPath(e1, n2, "metadata.name")
             e3 == setEnvVarFromFieldPath(e2, n3, "spec.nodeName")
             e4 == IF cfg.ip THEN setEnvVarFromFieldPath(e3, n4, "status.podIP")
                   ELSE e3
             e5 == IF cfg.uid THEN setEnvVarFromFieldPath(e4, n5, "metadata.uid")
                   ELSE e4
  <2>1. setFieldVars(cfg, a) = e5
    BY DEF setFieldVars
  <2>2. /\ Attrs \notin F1 /\ Attrs \notin F2 /\ Attrs \notin F3
        /\ Attrs \notin F4 /\ Attrs \notin F5
        /\ n1 # Attrs /\ n2 # Attrs /\ n3 # Attrs /\ n4 # Attrs /\ n5 # Attrs
    BY OwnNamesDiffer
  <2>3. SetsFields(a, e1, w1, F1) /\ IsEnv(e1)
    BY <1>1, <2>2, FieldIfEdits
  <2> HIDE DEF e1
  <2>4. SetsFields(e1, e2, w2, F2) /\ IsEnv(e2)
    BY <2>2, <2>3, FieldIfEdits
  <2> HIDE DEF e2
  <2>5. SetsFields(e2, e3, w3, F3) /\ IsEnv(e3)
    BY <2>2, <2>4, FieldIfEdits
  <2> HIDE DEF e3
  <2>6. SetsFields(e3, e4, w4, F4) /\ IsEnv(e4)
    BY <2>2, <2>5, FieldIfEdits
  <2> HIDE DEF e4
  <2>7. SetsFields(e4, e5, w5, F5)
    BY <2>2, <2>6, FieldIfEdits
  <2>8. FieldNames(cfg) = F1 \cup F2 \cup F3 \cup F4 \cup F5
    BY DEF FieldNames
  <2> HIDE DEF n1, n2, n3, n4, n5, F1, F2, F3, F4, F5, w1, w2, w3, w4, w5, e5
  <2>9. SetsFields(a, e2, Updated(w1, w2), F1 \cup F2)
    BY <1>1, <2>2, <2>3, <2>4, FieldsCompose
  <2>10. SetsFields(a, e3, Updated(Updated(w1, w2), w3), F1 \cup F2 \cup F3)
    BY <1>1, <2>2, <2>5, <2>9, FieldsCompose
  <2>11. SetsFields(a, e4, Updated(Updated(Updated(w1, w2), w3), w4),
                    F1 \cup F2 \cup F3 \cup F4)
    BY <1>1, <2>2, <2>6, <2>10, FieldsCompose
  <2>12. SetsFields(a, e5, w, F1 \cup F2 \cup F3 \cup F4 \cup F5)
    BY <1>1, <2>2, <2>7, <2>11, FieldsCompose
  <2> QED BY <2>1, <2>8, <2>12, Zenon
<1> HIDE DEF w
<1> QED BY <1>1

BaseNames == FixedNames \cup {"OTEL_INJECTOR_K8S_CONTAINER_NAME"}

(* The list after the first half of the mutation: the vars it needs later. *)
Prepared(cfg, c, env) ==
    setFieldVars(cfg,
       setEnvVar(applyEnvVars(env, FixedVars(cfg)),
                 "OTEL_INJECTOR_K8S_CONTAINER_NAME", Lit(c.name)))

LEMMA EditsTwice ==
    ASSUME NEW a, IsEnv(a), NEW b, NEW t, NEW v, NEW w, NEW F,
           Edits(a, b, v, {}), Edits(b, t, w, F)
    PROVE  Edits(a, t, Updated(v, w), F)
BY EditsCompose

LEMMA PreparedEdits ==
    ASSUME NEW cfg, cfg.ip \in BOOLEAN, cfg.uid \in BOOLEAN, NEW c
    PROVE  \E w : /\ Plain(w) /\ FieldNames(cfg) \subseteq DOMAIN w
                  /\ DOMAIN w \subseteq BaseNames \cup FieldNames(cfg)
                  /\ \A a : IsEnv(a) =>
                        /\ Edits(a, Prepared(cfg, c, a), w, FieldNames(cfg))
                        /\ Lead(Prepared(cfg, c, a), FieldNames(cfg))
<1> DEFINE n == "OTEL_INJECTOR_K8S_CONTAINER_NAME"
<1>1. PICK w1 : /\ Leaves(FixedVars(cfg), w1)
                /\ \A a : IsEnv(a) =>
                      Edits(a, applyEnvVars(a, FixedVars(cfg)), w1, {})
  BY FixedVarsFacts, ApplyEdits
<1>2. PICK w2 : /\ \/ DOMAIN w2 = {} /\ Lit(c.name) = <<>>
                   \/ DOMAIN w2 = {n} /\ w2[n] = Var(n, Lit(c.name))
                /\ \A a : IsEnv(a) => Edits(a, setEnvVar(a, n, Lit(c.name)), w2, {})
  BY LitFacts, SetEnvVarEdits
<1>3. PICK w3 : \A a : IsEnv(a) =>
                   SetsFields(a, setFieldVars(cfg, a), w3, FieldNames(cfg))
  BY FieldVarsEdit
<1>4. Plain(w1) /\ DOMAIN w1 \subseteq FixedNames
  BY <1>1, FixedVarsFacts DEF Leaves, Plain
<1>5. Plain(w2) /\ DOMAIN w2 \subseteq {n}
  BY <1>2, LitFacts, VarFacts DEF Plain
<1>6. Plain(w3) /\ DOMAIN w3 = FieldNames(cfg)
  BY <1>3, EmptyEnv DEF SetsFields
<1> DEFINE w == Updated(Updated(w1, w2), w3)
<1>7. Plain(w) /\ DOMAIN w = DOMAIN w1 \cup DOMAIN w2 \cup FieldNames(cfg)
  BY <1>4, <1>5, <1>6, PlainUpdated
<1>8. ASSUME NEW a, IsEnv(a)
      PROVE  /\ Edits(a, Prepared(cfg, c, a), w, FieldNames(cfg))
             /\ Lead(Prepared(cfg, c, a), FieldNames(cfg))
  <2> DEFINE e1 == applyEnvVars(a, FixedVars(cfg))
             e2 == setEnvVar(e1, n, Lit(c.name))
             e3 == setFieldVars(cfg, e2)
  <2>1. Edits(a, e1, w1, {}) /\ IsEnv(e1)
    BY <1>1, <1>8 DEF Edits
  <2> HIDE DEF e1
  <2>2. Edits(e1, e2, w2, {}) /\ IsEnv(e2)
    BY <1>2, <2>1 DEF Edits
  <2> HIDE DEF e2
  <2>3. Edits(e2, e3, w3, FieldNames(cfg)) /\ Lead(e3, FieldNames(cfg))
    BY <1>3, <2>2 DEF SetsFields
  <2>4. Prepared(cfg, c, a) = e3
    BY DEF Prepared, e1, e2
  <2> HIDE DEF e3
  <2>5. Edits(a, e2, Updated(w1, w2), {})
    BY <1>8, <2>1, <2>2, EditsTwice
  <2> QED BY <1>8, <2>3, <2>4, <2>5, EditsTwice
<1> HIDE DEF w
<1> QED BY <1>4, <1>5, <1>7, <1>8 DEF BaseNames

LEMMA RefFacts == ASSUME NEW n PROVE IsSeq(Ref(n)) /\ Refs(Ref(n)) = {n}
<1> DEFINE v == <<{Atom("", {n}, "")}>>
<1>1. DOMAIN v = {1} /\ v[1] = {Atom("", {n}, "")} /\ v \in Seq({v[1]})
  OBVIOUS
<1>2. Atom("", {n}, "").refs = {n}
  BY DEF Atom
<1>3. Ref(n) = v
  BY DEF Ref
<1> HIDE DEF v
<1>4. Refs(v) = {n}
  BY <1>1, <1>2, RefsMember
<1> QED BY <1>1, <1>3, <1>4, AnySeq

LEMMA CatFacts ==
    ASSUME NEW s, IsSeq(s), Refs(s) = {}, NEW t, IsSeq(t), Refs(t) = {}
    PROVE  IsSeq(s \o t) /\ Refs(s \o t) = {}
<1> DEFINE V == ToSet(s) \cup ToSet(t)
           u == s \o t
<1>1. s \in Seq(V) /\ t \in Seq(V)
  BY DEF IsSeq
<1> HIDE DEF V
<1>2. /\ u \in Seq(V) /\ Len(u) = Len(s) + Len(t)
      /\ \A i \in 1..Len(s) + Len(t) :
            u[i] = IF i <= Len(s) THEN s[i] ELSE t[i - Len(s)]
  BY <1>1, ConcatProperties
<1> HIDE DEF u
<1>3. /\ IsSeq(u) /\ DOMAIN u = 1..Len(s) + Len(t)
      /\ Len(s) \in Nat /\ Len(t) \in Nat /\ DOMAIN s = 1..Len(s)
      /\ DOMAIN t = 1..Len(t)
  BY <1>2, AnySeq, SeqFacts
<1>4. ASSUME NEW i \in DOMAIN u
      PROVE  \/ i \in DOMAIN s /\ u[i] = s[i]
             \/ i - Len(s) \in DOMAIN t /\ u[i] = t[i - Len(s)]
  BY <1>2, <1>3
<1>5. ASSUME NEW r, r \in Refs(u) PROVE FALSE
  <2>1. PICK i \in DOMAIN u : \E a \in u[i] : r \in a.refs
    BY <1>5, RefsMember
  <2>2. r \in Refs(s) \/ r \in Refs(t)
    BY <1>4, <2>1, RefsMember
  <2> QED BY <2>2
<1> QED BY <1>3, <1>5 DEF u

LEMMA LabelOrAnnotationFacts ==
    ASSUME NEW meta, NEW useLabels, NEW res, NEW keys
    PROVE  LET v == chooseLabelOrAnnotation(meta, useLabels, res, keys)
           IN  IsSeq(v) /\ Refs(v) = {}
BY LitFacts, NoRefs DEF chooseLabelOrAnnotation, SelectInSeq

LEMMA LabelsReferToNothing ==
    ASSUME NEW meta, NEW includeUID,
           NEW k \in DOMAIN addParentResourceLabels(meta, includeUID)
    PROVE  addParentResourceLabels(meta, includeUID)[k].refs = {}
<1>1. ASSUME NEW owners, NEW a \in DOMAIN Labelled(owners)
      PROVE  Labelled(owners)[a].refs = {}
  BY DEF Labelled, Atom
<1> QED BY <1>1 DEF addParentResourceLabels, Updated

LEMMA ServiceNameFacts ==
    ASSUME NEW meta, NEW useLabels, NEW resources, NEW n,
           \A k \in DOMAIN resources : resources[k].refs = {}
    PROVE  LET v == chooseServiceName(meta, useLabels, Ref(n), resources)
           IN  IsSeq(v) /\ Refs(v) \subseteq {n}
<1> DEFINE chosen == chooseLabelOrAnnotation(meta, useLabels, "service.name",
                  <<"app.kubernetes.io/instance", "app.kubernetes.io/name">>)
           I == {i \in 1..Len(ServiceNameKinds) :
                   getResourceAttribute[ServiceNameKinds[i]] \in DOMAIN resources}
           v == chooseServiceName(meta, useLabels, Ref(n), resources)
<1> SUFFICES IsSeq(v) /\ Refs(v) \subseteq {n}
  OBVIOUS
<1>1. IsSeq(chosen) /\ Refs(chosen) = {}
  BY LabelOrAnnotationFacts
<1> HIDE DEF chosen
<1>2. v = IF chosen # <<>> THEN chosen
          ELSE IF (IF I # {} THEN Min(I) ELSE 0) # 0
          THEN <<{resources[getResourceAttribute[ServiceNameKinds[
                    IF I # {} THEN Min(I) ELSE 0]]]}>>
          ELSE Ref(n)
  BY DEF chooseServiceName, SelectInSeq, chosen
<1> HIDE DEF v
<1>3. CASE chosen # <<>>
  BY <1>1, <1>2, <1>3
<1>4. CASE chosen = <<>> /\ I = {}
  BY <1>2, <1>4, RefFacts
<1>5. CASE chosen = <<>> /\ I # {}
  <2>1. I \in SUBSET Nat
    BY DEF ServiceNameKinds
  <2>2. Min(I) \in I
    <3> HIDE DEF I
    <3> QED BY <1>5, <2>1, MinFacts
  <2> DEFINE k == getResourceAttribute[ServiceNameKinds[Min(I)]]
             u == <<{resources[k]}>>
  <2>3. k \in DOMAIN resources /\ Min(I) # 0
    BY <2>1, <2>2
  <2> HIDE DEF I
  <2>4. v = u
    BY <1>2, <1>5, <2>3
  <2> HIDE DEF k
  <2>5. DOMAIN u = {1} /\ u[1] = {resources[k]} /\ u \in Seq({u[1]})
    OBVIOUS
  <2> HIDE DEF u
  <2>6. \A r : r \notin Refs(u)
    BY <2>3, <2>5, RefsMember
  <2> QED BY <2>4, <2>5, <2>6, AnySeq
<1> QED BY <1>3, <1>4, <1>5

LEMMA ServiceVersionFacts ==
    ASSUME NEW meta, NEW useLabels, NEW image
    PROVE  LET v == chooseServiceVersion(meta, useLabels, image)
           IN  IsSeq(v) /\ Refs(v) = {}
<1>1. /\ IsSeq(parseServiceVersionFromImage(image))
      /\ Refs(parseServiceVersionFromImage(image)) = {}
  BY LitFacts, CatFacts, NoRefs DEF parseServiceVersionFromImage
<1> QED BY <1>1, LabelOrAnnotationFacts DEF chooseServiceVersion

LEMMA ServiceNamespaceFacts ==
    ASSUME NEW meta, NEW useLabels, NEW n
    PROVE  LET v == chooseServiceNamespace(meta, useLabels, Ref(n))
           IN  IsSeq(v) /\ Refs(v) \subseteq {n}
BY RefFacts, LabelOrAnnotationFacts DEF chooseServiceNamespace

(* What the writes of w refer to is in F.                                  *)
Refers(w, F) == \A x \in DOMAIN w : w[x].name = x /\ Refs(w[x].value) \subseteq F

LEMMA RefersUpdated ==
    ASSUME NEW v, NEW w, NEW F, Refers(v, F), Refers(w, F)
    PROVE  /\ Refers(Updated(v, w), F)
           /\ DOMAIN Updated(v, w) = DOMAIN v \cup DOMAIN w
BY DEF Refers, Updated

(* The edits depend on what is written and not on how it is put together.  *)
LEMMA SameEdits ==
    ASSUME NEW a, NEW t, NEW v, NEW w, NEW F, Edits(a, t, v, F),
           DOMAIN v = DOMAIN w, \A x \in DOMAIN w : v[x] = w[x]
    PROVE  Edits(a, t, w, F)
<1>1. Overwrites(a, t, v) => Overwrites(a, t, w)
  BY DEF Overwrites
<1>2. /\ \A x \in Names(t) :
            At(t, x) = IF x \in DOMAIN w THEN w[x] ELSE At(a, x)
      /\ Names(t) = Names(a) \cup DOMAIN w
  BY DEF Edits
<1> QED BY <1>1, <1>2 DEF Edits

ServiceNames == {"OTEL_INJECTOR_SERVICE_NAMESPACE", "OTEL_INJECTOR_SERVICE_NAME",
                 "OTEL_INJECTOR_SERVICE_VERSION"}

LEMMA ServiceVarsEdit ==
    ASSUME NEW cfg, NEW meta, NEW c
    PROVE  \E w : /\ Refers(w, FieldNames(cfg)) /\ DOMAIN w \subseteq ServiceNames
                  /\ \A a : IsEnv(a) =>
                        Edits(a, setServiceVars(cfg, meta, c, a), w, {})
<1> DEFINE n1 == "OTEL_INJECTOR_SERVICE_NAMESPACE"
           n2 == "OTEL_INJECTOR_SERVICE_NAME"
           n3 == "OTEL_INJECTOR_SERVICE_VERSION"
           v1 == chooseServiceNamespace(meta, cfg.useLabels,
                    Ref(envInjectorOtelK8sNamespaceName))
           v2 == chooseServiceName(meta, cfg.useLabels,
                    Ref(envInjectorOtelK8sPodName),
                    addParentResourceLabels(meta, cfg.uid))
           v3 == chooseServiceVersion(meta, cfg.useLabels, c.image)
           F == FieldNames(cfg)
<1>1. {envInjectorOtelK8sNamespaceName} \subseteq F
      /\ {envInjectorOtelK8sPodName} \subseteq F
  BY DEF FieldNames
<1> HIDE DEF F
<1>2. IsSeq(v1) /\ Refs(v1) \subseteq F
  BY <1>1, ServiceNamespaceFacts
<1>3. IsSeq(v2) /\ Refs(v2) \subseteq F
  BY <1>1, LabelsReferToNothing, ServiceNameFacts
<1>4. IsSeq(v3) /\ Refs(v3) \subseteq F
  BY ServiceVersionFacts
<1>5. ASSUME NEW a PROVE setServiceVars(cfg, meta, c, a)
         = setEnvVar(setEnvVar(setEnvVar(a, n1, v1), n2, v2), n3, v3)
  BY DEF setServiceVars
<1> HIDE DEF v1, v2, v3
<1> DEFINE W(w, n, v) ==
             /\ Refers(w, F) /\ DOMAIN w \subseteq {n}
             /\ \A a : IsEnv(a) => Edits(a, setEnvVar(a, n, v), w, {})
<1>6. ASSUME NEW n, NEW v, IsSeq(v), Refs(v) \subseteq F PROVE \E w : W(w, n, v)
  <2>1. PICK w : /\ \/ DOMAIN w = {} /\ v = <<>>
                    \/ DOMAIN w = {n} /\ w[n] = Var(n, v)
                 /\ \A a : IsEnv(a) => Edits(a, setEnvVar(a, n, v), w, {})
    BY <1>6, SetEnvVarEdits
  <2>2. Refers(w, F) /\ DOMAIN w \subseteq {n}
    BY <1>6, <2>1, VarFacts DEF Refers
  <2> QED BY <2>1, <2>2
<1>7. PICK w1 : W(w1, n1, v1)
  BY <1>2, <1>6
<1>8. PICK w2 : W(w2, n2, v2)
  BY <1>3, <1>6
<1>9. PICK w3 : W(w3, n3, v3)
  BY <1>4, <1>6
<1> DEFINE w == Updated(Updated(w1, w2), w3)
<1>10. Refers(w, F) /\ DOMAIN w = DOMAIN w1 \cup DOMAIN w2 \cup DOMAIN w3
  <2>1. Refers(w1, F) /\ Refers(w2, F) /\ Refers(w3, F)
    BY <1>7, <1>8, <1>9
  <2>2. /\ Refers(Updated(w1, w2), F)
        /\ DOMAIN Updated(w1, w2) = DOMAIN w1 \cup DOMAIN w2
    BY <2>1, RefersUpdated
  <2>3. Refers(w, F) /\ DOMAIN w = DOMAIN Updated(w1, w2) \cup DOMAIN w3
    BY <2>1, <2>2, RefersUpdated
  <2> QED BY <2>2, <2>3
<1>11. ASSUME NEW a, IsEnv(a)
       PROVE  Edits(a, setServiceVars(cfg, meta, c, a), w, {})
  <2> DEFINE e1 == setEnvVar(a, n1, v1)
             e2 == setEnvVar(e1, n2, v2)
             e3 == setEnvVar(e2, n3, v3)
  <2>1. Edits(a, e1, w1, {}) /\ IsEnv(e1)
    BY <1>7, <1>11 DEF Edits
  <2>2. setServiceVars(cfg, meta, c, a) = e3
    BY <1>5
  <2> HIDE DEF e1
  <2>3. Edits(e1, e2, w2, {}) /\ IsEnv(e2)
    BY <1>8, <2>1 DEF Edits
  <2> HIDE DEF e2
  <2>4. Edits(e2, e3, w3, {})
    BY <1>9, <2>3
  <2> HIDE DEF e3
  <2>5. Edits(a, e2, Updated(w1, w2), {})
    BY <1>11, <2>1, <2>3, EditsTwice
  <2> QED BY <1>11, <2>2, <2>4, <2>5, EditsTwice
<1> HIDE DEF w
<1> QED BY <1>7, <1>8, <1>9, <1>10, <1>11 DEF ServiceNames, F

EnabledNames == {EnabledName["dotnet"], EnabledName["java"],
                 EnabledName["nodejs"], EnabledName["python"]}

LEMMA DisableEdits ==
    ASSUME NEW cfg, NEW F
    PROVE  \E w : /\ Refers(w, F) /\ DOMAIN w \subseteq EnabledNames
                  /\ \A a : IsEnv(a) =>
                        Edits(a, disableUndesiredSDKs(cfg, a), w, {})
<1> DEFINE W(w, lang) ==
             /\ Refers(w, F) /\ DOMAIN w \subseteq {EnabledName[lang]}
             /\ \A a : IsEnv(a) => Edits(a, disableUnless(cfg, lang, a), w, {})
<1>1. ASSUME NEW lang PROVE \E w : W(w, lang)
  <2>1. CASE lang \in cfg.sdks
    <3> DEFINE w == [x \in {} |-> x]
    <3>1. DOMAIN w = {}
      OBVIOUS
    <3> HIDE DEF w
    <3>2. \A a : disableUnless(cfg, lang, a) = a
      BY <2>1 DEF disableUnless
    <3>3. W(w, lang)
      BY <3>1, <3>2, NoEdit DEF Refers
    <3> QED BY <3>3
  <2>2. CASE lang \notin cfg.sdks
    <3> DEFINE n == EnabledName[lang]
               e == Var(n, <<>>)
               w == [x \in {e.name} |-> e]
    <3>1. IsVar(e) /\ e.name = n /\ Refs(e.value) = {}
      BY NoRefs, VarFacts
    <3>2. DOMAIN w = {n} /\ w[n] = e
      BY <3>1
    <3>3. ASSUME NEW a, IsEnv(a) PROVE Edits(a, disableUnless(cfg, lang, a), w, {})
      <4>1. disableUnless(cfg, lang, a) = Upsert(a, e)
        BY <2>2 DEF disableUnless, setEnvVarEvenIfEmpty
      <4> HIDE DEF e
      <4> QED BY <3>1, <3>3, <4>1, UpsertEdits
    <3> HIDE DEF e, w, n
    <3>4. Refers(w, F)
      BY <3>1, <3>2 DEF Refers
    <3>5. W(w, lang)
      BY <3>2, <3>3, <3>4 DEF n
    <3> QED BY <3>5
  <2> QED BY <2>1, <2>2
<1>2. PICK w1 : W(w1, "dotnet")
  BY <1>1
<1>3. PICK w2 : W(w2, "java")
  BY <1>1
<1>4. PICK w3 : W(w3, "nodejs")
  BY <1>1
<1>5. PICK w4 : W(w4, "python")
  BY <1>1
<1> DEFINE v == Updated(Updated(w1, w2), w3)
           w == Updated(v, w4)
<1>6. Refers(v, F) /\ DOMAIN v = DOMAIN w1 \cup DOMAIN w2 \cup DOMAIN w3
  <2>1. Refers(w1, F) /\ Refers(w2, F) /\ Refers(w3, F)
    BY <1>2, <1>3, <1>4
  <2> HIDE DEF W
  <2> DEFINE u == Updated(w1, w2)
  <2>2. Refers(u, F) /\ DOMAIN u = DOMAIN w1 \cup DOMAIN w2
    BY <2>1, RefersUpdated
  <2> HIDE DEF u
  <2>3. Refers(Updated(u, w3), F) /\ DOMAIN Updated(u, w3) = DOMAIN u \cup DOMAIN w3
    BY <2>1, <2>2, RefersUpdated
  <2> QED BY <2>2, <2>3 DEF u
<1>7. Refers(w, F) /\ DOMAIN w = DOMAIN v \cup DOMAIN w4
  <2> HIDE DEF v
  <2>1. Refers(w4, F)
    BY <1>5
  <2> HIDE DEF W
  <2> QED BY <1>6, <2>1, RefersUpdated
<1>8. ASSUME NEW a, IsEnv(a) PROVE Edits(a, disableUndesiredSDKs(cfg, a), w, {})
  <2> DEFINE e1 == disableUnless(cfg, "dotnet", a)
             e2 == disableUnless(cfg, "java", e1)
             e3 == disableUnless(cfg, "nodejs", e2)
             e4 == disableUnless(cfg, "python", e3)
  <2>1. Edits(a, e1, w1, {}) /\ IsEnv(e1)
    BY <1>2, <1>8 DEF Edits
  <2>2. disableUndesiredSDKs(cfg, a) = e4
    BY DEF disableUndesiredSDKs
  <2> HIDE DEF e1
  <2>3. Edits(e1, e2, w2, {}) /\ IsEnv(e2)
    BY <1>3, <2>1 DEF Edits
  <2> HIDE DEF e2
  <2>4. Edits(e2, e3, w3, {}) /\ IsEnv(e3)
    BY <1>4, <2>3 DEF Edits
  <2> HIDE DEF e3
  <2>5. Edits(e3, e4, w4, {})
    BY <1>5, <2>4
  <2> HIDE DEF e4
  <2>6. Edits(a, e2, Updated(w1, w2), {})
    BY <1>8, <2>1, <2>3, EditsTwice
  <2>7. Edits(a, e3, v, {})
    BY <1>8, <2>4, <2>6, EditsTwice
  <2> HIDE DEF v
  <2> QED BY <1>8, <2>2, <2>5, <2>7, EditsTwice
<1> HIDE DEF w
<1> QED BY <1>2, <1>3, <1>4, <1>5, <1>6, <1>7, <1>8 DEF EnabledNames

(* The combined attributes after a chunk has been added to those of a.     *)
Joined(a, chunk) ==
    IF Attrs \in Names(a) /\ At(a, Attrs).value # <<>>
    THEN Var(Attrs, Append(At(a, Attrs).value, chunk))
    ELSE Var(Attrs, <<chunk>>)

Join(a, chunk) == [x \in {Attrs} |-> Joined(a, chunk)]

LEMMA OneChunk == ASSUME NEW chunk PROVE IsSeq(<<chunk>>) /\ Len(<<chunk>>) = 1
<1>1. <<chunk>> \in Seq({chunk}) /\ Len(<<chunk>>) = 1
  OBVIOUS
<1> QED BY <1>1, AnySeq

LEMMA AppendFacts ==
    ASSUME NEW s, IsSeq(s), NEW e
    PROVE  /\ IsSeq(Append(s, e)) /\ Append(s, e) # <<>>
           /\ Last(Append(s, e)) = e /\ Append(s, e) = s \o <<e>>
<1> DEFINE V == ToSet(s) \cup {e}
<1>1. s \in Seq(V) /\ e \in V
  BY DEF IsSeq
<1> HIDE DEF V
<1>2. /\ Append(s, e) \in Seq(V) /\ Append(s, e) # <<>>
      /\ Last(Append(s, e)) = e /\ Append(s, e) = s \o <<e>>
  BY <1>1 DEF Last
<1> QED BY <1>2, AnySeq

LEMMA NewValue ==
    ASSUME NEW n, NEW old, NEW value,
           NEW v, v = [name |-> n, value |-> old, from |-> ""]
    PROVE  [v EXCEPT !.value = value] = Var(n, value)
<1> DEFINE u == [v EXCEPT !.value = value]
<1>1. u \in [name : {n}, value : {value}, from : {""}]
  OBVIOUS
<1> HIDE DEF u
<1>2. u = [name |-> n, value |-> value, from |-> ""]
  BY <1>1
<1> QED BY <1>2 DEF Var, u

(* The attributes of a mutation, each with its key.                        *)
Chunk(attrs) == {[attrs[k] EXCEPT !.key = k] : k \in DOMAIN attrs}

LEMMA JoinEdits ==
    ASSUME NEW a, IsEnv(a), NEW attrs, Chunk(attrs) # {}
    PROVE  Edits(a, injectEnvVars(a, attrs), Join(a, Chunk(attrs)), {})
<1> DEFINE chunk == Chunk(attrs)
           p == findByName(a, Attrs)
           e == Joined(a, chunk)
<1>1. /\ IsSeq(a) /\ Len(a) \in Nat
      /\ a = [i \in 1..Len(a) |-> a[i]]
  BY SeqFacts DEF IsEnv
<1>2. /\ Attrs \in Names(a) <=> p # 0
      /\ p # 0 => p \in 1..Len(a) /\ At(a, Attrs) = a[p] /\ a[p].name = Attrs
  BY <1>1, NamesFound DEF At
<1>3. IsVar(e) /\ e.name = Attrs
  <2>1. CASE Attrs \in Names(a) /\ At(a, Attrs).value # <<>>
    <3>1. IsSeq(At(a, Attrs).value)
      BY <2>1, AtFacts DEF IsVar
    <3>2. IsSeq(Append(At(a, Attrs).value, chunk))
      BY <3>1, AppendFacts
    <3> QED BY <2>1, <3>2, VarFacts DEF Joined
  <2>2. CASE ~(Attrs \in Names(a) /\ At(a, Attrs).value # <<>>)
    BY <2>2, OneChunk, VarFacts DEF Joined
  <2> QED BY <2>1, <2>2
<1>4. injectEnvVars(a, attrs) = Upsert(a, e)
  <2>1. CASE p # 0 /\ a[p].value # <<>>
    <3> DEFINE value == Append(a[p].value, chunk)
    <3>1. injectEnvVars(a, attrs) = [a EXCEPT ![p].value = value]
      BY <2>1 DEF injectEnvVars, Attrs, Chunk
    <3>2. e = Var(Attrs, value)
      BY <1>2, <2>1 DEF Joined
    <3> HIDE DEF value
    <3>3. IsVar(a[p]) /\ a[p].name = Attrs
      BY <1>2, <2>1, AtFacts
    <3>4. [a[p] EXCEPT !.value = value] = Var(Attrs, value)
      <4>1. a[p] = [name |-> Attrs, value |-> a[p].value, from |-> ""]
        BY <2>1, <3>3 DEF IsVar
      <4> QED BY <4>1, NewValue
    <3>5. [a EXCEPT ![p].value = value]
             = [a EXCEPT ![p] = [a[p] EXCEPT !.value = value]]
      BY <1>1, <1>2, <2>1
    <3>6. Upsert(a, e) = [a EXCEPT ![p] = e]
      BY <1>3, <2>1 DEF Upsert, ReplaceAt
    <3> QED BY <3>1, <3>2, <3>4, <3>5, <3>6
  <2>2. CASE ~(p # 0 /\ a[p].value # <<>>)
    <3>1. injectEnvVars(a, attrs) = setEnvVar(a, Attrs, <<chunk>>)
      BY <2>2 DEF injectEnvVars, Attrs, Chunk
    <3>2. setEnvVar(a, Attrs, <<chunk>>) = Upsert(a, Var(Attrs, <<chunk>>))
      BY DEF setEnvVar, setEnvVarEvenIfEmpty
    <3>3. e = Var(Attrs, <<chunk>>)
      BY <1>2, <2>2 DEF Joined
    <3> QED BY <3>1, <3>2, <3>3
  <2> QED BY <2>1, <2>2
<1>5. Join(a, chunk) = [x \in {e.name} |-> e]
  BY <1>3 DEF Join
<1> HIDE DEF e
<1> QED BY <1>3, <1>4, <1>5, UpsertEdits

(* An attribute that refers to vars of F.                                  *)
IsAtom(a, F) == a = Atom(a.key, a.refs, a.text) /\ a.refs \subseteq F

LEMMA AtomFacts ==
    ASSUME NEW F, NEW key, NEW refs, NEW text, \A r \in refs : r \in F
    PROVE  IsAtom(Atom(key, refs, text), F)
BY DEF IsAtom, Atom

Atoms(f, F) == \A k \in DOMAIN f : IsAtom(f[k], F)

LEMMA AtomsUpdated ==
    ASSUME NEW f, NEW g, NEW F, Atoms(f, F), Atoms(g, F)
    PROVE  /\ Atoms(Updated(f, g), F)
           /\ DOMAIN Updated(f, g) = DOMAIN f \cup DOMAIN g
BY DEF Atoms, Updated

LEMMA LabelAtoms ==
    ASSUME NEW meta, NEW includeUID, NEW F
    PROVE  Atoms(addParentResourceLabels(meta, includeUID), F)
<1>1. ASSUME NEW owners PROVE Atoms(Labelled(owners), F)
  <2>1. ASSUME NEW a \in DOMAIN Labelled(owners) PROVE IsAtom(Labelled(owners)[a], F)
    <3>1. PICK text : Labelled(owners)[a] = Atom("", {}, text)
      BY DEF Labelled
    <3>2. IsAtom(Atom("", {}, text), F)
      BY AtomFacts
    <3> QED BY <3>1, <3>2
  <2> QED BY <2>1 DEF Atoms
<1> QED BY <1>1, AtomsUpdated DEF addParentResourceLabels

(* The attributes of a container, the span metrics' marker included.       *)
AllAttributes(cfg, meta, c, spanMetricsSkip) ==
    Updated(ExtraResourceAttributes(cfg, meta, c),
            [k \in IF spanMetricsSkip THEN {"span.metrics.skip"} ELSE {} |->
               Atom("", {}, "true")])

LEMMA AttributesReferToFields ==
    ASSUME NEW cfg, cfg.ip \in BOOLEAN, NEW meta, NEW c, NEW skip
    PROVE  LET attrs == AllAttributes(cfg, meta, c, skip) IN
           Atoms(attrs, FieldNames(cfg)) /\ DOMAIN attrs # {}
<1> DEFINE F == FieldNames(cfg)
           owners == addParentResourceLabels(meta, cfg.uid)
           node == [k \in {"k8s.node.name"} |-> RefAtom(envOtelK8sNodeName)]
           ip == [k \in IF cfg.ip THEN {"k8s.pod.ip"} ELSE {} |->
                    RefAtom(envOtelK8sPodIP)]
           id == [k \in {"service.instance.id"} |->
                    createServiceInstanceId(meta, c.name)]
           annotated == [k \in DOMAIN meta.annotations |->
                           Atom("", {}, meta.annotations[k])]
           marker == [k \in IF skip THEN {"span.metrics.skip"} ELSE {} |->
                        Atom("", {}, "true")]
<1>1. AllAttributes(cfg, meta, c, skip)
         = Updated(Updated(Updated(Updated(Updated(owners, node), ip), id),
                           annotated), marker)
  BY DEF AllAttributes, ExtraResourceAttributes
<1>2. /\ envOtelK8sNodeName \in F /\ envInjectorOtelK8sNamespaceName \in F
      /\ envInjectorOtelK8sPodName \in F
      /\ cfg.ip => envOtelK8sPodIP \in F
  BY DEF FieldNames
<1> HIDE DEF F
<1>3. Atoms(owners, F)
  BY LabelAtoms
<1>4. Atoms(node, F) /\ "k8s.node.name" \in DOMAIN node
  <2>1. IsAtom(Atom("", {envOtelK8sNodeName}, ""), F)
    BY <1>2, AtomFacts
  <2> QED BY <2>1 DEF Atoms, RefAtom
<1>5. Atoms(ip, F)
  <2>1. cfg.ip => IsAtom(Atom("", {envOtelK8sPodIP}, ""), F)
    BY <1>2 DEF Atom, IsAtom
  <2> QED BY <2>1 DEF Atoms, RefAtom
<1>6. Atoms(id, F)
  <2>1. IsAtom(createServiceInstanceId(meta, c.name), F)
    BY <1>2 DEF Atom, IsAtom, createServiceInstanceId
  <2> QED BY <2>1 DEF Atoms
<1>7. Atoms(annotated, F)
  BY <1>2, AtomFacts DEF Atoms
<1>8. Atoms(marker, F)
  BY <1>2, AtomFacts DEF Atoms
<1> HIDE DEF owners, node, ip, id, annotated, marker
<1> DEFINE u1 == Updated(owners, node)
           u2 == Updated(u1, ip)
           u3 == Updated(u2, id)
           u4 == Updated(u3, annotated)
           u5 == Updated(u4, marker)
<1>9. Atoms(u1, F) /\ "k8s.node.name" \in DOMAIN u1
  BY <1>3, <1>4, AtomsUpdated
<1> HIDE DEF u1
<1>10. Atoms(u2, F) /\ "k8s.node.name" \in DOMAIN u2
  BY <1>5, <1>9, AtomsUpdated
<1> HIDE DEF u2
<1>11. Atoms(u3, F) /\ "k8s.node.name" \in DOMAIN u3
  BY <1>6, <1>10, AtomsUpdated
<1> HIDE DEF u3
<1>12. Atoms(u4, F) /\ "k8s.node.name" \in DOMAIN u4
  BY <1>7, <1>11, AtomsUpdated
<1> HIDE DEF u4
<1>13. Atoms(u5, F) /\ "k8s.node.name" \in DOMAIN u5
  BY <1>8, <1>12, AtomsUpdated
<1>14. AllAttributes(cfg, meta, c, skip) = u5
  BY <1>1 DEF u1, u2, u3, u4
<1> HIDE DEF u5
<1> QED BY <1>13, <1>14 DEF F

-----------------------------------------------------------------------------
(* A container's mutation.                                                 *)

LEMMA NamesApart ==
    ASSUME NEW cfg
    PROVE  /\ Attrs \notin BaseNames /\ Attrs \notin FieldNames(cfg)
           /\ Attrs \notin ServiceNames /\ Attrs \notin EnabledNames
           /\ \A x \in ServiceNames \cup EnabledNames :
                 x \notin BaseNames /\ x \notin FieldNames(cfg)
BY DEF Attrs, BaseNames, FixedNames, FieldNames, ServiceNames, EnabledNames,
       EnabledName, envInjectorOtelExtraResourceAttrs, envVarLdPreloadName,
       envInjectorOtelK8sNamespaceName, envInjectorOtelK8sPodName,
       envOtelK8sNodeName, envOtelK8sPodIP, envInjectorOtelK8sPodUID

(* The list after the mutation, where env is the one after the rule's vars. *)
Written(cfg, meta, c, env, skip) ==
    disableUndesiredSDKs(cfg, configureContainerEnvVars(cfg, meta, c,
       applyEnvVars(env, FixedVars(cfg)), skip))

(* What a name refers to that t has and a has not is listed before it.     *)
NewNamesResolve(a, t) ==
    \A y \in Names(t) \ Names(a) : \A r \in Refs(At(t, y).value) :
        r \in Names(t) /\ findByName(t, r) < findByName(t, y)

(* What the mutator writes into every list: w, and one chunk of attributes. *)
OwnWrites(cfg, w, chunk) ==
    /\ Refers(w, FieldNames(cfg)) /\ Attrs \notin DOMAIN w
    /\ FieldNames(cfg) \subseteq DOMAIN w
    /\ \A x \in FieldNames(cfg) : Refs(w[x].value) = {}
    /\ \A atom \in chunk : atom.refs \subseteq FieldNames(cfg)

LEMMA ChunkRefs ==
    ASSUME NEW chunk, NEW F, \A atom \in chunk : atom.refs \subseteq F
    PROVE  Refs(<<chunk>>) \subseteq F
<1> DEFINE v == <<chunk>>
<1>1. DOMAIN v = {1} /\ v[1] = chunk
  OBVIOUS
<1> HIDE DEF v
<1>2. Refs(v) \subseteq F
  BY <1>1, RefsMember
<1> QED BY <1>2 DEF v

LEMMA ChunkOfAtoms ==
    ASSUME NEW attrs, NEW F, Atoms(attrs, F), DOMAIN attrs # {}
    PROVE  Chunk(attrs) # {} /\ \A atom \in Chunk(attrs) : atom.refs \subseteq F
<1>1. ASSUME NEW k \in DOMAIN attrs
      PROVE  [attrs[k] EXCEPT !.key = k].refs \subseteq F
  BY DEF Atoms, IsAtom, Atom
<1> QED BY <1>1 DEF Chunk

(* In every list the mutator writes w and chunk.                           *)
WritesOwn(cfg, meta, c, skip, w, chunk) ==
    /\ OwnWrites(cfg, w, chunk)
    /\ \A a : IsEnv(a) =>
          LET t == Written(cfg, meta, c, a, skip) IN
          /\ Edits(a, t, Updated(w, Join(a, chunk)), FieldNames(cfg))
          /\ Lead(t, FieldNames(cfg))
          /\ NewNamesResolve(a, t)

LEMMA WrittenEdits ==
    ASSUME NEW cfg, cfg.ip \in BOOLEAN, cfg.uid \in BOOLEAN, NEW meta, NEW c
    PROVE  \E w : \A skip : \E chunk : WritesOwn(cfg, meta, c, skip, w, chunk)
<1> DEFINE F == FieldNames(cfg)
           attrs(skip) == AllAttributes(cfg, meta, c, skip)
           chunk(skip) == Chunk(attrs(skip))
<1>1. PICK p : /\ Plain(p) /\ F \subseteq DOMAIN p
               /\ DOMAIN p \subseteq BaseNames \cup F
               /\ \A a : IsEnv(a) => /\ Edits(a, Prepared(cfg, c, a), p, F)
                                     /\ Lead(Prepared(cfg, c, a), F)
  BY PreparedEdits
<1>2. PICK s : /\ Refers(s, F) /\ DOMAIN s \subseteq ServiceNames
               /\ \A a : IsEnv(a) =>
                     Edits(a, setServiceVars(cfg, meta, c, a), s, {})
  BY ServiceVarsEdit
<1>3. PICK d : /\ Refers(d, F) /\ DOMAIN d \subseteq EnabledNames
               /\ \A a : IsEnv(a) => Edits(a, disableUndesiredSDKs(cfg, a), d, {})
  BY DisableEdits
<1>4. ASSUME NEW skip
      PROVE  chunk(skip) # {} /\ \A atom \in chunk(skip) : atom.refs \subseteq F
  <2>1. Atoms(attrs(skip), F) /\ DOMAIN attrs(skip) # {}
    BY AttributesReferToFields
  <2> HIDE DEF attrs, F
  <2> QED BY <2>1, ChunkOfAtoms
<1>5. ASSUME NEW skip, NEW a, IsEnv(a)
      PROVE  Edits(a, injectEnvVars(a, attrs(skip)), Join(a, chunk(skip)), {})
  <2> HIDE DEF attrs
  <2> QED BY <1>4, <1>5, JoinEdits
<1>6. ASSUME NEW skip, NEW a PROVE Written(cfg, meta, c, a, skip)
         = disableUndesiredSDKs(cfg, injectEnvVars(
              setServiceVars(cfg, meta, c, Prepared(cfg, c, a)), attrs(skip)))
  BY DEF Written, configureContainerEnvVars, setResourceAttributes, Prepared,
         AllAttributes
<1> HIDE DEF attrs, chunk
<1>7. /\ Attrs \notin BaseNames /\ Attrs \notin F
      /\ Attrs \notin ServiceNames /\ Attrs \notin EnabledNames
      /\ \A x \in ServiceNames \cup EnabledNames : x \notin BaseNames /\ x \notin F
  BY NamesApart
<1> DEFINE w == Updated(p, Updated(s, d))
<1>8. /\ DOMAIN w = DOMAIN p \cup DOMAIN s \cup DOMAIN d
      /\ \A x \in DOMAIN w : w[x] = IF x \in DOMAIN d THEN d[x]
                                    ELSE IF x \in DOMAIN s THEN s[x] ELSE p[x]
  BY DEF Updated
<1> HIDE DEF w, F
<1>9. ASSUME NEW skip PROVE OwnWrites(cfg, w, chunk(skip))
  <2>1. Refers(w, F) /\ Attrs \notin DOMAIN w /\ F \subseteq DOMAIN w
    BY <1>1, <1>2, <1>3, <1>7, <1>8 DEF Plain, Refers
  <2>2. \A x \in F : Refs(w[x].value) = {}
    BY <1>1, <1>2, <1>3, <1>7, <1>8 DEF Plain
  <2> QED BY <1>4, <2>1, <2>2 DEF F, OwnWrites
<1>10. ASSUME NEW skip, NEW a, IsEnv(a)
       PROVE  LET t == Written(cfg, meta, c, a, skip) IN
              /\ Edits(a, t, Updated(w, Join(a, chunk(skip))), F)
              /\ Lead(t, F)
              /\ NewNamesResolve(a, t)
  <2> DEFINE t == Written(cfg, meta, c, a, skip)
             b == Prepared(cfg, c, a)
             e1 == setServiceVars(cfg, meta, c, b)
             e2 == injectEnvVars(e1, attrs(skip))
             e3 == disableUndesiredSDKs(cfg, e2)
             J == Join(e1, chunk(skip))
             U == Updated(Updated(s, J), d)
             V == Updated(w, Join(a, chunk(skip)))
  <2>1. t = e3
    BY <1>6
  <2>2. Edits(a, b, p, F) /\ Lead(b, F) /\ IsEnv(b)
    BY <1>1, <1>10 DEF Edits
  <2> HIDE DEF b
  <2>3. Edits(b, e1, s, {}) /\ IsEnv(e1)
    BY <1>2, <2>2 DEF Edits
  <2> HIDE DEF e1
  <2>4. Edits(e1, e2, J, {}) /\ IsEnv(e2)
    BY <1>5, <2>3 DEF Edits
  <2> HIDE DEF e2
  <2>5. Edits(e2, e3, d, {})
    BY <1>3, <2>4
  <2>6. DOMAIN J = {Attrs} /\ J[Attrs] = Joined(e1, chunk(skip))
    BY DEF Join
  <2> HIDE DEF e3, t, J
  <2>7. Edits(b, e2, Updated(s, J), {})
    BY <2>2, <2>3, <2>4, EditsTwice
  <2>8. Edits(b, t, U, {})
    BY <2>1, <2>2, <2>5, <2>7, EditsTwice
  <2>9. DOMAIN U = DOMAIN s \cup {Attrs} \cup DOMAIN d
        /\ \A x \in DOMAIN U : U[x] = IF x \in DOMAIN d THEN d[x]
                                      ELSE IF x = Attrs THEN J[x] ELSE s[x]
    BY <2>6 DEF Updated
  <2> HIDE DEF U
  <2>10. Edits(a, t, Updated(p, U), F)
    <3>1. {} \subseteq F /\ F \subseteq F
      OBVIOUS
    <3> QED BY <1>10, <2>2, <2>8, <3>1, EditsCompose
  <2>11. Joined(e1, chunk(skip)) = Joined(a, chunk(skip))
    <3>1. Attrs \in Names(e1) <=> Attrs \in Names(a)
      BY <1>1, <1>2, <1>7, <2>2, <2>3 DEF Edits
    <3>2. Attrs \in Names(a) => At(e1, Attrs) = At(a, Attrs)
      BY <1>1, <1>2, <1>7, <2>2, <2>3, <3>1 DEF Edits
    <3> QED BY <3>1, <3>2 DEF Joined
  <2>12. /\ DOMAIN V = DOMAIN w \cup {Attrs}
         /\ \A x \in DOMAIN V : V[x] = IF x = Attrs THEN Joined(a, chunk(skip)) ELSE w[x]
    BY DEF Updated, Join
  <2> HIDE DEF V
  <2>13. Edits(a, t, V, F)
    <3> DEFINE P == Updated(p, U)
    <3>1. /\ DOMAIN P = DOMAIN p \cup DOMAIN U
          /\ \A x \in DOMAIN P : P[x] = IF x \in DOMAIN U THEN U[x] ELSE p[x]
      BY DEF Updated
    <3> HIDE DEF P
    <3>2. DOMAIN P = DOMAIN V
      BY <1>8, <2>9, <2>12, <3>1
    <3>3. ASSUME NEW x \in DOMAIN V PROVE P[x] = V[x]
      <4>1. CASE x = Attrs
        BY <1>3, <1>7, <2>6, <2>9, <2>11, <2>12, <3>1, <3>2, <4>1
      <4>2. CASE x # Attrs
        BY <1>8, <2>9, <2>12, <3>1, <3>2, <4>2
      <4> QED BY <4>1, <4>2
    <3> QED BY <2>10, <3>2, <3>3, SameEdits DEF P
  <2>14. Lead(t, F)
    BY <1>7, <2>2, <2>8, LeadKept
  <2>15. ASSUME NEW y \in Names(t) \ Names(a), NEW r \in Refs(At(t, y).value)
         PROVE  r \in Names(t) /\ findByName(t, r) < findByName(t, y)
    <3>1. y \in DOMAIN V /\ At(t, y) = V[y]
      BY <2>13 DEF Edits
    <3>2. y \notin BaseNames \cup F /\ r \in F
      <4>1. CASE y = Attrs
        <5>1. V[y].value = <<chunk(skip)>>
          BY <2>12, <2>15, <3>1, <4>1, OneChunk, VarFacts DEF Joined
        <5> QED BY <1>4, <1>7, <3>1, <4>1, <5>1, ChunkRefs
      <4>2. CASE y # Attrs
        <5>1. y \in DOMAIN w /\ r \in Refs(w[y].value)
          BY <2>12, <3>1, <4>2
        <5>2. y \notin DOMAIN p \/ y \in DOMAIN s \cup DOMAIN d
          BY <1>1, <1>8, <5>1 DEF Plain
        <5>3. y \in DOMAIN s \cup DOMAIN d
          BY <1>8, <5>1, <5>2
        <5>4. \/ w[y] = d[y] /\ y \in DOMAIN d
              \/ w[y] = s[y] /\ y \in DOMAIN s
          BY <1>8, <5>1, <5>3
        <5>5. r \in F
          BY <1>2, <1>3, <5>1, <5>4 DEF Refers
        <5> QED BY <1>2, <1>3, <1>7, <5>3, <5>5
      <4> QED BY <4>1, <4>2
    <3>3. y \notin Names(b) /\ r \in Names(b)
      BY <1>1, <2>2, <3>2 DEF Edits
    <3> QED BY <2>8, <3>3 DEF Edits
  <2> QED BY <2>13, <2>14, <2>15 DEF t, V, NewNamesResolve
<1>11. ASSUME NEW skip PROVE WritesOwn(cfg, meta, c, skip, w, chunk(skip))
  BY <1>9, <1>10 DEF F, WritesOwn
<1> QED BY <1>11

-----------------------------------------------------------------------------
(* The pod's mutation.                                                     *)

(* Upsert leaves one element of the name, the one it was given.            *)
LEMMA UpsertOnly ==
    ASSUME NEW s, IsSeq(s), NEW e, AtMostOne(s, e.name)
    PROVE  LET t == Upsert(s, e) IN
           IsSeq(t) /\ AtMostOne(t, e.name) /\ OnlyOne(t, e)
<1> DEFINE t == Upsert(s, e)
           n == e.name
           p == findByName(s, n)
           q == IF p = 0 THEN Len(s) + 1 ELSE p
<1>1. Len(s) \in Nat /\ DOMAIN s = 1..Len(s)
  BY SeqFacts
<1>2. /\ IsSeq(t) /\ Len(t) = IF p # 0 THEN Len(s) ELSE Len(s) + 1
      /\ \A i \in 1..Len(t) :
            t[i] = IF i = p \/ i = Len(s) + 1 THEN e ELSE s[i]
  BY UpsertFacts
<1>3. \/ p = 0 /\ \A i \in 1..Len(s) : s[i].name # n
      \/ p \in 1..Len(s) /\ s[p].name = n
  BY FindByName
<1> HIDE DEF t, p
<1>4. DOMAIN t = 1..Len(t) /\ q \in 1..Len(t) /\ t[q] = e
  BY <1>1, <1>2, <1>3, SeqFacts
<1>5. ASSUME NEW j \in 1..Len(t), t[j].name = n PROVE j = q
  <2>1. CASE p = 0
    BY <1>1, <1>2, <1>3, <1>5, <2>1
  <2>2. CASE p # 0
    <3>1. j \in 1..Len(s) /\ p \in 1..Len(s) /\ s[p].name = n
      BY <1>1, <1>2, <1>3, <2>2
    <3>2. j = p \/ s[j].name = n
      BY <1>1, <1>2, <1>5, <3>1
    <3> QED BY <1>1, <2>2, <3>1, <3>2 DEF AtMostOne
  <2> QED BY <2>1, <2>2
<1> QED BY <1>2, <1>4, <1>5 DEF t, AtMostOne, OnlyOne

(* The first element of the name is the one Upsert was given.              *)
LEMMA UpsertFound ==
    ASSUME NEW s, IsSeq(s), NEW e
    PROVE  LET t == Upsert(s, e)
               q == findByName(t, e.name) IN
           q # 0 /\ t[q] = e
<1> DEFINE t == Upsert(s, e)
           n == e.name
           p == findByName(s, n)
           q == IF p = 0 THEN Len(s) + 1 ELSE p
<1>1. Len(s) \in Nat
  BY SeqFacts
<1>2. /\ IsSeq(t) /\ Len(t) = IF p # 0 THEN Len(s) ELSE Len(s) + 1
      /\ \A i \in 1..Len(t) :
            t[i] = IF i = p \/ i = Len(s) + 1 THEN e ELSE s[i]
  BY UpsertFacts
<1>3. \/ p = 0 /\ \A i \in 1..Len(s) : s[i].name # n
      \/ /\ p \in 1..Len(s) /\ s[p].name = n
         /\ \A i \in 1..Len(s) : s[i].name = n => p <= i
  BY FindByName
<1> HIDE DEF t, p
<1>4. q \in 1..Len(t) /\ t[q] = e
  BY <1>1, <1>2, <1>3
<1>5. ASSUME NEW i \in 1..Len(t), t[i].name = n PROVE q <= i
  BY <1>1, <1>2, <1>3, <1>5
<1>6. findByName(t, n) = q
  <2> HIDE DEF q
  <2> QED BY <1>2, <1>4, <1>5, FirstIsFound
<1> QED BY <1>1, <1>3, <1>4, <1>6 DEF t

LEMMA ContainerIntro ==
    ASSUME NEW c, NEW mounts, NEW env,
           c = [name |-> c.name, image |-> c.image, env |-> c.env,
                mounts |-> c.mounts]
    PROVE  LET d == [c EXCEPT !.mounts = mounts, !.env = env] IN
           /\ d = [name |-> d.name, image |-> d.image, env |-> d.env,
                   mounts |-> d.mounts]
           /\ d.name = c.name /\ d.image = c.image
           /\ d.env = env /\ d.mounts = mounts
<1> DEFINE d == [c EXCEPT !.mounts = mounts, !.env = env]
<1>1. d \in [name : {c.name}, image : {c.image}, env : {env}, mounts : {mounts}]
  OBVIOUS
<1> HIDE DEF d
<1>2. /\ d.name = c.name /\ d.image = c.image
      /\ d.env = env /\ d.mounts = mounts
  BY <1>1
<1>3. d = [name |-> d.name, image |-> d.image, env |-> d.env,
           mounts |-> d.mounts]
  BY <1>1
<1> QED BY <1>2, <1>3 DEF d

LEMMA PodIntro ==
    ASSUME NEW p, NEW volumes, NEW containers, NEW inits, NEW stamp,
           p = [meta |-> p.meta, volumes |-> p.volumes,
                containers |-> p.containers, inits |-> p.inits,
                stamp |-> p.stamp]
    PROVE  LET q == [p EXCEPT !.volumes = volumes, !.containers = containers,
                              !.inits = inits, !.stamp = stamp] IN
           /\ q = [meta |-> q.meta, volumes |-> q.volumes,
                   containers |-> q.containers, inits |-> q.inits,
                   stamp |-> q.stamp]
           /\ q.meta = p.meta /\ q.volumes = volumes
           /\ q.containers = containers /\ q.inits = inits /\ q.stamp = stamp
<1> DEFINE q == [p EXCEPT !.volumes = volumes, !.containers = containers,
                          !.inits = inits, !.stamp = stamp]
<1>1. q \in [meta : {p.meta}, volumes : {volumes}, containers : {containers},
             inits : {inits}, stamp : {stamp}]
  OBVIOUS
<1> HIDE DEF q
<1>2. /\ q.meta = p.meta /\ q.volumes = volumes
      /\ q.containers = containers /\ q.inits = inits /\ q.stamp = stamp
  BY <1>1
<1>3. q = [meta |-> q.meta, volumes |-> q.volumes,
           containers |-> q.containers, inits |-> q.inits,
           stamp |-> q.stamp]
  BY <1>1
<1> QED BY <1>2, <1>3 DEF q

(* The env of a container after the mutation, from the rule's vars on.     *)
NewEnv(cfg, meta, c, ruleEnv, skip) ==
    Written(cfg, meta, c, applyEnvVars(c.env, ruleEnv), skip)

(* q is the pod after the mutation of p, field by field.                   *)
MutatesTo(p, q, cfg, ruleEnv, skip) ==
    /\ q = [meta |-> q.meta, volumes |-> q.volumes,
            containers |-> q.containers, inits |-> q.inits,
            stamp |-> q.stamp]
    /\ q.meta = p.meta
    /\ q.volumes = mountVolume(cfg, p.volumes)
    /\ q.inits = addCopyInitContainerIfNeeded(cfg, p.inits)
    /\ q.stamp = <<ruleEnv, cfg.image>>
    /\ DOMAIN q.containers = DOMAIN p.containers
    /\ \A n \in DOMAIN p.containers :
          LET c == p.containers[n]
              d == q.containers[n] IN
          /\ d = [name |-> d.name, image |-> d.image, env |-> d.env,
                  mounts |-> d.mounts]
          /\ d.name = c.name /\ d.image = c.image
          /\ d.env = NewEnv(cfg, p.meta, c, ruleEnv, skip)
          /\ d.mounts = addMount(c)

LEMMA MutatedFields ==
    ASSUME NEW p, IsPod(p), NEW cfg, NEW ruleEnv, NEW skip
    PROVE  MutatesTo(p, Mutated(p, cfg, ruleEnv, skip), cfg, ruleEnv, skip)
<1> DEFINE q == Mutated(p, cfg, ruleEnv, skip)
           made == [i \in DOMAIN p.containers |->
                      instrumentContainer(cfg, p.meta, p.containers[i],
                                          ruleEnv, skip)]
<1>1. p = [meta |-> p.meta, volumes |-> p.volumes,
           containers |-> p.containers, inits |-> p.inits, stamp |-> p.stamp]
  BY DEF IsPod
<1>2. q = [p EXCEPT !.volumes = mountVolume(cfg, p.volumes),
                    !.containers = made,
                    !.inits = addCopyInitContainerIfNeeded(cfg, p.inits),
                    !.stamp = PodConfigHash(cfg, ruleEnv)]
  BY <1>1 DEF Mutated
<1> HIDE DEF q
<1>3. /\ DOMAIN made = DOMAIN p.containers
      /\ \A i \in DOMAIN made :
            made[i] = instrumentContainer(cfg, p.meta, p.containers[i],
                                          ruleEnv, skip)
  OBVIOUS
<1> HIDE DEF made
<1>4. /\ q = [meta |-> q.meta, volumes |-> q.volumes,
              containers |-> q.containers, inits |-> q.inits,
              stamp |-> q.stamp]
      /\ q.meta = p.meta
      /\ q.volumes = mountVolume(cfg, p.volumes)
      /\ q.containers = made
      /\ q.inits = addCopyInitContainerIfNeeded(cfg, p.inits)
      /\ q.stamp = PodConfigHash(cfg, ruleEnv)
  BY <1>1, <1>2, PodIntro
<1>5. ASSUME NEW n \in DOMAIN p.containers
      PROVE  LET c == p.containers[n]
                 d == q.containers[n] IN
             /\ d = [name |-> d.name, image |-> d.image, env |-> d.env,
                     mounts |-> d.mounts]
             /\ d.name = c.name /\ d.image = c.image
             /\ d.env = NewEnv(cfg, p.meta, c, ruleEnv, skip)
             /\ d.mounts = addMount(c)
  <2> DEFINE c == p.containers[n]
             env == addEnvVars(cfg, p.meta, c, ruleEnv, skip)
  <2>1. q.containers[n] = [c EXCEPT !.mounts = addMount(c), !.env = env]
    BY <1>3, <1>4, <1>5 DEF instrumentContainer
  <2>2. c = [name |-> c.name, image |-> c.image, env |-> c.env,
             mounts |-> c.mounts]
    BY <1>5 DEF IsPod, IsContainer
  <2>3. env = NewEnv(cfg, p.meta, c, ruleEnv, skip)
    BY DEF addEnvVars, NewEnv, Written
  <2> HIDE DEF c, env
  <2> QED BY <2>1, <2>2, <2>3, ContainerIntro DEF c
<1> QED BY <1>3, <1>4, <1>5 DEF MutatesTo, PodConfigHash, q

(* The env list of a container after a mutation, as edits of the one the   *)
(* rule's vars leave.                                                      *)
LEMMA NewEnvEdits ==
    ASSUME NEW cfg, cfg.ip \in BOOLEAN, cfg.uid \in BOOLEAN, NEW meta, NEW c,
           IsEnv(c.env), NEW ruleEnv, IsEnv(ruleEnv), NEW skip
    PROVE  \E v, w, chunk :
              LET mid == applyEnvVars(c.env, ruleEnv)
                  t == NewEnv(cfg, meta, c, ruleEnv, skip) IN
              /\ Leaves(ruleEnv, v) /\ Edits(c.env, mid, v, {})
              /\ OwnWrites(cfg, w, chunk)
              /\ Edits(mid, t, Updated(w, Join(mid, chunk)), FieldNames(cfg))
              /\ Lead(t, FieldNames(cfg))
              /\ NewNamesResolve(mid, t)
<1>1. PICK v : /\ Leaves(ruleEnv, v)
               /\ \A a : IsEnv(a) => Edits(a, applyEnvVars(a, ruleEnv), v, {})
  BY ApplyEdits
<1> DEFINE mid == applyEnvVars(c.env, ruleEnv)
<1>2. Edits(c.env, mid, v, {}) /\ IsEnv(mid)
  BY <1>1 DEF Edits
<1> HIDE DEF mid
<1>3. PICK w, chunk :
         /\ OwnWrites(cfg, w, chunk)
         /\ \A a : IsEnv(a) =>
               LET t == Written(cfg, meta, c, a, skip) IN
               /\ Edits(a, t, Updated(w, Join(a, chunk)), FieldNames(cfg))
               /\ Lead(t, FieldNames(cfg))
               /\ NewNamesResolve(a, t)
  BY WrittenEdits DEF WritesOwn
<1>4. NewEnv(cfg, meta, c, ruleEnv, skip) = Written(cfg, meta, c, mid, skip)
  BY DEF NewEnv, mid
<1> QED BY <1>1, <1>2, <1>3, <1>4 DEF mid

LEMMA MutatedIsPod ==
    ASSUME NEW p, IsPod(p), NEW cfg, cfg.ip \in BOOLEAN, cfg.uid \in BOOLEAN,
           NEW ruleEnv, IsEnv(ruleEnv), NEW skip
    PROVE  IsPod(Mutated(p, cfg, ruleEnv, skip))
<1> DEFINE q == Mutated(p, cfg, ruleEnv, skip)
<1>1. /\ q = [meta |-> q.meta, volumes |-> q.volumes,
              containers |-> q.containers, inits |-> q.inits,
              stamp |-> q.stamp]
      /\ q.volumes = mountVolume(cfg, p.volumes)
      /\ q.inits = addCopyInitContainerIfNeeded(cfg, p.inits)
      /\ DOMAIN q.containers = DOMAIN p.containers
      /\ \A n \in DOMAIN p.containers :
            LET c == p.containers[n]
                d == q.containers[n] IN
            /\ d = [name |-> d.name, image |-> d.image, env |-> d.env,
                    mounts |-> d.mounts]
            /\ d.env = NewEnv(cfg, p.meta, c, ruleEnv, skip)
            /\ d.mounts = addMount(c)
  <2>1. MutatesTo(p, q, cfg, ruleEnv, skip)
    BY MutatedFields
  <2> HIDE DEF q
  <2> QED BY <2>1 DEF MutatesTo
<1> HIDE DEF q
<1>2. IsSeq(q.volumes) /\ AtMostOne(q.volumes, injectVolumeName)
  <2> DEFINE e == buildVolumeDefinition(cfg)
  <2>1. e.name = injectVolumeName
    BY DEF buildVolumeDefinition
  <2>2. IsSeq(p.volumes) /\ AtMostOne(p.volumes, e.name)
    BY <2>1 DEF IsPod
  <2>3. q.volumes = Upsert(p.volumes, e)
    BY <1>1 DEF mountVolume
  <2> HIDE DEF e
  <2> QED BY <2>1, <2>2, <2>3, UpsertOnly
<1>3. IsSeq(q.inits)
  <2>1. IsSeq(p.inits) /\ \A e : IsSeq(Upsert(p.inits, e))
    BY UpsertFacts DEF IsPod
  <2> QED BY <1>1, <2>1 DEF addCopyInitContainerIfNeeded
<1>4. ASSUME NEW n \in DOMAIN q.containers PROVE IsContainer(q.containers[n])
  <2> DEFINE c == p.containers[n]
             d == q.containers[n]
             e == Mount(TRUE)
  <2>1. IsContainer(c)
    BY <1>1, <1>4 DEF IsPod
  <2>2. /\ d = [name |-> d.name, image |-> d.image, env |-> d.env,
                mounts |-> d.mounts]
        /\ d.env = NewEnv(cfg, p.meta, c, ruleEnv, skip)
        /\ d.mounts = addMount(c)
    BY <1>1, <1>4
  <2> HIDE DEF c, d
  <2>3. IsEnv(d.env)
    <3>1. IsEnv(c.env)
      BY <2>1 DEF IsContainer
    <3>2. IsEnv(NewEnv(cfg, p.meta, c, ruleEnv, skip))
      <4> DEFINE t == NewEnv(cfg, p.meta, c, ruleEnv, skip)
                 mid == applyEnvVars(c.env, ruleEnv)
      <4>1. \E w, chunk :
               Edits(mid, t, Updated(w, Join(mid, chunk)), FieldNames(cfg))
        BY <3>1, NewEnvEdits
      <4> QED BY <4>1 DEF Edits
    <3> QED BY <2>2, <3>2
  <2>4. e.name = injectVolumeName
    BY DEF Mount
  <2>5. IsSeq(c.mounts) /\ AtMostOne(c.mounts, e.name)
    BY <2>1, <2>4 DEF IsContainer
  <2>6. d.mounts = Upsert(c.mounts, e)
    BY <2>2 DEF addMount
  <2> HIDE DEF e
  <2>7. IsSeq(d.mounts) /\ AtMostOne(d.mounts, injectVolumeName)
    BY <2>4, <2>5, <2>6, UpsertOnly
  <2> QED BY <2>2, <2>3, <2>7 DEF IsContainer, d
<1> QED BY <1>1, <1>2, <1>3, <1>4 DEF IsPod, q

-----------------------------------------------------------------------------
(* The invariant.                                                          *)

(* The controller runs with a configuration of the file, and with image    *)
(* volumes only if that says so or the cluster has them.                   *)
Settled ==
    \E raw \in Configs :
       /\ sdk.image = raw.image
       /\ sdk.mode = "image" =>
             raw.mode = "image" \/ Release(Servers[server].version) >= 135

MInv ==
    /\ server \in DOMAIN Servers
    /\ admissions \in Nat
    /\ IsPod(pod)
    /\ sdk.ip \in BOOLEAN /\ sdk.uid \in BOOLEAN /\ sdk.image # "emptyDir"
    /\ Settled

LEMMA ServersFacts ==
    /\ Len(Servers) \in Nat /\ DOMAIN Servers = 1..Len(Servers)
    /\ 1 \in DOMAIN Servers
<1>1. IsSeq(Servers) /\ Servers # <<>>
  BY ServersAssumption
<1>2. /\ Len(Servers) \in Nat /\ DOMAIN Servers = 1..Len(Servers)
      /\ Servers \in Seq(ToSet(Servers))
  BY <1>1, SeqFacts DEF IsSeq
<1>3. Len(Servers) # 0
  BY <1>1, <1>2, EmptySeq
<1> QED BY <1>2, <1>3

LEMMA BootSettles ==
    ASSUME NEW raw \in Configs, NEW answers \in BOOLEAN,
           server \in DOMAIN Servers
    PROVE  LET cfg == Booted(raw, answers) IN
           /\ cfg.ip \in BOOLEAN /\ cfg.uid \in BOOLEAN
           /\ cfg.image = raw.image /\ cfg.image # "emptyDir"
           /\ cfg.mode = "image" =>
                 raw.mode = "image" \/ Release(Servers[server].version) >= 135
<1> DEFINE info == Servers[server].info
           v == ParseServerVersion(info)
           cfg == Booted(raw, answers)
           supported == answers /\ v # <<>> /\ SupportsImageVolume(v)
<1>1. raw \in [image : STRING, useLabels : BOOLEAN, ip : BOOLEAN,
               uid : BOOLEAN, debug : BOOLEAN, sdks : SUBSET STRING,
               mode : STRING]
      /\ raw.image # "emptyDir"
  BY ConfigsAssumption
<1>2. v \in {<<>>, Servers[server].version}
      /\ Servers[server].version \in Nat \X Nat
  BY ServersAssumption
<1>3. cfg = [SetDefaults(raw) EXCEPT !.mode = IF @ # "auto" THEN @
                ELSE IF supported THEN "image" ELSE "init_container"]
  BY DEF Booted, resolveInjectionMode
<1> HIDE DEF v
<1>4. supported => Release(Servers[server].version) >= 135
  BY <1>2 DEF Release, SupportsImageVolume
<1> HIDE DEF cfg, supported
<1>5. /\ cfg.ip = raw.ip /\ cfg.uid = raw.uid /\ cfg.image = raw.image
      /\ cfg.mode = "image" => raw.mode = "image" \/ supported
  BY <1>1, <1>3 DEF SetDefaults
<1> QED BY <1>1, <1>4, <1>5 DEF cfg

LEMMA InitMInv == Init => MInv
<1> SUFFICES ASSUME Init PROVE MInv
  OBVIOUS
<1>1. PICK raw \in Configs, answers \in BOOLEAN : sdk = Booted(raw, answers)
  BY DEF Init
<1>2. server = 1 /\ server \in DOMAIN Servers
  BY ServersFacts DEF Init
<1>3. admissions \in Nat /\ IsPod(pod)
  BY AuthoredAssumption DEF Init
<1> QED BY <1>1, <1>2, <1>3, BootSettles DEF MInv, Settled

LEMMA StepMInv == MInv /\ [Next]_vars => MInv'
<1> SUFFICES ASSUME MInv, [Next]_vars PROVE MInv'
  OBVIOUS
<1> USE DEF MInv
<1>1. ASSUME NEW raw \in Configs, NEW answers \in BOOLEAN, Boot(raw, answers)
      PROVE  MInv'
  BY <1>1, BootSettles DEF Boot, Settled
<1>2. CASE ServerUpgrade
  <2>1. /\ server' = server + 1 /\ server' \in DOMAIN Servers
        /\ UNCHANGED <<author, pod, admissions, sdk>>
    BY <1>2, ServersFacts DEF ServerUpgrade
  <2>2. /\ Release(Servers[server].version) <= Release(Servers[server'].version)
        /\ Servers[server].version \in Nat \X Nat
        /\ Servers[server'].version \in Nat \X Nat
    BY <2>1, ServersAssumption, ServersFacts
  <2>3. Release(Servers[server].version) >= 135
           => Release(Servers[server'].version) >= 135
    BY <2>2 DEF Release
  <2> QED BY <2>1, <2>3 DEF Settled
<1>3. ASSUME NEW ruleEnv \in RuleEnvs, NEW skip \in BOOLEAN,
             Default(ruleEnv, skip)
      PROVE  MInv'
  <2>1. IsPod(pod')
    BY <1>3, MutatedIsPod, RuleEnvsAssumption DEF Default
  <2>2. admissions' \in Nat /\ UNCHANGED <<author, server, sdk>>
    BY <1>3 DEF Default
  <2> QED BY <2>1, <2>2 DEF Settled
<1>4. CASE UNCHANGED vars
  BY <1>4 DEF vars, Settled
<1>5. ASSUME NEW ruleEnv \in RuleEnvs, DefaultSkips(ruleEnv) PROVE MInv'
  BY <1>4, <1>5 DEF DefaultSkips
<1> QED BY <1>1, <1>2, <1>3, <1>4, <1>5 DEF Next

LEMMA MutatorInvariance == Spec => []MInv
<1>1. Init => MInv
  BY InitMInv
<1>2. MInv /\ [Next]_vars => MInv'
  BY StepMInv
<1> QED BY <1>1, <1>2, PTL DEF Spec

-----------------------------------------------------------------------------
(* The payload.                                                            *)

(* What a mutation leaves of the payload.                                  *)
HasPayload(q, cfg) ==
    LET copier == findByName(q.inits, injectInitContainerName) IN
    /\ q.stamp[2] = cfg.image
    /\ cfg.mode = "image" => OnlyOne(q.volumes, Payload(cfg.image))
    /\ cfg.mode # "image" =>
          /\ OnlyOne(q.volumes, Payload("emptyDir"))
          /\ copier # 0
          /\ q.inits[copier].image = Image(cfg.image)
          /\ OnlyOne(q.inits[copier].mounts, Mount(FALSE))
    /\ \A n \in DOMAIN q.containers :
          OnlyOne(q.containers[n].mounts, Mount(TRUE))

LEMMA PayloadFacts ==
    ASSUME NEW p, IsPod(p), NEW cfg, NEW ruleEnv, NEW skip
    PROVE  HasPayload(Mutated(p, cfg, ruleEnv, skip), cfg)
<1> DEFINE q == Mutated(p, cfg, ruleEnv, skip)
           copier == findByName(q.inits, injectInitContainerName)
<1>1. /\ q.volumes = mountVolume(cfg, p.volumes)
      /\ q.inits = addCopyInitContainerIfNeeded(cfg, p.inits)
      /\ q.stamp = <<ruleEnv, cfg.image>>
      /\ DOMAIN q.containers = DOMAIN p.containers
      /\ \A n \in DOMAIN p.containers :
            q.containers[n].mounts = addMount(p.containers[n])
  <2>1. MutatesTo(p, q, cfg, ruleEnv, skip)
    BY MutatedFields
  <2> HIDE DEF q
  <2> QED BY <2>1 DEF MutatesTo
<1> HIDE DEF q
<1>2. OnlyOne(q.volumes, buildVolumeDefinition(cfg))
  <2> DEFINE e == buildVolumeDefinition(cfg)
  <2>1. e.name = injectVolumeName
    BY DEF buildVolumeDefinition
  <2>2. q.volumes = Upsert(p.volumes, e)
    BY <1>1 DEF mountVolume
  <2> HIDE DEF e
  <2>3. IsSeq(p.volumes) /\ AtMostOne(p.volumes, e.name)
    BY <2>1 DEF IsPod
  <2>4. OnlyOne(Upsert(p.volumes, e), e)
    BY <2>3, UpsertOnly
  <2> QED BY <2>2, <2>4 DEF e
<1>3. ASSUME NEW n \in DOMAIN q.containers
      PROVE  OnlyOne(q.containers[n].mounts, Mount(TRUE))
  <2> DEFINE e == Mount(TRUE)
             mounts == p.containers[n].mounts
  <2>1. e.name = injectVolumeName
    BY DEF Mount
  <2>2. q.containers[n].mounts = Upsert(mounts, e)
    BY <1>1, <1>3 DEF addMount
  <2>3. IsSeq(mounts) /\ AtMostOne(mounts, e.name)
    BY <1>1, <1>3, <2>1 DEF IsPod, IsContainer
  <2> HIDE DEF e, mounts
  <2>4. OnlyOne(Upsert(mounts, e), e)
    BY <2>3, UpsertOnly
  <2> QED BY <2>2, <2>4 DEF e
<1>4. ASSUME cfg.mode # "image"
      PROVE  /\ copier # 0
             /\ q.inits[copier].image = Image(cfg.image)
             /\ OnlyOne(q.inits[copier].mounts, Mount(FALSE))
  <2> DEFINE m == Mount(FALSE)
             e == [name |-> injectInitContainerName, image |-> Image(cfg.image),
                   env |-> <<>>, mounts |-> <<m>>]
  <2>1. /\ e.name = injectInitContainerName
        /\ e.image = Image(cfg.image) /\ e.mounts = <<m>>
    OBVIOUS
  <2>2. q.inits = Upsert(p.inits, e)
    BY <1>1, <1>4 DEF addCopyInitContainerIfNeeded, usesInitContainer
  <2> HIDE DEF e, m
  <2>5. IsSeq(p.inits)
    BY DEF IsPod
  <2> DEFINE u == Upsert(p.inits, e)
             k == findByName(u, e.name)
  <2>6. k # 0 /\ u[k] = e
    BY <2>5, UpsertFound
  <2>7. q.inits = u /\ copier = k
    BY <2>1, <2>2
  <2> HIDE DEF u, k, copier
  <2>3. copier # 0 /\ q.inits[copier] = e
    BY <2>6, <2>7
  <2>4. OnlyOne(<<m>>, m)
    BY DEF OnlyOne
  <2> QED BY <2>1, <2>3, <2>4 DEF m
<1>5. /\ cfg.mode = "image" => buildVolumeDefinition(cfg) = Payload(cfg.image)
      /\ cfg.mode # "image" => buildVolumeDefinition(cfg) = Payload("emptyDir")
  BY DEF buildVolumeDefinition, Payload, usesInitContainer
<1>6. q.stamp[2] = cfg.image
  BY <1>1
<1> HIDE DEF copier
<1> QED BY <1>2, <1>3, <1>4, <1>5, <1>6 DEF HasPayload, q, copier

(* The steps other than a mutation leave the pod as it is.                 *)
LEMMA OnlyDefaultMutates ==
    ASSUME [Next]_vars
    PROVE  \/ pod' = pod /\ admissions' = admissions
           \/ \E ruleEnv \in RuleEnvs, skip \in BOOLEAN : Default(ruleEnv, skip)
<1>1. ASSUME NEW raw \in Configs, NEW answers \in BOOLEAN, Boot(raw, answers)
      PROVE  pod' = pod /\ admissions' = admissions
  BY <1>1 DEF Boot
<1>2. ServerUpgrade => pod' = pod /\ admissions' = admissions
  BY DEF ServerUpgrade
<1>3. ASSUME NEW ruleEnv \in RuleEnvs, DefaultSkips(ruleEnv)
      PROVE  pod' = pod /\ admissions' = admissions
  BY <1>3 DEF DefaultSkips, vars
<1>4. UNCHANGED vars => pod' = pod /\ admissions' = admissions
  BY DEF vars
<1> QED BY <1>1, <1>2, <1>3, <1>4 DEF Next

(* For any pods, configurations, rules and versions: a stamped pod has the *)
(* payload its stamp names, mounted once in every container, also when     *)
(* mutateForContainer's writes met those of another image or mode.         *)
THEOREM PayloadAlwaysMatches == Spec => []PayloadMatchesStamp
<1>1. Init => PayloadMatchesStamp
  BY DEF Init, Injected, PayloadMatchesStamp
<1>2. ASSUME MInv, PayloadMatchesStamp, [Next]_vars PROVE PayloadMatchesStamp'
  <2>1. CASE pod' = pod /\ admissions' = admissions
    BY <1>2, <2>1 DEF Injected, PayloadMatchesStamp
  <2>2. ASSUME NEW ruleEnv \in RuleEnvs, NEW skip \in BOOLEAN,
               Default(ruleEnv, skip)
        PROVE  PayloadMatchesStamp'
    <3>1. IsPod(pod) /\ pod' = Mutated(pod, sdk, ruleEnv, skip)
      BY <1>2, <2>2 DEF Default, MInv
    <3>2. HasPayload(pod', sdk)
      BY <3>1, PayloadFacts
    <3> QED BY <3>2 DEF HasPayload, PayloadMatchesStamp
  <2> QED BY <1>2, <2>1, <2>2, OnlyDefaultMutates
<1> QED BY <1>1, <1>2, MutatorInvariance, PTL DEF Spec

(* For any versions that only grow, and however the controller restarts:   *)
(* a pod has an image volume only where it can be mounted, unless the file *)
(* asks for one.                                                           *)
THEOREM PayloadAlwaysMountable == Spec => []PayloadMountable
<1>1. Init => PayloadMountable
  BY DEF Init, Injected, PayloadMountable
<1>2. ASSUME MInv, MInv', PayloadMountable, [Next]_vars PROVE PayloadMountable'
  <2>1. CASE pod' = pod /\ admissions' = admissions
    <3>1. Release(Servers[server].version) >= 135
             => Release(Servers[server'].version) >= 135
      <4>1. /\ server \in DOMAIN Servers /\ server' \in DOMAIN Servers
            /\ server <= server'
        BY <1>2, ServersFacts
           DEF MInv, Next, Boot, ServerUpgrade, Default, DefaultSkips, vars
      <4>2. /\ Release(Servers[server].version)
                  <= Release(Servers[server'].version)
            /\ Servers[server].version \in Nat \X Nat
            /\ Servers[server'].version \in Nat \X Nat
        BY <4>1, ServersAssumption
      <4> QED BY <4>2 DEF Release
    <3> QED BY <1>2, <2>1, <3>1 DEF Injected, PayloadMountable
  <2>2. ASSUME NEW ruleEnv \in RuleEnvs, NEW skip \in BOOLEAN,
               Default(ruleEnv, skip)
        PROVE  PayloadMountable'
    <3>1. /\ IsPod(pod) /\ pod' = Mutated(pod, sdk, ruleEnv, skip)
          /\ server' = server
      BY <1>2, <2>2 DEF Default, MInv
    <3>2. /\ pod'.stamp[2] = sdk.image
          /\ sdk.mode # "image" => OnlyOne(pod'.volumes, Payload("emptyDir"))
      <4>1. HasPayload(pod', sdk)
        BY <3>1, PayloadFacts
      <4> QED BY <4>1 DEF HasPayload
    <3> QED BY <1>2, <3>1, <3>2 DEF MInv, PayloadMountable, Settled
  <2> QED BY <1>2, <2>1, <2>2, OnlyDefaultMutates
<1> QED BY <1>1, <1>2, MutatorInvariance, PTL DEF Spec

(* For any env lists of the author and of the rule, in any order: the vars *)
(* that the added attributes refer to are declared before them.            *)
THEOREM AttributesAlwaysResolve == Spec => []AttributesResolve
<1>1. Init => AttributesResolve
  BY DEF Init, Injected, AttributesResolve
<1>2. ASSUME MInv, AttributesResolve, [Next]_vars PROVE AttributesResolve'
  <2>1. CASE pod' = pod /\ admissions' = admissions
    BY <1>2, <2>1 DEF Injected, AttributesResolve
  <2>2. ASSUME NEW ruleEnv \in RuleEnvs, NEW skip \in BOOLEAN,
               Default(ruleEnv, skip), NEW n \in DOMAIN pod'.containers
        PROVE  LET env == pod'.containers[n].env
                   pos == findByName(env, envInjectorOtelExtraResourceAttrs)
               IN  /\ pos # 0
                   /\ \A r \in UNION {a.refs : a \in Last(env[pos].value)} :
                         Resolves(env, pos, r)
    <3> DEFINE c == pod.containers[n]
               env == pod'.containers[n].env
               pos == findByName(env, Attrs)
               F == FieldNames(sdk)
               mid == applyEnvVars(c.env, ruleEnv)
    <3>1. /\ IsPod(pod) /\ pod' = Mutated(pod, sdk, ruleEnv, skip)
          /\ sdk.ip \in BOOLEAN /\ sdk.uid \in BOOLEAN /\ IsEnv(ruleEnv)
      BY <1>2, <2>2, RuleEnvsAssumption DEF Default, MInv
    <3>2. /\ n \in DOMAIN pod.containers
          /\ env = NewEnv(sdk, pod.meta, c, ruleEnv, skip)
      <4>1. MutatesTo(pod, pod', sdk, ruleEnv, skip)
        BY <3>1, MutatedFields
      <4> QED BY <2>2, <4>1 DEF MutatesTo
    <3>3. IsEnv(c.env)
      BY <3>1, <3>2 DEF IsContainer, IsPod
    <3>4. PICK v, w, chunk :
             /\ Edits(c.env, mid, v, {})
             /\ OwnWrites(sdk, w, chunk)
             /\ Edits(mid, env, Updated(w, Join(mid, chunk)), F)
             /\ Lead(env, F)
      BY <3>1, <3>2, <3>3, NewEnvEdits
    <3> HIDE DEF c, env, mid, F
    <3>5. IsEnv(mid) /\ IsEnv(env)
      BY <3>4 DEF Edits
    <3>6. Attrs \in Names(env) /\ At(env, Attrs) = Joined(mid, chunk)
      BY <3>4 DEF Edits, Join, Updated
    <3>7. Last(Joined(mid, chunk).value) = chunk
      <4>1. CASE Attrs \in Names(mid) /\ At(mid, Attrs).value # <<>>
        <5>1. IsSeq(At(mid, Attrs).value)
          BY <3>5, <4>1, AtFacts DEF IsVar
        <5>2. /\ Last(Append(At(mid, Attrs).value, chunk)) = chunk
              /\ IsSeq(Append(At(mid, Attrs).value, chunk))
          BY <5>1, AppendFacts
        <5> QED BY <4>1, <5>2, VarFacts DEF Joined
      <4>2. CASE ~(Attrs \in Names(mid) /\ At(mid, Attrs).value # <<>>)
        <5>1. Last(<<chunk>>) = chunk
          BY DEF Last
        <5> QED BY <4>2, <5>1, OneChunk, VarFacts DEF Joined
      <4> QED BY <4>1, <4>2
    <3>8. /\ IsSeq(env) /\ Len(env) \in Nat /\ DOMAIN env = 1..Len(env)
      BY <3>5, SeqFacts DEF IsEnv
    <3>9. pos \in 1..Len(env) /\ env[pos] = At(env, Attrs)
      BY <3>6, <3>8, NamesFound DEF At
    <3>10. ASSUME NEW r \in UNION {a.refs : a \in Last(env[pos].value)}
           PROVE  Resolves(env, pos, r)
      <4>1. r \in F
        BY <3>4, <3>6, <3>7, <3>9 DEF OwnWrites, F
      <4>2. r \in Names(env) /\ findByName(env, r) < pos
        BY <3>4, <3>6, <4>1 DEF Lead
      <4>3. findByName(env, r) \in 1..Len(env) /\ env[findByName(env, r)].name = r
        BY <3>8, <4>2, NamesFound
      <4> QED BY <3>8, <3>9, <4>2, <4>3 DEF Resolves
    <3>11. pos # 0
      BY <3>9
    <3> QED BY <3>10, <3>11 DEF env, Attrs
  <2>3. ASSUME NEW ruleEnv \in RuleEnvs, NEW skip \in BOOLEAN,
               Default(ruleEnv, skip)
        PROVE  AttributesResolve'
    BY <2>2, <2>3 DEF AttributesResolve
  <2> QED BY <1>2, <2>1, <2>3, OnlyDefaultMutates
<1> QED BY <1>1, <1>2, MutatorInvariance, PTL DEF Spec

-----------------------------------------------------------------------------
(* References.                                                             *)

(* A mutation's env lists, as edits.                                       *)
MutatesEnv(cfg, ruleEnv, old, new) ==
    \E v, w, chunk :
       LET mid == applyEnvVars(old, ruleEnv) IN
       /\ Leaves(ruleEnv, v) /\ Edits(old, mid, v, {})
       /\ OwnWrites(cfg, w, chunk)
       /\ Edits(mid, new, Updated(w, Join(mid, chunk)), FieldNames(cfg))
       /\ NewNamesResolve(mid, new)

LEMMA DefaultEnvs ==
    ASSUME MInv, NEW ruleEnv \in RuleEnvs, NEW skip \in BOOLEAN,
           Default(ruleEnv, skip)
    PROVE  /\ pod'.stamp = <<ruleEnv, sdk.image>>
           /\ DOMAIN pod'.containers = DOMAIN pod.containers
           /\ \A n \in DOMAIN pod.containers :
                 LET old == pod.containers[n].env
                     new == pod'.containers[n].env IN
                 /\ IsEnv(old) /\ IsEnv(new)
                 /\ MutatesEnv(sdk, ruleEnv, old, new)
<1>1. /\ IsPod(pod) /\ pod' = Mutated(pod, sdk, ruleEnv, skip)
      /\ sdk.ip \in BOOLEAN /\ sdk.uid \in BOOLEAN /\ IsEnv(ruleEnv)
  BY RuleEnvsAssumption DEF Default, MInv
<1>2. MutatesTo(pod, pod', sdk, ruleEnv, skip)
  BY <1>1, MutatedFields
<1>3. ASSUME NEW n \in DOMAIN pod.containers
      PROVE  LET old == pod.containers[n].env
                 new == pod'.containers[n].env IN
             /\ IsEnv(old) /\ IsEnv(new)
             /\ MutatesEnv(sdk, ruleEnv, old, new)
  <2> DEFINE c == pod.containers[n]
             new == pod'.containers[n].env
             mid == applyEnvVars(c.env, ruleEnv)
  <2>1. new = NewEnv(sdk, pod.meta, c, ruleEnv, skip)
    BY <1>2, <1>3 DEF MutatesTo
  <2>2. IsEnv(c.env)
    BY <1>1, <1>3 DEF IsContainer, IsPod
  <2>3. PICK v, w, chunk :
           /\ Leaves(ruleEnv, v) /\ Edits(c.env, mid, v, {})
           /\ OwnWrites(sdk, w, chunk)
           /\ Edits(mid, new, Updated(w, Join(mid, chunk)), FieldNames(sdk))
           /\ NewNamesResolve(mid, new)
    BY <1>1, <2>1, <2>2, NewEnvEdits
  <2> HIDE DEF new, c
  <2>4. IsEnv(new)
    BY <2>3 DEF Edits
  <2>5. MutatesEnv(sdk, ruleEnv, c.env, new)
    BY <2>3 DEF MutatesEnv
  <2> QED BY <2>2, <2>4, <2>5 DEF c, new
<1> QED BY <1>2, <1>3 DEF MutatesTo

(* A var listed once is the first of its name.                             *)
LEMMA OnceIsFirst ==
    ASSUME NEW s, IsSeq(s), NEW i \in DOMAIN s, AtMostOne(s, s[i].name)
    PROVE  /\ i = findByName(s, s[i].name) /\ s[i] = At(s, s[i].name)
           /\ s[i].name \in Names(s)
<1>1. DOMAIN s = 1..Len(s)
  BY SeqFacts
<1>2. s[i].name \in Names(s)
  BY <1>1, NamesFound
<1> QED BY <1>1, <1>2, NamesFound DEF At, AtMostOne

(* An earlier var of that name makes a reference resolve, and conversely.  *)
LEMMA ResolvesFirst ==
    ASSUME NEW s, IsSeq(s), NEW i \in DOMAIN s, NEW r
    PROVE  Resolves(s, i, r) <=> r \in Names(s) /\ findByName(s, r) < i
<1>1. Len(s) \in Nat /\ DOMAIN s = 1..Len(s)
  BY SeqFacts
<1>2. ASSUME Resolves(s, i, r) PROVE r \in Names(s) /\ findByName(s, r) < i
  <2>1. PICK j \in 1..i - 1 : s[j].name = r
    BY <1>2 DEF Resolves
  <2>2. j \in 1..Len(s)
    BY <1>1, <2>1
  <2>3. r \in Names(s)
    BY <2>1, <2>2, NamesFound
  <2> QED BY <1>1, <2>1, <2>2, <2>3, NamesFound
<1>3. ASSUME r \in Names(s), findByName(s, r) < i PROVE Resolves(s, i, r)
  <2>1. findByName(s, r) \in 1..Len(s) /\ s[findByName(s, r)].name = r
    BY <1>3, NamesFound
  <2> QED BY <1>1, <1>3, <2>1 DEF Resolves
<1> QED BY <1>2, <1>3

LEMMA EnvKeepsReferences ==
    ASSUME NEW cfg, NEW ruleEnv, NEW old, IsEnv(old), NEW new, IsEnv(new),
           MutatesEnv(cfg, ruleEnv, old, new),
           NEW i \in DOMAIN old, NEW j \in DOMAIN new,
           old[i].name = new[j].name, AtMostOne(old, old[i].name),
           NEW r \in Refs(old[i].value) \cap Refs(new[j].value),
           Resolves(old, i, r)
    PROVE  Resolves(new, j, r)
<1> DEFINE x == old[i].name
           mid == applyEnvVars(old, ruleEnv)
           F == FieldNames(cfg)
<1>1. PICK v, w, chunk :
         /\ Edits(old, mid, v, {})
         /\ OwnWrites(cfg, w, chunk)
         /\ Edits(mid, new, Updated(w, Join(mid, chunk)), F)
  BY DEF MutatesEnv
<1> HIDE DEF mid, F
<1> DEFINE u == Updated(w, Join(mid, chunk))
<1>2. AtMostOne(new, x) /\ IsSeq(old) /\ IsSeq(new)
  BY <1>1 DEF Edits, KeepsSingle, IsEnv
<1>3. /\ i = findByName(old, x) /\ x \in Names(old)
      /\ j = findByName(new, x) /\ new[j] = At(new, x) /\ x \in Names(new)
  BY <1>2, OnceIsFirst
<1>4. x \notin F
  <2> SUFFICES ASSUME x \in F PROVE FALSE
    OBVIOUS
  <2>1. x \in DOMAIN w /\ x # Attrs /\ Refs(w[x].value) = {}
    BY <1>1 DEF OwnWrites, F
  <2>2. x \in DOMAIN u /\ u[x] = w[x]
    BY <2>1 DEF Join, Updated
  <2> HIDE DEF u
  <2>3. new[j] = w[x]
    BY <1>1, <1>3, <2>2 DEF Edits, u
  <2> QED BY <2>1, <2>3
<1>5. r \in Names(old) /\ findByName(old, r) < findByName(old, x)
  BY <1>2, <1>3, ResolvesFirst
<1>6. r \in Names(mid) /\ x \in Names(mid)
      /\ findByName(mid, r) < findByName(mid, x)
  BY <1>1, <1>3, <1>5 DEF Edits
<1>7. r \in Names(new) /\ findByName(new, r) < findByName(new, x)
  BY <1>1, <1>3, <1>4, <1>6 DEF Edits
<1> QED BY <1>2, <1>3, <1>7, ResolvesFirst

(* For any env lists: a reference that kubelet could expand before the     *)
(* mutation it can expand after it, wherever the mutator has put its vars. *)
THEOREM ReferencesAlwaysKept == Spec => ReferencesKept
<1> DEFINE Kept ==
             pod' # pod =>
             \A n \in DOMAIN pod.containers :
                LET old == pod.containers[n].env
                    new == pod'.containers[n].env
                IN  \A i \in DOMAIN old, j \in DOMAIN new :
                      old[i].name = new[j].name /\ AtMostOne(old, old[i].name) =>
                      \A r \in Refs(old[i].value) \cap Refs(new[j].value) :
                         Resolves(old, i, r) => Resolves(new, j, r)
<1>1. ASSUME MInv, [Next]_vars PROVE Kept
  <2>1. ASSUME NEW ruleEnv \in RuleEnvs, NEW skip \in BOOLEAN,
               Default(ruleEnv, skip)
        PROVE  Kept
    BY <1>1, <2>1, DefaultEnvs, EnvKeepsReferences
  <2> QED BY <1>1, <2>1, OnlyDefaultMutates
<1>2. MInv /\ [Next]_vars => [Kept]_vars
  BY <1>1
<1> QED BY <1>2, MutatorInvariance, PTL DEF Spec, ReferencesKept

LEMMA AddedVarResolves ==
    ASSUME NEW cfg, NEW ruleEnv, NEW old, IsEnv(old), NEW new, IsEnv(new),
           MutatesEnv(cfg, ruleEnv, old, new),
           NEW j \in DOMAIN new,
           new[j].name \notin Names(old) \cup Names(ruleEnv),
           NEW r \in Refs(new[j].value)
    PROVE  Resolves(new, j, r)
<1> DEFINE y == new[j].name
           mid == applyEnvVars(old, ruleEnv)
<1>1. PICK v, w, chunk :
         /\ Leaves(ruleEnv, v) /\ Edits(old, mid, v, {})
         /\ Edits(mid, new, Updated(w, Join(mid, chunk)), FieldNames(cfg))
         /\ NewNamesResolve(mid, new)
  BY DEF MutatesEnv
<1> HIDE DEF mid
<1>2. y \notin Names(mid)
  BY <1>1 DEF Edits, Leaves
<1>3. AtMostOne(mid, y)
  BY <1>2 DEF AtMostOne, Names
<1>4. AtMostOne(new, y) /\ IsSeq(new)
  BY <1>1, <1>3 DEF Edits, KeepsSingle, IsEnv
<1>5. j = findByName(new, y) /\ new[j] = At(new, y) /\ y \in Names(new)
  BY <1>4, OnceIsFirst
<1>6. r \in Names(new) /\ findByName(new, r) < findByName(new, y)
  BY <1>1, <1>2, <1>5 DEF NewNamesResolve
<1> QED BY <1>4, <1>5, <1>6, ResolvesFirst

(* For any env lists: what the vars that a mutation adds refer to is       *)
(* declared before them.                                                   *)
THEOREM AddedVarsAlwaysResolve == Spec => AddedVarsResolve
<1> DEFINE Added ==
             pod' # pod =>
               \A n \in DOMAIN pod.containers :
                  LET new == pod'.containers[n].env
                      listed == Names(pod.containers[n].env)
                                   \cup Names(pod'.stamp[1])
                  IN  \A j \in DOMAIN new : new[j].name \notin listed =>
                         \A r \in Refs(new[j].value) : Resolves(new, j, r)
<1>1. ASSUME MInv, [Next]_vars PROVE Added
  <2>1. ASSUME NEW ruleEnv \in RuleEnvs, NEW skip \in BOOLEAN,
               Default(ruleEnv, skip)
        PROVE  Added
    <3>1. pod'.stamp[1] = ruleEnv
      BY <1>1, <2>1, DefaultEnvs
    <3> QED BY <1>1, <2>1, <3>1, DefaultEnvs, AddedVarResolves
  <2> QED BY <1>1, <2>1, OnlyDefaultMutates
<1>2. MInv /\ [Next]_vars => [Added]_vars
  BY <1>1
<1> QED BY <1>2, MutatorInvariance, PTL DEF Spec, AddedVarsResolve

-----------------------------------------------------------------------------
(* Precedence.                                                             *)

LEMMA SameFunction ==
    ASSUME NEW S, NEW T, NEW f, NEW g, f = [x \in S |-> f[x]],
           g = [x \in T |-> g[x]], S = T, \A x \in S : f[x] = g[x]
    PROVE  f = g
OBVIOUS

(* What a var says.                                                        *)
Says(e) == [value |-> e.value, from |-> e.from]

LEMMA ViewFacts ==
    ASSUME NEW s
    PROVE  /\ DOMAIN View(s) = Names(s)
           /\ View(s) = [x \in Names(s) |-> View(s)[x]]
           /\ \A x \in Names(s) : View(s)[x] = Says(At(s, x))
BY DEF View, Says, At

LEMMA UpdatedFacts ==
    ASSUME NEW f, NEW g
    PROVE  LET u == Updated(f, g) IN
           /\ DOMAIN u = DOMAIN f \cup DOMAIN g
           /\ u = [x \in DOMAIN f \cup DOMAIN g |-> u[x]]
           /\ \A x \in DOMAIN f \cup DOMAIN g :
                 u[x] = IF x \in DOMAIN g THEN g[x] ELSE f[x]
BY DEF Updated

(* The first of the reversed list is the last of the list.                 *)
LEMMA ReverseLeaves ==
    ASSUME NEW vs, IsEnv(vs), NEW v, Leaves(vs, v)
    PROVE  /\ Names(Reverse(vs)) = Names(vs)
           /\ \A x \in Names(vs) : At(Reverse(vs), x) = v[x]
<1> DEFINE t == Reverse(vs)
           m == Len(vs)
<1>1. IsSeq(vs) /\ m \in Nat /\ DOMAIN vs = 1..m
  BY SeqFacts DEF IsEnv
<1>2. /\ t = [i \in 1..m |-> t[i]]
      /\ \A i \in 1..m : t[i] = vs[(m - i) + 1]
  BY DEF Reverse
<1> HIDE DEF t, m
<1>3. IsSeq(t) /\ Len(t) = m
  BY <1>1, <1>2, SeqIntro
<1>4. \A i \in 1..m : (m - i) + 1 \in 1..m /\ (m - ((m - i) + 1)) + 1 = i
  BY <1>1
<1>5. \A x : x \in Names(t) <=> x \in Names(vs)
  <2>1. ASSUME NEW x, x \in Names(t) PROVE x \in Names(vs)
    <3>1. PICK i \in 1..m : t[i].name = x
      BY <1>3, <2>1, NamesFound
    <3>2. (m - i) + 1 \in 1..m /\ vs[(m - i) + 1].name = x
      BY <1>2, <1>4, <3>1
    <3> QED BY <1>1, <3>2, NamesFound DEF m
  <2>2. ASSUME NEW x, x \in Names(vs) PROVE x \in Names(t)
    <3>1. PICK i \in 1..m : vs[i].name = x
      BY <1>1, <2>2, NamesFound DEF m
    <3>2. (m - i) + 1 \in 1..m /\ t[(m - i) + 1].name = x
      BY <1>2, <1>4, <3>1
    <3> QED BY <1>3, <3>2, NamesFound
  <2> QED BY <2>1, <2>2
<1>6. ASSUME NEW x \in Names(vs) PROVE At(t, x) = v[x]
  <2>1. PICK k \in 1..m : /\ v[x] = vs[k] /\ vs[k].name = x
                          /\ \A i \in 1..m : vs[i].name = x => i <= k
    BY <1>1 DEF Leaves
  <2> DEFINE q == (m - k) + 1
  <2>2. q \in 1..m /\ t[q] = vs[k]
    BY <1>2, <1>4
  <2>3. ASSUME NEW i \in 1..m, t[i].name = x PROVE q <= i
    <3>1. (m - i) + 1 \in 1..m /\ vs[(m - i) + 1].name = x
      BY <1>2, <1>4, <2>3
    <3>2. (m - i) + 1 <= k
      BY <2>1, <3>1
    <3> QED BY <1>1, <3>2
  <2> HIDE DEF q
  <2>4. findByName(t, x) = q
    BY <1>3, <2>1, <2>2, <2>3, FirstIsFound
  <2> QED BY <2>1, <2>2, <2>4 DEF At
<1> QED BY <1>5, <1>6 DEF t

(* The mutator's own writes over the rule's over the author's.             *)
MergedView(a, vs, o) ==
    LET base == Updated(View(a), View(Reverse(vs)))
        own == View(o)
        joined == [x \in DOMAIN base \cap {Attrs} |->
                     [value |-> base[x].value \o own[x].value, from |-> ""]]
    IN  Updated(Updated(base, own), joined)

LEMMA EditsMerge ==
    ASSUME NEW cfg, NEW F, NEW a, IsEnv(a), NEW vs, IsEnv(vs), NEW v,
           Leaves(vs, v), NEW mid, Edits(a, mid, v, {}), NEW w, NEW chunk,
           OwnWrites(cfg, w, chunk), NEW t,
           Edits(mid, t, Updated(w, Join(mid, chunk)), F), NEW o,
           Edits(<<>>, o, Updated(w, Join(<<>>, chunk)), F)
    PROVE  View(t) = MergedView(a, vs, o)
<1> DEFINE base == Updated(View(a), View(Reverse(vs)))
           own == View(o)
           joined == [x \in DOMAIN base \cap {Attrs} |->
                        [value |-> base[x].value \o own[x].value, from |-> ""]]
           both == Updated(base, own)
           all == Updated(both, joined)
           e == Var(Attrs, <<chunk>>)
<1>1. /\ DOMAIN base = Names(mid)
      /\ \A x \in Names(mid) : base[x] = Says(At(mid, x))
  <2>1. /\ Names(Reverse(vs)) = Names(vs)
        /\ \A x \in Names(vs) : At(Reverse(vs), x) = v[x]
    BY ReverseLeaves
  <2> DEFINE f == View(a)
             rev == Reverse(vs)
             g == View(rev)
             u == Updated(f, g)
  <2>2. DOMAIN f = Names(a) /\ \A x \in Names(a) : f[x] = Says(At(a, x))
    BY ViewFacts
  <2>3. DOMAIN g = Names(vs) /\ \A x \in Names(vs) : g[x] = Says(v[x])
    <3> HIDE DEF rev
    <3>1. DOMAIN g = Names(rev) /\ \A x \in Names(rev) : g[x] = Says(At(rev, x))
      BY ViewFacts
    <3> HIDE DEF g
    <3> QED BY <2>1, <3>1 DEF rev
  <2>4. base = u
    OBVIOUS
  <2> HIDE DEF f, rev, g, base
  <2>5. /\ DOMAIN u = DOMAIN f \cup DOMAIN g
        /\ \A x \in DOMAIN f \cup DOMAIN g :
              u[x] = IF x \in DOMAIN g THEN g[x] ELSE f[x]
    BY UpdatedFacts
  <2> HIDE DEF u
  <2>6. /\ DOMAIN base = Names(a) \cup Names(vs)
        /\ \A x \in Names(a) \cup Names(vs) :
              base[x] = IF x \in Names(vs) THEN Says(v[x]) ELSE Says(At(a, x))
    BY <2>2, <2>3, <2>4, <2>5
  <2>7. /\ DOMAIN v = Names(vs) /\ Names(mid) = Names(a) \cup DOMAIN v
        /\ \A x \in Names(mid) :
              At(mid, x) = IF x \in DOMAIN v THEN v[x] ELSE At(a, x)
    BY DEF Edits, Leaves
  <2> QED BY <2>6, <2>7
<1> HIDE DEF base
<1>2. Attrs \notin DOMAIN w
  BY DEF OwnWrites
<1>3. ASSUME NEW s
      PROVE  LET u == Updated(w, Join(s, chunk)) IN
             /\ DOMAIN u = DOMAIN w \cup {Attrs}
             /\ \A x \in DOMAIN w : u[x] = w[x]
             /\ u[Attrs] = Joined(s, chunk)
  BY <1>2 DEF Join, Updated
<1>4. Joined(<<>>, chunk) = e
  BY DEF Joined, Names
<1>5. /\ DOMAIN own = DOMAIN w \cup {Attrs}
      /\ \A x \in DOMAIN w : own[x] = Says(w[x])
      /\ own[Attrs] = Says(e)
  <2>1. Names(<<>>) = {}
    BY DEF Names
  <2>2. Names(o) = DOMAIN w \cup {Attrs}
    BY <1>3, <2>1 DEF Edits
  <2>3. /\ \A x \in DOMAIN w : At(o, x) = w[x]
        /\ At(o, Attrs) = e
    BY <1>3, <1>4, <2>2 DEF Edits
  <2> HIDE DEF e
  <2>4. DOMAIN own = Names(o) /\ \A x \in Names(o) : own[x] = Says(At(o, x))
    BY ViewFacts
  <2> HIDE DEF own
  <2> QED BY <2>2, <2>3, <2>4
<1> HIDE DEF own
<1>6. /\ Names(t) = Names(mid) \cup DOMAIN w \cup {Attrs}
      /\ \A x \in DOMAIN w : At(t, x) = w[x]
      /\ At(t, Attrs) = Joined(mid, chunk)
      /\ \A x \in Names(mid) : x \notin DOMAIN w /\ x # Attrs =>
            At(t, x) = At(mid, x)
  BY <1>3 DEF Edits
<1>7. /\ DOMAIN joined = Names(mid) \cap {Attrs}
      /\ Attrs \in Names(mid) =>
            joined[Attrs] = [value |-> base[Attrs].value \o own[Attrs].value,
                             from |-> ""]
  BY <1>1
<1> HIDE DEF joined
<1>8. /\ DOMAIN both = Names(mid) \cup DOMAIN w \cup {Attrs}
      /\ \A x \in DOMAIN both :
            both[x] = IF x \in DOMAIN w \cup {Attrs} THEN own[x] ELSE base[x]
  <2>1. /\ DOMAIN both = DOMAIN base \cup DOMAIN own
        /\ \A x \in DOMAIN base \cup DOMAIN own :
              both[x] = IF x \in DOMAIN own THEN own[x] ELSE base[x]
    BY UpdatedFacts
  <2> HIDE DEF both
  <2> QED BY <1>1, <1>5, <2>1
<1> HIDE DEF both
<1>9. /\ DOMAIN all = Names(t) /\ all = [x \in Names(t) |-> all[x]]
      /\ \A x \in Names(t) :
            all[x] = IF x \in DOMAIN joined THEN joined[x] ELSE both[x]
  <2>1. DOMAIN both \cup DOMAIN joined = Names(t)
    BY <1>6, <1>7, <1>8
  <2> QED BY <2>1, UpdatedFacts
<1> HIDE DEF all
<1>10. ASSUME Attrs \in Names(mid) PROVE Says(At(t, Attrs)) = joined[Attrs]
  <2> DEFINE s == At(mid, Attrs).value
  <2>1. IsEnv(mid)
    BY DEF Edits
  <2>2. IsSeq(s)
    BY <1>10, <2>1, AtFacts DEF IsVar
  <2>3. base[Attrs].value = s /\ own[Attrs].value = <<chunk>>
    BY <1>1, <1>5, <1>10, OneChunk, VarFacts DEF Says
  <2>4. joined[Attrs] = [value |-> s \o <<chunk>>, from |-> ""]
    BY <1>7, <1>10, <2>3
  <2>5. Joined(mid, chunk) = Var(Attrs, s \o <<chunk>>)
    <3>1. CASE s # <<>>
      <4>1. Joined(mid, chunk) = Var(Attrs, Append(s, chunk))
        BY <1>10, <3>1 DEF Joined
      <4> HIDE DEF s
      <4>2. Append(s, chunk) = s \o <<chunk>>
        BY <2>2, AppendFacts
      <4> QED BY <4>1, <4>2
    <3>2. CASE s = <<>>
      <4>1. Joined(mid, chunk) = Var(Attrs, <<chunk>>)
        BY <3>2 DEF Joined
      <4>2. <<>> \o <<chunk>> = <<chunk>>
        OBVIOUS
      <4> QED BY <3>2, <4>1, <4>2
    <3> QED BY <3>1, <3>2
  <2> HIDE DEF s
  <2>6. Says(Var(Attrs, s \o <<chunk>>))
           = [value |-> s \o <<chunk>>, from |-> ""]
    BY DEF Says, Var
  <2> QED BY <1>6, <2>4, <2>5, <2>6
<1>11. ASSUME NEW x \in Names(t) PROVE Says(At(t, x)) = all[x]
  <2>1. CASE x = Attrs /\ Attrs \in Names(mid)
    BY <1>7, <1>9, <1>10, <2>1
  <2>2. CASE x = Attrs /\ Attrs \notin Names(mid)
    <3>1. Joined(mid, chunk) = e
      BY <2>2 DEF Joined
    <3> HIDE DEF e
    <3>2. all[x] = both[x] /\ both[x] = own[x]
      BY <1>6, <1>7, <1>8, <1>9, <2>2
    <3>3. At(t, x) = e /\ own[x] = Says(e)
      BY <1>5, <1>6, <2>2, <3>1
    <3> QED BY <3>2, <3>3
  <2>3. CASE x # Attrs
    <3> HIDE DEF e
    <3>1. all[x] = both[x]
      BY <1>7, <1>9, <2>3
    <3>2. CASE x \in DOMAIN w
      <4>1. both[x] = own[x]
        BY <1>8, <3>2
      <4>2. At(t, x) = w[x] /\ own[x] = Says(w[x])
        BY <1>5, <1>6, <3>2
      <4> QED BY <3>1, <4>1, <4>2
    <3>3. CASE x \notin DOMAIN w
      <4>1. x \in Names(mid) /\ At(t, x) = At(mid, x)
        BY <1>6, <2>3, <3>3
      <4>2. both[x] = base[x]
        BY <1>8, <2>3, <3>3, <4>1
      <4>3. base[x] = Says(At(mid, x))
        BY <1>1, <4>1
      <4> QED BY <3>1, <4>1, <4>2, <4>3
    <3> QED BY <3>2, <3>3
  <2> QED BY <2>1, <2>2, <2>3
<1>12. View(t) = all
  <2>1. \A x \in Names(t) : View(t)[x] = all[x]
    BY <1>11, ViewFacts
  <2> QED BY <1>9, <2>1, ViewFacts, SameFunction
<1> QED BY <1>12 DEF MergedView, all, both, joined, own, base

(* What the mutator writes does not depend on the container's own list.    *)
LEMMA WrittenIgnoresEnv ==
    ASSUME NEW cfg, NEW meta, NEW c, NEW d, c.name = d.name, c.image = d.image,
           NEW a, NEW skip
    PROVE  Written(cfg, meta, c, a, skip) = Written(cfg, meta, d, a, skip)
BY Zenon DEF Written, configureContainerEnvVars, setResourceAttributes,
             setServiceVars, ExtraResourceAttributes

LEMMA OwnIsWritten ==
    ASSUME NEW cfg, NEW c, IsContainer(c), NEW skip
    PROVE  Own(cfg, c, skip) = View(Written(cfg, pod.meta, c, <<>>, skip))
<1> DEFINE d == [c EXCEPT !.env = <<>>]
<1>1. c = [name |-> c.name, image |-> c.image, env |-> c.env,
           mounts |-> c.mounts]
  BY DEF IsContainer
<1>2. d.name = c.name /\ d.image = c.image /\ d.env = <<>>
  BY <1>1
<1>3. applyEnvVars(<<>>, <<>>) = <<>>
  <2>1. Len(<<>>) = 0
    OBVIOUS
  <2>2. Applied(<<>>, <<>>)[0] = <<>>
    BY <2>1, AppliedUnfolds
  <2> QED BY <2>1, <2>2 DEF applyEnvVars
<1> HIDE DEF d
<1>4. addEnvVars(cfg, pod.meta, d, <<>>, skip)
         = Written(cfg, pod.meta, d, <<>>, skip)
  BY <1>2, <1>3 DEF addEnvVars, Written
<1>5. Written(cfg, pod.meta, d, <<>>, skip)
         = Written(cfg, pod.meta, c, <<>>, skip)
  BY <1>2, WrittenIgnoresEnv
<1> QED BY <1>4, <1>5 DEF Own, d

LEMMA DefaultMerges ==
    ASSUME MInv, NEW ruleEnv \in RuleEnvs, NEW skip \in BOOLEAN,
           Default(ruleEnv, skip), NEW n \in DOMAIN pod.containers
    PROVE  LET c == pod.containers[n]
               new == pod'.containers[n].env IN
           /\ View(new) = Merged(sdk, c, ruleEnv, skip)
           /\ Len(new) = Len(c.env) + Cardinality(Names(new) \ Names(c.env))
<1> DEFINE c == pod.containers[n]
           new == pod'.containers[n].env
           F == FieldNames(sdk)
           mid == applyEnvVars(c.env, ruleEnv)
           own == Written(sdk, pod.meta, c, <<>>, skip)
<1>1. /\ IsPod(pod) /\ pod' = Mutated(pod, sdk, ruleEnv, skip)
      /\ sdk.ip \in BOOLEAN /\ sdk.uid \in BOOLEAN /\ IsEnv(ruleEnv)
  BY RuleEnvsAssumption DEF Default, MInv
<1>2. MutatesTo(pod, pod', sdk, ruleEnv, skip)
  BY <1>1, MutatedFields
<1>3. new = Written(sdk, pod.meta, c, mid, skip)
  BY <1>2 DEF MutatesTo, NewEnv
<1>4. IsContainer(c) /\ IsEnv(c.env)
  BY <1>1 DEF IsContainer, IsPod
<1>5. PICK v : /\ Leaves(ruleEnv, v)
               /\ \A a : IsEnv(a) => Edits(a, applyEnvVars(a, ruleEnv), v, {})
  BY <1>1, ApplyEdits
<1>6. Edits(c.env, mid, v, {}) /\ IsEnv(mid)
  BY <1>4, <1>5 DEF Edits
<1>7. PICK w, chunk :
         /\ OwnWrites(sdk, w, chunk)
         /\ \A a : IsEnv(a) =>
               LET t == Written(sdk, pod.meta, c, a, skip) IN
               Edits(a, t, Updated(w, Join(a, chunk)), F)
  <2>1. PICK w, chunk : WritesOwn(sdk, pod.meta, c, skip, w, chunk)
    BY <1>1, WrittenEdits
  <2> QED BY <2>1 DEF WritesOwn
<1>8. /\ Edits(mid, new, Updated(w, Join(mid, chunk)), F)
      /\ Edits(<<>>, own, Updated(w, Join(<<>>, chunk)), F)
  BY <1>3, <1>6, <1>7, EmptyEnv
<1>9. Own(sdk, c, skip) = View(own)
  BY <1>4, OwnIsWritten
<1> HIDE DEF c, new, F, mid, own
<1>10. View(new) = Merged(sdk, c, ruleEnv, skip)
  <2>1. View(new) = MergedView(c.env, ruleEnv, own)
    BY <1>1, <1>4, <1>5, <1>6, <1>7, <1>8, EditsMerge
  <2> QED BY <1>9, <2>1 DEF Merged, MergedView, Attrs
<1>11. Len(new) = Len(c.env) + Cardinality(Names(new) \ Names(c.env))
  <2>1. {} \subseteq F /\ F \subseteq F
    OBVIOUS
  <2>2. Edits(c.env, new, Updated(v, Updated(w, Join(mid, chunk))), F)
    BY <1>4, <1>6, <1>8, <2>1, EditsCompose
  <2> QED BY <2>2 DEF Edits
<1> QED BY <1>10, <1>11 DEF c, new

(* For any env lists: a mutation keeps what the author and the rule say,   *)
(* but for the vars that are the mutator's own, and lists no name anew     *)
(* that is there.                                                          *)
THEOREM EnvAlwaysMerges == Spec => EnvMerges
<1> DEFINE Merge ==
             pod' # pod =>
               \E ruleEnv \in RuleEnvs, skip \in BOOLEAN :
                  /\ pod'.stamp = PodConfigHash(sdk, ruleEnv)
                  /\ \A n \in DOMAIN pod.containers :
                        LET c == pod.containers[n]
                            new == pod'.containers[n].env
                        IN  /\ View(new) = Merged(sdk, c, ruleEnv, skip)
                            /\ Len(new) = Len(c.env)
                                  + Cardinality(Names(new) \ Names(c.env))
<1>1. ASSUME MInv, [Next]_vars PROVE Merge
  <2>1. ASSUME NEW ruleEnv \in RuleEnvs, NEW skip \in BOOLEAN,
               Default(ruleEnv, skip)
        PROVE  Merge
    <3>1. pod'.stamp = PodConfigHash(sdk, ruleEnv)
      BY <1>1, <2>1, DefaultEnvs DEF PodConfigHash
    <3> QED BY <1>1, <2>1, <3>1, DefaultMerges
  <2> QED BY <1>1, <2>1, OnlyDefaultMutates
<1>2. MInv /\ [Next]_vars => [Merge]_vars
  BY <1>1
<1> QED BY <1>2, MutatorInvariance, PTL DEF Spec, EnvMerges

-----------------------------------------------------------------------------
(* Idempotence.                                                            *)

LEMMA UpsertTwice ==
    ASSUME NEW s, IsSeq(s), NEW e
    PROVE  Upsert(Upsert(s, e), e) = Upsert(s, e)
<1> DEFINE t == Upsert(s, e)
           q == findByName(t, e.name)
<1>1. q # 0 /\ t[q] = e /\ IsSeq(t)
  BY UpsertFound, UpsertFacts
<1> HIDE DEF t
<1>2. t = [i \in 1..Len(t) |-> t[i]]
  BY <1>1, SeqFacts
<1>3. Upsert(t, e) = [t EXCEPT ![q] = e]
  BY <1>1 DEF Upsert, ReplaceAt
<1> HIDE DEF q
<1>4. [t EXCEPT ![q] = e] = t
  BY <1>1, <1>2
<1> QED BY <1>3, <1>4 DEF t

LEMMA EnvTwice ==
    ASSUME NEW cfg, cfg.ip \in BOOLEAN, cfg.uid \in BOOLEAN, NEW meta,
           NEW c, IsEnv(c.env), NEW ruleEnv, IsEnv(ruleEnv),
           NEW skip, NEW again,
           NEW d, d.name = c.name, d.image = c.image,
           d.env = NewEnv(cfg, meta, c, ruleEnv, skip)
    PROVE  Blank(NewEnv(cfg, meta, d, ruleEnv, again)) = Blank(d.env)
<1> DEFINE F == FieldNames(cfg)
           t == d.env
           m == applyEnvVars(c.env, ruleEnv)
           n == applyEnvVars(t, ruleEnv)
           u == NewEnv(cfg, meta, d, ruleEnv, again)
<1>1. PICK v : \A a : IsEnv(a) => Edits(a, applyEnvVars(a, ruleEnv), v, {})
  BY ApplyEdits
<1>2. PICK w : \A k : \E chunk : WritesOwn(cfg, meta, c, k, w, chunk)
  BY WrittenEdits
<1>3. Edits(c.env, m, v, {}) /\ IsEnv(m)
  BY <1>1 DEF Edits
<1>4. PICK x : WritesOwn(cfg, meta, c, skip, w, x)
  BY <1>2
<1>5. PICK y : WritesOwn(cfg, meta, c, again, w, y)
  BY <1>2
<1>6. t = Written(cfg, meta, c, m, skip)
  BY DEF NewEnv
<1>7. u = Written(cfg, meta, c, n, again)
  BY WrittenIgnoresEnv DEF NewEnv
<1> HIDE DEF t, u, m
<1>8. Edits(m, t, Updated(w, Join(m, x)), F) /\ Lead(t, F) /\ IsEnv(t)
  BY <1>3, <1>4, <1>6 DEF Edits, WritesOwn
<1>9. Edits(t, n, v, {}) /\ IsEnv(n)
  BY <1>1, <1>8 DEF Edits
<1> HIDE DEF n
<1>10. Edits(n, u, Updated(w, Join(n, y)), F)
  BY <1>5, <1>7, <1>9 DEF WritesOwn
<1>11. Attrs \notin DOMAIN w
  BY <1>4 DEF WritesOwn, OwnWrites
<1> DEFINE U(a, chunk) == Updated(v, Updated(w, Join(a, chunk)))
<1>12. ASSUME NEW a, NEW chunk
       PROVE  /\ DOMAIN U(a, chunk) = DOMAIN v \cup DOMAIN w \cup {Attrs}
              /\ \A k \in DOMAIN U(a, chunk) : k # Attrs =>
                    U(a, chunk)[k] = IF k \in DOMAIN w THEN w[k] ELSE v[k]
  BY DEF Join, Updated
<1>13. {} \subseteq F /\ F \subseteq F
  OBVIOUS
<1>14. Edits(c.env, t, U(m, x), F)
  BY <1>3, <1>8, <1>13, EditsCompose
<1>15. Edits(t, u, U(n, y), F)
  BY <1>8, <1>9, <1>10, <1>13, EditsCompose
<1> DEFINE first == U(m, x)
           second == U(n, y)
<1>16. /\ DOMAIN second = DOMAIN first /\ DOMAIN first \subseteq Names(t)
       /\ \A k \in DOMAIN first : k # Attrs => second[k] = first[k]
  BY <1>12, <1>14 DEF Edits
<1>17. \A k \in DOMAIN first : At(t, k) = first[k]
  BY <1>14 DEF Edits
<1> HIDE DEF U, first, second
<1>18. Overwrites(t, u, second)
  BY <1>8, <1>15, <1>16 DEF Edits, first, second
<1>19. /\ DOMAIN t = 1..Len(t) /\ IsSeq(t)
       /\ DOMAIN u = 1..Len(u) /\ IsEnv(u) /\ Len(u) = Len(t)
  BY <1>8, <1>15, <1>18, SeqFacts DEF Edits, IsEnv, Overwrites
<1>20. ASSUME NEW i \in 1..Len(t)
       PROVE  /\ u[i].name = t[i].name
              /\ t[i].name # Attrs => u[i] = t[i]
  <2> DEFINE k == t[i].name
  <2>1. CASE k \in DOMAIN second /\ findByName(t, k) = i
    <3>1. u[i] = second[k]
      BY <1>18, <2>1 DEF Overwrites
    <3>2. k # Attrs => u[i] = t[i]
      BY <1>16, <1>17, <2>1, <3>1 DEF At
    <3>3. second[k].name = k
      <4>1. k \in Names(u) /\ At(u, k) = second[k]
        BY <1>15, <1>16, <2>1 DEF Edits, second
      <4> QED BY <1>19, <4>1, AtFacts
    <3> QED BY <3>1, <3>2, <3>3
  <2>2. CASE ~(k \in DOMAIN second /\ findByName(t, k) = i)
    BY <1>18, <2>2 DEF Overwrites
  <2> QED BY <2>1, <2>2
<1>21. Blank(u) = Blank(t)
  <2>1. ASSUME NEW i \in 1..Len(t)
        PROVE  (IF u[i].name = Attrs THEN Var(u[i].name, <<>>) ELSE u[i])
                  = (IF t[i].name = Attrs THEN Var(t[i].name, <<>>) ELSE t[i])
    BY <1>20
  <2> QED BY <1>19, <2>1 DEF Attrs, Blank
<1> QED BY <1>21 DEF t, u

LEMMA WithEnv ==
    ASSUME NEW d, NEW env,
           d = [name |-> d.name, image |-> d.image, env |-> d.env,
                mounts |-> d.mounts]
    PROVE  [d EXCEPT !.env = env] = [name |-> d.name, image |-> d.image,
                                     env |-> env, mounts |-> d.mounts]
<1> DEFINE u == [d EXCEPT !.env = env]
<1>1. u \in [name : {d.name}, image : {d.image}, env : {env},
             mounts : {d.mounts}]
  OBVIOUS
<1> HIDE DEF u
<1>2. u = [name |-> d.name, image |-> d.image, env |-> env,
           mounts |-> d.mounts]
  BY <1>1
<1> QED BY <1>2 DEF u

LEMMA WithContainers ==
    ASSUME NEW q, NEW containers,
           q = [meta |-> q.meta, volumes |-> q.volumes,
                containers |-> q.containers, inits |-> q.inits,
                stamp |-> q.stamp]
    PROVE  [q EXCEPT !.containers = containers]
              = [meta |-> q.meta, volumes |-> q.volumes,
                 containers |-> containers, inits |-> q.inits,
                 stamp |-> q.stamp]
<1> DEFINE u == [q EXCEPT !.containers = containers]
<1>1. u \in [meta : {q.meta}, volumes : {q.volumes},
             containers : {containers}, inits : {q.inits}, stamp : {q.stamp}]
  OBVIOUS
<1> HIDE DEF u
<1>2. u = [meta |-> q.meta, volumes |-> q.volumes,
           containers |-> containers, inits |-> q.inits,
           stamp |-> q.stamp]
  BY <1>1
<1> QED BY <1>2 DEF u

LEMMA MutatedTwice ==
    ASSUME NEW p, IsPod(p), NEW cfg, cfg.ip \in BOOLEAN, cfg.uid \in BOOLEAN,
           NEW ruleEnv, IsEnv(ruleEnv), NEW skip, NEW again,
           NEW q, q = Mutated(p, cfg, ruleEnv, skip)
    PROVE  ButAttributes(Mutated(q, cfg, ruleEnv, again)) = ButAttributes(q)
<1> DEFINE u == Mutated(q, cfg, ruleEnv, again)
<1>1. IsPod(q) /\ MutatesTo(p, q, cfg, ruleEnv, skip)
  BY MutatedIsPod, MutatedFields
<1>2. MutatesTo(q, u, cfg, ruleEnv, again)
  BY <1>1, MutatedFields
<1> HIDE DEF u
<1>3. u.volumes = q.volumes
  <2>1. u.volumes = Upsert(Upsert(p.volumes, buildVolumeDefinition(cfg)),
                           buildVolumeDefinition(cfg))
        /\ q.volumes = Upsert(p.volumes, buildVolumeDefinition(cfg))
    BY <1>1, <1>2 DEF MutatesTo, mountVolume
  <2>2. IsSeq(p.volumes)
    BY DEF IsPod
  <2> QED BY <2>1, <2>2, UpsertTwice
<1>4. u.inits = q.inits
  <2> DEFINE e == [name |-> injectInitContainerName,
                   image |-> Image(cfg.image), env |-> <<>>,
                   mounts |-> <<Mount(FALSE)>>]
  <2>1. u.inits = addCopyInitContainerIfNeeded(cfg, q.inits)
        /\ q.inits = addCopyInitContainerIfNeeded(cfg, p.inits)
    BY <1>1, <1>2 DEF MutatesTo
  <2>2. \A s : addCopyInitContainerIfNeeded(cfg, s)
                 = IF ~usesInitContainer(cfg) THEN s ELSE Upsert(s, e)
    BY DEF addCopyInitContainerIfNeeded
  <2>3. IsSeq(p.inits)
    BY DEF IsPod
  <2> HIDE DEF e
  <2> QED BY <2>1, <2>2, <2>3, UpsertTwice
<1>5. u.meta = q.meta /\ u.stamp = q.stamp
  BY <1>1, <1>2 DEF MutatesTo
<1> DEFINE bare(r) == [n \in DOMAIN r.containers |->
                         [r.containers[n] EXCEPT
                            !.env = Blank(r.containers[n].env)]]
<1>6. ASSUME NEW n \in DOMAIN q.containers
      PROVE  [u.containers[n] EXCEPT !.env = Blank(u.containers[n].env)]
                = [q.containers[n] EXCEPT !.env = Blank(q.containers[n].env)]
  <2> DEFINE c == p.containers[n]
             d == q.containers[n]
             d2 == u.containers[n]
  <2>1. /\ d = [name |-> d.name, image |-> d.image, env |-> d.env,
                mounts |-> d.mounts]
        /\ d.name = c.name /\ d.image = c.image
        /\ d.env = NewEnv(cfg, p.meta, c, ruleEnv, skip)
        /\ d.mounts = addMount(c)
    BY <1>1, <1>6 DEF MutatesTo
  <2>2. /\ d2 = [name |-> d2.name, image |-> d2.image, env |-> d2.env,
                 mounts |-> d2.mounts]
        /\ d2.name = d.name /\ d2.image = d.image
        /\ d2.env = NewEnv(cfg, p.meta, d, ruleEnv, again)
        /\ d2.mounts = addMount(d)
    BY <1>1, <1>2, <1>6 DEF MutatesTo
  <2>3. IsEnv(c.env) /\ IsSeq(c.mounts)
    BY <1>1, <1>6 DEF MutatesTo, IsPod, IsContainer
  <2> HIDE DEF c, d, d2
  <2>4. Blank(d2.env) = Blank(d.env)
    BY <2>1, <2>2, <2>3, EnvTwice
  <2>5. d2.mounts = d.mounts
    BY <2>1, <2>2, <2>3, UpsertTwice DEF addMount
  <2>6. [d2 EXCEPT !.env = Blank(d2.env)] = [d EXCEPT !.env = Blank(d.env)]
    BY <2>1, <2>2, <2>4, <2>5, WithEnv
  <2> QED BY <2>6 DEF d, d2
<1>7. DOMAIN u.containers = DOMAIN q.containers
  BY <1>2 DEF MutatesTo
<1>8. bare(u) = bare(q)
  BY <1>6, <1>7
<1>9. ButAttributes(u) = [u EXCEPT !.containers = bare(u)]
      /\ ButAttributes(q) = [q EXCEPT !.containers = bare(q)]
  BY DEF ButAttributes
<1> HIDE DEF bare
<1>10. /\ u = [meta |-> u.meta, volumes |-> u.volumes,
               containers |-> u.containers, inits |-> u.inits,
               stamp |-> u.stamp]
       /\ q = [meta |-> q.meta, volumes |-> q.volumes,
               containers |-> q.containers, inits |-> q.inits,
               stamp |-> q.stamp]
  BY <1>1, <1>2 DEF MutatesTo
<1>11. [u EXCEPT !.containers = bare(u)] = [q EXCEPT !.containers = bare(q)]
  BY <1>3, <1>4, <1>5, <1>8, <1>10, WithContainers
<1> QED BY <1>9, <1>10, <1>11 DEF u

(* For any pod that a mutation may meet: made once more, its writes change *)
(* nothing and move nothing, but append to the combined attributes.        *)
THEOREM WritesAlwaysIdempotent == Spec => WritesIdempotent
<1> DEFINE Again ==
             pod' # pod =>
               \A skip \in BOOLEAN :
                  ButAttributes(Mutated(pod', sdk, pod'.stamp[1], skip))
                     = ButAttributes(pod')
<1>1. ASSUME MInv, [Next]_vars PROVE Again
  <2>1. ASSUME NEW ruleEnv \in RuleEnvs, NEW skip \in BOOLEAN,
               Default(ruleEnv, skip)
        PROVE  Again
    <3>1. pod'.stamp[1] = ruleEnv
      BY <1>1, <2>1, DefaultEnvs
    <3>2. /\ IsPod(pod) /\ pod' = Mutated(pod, sdk, ruleEnv, skip)
          /\ sdk.ip \in BOOLEAN /\ sdk.uid \in BOOLEAN /\ IsEnv(ruleEnv)
      BY <1>1, <2>1, RuleEnvsAssumption DEF Default, MInv
    <3>3. ASSUME NEW again \in BOOLEAN
          PROVE  ButAttributes(Mutated(pod', sdk, ruleEnv, again))
                    = ButAttributes(pod')
      BY <3>2, MutatedTwice
    <3> QED BY <3>1, <3>3
  <2> QED BY <1>1, <2>1, OnlyDefaultMutates
<1>2. MInv /\ [Next]_vars => [Again]_vars
  BY <1>1
<1> QED BY <1>2, MutatorInvariance, PTL DEF Spec, WritesIdempotent
=============================================================================
