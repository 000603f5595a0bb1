---------------------------- MODULE MetricsProofs ----------------------------
(***************************************************************************)
(* Every scrape of a histogram tells of all observations that were over    *)
(* when it began and of none that has not begun, for any number of         *)
(* observers and buckets.                                                  *)
(***************************************************************************)
EXTENDS Metrics, FiniteInduction, FiniteSetTheorems, TLAPS

-----------------------------------------------------------------------------
(* Sums over finite sets                                                   *)

\* The sum of what f has for the members of S, as the line of the sum has it.
SumOf(f, S) == MapThenSumSet(LAMBDA o : f[o], S)

Chosen(s) == CHOOSE x \in s : TRUE

\* u sums f, by the definition of the sum over a set.
Sums(u, f, S) ==
    u = [s \in SUBSET S |-> IF s = {} THEN 0 ELSE f[Chosen(s)] + u[s \ {Chosen(s)}]]

\* The same, for the sets of at most n members.
SumsTo(u, f, S, n) ==
    /\ u \in [{s \in SUBSET S : Cardinality(s) <= n} -> Nat]
    /\ u[{}] = 0
    /\ \A s \in SUBSET S : s # {} /\ Cardinality(s) <= n =>
          u[s] = f[Chosen(s)] + u[s \ {Chosen(s)}]

\* A sum over the subsets of S, without regard for their size.
SumsAll(u, f, S) ==
    /\ u \in [SUBSET S -> Nat]
    /\ u[{}] = 0
    /\ \A s \in SUBSET S : s # {} => u[s] = f[Chosen(s)] + u[s \ {Chosen(s)}]

\* The subsets of a finite set are finite, and get smaller without a member.
LEMMA FiniteParts ==
    ASSUME NEW S, IsFiniteSet(S), NEW s \in SUBSET S
    PROVE  /\ IsFiniteSet(s) /\ Cardinality(s) \in Nat /\ Cardinality(s) <= Cardinality(S)
           /\ Cardinality(s) = 0 <=> s = {}
           /\ s # {} => Chosen(s) \in s
           /\ \A x \in s : Cardinality(s \ {x}) = Cardinality(s) - 1
  <1>1. IsFiniteSet(s) /\ Cardinality(s) <= Cardinality(S)
    BY FS_Subset
  <1>2. Cardinality(s) \in Nat /\ (Cardinality(s) = 0 <=> s = {})
    BY <1>1, FS_CardinalityType, FS_EmptySet
  <1>3. \A x \in s : Cardinality(s \ {x}) = Cardinality(s) - 1
    BY <1>1, FS_RemoveElement
  <1>4. s # {} => Chosen(s) \in s
    BY DEF Chosen
  <1> QED  BY <1>1, <1>2, <1>3, <1>4

\* Sums over the subsets of a finite set exist.
LEMMA SumsExist ==
    ASSUME NEW S, IsFiniteSet(S), NEW f, \A x \in S : f[x] \in Nat
    PROVE  \E u : SumsAll(u, f, S)
  <1> DEFINE N == {n \in 0..Cardinality(S) : \E u : SumsTo(u, f, S, n)}
  <1>1. Cardinality(S) \in Nat
    BY FS_CardinalityType
  <1>2. 0 \in N
    <2> DEFINE u == [s \in {s \in SUBSET S : Cardinality(s) <= 0} |-> 0]
    <2>1. \A s \in SUBSET S : Cardinality(s) <= 0 <=> s = {}
      BY FiniteParts
    <2>2. u \in [{s \in SUBSET S : Cardinality(s) <= 0} -> Nat] /\ u[{}] = 0
      BY <2>1
    <2> HIDE DEF u
    <2>3. SumsTo(u, f, S, 0)
      BY <2>1, <2>2 DEF SumsTo
    <2> QED  BY <1>1, <2>3
  <1>3. ASSUME NEW n \in 1..Cardinality(S), n - 1 \in N PROVE n \in N
    <2>1. PICK u : SumsTo(u, f, S, n - 1)
      BY <1>3
    <2> DEFINE D == {s \in SUBSET S : Cardinality(s) <= n}
               P == {s \in SUBSET S : Cardinality(s) <= n - 1}
               w == [s \in D |-> IF Cardinality(s) = n
                                 THEN f[Chosen(s)] + u[s \ {Chosen(s)}] ELSE u[s]]
    <2>2. \A s \in D : Cardinality(s) \in Nat /\ (Cardinality(s) # n => s \in P)
      BY <1>1, FiniteParts
    <2>3. \A s \in D : s # {} => s \ {Chosen(s)} \in P /\ f[Chosen(s)] \in Nat
      BY <1>1, FiniteParts
    <2>4. {} \in P /\ \A s \in D : Cardinality(s) = n => s # {}
      BY <1>1, FiniteParts, FS_EmptySet
    <2>5. u \in [P -> Nat] /\ P \subseteq D
      BY <1>1, <2>1, FiniteParts DEF SumsTo
    <2>6. \A s \in P : Cardinality(s) # n
      BY <1>1, FiniteParts
    <2>7. u[{}] = 0 /\ \A s \in P : s # {} => u[s] = f[Chosen(s)] + u[s \ {Chosen(s)}]
      BY <2>1 DEF SumsTo
    <2> HIDE DEF D, P
    <2>8. \A s \in D : w[s] = IF Cardinality(s) = n
                              THEN f[Chosen(s)] + u[s \ {Chosen(s)}] ELSE u[s]
      OBVIOUS
    <2>9. \A s \in D : w[s] \in Nat
      BY <2>2, <2>3, <2>4, <2>5, <2>8
    <2>10. w = [s \in D |-> w[s]]
      OBVIOUS
    <2> HIDE DEF w
    <2>11. w \in [D -> Nat]
      BY <2>9, <2>10
    <2>12. \A s \in P : w[s] = u[s]
      BY <2>5, <2>6, <2>8
    <2>13. \A s \in D : s # {} => w[s] = f[Chosen(s)] + w[s \ {Chosen(s)}]
      BY <2>2, <2>3, <2>7, <2>8, <2>12
    <2>14. w[{}] = 0
      BY <2>4, <2>7, <2>12
    <2>15. SumsTo(w, f, S, n)
      BY <2>11, <2>13, <2>14 DEF SumsTo, D
    <2> QED  BY <2>15
  <1>4. Cardinality(S) \in N
    <2> HIDE DEF N
    <2>1. 0..Cardinality(S) \subseteq N
      BY <1>1, <1>2, <1>3, UpTo
    <2> QED  BY <1>1, <2>1
  <1>5. PICK u : SumsTo(u, f, S, Cardinality(S))
    BY <1>4
  <1>6. {s \in SUBSET S : Cardinality(s) <= Cardinality(S)} = SUBSET S
    BY FiniteParts
  <1>7. SumsAll(u, f, S)
    BY <1>5, <1>6 DEF SumsTo, SumsAll
  <1> QED  BY <1>7

\* The sum over a set is the one of its sums over subsets that takes them all.
LEMMA SumOfAll ==
    ASSUME NEW S, IsFiniteSet(S), NEW f, \A x \in S : f[x] \in Nat
    PROVE  \E u : SumsAll(u, f, S) /\ SumOf(f, S) = u[S]
  <1> DEFINE u == CHOOSE u : Sums(u, f, S)
  <1>1. SumOf(f, S) = u[S]
    BY Zenon DEF SumOf, MapThenSumSet, MapThenFoldSet, Sums, Chosen
  <1>2. PICK w : SumsAll(w, f, S)
    BY SumsExist
  <1>3. Sums(w, f, S)
    <2>1. w = [s \in SUBSET S |-> w[s]]
      BY <1>2 DEF SumsAll
    <2>2. \A s \in SUBSET S : w[s] = IF s = {} THEN 0 ELSE f[Chosen(s)] + w[s \ {Chosen(s)}]
      BY <1>2 DEF SumsAll
    <2> QED  BY <2>1, <2>2 DEF Sums
  <1>4. Sums(u, f, S)
    BY <1>3
  <1> HIDE DEF u
  <1>5. \A s \in SUBSET S : u[s] = IF s = {} THEN 0 ELSE f[Chosen(s)] + u[s \ {Chosen(s)}]
    BY <1>4 DEF Sums
  <1>6. u = [s \in SUBSET S |-> u[s]]
    BY <1>4 DEF Sums
  <1> DEFINE Good == {s \in SUBSET S : u[s] \in Nat}
  <1>7. ASSUME NEW s \in SUBSET S, \A r \in SUBSET s : r # s => r \in Good
        PROVE  s \in Good
    <2>1. CASE s = {}
      <3>1. u[s] = 0
        BY <1>5, <2>1
      <3> QED  BY <3>1
    <2>2. CASE s # {}
      <3>1. Chosen(s) \in s
        BY <2>2, FiniteParts
      <3>2. s \ {Chosen(s)} \in Good /\ f[Chosen(s)] \in Nat
        BY <1>7, <3>1
      <3> QED  BY <1>5, <2>2, <3>2
    <2> QED  BY <2>1, <2>2
  <1>8. SUBSET S \subseteq Good
    <2> HIDE DEF Good
    <2> QED  BY <1>7, PartInduction
  <1>9. u \in [SUBSET S -> Nat]
    BY <1>6, <1>8
  <1> QED  BY <1>1, <1>5, <1>9 DEF SumsAll

\* Any member may be taken first.
LEMMA SumsAnyOrder ==
    ASSUME NEW S, IsFiniteSet(S), NEW f, \A x \in S : f[x] \in Nat, NEW u, SumsAll(u, f, S)
    PROVE  \A s \in SUBSET S : \A x \in s : u[s] = f[x] + u[s \ {x}]
  <1> DEFINE Good == {s \in SUBSET S : \A x \in s : u[s] = f[x] + u[s \ {x}]}
  <1>1. ASSUME NEW s \in SUBSET S, \A r \in SUBSET s : r # s => r \in Good
        PROVE  s \in Good
    <2> SUFFICES ASSUME NEW x \in s PROVE u[s] = f[x] + u[s \ {x}]
      OBVIOUS
    <2> DEFINE c == Chosen(s)
               sx == s \ {x}
               sc == s \ {c}
               r == s \ {x, c}
    <2>1. c \in s /\ u[s] = f[c] + u[sc]
      <3>1. s # {} /\ s \in SUBSET S
        OBVIOUS
      <3>2. c \in s
        BY <3>1 DEF Chosen
      <3> QED  BY <3>1, <3>2 DEF SumsAll
    <2>2. CASE c = x
      BY <2>1, <2>2
    <2>3. CASE c # x
      <3>1. /\ x \in sc /\ c \in sx /\ sc \ {x} = r /\ sx \ {c} = r
            /\ sc \in SUBSET s /\ sc # s /\ sx \in SUBSET s /\ sx # s /\ r \in SUBSET S
        BY <2>1, <2>3
      <3>2. sc \in Good /\ sx \in Good
        BY <1>1, <3>1
      <3>3. u[sc] = f[x] + u[r] /\ u[sx] = f[c] + u[r]
        BY <3>1, <3>2
      <3>4. f[x] \in Nat /\ f[c] \in Nat /\ u[r] \in Nat
        BY <2>1, <3>1 DEF SumsAll
      <3> HIDE DEF c, r, sx, sc
      <3>5. u[s] = f[x] + u[sx]
        BY <2>1, <3>3, <3>4
      <3> QED  BY <3>5 DEF sx
    <2> QED  BY <2>2, <2>3
  <1>2. SUBSET S \subseteq Good
    <2> HIDE DEF Good
    <2> QED  BY <1>1, PartInduction
  <1> QED  BY <1>2

\* The sum over a part is the same wherever it is a part.
LEMMA SumsAgree ==
    ASSUME NEW S, IsFiniteSet(S), NEW f, \A x \in S : f[x] \in Nat, NEW T \in SUBSET S,
           NEW u, SumsAll(u, f, S), NEW w, SumsAll(w, f, T)
    PROVE  u[T] = w[T]
  <1> DEFINE Good == {s \in SUBSET T : u[s] = w[s]}
  <1>1. ASSUME NEW s \in SUBSET T, \A r \in SUBSET s : r # s => r \in Good
        PROVE  s \in Good
    <2>1. CASE s = {}
      BY <2>1 DEF SumsAll
    <2>2. CASE s # {}
      <3> DEFINE r == s \ {Chosen(s)}
      <3>1. r \in Good
        BY <1>1, <2>2 DEF Chosen
      <3>2. s \in SUBSET S /\ u[s] = f[Chosen(s)] + u[r] /\ w[s] = f[Chosen(s)] + w[r]
        BY <2>2 DEF SumsAll
      <3> QED  BY <3>1, <3>2
    <2> QED  BY <2>1, <2>2
  <1>2. IsFiniteSet(T)
    BY FS_Subset
  <1>3. SUBSET T \subseteq Good
    <2> HIDE DEF Good
    <2> QED  BY <1>1, <1>2, PartInduction
  <1> QED  BY <1>3

\* The sum over nothing is zero, a member adds what it has, and a part has no more
\* than the whole.
LEMMA SumOfRules ==
    ASSUME NEW S, IsFiniteSet(S), NEW f, \A x \in S : f[x] \in Nat
    PROVE  /\ SumOf(f, {}) = 0
           /\ \A T \in SUBSET S : SumOf(f, T) \in Nat
           /\ \A T \in SUBSET S : \A x \in S \ T : SumOf(f, T \cup {x}) = SumOf(f, T) + f[x]
           /\ \A T \in SUBSET S : SumOf(f, T) <= SumOf(f, S)
  <1>1. PICK u : SumsAll(u, f, S)
    BY SumOfAll
  <1>2. ASSUME NEW T \in SUBSET S PROVE SumOf(f, T) = u[T]
    <2>1. IsFiniteSet(T) /\ \A x \in T : f[x] \in Nat
      BY FS_Subset
    <2>2. PICK w : SumsAll(w, f, T) /\ SumOf(f, T) = w[T]
      BY <2>1, SumOfAll
    <2> QED  BY <1>1, <2>2, SumsAgree
  <1>3. SumOf(f, {}) = 0
    BY <1>1, <1>2 DEF SumsAll
  <1>4. \A T \in SUBSET S : SumOf(f, T) \in Nat
    BY <1>1, <1>2 DEF SumsAll
  <1>5. ASSUME NEW T \in SUBSET S, NEW x \in S \ T
        PROVE  SumOf(f, T \cup {x}) = SumOf(f, T) + f[x]
    <2>1. T \cup {x} \in SUBSET S /\ x \in T \cup {x} /\ (T \cup {x}) \ {x} = T
      OBVIOUS
    <2>2. u[T \cup {x}] = f[x] + u[T]
      BY <1>1, <2>1, SumsAnyOrder
    <2>3. f[x] \in Nat /\ u[T] \in Nat
      BY <1>1 DEF SumsAll
    <2> QED  BY <1>2, <2>1, <2>2, <2>3
  <1>6. ASSUME NEW T \in SUBSET S PROVE u[T] <= u[S]
    <2> DEFINE Good == {s \in SUBSET S : T \subseteq s => u[T] <= u[s]}
    <2>1. ASSUME NEW s \in SUBSET S, \A r \in SUBSET s : r # s => r \in Good
          PROVE  s \in Good
      <3> SUFFICES ASSUME T \subseteq s PROVE u[T] <= u[s]
        OBVIOUS
      <3>1. CASE s = T
        BY <1>1, <3>1 DEF SumsAll
      <3>2. CASE s # T
        <4>1. PICK x \in s : x \notin T
          BY <3>2
        <4> DEFINE r == s \ {x}
        <4>2. r \in Good /\ T \subseteq r /\ r \in SUBSET S
          BY <2>1, <4>1
        <4>3. u[T] <= u[r]
          BY <4>2
        <4>4. u[s] = f[x] + u[r]
          BY <1>1, SumsAnyOrder
        <4>5. f[x] \in Nat /\ u[r] \in Nat /\ u[T] \in Nat
          BY <1>1, <4>2 DEF SumsAll
        <4> HIDE DEF r
        <4> QED  BY <4>3, <4>4, <4>5
      <3> QED  BY <3>1, <3>2
    <2>2. SUBSET S \subseteq Good
      <3> HIDE DEF Good
      <3> QED  BY <2>1, PartInduction
    <2> QED  BY <2>2
  <1>7. \A T \in SUBSET S : SumOf(f, T) <= SumOf(f, S)
    BY <1>2, <1>6
  <1> QED  BY <1>3, <1>4, <1>5, <1>7

-----------------------------------------------------------------------------
(* The inductive invariant                                                 *)

\* Observations that are in a bucket, that are in the count, and (Over) in the sum.
Begun == {o \in Observers : step[o] \notin {"find", "create", "count"}}
Added == {o \in Observers : step[o] \in {"load", "swap", "done"}}

\* There is one series, and who has passed slot has it.
SeriesInv ==
    \A o \in Observers :
        step[o] \notin {"find", "create"} => mine[o] = series /\ series # NoSeries

\* What the object x has recorded, if S is what the series has.
Recorded(x, S) == IF x = series THEN S ELSE {}

\* The object that is the series has every observation once, in its bucket, in the
\* count and in the sum; any other has none.
CountsInv ==
    \A x \in Observers :
        /\ \A v \in Values : counts[x][v] = Cardinality({o \in Recorded(x, Begun) : value[o] = v})
        /\ total[x] = Cardinality(Recorded(x, Added))
        /\ sum[x] = SumOf(value, Recorded(x, Over))

\* What the line with this number says of some observations with the values f.
ToldOf(f, S, i) ==
    IF i = SumLine THEN SumOf(f, S)
    ELSE Cardinality({o \in S : i = CountLine \/ f[o] <= i})

\* What a scrape has told so far.
ScrapeInv ==
    /\ before \subseteq Over
    /\ Len(scraped) <= CountLine
    /\ \A i \in DOMAIN scraped :
        /\ ToldOf(value, before, i) <= scraped[i]
        /\ scraped[i] <= ToldOf(value, Begun, i)

MetricsInv == MetricsTypeOK /\ SeriesInv /\ CountsInv /\ ScrapeInv

\* The observers of a part of them that a condition picks are finitely many.
LEMMA SomeObservers ==
    ASSUME NEW S \in SUBSET Observers
    PROVE  IsFiniteSet(S) /\ Cardinality(S) \in Nat
  BY FS_Subset, FS_CardinalityType, MetricsAssumption

\* What a line says of some observations is a number, and more for more of them; a
\* bucket has those of the bucket before it and its own.
LEMMA ToldRules ==
    ASSUME NEW f \in [Observers -> Values], NEW S \in SUBSET Observers
    PROVE  /\ \A i : ToldOf(f, S, i) \in Nat
           /\ \A T \in SUBSET S : \A i : ToldOf(f, T, i) <= ToldOf(f, S, i)
           /\ \A n \in Values :
                 ToldOf(f, S, n) = (IF n = 1 THEN 0 ELSE ToldOf(f, S, n - 1))
                                   + Cardinality({o \in S : f[o] = n})
           /\ ToldOf(f, S, CountLine) = Cardinality(S)
           /\ ToldOf(f, S, SumLine) = SumOf(f, S)
  <1>1. IsFiniteSet(S) /\ \A o \in S : f[o] \in Nat
    BY SomeObservers, MetricsAssumption DEF Values
  <1>2. ToldOf(f, S, SumLine) = SumOf(f, S)
    BY DEF ToldOf
  <1> DEFINE At(T, i) == {o \in T : i = CountLine \/ f[o] <= i}
  <1>3. \A i : i # SumLine => ToldOf(f, S, i) = Cardinality(At(S, i))
    BY DEF ToldOf
  <1>4. ASSUME NEW i PROVE ToldOf(f, S, i) \in Nat
    <2>1. CASE i = SumLine
      BY <1>1, <1>2, <2>1, SumOfRules
    <2>2. CASE i # SumLine
      <3>1. At(S, i) \in SUBSET Observers
        OBVIOUS
      <3> HIDE DEF At
      <3> QED  BY <1>3, <2>2, <3>1, SomeObservers
    <2> QED  BY <2>1, <2>2
  <1>5. ASSUME NEW T \in SUBSET S, NEW i PROVE ToldOf(f, T, i) <= ToldOf(f, S, i)
    <2>1. CASE i = SumLine
      <3>1. ToldOf(f, T, SumLine) = SumOf(f, T)
        BY DEF ToldOf
      <3> QED  BY <1>1, <1>2, <2>1, <3>1, SumOfRules
    <2>2. CASE i # SumLine
      <3>1. ToldOf(f, T, i) = Cardinality(At(T, i))
        BY <2>2 DEF ToldOf
      <3>2. At(T, i) \in SUBSET At(S, i) /\ At(S, i) \in SUBSET Observers
        OBVIOUS
      <3> HIDE DEF At
      <3>3. Cardinality(At(T, i)) <= Cardinality(At(S, i))
        BY <3>2, SomeObservers, FS_Subset
      <3> QED  BY <1>3, <2>2, <3>1, <3>3
    <2> QED  BY <2>1, <2>2
  <1>6. SumLine \notin Values /\ CountLine \notin Values /\ SumLine # CountLine
    BY MetricsAssumption DEF SumLine, CountLine, Values
  <1>7. ASSUME NEW n \in Values
        PROVE  ToldOf(f, S, n) = (IF n = 1 THEN 0 ELSE ToldOf(f, S, n - 1))
                            + Cardinality({o \in S : f[o] = n})
    <2> DEFINE own == {o \in S : f[o] = n}
               less == {o \in S : f[o] <= n - 1}
    <2>1. n \in Nat /\ n > 0 /\ n # CountLine /\ n # SumLine
          /\ n - 1 # CountLine /\ n - 1 # SumLine
      BY MetricsAssumption DEF Values, CountLine, SumLine
    <2>2. At(S, n) = less \cup own /\ less \cap own = {}
      BY <1>1, <2>1
    <2>3. At(S, n - 1) = less
      BY <2>1
    <2>4. n = 1 => less = {}
      BY DEF Values
    <2>5. less \in SUBSET Observers /\ own \in SUBSET Observers
      OBVIOUS
    <2>6. ToldOf(f, S, n) = Cardinality(less \cup own) /\ ToldOf(f, S, n - 1) = Cardinality(less)
      BY <1>3, <2>1, <2>2, <2>3
    <2> HIDE DEF own, less
    <2>7. Cardinality(less \cup own) = Cardinality(less) + Cardinality(own) - Cardinality({})
      BY <2>2, <2>5, SomeObservers, FS_Union
    <2>8. Cardinality({}) = 0 /\ Cardinality(less) \in Nat /\ Cardinality(own) \in Nat
      BY <2>5, SomeObservers, FS_EmptySet
    <2>9. ToldOf(f, S, n) = Cardinality(less) + Cardinality(own)
      BY <2>6, <2>7, <2>8
    <2>10. CASE n = 1
      BY <2>4, <2>8, <2>9, <2>10 DEF own
    <2>11. CASE n # 1
      BY <2>6, <2>9, <2>11 DEF own
    <2> QED  BY <2>10, <2>11
  <1>8. ToldOf(f, S, CountLine) = Cardinality(S)
    <2>1. At(S, CountLine) = S
      OBVIOUS
    <2> QED  BY <1>3, <1>6, <2>1
  <1> QED  BY <1>2, <1>4, <1>5, <1>7, <1>8

\* The initial state satisfies the invariant.
LEMMA InitMetrics == MetricsInit => MetricsInv
  <1> SUFFICES ASSUME MetricsInit PROVE MetricsInv
    OBVIOUS
  <1> USE DEF MetricsInit
  <1>1. MetricsTypeOK
    BY DEF MetricsTypeOK, Steps
  <1>2. SeriesInv
    BY DEF SeriesInv
  <1>3. CountsInv
    <2>1. \A x \in Observers : /\ Recorded(x, Begun) = {} /\ Recorded(x, Added) = {}
                               /\ Recorded(x, Over) = {}
      BY MetricsAssumption DEF Recorded
    <2>2. SumOf(value, {}) = 0
      BY SumOfRules, FS_EmptySet
    <2>3. Cardinality({}) = 0
      BY FS_EmptySet
    <2>4. \A x \in Observers, v \in Values : {o \in Recorded(x, Begun) : value[o] = v} = {}
      BY <2>1
    <2> QED  BY <2>1, <2>2, <2>3, <2>4 DEF CountsInv
  <1>4. ScrapeInv
    BY MetricsAssumption DEF ScrapeInv, CountLine
  <1> QED  BY <1>1, <1>2, <1>3, <1>4 DEF MetricsInv

\* Who has passed slot works on the series.
LEMMA Working ==
    ASSUME MetricsInv, NEW o \in Observers, step[o] \notin {"find", "create"}
    PROVE  mine[o] = series /\ series \in Observers
  BY MetricsAssumption DEF MetricsInv, SeriesInv, MetricsTypeOK

\* An observer that finds the series, or that it has to make one.
LEMMA FindKeeps == ASSUME MetricsInv, NEW o \in Observers, FindSeries(o) PROVE MetricsInv'
  <1> USE DEF MetricsInv
  <1>1. MetricsTypeOK'
    BY DEF FindSeries, Goes, MetricsTypeOK, Steps, seriesVars, scrapeVars
  <1>2. SeriesInv'
    BY DEF FindSeries, Goes, SeriesInv, MetricsTypeOK, seriesVars
  <1>3. Begun' = Begun /\ Added' = Added /\ Over' = Over
    BY DEF FindSeries, Goes, MetricsTypeOK, Begun, Added, Over
  <1>4. value' = value /\ UNCHANGED seriesVars /\ UNCHANGED scrapeVars
    BY DEF FindSeries
  <1>5. CountsInv'
    BY <1>3, <1>4 DEF CountsInv, Recorded, seriesVars
  <1>6. ScrapeInv'
    BY <1>3, <1>4 DEF ScrapeInv, scrapeVars
  <1> QED  BY <1>1, <1>2, <1>5, <1>6

\* An observer that makes the series, or finds it made.
LEMMA CreateKeeps == ASSUME MetricsInv, NEW o \in Observers, CreateSeries(o) PROVE MetricsInv'
  <1> USE DEF MetricsInv
  <1>1. MetricsTypeOK'
    BY DEF CreateSeries, Created, Goes, MetricsTypeOK, Steps, scrapeVars
  <1>2. SeriesInv'
    BY MetricsAssumption DEF CreateSeries, Created, Goes, SeriesInv, MetricsTypeOK
  <1>3. Begun' = Begun /\ Added' = Added /\ Over' = Over
    BY DEF CreateSeries, Goes, MetricsTypeOK, Begun, Added, Over
  <1>4. /\ value' = value /\ counts' = counts /\ total' = total /\ sum' = sum
        /\ UNCHANGED scrapeVars
    BY DEF CreateSeries
  <1>5. series' = series \/ (series = NoSeries /\ Begun = {} /\ Added = {} /\ Over = {})
    BY DEF CreateSeries, Created, SeriesInv, Begun, Added, Over
  <1>6. \A x \in Observers : /\ Recorded(x, Begun)' = Recorded(x, Begun)
                             /\ Recorded(x, Added)' = Recorded(x, Added)
                             /\ Recorded(x, Over)' = Recorded(x, Over)
    BY <1>3, <1>5 DEF Recorded
  <1>7. CountsInv'
    BY <1>4, <1>6 DEF CountsInv
  <1>8. ScrapeInv'
    BY <1>3, <1>4 DEF ScrapeInv, scrapeVars
  <1> QED  BY <1>1, <1>2, <1>7, <1>8

\* More observations have begun, and the lines told are as before.
LEMMA ScrapeKept ==
    ASSUME MetricsInv, UNCHANGED <<value, scrapeVars>>,
           Begun \subseteq Begun', Over \subseteq Over'
    PROVE  ScrapeInv'
  <1> USE DEF MetricsInv
  <1> DEFINE B == Begun'
  <1>1. B \in SUBSET Observers
    BY DEF Begun
  <1> HIDE DEF B
  <1>2. Begun \in SUBSET B
    BY DEF B
  <1>3. \A i : ToldOf(value, Begun, i) \in Nat /\ ToldOf(value, B, i) \in Nat /\ ToldOf(value, Begun, i) <= ToldOf(value, B, i)
    BY <1>1, <1>2, ToldRules DEF MetricsTypeOK
  <1>4. \A i \in DOMAIN scraped : scraped[i] \in Nat
    BY DEF MetricsTypeOK
  <1>5. \A i \in DOMAIN scraped : ToldOf(value, before, i) <= scraped[i] /\ scraped[i] <= ToldOf(value, B, i)
    BY <1>3, <1>4 DEF ScrapeInv
  <1>6. before' = before /\ scraped' = scraped /\ value' = value /\ Begun' = B
    BY DEF scrapeVars, B
  <1>7. before \subseteq Over' /\ Len(scraped) <= CountLine
    BY DEF ScrapeInv
  <1> QED  BY <1>5, <1>6, <1>7 DEF ScrapeInv

\* An observation that is counted in its bucket, by CountValue.
LEMMA CountValueKeeps ==
    ASSUME MetricsInv, NEW o \in Observers, CountValue(o)
    PROVE  MetricsInv'
  <1> USE DEF MetricsInv
  <1>1. mine[o] = series /\ series \in Observers
    BY Working DEF CountValue, Goes
  <1>2. o \notin Begun /\ Begun' = Begun \cup {o} /\ Added' = Added /\ Over' = Over
    BY DEF CountValue, Goes, MetricsTypeOK, Begun, Added, Over
  <1>3. UNCHANGED <<value, mine, old, series, total, sum, scraped, before>>
    BY DEF CountValue, scrapeVars
  <1>4. value \in [Observers -> Values] /\ counts \in [Observers -> [Values -> Nat]]
    BY DEF MetricsTypeOK
  <1>5. counts' = [counts EXCEPT ![series] =
                      [v \in Values |-> counts[series][v] + IF v = value[o] THEN 1 ELSE 0]]
    BY <1>1, <1>4 DEF CountValue, SlotOf
  <1>6. MetricsTypeOK'
    <2>1. counts' \in [Observers -> [Values -> Nat]]
      BY <1>1, <1>4, <1>5
    <2> QED  BY <1>3, <2>1 DEF CountValue, Goes, MetricsTypeOK, Steps
  <1>7. SeriesInv'
    BY <1>1, <1>3 DEF CountValue, Goes, SeriesInv, MetricsTypeOK
  <1>8. CountsInv'
    <2> DEFINE In(S, v) == {p \in S : value[p] = v}
    <2>1. ASSUME NEW v \in Values
          PROVE  counts'[series][v] = Cardinality(In(Begun \cup {o}, v))
      <3>1. In(Begun, v) \in SUBSET Observers
        BY DEF Begun
      <3>2. IsFiniteSet(In(Begun, v)) /\ Cardinality(In(Begun, v)) \in Nat
        BY <3>1, SomeObservers
      <3>3. counts[series][v] = Cardinality(In(Begun, v))
        BY <1>1 DEF CountsInv, Recorded
      <3>4. CASE v = value[o]
        <4>1. In(Begun \cup {o}, v) = In(Begun, v) \cup {o} /\ o \notin In(Begun, v)
          BY <1>2, <3>4
        <4> HIDE DEF In
        <4>2. Cardinality(In(Begun, v) \cup {o}) = Cardinality(In(Begun, v)) + 1
          BY <3>2, <4>1, FS_AddElement
        <4> QED  BY <1>1, <1>4, <1>5, <3>3, <3>4, <4>1, <4>2
      <3>5. CASE v # value[o]
        <4>1. In(Begun \cup {o}, v) = In(Begun, v)
          BY <3>5
        <4> HIDE DEF In
        <4> QED  BY <1>1, <1>4, <1>5, <3>2, <3>3, <3>5, <4>1
      <3> QED  BY <3>4, <3>5
    <2>2. \A x \in Observers \ {series} : counts'[x] = counts[x]
      BY <1>1, <1>4, <1>5
    <2> QED  BY <1>2, <1>3, <2>1, <2>2 DEF CountsInv, Recorded
  <1>9. ScrapeInv'
    BY <1>2, <1>3, ScrapeKept DEF scrapeVars
  <1> QED  BY <1>6, <1>7, <1>8, <1>9

\* An observation that is added to the count, by AddTotal.
LEMMA AddTotalKeeps ==
    ASSUME MetricsInv, NEW o \in Observers, AddTotal(o)
    PROVE  MetricsInv'
  <1> USE DEF MetricsInv
  <1>1. mine[o] = series /\ series \in Observers
    BY Working DEF AddTotal, Goes
  <1>2. o \notin Added /\ Added' = Added \cup {o} /\ Begun' = Begun /\ Over' = Over
    BY DEF AddTotal, Goes, MetricsTypeOK, Begun, Added, Over
  <1>3. UNCHANGED <<value, mine, old, series, counts, sum, scraped, before>>
    BY DEF AddTotal, scrapeVars
  <1>4. total \in [Observers -> Nat] /\ total' = [total EXCEPT ![series] = @ + 1]
    BY <1>1 DEF AddTotal, MetricsTypeOK
  <1>5. MetricsTypeOK'
    <2>1. total' \in [Observers -> Nat]
      BY <1>1, <1>4
    <2> QED  BY <1>3, <2>1 DEF AddTotal, Goes, MetricsTypeOK, Steps
  <1>6. SeriesInv'
    BY <1>1, <1>3 DEF AddTotal, Goes, SeriesInv, MetricsTypeOK
  <1>7. CountsInv'
    <2>1. Added \in SUBSET Observers
      BY DEF Added
    <2>2. Cardinality(Added \cup {o}) = Cardinality(Added) + 1
      BY <1>2, <2>1, SomeObservers, FS_AddElement
    <2>3. total[series] = Cardinality(Added)
      BY <1>1 DEF CountsInv, Recorded
    <2>4. total'[series] = Cardinality(Added \cup {o})
      BY <1>1, <1>4, <2>2, <2>3
    <2>5. \A x \in Observers \ {series} : total'[x] = total[x]
      BY <1>1, <1>4
    <2> QED  BY <1>2, <1>3, <2>4, <2>5 DEF CountsInv, Recorded
  <1>8. ScrapeInv'
    BY <1>2, <1>3, ScrapeKept DEF scrapeVars
  <1> QED  BY <1>5, <1>6, <1>7, <1>8

\* An observation that loads the sum, by LoadSum.
LEMMA LoadSumKeeps ==
    ASSUME MetricsInv, NEW o \in Observers, LoadSum(o)
    PROVE  MetricsInv'
  <1> USE DEF MetricsInv
  <1>1. mine[o] = series /\ series \in Observers
    BY Working DEF LoadSum, Goes
  <1>2. Begun' = Begun /\ Added' = Added /\ Over' = Over
    BY DEF LoadSum, Goes, MetricsTypeOK, Begun, Added, Over
  <1>3. UNCHANGED <<value, mine, series, counts, total, sum, scraped, before>>
    BY DEF LoadSum, seriesVars, scrapeVars
  <1>4. MetricsTypeOK'
    <2>1. old' \in [Observers -> Nat]
      BY <1>1 DEF LoadSum, MetricsTypeOK
    <2> QED  BY <1>3, <2>1 DEF LoadSum, Goes, MetricsTypeOK, Steps
  <1>5. SeriesInv'
    BY <1>1, <1>3 DEF LoadSum, Goes, SeriesInv, MetricsTypeOK
  <1>6. CountsInv'
    BY <1>2, <1>3 DEF CountsInv, Recorded
  <1>7. ScrapeInv'
    BY <1>2, <1>3 DEF ScrapeInv
  <1> QED  BY <1>4, <1>5, <1>6, <1>7

\* An observation that is added to the sum, or that has to load it again, by SwapSum.
LEMMA SwapSumKeeps ==
    ASSUME MetricsInv, NEW o \in Observers, SwapSum(o)
    PROVE  MetricsInv'
  <1> USE DEF MetricsInv
  <1>1. mine[o] = series /\ series \in Observers
    BY Working DEF SwapSum
  <1>2. Begun' = Begun /\ Added' = Added
    BY DEF SwapSum, Goes, MetricsTypeOK, Begun, Added
  <1>3. UNCHANGED <<value, mine, old, series, counts, total, scraped, before>>
    BY DEF SwapSum, scrapeVars
  <1>4. value \in [Observers -> Values] /\ sum \in [Observers -> Nat]
        /\ \A p \in Observers : value[p] \in Nat
    <2>1. value \in [Observers -> Values] /\ sum \in [Observers -> Nat]
      BY DEF MetricsTypeOK
    <2>2. Values \subseteq Nat
      BY MetricsAssumption DEF Values
    <2> QED  BY <2>1, <2>2
  <1>5. SeriesInv'
    BY <1>1, <1>3 DEF SwapSum, Goes, SeriesInv, MetricsTypeOK
  <1>6. CASE SwapSucceeds(o)
    <2>1. sum' = [sum EXCEPT ![series] = @ + value[o]]
      BY <1>1, <1>6 DEF SwapSum, SwapSucceeds
    <2>2. o \notin Over /\ Over' = Over \cup {o}
      BY <1>6 DEF SwapSum, Goes, MetricsTypeOK, Over
    <2>3. MetricsTypeOK'
      <3>1. sum' \in [Observers -> Nat]
        BY <1>1, <1>4, <2>1
      <3> QED  BY <1>3, <1>6, <3>1 DEF SwapSum, Goes, MetricsTypeOK, Steps
    <2>4. CountsInv'
      <3>1. Over \in SUBSET Observers
        BY DEF Over
      <3>2. SumOf(value, Over \cup {o}) = SumOf(value, Over) + value[o]
        BY <1>4, <2>2, <3>1, MetricsAssumption, SumOfRules
      <3>3. sum[series] = SumOf(value, Over)
        BY <1>1 DEF CountsInv, Recorded
      <3>4. sum'[series] = SumOf(value, Over \cup {o})
        BY <1>1, <1>4, <2>1, <3>2, <3>3
      <3>5. \A x \in Observers \ {series} : sum'[x] = sum[x]
        BY <1>1, <1>4, <2>1
      <3> QED  BY <1>2, <1>3, <2>2, <3>4, <3>5 DEF CountsInv, Recorded
    <2>5. ScrapeInv'
      BY <1>2, <1>3, <2>2, ScrapeKept DEF scrapeVars
    <2> QED  BY <1>5, <2>3, <2>4, <2>5
  <1>7. CASE ~SwapSucceeds(o)
    <2>1. sum' = sum /\ Over' = Over
      BY <1>7 DEF SwapSum, Goes, MetricsTypeOK, Over
    <2>2. MetricsTypeOK'
      BY <1>3, <1>7, <2>1 DEF SwapSum, Goes, MetricsTypeOK, Steps
    <2>3. CountsInv'
      BY <1>2, <1>3, <2>1 DEF CountsInv, Recorded
    <2>4. ScrapeInv'
      BY <1>2, <1>3, <2>1 DEF ScrapeInv
    <2> QED  BY <1>5, <2>2, <2>3, <2>4
  <1> QED  BY <1>6, <1>7

\* What the next line of a scrape tells lies between what it has to and what it may.
LEMMA LineIsCurrent ==
    ASSUME MetricsInv, series \in Observers, Len(scraped) < CountLine, NEW b \in SUBSET Over,
           scraped = <<>> \/ b = before, NEW i, i = Len(scraped) + 1
    PROVE  /\ LineValue(i) \in Nat
           /\ ToldOf(value, b, i) <= LineValue(i)
           /\ LineValue(i) <= ToldOf(value, Begun, i)
  <1> USE DEF MetricsInv
  <1>1. value \in [Observers -> Values] /\ scraped \in Seq(Nat)
    BY DEF MetricsTypeOK
  <1>2. i \in Nat /\ i > 0 /\ i <= CountLine
    BY <1>1, MetricsAssumption DEF CountLine
  <1>3. b \in SUBSET Over /\ Over \in SUBSET Added /\ Added \in SUBSET Begun
        /\ Begun \in SUBSET Observers
    BY DEF Over, Added, Begun
  <1>4. \A S \in SUBSET Begun : \A j : /\ ToldOf(value, S, j) \in Nat
                                       /\ ToldOf(value, S, j) <= ToldOf(value, Begun, j)
    BY <1>1, <1>3, ToldRules
  <1>5. CASE i = SumLine
    <2>1. LineValue(i) = SumOf(value, Over)
      <3>1. LineValue(i) = sum[series]
        BY <1>5, MetricsAssumption DEF LineValue, CountLine, SumLine
      <3> QED  BY <3>1 DEF CountsInv, Recorded
    <2>2. LineValue(i) = ToldOf(value, Over, i)
      BY <1>5, <2>1 DEF ToldOf
    <2>3. ToldOf(value, b, i) <= ToldOf(value, Over, i)
      BY <1>1, <1>3, ToldRules
    <2>4. ToldOf(value, Over, i) \in Nat /\ ToldOf(value, Over, i) <= ToldOf(value, Begun, i)
      BY <1>3, <1>4
    <2> QED  BY <2>2, <2>3, <2>4
  <1>6. CASE i = CountLine
    <2>1. LineValue(i) = Cardinality(Added)
      BY <1>6 DEF LineValue, CountsInv, Recorded, CountLine, SumLine
    <2>2. LineValue(i) = ToldOf(value, Added, i)
      BY <1>1, <1>3, <1>6, <2>1, ToldRules
    <2>3. ToldOf(value, b, i) <= ToldOf(value, Added, i)
      BY <1>1, <1>3, ToldRules
    <2>4. ToldOf(value, Added, i) \in Nat /\ ToldOf(value, Added, i) <= ToldOf(value, Begun, i)
      BY <1>3, <1>4
    <2> QED  BY <2>2, <2>3, <2>4
  <1>7. CASE i # SumLine /\ i # CountLine
    <2> DEFINE prev == IF i = 1 THEN 0 ELSE scraped[i - 1]
               own(S) == Cardinality({o \in S : value[o] = i})
               less(S) == IF i = 1 THEN 0 ELSE ToldOf(value, S, i - 1)
    <2>1. i \in Values
      BY <1>2, <1>7, MetricsAssumption DEF Values, SumLine, CountLine
    <2>2. LineValue(i) = prev + own(Begun)
      BY <1>7, <2>1 DEF LineValue, CountsInv, Recorded
    <2>3. ToldOf(value, b, i) = less(b) + own(b) /\ ToldOf(value, Begun, i) = less(Begun) + own(Begun)
      <3>1. b \in SUBSET Observers
        BY <1>3
      <3>2. ASSUME NEW S \in SUBSET Observers PROVE ToldOf(value, S, i) = less(S) + own(S)
        BY <1>1, <2>1, ToldRules
      <3> HIDE DEF less, own
      <3> QED  BY <1>3, <3>1, <3>2
    <2>4. own(b) \in Nat /\ own(Begun) \in Nat /\ own(b) <= own(Begun)
      <3>1. {o \in b : value[o] = i} \in SUBSET {o \in Begun : value[o] = i}
        BY <1>3
      <3>2. {o \in b : value[o] = i} \in SUBSET Observers
            /\ {o \in Begun : value[o] = i} \in SUBSET Observers
        BY <1>3
      <3> QED  BY <3>1, <3>2, SomeObservers, FS_Subset
    <2>5. prev \in Nat /\ less(b) \in Nat /\ less(Begun) \in Nat
          /\ less(b) <= prev /\ prev <= less(Begun)
      <3>1. CASE i = 1
        BY <3>1
      <3>2. CASE i # 1
        <4>1. i - 1 \in DOMAIN scraped /\ scraped # <<>> /\ b = before
          BY <1>1, <1>2, <3>2
        <4>2. scraped[i - 1] \in Nat
          BY <1>1, <4>1
        <4>3. ToldOf(value, before, i - 1) <= scraped[i - 1]
              /\ scraped[i - 1] <= ToldOf(value, Begun, i - 1)
          BY <4>1 DEF ScrapeInv
        <4>4. ToldOf(value, b, i - 1) \in Nat /\ ToldOf(value, Begun, i - 1) \in Nat
          BY <1>3, <1>4
        <4> QED  BY <3>2, <4>1, <4>2, <4>3, <4>4
      <3> QED  BY <3>1, <3>2
    <2> HIDE DEF prev, own, less
    <2> QED  BY <2>2, <2>3, <2>4, <2>5
  <1> QED  BY <1>5, <1>6, <1>7

\* A line is scraped.
LEMMA ScrapeLineKeeps == ASSUME MetricsInv, ScrapeLine PROVE MetricsInv'
  <1> USE DEF MetricsInv
  <1> DEFINE i == Len(scraped) + 1
             b == IF scraped = <<>> THEN Over ELSE before
             line == LineValue(i)
  <1>1. series \in Observers /\ Len(scraped) < CountLine
    BY DEF ScrapeLine, MetricsTypeOK
  <1>2. b \in SUBSET Over /\ (scraped = <<>> \/ b = before)
    BY DEF ScrapeInv
  <1>3. line \in Nat /\ ToldOf(value, b, i) <= line /\ line <= ToldOf(value, Begun, i)
    <2>1. i = Len(scraped) + 1
      OBVIOUS
    <2> HIDE DEF b, i
    <2> QED  BY <1>1, <1>2, <2>1, LineIsCurrent
  <1>4. scraped' = Append(scraped, line) /\ before' = b /\ scraped \in Seq(Nat)
    BY DEF ScrapeLine, MetricsTypeOK
  <1>5. UNCHANGED <<value, step, mine, old, series, counts, total, sum>>
    BY DEF ScrapeLine, observerVars, seriesVars
  <1>6. Begun' = Begun /\ Added' = Added /\ Over' = Over
    BY <1>5 DEF Begun, Added, Over
  <1> HIDE DEF line
  <1>7. MetricsTypeOK'
    <2>1. scraped' \in Seq(Nat) /\ before' \subseteq Observers
      BY <1>2, <1>3, <1>4 DEF Over
    <2> QED  BY <1>5, <2>1 DEF MetricsTypeOK
  <1>8. SeriesInv'
    BY <1>5 DEF SeriesInv
  <1>9. CountsInv'
    BY <1>5, <1>6 DEF CountsInv, Recorded
  <1>10. ScrapeInv'
    <2>1. Len(scraped') = i /\ i <= CountLine /\ DOMAIN scraped' = 1..i /\ scraped'[i] = line
      BY <1>1, <1>3, <1>4, MetricsAssumption DEF CountLine
    <2>2. \A j \in 1..i : j # i => j \in DOMAIN scraped /\ scraped'[j] = scraped[j]
      BY <1>3, <1>4
    <2>3. \A j \in 1..i : j # i => b = before
      BY <1>4
    <2> HIDE DEF i
    <2>4. \A j \in DOMAIN scraped' : /\ ToldOf(value, b, j) <= scraped'[j]
                                     /\ scraped'[j] <= ToldOf(value, Begun, j)
      BY <1>3, <2>1, <2>2, <2>3 DEF ScrapeInv
    <2> HIDE DEF b
    <2> QED  BY <1>2, <1>4, <1>5, <1>6, <2>1, <2>4 DEF ScrapeInv
  <1> QED  BY <1>7, <1>8, <1>9, <1>10

\* A scrape ends.
LEMMA EndScrapeKeeps == ASSUME MetricsInv, EndScrape PROVE MetricsInv'
  <1> USE DEF MetricsInv
  <1>1. UNCHANGED <<value, step, mine, old, series, counts, total, sum>>
    BY DEF EndScrape, observerVars, seriesVars
  <1>2. Begun' = Begun /\ Added' = Added /\ Over' = Over
    BY <1>1 DEF Begun, Added, Over
  <1>3. MetricsTypeOK'
    BY <1>1 DEF EndScrape, MetricsTypeOK
  <1>4. SeriesInv'
    BY <1>1 DEF SeriesInv
  <1>5. CountsInv'
    BY <1>1, <1>2 DEF CountsInv, Recorded
  <1>6. ScrapeInv'
    BY MetricsAssumption DEF EndScrape, ScrapeInv, CountLine
  <1> QED  BY <1>3, <1>4, <1>5, <1>6

\* Every step keeps the invariant.
LEMMA NextMetrics == MetricsInv /\ [MetricsNext]_metricsVars => MetricsInv'
  <1> SUFFICES ASSUME MetricsInv, [MetricsNext]_metricsVars PROVE MetricsInv'
    OBVIOUS
  <1>1. CASE MetricsNext
    BY <1>1, FindKeeps, CreateKeeps, CountValueKeeps, AddTotalKeeps, LoadSumKeeps,
       SwapSumKeeps, ScrapeLineKeeps, EndScrapeKeeps DEF MetricsNext
  <1>2. CASE UNCHANGED metricsVars
    <2>1. UNCHANGED <<value, step, mine, old, series, counts, total, sum, scraped, before>>
      BY <1>2 DEF metricsVars, observerVars, seriesVars, scrapeVars
    <2>2. Begun' = Begun /\ Added' = Added /\ Over' = Over
      BY <2>1 DEF Begun, Added, Over
    <2>3. MetricsTypeOK' /\ SeriesInv'
      BY <2>1 DEF MetricsInv, MetricsTypeOK, SeriesInv
    <2>4. CountsInv' /\ ScrapeInv'
      BY <2>1, <2>2 DEF MetricsInv, CountsInv, ScrapeInv, Recorded
    <2> QED  BY <2>3, <2>4 DEF MetricsInv
  <1> QED  BY <1>1, <1>2

-----------------------------------------------------------------------------
(* The theorems                                                            *)

\* The histogram keeps its invariant: every observation that has passed slot works on
\* the one series, which has it exactly once in its bucket, in its count and in its sum.
THEOREM ObservationsAreExact == MetricsSpec => []MetricsInv
  BY InitMetrics, NextMetrics, PTL DEF MetricsSpec

\* "No observation is lost", and none counts twice (metrics.go:450-453, 161-164):
\* every line of a scrape tells of all observations that were over when it began, and
\* of none that has not begun.
THEOREM ScrapesAreExact == MetricsSpec => []ScrapesAreCurrent
  <1>1. MetricsInv => ScrapesAreCurrent
    <2>1. \A S, i : Told(S, i) = ToldOf(value, S, i)
      BY DEF Told, ToldOf, SumOf
    <2> QED  BY <2>1, Zenon DEF MetricsInv, ScrapeInv, ScrapesAreCurrent, Begun
  <1> QED  BY <1>1, ObservationsAreExact, PTL

==============================================================================
