--------------------------- MODULE FiniteInduction ---------------------------
(***************************************************************************)
(* Induction over finite data, where a proof needs it: instead of a        *)
(* predicate that every set or number has, the set of those that have it.  *)
(***************************************************************************)
EXTENDS Naturals, FiniteSets, FiniteSetTheorems, TLAPS

\* The sets of a nonempty collection of finite sets have a smallest one.
LEMMA SmallestSet ==
    ASSUME NEW S, NEW F, F \subseteq FiniteSubsetsOf(S), F # {}
    PROVE  \E T \in F : \A U \in F : U \subseteq T => U = T
  <1>1. PICK T \in F : \A U \in F : <<U, T>> \notin StrictSubsetOrdering(S)
    BY FS_StrictSubsetOrderingWellFounded, WFMin
  <1>2. F \subseteq SUBSET S
    BY DEF FiniteSubsetsOf
  <1>3. \A U \in F : U \subseteq T => U = T
    BY <1>1, <1>2 DEF StrictSubsetOrdering
  <1> QED  BY <1>3

\* A set of naturals that contains zero and the successor of each of its members
\* up to n contains them all: induction, by the smallest that is missing.
LEMMA UpTo ==
    ASSUME NEW n \in Nat, NEW S, 0 \in S, \A i \in 1..n : i - 1 \in S => i \in S
    PROVE  0..n \subseteq S
  <1> DEFINE M == (0..n) \ S
             F == {0..m : m \in M}
  <1> SUFFICES ASSUME M # {} PROVE FALSE
    OBVIOUS
  <1>1. F \subseteq FiniteSubsetsOf(Nat)
    <2>1. \A m \in Nat : IsFiniteSet(0..m)
      BY FS_Interval
    <2> QED  BY <2>1 DEF FiniteSubsetsOf
  <1>2. F # {}
    OBVIOUS
  <1> HIDE DEF F
  <1>3. PICK T \in F : \A U \in F : U \subseteq T => U = T
    BY <1>1, <1>2, SmallestSet
  <1>4. PICK m \in M : T = 0..m
    BY DEF F
  <1>5. m \in 1..n /\ m - 1 \in M
    OBVIOUS
  <1>6. 0..m - 1 \in F /\ 0..m - 1 \subseteq T
    BY <1>4, <1>5 DEF F
  <1>7. m \in 0..m /\ m \notin 0..m - 1
    BY <1>5
  <1> QED  BY <1>3, <1>4, <1>6, <1>7

\* What holds of a set whenever it holds of its smaller parts, holds of all parts of
\* a finite set.
LEMMA PartInduction ==
    ASSUME NEW S, IsFiniteSet(S), NEW Good,
           \A s \in SUBSET S : (\A r \in SUBSET s : r # s => r \in Good) => s \in Good
    PROVE  SUBSET S \subseteq Good
  <1> DEFINE F == (SUBSET S) \ Good
  <1> SUFFICES ASSUME F # {} PROVE FALSE
    OBVIOUS
  <1>1. F \subseteq FiniteSubsetsOf(S)
    BY FS_Subset DEF FiniteSubsetsOf
  <1> HIDE DEF F
  <1>2. PICK s \in F : \A r \in F : r \subseteq s => r = s
    BY <1>1, SmallestSet
  <1>3. s \in SUBSET S /\ s \notin Good /\ \A r \in SUBSET s : r # s => r \in Good
    BY <1>2 DEF F
  <1> QED  BY <1>3

==============================================================================
