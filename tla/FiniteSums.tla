----------------------------- MODULE FiniteSums -----------------------------
(***************************************************************************)
(* Facts about sums over finite sets (SumFunctionOnSet of the community    *)
(* modules), which say what the ledger's balances must add up to.  The     *)
(* induction over finite sets is carried out as an argument about a        *)
(* smallest counterexample.                                                *)
(***************************************************************************)
EXTENDS FiniteSetTheorems, TLAPS

\* A family of subsets of a finite set has a smallest member.
LEMMA SmallestMember ==
  ASSUME NEW S, IsFiniteSet(S), NEW F, F \subseteq SUBSET S, F # {}
  PROVE  \E T \in F : \A U \in F : U \subseteq T => U = T
<1>1. F \subseteq FiniteSubsetsOf(S)
  BY FS_FiniteSubsetsOfFinite
<1>2. PICK T \in F : \A U \in F : <<U, T>> \notin StrictSubsetOrdering(S)
  BY <1>1, WFMin, FS_StrictSubsetOrderingWellFounded
<1>3. \A U \in F : U \subseteq T => U = T
  BY <1>2 DEF StrictSubsetOrdering
<1> QED
  BY <1>3

-----------------------------------------------------------------------------
(* The recursion behind SumFunctionOnSet has one solution.                  *)

Pick(s) == CHOOSE x \in s : TRUE
Adds(f, S, g) ==
  g = [s \in SUBSET S |-> IF s = {} THEN 0 ELSE f[Pick(s)] + g[s \ {Pick(s)}]]
Adding(f, S) == CHOOSE g : Adds(f, S, g)

LEMMA SumIsAdding ==
  ASSUME NEW f, NEW S
  PROVE  SumFunctionOnSet(f, S) = Adding(f, S)[S]
BY DEF SumFunctionOnSet, FoldFunctionOnSet, MapThenFoldSet, Adding, Adds, Pick

LEMMA PickIn == ASSUME NEW s, s # {} PROVE Pick(s) \in s
BY DEF Pick

LEMMA AddsAlike ==
  ASSUME NEW f, NEW S, IsFiniteSet(S), NEW T, T \subseteq S,
         NEW g, Adds(f, S, g), NEW h, Adds(f, T, h)
  PROVE  \A s \in SUBSET T : g[s] = h[s]
<1> DEFINE F == {s \in SUBSET T : g[s] # h[s]}
<1> SUFFICES ASSUME F # {} PROVE FALSE
  OBVIOUS
<1>1. F \subseteq SUBSET S
  OBVIOUS
<1>2. PICK s \in F : \A u \in F : u \subseteq s => u = s
  <2> HIDE DEF F
  <2> QED
    BY <1>1, SmallestMember
<1>3. CASE s = {}
  <2>1. g[s] = 0 /\ h[s] = 0
    BY <1>3 DEF Adds
  <2> QED
    BY <2>1
<1>4. CASE s # {}
  <2> DEFINE x == Pick(s)
             u == s \ {x}
  <2>1. x \in s
    BY <1>4, PickIn
  <2>2. u \in SUBSET T /\ u \subseteq s /\ u # s
    BY <2>1
  <2>3. g[u] = h[u]
    BY <1>2, <2>2
  <2>4. g[s] = f[x] + g[u] /\ h[s] = f[x] + h[u]
    BY <1>4 DEF Adds
  <2> QED
    BY <2>3, <2>4
<1> QED
  BY <1>3, <1>4

LEMMA AddingAdds ==
  ASSUME NEW f, NEW S, IsFiniteSet(S)
  PROVE  Adds(f, S, Adding(f, S))
<1> DEFINE F == {T \in SUBSET S : ~ \E g : Adds(f, T, g)}
<1>1. F = {}
  <2> SUFFICES ASSUME F # {} PROVE FALSE
    OBVIOUS
  <2>1. PICK T \in F : \A U \in F : U \subseteq T => U = T
    <3> HIDE DEF F
    <3>1. F \subseteq SUBSET S
      BY DEF F
    <3> QED
      BY <3>1, SmallestMember
  <2>2. ASSUME NEW u \in SUBSET T, u # T PROVE Adds(f, u, Adding(f, u))
    BY <2>1, <2>2 DEF Adding
  <2> DEFINE g == [s \in SUBSET T |-> IF s = {} THEN 0 ELSE
                      f[Pick(s)] + Adding(f, s \ {Pick(s)})[s \ {Pick(s)}]]
  <2>3. ASSUME NEW u \in SUBSET T, u # T PROVE g[u] = Adding(f, u)[u]
    <3>1. CASE u = {}
      <4>1. Adding(f, u)[u] = 0
        BY <2>2, <2>3, <3>1 DEF Adds
      <4> QED
        BY <3>1, <4>1
    <3>2. CASE u # {}
      <4> DEFINE v == u \ {Pick(u)}
      <4>1. v \in SUBSET T /\ v \subseteq u /\ v # T
        BY <2>3
      <4>2. Adds(f, u, Adding(f, u)) /\ Adds(f, v, Adding(f, v)) /\ IsFiniteSet(u)
        BY <2>2, <2>3, <4>1, FS_Subset
      <4>3. Adding(f, u)[v] = Adding(f, v)[v]
        <5> HIDE DEF v
        <5> QED
          BY <4>1, <4>2, AddsAlike
      <4>4. Adding(f, u)[u] = f[Pick(u)] + Adding(f, u)[v]
        BY <3>2, <4>2 DEF Adds
      <4> QED
        BY <3>2, <4>3, <4>4
    <3> QED
      BY <3>1, <3>2
  <2>4. ASSUME NEW s \in SUBSET T, s # {} PROVE g[s] = f[Pick(s)] + g[s \ {Pick(s)}]
    <3>1. s \ {Pick(s)} \in SUBSET T /\ s \ {Pick(s)} # T
      BY <2>4, PickIn
    <3>2. g[s \ {Pick(s)}] = Adding(f, s \ {Pick(s)})[s \ {Pick(s)}]
      BY <2>3, <3>1
    <3> QED
      BY <2>4, <3>2
  <2>5. g[{}] = 0
    OBVIOUS
  <2>6. Adds(f, T, g)
    <3>1. DOMAIN g = SUBSET T /\ g = [s \in SUBSET T |-> g[s]]
      OBVIOUS
    <3> HIDE DEF g
    <3> QED
      BY <2>4, <2>5, <3>1 DEF Adds
  <2> QED
    BY <2>1, <2>6
<1> QED
  BY <1>1 DEF Adding

-----------------------------------------------------------------------------
(* What a sum is made of, and how it changes.                               *)

LEMMA SumEmpty == \A f : SumFunctionOnSet(f, {}) = 0
<1> SUFFICES ASSUME NEW f PROVE SumFunctionOnSet(f, {}) = 0
  OBVIOUS
<1>1. Adds(f, {}, Adding(f, {}))
  BY AddingAdds, FS_EmptySet
<1>2. Adding(f, {})[{}] = 0
  BY <1>1 DEF Adds
<1> QED
  BY <1>2, SumIsAdding

LEMMA SumPicked ==
  ASSUME NEW f, NEW S, IsFiniteSet(S), S # {}
  PROVE  SumFunctionOnSet(f, S) = f[Pick(S)] + SumFunctionOnSet(f, S \ {Pick(S)})
<1> DEFINE T == S \ {Pick(S)}
<1>1. T \subseteq S /\ IsFiniteSet(T)
  BY FS_Subset
<1>2. Adds(f, S, Adding(f, S)) /\ Adds(f, T, Adding(f, T))
  BY <1>1, AddingAdds
<1>3. Adding(f, S)[T] = Adding(f, T)[T]
  <2> HIDE DEF T
  <2> QED
    BY <1>1, <1>2, AddsAlike
<1>4. Adding(f, S)[S] = f[Pick(S)] + Adding(f, S)[T]
  BY <1>2 DEF Adds
<1> QED
  BY <1>3, <1>4, SumIsAdding

LEMMA SumInt ==
  ASSUME NEW f, NEW S, IsFiniteSet(S), \A x \in S : f[x] \in Int
  PROVE  SumFunctionOnSet(f, S) \in Int
<1> DEFINE F == {s \in SUBSET S : SumFunctionOnSet(f, s) \notin Int}
<1> SUFFICES ASSUME F # {} PROVE FALSE
  OBVIOUS
<1>1. PICK s \in F : \A u \in F : u \subseteq s => u = s
  <2>1. F \subseteq SUBSET S
    OBVIOUS
  <2> HIDE DEF F
  <2> QED
    BY <2>1, SmallestMember
<1>2. s # {} /\ IsFiniteSet(s)
  <2>1. SumFunctionOnSet(f, {}) \in Int
    BY SumEmpty
  <2>2. IsFiniteSet(s)
    BY FS_Subset
  <2> QED
    BY <2>1, <2>2
<1>3. Pick(s) \in s
  BY <1>2, PickIn
<1>4. SumFunctionOnSet(f, s \ {Pick(s)}) \in Int
  BY <1>1, <1>3
<1> QED
  BY <1>2, <1>3, <1>4, SumPicked

\* Any member may be taken out first.
LEMMA SumWithout ==
  ASSUME NEW f, NEW S, IsFiniteSet(S), \A x \in S : f[x] \in Int, NEW x \in S
  PROVE  SumFunctionOnSet(f, S) = f[x] + SumFunctionOnSet(f, S \ {x})
<1> DEFINE Odd(s) == \E y \in s : SumFunctionOnSet(f, s) # f[y] + SumFunctionOnSet(f, s \ {y})
           F == {s \in SUBSET S : Odd(s)}
<1> SUFFICES ASSUME F # {} PROVE FALSE
  OBVIOUS
<1>1. PICK s \in F : \A u \in F : u \subseteq s => u = s
  <2>1. F \subseteq SUBSET S
    OBVIOUS
  <2> HIDE DEF F
  <2> QED
    BY <2>1, SmallestMember
<1>2. PICK y \in s : SumFunctionOnSet(f, s) # f[y] + SumFunctionOnSet(f, s \ {y})
  OBVIOUS
<1> DEFINE z == Pick(s)
<1>3. z \in s /\ IsFiniteSet(s) /\ SumFunctionOnSet(f, s) = f[z] + SumFunctionOnSet(f, s \ {z})
  BY <1>2, PickIn, SumPicked, FS_Subset
<1>4. z # y
  BY <1>2, <1>3
<1>5. /\ SumFunctionOnSet(f, s \ {z}) = f[y] + SumFunctionOnSet(f, s \ {z, y})
      /\ SumFunctionOnSet(f, s \ {y}) = f[z] + SumFunctionOnSet(f, s \ {z, y})
  <2>1. ASSUME NEW v \in s PROVE ~Odd(s \ {v})
    <3>1. s \ {v} \in SUBSET S /\ s \ {v} \subseteq s /\ s \ {v} # s
      OBVIOUS
    <3>2. s \ {v} \notin F
      <4> HIDE DEF F
      <4> QED
        BY <1>1, <3>1
    <3> HIDE DEF Odd
    <3> QED
      BY <3>1, <3>2
  <2>2. (s \ {z}) \ {y} = s \ {z, y} /\ (s \ {y}) \ {z} = s \ {z, y}
    OBVIOUS
  <2>3. y \in s \ {z} /\ z \in s \ {y}
    BY <1>2, <1>3, <1>4
  <2>4. ~Odd(s \ {z}) /\ ~Odd(s \ {y})
    <3> HIDE DEF Odd
    <3> QED
      BY <1>2, <1>3, <2>1
  <2>5. /\ SumFunctionOnSet(f, s \ {z}) = f[y] + SumFunctionOnSet(f, (s \ {z}) \ {y})
        /\ SumFunctionOnSet(f, s \ {y}) = f[z] + SumFunctionOnSet(f, (s \ {y}) \ {z})
    BY <2>3, <2>4
  <2> QED
    BY <2>2, <2>5
<1>6. /\ f[y] \in Int /\ f[z] \in Int
      /\ SumFunctionOnSet(f, s \ {z, y}) \in Int
  <2>1. s \ {z, y} \in SUBSET S /\ IsFiniteSet(s \ {z, y})
    BY FS_Subset
  <2> QED
    BY <1>3, <2>1, SumInt
<1> HIDE DEF z, F
<1> QED
  BY <1>2, <1>3, <1>5, <1>6

LEMMA SumWith ==
  ASSUME NEW f, NEW S, IsFiniteSet(S), \A x \in S : f[x] \in Int,
         NEW x, x \notin S, f[x] \in Int
  PROVE  SumFunctionOnSet(f, S \cup {x}) = f[x] + SumFunctionOnSet(f, S)
<1>1. IsFiniteSet(S \cup {x}) /\ (S \cup {x}) \ {x} = S
  BY FS_AddElement
<1> DEFINE T == S \cup {x}
<1>2. x \in T /\ \A y \in T : f[y] \in Int
  OBVIOUS
<1>3. T \ {x} = S /\ IsFiniteSet(T)
  BY <1>1
<1> HIDE DEF T
<1>4. SumFunctionOnSet(f, T) = f[x] + SumFunctionOnSet(f, T \ {x})
  BY <1>2, <1>3, SumWithout
<1> QED
  BY <1>3, <1>4 DEF T

\* A sum depends on its summands only.
LEMMA SumSame ==
  ASSUME NEW f, NEW g, NEW S, IsFiniteSet(S), \A x \in S : f[x] = g[x]
  PROVE  SumFunctionOnSet(f, S) = SumFunctionOnSet(g, S)
<1> DEFINE F == {s \in SUBSET S : SumFunctionOnSet(f, s) # SumFunctionOnSet(g, s)}
<1> SUFFICES ASSUME F # {} PROVE FALSE
  OBVIOUS
<1>1. PICK s \in F : \A u \in F : u \subseteq s => u = s
  <2>1. F \subseteq SUBSET S
    OBVIOUS
  <2> HIDE DEF F
  <2> QED
    BY <2>1, SmallestMember
<1>2. s # {} /\ IsFiniteSet(s)
  BY SumEmpty, FS_Subset
<1>3. Pick(s) \in s
  BY <1>2, PickIn
<1>4. SumFunctionOnSet(f, s \ {Pick(s)}) = SumFunctionOnSet(g, s \ {Pick(s)})
  BY <1>1, <1>3
<1>5. f[Pick(s)] = g[Pick(s)]
  BY <1>3
<1>6. /\ SumFunctionOnSet(f, s) = f[Pick(s)] + SumFunctionOnSet(f, s \ {Pick(s)})
      /\ SumFunctionOnSet(g, s) = g[Pick(s)] + SumFunctionOnSet(g, s \ {Pick(s)})
  BY <1>2, SumPicked
<1> QED
  BY <1>4, <1>5, <1>6

LEMMA SumZero ==
  ASSUME NEW f, NEW S, IsFiniteSet(S), \A x \in S : f[x] = 0
  PROVE  SumFunctionOnSet(f, S) = 0
<1> DEFINE F == {s \in SUBSET S : SumFunctionOnSet(f, s) # 0}
<1> SUFFICES ASSUME F # {} PROVE FALSE
  OBVIOUS
<1>1. PICK s \in F : \A u \in F : u \subseteq s => u = s
  <2>1. F \subseteq SUBSET S
    OBVIOUS
  <2> HIDE DEF F
  <2> QED
    BY <2>1, SmallestMember
<1>2. s # {} /\ IsFiniteSet(s)
  BY SumEmpty, FS_Subset
<1>3. Pick(s) \in s
  BY <1>2, PickIn
<1>4. SumFunctionOnSet(f, s \ {Pick(s)}) = 0
  BY <1>1, <1>3
<1> QED
  BY <1>2, <1>3, <1>4, SumPicked

\* One summand changes.
LEMMA SumChange ==
  ASSUME NEW f, NEW g, NEW S, IsFiniteSet(S),
         \A x \in S : f[x] \in Int, \A x \in S : g[x] \in Int,
         NEW x \in S, \A y \in S \ {x} : g[y] = f[y]
  PROVE  SumFunctionOnSet(g, S) = SumFunctionOnSet(f, S) - f[x] + g[x]
<1>1. IsFiniteSet(S \ {x})
  BY FS_RemoveElement
<1>2. SumFunctionOnSet(g, S \ {x}) = SumFunctionOnSet(f, S \ {x})
  BY <1>1, SumSame
<1>3. SumFunctionOnSet(f, S \ {x}) \in Int
  BY <1>1, SumInt
<1>4. /\ SumFunctionOnSet(f, S) = f[x] + SumFunctionOnSet(f, S \ {x})
      /\ SumFunctionOnSet(g, S) = g[x] + SumFunctionOnSet(g, S \ {x})
  BY SumWithout
<1>5. f[x] \in Int /\ g[x] \in Int
  OBVIOUS
<1> QED
  BY <1>2, <1>3, <1>4, <1>5

=============================================================================
