-------------------------- MODULE AccountingProofs --------------------------
(***************************************************************************)
(* The byte budget, for every heap: at every step used_mem covers what is  *)
(* allocated and stays within the budget.  Where the shapes have the sizes *)
(* of their tags (AllFollow: no references to floats), it is the sum of    *)
(* the sizes of what is allocated, and the program is told that memory is  *)
(* full only if what it can reach leaves no room.                          *)
(*                                                                         *)
(* The sum over a set is a recursive function that takes one element after *)
(* another in an order nobody knows.  What is needed of it is that an      *)
(* element more adds its size, whatever the order.  Instead of induction,  *)
(* which would need an operator for the hypothesis, the proofs take the    *)
(* least set for which a claim fails: strict inclusion is well-founded on  *)
(* finite sets.                                                            *)
(***************************************************************************)
EXTENDS CollectorProofs, FiniteSetTheorems, WellFoundedInduction

-----------------------------------------------------------------------------
(* Sums over finite sets.                                                   *)

\* A non-empty set of subsets of a finite set has a member that strictly
\* includes no other.
LEMMA LeastSet ==
  ASSUME NEW D, IsFiniteSet(D), NEW T, T \subseteq SUBSET D, T # {}
  PROVE  \E s \in T : \A r \in T : ~(r \subseteq s /\ r # s)
  <1>1. IsWellFoundedOn(StrictSubsetOrdering(D), SUBSET D)
    BY FS_StrictSubsetOrderingWellFounded, FS_FiniteSubsetsOfFinite
  <1>2. \E s \in T : \A r \in T : ~(<<r, s>> \in StrictSubsetOrdering(D))
    BY <1>1, WFMin
  <1>3. PICK s \in T : \A r \in T : ~(<<r, s>> \in StrictSubsetOrdering(D))
    BY <1>2
  <1>4. ASSUME NEW r \in T, r \subseteq s, r # s PROVE FALSE
    <2>1. <<r, s>> \in (SUBSET D) \X (SUBSET D)
      OBVIOUS
    <2>2. <<r, s>> \in StrictSubsetOrdering(D)
      BY <1>4, <2>1 DEF StrictSubsetOrdering
    <2> QED BY <1>3, <2>2
  <1> QED BY <1>4

\* F gives each subset of D the sum of the weights of its elements.
IsSum(F, w, D) ==
    /\ F \in [SUBSET D -> Nat] /\ F[{}] = 0
    /\ \A s \in SUBSET D : \A a \in D \ s : F[s \cup {a}] = F[s] + w[a]

\* Taking an element away takes its weight off.
LEMMA SumWithout ==
  ASSUME NEW D, NEW w, NEW F, IsSum(F, w, D), NEW s \in SUBSET D, NEW a \in s
  PROVE  s \ {a} \in SUBSET D /\ F[s] = F[s \ {a}] + w[a]
  <1>1. s \ {a} \in SUBSET D /\ a \in D \ (s \ {a}) /\ (s \ {a}) \cup {a} = s
    OBVIOUS
  <1> QED BY <1>1 DEF IsSum

\* An element more: its weight is added to the sum of the rest.
LEMMA SumExtends ==
  ASSUME NEW D, NEW w, \A x \in D : w[x] \in Nat, NEW a \in D, NEW G, IsSum(G, w, D \ {a})
  PROVE  \E F : IsSum(F, w, D)
  <1> DEFINE E == D \ {a}
             F == [s \in SUBSET D |-> IF a \in s THEN G[s \ {a}] + w[a] ELSE G[s]]
  <1>1. /\ G \in [SUBSET E -> Nat] /\ G[{}] = 0
        /\ \A s \in SUBSET E : \A x \in E \ s : G[s \cup {x}] = G[s] + w[x]
    BY DEF IsSum
  <1>2. \A s \in SUBSET D : s \ {a} \in SUBSET E /\ (a \notin s => s \in SUBSET E)
    OBVIOUS
  <1>3. \A s \in SUBSET E : G[s] \in Nat
    BY <1>1
  <1>4. F \in [SUBSET D -> Nat]
    <2>1. \A s \in SUBSET D : (IF a \in s THEN G[s \ {a}] + w[a] ELSE G[s]) \in Nat
      BY <1>2, <1>3
    <2> QED BY <2>1
  <1>5. F[{}] = 0
    BY <1>1
  <1>6. ASSUME NEW s \in SUBSET D, NEW x \in D \ s PROVE F[s \cup {x}] = F[s] + w[x]
    <2>0. s \cup {x} \in SUBSET D
      OBVIOUS
    <2>1. CASE x = a
      <3>1. (s \cup {x}) \ {a} = s /\ a \notin s
        BY <2>1
      <3> QED BY <2>0, <2>1, <3>1
    <2>2. CASE x # a /\ a \notin s
      <3>1. s \in SUBSET E /\ x \in E \ s
        BY <2>2
      <3>2. F[s] = G[s] /\ F[s \cup {x}] = G[s \cup {x}]
        BY <2>0, <2>2
      <3> QED BY <1>1, <3>1, <3>2
    <2>3. CASE x # a /\ a \in s
      <3>1. s \ {a} \in SUBSET E /\ x \in E \ (s \ {a})
        BY <2>3
      <3>2. (s \cup {x}) \ {a} = (s \ {a}) \cup {x}
        BY <2>3
      <3>3. F[s] = G[s \ {a}] + w[a] /\ F[s \cup {x}] = G[(s \ {a}) \cup {x}] + w[a]
        BY <2>0, <2>3, <3>2
      <3>4. G[(s \ {a}) \cup {x}] = G[s \ {a}] + w[x]
        BY <1>1, <3>1
      <3>5. (s \ {a}) \cup {x} \in SUBSET E
        BY <3>1
      <3>6. G[s \ {a}] \in Nat /\ G[(s \ {a}) \cup {x}] \in Nat
        BY <1>3, <3>1, <3>5
      <3> HIDE DEF F, E
      <3> DEFINE g == G[s \ {a}]
      <3>7. /\ F[s] = g + w[a] /\ F[s \cup {x}] = (g + w[x]) + w[a]
            /\ g \in Nat /\ w[a] \in Nat /\ w[x] \in Nat
        BY <3>3, <3>4, <3>6
      <3> HIDE DEF g
      <3> QED BY <3>7
    <2> QED BY <2>1, <2>2, <2>3
  <1> HIDE DEF F
  <1>7. IsSum(F, w, D)
    BY <1>4, <1>5, <1>6 DEF IsSum
  <1> QED BY <1>7

\* Every finite set has sums.
LEMMA SumExists ==
  ASSUME NEW D, IsFiniteSet(D), NEW w, \A a \in D : w[a] \in Nat
  PROVE  \E F : IsSum(F, w, D)
  <1> DEFINE T == {s \in SUBSET D : ~\E F : IsSum(F, w, s)}
  <1> SUFFICES ASSUME T # {} PROVE FALSE
    OBVIOUS
  <1>1. PICK s \in T : \A r \in T : ~(r \subseteq s /\ r # s)
    <2>1. T \subseteq SUBSET D
      OBVIOUS
    <2> HIDE DEF T
    <2> QED BY <2>1, LeastSet
  <1>2. s # {}
    <2> DEFINE F == [r \in SUBSET {} |-> 0]
    <2>1. F \in [SUBSET {} -> Nat] /\ F[{}] = 0
      OBVIOUS
    <2>2. IsSum(F, w, {})
      BY <2>1 DEF IsSum
    <2> QED BY <2>2
  <1>3. PICK a \in s : TRUE
    BY <1>2
  <1>4. s \ {a} \notin T /\ s \ {a} \in SUBSET D
    BY <1>1, <1>3
  <1>5. PICK G : IsSum(G, w, s \ {a})
    BY <1>4
  <1>6. \A x \in s : w[x] \in Nat
    OBVIOUS
  <1>7. \E F : IsSum(F, w, s)
    BY <1>3, <1>5, <1>6, SumExtends
  <1> QED BY <1>7

\* One element after another: the recursion that SumFunctionOnSet is defined by.
FoldStep(w, g, s) == IF s = {} THEN 0 ELSE w[CHOOSE x \in s : TRUE] + g[s \ {CHOOSE x \in s : TRUE}]

LEMMA SumDef ==
  ASSUME NEW w, NEW S
  PROVE  SumFunctionOnSet(w, S) = (CHOOSE g : g = [s \in SUBSET S |-> FoldStep(w, g, s)])[S]
  BY DEF SumFunctionOnSet, FoldFunctionOnSet, MapThenFoldSet, FoldStep

\* Sums solve the recursion, and nothing else does.
LEMMA SumFolds ==
  ASSUME NEW D, NEW w, \A a \in D : w[a] \in Nat, NEW F, IsSum(F, w, D)
  PROVE  F = [s \in SUBSET D |-> FoldStep(w, F, s)]
  <1>1. ASSUME NEW s \in SUBSET D PROVE F[s] = FoldStep(w, F, s)
    <2>1. CASE s = {}
      BY <2>1 DEF IsSum, FoldStep
    <2>2. CASE s # {}
      <3> DEFINE x == CHOOSE x \in s : TRUE
      <3>1. x \in s
        BY <2>2
      <3> HIDE DEF x
      <3>2. s \ {x} \in SUBSET D /\ F[s] = F[s \ {x}] + w[x]
        BY <3>1, SumWithout
      <3>3. F[s \ {x}] \in Nat /\ w[x] \in Nat
        BY <3>1, <3>2 DEF IsSum
      <3>4. F[s] = w[x] + F[s \ {x}]
        BY <3>2, <3>3
      <3> QED BY <2>2, <3>4 DEF FoldStep, x
    <2> QED BY <2>1, <2>2
  <1>2. F = [s \in SUBSET D |-> F[s]]
    BY DEF IsSum
  <1> QED BY <1>1, <1>2

LEMMA FoldIsSum ==
  ASSUME NEW D, IsFiniteSet(D), NEW w, \A a \in D : w[a] \in Nat, NEW F, IsSum(F, w, D),
         NEW g, g = [s \in SUBSET D |-> FoldStep(w, g, s)]
  PROVE  g[D] = F[D]
  <1> DEFINE T == {s \in SUBSET D : g[s] # F[s]}
  <1> SUFFICES ASSUME T # {} PROVE FALSE
    OBVIOUS
  <1>1. PICK s \in T : \A r \in T : ~(r \subseteq s /\ r # s)
    <2>1. T \subseteq SUBSET D
      OBVIOUS
    <2> HIDE DEF T
    <2> QED BY <2>1, LeastSet
  <1>2. \A r \in SUBSET D : g[r] = FoldStep(w, g, r)
    OBVIOUS
  <1>3. s # {}
    BY <1>2 DEF IsSum, FoldStep
  <1> DEFINE x == CHOOSE x \in s : TRUE
  <1>4. x \in s /\ s \in SUBSET D
    BY <1>3
  <1>5. g[s] = w[x] + g[s \ {x}]
    BY <1>2, <1>3 DEF FoldStep
  <1> HIDE DEF x
  <1>6. s \ {x} \in SUBSET D /\ F[s] = F[s \ {x}] + w[x]
    BY <1>4, SumWithout
  <1>7. s \ {x} \notin T
    BY <1>1, <1>4
  <1>8. g[s \ {x}] = F[s \ {x}]
    BY <1>6, <1>7
  <1>9. F[s \ {x}] \in Nat /\ w[x] \in Nat
    BY <1>4, <1>6 DEF IsSum
  <1>10. g[s] = F[s]
    BY <1>5, <1>6, <1>8, <1>9
  <1> QED BY <1>10

LEMMA SumIs ==
  ASSUME NEW D, IsFiniteSet(D), NEW w, \A a \in D : w[a] \in Nat, NEW F, IsSum(F, w, D)
  PROVE  SumFunctionOnSet(w, D) = F[D] /\ F[D] \in Nat
  <1> DEFINE g == CHOOSE g : g = [s \in SUBSET D |-> FoldStep(w, g, s)]
  <1>1. g = [s \in SUBSET D |-> FoldStep(w, g, s)]
    BY SumFolds
  <1>2. SumFunctionOnSet(w, D) = g[D]
    BY SumDef
  <1> HIDE DEF g
  <1>3. \A f : f = [s \in SUBSET D |-> FoldStep(w, f, s)] => f[D] = F[D]
    BY FoldIsSum
  <1> QED BY <1>1, <1>2, <1>3 DEF IsSum

\* Nothing weighs nothing.
LEMMA SumEmpty == ASSUME NEW w PROVE SumFunctionOnSet(w, {}) = 0
  <1>1. IsFiniteSet({})
    BY FS_EmptySet
  <1>2. PICK F : IsSum(F, w, {})
    BY <1>1, SumExists
  <1>3. SumFunctionOnSet(w, {}) = F[{}]
    BY <1>1, <1>2, SumIs
  <1> QED BY <1>2, <1>3 DEF IsSum

\* Only the weights of the elements count.
LEMMA SumSame ==
  ASSUME NEW S, IsFiniteSet(S), NEW w, NEW v, \A x \in S : w[x] \in Nat /\ v[x] = w[x]
  PROVE  SumFunctionOnSet(v, S) = SumFunctionOnSet(w, S)
  <1>1. PICK F : IsSum(F, w, S)
    BY SumExists
  <1>2. IsSum(F, v, S)
    BY <1>1 DEF IsSum
  <1>3. SumFunctionOnSet(w, S) = F[S]
    BY <1>1, SumIs
  <1>4. SumFunctionOnSet(v, S) = F[S]
    BY <1>2, SumIs
  <1> QED BY <1>3, <1>4

\* An element more adds its weight, whichever element it is.
LEMMA SumAdd ==
  ASSUME NEW S, IsFiniteSet(S), NEW a, a \notin S, NEW w, \A x \in S \cup {a} : w[x] \in Nat
  PROVE  /\ IsFiniteSet(S \cup {a})
         /\ SumFunctionOnSet(w, S) \in Nat
         /\ SumFunctionOnSet(w, S \cup {a}) = SumFunctionOnSet(w, S) + w[a]
  <1> DEFINE T == S \cup {a}
  <1>1. IsFiniteSet(T)
    BY FS_AddElement
  <1>2. PICK F : IsSum(F, w, T)
    BY <1>1, SumExists
  <1> DEFINE G == [s \in SUBSET S |-> F[s]]
  <1>3. IsSum(G, w, S)
    <2>1. SUBSET S \subseteq SUBSET T /\ S \subseteq T
      OBVIOUS
    <2>2. G \in [SUBSET S -> Nat] /\ G[{}] = 0
      BY <1>2, <2>1 DEF IsSum
    <2>3. ASSUME NEW s \in SUBSET S, NEW x \in S \ s PROVE G[s \cup {x}] = G[s] + w[x]
      <3>1. s \cup {x} \in SUBSET S /\ s \in SUBSET T /\ x \in T \ s
        BY <2>1
      <3>2. F[s \cup {x}] = F[s] + w[x]
        BY <1>2, <3>1 DEF IsSum
      <3> QED BY <3>1, <3>2
    <2> HIDE DEF G
    <2> QED BY <2>2, <2>3 DEF IsSum
  <1>4. SumFunctionOnSet(w, T) = F[T]
    <2> HIDE DEF T
    <2>1. \A x \in T : w[x] \in Nat
      BY DEF T
    <2> QED BY <1>1, <1>2, <2>1, SumIs
  <1>5. G[S] = F[S]
    OBVIOUS
  <1> HIDE DEF G
  <1>6. SumFunctionOnSet(w, S) = G[S] /\ G[S] \in Nat
    BY <1>3, SumIs
  <1>7. F[T] = F[S] + w[a]
    BY <1>2 DEF IsSum
  <1> QED BY <1>1, <1>4, <1>5, <1>6, <1>7

-----------------------------------------------------------------------------
(* The account.                                                             *)

\* No object is swept for more than it was allocated with: what SweepFree
\* takes off leaves the sizes of the others covered.
BudgetInv ==
    /\ IsFiniteSet(Allocated)
    /\ \A a \in Allocated : Sized(heap[a])
    /\ WithinBudget
    /\ AllFollow => Accounting

\* A step that leaves every tag and size alone.
SameSizes == \A b \in Allocated : heap'[b].tag = heap[b].tag /\ heap'[b].size = heap[b].size

\* Sized depends on the tag and the size.
LEMMA SizedSame ==
  ASSUME NEW x, NEW y, x.tag = y.tag, x.size = y.size, Sized(x) PROVE Sized(y)
  BY DEF Sized, Swept, Follows

\* The size of what is allocated.
LEMMA SizesType ==
  ASSUME TypeOK, NEW a \in Allocated
  PROVE  Sizes[a] = heap[a].size /\ Sizes[a] \in Nat
  BY HeapType DEF Sizes, Object

\* A step that neither allocates nor frees nor resizes.
LEMMA BudgetKept ==
  ASSUME BudgetInv, Allocated' = Allocated, used_mem' = used_mem,
         SameSizes
  PROVE  BudgetInv' /\ Sizes' = Sizes
  <1> USE DEF SameSizes
  <1>1. Sizes' = Sizes
    BY DEF Sizes
  <1>2. \A a \in Allocated' : Sized(heap'[a])
    BY SizedSame DEF BudgetInv
  <1> QED BY <1>1, <1>2 DEF BudgetInv, WithinBudget, Accounting, SizeOf

\* An object more: the account grows by its size.
LEMMA BudgetGrows ==
  ASSUME TypeOK, IsFiniteSet(Allocated), NEW v, NEW a, a \notin Allocated, v[a] \in Nat,
         \A b \in Allocated : v[b] = heap[b].size
  PROVE  /\ IsFiniteSet(Allocated \cup {a})
         /\ SizeOf(Allocated) \in Nat
         /\ SumFunctionOnSet(v, Allocated) = SizeOf(Allocated)
         /\ SumFunctionOnSet(v, Allocated \cup {a}) = SizeOf(Allocated) + v[a]
  <1>1. \A b \in Allocated : Sizes[b] \in Nat /\ v[b] = Sizes[b]
    BY SizesType
  <1>2. SumFunctionOnSet(v, Allocated) = SizeOf(Allocated)
    BY <1>1, SumSame DEF SizeOf
  <1>3. \A b \in Allocated \cup {a} : v[b] \in Nat
    BY <1>1
  <1>4. /\ IsFiniteSet(Allocated \cup {a})
        /\ SumFunctionOnSet(v, Allocated) \in Nat
        /\ SumFunctionOnSet(v, Allocated \cup {a}) = SumFunctionOnSet(v, Allocated) + v[a]
    BY <1>3, SumAdd
  <1> QED BY <1>2, <1>4

\* alloc_raw.
LEMMA RawBudget ==
  ASSUME Inv, BudgetInv, pc # "sweep", shadow_stack' = shadow_stack,
         NEW a \in Addr, NEW tag \in TagWord, NEW bytes \in Nat, NEW data \in Seq(AnyEnum),
         Tags(data) \cap Addr \subseteq Reach, alloc_raw(a, tag, bytes, data), Fits(bytes),
         NEW x, x.tag = tag, x.size = bytes, Sized(x)
  PROVE  BudgetInv'
  <1>1. /\ Allocated' = Allocated \cup {a} /\ a \notin Allocated
        /\ \A b \in Allocated : heap'[b] = heap[b]
    BY RawAdds
  <1>2. heap'[a].tag = tag /\ heap'[a].size = bytes /\ used_mem' = used_mem + bytes
    BY DEF alloc_raw, Inv, TypeOK
  <1>3. Sizes'[a] = bytes /\ \A b \in Allocated : Sizes'[b] = heap[b].size
    BY <1>1, <1>2 DEF Sizes
  <1>4. /\ IsFiniteSet(Allocated') /\ SizeOf(Allocated) \in Nat
        /\ SizeOf(Allocated)' = SizeOf(Allocated) + bytes
    <2>1. /\ IsFiniteSet(Allocated') /\ SizeOf(Allocated) \in Nat
          /\ SumFunctionOnSet(Sizes', Allocated') = SizeOf(Allocated) + bytes
      BY <1>1, <1>3, BudgetGrows DEF Inv, BudgetInv
    <2> QED BY <2>1 DEF SizeOf
  <1>5. /\ SizeOf(Allocated) <= used_mem /\ used_mem \in Int /\ Size \in Nat
        /\ Size - used_mem >= bytes /\ (AllFollow => used_mem = SizeOf(Allocated))
    BY HeapAssumption DEF Inv, TypeOK, BudgetInv, WithinBudget, Accounting, Fits
  <1>6. WithinBudget' /\ (AllFollow => Accounting')
    BY <1>2, <1>4, <1>5 DEF WithinBudget, Accounting
  <1>7. \A b \in Allocated' : Sized(heap'[b])
    <2>1. Sized(heap'[a])
      BY <1>2, SizedSame
    <2> QED BY <1>1, <2>1 DEF BudgetInv
  <1> QED BY <1>4, <1>6, <1>7 DEF BudgetInv

\* alloc_object: two objects, the second one of a fixed size.
LEMMA ObjectBudget ==
  ASSUME Inv, BudgetInv, pc # "sweep", shadow_stack' = shadow_stack,
         NEW d \in Addr, NEW o \in Addr, NEW tag \in TagWord, NEW bytes \in Nat,
         NEW data \in Seq(AnyEnum),
         Tags(data) \cap Addr \subseteq Reach, alloc_object(d, o, tag, bytes, data),
         Fits(bytes + ObjectSize),
         NEW x, x.tag = tag, x.size = bytes, Sized(x)
  PROVE  BudgetInv'
  <1>1. /\ Allocated' = Allocated \cup {d, o} /\ d \notin Allocated /\ o \notin Allocated /\ d # o
        /\ \A b \in Allocated : heap'[b] = heap[b]
    BY ObjectAdds
  <1>2. /\ heap'[d].tag = tag /\ heap'[d].size = bytes
        /\ heap'[o].tag = ObjectPtrTag /\ heap'[o].size = ObjectSize
        /\ used_mem' = used_mem + bytes + ObjectSize
    BY <1>1 DEF alloc_object, Inv, TypeOK
  <1>3. /\ Sizes'[d] = bytes /\ Sizes'[o] = ObjectSize /\ ObjectSize \in Nat
        /\ \A b \in Allocated : Sizes'[b] = heap[b].size
    BY <1>1, <1>2, ObjectPtrSize DEF Sizes
  <1>4. /\ IsFiniteSet(Allocated \cup {d}) /\ SizeOf(Allocated) \in Nat
        /\ SumFunctionOnSet(Sizes', Allocated \cup {d}) = SizeOf(Allocated) + bytes
    BY <1>1, <1>3, BudgetGrows DEF Inv, BudgetInv
  <1>5. \A b \in (Allocated \cup {d}) \cup {o} : Sizes'[b] \in Nat
    BY <1>3, SizesType DEF Inv, Sizes
  <1>6. o \notin Allocated \cup {d} /\ Allocated' = (Allocated \cup {d}) \cup {o}
    BY <1>1
  <1>7. /\ IsFiniteSet(Allocated')
        /\ SizeOf(Allocated)' = SumFunctionOnSet(Sizes', Allocated \cup {d}) + ObjectSize
    BY <1>3, <1>4, <1>5, <1>6, SumAdd DEF SizeOf
  <1>8. /\ SizeOf(Allocated) <= used_mem /\ used_mem \in Int /\ Size \in Nat
        /\ Size - used_mem >= bytes + ObjectSize /\ (AllFollow => used_mem = SizeOf(Allocated))
    BY HeapAssumption DEF Inv, TypeOK, BudgetInv, WithinBudget, Accounting, Fits
  <1>9. WithinBudget' /\ (AllFollow => Accounting')
    BY <1>2, <1>3, <1>4, <1>7, <1>8 DEF WithinBudget, Accounting
  <1>10. \A b \in Allocated' : Sized(heap'[b])
    <2>1. Sized(heap'[d])
      BY <1>2, SizedSame
    <2>2. Sized(heap'[o])
      BY <1>2, ObjectPtrSize
    <2> QED BY <1>1, <2>1, <2>2 DEF BudgetInv
  <1> QED BY <1>7, <1>9, <1>10 DEF BudgetInv

\* sweep_phase takes off no more than alloc_raw added, and just that where the
\* tag tells the size.
LEMMA SweepFreeBudget ==
  ASSUME Inv, BudgetInv, SweepFree
  PROVE  BudgetInv'
  <1> DEFINE h == Head(to)
             n == Swept(heap[h])
  <1>1. h \in Addr /\ h \in Allocated
    BY PopFront DEF SweepFree, Inv, TypeOK, ListInv
  <1>2. heap' = [heap EXCEPT ![h] = None] /\ used_mem' = used_mem - n
    BY DEF SweepFree
  <1> HIDE DEF h
  <1>3. heap'[h] = None /\ \A b \in Addr \ {h} : heap'[b] = heap[b]
    BY <1>1, <1>2 DEF Inv, TypeOK
  <1> DEFINE S == Allocated'
  <1>4. S = Allocated \ {h}
    BY <1>1, <1>3 DEF Allocated
  <1>5. S \cup {h} = Allocated /\ h \notin S /\ IsFiniteSet(S)
    BY <1>1, <1>4, FS_Subset DEF BudgetInv
  <1>6. \A b \in S : /\ Sizes'[b] = Sizes[b] /\ Sizes[b] \in Nat
                     /\ Sized(heap'[b])
    <2> SUFFICES ASSUME NEW b \in S
                 PROVE  Sizes'[b] = Sizes[b] /\ Sizes[b] \in Nat /\ Sized(heap'[b])
      OBVIOUS
    <2>1. b \in Allocated /\ heap'[b] = heap[b]
      BY <1>3, <1>4 DEF Allocated
    <2>2. Sized(heap'[b])
      BY <2>1 DEF BudgetInv
    <2> QED BY <2>1, <2>2, SizesType DEF Inv, Sizes
  <1>7. /\ Sizes[h] \in Nat /\ n \in Nat /\ n <= Sizes[h]
        /\ (AllFollow => n = Sizes[h])
    <2>1. Sizes[h] = heap[h].size /\ Sizes[h] \in Nat
      BY <1>1, SizesType DEF Inv
    <2>2. heap[h].tag \in TagWord
      BY <1>1, HeapType DEF Inv, Object
    <2>3. n \in Nat
      BY <2>2, SweptType
    <2>4. Sized(heap[h])
      BY <1>1 DEF BudgetInv
    <2> QED BY <2>1, <2>3, <2>4 DEF Sized, Follows
  <1> HIDE DEF S, n
  <1>8. /\ SumFunctionOnSet(Sizes, S) \in Nat
        /\ SumFunctionOnSet(Sizes, S \cup {h}) = SumFunctionOnSet(Sizes, S) + Sizes[h]
    BY <1>5, <1>6, <1>7, SumAdd
  <1>9. SumFunctionOnSet(Sizes', S) = SumFunctionOnSet(Sizes, S)
    BY <1>5, <1>6, SumSame
  <1>10. /\ SizeOf(Allocated) = SumFunctionOnSet(Sizes, S) + Sizes[h]
         /\ SizeOf(Allocated)' = SumFunctionOnSet(Sizes, S)
    BY <1>5, <1>8, <1>9 DEF SizeOf, S
  <1>11. /\ SizeOf(Allocated) <= used_mem /\ used_mem <= Size /\ used_mem \in Int /\ Size \in Nat
         /\ (AllFollow => used_mem = SizeOf(Allocated))
    BY HeapAssumption DEF BudgetInv, WithinBudget, Accounting, Inv, TypeOK
  <1>12. WithinBudget' /\ (AllFollow => Accounting')
    BY <1>2, <1>7, <1>8, <1>10, <1>11 DEF WithinBudget, Accounting
  <1> QED BY <1>5, <1>6, <1>12 DEF BudgetInv, S

\* The mark bit has no part in the tag's type or the size.
LEMMA MarkBit ==
  ASSUME Inv, NEW h \in Allocated, NEW m, heap' = [heap EXCEPT ![h].marked = m]
  PROVE  SameSizes
  <1> DEFINE o == [heap[h] EXCEPT !.marked = m]
  <1>1. heap[h] \in Object
    BY HeapType DEF Inv
  <1>2. o.tag = heap[h].tag /\ o.size = heap[h].size
    BY <1>1 DEF Object
  <1>3. heap' = [heap EXCEPT ![h] = o]
    OBVIOUS
  <1> HIDE DEF o
  <1> QED BY <1>2, <1>3 DEF Inv, TypeOK, Allocated, SameSizes

\* Both outcomes of an attempt: what is added to the list is added to the account.
LEMMA AttemptBudget ==
  ASSUME Inv, BudgetInv, pc \in {"run", "retry"}, NEW r, Safe(r), AllocOk(r) \/ AllocFails(r),
         shadow_stack' = shadow_stack
  PROVE  BudgetInv'
  <1>1. pc # "sweep" /\ F64TypeOK /\ next_slot < LEN
    BY DEF Inv, TypeOK, F64Inv
  <1>2. r.op \in {"alloc", "object"} =>
           /\ r.tag \in TagWord /\ r.size \in Nat /\ r.data \in Seq(AnyEnum)
           /\ Tags(r.data) \cap Addr \subseteq Reach /\ Sized(r)
    BY RequestType DEF Safe
  <1>3. CASE heap' = heap /\ used_mem' = used_mem
    BY <1>3, BudgetKept DEF Allocated, SameSizes
  <1>4. CASE /\ r.op \in {"alloc", "object"} /\ Fits(r.size)
             /\ \E a \in Addr : alloc_raw(a, r.tag, r.size, r.data)
    BY <1>1, <1>2, <1>4, RawBudget
  <1>5. CASE /\ r.op = "object" /\ Fits(r.size + ObjectSize)
             /\ \E d, o \in Addr : alloc_object(d, o, r.tag, r.size, r.data)
    BY <1>1, <1>2, <1>5, ObjectBudget
  <1>6. CASE /\ r.op = "f64" /\ F64AllocSome(r.val) /\ used_mem' = used_mem
             /\ heap' = [heap EXCEPT ![r.at].data[r.cell] = F64Next(r.val)]
    <2>1. r.at \in Allocated /\ r.cell \in DOMAIN heap[r.at].data /\ r.val \in Val
      BY <1>6, RequestType, InvNoDangling DEF Safe, Allocated, NoDangling
    <2>2. F64Next(r.val) \in AnyEnum
      BY <1>1, <1>6, <2>1, F64SomeType
    <2>3. Allocated' = Allocated /\ SameSizes
      BY <1>6, <2>1, <2>2, CellUpdate DEF SameSizes
    <2> QED BY <1>6, <2>3, BudgetKept
  <1>7. CASE AllocOk(r)
    <2>1. CASE r.op = "alloc"
      BY <1>4, <1>7, <2>1 DEF AllocOk
    <2>2. CASE r.op = "object"
      BY <1>5, <1>7, <2>2 DEF AllocOk
    <2>3. CASE r.op = "f64"
      BY <1>6, <1>7, <2>3 DEF AllocOk
    <2> QED BY <1>7, <2>1, <2>2, <2>3 DEF AllocOk
  <1>8. CASE AllocFails(r)
    BY <1>3, <1>4, <1>8 DEF AllocFails, heap_vars
  <1> QED BY <1>7, <1>8

\* Every step keeps the account.
LEMMA BudgetStep ==
  ASSUME Inv, BudgetInv, [Next]_vars
  PROVE  BudgetInv'
  <1> USE DEF heap_vars
  <1>0. CASE UNCHANGED <<heap, used_mem>>
    BY <1>0, BudgetKept DEF Allocated, SameSizes
  <1>1. CASE \E v \in Storable, a \in Writable : \E i \in DOMAIN heap[a].data : Write(a, i, v)
    <2>1. PICK v \in Storable, a \in Writable : \E i \in DOMAIN heap[a].data : Write(a, i, v)
      BY <1>1
    <2>2. PICK i \in DOMAIN heap[a].data : Write(a, i, v)
      BY <2>1
    <2>3. v \in AnyEnum /\ a \in Allocated /\ heap' = [heap EXCEPT ![a].data[i] = v] /\ used_mem' = used_mem
      BY <2>2, StorableType DEF Writable, Write
    <2>4. Allocated' = Allocated /\ SameSizes
      BY <2>3, CellUpdate DEF SameSizes
    <2> QED BY <2>3, <2>4, BudgetKept
  <1>2. CASE \E r \in Wanted : alloc_or_gc(r)
    <2>1. PICK r \in Wanted : alloc_or_gc(r)
      BY <1>2
    <2>2. Safe(r) /\ shadow_stack' = shadow_stack /\ pc = "run" /\ (AllocOk(r) \/ AllocFails(r))
      BY <2>1, WantedSafe DEF alloc_or_gc
    <2> QED BY <2>2, AttemptBudget
  <1>3. CASE Client /\ ~(\E r \in Wanted : alloc_or_gc(r))
             /\ ~(\E v \in Storable, a \in Writable : \E i \in DOMAIN heap[a].data : Write(a, i, v))
    BY <1>0, <1>3 DEF Client, push_shadow_frame, pop_shadow_frame, set_in_current_shadow_frame_slot,
                      set_in_shadow_frame_slot, Stack, run_gc
  <1>4. CASE \E root \in current_roots : MarkObject(root)
    <2>1. PICK root \in current_roots : MarkObject(root)
      BY <1>4
    <2>2. root \in Allocated /\ Allocated' = Allocated
      BY <2>1, MarkObjectHeap
    <2>3. used_mem' = used_mem /\ SameSizes
      BY <2>1, <2>2, MarkBit DEF MarkObject
    <2> QED BY <2>2, <2>3, BudgetKept
  <1>5. CASE \E c \in f64s : CopyF64(c[1], c[2])
    <2>1. PICK c \in f64s : CopyF64(c[1], c[2])
      BY <1>5
    <2>2. used_mem' = used_mem
      BY <2>1 DEF CopyF64
    <2>3. CASE heap' = heap
      BY <1>0, <2>2, <2>3
    <2>4. CASE Allocated' = Allocated /\ SameSizes
      BY <2>2, <2>4, BudgetKept
    <2> QED BY <2>1, <2>3, <2>4, CopyF64Heap DEF SameSizes
  <1>6. CASE SweepKeep
    <2>1. Head(to) \in Allocated
      BY <1>6, PopFront DEF SweepKeep, Inv, TypeOK, ListInv
    <2>2. used_mem' = used_mem /\ SameSizes
      BY <1>6, <2>1, MarkBit DEF SweepKeep
    <2> QED BY <1>6, <2>2, SweepKeepHeap, BudgetKept
  <1>7. CASE SweepFree
    BY <1>7, SweepFreeBudget
  <1>8. CASE Retry
    <2>1. pc = "retry" /\ shadow_stack' = shadow_stack /\ Safe(req)
      BY <1>8 DEF Retry, Inv, ReqInv, Waiting
    <2> QED BY <1>0, <1>8, <2>1, AttemptBudget DEF Retry
  <1>9. CASE Collect /\ ~Retry /\ ~SweepFree /\ ~SweepKeep /\ ~(\E c \in f64s : CopyF64(c[1], c[2]))
             /\ ~(\E root \in current_roots : MarkObject(root))
    BY <1>0, <1>9 DEF Collect, gc, MarkSkip, MarkStatic, CopyDone, SwapRoots, SweepDone
  <1>10. CASE UNCHANGED vars
    BY <1>0, <1>10 DEF vars
  <1> QED BY <1>1, <1>2, <1>3, <1>4, <1>5, <1>6, <1>7, <1>8, <1>9, <1>10 DEF Next, Trapped

\* What is allocated is finite, and used_mem covers it.
THEOREM BudgetIsKept == Spec => []BudgetInv
  <1>1. Init => BudgetInv
    <2> SUFFICES ASSUME Init PROVE BudgetInv
      OBVIOUS
    <2>1. Allocated = {} /\ used_mem = 0
      BY DEF Init, Allocated
    <2>2. SizeOf(Allocated) = 0 /\ IsFiniteSet(Allocated)
      BY <2>1, SumEmpty, FS_EmptySet DEF SizeOf
    <2> QED BY <2>1, <2>2, HeapAssumption DEF BudgetInv, WithinBudget, Accounting
  <1>2. Inv /\ BudgetInv /\ [Next]_vars => BudgetInv'
    BY BudgetStep
  <1> QED BY <1>1, <1>2, Invariance, PTL DEF Spec

\* For every set of shapes, float references included, used_mem is never less
\* than what is allocated and never more than the budget, also half-way through
\* a sweep or between the halves of an object: what sweep_phase works out from
\* the tags takes off too little, never too much.
THEOREM BudgetHolds == Spec => []WithinBudget
  <1>1. BudgetInv => WithinBudget
    BY DEF BudgetInv
  <1> QED BY <1>1, BudgetIsKept, PTL

\* Without float references used_mem is exact at every step: what sweep_phase
\* works out from the tag of each object is what alloc_raw added for it.
THEOREM AccountIsExact == ASSUME AllFollow PROVE Spec => []Accounting
  <1>1. BudgetInv => Accounting
    BY DEF BudgetInv
  <1> QED BY <1>1, BudgetIsKept, PTL

-----------------------------------------------------------------------------
(* Out of memory.                                                           *)

\* The second attempt finds no garbage.
TidyInv == pc = "retry" => Allocated \subseteq Reach

\* The second attempt is made in the state the sweep left.
LEMMA TidyStep ==
  ASSUME Inv, TightInv, TidyInv, [Next]_vars
  PROVE  TidyInv'
  <1> SUFFICES ASSUME pc' = "retry" PROVE Allocated' \subseteq Reach'
    BY DEF TidyInv
  <1>1. CASE SweepDone
    <2>1. Reach' = Reach /\ Allocated' = Allocated
      BY <1>1, SameGraph DEF SweepDone
    <2>2. Range(<<>>) = {}
      BY DEF Range
    <2>3. Allocated \subseteq Live
      BY <1>1, <2>2 DEF SweepDone, Inv, ListInv, Live
    <2> QED BY <1>1, <2>1, <2>3 DEF SweepDone, TightInv
  <1>2. CASE UNCHANGED vars
    <2>1. Reach' = Reach /\ Allocated' = Allocated /\ pc' = pc
      BY <1>2, SameGraph DEF vars, heap_vars
    <2> QED BY <2>1 DEF TidyInv
  <1>3. CASE Client
    BY <1>3 DEF Client, push_shadow_frame, pop_shadow_frame, set_in_current_shadow_frame_slot,
                set_in_shadow_frame_slot, Stack, Write, alloc_or_gc, run_gc
  <1>4. CASE Collect /\ ~SweepDone
    BY <1>4 DEF Collect, gc, MarkSkip, MarkObject, MarkStatic, CopyF64, CopyDone, SwapRoots,
                SweepKeep, SweepFree, Retry
  <1> QED BY <1>1, <1>2, <1>3, <1>4 DEF Next, Trapped

\* After a refused second attempt the program reaches what it reached before:
\* the half of an object that may stay behind is out of its reach.
LEMMA RefusedReach ==
  ASSUME Inv, TidyInv, pc = "retry", AllocFails(req), shadow_stack' = shadow_stack
  PROVE  /\ Reach' = Allocated
         /\ \A b \in Allocated : b \in Allocated' /\ heap'[b] = heap[b]
  <1>1. Reach = Allocated
    BY InvNoDangling DEF TidyInv, NoDangling, Allocated, Reach, ReachFrom
  <1>2. CASE heap' = heap
    BY <1>1, <1>2, SameGraph
  <1>3. CASE req.op = "object" /\ \E a \in Addr : alloc_raw(a, req.tag, req.size, req.data)
    <2>1. PICK a \in Addr : alloc_raw(a, req.tag, req.size, req.data)
      BY <1>3
    <2>2. /\ req.tag \in TagWord /\ req.size \in Nat /\ req.data \in Seq(AnyEnum)
          /\ Tags(req.data) \cap Addr \subseteq Reach
      BY <1>3, RequestType DEF Inv, ReqInv, Waiting, Safe
    <2>3. /\ Allocated' = Allocated \cup {a} /\ Roots' = Roots /\ Reach \subseteq Reach'
          /\ \A b \in Allocated : heap'[b] = heap[b]
      BY <2>1, <2>2, RawAdds
    <2>4. Allocated \subseteq Addr /\ Closed(Roots, Allocated)
      BY DEF Inv, ClosedInv, Allocated
    <2>5. \A S \in SUBSET Addr : S = Allocated => Closed(Roots, S)'
      BY <2>3, <2>4 DEF Closed
    <2>6. Reach' \subseteq Allocated
      BY <2>4, <2>5 DEF Reach, ReachFrom
    <2> QED BY <1>1, <2>3, <2>6
  <1> QED BY <1>2, <1>3 DEF AllocFails, heap_vars

\* A step into the trap, or in it.
LEMMA OomStep ==
  ASSUME AllFollow, Inv, BudgetInv, TidyInv, OomOnlyWhenFull, [Next]_vars
  PROVE  OomOnlyWhenFull'
  <1> SUFFICES ASSUME pc' = "oom" PROVE SizeOf(Reach)' + Need' > Size
    BY DEF OomOnlyWhenFull
  <1>1. CASE UNCHANGED vars
    <2>1. Reach' = Reach /\ Sizes' = Sizes /\ req' = req /\ pc' = pc
      BY <1>1, SameGraph DEF vars, heap_vars, Sizes, Allocated
    <2> QED BY <2>1 DEF OomOnlyWhenFull, SizeOf, Need
  <1>2. CASE Retry
    <2>1. /\ pc = "retry" /\ AllocFails(req) /\ shadow_stack' = shadow_stack /\ req' = req
          /\ req.op # "f64"
      BY <1>2 DEF Retry
    <2>2. /\ Reach' = Allocated
          /\ \A b \in Allocated : b \in Allocated' /\ heap'[b] = heap[b]
      BY <2>1, RefusedReach
    <2>3. \A b \in Allocated : Sizes[b] \in Nat /\ Sizes'[b] = Sizes[b]
      BY <2>2, SizesType DEF Inv, Sizes
    <2>4. SumFunctionOnSet(Sizes', Allocated) = SumFunctionOnSet(Sizes, Allocated)
      BY <2>3, SumSame DEF BudgetInv
    <2>5. SizeOf(Reach)' = used_mem
      BY <2>2, <2>4 DEF SizeOf, BudgetInv, Accounting
    <2>6. used_mem \in Int /\ Size \in Nat /\ ObjectSize \in Nat /\ req.size \in Nat
      BY <2>1, HeapAssumption, ObjectPtrSize, RequestType DEF Inv, TypeOK, ReqInv, Waiting, Safe, AllocFails
    <2>7. Need' > Size - used_mem
      BY <2>1, <2>6 DEF Need, AllocFails, Fits
    <2>8. Need' \in Nat
      BY <2>1, <2>6 DEF Need
    <2>9. PICK n \in Nat : n = Need'
      BY <2>8
    <2>10. n > Size - used_mem
      BY <2>7, <2>9
    <2>11. used_mem + n > Size
      BY <2>6, <2>10
    <2> QED BY <2>5, <2>9, <2>11
  <1>3. CASE Client
    BY <1>3 DEF Client, push_shadow_frame, pop_shadow_frame, set_in_current_shadow_frame_slot,
                set_in_shadow_frame_slot, Stack, Write, alloc_or_gc, run_gc
  <1>4. CASE Collect /\ ~Retry
    BY <1>4 DEF Collect, gc, MarkSkip, MarkObject, MarkStatic, CopyF64, CopyDone, SwapRoots,
                SweepKeep, SweepFree, SweepDone
  <1> QED BY <1>1, <1>2, <1>3, <1>4 DEF Next, Trapped

\* Without float references alloc_or_gc gives up only when what the program can
\* reach leaves no room for the request: neither garbage, nor a half object, nor
\* a collection that frees too little, nor a wrong account is the reason.
THEOREM OomMeansFull == ASSUME AllFollow PROVE Spec => []OomOnlyWhenFull
  <1>1. Init => TidyInv /\ OomOnlyWhenFull
    BY DEF Init, TidyInv, OomOnlyWhenFull
  <1>2. Inv /\ TightInv /\ BudgetInv /\ TidyInv /\ OomOnlyWhenFull /\ [Next]_vars
           => TidyInv' /\ OomOnlyWhenFull'
    BY TidyStep, OomStep
  <1> QED BY <1>1, <1>2, Invariance, MarksOnlyReachable, BudgetIsKept, PTL DEF Spec

-----------------------------------------------------------------------------
(* A collection ends.  Each step of it makes GcLeft smaller, in the         *)
(* lexicographic order on four numbers, which is well-founded.  That they   *)
(* are numbers needs the vectors of the mark phase to be finite.            *)

FiniteInv == IsFiniteSet(current_roots) /\ IsFiniteSet(new_roots) /\ IsFiniteSet(f64s)

\* The image of a finite set.
LEMMA ImageFinite ==
  ASSUME NEW S, IsFiniteSet(S), NEW f
  PROVE  IsFiniteSet({f[x] : x \in S})
  <1> DEFINE T == {f[x] : x \in S}
             g == [x \in S |-> f[x]]
  <1>1. g \in Surjection(S, T)
    BY DEF Surjection
  <1> HIDE DEF T, g
  <1> QED BY <1>1, FS_Surjection DEF T

LEMMA IndicesFinite ==
  ASSUME NEW S, NEW s \in Seq(S)
  PROVE  IsFiniteSet(DOMAIN s)
  <1>1. DOMAIN s = 1 .. Len(s) /\ 1 \in Int /\ Len(s) \in Int
    OBVIOUS
  <1> QED BY <1>1, FS_Interval

LEMMA RangeFinite ==
  ASSUME NEW S, NEW s \in Seq(S)
  PROVE  IsFiniteSet(Range(s))
  BY IndicesFinite, ImageFinite DEF Range

\* The slots of all frames, the pointers of an object and its floats.
LEMMA RootsFinite == ASSUME TypeOK PROVE IsFiniteSet(Roots)
  <1> DEFINE f == [i \in DOMAIN shadow_stack |-> Range(shadow_stack[i])]
             F == {f[i] : i \in DOMAIN shadow_stack}
             R == {Range(shadow_stack[i]) : i \in DOMAIN shadow_stack}
  <1>1. F = R
    OBVIOUS
  <1>2. shadow_stack \in Seq(Seq(Tag \cup {None}))
    BY DEF TypeOK
  <1>3. IsFiniteSet(F)
    <2>1. IsFiniteSet(DOMAIN shadow_stack)
      BY <1>2, IndicesFinite
    <2> HIDE DEF f
    <2> QED BY <2>1, ImageFinite
  <1>4. \A r \in R : IsFiniteSet(r)
    <2> SUFFICES ASSUME NEW i \in DOMAIN shadow_stack
                 PROVE  IsFiniteSet(Range(shadow_stack[i]))
      OBVIOUS
    <2>1. shadow_stack[i] \in Seq(Tag \cup {None})
      BY <1>2
    <2> QED BY <2>1, RangeFinite
  <1> HIDE DEF F
  <1>5. IsFiniteSet(R)
    BY <1>1, <1>3
  <1> HIDE DEF R
  <1>6. IsFiniteSet(UNION R)
    BY <1>4, <1>5, FS_UNION
  <1>7. Roots \in SUBSET UNION R
    BY DEF Roots, R
  <1> QED BY <1>6, <1>7, FS_Subset

LEMMA TagsFinite ==
  ASSUME NEW data \in Seq(AnyEnum)
  PROVE  IsFiniteSet(Tags(data))
  <1> DEFINE f == [i \in DOMAIN data |-> data[i].to]
  <1>1. PtrCells(data) \in SUBSET DOMAIN data
    BY DEF PtrCells
  <1>2. IsFiniteSet(PtrCells(data))
    BY <1>1, IndicesFinite, FS_Subset
  <1>3. Tags(data) = {f[i] : i \in PtrCells(data)}
    BY <1>1 DEF Tags
  <1> HIDE DEF f
  <1> QED BY <1>2, <1>3, ImageFinite

LEMMA FloatsFinite ==
  ASSUME NEW data \in Seq(AnyEnum), NEW a
  PROVE  IsFiniteSet({<<a, i>> : i \in F64Cells(data)})
  <1> DEFINE f == [i \in DOMAIN data |-> <<a, i>>]
  <1>1. F64Cells(data) \in SUBSET DOMAIN data
    BY DEF F64Cells
  <1>2. IsFiniteSet(F64Cells(data))
    BY <1>1, IndicesFinite, FS_Subset
  <1>3. {<<a, i>> : i \in F64Cells(data)} = {f[i] : i \in F64Cells(data)}
    BY <1>1
  <1> HIDE DEF f
  <1> QED BY <1>2, <1>3, ImageFinite

LEMMA FiniteStep ==
  ASSUME Inv, FiniteInv, [Next]_vars
  PROVE  FiniteInv'
  <1>1. CASE gc
    BY <1>1, RootsFinite DEF gc, Inv, FiniteInv
  <1>2. ASSUME NEW root \in current_roots, MarkSkip(root) \/ MarkStatic(root) PROVE FiniteInv'
    <2>1. IsFiniteSet(current_roots \ {root})
      BY FS_RemoveElement DEF FiniteInv
    <2> QED BY <1>2, <2>1 DEF MarkSkip, MarkStatic, FiniteInv
  <1>3. ASSUME NEW root \in current_roots, MarkObject(root) PROVE FiniteInv'
    <2>1. root \in Allocated
      BY <1>3 DEF MarkObject
    <2>2. heap[root].data \in Seq(AnyEnum)
      BY <2>1, HeapType DEF Inv, Object
    <2>3. IsFiniteSet(current_roots \ {root})
      BY FS_RemoveElement DEF FiniteInv
    <2>4. IsFiniteSet(new_roots \cup Tags(heap[root].data))
      BY <2>2, TagsFinite, FS_Union DEF FiniteInv
    <2>5. IsFiniteSet({<<root, i>> : i \in F64Cells(heap[root].data)})
      BY <2>2, FloatsFinite
    <2> QED BY <1>3, <2>3, <2>4, <2>5 DEF MarkObject, FiniteInv
  <1>4. ASSUME NEW c \in f64s, CopyF64(c[1], c[2]) PROVE FiniteInv'
    <2>1. IsFiniteSet(f64s \ {<<c[1], c[2]>>})
      BY FS_RemoveElement DEF FiniteInv
    <2> QED BY <1>4, <2>1 DEF CopyF64, FiniteInv
  <1>5. CASE SwapRoots
    BY <1>5, FS_EmptySet DEF SwapRoots, FiniteInv
  <1>6. CASE UNCHANGED mark_vars
    BY <1>6 DEF mark_vars, FiniteInv
  <1>7. CASE CopyDone \/ SweepKeep \/ SweepFree \/ SweepDone \/ Retry
    BY <1>6, <1>7 DEF CopyDone, SweepKeep, SweepFree, SweepDone, Retry
  <1>8. CASE Client
    BY <1>6, <1>8 DEF Client, push_shadow_frame, pop_shadow_frame,
       set_in_current_shadow_frame_slot, set_in_shadow_frame_slot, Stack, Write,
       alloc_or_gc, run_gc
  <1>9. CASE UNCHANGED vars
    BY <1>6, <1>9 DEF vars, mark_vars
  <1> QED BY <1>1, <1>2, <1>3, <1>4, <1>5, <1>7, <1>8, <1>9 DEF Next, Collect, Trapped

\* An earlier number decides.
LEMMA Lex ==
  ASSUME NEW a \in Nat, NEW b \in Nat, NEW c \in Nat, NEW d \in Nat,
         NEW p \in Nat, NEW q \in Nat, NEW r \in Nat, NEW s \in Nat,
         \/ a < p
         \/ a = p /\ b < q
         \/ a = p /\ b = q /\ c < r
         \/ a = p /\ b = q /\ c = r /\ d < s
  PROVE  /\ <<a, b, c, d>> \in Lefts /\ <<p, q, r, s>> \in Lefts
         /\ LexLess(<<a, b, c, d>>, <<p, q, r, s>>)
  <1>1. <<a, b, c, d>> \in Lefts /\ <<p, q, r, s>> \in Lefts
    BY DEF Lefts
  <1>2. LexLess(<<a, b, c, d>>, <<p, q, r, s>>)
    <2>1. CASE a < p
      <3>1. 1 .. (1 - 1) = {}
        OBVIOUS
      <3> QED BY <2>1, <3>1 DEF LexLess
    <2>2. CASE a = p /\ b < q
      <3>1. 1 .. (2 - 1) = {1}
        OBVIOUS
      <3> QED BY <2>2, <3>1 DEF LexLess
    <2>3. CASE a = p /\ b = q /\ c < r
      <3>1. 1 .. (3 - 1) = {1, 2}
        OBVIOUS
      <3> QED BY <2>3, <3>1 DEF LexLess
    <2>4. CASE a = p /\ b = q /\ c = r /\ d < s
      <3>1. 1 .. (4 - 1) = {1, 2, 3}
        OBVIOUS
      <3> QED BY <2>4, <3>1 DEF LexLess
    <2> QED BY <2>1, <2>2, <2>3, <2>4
  <1> QED BY <1>1, <1>2

\* What was done in a step is no longer left.
Advances == GcLeft \in Lefts /\ GcLeft' \in Lefts /\ LexLess(GcLeft', GcLeft)

\* The numbers of a state of the mark phase.
LEMMA MarkNumbers ==
  ASSUME BudgetInv, FiniteInv
  PROVE  /\ Cardinality(Allocated \ Marked) \in Nat
         /\ Cardinality(new_roots) \in Nat
         /\ Cardinality(current_roots) \in Nat
         /\ Cardinality(f64s) \in Nat
         /\ IsFiniteSet(Allocated \ Marked)
  <1>1. IsFiniteSet(Allocated \ Marked)
    BY FS_Difference DEF BudgetInv
  <1> QED BY <1>1, FS_CardinalityType DEF FiniteInv

LEMMA MarkNumbersNext ==
  ASSUME BudgetInv', FiniteInv'
  PROVE  /\ Cardinality(Allocated \ Marked)' \in Nat
         /\ Cardinality(new_roots)' \in Nat
         /\ Cardinality(current_roots)' \in Nat
         /\ Cardinality(f64s)' \in Nat
  <1>1. IsFiniteSet((Allocated \ Marked)')
    <2>1. IsFiniteSet(Allocated')
      BY DEF BudgetInv
    <2> QED BY <2>1, FS_Difference
  <1> QED BY <1>1, FS_CardinalityType DEF FiniteInv

LEMMA PhaseEnds ==
  ASSUME Inv, BudgetInv, FiniteInv, BudgetInv', FiniteInv',
         gc \/ SweepDone \/ Retry
  PROVE  Advances
  <1>1. CASE gc
    <2> DEFINE b == Cardinality(Allocated \ Marked)'
               c == (2 * Cardinality(new_roots) + Cardinality(current_roots))'
    <2>1. pc = "gc" /\ pc' = "mark"
      BY <1>1 DEF gc
    <2>2. b \in Nat /\ Cardinality(new_roots)' \in Nat /\ Cardinality(current_roots)' \in Nat
      BY MarkNumbersNext
    <2>3. c \in Nat
      BY <2>2
    <2>4. GcLeft = <<4, 0, 0, 0>>
      BY <2>1 DEF GcLeft
    <2>5. GcLeft' = <<3, b, c, 0>>
      BY <2>1 DEF GcLeft
    <2> HIDE DEF b, c
    <2>6. b \in Nat /\ c \in Nat
      BY <2>2, <2>3
    <2> QED BY <2>4, <2>5, <2>6, Lex DEF Advances
  <1>2. CASE SweepDone
    <2>1. pc = "sweep" /\ pc' = "retry" /\ Len(to) \in Nat
      BY <1>2 DEF SweepDone, Inv, TypeOK
    <2>2. GcLeft = <<2, Len(to), 0, 0>>
      BY <2>1 DEF GcLeft
    <2>3. GcLeft' = <<1, 0, 0, 0>>
      BY <2>1 DEF GcLeft
    <2> QED BY <2>1, <2>2, <2>3, Lex DEF Advances
  <1>3. CASE Retry
    <2>1. pc = "retry" /\ pc' \in {"run", "oom", "oom_f64"}
      BY <1>3 DEF Retry
    <2>2. GcLeft = <<1, 0, 0, 0>>
      BY <2>1 DEF GcLeft
    <2>3. GcLeft' = <<0, 0, 0, 0>>
      BY <2>1 DEF GcLeft
    <2> QED BY <2>2, <2>3, Lex DEF Advances
  <1> QED BY <1>1, <1>2, <1>3

\* A tag is taken from the vector; nothing else of what is left changes.
LEMMA TagTaken ==
  ASSUME Inv, BudgetInv, FiniteInv, NEW root \in current_roots,
         MarkSkip(root) \/ MarkStatic(root)
  PROVE  Advances
  <1> DEFINE b == Cardinality(Allocated \ Marked)
             n == Cardinality(new_roots)
             k == Cardinality(current_roots)
  <1>1. /\ pc = "mark" /\ pc' = "mark" /\ heap' = heap /\ new_roots' = new_roots
        /\ current_roots' = current_roots \ {root}
    BY DEF MarkSkip, MarkStatic, heap_vars
  <1>2. b \in Nat /\ n \in Nat /\ k \in Nat
    BY MarkNumbers
  <1>3. Cardinality(current_roots') = k - 1 /\ k - 1 \in Nat
    <2>1. Cardinality(current_roots \ {root}) = k - 1 /\ IsFiniteSet(current_roots \ {root})
      BY FS_RemoveElement DEF FiniteInv
    <2> QED BY <1>1, <2>1, FS_CardinalityType
  <1>4. Cardinality(Allocated \ Marked)' = b /\ Cardinality(new_roots') = n
    BY <1>1 DEF Allocated, Marked
  <1>5. GcLeft = <<3, b, 2 * n + k, 0>>
    BY <1>1 DEF GcLeft
  <1>6. GcLeft' = <<3, b, 2 * n + (k - 1), 0>>
    <2>1. GcLeft' = <<3, Cardinality(Allocated \ Marked)',
                      2 * Cardinality(new_roots') + Cardinality(current_roots'), 0>>
      BY <1>1 DEF GcLeft
    <2> QED BY <1>3, <1>4, <2>1
  <1> HIDE DEF b, n, k
  <1>7. 2 * n + k \in Nat /\ 2 * n + (k - 1) \in Nat /\ 2 * n + (k - 1) < 2 * n + k
    BY <1>2, <1>3
  <1> QED BY <1>2, <1>5, <1>6, <1>7, Lex DEF Advances

\* An object is marked: it never will be again in this collection.
LEMMA ObjectMarked ==
  ASSUME Inv, BudgetInv, FiniteInv, BudgetInv', FiniteInv', NEW root \in current_roots,
         MarkObject(root)
  PROVE  Advances
  <1> DEFINE b == Cardinality(Allocated \ Marked)
             bb == Cardinality(Allocated \ Marked)'
             c == 2 * Cardinality(new_roots) + Cardinality(current_roots)
             cc == (2 * Cardinality(new_roots) + Cardinality(current_roots))'
             dd == 1 + Cardinality(f64s)'
  <1>1. pc = "mark" /\ pc' = "copy" /\ root \in Allocated \ Marked
    BY DEF MarkObject
  <1>2. b \in Nat /\ c \in Nat /\ IsFiniteSet(Allocated \ Marked)
    BY MarkNumbers
  <1>3. bb \in Nat /\ Cardinality(new_roots)' \in Nat /\ Cardinality(current_roots)' \in Nat
        /\ Cardinality(f64s)' \in Nat
    BY MarkNumbersNext
  <1>4. (Allocated \ Marked)' = (Allocated \ Marked) \ {root}
    <2>1. /\ Allocated' = Allocated /\ Marked' = Marked \cup {root}
      BY MarkObjectHeap
    <2> QED BY <2>1
  <1>5. bb = b - 1
    BY <1>1, <1>2, <1>4, FS_RemoveElement
  <1>6. GcLeft = <<3, b, c, 0>>
    BY <1>1 DEF GcLeft
  <1>7. GcLeft' = <<3, bb, cc, dd>>
    BY <1>1 DEF GcLeft
  <1>8. cc \in Nat /\ dd \in Nat
    BY <1>3
  <1> HIDE DEF b, bb, c, cc, dd
  <1>9. bb \in Nat /\ bb < b
    BY <1>2, <1>3, <1>5
  <1> QED BY <1>2, <1>6, <1>7, <1>8, <1>9, Lex DEF Advances

\* A float is copied, or the last one has been.
LEMMA FloatCopied ==
  ASSUME Inv, BudgetInv, FiniteInv, NEW c \in f64s, CopyF64(c[1], c[2])
  PROVE  Advances
  <1> DEFINE b == Cardinality(Allocated \ Marked)
             q == 2 * Cardinality(new_roots) + Cardinality(current_roots)
             k == Cardinality(f64s)
  <1>1. b \in Nat /\ q \in Nat /\ k \in Nat
    BY MarkNumbers
  <1>2. pc = "copy" /\ current_roots' = current_roots /\ new_roots' = new_roots
    BY DEF CopyF64
  <1>3. GcLeft = <<3, b, q, 1 + k>>
    BY <1>2 DEF GcLeft
  <1>4. CASE pc' = "oom_copy"
    <2>1. GcLeft' = <<0, 0, 0, 0>>
      BY <1>4 DEF GcLeft
    <2> HIDE DEF b, q, k
    <2>2. 1 + k \in Nat
      BY <1>1
    <2> QED BY <1>1, <1>3, <2>1, <2>2, Lex, SMTT(40) DEF Advances
  <1>5. CASE pc' # "oom_copy"
    <2>1. pc' = "copy" /\ <<c[1], c[2]>> \in f64s /\ f64s' = f64s \ {<<c[1], c[2]>>}
      BY <1>2, <1>5 DEF CopyF64
    <2>2. Cardinality(f64s') = k - 1
      <3> DEFINE e == <<c[1], c[2]>>
      <3>1. e \in f64s /\ f64s' = f64s \ {e}
        BY <2>1
      <3> HIDE DEF e
      <3> QED BY <3>1, FS_RemoveElement DEF FiniteInv
    <2>3. k - 1 \in Nat
      <3>1. k # 0
        BY <2>1, FS_EmptySet DEF FiniteInv
      <3> QED BY <1>1, <3>1
    <2>4. Allocated' = Allocated /\ Marked' = Marked
      BY <1>5, CopyF64Heap
    <2>5. GcLeft' = <<3, b, q, 1 + (k - 1)>>
      <3>1. GcLeft' = <<3, Cardinality(Allocated' \ Marked'),
                        2 * Cardinality(new_roots') + Cardinality(current_roots'),
                        1 + Cardinality(f64s')>>
        BY <2>1 DEF GcLeft
      <3> QED BY <1>2, <2>2, <2>4, <3>1
    <2> HIDE DEF b, q, k
    <2>6. 1 + k \in Nat /\ 1 + (k - 1) \in Nat /\ 1 + (k - 1) < 1 + k
      BY <1>1, <2>3
    <2> QED BY <1>1, <1>3, <2>5, <2>6, Lex DEF Advances
  <1> QED BY <1>4, <1>5

LEMMA CopyEnds ==
  ASSUME Inv, BudgetInv, FiniteInv, CopyDone
  PROVE  Advances
  <1> DEFINE b == Cardinality(Allocated \ Marked)
             q == 2 * Cardinality(new_roots) + Cardinality(current_roots)
             k == Cardinality(f64s)
  <1>1. b \in Nat /\ q \in Nat /\ k \in Nat
    BY MarkNumbers
  <1>2. /\ pc = "copy" /\ pc' = "mark" /\ heap' = heap
        /\ current_roots' = current_roots /\ new_roots' = new_roots
    BY DEF CopyDone, heap_vars, mark_vars
  <1>3. GcLeft = <<3, b, q, 1 + k>>
    BY <1>2 DEF GcLeft
  <1>4. GcLeft' = <<3, b, q, 0>>
    BY <1>2 DEF GcLeft, Allocated, Marked
  <1> HIDE DEF b, q, k
  <1>5. 1 + k \in Nat /\ 0 < 1 + k
    BY <1>1
  <1> QED BY <1>1, <1>3, <1>4, <1>5, Lex DEF Advances

\* The vectors are swapped: each queued tag is now to be taken once.
LEMMA VectorsSwapped ==
  ASSUME Inv, BudgetInv, FiniteInv, SwapRoots
  PROVE  Advances
  <1> DEFINE b == Cardinality(Allocated \ Marked)
             n == Cardinality(new_roots)
  <1>1. b \in Nat /\ n \in Nat
    BY MarkNumbers
  <1>2. /\ pc = "mark" /\ current_roots = {} /\ heap' = heap
        /\ current_roots' = new_roots /\ new_roots' = {} /\ to' = to
    BY DEF SwapRoots, heap_vars
  <1>3. Cardinality({}) = 0
    BY FS_EmptySet
  <1>4. GcLeft = <<3, b, 2 * n + 0, 0>>
    BY <1>2, <1>3 DEF GcLeft
  <1>5. CASE new_roots = {}
    <2>1. pc' = "sweep"
      BY <1>5 DEF SwapRoots
    <2>2. GcLeft' = <<2, Len(to), 0, 0>>
      BY <1>2, <2>1 DEF GcLeft
    <2>3. Len(to) \in Nat /\ 2 * n + 0 \in Nat
      BY <1>1 DEF Inv, TypeOK
    <2> HIDE DEF b, n
    <2> QED BY <1>1, <1>4, <2>2, <2>3, Lex, SMTT(40) DEF Advances
  <1>6. CASE new_roots # {}
    <2>1. pc' = "mark"
      BY <1>6 DEF SwapRoots
    <2>2. n # 0
      BY <1>6, FS_EmptySet DEF FiniteInv
    <2>3. GcLeft' = <<3, b, 2 * 0 + n, 0>>
      <3>1. GcLeft' = <<3, Cardinality(Allocated \ Marked)',
                        2 * Cardinality(new_roots') + Cardinality(current_roots'), 0>>
        BY <2>1 DEF GcLeft
      <3>2. Cardinality(Allocated \ Marked)' = b
        BY <1>2 DEF Allocated, Marked
      <3> QED BY <1>2, <1>3, <3>1, <3>2
    <2> HIDE DEF b, n
    <2>4. 2 * n + 0 \in Nat /\ 2 * 0 + n \in Nat /\ 2 * 0 + n < 2 * n + 0
      BY <1>1, <2>2
    <2> QED BY <1>1, <1>4, <2>3, <2>4, Lex DEF Advances
  <1> QED BY <1>5, <1>6

\* The cursor of the sweep steps on.
LEMMA ItemSwept ==
  ASSUME Inv, SweepKeep \/ SweepFree
  PROVE  Advances
  <1>1. pc = "sweep" /\ pc' = "sweep" /\ to # <<>> /\ to' = Tail(to) /\ to \in Seq(Addr)
    BY DEF SweepKeep, SweepFree, Inv, TypeOK
  <1>2. Len(to) \in Nat /\ Len(to') \in Nat /\ Len(to') < Len(to)
    BY <1>1
  <1>3. GcLeft = <<2, Len(to), 0, 0>>
    BY <1>1 DEF GcLeft
  <1>4. GcLeft' = <<2, Len(to'), 0, 0>>
    BY <1>1 DEF GcLeft
  <1> QED BY <1>2, <1>3, <1>4, Lex DEF Advances

\* Heap::gc ends for every object graph: each step of a collection leaves less
\* to do in a well-founded order.  (That there is a next step, and that it is
\* taken, is the fairness of FairSpec.)
THEOREM GcShrinks == Spec => GcAdvances
  <1>1. Init => FiniteInv
    BY FS_EmptySet DEF Init, FiniteInv
  <1>2. Inv /\ FiniteInv /\ [Next]_vars => FiniteInv'
    BY FiniteStep
  <1>3. Spec => []FiniteInv
    BY <1>1, <1>2, Invariance, PTL DEF Spec
  <1>4. ASSUME Inv, BudgetInv, FiniteInv, BudgetInv', FiniteInv', [Next]_vars
        PROVE  [pc \notin {"run"} \cup Panics =>
                  GcLeft \in Lefts /\ GcLeft' \in Lefts /\ LexLess(GcLeft', GcLeft)]_vars
    <2> SUFFICES ASSUME Next, pc \notin {"run"} \cup Panics PROVE Advances
      BY <1>4 DEF Advances
    <2>1. Collect
      BY DEF Next, Client, Trapped
    <2> QED BY <1>4, <2>1, PhaseEnds, TagTaken, ObjectMarked, FloatCopied, CopyEnds,
               VectorsSwapped, ItemSwept DEF Collect
  <1> QED BY <1>3, <1>4, Invariance, BudgetIsKept, PTL DEF GcAdvances, Spec
=============================================================================
