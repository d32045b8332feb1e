---------------------------- MODULE HeapRefinement ----------------------------
(***************************************************************************)
(* The heap implements what HeapSpec promises to a program, for every heap *)
(* and every program: each step of Heap is a step of HeapSpec or leaves    *)
(* the program's view alone.  Only the moment a collection begins changes  *)
(* what the program sees of it, and only by the pointer in its hand.       *)
(*                                                                         *)
(* The view reads floats through the float heap.  ViewInv, which follows   *)
(* from the invariants of HeapProofs and CollectorProofs, says that it     *)
(* depends on the cells alone; the argument is then about graphs: the set  *)
(* that HeapSpec calls visible, defined over the objects the program knew, *)
(* is the set the pointers of the new state reach.                         *)
(***************************************************************************)
EXTENDS CollectorProofs

\* What the program holds, and a cell as the program sees it.
Pointers == Roots \cup ({hand} \ {None})
Shown(c) == IF c.k = "f64" THEN [k |-> "num", val |-> c.val] ELSE c
ShownData(data) == [i \in DOMAIN data |-> Shown(data[i])]

ViewInv ==
    /\ Sees = ReachFrom(Pointers)
    /\ Mem = [a \in Sees |-> ShownData(heap[a].data)]

-----------------------------------------------------------------------------
(* The view.                                                                *)

\* Nothing the program holds or reaches is missing, and its floats are intact.
LEMMA InvView ==
  ASSUME Inv, FloatInv
  PROVE  ViewInv
  <1>1. Allocated \subseteq Addr /\ Live \subseteq Allocated
    BY LiveAllocated DEF Allocated, Inv
  <1>3. ReachFrom(Pointers) \subseteq Allocated
    <2>1. CASE pc # "sweep"
      <3>1. Closed(Pointers, Allocated)
        BY <2>1, HeapAssumption DEF Inv, ClosedInv, HandInv, Closed, Pointers
      <3> QED BY <1>1, <3>1 DEF ReachFrom
    <2>2. CASE pc = "sweep"
      <3>1. hand = None /\ Closed(Roots, Live)
        BY <2>2 DEF Inv, HandInv, SweepInv
      <3>2. Pointers = Roots
        BY <3>1 DEF Pointers
      <3> QED BY <1>1, <3>1, <3>2 DEF ReachFrom
    <2> QED BY <2>1, <2>2
  <1>4. Sees = ReachFrom(Pointers)
    BY <1>3 DEF Sees, Pointers
  <1>5. ASSUME NEW a \in Sees, NEW i \in F64Cells(heap[a].data)
        PROVE  F64Read(heap[a].data[i]) = heap[a].data[i].val
    <2>1. a \in Allocated
      BY <1>3, <1>4
    <2>2. CASE pc = "run"
      BY <2>1, <2>2 DEF FloatInv, CellInv, AllFresh, FreshData, FreshAt, F64Read
    <2>3. CASE pc # "run"
      <3>1. Pointers = Roots
        BY <2>3 DEF Pointers, Inv, HandInv
      <3>2. a \in Reach
        BY <1>4, <3>1 DEF Reach
      <3> QED BY <2>1, <3>2, FloatIntact DEF F64Intact
    <2> QED BY <2>2, <2>3
  <1>6. ASSUME NEW a \in Sees PROVE Contents(a) = ShownData(heap[a].data)
    BY <1>5 DEF Contents, ShownData, Shown, F64Cells
  <1> QED BY <1>4, <1>6 DEF ViewInv, Mem

\* The program sees the pointers of an object as the collector does.
LEMMA ShownTargets ==
  ASSUME NEW data
  PROVE  Program!Targets(ShownData(data)) = Tags(data) /\ DOMAIN ShownData(data) = DOMAIN data
  <1>1. DOMAIN ShownData(data) = DOMAIN data /\ \A i \in DOMAIN data : ShownData(data)[i] = Shown(data[i])
    BY DEF ShownData
  <1>2. \A c : Shown(c).k = "ptr" <=> c.k = "ptr"
    BY DEF Shown
  <1>3. \A c : c.k = "ptr" => Shown(c) = c
    BY DEF Shown
  <1> QED BY <1>1, <1>2, <1>3 DEF Program!Targets, Tags, PtrCells

\* What HeapSpec calls visible, for objects m that are closed in the new state
\* and hold its pointers, is what those pointers reach.
LEMMA VisibleIsReach ==
  ASSUME NEW m, DOMAIN m \subseteq Allocated',
         Pointers' \cap Addr \subseteq DOMAIN m,
         \A b \in DOMAIN m : /\ Program!Targets(m[b]) = Tags(heap'[b].data)
                             /\ Tags(heap'[b].data) \cap Addr \subseteq DOMAIN m
  PROVE  Program!Visible(shadow_stack', hand', m) = ReachFrom(Pointers)'
  <1> DEFINE D == DOMAIN m
  <1>1. Program!Rooted(shadow_stack', hand') = Pointers'
    BY DEF Program!Rooted, Program!Range, Range, Pointers, Roots
  <1>2. D \subseteq Addr
    BY DEF Allocated
  <1> DEFINE Hull(S) == /\ Pointers' \cap D \subseteq S
                        /\ \A b \in S : Program!Targets(m[b]) \cap D \subseteq S
             V == {a \in D : \A S \in SUBSET D : Hull(S) => a \in S}
  <1>3. Program!Visible(shadow_stack', hand', m) = V
    BY <1>1 DEF Program!Visible
  <1>4. ReachFrom(Pointers)' = {a \in Addr : \A S \in SUBSET Addr : Closed(Pointers, S)' => a \in S}
    BY DEF ReachFrom
  <1>5. \A S \in SUBSET Addr : Closed(Pointers, S)' => Hull(S \cap D)
    BY <1>2 DEF Closed
  <1>6. \A S \in SUBSET D : Hull(S) => Closed(Pointers, S)'
    BY <1>2 DEF Closed
  <1>7. Closed(Pointers, D)'
    BY <1>2 DEF Closed
  <1> HIDE DEF Hull
  <1>8. ASSUME NEW a \in V PROVE a \in ReachFrom(Pointers)'
    BY <1>2, <1>4, <1>5
  <1>9. ASSUME NEW a \in ReachFrom(Pointers)' PROVE a \in V
    <2>1. a \in D
      BY <1>2, <1>4, <1>7
    <2> QED BY <1>2, <1>4, <1>6, <2>1
  <1> QED BY <1>3, <1>8, <1>9

\* The new view, for a step after which the objects m are as the heap has them.
LEMMA NewView ==
  ASSUME ViewInv', NEW m, DOMAIN m \subseteq Allocated',
         Pointers' \cap Addr \subseteq DOMAIN m,
         \A b \in DOMAIN m : /\ m[b] = ShownData(heap'[b].data)
                             /\ Tags(heap'[b].data) \cap Addr \subseteq DOMAIN m
  PROVE  Mem' = Program!View(shadow_stack', hand', m)
  <1>1. \A b \in DOMAIN m : Program!Targets(m[b]) = Tags(heap'[b].data)
    BY ShownTargets
  <1>2. Program!Visible(shadow_stack', hand', m) = ReachFrom(Pointers)'
    BY <1>1, VisibleIsReach
  <1>3. Sees' = ReachFrom(Pointers)' /\ Mem' = [a \in Sees' |-> ShownData(heap'[a].data)]
    BY DEF ViewInv
  <1>4. Sees' \subseteq DOMAIN m
    <2>1. Program!Visible(shadow_stack', hand', m) \subseteq DOMAIN m
      BY DEF Program!Visible
    <2> QED BY <1>2, <1>3, <2>1
  <1>5. Program!View(shadow_stack', hand', m) = [a \in Sees' |-> m[a]]
    BY <1>2, <1>3 DEF Program!View, Program!Restrict
  <1> QED BY <1>3, <1>4, <1>5

\* What the program sees and knows.
LEMMA SeesFacts ==
  ASSUME Inv, ViewInv
  PROVE  /\ DOMAIN Mem = Sees /\ Program!Known = Sees \cup Static
         /\ Sees \subseteq Allocated /\ Sees \subseteq Addr
         /\ Pointers \cap Addr \subseteq Sees /\ Reach \subseteq Sees /\ hand \in Sees \cup {None}
         /\ \A b \in Sees : Mem[b] = ShownData(heap[b].data) /\ Tags(heap[b].data) \cap Addr \subseteq Sees
  <1>1. DOMAIN Mem = Sees /\ \A b \in Sees : Mem[b] = ShownData(heap[b].data)
    BY DEF ViewInv
  <1>2. Program!Known = Sees \cup Static
    BY <1>1 DEF Program!Known
  <1>3. Sees \subseteq Allocated /\ Sees \subseteq Addr
    BY DEF Sees, Allocated
  <1>4. Closed(Pointers, Sees)
    BY ReachClosed DEF ViewInv
  <1>5. Pointers \cap Addr \subseteq Sees /\ \A b \in Sees : Tags(heap[b].data) \cap Addr \subseteq Sees
    BY <1>3, <1>4 DEF Closed
  <1>6. hand \in Sees \cup {None}
    BY <1>5 DEF Inv, TypeOK, Pointers
  <1>7. Reach \subseteq Sees
    <2>1. Closed(Roots, Sees)
      BY <1>4 DEF Closed, Pointers
    <2> QED BY <1>3, <2>1, ReachLeast
  <1> QED BY <1>1, <1>2, <1>3, <1>5, <1>6, <1>7

\* A step that keeps the program's pointers and its objects leaves its view
\* alone: it may mark, move floats, free or add what the program does not see.
LEMMA ViewKept ==
  ASSUME Inv, ViewInv, ViewInv', shadow_stack' = shadow_stack, hand' = hand,
         \A b \in Sees : /\ b \in Allocated' /\ Tags(heap'[b].data) = Tags(heap[b].data)
                         /\ ShownData(heap'[b].data) = ShownData(heap[b].data)
  PROVE  Mem' = Mem
  <1>1. Pointers' = Pointers
    BY DEF Pointers, Roots
  <1>2. /\ Sees \subseteq Allocated /\ Sees \subseteq Addr /\ Pointers \cap Addr \subseteq Sees
        /\ \A b \in Sees : Tags(heap[b].data) \cap Addr \subseteq Sees
    BY SeesFacts
  <1>3. Sees' \subseteq Sees
    <2>1. \A x \in ReachFrom(Pointers)' : \A S \in SUBSET Addr : Closed(Pointers, S)' => x \in S
      BY DEF ReachFrom
    <2>2. ASSUME NEW D \in SUBSET Addr, D = Sees PROVE Sees' \subseteq D
      <3>1. Closed(Pointers, D)'
        BY <1>1, <1>2, <2>2 DEF Closed
      <3> QED BY <2>1, <3>1 DEF ViewInv
    <2> QED BY <1>2, <2>2
  <1>4. Sees \subseteq Sees'
    <2> SUFFICES ASSUME NEW x \in Sees, NEW S \in SUBSET Addr, Closed(Pointers, S)'
                 PROVE  x \in S
      BY <1>2 DEF ViewInv, ReachFrom
    <2>1. Closed(Pointers, S \cap Sees)
      BY <1>1, <1>2 DEF Closed
    <2> QED BY <1>2, <2>1 DEF ViewInv, ReachFrom
  <1>5. Sees' = Sees
    BY <1>3, <1>4
  <1> QED BY <1>5 DEF ViewInv

\* The two shapes of a step of the program: it goes on, or it starts a collection.
LEMMA GoesOn ==
  ASSUME pc \in {"run", "retry"}, pc' = "run", NEW m, Mem' = Program!View(shadow_stack', hand', m)
  PROVE  Program!Goes(shadow_stack', hand', m)
  BY DEF Program!Goes, Program!Becomes, Panics

\* The collection begins.
LEMMA CollectBegins ==
  ASSUME Inv, ViewInv, ViewInv', pc = "run", pc' = "gc", hand' = None, shadow_stack' = shadow_stack,
         \A b \in Allocated : b \in Allocated' /\ heap'[b] = heap[b]
  PROVE  Program!Collect
  <1>1. /\ DOMAIN Mem = Sees /\ Sees \subseteq Allocated /\ Pointers \cap Addr \subseteq Sees
        /\ \A b \in Sees : Mem[b] = ShownData(heap[b].data) /\ Tags(heap[b].data) \cap Addr \subseteq Sees
    BY SeesFacts
  <1>2. Pointers' \subseteq Pointers
    BY DEF Pointers, Roots
  <1>3. Mem' = Program!View(shadow_stack', hand', Mem)
    BY <1>1, <1>2, NewView
  <1> QED BY <1>3 DEF Program!Collect, Program!Becomes, Panics

-----------------------------------------------------------------------------
(* The steps of the client.                                                 *)

\* A change of the shadow stack whose roots the program knew.
LEMMA StackView ==
  ASSUME Inv, ViewInv, ViewInv', NEW s, Stack(s), Roots' \cap Addr \subseteq Sees
  PROVE  Program!Goes(s, hand, Mem)
  <1>1. pc = "run" /\ pc' = "run" /\ shadow_stack' = s /\ hand' = hand /\ heap' = heap
    BY DEF Stack, heap_vars
  <1>2. /\ DOMAIN Mem = Sees /\ Sees \subseteq Allocated /\ Pointers \cap Addr \subseteq Sees
        /\ \A b \in Sees : Mem[b] = ShownData(heap[b].data) /\ Tags(heap[b].data) \cap Addr \subseteq Sees
    BY SeesFacts
  <1>3. Allocated' = Allocated /\ Pointers' \cap Addr \subseteq Sees
    BY <1>1, <1>2 DEF Allocated, Pointers
  <1>4. Mem' = Program!View(shadow_stack', hand', Mem)
    BY <1>1, <1>2, <1>3, NewView
  <1>5. Program!Goes(shadow_stack', hand', Mem)
    BY <1>1, <1>4, GoesOn
  <1> QED BY <1>1, <1>5

\* push_shadow_frame.
LEMMA PushView ==
  ASSUME Inv, ViewInv, ViewInv', NEW n \in 1 .. FrameSlots, push_shadow_frame(n)
  PROVE  Program!Push(n)
  <1> DEFINE f == [i \in 1 .. n |-> None]
             s == Append(shadow_stack, f)
  <1>1. Stack(s) /\ shadow_stack' = s /\ shadow_stack \in Seq(Seq(Tag \cup {None}))
    BY DEF push_shadow_frame, Stack, Inv, TypeOK
  <1>2. Roots' \subseteq Roots
    <2> SUFFICES ASSUME NEW i \in DOMAIN s, NEW j \in DOMAIN s[i], s[i][j] # None
                 PROVE  s[i][j] \in Roots
      BY <1>1 DEF Roots, Range
    <2>1. i \in 1 .. Len(shadow_stack) \/ i = Len(shadow_stack) + 1
      BY <1>1
    <2>2. CASE i \in 1 .. Len(shadow_stack)
      BY <1>1, <2>2 DEF Roots, Range
    <2>3. CASE i = Len(shadow_stack) + 1
      BY <1>1, <2>3
    <2> QED BY <2>1, <2>2, <2>3
  <1>3. Program!Goes(s, hand, Mem)
    BY <1>1, <1>2, SeesFacts, StackView DEF Pointers
  <1> QED BY <1>3 DEF Program!Push

\* pop_shadow_frame.
LEMMA PopView ==
  ASSUME Inv, ViewInv, ViewInv', pop_shadow_frame
  PROVE  Program!Pop
  <1> DEFINE s == SubSeq(shadow_stack, 1, Len(shadow_stack) - 1)
  <1>1. shadow_stack \in Seq(Seq(Tag \cup {None})) /\ shadow_stack # <<>> /\ Stack(s) /\ shadow_stack' = s
    BY DEF Inv, TypeOK, pop_shadow_frame, Stack
  <1>2. /\ DOMAIN s \subseteq DOMAIN shadow_stack
        /\ \A i \in DOMAIN s : s[i] = shadow_stack[i]
    BY <1>1
  <1>3. Roots' \subseteq Roots
    BY <1>1, <1>2 DEF Roots
  <1>4. Program!Goes(s, hand, Mem)
    BY <1>1, <1>3, SeesFacts, StackView DEF Pointers
  <1> QED BY <1>1, <1>4 DEF Program!Pop

\* The setters of the shadow stack.
LEMMA SetSlotView ==
  ASSUME Inv, ViewInv, ViewInv', NEW ptr \in Holdable \cup {None}, NEW frame, NEW slot,
         set_in_shadow_frame_slot(frame, slot, ptr)
  PROVE  /\ frame \in DOMAIN shadow_stack /\ slot \in DOMAIN shadow_stack[frame]
         /\ ptr \in Program!Known \cup {None}
         /\ Program!Root(frame, slot, ptr)
  <1> DEFINE s == [shadow_stack EXCEPT ![frame][slot] = ptr]
  <1>1. /\ frame \in DOMAIN shadow_stack /\ slot \in DOMAIN shadow_stack[frame]
        /\ Stack(s) /\ shadow_stack' = s /\ shadow_stack \in Seq(Seq(Tag \cup {None}))
    BY DEF set_in_shadow_frame_slot, Stack, Inv, TypeOK
  <1>2. ptr \in Sees \cup Static \cup {None}
    BY SeesFacts DEF Holdable
  <1>3. Roots' \subseteq Roots \cup ({ptr} \ {None})
    <2> SUFFICES ASSUME NEW i \in DOMAIN shadow_stack, NEW j \in DOMAIN s[i], s[i][j] # None
                 PROVE  s[i][j] \in Roots \cup ({ptr} \ {None})
      BY <1>1 DEF Roots, Range
    <2>1. DOMAIN s[i] = DOMAIN shadow_stack[i] /\ (s[i][j] = ptr \/ s[i][j] = shadow_stack[i][j])
      BY <1>1
    <2> QED BY <2>1 DEF Roots, Range
  <1>4. Roots' \cap Addr \subseteq Sees
    BY <1>2, <1>3, SeesFacts, HeapAssumption DEF Pointers
  <1>5. Program!Goes(s, hand, Mem)
    BY <1>1, <1>4, StackView
  <1> QED BY <1>1, <1>2, <1>5, SeesFacts DEF Program!Root

\* What the client stores, as the program sees it.
LEMMA ShownCells ==
  ASSUME Inv, ViewInv, NEW c \in AnyEnum, c.k = "ptr" => c.to \in Sees \cup Static
  PROVE  Shown(c) \in Program!Cells
  <1>1. Program!Known = Sees \cup Static
    BY SeesFacts
  <1>2. CASE c.k = "f64"
    <2>1. c.val \in Val
      BY <1>2, F64Fields
    <2> QED BY <1>2, <2>1 DEF Shown, Program!Cells, Program!Num
  <1>3. CASE c.k = "ptr"
    <2>1. c = PtrTo(c.to)
      BY <1>3 DEF AnyEnum, Imm, PtrTo
    <2> QED BY <1>1, <1>3, <2>1 DEF Shown, Program!Cells, Program!PtrTo, PtrTo
  <1>4. CASE c.k # "f64" /\ c.k # "ptr"
    <2>1. c = Imm
      BY <1>4 DEF AnyEnum
    <2> QED BY <1>4, <2>1 DEF Shown, Program!Cells, Program!Imm, Imm
  <1> QED BY <1>2, <1>3, <1>4

\* A store into one cell of the data is a store into what is shown of them.
LEMMA ShownUpdate ==
  ASSUME NEW data \in Seq(AnyEnum), NEW i \in DOMAIN data, NEW c
  PROVE  ShownData([data EXCEPT ![i] = c]) = [ShownData(data) EXCEPT ![i] = Shown(c)]
  <1> DEFINE d == [data EXCEPT ![i] = c]
  <1>1. DOMAIN d = DOMAIN data /\ \A j \in DOMAIN data : d[j] = IF j = i THEN c ELSE data[j]
    OBVIOUS
  <1> HIDE DEF d
  <1>2. ShownData(d) = [j \in DOMAIN data |-> Shown(IF j = i THEN c ELSE data[j])]
    BY <1>1 DEF ShownData
  <1>3. [ShownData(data) EXCEPT ![i] = Shown(c)] = [j \in DOMAIN data |-> IF j = i THEN Shown(c) ELSE Shown(data[j])]
    BY DEF ShownData
  <1> QED BY <1>2, <1>3 DEF d

\* One cell of an object the program sees is replaced.
LEMMA StoreView ==
  ASSUME Inv, ViewInv, ViewInv', pc \in {"run", "retry"}, pc' = "run",
         shadow_stack' = shadow_stack, hand' = hand,
         NEW a \in Sees, NEW i \in DOMAIN heap[a].data, NEW c \in AnyEnum,
         c.k = "ptr" => c.to \in Sees \cup Static,
         heap' = [heap EXCEPT ![a].data[i] = c]
  PROVE  /\ a \in DOMAIN Mem /\ i \in DOMAIN Mem[a] /\ Shown(c) \in Program!Cells
         /\ Program!Store(a, i, Shown(c))
  <1>1. /\ DOMAIN Mem = Sees /\ Sees \subseteq Allocated /\ Pointers \cap Addr \subseteq Sees
        /\ \A b \in Sees : Mem[b] = ShownData(heap[b].data) /\ Tags(heap[b].data) \cap Addr \subseteq Sees
    BY SeesFacts
  <1>2. /\ heap'[a].data = [heap[a].data EXCEPT ![i] = c]
        /\ Allocated' = Allocated
        /\ \A b \in Allocated \ {a} : heap'[b] = heap[b]
    <2>1. a \in Allocated
      BY <1>1
    <2> QED BY <2>1, CellUpdate
  <1>3. heap[a].data \in Seq(AnyEnum)
    BY <1>1, HeapType DEF Inv, Object
  <1>4. i \in DOMAIN Mem[a]
    BY <1>1, ShownTargets
  <1> DEFINE m == [Mem EXCEPT ![a][i] = Shown(c)]
  <1>5. DOMAIN m = Sees /\ \A b \in Sees : m[b] = IF b = a THEN [Mem[a] EXCEPT ![i] = Shown(c)] ELSE Mem[b]
    BY <1>1
  <1> HIDE DEF m
  <1>6. m[a] = ShownData(heap'[a].data)
    BY <1>1, <1>2, <1>3, <1>5, ShownUpdate
  <1>7. Tags(heap'[a].data) \cap Addr \subseteq Sees
    <2>1. Tags([heap[a].data EXCEPT ![i] = c]) \subseteq Tags(heap[a].data) \cup (IF c.k = "ptr" THEN {c.to} ELSE {})
      BY <1>3, TagsUpdate
    <2> QED BY <1>1, <1>2, <2>1, HeapAssumption
  <1>8. \A b \in DOMAIN m : m[b] = ShownData(heap'[b].data) /\ Tags(heap'[b].data) \cap Addr \subseteq DOMAIN m
    BY <1>1, <1>2, <1>5, <1>6, <1>7
  <1>9. Pointers' = Pointers
    BY DEF Pointers, Roots
  <1>10. Mem' = Program!View(shadow_stack', hand', m)
    BY <1>1, <1>2, <1>5, <1>8, <1>9, NewView
  <1>11. Program!Goes(shadow_stack', hand', m)
    BY <1>10, GoesOn
  <1>12. Program!Goes(shadow_stack, hand, m)
    BY <1>11
  <1>13. Program!Store(a, i, Shown(c))
    BY <1>12 DEF Program!Store, m
  <1> QED BY <1>1, <1>4, <1>13, ShownCells

\* The client's own stores.
LEMMA WriteView ==
  ASSUME Inv, ViewInv, ViewInv', NEW v \in Storable, NEW a \in Writable, NEW i \in DOMAIN heap[a].data,
         Write(a, i, v)
  PROVE  Program!Next
  <1>1. /\ Holdable \subseteq Sees \cup Static \cup {None} /\ a \in Sees
    BY SeesFacts, HeapAssumption DEF Holdable, Writable, Allocated
  <1>2. v \in AnyEnum
    BY StorableType
  <1>3. v.k = "ptr" => v.to \in Sees \cup Static
    BY SeesFacts DEF Storable, Imm, PtrTo, Holdable
  <1>4. /\ pc = "run" /\ pc' = "run" /\ shadow_stack' = shadow_stack /\ hand' = hand
        /\ heap' = [heap EXCEPT ![a].data[i] = v]
    BY DEF Write
  <1>5. /\ a \in DOMAIN Mem /\ i \in DOMAIN Mem[a] /\ Shown(v) \in Program!Cells
        /\ Program!Store(a, i, Shown(v))
    BY <1>1, <1>2, <1>3, <1>4, StoreView
  <1> QED BY <1>5 DEF Program!Next

\* Objects N appear, all of them reached from the pointer in the new hand.
LEMMA NewStep ==
  ASSUME Inv, ViewInv, ViewInv', pc \in {"run", "retry"}, pc' = "run", shadow_stack' = shadow_stack,
         NEW N \in SUBSET Addr, N \cap Allocated = {}, Allocated' = Allocated \cup N,
         \A b \in Allocated : heap'[b] = heap[b],
         hand' \in N, N \subseteq Sees',
         \A b \in N : Tags(heap'[b].data) \subseteq Reach \cup Static \cup N
  PROVE  Program!New(hand', Program!Appears)
  <1>1. /\ DOMAIN Mem = Sees /\ Program!Known = Sees \cup Static /\ Reach \subseteq Sees
        /\ Sees \subseteq Allocated /\ Sees \subseteq Addr /\ Pointers \cap Addr \subseteq Sees
        /\ \A b \in Sees : Mem[b] = ShownData(heap[b].data) /\ Tags(heap[b].data) \cap Addr \subseteq Sees
    BY SeesFacts
  <1>2. Pointers' \cap Addr \subseteq Sees \cup N
    BY <1>1 DEF Pointers, Roots
  <1>3. DOMAIN Mem' = Sees' /\ \A b \in Sees' : Mem'[b] = ShownData(heap'[b].data)
    BY DEF ViewInv
  <1> DEFINE m == [a \in Sees \cup N |-> IF a \in N THEN Mem'[a] ELSE Mem[a]]
  <1>4. DOMAIN m = Sees \cup N /\ \A b \in DOMAIN m : m[b] = ShownData(heap'[b].data)
    BY <1>1, <1>3
  <1>5. \A b \in DOMAIN m : Tags(heap'[b].data) \cap Addr \subseteq DOMAIN m
    BY <1>1, <1>4, HeapAssumption
  <1>6. m = [a \in DOMAIN Mem \cup N |-> IF a \in N THEN Mem'[a] ELSE Mem[a]]
    BY <1>1
  <1> HIDE DEF m
  <1>7. Mem' = Program!View(shadow_stack', hand', m)
    BY <1>1, <1>2, <1>4, <1>5, NewView
  <1>8. Sees' \subseteq Sees \cup N
    <2>1. \A b \in DOMAIN m : Program!Targets(m[b]) = Tags(heap'[b].data)
      BY <1>4, ShownTargets
    <2>2. Program!Visible(shadow_stack', hand', m) = ReachFrom(Pointers)'
      BY <1>1, <1>2, <1>4, <1>5, <2>1, VisibleIsReach
    <2>3. Program!Visible(shadow_stack', hand', m) \subseteq DOMAIN m
      BY DEF Program!Visible
    <2> QED BY <1>4, <2>2, <2>3 DEF ViewInv
  <1>9. DOMAIN Mem' \ DOMAIN Mem = N
    BY <1>1, <1>3, <1>8
  <1> DEFINE fresh == Program!Appears
  <1>10. DOMAIN fresh = N /\ \A b \in N : fresh[b] = Mem'[b]
    BY <1>9 DEF Program!Appears
  <1> HIDE DEF fresh
  <1>11. m = [a \in DOMAIN Mem \cup DOMAIN fresh |-> IF a \in DOMAIN fresh THEN fresh[a] ELSE Mem[a]]
    BY <1>6, <1>10
  <1>12. \A b \in DOMAIN fresh : Program!Targets(fresh[b]) \subseteq Program!Known \cup DOMAIN fresh
    BY <1>1, <1>3, <1>10, ShownTargets
  <1>13. Program!Goes(shadow_stack, hand', m)
    <2>1. Program!Goes(shadow_stack', hand', m)
      BY <1>7, GoesOn
    <2> QED BY <2>1
  <1>14. DOMAIN fresh \cap DOMAIN Mem = {}
    BY <1>1, <1>10
  <1>15. Program!New(hand', fresh)
    BY <1>10, <1>11, <1>12, <1>13, <1>14 DEF Program!New
  <1> QED BY <1>15 DEF fresh

\* A successful attempt to allocate, first or second.
LEMMA AllocOkView ==
  ASSUME Inv, ViewInv, ViewInv', pc \in {"run", "retry"}, pc' = "run", shadow_stack' = shadow_stack,
         NEW r, Safe(r), AllocOk(r)
  PROVE  Program!Next
  <1>1. Reach \subseteq Sees /\ pc # "sweep"
    BY SeesFacts
  <1>2. ASSUME r.op \in {"alloc", "object"}
        PROVE  /\ r.tag \in TagWord /\ r.size \in Nat /\ r.data \in Seq(AnyEnum) /\ Tags(r.data) \cap Addr \subseteq Reach
               /\ Tags(r.data) \subseteq Reach \cup Static
    <2>1. r.tag \in TagWord /\ r.size \in Nat /\ r.data \in Seq(AnyEnum) /\ Tags(r.data) \cap Addr \subseteq Reach
      BY <1>2, RequestType DEF Safe
    <2> QED BY <2>1, TagsType DEF Tag
  <1>3. hand' \in Addr => hand' \in Sees'
    <2>1. hand' \in Addr => hand' \in Pointers'
      BY HeapAssumption DEF Pointers
    <2>2. hand' \in Pointers' /\ hand' \in Addr => hand' \in ReachFrom(Pointers)'
      BY DEF ReachFrom, Closed
    <2> QED BY <2>1, <2>2 DEF ViewInv
  <1>4. CASE r.op = "alloc"
    <2>1. PICK a \in Addr : alloc_raw(a, r.tag, r.size, r.data) /\ hand' = a
      BY <1>4 DEF AllocOk
    <2>2. /\ Allocated' = Allocated \cup {a} /\ a \notin Allocated /\ heap'[a].data = r.data
          /\ \A b \in Allocated : heap'[b] = heap[b]
      BY <1>1, <1>2, <1>4, <2>1, RawAdds
    <2> DEFINE N == {a}
    <2>3. /\ N \in SUBSET Addr /\ N \cap Allocated = {} /\ Allocated' = Allocated \cup N
          /\ hand' \in N /\ N \subseteq Sees'
          /\ \A b \in N : Tags(heap'[b].data) \subseteq Reach \cup Static \cup N
      BY <1>2, <1>3, <1>4, <2>1, <2>2
    <2> HIDE DEF N
    <2>4. Program!New(hand', Program!Appears)
      BY <2>2, <2>3, NewStep
    <2> QED BY <2>4 DEF Program!Next
  <1>5. CASE r.op = "object"
    <2>1. PICK d, o \in Addr : alloc_object(d, o, r.tag, r.size, r.data) /\ hand' = o
      BY <1>5 DEF AllocOk
    <2>2. /\ Allocated' = Allocated \cup {d, o} /\ d \notin Allocated /\ o \notin Allocated
          /\ heap'[d].data = r.data /\ Tags(heap'[o].data) = {d}
          /\ \A b \in Allocated : heap'[b] = heap[b]
      BY <1>1, <1>2, <1>5, <2>1, ObjectAdds
    <2>3. o \in Sees' /\ d \in Sees'
      <3>1. o \in Sees'
        BY <1>3, <2>1
      <3>2. \A S \in SUBSET Addr : Closed(Pointers, S)' /\ o \in S => d \in S
        BY <2>1, <2>2 DEF Closed
      <3>3. d \in ReachFrom(Pointers)'
        BY <2>1, <3>1, <3>2 DEF ReachFrom, ViewInv
      <3> QED BY <3>1, <3>3 DEF ViewInv
    <2> DEFINE N == {d, o}
    <2>4. /\ N \in SUBSET Addr /\ N \cap Allocated = {} /\ Allocated' = Allocated \cup N
          /\ hand' \in N /\ N \subseteq Sees'
          /\ \A b \in N : Tags(heap'[b].data) \subseteq Reach \cup Static \cup N
      BY <1>2, <1>5, <2>1, <2>2, <2>3
    <2> HIDE DEF N
    <2>5. Program!New(hand', Program!Appears)
      BY <2>2, <2>4, NewStep
    <2> QED BY <2>5 DEF Program!Next
  <1>6. CASE r.op = "f64"
    <2>1. /\ F64AllocSome(r.val) /\ heap' = [heap EXCEPT ![r.at].data[r.cell] = F64Next(r.val)]
          /\ hand' = hand
      BY <1>6 DEF AllocOk
    <2>2. r.at \in Sees /\ r.cell \in DOMAIN heap[r.at].data /\ r.val \in Val
      <3>1. r.at \in Reach /\ r.val \in Val /\ heap[r.at] # None
        BY <1>6, RequestType, InvNoDangling DEF Safe, NoDangling
      <3> QED BY <1>1, <1>6, <3>1 DEF Safe
    <2>3. F64Next(r.val) \in AnyEnum /\ F64Next(r.val).k = "f64"
      BY <2>1, <2>2, F64SomeType DEF Inv, TypeOK, F64Inv
    <2> DEFINE c == F64Next(r.val)
    <2>4. c \in AnyEnum /\ (c.k = "ptr" => c.to \in Sees \cup Static)
          /\ heap' = [heap EXCEPT ![r.at].data[r.cell] = c]
      BY <2>1, <2>3
    <2> HIDE DEF c
    <2>5. /\ r.at \in DOMAIN Mem /\ r.cell \in DOMAIN Mem[r.at] /\ Shown(c) \in Program!Cells
          /\ Program!Store(r.at, r.cell, Shown(c))
      BY <2>1, <2>2, <2>4, StoreView
    <2> QED BY <2>5 DEF Program!Next
  <1> QED BY <1>4, <1>5, <1>6 DEF AllocOk

\* A refused attempt adds at most an object nobody points to.
LEMMA AllocFailsKeeps ==
  ASSUME Inv, pc \in {"run", "retry"}, shadow_stack' = shadow_stack, NEW r, Safe(r), AllocFails(r)
  PROVE  \A b \in Allocated : b \in Allocated' /\ heap'[b] = heap[b]
  <1>1. CASE heap' = heap
    BY <1>1 DEF Allocated
  <1>2. CASE r.op = "object" /\ \E a \in Addr : alloc_raw(a, r.tag, r.size, r.data)
    <2>1. PICK a \in Addr : alloc_raw(a, r.tag, r.size, r.data)
      BY <1>2
    <2>2. r.tag \in TagWord /\ r.size \in Nat /\ r.data \in Seq(AnyEnum) /\ Tags(r.data) \cap Addr \subseteq Reach
      BY <1>2, RequestType DEF Safe
    <2> QED BY <2>1, <2>2, RawAdds
  <1> QED BY <1>1, <1>2 DEF AllocFails, heap_vars

\* Every step of the client is a step of the program.
LEMMA ClientView ==
  ASSUME Inv, ViewInv, ViewInv', Client
  PROVE  Program!Next
  <1>1. CASE \E n \in 1 .. FrameSlots : push_shadow_frame(n)
    BY <1>1, PushView DEF Program!Next
  <1>2. CASE pop_shadow_frame
    BY <1>2, PopView DEF Program!Next
  <1>3. CASE \E ptr \in Holdable \cup {None}, slot \in 1 .. FrameSlots :
                \/ set_in_current_shadow_frame_slot(slot, ptr)
                \/ set_in_shadow_frame_slot(1, slot, ptr)
    <2>0. PICK ptr \in Holdable \cup {None} : \E frame, slot : set_in_shadow_frame_slot(frame, slot, ptr)
      BY <1>3 DEF set_in_current_shadow_frame_slot
    <2>1. PICK frame, slot : set_in_shadow_frame_slot(frame, slot, ptr)
      BY <2>0
    <2>2. /\ frame \in DOMAIN shadow_stack /\ slot \in DOMAIN shadow_stack[frame]
          /\ ptr \in Program!Known \cup {None}
          /\ Program!Root(frame, slot, ptr)
      BY <2>1, SetSlotView
    <2> QED BY <2>2 DEF Program!Next
  <1>4. CASE \E v \in Storable, a \in Writable : \E i \in DOMAIN heap[a].data : Write(a, i, v)
    BY <1>4, WriteView
  <1>5. CASE \E r \in Wanted : alloc_or_gc(r)
    <2>1. PICK r \in Wanted : alloc_or_gc(r)
      BY <1>5
    <2>2. pc = "run" /\ shadow_stack' = shadow_stack /\ Safe(r)
      BY <2>1, WantedSafe DEF alloc_or_gc
    <2>3. CASE AllocOk(r) /\ pc' = pc
      BY <2>2, <2>3, AllocOkView
    <2>4. CASE AllocFails(r) /\ pc' = "gc" /\ hand' = None
      <3>1. \A b \in Allocated : b \in Allocated' /\ heap'[b] = heap[b]
        BY <2>2, <2>4, AllocFailsKeeps
      <3>2. Program!Collect
        BY <2>2, <2>4, <3>1, CollectBegins
      <3> QED BY <3>2 DEF Program!Next
    <2> QED BY <2>1, <2>3, <2>4 DEF alloc_or_gc
  <1>6. CASE run_gc
    <2>1. Program!Collect
      BY <1>6, CollectBegins DEF run_gc, heap_vars, Allocated
    <2> QED BY <2>1 DEF Program!Next
  <1> QED BY <1>1, <1>2, <1>3, <1>4, <1>5, <1>6 DEF Client

-----------------------------------------------------------------------------
(* The steps of the collector.                                              *)

\* A copied float is shown as before.
LEMMA CopyShown ==
  ASSUME NEW data \in Seq(AnyEnum), NEW i \in F64Cells(data), NEW c, c.k = "f64", c.val = data[i].val
  PROVE  ShownData([data EXCEPT ![i] = c]) = ShownData(data)
  <1>1. i \in DOMAIN data /\ data[i].k = "f64"
    BY DEF F64Cells
  <1>2. Shown(c) = Shown(data[i])
    BY <1>1 DEF Shown
  <1>3. [ShownData(data) EXCEPT ![i] = Shown(data[i])] = ShownData(data)
    BY <1>1 DEF ShownData
  <1> QED BY <1>1, <1>2, <1>3, ShownUpdate

\* Until its last step a collection leaves the view alone, also half-way
\* through a mark or a sweep; a collection that cannot go on is a trap.
LEMMA CollectView ==
  ASSUME Inv, ViewInv, ViewInv', Collect, ~Retry
  PROVE  Program!Next \/ UNCHANGED Program!view
  <1>1. pc \in {"gc", "mark", "copy", "sweep"} /\ shadow_stack' = shadow_stack /\ hand' = hand
    BY DEF Collect, gc, MarkSkip, MarkObject, MarkStatic, CopyF64, CopyDone, SwapRoots,
           SweepKeep, SweepFree, SweepDone
  <1>2. pc' \in {"mark", "copy", "sweep", "retry", "oom_copy"}
    BY DEF Collect, gc, MarkSkip, MarkObject, MarkStatic, CopyF64, CopyDone, SwapRoots,
           SweepKeep, SweepFree, SweepDone
  <1>3. Sees \subseteq Allocated /\ (pc = "sweep" => Sees \subseteq Live)
    <2>1. pc = "sweep" => Pointers = Roots /\ Closed(Roots, Live) /\ Live \subseteq Addr
      BY LiveAllocated DEF Inv, HandInv, Pointers, SweepInv, Allocated
    <2> QED BY <2>1, SeesFacts DEF ViewInv, ReachFrom
  <1>4. \A b \in Sees : /\ b \in Allocated' /\ Tags(heap'[b].data) = Tags(heap[b].data)
                        /\ ShownData(heap'[b].data) = ShownData(heap[b].data)
    <2>1. CASE heap' = heap
      BY <1>3, <2>1 DEF Allocated
    <2>2. CASE \E root \in current_roots : MarkObject(root)
      BY <1>3, <2>2, MarkObjectHeap
    <2>3. CASE \E c \in f64s : CopyF64(c[1], c[2])
      <3>1. PICK c \in f64s : CopyF64(c[1], c[2])
        BY <2>3
      <3> DEFINE a == c[1]
                 i == c[2]
                 new == [k |-> "f64", space |-> current_space, index |-> next_slot,
                         val |-> heap[a].data[i].val]
      <3>2. /\ heap[a].data \in Seq(AnyEnum) /\ i \in F64Cells(heap[a].data)
            /\ \/ /\ Allocated' = Allocated
                  /\ heap'[a].data = [heap[a].data EXCEPT ![i] = new]
                  /\ \A b \in Allocated \ {a} : heap'[b] = heap[b]
                  /\ \A b \in Allocated : Tags(heap'[b].data) = Tags(heap[b].data)
               \/ heap' = heap
        BY <3>1, CopyF64Heap
      <3>3. new.k = "f64" /\ new.val = heap[a].data[i].val
        OBVIOUS
      <3> HIDE DEF a, i, new
      <3>4. ShownData([heap[a].data EXCEPT ![i] = new]) = ShownData(heap[a].data)
        BY <3>2, <3>3, CopyShown
      <3> QED BY <1>3, <2>1, <3>2, <3>4
    <2>4. CASE SweepKeep
      BY <1>3, <2>4, SweepKeepHeap
    <2>5. CASE SweepFree
      BY <1>3, <2>5, SweepFreeHeap DEF SweepFree
    <2>6. gc \/ CopyDone \/ SwapRoots \/ SweepDone
          \/ (\E root \in current_roots : MarkSkip(root) \/ MarkStatic(root)) => heap' = heap
      BY DEF gc, CopyDone, SwapRoots, SweepDone, MarkSkip, MarkStatic, heap_vars
    <2> QED BY <2>1, <2>2, <2>3, <2>4, <2>5, <2>6 DEF Collect
  <1>5. Mem' = Mem
    BY <1>1, <1>4, ViewKept
  <1>6. CASE pc' \in {"mark", "copy", "sweep"}
    BY <1>1, <1>5, <1>6 DEF Program!view, Panics
  <1>7. CASE pc' = "retry"
    BY <1>1, <1>5, <1>7 DEF Program!Next, Program!Resume, Panics
  <1>8. CASE pc' = "oom_copy"
    BY <1>1, <1>5, <1>8 DEF Program!Next, Program!Trap, Panics
  <1> QED BY <1>2, <1>6, <1>7, <1>8

\* The second attempt is one of the program: it gets its object, or traps.
LEMMA RetryView ==
  ASSUME Inv, ViewInv, ViewInv', Retry
  PROVE  Program!Next \/ UNCHANGED Program!view
  <1>1. pc = "retry" /\ shadow_stack' = shadow_stack /\ Safe(req)
    BY DEF Retry, Inv, ReqInv, Waiting
  <1>2. CASE req.op = "gc" /\ pc' = "run" /\ UNCHANGED <<heap_vars, f64_vars, hand>>
    <2>1. \A b \in Sees : /\ b \in Allocated' /\ Tags(heap'[b].data) = Tags(heap[b].data)
                          /\ ShownData(heap'[b].data) = ShownData(heap[b].data)
      BY <1>2, SeesFacts DEF heap_vars, Allocated
    <2>2. Mem' = Mem
      BY <1>1, <1>2, <2>1, ViewKept
    <2> QED BY <1>1, <1>2, <2>2 DEF Program!view, Panics
  <1>3. CASE AllocOk(req) /\ pc' = "run"
    BY <1>1, <1>3, AllocOkView
  <1>4. CASE AllocFails(req) /\ pc' \in {"oom", "oom_f64"} /\ hand' = hand
    <2>1. \A b \in Allocated : b \in Allocated' /\ heap'[b] = heap[b]
      BY <1>1, <1>4, AllocFailsKeeps
    <2>2. Mem' = Mem
      BY <1>1, <1>4, <2>1, SeesFacts, ViewKept
    <2> QED BY <1>1, <1>4, <2>2 DEF Program!Next, Program!Trap, Panics
  <1> QED BY <1>2, <1>3, <1>4 DEF Retry

-----------------------------------------------------------------------------
(* The theorem.                                                             *)

\* The empty heap is the program's initial view.
LEMMA InitView ==
  ASSUME Init, ViewInv
  PROVE  Program!Init
  <1>1. Sees = {} /\ pc = "run" /\ shadow_stack = <<>> /\ hand = None
    BY DEF Init, Sees, Allocated
  <1>2. Mem = [a \in {} |-> <<>>]
    BY <1>1 DEF ViewInv
  <1> QED BY <1>1, <1>2 DEF Program!Init, Panics

\* Every step of the heap is a step of the program's view, or no step of it.
LEMMA NextView ==
  ASSUME Inv, ViewInv, ViewInv', [Next]_vars
  PROVE  Program!Next \/ UNCHANGED Program!view
  <1>1. CASE UNCHANGED vars
    <2>1. UNCHANGED <<heap, shadow_stack, pc, hand>>
      BY <1>1 DEF vars, heap_vars
    <2>2. \A b \in Sees : /\ b \in Allocated' /\ Tags(heap'[b].data) = Tags(heap[b].data)
                          /\ ShownData(heap'[b].data) = ShownData(heap[b].data)
      BY <2>1, SeesFacts DEF Allocated
    <2>3. Mem' = Mem
      BY <2>1, <2>2, ViewKept
    <2> QED BY <2>1, <2>3 DEF Program!view
  <1> QED BY <1>1, ClientView, CollectView, RetryView DEF Next, Trapped

\* The managed heap implements HeapSpec: whatever the program does within the
\* contract of Heap::gc, it sees a graph of objects that no collection changes,
\* whose floats keep their values, and that grows at fresh addresses only.
THEOREM HeapImplementsProgram == Spec => ImplementsProgram
  <1>1. Inv /\ FloatInv => ViewInv
    BY InvView
  <1>2. Init /\ ViewInv => Program!Init
    BY InitView
  <1>3. Inv /\ ViewInv /\ ViewInv' /\ [Next]_vars => [Program!Next]_(Program!view)
    BY NextView
  <1> QED BY <1>1, <1>2, <1>3, Invariance, FloatsInPlace, PTL
          DEF Spec, ImplementsProgram, Program!Spec
===============================================================================
