--------------------------- MODULE CollectorProofs ---------------------------
(***************************************************************************)
(* What a collection leaves behind, for every heap: it frees all that is   *)
(* unreachable, and the floats it moves keep their values.  NoGarbageAfter-*)
(* Gc is about the last step of a sweep, so the mark phase has to be known *)
(* to have followed reachable objects only.  F64Intact is not inductive: a *)
(* float is read from the space it was in when the collection began until  *)
(* its cell is copied, and from the new space afterwards, and the writes   *)
(* of the copies must spare both.  CellInv says of every cell in which of  *)
(* the two spaces it is.                                                   *)
(***************************************************************************)
EXTENDS HeapProofs

\* The mark phase leaves its vectors empty, and starts with empty ones.
QueueInv ==
    /\ pc \notin {"mark", "copy", "oom_copy"} => current_roots = {} /\ new_roots = {}
    /\ pc \notin {"copy", "oom_copy"} => f64s = {}

\* Only reachable objects are queued, marked or kept.
TightInv ==
    /\ pc \in {"mark", "copy"} => Seen \cap Addr \subseteq Reach
    /\ pc = "sweep" => Live \subseteq Reach

\* A cell in the current space s, in the part in use, and one in the other.
FreshAt(c, s, sp, n) == c.space = s /\ c.index < n /\ sp[c.space][c.index] = c.val
StaleAt(c, s, sp) == c.space # s /\ sp[c.space][c.index] = c.val
FreshData(data, s, sp, n) == \A i \in F64Cells(data) : FreshAt(data[i], s, sp, n)

\* While the mark phase runs: the floats of marked objects are in the new space,
\* but for those of the last one that are still to be copied.
CopiedAt(o, todo, s, sp, n) ==
    \A i \in F64Cells(o.data) :
        IF o.marked /\ i \notin todo THEN FreshAt(o.data[i], s, sp, n) ELSE StaleAt(o.data[i], s, sp)
Todo(a) == {i \in F64Cells(heap[a].data) : <<a, i>> \in f64s}

AllFresh == \A a \in Allocated : FreshData(heap[a].data, current_space, space, next_slot)

CellInv ==
    /\ pc \in {"run", "gc", "retry", "oom", "oom_f64"} => AllFresh
    /\ pc \in {"mark", "copy", "oom_copy"} =>
          \A a \in Allocated : CopiedAt(heap[a], Todo(a), current_space, space, next_slot)
    /\ pc = "sweep" =>
          \A a \in Live : FreshData(heap[a].data, current_space, space, next_slot)
    /\ pc = "copy" => \A c \in f64s : c[1] \in Marked

\* A new object is made without floats: they are boxed into it afterwards.
Plain(r) == r.op \in {"alloc", "object"} => F64Cells(r.data) = {}
PlainInv == pc \in Waiting => Plain(req)

FloatInv == CellInv /\ PlainInv

-----------------------------------------------------------------------------
(* Reachability.                                                            *)

\* What is reached is closed under the pointers of its objects.
LEMMA ReachClosed ==
  ASSUME NEW R
  PROVE  ReachFrom(R) \subseteq Addr /\ Closed(R, ReachFrom(R))
  BY DEF ReachFrom, Closed

\* A step that keeps which objects exist, and of every object the pointers in it,
\* keeps what is reached, whatever it is reached from.
LEMMA ReachSame ==
  ASSUME Allocated' = Allocated,
         \A a \in Allocated : Tags(heap'[a].data) = Tags(heap[a].data)
  PROVE  \A R : ReachFrom(R)' = ReachFrom(R)
  <1>1. \A R, S : Closed(R, S)' <=> Closed(R, S)
    BY DEF Closed
  <1> QED BY <1>1 DEF ReachFrom

\* What copying one float does to the heap.
LEMMA CopyF64Heap ==
  ASSUME Inv, NEW c \in f64s, CopyF64(c[1], c[2]),
         NEW new, new = [k |-> "f64", space |-> current_space, index |-> next_slot,
                         val |-> heap[c[1]].data[c[2]].val]
  PROVE  /\ pc = "copy" /\ c = <<c[1], c[2]>> /\ c[1] \in Allocated /\ shadow_stack' = shadow_stack
         /\ heap[c[1]].data \in Seq(AnyEnum) /\ c[2] \in F64Cells(heap[c[1]].data)
         /\ \/ /\ F64AllocSome(F64Read(heap[c[1]].data[c[2]]))
               /\ f64s' = f64s \ {c} /\ pc' = "copy"
               /\ Allocated' = Allocated /\ Marked' = Marked
               /\ new \in AnyEnum
               /\ heap'[c[1]].data = [heap[c[1]].data EXCEPT ![c[2]] = new]
               /\ \A b \in Allocated : /\ heap'[b].marked = heap[b].marked
                                       /\ heap'[b].tag = heap[b].tag /\ heap'[b].size = heap[b].size
               /\ \A b \in Allocated \ {c[1]} : heap'[b] = heap[b]
               /\ \A b \in Allocated : Tags(heap'[b].data) = Tags(heap[b].data)
            \/ F64AllocNone /\ pc' = "oom_copy" /\ UNCHANGED <<heap, f64s>>
  <1> DEFINE a == c[1]
             i == c[2]
             v == F64Read(heap[a].data[i])
  <1>1. pc = "copy" /\ c = <<a, i>> /\ F64TypeOK /\ next_slot < LEN /\ shadow_stack' = shadow_stack
    BY DEF CopyF64, Inv, TypeOK, F64Inv
  <1>2. a \in Allocated /\ i \in F64Cells(heap[a].data) /\ i \in DOMAIN heap[a].data
        /\ heap[a].data \in Seq(AnyEnum)
    BY <1>1, HeapType DEF Inv, TraceInv, F64Cells, Object
  <1>3. heap[a].data[i] \in AnyEnum /\ heap[a].data[i].k = "f64"
    BY <1>2 DEF F64Cells
  <1>4. heap[a].data[i].val \in Val
    BY <1>3 DEF AnyEnum, Imm
  <1>5. new \in AnyEnum /\ new.k = "f64"
    <2>1. next_slot \in Slots /\ current_space \in {0, 1}
      BY <1>1, LENAssumption DEF F64TypeOK, Slots
    <2> QED BY <1>4, <2>1 DEF AnyEnum
  <1>6. \/ /\ F64AllocSome(v) /\ heap' = [heap EXCEPT ![a].data[i] = new]
           /\ f64s' = f64s \ {c} /\ pc' = "copy"
        \/ F64AllocNone /\ pc' = "oom_copy" /\ UNCHANGED <<heap, f64s>>
    <2>1. [F64Next(v) EXCEPT !.val = heap[a].data[i].val] = new
      BY DEF F64Next
    <2> QED BY <1>1, <2>1 DEF CopyF64
  <1>7. ASSUME heap' = [heap EXCEPT ![a].data[i] = new]
        PROVE  /\ Allocated' = Allocated /\ Marked' = Marked
               /\ \A b \in Allocated : Tags(heap'[b].data) = Tags(heap[b].data)
    BY <1>1, <1>2, <1>3, <1>5, <1>7, BoxInto
  <1>8. ASSUME heap' = [heap EXCEPT ![a].data[i] = new]
        PROVE  /\ heap'[a].data = [heap[a].data EXCEPT ![i] = new]
               /\ \A b \in Allocated : /\ heap'[b].marked = heap[b].marked
                                       /\ heap'[b].tag = heap[b].tag /\ heap'[b].size = heap[b].size
               /\ \A b \in Allocated \ {a} : heap'[b] = heap[b]
    <2> DEFINE o == [heap[a] EXCEPT !.data[i] = new]
    <2>1. heap[a] \in Object /\ a \in Addr
      BY <1>2, HeapType DEF Inv, Allocated
    <2>2. /\ o.data = [heap[a].data EXCEPT ![i] = new] /\ o.marked = heap[a].marked
          /\ o.tag = heap[a].tag /\ o.size = heap[a].size
      BY <2>1 DEF Object
    <2>3. heap' = [heap EXCEPT ![a] = o]
      BY <1>8
    <2> HIDE DEF o
    <2>4. heap'[a] = o /\ \A b \in Addr \ {a} : heap'[b] = heap[b]
      BY <2>1, <2>3 DEF Inv, TypeOK
    <2> QED BY <2>2, <2>4 DEF Allocated
  <1> HIDE DEF v
  <1>9. CASE /\ F64AllocSome(v) /\ heap' = [heap EXCEPT ![a].data[i] = new]
             /\ f64s' = f64s \ {c} /\ pc' = "copy"
    BY <1>1, <1>2, <1>5, <1>7, <1>8, <1>9 DEF v
  <1> QED BY <1>1, <1>2, <1>6, <1>9 DEF v

-----------------------------------------------------------------------------
(* Only what is reachable survives.                                         *)

\* Every step keeps the vectors in order.
LEMMA QueueStep ==
  ASSUME Inv, QueueInv, [Next]_vars
  PROVE  QueueInv'
  <1> USE DEF QueueInv, mark_vars
  <1>1. CASE Client
    BY <1>1 DEF Client, push_shadow_frame, pop_shadow_frame, set_in_current_shadow_frame_slot,
                set_in_shadow_frame_slot, Stack, Write, alloc_or_gc, run_gc
  <1>2. CASE Retry
    BY <1>2 DEF Retry
  <1>3. CASE \E c \in f64s : CopyF64(c[1], c[2])
    BY <1>3 DEF CopyF64
  <1>4. CASE Collect /\ ~Retry /\ ~\E c \in f64s : CopyF64(c[1], c[2])
    BY <1>4 DEF Collect, gc, MarkSkip, MarkObject, MarkStatic, CopyDone, SwapRoots,
                SweepKeep, SweepFree, SweepDone
  <1>5. CASE UNCHANGED vars
    BY <1>5 DEF vars
  <1> QED BY <1>1, <1>2, <1>3, <1>4, <1>5 DEF Next, Collect, Trapped

\* A step that keeps the graph and adds nothing to what is seen.
LEMMA TightKept ==
  ASSUME TightInv, pc \in {"mark", "copy"}, pc' \in {"mark", "copy"},
         Seen' \cap Addr \subseteq Seen, Reach' = Reach
  PROVE  TightInv'
  BY DEF TightInv

\* Every step keeps to reachable objects.
LEMMA TightStep ==
  ASSUME Inv, QueueInv, TightInv, [Next]_vars
  PROVE  TightInv'
  <1> USE DEF f64_vars, heap_vars, mark_vars
  <1>1. CASE Client
    <2>1. pc' \in {"run", "gc"}
      BY <1>1 DEF Client, push_shadow_frame, pop_shadow_frame, set_in_current_shadow_frame_slot,
                  set_in_shadow_frame_slot, Stack, Write, alloc_or_gc, run_gc
    <2> QED BY <2>1 DEF TightInv
  <1>2. CASE gc
    <2>1. Roots' = Roots /\ Reach' = Reach /\ Marked' = Marked
      BY <1>2, SameGraph DEF gc
    <2>2. Marked = {} /\ new_roots' = {} /\ current_roots' = Roots
      BY <1>2 DEF gc, Inv, MarkInv, QueueInv
    <2>3. Roots \cap Addr \subseteq Reach
      BY ReachClosed DEF Reach, Closed
    <2> QED BY <1>2, <2>1, <2>2, <2>3 DEF gc, TightInv, Seen
  <1>3. CASE \E root \in current_roots : MarkSkip(root) \/ MarkStatic(root)
    <2>1. PICK root \in current_roots : MarkSkip(root) \/ MarkStatic(root)
      BY <1>3
    <2>2. Reach' = Reach /\ Marked' = Marked
      BY <2>1, SameGraph DEF MarkSkip, MarkStatic
    <2> QED BY <2>1, <2>2, TightKept DEF MarkSkip, MarkStatic, Seen
  <1>4. CASE \E root \in current_roots : MarkObject(root)
    <2>1. PICK root \in current_roots : MarkObject(root)
      BY <1>4
    <2>2. /\ root \in Allocated /\ root \in Addr
          /\ Allocated' = Allocated /\ Marked' = Marked \cup {root} /\ Roots' = Roots
          /\ \A b \in Allocated : heap'[b].data = heap[b].data
      BY <2>1, MarkObjectHeap
    <2>3. Reach' = Reach
      BY <2>2, ReachSame DEF Reach
    <2>4. root \in Reach /\ Seen \cap Addr \subseteq Reach
      BY <2>1, <2>2 DEF TightInv, Seen, MarkObject
    <2>5. Tags(heap[root].data) \cap Addr \subseteq Reach
      BY <2>2, <2>4, ReachClosed DEF Reach, Closed
    <2> QED BY <2>1, <2>2, <2>3, <2>4, <2>5 DEF MarkObject, TightInv, Seen
  <1>5. CASE \E c \in f64s : CopyF64(c[1], c[2])
    <2>1. PICK c \in f64s : CopyF64(c[1], c[2])
      BY <1>5
    <2>2. /\ shadow_stack' = shadow_stack /\ current_roots' = current_roots /\ new_roots' = new_roots
          /\ pc = "copy" /\ pc' \in {"copy", "oom_copy"}
      BY <2>1 DEF CopyF64
    <2>3. CASE pc' = "oom_copy"
      BY <2>3 DEF TightInv
    <2>4. CASE pc' = "copy"
      <3>1. /\ Allocated' = Allocated /\ Marked' = Marked
            /\ \A b \in Allocated : Tags(heap'[b].data) = Tags(heap[b].data)
        BY <2>1, <2>4, CopyF64Heap
      <3>2. Roots' = Roots
        BY <2>2 DEF Roots
      <3>3. Reach' = Reach
        BY <3>1, <3>2, ReachSame DEF Reach
      <3> QED BY <2>2, <2>4, <3>1, <3>3, TightKept DEF Seen
    <2> QED BY <2>2, <2>3, <2>4
  <1>6. CASE CopyDone
    <2>1. Reach' = Reach /\ Marked' = Marked
      BY <1>6, SameGraph DEF CopyDone
    <2> QED BY <1>6, <2>1, TightKept DEF CopyDone, Seen
  <1>7. CASE SwapRoots
    <2>1. Reach' = Reach /\ Marked' = Marked /\ kept = <<>>
      BY <1>7, SameGraph DEF SwapRoots, Inv, ListInv
    <2>2. Range(<<>>) = {}
      BY DEF Range
    <2>3. Live' = Marked /\ Marked \subseteq Addr
      BY <1>7, <2>1, <2>2 DEF SwapRoots, Live, Marked, Allocated
    <2> QED BY <1>7, <2>1, <2>3 DEF SwapRoots, Seen, TightInv
  <1>8. CASE SweepKeep
    <2>1. /\ Allocated' = Allocated /\ Roots' = Roots /\ Live' = Live
          /\ \A b \in Allocated : heap'[b].data = heap[b].data
      BY <1>8, SweepKeepHeap
    <2>2. Reach' = Reach
      BY <2>1, ReachSame DEF Reach
    <2> QED BY <1>8, <2>1, <2>2 DEF SweepKeep, TightInv
  <1>9. CASE SweepFree
    BY <1>9, SweepFreeHeap DEF SweepFree, TightInv
  <1>10. CASE SweepDone
    BY <1>10 DEF SweepDone, TightInv
  <1>11. CASE Retry
    <2>1. pc' \in {"run", "oom", "oom_f64"}
      BY <1>11 DEF Retry
    <2> QED BY <2>1 DEF TightInv
  <1>12. CASE UNCHANGED vars
    <2>1. Reach' = Reach /\ Marked' = Marked
      BY <1>12, SameGraph DEF vars
    <2>2. Live' = Live /\ Seen' = Seen /\ pc' = pc
      BY <1>12, <2>1 DEF vars, Live, Seen
    <2> QED BY <2>1, <2>2 DEF TightInv
  <1> QED BY <1>1, <1>2, <1>3, <1>4, <1>5, <1>6, <1>7, <1>8, <1>9, <1>10, <1>11, <1>12
          DEF Next, Collect, Trapped

\* The vectors of the mark phase are as said in every state, and only reachable
\* objects are ever queued, marked or kept.
THEOREM MarksOnlyReachable == Spec => [](QueueInv /\ TightInv)
  <1>1. Init => QueueInv /\ TightInv
    BY DEF Init, QueueInv, TightInv
  <1>2. Inv /\ QueueInv /\ TightInv /\ [Next]_vars => QueueInv' /\ TightInv'
    BY QueueStep, TightStep
  <1> QED BY <1>1, <1>2, Invariance, PTL DEF Spec

\* Heap::gc frees everything it may free: mark_phase follows no pointer out of
\* an unreachable object, sweep_phase skips no item while it unlinks another.
THEOREM GcComplete == Spec => NoGarbageAfterGc
  <1>1. ASSUME Inv, TightInv, [Next]_vars
        PROVE  [pc = "sweep" /\ pc' = "retry" => Allocated' \subseteq Reach']_vars
    <2> SUFFICES ASSUME Next, pc = "sweep", pc' = "retry"
                 PROVE  Allocated' \subseteq Reach'
      BY <1>1
    <2>1. SweepDone
      BY DEF Next, Client, Collect, Trapped, Panics, gc, MarkSkip, MarkObject, MarkStatic, CopyF64,
             CopyDone, SwapRoots, SweepKeep, SweepFree, Retry
    <2>2. Reach' = Reach /\ Allocated' = Allocated
      BY <2>1, SameGraph DEF SweepDone
    <2>3. Range(<<>>) = {}
      BY DEF Range
    <2>4. Allocated \subseteq Live
      BY <1>1, <2>1, <2>3 DEF SweepDone, Inv, ListInv, Live
    <2> QED BY <1>1, <2>2, <2>4 DEF TightInv
  <1> QED BY <1>1, Invariance, MarksOnlyReachable, PTL DEF Spec, NoGarbageAfterGc

-----------------------------------------------------------------------------
(* Floats keep their values.                                                *)

\* The fields of a boxed float.
LEMMA F64Fields ==
  ASSUME NEW c \in AnyEnum, c.k = "f64"
  PROVE  c.space \in {0, 1} /\ c.index \in Slots /\ c.val \in Val
  BY DEF AnyEnum, Imm

\* alloc writes to a slot that no float in use has: it is behind those of the
\* current space, and the other space is not written.
LEMMA WriteSpares ==
  ASSUME NEW s \in {0, 1}, NEW sp \in [{0, 1} -> [Slots -> Val]], NEW n \in Slots, NEW v \in Val,
         NEW c \in AnyEnum, c.k = "f64"
  PROVE  /\ FreshAt(c, s, sp, n) => FreshAt(c, s, [sp EXCEPT ![s][n] = v], n + 1)
         /\ StaleAt(c, s, sp) => StaleAt(c, s, [sp EXCEPT ![s][n] = v])
  <1>1. c.space \in {0, 1} /\ c.index \in Slots
    BY F64Fields
  <1>2. Slots \subseteq Int
    BY DEF Slots
  <1> DEFINE sq == [sp EXCEPT ![s][n] = v]
  <1>3. c.space # s \/ c.index # n => sq[c.space][c.index] = sp[c.space][c.index]
    BY <1>1
  <1> HIDE DEF sq
  <1>4. FreshAt(c, s, sp, n) => FreshAt(c, s, sq, n + 1)
    <2>1. c.index \in Int /\ n \in Int
      BY <1>1, <1>2
    <2>2. c.index < n => c.index < n + 1 /\ c.index # n
      BY <2>1
    <2> QED BY <1>3, <2>2 DEF FreshAt
  <1>5. StaleAt(c, s, sp) => StaleAt(c, s, sq)
    BY <1>3 DEF StaleAt
  <1> QED BY <1>4, <1>5 DEF sq

\* Whether alloc succeeds or not, the floats of the current space stay.
LEMMA FreshKept ==
  ASSUME F64TypeOK, next_slot < LEN, NEW v \in Val, F64AllocSome(v) \/ F64AllocNone,
         NEW data \in Seq(AnyEnum), FreshData(data, current_space, space, next_slot)
  PROVE  FreshData(data, current_space', space', next_slot')
  <1>1. \A i \in F64Cells(data) : data[i] \in AnyEnum /\ data[i].k = "f64"
    BY DEF F64Cells
  <1>2. next_slot \in Slots /\ current_space \in {0, 1} /\ space \in [{0, 1} -> [Slots -> Val]]
    BY LENAssumption DEF F64TypeOK, Slots
  <1>3. CASE F64AllocSome(v)
    <2>1. current_space' = current_space /\ next_slot' = next_slot + 1
          /\ space' = [space EXCEPT ![current_space][next_slot] = v]
      BY <1>3 DEF F64AllocSome
    <2> QED BY <1>1, <1>2, <2>1, WriteSpares DEF FreshData
  <1>4. CASE F64AllocNone
    <2>1. current_space' = current_space /\ next_slot' = next_slot + 1 /\ space' = space
      BY <1>4 DEF F64AllocNone
    <2>2. \A i \in F64Cells(data) : data[i].index \in Int
      BY <1>1, F64Fields DEF Slots
    <2>3. next_slot \in Int
      BY <1>2 DEF Slots
    <2> QED BY <2>1, <2>2, <2>3 DEF FreshData, FreshAt
  <1> QED BY <1>3, <1>4

\* The float that alloc just made is in the current space.
LEMMA FreshMade ==
  ASSUME F64TypeOK, next_slot < LEN, NEW v \in Val, F64AllocSome(v),
         NEW c, c = [k |-> "f64", space |-> current_space, index |-> next_slot, val |-> v]
  PROVE  FreshAt(c, current_space', space', next_slot')
  <1>1. next_slot \in Slots /\ current_space \in {0, 1} /\ space \in [{0, 1} -> [Slots -> Val]]
        /\ next_slot \in Int
    BY LENAssumption DEF F64TypeOK, Slots
  <1>2. current_space' = current_space /\ next_slot' = next_slot + 1
        /\ space' = [space EXCEPT ![current_space][next_slot] = v]
    BY DEF F64AllocSome
  <1>3. space'[current_space][next_slot] = v
    BY <1>1, <1>2
  <1> QED BY <1>1, <1>2, <1>3 DEF FreshAt

\* Replacing one cell by a float of the current space, or by no float.
LEMMA FreshUpdate ==
  ASSUME NEW data \in Seq(AnyEnum), NEW i \in DOMAIN data, NEW c \in AnyEnum,
         NEW s, NEW sp, NEW n,
         FreshData(data, s, sp, n), c.k = "f64" => FreshAt(c, s, sp, n)
  PROVE  FreshData([data EXCEPT ![i] = c], s, sp, n)
  <1> DEFINE d == [data EXCEPT ![i] = c]
  <1>1. DOMAIN d = DOMAIN data /\ d[i] = c /\ \A j \in DOMAIN data \ {i} : d[j] = data[j]
    OBVIOUS
  <1> HIDE DEF d
  <1>2. FreshData(d, s, sp, n)
    BY <1>1 DEF FreshData, F64Cells
  <1> QED BY <1>2 DEF d

\* A store into one cell of an object.
LEMMA CellUpdate ==
  ASSUME Inv, NEW a \in Allocated, NEW i \in DOMAIN heap[a].data, NEW c \in AnyEnum,
         heap' = [heap EXCEPT ![a].data[i] = c]
  PROVE  /\ heap'[a].data = [heap[a].data EXCEPT ![i] = c]
         /\ heap'[a].tag = heap[a].tag /\ heap'[a].size = heap[a].size
         /\ Allocated' = Allocated
         /\ \A b \in Allocated \ {a} : heap'[b] = heap[b]
  <1> DEFINE o == [heap[a] EXCEPT !.data[i] = c]
  <1>1. heap[a] \in Object /\ a \in Addr /\ heap \in [Addr -> Object \cup {None}]
    BY HeapType DEF Inv, TypeOK, Allocated
  <1>2. /\ o.data = [heap[a].data EXCEPT ![i] = c] /\ o.marked = heap[a].marked
        /\ o.tag = heap[a].tag /\ o.size = heap[a].size
    BY <1>1 DEF Object
  <1>3. o.data \in Seq(AnyEnum)
    BY <1>1, <1>2, TagsUpdate DEF Object
  <1>4. o \in Object
    BY <1>1, <1>2, <1>3 DEF Object
  <1>5. heap' = [heap EXCEPT ![a] = o]
    OBVIOUS
  <1> HIDE DEF o
  <1>6. heap'[a] = o /\ \A b \in Addr \ {a} : heap'[b] = heap[b]
    BY <1>1, <1>5
  <1>7. Allocated' = Allocated
    BY <1>1, <1>4, <1>6, NoneAssumption DEF Allocated
  <1> QED BY <1>2, <1>6, <1>7 DEF Allocated

\* It keeps the floats in the current space when it stores one from there.
LEMMA UpdateFresh ==
  ASSUME Inv, NEW a \in Allocated, NEW i \in DOMAIN heap[a].data, NEW c \in AnyEnum,
         heap' = [heap EXCEPT ![a].data[i] = c],
         \A b \in Allocated : FreshData(heap[b].data, current_space', space', next_slot'),
         c.k = "f64" => FreshAt(c, current_space', space', next_slot')
  PROVE  AllFresh'
  <1>1. /\ heap'[a].data = [heap[a].data EXCEPT ![i] = c]
        /\ Allocated' = Allocated
        /\ \A b \in Allocated \ {a} : heap'[b] = heap[b]
    BY CellUpdate
  <1>2. heap[a].data \in Seq(AnyEnum)
    BY HeapType DEF Inv, Object
  <1>3. FreshData(heap'[a].data, current_space', space', next_slot')
    BY <1>1, <1>2, FreshUpdate
  <1> QED BY <1>1, <1>3 DEF AllFresh

\* What the client stores was in the current space where it loaded it.
LEMMA WriteCells ==
  ASSUME Inv, AllFresh, NEW v \in Storable, NEW a \in Writable, NEW i \in DOMAIN heap[a].data,
         Write(a, i, v)
  PROVE  AllFresh'
  <1>1. v \in AnyEnum /\ a \in Allocated
    BY StorableType DEF Writable
  <1>2. v.k = "f64" => FreshAt(v, current_space, space, next_slot)
    <2> SUFFICES ASSUME v.k = "f64" PROVE FreshAt(v, current_space, space, next_slot)
      OBVIOUS
    <2>1. v \in Loaded
      BY DEF Storable, Imm, PtrTo
    <2>2. PICK b \in Allocated : v \in Range(heap[b].data)
      BY <2>1 DEF Loaded, Writable
    <2>3. PICK j \in DOMAIN heap[b].data : v = heap[b].data[j]
      BY <2>2 DEF Range
    <2>4. j \in F64Cells(heap[b].data)
      BY <2>3 DEF F64Cells
    <2> QED BY <2>2, <2>3, <2>4 DEF AllFresh, FreshData
  <1>3. UNCHANGED <<current_space, space, next_slot>> /\ heap' = [heap EXCEPT ![a].data[i] = v]
    BY DEF Write, f64_vars
  <1>4. \A b \in Allocated : FreshData(heap[b].data, current_space', space', next_slot')
    BY <1>3 DEF AllFresh
  <1> QED BY <1>1, <1>2, <1>3, <1>4, UpdateFresh

\* A successful attempt: new objects have no floats, and a float is boxed into
\* the current space.
LEMMA AllocOkCells ==
  ASSUME Inv, AllFresh, pc \in {"run", "retry"}, NEW r, Safe(r), Plain(r), AllocOk(r),
         shadow_stack' = shadow_stack
  PROVE  AllFresh'
  <1>1. F64TypeOK /\ next_slot < LEN /\ pc # "sweep"
    BY DEF Inv, TypeOK, F64Inv
  <1>2. \A data : F64Cells(data) = {} => FreshData(data, current_space', space', next_slot')
    BY DEF FreshData
  <1>3. UNCHANGED f64_vars => \A b \in Allocated : FreshData(heap[b].data, current_space', space', next_slot')
    BY DEF AllFresh, f64_vars
  <1>4. CASE r.op = "alloc"
    <2>1. PICK a \in Addr : alloc_raw(a, r.tag, r.size, r.data)
      BY <1>4 DEF AllocOk
    <2>2. UNCHANGED f64_vars
      BY <1>4 DEF AllocOk
    <2>3. r.tag \in TagWord /\ r.size \in Nat /\ r.data \in Seq(AnyEnum) /\ Tags(r.data) \cap Addr \subseteq Reach
      BY <1>4, RequestType DEF Safe
    <2>4. /\ Allocated' = Allocated \cup {a} /\ heap'[a].data = r.data
          /\ \A b \in Allocated : heap'[b] = heap[b]
      BY <1>1, <2>1, <2>3, RawAdds
    <2> QED BY <1>2, <1>3, <1>4, <2>2, <2>4 DEF AllFresh, Plain
  <1>5. CASE r.op = "object"
    <2>1. PICK d, o \in Addr : alloc_object(d, o, r.tag, r.size, r.data)
      BY <1>5 DEF AllocOk
    <2>2. UNCHANGED f64_vars
      BY <1>5 DEF AllocOk
    <2>3. r.tag \in TagWord /\ r.size \in Nat /\ r.data \in Seq(AnyEnum) /\ Tags(r.data) \cap Addr \subseteq Reach
      BY <1>5, RequestType DEF Safe
    <2>4. /\ Allocated' = Allocated \cup {d, o} /\ heap'[d].data = r.data
          /\ heap'[o].data = <<PtrTo(d)>>
          /\ \A b \in Allocated : heap'[b] = heap[b]
      BY <1>1, <2>1, <2>3, ObjectAdds
    <2>5. F64Cells(<<PtrTo(d)>>) = {}
      BY DEF F64Cells, PtrTo
    <2> QED BY <1>2, <1>3, <1>5, <2>2, <2>4, <2>5 DEF AllFresh, Plain
  <1>6. CASE r.op = "f64"
    <2>1. F64AllocSome(r.val) /\ heap' = [heap EXCEPT ![r.at].data[r.cell] = F64Next(r.val)]
      BY <1>6 DEF AllocOk
    <2>2. r.at \in Allocated /\ r.cell \in DOMAIN heap[r.at].data /\ r.val \in Val
      BY <1>6, RequestType, InvNoDangling DEF Safe, Allocated, NoDangling
    <2>3. F64Next(r.val) \in AnyEnum
      BY <1>1, <2>1, <2>2, F64SomeType
    <2>4. FreshAt(F64Next(r.val), current_space', space', next_slot')
      BY <1>1, <2>1, <2>2, FreshMade DEF F64Next
    <2>5. \A b \in Allocated : FreshData(heap[b].data, current_space', space', next_slot')
      <3> SUFFICES ASSUME NEW b \in Allocated
                   PROVE  FreshData(heap[b].data, current_space', space', next_slot')
        OBVIOUS
      <3>1. heap[b].data \in Seq(AnyEnum)
        BY HeapType DEF Inv, Object
      <3>2. FreshData(heap[b].data, current_space, space, next_slot)
        BY DEF AllFresh
      <3> QED BY <1>1, <2>1, <2>2, <3>1, <3>2, FreshKept
    <2> QED BY <2>1, <2>2, <2>3, <2>4, <2>5, UpdateFresh
  <1> QED BY <1>4, <1>5, <1>6 DEF AllocOk

\* A refused attempt leaves at most an object without floats.
LEMMA AllocFailsCells ==
  ASSUME Inv, AllFresh, pc \in {"run", "retry"}, NEW r, Safe(r), Plain(r), AllocFails(r),
         shadow_stack' = shadow_stack
  PROVE  AllFresh'
  <1>1. F64TypeOK /\ next_slot < LEN /\ pc # "sweep"
    BY DEF Inv, TypeOK, F64Inv
  <1>2. CASE UNCHANGED <<heap, f64_vars>>
    BY <1>2 DEF AllFresh, Allocated, f64_vars
  <1>3. CASE r.op = "object" /\ UNCHANGED f64_vars /\ \E a \in Addr : alloc_raw(a, r.tag, r.size, r.data)
    <2>1. PICK a \in Addr : alloc_raw(a, r.tag, r.size, r.data)
      BY <1>3
    <2>2. r.tag \in TagWord /\ r.size \in Nat /\ r.data \in Seq(AnyEnum) /\ Tags(r.data) \cap Addr \subseteq Reach
      BY <1>3, RequestType DEF Safe
    <2>3. /\ Allocated' = Allocated \cup {a} /\ heap'[a].data = r.data
          /\ \A b \in Allocated : heap'[b] = heap[b]
      BY <1>1, <2>1, <2>2, RawAdds
    <2>4. FreshData(r.data, current_space', space', next_slot')
      BY <1>3 DEF Plain, FreshData
    <2> QED BY <1>3, <2>3, <2>4 DEF AllFresh, f64_vars
  <1>4. CASE F64AllocNone /\ UNCHANGED heap_vars
    <2>1. Allocated' = Allocated /\ heap' = heap
      BY <1>4 DEF heap_vars, Allocated
    <2> SUFFICES ASSUME NEW b \in Allocated
                 PROVE  FreshData(heap[b].data, current_space', space', next_slot')
      BY <2>1 DEF AllFresh
    <2>2. heap[b].data \in Seq(AnyEnum)
      BY HeapType DEF Inv, Object
    <2>3. FreshData(heap[b].data, current_space, space, next_slot)
      BY DEF AllFresh
    <2> QED BY <1>1, <1>4, <2>2, <2>3, FreshKept, ValAssumption
  <1> QED BY <1>2, <1>3, <1>4 DEF AllocFails, heap_vars

\* The client asks for objects without floats.
LEMMA WantedPlain == ASSUME NEW r \in Wanted PROVE Plain(r)
  <1> SUFFICES ASSUME r.op \in {"alloc", "object"} PROVE F64Cells(r.data) = {}
    BY DEF Plain
  <1>1. PICK kd \in Kinds : r \in Wants("alloc", kd) \cup Wants("object", kd)
    BY WantedKind
  <1> DEFINE Cell == {Imm} \cup {PtrTo(p) : p \in Reach \cup Static}
  <1>2. r.data \in [1 .. kd.cells -> Cell]
    BY <1>1, WantedCells
  <1>3. \A c \in Cell : c.k # "f64"
    BY DEF Imm, PtrTo
  <1> QED BY <1>2, <1>3 DEF F64Cells

\* The request that waits is the one that was refused.
LEMMA PlainStep ==
  ASSUME Inv, PlainInv, [Next]_vars
  PROVE  PlainInv'
  <1> USE DEF PlainInv, Waiting
  <1>1. CASE \E r \in Wanted : alloc_or_gc(r)
    BY <1>1, WantedPlain DEF alloc_or_gc, Plain
  <1>2. CASE run_gc
    BY <1>2 DEF run_gc, Plain
  <1>3. CASE Client /\ ~run_gc /\ ~\E r \in Wanted : alloc_or_gc(r)
    BY <1>3 DEF Client, push_shadow_frame, pop_shadow_frame, set_in_current_shadow_frame_slot,
                set_in_shadow_frame_slot, Stack, Write
  <1>4. CASE Retry
    BY <1>4 DEF Retry
  <1>5. CASE Collect /\ ~Retry
    <2>1. req' = req /\ pc \in Waiting
      BY <1>5 DEF Collect, gc, MarkSkip, MarkObject, MarkStatic, CopyF64, CopyDone, SwapRoots,
                  SweepKeep, SweepFree, SweepDone
    <2> QED BY <2>1 DEF Plain
  <1>6. CASE UNCHANGED vars
    BY <1>6 DEF vars, Plain
  <1> QED BY <1>1, <1>2, <1>3, <1>4, <1>5, <1>6 DEF Next, Trapped

\* The client and the retried allocation keep every float in the current space.
LEMMA ClientCells ==
  ASSUME Inv, FloatInv, Client
  PROVE  CellInv'
  <1>0. pc = "run" /\ AllFresh
    BY DEF Client, FloatInv, CellInv
  <1> SUFFICES pc' \in {"run", "gc"} /\ AllFresh'
    BY DEF CellInv
  <1>1. CASE UNCHANGED <<heap, f64_vars>> /\ pc' \in {"run", "gc"}
    BY <1>0, <1>1 DEF AllFresh, Allocated, f64_vars
  <1>2. CASE \E v \in Storable, a \in Writable : \E i \in DOMAIN heap[a].data : Write(a, i, v)
    BY <1>0, <1>2, WriteCells DEF Write
  <1>3. CASE \E r \in Wanted : alloc_or_gc(r)
    <2>1. PICK r \in Wanted : alloc_or_gc(r)
      BY <1>3
    <2>2. Safe(r) /\ Plain(r) /\ shadow_stack' = shadow_stack
      BY <2>1, WantedSafe, WantedPlain DEF alloc_or_gc
    <2>3. (AllocOk(r) \/ AllocFails(r)) /\ pc' \in {"run", "gc"}
      BY <1>0, <2>1 DEF alloc_or_gc
    <2> QED BY <1>0, <2>2, <2>3, AllocOkCells, AllocFailsCells
  <1>4. CASE run_gc
    BY <1>1, <1>4 DEF run_gc, heap_vars
  <1>5. CASE \/ \E n \in 1 .. FrameSlots : push_shadow_frame(n)
             \/ pop_shadow_frame
             \/ \E ptr \in Holdable \cup {None}, slot \in 1 .. FrameSlots :
                   \/ set_in_current_shadow_frame_slot(slot, ptr)
                   \/ set_in_shadow_frame_slot(1, slot, ptr)
    BY <1>0, <1>1, <1>5 DEF push_shadow_frame, pop_shadow_frame, set_in_current_shadow_frame_slot,
                            set_in_shadow_frame_slot, Stack, heap_vars
  <1> QED BY <1>2, <1>3, <1>4, <1>5 DEF Client

\* The second attempt.
LEMMA RetryCells ==
  ASSUME Inv, FloatInv, Retry
  PROVE  CellInv'
  <1>1. /\ pc = "retry" /\ AllFresh /\ Safe(req) /\ Plain(req) /\ shadow_stack' = shadow_stack
        /\ pc' \in {"run", "oom", "oom_f64"}
    BY DEF Retry, FloatInv, CellInv, PlainInv, Waiting, Inv, ReqInv
  <1> SUFFICES AllFresh'
    BY <1>1 DEF CellInv
  <1>2. CASE UNCHANGED <<heap_vars, f64_vars>>
    BY <1>1, <1>2 DEF AllFresh, Allocated, f64_vars, heap_vars
  <1>3. CASE AllocOk(req) \/ AllocFails(req)
    BY <1>1, <1>3, AllocOkCells, AllocFailsCells
  <1> QED BY <1>2, <1>3 DEF Retry

\* The start of a collection makes every float one of the other space.
LEMMA GcCells ==
  ASSUME Inv, QueueInv, FloatInv, gc
  PROVE  CellInv'
  <1>1. /\ pc = "gc" /\ pc' = "mark" /\ heap' = heap /\ f64s' = f64s /\ f64s = {} /\ AllFresh /\ Marked = {}
        /\ current_space' = 1 - current_space /\ space' = space
    BY DEF gc, heap_vars, QueueInv, FloatInv, CellInv, Inv, MarkInv, semispace_swap
  <1>2. Allocated' = Allocated /\ current_space # 1 - current_space
    BY <1>1 DEF Allocated, Inv, TypeOK, F64TypeOK
  <1> SUFFICES ASSUME NEW a \in Allocated
               PROVE  CopiedAt(heap[a], Todo(a)', current_space', space', next_slot')
    BY <1>1, <1>2 DEF CellInv
  <1>3. ~heap[a].marked /\ FreshData(heap[a].data, current_space, space, next_slot)
    BY <1>1 DEF AllFresh, Marked
  <1> QED BY <1>1, <1>2, <1>3 DEF CopiedAt, FreshData, FreshAt, StaleAt

\* Marking an object queues all of its floats: they are still in the old space.
LEMMA MarkObjectCells ==
  ASSUME Inv, QueueInv, FloatInv, NEW root \in current_roots, MarkObject(root)
  PROVE  CellInv'
  <1>1. /\ root \in Allocated /\ root \notin Marked /\ Allocated' = Allocated /\ Marked' = Marked \cup {root}
        /\ \A b \in Allocated : heap'[b].data = heap[b].data
    BY MarkObjectHeap
  <1>2. /\ pc = "mark" /\ pc' = "copy" /\ UNCHANGED <<current_space, space, next_slot>> /\ f64s = {}
        /\ f64s' = {<<root, i>> : i \in F64Cells(heap[root].data)}
    BY DEF MarkObject, f64_vars, QueueInv
  <1>0. \A c \in f64s' : c[1] \in Marked'
    BY <1>1, <1>2
  <1> SUFFICES ASSUME NEW a \in Allocated
               PROVE  CopiedAt(heap'[a], Todo(a)', current_space', space', next_slot')
    BY <1>0, <1>1, <1>2 DEF CellInv
  <1>3. CopiedAt(heap[a], Todo(a), current_space, space, next_slot) /\ Todo(a) = {}
    BY <1>2 DEF FloatInv, CellInv, Todo
  <1>4. CASE a = root
    <2>1. Todo(a)' = F64Cells(heap[a].data) /\ heap'[a].data = heap[a].data
      BY <1>1, <1>2, <1>4 DEF Todo
    <2>2. ~heap[a].marked
      BY <1>1, <1>4 DEF Marked
    <2> QED BY <1>2, <1>3, <2>1, <2>2 DEF CopiedAt
  <1>5. CASE a # root
    <2>1. Todo(a)' = {} /\ heap'[a].data = heap[a].data
      BY <1>1, <1>2, <1>5 DEF Todo
    <2>2. heap'[a].marked <=> heap[a].marked
      BY <1>1, <1>5 DEF Marked
    <2> QED BY <1>2, <1>3, <2>1, <2>2 DEF CopiedAt
  <1> QED BY <1>4, <1>5

\* Copying one float: the copy reads what the original read, and the write
\* touches neither the originals nor the copies made before.
LEMMA CopyF64Cells ==
  ASSUME Inv, FloatInv, NEW c \in f64s, CopyF64(c[1], c[2])
  PROVE  CellInv'
  <1> DEFINE a == c[1]
             i == c[2]
             old == heap[a].data[i]
             new == [k |-> "f64", space |-> current_space, index |-> next_slot, val |-> old.val]
  <1>1. F64TypeOK /\ next_slot < LEN /\ pc = "copy"
    BY DEF CopyF64, Inv, TypeOK, F64Inv
  <1>2. /\ c = <<a, i>> /\ a \in Allocated
        /\ heap[a].data \in Seq(AnyEnum) /\ i \in F64Cells(heap[a].data)
        /\ \/ /\ F64AllocSome(F64Read(old))
              /\ f64s' = f64s \ {c} /\ pc' = "copy"
              /\ Allocated' = Allocated
              /\ new \in AnyEnum
              /\ heap'[a].data = [heap[a].data EXCEPT ![i] = new]
              /\ \A b \in Allocated : heap'[b].marked = heap[b].marked
              /\ \A b \in Allocated \ {a} : heap'[b] = heap[b]
           \/ F64AllocNone /\ pc' = "oom_copy" /\ UNCHANGED <<heap, f64s>>
    BY CopyF64Heap
  <1>3. i \in DOMAIN heap[a].data /\ old \in AnyEnum /\ old.k = "f64"
    BY <1>2 DEF F64Cells
  <1>4. \A b \in Allocated : CopiedAt(heap[b], Todo(b), current_space, space, next_slot)
    BY <1>1 DEF FloatInv, CellInv
  <1>5. i \in Todo(a)
    BY <1>2 DEF Todo
  <1>6. F64Read(old) = old.val /\ old.val \in Val
    <2>1. StaleAt(old, current_space, space)
      BY <1>2, <1>4, <1>5 DEF CopiedAt
    <2> QED BY <1>3, <2>1, F64Fields DEF StaleAt, F64Read
  <1>7. next_slot \in Slots /\ current_space \in {0, 1} /\ space \in [{0, 1} -> [Slots -> Val]]
    BY <1>1, LENAssumption DEF F64TypeOK, Slots
  <1>8. ASSUME NEW d \in AnyEnum, d.k = "f64",
               F64AllocSome(old.val) \/ F64AllocNone
        PROVE  /\ FreshAt(d, current_space, space, next_slot) => FreshAt(d, current_space', space', next_slot')
               /\ StaleAt(d, current_space, space) => StaleAt(d, current_space', space')
    <2>1. CASE F64AllocSome(old.val)
      <3>1. current_space' = current_space /\ next_slot' = next_slot + 1
            /\ space' = [space EXCEPT ![current_space][next_slot] = old.val]
        BY <2>1 DEF F64AllocSome
      <3> HIDE DEF old
      <3> QED BY <1>6, <1>7, <1>8, <3>1, WriteSpares
    <2>2. CASE F64AllocNone
      <3>1. current_space' = current_space /\ next_slot' = next_slot + 1 /\ space' = space
        BY <2>2 DEF F64AllocNone
      <3>2. d.index \in Int /\ next_slot \in Int
        BY <1>7, <1>8, F64Fields DEF Slots
      <3>3. d.index < next_slot => d.index < next_slot + 1
        BY <3>2
      <3> QED BY <3>1, <3>3 DEF FreshAt, StaleAt
    <2> QED BY <1>8, <2>1, <2>2
  <1> HIDE DEF a, i, old, new
  <1>9. \A b \in Allocated : \A j \in F64Cells(heap[b].data) : heap[b].data[j] \in AnyEnum /\ heap[b].data[j].k = "f64"
    <2> SUFFICES ASSUME NEW b \in Allocated, NEW j \in F64Cells(heap[b].data)
                 PROVE  heap[b].data[j] \in AnyEnum /\ heap[b].data[j].k = "f64"
      OBVIOUS
    <2>1. heap[b].data \in Seq(AnyEnum)
      BY HeapType DEF Inv, Object
    <2> QED BY <2>1 DEF F64Cells
  <1>10. ASSUME NEW b \in Allocated, F64AllocSome(old.val) \/ F64AllocNone
         PROVE  CopiedAt(heap[b], Todo(b), current_space', space', next_slot')
    BY <1>4, <1>8, <1>9, <1>10 DEF CopiedAt
  <1>11. CASE F64AllocNone /\ pc' = "oom_copy" /\ UNCHANGED <<heap, f64s>>
    <2>1. Allocated' = Allocated /\ \A b : Todo(b)' = Todo(b)
      BY <1>11 DEF Allocated, Todo
    <2> QED BY <1>10, <1>11, <2>1 DEF CellInv
  <1>12. CASE F64AllocSome(F64Read(old)) /\ pc' = "copy"
    <2>1. F64AllocSome(old.val)
      BY <1>6, <1>12
    <2>2. /\ f64s' = f64s \ {c} /\ Allocated' = Allocated /\ new \in AnyEnum
          /\ heap'[a].data = [heap[a].data EXCEPT ![i] = new]
          /\ \A b \in Allocated : heap'[b].marked = heap[b].marked
          /\ \A b \in Allocated \ {a} : heap'[b] = heap[b]
          /\ \A d \in f64s' : d[1] \in Marked'
      <3>1. Marked' = Marked
        BY <1>2, <1>12 DEF Marked
      <3>2. \A d \in f64s : d[1] \in Marked
        BY <1>1 DEF FloatInv, CellInv
      <3> QED BY <1>2, <1>12, <3>1, <3>2
    <2>3. new.k = "f64" /\ FreshAt(new, current_space', space', next_slot')
      BY <1>1, <1>6, <2>1, FreshMade DEF new
    <2> SUFFICES ASSUME NEW b \in Allocated
                 PROVE  CopiedAt(heap'[b], Todo(b)', current_space', space', next_slot')
      BY <1>12, <2>2 DEF CellInv
    <2>4. CopiedAt(heap[b], Todo(b), current_space', space', next_slot')
      BY <1>10, <2>1
    <2>5. CASE b # a
      <3>1. Todo(b)' = Todo(b) /\ heap'[b] = heap[b]
        BY <1>2, <2>2, <2>5 DEF Todo
      <3> QED BY <2>4, <3>1
    <2>6. CASE b = a
      <3>1. /\ DOMAIN heap'[a].data = DOMAIN heap[a].data /\ heap'[a].data[i] = new
            /\ \A j \in DOMAIN heap[a].data \ {i} : heap'[a].data[j] = heap[a].data[j]
        BY <1>2, <1>3, <2>2
      <3>2. F64Cells(heap'[a].data) = F64Cells(heap[a].data)
        BY <1>2, <2>3, <3>1 DEF F64Cells
      <3>3. Todo(a)' = Todo(a) \ {i}
        BY <1>2, <2>2, <3>2 DEF Todo
      <3>4. heap[a].marked /\ heap'[a].marked
        <4>1. heap[a].marked
          BY <1>1, <1>2 DEF FloatInv, CellInv, Marked, a
        <4> QED BY <1>2, <2>2, <4>1
      <3> SUFFICES ASSUME NEW j \in F64Cells(heap[a].data)
                   PROVE  IF j \notin Todo(a) \ {i}
                          THEN FreshAt(heap'[a].data[j], current_space', space', next_slot')
                          ELSE StaleAt(heap'[a].data[j], current_space', space')
        BY <2>6, <3>2, <3>3, <3>4 DEF CopiedAt
      <3>5. CASE j = i
        BY <2>3, <3>1, <3>5
      <3>6. CASE j # i
        <4>1. heap'[a].data[j] = heap[a].data[j]
          BY <3>1, <3>6 DEF F64Cells
        <4> QED BY <2>4, <2>6, <3>4, <3>6, <4>1 DEF CopiedAt
      <3> QED BY <3>5, <3>6
    <2> QED BY <2>5, <2>6
  <1> QED BY <1>2, <1>11, <1>12

\* The sweep keeps the floats of what it keeps.
LEMMA SweepCells ==
  ASSUME Inv, FloatInv, SweepKeep \/ SweepFree \/ SweepDone
  PROVE  CellInv'
  <1>1. /\ pc = "sweep" /\ UNCHANGED <<current_space, space, next_slot>>
        /\ \A a \in Live : FreshData(heap[a].data, current_space, space, next_slot)
    BY DEF FloatInv, CellInv, SweepKeep, SweepFree, SweepDone, f64_vars
  <1>2. CASE SweepKeep
    <2>1. Live' = Live /\ Live \subseteq Allocated /\ \A b \in Allocated : heap'[b].data = heap[b].data
      BY <1>2, SweepKeepHeap, LiveAllocated DEF Inv
    <2> QED BY <1>1, <1>2, <2>1 DEF SweepKeep, CellInv
  <1>3. CASE SweepFree
    <2>1. Live' = Live /\ \A b \in Live : heap'[b] = heap[b]
      BY <1>3, SweepFreeHeap
    <2> QED BY <1>1, <1>3, <2>1 DEF SweepFree, CellInv
  <1>4. CASE SweepDone
    <2>1. Range(<<>>) = {}
      BY DEF Range
    <2>2. Allocated \subseteq Live /\ Allocated' = Allocated /\ heap' = heap
      BY <1>4, <2>1 DEF SweepDone, Inv, ListInv, Live, Allocated
    <2> QED BY <1>1, <1>4, <2>2 DEF SweepDone, CellInv, AllFresh
  <1> QED BY <1>2, <1>3, <1>4

\* The other steps of the mark phase move nothing; when it ends every marked
\* object has all of its floats in the new space.
LEMMA TraceCells ==
  ASSUME Inv, QueueInv, FloatInv,
         CopyDone \/ SwapRoots \/ \E root \in current_roots : MarkSkip(root) \/ MarkStatic(root)
  PROVE  CellInv'
  <1>1. /\ pc \in {"mark", "copy"} /\ pc' \in {"mark", "sweep"} /\ UNCHANGED <<heap, kept, f64s>>
        /\ UNCHANGED <<current_space, space, next_slot>>
        /\ pc' = "sweep" => pc = "mark"
    BY DEF CopyDone, SwapRoots, MarkSkip, MarkStatic, f64_vars, heap_vars, mark_vars
  <1>2. Allocated' = Allocated /\ Marked' = Marked /\ \A a : Todo(a)' = Todo(a)
    BY <1>1 DEF Allocated, Marked, Todo
  <1>3. \A a \in Allocated : CopiedAt(heap[a], Todo(a), current_space, space, next_slot)
    BY <1>1 DEF FloatInv, CellInv
  <1>4. CASE pc' = "mark"
    BY <1>1, <1>2, <1>3, <1>4 DEF CellInv
  <1>5. CASE pc' = "sweep"
    <2>1. Range(<<>>) = {}
      BY DEF Range
    <2>2. Live' = Marked /\ f64s = {}
      BY <1>1, <1>2, <1>5, <2>1 DEF Live, Inv, ListInv, QueueInv
    <2>3. \A a \in Marked : FreshData(heap[a].data, current_space, space, next_slot)
      BY <1>3, <2>2 DEF Marked, Todo, CopiedAt, FreshData
    <2> QED BY <1>1, <1>5, <2>2, <2>3 DEF CellInv
  <1> QED BY <1>1, <1>4, <1>5

\* Every step keeps every float in the space its cell says.
LEMMA FloatStep ==
  ASSUME Inv, QueueInv, FloatInv, [Next]_vars
  PROVE  FloatInv'
  <1>1. CASE UNCHANGED vars
    <2>1. /\ UNCHANGED <<heap, kept, f64s, pc>>
          /\ UNCHANGED <<current_space, space, next_slot>>
      BY <1>1 DEF vars, f64_vars, heap_vars, mark_vars
    <2>2. Allocated' = Allocated /\ Marked' = Marked /\ Live' = Live /\ \A a : Todo(a)' = Todo(a)
      BY <2>1 DEF Allocated, Marked, Live, Todo
    <2>3. AllFresh' <=> AllFresh
      BY <2>1, <2>2 DEF AllFresh
    <2>4. CellInv'
      BY <2>1, <2>2, <2>3 DEF FloatInv, CellInv
    <2> QED BY <2>4, PlainStep DEF FloatInv
  <1>2. ASSUME Next PROVE CellInv' \/ UNCHANGED vars
    BY <1>2, ClientCells, RetryCells, GcCells, MarkObjectCells, CopyF64Cells, SweepCells, TraceCells
       DEF Next, Collect, Trapped
  <1> QED BY <1>1, <1>2, PlainStep DEF FloatInv

\* Every float cell of an object that may still be used is in the space where
\* the phase of the collector has it, and reads what was boxed.
THEOREM FloatsInPlace == Spec => []FloatInv
  <1>1. Init => FloatInv
    <2> SUFFICES ASSUME Init PROVE FloatInv
      OBVIOUS
    <2>1. Allocated = {} /\ pc = "run"
      BY DEF Init, Allocated
    <2> QED BY <2>1 DEF FloatInv, CellInv, AllFresh, PlainInv, Waiting
  <1>2. Inv /\ QueueInv /\ FloatInv /\ [Next]_vars => FloatInv'
    BY FloatStep
  <1> QED BY <1>1, <1>2, Invariance, MarksOnlyReachable, PTL DEF Spec

\* The two invariants say what a reader of a float sees.
LEMMA FloatIntact ==
  ASSUME Inv, FloatInv
  PROVE  F64Intact
  <1> SUFFICES ASSUME NEW a \in Reach \cap Allocated, NEW i \in F64Cells(heap[a].data)
               PROVE  F64Read(heap[a].data[i]) = heap[a].data[i].val
    BY DEF F64Intact
  <1> USE DEF F64Read, FloatInv, CellInv
  <1>1. pc \in PCs
    BY DEF Inv, TypeOK
  <1>2. CASE pc \in {"run", "gc", "retry", "oom", "oom_f64"}
    BY <1>2 DEF AllFresh, FreshData, FreshAt
  <1>3. CASE pc \in {"mark", "copy", "oom_copy"}
    BY <1>3 DEF CopiedAt, FreshAt, StaleAt
  <1>4. CASE pc = "sweep"
    <2>1. a \in Live
      BY <1>4, ReachLeast, LiveAllocated DEF Inv, SweepInv, Allocated
    <2> QED BY <1>4, <2>1 DEF FreshData, FreshAt
  <1> QED BY <1>1, <1>2, <1>3, <1>4 DEF PCs, Panics

\* A float the program can reach has the value that was boxed, at every moment
\* of every collection that moves it.
THEOREM FloatsIntact == Spec => []F64Intact
  <1>1. Inv /\ FloatInv => F64Intact
    BY FloatIntact
  <1> QED BY <1>1, Invariance, FloatsInPlace, PTL
=============================================================================
