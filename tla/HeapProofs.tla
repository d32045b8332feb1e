----------------------------- MODULE HeapProofs -----------------------------
(***************************************************************************)
(* Safety of the collector for every heap: any set of addresses, any size, *)
(* any shapes, any depth of the shadow stack.  TypeOK and NoDangling are   *)
(* not inductive: a retried allocation stores into an object that has to   *)
(* have survived the collection, and a half-done mark or sweep says        *)
(* nothing by itself about what is still to be followed or freed.  Inv     *)
(* adds, for each phase, what the collector has established so far.        *)
(***************************************************************************)
EXTENDS Heap, SequenceTheorems, TLAPS

Waiting == {"gc", "mark", "copy", "sweep", "retry"}

\* Whoever calls alloc finds a slot below LEN: gc resets next_slot after every
\* refused call, and nothing calls alloc between the refusal and the reset.
F64Inv == pc \in {"run", "mark", "copy", "sweep", "retry"} => next_slot < LEN

\* The list holds each allocated object exactly once.
Distinct(s) == \A i, j \in DOMAIN s : s[i] = s[j] => i = j
ListInv ==
    /\ Range(kept) \cup Range(to) = Allocated
    /\ Distinct(kept) /\ Distinct(to)
    /\ Range(kept) \cap Range(to) = {}
    /\ pc # "sweep" => kept = <<>>

\* No mark outlives a collection.
MarkInv ==
    /\ pc \in {"run", "gc", "retry"} => Marked = {}
    /\ pc = "sweep" => Range(kept) \cap Marked = {}

\* Except while the sweep frees it, no object, dead or alive, dangles.
ClosedInv == pc # "sweep" => Closed(Roots, Allocated)

HandInv == hand \in Allocated \cup {None} /\ (pc # "run" => hand = None)

\* Marking: roots and children of marked objects are marked or queued.
Seen == Marked \cup current_roots \cup new_roots
TraceInv ==
    /\ pc \in {"mark", "copy"} =>
          /\ Roots \cap Addr \subseteq Seen
          /\ \A a \in Marked : Tags(heap[a].data) \cap Addr \subseteq Seen
    /\ pc = "copy" =>
          \A c \in f64s : c[1] \in Allocated /\ c[2] \in F64Cells(heap[c[1]].data)

\* Sweeping: what was kept and what is still marked is closed.
Live == Range(kept) \cup Marked
SweepInv == pc = "sweep" => Closed(Roots, Live)

\* What is swept for x is at most what was asked for, and just that unless
\* float references are allocated.
Sized(x) == Swept(x) <= x.size /\ (AllFollow => Follows(x))

\* The waiting allocation holds on to nothing the collection could free.
Safe(r) ==
    /\ r \in Requests
    /\ r.op \in {"alloc", "object"} => Tags(r.data) \cap Addr \subseteq Reach /\ Sized(r)
    /\ r.op = "f64" => /\ r.at \in Reach
                       /\ heap[r.at] # None => r.cell \in DOMAIN heap[r.at].data
ReqInv == pc \in Waiting => Safe(req)

Inv == /\ TypeOK /\ F64Inv /\ ListInv /\ MarkInv /\ ClosedInv
       /\ HandInv /\ TraceInv /\ SweepInv /\ ReqInv

-----------------------------------------------------------------------------
(* Lemmas about single states.                                              *)

\* The target of a pointer cell is a tag.
LEMMA CellType == ASSUME NEW v \in AnyEnum, v.k = "ptr" PROVE v.to \in Tag
  BY DEF AnyEnum, Imm

\* get_gc_ptrs of well-typed data yields tags.
LEMMA TagsType == ASSUME NEW data \in Seq(AnyEnum) PROVE Tags(data) \subseteq Tag
  BY CellType DEF Tags, PtrCells

\* Storing one cell adds at most the pointer that is stored.
LEMMA TagsUpdate ==
  ASSUME NEW data \in Seq(AnyEnum), NEW i \in DOMAIN data, NEW v \in AnyEnum
  PROVE  /\ [data EXCEPT ![i] = v] \in Seq(AnyEnum)
         /\ DOMAIN [data EXCEPT ![i] = v] = DOMAIN data
         /\ Tags([data EXCEPT ![i] = v]) \subseteq Tags(data) \cup (IF v.k = "ptr" THEN {v.to} ELSE {})
         /\ data[i].k # "ptr" /\ v.k # "ptr" => Tags([data EXCEPT ![i] = v]) = Tags(data)
  BY DEF Tags, PtrCells

\* get_data_size of every tag is a size.
LEMMA SweptType == ASSUME NEW x, x.tag \in TagWord PROVE Swept(x) \in Nat
  <1>1. x.tag.len \in Nat
    BY DEF TagWord
  <1> QED BY <1>1 DEF Swept, get_data_size, tag_size

\* The tag alloc_object writes in front of an ObjectPtr, and its size.
LEMMA ObjectPtrSize ==
  /\ ObjectPtrTag \in TagWord /\ ObjectSize \in Nat \ {0}
  /\ \A x : x.tag = ObjectPtrTag /\ x.size = ObjectSize => Sized(x)
  <1>1. ObjectPtrTag \in TagWord /\ ObjectPtrTag.type = "ObjectPtrPtr"
    BY DEF ObjectPtrTag, TagOf, TagWord, TypeTags
  <1>2. get_data_size(ObjectPtrTag) = 4
    BY <1>1 DEF get_data_size
  <1> QED BY <1>1, <1>2 DEF Sized, Swept, Follows, ObjectSize, tag_size

\* What is allocated is an object.
LEMMA HeapType ==
  ASSUME TypeOK, NEW a \in Allocated
  PROVE  heap[a] \in Object
  BY DEF TypeOK, Allocated

\* The shadow stack holds tags.
LEMMA RootsType == ASSUME TypeOK PROVE Roots \subseteq Tag
  BY DEF TypeOK, Roots, Range

\* Reach lies within every closed set; that is how freeing is shown harmless.
LEMMA ReachLeast ==
  ASSUME NEW S \in SUBSET Addr, Closed(Roots, S) PROVE Reach \subseteq S
  BY DEF Reach, ReachFrom

\* Live objects are allocated: the list has nothing else.
LEMMA LiveAllocated == ASSUME TypeOK, ListInv PROVE Live \subseteq Allocated
  BY DEF Live, ListInv, Marked

\* The invariant implies that nothing reachable has been freed.
LEMMA InvNoDangling == ASSUME Inv PROVE NoDangling
  <1>1. Allocated \subseteq Addr
    BY DEF Allocated
  <1>2. CASE pc # "sweep"
    BY <1>1, <1>2, ReachLeast DEF Inv, ClosedInv, NoDangling, Allocated
  <1>3. CASE pc = "sweep"
    BY <1>1, <1>3, ReachLeast, LiveAllocated DEF Inv, SweepInv, NoDangling, Allocated
  <1> QED BY <1>2, <1>3

-----------------------------------------------------------------------------
(* The allocation list.                                                     *)

\* AllocList::insert at the front: what it holds and that it holds it once.
LEMMA PushFront ==
  ASSUME NEW S, NEW s \in Seq(S), NEW a \in S
  PROVE  /\ <<a>> \o s \in Seq(S)
         /\ Range(<<a>> \o s) = Range(s) \cup {a}
         /\ Distinct(s) /\ a \notin Range(s) => Distinct(<<a>> \o s)
  <1> DEFINE t == <<a>> \o s
  <1>1. t \in Seq(S) /\ Len(t) = Len(s) + 1 /\ t[1] = a
    OBVIOUS
  <1>2. \A i \in 2 .. Len(t) : t[i] = s[i - 1]
    OBVIOUS
  <1>3. \A i \in 1 .. Len(s) : t[i + 1] = s[i]
    BY <1>2
  <1>4. DOMAIN s = 1 .. Len(s) /\ DOMAIN t = 1 .. Len(t) /\ Len(s) \in Nat
    BY <1>1
  <1> HIDE DEF t
  <1>5. Range(t) = Range(s) \cup {a}
    <2>1. \A x \in Range(t) : x \in Range(s) \cup {a}
      BY <1>1, <1>2, <1>4 DEF Range
    <2>2. \A x \in Range(s) : x \in Range(t)
      BY <1>1, <1>3, <1>4 DEF Range
    <2>3. a \in Range(t)
      BY <1>1, <1>4 DEF Range
    <2> QED BY <2>1, <2>2, <2>3
  <1>6. Distinct(s) /\ a \notin Range(s) => Distinct(t)
    <2> SUFFICES ASSUME Distinct(s), a \notin Range(s),
                        NEW i \in 1 .. Len(t), NEW j \in 1 .. Len(t), t[i] = t[j]
                 PROVE  i = j
      BY <1>4 DEF Distinct
    <2>1. \A k \in 2 .. Len(t) : t[k] = s[k - 1] /\ k - 1 \in DOMAIN s
      BY <1>1, <1>2, <1>4
    <2>2. \A k \in 2 .. Len(t) : t[k] # a
      BY <2>1 DEF Range
    <2>3. CASE i = 1 \/ j = 1
      BY <1>1, <1>4, <2>2, <2>3
    <2>4. CASE i # 1 /\ j # 1
      <3>1. i - 1 \in DOMAIN s /\ j - 1 \in DOMAIN s /\ s[i - 1] = s[j - 1]
        BY <2>1, <2>4, <1>1, <1>4
      <3> QED BY <3>1, <2>4 DEF Distinct
    <2> QED BY <2>3, <2>4
  <1> QED BY <1>1, <1>5, <1>6 DEF t

\* The same for the part of the list behind the cursor.
LEMMA PushBack ==
  ASSUME NEW S, NEW s \in Seq(S), NEW a \in S
  PROVE  /\ Append(s, a) \in Seq(S)
         /\ Range(Append(s, a)) = Range(s) \cup {a}
         /\ Distinct(s) /\ a \notin Range(s) => Distinct(Append(s, a))
  <1> DEFINE t == Append(s, a)
  <1>1. /\ t \in Seq(S) /\ DOMAIN t = 1 .. Len(s) + 1 /\ t[Len(s) + 1] = a
        /\ Len(s) \in Nat /\ DOMAIN s = 1 .. Len(s)
    OBVIOUS
  <1>2. \A i \in 1 .. Len(s) : t[i] = s[i]
    OBVIOUS
  <1> HIDE DEF t
  <1>3. Range(t) = Range(s) \cup {a}
    <2>1. \A x \in Range(t) : x \in Range(s) \cup {a}
      <3> SUFFICES ASSUME NEW i \in DOMAIN t PROVE t[i] \in Range(s) \cup {a}
        BY DEF Range
      <3>1. i = Len(s) + 1 \/ i \in 1 .. Len(s)
        BY <1>1
      <3> QED BY <3>1, <1>1, <1>2 DEF Range
    <2>2. \A x \in Range(s) : x \in Range(t)
      BY <1>1, <1>2 DEF Range
    <2>3. a \in Range(t)
      BY <1>1 DEF Range
    <2> QED BY <2>1, <2>2, <2>3
  <1>4. Distinct(s) /\ a \notin Range(s) => Distinct(t)
    BY <1>1, <1>2 DEF Distinct, Range
  <1> QED BY <1>1, <1>3, <1>4 DEF t

\* Taking the item at the cursor off a list without duplicates.
LEMMA PopFront ==
  ASSUME NEW S, NEW s \in Seq(S), s # <<>>, Distinct(s)
  PROVE  /\ Head(s) \in S /\ Tail(s) \in Seq(S)
         /\ Range(s) = Range(Tail(s)) \cup {Head(s)}
         /\ Distinct(Tail(s)) /\ Head(s) \notin Range(Tail(s))
  <1>1. /\ Head(s) = s[1] /\ Tail(s) \in Seq(S) /\ Len(Tail(s)) = Len(s) - 1
        /\ Len(s) \in Nat \ {0} /\ Head(s) \in S
    OBVIOUS
  <1>2. \A i \in 1 .. Len(s) - 1 : Tail(s)[i] = s[i + 1]
    OBVIOUS
  <1>3. \A i \in 2 .. Len(s) : s[i] = Tail(s)[i - 1]
    BY <1>1, <1>2
  <1>4. DOMAIN s = 1 .. Len(s) /\ DOMAIN Tail(s) = 1 .. Len(s) - 1
    BY <1>1
  <1>5. Range(s) = Range(Tail(s)) \cup {Head(s)}
    <2>1. \A x \in Range(s) : x \in Range(Tail(s)) \cup {Head(s)}
      <3> SUFFICES ASSUME NEW i \in DOMAIN s PROVE s[i] \in Range(Tail(s)) \cup {Head(s)}
        BY DEF Range
      <3>1. CASE i = 1
        BY <3>1, <1>1
      <3>2. CASE i # 1
        <4>1. i \in 2 .. Len(s) /\ i - 1 \in DOMAIN Tail(s)
          BY <3>2, <1>1, <1>4
        <4> QED BY <4>1, <1>3 DEF Range
      <3> QED BY <3>1, <3>2
    <2>2. \A x \in Range(Tail(s)) : x \in Range(s)
      BY <1>1, <1>2, <1>4 DEF Range
    <2>3. Head(s) \in Range(s)
      BY <1>1, <1>4 DEF Range
    <2> QED BY <2>1, <2>2, <2>3
  <1>6. Distinct(Tail(s)) /\ Head(s) \notin Range(Tail(s))
    BY <1>1, <1>2, <1>4 DEF Distinct, Range
  <1> QED BY <1>1, <1>5, <1>6

-----------------------------------------------------------------------------
(* Lemmas about two states.                                                 *)

\* What the collector sees depends on memory and the shadow stack alone.
LEMMA SameGraph ==
  ASSUME heap' = heap, shadow_stack' = shadow_stack
  PROVE  /\ Allocated' = Allocated /\ Marked' = Marked
         /\ Roots' = Roots /\ Reach' = Reach
         /\ \A S : Closed(Roots, S)' <=> Closed(Roots, S)
  BY DEF Allocated, Marked, Roots, Reach, ReachFrom, Closed

\* A step that keeps the roots, and of every object the pointers in it, takes
\* nothing out of Reach (it may mark, move floats or add objects).
LEMMA ReachGrows ==
  ASSUME Roots' = Roots,
         \A a \in Allocated : a \in Allocated' /\ Tags(heap'[a].data) = Tags(heap[a].data)
  PROVE  Reach \subseteq Reach'
  <1> SUFFICES ASSUME NEW x \in Reach, NEW S \in SUBSET Addr, Closed(Roots, S)'
               PROVE  x \in S
    BY DEF Reach, ReachFrom
  <1>1. Closed(Roots, S)
    BY DEF Closed
  <1> QED BY <1>1 DEF Reach, ReachFrom

-----------------------------------------------------------------------------
(* The invariant holds initially and the client keeps it.                   *)

\* The invariant holds in the empty heap.
LEMMA InitInv == ASSUME Init PROVE Inv
  <1> USE DEF Init
  <1>1. Allocated = {} /\ Marked = {} /\ Roots = {}
    BY DEF Allocated, Marked, Roots
  <1>2. TypeOK
    BY LENAssumption, ValAssumption
       DEF TypeOK, F64TypeOK, F64New, Slots, PCs, Panics
  <1>3. F64Inv
    BY LENAssumption DEF F64Inv, F64New
  <1>4. ListInv
    BY <1>1 DEF ListInv, Distinct, Range
  <1>5. ClosedInv
    BY <1>1 DEF ClosedInv, Closed
  <1> QED BY <1>1, <1>2, <1>3, <1>4, <1>5
          DEF Inv, MarkInv, HandInv, TraceInv, SweepInv, ReqInv, Waiting

\* A new shadow stack keeps the invariant when its roots are allocated.
LEMMA StackInv ==
  ASSUME Inv, NEW s \in Seq(Seq(Tag \cup {None})), Stack(s), Roots' \cap Addr \subseteq Allocated
  PROVE  Inv'
  <1> USE DEF Stack, f64_vars, heap_vars, mark_vars
  <1>1. TypeOK'
    BY DEF Inv, TypeOK, F64TypeOK
  <1>2. Allocated' = Allocated /\ Marked' = Marked
    BY DEF Allocated, Marked
  <1>3. F64Inv' /\ ListInv' /\ MarkInv' /\ HandInv'
    BY <1>2 DEF Inv, F64Inv, ListInv, MarkInv, HandInv
  <1>4. ClosedInv'
    BY <1>2 DEF Inv, ClosedInv, Closed
  <1> QED BY <1>1, <1>3, <1>4 DEF Inv, TraceInv, SweepInv, ReqInv, Waiting

\* push_shadow_frame adds no root.
LEMMA PushInv ==
  ASSUME Inv, NEW n \in 1 .. FrameSlots, push_shadow_frame(n)
  PROVE  Inv'
  <1> DEFINE f == [i \in 1 .. n |-> None]
             s == Append(shadow_stack, f)
  <1>1. n \in Nat
    BY HeapAssumption
  <1>2. f \in Seq(Tag \cup {None}) /\ shadow_stack \in Seq(Seq(Tag \cup {None}))
    BY <1>1 DEF Inv, TypeOK
  <1>3. s \in Seq(Seq(Tag \cup {None}))
    BY <1>2
  <1>4. Stack(s) /\ shadow_stack' = s
    BY DEF push_shadow_frame, Stack
  <1>5. Roots' \subseteq Roots
    <2> SUFFICES ASSUME NEW i \in DOMAIN s, NEW j \in DOMAIN s[i], s[i][j] # None
                 PROVE  s[i][j] \in Roots
      BY <1>4 DEF Roots, Range
    <2>1. i \in 1 .. Len(shadow_stack) \/ i = Len(shadow_stack) + 1
      BY <1>2
    <2>2. CASE i \in 1 .. Len(shadow_stack)
      BY <1>2, <2>2 DEF Roots, Range
    <2>3. CASE i = Len(shadow_stack) + 1
      BY <1>2, <2>3
    <2> QED BY <2>1, <2>2, <2>3
  <1>6. Roots' \cap Addr \subseteq Allocated
    BY <1>4, <1>5 DEF Inv, ClosedInv, Closed, Stack
  <1> QED BY <1>3, <1>4, <1>6, StackInv

\* pop_shadow_frame only takes roots away.
LEMMA PopInv == ASSUME Inv, pop_shadow_frame PROVE Inv'
  <1> DEFINE s == SubSeq(shadow_stack, 1, Len(shadow_stack) - 1)
  <1>1. shadow_stack \in Seq(Seq(Tag \cup {None})) /\ shadow_stack # <<>>
    BY DEF Inv, TypeOK, pop_shadow_frame
  <1>2. /\ s \in Seq(Seq(Tag \cup {None}))
        /\ DOMAIN s \subseteq DOMAIN shadow_stack
        /\ \A i \in DOMAIN s : s[i] = shadow_stack[i]
    BY <1>1
  <1>3. Stack(s) /\ shadow_stack' = s
    BY DEF pop_shadow_frame, Stack
  <1>4. Roots' \subseteq Roots
    BY <1>2, <1>3 DEF Roots
  <1>5. Roots' \cap Addr \subseteq Allocated
    BY <1>3, <1>4 DEF Inv, ClosedInv, Closed, Stack
  <1> QED BY <1>2, <1>3, <1>5, StackInv

\* What the client may root is allocated or static.
LEMMA HoldableAllocated ==
  ASSUME Inv PROVE Holdable \subseteq Allocated \cup Static
  <1>1. Reach \subseteq Allocated
    BY InvNoDangling DEF NoDangling, Allocated, Reach, ReachFrom
  <1> QED BY <1>1 DEF Inv, HandInv, Holdable

\* The setters of the shadow stack root what the client holds.
LEMMA SetSlotInv ==
  ASSUME Inv, pc = "run", NEW ptr \in Holdable \cup {None}, NEW frame, NEW slot,
         set_in_shadow_frame_slot(frame, slot, ptr)
  PROVE  Inv'
  <1> DEFINE s == [shadow_stack EXCEPT ![frame][slot] = ptr]
  <1>1. shadow_stack \in Seq(Seq(Tag \cup {None}))
    BY DEF Inv, TypeOK
  <1>2. frame \in DOMAIN shadow_stack /\ slot \in DOMAIN shadow_stack[frame]
        /\ Stack(s) /\ shadow_stack' = s
    BY DEF set_in_shadow_frame_slot, Stack
  <1>3. ptr \in Allocated \cup Static \cup {None}
    BY HoldableAllocated
  <1>4. ptr \in Tag \cup {None}
    BY <1>3 DEF Allocated, Tag
  <1>5. s \in Seq(Seq(Tag \cup {None}))
    <2>1. [shadow_stack[frame] EXCEPT ![slot] = ptr] \in Seq(Tag \cup {None})
      BY <1>1, <1>2, <1>4
    <2> QED BY <1>1, <1>2, <2>1
  <1>6. Roots' \subseteq Roots \cup ({ptr} \ {None})
    <2> SUFFICES ASSUME NEW i \in DOMAIN shadow_stack, NEW j \in DOMAIN s[i], s[i][j] # None
                 PROVE  s[i][j] \in Roots \cup ({ptr} \ {None})
      BY <1>2 DEF Roots, Range
    <2>1. DOMAIN s[i] = DOMAIN shadow_stack[i] /\ (s[i][j] = ptr \/ s[i][j] = shadow_stack[i][j])
      BY <1>1, <1>2
    <2> QED BY <2>1 DEF Roots, Range
  <1>7. Roots' \cap Addr \subseteq Allocated
    BY <1>3, <1>6, HeapAssumption DEF Inv, ClosedInv, Closed
  <1> QED BY <1>2, <1>5, <1>7, StackInv

\* What the client may store points to allocated objects or static tags.
LEMMA StorableType == ASSUME Inv, NEW v \in Storable
  PROVE v \in AnyEnum /\ (v.k = "ptr" => v.to \in Allocated \cup Static)
  <1>1. CASE v = Imm
    BY <1>1 DEF Imm, AnyEnum
  <1>2. CASE \E p \in Holdable : v = PtrTo(p)
    BY <1>2, HoldableAllocated DEF PtrTo, AnyEnum, Tag, Allocated
  <1>3. CASE v \in Loaded /\ v.k = "f64"
    <2>1. PICK a \in Allocated : v \in Range(heap[a].data)
      BY <1>3 DEF Loaded, Writable
    <2>2. heap[a].data \in Seq(AnyEnum)
      BY HeapType DEF Inv, Object
    <2> QED BY <1>3, <2>1, <2>2 DEF Range
  <1> QED BY <1>1, <1>2, <1>3 DEF Storable

\* A store of the client into an object it can get at keeps the invariant.
LEMMA WriteInv ==
  ASSUME Inv, NEW v \in Storable, NEW a \in Writable, NEW i \in DOMAIN heap[a].data, Write(a, i, v)
  PROVE  Inv'
  <1> DEFINE o == [heap[a] EXCEPT !.data[i] = v]
  <1>1. a \in Allocated /\ heap[a] \in Object /\ pc = "run"
    BY HeapType DEF Writable, Inv, Write
  <1>2. v \in AnyEnum /\ (v.k = "ptr" => v.to \in Allocated \cup Static)
    BY StorableType
  <1>3. /\ o \in Object /\ o.marked = heap[a].marked
        /\ Tags(o.data) \subseteq Tags(heap[a].data) \cup (IF v.k = "ptr" THEN {v.to} ELSE {})
    <2>1. /\ o.data = [heap[a].data EXCEPT ![i] = v] /\ o.marked = heap[a].marked
          /\ o.tag = heap[a].tag /\ o.size = heap[a].size
      BY <1>1 DEF Object
    <2>2. o.data \in Seq(AnyEnum)
      BY <1>1, <1>2, <2>1, TagsUpdate DEF Object
    <2>3. o \in Object
      BY <1>1, <2>1, <2>2 DEF Object
    <2> QED BY <1>1, <1>2, <2>1, <2>3, TagsUpdate DEF Object
  <1> USE DEF Write, f64_vars, mark_vars
  <1>4. heap' = [heap EXCEPT ![a] = o]
    OBVIOUS
  <1> HIDE DEF o
  <1>5. TypeOK'
    BY <1>3, <1>4 DEF Inv, TypeOK, F64TypeOK
  <1>6. Allocated' = Allocated /\ Marked' = Marked /\ Roots' = Roots
    <2>1. heap'[a] = o /\ o # None /\ a \in Addr /\ \A b \in Addr \ {a} : heap'[b] = heap[b]
      BY <1>1, <1>3, <1>4, NoneAssumption DEF Inv, TypeOK, Allocated
    <2>2. Allocated' = Allocated
      BY <1>1, <2>1 DEF Allocated
    <2>3. Marked' = Marked
      BY <1>1, <1>3, <2>1, <2>2 DEF Marked, Allocated
    <2> QED BY <2>2, <2>3 DEF Roots
  <1>7. F64Inv' /\ ListInv' /\ MarkInv' /\ HandInv'
    BY <1>6 DEF Inv, F64Inv, ListInv, MarkInv, HandInv
  <1>8. ClosedInv'
    <2> SUFFICES ASSUME NEW b \in Allocated PROVE Tags(heap'[b].data) \cap Addr \subseteq Allocated
      BY <1>1, <1>6 DEF Inv, ClosedInv, Closed
    <2>1. Tags(heap[b].data) \cap Addr \subseteq Allocated
      BY <1>1 DEF Inv, ClosedInv, Closed
    <2>2. heap'[b] = IF b = a THEN o ELSE heap[b]
      BY <1>4 DEF Inv, TypeOK, Allocated
    <2> QED BY <1>2, <1>3, <2>1, <2>2, HeapAssumption
  <1> QED BY <1>1, <1>5, <1>7, <1>8 DEF Inv, TraceInv, SweepInv, ReqInv, Waiting

-----------------------------------------------------------------------------
(* Allocation keeps the invariant.                                          *)

\* The fields of a request.
LEMMA RequestType ==
  ASSUME NEW r \in Requests
  PROVE  /\ r.op \in {"alloc", "object"} => r.tag \in TagWord /\ r.size \in Nat \ {0} /\ r.data \in Seq(AnyEnum)
         /\ r.op = "f64" => r.at \in Addr /\ r.cell \in Nat /\ r.val \in Val
         /\ r.op \in {"gc", "alloc", "object", "f64"}
  BY DEF Requests

\* A request for an object is one of the shapes.
LEMMA WantedKind ==
  ASSUME NEW r \in Wanted, r.op # "f64"
  PROVE  \E kd \in Kinds : r \in Wants("alloc", kd) \cup Wants("object", kd)
  BY DEF Wanted

\* The cells of such a request are filled with what the client can reach.
LEMMA WantedCells ==
  ASSUME NEW kd \in Kinds, NEW r \in Wants("alloc", kd) \cup Wants("object", kd)
  PROVE  /\ r.op \in {"alloc", "object"} /\ r.tag = kd.tag /\ r.size = kd.size
         /\ r.data \in [1 .. kd.cells -> {Imm} \cup {PtrTo(p) : p \in Reach \cup Static}]
  <1>1. /\ r.op \in {"alloc", "object"} /\ r.tag = kd.tag /\ r.size = kd.size
        /\ r.data \in InitialData(kd)
    BY DEF Wants
  <1>2. InitialCells(kd) \subseteq {Imm} \cup {PtrTo(p) : p \in Reach \cup Static}
    BY DEF InitialCells, LowWords
  <1>3. r.data \in [1 .. kd.cells -> {Imm} \cup InitialCells(kd)]
    BY <1>1 DEF InitialData
  <1> QED BY <1>1, <1>2, <1>3

\* The requests a client makes hold only on to reachable objects.
LEMMA WantedSafe == ASSUME Inv, NEW r \in Wanted PROVE Safe(r)
  <1>1. CASE r.op # "f64"
    <2>1. PICK kd \in Kinds : r \in Wants("alloc", kd) \cup Wants("object", kd)
      BY <1>1, WantedKind
    <2>2. kd.tag \in TagWord /\ kd.size \in Nat \ {0} /\ kd.cells \in Nat /\ Swept(kd) <= kd.size
      BY KindsAssumption
    <2> DEFINE Cell == {Imm} \cup {PtrTo(p) : p \in Reach \cup Static}
    <2>3. /\ r.op \in {"alloc", "object"} /\ r.tag = kd.tag /\ r.size = kd.size
          /\ r.data \in [1 .. kd.cells -> Cell]
      BY <2>1, WantedCells
    <2>4. \A c \in Cell : c \in AnyEnum /\ (c.k = "ptr" => c.to \in Reach \cup Static)
      BY DEF Imm, PtrTo, AnyEnum, Tag, Reach, ReachFrom
    <2> HIDE DEF Cell
    <2>5. r.data \in Seq(AnyEnum)
      BY <2>2, <2>3, <2>4
    <2>6. Tags(r.data) \subseteq Reach \cup Static
      BY <2>3, <2>4 DEF Tags, PtrCells
    <2>7. r \in [op : {"alloc", "object"}, tag : TagWord, size : Nat \ {0}, data : Seq(AnyEnum)]
      BY <2>1, <2>2, <2>3, <2>5 DEF Wants
    <2>8. Swept(r) = Swept(kd) /\ (AllFollow => Follows(r))
      BY <2>3 DEF Swept, Follows, AllFollow
    <2> QED BY <2>2, <2>3, <2>6, <2>7, <2>8, HeapAssumption DEF Safe, Sized, Requests
  <1>2. CASE r.op = "f64"
    <2>1. PICK a \in Reach \cap Allocated : r \in [op : {"f64"}, at : {a}, cell : DOMAIN heap[a].data, val : Val]
      BY <1>2 DEF Wanted, Wants
    <2>2. heap[a].data \in Seq(AnyEnum) /\ a \in Addr
      BY HeapType DEF Inv, Object, Allocated
    <2>3. DOMAIN heap[a].data \subseteq Nat
      BY <2>2
    <2> QED BY <2>1, <2>2, <2>3 DEF Safe, Requests
  <1> QED BY <1>1, <1>2

\* New unmarked objects N that point to reachable objects and to each other.
LEMMA HeapGrows ==
  ASSUME Inv, pc # "sweep", shadow_stack' = shadow_stack,
         NEW N \in SUBSET Addr, N \cap Allocated = {},
         heap' \in [Addr -> Object \cup {None}],
         \A b \in Addr \ N : heap'[b] = heap[b],
         \A b \in N : /\ heap'[b] \in Object /\ heap'[b].marked = FALSE
                      /\ Tags(heap'[b].data) \cap Addr \subseteq Reach \cup N
  PROVE  /\ Allocated' = Allocated \cup N /\ Marked' = Marked /\ Roots' = Roots
         /\ Closed(Roots, Allocated)'
         /\ Reach \subseteq Reach'
  <1>1. Allocated' = Allocated \cup N
    BY NoneAssumption DEF Allocated
  <1>2. Marked' = Marked
    BY <1>1 DEF Marked, Allocated
  <1>3. Roots' = Roots
    BY DEF Roots
  <1>4. Reach \subseteq Allocated
    BY InvNoDangling DEF NoDangling, Allocated, Reach, ReachFrom
  <1>5. Closed(Roots, Allocated)'
    <2>1. Closed(Roots, Allocated)
      BY DEF Inv, ClosedInv
    <2> QED BY <1>1, <1>3, <1>4, <2>1 DEF Closed, Allocated
  <1>6. Reach \subseteq Reach'
    BY <1>1, <1>3, ReachGrows DEF Allocated
  <1> QED BY <1>1, <1>2, <1>3, <1>5, <1>6

\* alloc_raw adds one object that is neither marked nor pointed to.
LEMMA RawAdds ==
  ASSUME Inv, pc # "sweep", shadow_stack' = shadow_stack,
         NEW a \in Addr, NEW tag \in TagWord, NEW bytes \in Nat, NEW data \in Seq(AnyEnum),
         Tags(data) \cap Addr \subseteq Reach, alloc_raw(a, tag, bytes, data)
  PROVE  /\ heap' \in [Addr -> Object \cup {None}] /\ to' \in Seq(Addr) /\ kept' = kept
         /\ used_mem' \in Int
         /\ Allocated' = Allocated \cup {a} /\ Marked' = Marked /\ Roots' = Roots
         /\ Range(to') = Range(to) \cup {a} /\ Distinct(to')
         /\ Closed(Roots, Allocated)'
         /\ Reach \subseteq Reach'
         /\ a \notin Allocated /\ heap'[a].data = data
         /\ \A b \in Allocated : heap'[b] = heap[b]
  <1> DEFINE o == [marked |-> FALSE, tag |-> tag, size |-> bytes, data |-> data]
  <1>1. o \in Object /\ o.marked = FALSE /\ o.data = data
    BY DEF Object
  <1>2. a \notin Allocated /\ heap' = [heap EXCEPT ![a] = o] /\ to' = <<a>> \o to
        /\ kept' = kept /\ used_mem' = used_mem + bytes
    BY DEF alloc_raw, Allocated
  <1> HIDE DEF o
  <1>3. /\ heap' \in [Addr -> Object \cup {None}] /\ heap'[a] = o
        /\ \A b \in Addr \ {a} : heap'[b] = heap[b]
    BY <1>1, <1>2 DEF Inv, TypeOK
  <1>4. /\ Allocated' = Allocated \cup {a} /\ Marked' = Marked /\ Roots' = Roots
        /\ Closed(Roots, Allocated)' /\ Reach \subseteq Reach'
    <2> DEFINE N == {a}
    <2>1. /\ N \in SUBSET Addr /\ N \cap Allocated = {} /\ \A b \in Addr \ N : heap'[b] = heap[b]
          /\ \A b \in N : /\ heap'[b] \in Object /\ heap'[b].marked = FALSE
                          /\ Tags(heap'[b].data) \cap Addr \subseteq Reach \cup N
      BY <1>1, <1>2, <1>3
    <2> HIDE DEF N
    <2>2. /\ Allocated' = Allocated \cup N /\ Marked' = Marked /\ Roots' = Roots
          /\ Closed(Roots, Allocated)' /\ Reach \subseteq Reach'
      BY <1>3, <2>1, HeapGrows
    <2> QED BY <2>2 DEF N
  <1>5. /\ to' \in Seq(Addr) /\ Range(to') = Range(to) \cup {a} /\ Distinct(to')
    BY <1>2, PushFront DEF Inv, TypeOK, ListInv
  <1> QED BY <1>1, <1>2, <1>3, <1>4, <1>5 DEF Inv, TypeOK, Allocated

\* alloc_object adds the data and the object that points to them.
LEMMA ObjectAdds ==
  ASSUME Inv, pc # "sweep", shadow_stack' = shadow_stack,
         NEW d \in Addr, NEW o \in Addr, NEW tag \in TagWord, NEW bytes \in Nat,
         NEW data \in Seq(AnyEnum),
         Tags(data) \cap Addr \subseteq Reach, alloc_object(d, o, tag, bytes, data)
  PROVE  /\ heap' \in [Addr -> Object \cup {None}] /\ to' \in Seq(Addr) /\ kept' = kept
         /\ used_mem' \in Int
         /\ Allocated' = Allocated \cup {d, o} /\ Marked' = Marked /\ Roots' = Roots
         /\ Range(to') = Range(to) \cup {d, o} /\ Distinct(to')
         /\ Closed(Roots, Allocated)'
         /\ Reach \subseteq Reach'
         /\ d \notin Allocated /\ o \notin Allocated /\ d # o
         /\ heap'[d].data = data /\ heap'[o].data = <<PtrTo(d)>> /\ Tags(heap'[o].data) = {d}
         /\ \A b \in Allocated : heap'[b] = heap[b]
  <1> DEFINE x == [marked |-> FALSE, tag |-> tag, size |-> bytes, data |-> data]
             y == [marked |-> FALSE, tag |-> ObjectPtrTag, size |-> ObjectSize, data |-> <<PtrTo(d)>>]
  <1>1. x \in Object /\ x.marked = FALSE /\ x.data = data
    BY DEF Object
  <1>2. y \in Object /\ y.marked = FALSE /\ Tags(y.data) = {d} /\ y.data = <<PtrTo(d)>>
    <2>1. PtrTo(d) \in AnyEnum /\ PtrTo(d).k = "ptr" /\ PtrTo(d).to = d
      BY DEF PtrTo, AnyEnum, Tag
    <2>2. <<PtrTo(d)>> \in Seq(AnyEnum) /\ DOMAIN <<PtrTo(d)>> = {1} /\ <<PtrTo(d)>>[1] = PtrTo(d)
      BY <2>1
    <2>3. Tags(<<PtrTo(d)>>) = {d}
      BY <2>1, <2>2 DEF Tags, PtrCells
    <2> QED BY <2>2, <2>3, ObjectPtrSize DEF Object
  <1>3. /\ d \notin Allocated /\ o \notin Allocated /\ d # o
        /\ heap' = [heap EXCEPT ![d] = x, ![o] = y]
        /\ to' = <<o, d>> \o to /\ kept' = kept /\ used_mem' = used_mem + bytes + ObjectSize
    BY DEF alloc_object, Allocated
  <1> HIDE DEF x, y
  <1>4. /\ heap' \in [Addr -> Object \cup {None}] /\ heap'[d] = x /\ heap'[o] = y
        /\ \A b \in Addr \ {d, o} : heap'[b] = heap[b]
    BY <1>1, <1>2, <1>3 DEF Inv, TypeOK
  <1>5. /\ Allocated' = Allocated \cup {d, o} /\ Marked' = Marked /\ Roots' = Roots
        /\ Closed(Roots, Allocated)' /\ Reach \subseteq Reach'
    <2> DEFINE N == {d, o}
    <2>1. /\ N \in SUBSET Addr /\ N \cap Allocated = {} /\ \A b \in Addr \ N : heap'[b] = heap[b]
          /\ \A b \in N : /\ heap'[b] \in Object /\ heap'[b].marked = FALSE
                          /\ Tags(heap'[b].data) \cap Addr \subseteq Reach \cup N
      BY <1>1, <1>2, <1>3, <1>4
    <2> HIDE DEF N
    <2>2. /\ Allocated' = Allocated \cup N /\ Marked' = Marked /\ Roots' = Roots
          /\ Closed(Roots, Allocated)' /\ Reach \subseteq Reach'
      BY <1>4, <2>1, HeapGrows
    <2> QED BY <2>2 DEF N
  <1>6. to \in Seq(Addr) /\ Distinct(to) /\ Range(to) \subseteq Allocated
    BY DEF Inv, TypeOK, ListInv
  <1>7. <<o, d>> \o to = <<o>> \o (<<d>> \o to)
    BY <1>6
  <1> DEFINE t == <<d>> \o to
  <1>8. t \in Seq(Addr) /\ Range(t) = Range(to) \cup {d} /\ Distinct(t)
    BY <1>3, <1>6, PushFront
  <1>9. to' = <<o>> \o t
    BY <1>3, <1>7
  <1> HIDE DEF t
  <1>10. o \notin Range(t)
    BY <1>3, <1>6, <1>8
  <1>11. to' \in Seq(Addr) /\ Range(to') = Range(t) \cup {o} /\ Distinct(to')
    BY <1>8, <1>9, <1>10, PushFront
  <1>12. used_mem' \in Int
    BY <1>3, ObjectPtrSize DEF Inv, TypeOK
  <1>13. \A b \in Allocated : heap'[b] = heap[b]
    BY <1>3, <1>4 DEF Allocated
  <1> QED BY <1>1, <1>2, <1>3, <1>4, <1>5, <1>8, <1>11, <1>12, <1>13

\* Boxing a float into a cell replaces a cell by one that is no pointer.
LEMMA BoxInto ==
  ASSUME Inv, pc # "sweep", shadow_stack' = shadow_stack,
         NEW a \in Allocated, NEW i \in DOMAIN heap[a].data, NEW c \in AnyEnum, c.k = "f64",
         heap' = [heap EXCEPT ![a].data[i] = c]
  PROVE  /\ heap' \in [Addr -> Object \cup {None}]
         /\ Allocated' = Allocated /\ Marked' = Marked /\ Roots' = Roots
         /\ Closed(Roots, Allocated)'
         /\ \A b \in Allocated : Tags(heap'[b].data) \subseteq Tags(heap[b].data)
         /\ heap[a].data[i].k = "f64" =>
              \A b \in Allocated : /\ Tags(heap'[b].data) = Tags(heap[b].data)
                                   /\ F64Cells(heap'[b].data) = F64Cells(heap[b].data)
                                   /\ DOMAIN heap'[b].data = DOMAIN heap[b].data
  <1> DEFINE o == [heap[a] EXCEPT !.data[i] = c]
  <1>1. heap[a] \in Object /\ a \in Addr
    BY HeapType DEF Inv, Allocated
  <1>2. /\ o.data = [heap[a].data EXCEPT ![i] = c] /\ o.marked = heap[a].marked
        /\ o.tag = heap[a].tag /\ o.size = heap[a].size
    BY <1>1 DEF Object
  <1>3. /\ o.data \in Seq(AnyEnum)
        /\ Tags(o.data) \subseteq Tags(heap[a].data)
        /\ heap[a].data[i].k = "f64" =>
              /\ Tags(o.data) = Tags(heap[a].data) /\ F64Cells(o.data) = F64Cells(heap[a].data)
              /\ DOMAIN o.data = DOMAIN heap[a].data
    BY <1>1, <1>2, TagsUpdate DEF Object, F64Cells
  <1>4. o \in Object
    BY <1>1, <1>2, <1>3 DEF Object
  <1>5. heap' = [heap EXCEPT ![a] = o]
    OBVIOUS
  <1> HIDE DEF o
  <1>6. heap' \in [Addr -> Object \cup {None}] /\ heap'[a] = o /\ \A b \in Addr \ {a} : heap'[b] = heap[b]
    BY <1>1, <1>4, <1>5 DEF Inv, TypeOK
  <1>7. Allocated' = Allocated
    BY <1>1, <1>4, <1>6, NoneAssumption DEF Allocated
  <1>8. Marked' = Marked
    BY <1>1, <1>2, <1>6, <1>7 DEF Marked, Allocated
  <1>9. Roots' = Roots
    BY DEF Roots
  <1>10. \A b \in Allocated : Tags(heap'[b].data) \subseteq Tags(heap[b].data)
    BY <1>3, <1>6 DEF Allocated
  <1>11. Closed(Roots, Allocated)'
    BY <1>7, <1>9, <1>10 DEF Inv, ClosedInv, Closed
  <1> QED BY <1>3, <1>6, <1>7, <1>8, <1>9, <1>10, <1>11 DEF Allocated

\* A successful F64Allocator::alloc writes inside the space and stays inside.
LEMMA F64SomeType ==
  ASSUME F64TypeOK, next_slot < LEN, NEW v \in Val, F64AllocSome(v)
  PROVE  F64TypeOK' /\ next_slot' < LEN /\ F64Next(v) \in AnyEnum /\ F64Next(v).k = "f64"
  <1>1. next_slot \in Slots /\ next_slot + 1 < LEN
    BY LENAssumption DEF F64TypeOK, Slots, F64AllocSome, F64IsFull
  <1>2. F64TypeOK' /\ next_slot' < LEN
    BY <1>1, LENAssumption DEF F64TypeOK, F64AllocSome
  <1>3. F64Next(v) \in AnyEnum /\ F64Next(v).k = "f64"
    BY <1>1 DEF F64TypeOK, F64Next, AnyEnum
  <1> QED BY <1>2, <1>3

\* A refused one keeps the types: next_slot ends at LEN.
LEMMA F64NoneType ==
  ASSUME F64TypeOK, F64AllocNone
  PROVE  F64TypeOK'
  BY LENAssumption DEF F64TypeOK, F64AllocNone, F64IsFull

\* A successful attempt, first or second, keeps the invariant.
LEMMA AllocOkInv ==
  ASSUME Inv, pc \in {"run", "retry"}, NEW r, Safe(r), AllocOk(r),
         pc' = "run", req' \in Requests \cup {None}, shadow_stack' = shadow_stack,
         UNCHANGED <<mark_vars, static_marked>>
  PROVE  Inv'
  <1> DEFINE HeapOk == /\ F64TypeOK' /\ next_slot' < LEN
                       /\ heap' \in [Addr -> Object \cup {None}]
                       /\ kept' = <<>> /\ to' \in Seq(Addr) /\ used_mem' \in Int
                       /\ Range(to') = Allocated' /\ Distinct(to')
                       /\ Marked' = {} /\ Closed(Roots, Allocated)'
                       /\ hand' \in Allocated' \cup {None}
  <1>1. /\ F64TypeOK /\ next_slot < LEN /\ pc # "sweep" /\ kept = <<>> /\ Range(to) = Allocated
        /\ Distinct(to) /\ Marked = {} /\ hand \in Allocated \cup {None} /\ Reach \subseteq Allocated
        /\ to \in Seq(Addr) /\ used_mem \in Int
    <2>1. Range(<<>>) = {}
      BY DEF Range
    <2> QED BY <2>1, InvNoDangling
            DEF Inv, TypeOK, F64Inv, ListInv, MarkInv, HandInv, NoDangling, Allocated, Reach, ReachFrom
  <1>2. ASSUME r.op = "alloc" PROVE HeapOk
    <2>1. PICK a \in Addr : alloc_raw(a, r.tag, r.size, r.data) /\ hand' = a
      BY <1>2 DEF AllocOk
    <2>2. UNCHANGED f64_vars
      BY <1>2 DEF AllocOk
    <2>3. r.tag \in TagWord /\ r.size \in Nat /\ r.data \in Seq(AnyEnum) /\ Tags(r.data) \cap Addr \subseteq Reach
      BY <1>2, RequestType DEF Safe
    <2>4. F64TypeOK' /\ next_slot' < LEN
      BY <1>1, <2>2 DEF F64TypeOK, f64_vars
    <2>5. /\ heap' \in [Addr -> Object \cup {None}] /\ to' \in Seq(Addr) /\ kept' = kept
          /\ used_mem' \in Int
          /\ Allocated' = Allocated \cup {a} /\ Marked' = Marked
          /\ Range(to') = Range(to) \cup {a} /\ Distinct(to')
          /\ Closed(Roots, Allocated)'
      BY <1>1, <2>1, <2>3, RawAdds
    <2> QED BY <1>1, <2>1, <2>4, <2>5
  <1>3. ASSUME r.op = "object" PROVE HeapOk
    <2>1. PICK d, o \in Addr : alloc_object(d, o, r.tag, r.size, r.data) /\ hand' = o
      BY <1>3 DEF AllocOk
    <2>2. UNCHANGED f64_vars
      BY <1>3 DEF AllocOk
    <2>3. r.tag \in TagWord /\ r.size \in Nat /\ r.data \in Seq(AnyEnum) /\ Tags(r.data) \cap Addr \subseteq Reach
      BY <1>3, RequestType DEF Safe
    <2>4. F64TypeOK' /\ next_slot' < LEN
      BY <1>1, <2>2 DEF F64TypeOK, f64_vars
    <2>5. /\ heap' \in [Addr -> Object \cup {None}] /\ to' \in Seq(Addr) /\ kept' = kept
          /\ used_mem' \in Int
          /\ Allocated' = Allocated \cup {d, o} /\ Marked' = Marked
          /\ Range(to') = Range(to) \cup {d, o} /\ Distinct(to')
          /\ Closed(Roots, Allocated)'
      BY <1>1, <2>1, <2>3, ObjectAdds
    <2> QED BY <1>1, <2>1, <2>4, <2>5
  <1>4. ASSUME r.op = "f64" PROVE HeapOk
    <2>1. /\ F64AllocSome(r.val) /\ heap' = [heap EXCEPT ![r.at].data[r.cell] = F64Next(r.val)]
          /\ kept' = kept /\ to' = to /\ used_mem' = used_mem /\ hand' = hand
      BY <1>4 DEF AllocOk
    <2>2. r.at \in Allocated /\ r.cell \in DOMAIN heap[r.at].data /\ r.val \in Val
      BY <1>1, <1>4, RequestType DEF Safe, Allocated
    <2>3. F64TypeOK' /\ next_slot' < LEN /\ F64Next(r.val) \in AnyEnum /\ F64Next(r.val).k = "f64"
      BY <1>1, <2>1, <2>2, F64SomeType
    <2>4. /\ heap' \in [Addr -> Object \cup {None}]
          /\ Allocated' = Allocated /\ Marked' = Marked /\ Closed(Roots, Allocated)'
      BY <1>1, <2>1, <2>2, <2>3, BoxInto
    <2> QED BY <1>1, <2>1, <2>3, <2>4
  <1>5. HeapOk
    BY <1>2, <1>3, <1>4 DEF AllocOk
  <1> HIDE DEF HeapOk
  <1>6. TypeOK'
    <2>1. hand' \in Addr \cup {None}
      BY <1>5 DEF HeapOk, Allocated
    <2>2. kept' \in Seq(Addr)
      BY <1>5 DEF HeapOk
    <2> QED BY <1>5, <2>1, <2>2 DEF HeapOk, Inv, TypeOK, mark_vars, PCs
  <1>7. ListInv'
    <2>1. Range(<<>>) = {} /\ Distinct(<<>>)
      BY DEF Range, Distinct
    <2> QED BY <1>5, <2>1 DEF HeapOk, ListInv
  <1> QED BY <1>5, <1>6, <1>7
          DEF HeapOk, Inv, F64Inv, MarkInv, ClosedInv, HandInv, TraceInv, SweepInv, ReqInv, Waiting

\* A refused attempt leaves at most one more object, and what the request
\* refers to is as safe as before.
LEMMA AllocFailsHeap ==
  ASSUME Inv, pc \in {"run", "retry"}, NEW r, Safe(r), AllocFails(r), shadow_stack' = shadow_stack
  PROVE  /\ F64TypeOK' /\ heap' \in [Addr -> Object \cup {None}]
         /\ kept' = <<>> /\ to' \in Seq(Addr) /\ used_mem' \in Int
         /\ Range(to') = Allocated' /\ Distinct(to')
         /\ Marked' = {} /\ Closed(Roots, Allocated)'
         /\ Safe(r)'
  <1>1. /\ F64TypeOK /\ pc # "sweep" /\ kept = <<>> /\ Range(to) = Allocated
        /\ Distinct(to) /\ Marked = {} /\ to \in Seq(Addr) /\ used_mem \in Int
        /\ heap \in [Addr -> Object \cup {None}] /\ Closed(Roots, Allocated)
    <2>1. Range(<<>>) = {}
      BY DEF Range
    <2> QED BY <2>1 DEF Inv, TypeOK, ListInv, MarkInv, ClosedInv
  <1>2. CASE UNCHANGED heap_vars /\ F64TypeOK'
    <2>1. /\ Allocated' = Allocated /\ Marked' = Marked /\ Reach' = Reach
          /\ Closed(Roots, Allocated)' <=> Closed(Roots, Allocated)
      BY <1>2 DEF heap_vars, Allocated, Marked, Roots, Reach, ReachFrom, Closed
    <2>2. Safe(r)'
      BY <1>2, <2>1 DEF Safe, heap_vars
    <2> QED BY <1>1, <1>2, <2>1, <2>2 DEF heap_vars
  <1>3. CASE r.op = "object" /\ UNCHANGED f64_vars /\ \E a \in Addr : alloc_raw(a, r.tag, r.size, r.data)
    <2>1. PICK a \in Addr : alloc_raw(a, r.tag, r.size, r.data)
      BY <1>3
    <2>2. r.tag \in TagWord /\ r.size \in Nat /\ r.data \in Seq(AnyEnum) /\ Tags(r.data) \cap Addr \subseteq Reach
      BY <1>3, RequestType DEF Safe
    <2>3. /\ heap' \in [Addr -> Object \cup {None}] /\ to' \in Seq(Addr) /\ kept' = kept
          /\ used_mem' \in Int
          /\ Allocated' = Allocated \cup {a} /\ Marked' = Marked
          /\ Range(to') = Range(to) \cup {a} /\ Distinct(to')
          /\ Closed(Roots, Allocated)' /\ Reach \subseteq Reach'
      BY <1>1, <2>1, <2>2, RawAdds
    <2>4. F64TypeOK'
      BY <1>1, <1>3 DEF F64TypeOK, f64_vars
    <2>5. Safe(r)'
      BY <1>3, <2>2, <2>3 DEF Safe
    <2> QED BY <1>1, <2>3, <2>4, <2>5
  <1>4. UNCHANGED f64_vars => F64TypeOK'
    BY <1>1 DEF F64TypeOK, f64_vars
  <1>5. F64AllocNone => F64TypeOK'
    BY <1>1, F64NoneType
  <1> QED BY <1>2, <1>3, <1>4, <1>5 DEF AllocFails

\* The first attempt of an ..._or_gc function.
LEMMA AllocOrGcInv ==
  ASSUME Inv, NEW r \in Wanted, alloc_or_gc(r)
  PROVE  Inv'
  <1>1. /\ pc = "run" /\ shadow_stack' = shadow_stack /\ UNCHANGED <<mark_vars, static_marked>>
        /\ Safe(r)
    BY WantedSafe DEF alloc_or_gc
  <1>2. CASE AllocOk(r) /\ UNCHANGED <<pc, req>>
    <2>1. req' \in Requests \cup {None} /\ pc' = "run"
      BY <1>1, <1>2 DEF Inv, TypeOK
    <2> QED BY <1>1, <1>2, <2>1, AllocOkInv
  <1>3. CASE AllocFails(r) /\ pc' = "gc" /\ req' = r /\ hand' = None
    <2>1. /\ F64TypeOK' /\ heap' \in [Addr -> Object \cup {None}]
          /\ kept' = <<>> /\ to' \in Seq(Addr) /\ used_mem' \in Int
          /\ Range(to') = Allocated' /\ Distinct(to')
          /\ Marked' = {} /\ Closed(Roots, Allocated)'
          /\ Safe(r)'
      BY <1>1, <1>3, AllocFailsHeap
    <2>2. Range(<<>>) = {} /\ Distinct(<<>>) /\ <<>> \in Seq(Addr)
      BY DEF Range, Distinct
    <2>3. ListInv'
      BY <2>1, <2>2 DEF ListInv
    <2>4. TypeOK'
      BY <1>1, <1>3, <2>1, <2>2 DEF Inv, TypeOK, mark_vars, PCs, Safe
    <2>5. ReqInv'
      BY <1>3, <2>1 DEF ReqInv, Safe
    <2> QED BY <1>3, <2>1, <2>3, <2>4, <2>5
            DEF Inv, F64Inv, MarkInv, ClosedInv, HandInv, TraceInv, SweepInv
  <1> QED BY <1>2, <1>3 DEF alloc_or_gc

\* run_gc and heap_dump.
LEMMA RunGcInv == ASSUME Inv, run_gc PROVE Inv'
  <1> USE DEF run_gc, f64_vars, heap_vars, mark_vars
  <1>1. /\ Allocated' = Allocated /\ Marked' = Marked
        /\ Closed(Roots, Allocated)' <=> Closed(Roots, Allocated)
    BY DEF Allocated, Marked, Roots, Closed
  <1>2. req' \in Requests /\ req'.op = "gc"
    BY DEF Requests
  <1>3. TypeOK'
    BY <1>2 DEF Inv, TypeOK, F64TypeOK, PCs
  <1>4. ListInv' /\ MarkInv' /\ ClosedInv' /\ HandInv' /\ F64Inv'
    BY <1>1 DEF Inv, F64Inv, ListInv, MarkInv, ClosedInv, HandInv
  <1>5. ReqInv'
    BY <1>2 DEF ReqInv, Safe
  <1> QED BY <1>3, <1>4, <1>5 DEF Inv, TraceInv, SweepInv

\* The second attempt after the collection.
LEMMA RetryInv == ASSUME Inv, Retry PROVE Inv'
  <1>1. /\ pc = "retry" /\ shadow_stack' = shadow_stack /\ UNCHANGED <<mark_vars, static_marked>>
        /\ Safe(req) /\ req \in Requests
    BY DEF Inv, ReqInv, Waiting, Retry, Safe
  <1>2. req' \in Requests \cup {None}
    BY <1>1 DEF Retry
  <1>3. CASE req.op = "gc" /\ pc' = "run" /\ UNCHANGED <<heap_vars, f64_vars, hand>>
    <2> USE <1>1, <1>3 DEF f64_vars, heap_vars, mark_vars
    <2>1. /\ Allocated' = Allocated /\ Marked' = Marked
          /\ Closed(Roots, Allocated)' <=> Closed(Roots, Allocated)
      BY DEF Allocated, Marked, Roots, Closed
    <2>2. TypeOK'
      BY <1>2 DEF Inv, TypeOK, F64TypeOK, PCs
    <2> QED BY <2>1, <2>2 DEF Inv, F64Inv, ListInv, MarkInv, ClosedInv, HandInv,
                              TraceInv, SweepInv, ReqInv, Waiting
  <1>4. CASE AllocOk(req) /\ pc' = "run"
    BY <1>1, <1>2, <1>4, AllocOkInv
  <1>5. CASE AllocFails(req) /\ pc' \in {"oom", "oom_f64"} /\ hand' = hand
    <2>1. /\ F64TypeOK' /\ heap' \in [Addr -> Object \cup {None}]
          /\ kept' = <<>> /\ to' \in Seq(Addr) /\ used_mem' \in Int
          /\ Range(to') = Allocated' /\ Distinct(to')
          /\ Marked' = {} /\ Closed(Roots, Allocated)'
      BY <1>1, <1>5, AllocFailsHeap
    <2>2. Range(<<>>) = {} /\ Distinct(<<>>) /\ <<>> \in Seq(Addr)
      BY DEF Range, Distinct
    <2>3. ListInv'
      BY <2>1, <2>2 DEF ListInv
    <2>4. hand' = None
      BY <1>1, <1>5 DEF Inv, HandInv
    <2>5. TypeOK'
      BY <1>1, <1>2, <1>5, <2>1, <2>2, <2>4 DEF Inv, TypeOK, mark_vars, PCs, Panics
    <2> QED BY <1>5, <2>1, <2>3, <2>4, <2>5
            DEF Inv, F64Inv, MarkInv, ClosedInv, HandInv, TraceInv, SweepInv, ReqInv, Waiting
  <1> QED BY <1>3, <1>4, <1>5 DEF Retry

-----------------------------------------------------------------------------
(* The collector keeps the invariant: marking.                              *)

\* A waiting request stays safe when Reach only grows and cells stay.
LEMMA SafeKept ==
  ASSUME NEW r, Safe(r), Reach \subseteq Reach',
         r.op = "f64" /\ heap'[r.at] # None =>
            heap[r.at] # None /\ DOMAIN heap'[r.at].data = DOMAIN heap[r.at].data
  PROVE  Safe(r)'
  BY DEF Safe

\* The start of Heap::gc: all roots are queued.
LEMMA GcInv == ASSUME Inv, gc PROVE Inv'
  <1> USE DEF gc, heap_vars
  <1>1. /\ Allocated' = Allocated /\ Marked' = Marked /\ Roots' = Roots /\ Reach' = Reach
        /\ \A S : Closed(Roots, S)' <=> Closed(Roots, S)
    BY SameGraph
  <1>2. F64TypeOK' /\ next_slot' < LEN
    BY LENAssumption DEF Inv, TypeOK, F64TypeOK, semispace_swap
  <1>3. TypeOK'
    BY <1>2, RootsType DEF Inv, TypeOK, PCs
  <1>4. F64Inv' /\ ListInv' /\ MarkInv' /\ ClosedInv' /\ HandInv' /\ SweepInv'
    BY <1>1, <1>2 DEF Inv, F64Inv, ListInv, MarkInv, ClosedInv, HandInv, SweepInv
  <1>5. TraceInv'
    BY <1>1 DEF Inv, TraceInv, MarkInv, Seen
  <1>6. ReqInv'
    BY <1>1 DEF Inv, ReqInv, Safe, Waiting
  <1> QED BY <1>3, <1>4, <1>5, <1>6 DEF Inv

\* Steps of the mark phase that only touch its own variables.
LEMMA TraceStepInv ==
  ASSUME Inv, pc \in {"mark", "copy"}, pc' \in {"mark", "copy"},
         UNCHANGED <<f64_vars, heap_vars, shadow_stack, req, hand>>,
         current_roots' \subseteq Tag, new_roots' \subseteq Tag,
         f64s' = f64s, pc' = "copy" => pc = "copy",
         static_marked' \subseteq Static,
         Seen \cap Addr \subseteq Seen'
  PROVE  Inv'
  <1> USE DEF f64_vars, heap_vars
  <1>1. /\ Allocated' = Allocated /\ Marked' = Marked /\ Roots' = Roots /\ Reach' = Reach
        /\ \A S : Closed(Roots, S)' <=> Closed(Roots, S)
    BY SameGraph
  <1>2. TypeOK'
    BY DEF Inv, TypeOK, F64TypeOK, PCs
  <1>3. F64Inv' /\ ListInv' /\ MarkInv' /\ ClosedInv' /\ HandInv' /\ SweepInv'
    BY <1>1 DEF Inv, F64Inv, ListInv, MarkInv, ClosedInv, HandInv, SweepInv
  <1>4. TraceInv'
    BY <1>1 DEF Inv, TraceInv
  <1>5. ReqInv'
    BY <1>1 DEF Inv, ReqInv, Safe, Waiting
  <1> QED BY <1>2, <1>3, <1>4, <1>5 DEF Inv

\* A tag that is marked already is dropped from the queue.
LEMMA MarkSkipInv == ASSUME Inv, NEW root \in current_roots, MarkSkip(root) PROVE Inv'
  <1> USE DEF MarkSkip
  <1>1. Marked' = Marked
    BY DEF Marked, Allocated, heap_vars
  <1>2. root \in Marked \/ root \notin Addr
    BY HeapAssumption DEF Inv, TypeOK
  <1>3. Seen \cap Addr \subseteq Seen'
    BY <1>1, <1>2 DEF Seen
  <1> QED BY <1>3, TraceStepInv DEF Inv, TypeOK

\* A tag outside the list is marked and has no children.
LEMMA MarkStaticInv == ASSUME Inv, NEW root \in current_roots, MarkStatic(root) PROVE Inv'
  <1> USE DEF MarkStatic
  <1>1. Marked' = Marked
    BY DEF Marked, Allocated, heap_vars
  <1>2. Seen \cap Addr \subseteq Seen'
    BY <1>1, HeapAssumption DEF Seen
  <1> QED BY <1>2, TraceStepInv DEF Inv, TypeOK

\* The last float of an object has been copied.
LEMMA CopyDoneInv == ASSUME Inv, CopyDone PROVE Inv'
  <1> USE DEF CopyDone
  <1>1. Marked' = Marked
    BY DEF Marked, Allocated, heap_vars
  <1>2. Seen' = Seen
    BY <1>1 DEF Seen, mark_vars
  <1> QED BY <1>2, TraceStepInv DEF Inv, TypeOK, mark_vars

\* The vectors are swapped, or both are empty: then the marked objects are closed.
LEMMA SwapRootsInv == ASSUME Inv, SwapRoots PROVE Inv'
  <1> USE DEF SwapRoots
  <1>1. /\ Allocated' = Allocated /\ Marked' = Marked /\ Roots' = Roots /\ Reach' = Reach
        /\ \A S : Closed(Roots, S)' <=> Closed(Roots, S)
    BY SameGraph DEF heap_vars
  <1>2. CASE new_roots # {}
    <2>1. Seen \cap Addr \subseteq Seen'
      BY <1>1 DEF Seen
    <2> QED BY <1>2, <2>1, TraceStepInv DEF Inv, TypeOK
  <1>3. CASE new_roots = {}
    <2> USE <1>3 DEF f64_vars, heap_vars
    <2>1. TypeOK'
      BY DEF Inv, TypeOK, F64TypeOK, PCs
    <2>2. Seen = Marked /\ kept = <<>>
      BY DEF Seen, Inv, ListInv
    <2>3. Live' = Marked
      <3>1. Range(<<>>) = {}
        BY DEF Range
      <3> QED BY <1>1, <2>2, <3>1 DEF Live
    <2>4. Closed(Roots, Marked)
      BY <2>2 DEF Inv, TraceInv, Closed
    <2>5. SweepInv'
      BY <1>1, <2>3, <2>4 DEF SweepInv
    <2>6. F64Inv' /\ ListInv' /\ MarkInv' /\ ClosedInv' /\ HandInv' /\ TraceInv'
      <3>1. Range(<<>>) = {}
        BY DEF Range
      <3> QED BY <1>1, <2>2, <3>1 DEF Inv, F64Inv, ListInv, MarkInv, ClosedInv, HandInv, TraceInv
    <2>7. ReqInv'
      BY <1>1 DEF Inv, ReqInv, Safe, Waiting
    <2> QED BY <2>1, <2>5, <2>6, <2>7 DEF Inv
  <1> QED BY <1>2, <1>3

\* Marking changes the mark and nothing else of the heap.
LEMMA MarkObjectHeap ==
  ASSUME Inv, NEW root \in current_roots, MarkObject(root)
  PROVE  /\ root \in Allocated /\ root \in Addr /\ root \notin Marked
         /\ heap[root].data \in Seq(AnyEnum)
         /\ heap' \in [Addr -> Object \cup {None}]
         /\ Allocated' = Allocated /\ Marked' = Marked \cup {root} /\ Roots' = Roots
         /\ \A b \in Allocated : heap'[b].data = heap[b].data
  <1> USE DEF MarkObject, f64_vars
  <1> DEFINE o == [heap[root] EXCEPT !.marked = TRUE]
  <1>1. root \in Allocated /\ root \in Addr /\ heap[root] \in Object /\ root \notin Marked
    BY HeapType DEF Inv, Allocated
  <1>2. o \in Object /\ o.marked = TRUE /\ o.data = heap[root].data
    BY <1>1 DEF Object
  <1>3. heap' = [heap EXCEPT ![root] = o]
    OBVIOUS
  <1> HIDE DEF o
  <1>4. heap' \in [Addr -> Object \cup {None}] /\ heap'[root] = o
        /\ \A b \in Addr \ {root} : heap'[b] = heap[b]
    BY <1>1, <1>2, <1>3 DEF Inv, TypeOK
  <1>5. Allocated' = Allocated
    BY <1>1, <1>2, <1>4, NoneAssumption DEF Allocated
  <1>6. Marked' = Marked \cup {root}
    BY <1>1, <1>2, <1>4, <1>5 DEF Marked, Allocated
  <1>7. Roots' = Roots
    BY DEF Roots
  <1>8. \A b \in Allocated : heap'[b].data = heap[b].data
    BY <1>2, <1>4 DEF Allocated
  <1> QED BY <1>1, <1>4, <1>5, <1>6, <1>7, <1>8 DEF Object

\* An object is marked and its children are queued.
LEMMA MarkObjectInv == ASSUME Inv, NEW root \in current_roots, MarkObject(root) PROVE Inv'
  <1>1. /\ root \in Allocated /\ root \in Addr /\ heap[root].data \in Seq(AnyEnum)
        /\ heap' \in [Addr -> Object \cup {None}]
        /\ Allocated' = Allocated /\ Marked' = Marked \cup {root} /\ Roots' = Roots
        /\ \A b \in Allocated : heap'[b].data = heap[b].data
    BY MarkObjectHeap
  <1> USE DEF MarkObject, f64_vars
  <1>2. pc = "mark"
    OBVIOUS
  <1>3. Reach \subseteq Reach'
    BY <1>1, ReachGrows
  <1>4. TypeOK'
    <2>1. Tags(heap[root].data) \subseteq Tag
      BY <1>1, TagsType
    <2>2. F64Cells(heap[root].data) \subseteq Nat
      BY <1>1 DEF F64Cells
    <2> QED BY <1>1, <2>1, <2>2 DEF Inv, TypeOK, F64TypeOK, PCs
  <1>5. F64Inv' /\ ListInv' /\ MarkInv' /\ HandInv' /\ SweepInv'
    BY <1>1, <1>2 DEF Inv, F64Inv, ListInv, MarkInv, HandInv, SweepInv
  <1>6. ClosedInv'
    BY <1>1, <1>2 DEF Inv, ClosedInv, Closed
  <1>7. TraceInv'
    <2>1. Seen \subseteq Seen' /\ Tags(heap[root].data) \subseteq Seen'
      BY <1>1 DEF Seen
    <2>2. Roots \cap Addr \subseteq Seen /\ \A a \in Marked : Tags(heap[a].data) \cap Addr \subseteq Seen
      BY <1>2 DEF Inv, TraceInv
    <2>3. \A a \in Marked' : Tags(heap'[a].data) \cap Addr \subseteq Seen'
      BY <1>1, <2>1, <2>2 DEF Marked
    <2>4. \A c \in f64s' : c[1] \in Allocated' /\ c[2] \in F64Cells(heap'[c[1]].data)
      BY <1>1
    <2> QED BY <1>1, <2>1, <2>2, <2>3, <2>4 DEF TraceInv
  <1>8. ReqInv'
    <2>1. Safe(req)
      BY <1>2 DEF Inv, ReqInv, Waiting
    <2>2. req.op = "f64" => req.at \in Addr
      BY <2>1, RequestType DEF Safe
    <2>3. Safe(req)'
      BY <1>1, <1>3, <2>1, <2>2, SafeKept DEF Allocated
    <2> QED BY <2>3 DEF ReqInv, Safe
  <1> QED BY <1>4, <1>5, <1>6, <1>7, <1>8 DEF Inv

\* A float moves; the pointers between objects stay as they are.
LEMMA CopyF64Inv == ASSUME Inv, NEW c \in f64s, CopyF64(c[1], c[2]) PROVE Inv'
  <1> DEFINE a == c[1]
             i == c[2]
             old == heap[a].data[i]
             v == F64Read(old)
             new == [F64Next(v) EXCEPT !.val = old.val]
  <1>1. pc = "copy" /\ c = <<a, i>> /\ F64TypeOK /\ next_slot < LEN
    BY DEF CopyF64, Inv, TypeOK, F64Inv
  <1>2. a \in Allocated /\ a \in Addr /\ i \in F64Cells(heap[a].data) /\ i \in DOMAIN heap[a].data
        /\ heap[a] \in Object
    BY <1>1, HeapType DEF Inv, TraceInv, F64Cells, Allocated
  <1>3. old \in AnyEnum /\ old.k = "f64"
    BY <1>2 DEF F64Cells, Object
  <1>4. old.space \in {0, 1} /\ old.index \in Slots /\ old.val \in Val
    BY <1>3 DEF AnyEnum, Imm
  <1>5. v \in Val
    BY <1>1, <1>4 DEF F64Read, F64TypeOK
  <1>6. /\ UNCHANGED <<kept, to, used_mem, shadow_stack, req, current_roots, new_roots, static_marked, hand>>
        /\ \/ /\ F64AllocSome(v) /\ heap' = [heap EXCEPT ![a].data[i] = new]
              /\ f64s' = f64s \ {c} /\ pc' = pc
           \/ F64AllocNone /\ pc' = "oom_copy" /\ UNCHANGED <<heap, f64s>>
    BY <1>1 DEF CopyF64
  <1> HIDE DEF v
  <1>7. CASE /\ F64AllocSome(v) /\ heap' = [heap EXCEPT ![a].data[i] = new]
             /\ f64s' = f64s \ {c} /\ pc' = pc
    <2>1. F64TypeOK' /\ next_slot' < LEN /\ F64Next(v) \in AnyEnum /\ F64Next(v).k = "f64"
      BY <1>1, <1>5, <1>7, F64SomeType
    <2>2. new \in AnyEnum /\ new.k = "f64"
      <3>1. next_slot \in Slots /\ current_space \in {0, 1}
        BY <1>1, LENAssumption DEF F64TypeOK, Slots
      <3>2. new = [k |-> "f64", space |-> current_space, index |-> next_slot, val |-> old.val]
        BY DEF F64Next
      <3> QED BY <1>4, <3>1, <3>2 DEF AnyEnum
    <2> HIDE DEF new
    <2>3. /\ heap' \in [Addr -> Object \cup {None}]
          /\ Allocated' = Allocated /\ Marked' = Marked /\ Roots' = Roots
          /\ Closed(Roots, Allocated)'
          /\ \A b \in Allocated : /\ Tags(heap'[b].data) = Tags(heap[b].data)
                                  /\ F64Cells(heap'[b].data) = F64Cells(heap[b].data)
                                  /\ DOMAIN heap'[b].data = DOMAIN heap[b].data
      BY <1>1, <1>2, <1>3, <1>6, <1>7, <2>2, BoxInto
    <2>4. Reach \subseteq Reach'
      BY <2>3, ReachGrows
    <2>5. TypeOK'
      BY <1>1, <1>6, <1>7, <2>1, <2>3 DEF Inv, TypeOK
    <2>6. F64Inv' /\ ListInv' /\ MarkInv' /\ ClosedInv' /\ HandInv' /\ SweepInv'
      BY <1>1, <1>6, <1>7, <2>1, <2>3
         DEF Inv, F64Inv, ListInv, MarkInv, ClosedInv, HandInv, SweepInv
    <2>7. TraceInv'
      <3>1. Seen' = Seen
        BY <1>6, <2>3 DEF Seen
      <3>2. Marked \subseteq Allocated
        BY DEF Marked
      <3> QED BY <1>1, <1>7, <2>3, <3>1, <3>2 DEF Inv, TraceInv
    <2>8. ReqInv'
      <3>1. Safe(req)
        BY <1>1 DEF Inv, ReqInv, Waiting
      <3>2. req.op = "f64" => req.at \in Addr
        BY <3>1, RequestType DEF Safe
      <3>3. Safe(req)'
        BY <1>6, <2>3, <2>4, <3>1, <3>2, SafeKept DEF Allocated
      <3> QED BY <1>6, <3>3 DEF ReqInv, Safe
    <2> QED BY <2>5, <2>6, <2>7, <2>8 DEF Inv
  <1>8. CASE F64AllocNone /\ pc' = "oom_copy" /\ UNCHANGED <<heap, f64s>>
    <2>1. F64TypeOK'
      BY <1>1, <1>8, F64NoneType
    <2>2. /\ Allocated' = Allocated /\ Marked' = Marked /\ Roots' = Roots
          /\ \A S : Closed(Roots, S)' <=> Closed(Roots, S)
      BY <1>6, <1>8, SameGraph
    <2>3. TypeOK'
      BY <1>6, <1>8, <2>1 DEF Inv, TypeOK, PCs, Panics
    <2> QED BY <1>1, <1>6, <1>8, <2>2, <2>3
            DEF Inv, F64Inv, ListInv, MarkInv, ClosedInv, HandInv, TraceInv, SweepInv, ReqInv, Waiting
  <1> QED BY <1>6, <1>7, <1>8

-----------------------------------------------------------------------------
(* The collector keeps the invariant: sweeping.                             *)

\* What sweep_phase does at a marked item.
LEMMA SweepKeepHeap ==
  ASSUME Inv, SweepKeep
  PROVE  /\ heap' \in [Addr -> Object \cup {None}] /\ kept' \in Seq(Addr) /\ to' \in Seq(Addr)
         /\ Allocated' = Allocated /\ Roots' = Roots /\ Live' = Live
         /\ \A b \in Allocated : heap'[b].data = heap[b].data
         /\ ListInv' /\ MarkInv'
  <1> DEFINE h == Head(to)
             o == [heap[h] EXCEPT !.marked = FALSE]
  <1> USE DEF SweepKeep, f64_vars, mark_vars
  <1>1. /\ h \in Addr /\ Tail(to) \in Seq(Addr) /\ Range(to) = Range(Tail(to)) \cup {h}
        /\ Distinct(Tail(to)) /\ h \notin Range(Tail(to))
    BY PopFront DEF Inv, TypeOK, ListInv
  <1>2. h \in Allocated /\ heap[h] \in Object /\ h \notin Range(kept) /\ h \in Marked
    BY <1>1, HeapType DEF Inv, ListInv, Marked
  <1>3. o \in Object /\ o.marked = FALSE /\ o.data = heap[h].data
    BY <1>2 DEF Object
  <1>4. heap' = [heap EXCEPT ![h] = o] /\ kept' = Append(kept, h) /\ to' = Tail(to) /\ pc = "sweep"
    OBVIOUS
  <1> HIDE DEF o, h
  <1>5. /\ kept' \in Seq(Addr) /\ Range(kept') = Range(kept) \cup {h} /\ Distinct(kept')
    BY <1>1, <1>2, <1>4, PushBack DEF Inv, TypeOK, ListInv
  <1>6. heap' \in [Addr -> Object \cup {None}] /\ heap'[h] = o
        /\ \A b \in Addr \ {h} : heap'[b] = heap[b]
    BY <1>1, <1>3, <1>4 DEF Inv, TypeOK
  <1>7. Allocated' = Allocated
    BY <1>1, <1>2, <1>3, <1>6, NoneAssumption DEF Allocated
  <1>8. Marked' = Marked \ {h}
    BY <1>3, <1>6, <1>7 DEF Marked, Allocated
  <1>9. Roots' = Roots /\ \A b \in Allocated : heap'[b].data = heap[b].data
    BY <1>3, <1>6 DEF Roots, Allocated
  <1>10. Live' = Live
    BY <1>2, <1>5, <1>8 DEF Live
  <1>11. ListInv'
    BY <1>1, <1>2, <1>4, <1>5, <1>7 DEF Inv, ListInv
  <1>12. MarkInv'
    BY <1>4, <1>5, <1>8 DEF Inv, MarkInv
  <1> QED BY <1>1, <1>4, <1>5, <1>6, <1>7, <1>9, <1>10, <1>11, <1>12

\* A marked object moves to the kept part of the list, so Live stays the same.
LEMMA SweepKeepInv == ASSUME Inv, SweepKeep PROVE Inv'
  <1>1. /\ heap' \in [Addr -> Object \cup {None}] /\ kept' \in Seq(Addr) /\ to' \in Seq(Addr)
        /\ Allocated' = Allocated /\ Roots' = Roots /\ Live' = Live
        /\ \A b \in Allocated : heap'[b].data = heap[b].data
        /\ ListInv' /\ MarkInv'
    BY SweepKeepHeap
  <1> USE DEF SweepKeep, f64_vars, mark_vars
  <1>2. pc = "sweep"
    OBVIOUS
  <1>3. Reach \subseteq Reach'
    BY <1>1, ReachGrows
  <1>4. TypeOK'
    BY <1>1 DEF Inv, TypeOK, F64TypeOK
  <1>5. SweepInv'
    BY <1>1, <1>2 DEF Inv, SweepInv, Closed
  <1>6. ReqInv'
    <2>1. Safe(req)
      BY <1>2 DEF Inv, ReqInv, Waiting
    <2>2. req.op = "f64" => req.at \in Addr
      BY <2>1, RequestType DEF Safe
    <2>3. Safe(req)'
      BY <1>1, <1>3, <2>1, <2>2, SafeKept DEF Allocated
    <2> QED BY <2>3 DEF ReqInv, Safe
  <1>7. F64Inv' /\ ClosedInv' /\ HandInv' /\ TraceInv'
    BY <1>1, <1>2 DEF Inv, F64Inv, ClosedInv, HandInv, TraceInv
  <1> QED BY <1>1, <1>4, <1>5, <1>6, <1>7 DEF Inv

\* What sweep_phase does at an unmarked item: what it frees lies outside Live,
\* and every closed set of the smaller heap, cut down to Live, is closed in the
\* larger one.
LEMMA SweepFreeHeap ==
  ASSUME Inv, SweepFree
  PROVE  /\ heap' \in [Addr -> Object \cup {None}] /\ to' \in Seq(Addr) /\ used_mem' \in Int
         /\ Allocated' \subseteq Allocated /\ Roots' = Roots /\ Live' = Live
         /\ Live \subseteq Allocated /\ Closed(Roots, Live) /\ Reach \subseteq Live
         /\ \A b \in Live : b \in Allocated' /\ heap'[b] = heap[b]
         /\ Reach \subseteq Reach'
         /\ ListInv' /\ MarkInv'
  <1> DEFINE h == Head(to)
  <1> USE DEF SweepFree, f64_vars, mark_vars
  <1>1. /\ h \in Addr /\ Tail(to) \in Seq(Addr) /\ Range(to) = Range(Tail(to)) \cup {h}
        /\ Distinct(Tail(to)) /\ h \notin Range(Tail(to))
    BY PopFront DEF Inv, TypeOK, ListInv
  <1>2. h \in Allocated /\ heap[h] \in Object /\ h \notin Range(kept) /\ h \notin Marked
    BY <1>1, HeapType DEF Inv, ListInv, Marked
  <1>3. heap' = [heap EXCEPT ![h] = None] /\ kept' = kept /\ to' = Tail(to) /\ pc = "sweep"
        /\ used_mem' = used_mem - Swept(heap[h])
    OBVIOUS
  <1> HIDE DEF h
  <1>4. heap' \in [Addr -> Object \cup {None}] /\ heap'[h] = None
        /\ \A b \in Addr \ {h} : heap'[b] = heap[b]
    BY <1>1, <1>3 DEF Inv, TypeOK
  <1>5. Allocated' = Allocated \ {h}
    BY <1>1, <1>4 DEF Allocated
  <1>6. Marked' = Marked
    BY <1>2, <1>4, <1>5 DEF Marked, Allocated
  <1>7. Roots' = Roots /\ Live' = Live /\ h \notin Live
    BY <1>2, <1>3, <1>6 DEF Roots, Live
  <1>8. Live \subseteq Allocated /\ Closed(Roots, Live)
    BY <1>3, LiveAllocated DEF Inv, SweepInv
  <1>9. \A b \in Live : b \in Allocated' /\ heap'[b] = heap[b]
    BY <1>4, <1>5, <1>7, <1>8 DEF Allocated
  <1>10. Reach \subseteq Reach'
    <2> SUFFICES ASSUME NEW x \in Reach, NEW S \in SUBSET Addr, Closed(Roots, S)'
                 PROVE  x \in S
      BY DEF Reach, ReachFrom
    <2>1. S \cap Live \in SUBSET Addr /\ Closed(Roots, S \cap Live)
      BY <1>7, <1>8, <1>9 DEF Closed
    <2> QED BY <2>1, ReachLeast
  <1>11. Reach \subseteq Live
    BY <1>8, ReachLeast DEF Allocated
  <1>12. ListInv'
    BY <1>1, <1>2, <1>3, <1>5 DEF Inv, ListInv
  <1>13. MarkInv'
    BY <1>3, <1>6 DEF Inv, MarkInv
  <1>14. used_mem' \in Int
    BY <1>2, <1>3, SweptType DEF Inv, TypeOK, Object
  <1> QED BY <1>1, <1>3, <1>4, <1>5, <1>7, <1>8, <1>9, <1>10, <1>11, <1>12, <1>13, <1>14

\* The step that frees.
LEMMA SweepFreeInv == ASSUME Inv, SweepFree PROVE Inv'
  <1>1. /\ heap' \in [Addr -> Object \cup {None}] /\ to' \in Seq(Addr) /\ used_mem' \in Int
        /\ Roots' = Roots /\ Live' = Live /\ Closed(Roots, Live) /\ Reach \subseteq Live
        /\ Live \subseteq Allocated /\ \A b \in Live : b \in Allocated' /\ heap'[b] = heap[b]
        /\ Reach \subseteq Reach'
        /\ ListInv' /\ MarkInv'
    BY SweepFreeHeap
  <1> USE DEF SweepFree, f64_vars, mark_vars
  <1>2. pc = "sweep" /\ kept' = kept
    OBVIOUS
  <1>3. TypeOK'
    BY <1>1 DEF Inv, TypeOK, F64TypeOK
  <1>4. SweepInv'
    BY <1>1 DEF SweepInv, Closed
  <1>5. ReqInv'
    <2>1. Safe(req)
      BY <1>2 DEF Inv, ReqInv, Waiting
    <2>2. req.op = "f64" => heap'[req.at] = heap[req.at]
      BY <1>1, <2>1 DEF Safe
    <2>3. Safe(req)'
      BY <1>1, <2>1, <2>2, SafeKept
    <2> QED BY <2>3 DEF ReqInv, Safe
  <1>6. F64Inv' /\ ClosedInv' /\ TraceInv' /\ HandInv'
    BY <1>2 DEF Inv, F64Inv, ClosedInv, TraceInv, HandInv
  <1> QED BY <1>1, <1>3, <1>4, <1>5, <1>6 DEF Inv

\* The sweep ends: everything that is left is Live.
LEMMA SweepDoneInv == ASSUME Inv, SweepDone PROVE Inv'
  <1> USE DEF SweepDone, f64_vars, mark_vars
  <1>1. /\ Allocated' = Allocated /\ Marked' = Marked /\ Roots' = Roots /\ Reach' = Reach
        /\ \A S : Closed(Roots, S)' <=> Closed(Roots, S)
    BY SameGraph
  <1>2. Range(<<>>) = {} /\ Distinct(<<>>) /\ <<>> \in Seq(Addr)
    BY DEF Range, Distinct
  <1>3. Range(kept) = Allocated /\ Marked = {}
    BY <1>2 DEF Inv, ListInv, MarkInv, Marked
  <1>4. Live = Allocated
    BY <1>3 DEF Live
  <1>5. TypeOK'
    BY <1>2 DEF Inv, TypeOK, F64TypeOK, PCs
  <1>6. ListInv'
    BY <1>1, <1>2, <1>3 DEF Inv, ListInv
  <1>7. F64Inv' /\ MarkInv' /\ HandInv' /\ TraceInv' /\ SweepInv'
    BY <1>1, <1>3 DEF Inv, F64Inv, MarkInv, HandInv, TraceInv, SweepInv
  <1>8. ClosedInv'
    BY <1>1, <1>4 DEF Inv, SweepInv, ClosedInv
  <1>9. ReqInv'
    BY <1>1 DEF Inv, ReqInv, Safe, Waiting
  <1> QED BY <1>5, <1>6, <1>7, <1>8, <1>9 DEF Inv

-----------------------------------------------------------------------------
(* The theorems.                                                            *)

\* Stuttering keeps the invariant.
LEMMA StutterInv == ASSUME Inv, UNCHANGED vars PROVE Inv'
  <1> USE DEF vars, f64_vars, heap_vars, mark_vars
  <1>1. /\ Allocated' = Allocated /\ Marked' = Marked /\ Roots' = Roots /\ Reach' = Reach
        /\ \A S : Closed(Roots, S)' <=> Closed(Roots, S)
    BY SameGraph
  <1>2. TypeOK' /\ F64Inv' /\ ListInv' /\ MarkInv' /\ HandInv' /\ ClosedInv'
    BY <1>1 DEF Inv, TypeOK, F64TypeOK, F64Inv, ListInv, MarkInv, HandInv, ClosedInv
  <1>3. TraceInv'
    BY <1>1 DEF Inv, TraceInv, Seen
  <1>4. SweepInv' /\ ReqInv'
    BY <1>1 DEF Inv, SweepInv, Live, ReqInv, Safe
  <1> QED BY <1>2, <1>3, <1>4 DEF Inv

\* Every action of the client keeps the invariant.
LEMMA ClientInv == ASSUME Inv, Client PROVE Inv'
  <1>0. pc = "run"
    BY DEF Client
  <1>1. CASE \E n \in 1 .. FrameSlots : push_shadow_frame(n)
    BY <1>1, PushInv
  <1>2. CASE pop_shadow_frame
    BY <1>2, PopInv
  <1>3. CASE \E ptr \in Holdable \cup {None}, slot \in 1 .. FrameSlots :
                \/ set_in_current_shadow_frame_slot(slot, ptr)
                \/ set_in_shadow_frame_slot(1, slot, ptr)
    BY <1>0, <1>3, SetSlotInv DEF set_in_current_shadow_frame_slot
  <1>4. CASE \E v \in Storable, a \in Writable : \E i \in DOMAIN heap[a].data : Write(a, i, v)
    BY <1>4, WriteInv
  <1>5. CASE \E r \in Wanted : alloc_or_gc(r)
    BY <1>5, AllocOrGcInv
  <1>6. CASE run_gc
    BY <1>6, RunGcInv
  <1> QED BY <1>1, <1>2, <1>3, <1>4, <1>5, <1>6 DEF Client

\* Every action of the collector keeps the invariant.
LEMMA CollectInv == ASSUME Inv, Collect PROVE Inv'
  <1>1. CASE gc
    BY <1>1, GcInv
  <1>2. CASE \E root \in current_roots : MarkSkip(root) \/ MarkObject(root) \/ MarkStatic(root)
    BY <1>2, MarkSkipInv, MarkObjectInv, MarkStaticInv
  <1>3. CASE \E c \in f64s : CopyF64(c[1], c[2])
    BY <1>3, CopyF64Inv
  <1>4. CASE CopyDone \/ SwapRoots
    BY <1>4, CopyDoneInv, SwapRootsInv
  <1>5. CASE SweepKeep \/ SweepFree \/ SweepDone
    BY <1>5, SweepKeepInv, SweepFreeInv, SweepDoneInv
  <1>6. CASE Retry
    BY <1>6, RetryInv
  <1> QED BY <1>1, <1>2, <1>3, <1>4, <1>5, <1>6 DEF Collect

\* Inv is an inductive invariant of the heap, whatever the client does within
\* its contract and wherever the collector is.
THEOREM Invariance == Spec => []Inv
  <1>1. Init => Inv
    BY InitInv
  <1>2. Inv /\ [Next]_vars => Inv'
    BY ClientInv, CollectInv, StutterInv DEF Next, Trapped
  <1> QED BY <1>1, <1>2, PTL DEF Spec

\* Every variable of the heap keeps its type; in particular the retry of a
\* float that had to wait for a collection stores into an object that survived.
THEOREM TypeCorrect == Spec => []TypeOK
  <1>1. Inv => TypeOK
    BY DEF Inv
  <1> QED BY <1>1, Invariance, PTL

\* Heap::gc frees nothing the program can reach, at any point of a mark or a
\* sweep, for every heap and every program that keeps the contract.
THEOREM GcSafe == Spec => []NoDangling
  <1>1. Inv => NoDangling
    BY InvNoDangling
  <1> QED BY <1>1, Invariance, PTL

\* The unchecked write of F64Allocator::alloc stays inside its space, although
\* a refused call leaves next_slot at LEN.
THEOREM F64Safe == Spec => []F64InBounds
  <1>1. Inv => F64InBounds
    BY DEF Inv, F64Inv, F64InBounds
  <1> QED BY <1>1, Invariance, PTL
=============================================================================
