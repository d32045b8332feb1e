-------------------------------- MODULE Heap --------------------------------
(***************************************************************************)
(* The managed heap of the runtime (runtime/src/allocator/mod.rs): the     *)
(* allocation list and its size accounting, the shadow stack of roots, the *)
(* mark-and-sweep collector with the copying region for floats, and the    *)
(* ..._or_gc allocation functions that collect and try once more.          *)
(*                                                                         *)
(* A heap object is what the collector can tell of it: its mark, its tag   *)
(* and its data as a sequence of cells, and beside them `size`, the bytes  *)
(* that were asked for when it was allocated.  The code keeps no such      *)
(* number: sweep_phase works out from the tag what it gives back.  A cell  *)
(* is an AnyEnum: a pointer to another tag (Ptr, Closure, an object's      *)
(* data, an environment's fn_obj and a class's key strings all are), a     *)
(* boxed float, or anything else ("imm").  The vectors of the mark phase   *)
(* are sets: a duplicate is skipped by the marked test and their order is  *)
(* not observable.  The linked allocation list is kept as a zipper: `to`   *)
(* is the part from the sweep's cursor on, `kept` the part behind it       *)
(* (empty outside a sweep).                                                *)
(*                                                                         *)
(* The client is the Rust or compiled code between two calls into the      *)
(* heap.  It obeys the contract of Heap::gc: what it wants to survive a    *)
(* collection is reachable from the shadow stack.  `hand` is the pointer   *)
(* the last allocation returned; a collection makes it unusable.           *)
(***************************************************************************)
EXTENDS F64Allocator, Sequences, Functions, FiniteSets

CONSTANTS Addr,        \* addresses the Rust allocator may return
          Static,      \* tags outside the list: interned strings, address 0
          None,        \* Option::None, a free address, no pointer
          Size,        \* Heap::size, the byte budget
          Kinds,       \* the shapes the client allocates: tag, bytes, cells,
                       \* and how many cells the allocating call fills in
          MaxFrames,   \* bound on the depth of the shadow stack
          FrameSlots   \* bound on the slots of a frame

ASSUME HeapAssumption ==
    /\ Addr \cap Static = {}
    /\ None \notin Addr \cup Static
    /\ Size \in Nat
    /\ MaxFrames \in Nat /\ FrameSlots \in Nat

-----------------------------------------------------------------------------
(* Sizes in bytes on wasm32.                                                *)

tag_size == 4

\* A tag: its TypeTag, and what get_data_size looks up for it where the type
\* does not fix the size: a string's length, an environment's length, the
\* number of fields of the class.
TypeTags == {"String", "HT", "Array", "Any", "DynObject", "ObjectPtrPtr",
             "Env", "NonPtr32", "MutF64", "Ptr"}
TagWord == [type : TypeTags, len : Nat]
TagOf(type) == [type |-> type, len |-> 0]

\* Mutant: an AnyValue is taken for one word.
get_data_size_AnyWord(tag) ==
    CASE tag.type = "String" -> tag.len + 4
      [] tag.type = "Env" -> 8 * tag.len + 8
      [] tag.type = "DynObject" -> 8 * tag.len
      [] tag.type = "HT" -> 32
      [] tag.type = "Array" -> 12
      [] tag.type = "MutF64" -> 8
      [] OTHER -> 4

\* AnyPtr::get_data_size: the type tag alone selects the layout.
get_data_size(tag) ==
    CASE tag.type = "String" -> tag.len + 4
      [] tag.type = "Env" -> 8 * tag.len + 8
      [] tag.type = "DynObject" -> 8 * tag.len
      [] tag.type = "HT" -> 32
      [] tag.type = "Array" -> 12
      [] tag.type \in {"Any", "MutF64"} -> 8
      [] OTHER -> 4

\* What sweep_phase gives back for x, and whether that is what alloc_raw was
\* asked for.
Swept(x) == tag_size + get_data_size(x.tag)
Follows(x) == x.size = Swept(x)

ObjectPtrTag == TagOf("ObjectPtrPtr")
ObjectSize == tag_size + 4

\* ref_new_any, and the data of an object: n fields, empty at first.
ref_new_any == [tag |-> TagOf("Any"), size |-> tag_size + 8, cells |-> 1, init |-> 1]
ObjectData(n) == [tag |-> [type |-> "DynObject", len |-> n],
                  size |-> tag_size + 8 * n, cells |-> n, init |-> 0]

\* An f64 takes 8 bytes, but its TYPE_TAG is Ptr: what the collector sees of it
\* is a pointer, the float's low word.
ref_new_f64 == [tag |-> TagOf("Ptr"), size |-> tag_size + 8, cells |-> 1, init |-> 1]
IsF64Ref(x) == x.tag.type = "Ptr" /\ x.size = tag_size + 8

\* No shape is swept for more than it was allocated with.
ASSUME KindsAssumption ==
    /\ Kinds \subseteq [tag : TagWord, size : Nat \ {0}, cells : Nat, init : Nat]
    /\ \A kd \in Kinds : Swept(kd) <= kd.size

\* Every shape but that of a float reference has the size its tag says.
AllFollow == \A kd \in Kinds : Follows(kd)

-----------------------------------------------------------------------------
(* State *)

VARIABLES heap,           \* memory: Addr -> object or None
          kept, to,       \* alloc_list as a zipper
          used_mem,
          shadow_stack,
          pc,             \* where the single thread is
          req,            \* the allocation that waits for the collection
          current_roots, new_roots, f64s,   \* locals of mark_phase
          static_marked,  \* Static tags whose mark bit is set
          hand

heap_vars == <<heap, kept, to, used_mem>>
mark_vars == <<current_roots, new_roots, f64s>>
vars == <<f64_vars, heap_vars, shadow_stack, pc, req, mark_vars, static_marked, hand>>

Tag == Addr \cup Static
Imm == [k |-> "imm"]
PtrTo(p) == [k |-> "ptr", to |-> p]
AnyEnum == {Imm} \cup [k : {"ptr"}, to : Tag]
             \cup [k : {"f64"}, space : {0, 1}, index : Slots, val : Val]
Object == [marked : BOOLEAN, tag : TagWord, size : Nat, data : Seq(AnyEnum)]

ASSUME NoneAssumption == None \notin Object

Panics == {"oom", "oom_f64", "oom_copy"}
PCs == {"run", "gc", "mark", "copy", "sweep", "retry"} \cup Panics
Requests == [op : {"gc"}]
            \cup [op : {"alloc", "object"}, tag : TagWord, size : Nat \ {0}, data : Seq(AnyEnum)]
            \cup [op : {"f64"}, at : Addr, cell : Nat, val : Val]

-----------------------------------------------------------------------------
(* What the collector sees. *)

\* AnyPtr::get_gc_ptrs: the tags and the float cells of an object.
PtrCells(data) == {i \in DOMAIN data : data[i].k = "ptr"}
Tags(data) == {data[i].to : i \in PtrCells(data)}
F64Cells(data) == {i \in DOMAIN data : data[i].k = "f64"}

\* The slots of every frame that hold Some(ptr).
Roots == (UNION {Range(shadow_stack[f]) : f \in DOMAIN shadow_stack}) \ {None}

Allocated == {a \in Addr : heap[a] # None}

\* S holds R and what its objects point to.
Closed(R, S) ==
    /\ R \cap Addr \subseteq S
    /\ \A a \in S \cap Allocated : Tags(heap[a].data) \cap Addr \subseteq S

\* Addresses that can be reached from R: the least closed set.
ReachFrom(R) == {a \in Addr : \A S \in SUBSET Addr : Closed(R, S) => a \in S}
Reach == ReachFrom(Roots)

Marked == {a \in Allocated : heap[a].marked}

-----------------------------------------------------------------------------
(* Init *)

Init ==
    /\ F64New
    /\ heap = [a \in Addr |-> None]
    /\ kept = <<>> /\ to = <<>>
    /\ used_mem = 0
    /\ shadow_stack = <<>>
    /\ pc = "run"
    /\ req = None
    /\ current_roots = {} /\ new_roots = {} /\ f64s = {}
    /\ static_marked = {}
    /\ hand = None

-----------------------------------------------------------------------------
(* The shadow stack: push_shadow_frame, pop_shadow_frame and the setters.   *)

Stack(s) ==
    /\ pc = "run"
    /\ shadow_stack' = s
    /\ UNCHANGED <<f64_vars, heap_vars, pc, req, mark_vars, static_marked, hand>>

push_shadow_frame(slots) ==
    /\ Len(shadow_stack) < MaxFrames
    /\ Stack(Append(shadow_stack, [i \in 1 .. slots |-> None]))

pop_shadow_frame ==
    /\ shadow_stack # <<>>
    /\ Stack(SubSeq(shadow_stack, 1, Len(shadow_stack) - 1))

\* Pointers the client holds: what it can load, and its last allocation.
Holdable == Reach \cup Static \cup ({hand} \ {None})

set_in_shadow_frame_slot(frame, slot, ptr) ==
    /\ frame \in DOMAIN shadow_stack /\ slot \in DOMAIN shadow_stack[frame]
    /\ Stack([shadow_stack EXCEPT ![frame][slot] = ptr])

set_in_current_shadow_frame_slot(slot, ptr) ==
    set_in_shadow_frame_slot(Len(shadow_stack), slot, ptr)


-----------------------------------------------------------------------------
(* The client's own stores.                                                 *)

\* An object the client can write to, and what it can store: immediates,
\* pointers it holds and floats it loads (copied as pointers, so aliased).
Writable == (Reach \cup {hand}) \cap Allocated
Loaded == UNION {Range(heap[a].data) : a \in Writable}
Storable == {Imm} \cup {PtrTo(p) : p \in Holdable} \cup {v \in Loaded : v.k = "f64"}

\* The low words of the floats a float reference may hold that are addresses
\* outside the allocation list (0 for every small integer).  Other floats make
\* the collector follow a wild address and are left out.
LowWords == {PtrTo(p) : p \in Static}

\* array_set, array_push, ht_set, ObjectDataPtr::write_at, EnvPtr::init_at and
\* the raw store into a ref: one cell of one object.
Write(a, i, v) ==
    /\ pc = "run"
    /\ IsF64Ref(heap[a]) => v \in LowWords
    /\ heap' = [heap EXCEPT ![a].data[i] = v]
    /\ UNCHANGED <<f64_vars, kept, to, used_mem, shadow_stack, pc, req, mark_vars, static_marked, hand>>

-----------------------------------------------------------------------------
(* Allocation.  AllocOk and AllocFails are the two outcomes of one attempt  *)
(* (Heap::alloc, alloc_str, alloc_env, alloc_object_data, alloc_object and  *)
(* f64_allocator.alloc); an ..._or_gc function makes at most two.           *)

Fits(bytes) == Size - used_mem >= bytes

\* Mutant: what is counted is what the tag says.
alloc_raw_TagSize(a, tag, bytes, data) ==
    /\ heap[a] = None
    /\ heap' = [heap EXCEPT ![a] = [marked |-> FALSE, tag |-> tag, size |-> bytes, data |-> data]]
    /\ used_mem' = used_mem + tag_size + get_data_size(tag)
    /\ to' = <<a>> \o to
    /\ UNCHANGED kept

\* alloc_raw and the writes of tag and value that follow it.
alloc_raw(a, tag, bytes, data) ==
    /\ heap[a] = None
    /\ heap' = [heap EXCEPT ![a] = [marked |-> FALSE, tag |-> tag, size |-> bytes, data |-> data]]
    /\ used_mem' = used_mem + bytes
    /\ to' = <<a>> \o to
    /\ UNCHANGED kept

\* alloc_object: the object's data, then the ObjectPtr that points to it.
alloc_object(d, o, tag, bytes, data) ==
    /\ heap[d] = None /\ heap[o] = None /\ d # o
    /\ heap' = [heap EXCEPT ![d] = [marked |-> FALSE, tag |-> tag, size |-> bytes, data |-> data],
                            ![o] = [marked |-> FALSE, tag |-> ObjectPtrTag, size |-> ObjectSize,
                                    data |-> <<PtrTo(d)>>]]
    /\ used_mem' = used_mem + bytes + ObjectSize
    /\ to' = <<o, d>> \o to
    /\ UNCHANGED kept

AllocOk(r) ==
    \/ /\ r.op = "alloc" /\ Fits(r.size)
       /\ \E a \in Addr : alloc_raw(a, r.tag, r.size, r.data) /\ hand' = a
       /\ UNCHANGED f64_vars
    \/ /\ r.op = "object" /\ Fits(r.size + ObjectSize)
       /\ \E d, o \in Addr : alloc_object(d, o, r.tag, r.size, r.data) /\ hand' = o
       /\ UNCHANGED f64_vars
    \/ /\ r.op = "f64"
       /\ F64AllocSome(r.val)
       /\ heap' = [heap EXCEPT ![r.at].data[r.cell] = F64Next(r.val)]
       /\ UNCHANGED <<kept, to, used_mem, hand>>

\* alloc_object is not atomic: its first half may stay behind.
AllocFails(r) ==
    \/ r.op = "alloc" /\ ~Fits(r.size) /\ UNCHANGED <<heap_vars, f64_vars>>
    \/ r.op = "object" /\ ~Fits(r.size) /\ UNCHANGED <<heap_vars, f64_vars>>
    \/ /\ r.op = "object" /\ Fits(r.size) /\ ~Fits(r.size + ObjectSize)
       /\ \E a \in Addr : alloc_raw(a, r.tag, r.size, r.data)
       /\ UNCHANGED f64_vars
    \/ r.op = "f64" /\ F64AllocNone /\ UNCHANGED heap_vars

\* Requests that keep the contract: initial pointers are reachable, a float is
\* boxed straight into a cell of a reachable object.
InitialCells(kd) ==
    IF IsF64Ref(kd) THEN LowWords ELSE {Imm} \cup {PtrTo(p) : p \in Reach \cup Static}
InitialData(kd) ==
    {v \in [1 .. kd.cells -> {Imm} \cup InitialCells(kd)] :
        \A i \in 1 .. kd.cells : IF i > kd.init THEN v[i] = Imm ELSE v[i] \in InitialCells(kd)}
Wants(op, kd) ==
    [op : {op}, tag : {kd.tag}, size : {kd.size}, data : InitialData(kd)]
Wanted ==
    (UNION {Wants("alloc", kd) : kd \in Kinds})
    \cup (UNION {Wants("object", kd) : kd \in {kd \in Kinds : kd.tag.type = "DynObject"}})
    \cup (UNION {[op : {"f64"}, at : {a}, cell : DOMAIN heap[a].data, val : Val] :
                     a \in {a \in Reach \cap Allocated : ~IsF64Ref(heap[a])}})

\* alloc_or_gc, alloc_str_or_gc, alloc_env_or_gc, alloc_object_or_gc,
\* alloc_object_data_or_gc, alloc_f64_or_gc: the first attempt.
alloc_or_gc(r) ==
    /\ pc = "run"
    /\ \/ AllocOk(r) /\ UNCHANGED <<pc, req>>
       \/ AllocFails(r) /\ pc' = "gc" /\ req' = r /\ hand' = None
    /\ UNCHANGED <<shadow_stack, mark_vars, static_marked>>

\* run_gc and heap_dump collect without allocating.
run_gc ==
    /\ pc = "run"
    /\ pc' = "gc" /\ req' = [op |-> "gc"] /\ hand' = None
    /\ UNCHANGED <<f64_vars, heap_vars, shadow_stack, mark_vars, static_marked>>

\* After the collection: the second attempt, whose failure is a trap.
Retry ==
    /\ pc = "retry"
    /\ \/ req.op = "gc" /\ pc' = "run" /\ UNCHANGED <<heap_vars, f64_vars, hand>>
       \/ AllocOk(req) /\ pc' = "run"
       \/ /\ AllocFails(req)
          /\ pc' = IF req.op = "f64" THEN "oom_f64" ELSE "oom"
          /\ UNCHANGED hand
    /\ req' = IF pc' = "run" THEN None ELSE req
    /\ UNCHANGED <<shadow_stack, mark_vars, static_marked>>

-----------------------------------------------------------------------------
(* Heap::gc.  The thread runs nothing else until the sweep has ended.       *)

\* Collect the roots and enter mark_phase, which swaps the float spaces first.
gc ==
    /\ pc = "gc"
    /\ current_roots' = Roots
    /\ semispace_swap
    /\ pc' = "mark"
    /\ UNCHANGED <<heap_vars, shadow_stack, req, new_roots, f64s, static_marked, hand>>

\* One iteration of the for loop: skip a marked tag ...
MarkSkip(root) ==
    /\ pc = "mark" /\ root \in current_roots
    /\ root \in Marked \cup static_marked
    /\ current_roots' = current_roots \ {root}
    /\ UNCHANGED <<f64_vars, heap_vars, shadow_stack, pc, req, new_roots, f64s, static_marked, hand>>

\* ... or mark it, queue its tags and go on to copy its floats.
MarkObject(root) ==
    /\ pc = "mark" /\ root \in current_roots
    /\ root \in Allocated \ Marked
    /\ current_roots' = current_roots \ {root}
    /\ heap' = [heap EXCEPT ![root].marked = TRUE]
    /\ new_roots' = new_roots \cup Tags(heap[root].data)
    /\ f64s' = {<<root, i>> : i \in F64Cells(heap[root].data)}
    /\ pc' = "copy"
    /\ UNCHANGED <<f64_vars, kept, to, used_mem, shadow_stack, req, static_marked, hand>>

\* A tag outside the allocation list has no pointers; no sweep clears its mark.
MarkStatic(root) ==
    /\ pc = "mark" /\ root \in current_roots
    /\ root \in Static \ static_marked
    /\ current_roots' = current_roots \ {root}
    /\ static_marked' = static_marked \cup {root}
    /\ UNCHANGED <<f64_vars, heap_vars, shadow_stack, pc, req, new_roots, f64s, hand>>

\* Mutant: the float is copied but the pointer to it is not updated.
CopyF64_KeepPointer(a, i) ==
    /\ pc = "copy" /\ <<a, i>> \in f64s
    /\ \/ F64AllocSome(F64Read(heap[a].data[i])) /\ f64s' = f64s \ {<<a, i>>} /\ UNCHANGED pc
       \/ F64AllocNone /\ pc' = "oom_copy" /\ UNCHANGED f64s
    /\ UNCHANGED <<heap_vars, shadow_stack, req, current_roots, new_roots, static_marked, hand>>

\* *ptr = f64_allocator.alloc( **ptr ).unwrap() for one float cell.
CopyF64(a, i) ==
    /\ pc = "copy" /\ <<a, i>> \in f64s
    /\ LET val == F64Read(heap[a].data[i]) IN
       \/ /\ F64AllocSome(val)
          /\ heap' = [heap EXCEPT ![a].data[i] =
                         [F64Next(val) EXCEPT !.val = heap[a].data[i].val]]
          /\ f64s' = f64s \ {<<a, i>>}
          /\ UNCHANGED pc
       \/ F64AllocNone /\ pc' = "oom_copy" /\ UNCHANGED <<heap, f64s>>
    /\ UNCHANGED <<kept, to, used_mem, shadow_stack, req, current_roots, new_roots, static_marked, hand>>

CopyDone ==
    /\ pc = "copy" /\ f64s = {}
    /\ pc' = "mark"
    /\ UNCHANGED <<f64_vars, heap_vars, shadow_stack, req, mark_vars, static_marked, hand>>

\* Mutant: the queued tags are copied instead of moved.
SwapRoots_Clone ==
    /\ pc = "mark" /\ current_roots = {}
    /\ current_roots' = new_roots
    /\ pc' = IF new_roots = {} THEN "sweep" ELSE "mark"
    /\ UNCHANGED <<f64_vars, heap_vars, shadow_stack, req, new_roots, f64s, static_marked, hand>>

\* The vectors are swapped when the drained one is empty; the while loop ends
\* when the swapped-in one is empty too.
SwapRoots ==
    /\ pc = "mark" /\ current_roots = {}
    /\ current_roots' = new_roots /\ new_roots' = {}
    /\ pc' = IF new_roots = {} THEN "sweep" ELSE "mark"
    /\ UNCHANGED <<f64_vars, heap_vars, shadow_stack, req, f64s, static_marked, hand>>

\* Mutant: the mark stays set, so the next collection does not follow the item.
SweepKeep_StaleMark ==
    /\ pc = "sweep" /\ to # <<>>
    /\ heap[Head(to)].marked
    /\ kept' = Append(kept, Head(to)) /\ to' = Tail(to)
    /\ UNCHANGED <<f64_vars, heap, used_mem, shadow_stack, pc, req, mark_vars, static_marked, hand>>

\* sweep_phase at a marked item: clear the mark and step over it.
SweepKeep ==
    /\ pc = "sweep" /\ to # <<>>
    /\ heap[Head(to)].marked
    /\ heap' = [heap EXCEPT ![Head(to)].marked = FALSE]
    /\ kept' = Append(kept, Head(to)) /\ to' = Tail(to)
    /\ UNCHANGED <<f64_vars, used_mem, shadow_stack, pc, req, mark_vars, static_marked, hand>>

\* Mutant: the cursor steps past the item that follows the unlinked one.
SweepFree_StepPast ==
    /\ pc = "sweep" /\ to # <<>>
    /\ ~heap[Head(to)].marked
    /\ used_mem' = used_mem - Swept(heap[Head(to)])
    /\ heap' = [heap EXCEPT ![Head(to)] = None]
    /\ IF Len(to) = 1 THEN UNCHANGED kept ELSE kept' = Append(kept, to[2])
    /\ to' = IF Len(to) = 1 THEN <<>> ELSE Tail(Tail(to))
    /\ UNCHANGED <<f64_vars, shadow_stack, pc, req, mark_vars, static_marked, hand>>

\* sweep_phase at an unmarked item: drop, deallocate, unlink, and take off the
\* size its tag gives; the cursor now stands on the item that followed.
SweepFree ==
    /\ pc = "sweep" /\ to # <<>>
    /\ ~heap[Head(to)].marked
    /\ used_mem' = used_mem - Swept(heap[Head(to)])
    /\ heap' = [heap EXCEPT ![Head(to)] = None]
    /\ to' = Tail(to)
    /\ UNCHANGED <<f64_vars, kept, shadow_stack, pc, req, mark_vars, static_marked, hand>>

SweepDone ==
    /\ pc = "sweep" /\ to = <<>>
    /\ to' = kept /\ kept' = <<>>
    /\ pc' = "retry"
    /\ UNCHANGED <<f64_vars, heap, used_mem, shadow_stack, req, mark_vars, static_marked, hand>>

\* A panic is a WebAssembly trap: nothing runs any more.
Trapped == pc \in Panics /\ UNCHANGED vars

-----------------------------------------------------------------------------
Collect ==
    \/ gc
    \/ \E root \in current_roots : MarkSkip(root) \/ MarkObject(root) \/ MarkStatic(root)
    \/ \E c \in f64s : CopyF64(c[1], c[2])
    \/ CopyDone \/ SwapRoots
    \/ SweepKeep \/ SweepFree \/ SweepDone
    \/ Retry

Client ==
    /\ pc = "run"
    /\ \/ \E n \in 1 .. FrameSlots : push_shadow_frame(n)
       \/ pop_shadow_frame
       \/ \E ptr \in Holdable \cup {None}, slot \in 1 .. FrameSlots :
             \/ set_in_current_shadow_frame_slot(slot, ptr)
             \/ set_in_shadow_frame_slot(1, slot, ptr)
       \/ \E v \in Storable, a \in Writable : \E i \in DOMAIN heap[a].data : Write(a, i, v)
       \/ \E r \in Wanted : alloc_or_gc(r)
       \/ run_gc

Next == Client \/ Collect \/ Trapped

Spec == Init /\ [][Next]_vars

\* The collector is straight-line code of the only thread: once entered it runs.
FairSpec == Spec /\ WF_vars(Collect)

-----------------------------------------------------------------------------
(* Properties *)

TypeOK ==
    /\ F64TypeOK
    /\ heap \in [Addr -> Object \cup {None}]
    /\ kept \in Seq(Addr) /\ to \in Seq(Addr)
    /\ used_mem \in Int
    /\ shadow_stack \in Seq(Seq(Tag \cup {None}))
    /\ pc \in PCs
    /\ req \in Requests \cup {None}
    /\ current_roots \subseteq Tag /\ new_roots \subseteq Tag
    /\ f64s \subseteq Addr \X Nat
    /\ static_marked \subseteq Static
    /\ hand \in Addr \cup {None}

\* At every moment, also half-way through a mark or a sweep, whatever the
\* program can reach from the shadow stack has not been deallocated (the
\* # Safety paragraph of Heap::gc).
NoDangling == \A a \in Reach : heap[a] # None

\* When the sweep ends nothing but reachable objects is left: the collector
\* also frees everything it may free (mark_phase follows no stale pointer,
\* sweep_phase skips no item while it unlinks another).
NoGarbageAfterGc == [][pc = "sweep" /\ pc' = "retry" => Allocated' \subseteq Reach']_vars

Sizes == [a \in Allocated |-> heap[a].size]
SizeOf(S) == SumFunctionOnSet(Sizes, S)

\* For every shape, float references included, used_mem never falls below the
\* bytes that are allocated, so alloc_raw's test keeps the heap within its size
\* although sweep_phase takes off another number than alloc_raw added.
WithinBudget == SizeOf(Allocated) <= used_mem /\ used_mem <= Size

\* Where no float reference is allocated, used_mem is the sum of the sizes of
\* what is allocated: the size sweep_phase works out from a tag is the one
\* alloc_raw was asked for ("size must be exactly
\* AnyPtr::new(&tag).get_data_size()", alloc_slice).
Accounting == used_mem = SizeOf(Allocated) /\ used_mem <= Size

\* A trap for lack of memory ("out of memory even after gc") happens only when
\* what the program can reach leaves no room for the request: not because
\* garbage was left, nor because the account is wrong.  Float references break
\* this: each one that is swept leaves four bytes in used_mem.
Need == req.size + (IF req.op = "object" THEN ObjectSize ELSE 0)
OomOnlyWhenFull == pc = "oom" => SizeOf(Reach) + Need > Size

\* A float the program can reach still has the value that was boxed, although
\* every collection moves it to the other space.
F64Intact ==
    \A a \in Reach \cap Allocated : \A i \in F64Cells(heap[a].data) :
        F64Read(heap[a].data[i]) = heap[a].data[i].val

\* A trap for lack of float slots ("out of f64 memory", or the unwrap of
\* mark_phase) happens only when the floats the program can reach fill the slots
\* that alloc hands out: mark_phase copies an alias once more, but no cell twice
\* and none of an unreachable object, and no slot stays lost to an earlier cycle.
LiveF64s == UNION {{a} \X F64Cells(heap[a].data) : a \in Reach \cap Allocated}
F64OomOnlyWhenFull ==
    /\ pc = "oom_f64" => Cardinality(LiveF64s) >= LEN - 1
    /\ pc = "oom_copy" => Cardinality(LiveF64s) >= LEN

\* F64Allocator::alloc writes without a bounds check: whenever it may be
\* called, the slot it would write exists, and the assertion it starts with holds.
F64InBounds == pc \in {"run", "mark", "copy", "retry"} => next_slot < LEN

\* A collection that has begun ends, in the program going on or in a trap,
\* whatever cycles the objects form.
GcTerminates == (pc = "gc") ~> (pc \in {"run"} \cup Panics)

\* How much of a collection is left: the phase, and within it the objects to
\* mark, the tags that are queued (twice while the vectors are to be swapped)
\* and the floats to copy, or the items to sweep.
GcLeft ==
    CASE pc = "gc" -> <<4, 0, 0, 0>>
      [] pc \in {"mark", "copy"} ->
            <<3, Cardinality(Allocated \ Marked),
              2 * Cardinality(new_roots) + Cardinality(current_roots),
              IF pc = "copy" THEN 1 + Cardinality(f64s) ELSE 0>>
      [] pc = "sweep" -> <<2, Len(to), 0, 0>>
      [] pc = "retry" -> <<1, 0, 0, 0>>
      [] OTHER -> <<0, 0, 0, 0>>

Lefts == Nat \X Nat \X Nat \X Nat
LexLess(u, v) == \E i \in 1 .. 4 : u[i] < v[i] /\ \A j \in 1 .. (i - 1) : u[j] = v[j]

\* Every step of a collection leaves less to do, whatever cycles the objects
\* form and however often a tag is queued: no round of mark_phase's while loop
\* repeats an earlier one.
GcAdvances ==
    [][pc \notin {"run"} \cup Panics =>
          GcLeft \in Lefts /\ GcLeft' \in Lefts /\ LexLess(GcLeft', GcLeft)]_vars

-----------------------------------------------------------------------------
(* Refinement: what the program sees of this heap.                          *)

Sees == ReachFrom(Roots \cup ({hand} \ {None})) \cap Allocated
Contents(a) ==
    [i \in DOMAIN heap[a].data |->
        LET c == heap[a].data[i] IN
        IF c.k = "f64" THEN [k |-> "num", val |-> F64Read(c)] ELSE c]
Mem == [a \in Sees |-> Contents(a)]

Program == INSTANCE HeapSpec WITH
    stack <- shadow_stack,
    mem <- Mem,
    collecting <- pc \in {"gc", "mark", "copy", "sweep"},
    trapped <- pc \in Panics

\* Every step of the heap, and every step of a collection half-way through it,
\* is a step of the program's view or leaves that view alone: objects keep
\* their contents while floats move and garbage is unlinked, and an address is
\* handed out only when the program holds no pointer to it.
ImplementsProgram == Program!Spec
=============================================================================
