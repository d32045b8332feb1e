# A TLA+ verification of jankscripten

jankscripten compiles a subset of JavaScript to WebAssembly and links the
result with a runtime written in Rust.  This directory models the parts of it
whose correctness depends on long sequences of steps, checks them with TLC on
small instances and proves the central results with TLAPS for all instances.

## 1. Inventory

### The runtime (`runtime/src`)

| part | state | operations | what makes it correct |
|---|---|---|---|
| Float heap (`allocator/f64_allocator.rs`) | two spaces of `LEN` floats, `next_slot` | `alloc`, `semispace_swap` | no write outside a space; a float keeps its value when it moves |
| Managed heap (`allocator/mod.rs`) | linked allocation list, `used_mem`, shadow stack, mark bits in the tags | `alloc_*`, `alloc_*_or_gc`, `push/pop_shadow_frame`, the slot setters, `gc`, `heap_dump` | nothing reachable is freed, everything else is, the account of bytes is exact (but for float references, and then never too low), a collection ends, a trap only when memory is really full |
| Bindings (`wasm32.rs`) | the global heap | `init`, `gc_enter_fn`, `gc_exit_fn`, slot setters for pointers, anys and closures, `run_gc` | every value a collection must keep or move is in a slot |
| Values (`heap_types.rs`, `heap_values.rs`, `any_value.rs`, `i64_val.rs`) | none; bit layouts | `view`, `get_gc_ptrs`, conversions | the collector finds every pointer of every kind of value |
| Hidden classes (`class_list.rs`) | list of classes: offsets, transitions | `lookup`, `transition`, `branch` | an offset means the same field for as long as an object lives |
| Objects (`object_ptr.rs`, `object.rs`) | data with a class tag, one inline cache per access in the program | `insert`, `get`, `object_empty/set/get/create` | objects are maps with a prototype chain; the classes and caches are invisible |
| Arrays, tables, references (`array.rs`, `ht.rs`, `ref.rs`) | cells | `array_*`, `ht_*`, `ref_new_*` | contents survive a collection |
| Environments, closures (`env.rs`, `closure.rs`) | cells, `fn_obj` | `env_alloc`, `env_init_at`, `closure_new` | no collection sees uninitialised cells |
| Strings, operators, coercions, library | none or interned tags | `ops.rs`, `coercions.rs`, `static_strings.rs`, `math.rs`, `std_lib.rs` | allocated intermediate results are not lost |

### The compiler (`libjankscripten/src`)

A pipeline of passes, each a function of a syntax tree: parser and desugarings
(`javascript/`), translation to JankyScript, type inference with Z3, coercion
insertion and type checking, closure conversion (`jankyscript/`), A-normal form
in NotWasm, type checking, interning of strings and WebAssembly code generation
(`notwasm/`).  The only state the compiled program and the compiler share is
the layout code generation chooses: shadow-frame slots, the data segment with
interned strings and inline caches, function indices.

| part | state | operations | what makes it correct |
|---|---|---|---|
| Visitors (`walk.rs`) | the position in the tree, patches for the enclosing blocks | `insert`, `apply_patches`, the exits of the passes | a statement that is inserted runs just before the one it was made for |
| Desugaring (`desugar*.rs`, `lift_vars.rs`, `resugar_method_call.rs`) | name generator | eleven passes on expressions and declarations, two on control flow | the program logs the same values and stops for the same reason |
| Inference (`typeinf.rs`, `operators.rs`) | metavariables, environment, weights | `cgen_expr`, `cgen_stmt`, the solver | every typing of least weight compiles and keeps the results |
| Coercions, type checker (`coercions.rs`, `type_checking.rs`) | environment | `Coercion::new`, the typing rules | accepts every program the passes produce, after every pass |
| Closures (`fv.rs`, `collect_assigns.rs`, `box_assigns.rs`, `closure_convert.rs`) | sets of variables per function | one walk each | functions share a variable exactly if JavaScript says so; none refers to a variable of another |
| A-normal form (`from_jankyscript.rs`) | name generator, lifted functions | `compile_expr` with continuations, `compile_stmt` | operands are evaluated once, in order |
| NotWasm (`type_checking.rs`, `intern.rs`, `translation.rs`) | data segment, label and name environments | `type_check`, `intern`, `translate` | valid code; strings and caches apart and aligned |

### How they interact

Everything runs on one thread.  Compiled code calls the runtime; the runtime
never calls back except through closures.  The interleavings that matter are
between the *allocating* calls and the values the compiled code or a Rust
function holds in locals: any allocation may run a collection, which frees what
no shadow frame reaches and moves every float.  A collection is a long loop
over shared, cyclic data with its state half in vectors and half in mark bits.
The other long-lived shared state is the class list and the inline caches,
which are filled by one evaluation of an expression and believed by all later
ones.

The hazards that follow from this are listed, each at its line, in
`PROJECT.json`.

## 2. Modules

| module | models | uses |
|---|---|---|
| `F64Allocator` | the float heap | |
| `Heap` | managed heap, collector, shadow stack, and the client that allocates, stores and roots | extends `F64Allocator`, implements `HeapSpec` |
| `HeapSpec` | what a program sees of its heap: an object graph in which a collection does nothing but invalidate the one unrooted pointer | abstract |
| `MCHeap` | instances | extends `Heap` |
| `HeapProofs` | `Heap` is type correct and frees nothing reachable | extends `Heap` |
| `CollectorProofs` | a collection frees all garbage and keeps every float | extends `HeapProofs` |
| `AccountingProofs` | the account of bytes against the budget, when memory is full, and why a collection ends | extends `CollectorProofs` |
| `HeapRefinement` | `Heap` implements `HeapSpec` | extends `CollectorProofs` |
| `ClassList` | hidden classes | |
| `Objects` | dynamic objects, inline caches, prototype reads, and the programs that use them | extends `ClassList`, implements `ObjectSpec` |
| `ObjectSpec` | objects as maps with a prototype chain | abstract |
| `MCObjects` | instances | extends `Objects` |
| `ObjectsProofs` | classes, objects and caches agree | extends `Objects` |
| `ObjectsRefinement` | `Objects` implements `ObjectSpec`; reads are right | extends `ObjectsProofs` |
| `CompiledCode` | the instructions `translation.rs` generates, as far as the collector is concerned: locals, operand stacks, shadow frames, calls, runtime functions that allocate | uses the collection that `HeapSpec` promises |
| `MCCompiledCode` | instances | extends `CompiledCode` |
| `CompiledCodeProofs` | compiled code keeps the collector's contract | extends `CompiledCode` |
| `JsSemantics` | statements of `javascript/syntax.rs` and a machine for their control flow in JavaScript | external reference |
| `Codegen` | return insertion, `compile_stmt` and `translate_rec`, one step of the recursion each, and a machine for the code they produce | extends `JsSemantics` |
| `ControlFlow` | the passes that compile control flow, as recursive functions on statements, and the machine against JavaScript | extends `Codegen` |
| `MCControlFlow` | sets of programs | extends `ControlFlow` |
| `CodegenProofs` | every function pops its shadow frame once and is valid code; the data segment | extends `Codegen`, `DataSegment` |
| `Ast` | terms of the three languages, as the constructors build them | |
| `Desugar` | the visitor of `javascript/walk.rs` and the desugarings of expressions and declarations | extends `Ast` |
| `JankyPasses` | `from_javascript`, `insert_returns`, free and assigned variables, boxing, closure conversion | extends `Ast` |
| `Typing` | types, overloads, inference, method selection, coercions, the JankyScript type checker | extends `Ast` |
| `Anf` | `from_jankyscript` | extends `Ast` |
| `DataSegment` | the places of interned strings and inline caches | |
| `NotWasm` | the NotWasm type checker, and what of a program goes into the data segment | extends `Typing`, `DataSegment` |
| `Evaluator` | what a program logs, in JavaScript and as the compiled code behaves | extends `Ast`; reference |
| `Compiler` | the passes in order, one action each | extends these |
| `MCCompiler` | families of JavaScript programs | extends `Compiler` |

### Heap

An object is what the collector can tell of it: the mark, the tag and the cells
that `get_gc_ptrs` reports (`heap`, from addresses to objects or `None`).  Beside
them it has `size`, the bytes that were asked for, which the code does not keep:
no action reads it, and `SweepFree` takes off `used_mem` what `get_data_size` works
out from the tag, as `sweep_phase` does.  A tag is a `TypeTag` and the length that
is looked up with it (of a string or an environment, or the fields of a class).
`used_mem` and `shadow_stack` are the fields of `Heap`; the linked list is the
pair `kept`, `to`, the parts behind and ahead of the sweep's cursor.
`current_roots`, `new_roots` and `f64s` are the locals of `mark_phase`.  The
vectors are sets: a duplicate root is skipped by the marked test, and the order
is an arbitrary choice in the model.

Each loop iteration is one action: `gc` (roots, swap of the spaces), `MarkSkip`,
`MarkObject`, `MarkStatic`, `CopyF64` (which may trap in `unwrap`), `CopyDone`,
`SwapRoots`, `SweepKeep`, `SweepFree`, `SweepDone`.  Allocation is
`alloc_or_gc(r)` for a request `r` (a shape, an object, a float); a failed first
attempt enters the collection with the request kept in `req`, and `Retry` makes
the second attempt or traps.  The failed half of `alloc_object` stays in the
list, as in the code.

The client obeys the contract in the comment of `Heap::gc`: what it wants to
keep is reachable from the shadow stack, and it does not use an unrooted
pointer (`hand`) after a collection.  `Static` tags are interned strings and
address 0: they are outside the list and their marks are never cleared.

A reference to a float (`ref_new_f64`) has 8 bytes of data, but its tag is that of
a reference to a pointer (`heap_types.rs:58`).  So the sweep takes 4 bytes for its
data, and the mark phase takes the low word of the float for a pointer and follows
it.  The model has such references with the low words that are addresses outside
the list (`LowWords`): 0 above all, which is the low word of every small integer.
A float with another low word sends the collector to an arbitrary address; that is
not modelled.

A boxed float carries, next to its pointer, the value that was boxed (`val`).
It is a history component: no action reads it, `F64Intact` compares it with what
the pointer reads.

### Objects

`classes`, `objects` (data with class tag and cells) and `cache` (one offset per
access site) are the program's state.  `get` is a walk of one step per object
of the chain (`GetOwn`, `GetProto`, `GetMissing`), because a chain may be a cycle.
The heap below is the one `HeapSpec` promises, so collections do not appear.
A site is an access expression with a fixed name and, in `MonoSpec`, the one
object it sees; in `Spec` it may see any object.  Sites with a computed name are
not in the model.  Failed assertions and `expect`s end in `pc = "assert"` and
`pc = "expect"`.

### CompiledCode

An activation has its locals, its operand stack and the instructions that are
left of the statement it executes.  The program is any program: `Begin(s)` goes
on with any statement of `Stmts`, which has the shapes `translate_rec` and
`translate_expr` emit: assignments that write the local and then its slot
(`SetLocal`), stores, calls, `gc_exit_fn` before the returned atom.  The operands
of an expression are atoms (locals and what they point to) and call arguments
are locals, because `from_jankyscript.rs` names every intermediate value.  A
runtime function is the sequence of its allocations and stores; what it has in
Rust variables is on the operand stack of the model.  Every allocation may
collect first, in one step, which `ImplementsProgram` of the heap justifies.
A slot of a parameter is reserved and not set, as in `translate_func`.  A float
that is tagged is an atom that allocates; in a `return` this happens when the
function's shadow frame is gone already, so what such a function still holds is
what the rest of its code reads (`Live`).

### ControlFlow

A statement is a record of constructor, label or condition, and sub-statements.
`SwitchToIf`, `ExplicitBreaks`, `LabelLoops`, `ForToWhile`, `from_javascript`,
`returns`/`insert_returns`, `compile_stmt` and `translate_rec`/`translate_func`
are one operator each, composed by `compile` in the order of the compiler.
`Codegen` has the last three without their recursion: `Returns`, `CompileStmt`
and `TranslateStmt` take the recursive call as a parameter, and so do the typing
rules `Typed` and `Finished`; `ControlFlow` ties the knots and gives the constants
`WellTyped` and `Compiled` of `Codegen` their values.  The
state a visitor keeps (`name_stack`, `breaks_stack`, `breaks_for_conts`,
`env.labels`) is a parameter of the recursion.  Fresh names are the path of the
statement they are made for.  A panic is a `panic` instruction, which
`Validates` excludes.

Expressions are effects and tests with a number.  The WebAssembly machine runs
until it shows an effect, a test with its outcome, a selected case or a return;
then the JavaScript machine must be able to show the same (`JsStep`, `JsDoes`).
The outcome of each test is free, so a run covers all executions of each
program, infinite ones too.

### Compiler

`prog` is the program as the last pass left it, `passes` the passes that are
left.  A term is a record of constructor (`k`), name or literal (`x`), type or
coercion (`t`) and sub-terms (`c`), the same for JavaScript, JankyScript and
NotWasm, so that one evaluator can run a program before and after each pass.
`Init` takes any program of `Programs` and notes what it shows (`shows`); each
action applies one pass.

- *Desugaring* is a walk as `VisitorState` does it: children first, each in a
  context that says which block encloses it and at which index, then the exit of
  the pass.  Patches are collected per block and applied when the block is left,
  with the arithmetic of `apply_patches`.  A missing block context is a panic.
- *Inference* computes what Z3 is asked for: the typings that meet the
  constraints of `cgen_expr` and `cgen_stmt` and miss the fewest weights, over
  `BaseTypes` and `FunctionTypes`.  All of them are successors of the state, since
  nothing says which one the solver returns.  A solution is built along the
  program, and dropped as soon as another one agrees with it on all that the
  rest can see and costs less (`Best`).
- *Boxing and closure conversion* are walks with the sets of variables that the
  passes before them wrote into the functions.
- *A-normal form*: a context that wants an identifier or an atom becomes an
  operator that names what it is given; the statements to emit come before it.
- *NotWasm*: the checker returns the program with the types it fills in;
  interning keeps only the places of strings, not their bytes.

The evaluator has three modes: JavaScript, JavaScript in which the receiver is
the first argument (after `desugar_this`), and typed code, where a declared local
holds the zero of its type, a reference that was never made is the word at
address 0, an any that is a float or a fresh string has an address, and
operators work on the representation that their overload asks for.

## 3. Runs

| run | question | instance |
|---|---|---|
| `heap_graph` | does a collection free what it may and nothing else, does each step leave less to do, is the account of bytes exact, do memory and float slots run out only when they are really full? | 3 addresses, 2 frames of 1 slot, references to anys and data of two fields, with or without an object, spaces of 3 slots, budget 32 bytes |
| `heap_refs` | do floats survive being moved, does the program never notice a collection, does every collection end, is the account never too low with float references? | 2 addresses, a static tag, 1 frame of 1 slot, float references and data of two fields, spaces of 3 slots, 2 values, budget 24 bytes, fair collector |
| `heap_float_ref` | (violated) does memory run out only when it is full, if references to floats are swept? | 2 addresses, float references, budget 20 bytes |
| `objects` | do classes and caches implement maps with prototypes? | 2 objects, names `x` and `__proto__`, a reading and a writing site, 5 classes |
| `objects_polymorphic` | (violated) does a read return the field it asked for when a site sees any object? | the same, `Spec` |
| `compiled_code` | does the shadow stack cover everything the running functions hold whenever an allocation may collect? | 2 addresses, objects of 1 cell, a parameter and a local, calls 2 deep; expressions: atoms, allocating primitives, references, object stores, calls |
| `compiled_code_create` | (violated) does it with object literals, closures and `+` on anys? | the same and `{}`, closure expressions, `janky_primitive_plus` |
| `control_flow` | does compiled code do what JavaScript says, is it valid, does it balance its shadow frames? | 2,728 programs: a statement of each kind, labelled or not, around a statement of each kind around a jump, as functions and as main programs |
| `control_flow_dowhile` | (violated) also for `continue` in a do-while loop? | the programs the run above leaves out |
| `control_flow_throw` | (violated) is a function that ends in a throw compiled to valid code? | throws in each kind of statement |
| `compiler` | does every pass keep what a program logs, does the compiler accept what it made itself, are functions closed, names fresh, code in A-normal form, data apart? | 303 programs: operators on all pairs of kinds, nested operators, functions with captured variables, closures that outlive their makers and share variables, functions as arguments, fields, updates and method calls, arrays, constructors and prototypes, loops with labels, declarations |
| `compiler_capture` | (violated) does it for typed locals that a closure assigns? | two counters made by one function |

**Bounds.**  In the heap runs the smallest request is for 12 bytes, and
an `ObjectPtr` of 8 comes with data of 20.  With `(|Addr| + 1) * 12 > Size` a
request fails because of the budget before the addresses run out: no allocation
is disabled that the code would grant.  Three
addresses are enough for sharing, for cycles and for garbage that points to
live objects; with float references two are enough, as their low words point
outside the heap; two collections in a row happen, which is what a stale mark bit
needs.  Spaces of 3 slots hold 2 floats (the last slot is never used), so two
aliases fill a space and a third pointer makes the copy trap.  With two names a
class graph of 5 classes is complete: every order in which two names can be
added (the empty class, two of one field, two of two).

In `compiled_code` two addresses are enough for a pointer into the heap that is
only held indirectly and for the reuse of a freed address; two activations for
an argument, a result and a caller that must survive its callee's collections
(three addresses give 3.7 million states and the same result, in over two
minutes).  The out-of-memory trap is the deadlock of that model, therefore
`CHECK_DEADLOCK FALSE`.  In `control_flow` a jump can cross at most two
statements, which is what distinguishes an inner from an outer target, each
with labels; every statement is followed by an effect so that a jump to the
wrong place shows.  The end of a program is the deadlock.

In `compiler` a program is kept if it runs to its end in JavaScript within
`Fuel` calls and iterations.  An expression has at most two operators, which is
enough for an operand that is lifted over another; functions are called twice,
with a true and with a false argument, so that what one call leaves behind shows
in the next; closures are nested two deep and made twice.  `BaseTypes` are all
base types, `FunctionTypes` the types of one argument and a receiver over `any`
and `int`: enough for a function that is ground, one that is not, and a
coercion between them.  The compiler stops when all passes are done.

**Fairness.**  `FairSpec` has weak fairness of the collector's steps, and
`MonoSpec` of the steps of `get`.  Both are straight-line code of the only
thread: once entered nothing else runs.  Nothing is assumed of the program.
`ControlFlow` has weak fairness of its whole next-state relation: a machine that
can execute an instruction does; the outcomes of tests stay free.

**Violations.**  `heap_float_ref`: a reference to a float is allocated with a tag and
8 bytes and swept with a tag and 4, so that each one that dies leaves 4 bytes in
`used_mem`.  In the run three die, and then a request of 12 bytes is refused by an
empty heap of 20, with the message that memory is out even after a collection.
The comments of `AnyPtr::new` and `alloc_slice` ask that the size be the one the
tag gives; the TODO above the tag asks whether it is right.  `alloc::dealloc` is
given the wrong layout too, which the model does not have.

`objects_polymorphic` shows what the TODO in
`object_ptr.rs:137` suspects: `Class::lookup` believes any cache that has been
filled, so a site that sees two classes returns another field, against the
comment on `get`.

`control_flow_dowhile`: `ExplicitBreaks` appends the test of a do-while loop to
its body and `LabelLoops` then wraps both in the continue label, so that
`continue` skips the test and the loop goes round again.  `control_flow_throw`:
`returns` takes a throw for a return, `compile_stmt` drops it, and the code of
the function ends without a result.  `compiled_code_create`: `object_create`
allocates an object and then the data for its `__proto__` while only a Rust
variable holds the object, against the comment on `shadow_stack`; a closure
expression keeps its function object on the operand stack while `env_alloc`
allocates, and `+` on anys the string of its first operand in a Rust variable
while it allocates that of the second (each of the three alone violates the
property).

`compiler_capture`: `lift_vars` splits `var x = 0` into a declaration with
`undefined` and an assignment.  `box_assigns` gives a declaration a new box unless
its value is `undefined` and its type is not `any`; so a local that inference
found to be an integer gets a null reference, the assignment becomes a store
through it, and all such locals of all calls are one word.  The comment in
`box_assigns.rs:20` says `Var -> Var(NewRef)`.

**Known deviations.**  These were met while the families of programs were
written; each is a program on which `SameMeaning` or `Compiles` fails, or that the
evaluator cannot run.  The families of `compiler` leave them out.

- `===` on anys compares addresses: two floats or strings that were allocated
  separately, or 2 and the float 2.0, are different (`ops.rs:77`, the derived
  equality of `AnyEnum` and `AnyPtr`).
- A function whose type is not ground and that is the result of a call, coerced
  to `any`: `Coercion::new` panics (the NOTE in `typeinf.rs`, case of `Call`).
- `x && f()` calls `f` whatever `x` is, and a call in a comma expression runs before
  the operands in front of it: `desugar_function_applications` runs before
  `desugar_logical` and lifts every call to the enclosing block.
- Two updates of one variable in one expression (`x++ + x++`) for the same reason.
- `y = (x = x + 1)` evaluates the right-hand side twice (`from_jankyscript.rs`
  copies the atom).
- A captured parameter that is a float is read from the environment as an `i32`,
  which is not valid code; unary `+` on a float is rejected by the type checker.
- A call with too few arguments traps; an array index out of bounds panics; a
  constructor that returns an object still yields the new one
  (`desugar_this.rs`).
- Once class tags wrap at 65536 (`class_list.rs:26`) an object is given data of
  an old class; `Limit` below excludes it.

## 4. Proofs

Every safety property of the heap but `F64OomOnlyWhenFull`, and every one of the
objects and of the compiled code that a run checks, is a theorem for all
instances, and so are the properties of
generated control flow and of the data segment that do not compare the program
with JavaScript.  The inductive invariants were checked with TLC on the instances
of section 3 before they were proved, but for those of code generation, which
speak of all trees.

### The heap

Assumed of the constants (`HeapAssumption`, `KindsAssumption`, `NoneAssumption`,
`LENAssumption`, `ValAssumption`): addresses, static tags and `None` differ, sizes are
positive, no shape is swept for more than it was allocated with, a float space has
at least one slot.  Any set of addresses, finite or not, any
budget, shapes and stack bound.

`HeapProofs`:

- `TypeCorrect`: `Spec => []TypeOK`;
- `GcSafe`: `Spec => []NoDangling`, at every step, also inside a collection;
- `F64Safe`: `Spec => []F64InBounds`, for every `LEN >= 1`.

`NoDangling` is not inductive.  The invariant `Inv` adds: `ListInv` (the two parts
of the list hold exactly the allocated addresses, each once, and nothing is
behind the cursor outside a sweep), `MarkInv` (no mark outside a collection, none
behind the sweep's cursor), `ClosedInv` (outside a sweep no object, dead or
alive, has a dangling cell), `HandInv` (the unrooted pointer is to an object),
`TraceInv` (the wavefront of a mark phase: every root, and every cell of a marked
object, is marked or in a queue), `SweepInv` (behind the cursor together with the
marked objects is closed under cells and contains the roots), `ReqInv` (a request
that waits for a collection names only what is reachable) and `F64Inv`.  When
both queues are empty the wavefront says that the marked set is closed under
pointers and contains the roots, so it contains everything reachable, which is
the only fact the sweep needs.  Reachability is the least closed set, and the
lemmas `ReachLeast`, `SameGraph` and `ReachGrows` are all that is used of it: no
induction over paths is needed.

`CollectorProofs`:

- `GcComplete`: `Spec => NoGarbageAfterGc`;
- `FloatsIntact`: `Spec => []F64Intact`.

The first needs the converse of the wavefront: `TightInv` says that only reachable
objects are queued, marked or kept, `QueueInv` that a mark phase starts and ends
with empty vectors.  The second needs to know in which space each float is:
`CellInv` says phase by phase which cells are *fresh* (in the current space, below
`next_slot`) and which are *stale* (in the other one), where `Todo` are the cells of
the object that is being copied.  A copy writes behind all fresh cells and into
the space of no stale one, so it spoils neither (`WriteSpares`).  `PlainInv` says
that a waiting request brings no floats with it.

`AccountingProofs`:

- `BudgetHolds`: `Spec => []WithinBudget`, for all shapes;
- `AccountIsExact`: `Spec => []Accounting`, if `AllFollow`;
- `OomMeansFull`: `Spec => []OomOnlyWhenFull`, if `AllFollow`.

`AllFollow` says that every shape the program allocates has the size that
`get_data_size` works out from its tag.  Of the shapes of the runtime it excludes
the reference to a float and no other, and cannot be dropped: `heap_float_ref` is
the counterexample.  What holds with float references is `BudgetHolds`: the sweep
takes off too little and never too much, so that the drift wastes memory but the
heap does not outgrow its size.  The invariants carry, for every object and for
the request that waits, how the size that was asked for relates to the tag, because
the sweep has only the tag.

The sum over a set is a fold whose order is a `CHOOSE`.  `IsSum` says what a
function from subsets to numbers must satisfy to be *the* sum; the lemmas show
that such a function exists for every finite set (`SumExists`), that it is what
the fold computes (`SumIs`) and hence that an element more adds its weight
(`SumAdd`).  The place of an induction is taken by the least set for which a
claim fails, which exists because strict inclusion is well-founded on finite
sets (`LeastSet`).  `OomMeansFull` also uses `TidyInv`: the second attempt runs in
a heap without garbage, and the half of an object that a refused attempt may
leave behind is not reachable (`RefusedReach`).

- `GcShrinks`: `Spec => GcAdvances`.

This is the argument for `GcTerminates` without its fairness: `GcLeft`, four
numbers, becomes smaller in lexicographic order with every step of a collection.
Within the mark phase they are the unmarked objects, the queued tags (those that
wait for the swap of the vectors count twice) and the floats of the object that is
being copied; marking an object may queue any number of tags, but happens once for
each.  In the sweep it is the list ahead of the cursor.  `FiniteInv` says that the
vectors are finite, so that these are numbers.

`HeapRefinement`:

- `HeapImplementsProgram`: `Spec => ImplementsProgram`.

The program's view reads floats through the spaces; `ViewInv` (from `Inv` and
`FloatInv`) says that it is determined by the cells alone.  Then every step of
the mark and sweep phases leaves the view alone, the start of a collection takes
away only what the unrooted pointer held, a retry is the allocation the program
asked for or its trap, and for the steps of the client the set that `HeapSpec`
calls visible, which is defined over the objects the program knew before, equals
what the new pointers reach.

### Objects

`ObjectsProofs` and `ObjectsRefinement` assume `Limit`, that a program makes no
more classes than there are tags (`as u16` in `class_list.rs`; what happens
beyond is in the list of deviations), and are about `MonoSpec`, whose sites see
one object each, for every set of objects, names and sites:

- `TypeCorrect`, `ClassesSafe` (`[]ClassesAgree`), `AccessSafe`
  (`[]AccessesInClass`);
- `ObjectsImplementMaps`: `MonoSpec => ImplementsMaps`;
- `ReadsAreRight`: `MonoSpec => ReadsField`, the property that
  `objects_polymorphic` shows to fail without the restriction on sites.

The invariant says that an object has exactly one initialised cell per field of
its class, that a filled cache holds what `lookup` returns for the site's name in
the *current* class of its object (a transition preserves it, because the new
class extends the old one), and that a walk that still owns its site's cache has
not left the site's object.  For the refinement the map of an object is read off
its class and its cells: distinct names have distinct offsets, so an insert
changes one name of one object whether the class changes or not.  A read is one
step of `ObjectSpec` and many of `Objects`; `PathInv` says that the walk stands on
an object the abstract search has to look at, so that what it finds there is an
answer.

### Compiled code

`CompiledCodeProofs` proves for every number of locals, cells and addresses and
every depth of calls, under `Exprs \subseteq SafeExprs`:

- `ContractIsKept` (`[]GcContract`), `NothingDangles` (`[]NoDangling`),
  `StacksInStep` (`[]ShadowMirrors`), `TypesAreKept` (`[]TypeOK`).

`SafeExprs` are the kinds of expressions of the run `compiled_code`: all but object
literals, closures and `+` on anys.  The hypothesis cannot be dropped, each of the
three alone breaks `GcContract` (`compiled_code_create`).  The other assumptions
are that there is a parameter, that calls may be one deep at least, and that
`Undef` and `Free` are not addresses or objects.

`GcContract` speaks of the moments of allocation only.  The invariant says for
every function where it is in which statement (`InBody`, `Leaving`: one disjunct
per point between two instructions), what its operands are at that point (values
of its locals, a value just loaded or made), and through which slot each local is
rooted, with the one exception between the write of a local and of its slot.
Below the top of the stack every function waits in a call.  After `gc_exit_fn`
the locals of the function are rooted no more; what the rest of its code reads is
then shown to be read before anything can collect.

### Code generation

`CodegenProofs` is about every function body, not about a family of programs.
The prover does not take RECURSIVE definitions, so the recursive functions are
constants, and what defines them are hypotheses:

- `Grammar`: the statements of JankyScript and of NotWasm are the least sets that
  are closed under their constructors, each with its number of sub-statements;
- `Equations`: `returns`, `compile_stmt` and `translate_rec` satisfy the equations
  that `ControlFlow` defines them by, with the same operators `Returns`,
  `CompileStmt` and `TranslateStmt`;
- `TypingEquations`: the same for `WellTyped` and `Compiled`.

The operators of `ControlFlow` satisfy them, since each is defined by its equation
on finite trees; the machine is the one the runs use.

- `FrameBalanceHolds`: `MachineSpec(Functions) => []FrameBalance`, for the functions
  made of any body, with or without a result;
- `ValidatesHolds`: `MachineSpec(LegalFunctions) => []Validates`, for legal bodies: no
  `throw` and no panic, each break inside the statement it names, nothing after a
  statement that returns.  The hypotheses are needed: `control_flow_throw` shows the
  first, the others are panics of the compiler and dead code, which the generated
  code does not have a type for.

Induction over trees is done with the least set itself: the statements that have
the property form a subset that is closed under the constructors (`Induct`, and
`Numbers` for sequences of instructions).

For the frames, code is `Good` at a depth if every `gc_exit_fn` in it is followed at
once by a return, every return comes right after one, and every jump stays inside
the function; `EmitsGood` shows it of what `translate_rec` emits in and out of tail
position, at every nesting.  The invariant `ShadowInv` says that what is left of each block
that the machine has entered is such code, so that wherever a branch goes, the
rest is; and that the frame is gone exactly between `gc_exit_fn` and the return.

For the types, `NoValue` and `OneValue` are the codes that leave nothing, or a
result, and `EmitsTyped` shows which of them each statement is compiled to.  The
point at which the code could go wrong is that two passes decide the same
question separately: `insert_returns` whether a body returns, `translate_rec` from
tail positions which blocks have a result.  `Lowered` carries the answer through
`compile_stmt`, which wraps and flattens blocks in between.

- `DataApartHolds`: `DataSpec(Accesses) => []DataApart`, for any strings and any number
  of accesses, in any order.  The hypothesis `Lengths` says that a string has a
  length.  The invariant `Apart` adds that sizes are multiples of four
  (`PaddedString`, the arithmetic of `intern_string`) and that no place reaches
  beyond the end (`LengthBehind`).  The steps of `Compiler` that change `data` are
  steps of `DataSpec`.

### Only model-checked

- `F64OomOnlyWhenFull` compares `next_slot` with the number of cells copied so far, a
  count over a set of cells for which there is no invariant here.
- Liveness (`GcTerminates`, `GetReturns`, `Progress`): outside the prover.  For the
  first the decreasing measure is proved, see above.
- `SameEvents` relates two machines through nine passes, five of which are
  recursive functions that have no RECURSIVE-free form here.
- The passes of `Compiler` are RECURSIVE operators on trees, and its properties
  (`TypeOK`, `SameMeaning`, `TypeChecks`, `Compiles`, `Closed`, `NamesAreFresh`, `ANormal`,
  `EnvTyped`) are about what they do to every program, through an evaluator or a
  type checker that is recursive too.

## 5. Plan

1. done: `F64Allocator`, `Heap`, `HeapSpec`, `ClassList`, `Objects`,
   `ObjectSpec`, their runs and proofs; `CompiledCode`, `JsSemantics`,
   `ControlFlow` and their runs.
2. done: the compiler from desugaring to the data segment, with inference as a
   choice among the best typings, against an evaluator.
3. done: `CompiledCode` with tagged floats and `plus`.
4. done: proofs of all safety properties of `Heap`, `Objects` and
   `CompiledCode`, and of both refinements.
5. done: code generation for every function body, the data segment, and the
   measure of a collection.
6. Possible extensions: where floats in locals move, computed field names in
   `Objects`, the packing of anys and closures, strings with numbers.

## 6. Not modelled

Parsers, printers, the driver and the copied layout helper have no behaviour
worth checking here; `elim_gotos` is not called at this commit.  In the
heap models the texts of strings, arithmetic on floats and log output are data
no property tells apart; `Evaluator` computes with a few numbers and strings.
`ControlFlow` leaves out `for..in` and `try`, which the compiler does not finish
(`todo!`), the parser's own rewriting (a `default` that is not the last case is
moved to the end, a missing `for` test is `undefined`), two labels on one loop,
which make `LabelLoops` panic on `continue`, and statements after a return, for
which the generated code is not valid.  The `||` of a case's test is one
condition.  `CompiledCode` has no globals, which programs from JavaScript do not
have either, and does not follow floats when they move.

`Compiler` has no loops but `loop` with labels, no `switch`, `for..in`, `try` and
`throw`: the first two are in `ControlFlow`, the others end in `todo!`.  Its operator
table has the rows that its programs use; integers do not overflow at the sizes
of the families, floats are multiples of a half, and `null`, conversions
between strings and numbers, NaN and the library beyond `log`, `Object.create`, `push` and
`concat` are left out.  Z3 itself is external: that it returns a solution of
least weight is taken from its documentation.  In `Untagged` of `Evaluator` this
means that `any_to_i32` and `any_to_f64` (`any_value.rs:118-152`) convert numbers and
booleans; a string, an object, a closure or `undefined`, which the code parses or
makes a NaN when it wants a float, is a trap there, and `null`, which becomes 0, is
a value of no program.

`Heap` does not have the floats in float references whose low word is an address
in the heap or a wild one (section 2).
`PROJECT.json` gives the reason for each component.
