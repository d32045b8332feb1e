------------------------------- MODULE Objects -------------------------------
(***************************************************************************)
(* Dynamic objects (runtime/src/allocator/object_ptr.rs and                *)
(* runtime/src/object.rs): an ObjectPtr points to data that carry a class  *)
(* tag and one cell per field of the class; adding a field replaces the    *)
(* data by larger ones of the next class.  Reads walk the prototype chain. *)
(* Every field access in compiled code owns an inline cache, one offset in *)
(* the data segment that starts as -1 (translation.rs, data_cache).        *)
(*                                                                         *)
(* The heap is the one HeapSpec promises: an object is not lost and an     *)
(* allocation that finds no room ends the program, so collections and      *)
(* traps for lack of memory do not appear.  read_at and write_at assert    *)
(* that the offset is below the class's size; an access that fails the     *)
(* assertion ends in "assert" (a release build would use the cell anyway). *)
(***************************************************************************)
EXTENDS ClassList

CONSTANTS Obj,          \* ObjectPtrs
          Prim,         \* values that are not objects
          Undefined,    \* AnyEnum::Undefined
          None,         \* Option::None, and an ObjectPtr not yet allocated
          Proto,        \* the name __proto__
          Sites,        \* the field accesses o.x and o.x = v of the program
          SiteUse,      \* what each is: get or set, the name, and an object
          MaxClasses    \* bound on the class list

VARIABLES objects,   \* Obj -> data or None
          cache,     \* Sites -> offset or -1
          pc,        \* "run", inside get, or stopped by an assertion or expect
          walk,      \* get's arguments and the object it has come to
          result     \* what the last get returned

objects_vars == <<classes, objects, cache, pc, walk, result>>

Value == Obj \cup Prim
Data == [class : Nat, values : Seq(Value \cup {None})]
Walks == [start : Obj, at : Obj, name : Name, site : Sites \cup {None}]

ASSUME ObjectsAssumption ==
    /\ Obj \cap (Prim \cup {Undefined}) = {}
    /\ None \notin Obj \cup Prim \cup {Undefined}
    /\ None \notin Sites \cup Data
    /\ Proto \in Name
    /\ SiteUse \in [Sites -> [op : {"get", "set"}, name : Name, obj : Obj]]
    /\ MaxClasses \in Nat
    /\ None \notin Walks \cup [obj : Obj, name : Name]

Init ==
    /\ ClassListNew
    /\ objects = [o \in Obj |-> None]
    /\ cache = [s \in Sites |-> -1]
    /\ pc = "run" /\ walk = None /\ result = Undefined

Allocated == {o \in Obj : objects[o] # None}
class_of(o) == get_class(objects[o].class)

\* The runtime's own calls pass a cache of their own that is -1 (site = None).
Cached(site) == IF site = None THEN -1 ELSE cache[site]

\* Mutant: the filled cache is believed only when it holds a positive offset.
Lookup_Truthy(o, name, site) ==
    IF Cached(site) > 0 THEN Cached(site) - 1 ELSE lookup(class_of(o), name)

\* Class::lookup: a cache that was filled is believed.
Lookup(o, name, site) ==
    IF Cached(site) # -1 THEN Cached(site) ELSE lookup(class_of(o), name)

\* ... and is filled when the offset was found.
FillCache(site, offset) ==
    cache' = IF site = None \/ offset = -1 THEN cache ELSE [cache EXCEPT ![site] = offset]

\* New data with `size` cells: the old cells, the new one, and None in any cell
\* that is left (the class the tag stands for has only one cell more, unless
\* the tag was truncated).
Grown(old, tag, size, value) ==
    [class |-> tag,
     values |-> [i \in 1 .. size |-> IF i \in DOMAIN old.values THEN old.values[i]
                                     ELSE IF i = Len(old.values) + 1 THEN value ELSE None]]

\* The part of insert that follows a transition from the data `old` to the class
\* `tag`: write_at asserts that the class has a cell for the value.
Transitioned(o, old, tag, value) ==
    LET size == classes'[tag + 1].size IN
    IF Len(old.values) < size
    THEN objects' = [objects EXCEPT ![o] = Grown(old, tag, size, value)] /\ UNCHANGED pc
    ELSE objects' = [objects EXCEPT ![o] = old] /\ pc' = "assert"

\* ObjectDataPtr::insert and the store of the new data pointer.
insert(o, name, value, site) ==
    LET data == objects[o]
        offset == Lookup(o, name, site)
        tag == TransitionTag(data.class, name) IN
    \/ /\ offset # -1 /\ offset < class_of(o).size
       /\ objects' = [objects EXCEPT ![o].values[offset + 1] = value]
       /\ FillCache(site, offset)
       /\ UNCHANGED <<classes, pc>>
    \/ /\ offset # -1 /\ offset >= class_of(o).size
       /\ pc' = "assert"
       /\ FillCache(site, offset)
       /\ UNCHANGED <<classes, objects>>
    \/ /\ offset = -1
       /\ transition(data.class, name)
       /\ Transitioned(o, data, tag, value)
       /\ UNCHANGED cache

object_set(o, name, value, site) ==
    /\ pc = "run"
    /\ insert(o, name, value, site)
    /\ UNCHANGED <<walk, result>>

EmptyData == [class |-> 0, values |-> <<>>]

object_empty(o) ==
    /\ pc = "run" /\ objects[o] = None
    /\ objects' = [objects EXCEPT ![o] = EmptyData]
    /\ UNCHANGED <<classes, cache, pc, walk, result>>

\* object_create with an object: an empty object whose first field is __proto__
\* (with null it is object_empty, with anything else it panics at once).
object_create(o, prototype) ==
    /\ pc = "run" /\ objects[o] = None
    /\ transition(0, Proto)
    /\ Transitioned(o, EmptyData, TransitionTag(0, Proto), prototype)
    /\ UNCHANGED <<cache, walk, result>>

\* get is entered; the runtime does nothing else until it returns.
object_get(o, name, site) ==
    /\ pc = "run"
    /\ pc' = "get" /\ walk' = [start |-> o, at |-> o, name |-> name, site |-> site]
    /\ UNCHANGED <<classes, objects, cache, result>>

Return(value) == pc' = "run" /\ result' = value /\ walk' = None

\* Case 1: the object has the field, or the cache says so.
GetOwn ==
    LET offset == Lookup(walk.at, walk.name, walk.site) IN
    /\ pc = "get" /\ offset # -1
    /\ FillCache(walk.site, offset)
    /\ \/ /\ offset < class_of(walk.at).size
          /\ objects[walk.at].values[offset + 1] # None
          /\ Return(objects[walk.at].values[offset + 1])
       \/ /\ offset < class_of(walk.at).size
          /\ objects[walk.at].values[offset + 1] = None
          /\ pc' = "expect" /\ UNCHANGED <<walk, result>>
       \/ /\ offset >= class_of(walk.at).size
          /\ pc' = "assert" /\ UNCHANGED <<walk, result>>
    /\ UNCHANGED <<classes, objects>>

\* The field __proto__ of the object the walk stands on.
ProtoOffset == lookup(class_of(walk.at), Proto)

\* Mutant: a prototype that is not an object is followed too.
ProtoIsObject_Any == ProtoOffset # -1

ProtoIsObject == ProtoOffset # -1 /\ objects[walk.at].values[ProtoOffset + 1] \in Obj

\* Mutant: the read on the prototype goes on with the site's cache.
GetProto_KeepSite ==
    /\ pc = "get" /\ Lookup(walk.at, walk.name, walk.site) = -1
    /\ ProtoIsObject
    /\ walk' = [walk EXCEPT !.at = objects[walk.at].values[ProtoOffset + 1]]
    /\ UNCHANGED <<classes, objects, cache, pc, result>>

\* Mutant: the recursive call passes self.
GetProto_Self ==
    /\ pc = "get" /\ Lookup(walk.at, walk.name, walk.site) = -1
    /\ ProtoIsObject
    /\ walk' = [walk EXCEPT !.site = None]
    /\ UNCHANGED <<classes, objects, cache, pc, result>>

\* Case 2: go on with the prototype, and with a cache of -1.
GetProto ==
    /\ pc = "get" /\ Lookup(walk.at, walk.name, walk.site) = -1
    /\ ProtoIsObject
    /\ walk' = [walk EXCEPT !.at = objects[walk.at].values[ProtoOffset + 1], !.site = None]
    /\ UNCHANGED <<classes, objects, cache, pc, result>>

\* Case 3: there is no prototype, or it is not an object.  A __proto__ cell that
\* was never written panics (the unwrap of case 2).
GetMissing ==
    /\ pc = "get" /\ Lookup(walk.at, walk.name, walk.site) = -1
    /\ ~ProtoIsObject
    /\ IF ProtoOffset # -1 /\ objects[walk.at].values[ProtoOffset + 1] = None
       THEN pc' = "expect" /\ UNCHANGED <<walk, result>>
       ELSE Return(Undefined)
    /\ UNCHANGED <<classes, objects, cache>>

Get == GetOwn \/ GetProto \/ GetMissing

Stopped == pc \in {"assert", "expect"} /\ UNCHANGED objects_vars

-----------------------------------------------------------------------------
(* Clients.                                                                 *)

Held == Allocated \cup Prim

\* The bound: a class more only while there are fewer than MaxClasses.
Room(tag, name) == Len(classes) < MaxClasses \/ Named(get_class(tag).transitions, name) # {}

Create ==
    \E o \in Obj :
        \/ object_empty(o)
        \/ Room(0, Proto) /\ \E p \in Allocated : object_create(o, p)

Set(o, name, site) ==
    /\ Lookup(o, name, site) # -1 \/ Room(objects[o].class, name)
    /\ \E v \in Held : object_set(o, name, v, site)

\* The runtime's own accesses.
RuntimeAccess == \E o \in Allocated, name \in Name : Set(o, name, None) \/ object_get(o, name, None)

\* The access expression `site` is evaluated on o.
SiteAccess(site, o) ==
    \/ SiteUse[site].op = "set" /\ Set(o, SiteUse[site].name, site)
    \/ SiteUse[site].op = "get" /\ object_get(o, SiteUse[site].name, site)

\* The compiled program as the code lets it be: a site may meet any object.
Next ==
    \/ Create
    \/ RuntimeAccess
    \/ \E site \in Sites, o \in Allocated : SiteAccess(site, o)
    \/ Get
    \/ Stopped

Spec == Init /\ [][Next]_objects_vars

\* A program in which every site sees one object only.
MonoNext ==
    \/ Create
    \/ RuntimeAccess
    \/ \E site \in Sites : SiteUse[site].obj \in Allocated /\ SiteAccess(site, SiteUse[site].obj)
    \/ Get

\* get is straight-line code: once called it runs.
MonoSpec == Init /\ [][MonoNext]_objects_vars /\ WF_objects_vars(Get)

-----------------------------------------------------------------------------
TypeOK ==
    /\ classes \in Seq(ClassType)
    /\ objects \in [Obj -> Data \cup {None}]
    /\ cache \in [Sites -> Nat \cup {-1}]
    /\ pc \in {"run", "get", "assert", "expect"}
    /\ walk \in Walks \cup {None}
    /\ result \in Value \cup {Undefined}

\* debug_assert!(index < heap.get_class_size(self.class_tag())) in read_at and
\* write_at, and expect(...) in get: an offset, cached or not, lies within the
\* object it is used on, and the cell there has been written.
AccessesInClass == pc \notin {"assert", "expect"}

-----------------------------------------------------------------------------
(* What a program sees of its objects.                                      *)

Fields(class) == {class.offsets[i].name : i \in DOMAIN class.offsets}
MapOf(class, values) == [n \in Fields(class) |-> values[lookup(class, n) + 1]]
Maps == [o \in Allocated |-> MapOf(class_of(o), objects[o].values)]
Asked == IF walk = None THEN None ELSE [obj |-> walk.start, name |-> walk.name]
Program == INSTANCE ObjectSpec WITH fields <- Maps, call <- Asked, stopped <- ~AccessesInClass

\* Classes, offsets, transitions and caches are an optimisation: with sites
\* that see one object, objects behave as maps from names to values whose
\* reads follow the prototype chain.
ImplementsMaps == Program!Spec

\* "Reads a property from an object, searching up the prototype chain if
\* necessary" (the comment on ObjectDataPtr::get): what a read returns is the
\* value of the field that was asked for.
ReadsField == [][pc = "get" /\ pc' = "run" => Program!Answer(walk.start, walk.name, result')]_objects_vars

\* A read returns if the chain ends, or has the name before it comes round again.
GetReturns == (pc = "get" /\ Program!HasAnswer(walk.at, walk.name)) ~> (pc # "get")
=============================================================================
