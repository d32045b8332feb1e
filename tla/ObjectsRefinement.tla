-------------------------- MODULE ObjectsRefinement --------------------------
(***************************************************************************)
(* Objects with hidden classes, transitions and inline caches implement    *)
(* maps with a prototype chain (ObjectSpec), for any number of objects,    *)
(* names and sites that see one object each, while no tag is truncated.    *)
(* The map of an object is read off its class and its cells; insert puts   *)
(* one name into it, whether the class changes or not, and leaves the maps *)
(* of all other objects alone although they share the class list.  A read  *)
(* is many steps here and one there: until it returns it is invisible, and *)
(* the object it has come to is one the abstract read looks at.            *)
(***************************************************************************)
EXTENDS ObjectsProofs

\* A call is pending exactly while get runs, and get stands on an object that
\* the read has to look at.
PathInv ==
    /\ pc = "run" => walk = None
    /\ pc = "get" => /\ walk.start \in Allocated
                     /\ walk.at \in Program!Searched(walk.start, walk.name)

-----------------------------------------------------------------------------
(* The map of an object.                                                    *)

\* The names of a class are those that lookup finds.
LEMMA FieldsLookup ==
  ASSUME NEW c \in ClassType, GoodClass(c), NEW n
  PROVE  n \in Fields(c) <=> lookup(c, n) # -1
  BY LookupGood DEF Fields

\* Different names of a class have different offsets.
LEMMA LookupApart ==
  ASSUME NEW c \in ClassType, GoodClass(c), NEW m \in Fields(c), NEW n \in Fields(c),
         lookup(c, m) = lookup(c, n)
  PROVE  m = n
  <1>1. PICK i \in DOMAIN c.offsets : c.offsets[i].name = m
    BY DEF Fields
  <1>2. PICK j \in DOMAIN c.offsets : c.offsets[j].name = n
    BY DEF Fields
  <1>3. lookup(c, m) = i - 1 /\ lookup(c, n) = j - 1
    BY <1>1, <1>2, LookupGood
  <1>4. i \in Int /\ j \in Int
    BY DEF ClassType
  <1>5. i - 1 = j - 1
    BY <1>3
  <1>6. i = j
    BY <1>4, <1>5
  <1> QED BY <1>1, <1>2, <1>6

\* Only the offsets of a class matter.
LEMMA SameMap ==
  ASSUME NEW c, NEW d, c.offsets = d.offsets, NEW vals
  PROVE  MapOf(c, vals) = MapOf(d, vals)
  <1>1. Fields(c) = Fields(d)
    BY DEF Fields
  <1>2. \A n : lookup(c, n) = lookup(d, n)
    BY LookupSame
  <1> QED BY <1>1, <1>2 DEF MapOf

\* write_at the offset of a name puts the value under that name and no other.
LEMMA WriteMap ==
  ASSUME NEW c \in ClassType, GoodClass(c), NEW S, NEW vals \in Seq(S), Len(vals) = c.size,
         NEW name \in Fields(c), NEW v
  PROVE  MapOf(c, [vals EXCEPT ![lookup(c, name) + 1] = v]) = Program!Put(MapOf(c, vals), name, v)
  <1> DEFINE new == [vals EXCEPT ![lookup(c, name) + 1] = v]
             F == Fields(c)
  <1>1. c.size \in Nat /\ DOMAIN vals = 1 .. c.size
    BY DEF ClassType
  <1>2. \A n \in F : lookup(c, n) + 1 \in DOMAIN vals
    <2>1. \A n \in F : lookup(c, n) \in -1 .. c.size - 1 /\ lookup(c, n) # -1
      BY FieldsLookup, LookupGood
    <2> QED BY <1>1, <2>1
  <1>3. \A n \in F : n # name => lookup(c, n) + 1 # lookup(c, name) + 1
    <2>1. \A n \in F : lookup(c, n) \in Int
      BY <1>1, LookupGood
    <2> QED BY <2>1, LookupApart
  <1>4. \A n \in F : new[lookup(c, n) + 1] = IF n = name THEN v ELSE vals[lookup(c, n) + 1]
    BY <1>2, <1>3
  <1>5. F \cup {name} = F /\ DOMAIN MapOf(c, vals) = F
    BY DEF MapOf
  <1> HIDE DEF new, F
  <1>6. MapOf(c, new) = [n \in F |-> new[lookup(c, n) + 1]]
    BY DEF MapOf, F
  <1>7. Program!Put(MapOf(c, vals), name, v) = [n \in F |-> IF n = name THEN v ELSE MapOf(c, vals)[n]]
    BY <1>5 DEF Program!Put
  <1>8. \A n \in F : MapOf(c, vals)[n] = vals[lookup(c, n) + 1]
    BY DEF MapOf, F
  <1> QED BY <1>4, <1>6, <1>7, <1>8 DEF new

\* Growing into a class with one more field puts the value under its name.
LEMMA GrowMap ==
  ASSUME NEW c \in ClassType, GoodClass(c), NEW d \in ClassType, GoodClass(d),
         NEW name \in Name, lookup(c, name) = -1, Extends(d, c, name),
         NEW old \in Data, old.values \in Seq(Held), Len(old.values) = c.size, NEW tag \in Nat, NEW v \in Held
  PROVE  MapOf(d, Grown(old, tag, Len(old.values) + 1, v).values)
            = Program!Put(MapOf(c, old.values), name, v)
  <1> DEFINE p == [name |-> name, index |-> c.size]
             new == Grown(old, tag, Len(old.values) + 1, v).values
             F == Fields(c)
  <1>1. /\ c.size \in Nat /\ DOMAIN old.values = 1 .. c.size /\ c.offsets \in Seq(Offsets)
        /\ DOMAIN c.offsets = 1 .. c.size /\ Len(c.offsets) = c.size
    BY DEF ClassType, GoodClass
  <1>2. p \in Offsets /\ p.name = name
    BY <1>1 DEF Offsets
  <1>3. /\ d.offsets = Append(c.offsets, p) /\ DOMAIN d.offsets = 1 .. c.size + 1
        /\ d.offsets[c.size + 1] = p
        /\ \A i \in 1 .. c.size : d.offsets[i] = c.offsets[i]
    BY <1>1, <1>2, AppendFacts DEF Extends
  <1>4. /\ \A i \in 1 .. c.size : new[i] = old.values[i]
        /\ new[c.size + 1] = v
    BY <1>1 DEF Grown
  <1> HIDE DEF p, new, F
  <1>5. Fields(d) = F \cup {name} /\ name \notin F
    <2>1. Fields(d) \subseteq F \cup {name}
      <3> SUFFICES ASSUME NEW i \in 1 .. c.size + 1 PROVE d.offsets[i].name \in F \cup {name}
        BY <1>3 DEF Fields
      <3>1. CASE i = c.size + 1
        BY <1>2, <1>3, <3>1
      <3>2. CASE i # c.size + 1
        <4>1. i \in 1 .. c.size
          BY <1>1, <3>2
        <4> QED BY <1>1, <1>3, <4>1 DEF Fields, F
      <3> QED BY <3>1, <3>2
    <2>2. F \subseteq Fields(d)
      <3>1. \A i \in 1 .. c.size : i \in 1 .. c.size + 1
        BY <1>1
      <3> QED BY <1>1, <1>3, <3>1 DEF Fields, F
    <2>3. name \in Fields(d)
      <3>1. c.size + 1 \in 1 .. c.size + 1
        BY <1>1
      <3> QED BY <1>2, <1>3, <3>1 DEF Fields
    <2> QED BY <2>1, <2>2, <2>3, FieldsLookup DEF F
  <1>6. \A n \in F : lookup(d, n) = lookup(c, n) /\ lookup(c, n) + 1 \in 1 .. c.size
    <2>1. \A n \in F : lookup(c, n) # -1 /\ lookup(c, n) \in -1 .. c.size - 1
      BY FieldsLookup, LookupGood DEF F
    <2>2. \A n \in F : lookup(c, n) + 1 \in 1 .. c.size
      BY <1>1, <2>1
    <2> QED BY <1>2, <1>3, <2>1, <2>2, LookupGrows
  <1>7. lookup(d, name) = c.size
    <2>1. c.size + 1 \in DOMAIN d.offsets /\ d.offsets[c.size + 1].name = name
      BY <1>1, <1>2, <1>3
    <2>2. lookup(d, name) = (c.size + 1) - 1
      BY <2>1, LookupGood
    <2> QED BY <1>1, <2>2
  <1>8. \A n \in F \cup {name} : new[lookup(d, n) + 1] = IF n = name THEN v ELSE old.values[lookup(c, n) + 1]
    BY <1>4, <1>5, <1>6, <1>7
  <1>9. MapOf(d, new) = [n \in F \cup {name} |-> new[lookup(d, n) + 1]]
    BY <1>5 DEF MapOf
  <1>10. /\ DOMAIN MapOf(c, old.values) = F
         /\ \A n \in F : MapOf(c, old.values)[n] = old.values[lookup(c, n) + 1]
    BY DEF MapOf, F
  <1>11. Program!Put(MapOf(c, old.values), name, v)
            = [n \in F \cup {name} |-> IF n = name THEN v ELSE MapOf(c, old.values)[n]]
    BY <1>10 DEF Program!Put
  <1> QED BY <1>8, <1>9, <1>10, <1>11 DEF new

-----------------------------------------------------------------------------
(* Steps that change objects.                                               *)

\* The maps of all objects.
LEMMA MapsAt ==
  ASSUME NEW o \in Allocated
  PROVE  Maps[o] = MapOf(class_of(o), objects[o].values) /\ DOMAIN Maps = Allocated
  BY DEF Maps

\* New data for one object change its map and no other, whatever is added to
\* the class list.
LEMMA MapsStep ==
  ASSUME Inv, ClassStep, NEW o \in Obj, NEW d \in Data, objects' = [objects EXCEPT ![o] = d]
  PROVE  Maps' = Program!Put(Maps, o, MapOf(classes'[d.class + 1], d.values))
  <1> DEFINE new == MapOf(classes'[d.class + 1], d.values)
  <1>1. d # None /\ objects \in [Obj -> Data \cup {None}]
    BY ObjectsAssumption DEF Inv, TypeOK
  <1>2. objects'[o] = d /\ \A p \in Obj : p # o => objects'[p] = objects[p]
    BY <1>1
  <1>3. Allocated' = Allocated \cup {o}
    BY <1>1, <1>2 DEF Allocated
  <1>4. \A p \in Allocated' : class_of(p)' = classes'[objects'[p].class + 1]
    BY DEF class_of, get_class
  <1>5. ASSUME NEW p \in Allocated', p # o
        PROVE  MapOf(class_of(p)', objects'[p].values) = Maps[p]
    <2>1. p \in Allocated /\ p \in Obj
      BY <1>3, <1>5 DEF Allocated
    <2>2. objects'[p] = objects[p]
      BY <1>2, <1>5, <2>1
    <2>3. objects[p].class + 1 \in DOMAIN classes /\ class_of(p) = classes[objects[p].class + 1]
      BY <2>1, ObjectFacts
    <2>4. class_of(p)'.offsets = class_of(p).offsets
      BY <1>4, <2>2, <2>3 DEF ClassStep
    <2>5. MapOf(class_of(p)', objects[p].values) = MapOf(class_of(p), objects[p].values)
      BY <2>4, SameMap
    <2> QED BY <2>1, <2>2, <2>5, MapsAt
  <1>6. MapOf(class_of(o)', objects'[o].values) = new
    BY <1>2, <1>3, <1>4
  <1> HIDE DEF new
  <1>7. Maps' = [p \in Allocated \cup {o} |-> MapOf(class_of(p)', objects'[p].values)]
    BY <1>3 DEF Maps
  <1>8. \A p \in Allocated \cup {o} : MapOf(class_of(p)', objects'[p].values) = IF p = o THEN new ELSE Maps[p]
    BY <1>3, <1>5, <1>6
  <1>9. Maps' = [p \in Allocated \cup {o} |-> IF p = o THEN new ELSE Maps[p]]
    BY <1>7, <1>8
  <1>10. DOMAIN Maps = Allocated
    BY DEF Maps
  <1> QED BY <1>9, <1>10 DEF Program!Put, new

\* Putting a name into the map of an object that exists.
LEMMA PutExcept ==
  ASSUME NEW f, f = [x \in DOMAIN f |-> f[x]], NEW o \in DOMAIN f, NEW m
  PROVE  Program!Put(f, o, m) = [f EXCEPT ![o] = m]
  <1>1. DOMAIN f \cup {o} = DOMAIN f
    OBVIOUS
  <1> QED BY <1>1 DEF Program!Put

\* What both views have in common when no read is running.
Idle == pc = "run" /\ pc' = "run" /\ UNCHANGED <<walk, result>>

LEMMA IdleView ==
  ASSUME PathInv, Idle
  PROVE  /\ Asked = None /\ UNCHANGED <<Asked, result, AccessesInClass>>
  BY DEF PathInv, Idle, Asked, AccessesInClass

\* object_empty adds an object without names.
LEMMA EmptyStep ==
  ASSUME Inv, PathInv, NEW o \in Obj, object_empty(o)
  PROVE  Program!Next
  <1>1. /\ objects' = [objects EXCEPT ![o] = EmptyData] /\ UNCHANGED classes
        /\ o \notin Allocated /\ Idle
    BY DEF object_empty, Idle, Allocated
  <1>2. EmptyData \in Data /\ EmptyData.class = 0
    BY DEF EmptyData, Data
  <1>3. classes'[EmptyData.class + 1].offsets = <<>>
    BY <1>1, <1>2 DEF Inv, TagInv
  <1>4. MapOf(classes'[EmptyData.class + 1], EmptyData.values) = [n \in {} |-> None]
    <2>1. Fields(classes'[EmptyData.class + 1]) = {}
      BY <1>3 DEF Fields
    <2> QED BY <2>1 DEF MapOf
  <1>5. Maps' = Program!Put(Maps, o, [n \in {} |-> None])
    BY <1>1, <1>2, <1>4, SameClasses, MapsStep
  <1>6. o \notin DOMAIN Maps
    BY <1>1 DEF Maps
  <1>7. Program!New(o)
    BY <1>1, <1>5, <1>6, IdleView DEF Program!New
  <1> QED BY <1>7 DEF Program!Next

\* After a transition the map of the object has one name more.
LEMMA MovedStep ==
  ASSUME Inv, ClassStep, NEW o \in Obj, NEW old \in Data, NEW name \in Name, NEW v \in Held,
         old.class + 1 \in DOMAIN classes, old.values \in Seq(Held),
         Len(old.values) = get_class(old.class).size,
         lookup(get_class(old.class), name) = -1,
         NEW tag \in Nat, Moved(o, old, name, v, tag)
  PROVE  Maps' = Program!Put(Maps, o, Program!Put(MapOf(get_class(old.class), old.values), name, v))
  <1> DEFINE c == get_class(old.class)
             d == Grown(old, tag, Len(old.values) + 1, v)
  <1>1. c \in ClassType /\ GoodClass(c) /\ lookup(c, name) = -1 /\ Len(old.values) = c.size
    BY AgreeDef DEF Data, get_class, Inv, TypeOK
  <1>2. /\ classes'[tag + 1] \in ClassType /\ GoodClass(classes'[tag + 1])
        /\ Extends(classes'[tag + 1], c, name) /\ objects' = [objects EXCEPT ![o] = d]
    BY DEF Moved
  <1> HIDE DEF c
  <1>3. MapOf(classes'[tag + 1], d.values) = Program!Put(MapOf(c, old.values), name, v)
    <2> DEFINE e == classes'[tag + 1]
    <2>1. e \in ClassType /\ GoodClass(e) /\ Extends(e, c, name)
      BY <1>2
    <2> HIDE DEF e
    <2>2. MapOf(e, d.values) = Program!Put(MapOf(c, old.values), name, v)
      BY <1>1, <2>1, GrowMap
    <2> QED BY <2>2 DEF e
  <1>4. d \in Data /\ d.class = tag
    BY GrownFits
  <1> HIDE DEF c, d
  <1>5. Maps' = Program!Put(Maps, o, MapOf(classes'[d.class + 1], d.values))
    BY <1>2, <1>4, MapsStep
  <1> QED BY <1>3, <1>4, <1>5 DEF c

\* object_create adds an object whose only name is __proto__.
LEMMA CreateStep ==
  ASSUME Inv, PathInv, Limit, NEW o \in Obj, NEW p \in Allocated, Room(0, Proto), object_create(o, p)
  PROVE  Program!Next
  <1>1. EmptyData \in Data /\ EmptyData.class = 0 /\ EmptyData.values = <<>>
    BY DEF EmptyData, Data
  <1>2. 1 \in DOMAIN classes /\ classes[1].size = 0 /\ classes[1].offsets = <<>>
    BY AgreeDef DEF Inv, TypeOK, TagInv, GoodClass
  <1>3. lookup(get_class(0), Proto) = -1 /\ get_class(0).size = 0
    BY <1>2 DEF lookup, Named, get_class
  <1>4. o \notin Allocated /\ Proto \in Name /\ p \in Held
    BY ObjectsAssumption DEF object_create, Allocated, Held
  <1>5. EmptyData.values \in Seq(Held) /\ Len(EmptyData.values) = 0
    BY <1>1
  <1>6. /\ pc = "run" /\ UNCHANGED <<cache, walk, result>>
        /\ transition(EmptyData.class, Proto)
        /\ Transitioned(o, EmptyData, TransitionTag(EmptyData.class, Proto), p)
    BY <1>1 DEF object_create
  <1>7. /\ EmptyData.class + 1 \in DOMAIN classes /\ Room(EmptyData.class, Proto)
        /\ lookup(get_class(EmptyData.class), Proto) = -1
        /\ Len(EmptyData.values) = get_class(EmptyData.class).size
    BY <1>1, <1>2, <1>3, <1>5
  <1>8. MapOf(get_class(0), EmptyData.values) = [n \in {} |-> None]
    <2>1. Fields(get_class(0)) = {}
      BY <1>2 DEF Fields, get_class
    <2> QED BY <2>1 DEF MapOf
  <1> HIDE DEF EmptyData
  <1>9. ClassStep /\ pc' = "run" /\ \E tag \in Nat : Moved(o, EmptyData, Proto, p, tag)
    BY <1>1, <1>4, <1>5, <1>6, <1>7, TransitionedEffect
  <1>10. PICK tag \in Nat : Moved(o, EmptyData, Proto, p, tag)
    BY <1>9
  <1>11. Maps' = Program!Put(Maps, o, Program!Put(MapOf(get_class(EmptyData.class), EmptyData.values), Proto, p))
    BY <1>1, <1>4, <1>5, <1>7, <1>9, <1>10, MovedStep
  <1>12. Program!Put([n \in {} |-> None], Proto, p) = [n \in {Proto} |-> p]
    BY DEF Program!Put
  <1>13. Maps' = Program!Put(Maps, o, [n \in {Proto} |-> p])
    BY <1>1, <1>8, <1>11, <1>12
  <1>14. o \notin DOMAIN Maps /\ p \in DOMAIN Maps
    BY <1>4 DEF Maps
  <1>15. \E q \in DOMAIN Maps : Maps' = Program!Put(Maps, o, [n \in {Proto} |-> q])
    BY <1>13, <1>14
  <1>16. Asked = None /\ UNCHANGED <<Asked, result, AccessesInClass>>
    BY <1>6, <1>9, IdleView DEF Idle
  <1>17. Program!New(o)
    BY <1>14, <1>15, <1>16 DEF Program!New
  <1> QED BY <1>17 DEF Program!Next

\* object_set puts one name into the map of one object.
LEMMA SetStep ==
  ASSUME Inv, PathInv, Limit, NEW o \in Allocated, NEW name \in Name, NEW site \in Sites \cup {None},
         site # None => o = SiteUse[site].obj /\ name = SiteUse[site].name,
         Set(o, name, site)
  PROVE  Program!Next
  <1> DEFINE off == lookup(class_of(o), name)
             data == objects[o]
             c == class_of(o)
  <1>1. PICK v \in Held : object_set(o, name, v, site)
    BY DEF Set
  <1>2. Lookup(o, name, site) = off /\ off \in -1 .. c.size - 1
    BY LookupRight, ObjectFacts, LookupGood
  <1>3. pc = "run" /\ insert(o, name, v, site) /\ UNCHANGED <<walk, result>> /\ o \in Obj
    BY <1>1 DEF object_set, Allocated
  <1>4. pc' = "run" /\ Maps' = Program!Put(Maps, o, Program!Put(MapOf(c, data.values), name, v))
    <2>1. CASE off # -1
      <3> DEFINE d == [data EXCEPT !.values[off + 1] = v]
      <3>1. /\ objects' = [objects EXCEPT ![o].values[off + 1] = v]
            /\ FillCache(site, off) /\ UNCHANGED <<classes, pc>>
        BY <1>2, <1>3, <2>1, ObjectFacts DEF insert
      <3>2. objects' = [objects EXCEPT ![o] = d]
        BY <3>1
      <3>3. data \in Data /\ off + 1 \in 1 .. Len(data.values) /\ data.values \in Seq(Held) /\ DOMAIN data.values = 1 .. Len(data.values)
        BY <1>2, <2>1, ObjectFacts
      <3>4. d.class = data.class /\ d.values = [data.values EXCEPT ![off + 1] = v]
        BY <3>3 DEF Data
      <3>5. [data.values EXCEPT ![off + 1] = v] \in Seq(Value \cup {None})
        <4>1. Held \subseteq Value
          BY DEF Held, Allocated, Value
        <4>2. [data.values EXCEPT ![off + 1] = v] \in Seq(Held)
          BY <3>3, ExceptSeq
        <4> QED BY <4>1, <4>2
      <3>6. d \in Data
        BY <3>3, <3>5 DEF Data
      <3> HIDE DEF d
      <3>7. Maps' = Program!Put(Maps, o, MapOf(classes'[d.class + 1], d.values))
        BY <1>3, <3>1, <3>2, <3>6, SameClasses, MapsStep
      <3>8. classes'[d.class + 1] = c
        BY <3>1, <3>4, ObjectFacts
      <3>9. name \in Fields(c)
        BY <2>1, ObjectFacts, FieldsLookup
      <3>10. MapOf(c, [data.values EXCEPT ![off + 1] = v]) = Program!Put(MapOf(c, data.values), name, v)
        BY <3>9, ObjectFacts, WriteMap
      <3> QED BY <1>3, <3>1, <3>4, <3>7, <3>8, <3>10
    <2>2. CASE off = -1
      <3>1. /\ transition(data.class, name)
            /\ Transitioned(o, data, TransitionTag(data.class, name), v)
        BY <1>2, <1>3, <2>2 DEF insert
      <3>2. Room(data.class, name)
        BY <1>2, <2>2 DEF Set
      <3>3. get_class(data.class) = c
        BY DEF class_of
      <3>4. ClassStep /\ pc' = "run" /\ \E tag \in Nat : Moved(o, data, name, v, tag)
        BY <1>1, <1>3, <2>2, <3>1, <3>2, <3>3, ObjectFacts, TransitionedEffect
      <3>5. PICK tag \in Nat : Moved(o, data, name, v, tag)
        BY <3>4
      <3> QED BY <1>1, <1>3, <2>2, <3>3, <3>4, <3>5, ObjectFacts, MovedStep
    <2> QED BY <2>1, <2>2
  <1>5. Maps' = [Maps EXCEPT ![o] = Program!Put(Maps[o], name, v)]
    <2>1. Maps[o] = MapOf(c, data.values) /\ o \in DOMAIN Maps
      BY MapsAt
    <2>2. Maps = [q \in DOMAIN Maps |-> Maps[q]]
      BY DEF Maps
    <2> QED BY <1>4, <2>1, <2>2, PutExcept
  <1>6. Program!Set(o, name, v)
    BY <1>3, <1>4, <1>5, IdleView DEF Program!Set, Idle
  <1>7. o \in DOMAIN Maps /\ v \in DOMAIN Maps \cup Prim
    BY MapsAt DEF Held
  <1> QED BY <1>6, <1>7 DEF Program!Next

-----------------------------------------------------------------------------
(* Reads.                                                                   *)

\* A name of an object, its value, and the prototype, read off class and cells.
LEMMA ViewOf ==
  ASSUME Inv, NEW o \in Allocated
  PROVE  /\ \A n : Program!Has(o, n) <=> lookup(class_of(o), n) # -1
         /\ \A n : Program!Has(o, n) => Maps[o][n] = objects[o].values[lookup(class_of(o), n) + 1]
         /\ Program!ProtoOf(o) = IF /\ lookup(class_of(o), Proto) # -1
                                   /\ objects[o].values[lookup(class_of(o), Proto) + 1] \in Obj
                                THEN objects[o].values[lookup(class_of(o), Proto) + 1] ELSE None
  <1>1. Maps[o] = MapOf(class_of(o), objects[o].values)
    BY MapsAt
  <1>2. DOMAIN Maps[o] = Fields(class_of(o))
    BY <1>1 DEF MapOf
  <1>3. \A n : Program!Has(o, n) <=> lookup(class_of(o), n) # -1
    BY <1>2, ObjectFacts, FieldsLookup DEF Program!Has
  <1>4. \A n : Program!Has(o, n) => Maps[o][n] = objects[o].values[lookup(class_of(o), n) + 1]
    BY <1>1, <1>2 DEF MapOf, Program!Has
  <1> QED BY <1>3, <1>4 DEF Program!ProtoOf

\* A read starts at its object and goes on from an object without the name to
\* the prototype.
LEMMA SearchStart ==
  ASSUME NEW o \in Allocated, NEW n
  PROVE  o \in Program!Searched(o, n)
  BY MapsAt DEF Program!Searched
LEMMA SearchNext ==
  ASSUME NEW o, NEW n, NEW a \in Program!Searched(o, n), ~Program!Has(a, n),
         Program!ProtoOf(a) # None, Program!ProtoOf(a) \in Allocated
  PROVE  Program!ProtoOf(a) \in Program!Searched(o, n)
  <1>1. DOMAIN Maps = Allocated
    BY DEF Maps
  <1>2. ASSUME NEW S \in SUBSET DOMAIN Maps, o \in S, Program!Passes(S, n)
        PROVE  Program!ProtoOf(a) \in S
    <2>1. a \in S
      BY <1>2 DEF Program!Searched
    <2> QED BY <1>2, <2>1 DEF Program!Passes
  <1> QED BY <1>1, <1>2 DEF Program!Searched

\* As long as the objects are left alone the way of a read is the same.
LEMMA SameMaps ==
  ASSUME UNCHANGED <<classes, objects>>
  PROVE  Maps' = Maps /\ Allocated' = Allocated
  BY DEF Maps, Allocated, class_of, get_class
LEMMA SameSearch ==
  ASSUME Maps' = Maps, NEW o, NEW n
  PROVE  Program!Searched(o, n)' = Program!Searched(o, n)
  BY DEF Program!Searched, Program!Passes, Program!Has, Program!ProtoOf

\* Outside a read nothing is pending.
LEMMA IdlePath ==
  ASSUME PathInv, pc = "run", pc' = "run", walk' = walk
  PROVE  PathInv'
  BY DEF PathInv

\* object_get.
LEMMA AskStep ==
  ASSUME Inv, PathInv, NEW o \in Allocated, NEW name \in Name, NEW site \in Sites \cup {None},
         object_get(o, name, site)
  PROVE  Program!Next /\ PathInv'
  <1>1. /\ pc = "run" /\ pc' = "get" /\ UNCHANGED <<classes, objects, result>>
        /\ walk' = [start |-> o, at |-> o, name |-> name, site |-> site]
    BY DEF object_get
  <1>2. walk' \in Walks /\ walk'.start = o /\ walk'.at = o /\ walk'.name = name /\ walk' # None
    BY <1>1, ObjectsAssumption DEF Walks, Allocated
  <1>3. Maps' = Maps /\ Allocated' = Allocated
    BY <1>1, SameMaps
  <1>4. Asked = None /\ Asked' = [obj |-> o, name |-> name]
    BY <1>1, <1>2 DEF PathInv, Asked
  <1>5. AccessesInClass' = AccessesInClass
    BY <1>1 DEF AccessesInClass
  <1>6. Program!Ask(o, name)
    BY <1>1, <1>3, <1>4, <1>5 DEF Program!Ask
  <1>7. o \in DOMAIN Maps
    BY MapsAt
  <1>8. o \in Program!Searched(o, name)'
    BY <1>3, SearchStart, SameSearch
  <1>9. PathInv'
    BY <1>1, <1>2, <1>3, <1>8 DEF PathInv
  <1> QED BY <1>6, <1>7, <1>9 DEF Program!Next

\* What is known of a read that is running.
LEMMA ReadFacts ==
  ASSUME Inv, PathInv, pc = "get"
  PROVE  /\ walk \in Walks /\ walk # None /\ walk.at \in Allocated /\ walk.start \in Allocated
         /\ walk.at \in Program!Searched(walk.start, walk.name)
         /\ Asked = [obj |-> walk.start, name |-> walk.name] /\ Asked # None
         /\ Asked.obj = walk.start /\ Asked.name = walk.name
         /\ Lookup(walk.at, walk.name, walk.site) = lookup(class_of(walk.at), walk.name)
         /\ AccessesInClass
  <1>1. /\ walk \in Walks /\ walk # None /\ walk.at \in Allocated /\ walk.start \in Allocated
        /\ walk.at \in Program!Searched(walk.start, walk.name)
        /\ Lookup(walk.at, walk.name, walk.site) = lookup(class_of(walk.at), walk.name)
    BY WalkFacts, ObjectsAssumption DEF PathInv
  <1>2. Asked = [obj |-> walk.start, name |-> walk.name]
    BY <1>1 DEF Asked
  <1>3. Asked \in [obj : Obj, name : Name]
    BY <1>1, <1>2 DEF Walks
  <1> QED BY <1>1, <1>2, <1>3, ObjectsAssumption DEF AccessesInClass

\* get returns: the answer is told and nothing else changes.
LEMMA TellStep ==
  ASSUME Inv, PathInv, pc = "get", pc' = "run", walk' = None, UNCHANGED <<classes, objects>>,
         Program!Answer(walk.start, walk.name, result')
  PROVE  Program!Next /\ PathInv'
  <1>1. Maps' = Maps
    BY SameMaps
  <1>2. Asked' = None
    BY DEF Asked
  <1>3. AccessesInClass' = AccessesInClass
    BY DEF AccessesInClass
  <1>4. Program!Tell
    BY <1>1, <1>2, <1>3, ReadFacts DEF Program!Tell
  <1>5. PathInv'
    BY DEF PathInv
  <1> QED BY <1>4, <1>5 DEF Program!Next

\* Case 1 of get: the value of the name in the first object that has it.
LEMMA OwnStep ==
  ASSUME Inv, Inv', PathInv, GetOwn
  PROVE  Program!Next /\ PathInv'
  <1> DEFINE o == walk.at
             off == lookup(class_of(o), walk.name)
  <1>1. pc = "get" /\ off # -1 /\ UNCHANGED <<classes, objects>>
    BY WalkFacts DEF GetOwn
  <1>2. pc' = "run" /\ result' = objects[o].values[off + 1] /\ walk' = None
    BY <1>1, WalkFacts DEF GetOwn, Return, Inv
  <1>3. Program!Has(o, walk.name) /\ result' = Maps[o][walk.name]
    BY <1>1, <1>2, ReadFacts, ViewOf
  <1>4. Program!Answer(walk.start, walk.name, result')
    BY <1>1, <1>3, ReadFacts DEF Program!Answer
  <1> QED BY <1>1, <1>2, <1>4, TellStep

\* Case 2: the step to the prototype is not visible.
LEMMA ProtoStep ==
  ASSUME Inv, Inv', PathInv, GetProto
  PROVE  UNCHANGED Program!view /\ PathInv'
  <1> DEFINE o == walk.at
             p == objects[o].values[ProtoOffset + 1]
  <1>1. /\ pc = "get" /\ UNCHANGED <<classes, objects, pc, result>>
        /\ ProtoOffset # -1 /\ p \in Obj
        /\ walk' = [walk EXCEPT !.at = p, !.site = None]
        /\ lookup(class_of(o), walk.name) = -1
    BY WalkFacts DEF GetProto, ProtoIsObject
  <1>2. /\ walk \in Walks /\ walk' # None /\ walk'.start = walk.start /\ walk'.name = walk.name /\ walk'.at = p
    BY <1>1, ReadFacts, ObjectsAssumption DEF Walks, Inv, WalkInv
  <1>3. p \in Allocated
    BY <1>1, <1>2, SameMaps DEF Inv, WalkInv
  <1>4. ~Program!Has(o, walk.name) /\ Program!ProtoOf(o) = p /\ p # None
    BY <1>1, ReadFacts, ViewOf, ObjectsAssumption DEF ProtoOffset
  <1>5. p \in Program!Searched(walk.start, walk.name)
    BY <1>1, <1>3, <1>4, ReadFacts, SearchNext
  <1>6. Maps' = Maps /\ Allocated' = Allocated
    BY <1>1, SameMaps
  <1>7. PathInv'
    BY <1>1, <1>2, <1>5, <1>6, ReadFacts, SameSearch DEF PathInv
  <1>8. Asked' = Asked /\ AccessesInClass' = AccessesInClass
    BY <1>1, <1>2, ReadFacts DEF Asked, AccessesInClass
  <1> QED BY <1>1, <1>6, <1>7, <1>8 DEF Program!view

\* Case 3: the chain has ended.
LEMMA MissingStep ==
  ASSUME Inv, Inv', PathInv, GetMissing
  PROVE  Program!Next /\ PathInv'
  <1> DEFINE o == walk.at
  <1>1. /\ pc = "get" /\ UNCHANGED <<classes, objects>> /\ ~ProtoIsObject
        /\ lookup(class_of(o), walk.name) = -1
    BY WalkFacts DEF GetMissing
  <1>2. pc' = "run" /\ result' = Undefined /\ walk' = None
    BY DEF GetMissing, Return, Inv
  <1>3. ~Program!Has(o, walk.name) /\ Program!ProtoOf(o) = None
    BY <1>1, ReadFacts, ViewOf DEF ProtoIsObject, ProtoOffset
  <1>4. Program!Answer(walk.start, walk.name, result')
    BY <1>1, <1>2, <1>3, ReadFacts DEF Program!Answer
  <1> QED BY <1>1, <1>2, <1>4, TellStep

-----------------------------------------------------------------------------
(* The theorems.                                                            *)

LEMMA InitStep == ASSUME Init PROVE Program!Init /\ PathInv
  <1>1. objects = [o \in Obj |-> None] /\ pc = "run" /\ walk = None /\ result = Undefined
    BY DEF Init
  <1>2. Allocated = {}
    BY <1>1 DEF Allocated
  <1>3. Maps = [o \in {} |-> None]
    BY <1>2 DEF Maps
  <1>4. Asked = None /\ AccessesInClass
    BY <1>1 DEF Asked, AccessesInClass
  <1>5. PathInv
    BY <1>1 DEF PathInv
  <1> QED BY <1>1, <1>3, <1>4, <1>5 DEF Program!Init

\* object_set does not leave the state between two reads.
LEMMA SetPath ==
  ASSUME Inv, Inv', PathInv, NEW o, NEW name, NEW site, Set(o, name, site)
  PROVE  PathInv'
  <1>1. pc = "run" /\ pc' \in {"run", "assert"} /\ walk' = walk
    BY DEF Set, object_set, insert, Transitioned
  <1>2. pc' = "run"
    BY <1>1 DEF Inv
  <1> QED BY <1>1, <1>2, IdlePath

\* Every step is a step of the abstract objects or invisible.
LEMMA NextStep ==
  ASSUME Limit, Inv, Inv', PathInv, [MonoNext]_objects_vars
  PROVE  [Program!Next]_(Program!view) /\ PathInv'
  <1>1. CASE Create
    <2>1. PICK o \in Obj : object_empty(o) \/ (Room(0, Proto) /\ \E p \in Allocated : object_create(o, p))
      BY <1>1 DEF Create
    <2>2. pc = "run" /\ pc' \in {"run", "assert"} /\ walk' = walk
      BY <2>1 DEF object_empty, object_create, Transitioned
    <2>3. PathInv'
      BY <2>2, IdlePath DEF Inv
    <2> QED BY <2>1, <2>3, EmptyStep, CreateStep
  <1>2. CASE RuntimeAccess
    <2>1. PICK o \in Allocated, name \in Name : Set(o, name, None) \/ object_get(o, name, None)
      BY <1>2 DEF RuntimeAccess
    <2>2. CASE Set(o, name, None)
      BY <2>2, SetStep, SetPath
    <2>3. CASE object_get(o, name, None)
      BY <2>3, AskStep
    <2> QED BY <2>1, <2>2, <2>3
  <1>3. CASE \E site \in Sites : SiteUse[site].obj \in Allocated /\ SiteAccess(site, SiteUse[site].obj)
    <2>1. PICK site \in Sites : SiteUse[site].obj \in Allocated /\ SiteAccess(site, SiteUse[site].obj)
      BY <1>3
    <2>2. SiteUse[site].name \in Name
      BY ObjectsAssumption
    <2>3. CASE Set(SiteUse[site].obj, SiteUse[site].name, site)
      BY <2>1, <2>2, <2>3, SetStep, SetPath
    <2>4. CASE object_get(SiteUse[site].obj, SiteUse[site].name, site)
      BY <2>1, <2>2, <2>4, AskStep
    <2> QED BY <2>1, <2>3, <2>4 DEF SiteAccess
  <1>4. CASE Get
    BY <1>4, OwnStep, ProtoStep, MissingStep DEF Get
  <1>5. CASE UNCHANGED objects_vars
    <2>1. UNCHANGED <<classes, objects, pc, walk, result>>
      BY <1>5 DEF objects_vars
    <2>2. Maps' = Maps /\ Allocated' = Allocated
      BY <2>1, SameMaps
    <2>3. Asked' = Asked /\ AccessesInClass' = AccessesInClass
      BY <2>1 DEF Asked, AccessesInClass
    <2>4. PathInv'
      BY <2>1, <2>2, SameSearch DEF PathInv
    <2> QED BY <2>1, <2>2, <2>3, <2>4 DEF Program!view
  <1> QED BY <1>1, <1>2, <1>3, <1>4, <1>5 DEF MonoNext

\* Classes, offsets, transitions and caches are an optimisation that no program
\* can tell from maps with a prototype chain.
THEOREM ObjectsImplementMaps == ASSUME Limit PROVE MonoSpec => ImplementsMaps
  <1>1. Init => Program!Init /\ PathInv
    BY InitStep
  <1>2. Inv /\ Inv' /\ PathInv /\ [MonoNext]_objects_vars => [Program!Next]_(Program!view) /\ PathInv'
    BY NextStep
  <1> QED BY <1>1, <1>2, Invariance, PTL DEF MonoSpec, ImplementsMaps, Program!Spec

\* What a step in which get returns has told is an answer.
LEMMA ReturnTells ==
  ASSUME Inv, PathInv, PathInv', [Program!Next]_(Program!view), pc = "get", pc' = "run"
  PROVE  Program!Answer(walk.start, walk.name, result')
  <1>1. Asked # None /\ Asked.obj = walk.start /\ Asked.name = walk.name
    BY ReadFacts
  <1>2. Asked' = None
    BY DEF PathInv, Asked
  <1>3. Program!Next
    BY <1>1, <1>2 DEF Program!view
  <1>4. Program!Tell
    BY <1>1, <1>3 DEF Program!Next, Program!New, Program!Set, Program!Ask
  <1> QED BY <1>1, <1>4 DEF Program!Tell

\* With sites that see one object each, a read returns the value of the first
\* object on the prototype chain that has the name: the cached offset is the
\* right one however often the class of the object has changed in between.
THEOREM ReadsAreRight == ASSUME Limit PROVE MonoSpec => ReadsField
  <1>1. Init => PathInv
    BY InitStep
  <1>2. Inv /\ Inv' /\ PathInv /\ [MonoNext]_objects_vars =>
           [pc = "get" /\ pc' = "run" => Program!Answer(walk.start, walk.name, result')]_objects_vars /\ PathInv'
    BY NextStep, ReturnTells
  <1> QED BY <1>1, <1>2, Invariance, PTL DEF MonoSpec, ReadsField
=============================================================================
