---------------------------- MODULE ObjectsProofs ----------------------------
(***************************************************************************)
(* Hidden classes and inline caches for any number of objects, names and   *)
(* access sites, as long as no more classes are made than there are tags   *)
(* and every site sees one object.  That no access leaves its class is not *)
(* inductive: a cached offset is used without a look at the class, so the  *)
(* invariant has to say what every cache holds about an object whose class *)
(* has moved on since the cache was filled.                                *)
(***************************************************************************)
EXTENDS Objects, SequenceTheorems, TLAPS

\* No tag is truncated, and tag 0 stays the class without fields.
TagInv ==
    /\ Len(classes) \in 1 .. TagMod
    /\ classes[1].offsets = <<>>

\* An object has a cell for every field of its class, and each holds a value
\* that refers to no object that does not exist.
ObjInv ==
    \A o \in Allocated :
        /\ objects[o].class + 1 \in DOMAIN classes
        /\ Len(objects[o].values) = class_of(o).size
        /\ objects[o].values \in Seq(Held)

\* A filled cache holds the offset of the site's name in its object's class.
CacheInv ==
    \A s \in Sites : cache[s] # -1 =>
        /\ SiteUse[s].obj \in Allocated
        /\ cache[s] = lookup(class_of(SiteUse[s].obj), SiteUse[s].name)

\* A walk that still has its site stands on the site's object.
WalkInv ==
    pc = "get" =>
        /\ walk \in Walks /\ walk.at \in Allocated
        /\ walk.site # None =>
              walk.at = SiteUse[walk.site].obj /\ walk.name = SiteUse[walk.site].name

Inv ==
    /\ TypeOK /\ TagInv /\ ClassesAgree /\ ObjInv /\ CacheInv /\ WalkInv
    /\ pc \in {"run", "get"}

-----------------------------------------------------------------------------
(* Class::lookup.                                                           *)

\* With one pair for each name, find returns the pair that has the name.
LEMMA FirstOnce ==
  ASSUME NEW pairs, Once(pairs), NEW i \in DOMAIN pairs, DOMAIN pairs \subseteq Nat
  PROVE  First(pairs, pairs[i].name) = pairs[i] /\ Named(pairs, pairs[i].name) = {i}
  <1>1. Named(pairs, pairs[i].name) = {i}
    BY DEF Named, Once
  <1>2. i \in Nat
    OBVIOUS
  <1> QED BY <1>1, <1>2 DEF First

\* In a good class lookup answers -1 for a name without a field, and the
\* position of the field otherwise.
LEMMA LookupGood ==
  ASSUME NEW c \in ClassType, GoodClass(c), NEW n
  PROVE  /\ lookup(c, n) \in -1 .. c.size - 1
         /\ lookup(c, n) = -1 <=> \A i \in DOMAIN c.offsets : c.offsets[i].name # n
         /\ \A i \in DOMAIN c.offsets : c.offsets[i].name = n => lookup(c, n) = i - 1
  <1>1. /\ c.offsets \in Seq(Offsets) /\ Len(c.offsets) = c.size /\ c.size \in Nat
        /\ DOMAIN c.offsets = 1 .. c.size
    BY DEF ClassType, GoodClass
  <1>2. ASSUME NEW i \in DOMAIN c.offsets, c.offsets[i].name = n
        PROVE  lookup(c, n) = i - 1
    <2>1. Once(c.offsets) /\ DOMAIN c.offsets \subseteq Nat /\ c.offsets[i].index = i - 1
      BY <1>1, <1>2 DEF GoodClass
    <2>2. First(c.offsets, n) = c.offsets[i] /\ Named(c.offsets, n) = {i}
      BY <1>2, <2>1, FirstOnce
    <2> QED BY <2>1, <2>2 DEF lookup
  <1>3. ASSUME \A i \in DOMAIN c.offsets : c.offsets[i].name # n
        PROVE  lookup(c, n) = -1
    BY <1>3 DEF lookup, Named
  <1> QED BY <1>1, <1>2, <1>3

\* lookup depends on the offsets alone, and adding a field moves no other one.
LEMMA LookupSame ==
  ASSUME NEW c, NEW d, c.offsets = d.offsets, NEW n
  PROVE  lookup(c, n) = lookup(d, n)
  BY DEF lookup
LEMMA LookupGrows ==
  ASSUME NEW c \in ClassType, GoodClass(c), NEW d \in ClassType, GoodClass(d),
         NEW x \in Offsets, d.offsets = Append(c.offsets, x), NEW n, lookup(c, n) # -1
  PROVE  lookup(d, n) = lookup(c, n)
  <1>1. PICK i \in DOMAIN c.offsets : c.offsets[i].name = n
    BY LookupGood
  <1>2. i \in DOMAIN d.offsets /\ d.offsets[i].name = n
    BY <1>1 DEF ClassType
  <1>3. lookup(c, n) = i - 1
    BY <1>1, LookupGood
  <1>4. lookup(d, n) = i - 1
    BY <1>2, LookupGood
  <1> QED BY <1>3, <1>4

-----------------------------------------------------------------------------
(* ClassList::transition.                                                   *)

\* A tag below the limit is not truncated.
LEMMA TagFits == ASSUME Len(classes) \in Nat, Len(classes) < TagMod PROVE NextTag = Len(classes)
  BY TagModAssumption DEF NextTag

\* Appending a pair with a new name keeps one pair for each name.
LEMMA OnceAppend ==
  ASSUME NEW S, NEW pairs \in Seq(S), Once(pairs), NEW p \in S, Named(pairs, p.name) = {}
  PROVE  Once(Append(pairs, p))
  <1>1. \A i \in DOMAIN pairs : pairs[i].name # p.name
    BY DEF Named
  <1>2. /\ DOMAIN Append(pairs, p) = 1 .. Len(pairs) + 1 /\ DOMAIN pairs = 1 .. Len(pairs)
        /\ Len(pairs) \in Nat
        /\ \A i \in 1 .. Len(pairs) : Append(pairs, p)[i] = pairs[i]
        /\ Append(pairs, p)[Len(pairs) + 1] = p
    OBVIOUS
  <1>3. ASSUME NEW i \in DOMAIN Append(pairs, p), NEW j \in DOMAIN Append(pairs, p),
               Append(pairs, p)[i].name = Append(pairs, p)[j].name
        PROVE  i = j
    <2>1. CASE i \in DOMAIN pairs /\ j \in DOMAIN pairs
      BY <1>2, <1>3, <2>1 DEF Once
    <2>2. CASE i \notin DOMAIN pairs /\ j \in DOMAIN pairs
      <3>1. i = Len(pairs) + 1
        BY <1>2, <1>3, <2>2
      <3> QED BY <1>1, <1>2, <1>3, <2>2, <3>1
    <2>3. CASE j \notin DOMAIN pairs /\ i \in DOMAIN pairs
      <3>1. j = Len(pairs) + 1
        BY <1>2, <1>3, <2>3
      <3> QED BY <1>1, <1>2, <1>3, <2>3, <3>1
    <2>4. CASE i \notin DOMAIN pairs /\ j \notin DOMAIN pairs
      BY <1>2, <2>4
    <2> QED BY <2>1, <2>2, <2>3, <2>4
  <1> QED BY <1>3 DEF Once

\* d has the fields of c and one more, called name.
Extends(d, c, name) ==
    /\ d.size = c.size + 1
    /\ d.offsets = Append(c.offsets, [name |-> name, index |-> c.size])

\* Class::branch adds a field to a class that does not have it.
LEMMA BranchGood ==
  ASSUME NEW c \in ClassType, GoodClass(c), NEW name \in Name, lookup(c, name) = -1
  PROVE  /\ branch(c, name) \in ClassType /\ GoodClass(branch(c, name))
         /\ branch(c, name).transitions = <<>>
         /\ Extends(branch(c, name), c, name)
  <1> DEFINE p == [name |-> name, index |-> c.size]
             b == branch(c, name)
  <1>1. /\ c.size \in Nat /\ c.offsets \in Seq(Offsets) /\ Len(c.offsets) = c.size
        /\ Once(c.offsets) /\ \A i \in DOMAIN c.offsets : c.offsets[i].index = i - 1
    BY DEF ClassType, GoodClass
  <1>2. p \in Offsets /\ p.name = name /\ p.index = c.size
    BY <1>1 DEF Offsets
  <1>3. b.size = c.size + 1 /\ b.offsets = Append(c.offsets, p) /\ b.transitions = <<>>
    BY DEF branch
  <1> HIDE DEF p
  <1>4. Append(c.offsets, p) \in Seq(Offsets) /\ <<>> \in Seq(Transitions)
    BY <1>1, <1>2
  <1>5. b \in ClassType
    BY <1>1, <1>4 DEF branch, ClassType, p
  <1> HIDE DEF b
  <1>6. Named(c.offsets, p.name) = {}
    BY <1>2, LookupGood DEF Named
  <1>7. Once(b.offsets)
    BY <1>1, <1>2, <1>3, <1>6, OnceAppend
  <1>8. Once(b.transitions)
    BY <1>3 DEF Once
  <1>9. b.size = Len(b.offsets)
    BY <1>1, <1>2, <1>3
  <1>10. \A i \in DOMAIN b.offsets : b.offsets[i].index = i - 1
    <2>1. /\ DOMAIN b.offsets = 1 .. c.size + 1 /\ DOMAIN c.offsets = 1 .. c.size
          /\ b.offsets[c.size + 1] = p /\ \A i \in 1 .. c.size : b.offsets[i] = c.offsets[i]
      BY <1>1, <1>2, <1>3
    <2>2. ASSUME NEW i \in 1 .. c.size + 1 PROVE b.offsets[i].index = i - 1
      <3>1. CASE i = c.size + 1
        BY <1>1, <1>2, <2>1, <3>1
      <3>2. CASE i \in 1 .. c.size
        BY <1>1, <2>1, <3>2
      <3> QED BY <1>1, <3>1, <3>2
    <2> QED BY <2>1, <2>2
  <1>11. GoodClass(b)
    BY <1>7, <1>8, <1>9, <1>10 DEF GoodClass
  <1> QED BY <1>3, <1>5, <1>11 DEF Extends, p, b

\* The transition s out of class t leads to a later class that extends it.
StepGood(list, t, s) ==
    /\ s.tag + 1 \in t + 1 .. Len(list)
    /\ list[s.tag + 1].offsets = Append(list[t].offsets, [name |-> s.name, index |-> list[t].size])

\* ClassesAgree, class by class.
LEMMA AgreeDef ==
  ClassesAgree <=> \A t \in DOMAIN classes :
                      /\ GoodClass(classes[t])
                      /\ \A i \in DOMAIN classes[t].transitions : StepGood(classes, t, classes[t].transitions[i])
  BY DEF ClassesAgree, StepGood, get_class

Record(list, k, s) == [list EXCEPT ![k].transitions = Append(@, s)]

\* Appending, in one fact.
LEMMA AppendFacts ==
  ASSUME NEW S, NEW seq \in Seq(S), NEW e \in S
  PROVE  /\ Append(seq, e) \in Seq(S) /\ Len(Append(seq, e)) = Len(seq) + 1
         /\ DOMAIN Append(seq, e) = 1 .. Len(seq) + 1 /\ Append(seq, e)[Len(seq) + 1] = e
         /\ \A i \in DOMAIN seq : Append(seq, e)[i] = seq[i]
  BY AppendProperties

\* Recording a transition in class k changes nothing else of the list.
LEMMA RecordStep ==
  ASSUME NEW list \in Seq(ClassType), NEW k \in DOMAIN list, NEW s \in Transitions
  PROVE  /\ Record(list, k, s) \in Seq(ClassType) /\ Len(Record(list, k, s)) = Len(list)
         /\ \A t \in DOMAIN list :
               /\ Record(list, k, s)[t].offsets = list[t].offsets
               /\ Record(list, k, s)[t].size = list[t].size
               /\ t # k => Record(list, k, s)[t].transitions = list[t].transitions
         /\ Record(list, k, s)[k].transitions = Append(list[k].transitions, s)
  <1> DEFINE d == [list[k] EXCEPT !.transitions = Append(@, s)]
  <1>0. list[k] \in ClassType
    OBVIOUS
  <1>1. list[k].transitions \in Seq(Transitions)
    BY <1>0 DEF ClassType
  <1>2. Append(list[k].transitions, s) \in Seq(Transitions)
    BY <1>1
  <1>3. /\ d \in ClassType /\ d.offsets = list[k].offsets /\ d.size = list[k].size
        /\ d.transitions = Append(list[k].transitions, s)
    BY <1>0, <1>2 DEF ClassType
  <1>4. Record(list, k, s) = [list EXCEPT ![k] = d]
    BY DEF Record
  <1> HIDE DEF d
  <1>5. k \in 1 .. Len(list) /\ DOMAIN list = 1 .. Len(list)
    OBVIOUS
  <1>6. /\ [list EXCEPT ![k] = d] \in Seq(ClassType) /\ Len([list EXCEPT ![k] = d]) = Len(list)
        /\ \A t \in 1 .. Len(list) : [list EXCEPT ![k] = d][t] = IF t = k THEN d ELSE list[t]
    BY <1>3, <1>5, ExceptSeq
  <1> QED BY <1>3, <1>4, <1>5, <1>6

\* A transition leaves the fields of every class alone and leads to a class with
\* the fields of the old one and the new field; known transitions stay.
LEMMA TransitionGood ==
  ASSUME classes \in Seq(ClassType), TagInv, ClassesAgree,
         NEW tag \in Nat, tag + 1 \in DOMAIN classes, NEW name \in Name,
         lookup(get_class(tag), name) = -1,
         Len(classes) < TagMod \/ Named(get_class(tag).transitions, name) # {},
         transition(tag, name)
  PROVE  /\ classes' \in Seq(ClassType) /\ TagInv' /\ ClassesAgree'
         /\ \A t \in DOMAIN classes :
               /\ t \in DOMAIN classes'
               /\ classes'[t].offsets = classes[t].offsets
               /\ classes'[t].size = classes[t].size
         /\ TransitionTag(tag, name) \in Nat
         /\ TransitionTag(tag, name) + 1 \in DOMAIN classes'
         /\ Extends(classes'[TransitionTag(tag, name) + 1], classes[tag + 1], name)
  <1> DEFINE k == tag + 1
             c == classes[k]
             known == c.transitions
             len == Len(classes)
  <1>0. k = tag + 1 /\ c = classes[k] /\ known = c.transitions /\ len = Len(classes)
    OBVIOUS
  <1>1. /\ len \in Nat /\ DOMAIN classes = 1 .. len /\ k \in 1 .. len /\ c \in ClassType /\ get_class(tag) = c
        /\ \A t \in 1 .. len : classes[t] \in ClassType
    BY DEF get_class
  <1> HIDE DEF k, c, known, len
  <1>2. GoodClass(c) /\ \A i \in DOMAIN known : StepGood(classes, k, known[i])
    BY <1>0, <1>1, AgreeDef
  <1>3. known \in Seq(Transitions) /\ c.offsets \in Seq(Offsets) /\ c.size \in Nat /\ c.size = Len(c.offsets)
    BY <1>0, <1>1, <1>2 DEF ClassType, GoodClass
  <1>4. CASE Named(known, name) # {}
    <2>1. UNCHANGED classes
      BY <1>0, <1>1, <1>4 DEF transition
    <2>2. PICK i \in DOMAIN known : known[i].name = name
      BY <1>4 DEF Named
    <2>3. First(known, name) = known[i]
      <3>1. Once(known) /\ DOMAIN known \subseteq Nat
        BY <1>0, <1>2, <1>3 DEF GoodClass
      <3> QED BY <2>2, <3>1, FirstOnce
    <2>4. TransitionTag(tag, name) = known[i].tag
      BY <1>0, <1>1, <1>4, <2>3 DEF TransitionTag
    <2>5. known[i].tag \in Nat
      <3>1. known[i] \in Transitions
        BY <1>3, <2>2
      <3> QED BY <3>1 DEF Transitions
    <2>6. known[i].tag + 1 \in k + 1 .. len /\ classes[known[i].tag + 1].offsets =
             Append(c.offsets, [name |-> name, index |-> c.size])
      BY <1>0, <1>2, <2>2 DEF StepGood
    <2>7. classes[known[i].tag + 1].size = c.size + 1
      <3>1. known[i].tag + 1 \in DOMAIN classes
        BY <1>1, <2>5, <2>6
      <3>2. classes[known[i].tag + 1].size = Len(classes[known[i].tag + 1].offsets)
        BY <3>1, AgreeDef DEF GoodClass
      <3>3. [name |-> name, index |-> c.size] \in Offsets
        BY <1>3 DEF Offsets
      <3> QED BY <1>3, <2>6, <3>2, <3>3, AppendFacts
    <2>8. TagInv' /\ ClassesAgree'
      BY <2>1 DEF TagInv, ClassesAgree, get_class
    <2>9. Extends(classes[known[i].tag + 1], c, name)
      BY <2>6, <2>7 DEF Extends
    <2>10. known[i].tag + 1 \in DOMAIN classes
      BY <1>1, <2>5, <2>6
    <2> QED BY <1>0, <2>1, <2>4, <2>5, <2>8, <2>9, <2>10
  <1>5. CASE Named(known, name) = {}
    <2> DEFINE step == [name |-> name, tag |-> len]
               b == branch(c, name)
               old == Record(classes, k, step)
    <2>1. len < TagMod /\ NextTag = len
      BY <1>0, <1>1, <1>5, TagFits
    <2>2. classes' = Append(old, b) /\ TransitionTag(tag, name) = len
      BY <1>0, <1>1, <1>5, <2>1 DEF transition, TransitionTag, Record
    <2>3. step \in Transitions /\ step.name = name /\ step.tag = len
      BY <1>1 DEF Transitions
    <2> HIDE DEF step
    <2>4. /\ b \in ClassType /\ GoodClass(b) /\ b.transitions = <<>> /\ Extends(b, c, name)
      BY <1>1, <1>2, BranchGood DEF b
    <2> HIDE DEF b
    <2>5. /\ old \in Seq(ClassType) /\ Len(old) = len
          /\ \A t \in 1 .. len : /\ old[t].offsets = classes[t].offsets /\ old[t].size = classes[t].size
                                 /\ t # k => old[t].transitions = classes[t].transitions
          /\ old[k].transitions = Append(known, step)
      BY <1>0, <1>1, <2>3, RecordStep
    <2> HIDE DEF old
    <2>6. /\ classes' \in Seq(ClassType) /\ Len(classes') = len + 1 /\ DOMAIN classes' = 1 .. len + 1
          /\ classes'[len + 1] = b /\ \A t \in 1 .. len : classes'[t] = old[t]
      <3>1. DOMAIN old = 1 .. len
        BY <2>5
      <3>2. /\ Append(old, b) \in Seq(ClassType) /\ Len(Append(old, b)) = len + 1
            /\ DOMAIN Append(old, b) = 1 .. len + 1 /\ Append(old, b)[len + 1] = b
            /\ \A t \in DOMAIN old : Append(old, b)[t] = old[t]
        BY <2>4, <2>5, AppendFacts
      <3> QED BY <2>2, <3>1, <3>2
    <2>7. TagInv'
      <3>1. 1 \in 1 .. len /\ classes'[1].offsets = classes[1].offsets
        BY <1>0, <1>1, <2>5, <2>6
      <3>2. Len(classes') \in 1 .. TagMod
        BY <1>1, <2>1, <2>6, TagModAssumption
      <3> QED BY <3>1, <3>2 DEF TagInv
    <2>8. ASSUME NEW t \in 1 .. len PROVE GoodClass(classes'[t])
      <3>1. GoodClass(classes[t])
        BY <1>1, AgreeDef
      <3>2. CASE t # k
        BY <2>5, <2>6, <3>1, <3>2 DEF GoodClass
      <3>3. CASE t = k
        <4>1. Once(Append(known, step))
          BY <1>0, <1>2, <1>3, <1>5, <2>3, OnceAppend DEF GoodClass
        <4> QED BY <2>5, <2>6, <3>1, <3>3, <4>1 DEF GoodClass
      <3> QED BY <3>2, <3>3
    <2>9. ASSUME NEW t \in 1 .. len, NEW i \in DOMAIN classes[t].transitions
          PROVE  StepGood(classes', t, classes[t].transitions[i])
      <3> DEFINE s == classes[t].transitions[i]
      <3>1. s.tag \in Nat
        <4>1. classes[t].transitions \in Seq(Transitions)
          BY <1>1, <2>9 DEF ClassType
        <4>2. s \in Transitions
          BY <4>1, <2>9
        <4> QED BY <4>2 DEF Transitions
      <3>2. StepGood(classes, t, s)
        BY <1>1, <2>9, AgreeDef
      <3> HIDE DEF s
      <3>3. s.tag + 1 \in 1 .. len /\ s.tag + 1 \in t + 1 .. len + 1
        BY <1>0, <1>1, <2>9, <3>1, <3>2 DEF StepGood
      <3>4. StepGood(classes', t, s)
        BY <2>5, <2>6, <3>2, <3>3 DEF StepGood
      <3> QED BY <3>4 DEF s
    <2>10. ASSUME NEW t \in 1 .. len + 1, NEW i \in DOMAIN classes'[t].transitions
           PROVE  StepGood(classes', t, classes'[t].transitions[i])
      <3>1. CASE t = len + 1
        BY <2>4, <2>6, <2>10, <3>1
      <3>2. CASE t \in 1 .. len /\ t # k
        <4>1. classes'[t].transitions = classes[t].transitions
          BY <2>5, <2>6, <3>2
        <4> QED BY <2>9, <2>10, <3>2, <4>1
      <3>3. CASE t = k
        <4>1. /\ classes'[k].transitions = Append(known, step)
              /\ DOMAIN Append(known, step) = 1 .. Len(known) + 1
              /\ Append(known, step)[Len(known) + 1] = step
              /\ \A j \in DOMAIN known : Append(known, step)[j] = known[j]
              /\ Len(known) \in Nat /\ DOMAIN known = 1 .. Len(known)
          <5>1. classes'[k].transitions = Append(known, step)
            BY <1>1, <2>5, <2>6
          <5>2. /\ DOMAIN Append(known, step) = 1 .. Len(known) + 1
                /\ Append(known, step)[Len(known) + 1] = step
                /\ \A j \in DOMAIN known : Append(known, step)[j] = known[j]
            BY <1>3, <2>3, AppendFacts
          <5>3. Len(known) \in Nat /\ DOMAIN known = 1 .. Len(known)
            BY <1>3
          <5> QED BY <5>1, <5>2, <5>3
        <4>2. CASE i \in DOMAIN known
          <5>1. classes'[k].transitions[i] = known[i] /\ known = classes[k].transitions /\ k \in 1 .. len
            BY <1>0, <1>1, <4>1, <4>2
          <5>2. StepGood(classes', k, known[i])
            BY <2>9, <4>2, <5>1
          <5> QED BY <3>3, <5>1, <5>2
        <4>3. CASE i = Len(known) + 1
          <5>1. classes'[k].transitions[i] = step
            BY <4>1, <4>3
          <5>2. classes'[k].offsets = c.offsets /\ classes'[k].size = c.size
            BY <1>0, <1>1, <2>5, <2>6
          <5>3. step.tag + 1 \in k + 1 .. len + 1 /\ classes'[step.tag + 1] = b
            BY <1>1, <2>3, <2>6
          <5>4. StepGood(classes', k, step)
            BY <2>3, <2>4, <2>6, <5>2, <5>3 DEF Extends, StepGood
          <5> QED BY <3>3, <5>1, <5>4
        <4> QED BY <2>10, <3>3, <4>1, <4>2, <4>3
      <3> QED BY <1>1, <3>1, <3>2, <3>3
    <2>11. ClassesAgree'
      <3>1. \A t \in DOMAIN classes' :
               /\ GoodClass(classes'[t])
               /\ \A i \in DOMAIN classes'[t].transitions : StepGood(classes', t, classes'[t].transitions[i])
        <4>1. GoodClass(classes'[len + 1])
          BY <2>4, <2>6
        <4> QED BY <1>1, <2>6, <2>8, <2>10, <4>1
      <3> QED BY <3>1 DEF ClassesAgree, StepGood, get_class
    <2>12. \A t \in DOMAIN classes : t \in DOMAIN classes' /\ classes'[t].offsets = classes[t].offsets /\ classes'[t].size = classes[t].size
      BY <1>1, <2>5, <2>6
    <2>13. TransitionTag(tag, name) \in Nat /\ TransitionTag(tag, name) + 1 \in DOMAIN classes' /\ classes'[TransitionTag(tag, name) + 1] = b
      BY <1>1, <2>2, <2>6
    <2> QED BY <1>0, <2>4, <2>6, <2>7, <2>11, <2>12, <2>13
  <1> QED BY <1>4, <1>5

-----------------------------------------------------------------------------
(* Steps of the objects.                                                    *)

\* What a site may do to its cache: keep it, or fill in the right offset.
CacheStep ==
    /\ cache' \in [Sites -> Nat \cup {-1}]
    /\ \A s \in Sites : cache'[s] # cache[s] =>
          /\ SiteUse[s].obj \in Allocated
          /\ cache'[s] = lookup(class_of(SiteUse[s].obj), SiteUse[s].name)

\* The classes keep their fields.
ClassStep ==
    /\ classes' \in Seq(ClassType) /\ TagInv' /\ ClassesAgree'
    /\ \A t \in DOMAIN classes :
          /\ t \in DOMAIN classes'
          /\ classes'[t].offsets = classes[t].offsets
          /\ classes'[t].size = classes[t].size

\* Leaving the class list alone is such a step.
LEMMA SameClasses == ASSUME Inv, UNCHANGED classes PROVE ClassStep
  BY DEF Inv, TypeOK, TagInv, ClassesAgree, ClassStep, get_class

\* The types of an allocated object and of its class.
LEMMA ObjectFacts ==
  ASSUME Inv, NEW o \in Allocated
  PROVE  /\ objects[o] \in Data /\ objects[o].class \in Nat /\ objects[o].class + 1 \in DOMAIN classes
         /\ class_of(o) = classes[objects[o].class + 1]
         /\ class_of(o) \in ClassType /\ GoodClass(class_of(o))
         /\ objects[o].values \in Seq(Held) /\ Len(objects[o].values) = class_of(o).size
         /\ class_of(o).size \in Nat
  <1>1. objects[o] \in Data
    BY DEF Inv, TypeOK, Allocated
  <1>2. objects[o].class \in Nat
    BY <1>1 DEF Data
  <1>3. /\ objects[o].class + 1 \in DOMAIN classes
        /\ objects[o].values \in Seq(Held) /\ Len(objects[o].values) = class_of(o).size
    BY DEF Inv, ObjInv
  <1>4. class_of(o) = classes[objects[o].class + 1]
    BY DEF class_of, get_class
  <1>5. classes[objects[o].class + 1] \in ClassType
    BY <1>3 DEF Inv, TypeOK
  <1>6. GoodClass(class_of(o))
    BY <1>3, <1>4, AgreeDef DEF Inv
  <1> QED BY <1>1, <1>2, <1>3, <1>4, <1>5, <1>6 DEF ClassType

\* A step that gives o the data d, of a class that keeps the fields o had.
LEMMA ObjectStep ==
  ASSUME Inv, pc = "run", pc' = "run", walk' = walk, result' = result, ClassStep, CacheStep,
         NEW o \in Obj, NEW d \in Data, objects' = [objects EXCEPT ![o] = d],
         d.class + 1 \in DOMAIN classes', Len(d.values) = classes'[d.class + 1].size,
         d.values \in Seq(Held \cup {o}),
         o \in Allocated => \A n : lookup(class_of(o), n) # -1 =>
            lookup(classes'[d.class + 1], n) = lookup(class_of(o), n)
  PROVE  Inv'
  <1>1. d # None /\ objects \in [Obj -> Data \cup {None}]
    BY ObjectsAssumption DEF Inv, TypeOK
  <1>2. objects' \in [Obj -> Data \cup {None}] /\ objects'[o] = d /\ \A p \in Obj : p # o => objects'[p] = objects[p]
    BY <1>1
  <1>3. Allocated' = Allocated \cup {o}
    BY <1>1, <1>2 DEF Allocated
  <1>4. Held' = Held \cup {o}
    BY <1>3 DEF Held
  <1>5. TypeOK'
    BY <1>2 DEF Inv, TypeOK, ClassStep, CacheStep
  <1>6. ASSUME NEW p \in Allocated, p # o
        PROVE  class_of(p)'.offsets = class_of(p).offsets /\ class_of(p)'.size = class_of(p).size
               /\ objects'[p] = objects[p] /\ objects[p].class + 1 \in DOMAIN classes'
    <2>1. objects'[p] = objects[p]
      BY <1>2, <1>6 DEF Allocated
    <2> QED BY <2>1, <1>6, ObjectFacts DEF class_of, get_class, ClassStep
  <1>7. class_of(o)' = classes'[d.class + 1]
    BY <1>2 DEF class_of, get_class
  <1>8. ObjInv'
    <2>1. ASSUME NEW p \in Allocated, p # o
          PROVE  /\ (objects[p].class + 1 \in DOMAIN classes)'
                 /\ (Len(objects[p].values) = class_of(p).size)'
                 /\ objects'[p].values \in Seq(Held')
      <3>1. objects[p].values \in Seq(Held \cup {o})
        BY <2>1, ObjectFacts
      <3> QED BY <1>4, <1>6, <2>1, <3>1, ObjectFacts
    <2> QED BY <1>2, <1>3, <1>4, <1>7, <2>1 DEF ObjInv
  <1>9. ASSUME NEW s \in Sites, cache'[s] # -1
        PROVE  /\ SiteUse[s].obj \in Allocated'
               /\ cache'[s] = lookup(class_of(SiteUse[s].obj)', SiteUse[s].name)
    <2> DEFINE p == SiteUse[s].obj
    <2>1. p \in Allocated /\ cache'[s] = lookup(class_of(p), SiteUse[s].name)
      BY <1>9 DEF Inv, CacheInv, CacheStep
    <2>2. CASE p = o
      BY <1>3, <1>7, <1>9, <2>1, <2>2
    <2>3. CASE p # o
      <3>1. lookup(class_of(p)', SiteUse[s].name) = lookup(class_of(p), SiteUse[s].name)
        BY <1>6, <2>1, <2>3, LookupSame
      <3> QED BY <1>3, <2>1, <3>1
    <2> QED BY <2>2, <2>3
  <1>10. CacheInv'
    BY <1>9 DEF CacheInv
  <1>11. WalkInv'
    BY DEF WalkInv
  <1> QED BY <1>5, <1>8, <1>10, <1>11 DEF Inv, ClassStep

\* Whether or not the cache is used, lookup answers for the object at hand.
LEMMA LookupRight ==
  ASSUME Inv, NEW o \in Allocated, NEW name, NEW site \in Sites \cup {None},
         site # None => o = SiteUse[site].obj /\ name = SiteUse[site].name
  PROVE  Lookup(o, name, site) = lookup(class_of(o), name)
  <1>1. CASE site = None
    BY <1>1 DEF Lookup, Cached
  <1>2. CASE site # None
    BY <1>2 DEF Lookup, Cached, Inv, CacheInv
  <1> QED BY <1>1, <1>2

\* ... and the offset that is cached is the right one.
LEMMA FillRight ==
  ASSUME Inv, NEW o \in Allocated, NEW name, NEW site \in Sites \cup {None},
         site # None => o = SiteUse[site].obj /\ name = SiteUse[site].name,
         FillCache(site, lookup(class_of(o), name))
  PROVE  CacheStep
  <1>1. lookup(class_of(o), name) \in Nat \cup {-1} /\ cache \in [Sites -> Nat \cup {-1}]
    BY ObjectFacts, LookupGood DEF Inv, TypeOK
  <1>2. CASE site = None \/ lookup(class_of(o), name) = -1
    BY <1>1, <1>2 DEF FillCache, CacheStep
  <1>3. CASE site # None /\ lookup(class_of(o), name) # -1
    <2>1. cache' = [cache EXCEPT ![site] = lookup(class_of(o), name)]
      BY <1>3 DEF FillCache
    <2> QED BY <1>1, <1>3, <2>1 DEF CacheStep
  <1> QED BY <1>2, <1>3

-----------------------------------------------------------------------------
(* The actions.                                                             *)

Limit == MaxClasses <= TagMod

\* Without a site's step there is nothing to say about the caches.
LEMMA SameCache == ASSUME Inv, UNCHANGED cache PROVE CacheStep
  BY DEF Inv, TypeOK, CacheStep

\* object_empty: the data of class 0 have no cells.
LEMMA EmptyInv == ASSUME Inv, NEW o \in Obj, object_empty(o) PROVE Inv'
  <1>1. /\ pc = "run" /\ pc' = "run" /\ walk' = walk /\ result' = result
        /\ objects[o] = None /\ objects' = [objects EXCEPT ![o] = EmptyData]
        /\ UNCHANGED <<classes, cache>>
    BY DEF object_empty
  <1>2. ClassStep /\ CacheStep
    BY <1>1, SameClasses, SameCache
  <1>3. EmptyData \in Data /\ EmptyData.class = 0 /\ EmptyData.values = <<>>
    BY DEF EmptyData, Data
  <1>4. 1 \in DOMAIN classes /\ classes[1].size = 0
    BY AgreeDef DEF Inv, TypeOK, TagInv, GoodClass
  <1>5. o \notin Allocated
    BY <1>1 DEF Allocated
  <1>6. EmptyData.values \in Seq(Held \cup {o}) /\ Len(EmptyData.values) = 0
    BY <1>3
  <1>7. EmptyData.class + 1 \in DOMAIN classes' /\ Len(EmptyData.values) = classes'[EmptyData.class + 1].size
    BY <1>1, <1>3, <1>4, <1>6
  <1> HIDE DEF EmptyData
  <1> QED BY <1>1, <1>2, <1>3, <1>5, <1>6, <1>7, ObjectStep

\* The data that follow a transition fit the class it leads to.
LEMMA GrownFits ==
  ASSUME NEW old \in Data, old.values \in Seq(Held), NEW v \in Held, NEW tag \in Nat
  PROVE  /\ Grown(old, tag, Len(old.values) + 1, v) \in Data
         /\ Grown(old, tag, Len(old.values) + 1, v).class = tag
         /\ Grown(old, tag, Len(old.values) + 1, v).values \in Seq(Held)
         /\ Len(Grown(old, tag, Len(old.values) + 1, v).values) = Len(old.values) + 1
  <1> DEFINE n == Len(old.values)
             vals == [i \in 1 .. n + 1 |-> IF i \in DOMAIN old.values THEN old.values[i]
                                          ELSE IF i = n + 1 THEN v ELSE None]
  <1>1. n \in Nat /\ DOMAIN old.values = 1 .. n
    OBVIOUS
  <1>2. vals \in [1 .. n + 1 -> Held]
    <2>1. \A i \in 1 .. n + 1 : (IF i \in DOMAIN old.values THEN old.values[i]
                                ELSE IF i = n + 1 THEN v ELSE None) \in Held
      BY <1>1
    <2> QED BY <2>1
  <1> HIDE DEF vals
  <1>3. vals \in [1 .. n + 1 -> Value \cup {None}]
    <2>1. Held \subseteq Value \cup {None}
      BY DEF Held, Allocated, Value
    <2> QED BY <1>2, <2>1
  <1>4. vals \in Seq(Held) /\ vals \in Seq(Value \cup {None}) /\ Len(vals) = n + 1
    BY <1>1, <1>2, <1>3
  <1>5. Grown(old, tag, n + 1, v) = [class |-> tag, values |-> vals]
    BY DEF Grown, vals
  <1> QED BY <1>4, <1>5 DEF Data

\* o moves from the data `old` to data of the class `tag`, which has the field
\* `name` for the value v.
Moved(o, old, name, v, tag) ==
    /\ tag + 1 \in DOMAIN classes'
    /\ classes'[tag + 1] \in ClassType /\ GoodClass(classes'[tag + 1])
    /\ Extends(classes'[tag + 1], get_class(old.class), name)
    /\ objects' = [objects EXCEPT ![o] = Grown(old, tag, Len(old.values) + 1, v)]

\* insert after a transition: the object's data are replaced by data of the class
\* with the new field.
LEMMA TransitionedEffect ==
  ASSUME Inv, Limit, pc = "run",
         NEW o \in Obj, NEW old \in Data, NEW name \in Name, NEW v \in Held,
         old.class + 1 \in DOMAIN classes, old.values \in Seq(Held),
         Len(old.values) = get_class(old.class).size,
         lookup(get_class(old.class), name) = -1,
         Room(old.class, name),
         transition(old.class, name),
         Transitioned(o, old, TransitionTag(old.class, name), v)
  PROVE  /\ ClassStep /\ pc' = "run"
         /\ \E tag \in Nat : Moved(o, old, name, v, tag)
  <1> DEFINE tag == TransitionTag(old.class, name)
             c == get_class(old.class)
  <1>1. old.class \in Nat /\ c = classes[old.class + 1] /\ c \in ClassType /\ GoodClass(c)
    BY AgreeDef DEF Data, get_class, Inv, TypeOK
  <1>2. Len(classes) < TagMod \/ Named(c.transitions, name) # {}
    BY ObjectsAssumption, TagModAssumption DEF Room, Limit, Inv, TypeOK
  <1>3. /\ ClassStep /\ tag \in Nat /\ tag + 1 \in DOMAIN classes' /\ Extends(classes'[tag + 1], c, name)
    BY <1>1, <1>2, TransitionGood DEF Inv, TypeOK, ClassStep
  <1>4. classes'[tag + 1].size = Len(old.values) + 1
    BY <1>1, <1>3 DEF Extends
  <1>5. objects' = [objects EXCEPT ![o] = Grown(old, tag, Len(old.values) + 1, v)] /\ pc' = "run"
    BY <1>1, <1>4 DEF Transitioned, ClassType
  <1> HIDE DEF tag
  <1>6. classes'[tag + 1] \in ClassType /\ GoodClass(classes'[tag + 1])
    <2>1. \A t \in DOMAIN classes' : GoodClass(classes'[t])
      BY <1>3 DEF ClassStep, ClassesAgree, GoodClass
    <2> QED BY <1>3, <2>1 DEF ClassStep
  <1> QED BY <1>3, <1>5, <1>6 DEF Moved

\* ... which keeps the invariant.
LEMMA TransitionedInv ==
  ASSUME Inv, Limit, pc = "run", UNCHANGED <<cache, walk, result>>,
         NEW o \in Obj, NEW old \in Data, NEW name \in Name, NEW v \in Held,
         old.class + 1 \in DOMAIN classes, old.values \in Seq(Held),
         Len(old.values) = get_class(old.class).size,
         o \in Allocated => old = objects[o],
         lookup(get_class(old.class), name) = -1,
         Room(old.class, name),
         transition(old.class, name),
         Transitioned(o, old, TransitionTag(old.class, name), v)
  PROVE  Inv'
  <1> DEFINE c == get_class(old.class)
  <1>1. old.class \in Nat /\ c = classes[old.class + 1] /\ c \in ClassType /\ GoodClass(c)
    BY AgreeDef DEF Data, get_class, Inv, TypeOK
  <1>2. ClassStep /\ pc' = "run"
    BY TransitionedEffect
  <1>3. PICK tag \in Nat : Moved(o, old, name, v, tag)
    BY TransitionedEffect
  <1>4. /\ tag + 1 \in DOMAIN classes'
        /\ classes'[tag + 1] \in ClassType /\ GoodClass(classes'[tag + 1])
        /\ Extends(classes'[tag + 1], c, name)
        /\ objects' = [objects EXCEPT ![o] = Grown(old, tag, Len(old.values) + 1, v)]
    BY <1>3 DEF Moved
  <1> DEFINE d == Grown(old, tag, Len(old.values) + 1, v)
  <1>5. classes'[tag + 1].size = Len(old.values) + 1
    BY <1>1, <1>4 DEF Extends
  <1>6. d \in Data /\ d.class = tag /\ d.values \in Seq(Held) /\ Len(d.values) = Len(old.values) + 1
    BY <1>4, GrownFits
  <1>7. ASSUME o \in Allocated, NEW n, lookup(class_of(o), n) # -1
        PROVE  lookup(classes'[tag + 1], n) = lookup(class_of(o), n)
    <2>1. class_of(o) = c
      BY <1>7 DEF class_of
    <2>2. [name |-> name, index |-> c.size] \in Offsets
      BY <1>1 DEF Offsets, ClassType
    <2> QED BY <1>1, <1>4, <1>7, <2>1, <2>2, LookupGrows DEF Extends
  <1>8. CacheStep
    BY SameCache
  <1>9. d.values \in Seq(Held \cup {o}) /\ objects' = [objects EXCEPT ![o] = d]
    BY <1>4, <1>6
  <1> HIDE DEF d
  <1> QED BY <1>2, <1>4, <1>5, <1>6, <1>7, <1>8, <1>9, ObjectStep

\* object_create.
LEMMA CreateInv ==
  ASSUME Inv, Limit, NEW o \in Obj, NEW p \in Allocated, Room(0, Proto), object_create(o, p)
  PROVE  Inv'
  <1>1. EmptyData \in Data /\ EmptyData.class = 0 /\ EmptyData.values = <<>>
    BY DEF EmptyData, Data
  <1>2. 1 \in DOMAIN classes /\ classes[1].size = 0 /\ classes[1].offsets = <<>>
    BY AgreeDef DEF Inv, TypeOK, TagInv, GoodClass
  <1>3. lookup(get_class(0), Proto) = -1 /\ get_class(0).size = 0
    BY <1>2 DEF lookup, Named, get_class
  <1>4. o \notin Allocated /\ Proto \in Name /\ p \in Held
    BY ObjectsAssumption DEF object_create, Allocated, Held
  <1>5. EmptyData.values \in Seq(Held) /\ Len(EmptyData.values) = 0
    BY <1>1
  <1>6. /\ pc = "run" /\ UNCHANGED <<cache, walk, result>>
        /\ transition(EmptyData.class, Proto)
        /\ Transitioned(o, EmptyData, TransitionTag(EmptyData.class, Proto), p)
    BY <1>1 DEF object_create
  <1>7. /\ EmptyData.class + 1 \in DOMAIN classes /\ Room(EmptyData.class, Proto)
        /\ lookup(get_class(EmptyData.class), Proto) = -1
        /\ Len(EmptyData.values) = get_class(EmptyData.class).size
    BY <1>1, <1>2, <1>3, <1>5
  <1> HIDE DEF EmptyData
  <1> QED BY <1>1, <1>4, <1>5, <1>6, <1>7, TransitionedInv

\* object_set, with the runtime's cache or a site's.
LEMMA SetInv ==
  ASSUME Inv, Limit, NEW o \in Allocated, NEW name \in Name, NEW site \in Sites \cup {None},
         site # None => o = SiteUse[site].obj /\ name = SiteUse[site].name,
         Set(o, name, site)
  PROVE  Inv'
  <1> DEFINE off == lookup(class_of(o), name)
             data == objects[o]
  <1>1. PICK v \in Held : object_set(o, name, v, site)
    BY DEF Set
  <1>2. Lookup(o, name, site) = off /\ off \in -1 .. class_of(o).size - 1
    BY LookupRight, ObjectFacts, LookupGood
  <1>3. pc = "run" /\ insert(o, name, v, site) /\ UNCHANGED <<walk, result>> /\ o \in Obj
    BY <1>1 DEF object_set, Allocated
  <1>4. CASE off # -1
    <2> DEFINE d == [data EXCEPT !.values[off + 1] = v]
    <2>1. /\ objects' = [objects EXCEPT ![o].values[off + 1] = v]
          /\ FillCache(site, off) /\ UNCHANGED <<classes, pc>>
      BY <1>2, <1>3, <1>4, ObjectFacts DEF insert
    <2>2. objects' = [objects EXCEPT ![o] = d]
      BY <2>1
    <2>3. data \in Data /\ off + 1 \in 1 .. Len(data.values) /\ data.values \in Seq(Held) /\ DOMAIN data.values = 1 .. Len(data.values)
      BY <1>2, <1>4, ObjectFacts
    <2>4. [data.values EXCEPT ![off + 1] = v] \in Seq(Held) /\ Len([data.values EXCEPT ![off + 1] = v]) = Len(data.values)
      BY <2>3, ExceptSeq
    <2>5. d.class = data.class /\ d.values = [data.values EXCEPT ![off + 1] = v]
      BY <2>3 DEF Data
    <2>6. [data.values EXCEPT ![off + 1] = v] \in Seq(Value \cup {None}) /\ d.values \in Seq(Held \cup {o})
      <3>1. Held \subseteq Value
        BY DEF Held, Allocated, Value
      <3> QED BY <2>4, <2>5, <3>1
    <2>7. d \in Data
      BY <2>3, <2>6 DEF Data
    <2> HIDE DEF d
    <2>8. ClassStep /\ CacheStep
      BY <2>1, SameClasses, FillRight
    <2>9. d.class + 1 \in DOMAIN classes' /\ Len(d.values) = classes'[d.class + 1].size /\ classes'[d.class + 1] = class_of(o)
      BY <2>1, <2>4, <2>5, ObjectFacts
    <2> QED BY <1>3, <2>1, <2>2, <2>6, <2>7, <2>8, <2>9, ObjectStep
  <1>5. CASE off = -1
    <2>1. /\ transition(data.class, name)
          /\ Transitioned(o, data, TransitionTag(data.class, name), v)
          /\ UNCHANGED cache
      BY <1>2, <1>3, <1>5 DEF insert
    <2>2. Room(data.class, name)
      BY <1>2, <1>5 DEF Set
    <2>3. get_class(data.class) = class_of(o)
      BY DEF class_of
    <2> QED BY <1>1, <1>3, <1>5, <2>1, <2>2, <2>3, ObjectFacts, TransitionedInv
  <1> QED BY <1>4, <1>5

\* Steps that leave the objects alone.
LEMMA ReadInv ==
  ASSUME Inv, UNCHANGED <<classes, objects>>, CacheStep, pc' \in {"run", "get"},
         walk' \in Walks \cup {None}, result' \in Value \cup {Undefined}, WalkInv'
  PROVE  Inv'
  <1>1. Allocated' = Allocated /\ Held' = Held /\ \A o : class_of(o)' = class_of(o)
    BY DEF Allocated, Held, class_of, get_class
  <1>2. TypeOK'
    BY DEF Inv, TypeOK, CacheStep
  <1>3. TagInv' /\ ClassesAgree'
    BY SameClasses DEF ClassStep
  <1>4. ObjInv'
    BY <1>1 DEF Inv, ObjInv
  <1>5. CacheInv'
    BY <1>1 DEF Inv, CacheInv, CacheStep
  <1> QED BY <1>2, <1>3, <1>4, <1>5 DEF Inv

\* object_get enters the walk at its object.
LEMMA AskInv ==
  ASSUME Inv, NEW o \in Allocated, NEW name \in Name, NEW site \in Sites \cup {None},
         site # None => o = SiteUse[site].obj /\ name = SiteUse[site].name,
         object_get(o, name, site)
  PROVE  Inv'
  <1>1. /\ UNCHANGED <<classes, objects, cache, result>> /\ pc' = "get"
        /\ walk' = [start |-> o, at |-> o, name |-> name, site |-> site]
    BY DEF object_get
  <1>2. walk' \in Walks /\ walk'.at = o /\ walk'.site = site /\ walk'.name = name /\ o \in Obj
    BY <1>1 DEF Walks, Allocated
  <1>3. WalkInv'
    BY <1>1, <1>2 DEF WalkInv, Allocated
  <1> QED BY <1>1, <1>2, <1>3, SameCache, ReadInv DEF Inv, TypeOK

\* Where the walk stands, lookup with the site's cache is lookup.
LEMMA WalkFacts ==
  ASSUME Inv, pc = "get"
  PROVE  /\ walk \in Walks /\ walk.at \in Allocated /\ walk.site \in Sites \cup {None}
         /\ walk.site # None => walk.at = SiteUse[walk.site].obj /\ walk.name = SiteUse[walk.site].name
         /\ Lookup(walk.at, walk.name, walk.site) = lookup(class_of(walk.at), walk.name)
  <1>1. /\ walk \in Walks /\ walk.at \in Allocated
        /\ walk.site # None => walk.at = SiteUse[walk.site].obj /\ walk.name = SiteUse[walk.site].name
    BY DEF Inv, WalkInv
  <1>2. walk.site \in Sites \cup {None}
    BY <1>1 DEF Walks
  <1> QED BY <1>1, <1>2, LookupRight

\* An own field is found inside the object and has a value.
LEMMA GetOwnInv == ASSUME Inv, GetOwn PROVE Inv'
  <1> DEFINE o == walk.at
             off == lookup(class_of(o), walk.name)
             v == objects[o].values[off + 1]
  <1>1. /\ pc = "get" /\ off # -1 /\ FillCache(walk.site, off) /\ UNCHANGED <<classes, objects>>
    BY WalkFacts DEF GetOwn
  <1>2. off \in 0 .. class_of(o).size - 1
    BY <1>1, WalkFacts, ObjectFacts, LookupGood
  <1>3. v \in Held
    BY <1>1, <1>2, WalkFacts, ObjectFacts
  <1>4. v \in Value /\ v # None
    BY <1>3, ObjectsAssumption DEF Held, Allocated, Value
  <1>5. off < class_of(o).size /\ ~(off >= class_of(o).size)
    BY <1>1, <1>2, WalkFacts, ObjectFacts
  <1>6. pc' = "run" /\ result' = v /\ walk' = None
    BY <1>1, <1>4, <1>5, WalkFacts DEF GetOwn, Return
  <1>7. CacheStep
    BY <1>1, WalkFacts, FillRight
  <1>8. WalkInv'
    BY <1>6 DEF WalkInv
  <1> QED BY <1>1, <1>4, <1>6, <1>7, <1>8, ReadInv

\* The prototype that is followed is an allocated object.
LEMMA GetProtoInv == ASSUME Inv, GetProto PROVE Inv'
  <1> DEFINE o == walk.at
             p == objects[o].values[ProtoOffset + 1]
  <1>1. /\ pc = "get" /\ UNCHANGED <<classes, objects, cache, pc, result>>
        /\ ProtoOffset # -1 /\ p \in Obj
        /\ walk' = [walk EXCEPT !.at = p, !.site = None]
    BY DEF GetProto, ProtoIsObject
  <1>2. ProtoOffset \in 0 .. class_of(o).size - 1
    BY <1>1, WalkFacts, ObjectFacts, LookupGood DEF ProtoOffset
  <1>3. p \in Held
    BY <1>1, <1>2, WalkFacts, ObjectFacts
  <1>4. p \in Allocated
    BY <1>1, <1>3, ObjectsAssumption DEF Held
  <1> HIDE DEF p
  <1>5. walk' \in Walks /\ walk'.at = p /\ walk'.site = None
    BY <1>1, WalkFacts DEF Walks
  <1>6. WalkInv'
    BY <1>1, <1>4, <1>5 DEF WalkInv, Allocated
  <1> QED BY <1>1, <1>5, <1>6, SameCache, ReadInv DEF Inv, TypeOK

\* A read that finds nothing returns undefined.
LEMMA GetMissingInv == ASSUME Inv, GetMissing PROVE Inv'
  <1> DEFINE p == objects[walk.at].values[ProtoOffset + 1]
  <1>a. ASSUME ProtoOffset # -1 PROVE p # None
    <2>1. pc = "get"
      BY DEF GetMissing
    <2>2. ProtoOffset \in 0 .. class_of(walk.at).size - 1
      BY <1>a, <2>1, WalkFacts, ObjectFacts, LookupGood DEF ProtoOffset
    <2>3. p \in Held
      BY <2>1, <2>2, WalkFacts, ObjectFacts
    <2> QED BY <2>3, ObjectsAssumption DEF Held, Allocated
  <1>1. UNCHANGED <<classes, objects, cache>> /\ pc' = "run" /\ result' = Undefined /\ walk' = None
    BY <1>a DEF GetMissing, Return
  <1>2. WalkInv'
    BY <1>1 DEF WalkInv
  <1> QED BY <1>1, <1>2, SameCache, ReadInv

-----------------------------------------------------------------------------
(* The theorems.                                                            *)

\* The invariant holds before the first object exists.
LEMMA InitInv == ASSUME Init PROVE Inv
  <1>1. /\ classes = <<ClassNew>> /\ objects = [o \in Obj |-> None] /\ cache = [s \in Sites |-> -1]
        /\ pc = "run" /\ walk = None /\ result = Undefined
    BY DEF Init, ClassListNew
  <1>2. ClassNew \in ClassType /\ ClassNew.offsets = <<>> /\ ClassNew.transitions = <<>> /\ ClassNew.size = 0
    BY DEF ClassNew, ClassType
  <1>3. GoodClass(ClassNew)
    BY <1>2 DEF GoodClass, Once
  <1> HIDE DEF ClassNew
  <1>4. classes \in Seq(ClassType) /\ DOMAIN classes = {1} /\ classes[1] = ClassNew /\ Len(classes) = 1
    BY <1>1, <1>2
  <1>5. TypeOK
    BY <1>1, <1>4 DEF TypeOK
  <1>6. TagInv
    BY <1>2, <1>4, TagModAssumption DEF TagInv
  <1>7. ClassesAgree
    BY <1>2, <1>3, <1>4, AgreeDef
  <1>8. Allocated = {}
    BY <1>1 DEF Allocated
  <1>9. ObjInv /\ CacheInv /\ WalkInv
    BY <1>1, <1>8 DEF ObjInv, CacheInv, WalkInv
  <1> QED BY <1>1, <1>5, <1>6, <1>7, <1>9 DEF Inv

\* Every step of a program whose sites see one object keeps the invariant.
LEMMA NextInv == ASSUME Inv, Limit, [MonoNext]_objects_vars PROVE Inv'
  <1>1. CASE Create
    BY <1>1, EmptyInv, CreateInv DEF Create
  <1>2. CASE RuntimeAccess
    <2>1. PICK o \in Allocated, name \in Name : Set(o, name, None) \/ object_get(o, name, None)
      BY <1>2 DEF RuntimeAccess
    <2> QED BY <2>1, SetInv, AskInv
  <1>3. CASE \E site \in Sites : SiteUse[site].obj \in Allocated /\ SiteAccess(site, SiteUse[site].obj)
    <2>1. PICK site \in Sites : SiteUse[site].obj \in Allocated /\ SiteAccess(site, SiteUse[site].obj)
      BY <1>3
    <2>2. SiteUse[site].name \in Name
      BY ObjectsAssumption
    <2> QED BY <2>1, <2>2, SetInv, AskInv DEF SiteAccess
  <1>4. CASE Get
    BY <1>4, GetOwnInv, GetProtoInv, GetMissingInv DEF Get
  <1>5. CASE UNCHANGED objects_vars
    <2>1. UNCHANGED <<classes, objects, cache, pc, walk, result>>
      BY <1>5 DEF objects_vars
    <2>2. WalkInv'
      BY <2>1 DEF Inv, WalkInv, Allocated
    <2> QED BY <2>1, <2>2, SameCache, ReadInv DEF Inv, TypeOK
  <1> QED BY <1>1, <1>2, <1>3, <1>4, <1>5 DEF MonoNext

\* The invariant holds for ever, for any number of objects, names and sites, if
\* the program makes no more classes than there are tags (65536).
THEOREM Invariance == ASSUME Limit PROVE MonoSpec => []Inv
  <1>1. Init => Inv
    BY InitInv
  <1>2. Inv /\ [MonoNext]_objects_vars => Inv'
    BY NextInv
  <1> QED BY <1>1, <1>2, PTL DEF MonoSpec

\* Type correctness of the object model.
THEOREM TypeCorrect == ASSUME Limit PROVE MonoSpec => []TypeOK
  <1>1. Inv => TypeOK
    BY DEF Inv
  <1> QED BY <1>1, Invariance, PTL

\* Hidden classes agree with each other: an offset means the same field for as
\* long as an object lives, whatever transitions it and others have taken.
THEOREM ClassesSafe == ASSUME Limit PROVE MonoSpec => []ClassesAgree
  <1>1. Inv => ClassesAgree
    BY DEF Inv
  <1> QED BY <1>1, Invariance, PTL

\* No read_at and no write_at leaves its object and no cell that get reads is
\* empty, although offsets come from caches that are not checked: neither the
\* assertions nor the expect can fail.
THEOREM AccessSafe == ASSUME Limit PROVE MonoSpec => []AccessesInClass
  <1>1. Inv => AccessesInClass
    BY DEF Inv, AccessesInClass
  <1> QED BY <1>1, Invariance, PTL
=============================================================================
