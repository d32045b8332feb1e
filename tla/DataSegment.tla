---------------------------- MODULE DataSegment ----------------------------
(***************************************************************************)
(* The data segment of a compiled program: the strings that intern.rs puts *)
(* there and, behind them, the inline caches that data_cache of            *)
(* translation.rs reserves.  The places that are taken so far are one      *)
(* after the other from 0; a place is [what, at, size].                    *)
(***************************************************************************)
EXTENDS Naturals, Sequences, SequencesExt

VARIABLE data

Length_(segment) == IF segment = <<>> THEN 0 ELSE Last(segment).at + Last(segment).size
Place(segment, what, size) ==
    Append(segment, [what |-> what, at |-> Length_(segment), size |-> size])

\* mutant: the padding of a string whose length is a multiple of 4 is not 0
InMemory_Wrong(len) == LET m == len + 8 IN m + ((m + 3) % 4)

\* tag, length, bytes and the zeros that keep the next place aligned
InMemory(len) == LET m == len + 8 IN m + (3 - ((m + 3) % 4))

\* intern_string; a string is a sequence of characters, and has a length
InternString(segment, str) ==
    IF \E i \in DOMAIN segment : segment[i].what = <<"string", str>> THEN segment
    ELSE Place(segment, <<"string", str>>, InMemory(Len(str)))

\* intern, for the strings of a program in the order in which they are visited
InternAll(texts, segment) ==
    FoldLeft(LAMBDA d, str : InternString(d, str), segment, texts)

\* what data_cache reserves for an object access
InlineCache == <<"cache", "inline">>

\* data_cache, for the object accesses of a program: four bytes for each
CacheAll(accesses, segment) ==
    FoldLeft(LAMBDA d, a : Place(d, InlineCache, 4), segment, accesses)

----------------------------------------------------------------------------
\* Interning and reserving caches, for any program with accesses like these,
\* any number of times.
DataNext(Accesses) ==
    \/ \E texts \in Seq(STRING) : data' = InternAll(texts, data)
    \/ \E accesses \in Seq(Accesses) : data' = CacheAll(accesses, data)

DataSpec(Accesses) == data = <<>> /\ [][DataNext(Accesses)]_data

(* Places in the data segment do not overlap, a string has one place, and   *)
(* all are aligned to four bytes, which the string lengths and the inline   *)
(* caches behind them rely on (intern.rs: "now we want to preserve          *)
(* alignment").                                                             *)
DataApart ==
    \A i \in DOMAIN data :
        /\ data[i].at % 4 = 0
        /\ \A j \in 1..(i - 1) :
              /\ data[j].at + data[j].size <= data[i].at
              /\ data[j].what = data[i].what => data[i].what[1] = "cache"
============================================================================
