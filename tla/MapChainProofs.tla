--------------------------- MODULE MapChainProofs ---------------------------
(***************************************************************************)
(* The maps of var.c implement the ordered maps a script sees, and an      *)
(* index, wherever its tombstones are, finds what the walk would: theorems *)
(* for any number of maps, keys and entries, any hash, any allocator and   *)
(* any sizes at which indexes are made.                                    *)
(***************************************************************************)
EXTENDS MapChain, Positions, FiniteSetTheorems, SequenceTheorems

Slot == Addr \cup {Null, Gone}
Index == UNION {[cap : {c}, n : Nat, dead : Nat, t : [0 .. c - 1 -> Slot]] : c \in Nat}
Entry == [k : Key \cup {Null}, s : Value \cup {Null}, tl : Addr \cup {Null}, ix : Index]

-----------------------------------------------------------------------------
(***************************************************************************)
(* One index                                                               *)
(***************************************************************************)

\* A probe for k finds a after j steps, none of them over an empty slot.
Reaches(x, k, a, j) ==
  /\ x.t[Probe(x, k, j)] = a
  /\ \A i \in 0 .. j - 1 : x.t[Probe(x, k, i)] # Null

\* The index x holds the entries of S, each once and within reach of its key,
\* and its counters are right and leave a slot empty.
Fits(x, S, es) ==
  /\ x \in Index /\ x.cap >= 4
  /\ \A a \in S : es[a].k \in Key /\ \E j \in 0 .. x.cap - 1 : Reaches(x, es[a].k, a, j)
  /\ \A i \in 0 .. x.cap - 1 : x.t[i] \in S \cup {Null, Gone}
  /\ \A i, j \in 0 .. x.cap - 1 : x.t[i] \in S /\ x.t[i] = x.t[j] => i = j
  /\ Cardinality(Slots(x, Addr)) = x.n
  /\ Cardinality(Slots(x, {Gone})) = x.dead
  /\ x.n + x.dead < x.cap

LEMMA IndexFields ==
  ASSUME NEW x \in Index
  PROVE  /\ x.cap \in Nat /\ x.n \in Nat /\ x.dead \in Nat
         /\ x.t \in [0 .. x.cap - 1 -> Slot]
         /\ x = [cap |-> x.cap, n |-> x.n, dead |-> x.dead, t |-> x.t]
<1>1. PICK c \in Nat : x \in [cap : {c}, n : Nat, dead : Nat, t : [0 .. c - 1 -> Slot]]
  BY DEF Index
<1>2. QED
  BY <1>1

LEMMA IndexMade ==
  ASSUME NEW c \in Nat, NEW n \in Nat, NEW d \in Nat, NEW t \in [0 .. c - 1 -> Slot]
  PROVE  [cap |-> c, n |-> n, dead |-> d, t |-> t] \in Index
<1>1. [cap |-> c, n |-> n, dead |-> d, t |-> t]
        \in [cap : {c}, n : Nat, dead : Nat, t : [0 .. c - 1 -> Slot]]
  OBVIOUS
<1>2. QED
  BY <1>1 DEF Index

\* A probe stays in the index, and cap steps visit all of it.
LEMMA ProbeIn ==
  ASSUME NEW x, x.cap \in Nat \ {0}, NEW k \in Key, NEW j \in Nat
  PROVE  Probe(x, k, j) \in 0 .. x.cap - 1
<1>1. Hash[k] \in Nat
  BY MapAssumption
<1>2. \A a \in Nat, c \in Nat \ {0} : a % c \in 0 .. c - 1
  OBVIOUS
<1>3. QED
  BY <1>1, <1>2 DEF Probe

LEMMA Wraps ==
  ASSUME NEW a \in Nat, NEW c \in Nat \ {0}, NEW i \in 0 .. c - 1
  PROVE  \E j \in 0 .. c - 1 : (a + j) % c = i
<1> DEFINE r == a % c
           q == a \div c
<1>1. r \in 0 .. c - 1 /\ q \in Int /\ a = c * q + r
  OBVIOUS
<1>2. \A p \in Int : (c * p + i) % c = i
  OBVIOUS
<1>3. PICK j \in 0 .. c - 1 : j = i - r \/ j = i - r + c
  <2>1. i - r \in 0 .. c - 1 \/ i - r + c \in 0 .. c - 1
    BY <1>1
  <2>2. QED
    BY <2>1
<1>4. c * (q + 1) = c * q + c
  BY <1>1
<1>5. a + j = c * q + i \/ a + j = c * (q + 1) + i
  <2> HIDE DEF r, q
  <2>1. QED
    BY <1>1, <1>3, <1>4
<1>6. (a + j) % c = i
  <2>1. q \in Int /\ q + 1 \in Int
    BY <1>1
  <2> HIDE DEF r, q
  <2>2. QED
    BY <1>2, <1>5, <2>1
<1>7. QED
  BY <1>6

LEMMA ProbeCovers ==
  ASSUME NEW x, x.cap \in Nat \ {0}, NEW k \in Key, NEW i \in 0 .. x.cap - 1
  PROVE  \E j \in 0 .. x.cap - 1 : Probe(x, k, j) = i
<1>1. Hash[k] \in Nat
  BY MapAssumption
<1>2. QED
  BY <1>1, Wraps DEF Probe

\* Counters that leave room leave an empty slot.
LEMMA SlotsFinite ==
  ASSUME NEW x \in Index, NEW S
  PROVE  /\ IsFiniteSet(Slots(x, S)) /\ Cardinality(Slots(x, S)) \in Nat
         /\ Slots(x, S) \subseteq 0 .. x.cap - 1
<1>1. Slots(x, S) \subseteq 0 .. x.cap - 1
  BY DEF Slots
<1>2. IsFiniteSet(0 .. x.cap - 1)
  BY IndexFields, FS_Interval
<1>3. IsFiniteSet(Slots(x, S))
  BY <1>1, <1>2, FS_Subset
<1>4. QED
  BY <1>1, <1>3, FS_CardinalityType

LEMMA EmptySlot ==
  ASSUME NEW x, NEW S \in SUBSET Addr, NEW es, Fits(x, S, es)
  PROVE  \E i \in 0 .. x.cap - 1 : x.t[i] = Null
<1>1. x \in Index /\ x.cap \in Nat /\ x.n \in Nat /\ x.dead \in Nat /\ x.n + x.dead < x.cap
  BY IndexFields DEF Fits
<1>2. SUFFICES ASSUME \A i \in 0 .. x.cap - 1 : x.t[i] # Null
               PROVE  FALSE
  OBVIOUS
<1>3. 0 .. x.cap - 1 = Slots(x, Addr) \cup Slots(x, {Gone})
  BY <1>2 DEF Slots, Fits
<1>4. Slots(x, Addr) \cap Slots(x, {Gone}) = {}
  BY MapAssumption DEF Slots
<1>5. Cardinality(Slots(x, Addr) \cup Slots(x, {Gone})) = x.n + x.dead
  <2>1. IsFiniteSet(Slots(x, Addr)) /\ IsFiniteSet(Slots(x, {Gone}))
    BY <1>1, SlotsFinite
  <2>2. Cardinality(Slots(x, Addr)) = x.n /\ Cardinality(Slots(x, {Gone})) = x.dead
    BY DEF Fits
  <2>3. Cardinality(Slots(x, Addr) \cap Slots(x, {Gone})) = 0
    BY <1>4, FS_EmptySet
  <2>4. Cardinality(Slots(x, Addr) \cup Slots(x, {Gone})) =
          Cardinality(Slots(x, Addr)) + Cardinality(Slots(x, {Gone}))
            - Cardinality(Slots(x, Addr) \cap Slots(x, {Gone}))
    BY <2>1, FS_Union
  <2>5. QED
    BY <1>1, <2>2, <2>3, <2>4
<1>6. Cardinality(0 .. x.cap - 1) = x.cap
  <2>1. 0 \in Int /\ x.cap - 1 \in Int /\ (0 > x.cap - 1 <=> x.cap = 0)
    BY <1>1
  <2>2. QED
    BY <1>1, <2>1, FS_Interval
<1>7. Cardinality(0 .. x.cap - 1) = x.n + x.dead
  BY <1>3, <1>5
<1>8. QED
  BY <1>1, <1>6, <1>7

\* Where a search stops is the first place it may stop.
LEMMA LeastHit ==
  ASSUME NEW c \in Nat, NEW H \in SUBSET (0 .. c - 1), NEW j \in H
  PROVE  Least(H) \in H /\ \A i \in H : Least(H) <= i
<1>1. H \in SUBSET Nat
  OBVIOUS
<1>2. \E i \in H : \A h \in H : i <= h
  BY <1>1, SmallestExists
<1>3. QED
  BY <1>2 DEF Least

\* mp_ixput gives the entry a slot that is empty or a tombstone, and nothing
\* else in the index moves.
LEMMA PutSlot ==
  ASSUME NEW x, NEW S \in SUBSET Addr, NEW es, NEW e \in Addr,
         Fits(x, S, es), es[e].k \in Key, \A a \in S : es[a].k # es[e].k
  PROVE  \E i \in 0 .. x.cap - 1 :
           /\ x.t[i] \in {Null, Gone}
           /\ IxPut(x, e, es).cap = x.cap
           /\ IxPut(x, e, es).t = [x.t EXCEPT ![i] = e]
           /\ IxPut(x, e, es).n = x.n + 1
           /\ IxPut(x, e, es).dead = IF x.t[i] = Gone THEN x.dead - 1 ELSE x.dead
           /\ IxPut(x, e, es) = [cap |-> x.cap, n |-> x.n + 1,
                                 dead |-> IF x.t[i] = Gone THEN x.dead - 1 ELSE x.dead,
                                 t |-> [x.t EXCEPT ![i] = e]]
           /\ \E j \in 0 .. x.cap - 1 :
                /\ Probe(x, es[e].k, j) = i
                /\ \A h \in 0 .. j - 1 : x.t[Probe(x, es[e].k, h)] # Null
<1> DEFINE k == es[e].k
           hit == {j \in 0 .. x.cap - 1 :
                     LET a == x.t[Probe(x, k, j)] IN a \in {Null, Gone} \/ es[a].k = k}
           j0 == Least(hit)
           i == Probe(x, k, j0)
<1>1. x \in Index /\ x.cap \in Nat \ {0} /\ x.n \in Nat /\ x.dead \in Nat
  BY IndexFields DEF Fits
<1>2. PICK z \in 0 .. x.cap - 1 : x.t[z] = Null
  BY EmptySlot
<1>3. PICK jz \in 0 .. x.cap - 1 : Probe(x, k, jz) = z
  BY <1>1, ProbeCovers
<1>4. hit \in SUBSET (0 .. x.cap - 1) /\ jz \in hit
  BY <1>2, <1>3
<1>5. j0 \in hit /\ \A j \in hit : j0 <= j
  <2> HIDE DEF hit
  <2>1. QED
    BY <1>1, <1>4, LeastHit
<1>6. j0 \in 0 .. x.cap - 1 /\ (x.t[i] \in {Null, Gone} \/ es[x.t[i]].k = k)
  <2> HIDE DEF j0
  <2>1. QED
    BY <1>5
<1>7. i \in 0 .. x.cap - 1
  <2> HIDE DEF j0
  <2>1. QED
    BY <1>1, <1>6, ProbeIn
<1>8. x.t[i] \in {Null, Gone}
  <2> HIDE DEF i
  <2>1. x.t[i] \in S \cup {Null, Gone}
    BY <1>7 DEF Fits
  <2>2. QED
    BY <1>6, <2>1 DEF i
<1>9. ASSUME NEW h \in 0 .. j0 - 1
      PROVE  x.t[Probe(x, k, h)] # Null
  <2>1. h \in 0 .. x.cap - 1 /\ ~(j0 <= h)
    <3> HIDE DEF j0
    <3>1. QED
      BY <1>1, <1>6
  <2>2. h \notin hit
    BY <1>5, <2>1
  <2>3. QED
    BY <2>1, <2>2
<1>10. IxPut(x, e, es) =
         [x EXCEPT !.t[i] = e,
                   !.n = IF x.t[i] \in {Null, Gone} THEN @ + 1 ELSE @,
                   !.dead = IF x.t[i] = Gone THEN @ - 1 ELSE @]
  BY DEF IxPut
<1>11. IxPut(x, e, es) = [cap |-> x.cap, n |-> x.n + 1,
                          dead |-> IF x.t[i] = Gone THEN x.dead - 1 ELSE x.dead,
                          t |-> [x.t EXCEPT ![i] = e]]
  <2>1. x = [cap |-> x.cap, n |-> x.n, dead |-> x.dead, t |-> x.t]
    BY <1>1, IndexFields
  <2> HIDE DEF i
  <2>2. QED
    BY <1>8, <1>10, <2>1
<1>12. QED
  <2> HIDE DEF i, j0
  <2>1. Probe(x, k, j0) = i
    BY DEF i
  <2>2. QED
    BY <1>6, <1>7, <1>8, <1>9, <1>11, <2>1

\* After which the index holds that entry too.
LEMMA PutFits ==
  ASSUME NEW x, NEW S \in SUBSET Addr, NEW es, NEW e \in Addr \ S,
         Fits(x, S, es), es[e].k \in Key, \A a \in S : es[a].k # es[e].k,
         x.n + x.dead + 1 < x.cap
  PROVE  /\ Fits(IxPut(x, e, es), S \cup {e}, es)
         /\ IxPut(x, e, es).cap = x.cap /\ IxPut(x, e, es).n = x.n + 1
         /\ IxPut(x, e, es).dead <= x.dead
<1> DEFINE y == IxPut(x, e, es)
           k == es[e].k
<1>1. x \in Index /\ x.cap \in Nat \ {0} /\ x.n \in Nat /\ x.dead \in Nat
      /\ x.t \in [0 .. x.cap - 1 -> Slot]
  BY IndexFields DEF Fits
<1>2. PICK i \in 0 .. x.cap - 1 :
           /\ x.t[i] \in {Null, Gone}
           /\ y.cap = x.cap /\ y.t = [x.t EXCEPT ![i] = e] /\ y.n = x.n + 1
           /\ y.dead = IF x.t[i] = Gone THEN x.dead - 1 ELSE x.dead
           /\ y = [cap |-> x.cap, n |-> x.n + 1,
                   dead |-> IF x.t[i] = Gone THEN x.dead - 1 ELSE x.dead,
                   t |-> [x.t EXCEPT ![i] = e]]
           /\ \E j \in 0 .. x.cap - 1 :
                /\ Probe(x, k, j) = i
                /\ \A h \in 0 .. j - 1 : x.t[Probe(x, k, h)] # Null
  BY PutSlot
<1> HIDE DEF y
<1>3. /\ y.t[i] = e
      /\ \A h \in 0 .. x.cap - 1 : h # i => y.t[h] = x.t[h]
      /\ y.t \in [0 .. x.cap - 1 -> Slot]
  BY <1>1, <1>2 DEF Slot
<1>4. \A a, j : Probe(y, a, j) = Probe(x, a, j)
  BY <1>2 DEF Probe
<1>5. e # Null /\ e # Gone /\ Null # Gone
  BY MapAssumption
<1>6. Slots(y, Addr) = Slots(x, Addr) \cup {i} /\ i \notin Slots(x, Addr)
  BY <1>2, <1>3, MapAssumption DEF Slots
<1>7. Cardinality(Slots(y, Addr)) = y.n
  <2>1. IsFiniteSet(Slots(x, Addr)) /\ Cardinality(Slots(x, Addr)) = x.n
    BY <1>1, SlotsFinite DEF Fits
  <2>2. Cardinality(Slots(x, Addr) \cup {i}) = x.n + 1
    BY <1>6, <2>1, FS_AddElement
  <2>3. QED
    BY <1>2, <1>6, <2>2
<1>8. Cardinality(Slots(y, {Gone})) = y.dead /\ y.dead \in Nat /\ y.dead <= x.dead
  <2>1. /\ IsFiniteSet(Slots(x, {Gone})) /\ Cardinality(Slots(x, {Gone})) = x.dead
        /\ Slots(y, {Gone}) = Slots(x, {Gone}) \ {i}
    <3>1. IsFiniteSet(Slots(x, {Gone})) /\ Cardinality(Slots(x, {Gone})) = x.dead
      BY <1>1, SlotsFinite DEF Fits
    <3>2. Slots(y, {Gone}) = Slots(x, {Gone}) \ {i}
      BY <1>2, <1>3, <1>5 DEF Slots
    <3>3. QED
      BY <3>1, <3>2
  <2>2. i \in Slots(x, {Gone}) <=> x.t[i] = Gone
    BY DEF Slots
  <2>3. /\ Cardinality(Slots(x, {Gone}) \ {i}) \in Nat
        /\ Cardinality(Slots(x, {Gone}) \ {i}) =
             IF i \in Slots(x, {Gone}) THEN x.dead - 1 ELSE x.dead
    BY <2>1, FS_RemoveElement, FS_CardinalityType
  <2>4. y.dead = Cardinality(Slots(x, {Gone}) \ {i})
    BY <1>2, <2>2, <2>3
  <2>5. y.dead \in Nat /\ y.dead <= x.dead
    BY <1>1, <1>2, <2>3, <2>4
  <2>6. QED
    BY <2>1, <2>4, <2>5
<1>9. y \in Index
  <2>1. y = [cap |-> y.cap, n |-> y.n, dead |-> y.dead, t |-> y.t]
    BY <1>2
  <2>2. /\ y.cap \in Nat /\ y.n \in Nat /\ y.dead \in Nat
        /\ y.t \in [0 .. y.cap - 1 -> Slot]
    BY <1>1, <1>2, <1>3, <1>8
  <2>3. [cap |-> y.cap, n |-> y.n, dead |-> y.dead, t |-> y.t] \in Index
    BY <2>2, IndexMade
  <2>4. QED
    BY <2>1, <2>3
<1>10. ASSUME NEW a \in S \cup {e}
       PROVE  es[a].k \in Key /\ \E j \in 0 .. y.cap - 1 : Reaches(y, es[a].k, a, j)
  <2>1. CASE a = e
    <3>1. PICK j \in 0 .. x.cap - 1 :
            /\ Probe(x, k, j) = i
            /\ \A h \in 0 .. j - 1 : x.t[Probe(x, k, h)] # Null
      BY <1>2
    <3>2. ASSUME NEW h \in 0 .. j - 1 PROVE y.t[Probe(y, k, h)] # Null
      <4>1. Probe(x, k, h) \in 0 .. x.cap - 1 /\ x.t[Probe(x, k, h)] # Null
        <5>1. h \in Nat
          BY <3>1
        <5>2. QED
          BY <1>1, <3>1, <5>1, ProbeIn
      <4>2. QED
        BY <1>3, <1>4, <1>5, <4>1
    <3>3. QED
      BY <1>2, <1>3, <1>4, <2>1, <3>1, <3>2 DEF Reaches
  <2>2. CASE a \in S
    <3>1. PICK j \in 0 .. x.cap - 1 : es[a].k \in Key /\ Reaches(x, es[a].k, a, j)
      BY <2>2 DEF Fits
    <3>2. a # Null /\ a # Gone
      BY <2>2, MapAssumption
    <3>3. Probe(x, es[a].k, j) \in 0 .. x.cap - 1 /\ x.t[Probe(x, es[a].k, j)] = a
      BY <1>1, <3>1, ProbeIn DEF Reaches
    <3>4. y.t[Probe(y, es[a].k, j)] = a
      BY <1>2, <1>3, <1>4, <3>2, <3>3
    <3>5. ASSUME NEW h \in 0 .. j - 1 PROVE y.t[Probe(y, es[a].k, h)] # Null
      <4>1. Probe(x, es[a].k, h) \in 0 .. x.cap - 1 /\ x.t[Probe(x, es[a].k, h)] # Null
        <5>1. h \in Nat
          BY <3>1
        <5>2. QED
          BY <1>1, <3>1, <5>1, ProbeIn DEF Reaches
      <4>2. QED
        BY <1>3, <1>4, <1>5, <4>1
    <3>6. QED
      BY <1>2, <3>1, <3>4, <3>5 DEF Reaches
  <2>3. QED
    BY <2>1, <2>2
<1>11. \A h \in 0 .. y.cap - 1 : y.t[h] \in S \cup {e} \cup {Null, Gone}
  BY <1>2, <1>3 DEF Fits
<1>12. ASSUME NEW g \in 0 .. y.cap - 1, NEW h \in 0 .. y.cap - 1,
              y.t[g] \in S \cup {e}, y.t[g] = y.t[h]
       PROVE  g = h
  <2>1. \A q \in 0 .. x.cap - 1 : q # i => y.t[q] # e
    BY <1>3, <1>5 DEF Fits
  <2>2. CASE g = i \/ h = i
    BY <1>2, <1>3, <1>12, <2>1, <2>2
  <2>3. CASE g # i /\ h # i
    BY <1>2, <1>3, <1>12, <2>1, <2>3 DEF Fits
  <2>4. QED
    BY <2>2, <2>3
<1>13. y.n + y.dead < y.cap
  BY <1>1, <1>2, <1>8
<1>14. Fits(y, S \cup {e}, es)
  BY <1>2, <1>7, <1>8, <1>9, <1>10, <1>11, <1>12, <1>13 DEF Fits
<1>15. QED
  BY <1>2, <1>8, <1>14 DEF y

\* mp_ixdel leaves a tombstone in the entry's slot, so every other entry is as
\* much within reach as it was.
LEMMA DelFits ==
  ASSUME NEW x, NEW S \in SUBSET Addr, NEW e \in S, Fits(x, S, ents)
  PROVE  /\ Fits(IxDel(x, e), S \ {e}, ents)
         /\ IxDel(x, e).cap = x.cap /\ IxDel(x, e).n = x.n - 1
<1> DEFINE y == IxDel(x, e)
           k == ents[e].k
           hit == {j \in 0 .. x.cap - 1 : x.t[Probe(x, k, j)] \in {Null, e}}
           j0 == Least(hit)
           i == Probe(x, k, j0)
<1>1. x \in Index /\ x.cap \in Nat \ {0} /\ x.n \in Nat /\ x.dead \in Nat
      /\ x.t \in [0 .. x.cap - 1 -> Slot] /\ k \in Key
      /\ x = [cap |-> x.cap, n |-> x.n, dead |-> x.dead, t |-> x.t]
  BY IndexFields DEF Fits
<1>2. PICK je \in 0 .. x.cap - 1 : Reaches(x, k, e, je)
  BY DEF Fits
<1>3. hit \in SUBSET (0 .. x.cap - 1) /\ je \in hit
  BY <1>2 DEF Reaches
<1>4. j0 \in hit /\ \A j \in hit : j0 <= j
  <2> HIDE DEF hit
  <2>1. QED
    BY <1>1, <1>3, LeastHit
<1>5. e # Null /\ e # Gone /\ Null # Gone /\ e \in Addr
  BY MapAssumption
<1>6. j0 \in 0 .. x.cap - 1 /\ x.t[i] \in {Null, e} /\ j0 <= je
  <2> HIDE DEF j0
  <2>1. QED
    BY <1>3, <1>4
<1>7. x.t[i] = e
  <2> HIDE DEF j0
  <2>1. CASE j0 = je
    BY <1>2, <2>1 DEF Reaches
  <2>2. CASE j0 < je
    <3>1. j0 \in 0 .. je - 1
      BY <1>6, <2>2
    <3>2. QED
      BY <1>2, <1>6, <3>1 DEF Reaches
  <2>3. QED
    BY <1>1, <1>6, <2>1, <2>2
<1>8. i \in 0 .. x.cap - 1
  <2> HIDE DEF j0
  <2>1. QED
    BY <1>1, <1>6, ProbeIn
<1>9. y = [x EXCEPT !.t[i] = Gone, !.n = @ - 1, !.dead = @ + 1]
  <2>1. hit # {} /\ x.t[i] # Null
    <3> HIDE DEF i, hit
    <3>1. QED
      BY <1>3, <1>5, <1>7
  <2>2. QED
    BY <2>1 DEF IxDel
<1> HIDE DEF y, i, j0, hit
<1>10. /\ y.cap = x.cap /\ y.n = x.n - 1 /\ y.dead = x.dead + 1
       /\ y.t = [x.t EXCEPT ![i] = Gone]
       /\ y = [cap |-> y.cap, n |-> y.n, dead |-> y.dead, t |-> y.t]
  BY <1>1, <1>9
<1>11. /\ y.t[i] = Gone /\ \A h \in 0 .. x.cap - 1 : h # i => y.t[h] = x.t[h]
       /\ y.t \in [0 .. x.cap - 1 -> Slot]
  BY <1>1, <1>8, <1>10 DEF Slot
<1>12. \A a, j : Probe(y, a, j) = Probe(x, a, j)
  BY <1>10 DEF Probe
<1>13. Cardinality(Slots(y, Addr)) = y.n /\ y.n \in Nat
  <2>1. IsFiniteSet(Slots(x, Addr)) /\ Cardinality(Slots(x, Addr)) = x.n
    BY <1>1, SlotsFinite DEF Fits
  <2>2. Slots(y, Addr) = Slots(x, Addr) \ {i} /\ i \in Slots(x, Addr)
    BY <1>5, <1>7, <1>8, <1>10, <1>11, MapAssumption DEF Slots
  <2>3. /\ Cardinality(Slots(x, Addr) \ {i}) = x.n - 1
        /\ Cardinality(Slots(x, Addr) \ {i}) \in Nat
    BY <2>1, <2>2, FS_RemoveElement, FS_CardinalityType
  <2>4. QED
    BY <1>10, <2>2, <2>3
<1>14. Cardinality(Slots(y, {Gone})) = y.dead /\ y.dead \in Nat
  <2>1. IsFiniteSet(Slots(x, {Gone})) /\ Cardinality(Slots(x, {Gone})) = x.dead
    BY <1>1, SlotsFinite DEF Fits
  <2>2. Slots(y, {Gone}) = Slots(x, {Gone}) \cup {i} /\ i \notin Slots(x, {Gone})
    BY <1>5, <1>7, <1>8, <1>10, <1>11 DEF Slots
  <2>3. Cardinality(Slots(x, {Gone}) \cup {i}) = x.dead + 1
    BY <2>1, <2>2, FS_AddElement
  <2>4. y.dead = x.dead + 1 /\ y.dead \in Nat
    BY <1>1, <1>10
  <2>5. Cardinality(Slots(y, {Gone})) = x.dead + 1
    BY <2>2, <2>3
  <2>6. QED
    BY <2>4, <2>5
<1>15. y \in Index
  <2>1. /\ y.cap \in Nat /\ y.n \in Nat /\ y.dead \in Nat
        /\ y.t \in [0 .. y.cap - 1 -> Slot]
    BY <1>1, <1>10, <1>11, <1>13, <1>14
  <2>2. [cap |-> y.cap, n |-> y.n, dead |-> y.dead, t |-> y.t] \in Index
    BY <2>1, IndexMade
  <2>3. QED
    BY <1>10, <2>2
<1>16. ASSUME NEW a \in S \ {e}
       PROVE  ents[a].k \in Key /\ \E j \in 0 .. y.cap - 1 : Reaches(y, ents[a].k, a, j)
  <2>1. PICK j \in 0 .. x.cap - 1 : ents[a].k \in Key /\ Reaches(x, ents[a].k, a, j)
    BY DEF Fits
  <2>2. /\ Probe(x, ents[a].k, j) \in 0 .. x.cap - 1 /\ x.t[Probe(x, ents[a].k, j)] = a
        /\ a # e
    BY <1>1, <2>1, ProbeIn DEF Reaches
  <2>3. y.t[Probe(y, ents[a].k, j)] = a
    BY <1>7, <1>11, <1>12, <2>2
  <2>4. ASSUME NEW h \in 0 .. j - 1 PROVE y.t[Probe(y, ents[a].k, h)] # Null
    <3>1. h \in Nat
      BY <2>1
    <3>2. Probe(x, ents[a].k, h) \in 0 .. x.cap - 1 /\ x.t[Probe(x, ents[a].k, h)] # Null
      BY <1>1, <2>1, <3>1, ProbeIn DEF Reaches
    <3>3. QED
      BY <1>5, <1>11, <1>12, <3>2
  <2>5. QED
    BY <1>10, <2>1, <2>3, <2>4 DEF Reaches
<1>17. \A h \in 0 .. x.cap - 1 : h # i => x.t[h] # e
  BY <1>7, <1>8 DEF Fits
<1>18. \A h \in 0 .. y.cap - 1 : y.t[h] \in (S \ {e}) \cup {Null, Gone}
  BY <1>10, <1>11, <1>17 DEF Fits
<1>19. \A g, h \in 0 .. y.cap - 1 : y.t[g] \in S \ {e} /\ y.t[g] = y.t[h] => g = h
  <2>1. Gone \notin S
    BY MapAssumption
  <2>2. QED
    BY <1>10, <1>11, <2>1 DEF Fits
<1>20. y.cap >= 4 /\ y.n + y.dead < y.cap
  BY <1>1, <1>10 DEF Fits
<1>21. Fits(y, S \ {e}, ents)
  BY <1>13, <1>14, <1>15, <1>16, <1>18, <1>19, <1>20 DEF Fits
<1>22. QED
  BY <1>10, <1>21 DEF y

\* mp_ixfind finds the entry that has the key, and nothing when none has.
LEMMA FindFits ==
  ASSUME NEW x, NEW S \in SUBSET Addr, NEW k \in Key, Fits(x, S, ents),
         \A a, b \in S : ents[a].k = ents[b].k => a = b
  PROVE  /\ \A e \in S : ents[e].k = k => IxFind(x, k) = e
         /\ (\A e \in S : ents[e].k # k) => IxFind(x, k) = Null
<1> DEFINE hit == {j \in 0 .. x.cap - 1 :
                     LET a == x.t[Probe(x, k, j)] IN
                       a = Null \/ (a # Gone /\ ents[a].k = k)}
           j0 == Least(hit)
           i == Probe(x, k, j0)
<1>1. x \in Index /\ x.cap \in Nat \ {0}
  BY IndexFields DEF Fits
<1>2. PICK z \in 0 .. x.cap - 1 : x.t[z] = Null
  BY EmptySlot
<1>3. PICK jz \in 0 .. x.cap - 1 : Probe(x, k, jz) = z
  BY <1>1, ProbeCovers
<1>4. hit \in SUBSET (0 .. x.cap - 1) /\ jz \in hit
  BY <1>2, <1>3
<1>5. j0 \in hit /\ \A j \in hit : j0 <= j
  <2> HIDE DEF hit
  <2>1. QED
    BY <1>1, <1>4, LeastHit
<1>6. /\ j0 \in 0 .. x.cap - 1
      /\ x.t[i] = Null \/ (x.t[i] # Gone /\ ents[x.t[i]].k = k)
  <2> HIDE DEF j0
  <2>1. QED
    BY <1>5
<1>7. IxFind(x, k) = x.t[i]
  <2>1. hit # {}
    BY <1>4
  <2>2. QED
    BY <2>1 DEF IxFind
<1>8. i \in 0 .. x.cap - 1
  <2> HIDE DEF j0
  <2>1. QED
    BY <1>1, <1>6, ProbeIn
<1>9. x.t[i] = Null \/ (x.t[i] \in S /\ ents[x.t[i]].k = k)
  <2> HIDE DEF i
  <2>1. x.t[i] \in S \cup {Null, Gone}
    BY <1>8 DEF Fits
  <2>2. QED
    BY <1>6, <2>1 DEF i
<1>10. ASSUME NEW e \in S, ents[e].k = k
       PROVE  x.t[i] = e
  <2>1. PICK je \in 0 .. x.cap - 1 : Reaches(x, k, e, je)
    BY <1>10 DEF Fits
  <2>2. e # Null /\ e # Gone
    BY MapAssumption
  <2>3. je \in hit
    BY <1>10, <2>1, <2>2 DEF Reaches
  <2>4. j0 <= je
    BY <1>5, <2>3
  <2>5. x.t[i] # Null
    <3> HIDE DEF j0
    <3>1. CASE j0 = je
      BY <2>1, <2>2, <3>1 DEF Reaches
    <3>2. CASE j0 < je
      <4>1. j0 \in 0 .. je - 1
        BY <1>6, <3>2
      <4>2. QED
        BY <2>1, <4>1 DEF Reaches
    <3>3. QED
      BY <1>1, <1>6, <2>4, <3>1, <3>2
  <2> HIDE DEF i
  <2>6. QED
    BY <1>9, <1>10, <2>5
<1> HIDE DEF i
<1>11. QED
  BY <1>7, <1>9, <1>10

\* What an index holds depends on the keys of what it holds and on nothing else.
LEMMA FitsByKeys ==
  ASSUME NEW x, NEW S, NEW es, NEW fs, Fits(x, S, es), \A a \in S : fs[a].k = es[a].k
  PROVE  Fits(x, S, fs)
BY DEF Fits

\* One that was just made holds nothing.
LEMMA EmptyFits ==
  ASSUME NEW c \in Nat, c >= 4, NEW es
  PROVE  Fits(Empty(c), {}, es) /\ Empty(c).cap = c /\ Empty(c).n = 0 /\ Empty(c).dead = 0
<1> DEFINE x == Empty(c)
<1>1. x.cap = c /\ x.n = 0 /\ x.dead = 0 /\ \A i \in 0 .. c - 1 : x.t[i] = Null
  BY DEF Empty
<1>2. x \in Index
  <2>1. [i \in 0 .. c - 1 |-> Null] \in [0 .. c - 1 -> Slot]
    BY DEF Slot
  <2>2. QED
    BY <2>1, IndexMade DEF Empty
<1> HIDE DEF x
<1>3. Slots(x, Addr) = {} /\ Slots(x, {Gone}) = {}
  BY <1>1, MapAssumption DEF Slots
<1>4. Cardinality(Slots(x, Addr)) = 0 /\ Cardinality(Slots(x, {Gone})) = 0
  BY <1>3, FS_EmptySet
<1>5. Fits(x, {}, es)
  BY <1>1, <1>2, <1>4 DEF Fits
<1>6. QED
  BY <1>1, <1>5 DEF x

\* Doubling gets past any number of entries: mp_ixnew's loop ends, at a size
\* that n entries do not fill.
LEMMA Division ==
  ASSUME NEW n \in Nat, NEW d \in Nat \ {0}
  PROVE  \E q \in Int, r \in 0 .. d - 1 : n = d * q + r /\ r = n % d
<1> DEFINE r == n % d
           q == n \div d
<1>1. r \in 0 .. d - 1 /\ q \in Int /\ n = d * q + r
  OBVIOUS
<1>2. r = n % d
  OBVIOUS
<1> HIDE DEF r, q
<1>3. QED
  BY <1>1, <1>2

LEMMA PowerDoubles ==
  ASSUME NEW p \in Nat \ {0}, PowerOfTwo(p)
  PROVE  PowerOfTwo(2 * p)
<1> SUFFICES ASSUME NEW d \in 2 .. 2 * p, (2 * p) % d = 0, d % 2 # 0
             PROVE  FALSE
  BY DEF PowerOfTwo
<1>1. PICK q \in Int : 2 * p = d * q
  <2>1. 2 * p \in Nat /\ d \in Nat \ {0}
    OBVIOUS
  <2>2. PICK q \in Int, r \in 0 .. d - 1 : 2 * p = d * q + r /\ r = (2 * p) % d
    BY <2>1, Division
  <2>3. d * q + 0 = d * q
    BY <2>1, <2>2
  <2>4. QED
    BY <2>2, <2>3
<1>2. PICK s \in Int : d = 2 * s + 1
  <2>1. d \in Nat /\ 2 \in Nat \ {0}
    OBVIOUS
  <2>2. \E m \in Int, n \in 0 .. 1 : d = 2 * m + n /\ n = d % 2
    BY <2>1, Division
  <2>3. QED
    BY <2>2
<1> DEFINE r == p - s * q
<1>3. r \in Int /\ q = 2 * r
  <2>1. s * q \in Int /\ d * q = 2 * (s * q) + q
    BY <1>2
  <2>2. QED
    BY <1>1, <2>1
<1>4. p = d * r
  <2>1. d * (2 * r) = 2 * (d * r) /\ d * r \in Int
    <3> HIDE DEF r
    <3>1. QED
      BY <1>3
  <2>2. QED
    BY <1>1, <1>3, <2>1
<1> HIDE DEF r
<1>5. r >= 1
  <2>1. r <= 0 => d * r <= 0
    BY <1>3
  <2>2. QED
    BY <1>3, <1>4, <2>1
<1>6. d <= p
  <2>1. d * r >= d
    BY <1>3, <1>5
  <2>2. QED
    BY <1>4, <2>1
<1>7. p % d = 0
  <2>1. (d * r) % d = 0
    BY <1>3
  <2>2. QED
    BY <1>4, <2>1
<1>8. QED
  BY <1>6, <1>7 DEF PowerOfTwo

LEMMA PowersGrow ==
  ASSUME NEW n \in Nat \ {0}
  PROVE  \E p \in 1 .. n : PowerOfTwo(p) /\ 2 * p > n
<1> DEFINE Passed(m) == \E p \in 1 .. m : PowerOfTwo(p) /\ 2 * p > m
           S == {m \in Nat \ {0} : ~Passed(m)}
<1>1. SUFFICES ASSUME S # {} PROVE FALSE
  OBVIOUS
<1>2. PICK m \in S : \A i \in S : m <= i
  <2>1. S \in SUBSET Nat
    OBVIOUS
  <2> HIDE DEF S
  <2>2. QED
    BY <1>1, <2>1, SmallestExists
<1>3. m \in Nat \ {0} /\ ~Passed(m)
  OBVIOUS
<1>4. PowerOfTwo(1)
  BY DEF PowerOfTwo
<1>5. m # 1
  BY <1>3, <1>4
<1>6. m - 1 \in Nat \ {0} /\ m - 1 \notin S
  BY <1>2, <1>3, <1>5
<1>7. PICK p \in 1 .. m - 1 : PowerOfTwo(p) /\ 2 * p > m - 1
  BY <1>6
<1>8. CASE 2 * p > m
  BY <1>3, <1>7, <1>8
<1>9. CASE 2 * p = m
  <2>1. PowerOfTwo(m)
    BY <1>7, <1>9, PowerDoubles
  <2>2. QED
    BY <1>3, <2>1
<1>10. QED
  BY <1>3, <1>7, <1>8, <1>9

LEMMA CapHolds ==
  ASSUME NEW n \in Nat
  PROVE  NewCap(n) \in Nat /\ NewCap(n) >= 4 /\ NewCap(n) > n
<1>1. ASSUME NEW c \in Enough(n)
      PROVE  c \in Nat /\ c >= 4 /\ c > n
  <2>1. PICK p \in 1 .. 2 * n + 1 : c = MinCap * p /\ c >= n + n \div 2
    BY DEF Enough
  <2>2. MinCap \in Nat /\ MinCap >= 4
    BY MapAssumption
  <2>3. MinCap * p \in Nat /\ MinCap * p >= MinCap
    BY <2>2
  <2>4. c \in Nat /\ c >= 4
    BY <2>1, <2>2, <2>3
  <2>5. n \div 2 \in Nat /\ (n >= 2 => n \div 2 >= 1)
    OBVIOUS
  <2>6. QED
    BY <2>1, <2>4, <2>5
<1>2. \E c : c \in Enough(n)
  <2>1. PICK q \in 1 .. 2 * n + 1 : PowerOfTwo(q) /\ q >= n
    <3>1. CASE n = 0
      <4>1. PowerOfTwo(1)
        BY DEF PowerOfTwo
      <4>2. QED
        BY <3>1, <4>1
    <3>2. CASE n # 0
      <4>1. PICK p \in 1 .. n : PowerOfTwo(p) /\ 2 * p > n
        BY <3>2, PowersGrow
      <4>2. PowerOfTwo(2 * p)
        BY <4>1, PowerDoubles
      <4>3. 2 * p \in 1 .. 2 * n + 1 /\ 2 * p >= n
        BY <4>1
      <4>4. QED
        BY <4>2, <4>3
    <3>3. QED
      BY <3>1, <3>2
  <2>2. MinCap \in Nat /\ MinCap >= 4
    BY MapAssumption
  <2>3. MinCap * q >= 4 * q /\ MinCap * q \in Nat
    BY <2>2
  <2>4. n + n \div 2 <= 4 * q
    BY <2>1
  <2>5. MinCap * q >= n + n \div 2
    BY <2>3, <2>4
  <2>6. QED
    BY <2>1, <2>5 DEF Enough
<1>3. Enough(n) \in SUBSET Nat /\ Enough(n) # {}
  BY <1>1, <1>2
<1>4. \E c \in Enough(n) : \A d \in Enough(n) : c <= d
  BY <1>3, SmallestExists
<1>5. NewCap(n) \in Enough(n)
  BY <1>4 DEF NewCap, Least
<1>6. QED
  BY <1>1, <1>5

-----------------------------------------------------------------------------
(***************************************************************************)
(* One map                                                                 *)
(***************************************************************************)

Upto(c, n) == {c[i] : i \in 1 .. n}

\* A chain c of live entries, each of a key of its own, whose first entry knows
\* its last or none and is the only one with an index, which holds the first n.
\* One that is being built has room for the rest.
Sound(es, c, n) ==
  /\ c \in Seq(Addr)
  /\ \A i \in 1 .. Len(c) : es[c[i]].k \in Key
  /\ \A i, j \in 1 .. Len(c) : es[c[i]].k = es[c[j]].k => i = j
  /\ c # <<>> => es[c[1]].tl \in {Null, c[Len(c)]}
  /\ \A i \in 2 .. Len(c) : es[c[i]].ix = NoIx
  /\ n \in 0 .. Len(c)
  /\ c # <<>> /\ es[c[1]].ix.cap > 0 =>
       /\ Fits(es[c[1]].ix, Upto(c, n), es)
       /\ es[c[1]].ix.n = n
       /\ n < Len(c) => es[c[1]].ix.dead = 0 /\ es[c[1]].ix.cap > Len(c)

Indexed(v) == IF todo.map = v THEN todo.i - 1 ELSE Len(chain[v])

Inv ==
  /\ ents \in [Addr -> Entry]
  /\ chain \in [Var -> Seq(Addr)] /\ count \in [Var -> Nat]
  /\ \A v \in Var : count[v] = Len(chain[v]) /\ Sound(ents, chain[v], Indexed(v))
  /\ \A u, v \in Var : u # v => Elems(chain[u]) \cap Elems(chain[v]) = {}
  /\ \/ todo = Done
     \/ /\ todo \in [map : Var, i : Nat]
        /\ todo.i \in 1 .. Len(chain[todo.map])
        /\ ents[First(todo.map)].ix.cap > 0

\* What a script sees of a chain.
View(es, c) == [i \in DOMAIN c |-> <<es[c[i]].k, es[c[i]].s>>]

\* A blank entry has no index and knows no tail.
LEMMA BlankEntry ==
  /\ Blank \in Entry /\ NoIx \in Index /\ NoIx.cap = 0
  /\ Blank.k = Null /\ Blank.s = Null /\ Blank.tl = Null /\ Blank.ix = NoIx
<1>1. [i \in 0 .. 0 - 1 |-> Null] \in [0 .. 0 - 1 -> Slot]
  BY DEF Slot
<1>2. NoIx \in Index
  BY <1>1, IndexMade DEF NoIx, Empty
<1>3. QED
  BY <1>2 DEF Blank, Entry, NoIx, Empty

\* The entries of a chain, as a set and by position.
LEMMA ElemsOf ==
  ASSUME NEW c \in Seq(Addr)
  PROVE  /\ Elems(c) = Upto(c, Len(c)) /\ Elems(c) \subseteq Addr
         /\ DOMAIN c = 1 .. Len(c) /\ Len(c) \in Nat
         /\ c # <<>> <=> Len(c) >= 1
<1>1. DOMAIN c = 1 .. Len(c) /\ Len(c) \in Nat /\ \A i \in 1 .. Len(c) : c[i] \in Addr
  OBVIOUS
<1>2. c # <<>> <=> Len(c) >= 1
  OBVIOUS
<1>3. QED
  BY <1>1, <1>2 DEF Elems, Upto

\* A chain none of whose entries is touched is as it was.
LEMMA Untouched ==
  ASSUME NEW es, NEW fs, NEW c, NEW n, Sound(es, c, n),
         \A a \in Elems(c) : fs[a] = es[a]
  PROVE  Sound(fs, c, n) /\ View(fs, c) = View(es, c)
<1>1. /\ c \in Seq(Addr) /\ Len(c) \in Nat /\ DOMAIN c = 1 .. Len(c) /\ n \in 0 .. Len(c)
      /\ c # <<>> => 1 \in 1 .. Len(c)
  BY ElemsOf DEF Sound
<1>2. \A i \in 1 .. Len(c) : fs[c[i]] = es[c[i]]
  BY <1>1 DEF Elems
<1>3. \A a \in Upto(c, n) : fs[a].k = es[a].k
  BY <1>1, <1>2 DEF Upto
<1>4. ASSUME c # <<>>, fs[c[1]].ix.cap > 0
      PROVE  /\ Fits(fs[c[1]].ix, Upto(c, n), fs)
             /\ fs[c[1]].ix.n = n
             /\ n < Len(c) => fs[c[1]].ix.dead = 0 /\ fs[c[1]].ix.cap > Len(c)
  <2>1. fs[c[1]] = es[c[1]]
    BY <1>1, <1>2, <1>4
  <2>2. Fits(fs[c[1]].ix, Upto(c, n), es)
    BY <1>4, <2>1 DEF Sound
  <2>3. Fits(fs[c[1]].ix, Upto(c, n), fs)
    BY <1>3, <2>2, FitsByKeys
  <2>4. QED
    BY <1>4, <2>1, <2>3 DEF Sound
<1>5. View(fs, c) = View(es, c)
  BY <1>1, <1>2 DEF View
<1>6. \A i \in 2 .. Len(c) : fs[c[i]].ix = NoIx
  BY <1>1, <1>2 DEF Sound
<1>7. QED
  BY <1>1, <1>2, <1>4, <1>5, <1>6 DEF Sound

\* An operation on one map leaves the others alone, so what it does to its own
\* is all there is to show.
LEMMA OneMap ==
  ASSUME Inv, Idle, NEW v \in Var, NEW c, ents' \in [Addr -> Entry],
         chain' = [chain EXCEPT ![v] = c], count' = [count EXCEPT ![v] = Len(c)],
         \A u \in Var \ {v} : \A a \in Elems(chain[u]) : ents'[a] = ents[a] /\ a \notin Elems(c),
         \/ todo' = Done /\ Sound(ents', c, Len(c))
         \/ /\ todo' = [map |-> v, i |-> 1] /\ c # <<>>
            /\ ents'[c[1]].ix.cap > 0 /\ Sound(ents', c, 0)
  PROVE  Inv' /\ Seen' = [Seen EXCEPT ![v] = View(ents', c)]
<1>1. /\ todo = Done /\ chain \in [Var -> Seq(Addr)] /\ count \in [Var -> Nat]
      /\ Null \notin Var /\ Done.map = Null
  BY MapAssumption DEF Inv, Idle, Done
<1>2. c \in Seq(Addr) /\ Len(c) \in Nat
  BY DEF Sound
<1>3. chain' \in [Var -> Seq(Addr)] /\ count' \in [Var -> Nat]
  BY <1>1, <1>2
<1>4. /\ chain'[v] = c /\ \A u \in Var \ {v} : chain'[u] = chain[u]
      /\ count'[v] = Len(c) /\ \A u \in Var \ {v} : count'[u] = count[u]
  BY <1>1
<1>5. ASSUME NEW u \in Var \ {v}
      PROVE  /\ Sound(ents', chain[u], Len(chain[u]))
             /\ View(ents', chain[u]) = View(ents, chain[u])
             /\ Indexed(u)' = Len(chain[u])
  <2>1. Sound(ents, chain[u], Len(chain[u]))
    BY <1>1 DEF Inv, Indexed
  <2>2. todo'.map # u
    BY <1>1
  <2>3. QED
    BY <1>4, <2>1, <2>2, Untouched DEF Indexed
<1>6. Sound(ents', c, Indexed(v)')
  <2>1. CASE todo' = Done
    BY <1>1, <1>4, <2>1 DEF Indexed, Done
  <2>2. CASE todo' = [map |-> v, i |-> 1]
    <3>1. Indexed(v)' = 0
      BY <2>2 DEF Indexed
    <3>2. todo' # Done
      BY <1>1, <2>2
    <3>3. QED
      BY <3>1, <3>2
  <2>3. QED
    BY <2>1, <2>2
<1>7. \A u \in Var : count'[u] = Len(chain'[u]) /\ Sound(ents', chain'[u], Indexed(u)')
  BY <1>4, <1>5, <1>6 DEF Inv
<1>8. \A u, w \in Var : u # w => Elems(chain'[u]) \cap Elems(chain'[w]) = {}
  BY <1>4 DEF Inv
<1>9. \/ todo' = Done
      \/ /\ todo' \in [map : Var, i : Nat]
         /\ todo'.i \in 1 .. Len(chain'[todo'.map])
         /\ ents'[chain'[todo'.map][1]].ix.cap > 0
  <2>1. SUFFICES ASSUME todo' = [map |-> v, i |-> 1], c # <<>>, ents'[c[1]].ix.cap > 0
                 PROVE  /\ todo' \in [map : Var, i : Nat]
                        /\ todo'.i \in 1 .. Len(chain'[todo'.map])
                        /\ ents'[chain'[todo'.map][1]].ix.cap > 0
    OBVIOUS
  <2>2. todo'.map = v /\ todo'.i = 1 /\ chain'[v] = c /\ Len(c) >= 1
    BY <1>2, <1>4, <2>1, ElemsOf
  <2>3. QED
    BY <1>2, <2>1, <2>2
<1>10. Inv'
  BY <1>3, <1>7, <1>8, <1>9 DEF Inv, First
<1>11. Seen' = [Seen EXCEPT ![v] = View(ents', c)]
  <2>1. Seen = [u \in Var |-> View(ents, chain[u])]
    BY DEF Seen, View
  <2>2. Seen' = [u \in Var |-> View(ents', chain'[u])]
    BY DEF Seen, View
  <2>3. QED
    BY <1>4, <1>5, <2>1, <2>2
<1>12. QED
  BY <1>10, <1>11

\* Between operations every index holds its whole chain.
LEMMA Ready ==
  ASSUME Inv, Idle, NEW v \in Var
  PROVE  /\ Sound(ents, chain[v], Len(chain[v]))
         /\ chain[v] \in Seq(Addr) /\ Len(chain[v]) \in Nat
         /\ DOMAIN chain[v] = 1 .. Len(chain[v])
         /\ count[v] = Len(chain[v]) /\ ents \in [Addr -> Entry]
         /\ Null \notin Addr /\ Null \notin Key
<1>1. Indexed(v) = Len(chain[v])
  BY MapAssumption DEF Indexed, Idle, Done
<1>2. QED
  BY <1>1, MapAssumption DEF Inv

\* The fields of an entry have their types.
LEMMA EntryFields ==
  ASSUME NEW es \in [Addr -> Entry], NEW a \in Addr
  PROVE  /\ es[a].k \in Key \cup {Null} /\ es[a].s \in Value \cup {Null}
         /\ es[a].tl \in Addr \cup {Null} /\ es[a].ix \in Index
         /\ es[a] = [k |-> es[a].k, s |-> es[a].s, tl |-> es[a].tl, ix |-> es[a].ix]
         /\ es[a].ix.cap \in Nat
<1>1. es[a] \in Entry
  OBVIOUS
<1>2. QED
  BY <1>1, IndexFields DEF Entry

\* mp_find gives the entry a walk along the chain would, index or no index.
LEMMA FindIs ==
  ASSUME Inv, Idle, NEW v \in Var, NEW k \in Key
  PROVE  \/ Find(v, k) = Null /\ \A i \in 1 .. Len(chain[v]) : ents[chain[v][i]].k # k
         \/ \E i \in 1 .. Len(chain[v]) :
              Find(v, k) = chain[v][i] /\ ents[chain[v][i]].k = k
<1> DEFINE c == chain[v]
           S == Upto(c, Len(c))
<1>1. /\ Sound(ents, c, Len(c)) /\ c \in Seq(Addr) /\ Len(c) \in Nat
      /\ DOMAIN c = 1 .. Len(c)
  BY Ready
<1>2. CASE c # <<>> /\ ents[First(v)].ix.cap > 0
  <2>1. Find(v, k) = IxFind(ents[c[1]].ix, k)
    BY <1>2 DEF Find, First
  <2>2. Fits(ents[c[1]].ix, S, ents)
    BY <1>1, <1>2 DEF Sound, First
  <2>3. S \in SUBSET Addr /\ \A a, b \in S : ents[a].k = ents[b].k => a = b
    BY <1>1 DEF Sound, Upto
  <2> DEFINE x == ents[c[1]].ix
  <2>4. /\ \A e \in S : ents[e].k = k => IxFind(x, k) = e
        /\ (\A e \in S : ents[e].k # k) => IxFind(x, k) = Null
    <3> HIDE DEF x, S
    <3>1. Fits(x, S, ents)
      BY <2>2 DEF x
    <3>2. QED
      BY <2>3, <3>1, FindFits
  <2>5. /\ \A i \in 1 .. Len(c) : ents[c[i]].k = k => Find(v, k) = c[i]
        /\ (\A i \in 1 .. Len(c) : ents[c[i]].k # k) => Find(v, k) = Null
    BY <2>1, <2>4 DEF Upto
  <2>6. QED
    BY <2>5
<1>3. CASE ~(c # <<>> /\ ents[First(v)].ix.cap > 0)
  <2> DEFINE at == {i \in DOMAIN c : ents[c[i]].k = k}
  <2>1. Find(v, k) = IF at = {} THEN Null ELSE c[Least(at)]
    BY <1>3 DEF Find, Walked
  <2>2. CASE at = {}
    BY <1>1, <2>1, <2>2
  <2>3. CASE at # {}
    <3>1. at \in SUBSET Nat
      BY <1>1
    <3>2. \E i \in at : \A j \in at : i <= j
      <4> HIDE DEF at
      <4>1. QED
        BY <2>3, <3>1, SmallestExists
    <3>3. Least(at) \in at
      <4> HIDE DEF at
      <4>1. QED
        BY <3>2 DEF Least
    <3>4. Find(v, k) = c[Least(at)]
      BY <2>1, <2>3
    <3>5. Least(at) \in 1 .. Len(c) /\ ents[c[Least(at)]].k = k
      BY <1>1, <3>3
    <3> HIDE DEF at
    <3>6. QED
      BY <3>4, <3>5
  <2>4. QED
    BY <2>2, <2>3
<1>4. QED
  BY <1>2, <1>3

-----------------------------------------------------------------------------
(***************************************************************************)
(* The operations, each with what a script sees of it                      *)
(***************************************************************************)

LEMMA PutOldStep ==
  ASSUME Inv, NEW v \in Var, NEW k \in Key, NEW x \in Value, PutOld(v, k, x)
  PROVE  Inv' /\ Map!Put(v, k, x)
<1> DEFINE c == chain[v]
           e == Find(v, k)
<1>1. Idle /\ e # Null /\ UNCHANGED <<chain, count, todo>>
      /\ ents' = [ents EXCEPT ![e].s = x]
  BY DEF PutOld
<1>2. /\ Sound(ents, c, Len(c)) /\ c \in Seq(Addr) /\ Len(c) \in Nat
      /\ DOMAIN c = 1 .. Len(c) /\ count[v] = Len(c) /\ ents \in [Addr -> Entry]
  BY <1>1, Ready
<1>3. PICK i \in 1 .. Len(c) : e = c[i] /\ ents[c[i]].k = k
  BY <1>1, FindIs
<1> HIDE DEF e
<1>4. e \in Addr
  BY <1>2, <1>3
<1>5. /\ \A a \in Addr : ents'[a].k = ents[a].k /\ ents'[a].tl = ents[a].tl
                         /\ ents'[a].ix = ents[a].ix
      /\ ents'[e].s = x /\ \A a \in Addr \ {e} : ents'[a] = ents[a]
      /\ ents' \in [Addr -> Entry]
  <2>1. ents[e] = [k |-> ents[e].k, s |-> ents[e].s, tl |-> ents[e].tl, ix |-> ents[e].ix]
    BY <1>2, <1>4, EntryFields
  <2>2. ents'[e] = [k |-> ents[e].k, s |-> x, tl |-> ents[e].tl, ix |-> ents[e].ix]
    BY <1>1, <1>2, <1>4, <2>1
  <2>3. ents'[e] \in Entry
    BY <1>2, <1>4, <2>2, EntryFields DEF Entry
  <2>4. QED
    BY <1>1, <1>2, <1>4, <2>2, <2>3
<1>6. Sound(ents', c, Len(c))
  <2>1. \A j \in 1 .. Len(c) : /\ c[j] \in Addr /\ ents'[c[j]].k = ents[c[j]].k
                               /\ ents'[c[j]].tl = ents[c[j]].tl
                               /\ ents'[c[j]].ix = ents[c[j]].ix
    BY <1>2, <1>5
  <2>2. \A a \in Upto(c, Len(c)) : ents'[a].k = ents[a].k
    BY <2>1 DEF Upto
  <2>3. c # <<>> => 1 \in 1 .. Len(c)
    BY <1>2
  <2>4. c # <<>> /\ ents'[c[1]].ix.cap > 0 =>
          Fits(ents'[c[1]].ix, Upto(c, Len(c)), ents')
    BY <1>2, <2>1, <2>2, <2>3, FitsByKeys DEF Sound
  <2>5. \A j \in 2 .. Len(c) : ents'[c[j]].ix = NoIx
    BY <1>2, <2>1 DEF Sound
  <2>6. QED
    BY <1>2, <2>1, <2>3, <2>4, <2>5 DEF Sound
<1>7. Inv' /\ Seen' = [Seen EXCEPT ![v] = View(ents', c)]
  <2>1. chain' = [chain EXCEPT ![v] = c] /\ count' = [count EXCEPT ![v] = Len(c)]
        /\ todo' = Done
    BY <1>1, <1>2 DEF Inv, Idle
  <2>2. \A u \in Var \ {v} : \A a \in Elems(chain[u]) :
          ents'[a] = ents[a] /\ a \notin Elems(c)
    <3>1. e \in Elems(c)
      BY <1>2, <1>3 DEF Elems
    <3>2. \A u \in Var \ {v} : Elems(chain[u]) \cap Elems(c) = {}
                               /\ Elems(chain[u]) \subseteq Addr
      BY ElemsOf DEF Inv
    <3>3. QED
      BY <1>5, <3>1, <3>2
  <2>3. QED
    BY <1>1, <1>5, <1>6, <2>1, <2>2, OneMap
<1>8. Seen[v] = View(ents, c) /\ DOMAIN Seen[v] = 1 .. Len(c)
  BY <1>2 DEF Seen, View
<1>9. View(ents', c) = [Seen[v] EXCEPT ![i] = <<k, x>>]
  <2>1. \A j \in 1 .. Len(c) : j # i => c[j] \in Addr \ {e}
    BY <1>2, <1>3 DEF Sound
  <2>2. View(ents', c)[i] = <<k, x>>
    BY <1>2, <1>3, <1>4, <1>5 DEF View
  <2>3. \A j \in 1 .. Len(c) : j # i => View(ents', c)[j] = View(ents, c)[j]
    BY <1>2, <1>5, <2>1 DEF View
  <2>4. QED
    BY <1>2, <1>8, <2>2, <2>3 DEF View
<1>10. Seen[v][i][1] = k /\ k \in Map!Keys(Seen[v])
  BY <1>2, <1>3, <1>8 DEF View, Map!Keys
<1>11. Seen' = [Seen EXCEPT ![v][i] = <<k, x>>]
  <2>1. [Seen EXCEPT ![v][i] = <<k, x>>] = [Seen EXCEPT ![v] = [Seen[v] EXCEPT ![i] = <<k, x>>]]
    OBVIOUS
  <2>2. QED
    BY <1>7, <1>9, <2>1
<1>12. QED
  BY <1>7, <1>8, <1>10, <1>11 DEF Map!Put

\* The chain's last entry is found, and the new one follows it.
LEMMA LinkedIs ==
  ASSUME Inv, Idle, NEW v \in Var, NEW a \in Addr
  PROVE  Linked(v, a) = Append(chain[v], a)
<1> DEFINE c == chain[v]
<1>1. Sound(ents, c, Len(c)) /\ c \in Seq(Addr) /\ Len(c) \in Nat /\ DOMAIN c = 1 .. Len(c)
  BY Ready
<1>2. CASE c = <<>>
  <2>1. Append(c, a) = <<a>>
    BY <1>2
  <2>2. QED
    BY <1>2, <2>1 DEF Linked
<1>3. CASE c # <<>>
  <2>1. Len(c) \in 1 .. Len(c) /\ LastOf(v) = c[Len(c)]
    BY <1>1, <1>3 DEF LastOf, First, Sound
  <2>2. {i \in DOMAIN c : c[i] = LastOf(v)} = {Len(c)}
    BY <1>1, <2>1 DEF Sound
  <2>3. Least({Len(c)}) = Len(c)
    <3> DEFINE n == Len(c)
    <3>1. n <= n
      BY <1>1
    <3> HIDE DEF n
    <3>2. QED
      BY <3>1 DEF Least, n
  <2>4. Linked(v, a) = SubSeq(c, 1, Len(c)) \o <<a>>
    BY <1>3, <2>2, <2>3 DEF Linked
  <2>5. SubSeq(c, 1, Len(c)) = c /\ Append(c, a) = c \o <<a>>
    BY <1>1, SubSeqFull, AppendIsConcat
  <2>6. QED
    BY <2>4, <2>5
<1>4. QED
  BY <1>2, <1>3

\* Giving the head another index changes nothing else of a chain.
LEMMA SetIx ==
  ASSUME NEW es \in [Addr -> Entry], NEW h \in Addr, NEW y \in Index
  PROVE  LET fs == [es EXCEPT ![h].ix = y] IN
         /\ fs \in [Addr -> Entry]
         /\ \A b \in Addr : /\ fs[b].k = es[b].k /\ fs[b].s = es[b].s /\ fs[b].tl = es[b].tl
                            /\ fs[b].ix = IF b = h THEN y ELSE es[b].ix
                            /\ b # h => fs[b] = es[b]
<1> DEFINE fs == [es EXCEPT ![h].ix = y]
<1>1. fs[h] = [k |-> es[h].k, s |-> es[h].s, tl |-> es[h].tl, ix |-> y]
  <2>1. es[h] = [k |-> es[h].k, s |-> es[h].s, tl |-> es[h].tl, ix |-> es[h].ix]
    BY EntryFields
  <2>2. fs[h] = [es[h] EXCEPT !.ix = y]
    OBVIOUS
  <2>3. QED
    BY <2>1, <2>2
<1>2. fs[h] \in Entry
  BY <1>1, EntryFields DEF Entry
<1>3. \A b \in Addr \ {h} : fs[b] = es[b]
  OBVIOUS
<1>4. fs \in [Addr -> Entry]
  BY <1>2
<1>5. QED
  BY <1>1, <1>3, <1>4

\* Giving the head the index it has changes nothing.
LEMMA SameIx ==
  ASSUME NEW es \in [Addr -> Entry], NEW h \in Addr
  PROVE  [es EXCEPT ![h].ix = es[h].ix] = es
<1> DEFINE r == es[h]
<1>1. r = [k |-> r.k, s |-> r.s, tl |-> r.tl, ix |-> r.ix]
  BY EntryFields
<1>2. [r EXCEPT !.ix = r.ix] = r
  <2> HIDE DEF r
  <2>1. QED
    BY <1>1
<1>3. QED
  BY <1>2

\* Giving the head another tail changes nothing else of a chain.
LEMMA SetTl ==
  ASSUME NEW es \in [Addr -> Entry], NEW h \in Addr, NEW y \in Addr \cup {Null}
  PROVE  LET fs == [es EXCEPT ![h].tl = y] IN
         /\ fs \in [Addr -> Entry]
         /\ \A b \in Addr : /\ fs[b].k = es[b].k /\ fs[b].s = es[b].s /\ fs[b].ix = es[b].ix
                            /\ fs[b].tl = IF b = h THEN y ELSE es[b].tl
                            /\ b # h => fs[b] = es[b]
<1> DEFINE fs == [es EXCEPT ![h].tl = y]
<1>1. fs[h] = [k |-> es[h].k, s |-> es[h].s, tl |-> y, ix |-> es[h].ix]
  <2>1. es[h] = [k |-> es[h].k, s |-> es[h].s, tl |-> es[h].tl, ix |-> es[h].ix]
    BY EntryFields
  <2>2. fs[h] = [es[h] EXCEPT !.tl = y]
    OBVIOUS
  <2>3. QED
    BY <2>1, <2>2
<1>2. fs[h] \in Entry
  BY <1>1, EntryFields DEF Entry
<1>3. \A b \in Addr \ {h} : fs[b] = es[b]
  OBVIOUS
<1>4. fs \in [Addr -> Entry]
  BY <1>2
<1>5. QED
  BY <1>1, <1>3, <1>4

\* mp_add's new entry.
LEMMA NewEntry ==
  ASSUME NEW k \in Key, NEW x \in Value
  PROVE  [Blank EXCEPT !.k = k, !.s = x] = [k |-> k, s |-> x, tl |-> Null, ix |-> NoIx]
<1> DEFINE b == [Blank EXCEPT !.k = k]
<1>1. b = [k |-> k, s |-> Null, tl |-> Null, ix |-> NoIx]
  BY DEF Blank
<1>2. [b EXCEPT !.s = x] = [k |-> k, s |-> x, tl |-> Null, ix |-> NoIx]
  <2> HIDE DEF b
  <2>1. QED
    BY <1>1
<1>3. QED
  BY <1>2

\* A chain with one entry more, before its index hears of it.
LEMMA Longer ==
  ASSUME Inv, Idle, NEW v \in Var, NEW k \in Key, NEW a \in Addr \ Live,
         \A i \in 1 .. Len(chain[v]) : ents[chain[v][i]].k # k, NEW es,
         es[a].k = k, es[a].ix = NoIx,
         \A b \in Addr \ {a} : es[b].k = ents[b].k /\ es[b].ix = ents[b].ix
  PROVE  LET c == Append(chain[v], a) IN
         /\ c \in Seq(Addr) /\ Len(c) = Len(chain[v]) + 1 /\ c # <<>>
         /\ c[Len(c)] = a /\ a \notin Elems(chain[v])
         /\ \A i \in 1 .. Len(chain[v]) : c[i] = chain[v][i]
         /\ c[1] = IF chain[v] = <<>> THEN a ELSE chain[v][1]
         /\ \A i, j \in 1 .. Len(c) : es[c[i]].k = es[c[j]].k => i = j
         /\ \A i \in 1 .. Len(c) : es[c[i]].k \in Key
         /\ \A i \in 2 .. Len(c) : es[c[i]].ix = NoIx /\ c[i] # c[1]
<1> DEFINE d == chain[v]
           c == Append(d, a)
<1>1. /\ Sound(ents, d, Len(d)) /\ d \in Seq(Addr) /\ Len(d) \in Nat
      /\ DOMAIN d = 1 .. Len(d) /\ ents \in [Addr -> Entry] /\ Null \notin Key
  BY Ready
<1>2. /\ c \in Seq(Addr) /\ Len(c) = Len(d) + 1 /\ c # <<>>
      /\ \A i \in 1 .. Len(d) : c[i] = d[i]
      /\ c[Len(c)] = a
  BY <1>1, AppendProperties
<1> HIDE DEF c
<1>3. c[1] = IF d = <<>> THEN a ELSE d[1]
  <2>1. CASE d = <<>>
    <3>1. Len(c) = 1
      BY <1>2, <2>1
    <3>2. QED
      BY <1>2, <2>1, <3>1
  <2>2. CASE d # <<>>
    <3>1. 1 \in 1 .. Len(d)
      BY <1>1, <2>2
    <3>2. QED
      BY <1>1, <1>2, <2>2, <3>1
  <2>3. QED
    BY <2>1, <2>2
<1>4. \A i \in 1 .. Len(d) : d[i] \in Addr \ {a} /\ d[i] \in Live
  BY <1>1 DEF Sound, Live
<1>5. a \notin Elems(d)
  BY <1>1, <1>4 DEF Elems
<1>6. \A i \in 1 .. Len(d) : es[c[i]].k = ents[d[i]].k /\ es[c[i]].ix = ents[d[i]].ix
  BY <1>2, <1>4
<1>7. \A i \in 1 .. Len(c) : i \in 1 .. Len(d) \/ (i = Len(c) /\ c[i] = a)
  BY <1>1, <1>2
<1>8. \A i, j \in 1 .. Len(c) : es[c[i]].k = es[c[j]].k => i = j
  BY <1>1, <1>6, <1>7 DEF Sound
<1>9. \A i \in 1 .. Len(c) : es[c[i]].k \in Key
  BY <1>1, <1>6, <1>7 DEF Sound
<1>10. \A i \in 2 .. Len(c) : es[c[i]].ix = NoIx /\ c[i] # c[1]
  <2>1. SUFFICES ASSUME NEW i \in 2 .. Len(c) PROVE es[c[i]].ix = NoIx /\ c[i] # c[1]
    OBVIOUS
  <2>2. i \in 1 .. Len(c) /\ 1 \in 1 .. Len(c) /\ i # 1
    BY <1>1, <1>2
  <2>3. c[i] # c[1]
    BY <1>8, <2>2
  <2>4. i \in 1 .. Len(d) => i \in 2 .. Len(d)
    OBVIOUS
  <2>5. QED
    BY <1>1, <1>6, <1>7, <2>2, <2>3, <2>4 DEF Sound
<1>11. QED
  BY <1>2, <1>3, <1>5, <1>8, <1>9, <1>10 DEF c

\* What a script sees of a chain is as long as the chain.
LEMMA FunctionSeq ==
  ASSUME NEW T, NEW n \in Nat, NEW f \in [1 .. n -> T]
  PROVE  f \in Seq(T) /\ Len(f) = n
OBVIOUS

LEMMA ViewSeq ==
  ASSUME NEW es, NEW c \in Seq(Addr)
  PROVE  /\ Len(View(es, c)) = Len(c)
         /\ View(es, c) \in Seq({<<es[c[i]].k, es[c[i]].s>> : i \in 1 .. Len(c)})
<1> DEFINE T == {<<es[c[i]].k, es[c[i]].s>> : i \in 1 .. Len(c)}
           f == View(es, c)
<1>1. Len(c) \in Nat /\ DOMAIN c = 1 .. Len(c)
  OBVIOUS
<1>2. f = [i \in 1 .. Len(c) |-> <<es[c[i]].k, es[c[i]].s>>]
  BY <1>1 DEF View
<1>3. f \in [1 .. Len(c) -> T]
  BY <1>2
<1> HIDE DEF f, T
<1>4. f \in Seq(T) /\ Len(f) = Len(c)
  BY <1>1, <1>3, FunctionSeq
<1>5. QED
  BY <1>4 DEF f, T

LEMMA PutNewStep ==
  ASSUME Inv, NEW v \in Var, NEW k \in Key, NEW x \in Value,
         NEW bs \in Alloc(Addr \ Live, 1), PutNew(v, k, x, bs)
  PROVE  Inv' /\ Map!Put(v, k, x)
<1> DEFINE d == chain[v]
           a == bs[1]
           c == Append(d, a)
           h == c[1]
           n == count[v] + 1
           es == [[ents EXCEPT ![a] = [Blank EXCEPT !.k = k, !.s = x]] EXCEPT ![h].tl = a]
           ix == es[h].ix
<1>1. Idle /\ Find(v, k) = Null /\ count' = [count EXCEPT ![v] = n]
  BY DEF PutNew
<1>2. /\ Sound(ents, d, Len(d)) /\ d \in Seq(Addr) /\ Len(d) \in Nat
      /\ DOMAIN d = 1 .. Len(d) /\ count[v] = Len(d) /\ ents \in [Addr -> Entry]
  BY <1>1, Ready
<1>3. \A i \in 1 .. Len(d) : ents[d[i]].k # k
  <2>1. \A i \in 1 .. Len(d) : d[i] # Null
    BY <1>2, MapAssumption
  <2>2. QED
    BY <1>1, <2>1, FindIs
<1>4. a \in Addr \ Live
  <2>1. 1 \in 0 .. Cardinality(Key)
    <3>1. Cardinality(Key) \in Nat /\ Cardinality(Key) # 0
      BY MapAssumption, FS_CardinalityType, FS_EmptySet
    <3>2. QED
      BY <3>1
  <2>2. bs \in [1 .. 1 -> Addr \ Live]
    BY <2>1, MapAssumption
  <2>3. 1 \in 1 .. 1
    OBVIOUS
  <2>4. bs[1] \in Addr \ Live
    BY <2>2, <2>3
  <2>5. QED
    BY <2>4
<1>5. Linked(v, a) = c
  BY <1>1, <1>4, LinkedIs
<1>0. /\ chain' = [chain EXCEPT ![v] = c]
      /\ \/ (IF ix.cap > 0 THEN Crowded(ix) ELSE n >= MpHash) /\ Build(v, h, es, n)
         \/ /\ ix.cap > 0 /\ ~Crowded(ix)
            /\ ents' = [es EXCEPT ![h].ix = IxPut(ix, a, es)] /\ UNCHANGED todo
         \/ /\ ix.cap = 0 /\ n < MpHash
            /\ ents' = es /\ UNCHANGED todo
  BY <1>5 DEF PutNew
<1> HIDE DEF a
<1>7. h = c[1] /\ c = Append(d, a)
  OBVIOUS
<1>17. h \in Addr
  BY <1>2, <1>4, AppendProperties
<1>18. /\ es \in [Addr -> Entry]
       /\ es[a].k = k /\ es[a].s = x /\ es[a].ix = NoIx /\ es[h].tl = a
       /\ \A b \in Addr \ {a} : /\ es[b].k = ents[b].k /\ es[b].s = ents[b].s
                                /\ es[b].ix = ents[b].ix
                                /\ b # h => es[b] = ents[b]
  <2> DEFINE new == [Blank EXCEPT !.k = k, !.s = x]
             fs == [ents EXCEPT ![a] = new]
             gs == [fs EXCEPT ![h].tl = a]
  <2>1. new = [k |-> k, s |-> x, tl |-> Null, ix |-> NoIx] /\ new \in Entry
    <3>1. new = [k |-> k, s |-> x, tl |-> Null, ix |-> NoIx]
      BY NewEntry
    <3> HIDE DEF new
    <3>2. QED
      BY <3>1, BlankEntry DEF Entry
  <2> HIDE DEF h
  <2>2. es = gs
    OBVIOUS
  <2> HIDE DEF es, new
  <2>3. /\ fs \in [Addr -> Entry] /\ fs[a].k = k /\ fs[a].s = x /\ fs[a].ix = NoIx
        /\ \A b \in Addr \ {a} : fs[b] = ents[b]
    BY <1>2, <1>4, <2>1
  <2> HIDE DEF fs
  <2>4. /\ gs \in [Addr -> Entry]
        /\ \A b \in Addr : /\ gs[b].k = fs[b].k /\ gs[b].s = fs[b].s /\ gs[b].ix = fs[b].ix
                           /\ gs[b].tl = IF b = h THEN a ELSE fs[b].tl
                           /\ b # h => gs[b] = fs[b]
    BY <1>4, <1>17, <2>3, SetTl
  <2> HIDE DEF gs
  <2>5. QED
    BY <1>4, <1>17, <2>2, <2>3, <2>4
<1> HIDE DEF es, h
<1>19. /\ c \in Seq(Addr) /\ Len(c) = Len(d) + 1 /\ c # <<>>
       /\ c[Len(c)] = a /\ a \notin Elems(d)
       /\ c[1] = IF d = <<>> THEN a ELSE d[1]
       /\ \A i, j \in 1 .. Len(c) : es[c[i]].k = es[c[j]].k => i = j
       /\ \A i \in 1 .. Len(c) : es[c[i]].k \in Key
       /\ \A i \in 2 .. Len(c) : es[c[i]].ix = NoIx /\ c[i] # c[1]
  <2>1. /\ \A b \in Addr \ {a} : es[b].k = ents[b].k /\ es[b].ix = ents[b].ix
        /\ es[a].k = k /\ es[a].ix = NoIx
    BY <1>18
  <2>2. \A i \in 1 .. Len(chain[v]) : ents[chain[v][i]].k # k
    BY <1>3
  <2> HIDE <1>18
  <2>3. Idle /\ a \in Addr \ Live
    BY <1>1, <1>4
  <2> HIDE DEF d, n, ix
  <2>4. LET q == Append(chain[v], a) IN
        /\ q \in Seq(Addr) /\ Len(q) = Len(chain[v]) + 1 /\ q # <<>>
        /\ q[Len(q)] = a /\ a \notin Elems(chain[v])
        /\ q[1] = IF chain[v] = <<>> THEN a ELSE chain[v][1]
        /\ \A i, j \in 1 .. Len(q) : es[q[i]].k = es[q[j]].k => i = j
        /\ \A i \in 1 .. Len(q) : es[q[i]].k \in Key
        /\ \A i \in 2 .. Len(q) : es[q[i]].ix = NoIx /\ q[i] # q[1]
    <3> HIDE DEF c
    <3>1. QED
      BY <2>1, <2>2, <2>3, Longer
  <2>5. c = Append(chain[v], a) /\ d = chain[v]
    BY DEF d
  <2>6. QED
    BY <2>4, <2>5
<1> HIDE DEF c
<1>6. /\ c \in Seq(Addr) /\ Len(c) = Len(d) + 1 /\ c # <<>> /\ h \in Addr
      /\ es \in [Addr -> Entry] /\ a \notin Elems(d)
      /\ es[a].k = k /\ es[a].s = x /\ (a # h => es[a].ix = NoIx)
      /\ es[h].tl = a /\ c[Len(c)] = a
      /\ \A b \in Elems(d) : es[b].k = ents[b].k /\ es[b].s = ents[b].s
                             /\ es[b].ix = ents[b].ix
      /\ \A b \in Addr : b # a /\ b # h => es[b] = ents[b]
      /\ h = IF d = <<>> THEN a ELSE d[1]
      /\ d = <<>> => es[h].ix = NoIx
      /\ \A i, j \in 1 .. Len(c) : es[c[i]].k = es[c[j]].k => i = j
      /\ \A i \in 1 .. Len(c) : es[c[i]].k \in Key
      /\ \A i \in 2 .. Len(c) : es[c[i]].ix = NoIx /\ c[i] # h
  <2>1. Elems(d) \subseteq Addr
    BY <1>2, ElemsOf
  <2>2. QED
    BY <1>7, <1>17, <1>18, <1>19, <2>1
<1>8. n = Len(c) /\ n \in Nat \ {0}
  BY <1>2, <1>6
<1> HIDE DEF n
<1>9. Upto(c, n) = Elems(d) \cup {a} /\ Elems(c) = Elems(d) \cup {a} /\ Elems(d) \subseteq Addr
  <2>1. /\ \A i \in 1 .. Len(d) : c[i] = d[i]
        /\ \A i \in 1 .. Len(c) : i \in 1 .. Len(d) \/ i = Len(c)
        /\ Len(c) \in 1 .. Len(c) /\ \A i \in 1 .. Len(d) : i \in 1 .. Len(c)
    BY <1>2, <1>4, <1>6, <1>7, AppendProperties
  <2>2. Elems(c) = Upto(c, n) /\ Elems(d) = Upto(d, Len(d)) /\ Elems(d) \subseteq Addr
    BY <1>2, <1>6, <1>8, ElemsOf
  <2>3. Upto(c, n) = Upto(d, Len(d)) \cup {a}
    BY <1>6, <1>8, <2>1 DEF Upto
  <2>4. QED
    BY <2>2, <2>3
<1>10. SUFFICES ASSUME NEW y \in Index, NEW m,
                       ents' = [es EXCEPT ![h].ix = y],
                       \/ todo' = Done /\ m = n
                       \/ todo' = [map |-> v, i |-> 1] /\ m = 0 /\ y.cap > 0,
                       y.cap > 0 => /\ Fits(y, Upto(c, m), es) /\ y.n = m
                                    /\ m < n => y.dead = 0 /\ y.cap > n
                PROVE  Inv' /\ Map!Put(v, k, x)
  <2>1. CASE Build(v, h, es, n)
    <3> DEFINE y == Empty(NewCap(n))
    <3>1. NewCap(n) \in Nat /\ NewCap(n) >= 4 /\ NewCap(n) > n
      BY <1>8, CapHolds
    <3>2. Fits(y, {}, es) /\ y.cap = NewCap(n) /\ y.n = 0 /\ y.dead = 0
      BY <3>1, EmptyFits
    <3>3. ents' = [es EXCEPT ![h].ix = y] /\ todo' = [map |-> v, i |-> 1]
      BY <2>1 DEF Build
    <3> HIDE DEF y
    <3>4. Upto(c, 0) = {} /\ y \in Index
      BY <3>2 DEF Upto, Fits
    <3>5. y.cap > 0 /\ y.cap > n
      BY <1>8, <3>1, <3>2
    <3>6. QED
      BY <1>10, <3>2, <3>3, <3>4, <3>5
  <2>2. CASE /\ ix.cap > 0 /\ ~Crowded(ix)
             /\ ents' = [es EXCEPT ![h].ix = IxPut(ix, a, es)] /\ UNCHANGED todo
    <3>1. d # <<>>
      BY <1>6, <2>2, BlankEntry
    <3>2. 1 \in 1 .. Len(d) /\ h = d[1]
      BY <1>2, <1>6, <3>1
    <3>3. ix = ents[d[1]].ix
      BY <1>2, <1>6, <3>2 DEF Elems
    <3> HIDE DEF ix
    <3>4. Fits(ix, Elems(d), ents) /\ ix.n = Len(d)
      <4>1. Elems(d) = Upto(d, Len(d))
        BY <1>2, ElemsOf
      <4>2. QED
        BY <1>2, <2>2, <3>1, <3>3, <4>1 DEF Sound
    <3>5. Fits(ix, Elems(d), es)
      BY <1>6, <3>4, FitsByKeys
    <3>6. \A b \in Elems(d) : es[b].k # k
      BY <1>2, <1>3, <1>6 DEF Elems
    <3>7. ix.n + ix.dead + 1 < ix.cap
      <4>1. ix.n \in Nat /\ ix.dead \in Nat /\ ix.cap \in Nat /\ ix.cap >= 4
        BY <3>5, IndexFields DEF Fits
      <4>2. QED
        BY <2>2, <4>1 DEF Crowded
    <3> DEFINE y == IxPut(ix, a, es)
    <3>8. Fits(y, Elems(d) \cup {a}, es) /\ y.n = ix.n + 1
      <4>1. a \in Addr \ Elems(d) /\ es[a].k = k /\ Elems(d) \in SUBSET Addr
        BY <1>4, <1>6, <1>9
      <4>2. QED
        BY <3>5, <3>6, <3>7, <4>1, PutFits
    <3>9. todo' = Done /\ ents' = [es EXCEPT ![h].ix = y]
      BY <1>1, <2>2 DEF Idle
    <3> HIDE DEF y
    <3>10. y.n = n /\ Fits(y, Upto(c, n), es) /\ y \in Index
      BY <1>2, <1>6, <1>8, <1>9, <3>4, <3>8 DEF Fits
    <3>11. ~(n < n)
      BY <1>8
    <3>12. QED
      BY <1>10, <3>9, <3>10, <3>11
  <2>3. CASE ix.cap = 0 /\ ents' = es /\ UNCHANGED todo
    <3>1. es = [es EXCEPT ![h].ix = ix]
      BY <1>6, SameIx, Zenon
    <3>2. ix \in Index
      BY <1>6, EntryFields
    <3> HIDE DEF ix
    <3>5. ~(ix.cap > 0)
      BY <2>3
    <3>3. todo' = Done /\ ents' = [es EXCEPT ![h].ix = ix]
      BY <1>1, <2>3, <3>1 DEF Idle
    <3>4. QED
      BY <1>10, <3>2, <3>3, <3>5
  <2>4. QED
    BY <1>0, <2>1, <2>2, <2>3
<1>11. /\ ents' \in [Addr -> Entry]
       /\ \A b \in Addr : /\ ents'[b].k = es[b].k /\ ents'[b].s = es[b].s
                          /\ ents'[b].tl = es[b].tl
                          /\ ents'[b].ix = IF b = h THEN y ELSE es[b].ix
                          /\ b # h => ents'[b] = es[b]
  BY <1>6, <1>10, SetIx
<1>12. Sound(ents', c, m)
  <2>1. m \in 0 .. Len(c)
    BY <1>8, <1>10
  <2>2. \A i \in 1 .. Len(c) : c[i] \in Addr /\ ents'[c[i]].k = es[c[i]].k
    BY <1>6, <1>11
  <2>3. \A i \in 2 .. Len(c) : ents'[c[i]].ix = NoIx
    <3>1. \A i \in 2 .. Len(c) : c[i] \in Addr
      BY <1>6
    <3>2. QED
      BY <1>6, <1>11, <3>1
  <2>4. ents'[c[1]].tl = c[Len(c)] /\ ents'[c[1]].ix = y
    BY <1>6, <1>7, <1>11
  <2>5. \A b \in Upto(c, m) : ents'[b].k = es[b].k
    BY <2>1, <2>2 DEF Upto
  <2>6. y.cap > 0 => Fits(y, Upto(c, m), ents')
    BY <1>10, <2>5, FitsByKeys
  <2>7. QED
    BY <1>6, <1>8, <1>10, <2>1, <2>2, <2>3, <2>4, <2>6 DEF Sound
<1>13. Inv' /\ Seen' = [Seen EXCEPT ![v] = View(ents', c)]
  <2>1. \A u \in Var \ {v} : \A b \in Elems(chain[u]) :
          ents'[b] = ents[b] /\ b \notin Elems(c)
    <3> SUFFICES ASSUME NEW u \in Var \ {v}, NEW b \in Elems(chain[u])
                 PROVE  ents'[b] = ents[b] /\ b \notin Elems(c)
      OBVIOUS
    <3>1. b \in Addr /\ b \in Live /\ b \notin Elems(d)
      <4>1. Sound(ents, chain[u], Len(chain[u])) /\ Elems(chain[u]) \cap Elems(d) = {}
        BY <1>1, Ready DEF Inv
      <4>2. chain[u] \in Seq(Addr) /\ Null \notin Key
        BY MapAssumption DEF Inv
      <4>3. b \in Upto(chain[u], Len(chain[u])) /\ b \in Addr
        BY <4>2, ElemsOf
      <4>4. ents[b].k \in Key
        BY <4>1, <4>3 DEF Sound, Upto
      <4>5. QED
        BY <4>1, <4>2, <4>3, <4>4 DEF Live
    <3>2. b # a /\ b # h
      <4>1. d # <<>> => d[1] \in Elems(d)
        BY <1>2 DEF Elems
      <4>2. QED
        BY <1>4, <1>6, <3>1, <4>1
    <3>3. QED
      BY <1>6, <1>9, <1>11, <3>1, <3>2
  <2>2. count' = [count EXCEPT ![v] = Len(c)]
    BY <1>1, <1>8
  <2>3. \/ todo' = Done /\ Sound(ents', c, Len(c))
        \/ /\ todo' = [map |-> v, i |-> 1] /\ c # <<>>
           /\ ents'[c[1]].ix.cap > 0 /\ Sound(ents', c, 0)
    BY <1>6, <1>7, <1>8, <1>10, <1>11, <1>12
  <2>4. QED
    BY <1>0, <1>1, <1>11, <2>1, <2>2, <2>3, OneMap
<1>14. View(ents', c) = Append(View(ents, d), <<k, x>>)
  <2>1. \A i \in 1 .. Len(d) : /\ c[i] = d[i] /\ d[i] \in Elems(d) /\ d[i] \in Addr
                              /\ ents'[c[i]].k = ents[d[i]].k
                              /\ ents'[c[i]].s = ents[d[i]].s
    BY <1>2, <1>4, <1>6, <1>7, <1>11, AppendProperties DEF Elems
  <2>2. ents'[c[Len(c)]].k = k /\ ents'[c[Len(c)]].s = x
    BY <1>4, <1>6, <1>11
  <2>3. DOMAIN c = 1 .. Len(d) + 1 /\ DOMAIN d = 1 .. Len(d)
    BY <1>2, <1>6
  <2> DEFINE V == View(ents, d)
  <2>4. V = [i \in 1 .. Len(d) |-> <<ents[d[i]].k, ents[d[i]].s>>]
    BY <2>3 DEF View
  <2>5. Len(V) = Len(d) /\ \E T : V \in Seq(T)
    BY <1>2, ViewSeq
  <2> HIDE DEF V
  <2>6. Append(V, <<k, x>>) = [i \in 1 .. Len(d) + 1 |->
                                 IF i = Len(d) + 1 THEN <<k, x>> ELSE V[i]]
    BY <1>2, <2>5
  <2>7. View(ents', c) = [i \in 1 .. Len(d) + 1 |->
                            IF i = Len(d) + 1 THEN <<k, x>> ELSE V[i]]
    BY <1>2, <1>6, <2>1, <2>2, <2>3, <2>4 DEF View
  <2>8. QED
    BY <2>6, <2>7 DEF V
<1>15. Seen[v] = View(ents, d) /\ k \notin Map!Keys(Seen[v])
  BY <1>2, <1>3 DEF Seen, View, Map!Keys
<1>16. QED
  BY <1>13, <1>14, <1>15 DEF Map!Put

\* A sequence without its i-th element.
LEMMA Cut ==
  ASSUME NEW T, NEW s \in Seq(T), NEW i \in 1 .. Len(s)
  PROVE  LET w == SubSeq(s, 1, i - 1) \o SubSeq(s, i + 1, Len(s)) IN
         /\ w \in Seq(T) /\ Len(w) = Len(s) - 1 /\ Len(s) - 1 \in Nat
         /\ \A j \in 1 .. Len(s) - 1 : w[j] = IF j < i THEN s[j] ELSE s[j + 1]
<1> DEFINE p == SubSeq(s, 1, i - 1)
           q == SubSeq(s, i + 1, Len(s))
           w == p \o q
<1>1. Len(s) \in Nat /\ i \in Nat /\ \A j \in 1 .. Len(s) : s[j] \in T
  OBVIOUS
<1>2. /\ p \in Seq(T) /\ Len(p) = i - 1 /\ \A j \in 1 .. i - 1 : p[j] = s[j]
  <2>1. \A j \in 1 .. i - 1 : s[j] \in T
    BY <1>1
  <2>2. 1 \in Int /\ i - 1 \in Int
    BY <1>1
  <2>3. /\ SubSeq(s, 1, i - 1) \in Seq(T)
        /\ Len(SubSeq(s, 1, i - 1)) = IF 1 <= i - 1 THEN i - 1 - 1 + 1 ELSE 0
        /\ \A j \in 1 .. i - 1 - 1 + 1 : SubSeq(s, 1, i - 1)[j] = s[1 + j - 1]
    BY <2>1, <2>2, SubSeqProperties
  <2>4. QED
    BY <1>1, <2>3
<1>3. /\ q \in Seq(T) /\ Len(q) = Len(s) - i
      /\ \A j \in 1 .. Len(s) - i : q[j] = s[i + j]
  <2>1. \A j \in i + 1 .. Len(s) : s[j] \in T
    BY <1>1
  <2>2. i + 1 \in Int /\ Len(s) \in Int
    BY <1>1
  <2>3. /\ SubSeq(s, i + 1, Len(s)) \in Seq(T)
        /\ Len(SubSeq(s, i + 1, Len(s))) =
             IF i + 1 <= Len(s) THEN Len(s) - (i + 1) + 1 ELSE 0
        /\ \A j \in 1 .. Len(s) - (i + 1) + 1 :
             SubSeq(s, i + 1, Len(s))[j] = s[i + 1 + j - 1]
    BY <2>1, <2>2, SubSeqProperties
  <2>4. QED
    BY <1>1, <2>3
<1> HIDE DEF p, q
<1>4. /\ w \in Seq(T) /\ Len(w) = Len(p) + Len(q)
      /\ \A j \in 1 .. Len(p) + Len(q) :
           w[j] = IF j <= Len(p) THEN p[j] ELSE q[j - Len(p)]
  BY <1>2, <1>3, ConcatProperties
<1> HIDE DEF w
<1>5. ASSUME NEW j \in 1 .. Len(s) - 1
      PROVE  w[j] = IF j < i THEN s[j] ELSE s[j + 1]
  <2>1. w[j] = IF j <= i - 1 THEN p[j] ELSE q[j - (i - 1)]
    BY <1>1, <1>2, <1>3, <1>4
  <2>2. CASE j < i
    BY <1>1, <1>2, <2>1, <2>2
  <2>3. CASE ~(j < i)
    <3>1. j - (i - 1) \in 1 .. Len(s) - i /\ i + (j - (i - 1)) = j + 1
      BY <1>1, <2>3
    <3>2. q[j - (i - 1)] = s[j + 1]
      BY <1>3, <3>1
    <3>3. QED
      BY <1>1, <2>1, <2>3, <3>2
  <2>4. QED
    BY <2>2, <2>3
<1>6. Len(w) = Len(s) - 1 /\ Len(s) - 1 \in Nat
  BY <1>1, <1>2, <1>3, <1>4
<1>7. QED
  BY <1>4, <1>5, <1>6 DEF w, p, q

\* The chain without one of its entries.
LEMMA WithoutIs ==
  ASSUME NEW c \in Seq(Addr), NEW i \in 1 .. Len(c),
         \A g, h \in 1 .. Len(c) : c[g] = c[h] => g = h
  PROVE  LET w == Without(c, c[i]) IN
         /\ Spot(c, c[i]) = i
         /\ w \in Seq(Addr) /\ Len(w) = Len(c) - 1 /\ Len(w) \in Nat
         /\ \A j \in 1 .. Len(w) : w[j] = IF j < i THEN c[j] ELSE c[j + 1]
         /\ Elems(w) = Elems(c) \ {c[i]}
<1> DEFINE w == SubSeq(c, 1, i - 1) \o SubSeq(c, i + 1, Len(c))
<1>1. Len(c) \in Nat /\ DOMAIN c = 1 .. Len(c) /\ \A j \in 1 .. Len(c) : c[j] \in Addr
  OBVIOUS
<1>2. Spot(c, c[i]) = i
  <2>1. \A g \in DOMAIN c : c[g] = c[i] <=> g = i
    BY <1>1
  <2>2. i \in DOMAIN c
    BY <1>1
  <2>3. (CHOOSE g \in DOMAIN c : c[g] = c[i]) \in DOMAIN c
        /\ c[CHOOSE g \in DOMAIN c : c[g] = c[i]] = c[i]
    BY <2>2
  <2>4. QED
    BY <2>1, <2>3 DEF Spot
<1>3. Without(c, c[i]) = w
  BY <1>2 DEF Without
<1>4. /\ w \in Seq(Addr) /\ Len(w) = Len(c) - 1 /\ Len(c) - 1 \in Nat
      /\ \A j \in 1 .. Len(c) - 1 : w[j] = IF j < i THEN c[j] ELSE c[j + 1]
  BY Cut
<1> HIDE DEF w
<1>5. Elems(w) = Elems(c) \ {c[i]}
  <2>1. DOMAIN w = 1 .. Len(c) - 1
    BY <1>4
  <2>2. ASSUME NEW j \in DOMAIN w
        PROVE  w[j] \in Elems(c) \ {c[i]}
    <3>1. j \in 1 .. Len(c) /\ j + 1 \in 1 .. Len(c)
      BY <1>1, <2>1
    <3>2. j < i => j # i
      BY <1>1, <2>1
    <3>3. ~(j < i) => j + 1 # i
      BY <1>1, <2>1
    <3>4. CASE j < i
      BY <1>1, <1>4, <2>1, <3>1, <3>2, <3>4 DEF Elems
    <3>5. CASE ~(j < i)
      <4>1. w[j] = c[j + 1] /\ j + 1 \in DOMAIN c /\ c[j + 1] # c[i]
        BY <1>1, <1>4, <2>1, <3>1, <3>3, <3>5
      <4>2. QED
        BY <4>1 DEF Elems
    <3>6. QED
      BY <3>4, <3>5
  <2>3. ASSUME NEW j \in 1 .. Len(c), c[j] # c[i]
        PROVE  \E g \in DOMAIN w : w[g] = c[j]
    <3>1. CASE j < i
      <4>1. j \in 1 .. Len(c) - 1
        BY <1>1, <3>1
      <4>2. QED
        BY <1>4, <2>1, <3>1, <4>1
    <3>2. CASE j > i
      <4>1. j - 1 \in 1 .. Len(c) - 1 /\ ~(j - 1 < i) /\ (j - 1) + 1 = j
        BY <1>1, <3>2
      <4>2. QED
        BY <1>4, <2>1, <4>1
    <3>3. j # i
      BY <2>3
    <3>4. QED
      BY <1>1, <3>1, <3>2, <3>3
  <2>4. QED
    BY <1>1, <2>2, <2>3 DEF Elems
<1>6. QED
  BY <1>2, <1>3, <1>4, <1>5

\* And what a script sees of it.
LEMMA ViewWithout ==
  ASSUME NEW c \in Seq(Addr), NEW i \in 1 .. Len(c), NEW es, NEW fs, NEW w \in Seq(Addr),
         Len(w) = Len(c) - 1,
         \A j \in 1 .. Len(w) : w[j] = IF j < i THEN c[j] ELSE c[j + 1],
         \A j \in 1 .. Len(w) : fs[w[j]].k = es[w[j]].k /\ fs[w[j]].s = es[w[j]].s
  PROVE  LET s == View(es, c) IN
           View(fs, w) = SubSeq(s, 1, i - 1) \o SubSeq(s, i + 1, Len(s))
<1> DEFINE s == View(es, c)
           u == SubSeq(s, 1, i - 1) \o SubSeq(s, i + 1, Len(s))
<1>1. Len(c) \in Nat /\ Len(w) \in Nat /\ DOMAIN c = 1 .. Len(c) /\ DOMAIN w = 1 .. Len(w)
  OBVIOUS
<1>2. PICK T : s \in Seq(T)
  BY ViewSeq
<1>3. Len(s) = Len(c) /\ \A j \in 1 .. Len(c) : s[j] = <<es[c[j]].k, es[c[j]].s>>
  BY <1>1, ViewSeq DEF View
<1> HIDE DEF s
<1>4. /\ u \in Seq(T) /\ Len(u) = Len(s) - 1
      /\ \A j \in 1 .. Len(s) - 1 : u[j] = IF j < i THEN s[j] ELSE s[j + 1]
  BY <1>2, <1>3, Cut
<1> HIDE DEF u
<1>5. u = [j \in 1 .. Len(w) |-> u[j]]
  BY <1>1, <1>3, <1>4
<1>6. ASSUME NEW j \in 1 .. Len(w)
      PROVE  u[j] = <<fs[w[j]].k, fs[w[j]].s>>
  <2>1. j \in 1 .. Len(c) /\ j + 1 \in 1 .. Len(c) /\ j \in 1 .. Len(s) - 1
    BY <1>1, <1>3
  <2>2. CASE j < i
    <3>1. w[j] = c[j] /\ u[j] = s[j]
      BY <1>4, <2>1, <2>2
    <3>2. QED
      BY <1>3, <2>1, <3>1
  <2>3. CASE ~(j < i)
    <3>1. w[j] = c[j + 1] /\ u[j] = s[j + 1]
      BY <1>4, <2>1, <2>3
    <3>2. QED
      BY <1>3, <2>1, <3>1
  <2>4. QED
    BY <2>2, <2>3
<1>7. View(fs, w) = [j \in 1 .. Len(w) |-> <<fs[w[j]].k, fs[w[j]].s>>]
  BY <1>1 DEF View
<1>8. View(fs, w) = u
  BY <1>5, <1>6, <1>7
<1>9. QED
  BY <1>8 DEF u, s

\* v_delp on a key there is.
LEMMA DelStep ==
  ASSUME Inv, NEW v \in Var, NEW k \in Key, Del(v, k)
  PROVE  Inv' /\ Map!Del(v, k)
<1> DEFINE d == chain[v]
           e == Find(v, k)
           h == d[1]
           w == Without(d, e)
           x == ents[h].ix
           y == IxDel(x, e)
           tl == ents[h].tl
<1>1. Idle /\ e # Null
  BY DEF Del
<1>2. /\ Sound(ents, d, Len(d)) /\ d \in Seq(Addr) /\ Len(d) \in Nat
      /\ DOMAIN d = 1 .. Len(d) /\ count[v] = Len(d) /\ ents \in [Addr -> Entry]
      /\ Null \notin Addr /\ Elems(d) = Upto(d, Len(d)) /\ Elems(d) \subseteq Addr
  BY <1>1, Ready, ElemsOf
<1>3. PICK i \in 1 .. Len(d) : e = d[i] /\ ents[d[i]].k = k
  BY <1>1, FindIs
<1>4. /\ e \in Addr /\ e \in Elems(d) /\ h \in Addr /\ h \in Elems(d) /\ d # <<>>
      /\ 1 \in 1 .. Len(d)
  BY <1>2, <1>3 DEF Elems
<1>5. \A g, j \in 1 .. Len(d) : d[g] = d[j] => g = j
  BY <1>2 DEF Sound
<1>6. /\ Spot(d, e) = i
      /\ w \in Seq(Addr) /\ Len(w) = Len(d) - 1 /\ Len(w) \in Nat
      /\ \A j \in 1 .. Len(w) : w[j] = IF j < i THEN d[j] ELSE d[j + 1]
      /\ Elems(w) = Elems(d) \ {e}
  <2> DEFINE u == Without(d, d[i])
  <2>1. /\ Spot(d, d[i]) = i
        /\ u \in Seq(Addr) /\ Len(u) = Len(d) - 1 /\ Len(u) \in Nat
        /\ \A j \in 1 .. Len(u) : u[j] = IF j < i THEN d[j] ELSE d[j + 1]
        /\ Elems(u) = Elems(d) \ {d[i]}
    <3>1. d \in Seq(Addr) /\ i \in 1 .. Len(d)
      BY <1>2
    <3> HIDE DEF d
    <3>2. QED
      BY <1>5, <3>1, WithoutIs
  <2>2. w = u
    BY <1>3
  <2> HIDE DEF u, w, e
  <2>3. QED
    BY <1>3, <2>1, <2>2
<1>7. /\ chain' = [chain EXCEPT ![v] = w]
      /\ count' = [count EXCEPT ![v] = Len(w)]
      /\ todo' = Done
      /\ ents' =
           IF e # h THEN [[ents EXCEPT ![h].ix = y]
                            EXCEPT ![h].tl = Moved(tl, e, d[i - 1]), ![e] = Blank]
           ELSE IF w = <<>> THEN [ents EXCEPT ![e] = Blank]
           ELSE [ents EXCEPT ![w[1]].tl = Moved(tl, e, w[1]), ![w[1]].ix = y, ![e] = Blank]
  <2>1. count' = [count EXCEPT ![v] = count[v] - 1]
    BY DEF Del
  <2>2. todo' = todo
    BY DEF Del
  <2>3. QED
    BY <1>1, <1>2, <1>6, <2>1, <2>2 DEF Del, First, Idle
<1>8. /\ x \in Index /\ tl \in Addr \cup {Null} /\ tl \in {Null, d[Len(d)]}
  BY <1>2, <1>4, EntryFields DEF Sound
<1>9. /\ y \in Index /\ (y.cap > 0 => Fits(y, Elems(w), ents) /\ y.n = Len(w))
  <2>1. CASE x.cap > 0
    <3>1. Fits(x, Elems(d), ents) /\ x.n = Len(d)
      BY <1>2, <1>4, <2>1 DEF Sound
    <3> HIDE DEF x
    <3>2. Fits(y, Elems(d) \ {e}, ents) /\ y.cap = x.cap /\ y.n = x.n - 1
      BY <1>2, <1>4, <3>1, DelFits
    <3> HIDE DEF y
    <3>3. QED
      BY <1>6, <3>1, <3>2 DEF Fits
  <2>2. CASE ~(x.cap > 0)
    <3>1. x.cap = 0
      BY <1>8, <2>2, IndexFields
    <3>2. 0 .. x.cap - 1 = {}
      BY <3>1
    <3>3. y = x
      BY <3>2 DEF IxDel
    <3>4. QED
      BY <1>8, <2>2, <3>3
  <2>3. QED
    BY <2>1, <2>2
<1> HIDE DEF y, w, x, tl, h, e
<1>10. w # <<>> => /\ 1 \in 1 .. Len(w) /\ Len(w) \in 1 .. Len(w) /\ w[1] \in Elems(w)
                   /\ w[1] \in Addr /\ w[1] # e
  <2>1. w # <<>> => Len(w) >= 1
    BY <1>6, ElemsOf
  <2>2. DOMAIN w = 1 .. Len(w)
    BY <1>6
  <2>3. w # <<>> => w[1] \in Elems(w)
    BY <1>6, <2>1, <2>2 DEF Elems
  <2>4. QED
    BY <1>2, <1>6, <2>1, <2>3
<1>11. /\ ents' \in [Addr -> Entry]
       /\ \A b \in Addr \ {e} : ents'[b].k = ents[b].k /\ ents'[b].s = ents[b].s
       /\ \A b \in Addr \ {e} : w = <<>> \/ b # w[1] => ents'[b] = ents[b]
       /\ w # <<>> => ents'[w[1]].ix = y /\ ents'[w[1]].tl \in {Null, w[Len(w)]}
  <2>1. CASE e # h
    <3> DEFINE to == Moved(tl, e, d[i - 1])
               f == [ents EXCEPT ![h].ix = y]
               g == [f EXCEPT ![h].tl = to]
    <3>1. i - 1 \in 1 .. Len(d) /\ i # 1 /\ Len(d) >= 2
      BY <1>2, <1>3, <2>1 DEF h
    <3>2. to \in Addr \cup {Null}
      BY <1>2, <1>8, <3>1 DEF Moved
    <3>3. w # <<>> /\ w[1] = h
      <4>1. Len(w) >= 1
        BY <1>2, <1>6, <3>1
      <4>2. 1 \in 1 .. Len(w) /\ 1 < i
        BY <1>6, <3>1, <4>1
      <4>3. QED
        BY <1>6, <4>1, <4>2, ElemsOf DEF h
    <3>4. to \in {Null, w[Len(w)]}
      <4>1. CASE i = Len(d)
        <5>1. w[Len(w)] = d[i - 1]
          BY <1>2, <1>6, <1>10, <3>1, <3>3, <4>1
        <5>2. tl = Null \/ tl = e
          BY <1>3, <1>8, <4>1
        <5>3. QED
          BY <5>1, <5>2 DEF Moved
      <4>2. CASE i # Len(d)
        <5>1. w[Len(w)] = d[Len(d)]
          <6>1. ~(Len(w) < i) /\ Len(w) + 1 = Len(d)
            BY <1>2, <1>6, <4>2
          <6>2. QED
            BY <1>6, <1>10, <3>3, <6>1
        <5>2. d[Len(d)] # e
          BY <1>2, <1>3, <1>4, <1>5, <4>2
        <5>3. e # Null
          BY <1>1
        <5>4. QED
          BY <1>8, <5>1, <5>2, <5>3 DEF Moved
      <4>3. QED
        BY <4>1, <4>2
    <3>5. ents' = [g EXCEPT ![e] = Blank]
      BY <1>7, <2>1
    <3> HIDE DEF to
    <3>6. /\ f \in [Addr -> Entry]
          /\ \A b \in Addr : /\ f[b].k = ents[b].k /\ f[b].s = ents[b].s
                             /\ f[b].ix = IF b = h THEN y ELSE ents[b].ix
                             /\ b # h => f[b] = ents[b]
      BY <1>2, <1>4, <1>9, SetIx
    <3> HIDE DEF f
    <3>7. /\ g \in [Addr -> Entry]
          /\ \A b \in Addr : /\ g[b].k = f[b].k /\ g[b].s = f[b].s /\ g[b].ix = f[b].ix
                             /\ g[b].tl = IF b = h THEN to ELSE f[b].tl
                             /\ b # h => g[b] = f[b]
      BY <1>4, <3>2, <3>6, SetTl
    <3> HIDE DEF g
    <3>8. ents' \in [Addr -> Entry] /\ \A b \in Addr \ {e} : ents'[b] = g[b]
      BY <3>5, <3>7, BlankEntry
    <3>9. QED
      BY <1>4, <2>1, <3>3, <3>4, <3>6, <3>7, <3>8
  <2>2. CASE e = h /\ w = <<>>
    <3>1. ents' = [ents EXCEPT ![e] = Blank]
      BY <1>7, <2>2
    <3>2. QED
      BY <1>2, <2>2, <3>1, BlankEntry
  <2>3. CASE e = h /\ w # <<>>
    <3> DEFINE to == Moved(tl, e, w[1])
               f == [ents EXCEPT ![w[1]].tl = to]
               g == [f EXCEPT ![w[1]].ix = y]
    <3>1. i = 1
      BY <1>3, <1>4, <1>5, <2>3 DEF h
    <3>2. to \in Addr \cup {Null}
      BY <1>8, <1>10, <2>3 DEF Moved
    <3>3. to \in {Null, w[Len(w)]}
      <4>1. w[Len(w)] = d[Len(d)]
        <5>1. ~(Len(w) < i) /\ Len(w) + 1 = Len(d)
          BY <1>2, <1>6, <1>10, <2>3, <3>1
        <5>2. QED
          BY <1>6, <1>10, <2>3, <5>1
      <4>2. d[Len(d)] # e
        <5>1. Len(d) # 1 /\ Len(d) \in 1 .. Len(d)
          BY <1>2, <1>6, <1>10, <2>3
        <5>2. QED
          BY <1>3, <1>5, <3>1, <5>1
      <4>3. e # Null
        BY <1>1
      <4>4. QED
        BY <1>8, <4>1, <4>2, <4>3 DEF Moved
    <3>4. ents' = [g EXCEPT ![e] = Blank]
      BY <1>7, <2>3
    <3>5. w[1] \in Addr /\ w[1] # e
      BY <1>10, <2>3
    <3> HIDE DEF to
    <3>6. /\ f \in [Addr -> Entry]
          /\ \A b \in Addr : /\ f[b].k = ents[b].k /\ f[b].s = ents[b].s
                             /\ f[b].tl = IF b = w[1] THEN to ELSE ents[b].tl
                             /\ b # w[1] => f[b] = ents[b]
      BY <1>2, <3>2, <3>5, SetTl
    <3> HIDE DEF f
    <3>7. /\ g \in [Addr -> Entry]
          /\ \A b \in Addr : /\ g[b].k = f[b].k /\ g[b].s = f[b].s /\ g[b].tl = f[b].tl
                             /\ g[b].ix = IF b = w[1] THEN y ELSE f[b].ix
                             /\ b # w[1] => g[b] = f[b]
      BY <1>9, <3>5, <3>6, SetIx
    <3> HIDE DEF g
    <3>8. ents' \in [Addr -> Entry] /\ \A b \in Addr \ {e} : ents'[b] = g[b]
      BY <3>4, <3>7, BlankEntry
    <3>9. QED
      BY <2>3, <3>3, <3>5, <3>6, <3>7, <3>8
  <2>4. QED
    BY <2>1, <2>2, <2>3
<1>12. \A j \in 1 .. Len(w) : /\ w[j] \in Addr \ {e} /\ ents'[w[j]].k = ents[w[j]].k
                              /\ ents'[w[j]].s = ents[w[j]].s
                              /\ \E g \in 1 .. Len(d) : w[j] = d[g] /\ (j > 1 => g > 1)
  <2> SUFFICES ASSUME NEW j \in 1 .. Len(w)
               PROVE  /\ w[j] \in Addr \ {e} /\ ents'[w[j]].k = ents[w[j]].k
                      /\ ents'[w[j]].s = ents[w[j]].s
                      /\ \E g \in 1 .. Len(d) : w[j] = d[g] /\ (j > 1 => g > 1)
    OBVIOUS
  <2>1. w[j] \in Elems(w)
    BY <1>6 DEF Elems
  <2>2. w[j] \in Addr \ {e}
    BY <1>2, <1>6, <2>1
  <2>3. \E g \in 1 .. Len(d) : w[j] = d[g] /\ (j > 1 => g > 1)
    <3>1. j \in 1 .. Len(d) /\ j + 1 \in 1 .. Len(d) /\ j + 1 > 1
      BY <1>2, <1>6
    <3>2. w[j] = d[j] \/ w[j] = d[j + 1]
      BY <1>6
    <3>3. QED
      BY <3>1, <3>2
  <2>4. QED
    BY <1>11, <2>2, <2>3
<1>13. \A g, j \in 1 .. Len(w) : w[g] = w[j] => g = j
  <2> SUFFICES ASSUME NEW g \in 1 .. Len(w), NEW j \in 1 .. Len(w), w[g] = w[j]
               PROVE  g = j
    OBVIOUS
  <2>1. /\ g \in 1 .. Len(d) /\ g + 1 \in 1 .. Len(d)
        /\ j \in 1 .. Len(d) /\ j + 1 \in 1 .. Len(d)
    BY <1>2, <1>6
  <2>2. CASE g < i /\ j < i
    BY <1>5, <1>6, <2>1, <2>2
  <2>3. CASE ~(g < i) /\ ~(j < i)
    <3>1. g + 1 = j + 1
      BY <1>5, <1>6, <2>1, <2>3
    <3>2. QED
      BY <3>1
  <2>4. CASE g < i /\ ~(j < i)
    <3>1. g = j + 1
      BY <1>5, <1>6, <2>1, <2>4
    <3>2. QED
      BY <1>3, <2>4, <3>1
  <2>5. CASE ~(g < i) /\ j < i
    <3>1. g + 1 = j
      BY <1>5, <1>6, <2>1, <2>5
    <3>2. QED
      BY <1>3, <2>5, <3>1
  <2>6. QED
    BY <2>2, <2>3, <2>4, <2>5
<1>14. Sound(ents', w, Len(w))
  <2>1. \A j \in 1 .. Len(w) : ents'[w[j]].k \in Key
    BY <1>2, <1>12 DEF Sound
  <2>2. \A g, j \in 1 .. Len(w) : ents'[w[g]].k = ents'[w[j]].k => g = j
    <3>1. \A a, b \in Elems(d) : ents[a].k = ents[b].k => a = b
      BY <1>2 DEF Sound, Upto
    <3>2. \A j \in 1 .. Len(w) : w[j] \in Elems(d)
      BY <1>2, <1>12 DEF Elems
    <3>3. QED
      BY <1>12, <1>13, <3>1, <3>2
  <2>3. ASSUME NEW j \in 2 .. Len(w)
        PROVE  ents'[w[j]].ix = NoIx
    <3>1. j \in 1 .. Len(w) /\ j # 1 /\ j > 1 /\ 1 \in 1 .. Len(w)
      BY <1>6
    <3>2. w[j] # w[1]
      BY <1>13, <3>1
    <3>3. PICK g \in 1 .. Len(d) : w[j] = d[g] /\ g > 1
      BY <1>12, <3>1
    <3>4. ents[w[j]].ix = NoIx
      BY <1>2, <3>3 DEF Sound
    <3>5. QED
      BY <1>11, <1>12, <3>1, <3>2, <3>4
  <2>4. w # <<>> => ents'[w[1]].tl \in {Null, w[Len(w)]}
    BY <1>11
  <2>5. Elems(w) = Upto(w, Len(w))
    BY <1>6, ElemsOf
  <2>6. \A b \in Elems(w) : ents'[b].k = ents[b].k
    BY <1>12, <2>5 DEF Upto
  <2>7. ASSUME w # <<>>, ents'[w[1]].ix.cap > 0
        PROVE  Fits(ents'[w[1]].ix, Upto(w, Len(w)), ents') /\ ents'[w[1]].ix.n = Len(w)
    <3>1. ents'[w[1]].ix = y
      BY <1>11, <2>7
    <3>2. Fits(y, Elems(w), ents) /\ y.n = Len(w)
      BY <1>9, <2>7, <3>1
    <3>3. Fits(y, Elems(w), ents')
      BY <2>6, <3>2, FitsByKeys
    <3>4. QED
      BY <2>5, <3>1, <3>2, <3>3
  <2>8. Len(w) \in 0 .. Len(w) /\ ~(Len(w) < Len(w))
    BY <1>6
  <2>9. QED
    BY <1>6, <2>1, <2>2, <2>3, <2>4, <2>7, <2>8 DEF Sound
<1>15. Inv' /\ Seen' = [Seen EXCEPT ![v] = View(ents', w)]
  <2>1. \A u \in Var \ {v} : \A b \in Elems(chain[u]) :
          ents'[b] = ents[b] /\ b \notin Elems(w)
    <3> SUFFICES ASSUME NEW u \in Var \ {v}, NEW b \in Elems(chain[u])
                 PROVE  ents'[b] = ents[b] /\ b \notin Elems(w)
      OBVIOUS
    <3>1. b \in Addr /\ b \notin Elems(d)
      BY ElemsOf DEF Inv
    <3>2. QED
      BY <1>4, <1>6, <1>10, <1>11, <3>1
  <2>2. QED
    BY <1>1, <1>7, <1>11, <1>14, <2>1, OneMap
<1>16. View(ents', w) = SubSeq(Seen[v], 1, i - 1) \o SubSeq(Seen[v], i + 1, Len(Seen[v]))
  <2>1. Seen[v] = View(ents, d)
    BY DEF Seen, View
  <2>2. \A j \in 1 .. Len(w) : ents'[w[j]].k = ents[w[j]].k /\ ents'[w[j]].s = ents[w[j]].s
    BY <1>12
  <2> DEFINE fs == ents'
  <2> HIDE DEF fs
  <2>3. \A j \in 1 .. Len(w) : fs[w[j]].k = ents[w[j]].k /\ fs[w[j]].s = ents[w[j]].s
    BY <2>2 DEF fs
  <2> DEFINE s == View(ents, d)
  <2>4. View(fs, w) = SubSeq(s, 1, i - 1) \o SubSeq(s, i + 1, Len(s))
    <3>1. /\ d \in Seq(Addr) /\ i \in 1 .. Len(d) /\ w \in Seq(Addr) /\ Len(w) = Len(d) - 1
          /\ \A j \in 1 .. Len(w) : w[j] = IF j < i THEN d[j] ELSE d[j + 1]
      BY <1>2, <1>6
    <3> HIDE DEF d
    <3>2. QED
      BY <2>3, <3>1, ViewWithout
  <2>5. QED
    BY <2>1, <2>4 DEF fs
<1>17. i \in DOMAIN Seen[v] /\ Seen[v][i][1] = k
  BY <1>2, <1>3 DEF Seen
<1>18. QED
  BY <1>15, <1>16, <1>17 DEF Map!Del

\* Another map's entries are in use, and not this one's.
LEMMA OthersLive ==
  ASSUME Inv, Idle, NEW v \in Var, NEW u \in Var \ {v}, NEW b \in Elems(chain[u])
  PROVE  b \in Addr /\ b \in Live /\ b \notin Elems(chain[v])
<1>1. Sound(ents, chain[u], Len(chain[u])) /\ Elems(chain[u]) \cap Elems(chain[v]) = {}
  BY Ready DEF Inv
<1>2. chain[u] \in Seq(Addr) /\ Null \notin Key
  BY MapAssumption DEF Inv
<1>3. b \in Upto(chain[u], Len(chain[u])) /\ b \in Addr
  BY <1>2, ElemsOf
<1>4. ents[b].k \in Key
  BY <1>1, <1>3 DEF Sound, Upto
<1>5. QED
  BY <1>1, <1>2, <1>3, <1>4 DEF Live

\* v_free_el.
LEMMA ClearStep ==
  ASSUME Inv, NEW v \in Var, Clear(v)
  PROVE  Inv' /\ Map!Clear(v)
<1> DEFINE c == <<>>
<1>1. /\ Idle /\ todo' = Done /\ ents \in [Addr -> Entry]
      /\ chain' = [chain EXCEPT ![v] = c]
      /\ count' = [count EXCEPT ![v] = Len(c)]
      /\ ents' = [a \in Addr |-> IF a \in Elems(chain[v]) THEN Blank ELSE ents[a]]
  BY DEF Clear, Idle, Inv
<1>2. ents' \in [Addr -> Entry]
  BY <1>1, BlankEntry
<1>3. Sound(ents', c, Len(c)) /\ Elems(c) = {}
  BY DEF Sound, Elems
<1>4. \A u \in Var \ {v} : \A a \in Elems(chain[u]) : ents'[a] = ents[a] /\ a \notin Elems(c)
  BY <1>1, <1>3, OthersLive
<1> HIDE DEF c
<1>5. Inv' /\ Seen' = [Seen EXCEPT ![v] = View(ents', c)]
  BY <1>1, <1>2, <1>3, <1>4, OneMap
<1>6. View(ents', c) = <<>>
  BY DEF View, c
<1>7. QED
  BY <1>5, <1>6 DEF Map!Clear

\* es holds a chain made at once for v, and the other maps' entries as they were.
HasLaid(es, v, n, bs, ks, ss, tl) ==
  /\ es \in [Addr -> Entry]
  /\ \A i \in 1 .. n : /\ es[bs[i]].k = ks[i] /\ es[bs[i]].s = ss[i]
                       /\ es[bs[i]].ix = NoIx
  /\ n > 0 => es[bs[1]].tl = tl
  /\ \A a \in Addr : a \notin Elems(bs) /\ a \notin Elems(chain[v]) => es[a] = ents[a]

LEMMA LaidIs ==
  ASSUME NEW v \in Var, ents \in [Addr -> Entry], NEW n \in Nat,
         NEW bs \in [1 .. n -> Addr], \A i, j \in 1 .. n : bs[i] = bs[j] => i = j,
         NEW ks \in [1 .. n -> Key], NEW ss \in [1 .. n -> Value \cup {Null}],
         NEW tl \in Addr \cup {Null}
  PROVE  HasLaid(Laid(v, bs, ks, ss, tl), v, n, bs, ks, ss, tl)
<1> DEFINE es == Laid(v, bs, ks, ss, tl)
           At(i) == [k |-> ks[i], s |-> ss[i], tl |-> IF i = 1 THEN tl ELSE Null, ix |-> NoIx]
<1>1. Blank = [k |-> Null, s |-> Null, tl |-> Null, ix |-> NoIx] /\ NoIx \in Index
      /\ Blank \in Entry
  BY BlankEntry DEF Blank
<1>2. \A i \in 1 .. n : At(i) \in Entry
  BY <1>1 DEF Entry
<1>3. ASSUME NEW i \in 1 .. n
      PROVE  es[bs[i]] = At(i)
  <2>1. bs[i] \in Addr /\ bs[i] \in Elems(bs) /\ DOMAIN bs = 1 .. n
    BY DEF Elems
  <2>2. (CHOOSE j \in DOMAIN bs : bs[j] = bs[i]) = i
    <3>1. \A g \in DOMAIN bs : bs[g] = bs[i] <=> g = i
      BY <2>1
    <3>2. (CHOOSE j \in DOMAIN bs : bs[j] = bs[i]) \in DOMAIN bs
          /\ bs[CHOOSE j \in DOMAIN bs : bs[j] = bs[i]] = bs[i]
      BY <2>1
    <3>3. QED
      BY <3>1, <3>2
  <2>3. es[bs[i]] = LET g == CHOOSE j \in DOMAIN bs : bs[j] = bs[i] IN
                    [Blank EXCEPT !.k = ks[g], !.s = ss[g], !.tl = IF g = 1 THEN tl ELSE Null]
    BY <2>1 DEF Laid
  <2>4. es[bs[i]] = [Blank EXCEPT !.k = ks[i], !.s = ss[i], !.tl = IF i = 1 THEN tl ELSE Null]
    BY <2>2, <2>3
  <2> DEFINE b1 == [Blank EXCEPT !.k = ks[i]]
             b2 == [b1 EXCEPT !.s = ss[i]]
             b3 == [b2 EXCEPT !.tl = IF i = 1 THEN tl ELSE Null]
  <2>5. b1 = [k |-> ks[i], s |-> Null, tl |-> Null, ix |-> NoIx]
    BY <1>1
  <2> HIDE DEF b1
  <2>6. b2 = [k |-> ks[i], s |-> ss[i], tl |-> Null, ix |-> NoIx]
    BY <2>5
  <2> HIDE DEF b2
  <2>7. b3 = At(i)
    BY <2>6
  <2>8. es[bs[i]] = b3
    BY <2>4 DEF b2, b1
  <2>9. QED
    BY <2>7, <2>8
<1>4. \A a \in Addr : a \notin Elems(bs) =>
        es[a] = IF a \in Elems(chain[v]) THEN Blank ELSE ents[a]
  BY DEF Laid
<1>5. es = [a \in Addr |-> es[a]]
  BY DEF Laid
<1> HIDE DEF es
<1>6. ASSUME NEW a \in Addr
      PROVE  es[a] \in Entry
  <2>1. CASE a \in Elems(bs)
    <3>1. PICK i \in 1 .. n : a = bs[i]
      BY <2>1 DEF Elems
    <3>2. es[a] = At(i) /\ At(i) \in Entry
      BY <1>2, <1>3, <3>1
    <3> HIDE DEF At
    <3>3. QED
      BY <3>2
  <2>2. CASE a \notin Elems(bs)
    BY <1>1, <1>4, <2>2
  <2>3. QED
    BY <2>1, <2>2
<1>7. es \in [Addr -> Entry]
  BY <1>5, <1>6
<1>8. ASSUME NEW i \in 1 .. n
      PROVE  /\ es[bs[i]].k = ks[i] /\ es[bs[i]].s = ss[i] /\ es[bs[i]].ix = NoIx
             /\ es[bs[i]].tl = IF i = 1 THEN tl ELSE Null
  <2>1. es[bs[i]] = At(i)
    BY <1>3
  <2> DEFINE r == es[bs[i]]
  <2> HIDE DEF r
  <2>2. r = [k |-> ks[i], s |-> ss[i], tl |-> IF i = 1 THEN tl ELSE Null, ix |-> NoIx]
    BY <2>1 DEF r
  <2>3. QED
    BY <2>2 DEF r
<1>9. n > 0 => es[bs[1]].tl = tl
  <2>1. n > 0 => 1 \in 1 .. n
    OBVIOUS
  <2>2. QED
    BY <1>8, <2>1
<1>10. QED
  BY <1>4, <1>7, <1>8, <1>9 DEF es, HasLaid

\* What an allocator gives is free, and is given once.
LEMMA Allocated ==
  ASSUME Inv, NEW v \in Var, NEW n \in 0 .. Cardinality(Key), NEW bs \in Alloc(Freed(v), n)
  PROVE  /\ bs \in [1 .. n -> Freed(v)] /\ bs \in [1 .. n -> Addr]
         /\ \A i, j \in 1 .. n : bs[i] = bs[j] => i = j
<1> DEFINE F == Freed(v)
<1>1. F \in SUBSET Addr
  <2>1. Elems(chain[v]) \subseteq Addr
    BY ElemsOf DEF Inv
  <2>2. QED
    BY <2>1 DEF Freed
<1> HIDE DEF F
<1>2. bs \in Alloc(F, n)
  BY DEF F
<1>3. \A G \in SUBSET Addr : \A m \in 0 .. Cardinality(Key) : \A cs \in Alloc(G, m) :
        cs \in [1 .. m -> G] /\ \A i, j \in 1 .. m : cs[i] = cs[j] => i = j
  BY MapAssumption
<1>4. bs \in [1 .. n -> F] /\ \A i, j \in 1 .. n : bs[i] = bs[j] => i = j
  BY <1>1, <1>2, <1>3, Zenon
<1>5. bs \in [1 .. n -> Addr]
  BY <1>1, <1>4
<1>6. QED
  BY <1>4, <1>5 DEF F

\* What such a chain is to a script, and the step that lays it.
Pairs(n, ks, ss) == [i \in 1 .. n |-> <<ks[i], ss[i]>>]
Lays(v, n, bs, ks, ss, tl) ==
  /\ chain' = [chain EXCEPT ![v] = bs] /\ count' = [count EXCEPT ![v] = n]
  /\ \/ n > 0 /\ Build(v, bs[1], Laid(v, bs, ks, ss, tl), n)
     \/ ents' = Laid(v, bs, ks, ss, tl) /\ UNCHANGED todo

\* A chain made at once takes the old one's place.
LEMMA LayStep ==
  ASSUME Inv, Idle, NEW v \in Var, NEW n \in Nat, n \in 0 .. Cardinality(Key),
         NEW bs \in Alloc(Freed(v), n), NEW ks \in [1 .. n -> Key],
         \A i, j \in 1 .. n : ks[i] = ks[j] => i = j,
         NEW ss \in [1 .. n -> Value \cup {Null}], NEW tl,
         tl = Null \/ (n > 0 /\ tl = bs[n]), Lays(v, n, bs, ks, ss, tl)
  PROVE  Inv' /\ Seen' = [Seen EXCEPT ![v] = Pairs(n, ks, ss)]
<1> DEFINE es == Laid(v, bs, ks, ss, tl)
<1>0. /\ chain' = [chain EXCEPT ![v] = bs] /\ count' = [count EXCEPT ![v] = n]
      /\ \/ n > 0 /\ Build(v, bs[1], es, n)
         \/ ents' = es /\ todo' = todo
  BY DEF Lays
<1>1. n \in Nat
  OBVIOUS
<1>2. /\ bs \in [1 .. n -> Freed(v)] /\ bs \in [1 .. n -> Addr]
      /\ \A i, j \in 1 .. n : bs[i] = bs[j] => i = j
  BY Allocated
<1>3. ents \in [Addr -> Entry]
  BY Ready, Zenon
<1>4. bs \in [1 .. n -> Addr]
  BY <1>2
<1>5. /\ bs \in Seq(Addr) /\ Len(bs) = n /\ DOMAIN bs = 1 .. n
  BY <1>1, <1>4, FunctionSeq
<1>6. tl \in Addr \cup {Null}
  <2>1. n > 0 => n \in 1 .. n
    BY <1>1
  <2>2. QED
    BY <1>1, <1>4, <2>1
<1>7. /\ es \in [Addr -> Entry]
      /\ \A i \in 1 .. n : /\ es[bs[i]].k = ks[i] /\ es[bs[i]].s = ss[i]
                           /\ es[bs[i]].ix = NoIx
      /\ n > 0 => es[bs[1]].tl = tl
      /\ \A a \in Addr : a \notin Elems(bs) /\ a \notin Elems(chain[v]) => es[a] = ents[a]
  <2>1. HasLaid(es, v, n, bs, ks, ss, tl)
    BY <1>1, <1>2, <1>3, <1>4, <1>6, LaidIs
  <2> HIDE DEF es
  <2>2. QED
    BY <2>1 DEF HasLaid
<1>8. (n > 0 /\ Build(v, bs[1], es, n)) \/ (ents' = es /\ todo' = Done)
  BY <1>0 DEF Idle
<1> HIDE DEF es
<1>9. NoIx \in Index /\ NoIx.cap = 0 /\ NoIx = Empty(0)
  BY BlankEntry DEF NoIx
<1>10. n > 0 => 1 \in 1 .. n /\ bs[1] \in Addr /\ bs[1] \in Elems(bs)
  BY <1>1, <1>4, <1>5 DEF Elems
\* The index, when there is one, is empty and has room.
<1>11. PICK c \in Nat :
         /\ c > 0 => n > 0 /\ c >= 4 /\ c > n /\ todo' = [map |-> v, i |-> 1]
         /\ c = 0 => todo' = Done
         /\ n > 0 => ents' = [es EXCEPT ![bs[1]].ix = Empty(c)]
         /\ n = 0 => ents' = es
  <2>1. CASE n > 0 /\ Build(v, bs[1], es, n)
    <3> DEFINE nc == NewCap(n)
    <3>1. nc \in Nat /\ nc >= 4 /\ nc > n
      BY <1>1, CapHolds
    <3>2. ents' = [es EXCEPT ![bs[1]].ix = Empty(nc)] /\ todo' = [map |-> v, i |-> 1]
      BY <2>1 DEF Build
    <3> HIDE DEF nc
    <3>3. nc \in Nat /\ ~(nc = 0) /\ ~(n = 0)
      BY <2>1, <3>1
    <3>4. QED
      BY <2>1, <3>1, <3>2, <3>3
  <2>2. CASE ents' = es /\ todo' = Done
    <3>1. n > 0 => ents' = [es EXCEPT ![bs[1]].ix = Empty(0)]
      <4> SUFFICES ASSUME n > 0 PROVE ents' = [es EXCEPT ![bs[1]].ix = Empty(0)]
        OBVIOUS
      <4>1. [es EXCEPT ![bs[1]].ix = es[bs[1]].ix] = es
        BY <1>7, <1>10, SameIx
      <4>2. es[bs[1]].ix = Empty(0)
        BY <1>7, <1>9, <1>10
      <4>3. [es EXCEPT ![bs[1]].ix = Empty(0)] = es
        BY <4>1, <4>2, Zenon
      <4>4. QED
        BY <2>2, <4>3, Zenon
    <3>2. 0 \in Nat /\ ~(0 > 0)
      OBVIOUS
    <3>3. QED
      BY <2>2, <3>1, <3>2
  <2>3. QED
    BY <1>8, <2>1, <2>2
<1>12. /\ Empty(c) \in Index /\ Empty(c).cap = c
       /\ c > 0 => Fits(Empty(c), {}, ents') /\ Empty(c).n = 0 /\ Empty(c).dead = 0
  <2>1. CASE c > 0
    <3> DEFINE fs == ents'
    <3> HIDE DEF fs
    <3>1. Fits(Empty(c), {}, fs) /\ Empty(c).cap = c /\ Empty(c).n = 0 /\ Empty(c).dead = 0
      BY <1>11, <2>1, EmptyFits
    <3>2. Empty(c) \in Index
      BY <3>1 DEF Fits
    <3>3. QED
      BY <3>1, <3>2 DEF fs
  <2>2. CASE ~(c > 0)
    <3>1. c = 0
      BY <2>2
    <3>2. QED
      BY <1>9, <2>2, <3>1
  <2>3. QED
    BY <2>1, <2>2
<1>13. /\ ents' \in [Addr -> Entry]
       /\ \A b \in Addr : /\ ents'[b].k = es[b].k /\ ents'[b].s = es[b].s
                          /\ ents'[b].tl = es[b].tl
                          /\ n > 0 /\ b = bs[1] => ents'[b].ix = Empty(c)
                          /\ n = 0 \/ b # bs[1] => ents'[b] = es[b]
  <2>1. CASE n > 0
    <3> DEFINE y == Empty(c)
               b1 == bs[1]
               fs == [es EXCEPT ![b1].ix = y]
    <3> HIDE DEF y, b1
    <3>1. y \in Index /\ b1 \in Addr /\ es \in [Addr -> Entry]
      BY <1>7, <1>10, <1>12, <2>1 DEF y, b1
    <3>2. /\ fs \in [Addr -> Entry]
          /\ \A b \in Addr : /\ fs[b].k = es[b].k /\ fs[b].s = es[b].s /\ fs[b].tl = es[b].tl
                             /\ fs[b].ix = IF b = b1 THEN y ELSE es[b].ix
                             /\ b # b1 => fs[b] = es[b]
      BY <3>1, SetIx
    <3>3. ents' = fs
      BY <1>11, <2>1 DEF y, b1
    <3> HIDE DEF fs
    <3>4. ~(n = 0)
      BY <2>1
    <3>5. QED
      BY <2>1, <3>2, <3>3, <3>4 DEF y, b1
  <2>2. CASE n = 0
    <3>1. ~(n > 0)
      BY <2>2
    <3>2. QED
      BY <1>7, <1>11, <2>2, <3>1
  <2>3. QED
    BY <1>1, <2>1, <2>2
<1>14. Upto(bs, 0) = {}
  BY DEF Upto
<1>15. \A i \in 1 .. n : bs[i] \in Addr /\ ents'[bs[i]].k = ks[i] /\ ents'[bs[i]].s = ss[i]
  BY <1>4, <1>7, <1>13
<1>16. \A i \in 2 .. n : ents'[bs[i]].ix = NoIx
  <2> SUFFICES ASSUME NEW i \in 2 .. n PROVE ents'[bs[i]].ix = NoIx
    OBVIOUS
  <2>1. i \in 1 .. n /\ 1 \in 1 .. n /\ i # 1
    BY <1>1
  <2>2. bs[i] # bs[1]
    BY <1>2, <2>1
  <2>3. QED
    BY <1>7, <1>13, <1>15, <2>1, <2>2
<1>17. n > 0 => ents'[bs[1]].tl \in {Null, bs[n]} /\ ents'[bs[1]].ix = Empty(c)
  BY <1>7, <1>10, <1>13
<1>18. ASSUME NEW m \in 0 .. n, c > 0 => m = 0
       PROVE  Sound(ents', bs, m)
  <2>1. bs # <<>> <=> n > 0
    BY <1>5, ElemsOf
  <2>2. \A i \in 1 .. n : ents'[bs[i]].k \in Key
    BY <1>15
  <2>3. \A i, j \in 1 .. n : ents'[bs[i]].k = ents'[bs[j]].k => i = j
    BY <1>15
  <2>4. bs # <<>> /\ ents'[bs[1]].ix.cap > 0 =>
          /\ Fits(ents'[bs[1]].ix, Upto(bs, m), ents')
          /\ ents'[bs[1]].ix.n = m
          /\ m < n => ents'[bs[1]].ix.dead = 0 /\ ents'[bs[1]].ix.cap > n
    BY <1>11, <1>12, <1>14, <1>17, <1>18, <2>1
  <2>5. QED
    BY <1>5, <1>16, <1>17, <2>1, <2>2, <2>3, <2>4 DEF Sound
<1>19. \A u \in Var \ {v} : \A b \in Elems(chain[u]) : ents'[b] = ents[b] /\ b \notin Elems(bs)
  <2> SUFFICES ASSUME NEW u \in Var \ {v}, NEW b \in Elems(chain[u])
               PROVE  ents'[b] = ents[b] /\ b \notin Elems(bs)
    OBVIOUS
  <2>1. b \in Addr /\ b \in Live /\ b \notin Elems(chain[v])
    BY OthersLive
  <2>2. b \notin Elems(bs)
    <3>1. \A i \in 1 .. n : bs[i] # b
      BY <1>2, <2>1 DEF Freed
    <3>2. QED
      BY <1>5, <3>1 DEF Elems
  <2>3. n = 0 \/ b # bs[1]
    BY <1>1, <1>10, <2>2
  <2>4. QED
    BY <1>7, <1>13, <2>1, <2>2, <2>3
<1>20. Inv' /\ Seen' = [Seen EXCEPT ![v] = View(ents', bs)]
  <2>1. \/ todo' = Done /\ Sound(ents', bs, Len(bs))
        \/ /\ todo' = [map |-> v, i |-> 1] /\ bs # <<>>
           /\ ents'[bs[1]].ix.cap > 0 /\ Sound(ents', bs, 0)
    <3>1. CASE c > 0
      <4>1. n > 0 /\ 0 \in 0 .. n
        BY <1>11, <3>1
      <4>2. Sound(ents', bs, 0)
        BY <1>18, <4>1
      <4>3. bs # <<>>
        BY <1>5, <4>1, ElemsOf
      <4>4. QED
        BY <1>11, <1>12, <1>17, <3>1, <4>1, <4>2, <4>3
    <3>2. CASE c = 0
      <4>1. ~(c > 0) /\ n \in 0 .. n
        BY <1>1, <3>2
      <4>2. Sound(ents', bs, n)
        BY <1>18, <4>1
      <4>3. QED
        BY <1>5, <1>11, <3>2, <4>2
    <3>3. QED
      BY <3>1, <3>2
  <2>2. chain' = [chain EXCEPT ![v] = bs] /\ count' = [count EXCEPT ![v] = Len(bs)]
    BY <1>0, <1>5
  <2>3. QED
    BY <1>13, <1>19, <2>1, <2>2, OneMap
<1>21. View(ents', bs) = Pairs(n, ks, ss)
  BY <1>5, <1>15 DEF View, Pairs
<1>22. QED
  BY <1>20, <1>21

\* Keys of their own are no more than there are.
LEMMA KeysCount ==
  ASSUME NEW n \in Nat, NEW ks \in [1 .. n -> Key],
         \A i, j \in 1 .. n : ks[i] = ks[j] => i = j
  PROVE  n \in 0 .. Cardinality(Key)
<1>1. ks \in Injection(1 .. n, Key)
  BY DEF Injection, IsInjective
<1>2. IsFiniteSet(Key) /\ Cardinality(Key) \in Nat
  BY MapAssumption, FS_CardinalityType
<1>3. Cardinality(1 .. n) <= Cardinality(Key)
  BY <1>1, <1>2, FS_Injection
<1>4. Cardinality(1 .. n) = n
  BY FS_Interval
<1>5. QED
  BY <1>2, <1>3, <1>4

\* v_copy.
LEMMA CopyStep ==
  ASSUME Inv, NEW v \in Var, NEW s \in Var, NEW bs \in Alloc(Freed(v), Len(chain[s])),
         Copy(v, s, bs)
  PROVE  Inv' /\ Map!Copy(v, s)
<1> DEFINE c == chain[s]
           n == Len(c)
           ks == [i \in DOMAIN c |-> ents[c[i]].k]
           ss == [i \in DOMAIN c |-> ents[c[i]].s]
           tl == IF bs = <<>> THEN Null ELSE bs[Len(bs)]
<1>1. /\ Idle /\ Lay(v, bs, Laid(v, bs, ks, ss, tl), Len(bs) >= MpHash)
      /\ count' = [count EXCEPT ![v] = count[s]]
  BY DEF Copy
<1>2. /\ Sound(ents, c, n) /\ c \in Seq(Addr) /\ n \in Nat /\ DOMAIN c = 1 .. n
      /\ count[s] = n /\ ents \in [Addr -> Entry]
  BY <1>1, Ready
<1>3. ks \in [1 .. n -> Key] /\ \A i, j \in 1 .. n : ks[i] = ks[j] => i = j
  BY <1>2 DEF Sound
<1>4. ss \in [1 .. n -> Value \cup {Null}]
  <2>1. \A i \in 1 .. n : c[i] \in Addr
    BY <1>2
  <2>2. \A i \in 1 .. n : ents[c[i]].s \in Value \cup {Null}
    BY <1>2, <2>1, EntryFields
  <2>3. QED
    BY <1>2, <2>2
<1>5. View(ents, c) = Pairs(n, ks, ss) /\ Seen[s] = View(ents, c)
  <2>1. \A i \in 1 .. n : ks[i] = ents[c[i]].k /\ ss[i] = ents[c[i]].s
    BY <1>2
  <2>2. View(ents, c) = [i \in 1 .. n |-> <<ents[c[i]].k, ents[c[i]].s>>]
    BY <1>2 DEF View
  <2>3. Seen[s] = View(ents, c)
    BY DEF Seen, View
  <2> HIDE DEF ks, ss
  <2>4. QED
    BY <2>1, <2>2, <2>3 DEF Pairs
<1> HIDE DEF ks, ss, n, tl
<1>6. n \in 0 .. Cardinality(Key)
  BY <1>2, <1>3, KeysCount
<1>7. bs \in [1 .. n -> Addr]
  BY <1>6, Allocated DEF n
<1>8. bs \in Seq(Addr) /\ Len(bs) = n
  BY <1>2, <1>7, FunctionSeq
<1>9. tl = Null \/ (n > 0 /\ tl = bs[n])
  BY <1>8, ElemsOf DEF tl
<1>10. bs \in Alloc(Freed(v), n)
  BY DEF n
<1>11. MpHash \in Nat \ {0}
  BY MapAssumption
<1>12. Lays(v, n, bs, ks, ss, tl)
  <2>1. n >= MpHash => n > 0
    BY <1>2, <1>11
  <2>2. QED
    BY <1>1, <1>2, <1>8, <2>1 DEF Lay, Lays
<1>13. Inv' /\ Seen' = [Seen EXCEPT ![v] = Pairs(n, ks, ss)]
  <2>1. Idle /\ n \in Nat
    BY <1>1, <1>2
  <2>2. ks \in [1 .. n -> Key] /\ \A i, j \in 1 .. n : ks[i] = ks[j] => i = j
    BY <1>3
  <2> HIDE DEF c
  <2>3. QED
    BY <1>4, <1>6, <1>9, <1>10, <1>12, <2>1, <2>2, LayStep
<1>14. QED
  BY <1>5, <1>13 DEF Map!Copy

\* A module fills a map it has emptied.
LEMMA LinkStep ==
  ASSUME Inv, NEW v \in Var, NEW ks \in Lists, NEW x \in Value, NEW row \in BOOLEAN,
         NEW bs \in Alloc(Freed(v), Len(ks)), Link(v, bs, ks, x, row)
  PROVE  Inv' /\ \E y \in Value \cup {Null} : Map!Fill(v, ks, y) /\ ks \in Map!Lists
<1>1. PICK n \in 0 .. Cardinality(Key) :
        ks \in {l \in [1 .. n -> Key] : \A i, j \in 1 .. n : l[i] = l[j] => i = j}
  BY DEF Lists
<1>2. n \in Nat
  <2>1. Cardinality(Key) \in Nat
    BY MapAssumption, FS_CardinalityType
  <2>2. QED
    BY <2>1
<1>3. /\ ks \in [1 .. n -> Key] /\ \A i, j \in 1 .. n : ks[i] = ks[j] => i = j
      /\ DOMAIN ks = 1 .. n
  BY <1>1
<1>4. ks \in Seq(Key) /\ Len(ks) = n
  BY <1>2, <1>3, FunctionSeq
<1> DEFINE y == IF row THEN Null ELSE x
           ss == [i \in DOMAIN ks |-> y]
<1>5. /\ Idle /\ chain[v] = <<>>
      /\ Lay(v, bs, Laid(v, bs, ks, ss, Null), row /\ Len(bs) >= MpHash)
      /\ count' = [count EXCEPT ![v] = Len(bs)]
  BY DEF Link
<1>6. y \in Value \cup {Null}
  OBVIOUS
<1> HIDE DEF y
<1>7. ss \in [1 .. n -> Value \cup {Null}]
  BY <1>3, <1>6
<1>8. Map!Given(ks, y) = Pairs(n, ks, ss)
  BY <1>3 DEF Map!Given, Pairs
<1> HIDE DEF ss
<1>9. bs \in Alloc(Freed(v), n)
  BY <1>4
<1>10. bs \in [1 .. n -> Addr]
  BY <1>1, <1>9, Allocated
<1>11. bs \in Seq(Addr) /\ Len(bs) = n
  BY <1>2, <1>10, FunctionSeq
<1>12. MpHash \in Nat \ {0}
  BY MapAssumption
<1>13. Lays(v, n, bs, ks, ss, Null)
  <2>1. n >= MpHash => n > 0
    BY <1>2, <1>12
  <2> DEFINE es == Laid(v, bs, ks, ss, Null)
  <2>2. /\ chain' = [chain EXCEPT ![v] = bs] /\ count' = [count EXCEPT ![v] = n]
        /\ IF row /\ n >= MpHash THEN Build(v, bs[1], es, n) ELSE ents' = es /\ UNCHANGED todo
    BY <1>5, <1>11, Zenon DEF Lay
  <2> HIDE DEF es
  <2>3. QED
    BY <2>1, <2>2 DEF es, Lays
<1>14. Inv' /\ Seen' = [Seen EXCEPT ![v] = Pairs(n, ks, ss)]
  <2> DEFINE tl == Null
  <2>1. n \in 0 .. Cardinality(Key) /\ (tl = Null \/ (n > 0 /\ tl = bs[n]))
    BY <1>1
  <2>2. Lays(v, n, bs, ks, ss, tl)
    BY <1>13
  <2> HIDE DEF tl
  <2>3. QED
    BY <1>2, <1>3, <1>5, <1>7, <1>9, <2>1, <2>2, LayStep
<1>15. Seen[v] = <<>>
  BY <1>5 DEF Seen
<1>16. Map!Distinct(ks) /\ ks \in Map!Lists
  <2>1. Map!Distinct(ks)
    BY <1>3 DEF Map!Distinct
  <2>2. ks \in Map!Lists
    <3>1. Map!Cardinality(Key) = Cardinality(Key)
      BY DEF Map!Cardinality, Cardinality
    <3>2. QED
      BY <1>1, <1>3, <3>1 DEF Map!Lists
  <2>3. QED
    BY <2>1, <2>2
<1>17. QED
  <2>1. Seen' = [Seen EXCEPT ![v] = Map!Given(ks, y)]
    BY <1>8, <1>14
  <2>2. Map!Fill(v, ks, y)
    BY <1>15, <1>16, <2>1, Zenon DEF Map!Fill
  <2>3. QED
    BY <1>6, <1>14, <1>16, <2>2, Zenon

\* mp_ixbuild's loop puts an entry more into the index; a script sees nothing.
LEMMA BuildStepStep ==
  ASSUME Inv, BuildStep
  PROVE  Inv' /\ Seen' = Seen
<1>0. PICK v \in Var, i \in Nat : todo = [map |-> v, i |-> i]
  <2>1. todo \in [map : Var, i : Nat]
    BY DEF Inv, BuildStep, Idle
  <2>2. QED
    BY <2>1
<1> DEFINE c == chain[v]
           h == c[1]
           e == c[i]
           x == ents[h].ix
           y == IxPut(x, e, ents)
           S == Upto(c, i - 1)
<1>1. /\ ents' = [ents EXCEPT ![h].ix = y]
      /\ todo' = IF i = Len(c) THEN Done ELSE [todo EXCEPT !.i = i + 1]
      /\ chain' = chain /\ count' = count
  BY <1>0 DEF BuildStep, First
<1>2. /\ todo \in [map : Var, i : Nat] /\ v \in Var /\ i \in 1 .. Len(c) /\ x.cap > 0
      /\ ents \in [Addr -> Entry] /\ chain \in [Var -> Seq(Addr)] /\ count \in [Var -> Nat]
      /\ Null \notin Var /\ todo = [map |-> v, i |-> i]
  BY <1>0, MapAssumption DEF Inv, BuildStep, Idle, First
<1>3. /\ Sound(ents, c, i - 1) /\ c \in Seq(Addr) /\ Len(c) \in Nat
      /\ DOMAIN c = 1 .. Len(c) /\ i - 1 < Len(c) /\ i \in Nat
  BY <1>2 DEF Inv, Indexed
<1>4. c # <<>> /\ 1 \in 1 .. Len(c) /\ h \in Addr /\ e \in Addr
  BY <1>2, <1>3
<1>5. /\ Fits(x, S, ents) /\ x.n = i - 1 /\ x.dead = 0 /\ x.cap > Len(c)
  BY <1>2, <1>3, <1>4 DEF Sound
<1>6. S \in SUBSET Addr /\ e \notin S /\ \A b \in S : ents[b].k # ents[e].k
  <2>1. ASSUME NEW g \in 1 .. i - 1
        PROVE  c[g] \in Addr /\ c[g] # e /\ ents[c[g]].k # ents[e].k
    <3>1. g \in 1 .. Len(c) /\ g # i
      BY <1>2, <1>3
    <3>2. QED
      BY <1>2, <1>3, <3>1 DEF Sound
  <2>2. QED
    BY <2>1 DEF Upto
<1>7. ents[e].k \in Key
  BY <1>2, <1>3 DEF Sound
<1>8. x.n + x.dead + 1 < x.cap
  <2>1. x.cap \in Nat
    BY <1>5, IndexFields DEF Fits
  <2>2. QED
    BY <1>2, <1>3, <1>5, <2>1
<1>9. /\ Fits(y, S \cup {e}, ents) /\ y.cap = x.cap /\ y.n = x.n + 1 /\ y.dead <= x.dead
  <2> HIDE DEF S, e, x
  <2>1. QED
    BY <1>4, <1>5, <1>6, <1>7, <1>8, PutFits
<1> HIDE DEF y
<1>10. /\ y \in Index /\ y.n = i /\ y.dead = 0 /\ y.cap > Len(c)
  <2>1. y \in Index /\ y.dead \in Nat
    BY <1>9, IndexFields DEF Fits
  <2>2. QED
    BY <1>3, <1>5, <1>9, <2>1
<1>11. S \cup {e} = Upto(c, i)
  <2>1. \A g \in 1 .. i : g \in 1 .. i - 1 \/ g = i
    BY <1>3
  <2>2. \A g \in 1 .. i - 1 : g \in 1 .. i
    BY <1>3
  <2>3. i \in 1 .. i
    BY <1>2, <1>3
  <2>4. QED
    BY <2>1, <2>2, <2>3 DEF Upto
<1>12. /\ ents' \in [Addr -> Entry]
       /\ \A b \in Addr : /\ ents'[b].k = ents[b].k /\ ents'[b].s = ents[b].s
                          /\ ents'[b].tl = ents[b].tl
                          /\ ents'[b].ix = IF b = h THEN y ELSE ents[b].ix
                          /\ b # h => ents'[b] = ents[b]
  <2> DEFINE fs == [ents EXCEPT ![h].ix = y]
  <2> HIDE DEF h
  <2>1. /\ fs \in [Addr -> Entry]
        /\ \A b \in Addr : /\ fs[b].k = ents[b].k /\ fs[b].s = ents[b].s
                           /\ fs[b].tl = ents[b].tl
                           /\ fs[b].ix = IF b = h THEN y ELSE ents[b].ix
                           /\ b # h => fs[b] = ents[b]
    <3>1. ents \in [Addr -> Entry] /\ h \in Addr /\ y \in Index
      BY <1>2, <1>4, <1>10
    <3>2. QED
      BY <3>1, SetIx
  <2>2. ents' = fs
    BY <1>1
  <2> HIDE DEF fs
  <2>3. QED
    BY <2>1, <2>2
<1>13. \A u \in Var : chain[u] \in Seq(Addr) /\ DOMAIN chain[u] = 1 .. Len(chain[u])
                      /\ \A g \in DOMAIN chain[u] : chain[u][g] \in Addr
  BY <1>2
<1>14. Seen' = Seen
  <2>1. \A u \in Var : \A g \in DOMAIN chain[u] :
          ents'[chain[u][g]].k = ents[chain[u][g]].k /\ ents'[chain[u][g]].s = ents[chain[u][g]].s
    BY <1>12, <1>13
  <2>2. QED
    BY <1>1, <2>1 DEF Seen
<1>15. Sound(ents', c, i)
  <2>1. \A g \in 1 .. Len(c) : c[g] \in Addr /\ ents'[c[g]].k = ents[c[g]].k
    BY <1>3, <1>12
  <2>2. \A g \in 2 .. Len(c) : ents'[c[g]].ix = NoIx
    <3>1. \A g \in 2 .. Len(c) : g \in 1 .. Len(c) /\ c[g] # h
      <4> SUFFICES ASSUME NEW g \in 2 .. Len(c) PROVE g \in 1 .. Len(c) /\ c[g] # h
        OBVIOUS
      <4>1. g \in 1 .. Len(c) /\ g # 1
        BY <1>3
      <4>2. QED
        BY <1>3, <1>4, <4>1 DEF Sound
    <3>2. QED
      BY <1>3, <1>12, <2>1, <3>1 DEF Sound
  <2>3. ents'[h].ix = y /\ ents'[h].tl = ents[h].tl
    BY <1>4, <1>12
  <2>4. \A b \in Upto(c, i) : ents'[b].k = ents[b].k
    <3>1. \A g \in 1 .. i : g \in 1 .. Len(c)
      BY <1>2, <1>3
    <3>2. QED
      BY <2>1, <3>1 DEF Upto
  <2>5. Fits(y, Upto(c, i), ents')
    <3>1. Fits(y, Upto(c, i), ents)
      BY <1>9, <1>11
    <3> DEFINE fs == ents'
    <3> HIDE DEF fs
    <3>2. \A b \in Upto(c, i) : fs[b].k = ents[b].k
      BY <2>4 DEF fs
    <3>3. Fits(y, Upto(c, i), fs)
      BY <3>1, <3>2, FitsByKeys
    <3>4. QED
      BY <3>3 DEF fs
  <2>6. i \in 0 .. Len(c)
    BY <1>2, <1>3
  <2>7. QED
    BY <1>3, <1>4, <1>10, <2>1, <2>2, <2>3, <2>5, <2>6 DEF Sound
<1>16. ASSUME NEW u \in Var, u # v
       PROVE  Sound(ents', chain[u], Len(chain[u])) /\ Indexed(u)' = Len(chain[u])
  <2>1. Sound(ents, chain[u], Len(chain[u]))
    BY <1>2, <1>16 DEF Inv, Indexed
  <2>2. h \notin Elems(chain[u]) /\ Elems(chain[u]) \subseteq Addr
    <3>1. h \in Elems(c)
      BY <1>3, <1>4 DEF Elems
    <3>2. QED
      BY <1>2, <1>13, <1>16, <3>1, ElemsOf DEF Inv
  <2>3. \A b \in Elems(chain[u]) : ents'[b] = ents[b]
    BY <1>12, <2>2
  <2>4. Sound(ents', chain[u], Len(chain[u]))
    <3> DEFINE fs == ents'
    <3> HIDE DEF fs
    <3>1. \A b \in Elems(chain[u]) : fs[b] = ents[b]
      BY <2>3 DEF fs
    <3>2. Sound(fs, chain[u], Len(chain[u]))
      BY <2>1, <3>1, Untouched
    <3>3. QED
      BY <3>2 DEF fs
  <2>5. todo'.map # u
    BY <1>1, <1>2, <1>16 DEF Done
  <2>6. QED
    BY <1>1, <2>4, <2>5 DEF Indexed
<1>17. Indexed(v)' = i
  <2>1. CASE i = Len(c)
    BY <1>1, <1>2, <2>1 DEF Indexed, Done
  <2>2. CASE i # Len(c)
    <3>1. todo'.map = v /\ todo'.i = i + 1
      BY <1>1, <1>2, <2>2
    <3>2. QED
      BY <1>3, <3>1 DEF Indexed
  <2>3. QED
    BY <2>1, <2>2
<1>18. \A u \in Var : count'[u] = Len(chain'[u]) /\ Sound(ents', chain'[u], Indexed(u)')
  BY <1>1, <1>2, <1>15, <1>16, <1>17 DEF Inv
<1>19. \/ todo' = Done
       \/ /\ todo' \in [map : Var, i : Nat]
          /\ todo'.i \in 1 .. Len(chain'[todo'.map])
          /\ ents'[chain'[todo'.map][1]].ix.cap > 0
  <2>1. CASE i = Len(c)
    BY <1>1, <2>1
  <2>2. CASE i # Len(c)
    <3>1. todo' = [map |-> v, i |-> i + 1]
      BY <1>1, <1>2, <2>2
    <3>2. i + 1 \in 1 .. Len(c) /\ i + 1 \in Nat
      BY <1>2, <1>3, <2>2
    <3>3. ents'[h].ix.cap > 0
      BY <1>2, <1>4, <1>9, <1>12
    <3>4. QED
      BY <1>1, <1>2, <3>1, <3>2, <3>3
  <2>3. QED
    BY <2>1, <2>2
<1>20. Inv'
  <2>1. \A u, w \in Var : u # w => Elems(chain'[u]) \cap Elems(chain'[w]) = {}
    BY <1>1 DEF Inv
  <2>2. chain' \in [Var -> Seq(Addr)] /\ count' \in [Var -> Nat]
    BY <1>1, <1>2
  <2>3. QED
    BY <1>12, <1>18, <1>19, <2>1, <2>2 DEF Inv, First
<1>21. QED
  BY <1>14, <1>20

-----------------------------------------------------------------------------
(***************************************************************************)
(* Every map, always                                                       *)
(***************************************************************************)

\* With every map empty the invariant holds.
LEMMA InitInv ==
  ASSUME Init
  PROVE  Inv /\ Map!Init
<1>1. ents \in [Addr -> Entry]
  BY BlankEntry DEF Init
<1>2. /\ chain \in [Var -> Seq(Addr)] /\ count \in [Var -> Nat] /\ todo = Done
      /\ \A v \in Var : chain[v] = <<>> /\ count[v] = 0
  BY DEF Init
<1>3. ASSUME NEW v \in Var
      PROVE  count[v] = Len(chain[v]) /\ Sound(ents, chain[v], Indexed(v))
  <2>1. Indexed(v) = 0 /\ chain[v] = <<>> /\ count[v] = 0
    BY <1>2, MapAssumption DEF Indexed, Done
  <2>2. Sound(ents, <<>>, 0)
    BY DEF Sound
  <2>3. QED
    BY <2>1, <2>2
<1>4. \A u, v \in Var : u # v => Elems(chain[u]) \cap Elems(chain[v]) = {}
  BY <1>2 DEF Elems
<1>5. Seen = [v \in Var |-> <<>>]
  BY <1>2 DEF Seen
<1>6. QED
  BY <1>1, <1>2, <1>3, <1>4, <1>5 DEF Inv, Map!Init

\* Every step keeps the invariant and does to what a script sees what one
\* operation on an ordered map does, or nothing.
LEMMA NextInv ==
  ASSUME Inv, [Next]_vars
  PROVE  Inv' /\ [Map!Next]_Seen
<1>1. CASE UNCHANGED vars
  <2>1. ents' = ents /\ chain' = chain /\ count' = count /\ todo' = todo
    BY <1>1 DEF vars
  <2>2. Inv'
    BY <2>1 DEF Inv, Indexed, First
  <2>3. Seen' = Seen
    BY <2>1 DEF Seen
  <2>4. QED
    BY <2>2, <2>3
<1>2. CASE BuildStep
  BY <1>2, BuildStepStep
<1>3. ASSUME NEW v \in Var, NEW k \in Key, NEW x \in Value, Put(v, k, x)
      PROVE  Inv' /\ [Map!Next]_Seen
  <2>1. CASE PutOld(v, k, x)
    BY <2>1, PutOldStep DEF Map!Next
  <2>2. ASSUME NEW bs \in Alloc(Addr \ Live, 1), PutNew(v, k, x, bs)
        PROVE  Inv' /\ [Map!Next]_Seen
    BY <2>2, PutNewStep DEF Map!Next
  <2>3. QED
    BY <1>3, <2>1, <2>2 DEF Put
<1>4. ASSUME NEW v \in Var, NEW k \in Key, Del(v, k)
      PROVE  Inv' /\ [Map!Next]_Seen
  BY <1>4, DelStep DEF Map!Next
<1>5. ASSUME NEW v \in Var, NEW s \in Var, Copied(v, s)
      PROVE  Inv' /\ [Map!Next]_Seen
  BY <1>5, CopyStep DEF Copied, Map!Next
<1>6. ASSUME NEW v \in Var, Clear(v)
      PROVE  Inv' /\ [Map!Next]_Seen
  BY <1>6, ClearStep DEF Map!Next
<1>7. ASSUME NEW v \in Var, NEW ks \in Lists, NEW x \in Value, NEW row \in BOOLEAN,
             NEW bs \in Alloc(Freed(v), Len(ks)), Link(v, bs, ks, x, row)
      PROVE  Inv' /\ [Map!Next]_Seen
  BY <1>7, LinkStep DEF Map!Next
<1>8. QED
  BY <1>1, <1>2, <1>3, <1>4, <1>5, <1>6, <1>7 DEF Next

\* And every step keeps it.
LEMMA InvAlways == Spec => []Inv
<1>1. Init => Inv
  BY InitInv
<1>2. Inv /\ [Next]_vars => Inv'
  BY NextInv
<1>3. QED
  BY <1>1, <1>2, PTL DEF Spec

\* An index, built or being built, holds what the chain says it does.
LEMMA IndexHolds ==
  ASSUME Inv, NEW v \in Var, chain[v] # <<>>, Ix(v).cap > 0
  PROVE  /\ Fits(Ix(v), Upto(chain[v], Indexed(v)), ents) /\ Ix(v).n = Indexed(v)
         /\ Upto(chain[v], Indexed(v)) \subseteq Elems(chain[v]) /\ Elems(chain[v]) \subseteq Addr
<1>1. Sound(ents, chain[v], Indexed(v)) /\ chain[v] \in Seq(Addr)
  BY DEF Inv
<1>2. Fits(Ix(v), Upto(chain[v], Indexed(v)), ents) /\ Ix(v).n = Indexed(v)
  BY <1>1 DEF Sound, Ix, First
<1>3. Indexed(v) \in 0 .. Len(chain[v])
  BY <1>1 DEF Sound
<1>4. Upto(chain[v], Indexed(v)) \subseteq Upto(chain[v], Len(chain[v]))
  BY <1>1, <1>3 DEF Upto
<1>5. QED
  BY <1>1, <1>2, <1>4, ElemsOf

\* Types; every entry of a chain is live, and on one chain once.
THEOREM TypeCorrect == Spec => []TypeOK
<1>1. Inv => TypeOK
  <2> SUFFICES ASSUME Inv PROVE TypeOK
    OBVIOUS
  <2>1. \A a \in Addr : /\ ents[a].k \in Key \cup {Null}
                        /\ ents[a].s \in Value \cup {Null}
                        /\ ents[a].tl \in Addr \cup {Null}
    BY EntryFields DEF Inv
  <2>2. chain \in [Var -> Seq(Live)]
    <3>1. ASSUME NEW v \in Var PROVE chain[v] \in Seq(Live)
      <4>1. Sound(ents, chain[v], Indexed(v)) /\ chain[v] \in Seq(Addr)
        BY DEF Inv
      <4>2. \A i \in 1 .. Len(chain[v]) : chain[v][i] \in Live
        BY <4>1, MapAssumption DEF Sound, Live
      <4>3. QED
        BY <4>1, <4>2
    <3>2. QED
      BY <3>1 DEF Inv
  <2>3. todo.map \in Var \cup {Null} /\ todo.i \in Nat
    <3>1. CASE todo = Done
      BY <3>1 DEF Done
    <3>2. CASE todo \in [map : Var, i : Nat]
      BY <3>2
    <3>3. QED
      BY <3>1, <3>2 DEF Inv
  <2>4. count \in [Var -> Nat]
    BY DEF Inv
  <2>5. ASSUME NEW u \in Var, NEW v \in Var,
               NEW i \in DOMAIN chain[u], NEW j \in DOMAIN chain[v],
               chain[u][i] = chain[v][j]
        PROVE  u = v /\ i = j
    <3>1. u = v
      <4>1. chain[u][i] \in Elems(chain[u]) /\ chain[v][j] \in Elems(chain[v])
        BY DEF Elems
      <4>2. QED
        BY <2>5, <4>1 DEF Inv
    <3>2. /\ Sound(ents, chain[u], Indexed(u)) /\ chain[u] \in Seq(Addr)
          /\ DOMAIN chain[u] = 1 .. Len(chain[u])
      BY DEF Inv
    <3>3. i \in 1 .. Len(chain[u]) /\ j \in 1 .. Len(chain[u])
      BY <3>1, <3>2
    <3>4. ents[chain[u][i]].k = ents[chain[u][j]].k
      BY <2>5, <3>1
    <3>5. \A p, q \in 1 .. Len(chain[u]) :
            ents[chain[u][p]].k = ents[chain[u][q]].k => p = q
      BY <3>2 DEF Sound
    <3>6. QED
      BY <3>1, <3>3, <3>4, <3>5
  <2>6. QED
    BY <2>1, <2>2, <2>3, <2>4, <2>5 DEF TypeOK
<1>2. QED
  BY <1>1, InvAlways, PTL

\* Every slot of an index is empty, a tombstone or an entry of its chain, and
\* its two counters are right: mp_ixput, mp_ixdel and mp_ixbuild keep them so
\* however keys collide and wherever tombstones are filled again.
THEOREM IndexExactCorrect == Spec => []IndexExact
<1>1. Inv => IndexExact
  <2> SUFFICES ASSUME Inv, NEW v \in Var, chain[v] # <<>>, Ix(v).cap > 0
               PROVE  /\ Slots(Ix(v), Addr) = Slots(Ix(v), Elems(chain[v]))
                      /\ Cardinality(Slots(Ix(v), Addr)) = Ix(v).n
                      /\ Cardinality(Slots(Ix(v), {Gone})) = Ix(v).dead
                      /\ Idle => Ix(v).n = Len(chain[v])
    BY DEF IndexExact
  <2>1. /\ Fits(Ix(v), Upto(chain[v], Indexed(v)), ents) /\ Ix(v).n = Indexed(v)
        /\ Upto(chain[v], Indexed(v)) \subseteq Elems(chain[v]) /\ Elems(chain[v]) \subseteq Addr
    BY IndexHolds
  <2>2. Slots(Ix(v), Addr) = Slots(Ix(v), Elems(chain[v]))
    BY <2>1, MapAssumption DEF Fits, Slots
  <2>3. Idle => Indexed(v) = Len(chain[v])
    BY MapAssumption DEF Indexed, Idle, Done
  <2>4. QED
    BY <2>1, <2>2, <2>3 DEF Fits
<1>2. QED
  BY <1>1, InvAlways, PTL

\* Every index has an empty slot, so mp_ixput's loop and a lookup of a key there
\* is not both end.
THEOREM ProbeEndsCorrect == Spec => []ProbeEnds
<1>1. Inv => ProbeEnds
  <2> SUFFICES ASSUME Inv, NEW v \in Var, chain[v] # <<>>, Ix(v).cap > 0
               PROVE  Slots(Ix(v), {Null}) # {}
    BY DEF ProbeEnds
  <2> DEFINE S == Upto(chain[v], Indexed(v))
  <2>1. Fits(Ix(v), S, ents) /\ S \in SUBSET Addr
    BY IndexHolds
  <2> HIDE DEF S
  <2>2. \E i \in 0 .. Ix(v).cap - 1 : Ix(v).t[i] = Null
    BY <2>1, EmptySlot
  <2>3. QED
    BY <2>2 DEF Slots
<1>2. QED
  BY <1>1, InvAlways, PTL

\* The first entry knows the last, or says that it does not, n is the length,
\* and no other entry keeps an index: mp_add and mp_del hand the tail and the
\* index on whichever entry goes.
THEOREM HeadKnowsCorrect == Spec => []HeadKnows
<1>1. Inv => HeadKnows
  <2> SUFFICES ASSUME Inv, NEW v \in Var
               PROVE  /\ count[v] = Len(chain[v])
                      /\ chain[v] # <<>> => ents[First(v)].tl \in {Null, chain[v][Len(chain[v])]}
                      /\ \A i \in DOMAIN chain[v] : i > 1 => ents[chain[v][i]].ix = NoIx
    BY DEF HeadKnows
  <2>1. /\ count[v] = Len(chain[v]) /\ Sound(ents, chain[v], Indexed(v))
        /\ chain[v] \in Seq(Addr) /\ DOMAIN chain[v] = 1 .. Len(chain[v])
    BY DEF Inv
  <2>2. \A i \in DOMAIN chain[v] : i > 1 => i \in 2 .. Len(chain[v])
    BY <2>1
  <2>3. QED
    BY <2>1, <2>2 DEF Sound, First
<1>2. QED
  BY <1>1, InvAlways, PTL

\* The chains, tombstones, tails and indexes of var.c are the ordered maps a
\* script sees: every step of theirs is one of a map's or changes nothing it
\* can see, a lookup through an index that is full of tombstones included.
THEOREM ImplementsMapCorrect == Spec => ImplementsMap
<1>1. Init => Map!Init
  BY InitInv
<1>2. Inv /\ [Next]_vars => [Map!Next]_Seen
  BY NextInv
<1>3. QED
  BY <1>1, <1>2, InvAlways, PTL DEF Spec, ImplementsMap, Map!Spec
=============================================================================
