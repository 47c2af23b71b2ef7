------------------------------ MODULE MapChain ------------------------------
(***************************************************************************)
(* Maps as src/src/var.c keeps them: a chain of entries in order, found by *)
(* walking it or, once it is long, through an open-addressed index with    *)
(* tombstones.  The chain's tail and index are written down in its first   *)
(* entry, and move when that entry goes.                                   *)
(*                                                                         *)
(* A Var is any place that owns a chain: a variable, or an entry that has  *)
(* a map below it.  A chain is the sequence of entries nx leads through.   *)
(* Entries are memory: freed ones are used again.                          *)
(***************************************************************************)
EXTENDS Integers, Sequences, FiniteSets

CONSTANTS
  Var, Key, Value,
  Addr,      \* where entries may be
  Alloc(_, _),   \* what an allocator may hand out for n entries, given what is free
  Null,      \* no entry; an empty slot of an index
  Gone,      \* MP_GONE
  Hash,      \* vh
  MinCap,    \* the least size of an index: 32 in the code
  MpHash     \* HIBR_MPHASH, the length from which a chain has one: 16

ASSUME MapAssumption ==
  /\ IsFiniteSet(Key) /\ IsFiniteSet(Addr)
  /\ \A F \in SUBSET Addr : \A n \in 0..Cardinality(Key) : \A bs \in Alloc(F, n) :
       bs \in [1..n -> F] /\ \A i, j \in 1..n : bs[i] = bs[j] => i = j
  /\ Null \notin Var \cup Key \cup Value \cup Addr
  /\ Gone \notin Addr \cup {Null}
  /\ Hash \in [Key -> Nat]
  /\ MinCap \in Nat /\ MinCap >= 4 /\ MpHash \in Nat \ {0}

VARIABLES
  ents,    \* the entries
  chain,   \* the chain of each map
  count,   \* n beside each map
  todo     \* mp_ixbuild's loop: whose chain, and how far along

vars == <<ents, chain, count, todo>>

Empty(c) == [cap |-> c, n |-> 0, dead |-> 0, t |-> [i \in 0..c - 1 |-> Null]]
NoIx == Empty(0)
Blank == [k |-> Null, s |-> Null, tl |-> Null, ix |-> NoIx]
Live == {a \in Addr : ents[a].k # Null}

Elems(c) == {c[i] : i \in DOMAIN c}
Least(S) == CHOOSE j \in S : \A i \in S : j <= i
Spot(c, e) == CHOOSE i \in DOMAIN c : c[i] = e
Without(c, e) == SubSeq(c, 1, Spot(c, e) - 1) \o SubSeq(c, Spot(c, e) + 1, Len(c))

-----------------------------------------------------------------------------
\* Where a key's probe is after j steps.
Probe(x, k, j) == (Hash[k] + j) % x.cap

\* A mutant: a tombstone ends the search.
MutIxFind(x, k) ==
  LET hit == {j \in 0..x.cap - 1 :
                LET a == x.t[Probe(x, k, j)] IN a \in {Null, Gone} \/ ents[a].k = k}
      a   == x.t[Probe(x, k, Least(hit))]
  IN  IF hit = {} \/ a = Gone THEN Null ELSE a

\* mp_ixfind.
IxFind(x, k) ==
  LET hit == {j \in 0..x.cap - 1 :
                LET a == x.t[Probe(x, k, j)] IN
                  a = Null \/ (a # Gone /\ ents[a].k = k)}
  IN  IF hit = {} THEN Null ELSE x.t[Probe(x, k, Least(hit))]

\* A mutant: a tombstone that is filled stays counted.
MutIxPut(x, e, es) ==
  LET k   == es[e].k
      hit == {j \in 0..x.cap - 1 :
                LET a == x.t[Probe(x, k, j)] IN
                  a \in {Null, Gone} \/ es[a].k = k}
      i   == Probe(x, k, Least(hit))
  IN  [x EXCEPT !.t[i] = e, !.n = IF x.t[i] \in {Null, Gone} THEN @ + 1 ELSE @]

\* mp_ixput: its loop has no bound but the empty slots.
IxPut(x, e, es) ==
  LET k   == es[e].k
      hit == {j \in 0..x.cap - 1 :
                LET a == x.t[Probe(x, k, j)] IN
                  a \in {Null, Gone} \/ es[a].k = k}
      i   == Probe(x, k, Least(hit))
  IN  [x EXCEPT !.t[i] = e,
                !.n = IF x.t[i] \in {Null, Gone} THEN @ + 1 ELSE @,
                !.dead = IF x.t[i] = Gone THEN @ - 1 ELSE @]

\* mp_ixdel.
IxDel(x, e) ==
  LET k   == ents[e].k
      hit == {j \in 0..x.cap - 1 : x.t[Probe(x, k, j)] \in {Null, e}}
      i   == Probe(x, k, Least(hit))
  IN  IF hit = {} \/ x.t[i] = Null THEN x
      ELSE [x EXCEPT !.t[i] = Gone, !.n = @ - 1, !.dead = @ + 1]

\* mp_ixnew: a size that n entries fill to three quarters at most.
PowerOfTwo(p) == \A d \in 2..p : p % d = 0 => d % 2 = 0
Enough(n) ==
  {c \in {MinCap * p : p \in {q \in 1..2 * n + 1 : PowerOfTwo(q)}} : c >= n + n \div 2}
NewCap(n) == Least(Enough(n))

-----------------------------------------------------------------------------
First(v) == chain[v][1]
Done == [map |-> Null, i |-> 0]
Idle == todo = Done

Walked(v, k) ==
  LET at == {i \in DOMAIN chain[v] : ents[chain[v][i]].k = k}
  IN  IF at = {} THEN Null ELSE chain[v][Least(at)]

\* mp_find.
Find(v, k) ==
  IF chain[v] # <<>> /\ ents[First(v)].ix.cap > 0 THEN IxFind(ents[First(v)].ix, k)
  ELSE Walked(v, k)

\* mp_ixbuild begins: the old index goes and an empty one takes its place.
Build(v, h, es, n) ==
  /\ ents' = [es EXCEPT ![h].ix = Empty(NewCap(n))]
  /\ todo' = [map |-> v, i |-> 1]

\* Its loop, an entry at a time.
BuildStep ==
  LET v == todo.map
      h == First(v)
  IN
  /\ ~Idle
  /\ ents' = [ents EXCEPT ![h].ix = IxPut(@, chain[v][todo.i], ents)]
  /\ todo' = IF todo.i = Len(chain[v]) THEN Done ELSE [todo EXCEPT !.i = @ + 1]
  /\ UNCHANGED <<chain, count>>

\* v_setp on a key there is.
PutOld(v, k, x) ==
  /\ Idle /\ Find(v, k) # Null
  /\ ents' = [ents EXCEPT ![Find(v, k)].s = x]
  /\ UNCHANGED <<chain, count, todo>>

\* mp_tail, found once when nobody has written it down.
LastOf(v) ==
  IF ents[First(v)].tl # Null THEN ents[First(v)].tl ELSE chain[v][Len(chain[v])]

\* The chain once its last entry's nx is the new one.
Linked(v, a) ==
  LET at == {i \in DOMAIN chain[v] : chain[v][i] = LastOf(v)} IN
  IF chain[v] = <<>> THEN <<a>>
  ELSE IF at = {} THEN chain[v]
  ELSE SubSeq(chain[v], 1, Least(at)) \o <<a>>

\* A mutant: tombstones do not count.
MutCrowded(x) == x.n * 4 >= x.cap * 3
Crowded(x) == (x.n + x.dead) * 4 >= x.cap * 3

\* v_setp on a key there is not: mp_add.
PutNew(v, k, x, bs) ==
  LET a   == bs[1]
      c   == Linked(v, a)
      h   == c[1]
      n   == count[v] + 1
      new == [Blank EXCEPT !.k = k, !.s = x]
      es  == [[ents EXCEPT ![a] = new] EXCEPT ![h].tl = a]
      ix  == es[h].ix
  IN
  /\ Idle /\ Find(v, k) = Null /\ bs \in Alloc(Addr \ Live, 1)
  /\ chain' = [chain EXCEPT ![v] = c]
  /\ count' = [count EXCEPT ![v] = n]
  /\ \/ /\ IF ix.cap > 0 THEN Crowded(ix) ELSE n >= MpHash
        /\ Build(v, h, es, n)
     \/ /\ ix.cap > 0 /\ ~Crowded(ix)
        /\ ents' = [es EXCEPT ![h].ix = IxPut(ix, a, es)]
        /\ UNCHANGED todo
     \/ /\ ix.cap = 0 /\ n < MpHash
        /\ ents' = es
        /\ UNCHANGED todo

\* A mutant: the tail is left pointing at what was removed.
MutMoved(tl, e, to) == tl
\* The tail, which goes elsewhere when its entry is removed.
Moved(tl, e, to) == IF tl = e THEN to ELSE tl

\* v_delp: mp_del.
Del(v, k) ==
  LET e  == Find(v, k)
      h  == First(v)
      c  == Without(chain[v], e)
      ix == IxDel(ents[h].ix, e)
      tl == ents[h].tl
      prev == chain[v][Spot(chain[v], e) - 1]
      rest == [ents EXCEPT ![h].ix = ix]
  IN
  /\ Idle /\ e # Null
  /\ chain' = [chain EXCEPT ![v] = c]
  /\ count' = [count EXCEPT ![v] = @ - 1]
  /\ ents' =
       IF e # h THEN [rest EXCEPT ![h].tl = Moved(tl, e, prev), ![e] = Blank]
       ELSE IF c = <<>> THEN [ents EXCEPT ![e] = Blank]
       ELSE [ents EXCEPT ![c[1]].tl = Moved(tl, e, c[1]),
                         ![c[1]].ix = ix, ![e] = Blank]
  /\ UNCHANGED todo

\* A mutant: the variable keeps the map it has freed.
MutClear(v) ==
  /\ Idle
  /\ ents' = [a \in Addr |-> IF a \in Elems(chain[v]) THEN Blank ELSE ents[a]]
  /\ UNCHANGED <<chain, count, todo>>

\* v_free_el: mp_free.
Clear(v) ==
  /\ Idle
  /\ ents' = [a \in Addr |-> IF a \in Elems(chain[v]) THEN Blank ELSE ents[a]]
  /\ chain' = [chain EXCEPT ![v] = <<>>]
  /\ count' = [count EXCEPT ![v] = 0]
  /\ UNCHANGED todo

\* A chain made at once in place of a map's old one.
Laid(v, bs, ks, ss, tl) ==
  [a \in Addr |->
     IF a \in Elems(bs)
     THEN LET i == CHOOSE j \in DOMAIN bs : bs[j] = a IN
          [Blank EXCEPT !.k = ks[i], !.s = ss[i], !.tl = IF i = 1 THEN tl ELSE Null]
     ELSE IF a \in Elems(chain[v]) THEN Blank ELSE ents[a]]

\* What is free once the old one has gone.
Freed(v) == (Addr \ Live) \cup Elems(chain[v])

Lay(v, bs, es, built) ==
  /\ chain' = [chain EXCEPT ![v] = bs]
  /\ IF built THEN Build(v, bs[1], es, Len(bs)) ELSE ents' = es /\ UNCHANGED todo

\* v_copy: m_clone.
Copy(d, s, bs) ==
  LET c == chain[s] IN
  /\ Idle /\ d # s /\ bs \in Alloc(Freed(d), Len(c))
  /\ Lay(d, bs,
         Laid(d, bs, [i \in DOMAIN c |-> ents[c[i]].k], [i \in DOMAIN c |-> ents[c[i]].s],
              IF bs = <<>> THEN Null ELSE bs[Len(bs)]),
         Len(bs) >= MpHash)
  /\ count' = [count EXCEPT ![d] = count[s]]

\* A module that has emptied a map links a chain by hand (mods/csv.c): no
\* tail, and an index for the rows of a long table, never for the fields of a
\* row; a row holds its fields and no value.
Lists ==
  UNION {{ks \in [1..n -> Key] : \A i, j \in 1..n : ks[i] = ks[j] => i = j} :
         n \in 0..Cardinality(Key)}

Link(v, bs, ks, x, row) ==
  /\ Idle /\ chain[v] = <<>> /\ bs \in Alloc(Freed(v), Len(ks))
  /\ Lay(v, bs, Laid(v, bs, ks, [i \in DOMAIN ks |-> IF row THEN Null ELSE x], Null),
         row /\ Len(bs) >= MpHash)
  /\ count' = [count EXCEPT ![v] = Len(bs)]

-----------------------------------------------------------------------------
Init ==
  /\ ents = [a \in Addr |-> Blank]
  /\ chain = [v \in Var |-> <<>>]
  /\ count = [v \in Var |-> 0]
  /\ todo = Done

Put(v, k, x) ==
  PutOld(v, k, x) \/ \E bs \in Alloc(Addr \ Live, 1) : PutNew(v, k, x, bs)
Copied(d, s) == \E bs \in Alloc(Freed(d), Len(chain[s])) : Copy(d, s, bs)

Next ==
  \/ BuildStep
  \/ \E v \in Var, k \in Key :
       \/ \E x \in Value : Put(v, k, x)
       \/ Del(v, k)
  \/ \E d, s \in Var : Copied(d, s)
  \/ \E v \in Var : Clear(v)
  \/ \E v \in Var, ks \in Lists, x \in Value, row \in BOOLEAN :
       \E bs \in Alloc(Freed(v), Len(ks)) : Link(v, bs, ks, x, row)

Spec == Init /\ [][Next]_vars

-----------------------------------------------------------------------------
\* Types; every entry of a chain is live, and on one chain once.
TypeOK ==
  /\ \A a \in Addr : /\ ents[a].k \in Key \cup {Null}
                      /\ ents[a].s \in Value \cup {Null}
                      /\ ents[a].tl \in Addr \cup {Null}
  /\ chain \in [Var -> Seq(Live)] /\ count \in [Var -> Nat]
  /\ \A u, v \in Var : \A i \in DOMAIN chain[u], j \in DOMAIN chain[v] :
       chain[u][i] = chain[v][j] => u = v /\ i = j
  /\ todo.map \in Var \cup {Null} /\ todo.i \in Nat

\* Every slot of an index is empty, a tombstone or an entry of its chain, and
\* its two counters are right; one that is freed memory would be read by the
\* next lookup.
Ix(v) == ents[First(v)].ix
Slots(x, S) == {i \in 0..x.cap - 1 : x.t[i] \in S}
IndexExact ==
  \A v \in Var : (chain[v] # <<>> /\ Ix(v).cap > 0) =>
    /\ Slots(Ix(v), Addr) = Slots(Ix(v), Elems(chain[v]))
    /\ Cardinality(Slots(Ix(v), Addr)) = Ix(v).n
    /\ Cardinality(Slots(Ix(v), {Gone})) = Ix(v).dead
    /\ Idle => Ix(v).n = Len(chain[v])

\* Every index has an empty slot, at which mp_ixput's loop ends and without
\* which a lookup of a key there is not walks the whole table.
ProbeEnds ==
  \A v \in Var : (chain[v] # <<>> /\ Ix(v).cap > 0) => Slots(Ix(v), {Null}) # {}

\* The first entry knows the last, or says that it does not, n is the
\* length, and no other entry keeps an index, which nobody would free.
HeadKnows ==
  \A v \in Var :
    /\ count[v] = Len(chain[v])
    /\ chain[v] # <<>> => ents[First(v)].tl \in {Null, chain[v][Len(chain[v])]}
    /\ \A i \in DOMAIN chain[v] : i > 1 => ents[chain[v][i]].ix = NoIx

\* The chains are the ordered maps a script sees, each of its own.
Seen ==
  [v \in Var |-> [i \in DOMAIN chain[v] |->
                    <<ents[chain[v][i]].k, ents[chain[v][i]].s>>]]
Map == INSTANCE OrderedMap WITH map <- Seen, Unset <- Null
ImplementsMap == Map!Spec
=============================================================================
