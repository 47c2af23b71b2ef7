----------------------------- MODULE MCMapChain -----------------------------
(* Instances of MapChain for TLC. *)
EXTENDS MapChain, TLC

CONSTANTS k1, k2, k3, k4, Room

Addrs == 1..Room

\* An allocator that uses freed memory again at once, the lowest first.
LowestFirst(F, n) ==
  IF Cardinality(F) < n THEN {}
  ELSE {[i \in 1..n |-> CHOOSE a \in F : Cardinality({b \in F : b < a}) = i - 1]}

\* Keys that meet, one that is in their way and one whose probe wraps round.
Meeting == [k \in Key |-> CASE k = k3 -> 1 [] k = k4 -> 3 [] OTHER -> 0]

\* Bound: of two maps that hold something, one has no tombstones.
OneWorn ==
  \A u, v \in Var :
    u # v => \E w \in {u, v} : chain[w] = <<>> \/ Ix(w).dead = 0

\* Bound: rows without values are in one map, and one of them gets a value.
OneSet ==
  LET set == {a \in Live : ents[a].s # Null} IN
  \/ set = Live
  \/ Cardinality(set) <= 1 /\ \E v \in Var : Live = Elems(chain[v])

\* Which memory an entry is in makes no difference: an entry on a chain is
\* known by its place there.
Place(a) ==
  IF \E v \in Var : a \in Elems(chain[v])
  THEN CHOOSE p \in {<<v, i>> : v \in Var, i \in 1..Room} :
         p[2] \in DOMAIN chain[p[1]] /\ chain[p[1]][p[2]] = a
  ELSE a
Places ==
  <<[v \in Var |-> [i \in DOMAIN chain[v] |->
      LET e == ents[chain[v][i]] IN
      <<e.k, e.s, Place(e.tl), e.ix.n, e.ix.dead,
        [j \in DOMAIN e.ix.t |-> Place(e.ix.t[j])]>>]],
    count, todo>>

\* k1 and k2 hash alike; maps differ in name only.
Alike == Permutations({k1, k2}) \cup Permutations(Var)
=============================================================================
