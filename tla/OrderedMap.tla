----------------------------- MODULE OrderedMap -----------------------------
(***************************************************************************)
(* What a script sees of maps: each variable holds entries in the order    *)
(* their keys were first given, one to a key.  docs/language.md calls them *)
(* arrays and maps; both are this.                                         *)
(***************************************************************************)
EXTENDS Naturals, Sequences, FiniteSets

CONSTANTS Var, Key, Value,
  Unset  \* what an entry holds that has only a map below it

VARIABLE map

Keys(m) == {m[i][1] : i \in DOMAIN m}
Distinct(ks) == \A i, j \in DOMAIN ks : i # j => ks[i] # ks[j]

\* What a module may fill an empty map with at once, all values alike.
Given(ks, x) == [i \in DOMAIN ks |-> <<ks[i], x>>]
Lists == UNION {[1..n -> Key] : n \in 0..Cardinality(Key)}

Init == map = [v \in Var |-> <<>>]

Put(v, k, x) ==
  IF k \in Keys(map[v])
  THEN \E i \in DOMAIN map[v] : /\ map[v][i][1] = k
                                /\ map' = [map EXCEPT ![v][i] = <<k, x>>]
  ELSE map' = [map EXCEPT ![v] = Append(@, <<k, x>>)]

Del(v, k) ==
  \E i \in DOMAIN map[v] :
    /\ map[v][i][1] = k
    /\ map' = [map EXCEPT ![v] = SubSeq(@, 1, i - 1) \o SubSeq(@, i + 1, Len(@))]

Copy(d, s) == map' = [map EXCEPT ![d] = map[s]]

Clear(v) == map' = [map EXCEPT ![v] = <<>>]

Fill(v, ks, x) ==
  /\ map[v] = <<>> /\ Distinct(ks)
  /\ map' = [map EXCEPT ![v] = Given(ks, x)]

Next ==
  \/ \E v \in Var, k \in Key : (\E x \in Value : Put(v, k, x)) \/ Del(v, k)
  \/ \E d, s \in Var : Copy(d, s)
  \/ \E v \in Var : Clear(v) \/ (\E ks \in Lists, x \in Value \cup {Unset} : Fill(v, ks, x))

Spec == Init /\ [][Next]_map
=============================================================================
