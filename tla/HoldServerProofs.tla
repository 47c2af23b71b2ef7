-------------------------- MODULE HoldServerProofs --------------------------
(***************************************************************************)
(* The server of a held session, for any terminals, names, sizes and       *)
(* moves: types, that there is one primary, that no display is off the     *)
(* screen, that what each was sent is what it shows, that the program's    *)
(* terminal is as large as the union, that the primary's role stays with   *)
(* the display it belongs to, that a display comes back to where it was    *)
(* and is moved to where it was asked to be, and that no other is moved.   *)
(*                                                                         *)
(* The first half is about one state of the server at a time (`Inv'), the  *)
(* second about what the properties remember (`Memory'): each operation is *)
(* shown to be one of a few kinds of change (`Same', `Gone', `Joined'),    *)
(* and each kind to keep what is remembered.                               *)
(***************************************************************************)
EXTENDS HoldServer, Positions, FiniteSetTheorems

-----------------------------------------------------------------------------
(***************************************************************************)
(* Edges                                                                   *)
(***************************************************************************)

\* The least of finitely many places and 0: without one there would be a first
\* number of places that has none.
LEMMA Least ==
  ASSUME NEW n \in Nat, NEW q \in [1 .. n -> Int]
  PROVE  \E m \in {q[i] : i \in 1 .. n} \cup {0} :
           \A p \in {q[i] : i \in 1 .. n} \cup {0} : m <= p
<1> DEFINE First(k) == {q[i] : i \in 1 .. k} \cup {0}
           Has(k) == \E m \in First(k) : \A p \in First(k) : m <= p
           Bad == {k \in 1 .. n : ~Has(k)}
<1>1. SUFFICES ASSUME n # 0, n \in Bad
               PROVE  FALSE
  OBVIOUS
<1>2. PICK k \in Bad : \A j \in Bad : k <= j
  BY <1>1, FirstExists
<1>3. Has(k - 1)
  <2>1. CASE k = 1
    BY <2>1
  <2>2. CASE k # 1
    <3>1. k - 1 \in 1 .. n /\ ~(k <= k - 1)
      BY <2>2
    <3>2. QED
      BY <3>1, <1>2
  <2>3. QED
    BY <2>1, <2>2
<1>4. PICK m \in First(k - 1) : \A p \in First(k - 1) : m <= p
  BY <1>3
<1>5. m \in Int /\ q[k] \in Int /\ First(k) = First(k - 1) \cup {q[k]}
  <2>1. k \in 1 .. n /\ \A i \in 1 .. k - 1 : i \in 1 .. n
    OBVIOUS
  <2>2. 1 .. k = (1 .. k - 1) \cup {k}
    BY <2>1
  <2>3. QED
    BY <2>1, <2>2
<1>6. \A p \in First(k) : p \in Int
  OBVIOUS
<1>7. Has(k)
  <2>1. CASE m <= q[k]
    BY <2>1, <1>4, <1>5
  <2>2. CASE q[k] <= m
    <3>1. ASSUME NEW p \in First(k - 1)
          PROVE  p \in Int /\ q[k] <= p
      <4>1. m <= p
        BY <1>4
      <4>2. p \in First(k)
        BY <1>5
      <4>3. p \in Int
        BY <4>2, <1>6
      <4>4. QED
        BY <4>1, <4>3, <2>2, <1>5
    <3>2. q[k] \in First(k) /\ \A p \in First(k) : q[k] <= p
      BY <3>1, <1>5
    <3>3. QED
      BY <3>2
  <2>3. QED
    BY <2>1, <2>2, <1>5
<1>8. QED
  BY <1>7, <1>2

\* And the greatest.
LEMMA Greatest ==
  ASSUME NEW n \in Nat, NEW q \in [1 .. n -> Int]
  PROVE  \E m \in {q[i] : i \in 1 .. n} \cup {0} :
           \A p \in {q[i] : i \in 1 .. n} \cup {0} : p <= m
<1> DEFINE r == [i \in 1 .. n |-> -q[i]]
           All == {q[i] : i \in 1 .. n} \cup {0}
<1>1. r \in [1 .. n -> Int]
  OBVIOUS
<1>2. PICK m \in {r[i] : i \in 1 .. n} \cup {0} :
        \A p \in {r[i] : i \in 1 .. n} \cup {0} : m <= p
  BY <1>1, Least
<1>3. -m \in All /\ m \in Int
  OBVIOUS
<1>4. \A p \in All : p \in Int /\ -p \in {r[i] : i \in 1 .. n} \cup {0}
  OBVIOUS
<1>5. ASSUME NEW p \in All
      PROVE  p <= -m
  <2>1. p \in Int /\ -p \in {r[i] : i \in 1 .. n} \cup {0}
    BY <1>4
  <2>2. m <= -p
    BY <2>1, <1>2
  <2>3. QED
    BY <2>1, <2>2, <1>3
<1>6. QED
  BY <1>3, <1>5

-----------------------------------------------------------------------------
(***************************************************************************)
(* The server's operations keep its type                                   *)
(***************************************************************************)

Server == [cls: Seq(Client), slots: [Machine -> Slot \cup {None}], shift: Int,
           gone: BOOLEAN, size: Int, told: BOOLEAN]

\* The clients are a function on the numbers up to how many they are.
LEMMA Numbered ==
  ASSUME NEW s \in Server
  PROVE  /\ Len(s.cls) \in Nat /\ DOMAIN s.cls = 1 .. Len(s.cls)
         /\ \A i \in DOMAIN s.cls : s.cls[i] \in Client
         /\ s.cls \in [1 .. Len(s.cls) -> Client]
         /\ (s.cls # <<>> => 1 \in DOMAIN s.cls)
  BY DEF Server

LEMMA AsSeq ==
  ASSUME NEW n \in Nat, NEW f \in [1 .. n -> Client]
  PROVE  f \in Seq(Client) /\ Len(f) = n /\ DOMAIN f = 1 .. n
  OBVIOUS

LEMMA Fields ==
  ASSUME NEW c \in Client
  PROVE  /\ c.t \in Term /\ c.k \in 1 .. MaxTwin /\ c.at \in Int
         /\ c.w \in Widths /\ c.w \in Nat /\ c.prim \in BOOLEAN
         /\ c.autop \in BOOLEAN /\ c.wait \in BOOLEAN
         /\ c.front \in {NoFront} \cup (Int \X Widths)
         /\ Base[c.t] \in Machine
  BY HoldAssumption DEF Client

\* A client that is attached is at its place.
LEMMA Found ==
  ASSUME NEW s \in Server, NEW t \in Attached(s)
  PROVE  /\ At(s, t) \in DOMAIN s.cls /\ s.cls[At(s, t)].t = t
         /\ Of(s, t) \in Client /\ t \in Term
<1>1. \E i \in DOMAIN s.cls : s.cls[i].t = t
  BY DEF Attached
<1>2. At(s, t) \in DOMAIN s.cls /\ s.cls[At(s, t)].t = t
  BY <1>1 DEF At
<1>3. QED
  BY <1>2, Numbered, Fields DEF Of

\* The edge of the union is a number, and so is the origin's move, which is of
\* no display further than its place.
LEMMA Edges ==
  ASSUME NEW s \in Server
  PROVE  /\ Ubox(s) \in Int
         /\ Lowest(s) \in Int /\ Lowest(s) <= 0
         /\ \A i \in DOMAIN s.cls : Lowest(s) <= s.cls[i].at
<1> DEFINE n == Len(s.cls)
           p == [i \in 1 .. n |-> s.cls[i].at]
           e == [i \in 1 .. n |-> s.cls[i].at + s.cls[i].w]
           P == {s.cls[i].at : i \in DOMAIN s.cls} \cup {0}
           E == {s.cls[i].at + s.cls[i].w : i \in DOMAIN s.cls} \cup {0}
<1>1. n \in Nat /\ DOMAIN s.cls = 1 .. n
  BY Numbered
<1>2. \A i \in 1 .. n : s.cls[i].at \in Int /\ s.cls[i].w \in Nat
  BY Numbered, Fields
<1>3. p \in [1 .. n -> Int] /\ e \in [1 .. n -> Int]
  BY <1>2
<1>4. P = {p[i] : i \in 1 .. n} \cup {0} /\ E = {e[i] : i \in 1 .. n} \cup {0}
  BY <1>1
<1>5. \E m \in P : \A x \in P : m <= x
  BY <1>1, <1>3, <1>4, Least
<1>6. \E m \in E : \A x \in E : x <= m
  BY <1>1, <1>3, <1>4, Greatest
<1>7. Lowest(s) \in P /\ \A x \in P : Lowest(s) <= x
  BY <1>5 DEF Lowest
<1>8. Ubox(s) \in E
  BY <1>6 DEF Ubox
<1>9. P \subseteq Int /\ E \subseteq Int
  BY <1>1, <1>2
<1>10. QED
  BY <1>7, <1>8, <1>9

-----------------------------------------------------------------------------
(***************************************************************************)
(* What holds of the server, and what each of its operations keeps of it   *)
(***************************************************************************)

\* At most one primary; one, when a departure is not still to be put right.
OneRole(s)  == \A i, j \in Primaries(s) : i = j
SomeRole(s) == ~s.gone /\ s.cls # <<>> => Primaries(s) # {}
\* Remembered places, and those of the clients, are on the screen.
SlotsFit(s) == \A b \in Machine : s.slots[b] # None => s.slots[b].at + s.shift >= 0
PlacesFit(s) == \A i \in DOMAIN s.cls : s.cls[i].at >= 0
\* What was sent is of where the display is.
FrontsTrue(s) ==
  \A i \in DOMAIN s.cls :
    s.cls[i].front # NoFront => s.cls[i].front = <<s.cls[i].at, s.cls[i].w>>
\* The terminal has the size of the union, and the program was told.
SizeIs(s) == ~s.gone /\ s.cls # <<>> => s.size = Ubox(s)
Heard(s)  == ~s.gone /\ s.cls # <<>> => s.told

\* Before the union is measured, and after.
Loose(s) == s \in Server /\ OneRole(s) /\ SomeRole(s) /\ SlotsFit(s) /\ FrontsTrue(s)
Good(s)  == Loose(s) /\ PlacesFit(s) /\ SizeIs(s)

\* Two servers alike but for what was told and sent, who waits and who stands in.
Alike(s, n) ==
  /\ n.slots = s.slots /\ n.shift = s.shift /\ n.gone = s.gone /\ n.size = s.size
  /\ DOMAIN n.cls = DOMAIN s.cls
  /\ \A i \in DOMAIN s.cls :
       /\ n.cls[i].at = s.cls[i].at /\ n.cls[i].w = s.cls[i].w
       /\ n.cls[i].prim = s.cls[i].prim
       /\ n.cls[i].front \in {NoFront, s.cls[i].front, <<s.cls[i].at, s.cls[i].w>>}

LEMMA Emptiness ==
  ASSUME NEW s \in Server
  PROVE  s.cls = <<>> <=> DOMAIN s.cls = {}
<1>1. s.cls # <<>> => 1 \in DOMAIN s.cls
  BY Numbered
<1>2. DOMAIN <<>> = {}
  OBVIOUS
<1>3. QED
  BY <1>1, <1>2

LEMMA AlikeGood ==
  ASSUME NEW s \in Server, NEW n \in Server, Alike(s, n)
  PROVE  /\ Primaries(n) = Primaries(s) /\ Ubox(n) = Ubox(s)
         /\ n.cls = <<>> <=> s.cls = <<>>
         /\ Loose(s) => Loose(n)
         /\ Good(s) => Good(n)
<1>1. Primaries(n) = Primaries(s)
  BY DEF Primaries, Alike
<1>2. {n.cls[i].at + n.cls[i].w : i \in DOMAIN n.cls}
        = {s.cls[i].at + s.cls[i].w : i \in DOMAIN s.cls}
  BY DEF Alike
<1>3. Ubox(n) = Ubox(s)
  BY <1>2 DEF Ubox
<1>4. n.cls = <<>> <=> s.cls = <<>>
  BY Emptiness DEF Alike
<1>5. FrontsTrue(s) => FrontsTrue(n)
  BY DEF FrontsTrue, Alike
<1>6. Loose(s) => Loose(n)
  BY <1>1, <1>4, <1>5 DEF Loose, OneRole, SomeRole, SlotsFit, Alike
<1>7. Good(s) => Good(n)
  BY <1>3, <1>4, <1>6 DEF Good, PlacesFit, SizeIs, Alike
<1>8. QED
  BY <1>1, <1>3, <1>4, <1>6, <1>7

\* hd_poke, and whatever else only says what the program was told.
LEMMA PokeGood ==
  ASSUME NEW s \in Server
  PROVE  /\ Poke(s) \in Server /\ Poke(s).told /\ Poke(s).gone = s.gone
         /\ Poke(s).cls = s.cls
         /\ Loose(s) => Loose(Poke(s))
         /\ Good(s) => Good(Poke(s))
<1>1. Poke(s) \in Server /\ Alike(s, Poke(s)) /\ Poke(s).told
      /\ Poke(s).gone = s.gone /\ Poke(s).cls = s.cls
  BY DEF Poke, Server, Alike
<1>2. QED
  BY <1>1, AlikeGood

\* hd_rensend1 for some of the clients.
LEMMA SentGood ==
  ASSUME NEW s \in Server, NEW D
  PROVE  /\ Sent(s, D) \in Server /\ Alike(s, Sent(s, D))
         /\ Attached(Sent(s, D)) = Attached(s)
         /\ Sent(s, D).gone = s.gone /\ Sent(s, D).told = s.told
         /\ Loose(s) => Loose(Sent(s, D))
         /\ Good(s) => Good(Sent(s, D))
<1> DEFINE new(i) == LET c == s.cls[i]
                     IN  IF c.t \in D /\ ~c.wait
                         THEN [c EXCEPT !.front = <<c.at, c.w>>] ELSE c
           q == [i \in DOMAIN s.cls |-> new(i)]
<1>1. \A i \in DOMAIN s.cls :
         /\ new(i) \in Client /\ new(i).at = s.cls[i].at /\ new(i).w = s.cls[i].w
         /\ new(i).prim = s.cls[i].prim /\ new(i).t = s.cls[i].t
         /\ new(i).front \in {s.cls[i].front, <<s.cls[i].at, s.cls[i].w>>}
  <2>1. TAKE i \in DOMAIN s.cls
  <2>2. s.cls[i] \in Client
    BY Numbered
  <2>3. QED
    BY <2>2 DEF Client
<1>2. q \in Seq(Client) /\ DOMAIN q = DOMAIN s.cls
  <2>1. q \in [1 .. Len(s.cls) -> Client]
    BY <1>1, Numbered
  <2>2. QED
    BY <2>1, Numbered, AsSeq
<1>3. Sent(s, D) = [s EXCEPT !.cls = q]
  BY DEF Sent
<1>4. /\ Sent(s, D) \in Server /\ Sent(s, D).cls = q /\ Sent(s, D).slots = s.slots
      /\ Sent(s, D).shift = s.shift /\ Sent(s, D).gone = s.gone
      /\ Sent(s, D).size = s.size /\ Sent(s, D).told = s.told
  BY <1>2, <1>3 DEF Server
<1>5. Alike(s, Sent(s, D))
  BY <1>1, <1>2, <1>4 DEF Alike
<1>6. Attached(Sent(s, D)) = Attached(s)
  BY <1>1, <1>2, <1>4 DEF Attached
<1>7. QED
  BY <1>4, <1>5, <1>6, AlikeGood

\* hd_cdrop: each client that is left is one there was, no two the same.
LEMMA DropGood ==
  ASSUME NEW s \in Server, NEW i \in DOMAIN s.cls
  PROVE  /\ Drop(s, i) \in Server /\ Drop(s, i).gone
         /\ Loose(s) /\ PlacesFit(s) => Good(Drop(s, i))
         /\ OneRole(s) /\ s.cls[i].prim => Primaries(Drop(s, i)) = {}
<1> DEFINE n == Len(s.cls)
           c == s.cls[i]
           from(j) == IF j = i THEN n ELSE j
           q == [j \in 1 .. (n - 1) |-> IF j = i THEN s.cls[n] ELSE s.cls[j]]
           keep == [at |-> c.at - s.shift, w |-> c.w, prim |-> c.prim /\ ~c.autop]
           d == Drop(s, i)
<1>1. n \in Nat /\ DOMAIN s.cls = 1 .. n /\ i \in 1 .. n /\ c \in Client
  BY Numbered
<1>2. \A j \in 1 .. (n - 1) : /\ from(j) \in DOMAIN s.cls /\ from(j) # i
                              /\ q[j] = s.cls[from(j)] /\ q[j] \in Client
  <2>1. TAKE j \in 1 .. (n - 1)
  <2>2. j \in 1 .. n /\ n \in 1 .. n /\ j # n
    BY <1>1
  <2>3. from(j) \in DOMAIN s.cls /\ from(j) # i
    BY <1>1, <2>2
  <2>4. q[j] = s.cls[from(j)]
    OBVIOUS
  <2>5. QED
    BY <2>3, <2>4, Numbered
<1>3. \A j, k \in 1 .. (n - 1) : from(j) = from(k) => j = k
  BY <1>1
<1>4. q \in Seq(Client) /\ DOMAIN q = 1 .. (n - 1)
  <2>1. n - 1 \in Nat
    BY <1>1
  <2>2. q \in [1 .. (n - 1) -> Client]
    BY <1>2
  <2>3. QED
    BY <2>1, <2>2, AsSeq
<1>5. keep \in Slot /\ Base[c.t] \in Machine
  BY <1>1, Fields DEF Slot, Server
<1>6. /\ d.cls = q /\ d.slots = [s.slots EXCEPT ![Base[c.t]] = keep]
      /\ d.shift = s.shift /\ d.gone = TRUE /\ d.size = s.size /\ d.told = FALSE
      /\ d \in Server
  BY <1>4, <1>5 DEF Drop, SlotKeep, Server
<1>7. OneRole(s) => OneRole(d)
  <2>1. SUFFICES ASSUME OneRole(s), NEW j \in Primaries(d), NEW k \in Primaries(d)
                 PROVE  j = k
    BY DEF OneRole
  <2>2. j \in 1 .. (n - 1) /\ k \in 1 .. (n - 1) /\ q[j].prim /\ q[k].prim
    BY <1>4, <1>6 DEF Primaries
  <2>3. from(j) \in Primaries(s) /\ from(k) \in Primaries(s)
    BY <1>2, <2>2 DEF Primaries
  <2>4. QED
    BY <2>1, <2>2, <2>3, <1>3 DEF OneRole
<1>8. OneRole(s) /\ c.prim => Primaries(d) = {}
  <2>1. SUFFICES ASSUME OneRole(s), c.prim, NEW j \in Primaries(d)
                 PROVE  FALSE
    OBVIOUS
  <2>2. j \in 1 .. (n - 1) /\ q[j].prim
    BY <1>4, <1>6 DEF Primaries
  <2>3. from(j) \in Primaries(s) /\ i \in Primaries(s) /\ from(j) # i
    BY <1>2, <2>1, <2>2 DEF Primaries
  <2>4. QED
    BY <2>1, <2>3 DEF OneRole
<1>9. PlacesFit(s) /\ SlotsFit(s) => PlacesFit(d) /\ SlotsFit(d)
  <2>1. SUFFICES ASSUME PlacesFit(s), SlotsFit(s)
                 PROVE  PlacesFit(d) /\ SlotsFit(d)
    OBVIOUS
  <2>2. PlacesFit(d)
    BY <1>2, <1>4, <1>6, <2>1 DEF PlacesFit
  <2>3. c.at >= 0 /\ c.at \in Int /\ s.shift \in Int
    BY <1>1, <2>1, Fields DEF PlacesFit, Server
  <2>4. keep.at + s.shift >= 0
    BY <2>3
  <2>5. \A b \in Machine : d.slots[b] = IF b = Base[c.t] THEN keep ELSE s.slots[b]
    BY <1>5, <1>6 DEF Server
  <2>6. QED
    BY <2>1, <2>2, <2>4, <2>5, <1>6 DEF SlotsFit
<1>10. FrontsTrue(s) => FrontsTrue(d)
  BY <1>2, <1>4, <1>6 DEF FrontsTrue
<1>11. QED
  BY <1>6, <1>7, <1>8, <1>9, <1>10 DEF Good, Loose, SomeRole, SizeIs

\* hd_rensend, whichever send fails.
LEMMA DrawGood ==
  ASSUME NEW s \in Server, NEW D, NEW f, Good(s)
  PROVE  /\ Draw(s, D, f) \in Server /\ Good(Draw(s, D, f))
         /\ Draw(s, D, f).told = s.told \/ Draw(s, D, f).gone
         /\ Draw(s, D, f).gone = s.gone \/ Draw(s, D, f).gone
         /\ Heard(s) => Heard(Draw(s, D, f))
<1> DEFINE n == Sent(s, D)
<1>1. n \in Server /\ Good(n) /\ n.gone = s.gone /\ n.told = s.told
      /\ Alike(s, n) /\ Attached(n) = Attached(s)
  BY SentGood
<1>2. CASE f \in D \cap Attached(s) /\ ~Of(s, f).wait
  <2>1. At(s, f) \in DOMAIN s.cls
    BY <1>2, Found
  <2>2. At(s, f) \in DOMAIN n.cls
    BY <2>1, <1>1 DEF Alike
  <2>3. Draw(s, D, f) = Drop(n, At(s, f))
    BY <1>2 DEF Draw
  <2>4. Loose(n) /\ PlacesFit(n)
    BY <1>1 DEF Good
  <2>5. QED
    BY <1>1, <2>2, <2>3, <2>4, DropGood DEF Heard
<1>3. CASE ~(f \in D \cap Attached(s) /\ ~Of(s, f).wait)
  <2>1. Draw(s, D, f) = n
    BY <1>3 DEF Draw
  <2>2. n.cls = <<>> <=> s.cls = <<>>
    BY <1>1, AlikeGood
  <2>3. QED
    BY <1>1, <2>1, <2>2 DEF Heard
<1>4. QED
  BY <1>2, <1>3

\* The origin moves: clients no longer off the screen, and nothing remembered
\* that was not.
LEMMA Shifted ==
  ASSUME NEW s \in Server, Loose(s), NEW m \in Int, m <= 0, NEW n \in Server,
         n.slots = s.slots, n.shift = s.shift - m, n.gone = s.gone,
         DOMAIN n.cls = DOMAIN s.cls,
         \A i \in DOMAIN s.cls : /\ n.cls[i].at >= 0 /\ n.cls[i].front = NoFront
                                 /\ n.cls[i].prim = s.cls[i].prim
  PROVE  /\ Loose(n) /\ PlacesFit(n)
         /\ n.cls = <<>> <=> s.cls = <<>>
         /\ Primaries(n) = Primaries(s)
<1>1. s.shift \in Int
  BY DEF Server
<1>3. Primaries(n) = Primaries(s)
  BY DEF Primaries
<1>4. PlacesFit(n) /\ FrontsTrue(n)
  BY DEF PlacesFit, FrontsTrue
<1>5. SlotsFit(n)
  <2>1. ASSUME NEW b \in Machine, n.slots[b] # None
        PROVE  n.slots[b].at + n.shift >= 0
    <3>1. s.slots[b] \in Slot /\ s.slots[b].at + s.shift >= 0
      BY <2>1 DEF Loose, SlotsFit, Server
    <3>2. s.slots[b].at \in Int
      BY <3>1 DEF Slot
    <3>3. QED
      BY <3>1, <3>2, <1>1
  <2>2. QED
    BY <2>1 DEF SlotsFit
<1>6. n.cls = <<>> <=> s.cls = <<>>
  BY Emptiness
<1>7. QED
  BY <1>3, <1>4, <1>5, <1>6 DEF Loose, OneRole, SomeRole

\* hd_unorm and hd_union: nothing is off the screen, and the terminal fits.
LEMMA UnionGood ==
  ASSUME NEW s \in Server, Loose(s)
  PROVE  /\ Union(s) \in Server /\ Good(Union(s))
         /\ Union(s).gone = s.gone
         /\ Union(s).cls = <<>> <=> s.cls = <<>>
         /\ Primaries(Union(s)) = Primaries(s)
         /\ Heard(s) => Heard(Union(s))
<1> DEFINE m == Lowest(s)
           n == Unorm(s)
           u == Union(s)
<1>1. m \in Int /\ m <= 0 /\ \A i \in DOMAIN s.cls : m <= s.cls[i].at
  BY Edges
<1>2. CASE s.cls = <<>>
  <2>1. u = s /\ DOMAIN s.cls = {}
    BY <1>2 DEF Union
  <2>2. QED
    BY <1>2, <2>1 DEF Good, PlacesFit, SizeIs
<1>3. CASE s.cls # <<>>
  <2>1. /\ n \in Server /\ Loose(n) /\ PlacesFit(n) /\ n.gone = s.gone
        /\ (n.cls = <<>> <=> s.cls = <<>>) /\ n.told = s.told
        /\ Primaries(n) = Primaries(s)
    <3>1. CASE m = 0
      <4>1. n = s
        BY <3>1 DEF Unorm
      <4>2. PlacesFit(s)
        BY <1>1, <3>1, Numbered, Fields DEF PlacesFit
      <4>3. QED
        BY <4>1, <4>2
    <3>2. CASE m # 0
      <4> DEFINE new(i) == [s.cls[i] EXCEPT !.at = @ - m, !.front = NoFront]
                 q == [i \in DOMAIN s.cls |-> new(i)]
      <4>1. \A i \in DOMAIN s.cls :
               /\ new(i) \in Client /\ q[i] = new(i) /\ new(i).at >= 0
               /\ new(i).prim = s.cls[i].prim /\ new(i).front = NoFront
        <5>1. TAKE i \in DOMAIN s.cls
        <5>2. s.cls[i] \in Client /\ s.cls[i].at \in Int /\ m <= s.cls[i].at
          BY <1>1, Numbered, Fields
        <5>3. s.cls[i].at - m \in Int /\ s.cls[i].at - m >= 0
          BY <5>2, <1>1
        <5>4. new(i) \in Client
          BY <5>2, <5>3 DEF Client
        <5>5. QED
          BY <5>2, <5>3, <5>4 DEF Client
      <4>2. q \in Seq(Client) /\ DOMAIN q = DOMAIN s.cls
        <5>1. q \in [1 .. Len(s.cls) -> Client]
          BY <4>1, Numbered
        <5>2. QED
          BY <5>1, Numbered, AsSeq
      <4>3. n = [s EXCEPT !.cls = q, !.shift = s.shift - m]
        BY <3>2 DEF Unorm
      <4>4. s.shift - m \in Int
        BY <1>1 DEF Server
      <4>5. \A i \in DOMAIN s.cls : /\ q[i].at >= 0 /\ q[i].front = NoFront
                                    /\ q[i].prim = s.cls[i].prim
        BY <4>1
      <4> HIDE DEF m, n, q
      <4>6. /\ n \in Server /\ n.cls = q /\ n.slots = s.slots
            /\ n.shift = s.shift - m /\ n.gone = s.gone /\ n.told = s.told
        BY ONLY <4>2, <4>3, <4>4, s \in Server DEF Server
      <4>7. QED
        BY <1>1, <4>2, <4>5, <4>6, Shifted
    <3>3. QED
      BY <3>1, <3>2
  <2>2. u = [n EXCEPT !.size = Ubox(n), !.told = s.told \/ Ubox(n) # s.size]
    BY <1>3 DEF Union
  <2>3. Ubox(n) \in Int /\ s.told \in BOOLEAN
    BY <2>1, Edges DEF Server
  <2>4. /\ u \in Server /\ u.cls = n.cls /\ u.slots = n.slots /\ u.shift = n.shift
        /\ u.gone = n.gone /\ u.size = Ubox(n) /\ (s.told => u.told)
    BY <2>1, <2>2, <2>3 DEF Server
  <2>5. Ubox(u) = Ubox(n) /\ Primaries(u) = Primaries(n)
    BY <2>4 DEF Ubox, Primaries
  <2>6. Good(u)
    BY <2>1, <2>4, <2>5
    DEF Good, Loose, OneRole, SomeRole, SlotsFit, FrontsTrue, PlacesFit, SizeIs
  <2>7. QED
    BY <2>1, <2>4, <2>5, <2>6 DEF Heard
<1>4. QED
  BY <1>2, <1>3

\* A display takes the role that nobody has.
LEMMA StandInGood ==
  ASSUME NEW s \in Server, s.cls # <<>>, Primaries(s) = {},
         SlotsFit(s), FrontsTrue(s)
  PROVE  /\ StandIn(s) \in Server /\ Loose(StandIn(s))
         /\ StandIn(s).gone = s.gone /\ StandIn(s).told = s.told
         /\ StandIn(s).cls # <<>>
         /\ PlacesFit(s) /\ SizeIs(s) => Good(StandIn(s))
<1> DEFINE c == [s.cls[1] EXCEPT !.prim = TRUE, !.autop = TRUE]
           q == [s.cls EXCEPT ![1] = c]
           n == StandIn(s)
<1>1. 1 \in DOMAIN s.cls /\ s.cls[1] \in Client
  BY Numbered
<1>2. /\ c \in Client /\ c.at = s.cls[1].at /\ c.w = s.cls[1].w
      /\ c.front = s.cls[1].front /\ c.prim
  BY <1>1 DEF Client
<1>3. q \in Seq(Client) /\ DOMAIN q = DOMAIN s.cls
  <2>1. q \in [1 .. Len(s.cls) -> Client]
    BY <1>2, Numbered
  <2>2. QED
    BY <2>1, Numbered, AsSeq
<1>4. \A i \in DOMAIN s.cls : /\ q[i].at = s.cls[i].at /\ q[i].w = s.cls[i].w
                              /\ q[i].front = s.cls[i].front
                              /\ q[i].prim <=> i = 1
  <2>1. ASSUME NEW i \in DOMAIN s.cls, i # 1
        PROVE  q[i] = s.cls[i] /\ ~s.cls[i].prim
    BY <2>1 DEF Primaries
  <2>2. q[1] = c
    BY <1>1
  <2>3. QED
    BY <1>2, <2>1, <2>2
<1>5. n = [s EXCEPT !.cls = q]
  BY DEF StandIn
<1> HIDE DEF q, n, c
<1>6. /\ n \in Server /\ n.cls = q /\ n.slots = s.slots /\ n.shift = s.shift
      /\ n.gone = s.gone /\ n.told = s.told /\ n.size = s.size
  BY ONLY <1>3, <1>5, s \in Server DEF Server
<1>7. Primaries(n) = {1}
  BY <1>1, <1>3, <1>4, <1>6 DEF Primaries
<1>8. n.cls # <<>>
  BY <1>1, <1>3, <1>6, Emptiness
<1>9. Loose(n)
  BY <1>3, <1>4, <1>6, <1>7 DEF Loose, OneRole, SomeRole, SlotsFit, FrontsTrue
<1>10. PlacesFit(s) => PlacesFit(n)
  BY <1>3, <1>4, <1>6 DEF PlacesFit
<1>11. Ubox(n) = Ubox(s)
  <2>1. {n.cls[i].at + n.cls[i].w : i \in DOMAIN n.cls}
          = {s.cls[i].at + s.cls[i].w : i \in DOMAIN s.cls}
    BY <1>3, <1>4, <1>6
  <2>2. QED
    BY <2>1 DEF Ubox
<1>12. SizeIs(s) => SizeIs(n)
  BY <1>6, <1>11 DEF SizeIs
<1>13. QED
  BY <1>6, <1>8, <1>9, <1>10, <1>12 DEF Good, n

\* A client that joins gets the role if it was its own, or if nobody has it.
LEMMA JoinLoose ==
  ASSUME NEW s \in Server, NEW c \in Client, c.front = NoFront, ~c.prim,
         OneRole(s), SlotsFit(s), FrontsTrue(s)
  PROVE  /\ Join(s, c) \in Server /\ Loose(Join(s, c))
         /\ Join(s, c).gone = s.gone /\ Join(s, c).cls # <<>>
<1> DEFINE sl == s.slots[Base[c.t]]
           back == /\ sl # None /\ sl.prim
                   /\ \E i \in Primaries(s) : s.cls[i].autop
           first == Primaries(s) = {}
           new == [c EXCEPT !.prim = back \/ first,
                            !.autop = first /\ SlotPrim(s, Base[c.t])]
           old == [i \in DOMAIN s.cls |->
                     IF back /\ s.cls[i].prim
                     THEN [s.cls[i] EXCEPT !.prim = FALSE, !.autop = FALSE]
                     ELSE s.cls[i]]
           q == Append(old, new)
           n == Join(s, c)
           l == Len(s.cls)
<1>1. l \in Nat /\ DOMAIN s.cls = 1 .. l
  BY Numbered
<1>2. back \in BOOLEAN /\ first \in BOOLEAN /\ SlotPrim(s, Base[c.t]) \in BOOLEAN
  <2>1. sl \in Slot \cup {None}
    BY Fields DEF Server
  <2>2. sl # None => sl.prim \in BOOLEAN
    BY <2>1 DEF Slot
  <2>3. QED
    BY <2>2 DEF SlotPrim
<1>3. new \in Client /\ new.front = NoFront /\ (new.prim <=> back \/ first)
  BY <1>2 DEF Client
<1>4. \A i \in 1 .. l : /\ old[i] \in Client /\ old[i].at = s.cls[i].at
                        /\ old[i].w = s.cls[i].w /\ old[i].front = s.cls[i].front
                        /\ old[i].prim <=> s.cls[i].prim /\ ~back
  <2>1. TAKE i \in 1 .. l
  <2>2. s.cls[i] \in Client
    BY <1>1, Numbered
  <2>3. QED
    BY <1>1, <2>2 DEF Client
<1>5. old \in Seq(Client) /\ Len(old) = l
  <2>1. old \in [1 .. l -> Client]
    BY <1>1, <1>4
  <2>2. QED
    BY <1>1, <2>1, AsSeq
<1>6. n = [s EXCEPT !.cls = q, !.told = FALSE]
  BY DEF Join
<1>7. first <=> \A i \in 1 .. l : ~s.cls[i].prim
  BY <1>1 DEF Primaries
<1>8. \A i, j \in 1 .. l : s.cls[i].prim /\ s.cls[j].prim => i = j
  BY <1>1 DEF OneRole, Primaries
<1>9. \A i \in 1 .. l : s.cls[i].front # NoFront
                          => s.cls[i].front = <<s.cls[i].at, s.cls[i].w>>
  BY <1>1 DEF FrontsTrue
<1> HIDE DEF old, new, back, first, l, sl, n
<1>10. /\ q \in Seq(Client) /\ DOMAIN q = 1 .. l + 1 /\ q[l + 1] = new
       /\ \A i \in 1 .. l : q[i] = old[i]
  BY <1>1, <1>3, <1>5
<1> HIDE DEF q
<1>11. /\ n \in Server /\ n.cls = q /\ n.slots = s.slots /\ n.shift = s.shift
       /\ n.gone = s.gone
  BY ONLY <1>6, <1>10, s \in Server DEF Server
<1>12. \A i \in 1 .. l + 1 : i \in 1 .. l \/ i = l + 1
  BY <1>1
<1>13. Primaries(n) = {i \in 1 .. l + 1 : q[i].prim}
  BY <1>10, <1>11 DEF Primaries
<1>14. OneRole(n)
  <2>1. CASE back \/ first
    <3>1. \A i \in 1 .. l : ~q[i].prim
      BY <2>1, <1>4, <1>7, <1>10
    <3>2. QED
      BY <3>1, <1>12, <1>13 DEF OneRole
  <2>2. CASE ~back /\ ~first
    <3>1. ~q[l + 1].prim /\ \A i \in 1 .. l : q[i].prim <=> s.cls[i].prim
      BY <2>2, <1>3, <1>4, <1>10
    <3>2. QED
      BY <3>1, <1>8, <1>12, <1>13 DEF OneRole
  <2>3. QED
    BY <2>1, <2>2
<1>15. Primaries(n) # {}
  <2>1. l + 1 \in 1 .. l + 1 /\ \A i \in 1 .. l : i \in 1 .. l + 1
    BY <1>1
  <2>2. CASE back \/ first
    BY <2>1, <2>2, <1>3, <1>10, <1>13
  <2>3. CASE ~back /\ ~first
    <3>1. PICK i \in 1 .. l : s.cls[i].prim
      BY <2>3, <1>7
    <3>2. q[i].prim
      BY <2>3, <3>1, <1>4, <1>10
    <3>3. QED
      BY <2>1, <3>2, <1>13
  <2>4. QED
    BY <2>2, <2>3
<1>16. FrontsTrue(n)
  <2>1. \A i \in 1 .. l + 1 : q[i].front # NoFront => q[i].front = <<q[i].at, q[i].w>>
    BY <1>3, <1>4, <1>9, <1>10, <1>12
  <2>2. QED
    BY <2>1, <1>10, <1>11 DEF FrontsTrue
<1>17. SlotsFit(n)
  BY <1>11 DEF SlotsFit
<1>18. n.cls # <<>>
  <2>1. 1 \in DOMAIN n.cls
    BY <1>1, <1>10, <1>11
  <2>2. QED
    BY <2>1, <1>11, Emptiness
<1>19. QED
  BY <1>11, <1>14, <1>15, <1>16, <1>17, <1>18 DEF Loose, SomeRole, n

-----------------------------------------------------------------------------
(***************************************************************************)
(* What the properties remember, and what terminals were told              *)
(***************************************************************************)

Owner == Machine \cup {None, Lost}
Books ==
  /\ pc \in Phase
  /\ ready \in Seq(Term)
  /\ plan \in [Term -> Plan \cup {None}]
  /\ owner \in Owner
  /\ left \in [Machine -> Int]
Inv == Good(srv) /\ Heard(srv) /\ Books

\* A step that leaves the server at n, with good books of the rest.
LEMMA ThroughGood ==
  ASSUME Books, NEW s \in Server, NEW n \in Server, NEW o \in Owner,
         Good(n), Heard(n), Through(s, n, o)
  PROVE  /\ Good(srv') /\ Heard(srv')
         /\ owner' \in Owner /\ left' \in [Machine -> Int]
<1>1. srv' = n /\ left' = Went(s, n)
  BY DEF Through
<1>2. Went(s, n) \in [Machine -> Int]
  <2>1. ASSUME NEW b \in Machine
        PROVE  Went(s, n)[b] \in Int
    <3>1. CASE \E t \in Attached(s) \ Attached(n) : Base[t] = b
      <4> DEFINE t == CHOOSE u \in Attached(s) \ Attached(n) : Base[u] = b
      <4>1. t \in Attached(s)
        BY <3>1
      <4>2. Of(s, t).at \in Int /\ s.shift \in Int
        BY <4>1, Found, Fields DEF Server
      <4>3. Went(s, n)[b] = Of(s, t).at - s.shift
        BY <3>1 DEF Went
      <4> HIDE DEF t
      <4>4. QED
        BY <4>2, <4>3
    <3>2. CASE ~\E t \in Attached(s) \ Attached(n) : Base[t] = b
      BY <3>2 DEF Went, Books
    <3>3. QED
      BY <3>1, <3>2
  <2>2. QED
    BY <2>1 DEF Went
<1>3. owner' \in Owner
  BY DEF Through, Owner
<1>4. QED
  BY <1>1, <1>2, <1>3

LEMMA StepGood ==
  ASSUME Books, NEW n \in Server, srv \in Server, Good(n), Heard(n), Step(n)
  PROVE  /\ Good(srv') /\ Heard(srv') /\ UNCHANGED plan
         /\ owner' \in Owner /\ left' \in [Machine -> Int]
  BY ThroughGood DEF Step, Books

LEMMA Upto ==
  ASSUME NEW n \in Nat
  PROVE  /\ IsFiniteSet(1 .. n) /\ IsFiniteSet(1 .. (n + 1))
         /\ Cardinality(1 .. n) < Cardinality(1 .. (n + 1))
<1>1. n \in Int /\ n + 1 \in Int
  OBVIOUS
<1>2. IsFiniteSet(1 .. n) /\ Cardinality(1 .. n) = IF 1 > n THEN 0 ELSE n - 1 + 1
  BY <1>1, FS_Interval
<1>3. /\ IsFiniteSet(1 .. (n + 1))
      /\ Cardinality(1 .. (n + 1)) = IF 1 > n + 1 THEN 0 ELSE (n + 1) - 1 + 1
  BY <1>1, FS_Interval
<1>4. QED
  BY <1>2, <1>3

\* There is a name of the machine that no client has, among as many as there
\* are clients and one more.
LEMMA FreeNameExists ==
  ASSUME NEW s \in Server, NEW b \in Machine
  PROVE  FreeName(b, s) \in 1 .. (Len(s.cls) + 1)
<1> DEFINE n == Len(s.cls)
           mine == {j \in DOMAIN s.cls : Base[s.cls[j].t] = b}
           used == {s.cls[i].k : i \in mine}
           free == {k \in 1 .. (n + 1) : k \notin used}
<1>1. n \in Nat /\ DOMAIN s.cls = 1 .. n
  BY Numbered
<1>2. free # {}
  <2>1. SUFFICES ASSUME \A k \in 1 .. (n + 1) : k \in used
                 PROVE  FALSE
    OBVIOUS
  <2>2. \A k \in 1 .. (n + 1) : \E i \in 1 .. n : s.cls[i].k = k
    BY <1>1, <2>1
  <2> DEFINE f == [k \in 1 .. (n + 1) |-> CHOOSE i \in 1 .. n : s.cls[i].k = k]
  <2>3. \A k \in 1 .. (n + 1) : f[k] \in 1 .. n /\ s.cls[f[k]].k = k
    BY <2>2
  <2>4. f \in [1 .. (n + 1) -> 1 .. n]
    BY <2>3
  <2>5. \A k, m \in 1 .. (n + 1) : k # m => f[k] # f[m]
    BY <2>3
  <2> HIDE DEF f
  <2>6. /\ IsFiniteSet(1 .. n) /\ IsFiniteSet(1 .. (n + 1))
        /\ Cardinality(1 .. n) < Cardinality(1 .. (n + 1))
    BY <1>1, Upto
  <2>7. \E x, y \in 1 .. (n + 1) : x # y /\ f[x] = f[y]
    BY <2>4, <2>6, FS_PigeonHole
  <2>8. QED
    BY <2>5, <2>7
<1>3. PICK k \in free : \A j \in free : k <= j
  <2>1. n + 1 \in Nat /\ free \in SUBSET (1 .. (n + 1))
    BY <1>1
  <2>2. QED
    BY <2>1, <1>2, FirstExists
<1>4. \A j \in 1 .. (k - 1) : j \in used
  <2>1. TAKE j \in 1 .. (k - 1)
  <2>2. j \in 1 .. (n + 1) /\ ~(k <= j)
    BY <1>1, <1>3
  <2>3. QED
    BY <2>2, <1>3
<1>5. k \in 1 .. (n + 1) /\ k \notin used /\ \A j \in 1 .. (k - 1) : j \in used
  BY <1>4
<1>6. \E h \in 1 .. (n + 1) : h \notin used /\ \A j \in 1 .. (h - 1) : j \in used
  BY <1>5
<1>7. FreeName(b, s) = CHOOSE h \in 1 .. (n + 1) :
                         h \notin used /\ \A j \in 1 .. (h - 1) : j \in used
  BY DEF FreeName
<1>8. QED
  BY <1>6, <1>7

\* A terminal is told something that is of its kind.
LEMMA ToldGood ==
  ASSUME Inv, NEW t \in Term, NEW p \in Plan, Told(t, p)
  PROVE  Inv'
<1>1. plan' = [plan EXCEPT ![t] = p]
  BY DEF Told
<1>2. plan' \in [Term -> Plan \cup {None}]
  BY <1>1 DEF Inv, Books
<1>3. pc' = "draw" /\ ready' = ready /\ srv' = srv /\ owner' = owner /\ left' = left
  BY DEF Told, Answering
<1>4. Good(srv') /\ Heard(srv')
  BY <1>3 DEF Inv
<1>5. QED
  BY <1>2, <1>3, <1>4 DEF Inv, Books, Phase

\* HD_SLOT's answer is a place.
LEMMA PlaceTold ==
  ASSUME Inv, NEW t \in Term, NEW at \in Int
  PROVE  Place(t, at) \in Int
<1> DEFINE sl == SlotAnswer(Base[t], srv)
<1>1. srv \in Server /\ Base[t] \in Machine
  BY HoldAssumption DEF Inv, Good, Loose
<1>2. sl # None => sl \in Slot
  BY <1>1 DEF SlotAnswer, Server
<1>3. sl # None => sl.at \in Int
  BY <1>2 DEF Slot
<1>4. srv.shift \in Int
  BY <1>1 DEF Server
<1>5. Place(t, at) = IF sl # None THEN sl.at + srv.shift ELSE at
  BY DEF Place
<1> HIDE DEF sl
<1>6. QED
  BY <1>3, <1>4, <1>5

\* What a terminal knows is of its kind.
LEMMA KnownIs ==
  ASSUME Inv, NEW t \in Term, NEW asked, Knows(t, asked)
  PROVE  plan[t] \in Plan
  BY DEF Knows, Inv, Books

\* The first of the names a terminal may have.
LEMMA FirstName == 1 \in 1 .. MaxTwin
  BY HoldAssumption

\* HD_INFO.
LEMMA AskWidthGood ==
  ASSUME Inv, NEW t \in Term, NEW w \in Widths, AskWidth(t, w)
  PROVE  Inv'
<1> DEFINE p == [multi |-> TRUE, k |-> 1, at |-> Ubox(srv), w |-> w,
                 asked |-> "info"]
<1>1. Ubox(srv) \in Int
  <2>1. srv \in Server
    BY DEF Inv, Good, Loose
  <2>2. QED
    BY <2>1, Edges
<1>2. p \in Plan
  BY <1>1, FirstName DEF Plan
<1>3. Told(t, p)
  BY DEF AskWidth
<1>4. QED
  BY <1>2, <1>3, ToldGood

\* HD_CLIENTS.
LEMMA AskNamesGood ==
  ASSUME Inv, NEW t \in Term, AskNames(t)
  PROVE  Inv'
<1> DEFINE k == FreeName(Base[t], srv)
           p == [plan[t] EXCEPT !.k = k, !.asked = "clients"]
<1>1. Knows(t, "info") /\ k <= MaxTwin /\ Told(t, p)
  BY DEF AskNames
<1>2. k \in 1 .. MaxTwin
  <2>1. srv \in Server /\ Base[t] \in Machine
    BY HoldAssumption DEF Inv, Good, Loose
  <2>2. k \in 1 .. (Len(srv.cls) + 1) /\ Len(srv.cls) \in Nat
    BY <2>1, FreeNameExists, Numbered
  <2>3. MaxTwin \in Nat
    BY HoldAssumption
  <2> HIDE DEF k
  <2>4. QED
    BY <1>1, <2>2, <2>3
<1> HIDE DEF k
<1>3. p \in Plan
  BY <1>1, <1>2, KnownIs DEF Plan
<1>4. QED
  BY <1>1, <1>3, ToldGood

\* HD_SLOT, to join.
LEMMA AskPlaceGood ==
  ASSUME Inv, NEW t \in Term, AskPlace(t)
  PROVE  Inv'
<1> DEFINE at == Place(t, plan[t].at)
           p == [plan[t] EXCEPT !.at = at, !.asked = "slot"]
<1>1. Knows(t, "clients") /\ Told(t, p)
  BY DEF AskPlace
<1>2. plan[t] \in Plan /\ plan[t].at \in Int
  BY <1>1, KnownIs DEF Plan
<1>3. at \in Int
  BY <1>2, PlaceTold
<1> HIDE DEF at
<1>4. p \in Plan
  BY <1>2, <1>3 DEF Plan
<1>5. QED
  BY <1>1, <1>4, ToldGood

\* HD_SLOT, to take over.
LEMMA AskTakeOverGood ==
  ASSUME Inv, NEW t \in Term, NEW w \in Widths, AskTakeOver(t, w)
  PROVE  Inv'
<1> DEFINE at == Place(t, 0)
           p == [multi |-> FALSE, k |-> 1, at |-> at, w |-> w, asked |-> "slot"]
<1>1. Told(t, p)
  BY DEF AskTakeOver
<1>2. at \in Int
  BY PlaceTold
<1> HIDE DEF at
<1>3. p \in Plan
  BY <1>2, FirstName DEF Plan
<1>4. QED
  BY <1>1, <1>3, ToldGood

-----------------------------------------------------------------------------
(***************************************************************************)
(* A pass, step by step                                                    *)
(***************************************************************************)

LEMMA InvMeans ==
  ASSUME Inv
  PROVE  /\ srv \in Server /\ Loose(srv) /\ Good(srv) /\ Heard(srv) /\ Books
         /\ pc \in Phase /\ ready \in Seq(Term)
         /\ plan \in [Term -> Plan \cup {None}] /\ owner \in Owner
         /\ srv.told \in BOOLEAN /\ srv.gone \in BOOLEAN
  BY DEF Inv, Good, Loose, Books, Server

\* One client becomes c, and the program is told or not.
With(s, i, c, d) == [s EXCEPT !.cls = [s.cls EXCEPT ![i] = c], !.told = d]
LEMMA Put ==
  ASSUME NEW s \in Server, NEW i \in DOMAIN s.cls, NEW c \in Client,
         NEW d \in BOOLEAN
  PROVE  LET n == With(s, i, c, d) IN
         /\ n \in Server /\ n.slots = s.slots /\ n.shift = s.shift
         /\ n.gone = s.gone /\ n.size = s.size /\ n.told = d
         /\ DOMAIN n.cls = DOMAIN s.cls
         /\ n.cls[i] = c
         /\ \A j \in DOMAIN s.cls : j # i => n.cls[j] = s.cls[j]
         /\ n.cls = <<>> <=> s.cls = <<>>
<1> DEFINE q == [s.cls EXCEPT ![i] = c]
           n == With(s, i, c, d)
<1>1. q \in Seq(Client) /\ DOMAIN q = DOMAIN s.cls
  <2>1. q \in [1 .. Len(s.cls) -> Client]
    BY Numbered
  <2>2. QED
    BY <2>1, Numbered, AsSeq
<1>2. q[i] = c /\ \A j \in DOMAIN s.cls : j # i => q[j] = s.cls[j]
  OBVIOUS
<1>3. n = [s EXCEPT !.cls = q, !.told = d]
  BY DEF With
<1> HIDE DEF q, n
<1>4. /\ n \in Server /\ n.cls = q /\ n.slots = s.slots /\ n.shift = s.shift
      /\ n.gone = s.gone /\ n.size = s.size /\ n.told = d
  BY ONLY <1>1, <1>3, s \in Server, d \in BOOLEAN DEF Server
<1>5. QED
  BY <1>1, <1>2, <1>4, Emptiness DEF n

\* If c is where the other was, with its role, all that holds still does.
LEMMA PutAlike ==
  ASSUME NEW s \in Server, NEW i \in DOMAIN s.cls, NEW c \in Client,
         NEW d \in BOOLEAN,
         c.at = s.cls[i].at, c.w = s.cls[i].w, c.prim = s.cls[i].prim,
         c.front \in {NoFront, s.cls[i].front}
  PROVE  LET n == With(s, i, c, d) IN
         /\ n \in Server /\ n.told = d /\ n.gone = s.gone
         /\ n.cls = <<>> <=> s.cls = <<>>
         /\ Good(s) => Good(n)
<1> DEFINE n == With(s, i, c, d)
<1>1. n \in Server /\ n.told = d /\ n.gone = s.gone
      /\ (n.cls = <<>> <=> s.cls = <<>>)
  BY Put
<1>2. Alike(s, n)
  BY Put DEF Alike
<1>3. QED
  BY <1>1, <1>2, AlikeGood

\* If it is elsewhere or of another size, and what it was sent is forgotten,
\* all but the measure of the union does.
LEMMA PutLoose ==
  ASSUME NEW s \in Server, NEW i \in DOMAIN s.cls, NEW c \in Client,
         NEW d \in BOOLEAN,
         c.prim = s.cls[i].prim,
         \/ c.front = NoFront
         \/ c.front = s.cls[i].front /\ c.at = s.cls[i].at /\ c.w = s.cls[i].w,
         Loose(s)
  PROVE  LET n == With(s, i, c, d) IN
         /\ n \in Server /\ n.told = d /\ n.gone = s.gone /\ Loose(n)
         /\ n.cls = <<>> <=> s.cls = <<>>
<1> DEFINE n == With(s, i, c, d)
<1>1. /\ n \in Server /\ n.slots = s.slots /\ n.shift = s.shift
      /\ n.gone = s.gone /\ n.told = d
      /\ DOMAIN n.cls = DOMAIN s.cls /\ n.cls[i] = c
      /\ \A j \in DOMAIN s.cls : j # i => n.cls[j] = s.cls[j]
      /\ (n.cls = <<>> <=> s.cls = <<>>)
  BY Put
<1>2. \A j \in DOMAIN s.cls : n.cls[j].prim = s.cls[j].prim
  BY <1>1
<1>3. Primaries(n) = Primaries(s)
  BY <1>1, <1>2 DEF Primaries
<1>4. FrontsTrue(s)
  BY DEF Loose
<1>5. FrontsTrue(n)
  <2>1. ASSUME NEW j \in DOMAIN s.cls, n.cls[j].front # NoFront
        PROVE  n.cls[j].front = <<n.cls[j].at, n.cls[j].w>>
    <3>1. s.cls[j].front # NoFront
            => s.cls[j].front = <<s.cls[j].at, s.cls[j].w>>
      BY <1>4 DEF FrontsTrue
    <3>2. CASE j = i
      BY <3>1, <3>2, <2>1, <1>1
    <3>3. CASE j # i
      BY <3>1, <3>3, <2>1, <1>1
    <3>4. QED
      BY <3>2, <3>3
  <2>2. QED
    BY <2>1, <1>1 DEF FrontsTrue
<1>6. QED
  BY <1>1, <1>3, <1>5 DEF Loose, OneRole, SomeRole, SlotsFit

LEMMA DueGood ==
  ASSUME Inv, NEW t \in Term, NEW f, Due(t, f)
  PROVE  Inv'
<1> DEFINE i == At(srv, t)
           c == [srv.cls[i] EXCEPT !.wait = FALSE]
           s == [srv EXCEPT !.cls[i].wait = FALSE]
<1>1. t \in Attached(srv) /\ Step(Draw(Poke(s), {t}, f)) /\ pc' = pc /\ ready' = ready
  BY DEF Due
<1>2. i \in DOMAIN srv.cls /\ srv.cls[i] \in Client /\ srv \in Server
  BY <1>1, InvMeans, Found, Numbered
<1>3. /\ c \in Client /\ c.at = srv.cls[i].at /\ c.w = srv.cls[i].w
      /\ c.prim = srv.cls[i].prim /\ c.front = srv.cls[i].front
  BY <1>2 DEF Client
<1>4. s = With(srv, i, c, srv.told)
  BY <1>2 DEF Server, With
<1> HIDE DEF i, c, s
<1>5. s \in Server /\ Good(s)
  BY <1>2, <1>3, <1>4, PutAlike, InvMeans
<1>6. Poke(s) \in Server /\ Good(Poke(s)) /\ Heard(Poke(s))
  BY <1>5, PokeGood DEF Heard
<1>7. LET n == Draw(Poke(s), {t}, f) IN n \in Server /\ Good(n) /\ Heard(n)
  BY <1>6, DrawGood
<1>8. QED
  BY <1>1, <1>7, StepGood, InvMeans DEF Inv, Books

LEMMA PollGood ==
  ASSUME Inv, NEW f, Poll(f)
  PROVE  Inv'
<1> DEFINE n == IF f \in Attached(srv) THEN Drop(srv, At(srv, f)) ELSE srv
<1>1. n \in Server /\ Good(n) /\ Heard(n)
  <2>1. CASE f \in Attached(srv)
    <3>1. At(srv, f) \in DOMAIN srv.cls /\ PlacesFit(srv)
      BY <2>1, InvMeans, Found DEF Good
    <3>2. QED
      BY <2>1, <3>1, InvMeans, DropGood DEF Heard
  <2>2. CASE f \notin Attached(srv)
    BY <2>2, InvMeans
  <2>3. QED
    BY <2>1, <2>2
<1>2. ready' \in Seq(Term)
  <2>1. ready' = [i \in DOMAIN srv.cls |-> srv.cls[i].t]
    BY DEF Poll
  <2>2. /\ Len(srv.cls) \in Nat /\ DOMAIN srv.cls = 1 .. Len(srv.cls)
        /\ \A i \in DOMAIN srv.cls : srv.cls[i].t \in Term
    BY InvMeans, Numbered, Fields
  <2>3. ready' \in [1 .. Len(srv.cls) -> Term]
    BY <2>1, <2>2
  <2>4. QED
    BY <2>2, <2>3
<1>3. Step(n) /\ pc' = "clients"
  BY DEF Poll
<1> HIDE DEF n
<1>4. QED
  BY <1>1, <1>2, <1>3, StepGood, InvMeans DEF Inv, Books, Phase

\* A step that leaves the server good, and only moves on in the pass.
LEMMA StepKeeps ==
  ASSUME Inv, NEW n \in Server, Good(n), Heard(n), Step(n),
         pc' \in Phase, ready' \in Seq(Term)
  PROVE  Inv'
  BY StepGood, InvMeans DEF Inv, Books

\* The client that was read is attached, and the pass goes on to the next.
LEMMA ReadingMeans ==
  ASSUME Inv, NEW t, Reading(t)
  PROVE  /\ pc' \in Phase /\ ready' \in Seq(Term)
         /\ t \in Attached(srv) /\ t \in Term
         /\ At(srv, t) \in DOMAIN srv.cls /\ srv.cls[At(srv, t)] \in Client
<1>1. pc' = pc /\ ready' = Tail(ready) /\ ready # <<>> /\ t \in Attached(srv)
  BY DEF Reading
<1>2. ready' \in Seq(Term)
  BY <1>1, InvMeans
<1>3. QED
  BY <1>1, <1>2, InvMeans, Found, Numbered

LEMMA HangupGood ==
  ASSUME Inv, NEW t, Hangup(t)
  PROVE  Inv'
<1>1. Reading(t) /\ Step(Drop(srv, At(srv, t)))
  BY DEF Hangup
<1>2. At(srv, t) \in DOMAIN srv.cls /\ pc' \in Phase /\ ready' \in Seq(Term)
  BY <1>1, ReadingMeans
<1>3. LET n == Drop(srv, At(srv, t)) IN n \in Server /\ Good(n) /\ Heard(n)
  BY <1>2, InvMeans, DropGood DEF Good, Heard
<1>4. QED
  BY <1>1, <1>2, <1>3, StepKeeps

LEMMA SkipGood ==
  ASSUME Inv, Skip
  PROVE  Inv'
<1>1. ready' \in Seq(Term)
  BY InvMeans DEF Skip
<1>2. /\ pc' = pc /\ plan' = plan /\ owner' = owner /\ left' = left
      /\ srv' = srv
  BY DEF Skip
<1>3. QED
  BY <1>1, <1>2 DEF Inv, Books

LEMMA ResizeGood ==
  ASSUME Inv, NEW t, NEW w \in Widths, Resize(t, w)
  PROVE  Inv'
<1> DEFINE i == At(srv, t)
           old == srv.cls[i]
           c == [old EXCEPT !.front = IF w = old.w THEN @ ELSE NoFront, !.w = w]
           s == [srv EXCEPT !.cls[i].front = IF w = srv.cls[i].w THEN @ ELSE NoFront,
                            !.cls[i].w = w]
<1>1. Reading(t) /\ Step(Union(s))
  BY DEF Resize
<1>2. /\ i \in DOMAIN srv.cls /\ old \in Client /\ srv \in Server
      /\ pc' \in Phase /\ ready' \in Seq(Term)
  BY <1>1, InvMeans, ReadingMeans
<1>3. /\ c \in Client /\ c.at = old.at /\ c.prim = old.prim
      /\ c.front = NoFront \/ (c.front = old.front /\ c.w = old.w)
  BY <1>2 DEF Client
<1>4. s = With(srv, i, c, srv.told)
  BY <1>2 DEF Server, With
<1> HIDE DEF i, c, s
<1>5. /\ s \in Server /\ Loose(s) /\ s.told = srv.told /\ s.gone = srv.gone
      /\ s.cls = <<>> <=> srv.cls = <<>>
  BY <1>2, <1>3, <1>4, PutLoose, InvMeans
<1>6. Heard(s)
  BY <1>5, InvMeans DEF Heard
<1>7. Union(s) \in Server /\ Good(Union(s)) /\ Heard(Union(s))
  BY <1>5, <1>6, UnionGood
<1>8. QED
  BY <1>1, <1>2, <1>7, StepKeeps

LEMMA GfxGood ==
  ASSUME Inv, NEW t, NEW f, NEW changed \in BOOLEAN, Gfx(t, f, changed)
  PROVE  Inv'
<1> DEFINE i == At(srv, t)
           c == [srv.cls[i] EXCEPT !.wait = FALSE]
           d == srv.told \/ changed
           s == [srv EXCEPT !.cls[i].wait = FALSE, !.told = @ \/ changed]
           n == IF srv.cls[i].wait THEN Draw(s, {t}, f) ELSE s
<1>1. Reading(t) /\ Step(n)
  BY DEF Gfx
<1>2. /\ i \in DOMAIN srv.cls /\ srv.cls[i] \in Client /\ srv \in Server
      /\ pc' \in Phase /\ ready' \in Seq(Term)
  BY <1>1, InvMeans, ReadingMeans
<1>3. /\ c \in Client /\ c.at = srv.cls[i].at /\ c.w = srv.cls[i].w
      /\ c.prim = srv.cls[i].prim /\ c.front = srv.cls[i].front
  BY <1>2 DEF Client
<1>4. s = With(srv, i, c, d)
  BY <1>2 DEF Server, With
<1>5. d \in BOOLEAN /\ (srv.told => d)
  BY InvMeans
<1> HIDE DEF i, c, d, s
<1>6. /\ s \in Server /\ Good(s) /\ s.told = d /\ s.gone = srv.gone
      /\ s.cls = <<>> <=> srv.cls = <<>>
  BY <1>2, <1>3, <1>4, <1>5, PutAlike, InvMeans
<1>7. Heard(s)
  BY <1>5, <1>6, InvMeans DEF Heard
<1>8. n \in Server /\ Good(n) /\ Heard(n)
  BY <1>6, <1>7, DrawGood
<1> HIDE DEF n
<1>9. QED
  BY <1>1, <1>2, <1>8, StepKeeps

LEMMA DepthGood ==
  ASSUME Inv, NEW t, NEW f, Depth(t, f)
  PROVE  Inv'
<1> DEFINE i == At(srv, t)
           c == [srv.cls[i] EXCEPT !.front = NoFront]
           s == [srv EXCEPT !.cls[i].front = NoFront]
<1>1. Reading(t) /\ Step(Draw(s, {t}, f))
  BY DEF Depth
<1>2. /\ i \in DOMAIN srv.cls /\ srv.cls[i] \in Client /\ srv \in Server
      /\ pc' \in Phase /\ ready' \in Seq(Term)
  BY <1>1, InvMeans, ReadingMeans
<1>3. /\ c \in Client /\ c.at = srv.cls[i].at /\ c.w = srv.cls[i].w
      /\ c.prim = srv.cls[i].prim /\ c.front = NoFront
  BY <1>2 DEF Client
<1>4. s = With(srv, i, c, srv.told)
  BY <1>2 DEF Server, With
<1> HIDE DEF i, c, s
<1>5. /\ s \in Server /\ Good(s) /\ s.told = srv.told /\ s.gone = srv.gone
      /\ s.cls = <<>> <=> srv.cls = <<>>
  BY <1>2, <1>3, <1>4, PutAlike, InvMeans
<1>6. Heard(s)
  BY <1>5, InvMeans DEF Heard
<1>7. LET n == Draw(s, {t}, f) IN n \in Server /\ Good(n) /\ Heard(n)
  BY <1>5, <1>6, DrawGood
<1>8. QED
  BY <1>1, <1>2, <1>7, StepKeeps

\* What a display that went left behind: somebody stands in, and the union is
\* measured again.
LEMMA SettleGood ==
  ASSUME Inv, Settle
  PROVE  Inv'
<1> DEFINE s == [srv EXCEPT !.gone = FALSE]
           r == IF s.cls # <<>> /\ Primaries(s) = {} THEN StandIn(s) ELSE s
           u == Sent(Union(r), IF Moved(r) THEN Term ELSE {})
           n == IF srv.gone THEN Poke(u) ELSE srv
<1>1. srv \in Server /\ OneRole(srv) /\ SlotsFit(srv) /\ FrontsTrue(srv)
  BY InvMeans DEF Loose
<1>2. /\ s \in Server /\ s.cls = srv.cls /\ s.slots = srv.slots
      /\ s.shift = srv.shift
  BY <1>1 DEF Server
<1>3. Primaries(s) = Primaries(srv)
  BY <1>2 DEF Primaries
<1>4. OneRole(s) /\ SlotsFit(s) /\ FrontsTrue(s)
  BY <1>1, <1>2, <1>3 DEF OneRole, SlotsFit, FrontsTrue
<1>5. Step(n) /\ pc' = "accept" /\ ready' = ready
  BY DEF Settle
<1> HIDE DEF s
<1>6. r \in Server /\ Loose(r)
  <2>1. CASE s.cls # <<>> /\ Primaries(s) = {}
    BY <2>1, <1>2, <1>4, StandInGood
  <2>2. CASE ~(s.cls # <<>> /\ Primaries(s) = {})
    BY <2>2, <1>2, <1>4 DEF Loose, SomeRole
  <2>3. QED
    BY <2>1, <2>2
<1> HIDE DEF r
<1>7. Union(r) \in Server /\ Good(Union(r))
  BY <1>6, UnionGood
<1>8. u \in Server /\ Good(u)
  BY <1>7, SentGood
<1> HIDE DEF u
<1>9. n \in Server /\ Good(n) /\ Heard(n)
  BY <1>8, PokeGood, InvMeans DEF Heard
<1> HIDE DEF n
<1>10. QED
  BY <1>5, <1>9, StepKeeps, InvMeans DEF Phase

\* hd_cclear: nobody is left, so nothing is asked of a client.
LEMMA ClearGood ==
  ASSUME NEW s \in Server, Loose(s)
  PROVE  /\ Clear(s) \in Server /\ Good(Clear(s)) /\ Heard(Clear(s))
         /\ Loose(Clear(s))
<1> DEFINE n == Clear(s)
<1>1. <<>> \in Seq(Client) /\ DOMAIN <<>> = {}
  OBVIOUS
<1>2. /\ n \in Server /\ n.cls = <<>> /\ n.slots = s.slots
      /\ n.shift = s.shift
  BY <1>1 DEF Server, Clear
<1> HIDE DEF n
<1>3. Primaries(n) = {}
  BY <1>1, <1>2 DEF Primaries
<1>4. OneRole(n) /\ SomeRole(n) /\ SlotsFit(n) /\ FrontsTrue(n)
  BY <1>1, <1>2, <1>3 DEF OneRole, SomeRole, SlotsFit, FrontsTrue, Loose
<1>5. PlacesFit(n) /\ SizeIs(n) /\ Heard(n)
  BY <1>1, <1>2 DEF PlacesFit, SizeIs, Heard
<1>6. QED
  BY <1>2, <1>4, <1>5 DEF Good, Loose, n

\* A request answered: the server is left good, from wherever it had got to.
LEMMA AnswerKeeps ==
  ASSUME Inv, NEW s \in Server, NEW n \in Server, NEW o \in Owner,
         Good(n), Heard(n), Through(s, n, o),
         pc' \in Phase, ready' \in Seq(Term), plan' \in [Term -> Plan \cup {None}]
  PROVE  Inv'
  BY ThroughGood, InvMeans DEF Inv, Books

LEMMA AnsweringMeans ==
  ASSUME Inv, Answering
  PROVE  pc' \in Phase /\ ready' \in Seq(Term)
  BY InvMeans DEF Answering, Phase

LEMMA NamedMeans ==
  ASSUME Inv, NEW t, Named(t)
  PROVE  /\ t \in Attached(srv) /\ At(srv, t) \in DOMAIN srv.cls
         /\ srv.cls[At(srv, t)] \in Client /\ t \in Term
  BY InvMeans, Found, Numbered DEF Named

\* HD_ATTACH and HD_MATTACH.
LEMMA AttachGood ==
  ASSUME Inv, NEW t \in Term, NEW f, Attach(t, f)
  PROVE  Inv'
<1> DEFINE p == plan[t]
           s == IF p.multi THEN srv ELSE Clear(srv)
           c == [t |-> t, k |-> p.k, at |-> p.at, w |-> p.w, prim |-> FALSE,
                 autop |-> FALSE, wait |-> TRUE, front |-> NoFront]
           j == Join(s, c)
           d == Draw(Union(j), IF Moved(j) THEN Term ELSE {t}, f)
           o == IF owner = Lost \/ (~p.multi /\ srv.cls # <<>>) THEN Lost
                ELSE IF Primaries(s) = {} /\ ~SlotPrim(s, Base[t]) THEN Base[t]
                ELSE owner
<1>1. /\ Answering /\ p # None /\ Through(Union(j), Poke(d), o)
      /\ plan' = [plan EXCEPT ![t] = None]
  BY DEF Attach, Knows
<1>2. p \in Plan
  BY <1>1, InvMeans
<1>3. c \in Client /\ c.front = NoFront /\ ~c.prim
  BY <1>2 DEF Plan, Client
<1>4. s \in Server /\ OneRole(s) /\ SlotsFit(s) /\ FrontsTrue(s)
  BY InvMeans, ClearGood DEF Loose
<1>5. o \in Owner
  BY InvMeans, HoldAssumption DEF Owner
<1> HIDE DEF c, s, o, p
<1>6. j \in Server /\ Loose(j)
  BY <1>3, <1>4, JoinLoose
<1> HIDE DEF j
<1>7. Union(j) \in Server /\ Good(Union(j))
  BY <1>6, UnionGood
<1>8. d \in Server /\ Good(d)
  BY <1>7, DrawGood
<1> HIDE DEF d
<1>9. Poke(d) \in Server /\ Good(Poke(d)) /\ Heard(Poke(d))
  BY <1>8, PokeGood DEF Heard
<1>10. plan' \in [Term -> Plan \cup {None}]
  BY <1>1, InvMeans
<1>11. QED
  BY <1>1, <1>5, <1>7, <1>9, <1>10, AnsweringMeans, AnswerKeeps

\* HD_MOVE.
LEMMA MoveGood ==
  ASSUME Inv, NEW t, NEW off \in Offsets, NEW f, Move(t, off, f)
  PROVE  Inv'
<1> DEFINE i == At(srv, t)
           from == IF Primaries(srv) = {} THEN 0
                   ELSE srv.cls[CHOOSE p \in Primaries(srv) : TRUE].at
           c == [srv.cls[i] EXCEPT !.at = from + off, !.front = NoFront]
           s == [srv EXCEPT !.cls[i].at = from + off, !.cls[i].front = NoFront,
                            !.told = FALSE]
           d == Draw(Union(s), IF Moved(s) THEN Term ELSE {t}, f)
<1>1. /\ Answering /\ Named(t) /\ Through(Union(s), Poke(d), owner)
      /\ plan' = plan
  BY DEF Move
<1>2. i \in DOMAIN srv.cls /\ srv.cls[i] \in Client /\ srv \in Server
  BY <1>1, InvMeans, NamedMeans
<1>3. from \in Int
  <2>1. ASSUME Primaries(srv) # {}
        PROVE  from \in Int
    <3>1. (CHOOSE p \in Primaries(srv) : TRUE) \in Primaries(srv)
      BY <2>1
    <3>2. (CHOOSE p \in Primaries(srv) : TRUE) \in DOMAIN srv.cls
      BY <3>1 DEF Primaries
    <3>3. QED
      BY <2>1, <3>2, <1>2, Numbered, Fields
  <2>2. QED
    BY <2>1
<1> HIDE DEF from
<1>4. from + off \in Int
  BY <1>3, HoldAssumption
<1>5. /\ c \in Client /\ c.w = srv.cls[i].w
      /\ c.prim = srv.cls[i].prim /\ c.front = NoFront
  BY <1>2, <1>4 DEF Client
<1>6. s = With(srv, i, c, FALSE)
  BY <1>2 DEF Server, With
<1> HIDE DEF i, c, s
<1>7. s \in Server /\ Loose(s)
  BY <1>2, <1>5, <1>6, PutLoose, InvMeans
<1>8. Union(s) \in Server /\ Good(Union(s))
  BY <1>7, UnionGood
<1>9. d \in Server /\ Good(d)
  BY <1>8, DrawGood
<1> HIDE DEF d
<1>10. Poke(d) \in Server /\ Good(Poke(d)) /\ Heard(Poke(d))
  BY <1>9, PokeGood DEF Heard
<1>11. QED
  BY <1>1, <1>8, <1>10, AnsweringMeans, AnswerKeeps, InvMeans

\* HD_DROP: if the primary is switched off, somebody stands in at once.
LEMMA SwitchOffGood ==
  ASSUME Inv, NEW t, SwitchOff(t)
  PROVE  Inv'
<1> DEFINE i == At(srv, t)
           g == Drop(srv, i)
           d == Union(g)
           e == IF Of(srv, t).prim /\ d.cls # <<>> THEN StandIn(d) ELSE d
<1>1. Answering /\ Named(t) /\ Step(Poke(e))
  BY DEF SwitchOff
<1>2. i \in DOMAIN srv.cls
  BY <1>1, NamedMeans
<1>3. /\ g \in Server /\ Good(g) /\ Loose(g)
      /\ Of(srv, t).prim => Primaries(g) = {}
  BY <1>2, InvMeans, DropGood DEF Good, Loose, Of
<1> HIDE DEF g, i
<1>4. d \in Server /\ Good(d) /\ Primaries(d) = Primaries(g)
  BY <1>3, UnionGood
<1> HIDE DEF d
<1>5. e \in Server /\ Good(e)
  <2>1. CASE Of(srv, t).prim /\ d.cls # <<>>
    BY <2>1, <1>3, <1>4, StandInGood DEF Good, Loose
  <2>2. CASE ~(Of(srv, t).prim /\ d.cls # <<>>)
    BY <2>2, <1>4
  <2>3. QED
    BY <2>1, <2>2
<1> HIDE DEF e
<1>6. Poke(e) \in Server /\ Good(Poke(e)) /\ Heard(Poke(e))
  BY <1>5, PokeGood DEF Heard
<1>7. QED
  BY <1>1, <1>6, AnsweringMeans, StepKeeps

\* HD_PRIMARY: that one, and nobody else, here or remembered.
LEMMA ChooseGood ==
  ASSUME Inv, NEW t, Choose(t)
  PROVE  Inv'
<1> DEFINE i == At(srv, t)
           q == [j \in DOMAIN srv.cls |->
                   [srv.cls[j] EXCEPT !.prim = (j = i), !.autop = FALSE]]
           z == [b \in Machine |-> IF srv.slots[b] = None THEN None
                                   ELSE [srv.slots[b] EXCEPT !.prim = FALSE]]
           n == [srv EXCEPT !.cls = q, !.slots = z, !.told = FALSE]
<1>1. /\ Answering /\ Named(t) /\ Through(srv, Poke(n), Base[t])
      /\ plan' = plan
  BY DEF Choose
<1>2. /\ srv \in Server /\ i \in DOMAIN srv.cls
      /\ t \in Term /\ Base[t] \in Owner
  BY <1>1, InvMeans, NamedMeans, HoldAssumption DEF Owner
<1>3. \A j \in DOMAIN srv.cls :
         /\ q[j] \in Client /\ q[j].at = srv.cls[j].at /\ q[j].w = srv.cls[j].w
         /\ q[j].prim = (j = i) /\ q[j].front = srv.cls[j].front
  <2>1. TAKE j \in DOMAIN srv.cls
  <2>2. srv.cls[j] \in Client /\ (j = i) \in BOOLEAN
    BY <1>2, Numbered
  <2> HIDE DEF i
  <2>3. QED
    BY <2>2 DEF Client
<1>4. q \in Seq(Client) /\ DOMAIN q = DOMAIN srv.cls
  <2>1. q \in [1 .. Len(srv.cls) -> Client]
    BY <1>2, <1>3, Numbered
  <2>2. QED
    BY <2>1, <1>2, Numbered, AsSeq
<1>5. \A b \in Machine :
         /\ z[b] \in Slot \cup {None}
         /\ z[b] # None => srv.slots[b] # None /\ z[b].at = srv.slots[b].at
  <2>1. TAKE b \in Machine
  <2>2. srv.slots[b] \in Slot \cup {None}
    BY <1>2 DEF Server
  <2>3. QED
    BY <2>2 DEF Slot
<1>6. z \in [Machine -> Slot \cup {None}]
  BY <1>5
<1> HIDE DEF q, z, i
<1>7. /\ n \in Server /\ n.cls = q /\ n.slots = z /\ n.shift = srv.shift
      /\ n.gone = srv.gone /\ n.size = srv.size
  BY ONLY <1>4, <1>6, <1>2 DEF Server
<1> HIDE DEF n
<1>8. Primaries(n) = {i}
  BY <1>2, <1>3, <1>4, <1>7 DEF Primaries
<1>9. n.cls # <<>> /\ srv.cls # <<>>
  BY <1>2, <1>4, <1>7, Emptiness
<1>10. Loose(n)
  <2>1. SlotsFit(n)
    BY <1>5, <1>7, InvMeans DEF SlotsFit, Loose
  <2>2. FrontsTrue(n)
    BY <1>3, <1>4, <1>7, InvMeans DEF FrontsTrue, Loose
  <2>3. QED
    BY <2>1, <2>2, <1>7, <1>8 DEF Loose, OneRole, SomeRole
<1>11. PlacesFit(n)
  BY <1>3, <1>4, <1>7, InvMeans DEF PlacesFit, Good
<1>12. SizeIs(n)
  <2>1. {n.cls[j].at + n.cls[j].w : j \in DOMAIN n.cls}
          = {srv.cls[j].at + srv.cls[j].w : j \in DOMAIN srv.cls}
    BY <1>3, <1>4, <1>7
  <2>2. Ubox(n) = Ubox(srv)
    BY <2>1 DEF Ubox
  <2>3. QED
    BY <2>2, <1>7, <1>9, InvMeans DEF SizeIs, Good
<1>13. Poke(n) \in Server /\ Good(Poke(n)) /\ Heard(Poke(n))
  BY <1>7, <1>10, <1>11, <1>12, PokeGood DEF Heard, Good
<1>14. QED
  BY <1>1, <1>2, <1>13, AnsweringMeans, AnswerKeeps, InvMeans

LEMMA DetachAllGood ==
  ASSUME Inv, DetachAll
  PROVE  Inv'
<1>1. /\ Answering /\ plan' = plan
      /\ Through(Clear(srv), Clear(srv), IF srv.cls = <<>> THEN owner ELSE Lost)
  BY DEF DetachAll
<1>2. Clear(srv) \in Server /\ Good(Clear(srv)) /\ Heard(Clear(srv))
  BY InvMeans, ClearGood
<1>3. (IF srv.cls = <<>> THEN owner ELSE Lost) \in Owner
  BY InvMeans DEF Owner
<1>4. QED
  BY <1>1, <1>2, <1>3, AnsweringMeans, AnswerKeeps, InvMeans

LEMMA EndGood ==
  ASSUME Inv, End
  PROVE  Inv'
<1>1. /\ pc' = "ended" /\ ready' = <<>> /\ plan' = plan
      /\ Through(Clear(srv), Clear(srv), Lost)
  BY DEF End
<1>2. Clear(srv) \in Server /\ Good(Clear(srv)) /\ Heard(Clear(srv))
  BY InvMeans, ClearGood
<1>3. Lost \in Owner /\ pc' \in Phase /\ ready' \in Seq(Term)
  BY <1>1 DEF Owner, Phase
<1>4. QED
  BY <1>1, <1>2, <1>3, AnswerKeeps, InvMeans

\* HD_COLOURS: what was sent to each is forgotten.
LEMMA ColoursGood ==
  ASSUME Inv, Colours
  PROVE  Inv'
<1> DEFINE q == [i \in DOMAIN srv.cls |-> [srv.cls[i] EXCEPT !.front = NoFront]]
           n == [srv EXCEPT !.cls = q]
<1>1. Answering /\ Step(n)
  BY DEF Colours
<1>2. \A i \in DOMAIN srv.cls :
         /\ q[i] \in Client /\ q[i].at = srv.cls[i].at /\ q[i].w = srv.cls[i].w
         /\ q[i].prim = srv.cls[i].prim /\ q[i].front = NoFront
  <2>1. TAKE i \in DOMAIN srv.cls
  <2>2. srv.cls[i] \in Client
    BY InvMeans, Numbered
  <2>3. QED
    BY <2>2 DEF Client
<1>3. q \in Seq(Client) /\ DOMAIN q = DOMAIN srv.cls
  <2>1. q \in [1 .. Len(srv.cls) -> Client]
    BY <1>2, InvMeans, Numbered
  <2>2. QED
    BY <2>1, InvMeans, Numbered, AsSeq
<1> HIDE DEF q
<1>4. srv \in Server
  BY InvMeans
<1>5. /\ n \in Server /\ n.cls = q /\ n.slots = srv.slots /\ n.shift = srv.shift
      /\ n.gone = srv.gone /\ n.size = srv.size /\ n.told = srv.told
  BY ONLY <1>3, <1>4 DEF Server
<1> HIDE DEF n
<1>6. Alike(srv, n)
  BY <1>2, <1>3, <1>5 DEF Alike
<1>7. Good(n) /\ Heard(n)
  BY <1>4, <1>5, <1>6, AlikeGood, InvMeans DEF Heard
<1>8. QED
  BY <1>1, <1>5, <1>7, AnsweringMeans, StepKeeps

LEMMA QuietGood ==
  ASSUME Inv, Quiet
  PROVE  Inv'
<1>1. pc' \in Phase /\ ready' \in Seq(Term)
  BY AnsweringMeans DEF Quiet
<1>2. srv' = srv /\ plan' = plan /\ owner' = owner /\ left' = left
  BY DEF Quiet
<1>3. QED
  BY <1>1, <1>2 DEF Inv, Books

\* hd_upgrade and hd_resume: nothing is remembered of a display that went.
LEMMA UpgradeGood ==
  ASSUME Inv, NEW f, Upgrade(f)
  PROVE  Inv'
<1> DEFINE q == [i \in DOMAIN srv.cls |->
                   [srv.cls[i] EXCEPT !.autop = FALSE, !.wait = FALSE,
                                      !.front = NoFront]]
           z == [b \in Machine |-> None]
           s == [srv EXCEPT !.cls = q, !.slots = z]
           d == Draw(Union(s), Term, f)
<1>1. /\ Through(Union(s), d, Lost)
      /\ pc' = "poll" /\ ready' = ready /\ plan' = plan
  BY DEF Upgrade
<1>2. \A i \in DOMAIN srv.cls :
         /\ q[i] \in Client /\ q[i].prim = srv.cls[i].prim
         /\ q[i].front = NoFront
  <2>1. TAKE i \in DOMAIN srv.cls
  <2>2. srv.cls[i] \in Client
    BY InvMeans, Numbered
  <2>3. QED
    BY <2>2 DEF Client
<1>3. q \in Seq(Client) /\ DOMAIN q = DOMAIN srv.cls
  <2>1. q \in [1 .. Len(srv.cls) -> Client]
    BY <1>2, InvMeans, Numbered
  <2>2. QED
    BY <2>1, InvMeans, Numbered, AsSeq
<1>4. srv \in Server /\ z \in [Machine -> Slot \cup {None}]
  BY InvMeans
<1>5. \A b \in Machine : z[b] = None
  OBVIOUS
<1> HIDE DEF q, z
<1>6. /\ s \in Server /\ s.cls = q /\ s.slots = z
      /\ s.gone = srv.gone /\ s.told = srv.told
  BY ONLY <1>3, <1>4 DEF Server
<1> HIDE DEF s
<1>7. /\ Primaries(s) = Primaries(srv)
      /\ s.cls = <<>> <=> srv.cls = <<>>
  BY <1>2, <1>3, <1>4, <1>6, Emptiness DEF Primaries
<1>8. Loose(s) /\ Heard(s)
  <2>1. SlotsFit(s)
    BY <1>5, <1>6 DEF SlotsFit
  <2>2. FrontsTrue(s)
    BY <1>2, <1>3, <1>6 DEF FrontsTrue
  <2>3. OneRole(s) /\ SomeRole(s) /\ Heard(s)
    BY <1>6, <1>7, InvMeans DEF Loose, OneRole, SomeRole, Heard
  <2>4. QED
    BY <2>1, <2>2, <2>3, <1>6 DEF Loose
<1>9. Union(s) \in Server /\ Good(Union(s)) /\ Heard(Union(s))
  BY <1>6, <1>8, UnionGood
<1>10. d \in Server /\ Good(d) /\ Heard(d)
  BY <1>9, DrawGood
<1> HIDE DEF d
<1>11. Lost \in Owner /\ pc' \in Phase /\ ready' \in Seq(Term)
  BY <1>1, InvMeans DEF Owner, Phase
<1>12. QED
  BY <1>1, <1>9, <1>10, <1>11, AnswerKeeps, InvMeans

LEMMA RenderGood ==
  ASSUME Inv, Render
  PROVE  Inv'
<1>1. PICK D \in {{}, Term}, f \in Fails : Step(Draw(srv, D, f))
  BY DEF Render
<1>2. LET n == Draw(srv, D, f) IN n \in Server /\ Good(n) /\ Heard(n)
  BY InvMeans, DrawGood
<1>3. pc' \in Phase /\ ready' \in Seq(Term)
  BY InvMeans DEF Render, Phase
<1>4. QED
  BY <1>1, <1>2, <1>3, StepKeeps

-----------------------------------------------------------------------------
(***************************************************************************)
(* The invariant, and what it means                                        *)
(***************************************************************************)

LEMMA InitInv == Init => Inv
<1> SUFFICES ASSUME Init
             PROVE  Inv
  OBVIOUS
<1>1. <<>> \in Seq(Client) /\ <<>> \in Seq(Term) /\ DOMAIN <<>> = {}
  OBVIOUS
<1>2. /\ srv.cls = <<>> /\ srv.shift = 0
      /\ \A b \in Machine : srv.slots[b] = None
  BY DEF Init
<1>3. srv \in Server
  BY <1>1 DEF Init, Server
<1>4. Primaries(srv) = {}
  BY <1>1, <1>2 DEF Primaries
<1>5. Loose(srv)
  BY <1>1, <1>2, <1>3, <1>4
     DEF Loose, OneRole, SomeRole, SlotsFit, FrontsTrue
<1>6. Good(srv) /\ Heard(srv)
  BY <1>1, <1>2, <1>5 DEF Good, PlacesFit, SizeIs, Heard
<1>7. Books
  BY <1>1 DEF Init, Books, Owner, Phase
<1>8. QED
  BY <1>6, <1>7 DEF Inv

LEMMA ReadGood ==
  ASSUME Inv, Read
  PROVE  Inv'
<1>1. ASSUME NEW t \in Term, Hangup(t)
      PROVE  Inv'
  BY <1>1, HangupGood
<1>2. ASSUME NEW t \in Term, NEW w \in Widths, Resize(t, w)
      PROVE  Inv'
  BY <1>2, ResizeGood
<1>3. ASSUME NEW t \in Term, NEW f \in {t, None}, Depth(t, f)
      PROVE  Inv'
  BY <1>3, DepthGood
<1>4. ASSUME NEW t \in Term, NEW f \in {t, None}, NEW c \in BOOLEAN, Gfx(t, f, c)
      PROVE  Inv'
  BY <1>4, GfxGood
<1>5. QED
  BY <1>1, <1>2, <1>3, <1>4, SkipGood DEF Read

LEMMA AcceptGood ==
  ASSUME Inv, Accept
  PROVE  Inv'
<1>1. ASSUME NEW t \in Term, NEW w \in Widths, AskWidth(t, w) \/ AskTakeOver(t, w)
      PROVE  Inv'
  BY <1>1, AskWidthGood, AskTakeOverGood
<1>2. ASSUME NEW t \in Term, NEW f \in Fails, Attach(t, f)
      PROVE  Inv'
  BY <1>2, AttachGood
<1>3. ASSUME NEW t \in Term, NEW f \in Fails, NEW off \in Offsets, Move(t, off, f)
      PROVE  Inv'
  BY <1>3, MoveGood
<1>4. ASSUME NEW t \in Term, SwitchOff(t)
      PROVE  Inv'
  BY <1>4, SwitchOffGood
<1>5. ASSUME NEW t \in Term, Choose(t)
      PROVE  Inv'
  BY <1>5, ChooseGood
<1>6. ASSUME NEW f \in Fails, Upgrade(f)
      PROVE  Inv'
  BY <1>6, UpgradeGood
<1>7. ASSUME NEW t \in Term, AskNames(t) \/ AskPlace(t)
      PROVE  Inv'
  BY <1>7, AskNamesGood, AskPlaceGood
<1>8. QED
  BY <1>1, <1>2, <1>3, <1>4, <1>5, <1>6, <1>7, DetachAllGood, ColoursGood, QuietGood
     DEF Accept

LEMMA NextInv == Inv /\ [Next]_vars => Inv'
<1> SUFFICES ASSUME Inv, [Next]_vars
             PROVE  Inv'
  OBVIOUS
<1>1. ASSUME NEW t \in Term, Wait(t)
      PROVE  Inv'
  BY <1>1, DueGood DEF Wait
<1>2. ASSUME Polled
      PROVE  Inv'
  BY <1>2, PollGood DEF Polled
<1>3. CASE UNCHANGED vars
  BY <1>3 DEF vars, Inv, Books
<1>4. CASE Ended
  BY <1>3, <1>4 DEF Ended
<1>5. QED
  BY <1>1, <1>2, <1>3, <1>4, ReadGood, SettleGood, AcceptGood, RenderGood, EndGood
     DEF Next

LEMMA AlwaysInv == Spec => []Inv
<1>1. QED
  BY InitInv, NextInv, PTL DEF Spec

\* Types: every client, slot, plan and phase is of its kind, and what a
\* terminal is told has a name it may use (hd_conn, dt_dispfree).
THEOREM TypeCorrect == Spec => []TypeOK
<1>1. Inv => TypeOK
  BY DEF Inv, Good, Loose, Server, Books, Owner, TypeOK
<1>2. QED
  BY <1>1, AlwaysInv, PTL

\* The displays have one primary between them whenever the server waits, and
\* never two, whatever number of them come, go, are chosen and return
\* (hd_conn, hd_cdrop, hd_loop's gone block).
THEOREM OnePrimaryCorrect == Spec => []OnePrimary
<1>1. Inv => OnePrimary
  BY DEF Inv, Good, Loose, OneRole, SomeRole, OnePrimary
<1>2. QED
  BY <1>1, AlwaysInv, PTL

\* No display is off the edge of the screen, and no place one is told it was
\* at is, for any sizes, any moves and any number of normalisations (hd_unorm,
\* hd_slotkeep).
THEOREM OnScreenCorrect == Spec => []OnScreen
<1>1. Inv => OnScreen
  BY DEF Inv, Good, Loose, SlotsFit, PlacesFit, OnScreen
<1>2. QED
  BY <1>1, AlwaysInv, PTL

\* What a display was last sent is of where it is and as large as it is, so
\* that the next frame is a difference from what it shows (hd_render).
THEOREM FrontTrueCorrect == Spec => []FrontTrue
<1>1. Inv => FrontTrue
  BY DEF Inv, Good, Loose, FrontsTrue, FrontTrue
<1>2. QED
  BY <1>1, AlwaysInv, PTL

\* While the server waits, the program's terminal is as large as the union of
\* the displays, and the program has been told (hd_union, hd_poke).
THEOREM SizedCorrect == Spec => []Sized
<1>1. Inv => Sized
  BY DEF Inv, Good, SizeIs, Heard, Sized
<1>2. QED
  BY <1>1, AlwaysInv, PTL

-----------------------------------------------------------------------------
(***************************************************************************)
(* Where the displays are, who goes, and whose role the primary is         *)
(***************************************************************************)

\* No terminal is attached twice.
Apart(s) == \A i, j \in DOMAIN s.cls : s.cls[i].t = s.cls[j].t => i = j

\* Where a client is, and a display, in the frame the session began with.
Spot(s, i)    == s.cls[i].at - s.shift
PlaceOf(s, t) == Of(s, t).at - s.shift

\* Client j of n is client i of s, in its place; and with its role.
Like(s, i, n, j) == n.cls[j].t = s.cls[i].t /\ Spot(n, j) = Spot(s, i)
Acts(s, i, n, j) == /\ n.cls[j].prim = s.cls[i].prim
                    /\ n.cls[j].autop = s.cls[i].autop

\* The clients of n are those of s, where they were; and with their roles.
Stay(s, n) == /\ DOMAIN n.cls = DOMAIN s.cls
              /\ \A i \in DOMAIN s.cls : Like(s, i, n, i)
Same(s, n) == /\ Stay(s, n) /\ n.slots = s.slots
              /\ \A i \in DOMAIN s.cls : Acts(s, i, n, i)

\* Client i of s has gone, and is remembered.
Remembers(s, n, i) ==
  LET sl == n.slots[Base[s.cls[i].t]]
  IN  /\ sl # None /\ sl.at = Spot(s, i)
      /\ sl.prim <=> s.cls[i].prim /\ ~s.cls[i].autop
Gone(s, n, i) ==
  /\ DOMAIN n.cls = 1 .. (Len(s.cls) - 1)
  /\ \A j \in 1 .. (Len(s.cls) - 1) :
       /\ j = i => Like(s, Len(s.cls), n, j) /\ Acts(s, Len(s.cls), n, j)
       /\ j # i => Like(s, j, n, j) /\ Acts(s, j, n, j)
  /\ \A b \in Machine : b # Base[s.cls[i].t] => n.slots[b] = s.slots[b]
  /\ Remembers(s, n, i)

LEMMA PlaceIs ==
  ASSUME NEW s \in Server, Apart(s), NEW i \in DOMAIN s.cls
  PROVE  /\ s.cls[i].t \in Attached(s) /\ At(s, s.cls[i].t) = i
         /\ PlaceOf(s, s.cls[i].t) = Spot(s, i)
<1>1. s.cls[i].t \in Attached(s)
  BY DEF Attached
<1>2. /\ At(s, s.cls[i].t) \in DOMAIN s.cls
      /\ s.cls[At(s, s.cls[i].t)].t = s.cls[i].t
  BY <1>1, Found
<1>3. At(s, s.cls[i].t) = i
  BY <1>2 DEF Apart
<1>4. QED
  BY <1>1, <1>3 DEF PlaceOf, Spot, Of

\* The displays left are where they were, and what is remembered of them.
Placed(s, n) ==
  \A t \in Attached(n) : t \in Attached(s) /\ PlaceOf(n, t) = PlaceOf(s, t)
SlotsStay(s, n) ==
  \A b \in Machine : n.slots[b] # None
                       => s.slots[b] # None /\ n.slots[b].at = s.slots[b].at
Stays(s, n) ==
  Apart(n) /\ Placed(s, n) /\ Attached(n) = Attached(s) /\ SlotsStay(s, n)

\* Display t has gone, and its place is remembered.
Loses(s, n, t) ==
  /\ Attached(n) = Attached(s) \ {t}
  /\ \A b \in Machine : b # Base[t] /\ n.slots[b] # None
                          => s.slots[b] # None /\ n.slots[b].at = s.slots[b].at
  /\ n.slots[Base[t]] # None => n.slots[Base[t]].at = PlaceOf(s, t)

\* At most one display went.
Follows(s, n) ==
  \/ Stays(s, n)
  \/ Apart(n) /\ Placed(s, n) /\ \E t \in Attached(s) : Loses(s, n, t)

LEMMA StayStays ==
  ASSUME NEW s \in Server, NEW n \in Server, Apart(s), Stay(s, n), SlotsStay(s, n)
  PROVE  Stays(s, n)
<1>1. \A i \in DOMAIN s.cls : n.cls[i].t = s.cls[i].t /\ Spot(n, i) = Spot(s, i)
  BY DEF Stay, Like
<1>2. DOMAIN n.cls = DOMAIN s.cls
  BY DEF Stay
<1>3. Apart(n)
  BY <1>1, <1>2 DEF Apart
<1>4. Attached(n) = Attached(s)
  BY <1>1, <1>2 DEF Attached
<1>5. ASSUME NEW t \in Attached(n)
      PROVE  PlaceOf(n, t) = PlaceOf(s, t)
  <2>1. PICK i \in DOMAIN s.cls : s.cls[i].t = t /\ n.cls[i].t = t
    BY <1>1, <1>2 DEF Attached
  <2>2. PlaceOf(n, t) = Spot(n, i)
    BY <2>1, <1>2, <1>3, PlaceIs
  <2>3. PlaceOf(s, t) = Spot(s, i)
    BY <2>1, PlaceIs
  <2>4. QED
    BY <2>2, <2>3, <1>1
<1>6. QED
  BY <1>3, <1>4, <1>5 DEF Stays, Placed

LEMMA GoneLoses ==
  ASSUME NEW s \in Server, NEW n \in Server, Apart(s),
         NEW i \in DOMAIN s.cls, Gone(s, n, i)
  PROVE  /\ Apart(n) /\ Placed(s, n) /\ s.cls[i].t \in Attached(s)
         /\ Loses(s, n, s.cls[i].t)
<1> DEFINE l == Len(s.cls)
           k(j) == IF j = i THEN l ELSE j
           t == s.cls[i].t
<1>1. l \in Nat /\ DOMAIN s.cls = 1 .. l /\ i \in 1 .. l
  BY Numbered
<1>2. DOMAIN n.cls = 1 .. (l - 1)
  BY DEF Gone
<1>3. \A j \in 1 .. (l - 1) : /\ k(j) \in 1 .. l /\ k(j) # i
                              /\ Like(s, k(j), n, j)
  BY <1>1 DEF Gone
<1>4. \A j, h \in 1 .. (l - 1) : k(j) = k(h) => j = h
  BY <1>1
<1>5. \A h \in 1 .. l : h # i => \E j \in 1 .. (l - 1) : k(j) = h
  <2>1. TAKE h \in 1 .. l
  <2>2. CASE h = l
    <3>1. h # i => i \in 1 .. (l - 1) /\ k(i) = h
      BY <1>1, <2>2
    <3>2. QED
      BY <3>1
  <2>3. CASE h # l
    <3>1. h # i => h \in 1 .. (l - 1) /\ k(h) = h
      BY <1>1, <2>3
    <3>2. QED
      BY <3>1
  <2>4. QED
    BY <2>2, <2>3
<1> HIDE DEF k, l
<1>6. Apart(n)
  <2>1. ASSUME NEW j \in 1 .. (l - 1), NEW h \in 1 .. (l - 1),
               n.cls[j].t = n.cls[h].t
        PROVE  j = h
    <3>1. s.cls[k(j)].t = s.cls[k(h)].t
      BY <2>1, <1>3 DEF Like
    <3>2. k(j) = k(h)
      BY <3>1, <1>1, <1>3 DEF Apart
    <3>3. QED
      BY <3>2, <1>4
  <2>2. QED
    BY <2>1, <1>2 DEF Apart
<1>7. ASSUME NEW u \in Attached(n)
      PROVE  u \in Attached(s) /\ u # t /\ PlaceOf(n, u) = PlaceOf(s, u)
  <2>1. PICK j \in 1 .. (l - 1) : n.cls[j].t = u
    BY <1>2 DEF Attached
  <2>2. /\ k(j) \in 1 .. l /\ k(j) # i
        /\ s.cls[k(j)].t = u /\ Spot(n, j) = Spot(s, k(j))
    BY <2>1, <1>3 DEF Like
  <2>3. u \in Attached(s) /\ PlaceOf(s, u) = Spot(s, k(j))
    BY <2>2, <1>1, PlaceIs
  <2>4. PlaceOf(n, u) = Spot(n, j)
    BY <2>1, <1>2, <1>6, PlaceIs
  <2>5. u # t
    BY <2>2, <1>1 DEF Apart
  <2>6. QED
    BY <2>2, <2>3, <2>4, <2>5
<1>8. ASSUME NEW u \in Attached(s), u # t
      PROVE  u \in Attached(n)
  <2>1. PICK h \in 1 .. l : s.cls[h].t = u
    BY <1>1 DEF Attached
  <2>2. PICK j \in 1 .. (l - 1) : k(j) = h
    BY <2>1, <1>5, <1>8
  <2>3. n.cls[j].t = u
    BY <2>1, <2>2, <1>3 DEF Like
  <2>4. QED
    BY <2>3, <1>2 DEF Attached
<1>9. Attached(n) = Attached(s) \ {t}
  BY <1>7, <1>8
<1>10. t \in Attached(s) /\ PlaceOf(s, t) = Spot(s, i)
  BY PlaceIs
<1>11. Loses(s, n, t)
  BY <1>9, <1>10 DEF Loses, Gone, Remembers
<1>12. QED
  BY <1>6, <1>7, <1>10, <1>11 DEF Placed

LEMMA StaysOn ==
  ASSUME NEW s, NEW n, NEW m, Stays(s, n), Stays(n, m)
  PROVE  Stays(s, m)
  BY DEF Stays, Placed, SlotsStay

LEMMA FollowsOn ==
  ASSUME NEW s, NEW n, NEW m, \A t \in Attached(s) : Base[t] \in Machine,
         \/ Stays(s, n) /\ Follows(n, m)
         \/ Follows(s, n) /\ Stays(n, m)
  PROVE  Follows(s, m)
<1>1. ASSUME Stays(s, n), Stays(n, m)
      PROVE  Follows(s, m)
  BY <1>1, StaysOn DEF Follows
<1>2. ASSUME Stays(s, n), Apart(m), Placed(n, m), NEW t \in Attached(n),
             Loses(n, m, t)
      PROVE  Follows(s, m)
  <2>1. t \in Attached(s) /\ Loses(s, m, t)
    BY <1>2 DEF Stays, Placed, SlotsStay, Loses
  <2>2. Placed(s, m)
    BY <1>2 DEF Stays, Placed
  <2>3. QED
    BY <1>2, <2>1, <2>2 DEF Follows
<1>3. ASSUME Stays(n, m), Placed(s, n), NEW t \in Attached(s), Loses(s, n, t)
      PROVE  Follows(s, m)
  <2>1. Loses(s, m, t)
    BY <1>3 DEF Stays, SlotsStay, Loses
  <2>2. Placed(s, m) /\ Apart(m)
    BY <1>3 DEF Stays, Placed
  <2>3. QED
    BY <2>1, <2>2 DEF Follows
<1>4. QED
  BY <1>1, <1>2, <1>3 DEF Follows

\* What is remembered of whose role the primary is, when it is o's: o is the
\* primary while it is attached, and is remembered as it while it is away;
\* another display is only standing in, and none is remembered.
Roles(s, o) ==
  /\ \A i \in DOMAIN s.cls :
       /\ Base[s.cls[i].t] = o => s.cls[i].prim /\ ~s.cls[i].autop
       /\ Base[s.cls[i].t] # o /\ s.cls[i].prim => s.cls[i].autop
  /\ \A b \in Machine : s.slots[b] # None /\ s.slots[b].prim => b = o
  /\ \/ o = None
     \/ \E i \in DOMAIN s.cls : Base[s.cls[i].t] = o
     \/ s.slots[o] # None /\ s.slots[o].prim

RolesStay(s, n) ==
  /\ Twins(n) => Twins(s)
  /\ \A o \in Machine \cup {None} : Roles(s, o) => Roles(n, o)

\* Nothing happens to the displays but that one may go.
Still(s, n) == Stays(s, n) /\ RolesStay(s, n)
Calm(s, n)  == Follows(s, n) /\ RolesStay(s, n)

LEMMA CalmOn ==
  ASSUME NEW s \in Server, NEW n, NEW m,
         \/ Still(s, n) /\ Calm(n, m)
         \/ Calm(s, n) /\ Still(n, m)
  PROVE  Calm(s, m)
<1>1. \A t \in Attached(s) : Base[t] \in Machine
  <2>1. TAKE t \in Attached(s)
  <2>2. t \in Term
    BY Found
  <2>3. QED
    BY <2>2, HoldAssumption
<1>2. Follows(s, m)
  BY <1>1, FollowsOn DEF Still, Calm
<1>3. RolesStay(s, m)
  BY DEF Still, Calm, RolesStay
<1>4. QED
  BY <1>2, <1>3 DEF Calm

LEMMA StillOn ==
  ASSUME NEW s, NEW n, NEW m, Still(s, n), Still(n, m)
  PROVE  Still(s, m)
<1>1. Stays(s, m)
  BY StaysOn DEF Still
<1>2. RolesStay(s, m)
  BY DEF Still, RolesStay
<1>3. QED
  BY <1>1, <1>2 DEF Still

LEMMA StillCalm ==
  ASSUME NEW s, NEW n, Still(s, n)
  PROVE  Calm(s, n)
  BY DEF Still, Calm, Follows

LEMMA SameStill ==
  ASSUME NEW s \in Server, NEW n \in Server, Apart(s), Same(s, n)
  PROVE  Still(s, n)
<1>1. Stays(s, n)
  BY StayStays DEF Same, SlotsStay
<1>2. /\ DOMAIN n.cls = DOMAIN s.cls /\ n.slots = s.slots
      /\ \A i \in DOMAIN s.cls :
           /\ n.cls[i].t = s.cls[i].t /\ n.cls[i].prim = s.cls[i].prim
           /\ n.cls[i].autop = s.cls[i].autop
  BY DEF Same, Stay, Like, Acts
<1>3. Twins(n) => Twins(s)
  BY <1>2 DEF Twins
<1>4. ASSUME NEW o, Roles(s, o)
      PROVE  Roles(n, o)
  BY <1>2, <1>4 DEF Roles
<1>5. QED
  BY <1>1, <1>3, <1>4 DEF Still, RolesStay

LEMMA GoneCalm ==
  ASSUME NEW s \in Server, NEW n \in Server, Apart(s),
         NEW i \in DOMAIN s.cls, Gone(s, n, i)
  PROVE  Calm(s, n)
<1> DEFINE l == Len(s.cls)
           k(j) == IF j = i THEN l ELSE j
           b == Base[s.cls[i].t]
<1>1. l \in Nat /\ DOMAIN s.cls = 1 .. l /\ i \in 1 .. l /\ b \in Machine
  BY Numbered, Fields
<1>2. DOMAIN n.cls = 1 .. (l - 1)
  BY DEF Gone
<1>3. \A j \in 1 .. (l - 1) : /\ k(j) \in 1 .. l
                              /\ n.cls[j].t = s.cls[k(j)].t
                              /\ n.cls[j].prim = s.cls[k(j)].prim
                              /\ n.cls[j].autop = s.cls[k(j)].autop
  BY <1>1 DEF Gone, Like, Acts
<1>4. \A j, h \in 1 .. (l - 1) : k(j) = k(h) => j = h
  BY <1>1
<1>5. \A h \in 1 .. l : h # i => \E j \in 1 .. (l - 1) : k(j) = h
  <2>1. TAKE h \in 1 .. l
  <2>2. CASE h = l
    <3>1. h # i => i \in 1 .. (l - 1) /\ k(i) = h
      BY <1>1, <2>2
    <3>2. QED
      BY <3>1
  <2>3. CASE h # l
    <3>1. h # i => h \in 1 .. (l - 1) /\ k(h) = h
      BY <1>1, <2>3
    <3>2. QED
      BY <3>1
  <2>4. QED
    BY <2>2, <2>3
<1>6. /\ \A a \in Machine : a # b => n.slots[a] = s.slots[a]
      /\ n.slots[b] # None
      /\ n.slots[b].prim <=> s.cls[i].prim /\ ~s.cls[i].autop
  BY DEF Gone, Remembers
<1> HIDE DEF k, l, b
<1>7. Twins(n) => Twins(s)
  <2>1. ASSUME NEW j \in 1 .. (l - 1), NEW h \in 1 .. (l - 1),
               j # h, Base[n.cls[j].t] = Base[n.cls[h].t]
        PROVE  Twins(s)
    <3>1. k(j) # k(h) /\ Base[s.cls[k(j)].t] = Base[s.cls[k(h)].t]
      BY <2>1, <1>3, <1>4
    <3>2. k(j) \in DOMAIN s.cls /\ k(h) \in DOMAIN s.cls
      BY <1>1, <1>3
    <3>3. QED
      BY <3>1, <3>2 DEF Twins
  <2>2. QED
    BY <2>1, <1>2 DEF Twins
<1>8. ASSUME NEW o \in Machine \cup {None}, Roles(s, o)
      PROVE  Roles(n, o)
  <2>1. \A j \in DOMAIN n.cls :
          /\ Base[n.cls[j].t] = o => n.cls[j].prim /\ ~n.cls[j].autop
          /\ Base[n.cls[j].t] # o /\ n.cls[j].prim => n.cls[j].autop
    <3>1. TAKE j \in DOMAIN n.cls
    <3>2. j \in 1 .. (l - 1) /\ k(j) \in DOMAIN s.cls
      BY <1>1, <1>2, <1>3
    <3>3. /\ Base[s.cls[k(j)].t] = o => s.cls[k(j)].prim /\ ~s.cls[k(j)].autop
          /\ Base[s.cls[k(j)].t] # o /\ s.cls[k(j)].prim => s.cls[k(j)].autop
      BY <1>8, <3>2 DEF Roles
    <3>4. QED
      BY <3>2, <3>3, <1>3
  <2>2. /\ b = o => s.cls[i].prim /\ ~s.cls[i].autop
        /\ b # o /\ s.cls[i].prim => s.cls[i].autop
    BY <1>8 DEF Roles, b
  <2>3. ASSUME NEW a \in Machine, n.slots[a] # None /\ n.slots[a].prim
        PROVE  a = o
    <3>1. CASE a = b
      BY <3>1, <2>2, <2>3, <1>6
    <3>2. CASE a # b
      BY <3>2, <2>3, <1>6, <1>8 DEF Roles
    <3>3. QED
      BY <3>1, <3>2
  <2>4. \/ o = None
        \/ \E j \in DOMAIN n.cls : Base[n.cls[j].t] = o
        \/ n.slots[o] # None /\ n.slots[o].prim
    <3>1. CASE b = o
      BY <3>1, <2>2, <1>6
    <3>2. ASSUME b # o, NEW h \in DOMAIN s.cls, Base[s.cls[h].t] = o
          PROVE  \E j \in DOMAIN n.cls : Base[n.cls[j].t] = o
      <4>1. h # i /\ h \in 1 .. l
        BY <3>2, <1>1 DEF b
      <4>2. PICK j \in 1 .. (l - 1) : k(j) = h
        BY <4>1, <1>5
      <4>3. Base[n.cls[j].t] = o
        BY <4>2, <3>2, <1>3
      <4>4. QED
        BY <4>3, <1>2
    <3>3. ASSUME b # o, o # None, s.slots[o] # None /\ s.slots[o].prim
          PROVE  n.slots[o] # None /\ n.slots[o].prim
      BY <3>3, <1>6
    <3>4. \/ o = None
          \/ \E h \in DOMAIN s.cls : Base[s.cls[h].t] = o
          \/ s.slots[o] # None /\ s.slots[o].prim
      BY <1>8 DEF Roles
    <3>5. QED
      BY <3>1, <3>2, <3>3, <3>4
  <2>5. QED
    BY <2>1, <2>3, <2>4 DEF Roles
<1>9. RolesStay(s, n)
  BY <1>7, <1>8 DEF RolesStay
<1>10. Follows(s, n)
  BY GoneLoses DEF Follows
<1>11. QED
  BY <1>9, <1>10 DEF Calm

-----------------------------------------------------------------------------
(***************************************************************************)
(* What each of the server's operations does to them                       *)
(***************************************************************************)

LEMMA PokeStill ==
  ASSUME NEW s \in Server, Apart(s)
  PROVE  Still(s, Poke(s)) /\ Same(s, Poke(s))
<1>1. /\ Poke(s) \in Server /\ Poke(s).cls = s.cls /\ Poke(s).slots = s.slots
      /\ Poke(s).shift = s.shift
  BY DEF Poke, Server
<1>2. Same(s, Poke(s))
  BY <1>1 DEF Same, Stay, Like, Acts, Spot
<1>3. QED
  BY <1>1, <1>2, SameStill

LEMMA SentStill ==
  ASSUME NEW s \in Server, NEW D, Apart(s)
  PROVE  Still(s, Sent(s, D)) /\ Same(s, Sent(s, D))
<1> DEFINE new(i) == LET c == s.cls[i]
                     IN  IF c.t \in D /\ ~c.wait
                         THEN [c EXCEPT !.front = <<c.at, c.w>>] ELSE c
           q == [i \in DOMAIN s.cls |-> new(i)]
<1>1. \A i \in DOMAIN s.cls :
         /\ q[i].at = s.cls[i].at /\ q[i].t = s.cls[i].t
         /\ q[i].prim = s.cls[i].prim /\ q[i].autop = s.cls[i].autop
  <2>1. TAKE i \in DOMAIN s.cls
  <2>2. s.cls[i] \in Client
    BY Numbered
  <2>3. QED
    BY <2>2 DEF Client
<1>2. Sent(s, D) = [s EXCEPT !.cls = q]
  BY DEF Sent
<1>3. DOMAIN q = DOMAIN s.cls
  OBVIOUS
<1> HIDE DEF q
<1>4. /\ Sent(s, D).cls = q /\ Sent(s, D).slots = s.slots
      /\ Sent(s, D).shift = s.shift
  BY <1>2 DEF Server
<1>5. Same(s, Sent(s, D))
  BY <1>1, <1>3, <1>4 DEF Same, Stay, Like, Acts, Spot
<1>6. QED
  BY <1>5, SentGood, SameStill

\* A client that the origin's move shifts.
ShiftBy(c, m) == [c EXCEPT !.at = @ - m, !.front = NoFront]
LEMMA ShiftedClient ==
  ASSUME NEW c \in Client, NEW m \in Int
  PROVE  /\ ShiftBy(c, m).at = c.at - m /\ ShiftBy(c, m).t = c.t
         /\ ShiftBy(c, m).prim = c.prim /\ ShiftBy(c, m).autop = c.autop
  BY DEF Client, ShiftBy

LEMMA UnionStill ==
  ASSUME NEW s \in Server, Loose(s), Apart(s)
  PROVE  /\ Still(s, Union(s)) /\ Union(s).slots = s.slots
         /\ Same(s, Union(s))
         /\ PlacesFit(s) => Union(s).shift = s.shift
<1> DEFINE m == Lowest(s)
           n == Unorm(s)
           u == Union(s)
<1>1. m \in Int /\ m <= 0 /\ s.shift \in Int
  BY Edges DEF Server
<1>2. CASE s.cls = <<>>
  <2>1. u = s
    BY <1>2 DEF Union
  <2>2. Same(s, s)
    BY DEF Same, Stay, Like, Acts
  <2>3. QED
    BY <2>1, <2>2, SameStill
<1>3. CASE s.cls # <<>>
  <2>1. /\ Same(s, n) /\ n.slots = s.slots /\ (m = 0 => n.shift = s.shift)
        /\ n = [s EXCEPT !.cls = n.cls, !.shift = n.shift]
    <3>1. CASE m = 0
      <4>1. n = s
        BY <3>1 DEF Unorm
      <4>2. s = [s EXCEPT !.cls = s.cls, !.shift = s.shift]
        BY DEF Server
      <4>3. Same(s, s)
        BY DEF Same, Stay, Like, Acts
      <4>4. QED
        BY <4>1, <4>2, <4>3
    <3>2. CASE m # 0
      <4> DEFINE q == [i \in DOMAIN s.cls |-> ShiftBy(s.cls[i], m)]
      <4>2. n = [s EXCEPT !.cls = q, !.shift = s.shift - m]
        BY <3>2 DEF Unorm, ShiftBy
      <4> HIDE DEF m, n
      <4>1. \A i \in DOMAIN s.cls :
               /\ s.cls[i].at \in Int
               /\ q[i].at = s.cls[i].at - m /\ q[i].t = s.cls[i].t
               /\ q[i].prim = s.cls[i].prim /\ q[i].autop = s.cls[i].autop
        <5>1. TAKE i \in DOMAIN s.cls
        <5>2. s.cls[i] \in Client /\ s.cls[i].at \in Int
          BY Numbered, Fields
        <5>3. q[i] = ShiftBy(s.cls[i], m)
          OBVIOUS
        <5> HIDE DEF q
        <5>4. QED
          BY <1>1, <5>2, <5>3, ShiftedClient
      <4>3. DOMAIN q = DOMAIN s.cls
        OBVIOUS
      <4> HIDE DEF q
      <4>4. n.cls = q /\ n.slots = s.slots /\ n.shift = s.shift - m
        BY <4>2 DEF Server
      <4>5. \A i \in DOMAIN s.cls : Spot(n, i) = Spot(s, i)
        <5>1. TAKE i \in DOMAIN s.cls
        <5>2. n.cls[i].at = s.cls[i].at - m /\ s.cls[i].at \in Int
          BY <4>1, <4>4
        <5>3. QED
          BY <5>2, <4>4, <1>1 DEF Spot
      <4>6. n = [s EXCEPT !.cls = n.cls, !.shift = n.shift]
        BY <4>2, <4>4
      <4>7. QED
        BY <3>2, <4>1, <4>3, <4>4, <4>5, <4>6 DEF Same, Stay, Like, Acts
    <3>3. QED
      BY <3>1, <3>2
  <2>2. u = [n EXCEPT !.size = Ubox(n), !.told = s.told \/ Ubox(n) # s.size]
    BY <1>3 DEF Union
  <2>3. u.cls = n.cls /\ u.slots = n.slots /\ u.shift = n.shift
    <3> HIDE DEF n, u
    <3>1. n \in [cls: {n.cls}, slots: {s.slots}, shift: {n.shift}, gone: {s.gone},
                 size: {s.size}, told: {s.told}]
      BY <2>1 DEF Server
    <3>2. QED
      BY <2>2, <3>1
  <2>4. Same(s, u)
    BY <2>1, <2>3 DEF Same, Stay, Like, Acts, Spot
  <2>5. ASSUME PlacesFit(s)
        PROVE  m = 0
    <3>1. m \in {s.cls[i].at : i \in DOMAIN s.cls} \cup {0}
      <4>1. \E p \in {s.cls[i].at : i \in DOMAIN s.cls} \cup {0} :
              \A h \in {s.cls[i].at : i \in DOMAIN s.cls} \cup {0} : p <= h
        <5>1. \A h \in {s.cls[i].at : i \in DOMAIN s.cls} \cup {0} : 0 <= h
          BY <2>5 DEF PlacesFit
        <5>2. QED
          BY <5>1
      <4>2. QED
        BY <4>1 DEF Lowest
    <3>2. m >= 0
      BY <3>1, <2>5 DEF PlacesFit
    <3>3. QED
      BY <3>2, <1>1
  <2>6. u \in Server
    BY UnionGood
  <2>7. QED
    BY <2>1, <2>3, <2>4, <2>5, <2>6, SameStill
<1>4. QED
  BY <1>2, <1>3

LEMMA DropCalm ==
  ASSUME NEW s \in Server, NEW i \in DOMAIN s.cls, Apart(s)
  PROVE  /\ Calm(s, Drop(s, i)) /\ Gone(s, Drop(s, i), i)
<1> DEFINE n == Len(s.cls)
           c == s.cls[i]
           q == [j \in 1 .. (n - 1) |-> IF j = i THEN s.cls[n] ELSE s.cls[j]]
           keep == [at |-> c.at - s.shift, w |-> c.w, prim |-> c.prim /\ ~c.autop]
           d == Drop(s, i)
<1>1. c \in Client /\ Base[c.t] \in Machine /\ c.at - s.shift \in Int
  BY Numbered, Fields DEF Server
<1>2. keep \in Slot
  BY <1>1, Fields DEF Slot
<1>3. keep # None
  BY <1>2, HoldAssumption DEF Slot
<1>4. /\ d.cls = q /\ d.slots = [s.slots EXCEPT ![Base[c.t]] = keep]
      /\ d.shift = s.shift
  BY DEF Drop, SlotKeep, Server
<1>5. /\ d.slots[Base[c.t]] = keep
      /\ \A b \in Machine : b # Base[c.t] => d.slots[b] = s.slots[b]
  BY <1>1, <1>4 DEF Server
<1>6. /\ keep.at = Spot(s, i)
      /\ keep.prim <=> s.cls[i].prim /\ ~s.cls[i].autop
  BY DEF Spot
<1>7. /\ DOMAIN d.cls = 1 .. (n - 1)
      /\ \A j \in 1 .. (n - 1) : /\ j = i => d.cls[j] = s.cls[n]
                                 /\ j # i => d.cls[j] = s.cls[j]
  BY <1>4
<1> HIDE DEF d, q, keep
<1>8. \A j \in 1 .. (n - 1) :
        /\ j = i => Like(s, n, d, j) /\ Acts(s, n, d, j)
        /\ j # i => Like(s, j, d, j) /\ Acts(s, j, d, j)
  BY <1>4, <1>7 DEF Like, Acts, Spot
<1>9. Gone(s, d, i)
  BY <1>3, <1>5, <1>6, <1>7, <1>8 DEF Gone, Remembers
<1>10. d \in Server
  BY DropGood DEF d
<1>11. QED
  BY <1>9, <1>10, GoneCalm DEF d

LEMMA DrawCalm ==
  ASSUME NEW s \in Server, NEW D, NEW f, Apart(s)
  PROVE  /\ Calm(s, Draw(s, D, f))
         /\ f \notin D \cap Attached(s) \/ Of(s, f).wait
              => Draw(s, D, f) = Sent(s, D)
<1> DEFINE n == Sent(s, D)
<1>1. n \in Server /\ Still(s, n) /\ DOMAIN n.cls = DOMAIN s.cls
  BY SentGood, SentStill DEF Alike
<1>2. Apart(n)
  BY <1>1 DEF Still, Stays
<1>3. CASE f \in D \cap Attached(s) /\ ~Of(s, f).wait
  <2>1. At(s, f) \in DOMAIN n.cls
    BY <1>1, <1>3, Found
  <2>2. Draw(s, D, f) = Drop(n, At(s, f))
    BY <1>3 DEF Draw
  <2>3. Calm(n, Draw(s, D, f))
    BY <1>1, <1>2, <2>1, <2>2, DropCalm
  <2>4. QED
    BY <1>1, <1>3, <2>3, CalmOn
<1>4. CASE ~(f \in D \cap Attached(s) /\ ~Of(s, f).wait)
  <2>1. Draw(s, D, f) = n
    BY <1>4 DEF Draw
  <2>2. QED
    BY <1>1, <2>1, StillCalm
<1>5. QED
  BY <1>3, <1>4

\* A client that stays where it is, with its role, or that alone is moved.
LEMMA PutStill ==
  ASSUME NEW s \in Server, NEW i \in DOMAIN s.cls, NEW c \in Client,
         NEW d \in BOOLEAN, Apart(s), c.t = s.cls[i].t,
         c.prim = s.cls[i].prim, c.autop = s.cls[i].autop
  PROVE  LET n == With(s, i, c, d) IN
         /\ c.at = s.cls[i].at => Still(s, n)
         /\ n \in Server /\ Apart(n) /\ Attached(n) = Attached(s)
         /\ n.slots = s.slots /\ n.shift = s.shift /\ RolesStay(s, n)
         /\ \A t \in Attached(s) : t # c.t => PlaceOf(n, t) = PlaceOf(s, t)
         /\ PlaceOf(n, c.t) = c.at - s.shift
<1> DEFINE n == With(s, i, c, d)
<1>1. /\ n \in Server /\ n.slots = s.slots /\ n.shift = s.shift
      /\ DOMAIN n.cls = DOMAIN s.cls /\ n.cls[i] = c
      /\ \A j \in DOMAIN s.cls : j # i => n.cls[j] = s.cls[j]
  BY Put
<1> HIDE DEF n
<1>2. \A j \in DOMAIN s.cls : /\ n.cls[j].t = s.cls[j].t
                              /\ n.cls[j].prim = s.cls[j].prim
                              /\ n.cls[j].autop = s.cls[j].autop
                              /\ j # i => Spot(n, j) = Spot(s, j)
  BY <1>1 DEF Spot
<1>3. ASSUME c.at = s.cls[i].at
      PROVE  Still(s, n)
  <2>1. \A j \in DOMAIN s.cls : n.cls[j].at = s.cls[j].at
    BY <1>1, <1>3
  <2>2. Same(s, n)
    BY <1>1, <1>2, <2>1 DEF Same, Stay, Like, Acts, Spot
  <2>3. QED
    BY <1>1, <2>2, SameStill
<1>4. Apart(n) /\ Attached(n) = Attached(s)
  BY <1>1, <1>2 DEF Apart, Attached
<1>5. RolesStay(s, n)
  <2>1. Twins(n) => Twins(s)
    BY <1>1, <1>2 DEF Twins
  <2>2. ASSUME NEW o, Roles(s, o)
        PROVE  Roles(n, o)
    BY <1>1, <1>2, <2>2 DEF Roles
  <2>3. QED
    BY <2>1, <2>2 DEF RolesStay
<1>6. ASSUME NEW t \in Attached(s), t # c.t
      PROVE  PlaceOf(n, t) = PlaceOf(s, t)
  <2>1. PICK j \in DOMAIN s.cls : s.cls[j].t = t
    BY DEF Attached
  <2>2. j # i
    BY <1>6, <2>1
  <2>3. PlaceOf(s, t) = Spot(s, j)
    BY <2>1, PlaceIs
  <2>4. n.cls[j].t = t /\ j \in DOMAIN n.cls
    BY <2>1, <1>1, <1>2
  <2>5. PlaceOf(n, t) = Spot(n, j)
    BY <2>4, <1>1, <1>4, PlaceIs
  <2>6. QED
    BY <2>2, <2>3, <2>5, <1>2
<1>7. PlaceOf(n, c.t) = c.at - s.shift
  <2>1. i \in DOMAIN n.cls /\ n.cls[i].t = c.t
    BY <1>1
  <2>2. PlaceOf(n, c.t) = Spot(n, i)
    BY <2>1, <1>1, <1>4, PlaceIs
  <2>3. QED
    BY <2>2, <1>1 DEF Spot
<1>8. QED
  BY <1>1, <1>3, <1>4, <1>5, <1>6, <1>7 DEF n

\* A display stands in when nobody has the role, and the one it belongs to is
\* not attached then.
LEMMA StandInStill ==
  ASSUME NEW s \in Server, Apart(s), s.cls # <<>>, Primaries(s) = {}
  PROVE  Still(s, StandIn(s))
<1> DEFINE c == [s.cls[1] EXCEPT !.prim = TRUE, !.autop = TRUE]
           q == [s.cls EXCEPT ![1] = c]
           n == StandIn(s)
<1>1. 1 \in DOMAIN s.cls /\ s.cls[1] \in Client
  BY Numbered
<1>2. /\ c \in Client /\ c.at = s.cls[1].at /\ c.t = s.cls[1].t
      /\ c.prim /\ c.autop
  BY <1>1 DEF Client
<1>3. q \in Seq(Client) /\ DOMAIN q = DOMAIN s.cls
  <2>1. q \in [1 .. Len(s.cls) -> Client]
    BY <1>2, Numbered
  <2>2. QED
    BY <2>1, Numbered, AsSeq
<1>4. /\ q[1] = c
      /\ \A i \in DOMAIN s.cls : i # 1 => q[i] = s.cls[i]
  BY <1>1
<1>5. n = [s EXCEPT !.cls = q]
  BY DEF StandIn
<1> HIDE DEF q, n, c
<1>6. /\ n \in Server /\ n.cls = q /\ n.slots = s.slots /\ n.shift = s.shift
  BY ONLY <1>3, <1>5, s \in Server DEF Server
<1>7. \A i \in DOMAIN s.cls : q[i].at = s.cls[i].at /\ q[i].t = s.cls[i].t
  BY <1>2, <1>4
<1>8. Stays(s, n)
  <2>1. Stay(s, n) /\ SlotsStay(s, n)
    BY <1>3, <1>6, <1>7 DEF Stay, Like, Spot, SlotsStay
  <2>2. QED
    BY <2>1, <1>6, StayStays
<1>9. Twins(n) => Twins(s)
  BY <1>3, <1>6, <1>7 DEF Twins
<1>10. ASSUME NEW o, Roles(s, o)
       PROVE  Roles(n, o)
  <2>1. \A i \in DOMAIN s.cls : ~s.cls[i].prim
    BY DEF Primaries
  <2>2. \A i \in DOMAIN s.cls : Base[s.cls[i].t] # o
    BY <2>1, <1>10 DEF Roles
  <2>3. \A i \in DOMAIN s.cls : q[i].prim => q[i].autop
    BY <1>2, <1>4, <2>1
  <2>4. QED
    BY <1>3, <1>6, <1>7, <1>10, <2>2, <2>3 DEF Roles
<1>11. QED
  BY <1>8, <1>9, <1>10 DEF Still, RolesStay, n

\* HD_ATTACH and HD_MATTACH: the clients there are when one joins, when it is
\* given back its role and when it is the first to have it.
Back(s, b)  == /\ s.slots[b] # None /\ s.slots[b].prim
               /\ \E i \in Primaries(s) : s.cls[i].autop
First(s)    == Primaries(s) = {}
Joined(s, c, n) ==
  LET l == Len(s.cls)
      b == Base[c.t]
  IN  /\ n.slots = s.slots /\ n.shift = s.shift
      /\ DOMAIN n.cls = 1 .. (l + 1)
      /\ n.cls[l + 1].t = c.t /\ n.cls[l + 1].at = c.at
      /\ n.cls[l + 1].wait = c.wait
      /\ n.cls[l + 1].prim <=> Back(s, b) \/ First(s)
      /\ n.cls[l + 1].autop <=> First(s) /\ SlotPrim(s, b)
      /\ \A i \in 1 .. l :
           /\ n.cls[i].t = s.cls[i].t /\ n.cls[i].at = s.cls[i].at
           /\ IF Back(s, b) /\ s.cls[i].prim
              THEN ~n.cls[i].prim /\ ~n.cls[i].autop
              ELSE /\ n.cls[i].prim = s.cls[i].prim
                   /\ n.cls[i].autop = s.cls[i].autop

\* A display that gives the role back.
GivesBack(c) == [c EXCEPT !.prim = FALSE, !.autop = FALSE]
LEMMA GivenBack ==
  ASSUME NEW c \in Client
  PROVE  /\ GivesBack(c) \in Client /\ GivesBack(c).t = c.t
         /\ GivesBack(c).at = c.at
         /\ ~GivesBack(c).prim /\ ~GivesBack(c).autop
  BY DEF Client, GivesBack

LEMMA JoinShape ==
  ASSUME NEW s \in Server, NEW c \in Client
  PROVE  Joined(s, c, Join(s, c))
<1> DEFINE b == Base[c.t]
           new == [c EXCEPT !.prim = Back(s, b) \/ First(s),
                            !.autop = First(s) /\ SlotPrim(s, b)]
           old == [i \in DOMAIN s.cls |->
                     IF Back(s, b) /\ s.cls[i].prim
                     THEN GivesBack(s.cls[i])
                     ELSE s.cls[i]]
           q == Append(old, new)
           n == Join(s, c)
           l == Len(s.cls)
<1>1. l \in Nat /\ DOMAIN s.cls = 1 .. l
  BY Numbered
<1>2. n = [s EXCEPT !.cls = q, !.told = FALSE]
  BY DEF Join, Back, First, GivesBack
<1>3. /\ new.t = c.t /\ new.at = c.at /\ new.wait = c.wait
      /\ new.prim <=> Back(s, b) \/ First(s)
      /\ new.autop <=> First(s) /\ SlotPrim(s, b)
  <2> HIDE DEF b
  <2>1. QED
    BY DEF Client
<1>4. \A i \in 1 .. l :
        /\ old[i] \in Client
        /\ old[i].t = s.cls[i].t /\ old[i].at = s.cls[i].at
        /\ IF Back(s, b) /\ s.cls[i].prim
           THEN ~old[i].prim /\ ~old[i].autop
           ELSE old[i].prim = s.cls[i].prim /\ old[i].autop = s.cls[i].autop
  <2>1. TAKE i \in 1 .. l
  <2>2. s.cls[i] \in Client
    BY <1>1, Numbered
  <2>3. old[i] = IF Back(s, b) /\ s.cls[i].prim THEN GivesBack(s.cls[i])
                 ELSE s.cls[i]
    BY <1>1
  <2> HIDE DEF b, old
  <2>4. QED
    BY <2>2, <2>3, GivenBack
<1>5. Len(old) = l /\ old \in Seq(Client)
  <2>1. old \in [1 .. l -> Client]
    BY <1>1, <1>4
  <2>2. QED
    BY <1>1, <2>1, AsSeq
<1>6. new \in Client
  BY DEF Client
<1> HIDE DEF new, old, n, l, b
<1>7. /\ DOMAIN q = 1 .. (l + 1) /\ q[l + 1] = new
      /\ \A i \in 1 .. l : q[i] = old[i]
  BY <1>1, <1>5, <1>6
<1> HIDE DEF q
<1>8. n.cls = q /\ n.slots = s.slots /\ n.shift = s.shift
  BY <1>2 DEF Server
<1>9. QED
  BY <1>3, <1>4, <1>7, <1>8 DEF Joined, n, l, b

LEMMA JoinPlaces ==
  ASSUME NEW s \in Server, NEW c \in Client, NEW n \in Server, Apart(s),
         c.t \notin Attached(s), Joined(s, c, n)
  PROVE  /\ Apart(n) /\ Attached(n) = Attached(s) \cup {c.t}
         /\ \A t \in Attached(s) : PlaceOf(n, t) = PlaceOf(s, t)
         /\ PlaceOf(n, c.t) = c.at - s.shift /\ Of(n, c.t).wait = c.wait
<1> DEFINE l == Len(s.cls)
<1>1. l \in Nat /\ DOMAIN s.cls = 1 .. l
  BY Numbered
<1>2. /\ n.shift = s.shift /\ DOMAIN n.cls = 1 .. (l + 1)
      /\ n.cls[l + 1].t = c.t /\ n.cls[l + 1].at = c.at
      /\ n.cls[l + 1].wait = c.wait
      /\ \A i \in 1 .. l : n.cls[i].t = s.cls[i].t /\ n.cls[i].at = s.cls[i].at
  BY DEF Joined
<1> HIDE DEF l
<1>3. /\ \A i \in 1 .. (l + 1) : i \in 1 .. l \/ i = l + 1
      /\ \A i \in 1 .. l : i \in 1 .. (l + 1) /\ i # l + 1
      /\ l + 1 \in 1 .. (l + 1)
  BY <1>1
<1>4. \A i \in 1 .. l : s.cls[i].t \in Attached(s) /\ s.cls[i].t # c.t
  BY <1>1 DEF Attached
<1>5. Apart(n)
  <2>1. \A i, j \in 1 .. l : s.cls[i].t = s.cls[j].t => i = j
    BY <1>1 DEF Apart
  <2>2. QED
    BY <1>2, <1>3, <1>4, <2>1 DEF Apart
<1>6. Attached(n) = Attached(s) \cup {c.t}
  BY <1>1, <1>2, <1>3 DEF Attached
<1>7. ASSUME NEW t \in Attached(s)
      PROVE  PlaceOf(n, t) = PlaceOf(s, t)
  <2>1. PICK i \in 1 .. l : s.cls[i].t = t
    BY <1>1 DEF Attached
  <2>2. PlaceOf(s, t) = Spot(s, i)
    BY <2>1, <1>1, PlaceIs
  <2>3. i \in DOMAIN n.cls /\ n.cls[i].t = t
    BY <2>1, <1>2, <1>3
  <2>4. PlaceOf(n, t) = Spot(n, i)
    BY <2>3, <1>5, PlaceIs
  <2>5. QED
    BY <2>2, <2>4, <1>2 DEF Spot
<1>8. l + 1 \in DOMAIN n.cls
  BY <1>2, <1>3
<1>9. At(n, c.t) = l + 1 /\ PlaceOf(n, c.t) = Spot(n, l + 1)
  BY <1>2, <1>5, <1>8, PlaceIs
<1>10. PlaceOf(n, c.t) = c.at - s.shift /\ Of(n, c.t).wait = c.wait
  BY <1>2, <1>9 DEF Of, Spot
<1>11. QED
  BY <1>5, <1>6, <1>7, <1>10

\* Whose role it is when nobody else shares a name with the one that joins:
\* its own, if nobody has it and nobody is remembered.
Takes(s, b, o) == IF First(s) /\ ~SlotPrim(s, b) THEN b ELSE o
LEMMA JoinRoles ==
  ASSUME NEW s \in Server, NEW c \in Client, NEW n \in Server,
         Joined(s, c, n), NEW o \in Machine \cup {None}, Roles(s, o), ~Twins(n)
  PROVE  Roles(n, Takes(s, Base[c.t], o))
<1> DEFINE l == Len(s.cls)
           b == Base[c.t]
           r == Takes(s, b, o)
<1>1. l \in Nat /\ DOMAIN s.cls = 1 .. l /\ b \in Machine /\ b # None
  BY Numbered, Fields, HoldAssumption
<1>2. /\ n.slots = s.slots /\ DOMAIN n.cls = 1 .. (l + 1)
      /\ n.cls[l + 1].t = c.t
      /\ n.cls[l + 1].prim <=> Back(s, b) \/ First(s)
      /\ n.cls[l + 1].autop <=> First(s) /\ SlotPrim(s, b)
  BY DEF Joined
<1>3. \A i \in 1 .. l :
         /\ n.cls[i].t = s.cls[i].t
         /\ Back(s, b) /\ s.cls[i].prim => ~n.cls[i].prim /\ ~n.cls[i].autop
         /\ ~Back(s, b) => /\ n.cls[i].prim = s.cls[i].prim
                           /\ n.cls[i].autop = s.cls[i].autop
         /\ ~s.cls[i].prim => /\ n.cls[i].prim = s.cls[i].prim
                              /\ n.cls[i].autop = s.cls[i].autop
  BY DEF Joined
<1> HIDE DEF l
<1>4. /\ \A i \in 1 .. (l + 1) : i \in 1 .. l \/ i = l + 1
      /\ \A i \in 1 .. l : i \in 1 .. (l + 1) /\ i # l + 1
      /\ l + 1 \in 1 .. (l + 1)
  BY <1>1
<1>5. Base[n.cls[l + 1].t] = b
  BY <1>2
<1>6. \A i \in 1 .. l : Base[s.cls[i].t] # b
  BY <1>2, <1>3, <1>4, <1>5 DEF Twins
<1>7. /\ \A i \in 1 .. l :
           /\ Base[s.cls[i].t] = o => s.cls[i].prim /\ ~s.cls[i].autop
           /\ Base[s.cls[i].t] # o /\ s.cls[i].prim => s.cls[i].autop
      /\ \A a \in Machine : s.slots[a] # None /\ s.slots[a].prim => a = o
      /\ \/ o = None
         \/ \E i \in 1 .. l : Base[s.cls[i].t] = o
         \/ s.slots[o] # None /\ s.slots[o].prim
  BY <1>1 DEF Roles
<1>8. First(s) => ~Back(s, b) /\ \A i \in 1 .. l : ~s.cls[i].prim
  BY <1>1 DEF First, Back, Primaries
<1> HIDE DEF b
<1>9. CASE First(s) /\ ~SlotPrim(s, b)
  <2>1. r = b
    BY <1>9 DEF Takes
  <2>2. \A a \in Machine : n.slots[a] # None /\ n.slots[a].prim => a = b
    BY <1>2, <1>9 DEF SlotPrim
  <2>3. \A i \in 1 .. l : ~n.cls[i].prim /\ Base[n.cls[i].t] # b
    BY <1>3, <1>6, <1>8, <1>9
  <2>4. n.cls[l + 1].prim /\ ~n.cls[l + 1].autop
    BY <1>2, <1>9
  <2>5. Roles(n, b)
    BY <1>2, <1>4, <1>5, <2>2, <2>3, <2>4 DEF Roles
  <2>6. QED
    BY <2>1, <2>5 DEF b
<1>10. CASE First(s) /\ SlotPrim(s, b)
  <2>1. r = o
    BY <1>10 DEF Takes
  <2>2. o # b /\ s.slots[o] # None /\ s.slots[o].prim
    BY <1>7, <1>10 DEF SlotPrim
  <2>3. \A i \in 1 .. l :
           /\ Base[n.cls[i].t] = o => n.cls[i].prim /\ ~n.cls[i].autop
           /\ ~n.cls[i].prim
    BY <1>3, <1>7, <1>8, <1>10
  <2>4. n.cls[l + 1].autop
    BY <1>2, <1>10
  <2>5. Roles(n, o)
    BY <1>2, <1>4, <1>5, <1>7, <2>2, <2>3, <2>4 DEF Roles
  <2>6. QED
    BY <2>1, <2>5 DEF b
<1>11. CASE ~First(s)
  <2>1. r = o
    BY <1>11 DEF Takes
  <2>2. PICK p \in 1 .. l : s.cls[p].prim
    BY <1>1, <1>11 DEF First, Primaries
  <2>3. ~n.cls[l + 1].autop /\ (n.cls[l + 1].prim <=> Back(s, b))
    BY <1>2, <1>11
  <2>4. CASE Back(s, b)
    <3>1. b = o
      BY <2>4, <1>1, <1>7 DEF Back
    <3>2. \A i \in 1 .. l : ~n.cls[i].prim /\ Base[n.cls[i].t] # o
      BY <3>1, <2>4, <1>3, <1>6
    <3>3. Roles(n, o)
      BY <1>2, <1>4, <1>5, <1>7, <2>3, <2>4, <3>1, <3>2 DEF Roles
    <3>4. QED
      BY <3>3, <2>1 DEF b
  <2>5. CASE ~Back(s, b)
    <3>1. b # o
      <4>1. SUFFICES ASSUME b = o
                     PROVE  FALSE
        OBVIOUS
      <4>2. s.slots[b] # None /\ s.slots[b].prim
        BY <4>1, <1>1, <1>6, <1>7
      <4>3. p \in Primaries(s) /\ s.cls[p].autop
        BY <4>1, <2>2, <1>1, <1>6, <1>7 DEF Primaries
      <4>4. QED
        BY <4>2, <4>3, <2>5 DEF Back
    <3>2. \A i \in 1 .. l :
             /\ Base[n.cls[i].t] = o => n.cls[i].prim /\ ~n.cls[i].autop
             /\ Base[n.cls[i].t] # o /\ n.cls[i].prim => n.cls[i].autop
      BY <1>3, <1>7, <2>5
    <3>3. \/ o = None
          \/ \E i \in 1 .. (l + 1) : Base[n.cls[i].t] = o
          \/ n.slots[o] # None /\ n.slots[o].prim
      BY <1>2, <1>3, <1>4, <1>7
    <3>4. Roles(n, o)
      BY <1>2, <1>4, <1>5, <1>7, <2>3, <2>5, <3>1, <3>2, <3>3 DEF Roles
    <3>5. QED
      BY <3>4, <2>1 DEF b
  <2>6. QED
    BY <2>4, <2>5
<1>12. QED
  BY <1>9, <1>10, <1>11

-----------------------------------------------------------------------------
(***************************************************************************)
(* What the properties remember                                            *)
(***************************************************************************)

\* What is remembered of a display is where it was when it last went.
Whence(s, l) == \A b \in Machine : s.slots[b] # None => l[b] = s.slots[b].at
\* Unless it has been forgotten, the role is with the display it belongs to.
Kept(s, o) == o # Lost => ~Twins(s) /\ Roles(s, o)
\* No terminal is told a place off the screen.
OnTheScreen == \A t \in Term : plan[t] # None => plan[t].at >= 0

Memory ==
  /\ Apart(srv)
  /\ Kept(srv, owner)
  /\ Whence(srv, left)
  /\ OnTheScreen
  /\ pc # "draw" => did = Nothing
  /\ Returned
  /\ MoveMeans

\* What Anchored says of a step.
Anchor ==
  /\ Cardinality(Displaced) <= 1
  /\ Displaced # {} => pc = "accept" /\ did'.t \in Displaced

LEMMA WentIs ==
  ASSUME NEW s \in Server, NEW n \in Server, Follows(s, n), Whence(s, left)
  PROVE  /\ Whence(n, Went(s, n))
         /\ Attached(s) \subseteq Attached(n)
              => \A b \in Machine : n.slots[b] # None => Went(s, n)[b] = left[b]
<1>1. \A b \in Machine :
        ~(\E t \in Attached(s) \ Attached(n) : Base[t] = b)
          => Went(s, n)[b] = IF n.slots[b] = None THEN 0 ELSE left[b]
  BY DEF Went
<1>2. Attached(s) \subseteq Attached(n)
        => \A b \in Machine : n.slots[b] # None => Went(s, n)[b] = left[b]
  BY <1>1
<1>3. ASSUME Stays(s, n)
      PROVE  Whence(n, Went(s, n))
  <2>1. Attached(s) \subseteq Attached(n)
    BY <1>3 DEF Stays
  <2>2. QED
    BY <2>1, <1>2, <1>3 DEF Stays, SlotsStay, Whence
<1>4. ASSUME NEW t \in Attached(s), Loses(s, n, t)
      PROVE  Whence(n, Went(s, n))
  <2>1. Attached(s) \ Attached(n) = {t}
    BY <1>4 DEF Loses
  <2>2. t \in Term /\ Base[t] \in Machine
    BY Found, HoldAssumption
  <2>3. Went(s, n)[Base[t]] = PlaceOf(s, t)
    <3>1. (CHOOSE u \in {t} : Base[u] = Base[t]) = t
      OBVIOUS
    <3>2. \E u \in {t} : Base[u] = Base[t]
      OBVIOUS
    <3>3. QED
      BY <2>1, <2>2, <3>1, <3>2 DEF Went, PlaceOf
  <2>4. ASSUME NEW b \in Machine, b # Base[t], n.slots[b] # None
        PROVE  Went(s, n)[b] = n.slots[b].at
    <3>1. Went(s, n)[b] = left[b]
      BY <2>1, <2>4, <1>1
    <3>2. s.slots[b] # None /\ n.slots[b].at = s.slots[b].at
      BY <2>4, <1>4 DEF Loses
    <3>3. QED
      BY <3>1, <3>2 DEF Whence
  <2>5. n.slots[Base[t]] # None => n.slots[Base[t]].at = PlaceOf(s, t)
    BY <1>4 DEF Loses
  <2>6. QED
    BY <2>3, <2>4, <2>5 DEF Whence
<1>5. QED
  BY <1>2, <1>3, <1>4 DEF Follows

\* Nobody is moved by a step in which nothing happens but that one goes.
LEMMA NobodyMoves ==
  ASSUME Placed(srv, srv')
  PROVE  Displaced = {} /\ Anchor
<1>1. Displaced = {}
  BY DEF Displaced, Placed, PlaceOf
<1>2. Cardinality({}) = 0
  BY FS_EmptySet
<1>3. QED
  BY <1>1, <1>2 DEF Anchor

LEMMA FollowsPlaces ==
  ASSUME NEW s, NEW n, Follows(s, n)
  PROVE  Apart(n) /\ Placed(s, n)
  BY DEF Follows, Stays

LEMMA NotMoved ==
  ASSUME did' = Nothing
  PROVE  (pc # "draw" => did = Nothing)' /\ Returned' /\ MoveMeans'
  BY DEF Nothing, Returned, MoveMeans

\* The role, after a step to n, if it was o's.
LEMMA ThroughKept ==
  ASSUME NEW s \in Server, NEW n \in Server, NEW o \in Owner, Through(s, n, o),
         o # Lost /\ ~Twins(n) => Roles(n, o)
  PROVE  Kept(srv', owner')
<1>1. srv' = n /\ owner' = IF Twins(n) THEN Lost ELSE o
  BY DEF Through
<1>2. QED
  BY <1>1 DEF Kept

\* A step from the server to n in which nothing else happens.
LEMMA StepRemembers ==
  ASSUME Inv, Memory, NEW n \in Server, Step(n), Calm(srv, n), did' = Nothing
  PROVE  Memory' /\ Anchor
<1>1. /\ srv' = n /\ left' = Went(srv, n) /\ plan' = plan
      /\ Through(srv, n, owner)
  BY DEF Step, Through
<1>2. Apart(n) /\ Placed(srv, n) /\ Follows(srv, n)
  BY FollowsPlaces DEF Calm
<1>3. Whence(n, Went(srv, n))
  BY <1>2, WentIs, InvMeans DEF Memory
<1>4. Kept(srv', owner')
  <2>1. ASSUME owner # Lost
        PROVE  Roles(n, owner)
    <3>1. owner \in Machine \cup {None} /\ Roles(srv, owner)
      BY <2>1, InvMeans DEF Owner, Memory, Kept
    <3>2. QED
      BY <3>1 DEF Calm, RolesStay
  <2>2. QED
    BY <1>1, <2>1, ThroughKept, InvMeans
<1>5. Anchor
  BY <1>1, <1>2, NobodyMoves
<1>6. Apart(srv)' /\ Whence(srv, left)' /\ Kept(srv, owner)' /\ OnTheScreen'
  BY <1>1, <1>2, <1>3, <1>4 DEF OnTheScreen, Memory
<1>7. QED
  BY <1>5, <1>6, NotMoved DEF Memory

\* Nothing is being answered but in the phase that answers.
LEMMA Unasked ==
  ASSUME Memory, pc # "draw"
  PROVE  did = Nothing
  BY DEF Memory

-----------------------------------------------------------------------------
(***************************************************************************)
(* A pass, step by step, for what is remembered                            *)
(***************************************************************************)

LEMMA Apartness ==
  ASSUME NEW s, NEW n, Still(s, n)
  PROVE  Apart(n)
  BY DEF Still, Stays

LEMMA DueRemembers ==
  ASSUME Inv, Memory, NEW t \in Term, NEW f, Due(t, f)
  PROVE  Memory' /\ Anchor
<1> DEFINE i == At(srv, t)
           c == [srv.cls[i] EXCEPT !.wait = FALSE]
           s == [srv EXCEPT !.cls[i].wait = FALSE]
           n == Draw(Poke(s), {t}, f)
<1>1. t \in Attached(srv) /\ Step(n) /\ pc = "poll" /\ did' = did
  BY DEF Due
<1>2. i \in DOMAIN srv.cls /\ srv.cls[i] \in Client /\ srv \in Server
  BY <1>1, InvMeans, Found, Numbered
<1>3. /\ c \in Client /\ c.at = srv.cls[i].at /\ c.t = srv.cls[i].t
      /\ c.w = srv.cls[i].w /\ c.front = srv.cls[i].front
      /\ c.prim = srv.cls[i].prim /\ c.autop = srv.cls[i].autop
  BY <1>2 DEF Client
<1>4. s = With(srv, i, c, srv.told)
  BY <1>2 DEF Server, With
<1> HIDE DEF i, c, s
<1>5. s \in Server /\ Still(srv, s) /\ Good(s)
  BY <1>2, <1>3, <1>4, PutStill, PutAlike, InvMeans DEF Memory
<1>6. Poke(s) \in Server /\ Still(s, Poke(s)) /\ Good(Poke(s))
  BY <1>5, PokeGood, PokeStill, Apartness
<1>7. n \in Server /\ Calm(Poke(s), n)
  BY <1>6, DrawGood, DrawCalm, Apartness
<1> HIDE DEF n
<1>8. Calm(srv, n)
  BY <1>2, <1>5, <1>6, <1>7, StillOn, CalmOn
<1>9. did' = Nothing
  BY <1>1, Unasked
<1>10. QED
  BY <1>1, <1>7, <1>8, <1>9, StepRemembers

LEMMA PollRemembers ==
  ASSUME Inv, Memory, NEW f, Poll(f)
  PROVE  Memory' /\ Anchor
<1> DEFINE n == IF f \in Attached(srv) THEN Drop(srv, At(srv, f)) ELSE srv
<1>1. Step(n) /\ pc = "poll" /\ did' = did
  BY DEF Poll
<1>2. srv \in Server /\ Apart(srv)
  BY InvMeans DEF Memory
<1>3. n \in Server /\ Calm(srv, n)
  <2>1. CASE f \in Attached(srv)
    <3>1. At(srv, f) \in DOMAIN srv.cls
      BY <2>1, <1>2, Found
    <3>2. QED
      BY <2>1, <3>1, <1>2, DropGood, DropCalm
  <2>2. CASE f \notin Attached(srv)
    <3>1. Same(srv, srv)
      BY DEF Same, Stay, Like, Acts
    <3>2. QED
      BY <2>2, <3>1, <1>2, SameStill, StillCalm
  <2>3. QED
    BY <2>1, <2>2
<1> HIDE DEF n
<1>4. did' = Nothing
  BY <1>1, Unasked
<1>5. QED
  BY <1>1, <1>3, <1>4, StepRemembers

\* A message is read while nothing is being answered.
LEMMA ReadingUnasked ==
  ASSUME Inv, Memory, NEW t, Reading(t)
  PROVE  /\ did' = Nothing /\ srv \in Server /\ Apart(srv)
         /\ At(srv, t) \in DOMAIN srv.cls /\ srv.cls[At(srv, t)] \in Client
<1>1. pc = "clients" /\ did' = did
  BY DEF Reading
<1>2. QED
  BY <1>1, Unasked, ReadingMeans, InvMeans DEF Memory

LEMMA HangupRemembers ==
  ASSUME Inv, Memory, NEW t, Hangup(t)
  PROVE  Memory' /\ Anchor
<1>1. Reading(t) /\ Step(Drop(srv, At(srv, t)))
  BY DEF Hangup
<1>2. /\ did' = Nothing /\ srv \in Server /\ Apart(srv)
      /\ At(srv, t) \in DOMAIN srv.cls
  BY <1>1, ReadingUnasked
<1>3. Drop(srv, At(srv, t)) \in Server /\ Calm(srv, Drop(srv, At(srv, t)))
  BY <1>2, DropGood, DropCalm
<1>4. QED
  BY <1>1, <1>2, <1>3, StepRemembers

\* What is not touched is remembered.
LEMMA NothingRemembers ==
  ASSUME Inv, Memory, UNCHANGED <<srv, owner, left>>, OnTheScreen', did' = Nothing
  PROVE  Memory' /\ Anchor
<1>1. Placed(srv, srv')
  BY DEF Placed
<1>2. Apart(srv)' /\ Whence(srv, left)' /\ Kept(srv, owner)'
  BY DEF Memory
<1>3. QED
  BY <1>1, <1>2, NobodyMoves, NotMoved DEF Memory

LEMMA SkipRemembers ==
  ASSUME Inv, Memory, Skip
  PROVE  Memory' /\ Anchor
<1>1. UNCHANGED <<srv, owner, left>> /\ plan' = plan /\ did' = did /\ pc = "clients"
  BY DEF Skip
<1>2. did' = Nothing
  BY <1>1, Unasked
<1>3. OnTheScreen'
  BY <1>1 DEF OnTheScreen, Memory
<1>4. QED
  BY <1>1, <1>2, <1>3, NothingRemembers

LEMMA ResizeRemembers ==
  ASSUME Inv, Memory, NEW t, NEW w \in Widths, Resize(t, w)
  PROVE  Memory' /\ Anchor
<1> DEFINE i == At(srv, t)
           old == srv.cls[i]
           c == [old EXCEPT !.front = IF w = old.w THEN @ ELSE NoFront, !.w = w]
           s == [srv EXCEPT !.cls[i].front = IF w = srv.cls[i].w THEN @ ELSE NoFront,
                            !.cls[i].w = w]
<1>1. Reading(t) /\ Step(Union(s))
  BY DEF Resize
<1>2. /\ did' = Nothing /\ srv \in Server /\ Apart(srv)
      /\ i \in DOMAIN srv.cls /\ old \in Client
  BY <1>1, ReadingUnasked
<1>3. /\ c \in Client /\ c.at = old.at /\ c.prim = old.prim
      /\ c.t = old.t /\ c.autop = old.autop
      /\ c.front = NoFront \/ (c.front = old.front /\ c.w = old.w)
  BY <1>2 DEF Client
<1>4. s = With(srv, i, c, srv.told)
  BY <1>2 DEF Server, With
<1> HIDE DEF i, c, s
<1>5. s \in Server /\ Loose(s) /\ Still(srv, s)
  BY <1>2, <1>3, <1>4, PutLoose, PutStill, InvMeans
<1>6. Union(s) \in Server /\ Still(s, Union(s))
  BY <1>5, UnionGood, UnionStill, Apartness
<1>7. Calm(srv, Union(s))
  BY <1>5, <1>6, StillOn, StillCalm
<1>8. QED
  BY <1>1, <1>2, <1>6, <1>7, StepRemembers

LEMMA GfxRemembers ==
  ASSUME Inv, Memory, NEW t, NEW f, NEW changed \in BOOLEAN, Gfx(t, f, changed)
  PROVE  Memory' /\ Anchor
<1> DEFINE i == At(srv, t)
           c == [srv.cls[i] EXCEPT !.wait = FALSE]
           d == srv.told \/ changed
           s == [srv EXCEPT !.cls[i].wait = FALSE, !.told = @ \/ changed]
           n == IF srv.cls[i].wait THEN Draw(s, {t}, f) ELSE s
<1>1. Reading(t) /\ Step(n)
  BY DEF Gfx
<1>2. /\ did' = Nothing /\ srv \in Server /\ Apart(srv)
      /\ i \in DOMAIN srv.cls /\ srv.cls[i] \in Client
  BY <1>1, ReadingUnasked
<1>3. /\ c \in Client /\ c.at = srv.cls[i].at /\ c.t = srv.cls[i].t
      /\ c.w = srv.cls[i].w /\ c.front = srv.cls[i].front
      /\ c.prim = srv.cls[i].prim /\ c.autop = srv.cls[i].autop
  BY <1>2 DEF Client
<1>4. s = With(srv, i, c, d) /\ d \in BOOLEAN
  BY <1>2, InvMeans DEF Server, With
<1> HIDE DEF i, c, d, s
<1>5. s \in Server /\ Still(srv, s) /\ Good(s)
  BY <1>2, <1>3, <1>4, PutStill, PutAlike, InvMeans
<1>6. Draw(s, {t}, f) \in Server /\ Calm(s, Draw(s, {t}, f))
  BY <1>5, DrawGood, DrawCalm, Apartness
<1>7. n \in Server /\ Calm(srv, n)
  BY <1>2, <1>5, <1>6, CalmOn, StillCalm
<1> HIDE DEF n
<1>8. QED
  BY <1>1, <1>2, <1>7, StepRemembers

LEMMA DepthRemembers ==
  ASSUME Inv, Memory, NEW t, NEW f, Depth(t, f)
  PROVE  Memory' /\ Anchor
<1> DEFINE i == At(srv, t)
           c == [srv.cls[i] EXCEPT !.front = NoFront]
           s == [srv EXCEPT !.cls[i].front = NoFront]
           n == Draw(s, {t}, f)
<1>1. Reading(t) /\ Step(n)
  BY DEF Depth
<1>2. /\ did' = Nothing /\ srv \in Server /\ Apart(srv)
      /\ i \in DOMAIN srv.cls /\ srv.cls[i] \in Client
  BY <1>1, ReadingUnasked
<1>3. /\ c \in Client /\ c.at = srv.cls[i].at /\ c.t = srv.cls[i].t
      /\ c.w = srv.cls[i].w /\ c.front = NoFront
      /\ c.prim = srv.cls[i].prim /\ c.autop = srv.cls[i].autop
  BY <1>2 DEF Client
<1>4. s = With(srv, i, c, srv.told)
  BY <1>2 DEF Server, With
<1> HIDE DEF i, c, s
<1>5. s \in Server /\ Still(srv, s) /\ Good(s)
  BY <1>2, <1>3, <1>4, PutStill, PutAlike, InvMeans
<1>6. n \in Server /\ Calm(s, n)
  BY <1>5, DrawGood, DrawCalm, Apartness
<1> HIDE DEF n
<1>7. Calm(srv, n)
  BY <1>2, <1>5, <1>6, CalmOn
<1>8. QED
  BY <1>1, <1>2, <1>6, <1>7, StepRemembers

LEMMA SettleRemembers ==
  ASSUME Inv, Memory, Settle
  PROVE  Memory' /\ Anchor
<1> DEFINE s == [srv EXCEPT !.gone = FALSE]
           r == IF s.cls # <<>> /\ Primaries(s) = {} THEN StandIn(s) ELSE s
           D == IF Moved(r) THEN Term ELSE {}
           u == Sent(Union(r), D)
           n == IF srv.gone THEN Poke(u) ELSE srv
<1>1. Step(n) /\ pc = "clients" /\ did' = did
  BY DEF Settle
<1>2. /\ srv \in Server /\ Apart(srv) /\ OneRole(srv) /\ SlotsFit(srv)
      /\ FrontsTrue(srv)
  BY InvMeans DEF Loose, Memory
<1>3. /\ s \in Server /\ s.cls = srv.cls /\ s.slots = srv.slots
      /\ s.shift = srv.shift
  BY <1>2 DEF Server
<1> HIDE DEF s
<1>4. Primaries(s) = Primaries(srv)
  BY <1>3 DEF Primaries
<1>5. OneRole(s) /\ SlotsFit(s) /\ FrontsTrue(s)
  BY <1>2, <1>3, <1>4 DEF OneRole, SlotsFit, FrontsTrue
<1>6. Same(srv, s) /\ Same(srv, srv)
  BY <1>3 DEF Same, Stay, Like, Acts, Spot
<1>7. Still(srv, s) /\ Still(srv, srv)
  BY <1>2, <1>3, <1>6, SameStill
<1>8. r \in Server /\ Loose(r) /\ Still(srv, r)
  <2>1. CASE s.cls # <<>> /\ Primaries(s) = {}
    <3>1. StandIn(s) \in Server /\ Loose(StandIn(s)) /\ Still(s, StandIn(s))
      BY <2>1, <1>3, <1>5, <1>7, StandInGood, StandInStill, Apartness
    <3>2. QED
      BY <2>1, <3>1, <1>7, StillOn
  <2>2. CASE ~(s.cls # <<>> /\ Primaries(s) = {})
    BY <2>2, <1>3, <1>5, <1>7 DEF Loose, SomeRole
  <2>3. QED
    BY <2>1, <2>2
<1> HIDE DEF r, D
<1>9. Union(r) \in Server /\ Still(r, Union(r))
  BY <1>8, UnionGood, UnionStill, Apartness
<1>10. u \in Server /\ Still(Union(r), u)
  BY <1>9, SentGood, SentStill, Apartness
<1> HIDE DEF u
<1>11. Poke(u) \in Server /\ Still(u, Poke(u))
  BY <1>10, PokeGood, PokeStill, Apartness
<1>12. Still(srv, Poke(u))
  BY <1>8, <1>9, <1>10, <1>11, StillOn
<1>13. n \in Server /\ Calm(srv, n)
  BY <1>2, <1>7, <1>11, <1>12, StillCalm
<1> HIDE DEF n
<1>14. did' = Nothing
  BY <1>1, Unasked
<1>15. QED
  BY <1>1, <1>13, <1>14, StepRemembers

\* A request is answered while none was.
LEMMA AnsweringUnasked ==
  ASSUME Inv, Memory, Answering
  PROVE  pc = "accept" /\ did = Nothing /\ srv \in Server /\ Apart(srv)
<1>1. pc = "accept"
  BY DEF Answering
<1>2. QED
  BY <1>1, Unasked, InvMeans DEF Memory

\* A terminal is told a place that is on the screen.
LEMMA ToldRemembers ==
  ASSUME Inv, Memory, NEW t \in Term, NEW p, p.at >= 0, Told(t, p)
  PROVE  Memory' /\ Anchor
<1>1. /\ Answering /\ plan' = [plan EXCEPT ![t] = p]
      /\ UNCHANGED <<srv, did, owner, left>>
  BY DEF Told
<1>2. did' = Nothing
  BY <1>1, AnsweringUnasked
<1>3. OnTheScreen'
  <2>1. ASSUME NEW h \in Term, plan'[h] # None
        PROVE  plan'[h].at >= 0
    <3>1. CASE h = t
      BY <3>1, <1>1, InvMeans
    <3>2. CASE h # t
      BY <3>2, <2>1, <1>1, InvMeans DEF Memory, OnTheScreen
    <3>3. QED
      BY <3>1, <3>2
  <2>2. QED
    BY <2>1 DEF OnTheScreen
<1>4. QED
  BY <1>1, <1>2, <1>3, NothingRemembers

\* HD_SLOT answers with a place on the screen.
LEMMA PlaceOnTheScreen ==
  ASSUME Inv, NEW t \in Term, NEW at, at >= 0
  PROVE  Place(t, at) >= 0
<1> DEFINE sl == SlotAnswer(Base[t], srv)
<1>1. sl # None => sl = srv.slots[Base[t]]
  BY DEF SlotAnswer
<1>2. SlotsFit(srv) /\ Base[t] \in Machine
  BY InvMeans, HoldAssumption DEF Loose
<1>3. sl # None => sl.at + srv.shift >= 0
  BY <1>1, <1>2 DEF SlotsFit
<1>4. Place(t, at) = IF sl # None THEN sl.at + srv.shift ELSE at
  BY DEF Place
<1> HIDE DEF sl
<1>5. QED
  BY <1>3, <1>4

\* The width of the session is a place on the screen.
LEMMA UboxOnTheScreen ==
  ASSUME NEW s \in Server
  PROVE  Ubox(s) >= 0
<1> DEFINE e == [i \in 1 .. Len(s.cls) |-> s.cls[i].at + s.cls[i].w]
           E == {s.cls[i].at + s.cls[i].w : i \in DOMAIN s.cls} \cup {0}
<1>1. Len(s.cls) \in Nat /\ DOMAIN s.cls = 1 .. Len(s.cls)
  BY Numbered
<1>2. \A i \in 1 .. Len(s.cls) : s.cls[i].at \in Int /\ s.cls[i].w \in Nat
  BY Numbered, Fields
<1>3. e \in [1 .. Len(s.cls) -> Int]
  BY <1>2
<1>4. {e[i] : i \in 1 .. Len(s.cls)} \cup {0} = E
  BY <1>1
<1> HIDE DEF e, E
<1>5. \E m \in E : \A h \in E : h <= m
  <2>1. \E m \in {e[i] : i \in 1 .. Len(s.cls)} \cup {0} :
          \A h \in {e[i] : i \in 1 .. Len(s.cls)} \cup {0} : h <= m
    BY <1>1, <1>3, Greatest
  <2>2. QED
    BY <1>4, <2>1
<1>6. \A h \in E : h <= Ubox(s)
  BY <1>5 DEF Ubox, E
<1>7. 0 \in E
  BY DEF E
<1>8. QED
  BY <1>6, <1>7, Edges

\* HD_INFO, HD_CLIENTS and HD_SLOT move nobody.
LEMMA AskRemembers ==
  ASSUME Inv, Memory, NEW t \in Term, NEW w,
         AskWidth(t, w) \/ AskNames(t) \/ AskPlace(t) \/ AskTakeOver(t, w)
  PROVE  Memory' /\ Anchor
<1>1. \A asked : Knows(t, asked) => plan[t].at >= 0 /\ plan[t] \in Plan
  BY InvMeans DEF Knows, Memory, OnTheScreen
<1>2. CASE AskWidth(t, w)
  <2>1. Ubox(srv) >= 0
    BY InvMeans, UboxOnTheScreen
  <2>2. QED
    BY <1>2, <2>1, ToldRemembers DEF AskWidth
<1>3. CASE AskNames(t)
  <2> DEFINE p == [plan[t] EXCEPT !.k = FreeName(Base[t], srv), !.asked = "clients"]
  <2>1. Knows(t, "info") /\ Told(t, p)
    BY <1>3 DEF AskNames
  <2>2. p.at = plan[t].at
    BY <1>1, <2>1 DEF Plan
  <2> HIDE DEF p
  <2>3. QED
    BY <1>1, <2>1, <2>2, ToldRemembers
<1>4. CASE AskPlace(t)
  <2> DEFINE at == Place(t, plan[t].at)
             p == [plan[t] EXCEPT !.at = at, !.asked = "slot"]
  <2>1. Knows(t, "clients") /\ Told(t, p)
    BY <1>4 DEF AskPlace
  <2>2. at >= 0
    BY <1>1, <2>1, PlaceOnTheScreen
  <2>3. p.at = at
    BY <1>1, <2>1 DEF Plan
  <2> HIDE DEF p, at
  <2>4. QED
    BY <2>1, <2>2, <2>3, ToldRemembers
<1>5. CASE AskTakeOver(t, w)
  <2>1. Place(t, 0) >= 0
    BY PlaceOnTheScreen
  <2>2. QED
    BY <1>5, <2>1, ToldRemembers DEF AskTakeOver
<1>6. QED
  BY <1>2, <1>3, <1>4, <1>5

LEMMA SwitchOffRemembers ==
  ASSUME Inv, Memory, NEW t, SwitchOff(t)
  PROVE  Memory' /\ Anchor
<1> DEFINE i == At(srv, t)
           g == Drop(srv, i)
           d == Union(g)
           e == IF Of(srv, t).prim /\ d.cls # <<>> THEN StandIn(d) ELSE d
<1>1. Answering /\ Named(t) /\ Step(Poke(e)) /\ did' = did
  BY DEF SwitchOff
<1>2. i \in DOMAIN srv.cls /\ did' = Nothing /\ srv \in Server /\ Apart(srv)
  BY <1>1, NamedMeans, AnsweringUnasked
<1>3. /\ g \in Server /\ Loose(g) /\ Calm(srv, g)
      /\ Of(srv, t).prim => Primaries(g) = {}
  BY <1>2, InvMeans, DropGood, DropCalm DEF Good, Loose, Of
<1> HIDE DEF g, i
<1>4. Apart(g)
  BY <1>3, FollowsPlaces DEF Calm
<1>5. /\ d \in Server /\ Still(g, d) /\ Primaries(d) = Primaries(g)
  BY <1>3, <1>4, UnionGood, UnionStill
<1> HIDE DEF d
<1>6. e \in Server /\ Still(g, e)
  <2>1. CASE Of(srv, t).prim /\ d.cls # <<>>
    <3>1. Primaries(d) = {} /\ Apart(d)
      BY <2>1, <1>3, <1>5, Apartness
    <3>2. StandIn(d) \in Server
      <4>1. d.cls # <<>> /\ SlotsFit(d) /\ FrontsTrue(d)
        BY <2>1, <1>3, UnionGood DEF Good, Loose, d
      <4>2. QED
        BY <3>1, <4>1, <1>5, StandInGood
    <3>3. Still(d, StandIn(d))
      BY <2>1, <3>1, <1>5, StandInStill
    <3>4. QED
      BY <2>1, <3>2, <3>3, <1>5, StillOn
  <2>2. CASE ~(Of(srv, t).prim /\ d.cls # <<>>)
    BY <2>2, <1>5
  <2>3. QED
    BY <2>1, <2>2
<1> HIDE DEF e
<1>7. Poke(e) \in Server /\ Still(e, Poke(e))
  BY <1>6, PokeGood, PokeStill, Apartness
<1>8. Calm(srv, Poke(e))
  BY <1>2, <1>3, <1>6, <1>7, StillOn, CalmOn
<1>9. QED
  BY <1>1, <1>2, <1>7, <1>8, StepRemembers

LEMMA ColoursRemembers ==
  ASSUME Inv, Memory, Colours
  PROVE  Memory' /\ Anchor
<1> DEFINE q == [i \in DOMAIN srv.cls |-> [srv.cls[i] EXCEPT !.front = NoFront]]
           n == [srv EXCEPT !.cls = q]
<1>1. Answering /\ Step(n) /\ did' = did
  BY DEF Colours
<1>2. did' = Nothing /\ srv \in Server /\ Apart(srv)
  BY <1>1, AnsweringUnasked
<1>3. \A i \in DOMAIN srv.cls :
         /\ q[i] \in Client /\ q[i].at = srv.cls[i].at /\ q[i].t = srv.cls[i].t
         /\ q[i].prim = srv.cls[i].prim /\ q[i].autop = srv.cls[i].autop
  <2>1. TAKE i \in DOMAIN srv.cls
  <2>2. srv.cls[i] \in Client
    BY <1>2, Numbered
  <2>3. QED
    BY <2>2 DEF Client
<1>4. q \in Seq(Client) /\ DOMAIN q = DOMAIN srv.cls
  <2>1. q \in [1 .. Len(srv.cls) -> Client]
    BY <1>2, <1>3, Numbered
  <2>2. QED
    BY <2>1, <1>2, Numbered, AsSeq
<1> HIDE DEF q
<1>5. /\ n \in Server /\ n.cls = q /\ n.slots = srv.slots /\ n.shift = srv.shift
  BY ONLY <1>2, <1>4 DEF Server
<1> HIDE DEF n
<1>6. Same(srv, n)
  BY <1>3, <1>4, <1>5 DEF Same, Stay, Like, Acts, Spot
<1>7. Calm(srv, n)
  BY <1>2, <1>5, <1>6, SameStill, StillCalm
<1>8. QED
  BY <1>1, <1>2, <1>5, <1>7, StepRemembers

LEMMA QuietRemembers ==
  ASSUME Inv, Memory, Quiet
  PROVE  Memory' /\ Anchor
<1>1. Answering /\ UNCHANGED <<srv, plan, did, owner, left>>
  BY DEF Quiet
<1>2. did' = Nothing
  BY <1>1, AnsweringUnasked
<1>3. OnTheScreen'
  BY <1>1 DEF OnTheScreen, Memory
<1>4. QED
  BY <1>1, <1>2, <1>3, NothingRemembers

LEMMA RenderRemembers ==
  ASSUME Inv, Memory, Render
  PROVE  Memory' /\ Anchor
<1>1. PICK D \in {{}, Term}, f \in Fails : Step(Draw(srv, D, f))
  BY DEF Render
<1>2. did' = Nothing
  BY DEF Render
<1>3. Draw(srv, D, f) \in Server /\ Calm(srv, Draw(srv, D, f))
  BY InvMeans, DrawGood, DrawCalm DEF Memory
<1>4. QED
  BY <1>1, <1>2, <1>3, StepRemembers

\* A request that left the server at n, from s.
LEMMA ThroughRemembers ==
  ASSUME Inv, Memory, NEW s \in Server, NEW n \in Server, NEW o \in Owner,
         Through(s, n, o), Follows(s, n), Whence(s, left),
         o # Lost /\ ~Twins(n) => Roles(n, o), plan' = plan
  PROVE  /\ srv' = n /\ left' = Went(s, n)
         /\ did' = Nothing => Memory'
         /\ Returned' /\ MoveMeans' /\ pc' = "draw" => Memory'
<1>1. srv' = n /\ left' = Went(s, n)
  BY DEF Through
<1>2. Apart(srv)' /\ Whence(srv, left)' /\ Kept(srv, owner)'
  BY <1>1, FollowsPlaces, WentIs, ThroughKept
<1>3. OnTheScreen'
  BY DEF OnTheScreen, Memory
<1>4. QED
  BY <1>1, <1>2, <1>3, NotMoved DEF Memory

\* hd_cclear: nobody is left.
LEMMA ClearEmpties ==
  ASSUME NEW s \in Server, Loose(s)
  PROVE  LET n == Clear(s)
         IN  /\ n \in Server /\ n.slots = s.slots /\ n.shift = s.shift
             /\ n.cls = <<>> /\ DOMAIN n.cls = {} /\ Attached(n) = {}
             /\ Apart(n) /\ Follows(n, n)
<1> DEFINE n == Clear(s)
<1>1. n \in Server
  BY ClearGood
<1>2. n.cls = <<>> /\ n.slots = s.slots /\ n.shift = s.shift
  BY DEF Clear, Server
<1> HIDE DEF n
<1>3. DOMAIN n.cls = {}
  BY <1>2
<1>4. Attached(n) = {} /\ Apart(n)
  BY <1>3 DEF Attached, Apart
<1>5. Follows(n, n)
  BY <1>4 DEF Follows, Stays, Placed, SlotsStay
<1>6. QED
  BY <1>1, <1>2, <1>3, <1>4, <1>5 DEF n

\* What the role rests on.
LEMMA RolesSame ==
  ASSUME NEW s, NEW n, n.slots = s.slots, n.cls = s.cls, NEW o, Roles(s, o)
  PROVE  Roles(n, o)
  BY DEF Roles

LEMMA ClearedRemembers ==
  ASSUME Inv, Memory, NEW o \in Owner, Through(Clear(srv), Clear(srv), o),
         o # Lost => o = owner /\ srv.cls = <<>>, plan' = plan, did' = Nothing
  PROVE  Memory' /\ Anchor
<1> DEFINE n == Clear(srv)
<1>1. /\ n \in Server /\ n.slots = srv.slots /\ n.cls = <<>>
      /\ Attached(n) = {} /\ Follows(n, n)
  BY InvMeans, ClearEmpties
<1> HIDE DEF n
<1>2. Whence(n, left)
  BY <1>1 DEF Whence, Memory
<1>3. o # Lost => Roles(n, o)
  BY <1>1, RolesSame DEF Memory, Kept
<1>4. srv' = n /\ Memory'
  BY <1>1, <1>2, <1>3, ThroughRemembers DEF n
<1>5. Placed(srv, srv')
  BY <1>1, <1>4 DEF Placed
<1>6. QED
  BY <1>4, <1>5, NobodyMoves

LEMMA DetachAllRemembers ==
  ASSUME Inv, Memory, DetachAll
  PROVE  Memory' /\ Anchor
<1> DEFINE o == IF srv.cls = <<>> THEN owner ELSE Lost
<1>1. /\ Answering /\ plan' = plan /\ did' = did
      /\ Through(Clear(srv), Clear(srv), o)
  BY DEF DetachAll
<1>2. o \in Owner /\ (o # Lost => o = owner /\ srv.cls = <<>>)
  BY InvMeans DEF Owner
<1> HIDE DEF o
<1>3. did' = Nothing
  BY <1>1, AnsweringUnasked
<1>4. QED
  BY <1>1, <1>2, <1>3, ClearedRemembers

LEMMA EndRemembers ==
  ASSUME Inv, Memory, End
  PROVE  Memory' /\ Anchor
<1>1. /\ pc \in {"poll", "accept"} /\ plan' = plan /\ did' = did
      /\ Through(Clear(srv), Clear(srv), Lost)
  BY DEF End
<1>2. did' = Nothing /\ Lost \in Owner
  BY <1>1, Unasked DEF Owner
<1>3. QED
  BY <1>1, <1>2, ClearedRemembers

\* A client after an upgrade, and one that is the primary or not by choice.
Resumed(c) == [c EXCEPT !.autop = FALSE, !.wait = FALSE, !.front = NoFront]
Chosen(c, is) == [c EXCEPT !.prim = is, !.autop = FALSE]
LEMMA MadeAnew ==
  ASSUME NEW c \in Client, NEW is \in BOOLEAN
  PROVE  /\ Resumed(c) \in Client /\ Resumed(c).t = c.t /\ Resumed(c).at = c.at
         /\ Resumed(c).prim = c.prim /\ Resumed(c).front = NoFront
         /\ Chosen(c, is) \in Client /\ Chosen(c, is).t = c.t
         /\ Chosen(c, is).at = c.at /\ Chosen(c, is).prim = is
         /\ Chosen(c, is).autop = FALSE
  BY DEF Client, Resumed, Chosen

LEMMA UpgradeRemembers ==
  ASSUME Inv, Memory, NEW f, Upgrade(f)
  PROVE  Memory' /\ Anchor
<1> DEFINE q == [i \in DOMAIN srv.cls |-> Resumed(srv.cls[i])]
           z == [b \in Machine |-> None]
           s == [srv EXCEPT !.cls = q, !.slots = z]
           u == Union(s)
           d == Draw(u, Term, f)
<1>1. Through(u, d, Lost) /\ pc = "accept" /\ plan' = plan /\ did' = did
  BY DEF Upgrade, Resumed
<1>2. \A i \in DOMAIN srv.cls :
         /\ q[i] \in Client /\ q[i].prim = srv.cls[i].prim
         /\ q[i].front = NoFront
         /\ q[i].t = srv.cls[i].t /\ q[i].at = srv.cls[i].at
  <2>1. TAKE i \in DOMAIN srv.cls
  <2>2. srv.cls[i] \in Client
    BY InvMeans, Numbered
  <2>3. QED
    BY <2>2, MadeAnew
<1>3. q \in Seq(Client) /\ DOMAIN q = DOMAIN srv.cls
  <2>1. q \in [1 .. Len(srv.cls) -> Client]
    BY <1>2, InvMeans, Numbered
  <2>2. QED
    BY <2>1, InvMeans, Numbered, AsSeq
<1>4. srv \in Server /\ z \in [Machine -> Slot \cup {None}] /\ Apart(srv)
  BY InvMeans DEF Memory
<1>5. \A b \in Machine : z[b] = None
  OBVIOUS
<1> HIDE DEF q, z
<1>6. /\ s \in Server /\ s.cls = q /\ s.slots = z
      /\ s.shift = srv.shift /\ s.gone = srv.gone
  BY ONLY <1>3, <1>4 DEF Server
<1> HIDE DEF s
<1>7. /\ Primaries(s) = Primaries(srv)
      /\ s.cls = <<>> <=> srv.cls = <<>>
  BY <1>2, <1>3, <1>4, <1>6, Emptiness DEF Primaries
<1>8. Loose(s)
  <2>1. SlotsFit(s)
    BY <1>5, <1>6 DEF SlotsFit
  <2>2. FrontsTrue(s)
    BY <1>2, <1>3, <1>6 DEF FrontsTrue
  <2>3. OneRole(s) /\ SomeRole(s)
    BY <1>6, <1>7, InvMeans DEF Loose, OneRole, SomeRole
  <2>4. QED
    BY <2>1, <2>2, <2>3, <1>6 DEF Loose
<1>9. Stays(srv, s)
  <2>1. Stay(srv, s)
    BY <1>2, <1>3, <1>6 DEF Stay, Like, Spot
  <2>2. SlotsStay(srv, s)
    BY <1>5, <1>6 DEF SlotsStay
  <2>3. QED
    BY <2>1, <2>2, <1>4, <1>6, StayStays
<1>10. /\ u \in Server /\ Good(u) /\ Still(s, u) /\ u.slots = s.slots
  BY <1>6, <1>8, <1>9, UnionGood, UnionStill DEF Stays
<1> HIDE DEF u
<1>11. d \in Server /\ Calm(u, d)
  BY <1>10, DrawGood, DrawCalm, Apartness
<1> HIDE DEF d
<1>12. Whence(u, left)
  BY <1>5, <1>6, <1>10 DEF Whence
<1>13. did' = Nothing /\ Lost \in Owner
  BY <1>1, Unasked DEF Owner
<1>14. srv' = d /\ Memory'
  BY <1>1, <1>10, <1>11, <1>12, <1>13, ThroughRemembers DEF Calm
<1>15. Placed(srv, srv')
  <2>1. Placed(s, u) /\ Placed(srv, s) /\ Placed(u, d)
    BY <1>9, <1>10, <1>11, FollowsPlaces DEF Still, Stays, Calm
  <2>2. QED
    BY <2>1, <1>14 DEF Placed
<1>16. QED
  BY <1>14, <1>15, NobodyMoves

\* HD_PRIMARY: the role is that display's, and no one else's.
LEMMA ChooseRemembers ==
  ASSUME Inv, Memory, NEW t, Choose(t)
  PROVE  Memory' /\ Anchor
<1> DEFINE i == At(srv, t)
           b == Base[t]
           q == [j \in DOMAIN srv.cls |-> Chosen(srv.cls[j], j = i)]
           z == [a \in Machine |-> IF srv.slots[a] = None THEN None
                                   ELSE [srv.slots[a] EXCEPT !.prim = FALSE]]
           n == [srv EXCEPT !.cls = q, !.slots = z, !.told = FALSE]
<1>1. /\ Answering /\ Named(t) /\ Through(srv, Poke(n), b)
      /\ plan' = plan /\ did' = did
  BY DEF Choose, Chosen
<1>2. /\ srv \in Server /\ i \in DOMAIN srv.cls /\ Apart(srv)
      /\ t \in Term /\ b \in Owner /\ b \in Machine /\ did' = Nothing
      /\ srv.cls[i].t = t
  BY <1>1, InvMeans, NamedMeans, AnsweringUnasked, Found, HoldAssumption DEF Owner
<1>3. \A j \in DOMAIN srv.cls :
         /\ q[j] \in Client /\ q[j].at = srv.cls[j].at /\ q[j].t = srv.cls[j].t
         /\ q[j].prim = (j = i) /\ q[j].autop = FALSE
  <2>1. TAKE j \in DOMAIN srv.cls
  <2>2. srv.cls[j] \in Client /\ (j = i) \in BOOLEAN
    BY <1>2, Numbered
  <2> HIDE DEF i
  <2>3. QED
    BY <2>2, MadeAnew
<1>4. q \in Seq(Client) /\ DOMAIN q = DOMAIN srv.cls
  <2>1. q \in [1 .. Len(srv.cls) -> Client]
    BY <1>2, <1>3, Numbered
  <2>2. QED
    BY <2>1, <1>2, Numbered, AsSeq
<1>5. \A a \in Machine :
         /\ z[a] \in Slot \cup {None}
         /\ z[a] # None => /\ srv.slots[a] # None /\ z[a].at = srv.slots[a].at
                           /\ z[a].prim = FALSE
  <2>1. TAKE a \in Machine
  <2>2. srv.slots[a] \in Slot \cup {None}
    BY <1>2 DEF Server
  <2>3. QED
    BY <2>2 DEF Slot
<1>6. z \in [Machine -> Slot \cup {None}]
  BY <1>5
<1> HIDE DEF q, z, i, b
<1>7. n \in Server /\ n.cls = q /\ n.slots = z /\ n.shift = srv.shift
  BY ONLY <1>4, <1>6, <1>2 DEF Server
<1> HIDE DEF n
<1>8. Stays(srv, n)
  <2>1. Stay(srv, n)
    BY <1>3, <1>4, <1>7 DEF Stay, Like, Spot
  <2>2. SlotsStay(srv, n)
    BY <1>5, <1>7 DEF SlotsStay
  <2>3. QED
    BY <2>1, <2>2, <1>2, <1>7, StayStays
<1>9. Poke(n) \in Server /\ Still(n, Poke(n)) /\ Same(n, Poke(n))
  BY <1>7, <1>8, PokeGood, PokeStill DEF Stays
<1>10. Follows(srv, Poke(n))
  BY <1>8, <1>9, StaysOn DEF Still, Follows
<1>11. ASSUME ~Twins(Poke(n))
       PROVE  Roles(Poke(n), b)
  <2>1. ~Twins(n)
    BY <1>9, <1>11 DEF Same, Stay, Like, Twins
  <2>2. \A j \in DOMAIN n.cls : Base[n.cls[j].t] = b => j = i
    <3>1. i \in DOMAIN n.cls /\ Base[n.cls[i].t] = b
      BY <1>2, <1>3, <1>4, <1>7 DEF b
    <3>2. QED
      BY <3>1, <2>1 DEF Twins
  <2>3. \E j \in DOMAIN n.cls : Base[n.cls[j].t] = b
    BY <1>2, <1>3, <1>4, <1>7 DEF b
  <2>4. \A j \in DOMAIN n.cls :
          /\ Base[n.cls[j].t] = b => n.cls[j].prim /\ ~n.cls[j].autop
          /\ Base[n.cls[j].t] # b /\ n.cls[j].prim => n.cls[j].autop
    <3>1. TAKE j \in DOMAIN n.cls
    <3>2. n.cls[j].prim = (j = i) /\ n.cls[j].autop = FALSE
      BY <1>3, <1>4, <1>7
    <3>3. j = i => Base[n.cls[j].t] = b
      BY <1>2, <1>3, <1>4, <1>7 DEF b
    <3>4. QED
      BY <3>2, <3>3, <2>2
  <2>5. \A a \in Machine : ~(n.slots[a] # None /\ n.slots[a].prim)
    BY <1>5, <1>7
  <2>6. Roles(n, b)
    BY <2>3, <2>4, <2>5 DEF Roles
  <2>7. QED
    BY <2>6, <1>2, <1>9 DEF Still, RolesStay
<1>12. Whence(srv, left)
  BY DEF Memory
<1>13. srv' = Poke(n) /\ Memory'
  BY <1>1, <1>2, <1>9, <1>10, <1>11, <1>12, ThroughRemembers
<1>14. Placed(srv, srv')
  BY <1>10, <1>13, FollowsPlaces
<1>15. QED
  BY <1>13, <1>14, NobodyMoves

\* A display that has the role had it.
HadRole(s, n) ==
  \A j \in Primaries(n) : \E k \in Primaries(s) : s.cls[k].t = n.cls[j].t

LEMMA HadRoleOn ==
  ASSUME NEW s, NEW n, NEW m, HadRole(s, n), HadRole(n, m)
  PROVE  HadRole(s, m)
  BY DEF HadRole

LEMMA SameHad ==
  ASSUME NEW s, NEW n, Same(s, n)
  PROVE  HadRole(s, n)
  BY DEF Same, Stay, Like, Acts, HadRole, Primaries

LEMMA GoneHad ==
  ASSUME NEW s \in Server, NEW n, NEW i \in DOMAIN s.cls, Gone(s, n, i)
  PROVE  HadRole(s, n)
<1>1. Len(s.cls) \in Nat /\ DOMAIN s.cls = 1 .. Len(s.cls)
  BY Numbered
<1>2. ASSUME NEW j \in Primaries(n)
      PROVE  \E k \in Primaries(s) : s.cls[k].t = n.cls[j].t
  <2>1. j \in 1 .. (Len(s.cls) - 1) /\ n.cls[j].prim
    BY DEF Primaries, Gone
  <2>2. /\ j = i => Like(s, Len(s.cls), n, j) /\ Acts(s, Len(s.cls), n, j)
        /\ j # i => Like(s, j, n, j) /\ Acts(s, j, n, j)
    BY <2>1 DEF Gone
  <2>3. j \in DOMAIN s.cls /\ Len(s.cls) \in DOMAIN s.cls
    BY <2>1, <1>1
  <2>4. QED
    BY <2>1, <2>2, <2>3 DEF Like, Acts, Primaries
<1>3. QED
  BY <1>2 DEF HadRole

LEMMA DrawHad ==
  ASSUME NEW s \in Server, NEW D, NEW f, Apart(s)
  PROVE  HadRole(s, Draw(s, D, f))
<1> DEFINE n == Sent(s, D)
<1>1. n \in Server /\ Apart(n) /\ HadRole(s, n) /\ DOMAIN n.cls = DOMAIN s.cls
  BY SentGood, SentStill, SameHad, Apartness DEF Alike
<1>2. CASE f \in D \cap Attached(s) /\ ~Of(s, f).wait
  <2>1. At(s, f) \in DOMAIN n.cls
    BY <1>1, <1>2, Found
  <2>2. HadRole(n, Drop(n, At(s, f)))
    BY <1>1, <2>1, DropCalm, GoneHad
  <2>3. Draw(s, D, f) = Drop(n, At(s, f))
    BY <1>2 DEF Draw
  <2>4. QED
    BY <1>1, <2>2, <2>3, HadRoleOn
<1>3. CASE ~(f \in D \cap Attached(s) /\ ~Of(s, f).wait)
  <2>1. Draw(s, D, f) = n
    BY <1>3 DEF Draw
  <2>2. QED
    BY <1>1, <2>1
<1>4. QED
  BY <1>2, <1>3

\* One display is moved, by a request.
LEMMA OneMoves ==
  ASSUME NEW t, Displaced \subseteq {t}, pc = "accept", did'.t = t
  PROVE  Anchor
<1>1. Displaced = {} \/ Displaced = {t}
  OBVIOUS
<1>2. Cardinality({}) = 0 /\ Cardinality({t}) = 1
  BY FS_EmptySet, FS_Singleton
<1>3. QED
  BY <1>1, <1>2 DEF Anchor

LEMMA PutHad ==
  ASSUME NEW s \in Server, NEW i \in DOMAIN s.cls, NEW c \in Client,
         NEW d \in BOOLEAN, c.t = s.cls[i].t, c.prim = s.cls[i].prim
  PROVE  HadRole(s, With(s, i, c, d))
<1>1. /\ DOMAIN With(s, i, c, d).cls = DOMAIN s.cls
      /\ With(s, i, c, d).cls[i] = c
      /\ \A j \in DOMAIN s.cls : j # i => With(s, i, c, d).cls[j] = s.cls[j]
  BY Put
<1>2. QED
  BY <1>1 DEF HadRole, Primaries

LEMMA Apiece ==
  ASSUME NEW x \in Int, NEW y \in Int, NEW p \in Int, NEW off \in Int,
         NEW m \in Int, NEW k \in Int, NEW at, at = p + off,
         x - m = at - k, y - m = p - k
  PROVE  x = y + off
  OBVIOUS

\* HD_MOVE: that display is where it was asked to be, from the primary.
LEMMA MoveRemembers ==
  ASSUME Inv, Memory, NEW t, NEW off \in Offsets, NEW f, Move(t, off, f)
  PROVE  Memory' /\ Anchor
<1> DEFINE i == At(srv, t)
           from == IF Primaries(srv) = {} THEN 0
                   ELSE srv.cls[CHOOSE p \in Primaries(srv) : TRUE].at
           at == from + off
           c == [srv.cls[i] EXCEPT !.at = at, !.front = NoFront]
           s == [srv EXCEPT !.cls[i].at = at, !.cls[i].front = NoFront,
                            !.told = FALSE]
           u == Union(s)
           D == IF Moved(s) THEN Term ELSE {t}
           d == Draw(u, D, f)
           n == Poke(d)
<1>1. /\ Answering /\ Named(t) /\ Through(u, n, owner) /\ plan' = plan
      /\ did' = [op |-> IF srv.cls[i].prim THEN "moveprim" ELSE "move",
                 t |-> t, off |-> off, fresh |-> TRUE]
      /\ pc' = "draw"
  BY DEF Move, Answering
<1>2. /\ i \in DOMAIN srv.cls /\ srv.cls[i] \in Client /\ srv \in Server
      /\ srv.cls[i].t = t /\ Apart(srv) /\ pc = "accept"
      /\ srv.shift \in Int /\ off \in Int
  BY <1>1, InvMeans, NamedMeans, Found, AnsweringUnasked, HoldAssumption DEF Server
<1>3. from \in Int /\ \A k \in Primaries(srv) : from = srv.cls[k].at
  <2>1. ASSUME NEW k \in Primaries(srv)
        PROVE  from = srv.cls[k].at /\ srv.cls[k].at \in Int
    <3>1. (CHOOSE p \in Primaries(srv) : TRUE) \in Primaries(srv)
      OBVIOUS
    <3>2. (CHOOSE p \in Primaries(srv) : TRUE) = k
      BY <3>1, InvMeans DEF Loose, OneRole
    <3>3. k \in DOMAIN srv.cls
      BY DEF Primaries
    <3>4. QED
      BY <3>2, <3>3, <1>2, Numbered, Fields
  <2>2. QED
    BY <2>1
<1> HIDE DEF from
<1>4. at \in Int
  BY <1>2, <1>3
<1>5. /\ c \in Client /\ c.t = srv.cls[i].t /\ c.at = at
      /\ c.prim = srv.cls[i].prim /\ c.autop = srv.cls[i].autop
      /\ c.front = NoFront
  BY <1>2, <1>4 DEF Client
<1>6. s = With(srv, i, c, FALSE)
  BY <1>2 DEF Server, With
<1> HIDE DEF c, s, i, at
<1>7. s \in Server /\ Loose(s)
  BY <1>2, <1>5, <1>6, PutLoose, InvMeans
<1>8. /\ Apart(s) /\ Attached(s) = Attached(srv) /\ s.slots = srv.slots
      /\ RolesStay(srv, s)
      /\ \A h \in Attached(srv) : h # t => PlaceOf(s, h) = PlaceOf(srv, h)
      /\ PlaceOf(s, t) = at - srv.shift
  <2>1. srv \in Server /\ i \in DOMAIN srv.cls /\ c \in Client /\ FALSE \in BOOLEAN
    BY <1>2, <1>5
  <2>2. /\ Apart(srv) /\ c.t = srv.cls[i].t /\ c.prim = srv.cls[i].prim
        /\ c.autop = srv.cls[i].autop
    BY <1>2, <1>5
  <2>3. c.t = t /\ c.at = at
    BY <1>2, <1>5
  <2>4. QED
    BY ONLY <2>1, <2>2, <2>3, <1>6, PutStill
<1>9. HadRole(srv, s)
  <2>1. srv \in Server /\ i \in DOMAIN srv.cls /\ c \in Client /\ FALSE \in BOOLEAN
    BY <1>2, <1>5
  <2>2. c.t = srv.cls[i].t /\ c.prim = srv.cls[i].prim
    BY <1>5
  <2>3. QED
    BY ONLY <2>1, <2>2, <1>6, PutHad
<1>10. /\ u \in Server /\ Good(u) /\ Still(s, u) /\ u.slots = s.slots /\ Apart(u)
       /\ HadRole(s, u)
  BY <1>7, <1>8, UnionGood, UnionStill, Apartness, SameHad
<1> HIDE DEF u
<1>11. d \in Server /\ Calm(u, d) /\ Apart(d) /\ HadRole(u, d)
  BY <1>10, DrawGood, DrawCalm, DrawHad, FollowsPlaces DEF Calm
<1> HIDE DEF d, D
<1>12. n \in Server /\ Still(d, n) /\ HadRole(d, n)
  BY <1>11, PokeGood, PokeStill, SameHad
<1> HIDE DEF n
<1>13. Calm(u, n)
  BY <1>10, <1>11, <1>12, CalmOn
<1>14. Whence(u, left)
  BY <1>8, <1>10 DEF Whence, Memory
<1>15. ASSUME owner # Lost
       PROVE  Roles(n, owner)
  <2>1. owner \in Machine \cup {None} /\ Roles(srv, owner)
    BY <1>15, InvMeans DEF Owner, Memory, Kept
  <2>2. QED
    BY <2>1, <1>8, <1>10, <1>13 DEF RolesStay, Still, Calm
<1>16. /\ srv' = n
       /\ Returned' /\ MoveMeans' /\ pc' = "draw" => Memory'
  BY <1>1, <1>10, <1>12, <1>13, <1>14, <1>15, ThroughRemembers, InvMeans DEF Calm
<1>17. Apart(n) /\ Placed(s, n)
  <2>1. Placed(s, u) /\ Placed(u, n) /\ Apart(n)
    BY <1>10, <1>13, FollowsPlaces DEF Still, Stays, Calm
  <2>2. QED
    BY <2>1 DEF Placed
<1>18. Anchor
  <2>1. \A h \in Attached(srv) \cap Attached(n) :
           h # t => PlaceOf(n, h) = PlaceOf(srv, h)
    BY <1>8, <1>17 DEF Placed
  <2>2. Displaced \subseteq {t}
    BY <2>1, <1>16 DEF Displaced, PlaceOf
  <2>3. did'.t = t
    BY <1>1
  <2>4. QED
    BY <2>2, <2>3, <1>2, OneMoves
<1>19. MoveMeans'
  <2>1. SUFFICES ASSUME did'.op = "move", t \in Attached(n), Primaries(n) # {}
                 PROVE  Of(n, t).at
                          = n.cls[CHOOSE p \in Primaries(n) : TRUE].at + off
    BY <1>1, <1>16 DEF MoveMeans
  <2> DEFINE p == CHOOSE p \in Primaries(n) : TRUE
  <2>2. p \in Primaries(n)
    BY <2>1
  <2> HIDE DEF p
  <2>3. HadRole(srv, n)
    BY <1>9, <1>10, <1>11, <1>12, HadRoleOn
  <2>4. PICK k \in Primaries(srv) : srv.cls[k].t = n.cls[p].t
    BY <2>2, <2>3 DEF HadRole
  <2>5. ~srv.cls[i].prim
    BY <1>1, <2>1
  <2>6. k \in DOMAIN srv.cls /\ k # i /\ srv.cls[k].prim
    BY <2>4, <2>5 DEF Primaries
  <2>7. p \in DOMAIN n.cls /\ n.cls[p].t # t
    BY <2>2, <2>4, <2>6, <1>2 DEF Primaries, Apart
  <2>8. n.cls[p].t \in Attached(n) /\ PlaceOf(n, n.cls[p].t) = Spot(n, p)
    BY <2>7, <1>12, <1>17, PlaceIs
  <2>9. PlaceOf(srv, n.cls[p].t) = Spot(srv, k) /\ n.cls[p].t \in Attached(srv)
    BY <2>4, <2>6, <1>2, PlaceIs
  <2>10. Spot(n, p) = Spot(srv, k)
    BY <2>7, <2>8, <2>9, <1>8, <1>17 DEF Placed
  <2>11. Of(n, t).at - n.shift = at - srv.shift
    BY <2>1, <1>8, <1>17 DEF Placed, PlaceOf
  <2>12. n.cls[p].at - n.shift = from - srv.shift
    BY <2>10, <2>4, <1>3 DEF Spot
  <2>13. Of(n, t).at \in Int /\ n.cls[p].at \in Int /\ n.shift \in Int
    BY <2>1, <2>7, <1>12, Found, Numbered, Fields DEF Server
  <2>14. Of(n, t).at = n.cls[p].at + off
    <3>1. at = from + off
      BY DEF at
    <3>2. QED
      BY ONLY <3>1, <2>11, <2>12, <2>13, <1>2, <1>3, Apiece
  <2>15. QED
    BY <2>14 DEF p
<1>20. Returned'
  BY <1>1 DEF Returned
<1>21. QED
  BY <1>1, <1>16, <1>18, <1>19, <1>20

\* With nobody left of the corner the origin stays.
LEMMA UnionPlain ==
  ASSUME NEW s \in Server, PlacesFit(s)
  PROVE  /\ ~Moved(s)
         /\ Union(s).cls = s.cls /\ Union(s).slots = s.slots
         /\ Union(s).shift = s.shift
<1>1. Lowest(s) = 0
  <2>1. Lowest(s) \in {s.cls[i].at : i \in DOMAIN s.cls} \cup {0}
    <3>1. \A h \in {s.cls[i].at : i \in DOMAIN s.cls} \cup {0} : 0 <= h
      BY DEF PlacesFit
    <3>2. \E p \in {s.cls[i].at : i \in DOMAIN s.cls} \cup {0} :
            \A h \in {s.cls[i].at : i \in DOMAIN s.cls} \cup {0} : p <= h
      BY <3>1
    <3>3. QED
      BY <3>2 DEF Lowest
  <2>2. Lowest(s) >= 0
    BY <2>1 DEF PlacesFit
  <2>3. Lowest(s) \in Int /\ Lowest(s) <= 0
    BY Edges
  <2>4. QED
    BY <2>2, <2>3
<1>2. Unorm(s) = s
  BY <1>1 DEF Unorm
<1>3. CASE s.cls = <<>>
  BY <1>3 DEF Union, Moved
<1>4. CASE s.cls # <<>>
  <2>1. Union(s) = [s EXCEPT !.size = Ubox(s), !.told = s.told \/ Ubox(s) # s.size]
    BY <1>2, <1>4 DEF Union
  <2>2. QED
    BY <2>1, <1>1 DEF Moved, Server
<1>5. QED
  BY <1>3, <1>4

LEMMA SameTwins ==
  ASSUME NEW s, NEW n, Same(s, n), Twins(s)
  PROVE  Twins(n)
  BY DEF Same, Stay, Like, Twins

\* Everyone who was here is where he was after one has joined, who waits.
LEMMA JoinFits ==
  ASSUME NEW s \in Server, NEW c \in Client, NEW n \in Server,
         Joined(s, c, n), PlacesFit(s), c.at >= 0
  PROVE  PlacesFit(n)
<1> DEFINE l == Len(s.cls)
<1>1. l \in Nat /\ DOMAIN s.cls = 1 .. l
  BY Numbered
<1>2. /\ DOMAIN n.cls = 1 .. (l + 1) /\ n.cls[l + 1].at = c.at
      /\ \A i \in 1 .. l : n.cls[i].at = s.cls[i].at
  BY DEF Joined
<1> HIDE DEF l
<1>3. \A i \in 1 .. (l + 1) : i \in 1 .. l \/ i = l + 1
  BY <1>1
<1>4. QED
  BY <1>1, <1>2, <1>3 DEF PlacesFit

\* The new display is told to draw, waits, and so is sent nothing.
LEMMA JoinDrawn ==
  ASSUME NEW j \in Server, Loose(j), Apart(j), PlacesFit(j), NEW t \in Attached(j),
         Of(j, t).wait, NEW f
  PROVE  LET u == Union(j)
             n == Poke(Draw(u, IF Moved(j) THEN Term ELSE {t}, f))
         IN  /\ u \in Server /\ n \in Server
             /\ u.slots = j.slots /\ n.slots = j.slots
             /\ Still(u, n) /\ Still(j, n)
             /\ Twins(j) => Twins(n)
<1> DEFINE u == Union(j)
           d == Draw(u, {t}, f)
           n == Poke(d)
<1>1. /\ u \in Server /\ u.cls = j.cls /\ u.slots = j.slots /\ ~Moved(j)
      /\ Good(u) /\ Still(j, u) /\ Same(j, u) /\ Apart(u)
  BY UnionPlain, UnionGood, UnionStill, Apartness
<1>2. t \in Attached(u) /\ Of(u, t).wait
  BY <1>1 DEF Attached, Of, At
<1> HIDE DEF u
<1>3. d = Sent(u, {t})
  <2>1. f \notin {t} \cap Attached(u) \/ Of(u, f).wait
    BY <1>2
  <2>2. QED
    BY <2>1, <1>1, DrawCalm
<1>4. d \in Server /\ Still(u, d) /\ Same(u, d) /\ Apart(d)
  BY <1>1, <1>3, SentGood, SentStill, Apartness
<1> HIDE DEF d
<1>5. n \in Server /\ Still(d, n) /\ Same(d, n)
  BY <1>4, PokeGood, PokeStill
<1> HIDE DEF n
<1>6. Still(u, n) /\ Still(j, n)
  BY <1>1, <1>4, <1>5, StillOn
<1>7. Twins(j) => Twins(n)
  BY <1>1, <1>4, <1>5, SameTwins
<1>8. n.slots = j.slots
  BY <1>1, <1>4, <1>5 DEF Same
<1>9. QED
  BY <1>1, <1>5, <1>6, <1>7, <1>8 DEF n, d, u

LEMMA NoneDisplaced ==
  ASSUME Displaced = {}
  PROVE  Anchor
<1>1. Cardinality({}) = 0
  BY FS_EmptySet
<1>2. QED
  BY <1>1 DEF Anchor

\* What the answer to a terminal that asks where it was is of.
LEMMA AnswerIs ==
  ASSUME NEW s, NEW b, SlotAnswer(b, s) # None
  PROVE  SlotAnswer(b, s) = s.slots[b]
  BY DEF SlotAnswer

\* The server a joining terminal finds: as it is, or with nobody left.
LEMMA JoinsAt ==
  ASSUME Inv, Memory, NEW s, s = srv \/ s = Clear(srv)
  PROVE  /\ s \in Server /\ s.slots = srv.slots /\ s.shift = srv.shift
         /\ OneRole(s) /\ SlotsFit(s) /\ FrontsTrue(s)
         /\ Apart(s) /\ PlacesFit(s) /\ Attached(s) \subseteq Attached(srv)
         /\ \A h \in Attached(s) : PlaceOf(s, h) = PlaceOf(srv, h)
<1>1. CASE s = srv
  BY <1>1, InvMeans DEF Memory, Good, Loose
<1>2. CASE s = Clear(srv)
  <2>1. srv \in Server /\ Loose(srv)
    BY InvMeans
  <2>2. /\ s \in Server /\ s.slots = srv.slots /\ s.shift = srv.shift
        /\ DOMAIN s.cls = {} /\ Attached(s) = {} /\ Apart(s)
    BY <1>2, <2>1, ClearEmpties
  <2>3. Loose(s)
    BY <1>2, <2>1, ClearGood
  <2>4. PlacesFit(s)
    BY <2>2 DEF PlacesFit
  <2>5. QED
    BY <2>2, <2>3, <2>4 DEF Loose
<1>3. QED
  BY <1>1, <1>2

\* HD_ATTACH and HD_MATTACH: the display that joins is where it was when it
\* went, if it was told so and would still be, and nobody else is moved.
LEMMA AttachRemembers ==
  ASSUME Inv, Memory, NEW t \in Term, NEW f, Attach(t, f)
  PROVE  Memory' /\ Anchor
<1> DEFINE p == plan[t]
           b == Base[t]
           sl == SlotAnswer(b, srv)
           s == IF p.multi THEN srv ELSE Clear(srv)
           c == [t |-> t, k |-> p.k, at |-> p.at, w |-> p.w, prim |-> FALSE,
                 autop |-> FALSE, wait |-> TRUE, front |-> NoFront]
           j == Join(s, c)
           n == Poke(Draw(Union(j), IF Moved(j) THEN Term ELSE {t}, f))
           o == IF owner = Lost \/ (~p.multi /\ srv.cls # <<>>) THEN Lost
                ELSE IF Primaries(s) = {} /\ ~SlotPrim(s, Base[t]) THEN Base[t]
                ELSE owner
<1>1. /\ Answering /\ p # None /\ t \notin Attached(srv)
      /\ Through(Union(j), n, o)
      /\ plan' = [plan EXCEPT ![t] = None] /\ pc' = "draw"
      /\ did' = [op |-> "attach", t |-> t, off |-> 0,
                 fresh |-> sl # None /\ p.at = sl.at + srv.shift]
  BY DEF Attach, Knows, Answering
<1>2. p \in Plan /\ p.at >= 0 /\ p.at \in Int
  <2>1. p \in Plan
    BY <1>1, InvMeans
  <2>2. p.at >= 0
    BY <1>1 DEF Memory, OnTheScreen
  <2>3. QED
    BY <2>1, <2>2 DEF Plan
<1>3. /\ c \in Client /\ c.front = NoFront /\ ~c.prim /\ c.t = t
      /\ c.at = p.at /\ c.wait
  BY <1>2 DEF Plan, Client
<1>4. s = srv \/ s = Clear(srv)
  OBVIOUS
<1>5. /\ srv.cls = <<>> \/ p.multi => s.cls = srv.cls
      /\ o \in Owner
      /\ o # Lost => /\ owner \in Machine \cup {None} /\ owner # Lost
                     /\ srv.cls = <<>> \/ p.multi
                     /\ o = Takes(s, b, owner)
  <2>1. srv \in Server /\ owner \in Owner /\ Loose(srv) /\ b \in Machine
    BY InvMeans, HoldAssumption
  <2>2. srv.cls = <<>> \/ p.multi => s.cls = srv.cls
    BY <2>1, ClearEmpties
  <2>3. QED
    BY <2>1, <2>2 DEF Owner, Takes, First
<1>6. /\ s \in Server /\ s.slots = srv.slots /\ s.shift = srv.shift
      /\ OneRole(s) /\ SlotsFit(s) /\ FrontsTrue(s)
      /\ Apart(s) /\ PlacesFit(s) /\ Attached(s) \subseteq Attached(srv)
      /\ \A h \in Attached(s) : PlaceOf(s, h) = PlaceOf(srv, h)
  BY <1>4, JoinsAt
<1> HIDE DEF c, s, o, p
<1>7. j \in Server /\ Loose(j) /\ Joined(s, c, j)
  BY <1>3, <1>6, JoinLoose, JoinShape
<1> HIDE DEF j
<1>8. c.t \notin Attached(s)
  BY <1>1, <1>3, <1>6
<1>9. /\ Apart(j) /\ Attached(j) = Attached(s) \cup {t}
      /\ \A h \in Attached(s) : PlaceOf(j, h) = PlaceOf(s, h)
      /\ PlaceOf(j, t) = p.at - srv.shift /\ Of(j, t).wait
  <2>1. /\ Apart(j) /\ Attached(j) = Attached(s) \cup {c.t}
        /\ \A h \in Attached(s) : PlaceOf(j, h) = PlaceOf(s, h)
        /\ PlaceOf(j, c.t) = c.at - s.shift /\ Of(j, c.t).wait = c.wait
    BY <1>3, <1>6, <1>7, <1>8, JoinPlaces
  <2>2. QED
    BY <2>1, <1>3, <1>6
<1>10. PlacesFit(j)
  <2>1. c.at >= 0
    BY <1>2, <1>3
  <2>2. QED
    BY <2>1, <1>3, <1>6, <1>7, JoinFits
<1> DEFINE u == Union(j)
<1>11. /\ u \in Server /\ n \in Server
       /\ u.slots = j.slots /\ n.slots = j.slots
       /\ Still(u, n) /\ Still(j, n) /\ (Twins(j) => Twins(n))
  <2>1. t \in Attached(j)
    BY <1>9
  <2>2. QED
    BY <2>1, <1>7, <1>9, <1>10, JoinDrawn
<1>12. Through(u, n, o)
  BY <1>1
<1> HIDE DEF u, n
<1>13. u.slots = srv.slots /\ Whence(u, left)
  BY <1>6, <1>7, <1>11 DEF Joined, Whence, Memory
<1>14. Follows(u, n) /\ Attached(n) = Attached(u) /\ Apart(n)
       /\ Attached(n) = Attached(j) /\ Placed(j, n)
  BY <1>11 DEF Still, Stays, Follows
<1>15. /\ srv' = n /\ left' = Went(u, n)
  BY <1>12 DEF Through
<1>16. Whence(n, left')
       /\ \A a \in Machine : n.slots[a] # None => left'[a] = left[a]
  BY <1>11, <1>13, <1>14, <1>15, WentIs
<1>17. Kept(srv', owner')
  <2>1. ASSUME o # Lost, ~Twins(n)
        PROVE  Roles(n, o)
    <3>1. Roles(srv, owner) /\ s.cls = srv.cls /\ s.slots = srv.slots
      BY <2>1, <1>5, <1>6 DEF Memory, Kept
    <3>2. Roles(s, owner)
      BY <3>1, RolesSame
    <3>3. ~Twins(j) /\ owner \in Machine \cup {None}
      BY <2>1, <1>5, <1>11
    <3>4. Roles(j, Takes(s, Base[c.t], owner))
      BY <3>2, <3>3, <1>3, <1>6, <1>7, JoinRoles
    <3>5. Roles(j, o) /\ o \in Machine \cup {None}
      BY <3>4, <2>1, <1>3, <1>5 DEF Owner
    <3>6. QED
      BY <3>5, <1>11 DEF Still, RolesStay
  <2>2. QED
    BY <2>1, <1>5, <1>11, <1>12, ThroughKept
<1>18. OnTheScreen'
  BY <1>1 DEF OnTheScreen, Memory
<1>19. Returned'
  <2>1. SUFFICES ASSUME sl # None, p.at = sl.at + srv.shift
                 PROVE  Of(n, t).at - n.shift = left'[b]
    BY <1>1, <1>15 DEF Returned
  <2>2. sl = srv.slots[b] /\ b \in Machine
    BY <2>1, AnswerIs, HoldAssumption
  <2>3. left[b] = sl.at
    BY <2>1, <2>2 DEF Whence, Memory
  <2>4. sl.at \in Int /\ srv.shift \in Int
    BY <2>1, <2>2, InvMeans DEF Server, Slot
  <2>5. PlaceOf(n, t) = p.at - srv.shift
    BY <1>9, <1>14 DEF Placed
  <2>6. left'[b] = left[b]
    <3>1. n.slots[b] # None
      BY <2>1, <2>2, <1>11, <1>13
    <3>2. QED
      BY <3>1, <2>2, <1>16
  <2>7. QED
    BY <2>1, <2>3, <2>4, <2>5, <2>6 DEF PlaceOf
<1>20. MoveMeans'
  BY <1>1 DEF MoveMeans
<1>21. Displaced = {}
  <2>1. ASSUME NEW h \in Attached(srv) \cap Attached(n)
        PROVE  PlaceOf(n, h) = PlaceOf(srv, h)
    <3>1. h \in Attached(s)
      BY <1>1, <1>9, <1>14
    <3>2. QED
      BY <3>1, <1>6, <1>9, <1>14 DEF Placed
  <2>2. QED
    BY <2>1, <1>15 DEF Displaced, PlaceOf
<1>22. QED
  BY <1>1, <1>14, <1>15, <1>16, <1>17, <1>18, <1>19, <1>20, <1>21, NoneDisplaced
  DEF Memory

-----------------------------------------------------------------------------
(***************************************************************************)
(* Every run                                                               *)
(***************************************************************************)

LEMMA InitMemory == Init => Memory
<1> SUFFICES ASSUME Init
             PROVE  Memory
  OBVIOUS
<1>1. srv.cls = <<>> /\ DOMAIN <<>> = {}
  BY DEF Init
<1>2. /\ \A b \in Machine : srv.slots[b] = None
      /\ \A t \in Term : plan[t] = None
      /\ did = Nothing /\ owner = None
  BY DEF Init
<1>3. Apart(srv) /\ ~Twins(srv) /\ Roles(srv, owner)
  BY <1>1, <1>2 DEF Apart, Twins, Roles
<1>4. did.op = "none"
  BY <1>2 DEF Nothing
<1>5. QED
  BY <1>2, <1>3, <1>4 DEF Memory, Kept, Whence, OnTheScreen, Returned, MoveMeans

LEMMA ReadRemembers ==
  ASSUME Inv, Memory, Read
  PROVE  Memory' /\ Anchor
<1>1. ASSUME NEW t \in Term, Hangup(t)
      PROVE  Memory' /\ Anchor
  BY <1>1, HangupRemembers
<1>2. ASSUME NEW t \in Term, NEW w \in Widths, Resize(t, w)
      PROVE  Memory' /\ Anchor
  BY <1>2, ResizeRemembers
<1>3. ASSUME NEW t \in Term, NEW f \in {t, None}, Depth(t, f)
      PROVE  Memory' /\ Anchor
  BY <1>3, DepthRemembers
<1>4. ASSUME NEW t \in Term, NEW f \in {t, None}, NEW c \in BOOLEAN, Gfx(t, f, c)
      PROVE  Memory' /\ Anchor
  BY <1>4, GfxRemembers
<1>5. QED
  BY <1>1, <1>2, <1>3, <1>4, SkipRemembers DEF Read

LEMMA AcceptRemembers ==
  ASSUME Inv, Memory, Accept
  PROVE  Memory' /\ Anchor
<1>1. ASSUME NEW t \in Term, NEW w,
             AskWidth(t, w) \/ AskNames(t) \/ AskPlace(t) \/ AskTakeOver(t, w)
      PROVE  Memory' /\ Anchor
  BY <1>1, AskRemembers
<1>2. ASSUME NEW t \in Term, NEW f \in Fails, Attach(t, f)
      PROVE  Memory' /\ Anchor
  BY <1>2, AttachRemembers
<1>3. ASSUME NEW t \in Term, NEW f \in Fails, NEW off \in Offsets, Move(t, off, f)
      PROVE  Memory' /\ Anchor
  BY <1>3, MoveRemembers
<1>4. ASSUME NEW t \in Term, SwitchOff(t)
      PROVE  Memory' /\ Anchor
  BY <1>4, SwitchOffRemembers
<1>5. ASSUME NEW t \in Term, Choose(t)
      PROVE  Memory' /\ Anchor
  BY <1>5, ChooseRemembers
<1>6. ASSUME NEW f \in Fails, Upgrade(f)
      PROVE  Memory' /\ Anchor
  BY <1>6, UpgradeRemembers
<1>7. QED
  BY <1>1, <1>2, <1>3, <1>4, <1>5, <1>6, DetachAllRemembers, ColoursRemembers,
     QuietRemembers
     DEF Accept

LEMMA NextRemembers ==
  ASSUME Inv, Memory, [Next]_vars
  PROVE  Memory' /\ Anchor
<1>1. ASSUME NEW t \in Term, Wait(t)
      PROVE  Memory' /\ Anchor
  BY <1>1, DueRemembers DEF Wait
<1>2. ASSUME Polled
      PROVE  Memory' /\ Anchor
  BY <1>2, PollRemembers DEF Polled
<1>3. ASSUME UNCHANGED vars
      PROVE  Memory' /\ Anchor
  <2>1. Memory'
    BY <1>3 DEF vars, Memory, OnTheScreen, Returned, MoveMeans
  <2>2. Placed(srv, srv')
    BY <1>3 DEF vars, Placed
  <2>3. QED
    BY <2>1, <2>2, NobodyMoves
<1>4. ASSUME Ended
      PROVE  Memory' /\ Anchor
  BY <1>3, <1>4 DEF Ended
<1>5. QED
  BY <1>1, <1>2, <1>3, <1>4, ReadRemembers, SettleRemembers, AcceptRemembers,
     RenderRemembers, EndRemembers
     DEF Next

LEMMA AlwaysMemory == Spec => []Memory
<1>1. Inv /\ Memory /\ [Next]_vars => Memory'
  BY NextRemembers
<1>2. QED
  BY <1>1, InitMemory, AlwaysInv, PTL DEF Spec

\* The role of the primary stays with the display it belongs to through any
\* number of departures, returns and stand-ins: while that one is attached it
\* is the primary, and while it is away the primary only stands in for it
\* (hd_conn, hd_slotkeep, hd_slotprim, hd_loop's gone block).
THEOREM RoleKeptCorrect == Spec => []RoleKept
<1>1. Inv /\ Memory => RoleKept
  <2>1. SUFFICES ASSUME Inv, Memory, owner # Lost, NEW i \in Primaries(srv)
                 PROVE  IF \E c \in DOMAIN srv.cls : Base[srv.cls[c].t] = owner
                        THEN Base[srv.cls[i].t] = owner
                        ELSE srv.cls[i].autop
    BY DEF RoleKept
  <2>2. Roles(srv, owner) /\ OneRole(srv) /\ i \in DOMAIN srv.cls /\ srv.cls[i].prim
    BY <2>1, InvMeans DEF Memory, Kept, Loose, Primaries
  <2>3. ASSUME NEW c \in DOMAIN srv.cls, Base[srv.cls[c].t] = owner
        PROVE  c = i
    BY <2>2, <2>3 DEF Roles, OneRole, Primaries
  <2>4. QED
    BY <2>2, <2>3 DEF Roles
<1>2. QED
  BY <1>1, AlwaysInv, AlwaysMemory, PTL

\* A display that joins with the place it was told, while that is still what it
\* would be told, is where it was when it last went, however far the origin was
\* moved meanwhile (hd_slotkeep, HD_SLOT, HD_ATTACH and HD_MATTACH in hd_conn).
THEOREM ReturnedCorrect == Spec => []Returned
<1>1. Memory => Returned
  BY DEF Memory
<1>2. QED
  BY <1>1, AlwaysMemory, PTL

\* A display that was moved is where it was asked to be, counted from the
\* primary, whatever the union did to the origin afterwards (HD_MOVE in
\* hd_conn, hd_union).
THEOREM MoveMeansCorrect == Spec => []MoveMeans
<1>1. Memory => MoveMeans
  BY DEF Memory
<1>2. QED
  BY <1>1, AlwaysMemory, PTL

\* No step moves a display against the others or the program's content but a
\* request, and that one only the display it names (hd_unorm, hd_cdrop,
\* hd_resume).
THEOREM AnchoredCorrect == Spec => Anchored
<1>1. Inv /\ Memory /\ [Next]_vars
        => [/\ Cardinality(Displaced) <= 1
            /\ Displaced # {} => pc = "accept" /\ did'.t \in Displaced]_vars
  BY NextRemembers DEF Anchor
<1>2. QED
  BY <1>1, AlwaysInv, AlwaysMemory, PTL DEF Spec, Anchored
=============================================================================
