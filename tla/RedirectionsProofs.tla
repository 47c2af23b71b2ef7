------------------------ MODULE RedirectionsProofs ------------------------
(* Theorems about Redirections, for every limit on descriptors, every      *)
(* nesting and every set of files.                                         *)
EXTENDS Redirections, WellFoundedInduction, TLAPS

Content == File \cup {Closed}

-----------------------------------------------------------------------------
(* What the operators on a table return. *)

\* A set of descriptors that is not empty has a lowest one.
LEMMA LowestExists ==
  ASSUME NEW S \in SUBSET Nat, S # {}
  PROVE  \E k \in S : \A h \in S : k <= h
<1>1. PICK k \in S : \A h \in S : ~(<<h, k>> \in OpToRel(<, Nat))
  BY NatLessThanWellFounded, WFMin
<1>2. \A h \in S : ~(h < k)
  BY <1>1 DEF OpToRel
<1>3. QED
  BY <1>2

\* open, dup and F_DUPFD answer a free descriptor or none.
LEMMA LowestFree ==
  ASSUME NEW n, NEW t \in Table
  PROVE  \/ LowestFrom(n, t) = NoFd
         \/ /\ LowestFrom(n, t) \in Fd /\ t[LowestFrom(n, t)] = Closed
            /\ \A d \in Fd : d >= n /\ d < LowestFrom(n, t) => t[d] # Closed
<1> DEFINE free == {d \in Fd : d >= n /\ t[d] = Closed}
<1>1. LowestFrom(n, t) =
        IF free = {} THEN NoFd ELSE CHOOSE d \in free : \A x \in free : d <= x
  BY DEF LowestFrom
<1>2. free \in SUBSET Nat /\ \A d \in free : d \in Fd /\ t[d] = Closed
  BY RedirectionsAssumption DEF Fd
<1> HIDE DEF free
<1>3. free # {} => \E d \in free : \A x \in free : d <= x
  BY <1>2, LowestExists
<1>4. \A d \in Fd : d >= n /\ t[d] = Closed => d \in free
  BY DEF free
<1>5. free \in SUBSET Fd /\ \A d, h \in Fd : d < h => ~(h <= d)
  BY <1>2, RedirectionsAssumption DEF Fd
<1>6. QED
  BY <1>1, <1>2, <1>3, <1>4, <1>5

\* No descriptor is none.
LEMMA NoFdApart == NoFd \notin Fd /\ {0, 1, 2} \subseteq Fd /\ Closed \in Content
  BY RedirectionsAssumption DEF NoFd, Fd, Content

\* The copy rd_save makes was free, and is apart from what it copies.
LEMMA CopyFree ==
  ASSUME NEW t \in Table, NEW d \in Fd
  PROVE  /\ Entry(t, d) \in Save /\ Entry(t, d).fd = d
         /\ Entry(t, d).copy = Copy(t, d)
         /\ Copy(t, d) # NoFd => /\ Copy(t, d) \in Fd /\ Copy(t, d) # d
                                 /\ t[Copy(t, d)] = Closed /\ t[d] # Closed
         /\ Copy(t, d) = NoFd /\ ~Full(t, d) => t[d] = Closed
<1>1. \/ Copy(t, d) = NoFd
      \/ /\ Copy(t, d) \in Fd /\ t[Copy(t, d)] = Closed
         /\ t[d] # Closed /\ Copy(t, d) = Lowest(t)
  BY LowestFree DEF Copy, Lowest
<1>2. Copy(t, d) = NoFd /\ ~Full(t, d) => t[d] = Closed
  BY DEF Copy, Full
<1>3. Entry(t, d) \in Save /\ Entry(t, d).fd = d /\ Entry(t, d).copy = Copy(t, d)
  BY <1>1 DEF Entry, Save
<1>4. QED
  BY <1>1, <1>2, <1>3, NoFdApart

\* Saving keeps a table a table, and every descriptor but the copy.
LEMMA SavedTable ==
  ASSUME NEW t \in Table, NEW d \in Fd
  PROVE  /\ Saved(t, d) \in Table
         /\ \A q \in Fd : Saved(t, d)[q] = IF q = Copy(t, d) THEN t[d] ELSE t[q]
<1>1. CASE Copy(t, d) = NoFd
  BY <1>1, NoFdApart DEF Saved
<1>2. CASE Copy(t, d) # NoFd
  <2>1. t[d] \in File \cup {Closed} /\ Copy(t, d) \in Fd
    BY <1>2, CopyFree DEF Table
  <2>2. Saved(t, d) = [t EXCEPT ![Copy(t, d)] = t[d]]
    BY <1>2 DEF Saved
  <2>3. QED
    BY <2>1, <2>2 DEF Table
<1>3. QED
  BY <1>1, <1>2

\* Undoing a redirection of d, made on a saved table and whatever it put
\* there, is coming back to the table before.  b is the table before, o the
\* one rd_save looked at: they differ by the file just opened on l.
LEMMA BackSaved ==
  ASSUME NEW o \in Table, NEW d \in Fd, ~Full(o, d),
         NEW b \in Table, NEW t \in Table, b[d] = o[d],
         \A q \in Fd : q # d => t[q] = IF q = Copy(o, d) THEN o[d] ELSE b[q],
         \A q \in Fd : q = Copy(o, d) => b[q] = Closed
  PROVE  Back(Entry(o, d), t) = b
<1> DEFINE c == Copy(o, d)
<1>1. CASE c = NoFd
  <2>1. Back(Entry(o, d), t) = [t EXCEPT ![d] = Closed]
    BY <1>1, CopyFree DEF Back
  <2>2. o[d] = Closed
    BY <1>1, CopyFree
  <2>3. \A q \in Fd : q # d => t[q] = b[q]
    BY <1>1, NoFdApart
  <2>4. QED
    BY <2>1, <2>2, <2>3 DEF Table
<1>2. CASE c # NoFd
  <2>1. c \in Fd /\ c # d /\ o[d] # Closed
    BY <1>2, CopyFree
  <2>2. t[c] = o[d] /\ b[c] = Closed
    BY <2>1
  <2>3. Back(Entry(o, d), t) = [t EXCEPT ![d] = t[c], ![c] = Closed]
    BY <1>2, <2>1, <2>2, CopyFree DEF Back
  <2> HIDE DEF c
  <2>4. \A q \in Fd : q # d /\ q # c => t[q] = b[q]
    BY DEF c
  <2>5. QED
    BY <2>1, <2>2, <2>3, <2>4 DEF Table
<1>3. QED
  BY <1>1, <1>2
-----------------------------------------------------------------------------
(* Chains: saves s, the tables p to come back to, the table t they lead    *)
(* from and the table b they lead to.                                      *)

Level(s, p, t, i) == IF i = Len(s) THEN t ELSE p[i + 1]
SavedIn(s, i, j, d) == \E k \in i..j : s[k].fd = d

Shape(s, p, t, b) ==
  /\ s \in Seq(Save) /\ p \in Seq(Table) /\ Len(p) = Len(s)
  /\ t \in Table /\ b \in Table

Linked(s, p, t, b) ==
  /\ \A i \in DOMAIN s : Back(s[i], Level(s, p, t, i)) = p[i]
  /\ Level(s, p, t, 0) = b

Kept(s, p, t) ==
  \A i \in DOMAIN s : \A j \in i..Len(s) :
     \/ s[i].copy = NoFd
     \/ SavedIn(s, i + 1, j, s[i].copy)
     \/ Level(s, p, t, j)[s[i].copy] # Closed

Chain(s, p, t, b) == Shape(s, p, t, b) /\ Linked(s, p, t, b) /\ Kept(s, p, t)

\* The invariants say that there is a chain from fds to plain.
LEMMA ChainMeaning ==
  /\ TypeOK => Shape(saves, past, fds, plain)
  /\ Unwinds <=> (Clean => Linked(saves, past, fds, plain))
  /\ Held <=> (Clean => Kept(saves, past, fds))
  BY DEF TypeOK, Shape, Unwinds, Linked, Held, Kept, Above, Level, SavedIn

\* What a chain says of one save.
LEMMA ChainAt ==
  ASSUME NEW s, NEW p, NEW t, NEW b, Chain(s, p, t, b), NEW i \in 1..Len(s)
  PROVE  /\ s[i] \in Save /\ p[i] \in Table
         /\ Back(s[i], Level(s, p, t, i)) = p[i]
         /\ \A j \in i..Len(s) : s[i].copy # NoFd =>
              \/ SavedIn(s, i + 1, j, s[i].copy)
              \/ Level(s, p, t, j)[s[i].copy] # Closed
<1>1. s \in Seq(Save) /\ p \in Seq(Table) /\ Len(p) = Len(s) /\ i \in DOMAIN s
  BY DEF Chain, Shape
<1>2. s[i] \in Save /\ p[i] \in Table
  BY <1>1
<1>3. QED
  BY <1>1, <1>2 DEF Chain, Linked, Kept

\* A save put on a chain, if undoing it leads back.
LEMMA Push ==
  ASSUME NEW s, NEW p, NEW t, NEW b, Chain(s, p, t, b),
         NEW e \in Save, NEW u \in Table, Back(e, u) = t,
         \A q \in Fd : q # e.fd /\ t[q] # Closed => u[q] # Closed,
         e.copy # NoFd => u[e.copy] # Closed
  PROVE  /\ Chain(Append(s, e), Append(p, t), u, b)
         /\ Len(Append(s, e)) = Len(s) + 1
<1> DEFINE n == Len(s)
           s2 == Append(s, e)
           p2 == Append(p, t)
<1>1. /\ s \in Seq(Save) /\ p \in Seq(Table) /\ Len(p) = n /\ t \in Table
      /\ b \in Table /\ n \in Nat /\ DOMAIN s = 1..n
  BY DEF Chain, Shape
<1>2. /\ s2 \in Seq(Save) /\ p2 \in Seq(Table) /\ Len(s2) = n + 1
      /\ Len(p2) = n + 1 /\ DOMAIN s2 = 1..(n + 1)
      /\ s2[n + 1] = e /\ p2[n + 1] = t
      /\ \A i \in 1..n : s2[i] = s[i] /\ p2[i] = p[i]
  BY <1>1
<1> HIDE DEF n, s2, p2
<1>3. /\ Level(s2, p2, u, n + 1) = u
      /\ \A i \in 0..n : Level(s2, p2, u, i) = Level(s, p, t, i)
  <2>1. Level(s2, p2, u, n + 1) = u
    BY <1>2 DEF Level
  <2>2. Level(s2, p2, u, n) = t /\ Level(s, p, t, n) = t
    BY <1>1, <1>2 DEF Level, n
  <2>3. \A i \in 0..n - 1 : Level(s2, p2, u, i) = Level(s, p, t, i)
    BY <1>1, <1>2 DEF Level, n
  <2>4. QED
    BY <1>1, <2>1, <2>2, <2>3
<1>4. Linked(s2, p2, u, b)
  <2>1. \A i \in 1..n : Back(s2[i], Level(s2, p2, u, i)) = p2[i]
    BY <1>1, <1>2, <1>3 DEF Chain, Linked
  <2>2. Back(s2[n + 1], Level(s2, p2, u, n + 1)) = p2[n + 1]
    BY <1>2, <1>3
  <2>3. Level(s2, p2, u, 0) = b
    BY <1>1, <1>3 DEF Chain, Linked
  <2>4. QED
    BY <1>1, <1>2, <2>1, <2>2, <2>3 DEF Linked
<1>5. Kept(s2, p2, u)
  <2> SUFFICES ASSUME NEW i \in 1..(n + 1), NEW j \in i..(n + 1),
                      s2[i].copy # NoFd, ~SavedIn(s2, i + 1, j, s2[i].copy)
               PROVE  Level(s2, p2, u, j)[s2[i].copy] # Closed
    BY <1>2 DEF Kept
  <2>1. CASE i = n + 1
    BY <1>1, <1>2, <1>3, <2>1
  <2>2. CASE i \in 1..n /\ j \in i..n
    <3>1. ~SavedIn(s, i + 1, j, s[i].copy)
      BY <1>1, <1>2, <2>2 DEF SavedIn
    <3>2. Level(s, p, t, j)[s[i].copy] # Closed
      BY <1>1, <1>2, <2>2, <3>1 DEF Chain, Kept, n
    <3>3. QED
      BY <1>1, <1>2, <1>3, <2>2, <3>2
  <2>3. CASE i \in 1..n /\ j = n + 1
    <3>1. ~SavedIn(s, i + 1, n, s[i].copy) /\ s[i].copy # e.fd
      BY <1>1, <1>2, <2>3 DEF SavedIn
    <3>2. Level(s, p, t, n)[s[i].copy] # Closed
      <4>1. n \in i..n /\ s[i].copy # NoFd
        BY <1>1, <1>2, <2>3
      <4>2. QED
        BY <2>3, <3>1, <4>1, ChainAt DEF n
    <3>3. t[s[i].copy] # Closed
      BY <1>1, <3>2 DEF Level, n
    <3>4. s[i].copy \in Fd
      <4>1. s[i].copy \in Fd \cup {NoFd} /\ s[i].copy = s2[i].copy
        BY <1>2, <2>3, ChainAt DEF Save, n
      <4>2. QED
        BY <4>1
    <3>5. QED
      BY <1>2, <1>3, <2>3, <3>1, <3>3, <3>4
  <2>4. QED
    BY <1>1, <2>1, <2>2, <2>3
<1>6. QED
  BY <1>1, <1>2, <1>4, <1>5 DEF Chain, Shape, n, s2, p2

\* Undoing the last save of a chain takes it off.
LEMMA Pop ==
  ASSUME NEW s, NEW p, NEW t, NEW b, Chain(s, p, t, b), Len(s) > 0
  PROVE  Chain(SubSeq(s, 1, Len(s) - 1), SubSeq(p, 1, Len(p) - 1), Back(s[Len(s)], t), b)
<1> DEFINE n == Len(s)
           s2 == SubSeq(s, 1, n - 1)
           p2 == SubSeq(p, 1, n - 1)
           u == Back(s[n], t)
<1>1. /\ s \in Seq(Save) /\ p \in Seq(Table) /\ Len(p) = n /\ t \in Table
      /\ b \in Table /\ n \in Nat \ {0} /\ DOMAIN s = 1..n
  BY DEF Chain, Shape
<1>2. u = p[n] /\ u \in Table
  BY <1>1 DEF Chain, Linked, Level
<1>3. /\ s2 \in Seq(Save) /\ p2 \in Seq(Table) /\ Len(s2) = n - 1
      /\ Len(p2) = n - 1 /\ DOMAIN s2 = 1..(n - 1)
      /\ \A i \in 1..(n - 1) : s2[i] = s[i] /\ p2[i] = p[i]
  BY <1>1
<1> HIDE DEF n, s2, p2, u
<1>4. \A i \in 0..n - 1 : Level(s2, p2, u, i) = Level(s, p, t, i)
  <2>1. Level(s2, p2, u, n - 1) = p[n] /\ Level(s, p, t, n - 1) = p[n]
    BY <1>1, <1>2, <1>3 DEF Level, n
  <2>2. \A i \in 0..n - 2 : Level(s2, p2, u, i) = Level(s, p, t, i)
    BY <1>1, <1>3 DEF Level, n
  <2>3. QED
    BY <1>1, <2>1, <2>2
<1>5. Linked(s2, p2, u, b)
  BY <1>1, <1>3, <1>4 DEF Chain, Linked
<1>6. Kept(s2, p2, u)
  <2> SUFFICES ASSUME NEW i \in 1..(n - 1), NEW j \in i..(n - 1),
                      s2[i].copy # NoFd, ~SavedIn(s2, i + 1, j, s2[i].copy)
               PROVE  Level(s2, p2, u, j)[s2[i].copy] # Closed
    BY <1>3 DEF Kept
  <2>1. ~SavedIn(s, i + 1, j, s[i].copy)
    BY <1>1, <1>3 DEF SavedIn
  <2>2. Level(s, p, t, j)[s[i].copy] # Closed
    <3>1. i \in 1..n /\ j \in i..n /\ s[i].copy # NoFd
      BY <1>1, <1>3
    <3>2. QED
      BY <2>1, <3>1, ChainAt DEF n
  <2>3. QED
    BY <1>1, <1>3, <1>4, <2>2
<1>7. QED
  BY <1>1, <1>2, <1>3, <1>5, <1>6 DEF Chain, Shape, n, s2, p2, u
\* A change made for good is made all along the chain, unless it is made to
\* a descriptor that a save is kept on.
LEMMA AmendChain ==
  ASSUME Chain(saves, past, fds, plain), NEW D \in SUBSET Fd, NEW x \in Content,
         Amend(D, x), saves' = saves, \A d \in D : ~Private(d),
         fds' = [q \in Fd |-> IF q \in D THEN x ELSE fds[q]]
  PROVE  Chain(saves', past', fds', plain')
<1> DEFINE n == Len(saves)
           L(i) == Level(saves, past, fds, i)
           M(i) == Level(saves', past', fds', i)
<1>1. /\ saves \in Seq(Save) /\ past \in Seq(Table) /\ Len(past) = n
      /\ n \in Nat /\ DOMAIN saves = 1..n /\ DOMAIN past = 1..n
      /\ fds \in Table /\ plain \in Table /\ Len(saves') = n /\ DOMAIN saves' = 1..n
  BY DEF Chain, Shape
<1>2. /\ past' = [i \in 1..n |-> Amended(i, past[i], D, x)]
      /\ plain' = Amended(1, plain, D, x)
  BY <1>1 DEF Amend
<1>3. \A i : \A t \in Table : Amended(i, t, D, x) \in Table
  BY DEF Amended, Table, Content
<1>4. /\ past' \in Seq(Table) /\ Len(past') = n
      /\ fds' \in Table /\ plain' \in Table
  <2>1. past' \in [1..n -> Table]
    BY <1>1, <1>2, <1>3
  <2>2. past' \in Seq(Table) /\ Len(past') = n
    BY <1>1, <2>1
  <2>3. fds' \in Table
    BY <1>1 DEF Table, Content
  <2>4. QED
    BY <1>1, <1>2, <1>3, <2>2, <2>3
<1>5. \A i \in 0..n : L(i) \in Table /\ M(i) = Amended(i + 1, L(i), D, x)
  <2>1. L(n) = fds /\ M(n) = fds'
    BY <1>1 DEF Level
  <2>2. \A d : ~Within(n + 1, d)
    BY <1>1 DEF Within
  <2>3. fds' = Amended(n + 1, fds, D, x)
    BY <2>2 DEF Amended
  <2>4. ASSUME NEW i \in 0..n - 1
        PROVE  L(i) \in Table /\ M(i) = Amended(i + 1, L(i), D, x)
    <3>1. i # n /\ i + 1 \in 1..n
      <4>1. n \in Nat
        BY <1>1
      <4> HIDE DEF n
      <4>2. QED
        BY <4>1
    <3>2. L(i) = past[i + 1]
      BY <3>1 DEF Level
    <3>3. M(i) = past'[i + 1]
      BY <1>1, <3>1 DEF Level
    <3>4. past[i + 1] \in Table /\ past'[i + 1] = Amended(i + 1, past[i + 1], D, x)
      <4>1. past[i + 1] \in Table
        BY <3>1, ChainAt
      <4>2. past'[i + 1] = Amended(i + 1, past[i + 1], D, x)
        BY <1>2, <3>1
      <4>3. QED
        BY <4>1, <4>2
    <3>5. QED
      BY <3>2, <3>3, <3>4
  <2> HIDE DEF L, M, n
  <2>6. QED
    BY <1>1, <2>1, <2>3, <2>4
<1>6. \A i \in 1..n : \A d : Within(i, d) <=> (saves[i].fd = d \/ Within(i + 1, d))
  BY <1>1 DEF Within
<1>7. \A i \in 1..n : saves[i].copy # NoFd =>
        /\ saves[i].copy \in Fd /\ L(i)[saves[i].copy] # Closed
        /\ saves[i].copy \in D => Within(i + 1, saves[i].copy)
  <2> SUFFICES ASSUME NEW i \in 1..n, saves[i].copy # NoFd
               PROVE  /\ saves[i].copy \in Fd /\ L(i)[saves[i].copy] # Closed
                      /\ saves[i].copy \in D => Within(i + 1, saves[i].copy)
    OBVIOUS
  <2>1. saves[i].copy \in Fd
    BY ChainAt DEF Save
  <2>2. i \in i..n /\ ~SavedIn(saves, i + 1, i, saves[i].copy)
    BY <1>1 DEF SavedIn
  <2>3. L(i)[saves[i].copy] # Closed
    BY <2>2, ChainAt
  <2>4. saves[i].copy \in D => Within(i + 1, saves[i].copy)
    BY <1>1 DEF Private, Within
  <2>5. QED
    BY <2>1, <2>3, <2>4
<1>8. ASSUME NEW i \in 1..n
      PROVE  Back(saves[i], M(i)) = past'[i]
  <2> DEFINE e == saves[i]
             c == e.copy
             A == Amended(i + 1, L(i), D, x)
  <2>1. e.fd \in Fd /\ past[i] \in Table /\ Back(e, L(i)) = past[i]
    BY ChainAt DEF Save
  <2>2. M(i) = A /\ past'[i] = Amended(i, past[i], D, x) /\ L(i) \in Table
    BY <1>1, <1>2, <1>5
  <2>3. A = [d \in Fd |-> IF d \in D /\ ~Within(i + 1, d) THEN x ELSE L(i)[d]]
    BY DEF Amended
  <2>4. Amended(i, past[i], D, x)
          = [d \in Fd |-> IF d \in D /\ d # e.fd /\ ~Within(i + 1, d)
                          THEN x ELSE past[i][d]]
    BY <1>6 DEF Amended
  <2>5. CASE c = NoFd
    <3>1. past[i] = [L(i) EXCEPT ![e.fd] = Closed]
      BY <2>1, <2>5 DEF Back
    <3>2. Back(e, A) = [A EXCEPT ![e.fd] = Closed]
      BY <2>5 DEF Back
    <3> HIDE DEF e, c, A, L, M
    <3>3. [A EXCEPT ![e.fd] = Closed] = Amended(i, past[i], D, x)
      BY <2>1, <2>2, <2>3, <2>4, <3>1 DEF Table
    <3>4. QED
      BY <2>2, <3>2, <3>3 DEF e
  <2>6. CASE c # NoFd
    <3>1. c \in Fd /\ L(i)[c] # Closed /\ (c \in D => Within(i + 1, c))
      BY <1>7, <2>6
    <3>2. past[i] = [L(i) EXCEPT ![e.fd] = L(i)[c], ![c] = Closed]
      BY <2>1, <2>6, <3>1 DEF Back
    <3>3. A[c] = L(i)[c]
      BY <2>3, <3>1
    <3>4. Back(e, A) = [A EXCEPT ![e.fd] = A[c], ![c] = Closed]
      BY <2>6, <3>1, <3>3 DEF Back
    <3> HIDE DEF e, c, A, L, M
    <3>5. [A EXCEPT ![e.fd] = A[c], ![c] = Closed] = Amended(i, past[i], D, x)
      BY <2>1, <2>2, <2>3, <2>4, <3>1, <3>2, <3>3 DEF Table
    <3>6. QED
      BY <2>2, <3>4, <3>5 DEF e
  <2>7. QED
    BY <2>5, <2>6
<1>9. Linked(saves', past', fds', plain')
  <2>1. L(0) = plain
    BY DEF Chain, Linked
  <2>2. M(0) = plain'
    BY <1>1, <1>2, <1>5, <2>1
  <2>3. QED
    BY <1>1, <1>8, <2>2 DEF Linked
<1>10. Kept(saves', past', fds')
  <2> SUFFICES ASSUME NEW i \in 1..n, NEW j \in i..n, saves[i].copy # NoFd,
                      ~SavedIn(saves, i + 1, j, saves[i].copy)
               PROVE  M(j)[saves[i].copy] # Closed
    BY <1>1 DEF Kept
  <2> DEFINE c == saves[i].copy
  <2>1. c \in Fd /\ L(j)[c] # Closed
    BY <1>7, ChainAt
  <2>2. c \in D => Within(j + 1, c)
    <3>1. c \in D => \E k \in i + 1..n : saves[k].fd = c
      BY <1>1 DEF Private
    <3>2. \A k \in i + 1..j : saves[k].fd # c
      BY DEF SavedIn
    <3>3. QED
      BY <1>1, <3>1, <3>2 DEF Within
  <2>3. M(j) = Amended(j + 1, L(j), D, x)
    BY <1>1, <1>5
  <2>4. M(j)[c] = L(j)[c]
    BY <2>1, <2>2, <2>3 DEF Amended
  <2>5. QED
    BY <2>1, <2>4
<1>11. QED
  BY <1>1, <1>4, <1>9, <1>10 DEF Chain, Shape
-----------------------------------------------------------------------------
(* What one redirection does to the table. *)

\* rd_save and a new content, in a table that stays as it is otherwise.
LEMMA Resave ==
  ASSUME NEW t \in Table, NEW d \in Fd, NEW y \in Content
  PROVE  LET u == [Saved(t, d) EXCEPT ![d] = y] IN
         /\ u \in Table
         /\ ~Full(t, d) =>
              /\ Back(Entry(t, d), u) = t
              /\ \A q \in Fd : q # d /\ t[q] # Closed => u[q] # Closed
              /\ Copy(t, d) # NoFd => u[Copy(t, d)] # Closed
<1> DEFINE u == [Saved(t, d) EXCEPT ![d] = y]
<1>1. u \in Table /\ \A q \in Fd : q # d => u[q] = IF q = Copy(t, d) THEN t[d] ELSE t[q]
  BY SavedTable DEF Table, Content
<1> HIDE DEF u
<1>2. ASSUME ~Full(t, d)
      PROVE  Back(Entry(t, d), u) = t
  <2>1. \A q \in Fd : q = Copy(t, d) => t[q] = Closed
    BY CopyFree, NoFdApart
  <2>2. QED
    BY <1>1, <1>2, <2>1, BackSaved
<1>3. \A q \in Fd : q # d /\ t[q] # Closed => u[q] # Closed
  BY <1>1, CopyFree, NoFdApart
<1>4. Copy(t, d) # NoFd => u[Copy(t, d)] # Closed
  BY <1>1, CopyFree
<1>5. QED
  BY <1>1, <1>2, <1>3, <1>4 DEF u

\* What open does to the table.
LEMMA OpenedTable ==
  ASSUME fds \in Table, NEW x \in File, Lowest(fds) # NoFd
  PROVE  /\ Lowest(fds) \in Fd /\ fds[Lowest(fds)] = Closed /\ x # Closed
         /\ \A d \in Fd : d < Lowest(fds) => fds[d] # Closed
         /\ Opened(x) \in Table
         /\ \A q \in Fd : Opened(x)[q] = IF q = Lowest(fds) THEN x ELSE fds[q]
<1>1. /\ Lowest(fds) \in Fd /\ fds[Lowest(fds)] = Closed
      /\ \A d \in Fd : d >= 0 /\ d < Lowest(fds) => fds[d] # Closed
  BY LowestFree DEF Lowest
<1>2. \A d \in Fd : d >= 0
  BY RedirectionsAssumption DEF Fd
<1>3. x # Closed
  BY RedirectionsAssumption
<1>4. QED
  BY <1>1, <1>2, <1>3 DEF Opened, Table

\* A file opened, a descriptor saved and replaced, the first one closed.
LEMMA Redirect ==
  ASSUME fds \in Table, NEW d \in Fd, NEW x \in File, Lowest(fds) # NoFd
  PROVE  LET o == Opened(x)
             t == Moved(Saved(o, d), d, x)
         IN  /\ t \in Table
             /\ Lowest(fds) # d /\ ~Full(o, d) =>
                  /\ Back(Entry(o, d), t) = fds /\ t[d] = x
                  /\ \A q \in Fd : q # d /\ fds[q] # Closed => t[q] # Closed
                  /\ Copy(o, d) # NoFd => t[Copy(o, d)] # Closed
<1> DEFINE o == Opened(x)
           l == Lowest(fds)
           s == Saved(o, d)
           t == Moved(s, d, x)
           c == Copy(o, d)
<1>1. /\ l \in Fd /\ fds[l] = Closed /\ o \in Table /\ x # Closed
      /\ \A q \in Fd : o[q] = IF q = l THEN x ELSE fds[q]
  BY OpenedTable
<1> HIDE DEF o, c
<1>2. s \in Table /\ \A q \in Fd : s[q] = IF q = c THEN o[d] ELSE o[q]
  BY <1>1, SavedTable DEF c
<1>3. c # NoFd => c \in Fd /\ c # d /\ o[c] = Closed /\ o[d] # Closed
  BY <1>1, CopyFree DEF c
<1> HIDE DEF l, s
<1>4. t \in Table
  BY <1>1, <1>2 DEF Moved, Table, l
<1>5. ASSUME l # d, ~Full(o, d)
      PROVE  /\ Back(Entry(o, d), t) = fds /\ t[d] = x
             /\ \A q \in Fd : q # d /\ fds[q] # Closed => t[q] # Closed
             /\ c # NoFd => t[c] # Closed
  <2>1. t = [s EXCEPT ![d] = x, ![l] = Closed]
    BY <1>5 DEF Moved, l
  <2> HIDE DEF t
  <2>2. /\ t[d] = x
        /\ \A q \in Fd : q # d => t[q] = IF q = l THEN Closed ELSE s[q]
    BY <1>1, <1>2, <1>5, <2>1 DEF Table
  <2>3. c # l
    BY <1>1, <1>3, NoFdApart
  <2>4. \A q \in Fd : q # d => t[q] = IF q = c THEN o[d] ELSE fds[q]
    BY <1>1, <1>2, <2>2, <2>3
  <2>5. \A q \in Fd : q = c => fds[q] = Closed
    BY <1>1, <1>3, <2>3, NoFdApart
  <2>6. fds[d] = o[d]
    BY <1>1, <1>5
  <2>7. Back(Entry(o, d), t) = fds
    BY <1>1, <1>4, <1>5, <2>4, <2>5, <2>6, BackSaved DEF c
  <2>8. QED
    BY <1>3, <2>2, <2>4, <2>5, <2>7
<1>6. QED
  BY <1>4, <1>5 DEF o, l, s, t, c
-----------------------------------------------------------------------------
(* The inductive invariant, and what carries it over a step. *)

Inv == TypeOK /\ Unwinds /\ Held

\* A call that goes on with its list keeps every frame in place.
LEMMA SetLastType ==
  ASSUME TypeOK, frames # <<>>, NEW f \in Frame, SetLast(f), f.base = Last.base
  PROVE  /\ frames' \in Seq(Frame) /\ Len(frames') = Len(frames)
         /\ DOMAIN frames' = DOMAIN frames
         /\ \A k \in DOMAIN frames : frames'[k].base = frames[k].base
         /\ \A k \in 1..Len(frames) - 1 : frames'[k] = frames[k]
<1> DEFINE n == Len(frames)
<1>1. /\ frames \in Seq(Frame) /\ n \in Nat \ {0} /\ DOMAIN frames = 1..n
      /\ frames \in [1..n -> Frame]
  BY DEF TypeOK
<1>2. frames' = [frames EXCEPT ![n] = f] /\ Last = frames[n]
  BY DEF SetLast, Last
<1> HIDE DEF n
<1>3. frames' \in [1..n -> Frame]
  BY <1>1, <1>2
<1>4. frames' \in Seq(Frame) /\ Len(frames') = n /\ DOMAIN frames' = 1..n
  BY <1>1, <1>3
<1>5. \A k \in 1..n : frames'[k] = IF k = n THEN f ELSE frames[k]
  BY <1>1, <1>2
<1>6. /\ \A k \in 1..n : frames'[k].base = frames[k].base
      /\ \A k \in 1..n - 1 : frames'[k] = frames[k]
  BY <1>1, <1>2, <1>5
<1>7. QED
  BY <1>1, <1>4, <1>6 DEF n

\* One turn of the list, and the end of the body, keep the types.
LEMMA TurnType ==
  ASSUME TypeOK, frames # <<>>, NEW f \in Frame, SetLast(f), f.base = Last.base,
         fds' \in Table, plain' \in Table, saves' \in Seq(Save),
         past' \in Seq(Table), Len(past') = Len(saves'),
         Len(saves) <= Len(saves'), trod' \subseteq Cause
  PROVE  TypeOK'
<1> DEFINE N == Len(frames)
<1>1. /\ frames' \in Seq(Frame) /\ Len(frames') = N
      /\ \A k \in 1..N : frames'[k].base = frames[k].base
      /\ \A k \in 1..N - 1 : frames'[k] = frames[k]
      /\ DOMAIN frames = 1..N /\ DOMAIN frames' = 1..N /\ N \in Nat
  BY SetLastType DEF TypeOK
<1>2. Len(saves) \in Nat /\ Len(saves') \in Nat /\ \A k \in 1..N : frames[k].base \in Nat
  <2>1. frames \in Seq(Frame) /\ saves \in Seq(Save)
    BY DEF TypeOK
  <2>2. \A k \in DOMAIN frames : frames[k] \in Frame
    BY <2>1
  <2>3. \A k \in DOMAIN frames : frames[k].base \in Nat
    BY <2>2 DEF Frame
  <2>4. Len(saves) \in Nat /\ Len(saves') \in Nat
    BY <2>1
  <2>5. \A k \in 1..N : frames[k].base \in Nat
    BY <1>1, <2>3
  <2>6. QED
    BY <2>4, <2>5
<1>3. /\ \A k \in 1..N : frames[k].base <= Len(saves)
      /\ \A k \in 1..N : \A h \in 1..k : frames[h].base <= frames[k].base
      /\ \A k \in 1..N - 1 : frames[k].phase = "body"
  BY <1>1 DEF TypeOK
<1> HIDE DEF N
<1>4. \A k \in 1..N : frames'[k].base <= Len(saves')
  BY <1>1, <1>2, <1>3
<1>5. \A k \in 1..N : \A h \in 1..k : frames'[h].base <= frames'[k].base
  <2> SUFFICES ASSUME NEW k \in 1..N, NEW h \in 1..k
               PROVE  frames'[h].base <= frames'[k].base
    OBVIOUS
  <2>1. h \in 1..N
    BY <1>1
  <2>2. frames[h].base <= frames[k].base
    BY <1>3
  <2>3. QED
    BY <1>1, <2>1, <2>2
<1>6. \A k \in 1..N - 1 : frames'[k].phase = "body"
  BY <1>1, <1>3
<1>7. QED
  BY <1>1, <1>4, <1>5, <1>6 DEF TypeOK

\* The frame a turn of the list leaves.
LEMMA WentType ==
  ASSUME TypeOK, Listing, NEW ok \in BOOLEAN, Went(ok)
  PROVE  \E f \in Frame : SetLast(f) /\ f.base = Last.base
<1>1. Last \in Frame
  BY DEF TypeOK, Listing, Last
<1>2. [Last EXCEPT !.ok = @ /\ ok] \in Frame /\ [Last EXCEPT !.ok = @ /\ ok].base = Last.base
  BY <1>1 DEF Frame
<1>3. QED
  BY <1>2 DEF Went

\* A step that keeps the types and carries the chain keeps the invariant.
LEMMA Carry ==
  ASSUME Inv, TypeOK', trod \subseteq trod',
         Clean' /\ Chain(saves, past, fds, plain) => Chain(saves', past', fds', plain')
  PROVE  Inv'
<1>1. Clean' => Chain(saves, past, fds, plain)
  BY ChainMeaning DEF Inv, Clean, Chain
<1>2. Clean' => Linked(saves', past', fds', plain') /\ Kept(saves', past', fds')
  BY <1>1 DEF Chain
<1>3. Unwinds' <=> (Clean' => Linked(saves', past', fds', plain'))
  BY DEF Unwinds, Linked, Above, Level
<1>4. Held' <=> (Clean' => Kept(saves', past', fds'))
  BY DEF Held, Kept, Above, Level, SavedIn
<1>5. QED
  BY <1>2, <1>3, <1>4 DEF Inv

\* A cause belongs to the causes, and no clean step has any but one.
LEMMA Causes ==
  ASSUME TypeOK, NEW c \in SUBSET Cause, Trod(c)
  PROVE  trod' \subseteq Cause /\ trod \subseteq trod' /\ (Clean' => c \subseteq {"copied"})
  BY DEF TypeOK, Trod, Clean

\* A redirection that saves one descriptor.
LEMMA KeptStep ==
  ASSUME Inv, Listing, NEW ok \in BOOLEAN, Went(ok), NEW c \in SUBSET Cause, Trod(c),
         NEW e \in Save, saves' = Append(saves, e), past' = Append(past, fds),
         fds' \in Table, plain' = plain,
         Clean' => /\ Back(e, fds') = fds
                   /\ \A q \in Fd : q # e.fd /\ fds[q] # Closed => fds'[q] # Closed
                   /\ e.copy # NoFd => fds'[e.copy] # Closed
  PROVE  Inv'
<1>1. /\ trod' \subseteq Cause /\ trod \subseteq trod'
      /\ saves \in Seq(Save) /\ past \in Seq(Table) /\ Len(past) = Len(saves)
      /\ fds \in Table /\ plain \in Table /\ frames # <<>> /\ TypeOK
  BY Causes DEF Inv, TypeOK, Listing
<1>2. /\ saves' \in Seq(Save) /\ past' \in Seq(Table)
      /\ Len(past') = Len(saves') /\ Len(saves) <= Len(saves')
  BY <1>1
<1>3. PICK f \in Frame : SetLast(f) /\ f.base = Last.base
  BY <1>1, WentType
<1>4. TypeOK'
  BY <1>1, <1>2, <1>3, TurnType
<1>5. ASSUME Clean', Chain(saves, past, fds, plain)
      PROVE  Chain(saves', past', fds', plain')
  BY <1>5, Push
<1>6. QED
  BY <1>1, <1>4, <1>5, Carry

\* A redirection that saves two, through a table m.
LEMMA KeptTwiceStep ==
  ASSUME Inv, Listing, NEW ok \in BOOLEAN, Went(ok), NEW c \in SUBSET Cause, Trod(c),
         NEW d \in Save, NEW e \in Save, NEW m \in Table,
         saves' = saves \o <<d, e>>, past' = past \o <<fds, m>>,
         fds' \in Table, plain' = plain,
         Clean' => /\ Back(d, m) = fds
                   /\ \A q \in Fd : q # d.fd /\ fds[q] # Closed => m[q] # Closed
                   /\ d.copy # NoFd => m[d.copy] # Closed
                   /\ Back(e, fds') = m
                   /\ \A q \in Fd : q # e.fd /\ m[q] # Closed => fds'[q] # Closed
                   /\ e.copy # NoFd => fds'[e.copy] # Closed
  PROVE  Inv'
<1>1. /\ trod' \subseteq Cause /\ trod \subseteq trod'
      /\ saves \in Seq(Save) /\ past \in Seq(Table) /\ Len(past) = Len(saves)
      /\ fds \in Table /\ plain \in Table /\ frames # <<>> /\ TypeOK
  BY Causes DEF Inv, TypeOK, Listing
<1>2. /\ saves' = Append(Append(saves, d), e) /\ past' = Append(Append(past, fds), m)
      /\ saves' \in Seq(Save) /\ past' \in Seq(Table)
      /\ Len(past') = Len(saves') /\ Len(saves) <= Len(saves')
  BY <1>1
<1>3. PICK f \in Frame : SetLast(f) /\ f.base = Last.base
  BY <1>1, WentType
<1>4. TypeOK'
  BY <1>1, <1>2, <1>3, TurnType
<1>5. ASSUME Clean', Chain(saves, past, fds, plain)
      PROVE  Chain(saves', past', fds', plain')
  <2>1. Chain(Append(saves, d), Append(past, fds), m, plain)
    BY <1>5, Push
  <2>2. Chain(Append(Append(saves, d), e), Append(Append(past, fds), m), fds', plain)
    BY <1>5, <2>1, Push
  <2>3. QED
    BY <1>2, <2>2
<1>6. QED
  BY <1>1, <1>4, <1>5, Carry

\* A change made for good.
LEMMA GoodStep ==
  ASSUME Inv, Listing, NEW D \in SUBSET Fd, NEW x \in Content, ForGood(D, x),
         trod \subseteq trod', trod' \subseteq Cause, fds' \in Table,
         Clean' => /\ \A d \in D : ~Private(d)
                   /\ fds' = [q \in Fd |-> IF q \in D THEN x ELSE fds[q]]
  PROVE  Inv'
<1>1. /\ saves \in Seq(Save) /\ past \in Seq(Table) /\ Len(past) = Len(saves)
      /\ fds \in Table /\ plain \in Table /\ frames # <<>> /\ TypeOK
      /\ Went(TRUE) /\ saves' = saves /\ Amend(D, x)
  BY DEF Inv, TypeOK, Listing, ForGood
<1>2. /\ past' = [i \in DOMAIN past |-> Amended(i, past[i], D, x)]
      /\ plain' = Amended(1, plain, D, x)
  BY <1>1 DEF Amend
<1>3. \A i : \A t \in Table : Amended(i, t, D, x) \in Table
  BY DEF Amended, Table, Content
<1>4. past' \in Seq(Table) /\ Len(past') = Len(past)
  <2> DEFINE n == Len(past)
  <2>1. n \in Nat /\ DOMAIN past = 1..n /\ \A i \in 1..n : past[i] \in Table
    BY <1>1
  <2> HIDE DEF n
  <2>2. past' \in [1..n -> Table]
    BY <1>2, <1>3, <2>1
  <2>3. past' \in Seq(Table) /\ Len(past') = n
    BY <2>1, <2>2
  <2>4. QED
    BY <2>3 DEF n
<1>5. PICK f \in Frame : SetLast(f) /\ f.base = Last.base
  BY <1>1, WentType
<1>6. TypeOK'
  <2>1. Len(past') = Len(saves') /\ Len(saves) <= Len(saves') /\ plain' \in Table
    BY <1>1, <1>2, <1>3, <1>4
  <2>2. QED
    BY <1>1, <1>4, <1>5, <2>1, TurnType
<1>7. ASSUME Clean', Chain(saves, past, fds, plain)
      PROVE  Chain(saves', past', fds', plain')
  BY <1>1, <1>7, AmendChain
<1>8. QED
  BY <1>6, <1>7, Carry
-----------------------------------------------------------------------------
(* The turns of a list. *)

\* The items' words are descriptors, files and causes.
LEMMA Words ==
  /\ Named \subseteq Fd /\ Path \subseteq File /\ Path \subseteq Content
  /\ 0 \in Fd /\ 1 \in Fd /\ 2 \in Fd
  /\ \A h : \A c \in Cause : Because(c, h) \in SUBSET Cause
  /\ \A h : \A c \in Cause \ {"copied"} : Because(c, h) \subseteq {"copied"} => ~h
  BY RedirectionsAssumption, NoFdApart DEF Content, Cause, Because

\* A descriptor that is free holds no save, as long as none was trodden on.
LEMMA FreeNotPrivate ==
  ASSUME Inv, Clean, NEW d \in Fd, fds[d] = Closed
  PROVE  ~Private(d)
<1> SUFFICES ASSUME NEW i \in DOMAIN saves, saves[i].copy = d,
                    \A j \in i + 1..Len(saves) : saves[j].fd # d
             PROVE  FALSE
  BY DEF Private
<1>1. DOMAIN saves = 1..Len(saves) /\ Len(saves) \in Nat /\ Len(saves) \in i..Len(saves)
  BY DEF Inv, TypeOK
<1>2. Above(Len(saves)) = fds
  BY DEF Above
<1>3. \/ saves[i].copy = NoFd
      \/ \E k \in i + 1..Len(saves) : saves[k].fd = saves[i].copy
      \/ Above(Len(saves))[saves[i].copy] # Closed
  BY <1>1 DEF Inv, Held
<1>4. QED
  BY <1>2, <1>3, NoFdApart

\* `d< f' and its kin, undone at the end of the command.
LEMMA OpenKeptStep ==
  ASSUME Inv, NEW d \in Named, NEW x \in Path, OpenKept(d, x)
  PROVE  Inv'
<1> DEFINE o == Opened(x)
           c == Because("landed", Lowest(fds) = d) \cup Because("full", Full(o, d))
<1>1. d \in Fd /\ x \in File /\ fds \in Table /\ Lowest(fds) # NoFd /\ TypeOK
  BY Words DEF Inv, TypeOK, OpenKept
<1>2. c \in SUBSET Cause /\ Trod(c)
  BY Words DEF OpenKept, Cause
<1>3. Clean' => Lowest(fds) # d /\ ~Full(o, d)
  BY <1>1, <1>2, Causes, Words DEF Cause
<1>4. /\ Listing /\ Went(TRUE) /\ saves' = Append(saves, Entry(o, d))
      /\ past' = Append(past, fds) /\ plain' = plain
      /\ fds' = Moved(Saved(o, d), d, x)
  BY DEF OpenKept
<1>5. o \in Table /\ Entry(o, d) \in Save /\ Entry(o, d).fd = d
      /\ Entry(o, d).copy = Copy(o, d)
  BY <1>1, OpenedTable, CopyFree
<1>6. /\ fds' \in Table
      /\ Clean' =>
           /\ Back(Entry(o, d), fds') = fds
           /\ \A q \in Fd : q # d /\ fds[q] # Closed => fds'[q] # Closed
           /\ Copy(o, d) # NoFd => fds'[Copy(o, d)] # Closed
  BY <1>1, <1>3, <1>4, Redirect
<1> HIDE DEF o, c
<1>7. QED
  BY <1>2, <1>4, <1>5, <1>6, KeptStep

\* `d>&n'.
LEMMA DupKeptStep ==
  ASSUME Inv, NEW d \in Named, NEW n \in Named, DupKept(d, n)
  PROVE  Inv'
<1> DEFINE t == Saved(fds, d)
           y == IF t[n] = Closed THEN t[d] ELSE t[n]
           c == Because("full", Full(fds, d))
                \cup Because("copied", Private(n) \/ (fds[n] = Closed /\ t[n] # Closed))
<1>1. d \in Fd /\ n \in Fd /\ fds \in Table /\ t \in Table /\ TypeOK
  BY Words, SavedTable DEF Inv, TypeOK
<1>2. c \in SUBSET Cause /\ Trod(c)
  BY Words DEF DupKept, Cause
<1>3. Clean' => ~Full(fds, d)
  BY <1>1, <1>2, Causes, Words DEF Cause
<1>4. /\ Listing /\ Went(t[n] # Closed) /\ saves' = Append(saves, Entry(fds, d))
      /\ past' = Append(past, fds) /\ plain' = plain
      /\ fds' = IF t[n] = Closed THEN t ELSE [t EXCEPT ![d] = t[n]]
  BY DEF DupKept
<1>5. Entry(fds, d) \in Save /\ Entry(fds, d).fd = d /\ Entry(fds, d).copy = Copy(fds, d)
  BY <1>1, CopyFree
<1>6. y \in Content /\ fds' = [t EXCEPT ![d] = y]
  BY <1>1, <1>4 DEF Table, Content
<1>7. /\ fds' \in Table
      /\ Clean' =>
           /\ Back(Entry(fds, d), fds') = fds
           /\ \A q \in Fd : q # d /\ fds[q] # Closed => fds'[q] # Closed
           /\ Copy(fds, d) # NoFd => fds'[Copy(fds, d)] # Closed
  <2>1. fds' = [Saved(fds, d) EXCEPT ![d] = y] /\ y \in Content
    BY <1>6
  <2> HIDE DEF y, t, c
  <2>2. d \in Fd /\ fds \in Table
    BY <1>1
  <2> DEFINE u == [Saved(fds, d) EXCEPT ![d] = y]
  <2>3. /\ u \in Table
        /\ ~Full(fds, d) =>
             /\ Back(Entry(fds, d), u) = fds
             /\ \A q \in Fd : q # d /\ fds[q] # Closed => u[q] # Closed
             /\ Copy(fds, d) # NoFd => u[Copy(fds, d)] # Closed
    BY <2>1, <2>2, Resave
  <2> HIDE DEF u
  <2>4. QED
    BY <1>3, <2>1, <2>3 DEF u
<1> HIDE DEF t, c
<1>8. (t[n] # Closed) \in BOOLEAN
  OBVIOUS
<1>9. QED
  BY <1>2, <1>4, <1>5, <1>7, <1>8, KeptStep

\* `d>&-'.
LEMMA CloseKeptStep ==
  ASSUME Inv, NEW d \in Named, CloseKept(d)
  PROVE  Inv'
<1> DEFINE c == Because("full", Full(fds, d))
<1>1. d \in Fd /\ fds \in Table /\ TypeOK /\ Closed \in Content
  BY Words, NoFdApart DEF Inv, TypeOK
<1>2. c \in SUBSET Cause /\ Trod(c)
  BY Words DEF CloseKept, Cause
<1>3. Clean' => ~Full(fds, d)
  BY <1>1, <1>2, Causes, Words DEF Cause
<1>4. /\ Listing /\ Went(TRUE) /\ saves' = Append(saves, Entry(fds, d))
      /\ past' = Append(past, fds) /\ plain' = plain
      /\ fds' = [Saved(fds, d) EXCEPT ![d] = Closed]
  BY DEF CloseKept
<1>5. Entry(fds, d) \in Save /\ Entry(fds, d).fd = d /\ Entry(fds, d).copy = Copy(fds, d)
  BY <1>1, CopyFree
<1>6. /\ fds' \in Table
      /\ Clean' =>
           /\ Back(Entry(fds, d), fds') = fds
           /\ \A q \in Fd : q # d /\ fds[q] # Closed => fds'[q] # Closed
           /\ Copy(fds, d) # NoFd => fds'[Copy(fds, d)] # Closed
  BY <1>1, <1>3, <1>4, Resave
<1> HIDE DEF c
<1>7. QED
  BY <1>2, <1>4, <1>5, <1>6, KeptStep
\* `&> f': through the table in which 1 is the file and 2 is as before.
LEMMA OpenBothKeptStep ==
  ASSUME Inv, NEW x \in Path, OpenBothKept(x)
  PROVE  Inv'
<1> DEFINE o == Opened(x)
           m == Moved(Saved(o, 1), 1, x)
           c == Because("landed", Lowest(fds) = 1)
                \cup Because("full", Full(o, 1) \/ Full(m, 2))
           d == Entry(o, 1)
           e == Entry(m, 2)
<1>1. 1 \in Fd /\ 2 \in Fd /\ x \in File /\ fds \in Table /\ Lowest(fds) # NoFd /\ TypeOK
  BY Words DEF Inv, TypeOK, OpenBothKept
<1>2. c \in SUBSET Cause /\ Trod(c)
  BY Words DEF OpenBothKept, Cause
<1>3. Clean' => Lowest(fds) # 1 /\ ~Full(o, 1) /\ ~Full(m, 2)
  BY <1>1, <1>2, Causes, Words DEF Cause
<1>4. /\ Listing /\ Went(TRUE) /\ saves' = saves \o <<d, e>>
      /\ past' = past \o <<fds, m>> /\ plain' = plain
      /\ fds' = [Saved(m, 2) EXCEPT ![2] = m[1]]
  BY DEF OpenBothKept
<1>5. /\ m \in Table
      /\ Clean' =>
           /\ Back(d, m) = fds
           /\ \A q \in Fd : q # 1 /\ fds[q] # Closed => m[q] # Closed
           /\ Copy(o, 1) # NoFd => m[Copy(o, 1)] # Closed
  BY <1>1, <1>3, Redirect
<1>6. o \in Table /\ d \in Save /\ d.fd = 1 /\ d.copy = Copy(o, 1)
  BY <1>1, OpenedTable, CopyFree
<1>7. e \in Save /\ e.fd = 2 /\ e.copy = Copy(m, 2)
  BY <1>1, <1>5, CopyFree
<1> HIDE DEF o, m, d, e, c
<1>8. m[1] \in Content
  BY <1>1, <1>5 DEF Table, Content
<1>9. LET u == [Saved(m, 2) EXCEPT ![2] = m[1]] IN
      /\ u \in Table
      /\ ~Full(m, 2) =>
           /\ Back(Entry(m, 2), u) = m
           /\ \A q \in Fd : q # 2 /\ m[q] # Closed => u[q] # Closed
           /\ Copy(m, 2) # NoFd => u[Copy(m, 2)] # Closed
  BY <1>1, <1>5, <1>8, Resave
<1>10. /\ fds' \in Table
       /\ Clean' =>
            /\ Back(e, fds') = m
            /\ \A q \in Fd : q # 2 /\ m[q] # Closed => fds'[q] # Closed
            /\ Copy(m, 2) # NoFd => fds'[Copy(m, 2)] # Closed
  BY <1>3, <1>4, <1>9 DEF e
<1>11. QED
  BY <1>2, <1>4, <1>5, <1>6, <1>7, <1>10, KeptTwiceStep

\* `>& word': both are saved first, and the file is still open then.
LEMMA WordKeptStep ==
  ASSUME Inv, NEW x \in Path, WordKept(x)
  PROVE  Inv'
<1> DEFINE o == Opened(x)
           l == Lowest(fds)
           s == Saved(o, 1)
           z == Saved(s, 2)
           two == [z EXCEPT ![1] = x, ![2] = x]
           m == [s EXCEPT ![1] = x, ![l] = Closed]
           c == Because("landed", l <= 2)
                \cup Because("full", Full(o, 1) \/ Full(s, 2))
           d == Entry(o, 1)
           e == Entry(s, 2)
<1>1. 1 \in Fd /\ 2 \in Fd /\ x \in File /\ fds \in Table /\ l # NoFd /\ TypeOK
  BY Words DEF Inv, TypeOK, WordKept
<1>2. c \in SUBSET Cause /\ Trod(c)
  BY Words DEF WordKept, Cause
<1>3. Clean' => ~(l <= 2) /\ ~Full(o, 1) /\ ~Full(s, 2)
  BY <1>1, <1>2, Causes, Words DEF Cause
<1>4. /\ Listing /\ Went(TRUE) /\ saves' = saves \o <<d, e>>
      /\ past' = past \o <<fds, m>> /\ plain' = plain
      /\ fds' = IF l <= 2 THEN two ELSE [two EXCEPT ![l] = Closed]
  BY DEF WordKept
<1>5. /\ l \in Fd /\ fds[l] = Closed /\ x # Closed /\ o \in Table
      /\ \A q \in Fd : q < l => fds[q] # Closed
      /\ \A q \in Fd : o[q] = IF q = l THEN x ELSE fds[q]
  BY <1>1, OpenedTable
<1>6. d \in Save /\ d.fd = 1 /\ d.copy = Copy(o, 1)
  BY <1>1, <1>5, CopyFree
<1>7. s \in Table /\ \A q \in Fd : s[q] = IF q = Copy(o, 1) THEN o[1] ELSE o[q]
  BY <1>1, <1>5, SavedTable
<1>8. e \in Save /\ e.fd = 2 /\ e.copy = Copy(s, 2)
  BY <1>1, <1>7, CopyFree
<1>9. z \in Table /\ \A q \in Fd : z[q] = IF q = Copy(s, 2) THEN s[2] ELSE s[q]
  BY <1>1, <1>7, SavedTable
<1>10. m \in Table /\ two \in Table /\ fds' \in Table
  BY <1>1, <1>4, <1>5, <1>7, <1>9 DEF Table
<1>11. ASSUME Clean'
       PROVE  /\ Back(d, m) = fds
              /\ \A q \in Fd : q # 1 /\ fds[q] # Closed => m[q] # Closed
              /\ Copy(o, 1) # NoFd => m[Copy(o, 1)] # Closed
  <2>1. l # 1 /\ ~Full(o, 1)
    BY <1>3, <1>11
  <2>2. m = Moved(s, 1, x)
    BY <2>1 DEF Moved
  <2> DEFINE v == Moved(Saved(o, 1), 1, x)
  <2>3. /\ Back(Entry(o, 1), v) = fds
        /\ \A q \in Fd : q # 1 /\ fds[q] # Closed => v[q] # Closed
        /\ Copy(o, 1) # NoFd => v[Copy(o, 1)] # Closed
    BY <1>1, <2>1, Redirect
  <2>4. v = m
    BY <2>2
  <2> HIDE DEF v, m
  <2>5. QED
    BY <2>3, <2>4
<1>12. ASSUME Clean'
       PROVE  /\ Back(e, fds') = m
              /\ \A q \in Fd : q # 2 /\ m[q] # Closed => fds'[q] # Closed
              /\ Copy(s, 2) # NoFd => fds'[Copy(s, 2)] # Closed
  <2>1. ~(l <= 2) /\ ~Full(s, 2)
    BY <1>3, <1>12
  <2>2. l # 1 /\ l # 2 /\ 1 < l
    BY <1>5, <2>1, RedirectionsAssumption DEF Fd
  <2>3. Copy(s, 2) # NoFd =>
          /\ Copy(s, 2) \in Fd /\ Copy(s, 2) # 2 /\ s[Copy(s, 2)] = Closed /\ s[2] # Closed
    BY <1>1, <1>7, CopyFree
  <2>4. Copy(o, 1) # NoFd => o[Copy(o, 1)] = Closed /\ o[1] # Closed
    BY <1>1, <1>5, CopyFree
  <2> DEFINE k == Copy(s, 2)
             h == Copy(o, 1)
             u == [two EXCEPT ![l] = Closed]
  <2>5. fds' = u
    BY <1>4, <2>1
  <2> HIDE DEF k, h, o, l, s, z
  <2>6. \A q \in Fd : m[q] = IF q = l THEN Closed ELSE IF q = 1 THEN x ELSE s[q]
    BY <1>1, <1>5, <1>7, <2>2 DEF Table
  <2>7. \A q \in Fd : u[q] = IF q = l THEN Closed
                             ELSE IF q \in {1, 2} THEN x ELSE z[q]
    BY <1>1, <1>5, <1>9, <2>2 DEF Table
  <2>8. s[1] # Closed /\ s[l] # Closed
    BY <1>1, <1>5, <1>7, <2>2, <2>4, NoFdApart DEF h
  <2>9. k # 1 /\ k # l
    BY <2>3, <2>8, <1>1, <1>5, NoFdApart DEF k
  <2> HIDE DEF u, m
  <2>10. \A q \in Fd : q # 2 => u[q] = IF q = k THEN s[2] ELSE m[q]
    BY <1>9, <2>6, <2>7, <2>9 DEF k
  <2>11. \A q \in Fd : q = k => m[q] = Closed
    BY <2>3, <2>6, <2>9, NoFdApart DEF k
  <2>12. m[2] = s[2]
    BY <1>1, <2>2, <2>6
  <2>13. Back(Entry(s, 2), u) = m
    BY <1>1, <1>7, <1>10, <2>1, <2>5, <2>10, <2>11, <2>12, BackSaved DEF k
  <2>14. \A q \in Fd : q # 2 /\ m[q] # Closed => u[q] # Closed
    BY <2>10, <2>11
  <2>15. k # NoFd => u[k] # Closed
    BY <2>3, <2>10 DEF k
  <2>16. QED
    BY <2>5, <2>13, <2>14, <2>15 DEF k
<1> HIDE DEF o, l, s, z, two, m, c, d, e
<1>13. QED
  BY <1>2, <1>4, <1>6, <1>8, <1>10, <1>11, <1>12, KeptTwiceStep
\* `exec d< f'.
LEMMA OpenForGoodStep ==
  ASSUME Inv, NEW d \in Named, NEW x \in Path, OpenForGood(d, x)
  PROVE  Inv'
<1> DEFINE o == Opened(x)
           l == Lowest(fds)
           c == Overwritten({d})
<1>1. d \in Fd /\ x \in File /\ x \in Content /\ fds \in Table /\ l # NoFd /\ TypeOK
  BY Words DEF Inv, TypeOK, OpenForGood
<1>2. c \in SUBSET Cause /\ Trod(c)
  BY Words DEF OpenForGood, Overwritten, Cause
<1>3. Clean' => ~Private(d)
  BY <1>1, <1>2, Causes, Words DEF Cause, Overwritten
<1>4. Listing /\ ForGood({d}, x) /\ fds' = Moved(o, d, x)
  BY DEF OpenForGood
<1>5. /\ l \in Fd /\ fds[l] = Closed /\ o \in Table
      /\ \A q \in Fd : o[q] = IF q = l THEN x ELSE fds[q]
  BY <1>1, OpenedTable
<1> HIDE DEF o, c
<1>6. fds' = [q \in Fd |-> IF q \in {d} THEN x ELSE fds[q]]
  BY <1>1, <1>4, <1>5 DEF Moved, Table
<1>7. fds' \in Table
  BY <1>1, <1>6 DEF Table
<1>8. trod \subseteq trod' /\ trod' \subseteq Cause
  BY <1>1, <1>2, Causes
<1>9. QED
  BY <1>1, <1>3, <1>4, <1>6, <1>7, <1>8, GoodStep

\* `exec &> f'.
LEMMA OpenBothForGoodStep ==
  ASSUME Inv, NEW x \in Path, OpenBothForGood(x)
  PROVE  Inv'
<1> DEFINE o == Opened(x)
           l == Lowest(fds)
           c == Overwritten({1, 2})
<1>1. /\ 1 \in Fd /\ 2 \in Fd /\ x \in File /\ x \in Content /\ fds \in Table
      /\ l # NoFd /\ TypeOK
  BY Words DEF Inv, TypeOK, OpenBothForGood
<1>2. c \in SUBSET Cause /\ Trod(c)
  BY Words DEF OpenBothForGood, Overwritten, Cause
<1>3. Clean' => \A d \in {1, 2} : ~Private(d)
  BY <1>1, <1>2, Causes, Words DEF Cause, Overwritten
<1>4. Listing /\ ForGood({1, 2}, x) /\ fds' = [Moved(o, 1, x) EXCEPT ![2] = x]
  BY DEF OpenBothForGood
<1>5. /\ l \in Fd /\ fds[l] = Closed /\ o \in Table
      /\ \A q \in Fd : o[q] = IF q = l THEN x ELSE fds[q]
  BY <1>1, OpenedTable
<1> HIDE DEF o, c
<1>6. fds' = [q \in Fd |-> IF q \in {1, 2} THEN x ELSE fds[q]]
  BY <1>1, <1>4, <1>5 DEF Moved, Table
<1>7. fds' \in Table
  BY <1>1, <1>6 DEF Table
<1>8. trod \subseteq trod' /\ trod' \subseteq Cause
  BY <1>1, <1>2, Causes
<1>9. QED
  BY <1>1, <1>3, <1>4, <1>6, <1>7, <1>8, GoodStep

\* `exec >& word'.
LEMMA WordForGoodStep ==
  ASSUME Inv, NEW x \in Path, WordForGood(x)
  PROVE  Inv'
<1> DEFINE o == Opened(x)
           l == Lowest(fds)
           c == Overwritten({1, 2}) \cup Because("landed", l = 0)
           both == [o EXCEPT ![1] = x, ![2] = x]
<1>1. /\ 1 \in Fd /\ 2 \in Fd /\ x \in File /\ x \in Content /\ fds \in Table
      /\ l # NoFd /\ TypeOK
  BY Words DEF Inv, TypeOK, WordForGood
<1>2. c \in SUBSET Cause /\ Trod(c)
  BY Words DEF WordForGood, Overwritten, Cause
<1>3. Clean' => l # 0 /\ \A d \in {1, 2} : ~Private(d)
  BY <1>1, <1>2, Causes, Words DEF Cause, Overwritten
<1>4. /\ Listing /\ ForGood({1, 2}, x)
      /\ fds' = IF l <= 2 THEN both ELSE [both EXCEPT ![l] = Closed]
  BY DEF WordForGood
<1>5. /\ l \in Fd /\ fds[l] = Closed /\ o \in Table
      /\ \A q \in Fd : o[q] = IF q = l THEN x ELSE fds[q]
  BY <1>1, OpenedTable
<1> HIDE DEF o, c, l
<1>6. fds' \in Table
  BY <1>1, <1>4, <1>5 DEF Table
<1>7. ASSUME Clean'
      PROVE  fds' = [q \in Fd |-> IF q \in {1, 2} THEN x ELSE fds[q]]
  <2>1. l <= 2 => l \in {1, 2}
    BY <1>3, <1>5, <1>7 DEF Fd
  <2>2. \A q \in Fd : both[q] = IF q \in {1, 2} THEN x ELSE o[q]
    BY <1>1, <1>5 DEF Table
  <2>3. CASE l <= 2
    <3>1. fds' = both
      BY <1>4, <2>3
    <3>2. QED
      BY <1>1, <1>5, <2>1, <2>2, <2>3, <3>1 DEF Table
  <2>4. CASE ~(l <= 2)
    <3>1. fds' = [both EXCEPT ![l] = Closed] /\ l # 1 /\ l # 2
      BY <1>4, <2>4
    <3>2. QED
      BY <1>1, <1>5, <2>2, <3>1 DEF Table
  <2>5. QED
    BY <2>3, <2>4
<1>8. trod \subseteq trod' /\ trod' \subseteq Cause
  BY <1>1, <1>2, Causes
<1>9. QED
  BY <1>1, <1>3, <1>4, <1>6, <1>7, <1>8, GoodStep

\* `exec d>&n'.
LEMMA DupForGoodStep ==
  ASSUME Inv, NEW d \in Named, NEW n \in Named, DupForGood(d, n)
  PROVE  Inv'
<1> DEFINE c == Overwritten({d}) \cup Because("copied", Private(n))
<1>1. d \in Fd /\ n \in Fd /\ fds \in Table /\ TypeOK
  BY Words DEF Inv, TypeOK
<1>2. c \in SUBSET Cause /\ Trod(c)
  BY Words DEF DupForGood, Overwritten, Cause
<1>3. Clean' => ~Private(d)
  BY <1>1, <1>2, Causes, Words DEF Cause, Overwritten
<1>4. Listing /\ ForGood({d}, fds[n]) /\ fds' = [fds EXCEPT ![d] = fds[n]]
  BY DEF DupForGood
<1> HIDE DEF c
<1>5. fds[n] \in Content
  BY <1>1 DEF Table, Content
<1>6. fds' = [q \in Fd |-> IF q \in {d} THEN fds[n] ELSE fds[q]] /\ fds' \in Table
  BY <1>1, <1>4 DEF Table
<1>7. trod \subseteq trod' /\ trod' \subseteq Cause
  BY <1>1, <1>2, Causes
<1>8. QED
  BY <1>1, <1>3, <1>4, <1>5, <1>6, <1>7, GoodStep

\* `exec d>&-'.
LEMMA CloseForGoodStep ==
  ASSUME Inv, NEW d \in Named, CloseForGood(d)
  PROVE  Inv'
<1> DEFINE c == Overwritten({d})
<1>1. d \in Fd /\ fds \in Table /\ TypeOK /\ Closed \in Content
  BY Words, NoFdApart DEF Inv, TypeOK
<1>2. c \in SUBSET Cause /\ Trod(c)
  BY Words DEF CloseForGood, Overwritten, Cause
<1>3. Clean' => ~Private(d)
  BY <1>1, <1>2, Causes, Words DEF Cause, Overwritten
<1>4. Listing /\ ForGood({d}, Closed) /\ fds' = [fds EXCEPT ![d] = Closed]
  BY DEF CloseForGood
<1> HIDE DEF c
<1>5. fds' = [q \in Fd |-> IF q \in {d} THEN Closed ELSE fds[q]] /\ fds' \in Table
  BY <1>1, <1>4 DEF Table
<1>6. trod \subseteq trod' /\ trod' \subseteq Cause
  BY <1>1, <1>2, Causes
<1>7. QED
  BY <1>1, <1>3, <1>4, <1>5, <1>6, GoodStep

\* `{v}> f': a descriptor that was free holds no save.
LEMMA NameOpenStep ==
  ASSUME Inv, NEW x \in Path, NameOpen(x)
  PROVE  Inv'
<1> DEFINE hi == LowestFrom(High, Opened(x))
           d == IF hi = NoFd THEN Lowest(fds) ELSE hi
<1>1. x \in File /\ x \in Content /\ fds \in Table /\ Lowest(fds) # NoFd /\ TypeOK
  BY Words DEF Inv, TypeOK, NameOpen
<1>2. Listing /\ ForGood({d}, x) /\ fds' = [fds EXCEPT ![d] = x] /\ trod' = trod
  BY DEF NameOpen
<1>3. d \in Fd /\ fds[d] = Closed
  BY <1>1, OpenedTable, LowestFree
<1> HIDE DEF d
<1>4. fds' = [q \in Fd |-> IF q \in {d} THEN x ELSE fds[q]] /\ fds' \in Table
  BY <1>1, <1>2, <1>3 DEF Table
<1>5. Clean' => Clean
  BY <1>2 DEF Clean
<1>6. Clean' => \A q \in {d} : ~Private(q)
  BY <1>3, <1>5, FreeNotPrivate
<1>7. trod \subseteq trod' /\ trod' \subseteq Cause
  BY <1>1, <1>2 DEF TypeOK
<1>8. {d} \in SUBSET Fd
  BY <1>3
<1>9. QED
  BY <1>1, <1>2, <1>4, <1>6, <1>7, <1>8, GoodStep

\* `{v}>&n'.
LEMMA NameDupStep ==
  ASSUME Inv, NEW n \in Named, NameDup(n)
  PROVE  Inv'
<1> DEFINE d == LowestFrom(High, fds)
           c == Because("copied", Private(n))
<1>1. n \in Fd /\ fds \in Table /\ d # NoFd /\ TypeOK
  BY Words DEF Inv, TypeOK, NameDup
<1>2. c \in SUBSET Cause /\ Trod(c)
  BY Words DEF NameDup, Cause
<1>3. Listing /\ ForGood({d}, fds[n]) /\ fds' = [fds EXCEPT ![d] = fds[n]]
  BY DEF NameDup
<1>4. d \in Fd /\ fds[d] = Closed
  BY <1>1, LowestFree
<1> HIDE DEF c, d
<1>5. fds[n] \in Content
  BY <1>1 DEF Table, Content
<1>6. fds' = [q \in Fd |-> IF q \in {d} THEN fds[n] ELSE fds[q]] /\ fds' \in Table
  BY <1>1, <1>3, <1>4 DEF Table
<1>7. trod \subseteq trod' /\ trod' \subseteq Cause
  BY <1>1, <1>2, Causes
<1>8. Clean' => Clean
  BY <1>7 DEF Clean
<1>9. Clean' => \A q \in {d} : ~Private(q)
  BY <1>4, <1>8, FreeNotPrivate
<1>10. {d} \in SUBSET Fd
  BY <1>4
<1>11. QED
  BY <1>3, <1>5, <1>6, <1>7, <1>9, <1>10, GoodStep
-----------------------------------------------------------------------------
(* Calls, their ends and the undoing. *)

\* A step that leaves the chain alone and turns a frame's phase.
LEMMA PhaseStep ==
  ASSUME Inv, frames # <<>>, NEW f \in Frame, SetLast(f), f.base = Last.base,
         UNCHANGED <<fds, saves, past, plain, trod>>
  PROVE  Inv'
<1>1. /\ TypeOK /\ saves \in Seq(Save) /\ past \in Seq(Table)
      /\ Len(past) = Len(saves) /\ fds \in Table /\ plain \in Table
      /\ trod \subseteq Cause /\ Len(saves) <= Len(saves)
  BY DEF Inv, TypeOK
<1>2. TypeOK'
  BY <1>1, TurnType
<1>3. QED
  BY <1>2, Carry

\* The last frame, and its base.
LEMMA LastFrame ==
  ASSUME TypeOK, frames # <<>>
  PROVE  /\ Last \in Frame /\ Last.base \in Nat /\ Last.base <= Len(saves)
         /\ \A p \in Phase : [Last EXCEPT !.phase = p] \in Frame
                             /\ [Last EXCEPT !.phase = p].base = Last.base
         /\ \A p \in Phase : [Last EXCEPT !.ok = FALSE, !.phase = p] \in Frame
                             /\ [Last EXCEPT !.ok = FALSE, !.phase = p].base = Last.base
<1>1. Last \in Frame /\ Last.base <= Len(saves)
  BY DEF TypeOK, Last
<1>2. QED
  BY <1>1 DEF Frame

\* A call ends: the saves above its base are gone.
LEMMA LeaveType ==
  ASSUME TypeOK, frames # <<>>, Leave,
         fds' \in Table, plain' \in Table, saves' \in Seq(Save),
         past' \in Seq(Table), Len(past') = Len(saves'),
         Last.base <= Len(saves'), trod' \subseteq Cause
  PROVE  TypeOK'
<1> DEFINE N == Len(frames)
<1>1. frames \in Seq(Frame) /\ N \in Nat \ {0} /\ DOMAIN frames = 1..N
  BY DEF TypeOK
<1>2. /\ \A k \in 1..N : frames[k].base \in Nat /\ frames[k].base <= frames[N].base
      /\ \A k \in 1..N : \A h \in 1..k : frames[h].base <= frames[k].base
      /\ \A k \in 1..N - 1 : frames[k].phase = "body"
  <2>1. \A k \in 1..N : frames[k] \in Frame
    BY <1>1
  <2>2. \A k \in 1..N : frames[k].base \in Nat
    BY <2>1 DEF Frame
  <2>3. \A k \in 1..N : \A h \in 1..k : frames[h].base <= frames[k].base
    BY <1>1 DEF TypeOK
  <2>4. \A k \in 1..N - 1 : frames[k].phase = "body"
    BY DEF TypeOK
  <2> HIDE DEF N
  <2>5. N \in 1..N /\ \A k \in 1..N : k \in 1..N
    BY <1>1
  <2>6. \A k \in 1..N : frames[k].base <= frames[N].base
    BY <2>3, <2>5
  <2>7. QED
    BY <2>2, <2>3, <2>4, <2>6
<1>3. frames' = SubSeq(frames, 1, N - 1) /\ Last = frames[N]
  BY DEF Leave, Last
<1> HIDE DEF N
<1>4. /\ frames' \in Seq(Frame) /\ Len(frames') = N - 1 /\ DOMAIN frames' = 1..N - 1
      /\ \A k \in 1..N - 1 : frames'[k] = frames[k]
  BY <1>1, <1>3
<1>5. Len(saves') \in Nat
  OBVIOUS
<1>6. \A k \in 1..N - 1 : frames'[k].base <= Len(saves')
  <2> SUFFICES ASSUME NEW k \in 1..N - 1 PROVE frames'[k].base <= Len(saves')
    OBVIOUS
  <2>1. k \in 1..N /\ N \in 1..N
    BY <1>1
  <2>2. frames[k].base <= frames[N].base /\ frames[k].base \in Nat /\ frames[N].base \in Nat
    BY <1>2, <2>1
  <2>3. frames'[k] = frames[k]
    BY <1>4
  <2>4. frames[N].base <= Len(saves')
    BY <1>3
  <2>5. QED
    BY <1>5, <2>2, <2>3, <2>4
<1>7. \A k \in 1..N - 1 : \A h \in 1..k : frames'[h].base <= frames'[k].base
  <2> SUFFICES ASSUME NEW k \in 1..N - 1, NEW h \in 1..k
               PROVE  frames'[h].base <= frames'[k].base
    OBVIOUS
  <2>1. h \in 1..N - 1 /\ k \in 1..N
    BY <1>1
  <2>2. QED
    BY <1>2, <1>4, <2>1
<1>8. \A k \in 1..N - 2 : frames'[k].phase = "body"
  <2> SUFFICES ASSUME NEW k \in 1..N - 2 PROVE frames'[k].phase = "body"
    OBVIOUS
  <2>1. k \in 1..N - 1
    BY <1>1
  <2>2. QED
    BY <1>2, <1>4, <2>1
<1>9. Len(frames') - 1 = N - 2
  BY <1>1, <1>4
<1>10. QED
  BY <1>4, <1>6, <1>7, <1>8, <1>9 DEF TypeOK

\* A call begins.
LEMMA BeginStep ==
  ASSUME Inv, NEW k \in Kind, Begin(k)
  PROVE  Inv'
<1> DEFINE N == Len(frames)
           f == [kind |-> k, phase |-> "list", base |-> Len(saves), ok |-> TRUE]
<1>1. frames \in Seq(Frame) /\ N \in Nat /\ DOMAIN frames = 1..N /\ Len(saves) \in Nat
  BY DEF Inv, TypeOK
<1>2. f \in Frame /\ f.base = Len(saves)
  BY <1>1 DEF Frame, Phase
<1>3. /\ \A h \in 1..N : frames[h].base <= Len(saves)
      /\ \A j \in 1..N : \A h \in 1..j : frames[h].base <= frames[j].base
      /\ \A j \in 1..N : frames[j].phase = "body"
  <2>1. \A j \in 1..N - 1 : frames[j].phase = "body"
    BY DEF Inv, TypeOK
  <2>2. N # 0 => frames[N].phase = "body"
    BY <1>1 DEF Begin, Last
  <2>3. \A j \in 1..N : frames[j].phase = "body"
    BY <1>1, <2>1, <2>2
  <2>4. QED
    BY <1>1, <2>3 DEF Inv, TypeOK
<1>4. frames' = Append(frames, f) /\ UNCHANGED <<fds, saves, past, plain, trod>>
  BY DEF Begin
<1> HIDE DEF N, f
<1>5. /\ frames' \in Seq(Frame) /\ Len(frames') = N + 1 /\ DOMAIN frames' = 1..N + 1
      /\ \A j \in 1..N : frames'[j] = frames[j]
      /\ frames'[N + 1] = f
  BY <1>1, <1>2, <1>4 DEF N
<1>6. \A j \in 1..N + 1 : frames'[j].base <= Len(saves)
  BY <1>1, <1>2, <1>3, <1>5
<1>7. \A j \in 1..N + 1 : \A h \in 1..j : frames'[h].base <= frames'[j].base
  <2> SUFFICES ASSUME NEW j \in 1..N + 1, NEW h \in 1..j
               PROVE  frames'[h].base <= frames'[j].base
    OBVIOUS
  <2>1. CASE j = N + 1
    BY <1>1, <1>2, <1>5, <1>6, <2>1
  <2>2. CASE j \in 1..N
    <3>1. h \in 1..N
      BY <1>1, <2>2
    <3>2. QED
      BY <1>3, <1>5, <2>2, <3>1
  <2>3. QED
    BY <1>1, <2>1, <2>2
<1>8. \A j \in 1..N : frames'[j].phase = "body"
  BY <1>3, <1>5
<1>9. Len(frames') - 1 = N
  BY <1>1, <1>5
<1>10. TypeOK'
  BY <1>4, <1>5, <1>6, <1>7, <1>8, <1>9 DEF Inv, TypeOK
<1>11. QED
  BY <1>4, <1>10, Carry

\* Taking a save back leaves a table a table.
LEMMA BackTable ==
  ASSUME NEW e \in Save, NEW t \in Table
  PROVE  Back(e, t) \in Table
  BY DEF Back, Save, Table

\* rd_undo takes back one save.
LEMMA UndoStep ==
  ASSUME Inv, Undo
  PROVE  Inv'
<1> DEFINE n == Len(saves)
<1>1. /\ saves \in Seq(Save) /\ past \in Seq(Table) /\ Len(past) = n
      /\ fds \in Table /\ plain \in Table /\ trod \subseteq Cause
      /\ frames \in Seq(Frame) /\ TypeOK /\ DOMAIN frames = 1..Len(frames)
      /\ Len(frames) \in Nat
  BY DEF Inv, TypeOK
<1>2. Last \in Frame /\ Last.base \in Nat /\ n \in Nat /\ n > Last.base /\ frames # <<>>
  <2>1. frames # <<>> /\ n > Last.base
    BY DEF Undo
  <2>2. Last \in Frame /\ Last.base \in Nat
    BY <1>1, <2>1, LastFrame
  <2>3. n \in Nat
    BY <1>1
  <2>4. QED
    BY <2>1, <2>2, <2>3
<1>3. /\ fds' = Back(saves[n], fds) /\ saves' = SubSeq(saves, 1, n - 1)
      /\ past' = SubSeq(past, 1, n - 1)
      /\ UNCHANGED <<frames, plain, trod>>
  BY <1>1 DEF Undo
<1>4. saves[n] \in Save /\ fds' \in Table
  BY <1>1, <1>2, <1>3, BackTable
<1>5. /\ saves' \in Seq(Save) /\ past' \in Seq(Table)
      /\ Len(saves') = n - 1 /\ Len(past') = n - 1
  BY <1>1, <1>2, <1>3
<1>6. \A k \in DOMAIN frames : frames[k].base <= n - 1
  <2> SUFFICES ASSUME NEW k \in DOMAIN frames PROVE frames[k].base <= n - 1
    OBVIOUS
  <2>1. frames[k] \in Frame /\ Last = frames[Len(frames)]
    BY <1>1 DEF Last
  <2>2. k \in 1..Len(frames) /\ Len(frames) \in DOMAIN frames
    BY <1>1, <1>2
  <2>3. frames[k].base <= Last.base
    BY <1>1, <2>1, <2>2 DEF TypeOK
  <2>4. frames[k].base \in Nat
    BY <2>1 DEF Frame
  <2> HIDE DEF n
  <2>5. QED
    BY <1>2, <2>3, <2>4
<1> HIDE DEF n
<1>7. TypeOK'
  BY <1>1, <1>3, <1>4, <1>5, <1>6 DEF TypeOK
<1>8. ASSUME Chain(saves, past, fds, plain)
      PROVE  Chain(saves', past', fds', plain')
  <2>1. Len(saves) > 0 /\ Len(past) = Len(saves)
    BY <1>1, <1>2 DEF n
  <2>2. Chain(SubSeq(saves, 1, Len(saves) - 1), SubSeq(past, 1, Len(past) - 1),
              Back(saves[Len(saves)], fds), plain)
    BY <1>8, <2>1, Pop
  <2>3. QED
    BY <1>3, <2>1, <2>2 DEF n
<1>9. QED
  BY <1>3, <1>7, <1>8, Carry

\* A bare command lets its saves go; without any, nothing is lost.
LEMMA LetGoStep ==
  ASSUME Inv, LetGo
  PROVE  Inv'
<1> DEFINE n == Len(saves)
           b == Last.base
           c == Because("dropped", n > b)
<1>1. /\ saves \in Seq(Save) /\ past \in Seq(Table) /\ Len(past) = n
      /\ fds \in Table /\ plain \in Table /\ TypeOK /\ frames # <<>> /\ Leave
  BY DEF Inv, TypeOK, LetGo, Returned
<1>2. b \in Nat /\ n \in Nat /\ b <= n
  <2>1. b \in Nat /\ b <= n
    BY <1>1, LastFrame
  <2>2. n \in Nat
    BY <1>1
  <2>3. QED
    BY <2>1, <2>2
<1>3. c \in SUBSET Cause /\ Trod(c)
  BY Words DEF LetGo, Cause
<1>4. trod' \subseteq Cause /\ trod \subseteq trod' /\ (Clean' => ~(n > b))
  BY <1>1, <1>3, Causes, Words DEF Cause
<1>5. /\ saves' = SubSeq(saves, 1, b) /\ past' = SubSeq(past, 1, b)
      /\ fds' = fds /\ plain' = plain
  BY DEF LetGo
<1> HIDE DEF n, b, c
<1>6. /\ saves' \in Seq(Save) /\ past' \in Seq(Table)
      /\ Len(saves') = b /\ Len(past') = b
  BY <1>1, <1>2, <1>5 DEF n
<1>7. TypeOK'
  BY <1>1, <1>2, <1>4, <1>5, <1>6, LeaveType DEF b
<1>8. Clean' => saves' = saves /\ past' = past
  <2>1. Clean' => b = n
    BY <1>2, <1>4
  <2>2. SubSeq(saves, 1, n) = saves /\ SubSeq(past, 1, n) = past
    BY <1>1 DEF n
  <2>3. QED
    BY <1>5, <2>1, <2>2
<1>9. QED
  BY <1>4, <1>5, <1>7, <1>8, Carry

\* A call that ends with nothing of its own saved.
LEMMA EndStep ==
  ASSUME Inv, Lasts \/ Undone
  PROVE  Inv'
<1>1. /\ frames # <<>> /\ Leave /\ UNCHANGED <<fds, saves, past, plain, trod>> /\ TypeOK
  BY DEF Inv, Lasts, Undone, Returned
<1>2. /\ fds' \in Table /\ plain' \in Table /\ saves' \in Seq(Save)
      /\ past' \in Seq(Table) /\ Len(past') = Len(saves')
      /\ Last.base <= Len(saves') /\ trod' \subseteq Cause
  BY <1>1, LastFrame DEF TypeOK
<1>3. TypeOK'
  BY <1>1, <1>2, LeaveType
<1>4. QED
  BY <1>1, <1>3, Carry

\* Every step keeps the invariant.
LEMMA InvStep == Inv /\ [Next]_vars => Inv'
<1> SUFFICES ASSUME Inv, [Next]_vars PROVE Inv'
  OBVIOUS
<1>1. CASE \E k \in Kind : Begin(k)
  BY <1>1, BeginStep
<1>2. CASE \E d \in Named, x \in Path : OpenKept(d, x) \/ OpenForGood(d, x)
  BY <1>2, OpenKeptStep, OpenForGoodStep
<1>3. CASE \E x \in Path : \/ OpenBothKept(x) \/ OpenBothForGood(x)
                           \/ WordKept(x) \/ WordForGood(x) \/ NameOpen(x)
  BY <1>3, OpenBothKeptStep, OpenBothForGoodStep, WordKeptStep, WordForGoodStep,
     NameOpenStep
<1>4. CASE \E d, n \in Named : DupKept(d, n) \/ DupForGood(d, n)
  BY <1>4, DupKeptStep, DupForGoodStep
<1>5. CASE \E d \in Named : CloseKept(d) \/ CloseForGood(d) \/ NameDup(d)
  BY <1>5, CloseKeptStep, CloseForGoodStep, NameDupStep
<1>6. CASE ItemFails
  <2>1. Listing /\ Went(FALSE) /\ UNCHANGED <<fds, saves, past, plain, trod>>
    BY <1>6 DEF ItemFails
  <2>2. TypeOK /\ frames # <<>>
    BY <2>1 DEF Inv, Listing
  <2>3. PICK f \in Frame : SetLast(f) /\ f.base = Last.base
    BY <2>1, <2>2, WentType
  <2>4. QED
    BY <2>1, <2>2, <2>3, PhaseStep
<1>7. CASE OpenFails
  <2>1. TypeOK /\ frames # <<>> /\ "listed" \in Phase
    BY <1>7 DEF Inv, OpenFails, Listing, Phase
  <2>2. QED
    BY <1>7, <2>1, LastFrame, PhaseStep DEF OpenFails
<1>8. CASE RunBody \/ GiveBack \/ BodyEnds
  <2>1. TypeOK /\ frames # <<>> /\ "body" \in Phase /\ "undo" \in Phase
    BY <1>8 DEF Inv, RunBody, GiveBack, BodyEnds, Returned, Phase
  <2>2. \E p \in Phase : SetLast([Last EXCEPT !.phase = p])
    BY <1>8, <2>1 DEF RunBody, GiveBack, BodyEnds
  <2>3. UNCHANGED <<fds, saves, past, plain, trod>>
    BY <1>8 DEF RunBody, GiveBack, BodyEnds
  <2>4. QED
    BY <2>1, <2>2, <2>3, LastFrame, PhaseStep
<1>9. CASE LetGo
  BY <1>9, LetGoStep
<1>10. CASE Lasts \/ Undone
  BY <1>10, EndStep
<1>11. CASE Undo
  BY <1>11, UndoStep
<1>12. CASE UNCHANGED vars
  BY <1>12 DEF Inv, TypeOK, Unwinds, Held, Above, Clean, vars
<1>13. QED
  BY <1>1, <1>2, <1>3, <1>4, <1>5, <1>6, <1>7, <1>8, <1>9, <1>10, <1>11, <1>12
     DEF Next, Item

\* The invariant holds when the shell starts.
LEMMA InvInit == Init => Inv
  BY RedirectionsAssumption DEF Init, Inv, TypeOK, Unwinds, Held, Above, Cause, Clean

-----------------------------------------------------------------------------
(* Outside every call nothing is saved: the outermost call began with no   *)
(* saves, each call ends with those it began with, and exec makes none.    *)

Based ==
  /\ frames = <<>> => saves = <<>>
  /\ frames # <<>> => frames[1].base = 0
  /\ \A k \in DOMAIN frames : frames[k].kind = "exec" =>
       /\ k = Len(frames) /\ frames[k].phase \in {"list", "listed"}
       /\ Len(saves) = frames[k].base

\* A turn of the list, or a turn of phase.
LEMMA TurnBased ==
  ASSUME TypeOK, Based, frames # <<>>, NEW f \in Frame, SetLast(f),
         f.base = Last.base, f.kind = Last.kind,
         Last.kind = "exec" => f.phase \in {"list", "listed"} /\ saves' = saves
  PROVE  Based'
<1> DEFINE N == Len(frames)
<1>1. /\ frames' \in Seq(Frame) /\ Len(frames') = N
      /\ DOMAIN frames' = 1..N /\ N \in Nat \ {0} /\ DOMAIN frames = 1..N
      /\ \A k \in 1..N : frames'[k].base = frames[k].base
      /\ \A k \in 1..N - 1 : frames'[k] = frames[k]
  BY SetLastType DEF TypeOK
<1>2. frames'[N] = f /\ Last = frames[N]
  <2>1. frames' = [frames EXCEPT ![N] = f]
    BY DEF SetLast
  <2>2. N \in DOMAIN frames
    <3>1. N \in Nat \ {0} /\ DOMAIN frames = 1..N
      BY <1>1
    <3> HIDE DEF N
    <3>2. QED
      BY <3>1
  <2> HIDE DEF N
  <2>3. frames'[N] = f
    BY <2>1, <2>2
  <2>4. QED
    BY <2>3 DEF Last, N
<1>3. frames' # <<>> /\ frames'[1].base = 0
  BY <1>1 DEF Based
<1>4. \A k \in 1..N : frames[k].kind = "exec" =>
        /\ k = N /\ frames[k].phase \in {"list", "listed"}
        /\ Len(saves) = frames[k].base
  BY <1>1 DEF Based
<1> HIDE DEF N
<1>5. ASSUME NEW k \in 1..N, frames'[k].kind = "exec"
      PROVE  /\ k = N /\ frames'[k].phase \in {"list", "listed"}
             /\ Len(saves') = frames'[k].base
  <2>1. CASE k = N
    BY <1>1, <1>2, <1>4, <1>5, <2>1
  <2>2. CASE k \in 1..N - 1
    BY <1>1, <1>4, <1>5, <2>2
  <2>3. QED
    BY <1>1, <2>1, <2>2
<1>6. QED
  BY <1>1, <1>3, <1>5 DEF Based

\* A call ends with the saves it began with.
LEMMA LeaveBased ==
  ASSUME TypeOK, Based, frames # <<>>, Leave, saves' \in Seq(Save),
         Len(saves') = Last.base
  PROVE  Based'
<1> DEFINE N == Len(frames)
<1>1. /\ frames \in Seq(Frame) /\ N \in Nat \ {0} /\ DOMAIN frames = 1..N
      /\ frames' = SubSeq(frames, 1, N - 1) /\ Last = frames[N]
  BY DEF TypeOK, Leave, Last
<1>2. \A k \in 1..N : frames[k].kind = "exec" => k = N
  BY <1>1 DEF Based
<1>3. frames[1].base = 0
  BY DEF Based
<1> HIDE DEF N
<1>4. /\ frames' \in Seq(Frame) /\ Len(frames') = N - 1 /\ DOMAIN frames' = 1..N - 1
      /\ \A k \in 1..N - 1 : frames'[k] = frames[k]
  BY <1>1
<1>5. \A k \in 1..N - 1 : frames'[k].kind # "exec"
  BY <1>1, <1>2, <1>4
<1>6. frames' = <<>> => saves' = <<>>
  <2>1. frames' = <<>> => N = 1
    BY <1>1, <1>4
  <2>2. N = 1 => Len(saves') = 0
    BY <1>1, <1>3
  <2>3. Len(saves') = 0 => saves' = <<>>
    OBVIOUS
  <2>4. QED
    BY <2>1, <2>2, <2>3
<1>7. frames' # <<>> => frames'[1].base = 0
  BY <1>1, <1>3, <1>4
<1>8. QED
  BY <1>4, <1>5, <1>6, <1>7 DEF Based

\* One redirection of a list.
LEMMA ItemBased ==
  ASSUME TypeOK, Based, Listing, NEW ok \in BOOLEAN, Went(ok),
         Keeping \/ saves' = saves
  PROVE  Based'
<1>1. frames # <<>> /\ Last \in Frame /\ Last.phase = "list"
  BY LastFrame DEF Listing
<1> DEFINE f == [Last EXCEPT !.ok = @ /\ ok]
<1>2. f \in Frame /\ f.base = Last.base /\ f.kind = Last.kind /\ f.phase = "list"
  BY <1>1 DEF Frame
<1>3. SetLast(f)
  BY DEF Went
<1> HIDE DEF f
<1>4. QED
  BY <1>1, <1>2, <1>3, TurnBased DEF Keeping

\* A call that turns to its body, or to the undoing, is not exec.
LEMMA PhaseBased ==
  ASSUME TypeOK, Based, frames # <<>>, NEW p \in Phase,
         SetLast([Last EXCEPT !.phase = p]), Last.kind # "exec"
  PROVE  Based'
<1> DEFINE f == [Last EXCEPT !.phase = p]
<1>1. f \in Frame /\ f.base = Last.base
  BY LastFrame
<1>2. f.kind = Last.kind
  BY LastFrame DEF Frame
<1> HIDE DEF f
<1>3. QED
  BY <1>1, <1>2, TurnBased DEF f

\* Every step keeps it.
LEMMA BasedStep == TypeOK /\ Based /\ [Next]_vars => Based'
<1> SUFFICES ASSUME TypeOK, Based, [Next]_vars PROVE Based'
  OBVIOUS
<1>1. ASSUME NEW k \in Kind, Begin(k)
      PROVE  Based'
  <2> DEFINE N == Len(frames)
             f == [kind |-> k, phase |-> "list", base |-> Len(saves), ok |-> TRUE]
  <2>1. /\ frames \in Seq(Frame) /\ N \in Nat /\ DOMAIN frames = 1..N
        /\ saves \in Seq(Save) /\ Len(saves) \in Nat
    BY DEF TypeOK
  <2>2. f \in Frame /\ f.base = Len(saves) /\ f.phase = "list"
    BY <2>1, <1>1 DEF Frame, Phase
  <2>3. frames' = Append(frames, f) /\ saves' = saves
    BY <1>1 DEF Begin
  <2>4. N = 0 => Len(saves) = 0
    BY <2>1 DEF Based
  <2>5. \A j \in 1..N : frames[j].kind # "exec"
    <3>1. \A j \in 1..N : frames[j].kind = "exec" => j = N /\ frames[j].phase # "body"
      BY <2>1 DEF Based
    <3>2. N # 0 => frames[N].phase = "body"
      BY <1>1, <2>1 DEF Begin, Last
    <3>3. \A j \in 1..N : N # 0
      BY <2>1
    <3> HIDE DEF N
    <3>4. QED
      BY <3>1, <3>2, <3>3
  <2>6. N # 0 => frames[1].base = 0
    BY <2>1 DEF Based
  <2> HIDE DEF N, f
  <2>7. /\ Len(frames') = N + 1 /\ DOMAIN frames' = 1..N + 1 /\ frames' # <<>>
        /\ \A j \in 1..N : frames'[j] = frames[j]
        /\ frames'[N + 1] = f
    BY <2>1, <2>2, <2>3 DEF N
  <2>8. frames'[1].base = 0
    <3>1. CASE N = 0
      BY <2>2, <2>4, <2>7, <3>1
    <3>2. CASE N # 0
      BY <2>1, <2>6, <2>7, <3>2
    <3>3. QED
      BY <3>1, <3>2
  <2>9. ASSUME NEW j \in 1..N + 1, frames'[j].kind = "exec"
        PROVE  /\ j = N + 1 /\ frames'[j].phase \in {"list", "listed"}
               /\ Len(saves') = frames'[j].base
    <3>1. j = N + 1
      BY <2>1, <2>5, <2>7, <2>9
    <3>2. QED
      BY <2>2, <2>3, <2>7, <3>1
  <2>10. QED
    BY <2>7, <2>8, <2>9 DEF Based
<1>2. CASE \E d \in Named, x \in Path : OpenKept(d, x) \/ OpenForGood(d, x)
  BY <1>2, ItemBased DEF OpenKept, OpenForGood, ForGood
<1>3. CASE \E x \in Path : \/ OpenBothKept(x) \/ OpenBothForGood(x)
                           \/ WordKept(x) \/ WordForGood(x) \/ NameOpen(x)
  BY <1>3, ItemBased
     DEF OpenBothKept, OpenBothForGood, WordKept, WordForGood, NameOpen, ForGood
<1>4. CASE \E d, n \in Named : DupKept(d, n) \/ DupForGood(d, n)
  BY <1>4, ItemBased DEF DupKept, DupForGood, ForGood
<1>5. CASE \E d \in Named : CloseKept(d) \/ CloseForGood(d) \/ NameDup(d)
  BY <1>5, ItemBased DEF CloseKept, CloseForGood, NameDup, ForGood
<1>6. CASE ItemFails
  BY <1>6, ItemBased DEF ItemFails
<1>7. CASE OpenFails
  <2>1. frames # <<>> /\ Last \in Frame
    BY <1>7, LastFrame DEF OpenFails, Listing
  <2> DEFINE f == [Last EXCEPT !.ok = FALSE, !.phase = "listed"]
  <2>2. f \in Frame /\ f.base = Last.base /\ f.kind = Last.kind /\ f.phase = "listed"
    BY <2>1 DEF Frame, Phase
  <2>3. SetLast(f) /\ saves' = saves
    BY <1>7 DEF OpenFails
  <2> HIDE DEF f
  <2>4. QED
    BY <2>1, <2>2, <2>3, TurnBased
<1>8. CASE RunBody \/ GiveBack \/ BodyEnds
  <2>1. frames # <<>> /\ "body" \in Phase /\ "undo" \in Phase
    BY <1>8 DEF RunBody, GiveBack, BodyEnds, Returned, Phase
  <2>2. \E p \in Phase : SetLast([Last EXCEPT !.phase = p])
    BY <1>8, <2>1 DEF RunBody, GiveBack, BodyEnds
  <2>3. Last.kind # "exec"
    <3>1. DOMAIN frames = 1..Len(frames) /\ Len(frames) \in DOMAIN frames
      BY <2>1 DEF TypeOK
    <3>2. Last.kind = "exec" => Last.phase \in {"list", "listed"}
      BY <3>1 DEF Based, Last
    <3>3. QED
      BY <1>8, <3>2 DEF RunBody, GiveBack, BodyEnds
  <2>4. QED
    BY <2>1, <2>2, <2>3, PhaseBased
<1>9. CASE LetGo
  <2>1. /\ frames # <<>> /\ Leave /\ saves' = SubSeq(saves, 1, Last.base)
        /\ saves \in Seq(Save)
    BY <1>9 DEF LetGo, Returned, TypeOK
  <2>2. Last.base \in Nat /\ Last.base <= Len(saves)
    BY <2>1, LastFrame
  <2>3. saves' \in Seq(Save) /\ Len(saves') = Last.base
    BY <2>1, <2>2
  <2>4. QED
    BY <2>1, <2>3, LeaveBased
<1>10. CASE Lasts
  <2>1. frames # <<>> /\ Leave /\ saves' = saves /\ Last.kind = "exec" /\ saves \in Seq(Save)
    BY <1>10 DEF Lasts, Returned, TypeOK
  <2>2. DOMAIN frames = 1..Len(frames) /\ Len(frames) \in DOMAIN frames
    BY <2>1 DEF TypeOK
  <2>3. Len(saves) = Last.base
    BY <2>1, <2>2 DEF Based, Last
  <2>4. QED
    BY <2>1, <2>3, LeaveBased
<1>11. CASE Undone
  <2>1. frames # <<>> /\ Leave /\ saves' = saves /\ Len(saves) = Last.base /\ saves \in Seq(Save)
    BY <1>11 DEF Undone, TypeOK
  <2>2. QED
    BY <2>1, LeaveBased
<1>12. CASE Undo
  <2>1. frames # <<>> /\ Last.phase = "undo" /\ frames' = frames
    BY <1>12 DEF Undo
  <2>2. DOMAIN frames = 1..Len(frames) /\ Len(frames) \in DOMAIN frames
    BY <2>1 DEF TypeOK
  <2>3. \A k \in DOMAIN frames : frames[k].kind # "exec"
    BY <2>1, <2>2 DEF Based, Last
  <2>4. QED
    BY <2>1, <2>3 DEF Based
<1>13. CASE UNCHANGED vars
  BY <1>13 DEF Based, vars
<1>14. QED
  BY <1>1, <1>2, <1>3, <1>4, <1>5, <1>6, <1>7, <1>8, <1>9, <1>10, <1>11, <1>12, <1>13
     DEF Next, Item

-----------------------------------------------------------------------------
(* The theorems. *)

\* The table, the saves, the calls in progress and what they say of one
\* another keep their types: no call's saves lie below its caller's.
THEOREM TypeCorrect == Spec => []TypeOK
<1>1. Inv => TypeOK
  BY DEF Inv
<1>2. QED
  BY <1>1, InvInit, InvStep, PTL DEF Spec

\* For every limit, every nesting and every list: unless a descriptor has
\* been trodden on, rd_undo leads from where the shell is to the table each
\* save was made from, through every exec of the bodies between.
THEOREM UnwindsCorrect == Spec => []Unwinds
<1>1. Inv => Unwinds
  BY DEF Inv
<1>2. QED
  BY <1>1, InvInit, InvStep, PTL DEF Spec

\* The copy rd_save makes is still open when rd_undo needs it.
THEOREM HeldCorrect == Spec => []Held
<1>1. Inv => Held
  BY DEF Inv
<1>2. QED
  BY <1>1, InvInit, InvStep, PTL DEF Spec
\* Between commands the shell has the descriptors its exec and {v}
\* redirections have made, and no others, unless one was trodden on.
THEOREM RestoredCorrect == Spec => []Restored
<1>1. Init => Inv /\ Based
  BY InvInit DEF Init, Based
<1>2. Inv /\ Based /\ [Next]_vars => (Inv /\ Based)'
  BY InvStep, BasedStep DEF Inv
<1>3. Inv /\ Based => Restored
  <2> SUFFICES ASSUME Inv, Based, Clean, frames = <<>> PROVE fds = plain
    BY DEF Restored
  <2>1. Len(saves) = 0
    BY DEF Based
  <2>2. Above(0) = plain
    BY DEF Inv, Unwinds
  <2>3. QED
    BY <2>1, <2>2 DEF Above
<1>4. QED
  BY <1>1, <1>2, <1>3, PTL DEF Spec
=============================================================================
