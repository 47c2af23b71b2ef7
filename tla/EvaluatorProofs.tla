-------------------------- MODULE EvaluatorProofs --------------------------
(***************************************************************************)
(* The evaluator, for all scripts, depths and signals: what the stack of   *)
(* calls looks like, that no signal is forgotten, and that a break or a    *)
(* continue gets to the loop it is for and no further.                     *)
(***************************************************************************)
EXTENDS Evaluator, Positions, FiniteSetTheorems, SequenceTheorems

-----------------------------------------------------------------------------
(***************************************************************************)
(* The inductive invariant                                                 *)
(***************************************************************************)

\* Where a call waits for one that it made, and where it does not.
Paused(c) ==
  \/ c.k = "shell" /\ c.pc \in {"run", "exit"}
  \/ c.k = "text" /\ c.pc = "ran"
  \/ c.k = "sig" /\ c.pc = "handler"
  \/ c.k = "node" /\ c.pc = "handled"
  \/ c.k = "cmd" /\ c.pc \in {"debug", "try", "called", "err"}
  \/ c.k = "call" /\ c.pc \in {"body", "return"}
  \/ c.k = "seq" /\ c.pc \in {"item", "last"}
  \/ c.k = "grp" /\ c.pc = "last"
  \/ c.k \in Tests /\ c.pc \in {"tested", "last"}
  \/ c.k \in Loops /\ c.pc \in {"tested", "body"}
Active(c) ==
  \/ c.k = "shell" /\ c.pc = "ended"
  \/ c.k = "text" /\ c.pc = "line"
  \/ c.k = "sig" /\ c.pc = "scan"
  \/ c.k = "node" /\ c.pc = "enter"
  \/ c.k = "cmd" /\ c.pc \in {"start", "run", "check", "trip"}
  \/ c.k = "call" /\ c.pc = "unbound"
  \/ c.k \in Loops \cup Tests \cup {"call", "seq", "grp"} /\ c.pc = "start"

\* What a handler of DEBUG or RETURN found, and a call as it may be.
Saved(o) == Len(o) = 5 /\ o[1] \in 0 .. 1 /\ o[3] \in Nat /\ o[4] \in Nat
Sane(c) ==
  /\ c \in Call
  /\ c.k = "sig" => c.n > 0
  /\ (c.k = "cmd" /\ c.pc = "debug") \/ (c.k = "call" /\ c.pc = "return") => Saved(c.o)

\* The loops of a stack, up to a position, that a function has not put aside.
Counted(s, i) == {j \in 1 .. i : s[j].k \in Loops /\ \A h \in j .. i : s[h].k # "call"}
Level(s, i) == Cardinality(Counted(s, i))

\* A stack: the shell is outermost, a function keeps the loops there were
\* around it, every call but the innermost waits, and a node for handlers only.
ShapeOf(s, u) ==
  /\ s \in Seq(Call) /\ s # <<>>
  /\ \A i \in 1 .. Len(s) : /\ Sane(s[i])
                            /\ s[i].k = "shell" <=> i = 1
                            /\ s[i].k = "call" => s[i].n = Level(s, i - 1)
  /\ \A i \in 1 .. Len(s) - 1 : Paused(s[i]) /\ (s[i].k = "node" => s[i + 1].k = "sig")
  /\ IF u THEN Paused(s[Len(s)]) ELSE Active(s[Len(s)])

Types ==
  /\ script \in Scripts /\ up \in BOOLEAN
  /\ st \in 0 .. 1 /\ tst \in BOOLEAN
  /\ quit \in BOOLEAN /\ stop \in BOOLEAN /\ ret \in BOOLEAN
  /\ brk \in Nat /\ cont \in Nat
  /\ intry \in BOOLEAN
  /\ trap \in SUBSET {"ERR", "DEBUG", "RETURN", "EXIT"}
  /\ pend \in [Signals -> BOOLEAN] /\ any \in BOOLEAN /\ abline \in BOOLEAN
  /\ aim \in Int /\ aim >= -1
  /\ aim # 0 => Jumping

\* What a break or a continue may find between it and its loop, and that what
\* is left of its count takes it there.
Passable(c) ==
  /\ c.k \notin {"call", "sig", "shell"}
  /\ c.pc \notin {"start", "run", "debug"}
  /\ c.k = "node" => c.pc = "enter"
  /\ c.k \in Loops => c.pc = "body"
AimedOf(s, a, b, c, l) ==
  a > 0 =>
    /\ a \in 1 .. Len(s) /\ s[a].k \in Loops
    /\ \A i \in a .. Len(s) : Passable(s[i])
    /\ b = 0 \/ c = 0
    /\ b + c = l - Level(s, a) + 1

Frames == ShapeOf(stk, up) /\ loops = Level(stk, Depth) /\ AimedOf(stk, aim, brk, cont, loops)
EvInv == Types /\ Frames

-----------------------------------------------------------------------------
(***************************************************************************)
(* Stacks                                                                  *)
(***************************************************************************)

\* The three things that happen to a stack.
LEMMA Replaced ==
  ASSUME NEW s \in Seq(Call), s # <<>>, NEW c \in Call
  PROVE  LET t == [s EXCEPT ![Len(s)] = c]
         IN  /\ t \in Seq(Call) /\ t # <<>> /\ Len(t) = Len(s) /\ t[Len(s)] = c
             /\ \A i \in 1 .. Len(s) - 1 : t[i] = s[i]
<1>1. Len(s) \in Nat \ {0}
  OBVIOUS
<1> DEFINE t == [s EXCEPT ![Len(s)] = c]
<1>2. Len(s) \in 1 .. Len(s)
  BY <1>1
<1>3. /\ t \in Seq(Call) /\ Len(t) = Len(s)
      /\ \A j \in 1 .. Len(s) : t[j] = IF j = Len(s) THEN c ELSE s[j]
  BY <1>2, ExceptSeq
<1> HIDE DEF t
<1>4. t # <<>>
  BY <1>1, <1>3
<1>5. t[Len(s)] = c /\ \A i \in 1 .. Len(s) - 1 : t[i] = s[i]
  BY <1>1, <1>2, <1>3
<1>6. QED
  BY <1>3, <1>4, <1>5 DEF t

\* A call made goes on top of the ones there are.
LEMMA Appended ==
  ASSUME NEW s \in Seq(Call), NEW d \in Call
  PROVE  LET t == Append(s, d)
         IN  /\ t \in Seq(Call) /\ t # <<>> /\ Len(t) = Len(s) + 1 /\ t[Len(s) + 1] = d
             /\ \A i \in 1 .. Len(s) : t[i] = s[i]
  BY AppendProperties

\* A call that returns leaves the ones below it.
LEMMA Popped ==
  ASSUME NEW s \in Seq(Call), Len(s) > 1
  PROVE  LET t == SubSeq(s, 1, Len(s) - 1)
         IN  /\ t \in Seq(Call) /\ t # <<>> /\ Len(t) = Len(s) - 1
             /\ \A i \in 1 .. Len(s) - 1 : t[i] = s[i]
<1> DEFINE m == Len(s) - 1
           t == SubSeq(s, 1, m)
<1>1. m \in Nat \ {0} /\ \A i \in 1 .. m : s[i] \in Call
  <2>1. Len(s) \in Nat /\ m \in Nat \ {0} /\ m < Len(s)
    <3>1. Len(s) \in Nat
      OBVIOUS
    <3>2. \A k \in Nat : k > 1 => k - 1 \in Nat \ {0} /\ k - 1 < k
      OBVIOUS
    <3>3. QED
      BY <3>1, <3>2
  <2>2. \A i \in 1 .. m : i \in 1 .. Len(s)
    <3> HIDE DEF m
    <3>1. QED
      BY <2>1
  <2>3. \A i \in 1 .. Len(s) : s[i] \in Call
    OBVIOUS
  <2>4. QED
    BY <2>1, <2>2, <2>3
<1>2. /\ t \in Seq(Call) /\ Len(t) = IF 1 <= m THEN m - 1 + 1 ELSE 0
      /\ \A i \in 1 .. m - 1 + 1 : t[i] = s[1 + i - 1]
  <2> HIDE DEF m
  <2>1. m \in Int
    BY <1>1
  <2>2. QED
    BY <1>1, <2>1, SubSeqProperties
<1> HIDE DEF t, m
<1>3. t # <<>> /\ Len(t) = m /\ \A i \in 1 .. m : t[i] = s[i]
  BY <1>1, <1>2
<1>4. QED
  BY <1>2, <1>3 DEF t, m

-----------------------------------------------------------------------------
(***************************************************************************)
(* Counting loops                                                          *)
(***************************************************************************)

\* A level is a number.
LEMMA CountedFinite ==
  ASSUME NEW s, NEW i \in Nat
  PROVE  IsFiniteSet(Counted(s, i)) /\ Level(s, i) \in Nat
<1>1. IsFiniteSet(1 .. i)
  BY FS_Interval
<1>2. Counted(s, i) \in SUBSET (1 .. i)
  BY DEF Counted
<1>3. QED
  BY <1>1, <1>2, FS_Subset, FS_CardinalityType DEF Level

\* It depends on the calls' kinds up to the position.
LEMMA LevelSame ==
  ASSUME NEW s, NEW t, NEW i \in Nat, \A j \in 1 .. i : s[j].k = t[j].k
  PROVE  Level(s, i) = Level(t, i)
<1>1. Counted(s, i) = Counted(t, i)
  BY DEF Counted
<1>2. QED
  BY <1>1 DEF Level

\* None around nothing and in a new function, one more in a loop.
LEMMA LevelZero ==
  ASSUME NEW s
  PROVE  Level(s, 0) = 0
<1>1. Counted(s, 0) = {}
  BY DEF Counted
<1>2. QED
  BY <1>1, FS_EmptySet DEF Level

\* The level at a position from the one below it: a function begins at none, a
\* loop adds one.
LEMMA LevelStep ==
  ASSUME NEW s, NEW i \in Nat \ {0}
  PROVE  Level(s, i) = IF s[i].k = "call" THEN 0
                       ELSE IF s[i].k \in Loops THEN Level(s, i - 1) + 1
                       ELSE Level(s, i - 1)
<1>1. CASE s[i].k = "call"
  <2>1. Counted(s, i) = {}
    BY <1>1 DEF Counted
  <2>2. QED
    BY <1>1, <2>1, FS_EmptySet DEF Level
<1>2. CASE s[i].k # "call" /\ s[i].k \in Loops
  <2>1. Counted(s, i) = Counted(s, i - 1) \cup {i}
    BY <1>2 DEF Counted
  <2>2. i \notin Counted(s, i - 1)
    BY DEF Counted
  <2>3. IsFiniteSet(Counted(s, i - 1))
    BY CountedFinite
  <2>4. QED
    BY <1>2, <2>1, <2>2, <2>3, FS_AddElement DEF Level
<1>3. CASE s[i].k # "call" /\ s[i].k \notin Loops
  <2>1. Counted(s, i) = Counted(s, i - 1)
    BY <1>3 DEF Counted
  <2>2. QED
    BY <1>3, <2>1 DEF Level
<1>4. QED
  BY <1>1, <1>2, <1>3

\* Outside of functions it grows inwards, and a loop is one more.
LEMMA LevelGrows ==
  ASSUME NEW s, NEW i \in Nat \ {0}, NEW n \in Nat, i <= n,
         \A h \in i .. n : s[h].k # "call"
  PROVE  /\ Level(s, i) <= Level(s, n)
         /\ i < n /\ s[n].k \in Loops => Level(s, i) < Level(s, n)
<1>1. Counted(s, i) \subseteq Counted(s, n)
  BY DEF Counted
<1>2. IsFiniteSet(Counted(s, n)) /\ Level(s, i) \in Nat /\ Level(s, n) \in Nat
  BY CountedFinite
<1>3. Level(s, i) <= Level(s, n)
  BY <1>1, <1>2, FS_Subset DEF Level
<1>4. ASSUME i < n, s[n].k \in Loops
      PROVE  Level(s, i) < Level(s, n)
  <2>1. n \in Counted(s, n) /\ n \notin Counted(s, i)
    BY <1>4 DEF Counted
  <2>2. Level(s, i) # Level(s, n)
    BY <1>1, <1>2, <2>1, FS_Subset DEF Level
  <2>3. QED
    BY <1>2, <1>3, <2>2
<1>5. QED
  BY <1>3, <1>4

-----------------------------------------------------------------------------
(***************************************************************************)
(* A stack keeps its shape                                                 *)
(***************************************************************************)

\* What a stack's shape says of its innermost call.
LEMMA TopFacts ==
  ASSUME NEW s, NEW u \in BOOLEAN, ShapeOf(s, u)
  PROVE  /\ s \in Seq(Call) /\ Len(s) \in Nat \ {0}
         /\ s[Len(s)] \in Call /\ Sane(s[Len(s)])
         /\ s[Len(s)].k = "shell" <=> Len(s) = 1
         /\ s[Len(s)].k = "call" => s[Len(s)].n = Level(s, Len(s) - 1)
         /\ u => Paused(s[Len(s)])
         /\ ~u => Active(s[Len(s)])
<1>1. s \in Seq(Call) /\ Len(s) \in Nat \ {0}
  BY DEF ShapeOf
<1>2. Len(s) \in 1 .. Len(s)
  BY <1>1
<1>3. QED
  BY <1>1, <1>2 DEF ShapeOf, Sane

\* The innermost call becomes another of its kind, or a node one of a construct.
LEMMA BecomeShape ==
  ASSUME NEW s, NEW u \in BOOLEAN, ShapeOf(s, u),
         NEW c, Sane(c), Active(c),
         \/ c.k = s[Len(s)].k /\ (c.k = "call" => c.n = s[Len(s)].n)
         \/ s[Len(s)].k = "node" /\ c.k \notin {"shell", "call", "node"}
  PROVE  LET t == [s EXCEPT ![Len(s)] = c]
         IN  /\ ShapeOf(t, FALSE)
             /\ Level(t, Len(t)) = IF s[Len(s)].k = "node" /\ c.k \in Loops
                                   THEN Level(s, Len(s)) + 1 ELSE Level(s, Len(s))
<1> DEFINE n == Len(s)
           t == [s EXCEPT ![n] = c]
<1>1. s \in Seq(Call) /\ s # <<>> /\ c \in Call /\ n \in Nat \ {0}
  BY TopFacts DEF ShapeOf, Sane
<1>2. /\ t \in Seq(Call) /\ t # <<>> /\ Len(t) = n /\ t[n] = c
      /\ \A i \in 1 .. n - 1 : t[i] = s[i]
  BY <1>1, Replaced
<1> HIDE DEF t
<1>3. ASSUME NEW i \in 0 .. n - 1
      PROVE  Level(t, i) = Level(s, i)
  BY <1>1, <1>2, LevelSame
<1>4. ASSUME NEW i \in 1 .. n
      PROVE  /\ Sane(t[i])
             /\ t[i].k = "shell" <=> i = 1
             /\ t[i].k = "call" => t[i].n = Level(t, i - 1)
  <2>1. CASE i < n
    <3>1. t[i] = s[i] /\ i \in 1 .. Len(s) /\ i - 1 \in 0 .. n - 1
      BY <1>1, <1>2, <2>1
    <3>2. Level(t, i - 1) = Level(s, i - 1)
      BY <1>3, <3>1
    <3>3. QED
      BY <3>1, <3>2 DEF ShapeOf
  <2>2. CASE i = n
    <3>1. t[i] = c /\ i - 1 \in 0 .. n - 1
      BY <1>1, <1>2, <2>2
    <3>2. Level(t, i - 1) = Level(s, i - 1)
      BY <1>3, <3>1
    <3>3. s[n].k = "shell" <=> n = 1
      BY TopFacts
    <3>4. s[n].k = "call" => s[n].n = Level(s, n - 1)
      BY TopFacts
    <3>5. QED
      BY <2>2, <3>1, <3>2, <3>3, <3>4
  <2>3. QED
    BY <1>1, <2>1, <2>2
<1>5. ASSUME NEW i \in 1 .. n - 1
      PROVE  Paused(t[i]) /\ (t[i].k = "node" => t[i + 1].k = "sig")
  <2>1. t[i] = s[i] /\ Paused(s[i]) /\ (s[i].k = "node" => s[i + 1].k = "sig")
    BY <1>2 DEF ShapeOf
  <2>2. CASE i + 1 < n
    BY <1>1, <1>2, <2>1, <2>2
  <2>3. CASE i + 1 = n
    BY <1>1, <1>2, <2>1, <2>3
  <2>4. QED
    BY <1>1, <2>2, <2>3
<1>6. ShapeOf(t, FALSE)
  BY <1>2, <1>4, <1>5 DEF ShapeOf
<1>7. Level(t, n) = IF s[n].k = "node" /\ c.k \in Loops THEN Level(s, n) + 1 ELSE Level(s, n)
  <2>1. Level(t, n - 1) = Level(s, n - 1)
    BY <1>1, <1>3
  <2>2. QED
    BY <1>1, <1>2, <2>1, LevelStep DEF Loops
<1>8. QED
  BY <1>2, <1>6, <1>7 DEF t

\* It makes a call.
LEMMA MakeShape ==
  ASSUME NEW s, NEW u \in BOOLEAN, ShapeOf(s, u),
         NEW c, Sane(c), Paused(c),
         c.k = s[Len(s)].k, c.k = "call" => c.n = s[Len(s)].n,
         NEW d, Sane(d), Active(d), d.k \notin Loops \cup {"shell"},
         d.k = "call" => d.n = Level(s, Len(s)),
         c.k = "node" => d.k = "sig"
  PROVE  LET t == Append([s EXCEPT ![Len(s)] = c], d)
         IN  /\ ShapeOf(t, FALSE)
             /\ Level(t, Len(t)) = IF d.k = "call" THEN 0 ELSE Level(s, Len(s))
<1> DEFINE n == Len(s)
           r == [s EXCEPT ![n] = c]
           t == Append(r, d)
<1>1. s \in Seq(Call) /\ s # <<>> /\ c \in Call /\ d \in Call /\ n \in Nat \ {0}
  BY TopFacts DEF ShapeOf, Sane
<1>2. /\ r \in Seq(Call) /\ Len(r) = n /\ r[n] = c
      /\ \A i \in 1 .. n - 1 : r[i] = s[i]
  BY <1>1, Replaced
<1> HIDE DEF r
<1>3. /\ t \in Seq(Call) /\ t # <<>> /\ Len(t) = n + 1 /\ t[n + 1] = d
      /\ \A i \in 1 .. n : t[i] = r[i]
  BY <1>1, <1>2, Appended
<1> HIDE DEF t
<1>4. t[n] = c /\ \A i \in 1 .. n - 1 : t[i] = s[i]
  BY <1>1, <1>2, <1>3
<1>5. ASSUME NEW i \in 0 .. n
      PROVE  Level(t, i) = Level(s, i)
  BY <1>1, <1>4, LevelSame
<1>6. ASSUME NEW i \in 1 .. n + 1
      PROVE  /\ Sane(t[i])
             /\ t[i].k = "shell" <=> i = 1
             /\ t[i].k = "call" => t[i].n = Level(t, i - 1)
  <2>1. CASE i < n
    <3>1. t[i] = s[i] /\ i \in 1 .. Len(s) /\ i - 1 \in 0 .. n
      BY <1>1, <1>4, <2>1
    <3>2. Level(t, i - 1) = Level(s, i - 1)
      BY <1>5, <3>1
    <3>3. QED
      BY <3>1, <3>2 DEF ShapeOf
  <2>2. CASE i = n
    <3>1. t[i] = c /\ i - 1 \in 0 .. n
      BY <1>1, <1>4, <2>2
    <3>2. Level(t, i - 1) = Level(s, i - 1)
      BY <1>5, <3>1
    <3>3. s[n].k = "shell" <=> n = 1
      BY TopFacts
    <3>4. s[n].k = "call" => s[n].n = Level(s, n - 1)
      BY TopFacts
    <3>5. QED
      BY <2>2, <3>1, <3>2, <3>3, <3>4
  <2>3. CASE i = n + 1
    <3>1. t[i] = d /\ i - 1 = n /\ i # 1
      BY <1>1, <1>3, <2>3
    <3>2. Level(t, n) = Level(s, n)
      BY <1>1, <1>5
    <3>3. QED
      BY <3>1, <3>2
  <2>4. QED
    BY <1>1, <2>1, <2>2, <2>3
<1>7. ASSUME NEW i \in 1 .. n
      PROVE  Paused(t[i]) /\ (t[i].k = "node" => t[i + 1].k = "sig")
  <2>1. CASE i < n
    <3>1. t[i] = s[i] /\ Paused(s[i]) /\ (s[i].k = "node" => s[i + 1].k = "sig")
      BY <1>1, <1>4, <2>1 DEF ShapeOf
    <3>2. t[i + 1].k = s[i + 1].k
      BY <1>1, <1>4, <2>1
    <3>3. QED
      BY <3>1, <3>2
  <2>2. CASE i = n
    BY <1>3, <1>4, <2>2
  <2>3. QED
    BY <1>1, <2>1, <2>2
<1>8. ShapeOf(t, FALSE)
  <2>1. Len(t) - 1 = n /\ t[Len(t)] = d
    BY <1>1, <1>3
  <2>2. QED
    BY <1>3, <1>6, <1>7, <2>1 DEF ShapeOf
<1>9. Level(t, n + 1) = IF d.k = "call" THEN 0 ELSE Level(s, n)
  <2>1. Level(t, n) = Level(s, n)
    BY <1>1, <1>5
  <2>2. QED
    BY <1>1, <1>3, <2>1, LevelStep
<1>10. QED
  BY <1>3, <1>8, <1>9 DEF t, r

\* It returns.
LEMMA ReturnShape ==
  ASSUME NEW s, NEW u \in BOOLEAN, ShapeOf(s, u), s[Len(s)].k # "shell"
  PROVE  LET t == SubSeq(s, 1, Len(s) - 1)
         IN  /\ ShapeOf(t, TRUE) /\ Len(s) > 1
             /\ Level(t, Len(t)) = IF s[Len(s)].k = "call" THEN s[Len(s)].n
                                   ELSE IF s[Len(s)].k \in Loops THEN Level(s, Len(s)) - 1
                                   ELSE Level(s, Len(s))
<1> DEFINE n == Len(s)
           t == SubSeq(s, 1, n - 1)
<1>1. /\ s \in Seq(Call) /\ n \in Nat \ {0} /\ n > 1
      /\ s[n].k = "call" => s[n].n = Level(s, n - 1)
  <2>1. n \in Nat \ {0} /\ (s[n].k = "shell" <=> n = 1)
    BY TopFacts
  <2>2. n > 1
    <3>1. n \in Nat /\ n # 0 /\ n # 1
      BY <2>1
    <3> HIDE DEF n
    <3>2. QED
      BY <3>1
  <2>3. QED
    BY <2>2, TopFacts
<1>2. /\ t \in Seq(Call) /\ t # <<>> /\ Len(t) = n - 1
      /\ \A i \in 1 .. n - 1 : t[i] = s[i]
  BY <1>1, Popped
<1> HIDE DEF t
<1>3. ASSUME NEW i \in 0 .. n - 1
      PROVE  Level(t, i) = Level(s, i)
  BY <1>1, <1>2, LevelSame
<1>4. ASSUME NEW i \in 1 .. n - 1
      PROVE  /\ Sane(t[i])
             /\ t[i].k = "shell" <=> i = 1
             /\ t[i].k = "call" => t[i].n = Level(t, i - 1)
             /\ Paused(t[i])
  <2>1. t[i] = s[i] /\ i \in 1 .. Len(s) /\ i \in 1 .. Len(s) - 1 /\ i - 1 \in 0 .. n - 1
    BY <1>1, <1>2
  <2>2. Level(t, i - 1) = Level(s, i - 1)
    BY <1>3, <2>1
  <2>3. QED
    BY <2>1, <2>2 DEF ShapeOf
<1>5. ASSUME NEW i \in 1 .. n - 2
      PROVE  Paused(t[i]) /\ (t[i].k = "node" => t[i + 1].k = "sig")
  <2>1. t[i] = s[i] /\ t[i + 1] = s[i + 1] /\ i \in 1 .. Len(s) - 1
    BY <1>1, <1>2
  <2>2. QED
    BY <2>1 DEF ShapeOf
<1>6. ShapeOf(t, TRUE)
  <2>1. Len(t) - 1 = n - 2 /\ Len(t) \in 1 .. n - 1
    BY <1>1, <1>2
  <2>2. QED
    BY <1>2, <1>4, <1>5, <2>1 DEF ShapeOf
<1>7. Level(t, n - 1) = IF s[n].k = "call" THEN s[n].n
                        ELSE IF s[n].k \in Loops THEN Level(s, n) - 1 ELSE Level(s, n)
  <2>1. Level(t, n - 1) = Level(s, n - 1)
    BY <1>1, <1>3
  <2>2. Level(s, n - 1) \in Nat
    BY <1>1, CountedFinite
  <2>3. QED
    BY <1>1, <2>1, <2>2, LevelStep
<1>8. QED
  BY <1>1, <1>2, <1>6, <1>7 DEF t

-----------------------------------------------------------------------------
(***************************************************************************)
(* One step of the stack, and what is under way stays aimed                *)
(***************************************************************************)

\* What every action takes from the invariant.
LEMMA InvFacts ==
  ASSUME EvInv
  PROVE  /\ ShapeOf(stk, up) /\ up \in BOOLEAN /\ stk \in Seq(Call) /\ stk # <<>>
         /\ Depth \in Nat \ {0} /\ loops = Level(stk, Depth) /\ loops \in Nat
         /\ Top \in Call /\ Sane(Top)
         /\ Top.k = "shell" <=> Depth = 1
         /\ Top.k = "call" => Top.n = Level(stk, Depth - 1)
         /\ up => Paused(Top)
         /\ ~up => Active(Top)
         /\ brk \in Nat /\ cont \in Nat /\ aim \in Int /\ aim >= -1
<1>1. ShapeOf(stk, up) /\ up \in BOOLEAN /\ loops = Level(stk, Depth)
  BY DEF EvInv, Frames, Types
<1>2. /\ stk \in Seq(Call) /\ Depth \in Nat \ {0} /\ stk # <<>>
      /\ Top \in Call /\ Sane(Top)
      /\ Top.k = "shell" <=> Depth = 1
      /\ Top.k = "call" => Top.n = Level(stk, Depth - 1)
      /\ up => Paused(Top)
      /\ ~up => Active(Top)
  BY <1>1, TopFacts DEF Depth, Top, ShapeOf
<1>3. Level(stk, Depth) \in Nat
  BY <1>2, CountedFinite
<1>4. QED
  BY <1>1, <1>2, <1>3 DEF EvInv, Types

\* Nothing that cannot be passed is in between.
LEMMA Blocked ==
  ASSUME EvInv, ~Passable(Top)
  PROVE  ~(aim > 0)
<1>1. SUFFICES ASSUME aim > 0 PROVE FALSE
  OBVIOUS
<1>2. aim \in 1 .. Depth /\ Depth \in Nat /\ \A i \in aim .. Depth : Passable(stk[i])
  BY <1>1, InvFacts DEF EvInv, Frames, AimedOf, Depth
<1>3. Depth \in aim .. Depth
  BY <1>2
<1>4. QED
  BY <1>2, <1>3 DEF Top

\* The count stays right while the stack up to the loop is the same, and the
\* rest of it can be passed.
LEMMA StillAimed ==
  ASSUME NEW s, NEW t, NEW a \in Int, NEW b, NEW c, NEW l, AimedOf(s, a, b, c, l),
         Len(s) \in Nat, Len(t) \in Nat,
         a > 0 => a <= Len(t) /\ \A i \in 1 .. a : t[i].k = s[i].k,
         a > 0 => \A i \in a .. Len(t) : Passable(t[i])
  PROVE  AimedOf(t, a, b, c, l)
<1>1. SUFFICES ASSUME a > 0
               PROVE  /\ a \in 1 .. Len(t) /\ t[a].k \in Loops
                      /\ \A i \in a .. Len(t) : Passable(t[i])
                      /\ b = 0 \/ c = 0
                      /\ b + c = l - Level(t, a) + 1
  BY DEF AimedOf
<1>2. /\ a \in 1 .. Len(s) /\ s[a].k \in Loops /\ (b = 0 \/ c = 0)
      /\ b + c = l - Level(s, a) + 1
  BY <1>1 DEF AimedOf
<1>3. a \in Nat /\ a \in 1 .. a /\ a \in 1 .. Len(t)
  BY <1>1
<1>4. t[a].k = s[a].k
  BY <1>1, <1>3
<1>5. Level(t, a) = Level(s, a)
  BY <1>1, <1>3, LevelSame
<1>6. QED
  BY <1>1, <1>2, <1>3, <1>4, <1>5

\* What is neither aimed before nor after, or aimed as it was.
StaysAimed(c) ==
  \/ ~(aim' > 0)
  \/ aim' = aim /\ brk' = brk /\ cont' = cont /\ (Passable(Top) => c)

\* A step of the innermost call that makes none.
LEMMA BecomeStep ==
  ASSUME EvInv, NEW c, Sane(c), Active(c),
         c.k = Top.k, c.k = "call" => c.n = Top.n, Become(c),
         loops' = loops, StaysAimed(Passable(c))
  PROVE  Frames'
<1>1. /\ ShapeOf(stk, up) /\ up \in BOOLEAN /\ loops = Level(stk, Depth)
      /\ stk \in Seq(Call) /\ stk # <<>> /\ Depth \in Nat \ {0} /\ aim \in Int
  BY InvFacts
<1>2. stk' = [stk EXCEPT ![Len(stk)] = c] /\ up' = FALSE
  BY DEF Become, Depth
<1>3. ShapeOf(stk', up') /\ Level(stk', Len(stk')) = Level(stk, Depth)
  <2>1. ~(stk[Len(stk)].k = "node" /\ c.k \in Loops)
    BY DEF Top, Depth, Loops
  <2>2. c.k = stk[Len(stk)].k /\ (c.k = "call" => c.n = stk[Len(stk)].n)
    BY DEF Top, Depth
  <2>3. QED
    BY <1>1, <1>2, <2>1, <2>2, BecomeShape DEF Depth
<1>4. /\ Len(stk') = Depth /\ stk'[Depth] = c
      /\ \A i \in 1 .. Depth - 1 : stk'[i] = stk[i]
  BY <1>1, <1>2, Replaced DEF Sane, Depth
<1>5. AimedOf(stk', aim', brk', cont', loops')
  <2>1. CASE ~(aim' > 0)
    BY <2>1 DEF AimedOf
  <2>2. CASE aim' = aim /\ brk' = brk /\ cont' = cont /\ (Passable(Top) => Passable(c))
    <3>1. AimedOf(stk, aim, brk, cont, loops)
      BY DEF EvInv, Frames
    <3>2. aim > 0 => aim \in 1 .. Depth /\ \A i \in aim .. Depth : Passable(stk[i])
      BY <3>1 DEF AimedOf, Depth
    <3>3. aim > 0 => Passable(Top)
      BY Blocked
    <3>4. \A i \in 1 .. Depth : stk'[i].k = stk[i].k
      BY <1>1, <1>4 DEF Top
    <3>5. ASSUME aim > 0
          PROVE  \A i \in aim .. Depth : Passable(stk'[i])
      <4>1. TAKE i \in aim .. Depth
      <4>2. CASE i = Depth
        BY <1>4, <2>2, <3>3, <3>5, <4>2
      <4>3. CASE i # Depth
        BY <1>1, <1>4, <3>2, <3>5, <4>3
      <4>4. QED
        BY <4>2, <4>3
    <3>6. aim > 0 => aim <= Len(stk') /\ \A i \in 1 .. aim : stk'[i].k = stk[i].k
      BY <1>1, <1>4, <3>2, <3>4
    <3>7. AimedOf(stk', aim, brk, cont, loops)
      BY <1>1, <1>4, <3>1, <3>5, <3>6, StillAimed DEF Depth
    <3>8. QED
      BY <2>2, <3>7
  <2>3. QED
    BY <2>1, <2>2 DEF StaysAimed
<1>6. QED
  BY <1>1, <1>3, <1>5 DEF Frames, Depth

\* A step in which the innermost call makes another.
LEMMA MakeStep ==
  ASSUME EvInv, NEW c, Sane(c), Paused(c),
         c.k = Top.k, c.k = "call" => c.n = Top.n,
         NEW d, Sane(d), Active(d), d.k \notin Loops \cup {"shell"},
         d.k = "call" => d.n = loops,
         c.k = "node" => d.k = "sig",
         Make(c, d), loops' = IF d.k = "call" THEN 0 ELSE loops,
         StaysAimed(Passable(c) /\ Passable(d))
  PROVE  Frames'
<1>1. /\ ShapeOf(stk, up) /\ up \in BOOLEAN /\ loops = Level(stk, Depth)
      /\ stk \in Seq(Call) /\ stk # <<>> /\ Depth \in Nat \ {0} /\ aim \in Int
  BY InvFacts
<1>2. stk' = Append([stk EXCEPT ![Len(stk)] = c], d) /\ up' = FALSE
  BY DEF Make, Depth
<1>3. ShapeOf(stk', up') /\ Level(stk', Len(stk')) = IF d.k = "call" THEN 0 ELSE Level(stk, Depth)
  <2>1. c.k = stk[Len(stk)].k /\ (c.k = "call" => c.n = stk[Len(stk)].n)
    BY DEF Top, Depth
  <2>2. d.k = "call" => d.n = Level(stk, Len(stk))
    BY <1>1 DEF Depth
  <2>3. QED
    BY <1>1, <1>2, <2>1, <2>2, MakeShape DEF Depth
<1>4. /\ Len(stk') = Depth + 1 /\ stk'[Depth] = c /\ stk'[Depth + 1] = d
      /\ \A i \in 1 .. Depth - 1 : stk'[i] = stk[i]
  <2> DEFINE r == [stk EXCEPT ![Len(stk)] = c]
  <2>1. /\ r \in Seq(Call) /\ Len(r) = Depth /\ r[Depth] = c
        /\ \A i \in 1 .. Depth - 1 : r[i] = stk[i]
    BY <1>1, Replaced DEF Sane, Depth
  <2>2. stk' = Append(r, d)
    BY <1>2
  <2> HIDE DEF r
  <2>3. /\ Len(stk') = Depth + 1 /\ stk'[Depth + 1] = d
        /\ \A i \in 1 .. Depth : stk'[i] = r[i]
    BY <2>1, <2>2, Appended DEF Sane
  <2>4. QED
    BY <1>1, <2>1, <2>3
<1>5. AimedOf(stk', aim', brk', cont', loops')
  <2>1. CASE ~(aim' > 0)
    BY <2>1 DEF AimedOf
  <2>2. CASE /\ aim' = aim /\ brk' = brk /\ cont' = cont
             /\ Passable(Top) => Passable(c) /\ Passable(d)
    <3>1. AimedOf(stk, aim, brk, cont, loops)
      BY DEF EvInv, Frames
    <3>2. aim > 0 => aim \in 1 .. Depth /\ \A i \in aim .. Depth : Passable(stk[i])
      BY <3>1 DEF AimedOf, Depth
    <3>3. aim > 0 => Passable(c) /\ Passable(d)
      BY <2>2, Blocked
    <3>4. \A i \in 1 .. Depth : stk'[i].k = stk[i].k
      BY <1>1, <1>4 DEF Top
    <3>5. ASSUME aim > 0
          PROVE  \A i \in aim .. Depth + 1 : Passable(stk'[i])
      <4>1. TAKE i \in aim .. Depth + 1
      <4>2. CASE i = Depth
        BY <1>4, <3>3, <3>5, <4>2
      <4>3. CASE i = Depth + 1
        BY <1>4, <3>3, <3>5, <4>3
      <4>4. CASE i < Depth
        BY <1>1, <1>4, <3>2, <3>5, <4>4
      <4>5. QED
        BY <1>1, <4>2, <4>3, <4>4
    <3>6. aim > 0 => aim <= Len(stk') /\ \A i \in 1 .. aim : stk'[i].k = stk[i].k
      BY <1>1, <1>4, <3>2, <3>4
    <3>7. aim > 0 => loops' = loops
      BY <3>3 DEF Passable
    <3>8. AimedOf(stk', aim, brk, cont, loops)
      BY <1>1, <1>4, <3>1, <3>5, <3>6, StillAimed DEF Depth
    <3>9. QED
      BY <2>2, <3>7, <3>8 DEF AimedOf
  <2>3. QED
    BY <2>1, <2>2 DEF StaysAimed
<1>6. QED
  BY <1>1, <1>3, <1>5 DEF Frames, Depth

\* A step in which the innermost call returns.
LEMMA ReturnStep ==
  ASSUME EvInv, Top.k # "shell", Return,
         loops' = IF Top.k = "call" THEN Top.n ELSE IF Top.k \in Loops THEN loops - 1 ELSE loops,
         StaysAimed(Top.k \notin Loops)
  PROVE  Frames'
<1>1. /\ ShapeOf(stk, up) /\ up \in BOOLEAN /\ loops = Level(stk, Depth)
      /\ stk \in Seq(Call) /\ stk # <<>> /\ Depth \in Nat \ {0} /\ aim \in Int
  BY InvFacts
<1>2. stk' = SubSeq(stk, 1, Len(stk) - 1) /\ up' = TRUE
  BY DEF Return, Depth
<1>3. ShapeOf(stk', up') /\ Level(stk', Len(stk')) = loops' /\ Len(stk) > 1
  BY <1>1, <1>2, ReturnShape DEF Depth, Top
<1>4. /\ Len(stk') = Depth - 1
      /\ \A i \in 1 .. Depth - 1 : stk'[i] = stk[i]
  BY <1>1, <1>2, <1>3, Popped DEF Depth
<1>5. AimedOf(stk', aim', brk', cont', loops')
  <2>1. CASE ~(aim' > 0)
    BY <2>1 DEF AimedOf
  <2>2. CASE /\ aim' = aim /\ brk' = brk /\ cont' = cont
             /\ Passable(Top) => Top.k \notin Loops
    <3>1. AimedOf(stk, aim, brk, cont, loops)
      BY DEF EvInv, Frames
    <3>2. aim > 0 => aim \in 1 .. Depth /\ \A i \in aim .. Depth : Passable(stk[i])
      BY <3>1 DEF AimedOf, Depth
    <3>3. aim > 0 => Top.k \notin Loops /\ Top.k # "call"
      BY <2>2, Blocked DEF Passable
    <3>4. aim > 0 => aim # Depth
      BY <3>1, <3>3 DEF AimedOf, Top
    <3>5. aim > 0 => aim \in 1 .. Depth - 1 /\ \A i \in aim .. Depth - 1 : Passable(stk'[i])
      <4>1. aim > 0 => aim \in 1 .. Depth - 1
        BY <1>1, <3>2, <3>4
      <4>2. ASSUME aim > 0
            PROVE  \A i \in aim .. Depth - 1 : Passable(stk'[i])
        BY <1>1, <1>4, <3>2, <4>1, <4>2
      <4>3. QED
        BY <4>1, <4>2
    <3>6. aim > 0 => aim <= Len(stk') /\ \A i \in 1 .. aim : stk'[i].k = stk[i].k
      BY <1>1, <1>4, <3>5
    <3>7. aim > 0 => loops' = loops
      BY <3>3
    <3>8. AimedOf(stk', aim, brk, cont, loops)
      <4>1. Len(stk) \in Nat /\ Len(stk') \in Nat /\ aim \in Int
        BY <1>1, <1>4 DEF Depth
      <4>2. aim > 0 => \A i \in aim .. Len(stk') : Passable(stk'[i])
        BY <1>4, <3>5
      <4>3. QED
        BY <3>1, <3>6, <4>1, <4>2, StillAimed
    <3>9. QED
      BY <2>2, <3>7, <3>8 DEF AimedOf
  <2>3. QED
    BY <2>1, <2>2 DEF StaysAimed
<1>6. QED
  BY <1>1, <1>3, <1>5 DEF Frames, Depth

-----------------------------------------------------------------------------
(***************************************************************************)
(* The actions' ways to take such a step                                   *)
(***************************************************************************)

\* How far a call is says whether it waits, and its kind is what it was.
LEMMA ByPlace ==
  ASSUME NEW c, NEW k, NEW pc, c.k = k, c.pc = pc
  PROVE  /\ Paused(c) <=> Paused(New(k, pc))
         /\ Active(c) <=> Active(New(k, pc))
         /\ Passable(c) <=> Passable(New(k, pc))
<1>1. New(k, pc).k = k /\ New(k, pc).pc = pc
  BY DEF New
<1> HIDE DEF New
<1>2. Paused(c) <=> Paused(New(k, pc))
  BY <1>1 DEF Paused
<1>3. Active(c) <=> Active(New(k, pc))
  BY <1>1 DEF Active
<1>4. Passable(c) <=> Passable(New(k, pc))
  BY <1>1 DEF Passable
<1>5. QED
  BY <1>2, <1>3, <1>4

\* A call just made is sane.
LEMMA NewSane ==
  ASSUME NEW k \in Loops \cup Tests \cup {"shell", "text", "node", "cmd", "call", "seq", "grp"},
         NEW pc \in Places, NEW n \in Nat, NEW b \in BOOLEAN,
         k = "cmd" => pc # "debug", k = "call" => pc # "return"
  PROVE  LET c == [k |-> k, pc |-> pc, t |-> b, v |-> 0, n |-> n, o |-> <<>>]
         IN  Sane(c) /\ c.k = k /\ c.pc = pc /\ c.n = n
<1> DEFINE c == [k |-> k, pc |-> pc, t |-> b, v |-> 0, n |-> n, o |-> <<>>]
<1>1. k # "sig"
  BY DEF Loops, Tests
<1>2. <<>> \in Seq(Int) /\ 0 \in 0 .. 1
  OBVIOUS
<1>3. c \in Call
  BY <1>2 DEF Call
<1>4. c.k = k /\ c.pc = pc /\ c.n = n
  OBVIOUS
<1> HIDE DEF c
<1>5. Sane(c)
  BY <1>1, <1>3, <1>4 DEF Sane
<1>6. QED
  BY <1>4, <1>5 DEF c

\* So are a node and a text.
LEMMA NodeText ==
  /\ Sane(Node) /\ Active(Node) /\ Node.k = "node" /\ Node.pc = "enter" /\ Passable(Node)
  /\ Sane(Text) /\ Active(Text) /\ Text.k = "text" /\ Text.pc = "line" /\ Passable(Text)
<1>1. /\ Sane(Node) /\ Node.k = "node" /\ Node.pc = "enter"
      /\ Sane(Text) /\ Text.k = "text" /\ Text.pc = "line"
  <2>1. <<>> \in Seq(Int) /\ 0 \in 0 .. 1 /\ "enter" \in Places /\ "line" \in Places
    BY DEF Places
  <2>2. Node \in Call /\ Text \in Call
    BY <2>1 DEF Node, Text, New, Call
  <2>3. Node.k = "node" /\ Node.pc = "enter" /\ Text.k = "text" /\ Text.pc = "line"
    BY DEF Node, Text, New
  <2>4. QED
    BY <2>2, <2>3 DEF Sane
<1>2. QED
  BY <1>1 DEF Active, Passable, Loops, Tests

\* A call that only gets further.
LEMMA Further ==
  ASSUME EvInv, NEW pc \in Places,
         Top.k = "cmd" => pc # "debug", Top.k = "call" => pc # "return"
  PROVE  LET c == [Top EXCEPT !.pc = pc]
         IN  /\ Sane(c) /\ c.k = Top.k /\ c.pc = pc /\ c.n = Top.n
             /\ Paused(c) <=> Paused(New(Top.k, pc))
             /\ Active(c) <=> Active(New(Top.k, pc))
             /\ Passable(c) <=> Passable(New(Top.k, pc))
<1> DEFINE c == [Top EXCEPT !.pc = pc]
<1>1. Top \in Call /\ Sane(Top)
  BY InvFacts
<1>2. Sane(c) /\ c.k = Top.k /\ c.pc = pc /\ c.n = Top.n
  BY <1>1 DEF Sane, Call
<1> HIDE DEF c
<1>3. QED
  BY <1>2, ByPlace DEF c

\* The innermost call goes to another of its places.
LEMMA ToStep ==
  ASSUME EvInv, NEW pc \in Places, To(pc), Active(New(Top.k, pc)),
         Top.k = "cmd" => pc # "debug", Top.k = "call" => pc # "return",
         loops' = loops, StaysAimed(Passable(New(Top.k, pc)))
  PROVE  Frames'
<1> DEFINE c == [Top EXCEPT !.pc = pc]
<1>1. /\ Sane(c) /\ c.k = Top.k /\ c.pc = pc /\ c.n = Top.n
      /\ Active(c) <=> Active(New(Top.k, pc))
      /\ Passable(c) <=> Passable(New(Top.k, pc))
  BY Further
<1>2. Become(c)
  BY DEF To
<1> HIDE DEF c
<1>3. StaysAimed(Passable(c))
  BY <1>1 DEF StaysAimed
<1>4. QED
  BY <1>1, <1>2, <1>3, BecomeStep

\* The innermost call hands over to ex or to sh_runx.
LEMMA EnterStep ==
  ASSUME EvInv, NEW pc \in Places, NEW d \in {Node, Text}, Enter(pc, d),
         Paused(New(Top.k, pc)), Top.k # "node",
         Top.k = "cmd" => pc # "debug", Top.k = "call" => pc # "return",
         loops' = loops, StaysAimed(Passable(New(Top.k, pc)))
  PROVE  Frames'
<1> DEFINE c == [Top EXCEPT !.pc = pc]
<1>1. /\ Sane(c) /\ c.k = Top.k /\ c.pc = pc /\ c.n = Top.n
      /\ Paused(c) <=> Paused(New(Top.k, pc))
      /\ Passable(c) <=> Passable(New(Top.k, pc))
  BY Further
<1>2. Make(c, d)
  BY DEF Enter
<1> HIDE DEF c
<1>3. Sane(d) /\ Active(d) /\ d.k \in {"node", "text"} /\ Passable(d)
  BY NodeText
<1>4. StaysAimed(Passable(c) /\ Passable(d))
  BY <1>1, <1>3 DEF StaysAimed
<1>5. d.k \notin Loops \cup {"shell"} /\ d.k # "call"
  BY <1>3 DEF Loops
<1>6. QED
  BY <1>1, <1>2, <1>3, <1>4, <1>5, MakeStep

-----------------------------------------------------------------------------
(***************************************************************************)
(* Every action keeps the stack's shape, the count of loops and the aim    *)
(***************************************************************************)

\* Lists, tests and groups.
LEMMA ListFrames ==
  ASSUME EvInv, SeqFirst \/ SeqNext \/ Group
  PROVE  Frames'
<1>0. UNCHANGED <<brk, cont, aim, loops>>
  BY DEF SeqFirst, SeqNext, Group, Still, flags
<1>1. ASSUME SeqFirst PROVE Frames'
  <2>1. Top.k = "seq" /\ Top.pc = "start" /\ Enter("item", Node)
    BY <1>1 DEF SeqFirst, Going, At
  <2>2. Paused(New(Top.k, "item")) /\ ~Passable(Top) /\ "item" \in Places
    BY <2>1 DEF Paused, Passable, New, Places
  <2>3. QED
    BY <1>0, <2>1, <2>2, EnterStep DEF StaysAimed
<1>2. ASSUME SeqNext PROVE Frames'
  <2>1. Top.k = "seq" /\ (Enter("item", Node) \/ Enter("last", Node))
    BY <1>2 DEF SeqNext, Back, At
  <2>2. /\ Paused(New("seq", "item")) /\ Paused(New("seq", "last"))
        /\ Passable(New("seq", "item")) /\ Passable(New("seq", "last"))
        /\ "item" \in Places /\ "last" \in Places
    BY DEF Paused, Passable, New, Places, Loops
  <2>3. QED
    BY <1>0, <2>1, <2>2, EnterStep DEF StaysAimed
<1>3. ASSUME Group PROVE Frames'
  <2>1. Top.k = "grp" /\ Top.pc = "start" /\ Enter("last", Node)
    BY <1>3 DEF Group, Going, At
  <2>2. Paused(New(Top.k, "last")) /\ ~Passable(Top) /\ "last" \in Places
    BY <2>1 DEF Paused, Passable, New, Places
  <2>3. QED
    BY <1>0, <2>1, <2>2, EnterStep DEF StaysAimed
<1>4. QED
  BY <1>1, <1>2, <1>3

\* &&, ||, !, if, lists and groups.
LEMMA TestFrames ==
  ASSUME EvInv, Test \/ AndOr \/ Not \/ If \/ Through
  PROVE  Frames'
<1>0. /\ UNCHANGED <<brk, cont, aim, loops>>
      /\ Top.k \in Tests \cup {"seq", "grp"}
  BY DEF Test, AndOr, Not, If, Through, Still, flags, Back, At, Tests
<1>1. /\ Top.k \notin Loops \cup {"call", "shell", "node", "cmd"}
      /\ "tested" \in Places /\ "last" \in Places
  BY <1>0 DEF Loops, Tests, Places
<1>2. CASE Return
  BY <1>0, <1>1, <1>2, ReturnStep DEF StaysAimed
<1>3. CASE Top.k \in Tests /\ Enter("tested", Node) /\ Top.pc = "start"
  <2>1. Paused(New(Top.k, "tested")) /\ ~Passable(Top)
    BY <1>3 DEF Paused, Passable, New
  <2>2. QED
    BY <1>0, <1>1, <1>3, <2>1, EnterStep DEF StaysAimed
<1>4. CASE Top.k \in Tests /\ Enter("last", Node)
  <2>1. Paused(New(Top.k, "last"))
    BY <1>4 DEF Paused, New
  <2>2. Passable(New(Top.k, "last"))
    BY <1>1, <1>4 DEF Passable, New, Tests
  <2>3. QED
    BY <1>0, <1>1, <1>4, <2>1, <2>2, EnterStep DEF StaysAimed
<1>5. \/ Return
      \/ Top.k \in Tests /\ Enter("tested", Node) /\ Top.pc = "start"
      \/ Top.k \in Tests /\ Enter("last", Node)
  BY DEF Test, AndOr, Not, If, Through, Back, At, Tests
<1>6. QED
  BY <1>2, <1>3, <1>4, <1>5

\* Nodes.
LEMMA NodeFrames ==
  ASSUME EvInv, Skip \/ Handle \/ Abandon \/ \E k \in script.kinds : RedirFails(k)
  PROVE  Frames'
<1>0. UNCHANGED <<brk, cont, aim, loops>> /\ Top.k = "node"
  BY DEF Skip, Handle, Abandon, RedirFails, Entered, flags, Going, Back, At
<1>1. CASE Return
  <2>1. Top.k \notin Loops \cup {"call", "shell"}
    BY <1>0 DEF Loops
  <2>2. QED
    BY <1>0, <1>1, <2>1, ReturnStep DEF StaysAimed
<1>2. ASSUME Handle PROVE Frames'
  <2> DEFINE c == [Top EXCEPT !.pc = "handled"]
             d == [New("sig", "scan") EXCEPT !.v = st, !.n = 1]
  <2>1. Make(c, d) /\ ~Jumping
    BY <1>2 DEF Handle, Enter
  <2>2. /\ Sane(c) /\ c.k = Top.k
        /\ Paused(c) <=> Paused(New(Top.k, "handled"))
    <3>1. "handled" \in Places
      BY DEF Places
    <3>2. QED
      BY <1>0, <3>1, Further
  <2>3. Paused(c)
    BY <1>0, <2>2 DEF Paused, New
  <2>4. Sane(d) /\ d.k = "sig" /\ d.pc = "scan"
    <3> DEFINE r == New("sig", "scan")
    <3>1. <<>> \in Seq(Int) /\ "scan" \in Places /\ st \in 0 .. 1 /\ 0 \in 0 .. 1 /\ 1 \in Nat
      BY DEF Places, EvInv, Types
    <3>2. r \in Call /\ r.k = "sig" /\ r.pc = "scan"
      BY <3>1 DEF New, Call
    <3> HIDE DEF r
    <3>3. d \in Call /\ d.k = "sig" /\ d.pc = "scan" /\ d.n = 1
      BY <3>1, <3>2 DEF Call, r
    <3> HIDE DEF d
    <3>4. QED
      BY <3>3 DEF Sane
  <2>5. Active(d) /\ d.k \notin Loops \cup {"shell"} /\ d.k # "call"
    BY <2>4 DEF Active, Loops
  <2>6. StaysAimed(Passable(c) /\ Passable(d))
    BY <1>0, <2>1 DEF StaysAimed, EvInv, Types
  <2> HIDE DEF c, d
  <2>7. QED
    BY <1>0, <2>1, <2>2, <2>3, <2>4, <2>5, <2>6, MakeStep
<1>3. QED
  BY <1>1, <1>2 DEF Skip, Abandon, RedirFails

\* ex finds which construct a node is.
LEMMA ChooseFrames ==
  ASSUME EvInv, NEW k \in Loops \cup Tests \cup {"cmd", "seq", "grp"}, Choose(k)
  PROVE  Frames'
<1> DEFINE c == [New(k, "start") EXCEPT !.t = tst]
<1>1. /\ Become(c) /\ Top.k = "node"
      /\ loops' = IF k \in Loops THEN loops + 1 ELSE loops
      /\ aim' = aim
      /\ Top.pc = "handled" \/ ~Jumping
  BY DEF Choose, Entered, Going, Back, At, flags
<1>2. Sane(c) /\ c.k = k /\ c.pc = "start"
  <2>1. "start" \in Places /\ tst \in BOOLEAN /\ 0 \in Nat
    BY DEF Places, EvInv, Types
  <2>2. c = [k |-> k, pc |-> "start", t |-> tst, v |-> 0, n |-> 0, o |-> <<>>]
    BY DEF New
  <2>3. k \in Loops \cup Tests \cup {"shell", "text", "node", "cmd", "call", "seq", "grp"}
    OBVIOUS
  <2>4. k # "call"
    BY DEF Loops, Tests
  <2> HIDE DEF c
  <2>5. QED
    BY <2>1, <2>2, <2>3, <2>4, NewSane
<1> HIDE DEF c
<1>3. Active(c)
  BY <1>2 DEF Active
<1>4. c.k \notin {"shell", "call", "node"}
  BY <1>2 DEF Loops, Tests
<1>5. /\ ShapeOf(stk, up) /\ up \in BOOLEAN /\ loops = Level(stk, Depth)
      /\ stk' = [stk EXCEPT ![Len(stk)] = c] /\ up' = FALSE
  BY <1>1, InvFacts DEF Become, Depth
<1>6. ShapeOf(stk', up') /\ Level(stk', Len(stk')) = loops'
  BY <1>1, <1>2, <1>3, <1>4, <1>5, BecomeShape DEF Depth, Top
<1>7. ~(aim' > 0)
  <2>1. CASE Top.pc = "handled"
    BY <1>1, <2>1, Blocked DEF Passable
  <2>2. CASE ~Jumping
    BY <1>1, <2>2 DEF EvInv, Types
  <2>3. QED
    BY <1>1, <2>1, <2>2
<1>8. QED
  BY <1>6, <1>7 DEF Frames, Depth, AimedOf

\* Loops, but for what a body ends with.
LEMMA LoopFrames ==
  ASSUME EvInv, LoopTest \/ LoopTested \/ ForNext
  PROVE  Frames'
<1>1. /\ UNCHANGED <<brk, cont, aim>>
      /\ Top.k \in Loops /\ Top.pc # "body"
      /\ \/ \E v \in {Top.v, st, 1} : LoopEnd(v)
         \/ loops' = loops /\ (Enter("tested", Node) \/ Enter("body", Node))
  BY DEF LoopTest, LoopTested, ForNext, flags, Going, At, Loops
<1>2. ~Passable(Top)
  BY <1>1 DEF Passable
<1>3. Top.k \notin {"shell", "call", "node", "cmd"} /\ "tested" \in Places /\ "body" \in Places
  BY <1>1 DEF Loops, Places
<1>4. CASE \E v \in {Top.v, st, 1} : LoopEnd(v)
  <2>1. Return /\ loops' = loops - 1
    BY <1>4 DEF LoopEnd
  <2>2. QED
    BY <1>1, <1>2, <1>3, <2>1, ReturnStep DEF StaysAimed
<1>5. CASE loops' = loops /\ (Enter("tested", Node) \/ Enter("body", Node))
  <2>1. Paused(New(Top.k, "tested")) /\ Paused(New(Top.k, "body"))
    BY <1>1 DEF Paused, New
  <2>2. QED
    BY <1>1, <1>2, <1>3, <1>5, <2>1, EnterStep DEF StaysAimed
<1>6. QED
  BY <1>1, <1>4, <1>5

\* In the innermost loop, what is left of the count says how far outside the
\* loop is that it is for.
LEMMA AimInLoop ==
  ASSUME EvInv, Top.k \in Loops, aim > 0
  PROVE  /\ aim \in 1 .. Depth /\ Depth \in Nat
         /\ brk = 0 \/ cont = 0
         /\ aim = Depth <=> brk + cont = 1
         /\ aim < Depth <=> brk + cont > 1
<1>1. /\ aim \in 1 .. Depth /\ (brk = 0 \/ cont = 0)
      /\ \A i \in aim .. Depth : Passable(stk[i])
      /\ brk + cont = loops - Level(stk, aim) + 1
  BY DEF EvInv, Frames, AimedOf, Depth
<1>2. /\ Depth \in Nat \ {0} /\ loops = Level(stk, Depth) /\ brk \in Nat /\ cont \in Nat
      /\ loops \in Nat
  BY InvFacts
<1>3. aim \in Nat \ {0} /\ aim <= Depth /\ \A h \in aim .. Depth : stk[h].k # "call"
  BY <1>1, <1>2 DEF Passable
<1>4. Level(stk, aim) \in Nat
  BY <1>3, CountedFinite
<1>5. aim < Depth => Level(stk, aim) < Level(stk, Depth)
  <2>1. stk[Depth].k \in Loops
    BY DEF Top
  <2>2. QED
    BY <1>2, <1>3, <2>1, LevelGrows
<1>6. aim = Depth => Level(stk, aim) = loops
  BY <1>2
<1>7. QED
  BY <1>1, <1>2, <1>3, <1>4, <1>5, <1>6

\* After a body: what is left of a count of one is nothing, and that of a
\* greater one takes the loop's end with it.
LEMMA LoopBodyFrames ==
  ASSUME EvInv, LoopBody
  PROVE  Frames'
<1>1. /\ Top.k \in Loops /\ Top.pc = "body"
      /\ brk' = IF brk > 0 THEN brk - 1 ELSE 0
      /\ cont' = IF brk = 0 /\ cont > 0 THEN cont - 1 ELSE cont
      /\ aim' = IF brk' = 0 /\ cont' = 0 THEN 0 ELSE aim
  BY DEF LoopBody, Aim
<1>2. /\ ShapeOf(stk, up) /\ up \in BOOLEAN /\ loops = Level(stk, Depth)
      /\ stk \in Seq(Call) /\ Depth \in Nat \ {0} /\ aim \in Int
      /\ brk \in Nat /\ cont \in Nat /\ loops \in Nat /\ Top \in Call /\ Sane(Top)
  BY InvFacts
<1>3. Top.k \notin {"shell", "call", "node", "cmd", "sig"}
  BY <1>1 DEF Loops
<1>4. CASE aim' > 0
  <2>1. aim' = aim /\ aim > 0 /\ (brk' > 0 \/ cont' > 0)
    <3>1. ~(brk' = 0 /\ cont' = 0)
      BY <1>1, <1>4
    <3>2. brk' \in Nat /\ cont' \in Nat
      BY <1>1, <1>2
    <3>3. aim' = aim
      BY <1>1, <3>1
    <3>4. aim > 0
      BY <1>4, <3>3
    <3>5. brk' > 0 \/ cont' > 0
      BY <3>1, <3>2
    <3>6. QED
      BY <3>3, <3>4, <3>5
  <2>2. /\ aim \in 1 .. Depth /\ (brk = 0 \/ cont = 0)
        /\ aim = Depth <=> brk + cont = 1
        /\ aim < Depth <=> brk + cont > 1
    BY <1>1, <2>1, AimInLoop
  <2>3. brk + cont > 1 /\ brk' + cont' = brk + cont - 1 /\ (brk' = 0 \/ cont' = 0)
    BY <1>1, <1>2, <2>1, <2>2
  <2>4. (brk > 0 \/ cont > 1) /\ aim < Depth
    BY <1>2, <2>2, <2>3
  <2>5. Return /\ loops' = loops - 1
    BY <2>4 DEF LoopBody, LoopEnd
  <2>6. Depth > 1 /\ Len(stk) > 1
    BY <1>2, <2>2, <2>4 DEF Depth
  <2>7. stk' = SubSeq(stk, 1, Len(stk) - 1) /\ up' = TRUE
    BY <2>5 DEF Return, Depth
  <2>8. ShapeOf(stk', up') /\ Level(stk', Len(stk')) = loops'
    BY <1>1, <1>2, <1>3, <2>5, <2>7, ReturnShape DEF Depth, Top
  <2>9. Len(stk') = Depth - 1 /\ \A i \in 1 .. Depth - 1 : stk'[i] = stk[i]
    BY <1>2, <2>6, <2>7, Popped DEF Depth
  <2>10. /\ stk[aim].k \in Loops /\ \A i \in aim .. Depth : Passable(stk[i])
         /\ brk + cont = loops - Level(stk, aim) + 1
    BY <2>1 DEF EvInv, Frames, AimedOf, Depth
  <2>11. aim \in 1 .. Depth - 1 /\ aim \in Nat
    BY <1>2, <2>2, <2>4
  <2>12. Level(stk', aim) = Level(stk, aim) /\ Level(stk, aim) \in Nat
    <3>1. \A j \in 1 .. aim : stk'[j].k = stk[j].k
      BY <1>2, <2>9, <2>11
    <3>2. QED
      BY <2>11, <3>1, LevelSame, CountedFinite
  <2>13. AimedOf(stk', aim', brk', cont', loops')
    <3>1. aim' \in 1 .. Len(stk') /\ stk'[aim'].k \in Loops
      BY <2>1, <2>9, <2>10, <2>11
    <3>2. \A i \in aim' .. Len(stk') : Passable(stk'[i])
      BY <1>2, <2>1, <2>9, <2>10, <2>11
    <3>3. brk' + cont' = loops' - Level(stk', aim') + 1
      <4>1. brk' + cont' = (loops - Level(stk, aim) + 1) - 1
        BY <1>2, <2>3, <2>10, <2>12
      <4>2. loops' = loops - 1 /\ Level(stk', aim') = Level(stk, aim)
        BY <2>1, <2>5, <2>12
      <4>3. QED
        BY <1>2, <2>12, <4>1, <4>2
    <3>4. QED
      BY <2>3, <3>1, <3>2, <3>3 DEF AimedOf
  <2>14. QED
    BY <2>8, <2>13 DEF Frames, Depth
<1>5. CASE ~(aim' > 0)
  <2>1. CASE Return /\ loops' = loops - 1
    BY <1>1, <1>3, <1>5, <2>1, ReturnStep DEF StaysAimed
  <2>2. CASE Become([Top EXCEPT !.pc = "start", !.v = st]) /\ loops' = loops
    <3> DEFINE c == [Top EXCEPT !.pc = "start", !.v = st]
    <3>1. "start" \in Places /\ st \in 0 .. 1
      BY DEF Places, EvInv, Types
    <3>2. c \in Call /\ c.k = Top.k /\ c.pc = "start"
      BY <1>2, <3>1 DEF Call
    <3> HIDE DEF c
    <3>3. Sane(c) /\ Active(c) /\ c.k # "call"
      BY <1>1, <1>3, <3>2 DEF Sane, Active
    <3>4. Become(c)
      BY <2>2 DEF c
    <3>5. QED
      BY <1>5, <2>2, <3>2, <3>3, <3>4, BecomeStep DEF StaysAimed
  <2>3. QED
    BY <2>1, <2>2 DEF LoopBody, LoopEnd
<1>6. QED
  BY <1>4, <1>5

\* Commands that only get further, call a text, or return.
LEMMA CommandFrames ==
  ASSUME EvInv,
         \/ Refused \/ Eval \/ Called \/ Err \/ Erred \/ Check \/ GiveUp
         \/ \E x \in 0 .. 1 : Status(x) \/ ReturnFn(x) \/ Exit(x)
         \/ \E w \in {"ERR", "DEBUG", "RETURN", "EXIT"} : SetTrap(w)
  PROVE  Frames'
<1>1. /\ UNCHANGED <<brk, cont, aim, loops>> /\ Top.k = "cmd"
      /\ \/ To("check") \/ To("trip") \/ Return
         \/ Enter("called", Text) \/ Enter("err", Text)
  <2>1. CASE Refused \/ Eval \/ Called \/ Err \/ Erred \/ Check
    BY <2>1 DEF Refused, Run, Eval, Called, Err, Erred, Check, Still, flags, Going, Back, At
  <2>2. CASE \E x \in 0 .. 1 : Status(x) \/ ReturnFn(x) \/ Exit(x)
    BY <2>2 DEF Status, ReturnFn, Exit, Run, Still, flags, Going, At
  <2>3. CASE \E w \in {"ERR", "DEBUG", "RETURN", "EXIT"} : SetTrap(w)
    BY <2>3 DEF SetTrap, Run, flags, Going, At
  <2>4. CASE GiveUp
    BY <2>4 DEF GiveUp, Run, Going, At
  <2>5. QED
    BY <2>1, <2>2, <2>3, <2>4
<1>2. /\ \A pc \in {"check", "trip"} : Active(New("cmd", pc)) /\ Passable(New("cmd", pc))
      /\ \A pc \in {"called", "err"} : Paused(New("cmd", pc)) /\ Passable(New("cmd", pc))
      /\ {"check", "trip", "called", "err"} \subseteq Places
  BY DEF New, Active, Paused, Passable, Places, Loops
<1>3. ASSUME NEW pc \in {"check", "trip"}, To(pc) PROVE Frames'
  <2>1. pc \in Places /\ pc # "debug"
    BY <1>2
  <2>2. QED
    BY <1>1, <1>2, <1>3, <2>1, ToStep DEF StaysAimed
<1>4. ASSUME NEW pc \in {"called", "err"}, Enter(pc, Text) PROVE Frames'
  <2>1. pc \in Places /\ pc # "debug"
    BY <1>2
  <2>2. QED
    BY <1>1, <1>2, <1>4, <2>1, EnterStep DEF StaysAimed
<1>5. CASE Return
  <2>1. Top.k \notin Loops \cup {"call", "shell"}
    BY <1>1 DEF Loops
  <2>2. QED
    BY <1>1, <1>5, <2>1, ReturnStep DEF StaysAimed
<1>6. QED
  BY <1>1, <1>3, <1>4, <1>5

\* DEBUG's handler, and a try.
LEMMA KeptSaved ==
  ASSUME EvInv
  PROVE  /\ Kept \in Seq(Int) /\ Saved(Kept)
         /\ [Kept EXCEPT ![5] = 0] \in Seq(Int) /\ Saved([Kept EXCEPT ![5] = 0])
<1>1. /\ st \in 0 .. 1 /\ brk \in Nat /\ cont \in Nat
      /\ Bit(stop) \in 0 .. 1 /\ Bit(ret) \in 0 .. 1
  BY DEF EvInv, Types, Bit
<1>2. Kept \in Seq(Int) /\ Saved(Kept) /\ Len(Kept) = 5
  BY <1>1 DEF Kept, Saved
<1> DEFINE o == [Kept EXCEPT ![5] = 0]
<1>3. o = <<st, Bit(stop), brk, cont, 0>>
  BY DEF Kept
<1>4. o \in Seq(Int) /\ Saved(o)
  <2> HIDE DEF o
  <2>1. QED
    BY <1>1, <1>3 DEF Saved
<1>5. QED
  BY <1>2, <1>4

\* What a command runs besides itself: the DEBUG trap and try.
LEMMA AsideFrames ==
  ASSUME EvInv, Debug \/ Debugged \/ Try \/ Tried
  PROVE  Frames'
<1>0. Top \in Call /\ Sane(Top) /\ Top.k = "cmd" /\ loops' = loops
  BY InvFacts DEF Debug, Debugged, Try, Tried, Run, flags, Going, Back, At
<1>1. /\ \A pc \in {"run", "check"} : Active(New("cmd", pc))
      /\ \A pc \in {"debug", "try"} : Paused(New("cmd", pc))
      /\ {"run", "check", "debug", "try"} \subseteq Places
      /\ Passable(New("cmd", "check"))
  BY DEF New, Active, Paused, Places, Passable, Loops
<1>2. /\ Sane(Text) /\ Active(Text) /\ Text.k \notin Loops \cup {"shell"} /\ Text.k # "call"
  BY NodeText DEF Loops
<1>3. ASSUME Debug PROVE Frames'
  <2>1. UNCHANGED <<brk, cont, aim, loops>> /\ ~Passable(Top)
    BY <1>3 DEF Debug, flags, Going, At, Passable
  <2>2. CASE To("run")
    BY <1>0, <1>1, <2>1, <2>2, ToStep DEF StaysAimed
  <2>3. CASE Make([Top EXCEPT !.pc = "debug", !.o = Kept], Text)
    <3> DEFINE c == [Top EXCEPT !.pc = "debug", !.o = Kept]
    <3>1. c \in Call /\ c.k = "cmd" /\ c.pc = "debug" /\ c.o = Kept
      BY <1>0, <1>1, KeptSaved DEF Call
    <3> HIDE DEF c
    <3>2. Sane(c) /\ Paused(c)
      BY <3>1, KeptSaved DEF Sane, Paused
    <3>3. Make(c, Text)
      BY <2>3 DEF c
    <3>4. QED
      BY <1>0, <1>2, <2>1, <3>1, <3>2, <3>3, MakeStep DEF StaysAimed
  <2>4. QED
    BY <1>3, <2>2, <2>3 DEF Debug
<1>4. ASSUME Debugged PROVE Frames'
  <2>1. ~(aim' > 0)
    <3>1. ~Passable(Top) /\ aim' \in {0, aim}
      BY <1>4 DEF Debugged, PutBack, Aim, Back, At, Passable
    <3>2. QED
      BY <3>1, Blocked
  <2> DEFINE c == [Top EXCEPT !.pc = "run", !.o = <<>>]
  <2>2. c \in Call /\ c.k = "cmd" /\ c.pc = "run"
    <3>1. <<>> \in Seq(Int)
      OBVIOUS
    <3>2. QED
      BY <1>0, <1>1, <3>1 DEF Call
  <2>3. Become(c)
    BY <1>4 DEF Debugged
  <2> HIDE DEF c
  <2>4. Sane(c) /\ Active(c)
    BY <2>2 DEF Sane, Active
  <2>5. QED
    BY <1>0, <2>1, <2>2, <2>3, <2>4, BecomeStep DEF StaysAimed
<1>5. ASSUME Try PROVE Frames'
  <2>1. UNCHANGED <<brk, cont, aim, loops>> /\ ~Passable(Top)
    BY <1>5 DEF Try, Run, flags, Going, At, Passable
  <2> DEFINE c == [Top EXCEPT !.pc = "try", !.n = Bit(intry)]
  <2>2. c \in Call /\ c.k = "cmd" /\ c.pc = "try"
    <3>1. Bit(intry) \in Nat
      BY DEF Bit
    <3>2. QED
      BY <1>0, <1>1, <3>1 DEF Call
  <2>3. Make(c, Text)
    BY <1>5 DEF Try
  <2> HIDE DEF c
  <2>4. Sane(c) /\ Paused(c)
    BY <2>2 DEF Sane, Paused
  <2>5. QED
    BY <1>0, <1>2, <2>1, <2>2, <2>3, <2>4, MakeStep DEF StaysAimed
<1>6. ASSUME Tried PROVE Frames'
  <2>1. UNCHANGED <<brk, cont, aim, loops>>
    BY <1>6 DEF Tried
  <2> DEFINE c == [Top EXCEPT !.pc = "check", !.n = 0]
  <2>2. c \in Call /\ c.k = "cmd" /\ c.pc = "check"
    BY <1>0, <1>1 DEF Call
  <2>3. Become(c)
    BY <1>6 DEF Tried
  <2> HIDE DEF c
  <2>4. Sane(c) /\ Active(c) /\ Passable(c)
    BY <1>1, <2>2, ByPlace DEF Sane, Active
  <2>5. QED
    BY <1>0, <2>1, <2>2, <2>3, <2>4, BecomeStep DEF StaysAimed
<1>7. QED
  BY <1>3, <1>4, <1>5, <1>6

\* Functions: the loops around one are put aside, and counted again after it.
LEMMA FnFrames ==
  ASSUME EvInv, FnCall \/ FnBody \/ FnUnbound \/ FnReturned \/ FnTrapped
  PROVE  Frames'
<1>0. Top \in Call /\ Sane(Top) /\ loops \in Nat
  BY InvFacts
<1>1. {"called", "start", "body", "unbound", "return"} \subseteq Places
  BY DEF Places
<1>2. /\ Sane(Text) /\ Active(Text) /\ Text.k \notin Loops \cup {"shell"} /\ Text.k # "call"
  BY NodeText DEF Loops
<1>3. ASSUME FnCall PROVE Frames'
  <2>1. /\ Top.k = "cmd" /\ ~Passable(Top) /\ loops' = 0 /\ UNCHANGED <<brk, cont, aim>>
        /\ Enter("called", [New("call", "start") EXCEPT !.n = loops])
    BY <1>3 DEF FnCall, Run, flags, Going, At, Passable
  <2> DEFINE c == [Top EXCEPT !.pc = "called"]
             d == [New("call", "start") EXCEPT !.n = loops]
  <2>2. Sane(c) /\ c.k = Top.k /\ (Paused(c) <=> Paused(New(Top.k, "called")))
    BY <1>1, <2>1, Further
  <2>3. Paused(c)
    BY <2>1, <2>2 DEF Paused, New
  <2>4. Make(c, d)
    BY <2>1 DEF Enter
  <2>5. Sane(d) /\ d.k = "call" /\ d.pc = "start" /\ d.n = loops
    <3> DEFINE r == New("call", "start")
    <3>1. <<>> \in Seq(Int) /\ 0 \in 0 .. 1 /\ 0 \in Nat /\ "start" \in Places
      BY <1>1
    <3>2. r \in Call /\ r.k = "call" /\ r.pc = "start"
      BY <3>1 DEF New, Call
    <3> HIDE DEF r
    <3>3. d \in Call /\ d.k = "call" /\ d.pc = "start" /\ d.n = loops
      BY <1>0, <3>2 DEF Call, r
    <3> HIDE DEF d
    <3>4. QED
      BY <3>3 DEF Sane
  <2> HIDE DEF c, d
  <2>6. Active(d) /\ d.k \notin Loops \cup {"shell"}
    BY <2>5 DEF Active, Loops
  <2>7. QED
    BY <2>1, <2>2, <2>3, <2>4, <2>5, <2>6, MakeStep DEF StaysAimed
<1>4. ASSUME FnBody PROVE Frames'
  <2>1. Top.k = "call" /\ ~Passable(Top) /\ UNCHANGED <<brk, cont, aim, loops>>
        /\ Enter("body", Node)
    BY <1>4 DEF FnBody, Still, flags, Going, At, Passable
  <2>2. Paused(New(Top.k, "body"))
    BY <2>1 DEF Paused, New
  <2>3. QED
    BY <1>1, <2>1, <2>2, EnterStep DEF StaysAimed
<1>5. ASSUME FnReturned \/ FnTrapped PROVE Frames'
  <2>1. Top.k = "call" /\ aim' \in {0, aim}
    BY <1>5 DEF FnReturned, FnTrapped, PutBack, Aim, Going, Back, At
  <2>2. ~(aim' > 0)
    <3>1. ~Passable(Top)
      BY <2>1 DEF Passable
    <3>2. QED
      BY <2>1, <3>1, Blocked
  <2>3. CASE FnEnd
    BY <2>1, <2>2, <2>3, ReturnStep DEF StaysAimed, FnEnd
  <2>4. CASE Make([Top EXCEPT !.pc = "return", !.o = [Kept EXCEPT ![5] = 0]], Text) /\ loops' = loops
    <3> DEFINE o == [Kept EXCEPT ![5] = 0]
               c == [Top EXCEPT !.pc = "return", !.o = o]
    <3>1. o \in Seq(Int) /\ Saved(o)
      BY KeptSaved
    <3>2. Make(c, Text)
      BY <2>4
    <3> HIDE DEF o
    <3>3. c \in Call /\ c.k = "call" /\ c.pc = "return" /\ c.o = o /\ c.n = Top.n
      BY <1>0, <1>1, <2>1, <3>1 DEF Call
    <3> HIDE DEF c
    <3>4. Sane(c) /\ Paused(c)
      BY <3>1, <3>3 DEF Sane, Paused
    <3>5. QED
      BY <1>2, <2>1, <2>2, <2>4, <3>2, <3>3, <3>4, MakeStep DEF StaysAimed
  <2>5. QED
    BY <1>5, <2>3, <2>4 DEF FnReturned, FnTrapped
<1>6. ASSUME FnUnbound PROVE Frames'
  <2>1. Top.k = "call" /\ ~Passable(Top) /\ UNCHANGED <<brk, cont, aim, loops>>
        /\ To("unbound")
    BY <1>6 DEF FnUnbound, Still, flags, Going, At, Passable
  <2>2. Active(New(Top.k, "unbound"))
    BY <2>1 DEF Active, New
  <2>3. QED
    BY <1>1, <2>1, <2>2, ToStep DEF StaysAimed
<1>7. QED
  BY <1>3, <1>4, <1>5, <1>6

\* Texts, handlers of signals and the shell.
LEMMA TextFrames ==
  ASSUME EvInv, Line \/ LineRan
  PROVE  Frames'
<1>1. /\ UNCHANGED <<brk, cont, aim, loops>> /\ Top.k = "text"
      /\ Return \/ To("line") \/ Enter("ran", Node)
  BY DEF Line, LineRan, LineDone, Still, flags, Going, Back, At
<1>2. /\ Active(New("text", "line")) /\ Passable(New("text", "line")) /\ "line" \in Places
      /\ Paused(New("text", "ran")) /\ Passable(New("text", "ran")) /\ "ran" \in Places
  BY DEF New, Active, Paused, Passable, Places, Loops
<1>3. CASE Return
  <2>1. Top.k \notin Loops \cup {"call", "shell"}
    BY <1>1 DEF Loops
  <2>2. QED
    BY <1>1, <1>3, <2>1, ReturnStep DEF StaysAimed
<1>4. CASE To("line")
  BY <1>1, <1>2, <1>4, ToStep DEF StaysAimed
<1>5. CASE Enter("ran", Node)
  BY <1>1, <1>2, <1>5, EnterStep DEF StaysAimed
<1>6. QED
  BY <1>1, <1>3, <1>4, <1>5

\* The scan of tr_run and its handlers.
LEMMA SigFrames ==
  ASSUME EvInv, Scan \/ Handled
  PROVE  Frames'
<1>0. Top \in Call /\ Sane(Top) /\ "scan" \in Places /\ "handler" \in Places
  BY InvFacts DEF Places
<1>1. /\ UNCHANGED <<brk, cont, aim, loops>> /\ Top.k = "sig"
      /\ \/ Return \/ Enter("handler", Text)
         \/ Become([Top EXCEPT !.n = Top.n + 1]) /\ Top.pc = "scan"
         \/ Become([Top EXCEPT !.pc = "scan", !.n = Top.n + 1])
  BY DEF Scan, Handled, flags, Going, Back, At
<1>2. ~Passable(Top)
  BY <1>1 DEF Passable
<1>3. CASE Return
  <2>1. Top.k \notin Loops \cup {"call", "shell"}
    BY <1>1 DEF Loops
  <2>2. QED
    BY <1>1, <1>3, <2>1, ReturnStep DEF StaysAimed
<1>4. CASE Enter("handler", Text)
  <2>1. Paused(New("sig", "handler"))
    BY DEF Paused, New
  <2>2. QED
    BY <1>0, <1>1, <1>2, <1>4, <2>1, EnterStep DEF StaysAimed
<1>5. ASSUME NEW c, Become(c), c \in Call, c.k = "sig", c.pc = "scan", c.n > 0
      PROVE  Frames'
  <2>1. Sane(c) /\ Active(c)
    BY <1>5 DEF Sane, Active
  <2>2. QED
    BY <1>1, <1>2, <1>5, <2>1, BecomeStep DEF StaysAimed
<1>6. Top.n \in Nat /\ Top.n > 0
  BY <1>0, <1>1 DEF Sane, Call
<1>7. CASE Become([Top EXCEPT !.n = Top.n + 1]) /\ Top.pc = "scan"
  <2> DEFINE c == [Top EXCEPT !.n = Top.n + 1]
  <2>1. c \in Call /\ c.k = "sig" /\ c.pc = "scan" /\ c.n = Top.n + 1
    BY <1>0, <1>1, <1>6, <1>7 DEF Call
  <2>2. Become(c)
    BY <1>7
  <2> HIDE DEF c
  <2>3. c.n > 0
    BY <1>6, <2>1
  <2>4. QED
    BY <1>5, <2>1, <2>2, <2>3
<1>8. CASE Become([Top EXCEPT !.pc = "scan", !.n = Top.n + 1])
  <2> DEFINE m == Top.n + 1
             c == [Top EXCEPT !.pc = "scan", !.n = m]
  <2>1. c \in Call /\ c.k = "sig" /\ c.pc = "scan" /\ c.n = m
    <3>1. m \in Nat
      BY <1>6
    <3> HIDE DEF m
    <3>2. QED
      BY <1>0, <1>1, <3>1 DEF Call
  <2>2. Become(c)
    BY <1>8
  <2> HIDE DEF c
  <2>3. c.n > 0
    BY <1>6, <2>1
  <2>4. QED
    BY <1>5, <2>1, <2>2, <2>3
<1>9. QED
  BY <1>1, <1>3, <1>4, <1>7, <1>8

\* The outermost call, which runs the EXIT trap.
LEMMA ShellFrames ==
  ASSUME EvInv, Finish \/ Finished
  PROVE  Frames'
<1>1. /\ UNCHANGED <<brk, cont, aim, loops>> /\ Top.k = "shell"
      /\ To("ended") \/ Enter("exit", Text)
  BY DEF Finish, Finished, Back, At
<1>2. /\ Active(New("shell", "ended")) /\ Paused(New("shell", "exit"))
      /\ "ended" \in Places /\ "exit" \in Places
  BY DEF New, Active, Paused, Places
<1>3. ~Passable(Top)
  BY <1>1 DEF Passable
<1>4. CASE To("ended")
  BY <1>1, <1>2, <1>3, <1>4, ToStep DEF StaysAimed
<1>5. CASE Enter("exit", Text)
  BY <1>1, <1>2, <1>3, <1>5, EnterStep DEF StaysAimed
<1>6. QED
  BY <1>1, <1>4, <1>5

-----------------------------------------------------------------------------
(***************************************************************************)
(* The loop that a break or a continue is for                              *)
(***************************************************************************)

\* The last of some positions.
LEMMA LastIs ==
  ASSUME NEW n \in Nat, NEW S \in SUBSET (1 .. n)
  PROVE  Last(S) \in S \cup {0} /\ \A j \in S : j <= Last(S)
<1>1. \E i \in S \cup {0} : \A j \in S : j <= i
  <2>1. CASE S = {}
    BY <2>1
  <2>2. CASE S # {}
    BY <2>2, LastExists
  <2>3. QED
    BY <2>1, <2>2
<1>2. QED
  BY <1>1 DEF Last

\* The loops to be counted are those the shell counts.
Here == {i \in In(Loops) : i > Last(In({"call"}))}

\* The loops a break may name are those ex_loops counts.
LEMMA HereCounted ==
  ASSUME EvInv
  PROVE  /\ Here = Counted(stk, Depth) /\ loops = Cardinality(Here)
         /\ Here \in SUBSET (1 .. Depth) /\ IsFiniteSet(Here)
<1>1. stk \in Seq(Call) /\ Depth \in Nat \ {0} /\ loops = Level(stk, Depth)
  BY InvFacts
<1>2. DOMAIN stk = 1 .. Depth
  BY <1>1 DEF Depth
<1>3. In({"call"}) \in SUBSET (1 .. Depth)
  BY <1>2 DEF In
<1> DEFINE m == Last(In({"call"}))
<1>4. m \in In({"call"}) \cup {0} /\ \A j \in In({"call"}) : j <= m
  BY <1>1, <1>3, LastIs
<1> HIDE DEF m
<1>5. ASSUME NEW i \in 1 .. Depth
      PROVE  i > m <=> \A h \in i .. Depth : stk[h].k # "call"
  <2>1. m \in 0 .. Depth
    BY <1>1, <1>3, <1>4
  <2>2. ASSUME i > m, NEW h \in i .. Depth, stk[h].k = "call" PROVE FALSE
    <3>1. h \in 1 .. Depth
      BY <1>1
    <3>2. h \in In({"call"})
      BY <1>2, <2>2, <3>1 DEF In
    <3>3. h <= m /\ i <= h /\ m < i
      BY <1>4, <2>2, <3>2
    <3>4. QED
      BY <1>1, <2>1, <3>1, <3>3
  <2>3. ASSUME \A h \in i .. Depth : stk[h].k # "call", ~(i > m) PROVE FALSE
    <3>1. m \in i .. Depth /\ m # 0
      BY <1>1, <2>1, <2>3
    <3>2. stk[m].k = "call"
      BY <1>4, <3>1 DEF In
    <3>3. QED
      BY <2>3, <3>1, <3>2
  <2>4. QED
    BY <2>2, <2>3
<1>6. Here = Counted(stk, Depth)
  <2>1. Here = {i \in In(Loops) : i > m}
    BY DEF Here, m
  <2>2. \A i \in In(Loops) : i \in 1 .. Depth /\ stk[i].k \in Loops
    BY <1>2 DEF In
  <2>3. \A i \in 1 .. Depth : stk[i].k \in Loops => i \in In(Loops)
    BY <1>2 DEF In
  <2>4. QED
    BY <1>5, <2>1, <2>2, <2>3 DEF Counted
<1>7. QED
  BY <1>1, <1>6, CountedFinite DEF Level, Counted

\* Of as many loops as there are, one is the n'th from inside, and it is where
\* the count says.
LEMMA CountedFrom ==
  ASSUME NEW s, NEW d \in Nat, NEW i \in Counted(s, d)
  PROVE  Cardinality({j \in Counted(s, d) : j >= i}) = Level(s, d) - Level(s, i) + 1
<1> DEFINE C == Counted(s, d)
           A == {j \in C : j >= i}
           B == Counted(s, i)
<1>1. i \in 1 .. d /\ s[i].k \in Loops /\ \A h \in i .. d : s[h].k # "call"
  BY DEF Counted
<1>2. IsFiniteSet(C) /\ IsFiniteSet(B)
  BY <1>1, CountedFinite
<1>3. B = {j \in C : j <= i}
  <2>1. ASSUME NEW j \in 1 .. i
        PROVE  (\A h \in j .. i : s[h].k # "call") <=> (\A h \in j .. d : s[h].k # "call")
    BY <1>1
  <2>2. QED
    BY <1>1, <2>1 DEF Counted
<1>4. C \subseteq 1 .. d
  BY DEF Counted
<1> HIDE DEF C, B
<1>5. A \cup B = C /\ A \cap B = {i} /\ A \subseteq C
  BY <1>1, <1>3, <1>4 DEF C
<1>6. IsFiniteSet(A)
  BY <1>2, <1>5, FS_Subset
<1>7. Cardinality({i}) = 1
  <2>1. IsFiniteSet({}) /\ Cardinality({}) = 0
    BY FS_EmptySet
  <2>2. {} \cup {i} = {i}
    OBVIOUS
  <2>3. QED
    BY <2>1, <2>2, FS_AddElement
<1> HIDE DEF A
<1>8. Cardinality(C) = Cardinality(A) + Cardinality(B) - Cardinality({i})
  BY <1>2, <1>5, <1>6, FS_Union
<1>9. Cardinality(A) \in Nat /\ Cardinality(B) \in Nat /\ Cardinality(C) \in Nat
  BY <1>2, <1>6, FS_CardinalityType
<1>10. Cardinality(A) = Cardinality(C) - Cardinality(B) + 1
  BY <1>7, <1>8, <1>9
<1>11. QED
  BY <1>10 DEF A, B, C, Level

\* Among enough positions there is an n-th from the top.
LEMMA NthExists ==
  ASSUME NEW d \in Nat, NEW S \in SUBSET (1 .. d), NEW n \in Nat \ {0}, n <= Cardinality(S)
  PROVE  \E i \in S : Cardinality({j \in S : j >= i}) = n
<1> DEFINE A(i) == {j \in S : j >= i}
<1>0. S \subseteq 1 .. d /\ \A j \in S : j \in Nat /\ 1 <= j /\ j <= d
  OBVIOUS
<1>1. IsFiniteSet(S) /\ \A i \in Nat : IsFiniteSet(A(i)) /\ Cardinality(A(i)) \in Nat
  <2>1. IsFiniteSet(S)
    <3>1. IsFiniteSet(1 .. d)
      BY FS_Interval
    <3>2. QED
      BY <1>0, <3>1, FS_Subset
  <2>2. \A i \in Nat : A(i) \in SUBSET S
    OBVIOUS
  <2>3. QED
    BY <2>1, <2>2, FS_Subset, FS_CardinalityType
<1> DEFINE P == {i \in 1 .. d : Cardinality(A(i)) >= n}
<1>2. P # {}
  <2>1. S # {}
    BY FS_EmptySet
  <2>2. 1 \in 1 .. d /\ A(1) = S
    <3>1. PICK j \in S : TRUE
      BY <2>1
    <3>2. 1 <= j /\ j <= d /\ j \in Nat
      BY <1>0
    <3>3. 1 \in 1 .. d
      BY <3>2
    <3>4. \A x \in S : x >= 1
      BY <1>0
    <3>5. QED
      BY <3>3, <3>4
  <2>3. 1 \in P
    BY <2>2
  <2>4. QED
    BY <2>3
<1>3. PICK i \in P : \A j \in P : j <= i
  BY <1>2, LastExists
<1>4. i \in 1 .. d /\ Cardinality(A(i)) >= n
  BY <1>3
<1>5. ~(Cardinality(A(i + 1)) >= n)
  <2>1. CASE i < d
    <3>1. i + 1 \in 1 .. d /\ i + 1 \notin P
      BY <1>3, <1>4, <2>1
    <3>2. QED
      BY <3>1
  <2>2. CASE i = d
    <3>1. A(i + 1) = {}
      <4>1. \A j \in S : ~(j >= i + 1)
        BY <1>0, <1>4, <2>2
      <4>2. QED
        BY <4>1
    <3>2. Cardinality(A(i + 1)) = 0
      BY <3>1, FS_EmptySet
    <3>3. QED
      BY <3>2
  <2>3. QED
    BY <1>4, <2>1, <2>2
<1>6. i \in Nat /\ i + 1 \in Nat
  BY <1>4
<1>7. CASE i \notin S
  <2>1. A(i) = A(i + 1)
    <3>1. \A j \in S : j # i
      BY <1>7
    <3>2. \A j \in S : j >= i <=> j >= i + 1
      BY <1>0, <1>6, <3>1
    <3>3. QED
      BY <3>2
  <2>2. QED
    BY <1>4, <1>5, <2>1
<1>8. CASE i \in S
  <2>1. A(i) = A(i + 1) \cup {i} /\ i \notin A(i + 1)
    <3>1. \A j \in S : j >= i <=> j >= i + 1 \/ j = i
      BY <1>0, <1>6
    <3>2. i >= i /\ ~(i >= i + 1)
      BY <1>6
    <3>3. QED
      BY <1>8, <3>1, <3>2
  <2>2. IsFiniteSet(A(i + 1)) /\ Cardinality(A(i + 1)) \in Nat
    BY <1>1, <1>6
  <2>3. Cardinality(A(i)) = Cardinality(A(i + 1)) + 1
    BY <2>1, <2>2, FS_AddElement
  <2>4. Cardinality(A(i)) = n
    BY <1>4, <1>5, <2>2, <2>3
  <2>5. QED
    BY <1>8, <2>4
<1>9. QED
  BY <1>7, <1>8

\* So a break or a continue that is promised its loop is aimed at it.
LEMMA LeftAims ==
  ASSUME EvInv, NEW n \in 1 .. loops, Top.k = "cmd", Top.pc = "run", Left(n) # -1
  PROVE  /\ Left(n) \in 1 .. Depth - 1 /\ stk[Left(n)].k \in Loops /\ ~Jumping
         /\ \A i \in Left(n) .. Depth - 1 : Passable(stk[i])
         /\ n = loops - Level(stk, Left(n)) + 1
<1>1. /\ stk \in Seq(Call) /\ Depth \in Nat \ {0} /\ loops = Level(stk, Depth) /\ loops \in Nat
  BY InvFacts
<1>2. DOMAIN stk = 1 .. Depth
  BY <1>1 DEF Depth
<1>3. /\ Here = Counted(stk, Depth) /\ loops = Cardinality(Here)
      /\ Here \in SUBSET (1 .. Depth)
  BY HereCounted
<1> DEFINE to == CHOOSE i \in Here : Cardinality({j \in Here : j >= i}) = n
<1>4. to \in Here /\ Cardinality({j \in Here : j >= to}) = n
  <2>1. n \in Nat \ {0} /\ n <= Cardinality(Here) /\ Depth \in Nat
    BY <1>1, <1>3
  <2>2. \E i \in Here : Cardinality({j \in Here : j >= i}) = n
    BY <1>3, <2>1, NthExists
  <2>3. QED
    BY <2>2
<1>5. /\ Left(n) = to /\ ~Jumping /\ ~(to < Last(In({"sig"})))
      /\ \A i \in to .. Depth : /\ ~(stk[i].k = "cmd" /\ stk[i].pc = "debug")
                                /\ ~(stk[i].k = "call" /\ stk[i].pc = "return")
                                /\ ~(i \in Here /\ stk[i].pc # "body")
  BY DEF Left, Here
<1> HIDE DEF to
<1>6. /\ to \in 1 .. Depth /\ stk[to].k \in Loops
      /\ \A h \in to .. Depth : stk[h].k # "call"
  BY <1>3, <1>4 DEF Counted
<1>7. n = loops - Level(stk, to) + 1
  BY <1>1, <1>3, <1>4, CountedFrom
<1>8. to \in 1 .. Depth - 1
  <2>1. Top.k \notin Loops
    BY DEF Loops
  <2>2. to # Depth
    BY <1>6, <2>1 DEF Top
  <2>3. QED
    BY <1>1, <1>6, <2>2
<1>9. \A h \in to .. Depth : stk[h].k # "sig"
  <2>1. In({"sig"}) \in SUBSET (1 .. Depth)
    BY <1>2 DEF In
  <2>2. Last(In({"sig"})) \in In({"sig"}) \cup {0} /\ \A j \in In({"sig"}) : j <= Last(In({"sig"}))
    BY <1>1, <2>1, LastIs
  <2>3. SUFFICES ASSUME NEW h \in to .. Depth, stk[h].k = "sig" PROVE FALSE
    OBVIOUS
  <2>4. h \in In({"sig"}) /\ h \in Nat
    BY <1>2, <1>6, <2>3 DEF In
  <2>5. h <= Last(In({"sig"})) /\ Last(In({"sig"})) \in 0 .. Depth
    BY <1>1, <2>1, <2>2, <2>4
  <2>6. h = to
    BY <1>5, <1>6, <2>3, <2>4, <2>5
  <2>7. QED
    BY <1>6, <2>3, <2>6 DEF Loops
<1>10. ASSUME NEW i \in to .. Depth - 1
       PROVE  Passable(stk[i])
  <2>1. i \in 1 .. Depth - 1 /\ i \in to .. Depth /\ i \in 1 .. Depth /\ i + 1 \in to .. Depth
    BY <1>1, <1>8
  <2>2. Paused(stk[i]) /\ (stk[i].k = "node" => stk[i + 1].k = "sig")
    BY <2>1, InvFacts DEF ShapeOf, Depth
  <2>3. stk[i].k # "node" /\ stk[i].k \notin {"call", "sig"}
    BY <1>6, <1>9, <2>1, <2>2
  <2>4. stk[i].k # "shell"
    <3>1. stk[i].k = "shell" => i = 1
      BY <2>1, InvFacts DEF ShapeOf, Depth
    <3>2. i = 1 => to = 1
      BY <1>8, <2>1
    <3>3. stk[to].k # "shell"
      BY <1>6 DEF Loops
    <3>4. QED
      BY <3>1, <3>2, <3>3
  <2>5. stk[i].k \in Loops => stk[i].pc = "body"
    <3>1. stk[i].k \in Loops => i \in Here
      <4>1. \A h \in i .. Depth : stk[h].k # "call"
        BY <1>6, <1>8, <2>1
      <4>2. QED
        BY <1>3, <2>1, <4>1 DEF Counted
    <3>2. QED
      BY <1>5, <2>1, <3>1
  <2>6. ~(stk[i].k = "cmd" /\ stk[i].pc = "debug")
    BY <1>5, <2>1
  <2>7. stk[i].pc \notin {"start", "run", "debug"}
    BY <2>2, <2>4, <2>6 DEF Paused
  <2>8. QED
    BY <2>3, <2>4, <2>5, <2>7 DEF Passable
<1>11. QED
  BY <1>5, <1>6, <1>7, <1>8, <1>10

\* What is left of a count of n is the way to the loop Left(n).
LEMMA LeftFrames ==
  ASSUME EvInv, NEW n \in 1 .. loops, Top.k = "cmd", Top.pc = "run", To("check"),
         aim' = Left(n), loops' = loops,
         ~Jumping => brk' + cont' = n /\ (brk' = 0 \/ cont' = 0)
  PROVE  Frames' /\ aim' \in Int /\ aim' >= -1
<1>1. Active(New("cmd", "check")) /\ Passable(New("cmd", "check")) /\ "check" \in Places
  BY DEF New, Active, Passable, Places, Loops
<1>2. CASE Left(n) = -1
  <2>1. ~(aim' > 0) /\ aim' \in Int /\ aim' >= -1
    BY <1>2
  <2>2. QED
    BY <1>1, <2>1, ToStep DEF StaysAimed
<1>3. CASE Left(n) # -1
  <2>1. /\ aim' \in 1 .. Depth - 1 /\ stk[aim'].k \in Loops /\ ~Jumping
        /\ \A i \in aim' .. Depth - 1 : Passable(stk[i])
        /\ n = loops - Level(stk, aim') + 1
    BY <1>3, LeftAims
  <2> DEFINE c == [Top EXCEPT !.pc = "check"]
  <2>2. /\ ShapeOf(stk, up) /\ up \in BOOLEAN /\ loops = Level(stk, Depth)
        /\ stk \in Seq(Call) /\ stk # <<>> /\ Depth \in Nat \ {0} /\ loops \in Nat
    BY InvFacts
  <2>3. Sane(c) /\ c.k = Top.k /\ c.pc = "check" /\ c.n = Top.n /\ Active(c) /\ Passable(c)
    BY <1>1, Further
  <2>4. stk' = [stk EXCEPT ![Len(stk)] = c] /\ up' = FALSE
    BY DEF To, Become, Depth
  <2> HIDE DEF c
  <2>5. ShapeOf(stk', up') /\ Level(stk', Len(stk')) = loops
    <3>1. stk[Len(stk)].k = "cmd"
      BY DEF Top, Depth
    <3>2. c.k = stk[Len(stk)].k
      BY <2>3 DEF Top, Depth
    <3>3. QED
      BY <2>2, <2>3, <2>4, <3>1, <3>2, BecomeShape DEF Depth
  <2>6. /\ Len(stk') = Depth /\ stk'[Depth] = c
        /\ \A i \in 1 .. Depth - 1 : stk'[i] = stk[i]
    BY <2>2, <2>3, <2>4, Replaced DEF Sane, Depth
  <2>7. aim' \in Nat \ {0} /\ aim' < Depth
    BY <2>1, <2>2
  <2>8. Level(stk', aim') = Level(stk, aim')
    <3>1. \A j \in 1 .. aim' : stk'[j].k = stk[j].k
      BY <2>2, <2>6, <2>7
    <3>2. QED
      BY <2>7, <3>1, LevelSame
  <2>9. AimedOf(stk', aim', brk', cont', loops')
    <3>1. aim' \in 1 .. Len(stk') /\ stk'[aim'].k \in Loops
      BY <2>1, <2>2, <2>6
    <3>2. ASSUME NEW i \in aim' .. Depth
          PROVE  Passable(stk'[i])
      <4>1. CASE i = Depth
        BY <2>3, <2>6, <4>1
      <4>2. CASE i # Depth
        BY <2>1, <2>2, <2>6, <4>2
      <4>3. QED
        BY <4>1, <4>2
    <3>3. brk' + cont' = loops' - Level(stk', aim') + 1 /\ (brk' = 0 \/ cont' = 0)
      BY <2>1, <2>8
    <3>4. QED
      BY <2>6, <3>1, <3>2, <3>3 DEF AimedOf
  <2>10. QED
    BY <2>5, <2>7, <2>9 DEF Frames, Depth
<1>4. QED
  BY <1>2, <1>3

\* A break or a continue sets out for its loop.
LEMMA BreakFrames ==
  ASSUME EvInv, NEW n \in 0 .. loops, Break(n) \/ Continue(n)
  PROVE  /\ Frames' /\ aim' \in Int /\ aim' >= -1
         /\ brk' \in Nat /\ cont' \in Nat /\ (brk' > 0 \/ cont' > 0)
<1>1. brk \in Nat /\ cont \in Nat /\ loops \in Nat
  BY InvFacts
<1>2. /\ Top.k = "cmd" /\ Top.pc = "run" /\ To("check") /\ loops' = loops
  BY DEF Break, Continue, Run, Going, At
<1>3. ~Jumping => brk = 0 /\ cont = 0
  BY <1>1 DEF Jumping
<1>4. CASE Break(n)
  <2>1. brk' = IF n = 0 THEN loops ELSE n
    BY <1>4 DEF Break
  <2>2. brk' \in 1 .. loops /\ aim' = Left(brk') /\ cont' = cont
    <3>1. loops > 0 /\ aim' = Left(brk') /\ cont' = cont
      BY <1>4 DEF Break
    <3>2. brk' \in 1 .. loops
      BY <1>1, <2>1, <3>1
    <3>3. QED
      BY <3>1, <3>2
  <2>3. ~Jumping => brk' + cont' = brk' /\ (brk' = 0 \/ cont' = 0)
    <3>1. brk' \in Nat
      BY <1>1, <2>2
    <3>2. \A k \in Nat : k + 0 = k
      OBVIOUS
    <3>3. ~Jumping => cont' = 0
      BY <1>3, <2>2
    <3>4. QED
      BY <3>1, <3>2, <3>3
  <2>4. Frames' /\ aim' \in Int /\ aim' >= -1
    BY <1>2, <2>2, <2>3, LeftFrames
  <2>5. brk' \in Nat /\ brk' > 0 /\ cont' \in Nat
    BY <1>1, <2>2
  <2>6. QED
    BY <2>4, <2>5
<1>5. CASE Continue(n)
  <2>1. n \in 1 .. loops /\ cont' = n /\ aim' = Left(n) /\ brk' = brk
    BY <1>1, <1>5 DEF Continue
  <2>2. ~Jumping => brk' + cont' = n /\ (brk' = 0 \/ cont' = 0)
    BY <1>3, <2>1
  <2>3. Frames' /\ aim' \in Int /\ aim' >= -1
    BY <1>2, <2>1, <2>2, LeftFrames
  <2>4. QED
    BY <1>1, <2>1, <2>3
<1>6. QED
  BY <1>4, <1>5

-----------------------------------------------------------------------------
(***************************************************************************)
(* The invariant                                                           *)
(***************************************************************************)

\* What a handler of DEBUG or RETURN found can be put back.
LEMMA PutBackTypes ==
  ASSUME EvInv,
         \/ Top.k = "cmd" /\ Top.pc = "debug"
         \/ Top.k = "call" /\ Top.pc = "return",
         PutBack(Top.o)
  PROVE  /\ st' \in 0 .. 1 /\ stop' \in BOOLEAN /\ ret' \in BOOLEAN
         /\ brk' \in Nat /\ cont' \in Nat
         /\ aim' \in Int /\ aim' >= -1 /\ (aim' # 0 => brk' > 0 \/ cont' > 0)
<1>1. Saved(Top.o) /\ aim \in Int /\ aim >= -1
  BY InvFacts DEF Sane
<1>2. st' \in 0 .. 1 /\ stop' \in BOOLEAN /\ ret' \in BOOLEAN /\ brk' \in Nat /\ cont' \in Nat
  BY <1>1 DEF PutBack, Saved
<1>3. aim' = IF brk' = 0 /\ cont' = 0 THEN 0 ELSE aim
  BY DEF PutBack, Aim
<1>4. QED
  BY <1>1, <1>2, <1>3

\* What the actions that leave brk, cont and aim alone do to the rest.
Rest ==
  /\ st \in 0 .. 1 /\ tst \in BOOLEAN
  /\ quit \in BOOLEAN /\ stop \in BOOLEAN /\ ret \in BOOLEAN
  /\ intry \in BOOLEAN
  /\ trap \in SUBSET {"ERR", "DEBUG", "RETURN", "EXIT"}
  /\ pend \in [Signals -> BOOLEAN] /\ any \in BOOLEAN /\ abline \in BOOLEAN

\* The types that are not about the stack, over the walk's own steps.
LEMMA WalkRest ==
  ASSUME EvInv, Walk
  PROVE  Rest'
<1>1. Rest /\ Top \in Call /\ Top.v \in 0 .. 1 /\ Top.t \in BOOLEAN
  BY InvFacts DEF EvInv, Types, Rest, Call
<1>2. CASE Skip \/ Handle \/ Abandon \/ \E k \in script.kinds : Choose(k) \/ RedirFails(k)
  <2>1. CASE Skip \/ Handle \/ Abandon
    BY <1>1, <2>1 DEF Rest, Skip, Handle, Abandon, flags, traps, globals
  <2>2. ASSUME NEW k \in script.kinds, Choose(k) PROVE Rest'
    BY <1>1, <2>2 DEF Rest, Choose, Entered, flags, traps, globals
  <2>3. ASSUME NEW k \in script.kinds, RedirFails(k) PROVE Rest'
    <3>1. /\ st' = 1 /\ tst' = FALSE
          /\ UNCHANGED <<quit, stop, ret, intry, trap, pend, any, abline>>
      BY <2>3 DEF RedirFails, Entered, flags, traps, globals
    <3>2. st' \in 0 .. 1
      BY <3>1
    <3>3. tst' \in BOOLEAN
      BY <3>1
    <3>4. QED
      BY <1>1, <3>1, <3>2, <3>3 DEF Rest
  <2>4. QED
    BY <1>2, <2>1, <2>2, <2>3
<1>3. CASE SeqFirst \/ SeqNext \/ Group \/ Through
  <2>1. ASSUME SeqFirst PROVE Rest'
    BY <1>1, <2>1 DEF Rest, SeqFirst, Still, flags, traps, globals
  <2>2. ASSUME SeqNext PROVE Rest'
    BY <1>1, <2>2 DEF Rest, SeqNext, Still, flags, traps, globals
  <2>3. ASSUME Group PROVE Rest'
    BY <1>1, <2>3 DEF Rest, Group, Still, flags, traps, globals
  <2>4. ASSUME Through PROVE Rest'
    BY <1>1, <2>4 DEF Rest, Through, Still, flags, traps, globals
  <2>5. QED
    BY <1>3, <2>1, <2>2, <2>3, <2>4
<1>4. CASE Test \/ AndOr \/ Not \/ If
  <2>1. ASSUME Test PROVE Rest'
    BY <1>1, <2>1 DEF Rest, Test, Still, flags, traps, globals
  <2>2. ASSUME AndOr PROVE Rest'
    BY <1>1, <2>2 DEF Rest, AndOr, Still, flags, traps, globals
  <2>3. ASSUME Not PROVE Rest'
    BY <1>1, <2>3 DEF Rest, Not, Still, flags, traps, globals
  <2>4. ASSUME If PROVE Rest'
    BY <1>1, <2>4 DEF Rest, If, Still, flags, traps, globals
  <2>5. QED
    BY <1>4, <2>1, <2>2, <2>3, <2>4
<1>5. CASE LoopTest \/ LoopTested \/ ForNext \/ LoopBody
  <2>1. ASSUME LoopTest PROVE Rest'
    BY <1>1, <2>1 DEF Rest, LoopTest, LoopEnd, flags, traps, globals
  <2>2. ASSUME LoopTested PROVE Rest'
    BY <1>1, <2>2 DEF Rest, LoopTested, LoopEnd, flags, traps, globals
  <2>3. ASSUME ForNext PROVE Rest'
    BY <1>1, <2>3 DEF Rest, ForNext, LoopEnd, flags, traps, globals
  <2>4. ASSUME LoopBody PROVE Rest'
    BY <1>1, <2>4 DEF Rest, LoopBody, LoopEnd, flags, traps, globals
  <2>5. QED
    BY <1>5, <2>1, <2>2, <2>3, <2>4
<1>6. CASE Line \/ LineRan \/ Finish \/ Finished
  <2>1. ASSUME Line PROVE Rest'
    BY <1>1, <2>1 DEF Rest, Line, Still, flags, traps, globals
  <2>2. ASSUME LineRan PROVE Rest'
    <3>1. /\ stop' = (stop /\ ~abline) /\ abline' = FALSE
          /\ UNCHANGED <<st, tst, quit, ret, intry, trap, pend, any>>
      BY <2>2 DEF LineRan, LineDone, traps
    <3>2. stop' \in BOOLEAN /\ abline' \in BOOLEAN
      BY <3>1
    <3>3. QED
      BY <1>1, <3>1, <3>2 DEF Rest
  <2>3. ASSUME Finish PROVE Rest'
    BY <1>1, <2>3 DEF Rest, Finish, Still, flags, traps, globals
  <2>4. ASSUME Finished PROVE Rest'
    BY <1>1, <2>4 DEF Rest, Finished, Still, flags, traps, globals
  <2>5. QED
    BY <1>6, <2>1, <2>2, <2>3, <2>4
<1>7. CASE Scan \/ Handled
  <2>1. ASSUME Scan PROVE Rest'
    BY <1>1, <2>1 DEF Rest, Scan, flags, traps, globals
  <2>2. ASSUME Handled PROVE Rest'
    BY <1>1, <2>2 DEF Rest, Handled, flags, traps, globals
  <2>3. QED
    BY <1>7, <2>1, <2>2
<1>8. QED
  BY <1>2, <1>3, <1>4, <1>5, <1>6, <1>7 DEF Walk

\* The same over a command's.
LEMMA CommandRest ==
  ASSUME EvInv, Command
  PROVE  Rest'
<1>1. Rest /\ Top \in Call /\ Top.v \in 0 .. 1 /\ Top.t \in BOOLEAN
  BY InvFacts DEF EvInv, Types, Rest, Call
<1>2. CASE Debug \/ Refused \/ GiveUp \/ \E x \in 0 .. 1 : Status(x) \/ ReturnFn(x) \/ Exit(x)
  <2>1. ASSUME Debug PROVE Rest'
    BY <1>1, <2>1 DEF Rest, Debug, flags, globals
  <2>2. ASSUME Refused PROVE Rest'
    BY <1>1, <2>2 DEF Rest, Refused, Still, flags, traps, globals
  <2>3. ASSUME NEW x \in 0 .. 1, Status(x) PROVE Rest'
    BY <1>1, <2>3 DEF Rest, Status, Still, flags, traps, globals
  <2>4. ASSUME NEW x \in 0 .. 1, ReturnFn(x) PROVE Rest'
    BY <1>1, <2>4 DEF Rest, ReturnFn, traps, globals
  <2>5. ASSUME NEW x \in 0 .. 1, Exit(x) PROVE Rest'
    BY <1>1, <2>5 DEF Rest, Exit, traps, globals
  <2>6. ASSUME GiveUp PROVE Rest'
    <3>1. /\ st' = 1 /\ stop' \in {TRUE, stop} /\ quit' \in {TRUE, quit} /\ abline' \in {TRUE, abline}
          /\ UNCHANGED <<tst, ret, intry, trap, pend, any>>
      BY <2>6 DEF GiveUp, traps
    <3>2. st' \in 0 .. 1
      BY <3>1
    <3>3. stop' \in BOOLEAN /\ quit' \in BOOLEAN /\ abline' \in BOOLEAN
      BY <1>1, <3>1 DEF Rest
    <3>4. QED
      BY <1>1, <3>1, <3>2, <3>3 DEF Rest
  <2>7. QED
    BY <1>2, <2>1, <2>2, <2>3, <2>4, <2>5, <2>6
<1>3. CASE Debugged
  <2>1. st' \in 0 .. 1 /\ stop' \in BOOLEAN /\ ret' \in BOOLEAN
    BY <1>3, PutBackTypes DEF Debugged, Back, At
  <2>2. QED
    BY <1>1, <1>3, <2>1 DEF Rest, Debugged, globals
<1>4. CASE \E n \in 0 .. loops : Break(n) \/ Continue(n)
  <2>1. /\ st' \in {0, 1}
        /\ UNCHANGED <<tst, quit, stop, ret, intry, trap, pend, any, abline>>
    <3>1. PICK n \in 0 .. loops : Break(n) \/ Continue(n)
      BY <1>4
    <3>2. CASE Break(n)
      BY <3>2 DEF Break, traps, globals
    <3>3. CASE Continue(n)
      BY <3>3 DEF Continue, traps, globals
    <3>4. QED
      BY <3>1, <3>2, <3>3
  <2>2. st' \in 0 .. 1
    BY <2>1
  <2>3. QED
    BY <1>1, <2>1, <2>2 DEF Rest
<1>5. CASE \E w \in {"ERR", "DEBUG", "RETURN", "EXIT"} : SetTrap(w)
  <2>1. PICK w \in {"ERR", "DEBUG", "RETURN", "EXIT"} : SetTrap(w)
    BY <1>5
  <2>2. /\ st' = 0 /\ trap' \in {trap \cup {w}, trap \ {w}}
        /\ UNCHANGED <<tst, quit, stop, ret, intry, pend, any, abline>>
    BY <2>1 DEF SetTrap, flags, globals
  <2>3. trap' \in SUBSET {"ERR", "DEBUG", "RETURN", "EXIT"}
    BY <1>1, <2>2 DEF Rest
  <2>4. st' \in 0 .. 1
    BY <2>2
  <2>5. QED
    BY <1>1, <2>2, <2>3, <2>4 DEF Rest
<1>6. CASE Try \/ Tried \/ Eval \/ FnCall \/ Called
  <2>1. ASSUME Try PROVE Rest'
    BY <1>1, <2>1 DEF Rest, Try, Still, flags, traps, globals
  <2>2. ASSUME Tried PROVE Rest'
    <3>1. /\ st' = 0 /\ stop' = FALSE /\ intry' = (Top.n = 1)
          /\ UNCHANGED <<tst, quit, ret, trap, pend, any, abline>>
      BY <2>2 DEF Tried, globals
    <3>2. st' \in 0 .. 1 /\ stop' \in BOOLEAN /\ intry' \in BOOLEAN
      <4>1. st' \in 0 .. 1
        BY <3>1
      <4>2. stop' \in BOOLEAN
        BY <3>1
      <4>3. intry' \in BOOLEAN
        BY <3>1
      <4>4. QED
        BY <4>1, <4>2, <4>3
    <3>3. QED
      BY <1>1, <3>1, <3>2 DEF Rest
  <2>3. ASSUME Eval PROVE Rest'
    BY <1>1, <2>3 DEF Rest, Eval, Still, flags, traps, globals
  <2>4. ASSUME FnCall PROVE Rest'
    BY <1>1, <2>4 DEF Rest, FnCall, Still, flags, traps, globals
  <2>5. ASSUME Called PROVE Rest'
    BY <1>1, <2>5 DEF Rest, Called, Still, flags, traps, globals
  <2>6. QED
    BY <1>6, <2>1, <2>2, <2>3, <2>4, <2>5
<1>7. CASE FnBody \/ FnUnbound \/ FnReturned
  <2>1. ASSUME FnBody PROVE Rest'
    BY <1>1, <2>1 DEF Rest, FnBody, Still, flags, traps, globals
  <2>2. ASSUME FnReturned PROVE Rest'
    BY <1>1, <2>2 DEF Rest, FnReturned, FnEnd, Still, flags, traps, globals
  <2>3. ASSUME FnUnbound PROVE Rest'
    BY <1>1, <2>3 DEF Rest, FnUnbound, Still, flags, traps, globals
  <2>4. QED
    BY <1>7, <2>1, <2>2, <2>3
<1>8. CASE FnTrapped
  <2>1. st' \in 0 .. 1 /\ stop' \in BOOLEAN /\ ret' \in BOOLEAN
    BY <1>8, PutBackTypes DEF FnTrapped, Back, At
  <2>2. QED
    BY <1>1, <1>8, <2>1 DEF Rest, FnTrapped, FnEnd, traps, globals
<1>9. CASE Err \/ Erred \/ Check
  <2>1. ASSUME Err PROVE Rest'
    BY <1>1, <2>1 DEF Rest, Err, flags, traps, globals
  <2>2. ASSUME Erred PROVE Rest'
    <3>1. /\ st' = 1 /\ stop' = FALSE /\ trap' = trap \cup {"ERR"}
          /\ UNCHANGED <<tst, quit, ret, intry, pend, any, abline>>
      BY <2>2 DEF Erred, globals
    <3>2. st' \in 0 .. 1 /\ stop' \in BOOLEAN
      <4>1. st' \in 0 .. 1
        BY <3>1
      <4>2. stop' \in BOOLEAN
        BY <3>1
      <4>3. QED
        BY <4>1, <4>2
    <3>3. trap' \in SUBSET {"ERR", "DEBUG", "RETURN", "EXIT"}
      BY <1>1, <3>1 DEF Rest
    <3>4. QED
      BY <1>1, <3>1, <3>2, <3>3 DEF Rest
  <2>3. ASSUME Check PROVE Rest'
    BY <1>1, <2>3 DEF Rest, Check, flags, traps, globals
  <2>4. QED
    BY <1>9, <2>1, <2>2, <2>3
<1>10. QED
  BY <1>2, <1>3, <1>4, <1>5, <1>6, <1>7, <1>8, <1>9 DEF Command

\* Few actions touch the counts of loops to be left.
LEMMA WalkAim ==
  ASSUME Walk
  PROVE  UNCHANGED <<brk, cont, aim>> \/ LoopBody
<1>1. CASE Skip \/ Handle \/ Abandon \/ \E k \in script.kinds : Choose(k) \/ RedirFails(k)
  BY <1>1 DEF Skip, Handle, Abandon, Choose, RedirFails, flags
<1>2. CASE SeqFirst \/ SeqNext \/ Group \/ Through \/ Test \/ AndOr \/ Not \/ If \/ Line \/ LineRan
  BY <1>2 DEF SeqFirst, SeqNext, Group, Through, Test, AndOr, Not, If, Line, LineRan, LineDone, Still, flags
<1>3. CASE LoopTest \/ LoopTested \/ ForNext \/ Scan \/ Handled \/ Finish \/ Finished
  BY <1>3 DEF LoopTest, LoopTested, ForNext, Scan, Handled, Finish, Finished, flags
<1>4. QED
  BY <1>1, <1>2, <1>3 DEF Walk

\* Which steps of a command touch a break or continue under way.
LEMMA CommandAim ==
  ASSUME Command
  PROVE  \/ UNCHANGED <<brk, cont, aim>>
         \/ Debugged \/ FnTrapped
         \/ \E n \in 0 .. loops : Break(n) \/ Continue(n)
<1>1. CASE Debug \/ Refused \/ GiveUp \/ \E x \in 0 .. 1 : Status(x) \/ ReturnFn(x) \/ Exit(x)
  BY <1>1 DEF Debug, Refused, GiveUp, Status, ReturnFn, Exit, Still, flags
<1>2. CASE \E w \in {"ERR", "DEBUG", "RETURN", "EXIT"} : SetTrap(w)
  BY <1>2 DEF SetTrap, flags
<1>3. CASE Try \/ Tried \/ Eval \/ FnCall \/ Called \/ FnBody \/ FnUnbound \/ FnReturned
  BY <1>3 DEF Try, Tried, Eval, FnCall, Called, FnBody, FnUnbound, FnReturned, Still, flags
<1>4. CASE Err \/ Erred \/ Check
  BY <1>4 DEF Err, Erred, Check, flags
<1>5. QED
  BY <1>1, <1>2, <1>3, <1>4 DEF Command


\* Every step keeps the stack's shape, its loops and its aim.
LEMMA FrameStep ==
  ASSUME EvInv, Command \/ Walk, UNCHANGED script
  PROVE  Frames'
<1>1. CASE Walk
  <2>1. script.kinds \subseteq Loops \cup Tests \cup {"cmd", "seq", "grp"}
    BY EvaluatorAssumption DEF EvInv, Types
  <2>2. ASSUME NEW k \in script.kinds, Choose(k) PROVE Frames'
    BY <2>1, <2>2, ChooseFrames
  <2>3. ASSUME NEW k \in script.kinds, RedirFails(k) PROVE Frames'
    BY <2>3, NodeFrames
  <2>4. QED
    BY <1>1, <2>2, <2>3, NodeFrames, ListFrames, TestFrames, LoopFrames, LoopBodyFrames,
       TextFrames, SigFrames, ShellFrames DEF Walk
<1>2. CASE Command
  <2>1. ASSUME NEW n \in 0 .. loops, Break(n) \/ Continue(n) PROVE Frames'
    BY <2>1, BreakFrames
  <2>2. QED
    BY <1>2, <2>1, CommandFrames, AsideFrames, FnFrames DEF Command
<1>3. QED
  BY <1>1, <1>2

\* Every step keeps the types of the counts.
LEMMA CountTypes ==
  ASSUME EvInv, Command \/ Walk
  PROVE  /\ brk' \in Nat /\ cont' \in Nat /\ aim' \in Int /\ aim' >= -1
         /\ aim' # 0 => brk' > 0 \/ cont' > 0
<1>0. /\ brk \in Nat /\ cont \in Nat /\ aim \in Int /\ aim >= -1
      /\ aim # 0 => brk > 0 \/ cont > 0
  BY DEF EvInv, Types, Jumping
<1>1. CASE UNCHANGED <<brk, cont, aim>>
  BY <1>0, <1>1
<1>2. CASE Debugged \/ FnTrapped
  BY <1>2, PutBackTypes DEF Debugged, FnTrapped, Back, At
<1>3. CASE \E n \in 0 .. loops : Break(n) \/ Continue(n)
  <2>1. PICK n \in 0 .. loops : Break(n) \/ Continue(n)
    BY <1>3
  <2>2. QED
    BY <2>1, BreakFrames
<1>4. CASE LoopBody
  <2>1. /\ brk' = IF brk > 0 THEN brk - 1 ELSE 0
        /\ cont' = IF brk = 0 /\ cont > 0 THEN cont - 1 ELSE cont
        /\ aim' = IF brk' = 0 /\ cont' = 0 THEN 0 ELSE aim
    BY <1>4 DEF LoopBody, Aim
  <2>2. brk' \in Nat /\ cont' \in Nat
    BY <1>0, <2>1
  <2>3. QED
    BY <1>0, <2>1, <2>2
<1>5. QED
  BY <1>1, <1>2, <1>3, <1>4, WalkAim, CommandAim

\* Every step of the walk is one of the stack's.
Moves == (\E c : Become(c)) \/ (\E c, d : Make(c, d)) \/ Return

\* Every step does one of three things to the stack.
LEMMA StepMoves ==
  ASSUME Command \/ Walk
  PROVE  Moves
<1>1. CASE Skip \/ Handle \/ Abandon \/ \E k \in script.kinds : Choose(k) \/ RedirFails(k)
  BY <1>1 DEF Moves, Skip, Handle, Abandon, Choose, RedirFails, Enter
<1>2. CASE SeqFirst \/ SeqNext \/ Group \/ Through \/ Test
  BY <1>2 DEF Moves, SeqFirst, SeqNext, Group, Through, Test, Enter
<1>3. CASE AndOr \/ Not \/ If \/ Line \/ LineRan
  BY <1>3 DEF Moves, AndOr, Not, If, Line, LineRan, Enter, To
<1>4. CASE LoopTest \/ LoopTested \/ ForNext \/ LoopBody
  BY <1>4 DEF Moves, LoopTest, LoopTested, ForNext, LoopBody, LoopEnd, Enter
<1>5. CASE Scan \/ Handled \/ Finish \/ Finished
  BY <1>5 DEF Moves, Scan, Handled, Finish, Finished, Enter, To
<1>6. CASE Debug \/ Debugged \/ Refused \/ GiveUp
  BY <1>6 DEF Moves, Debug, Debugged, Refused, GiveUp, To
<1>7. CASE \E x \in 0 .. 1 : Status(x) \/ ReturnFn(x) \/ Exit(x)
  BY <1>7 DEF Moves, Status, ReturnFn, Exit, To
<1>8. CASE \E n \in 0 .. loops : Break(n) \/ Continue(n)
  BY <1>8 DEF Moves, Break, Continue, To
<1>9. CASE \E w \in {"ERR", "DEBUG", "RETURN", "EXIT"} : SetTrap(w)
  BY <1>9 DEF Moves, SetTrap, To
<1>10. CASE Try \/ Tried \/ Eval \/ FnCall \/ Called
  BY <1>10 DEF Moves, Try, Tried, Eval, FnCall, Called, Enter, To
<1>11. CASE FnBody \/ FnUnbound \/ FnReturned \/ FnTrapped
  BY <1>11 DEF Moves, FnBody, FnUnbound, FnReturned, FnTrapped, FnEnd, Enter, To
<1>12. CASE Err \/ Erred \/ Check
  BY <1>12 DEF Moves, Err, Erred, Check, Enter, To
<1>13. QED
  BY <1>1, <1>2, <1>3, <1>4, <1>5, <1>6, <1>7, <1>8, <1>9, <1>10, <1>11, <1>12
     DEF Command, Walk

\* And says whether a call has just returned.
LEMMA UpStep ==
  ASSUME Command \/ Walk
  PROVE  up' \in BOOLEAN
  BY StepMoves DEF Moves, Become, Make, Return

\* A shell that starts has the invariant.
LEMMA InitInv ==
  Init => EvInv
<1>1. SUFFICES ASSUME Init PROVE EvInv
  OBVIOUS
<1>2. Types
  <2>1. /\ script \in Scripts /\ up = FALSE /\ st = 0 /\ tst = FALSE
        /\ quit = FALSE /\ stop = FALSE /\ ret = FALSE /\ brk = 0 /\ cont = 0
        /\ intry = FALSE /\ trap = {} /\ any = FALSE /\ abline = FALSE /\ aim = 0
    BY <1>1 DEF Init
  <2>2. pend \in [Signals -> BOOLEAN]
    BY <1>1 DEF Init
  <2>3. /\ up \in BOOLEAN /\ tst \in BOOLEAN /\ quit \in BOOLEAN /\ stop \in BOOLEAN
        /\ ret \in BOOLEAN /\ intry \in BOOLEAN /\ any \in BOOLEAN /\ abline \in BOOLEAN
    BY <2>1
  <2>4. st \in 0 .. 1 /\ brk \in Nat /\ cont \in Nat /\ aim \in Int /\ aim >= -1 /\ ~(aim # 0)
    BY <2>1
  <2>5. trap \in SUBSET {"ERR", "DEBUG", "RETURN", "EXIT"}
    BY <2>1
  <2>6. QED
    BY <2>1, <2>2, <2>3, <2>4, <2>5 DEF Types
<1> DEFINE a == New("shell", "run")
<1>3. a \in Call /\ a.k = "shell" /\ a.pc = "run"
  <2>1. <<>> \in Seq(Int) /\ 0 \in 0 .. 1 /\ "run" \in Places
    BY DEF Places
  <2>2. QED
    BY <2>1 DEF New, Call
<1>4. Sane(a) /\ Paused(a)
  <2> HIDE DEF a
  <2>1. QED
    BY <1>3 DEF Sane, Paused
<1>5. stk = <<a, Text>> /\ up = FALSE
  BY <1>1 DEF Init
<1>6. Sane(Text) /\ Active(Text) /\ Text.k = "text" /\ Text \in Call
  BY NodeText DEF Sane
<1> HIDE DEF a
<1>7. /\ stk \in Seq(Call) /\ stk # <<>> /\ Len(stk) = 2 /\ stk[1] = a /\ stk[2] = Text
  BY <1>3, <1>5, <1>6
<1>8. ShapeOf(stk, up)
  <2>1. ASSUME NEW i \in 1 .. 2
        PROVE  /\ Sane(stk[i])
               /\ stk[i].k = "shell" <=> i = 1
               /\ stk[i].k # "call"
    <3>1. CASE i = 1
      BY <1>3, <1>4, <1>7, <3>1
    <3>2. CASE i = 2
      BY <1>6, <1>7, <3>2
    <3>3. QED
      BY <3>1, <3>2
  <2>2. \A i \in 1 .. 1 : Paused(stk[i]) /\ stk[i].k # "node"
    BY <1>3, <1>4, <1>7
  <2>3. Active(stk[2])
    BY <1>6, <1>7
  <2>4. QED
    BY <1>5, <1>7, <2>1, <2>2, <2>3 DEF ShapeOf
<1>9. Level(stk, 2) = 0
  <2>1. Level(stk, 0) = 0
    BY LevelZero
  <2>2. Level(stk, 1) = 0
    <3>1. stk[1].k # "call" /\ stk[1].k \notin Loops
      BY <1>3, <1>7 DEF Loops
    <3>2. QED
      BY <2>1, <3>1, LevelStep
  <2>3. stk[2].k # "call" /\ stk[2].k \notin Loops
    BY <1>6, <1>7 DEF Loops
  <2>4. QED
    BY <2>2, <2>3, LevelStep
<1>10. loops = 0 /\ aim = 0
  BY <1>1 DEF Init
<1>11. QED
  BY <1>2, <1>7, <1>8, <1>9, <1>10 DEF EvInv, Frames, Depth, AimedOf

\* Every step keeps it.
LEMMA NextInv ==
  EvInv /\ [Next]_vars => EvInv'
<1>1. SUFFICES ASSUME EvInv, [Next]_vars PROVE EvInv'
  OBVIOUS
<1>2. CASE (Command \/ Walk) /\ UNCHANGED script
  <2>1. Frames'
    BY <1>1, <1>2, FrameStep
  <2>2. Rest' /\ up' \in BOOLEAN
    BY <1>1, <1>2, WalkRest, CommandRest, UpStep
  <2>3. /\ brk' \in Nat /\ cont' \in Nat /\ aim' \in Int /\ aim' >= -1
        /\ aim' # 0 => brk' > 0 \/ cont' > 0
    BY <1>1, <1>2, CountTypes
  <2>4. script' \in Scripts
    BY <1>1, <1>2 DEF EvInv, Types
  <2>5. Types'
    BY <2>2, <2>3, <2>4 DEF Types, Rest, Jumping
  <2>6. QED
    BY <2>1, <2>5 DEF EvInv
<1>3. CASE (\E i \in Signals : Arrive(i)) /\ UNCHANGED script
  <2>1. UNCHANGED <<script, stk, up, st, tst, quit, stop, ret, brk, cont, aim, loops, trap, intry, abline>>
    BY <1>3 DEF Arrive, flags, traps
  <2>2. pend' \in [Signals -> BOOLEAN] /\ any' \in BOOLEAN
    BY <1>1, <1>3 DEF Arrive, EvInv, Types
  <2>3. Types'
    BY <1>1, <2>1, <2>2 DEF EvInv, Types, Jumping
  <2>4. Frames'
    BY <1>1, <2>1 DEF EvInv, Frames, Depth
  <2>5. QED
    BY <2>3, <2>4 DEF EvInv
<1>4. CASE UNCHANGED vars
  <2>1. UNCHANGED <<script, stk, up, st, tst, quit, stop, ret, brk, cont, aim, loops, trap, intry,
                    pend, any, abline>>
    BY <1>4 DEF vars, flags, traps, globals
  <2>2. Types' /\ Frames'
    BY <1>1, <2>1 DEF EvInv, Types, Frames, Depth, Jumping
  <2>3. QED
    BY <2>2 DEF EvInv
<1>5. QED
  BY <1>1, <1>2, <1>3, <1>4 DEF Next

\* So it always holds.
LEMMA InvAlways ==
  Spec => []EvInv
  BY InitInv, NextInv, PTL DEF Spec

-----------------------------------------------------------------------------
(***************************************************************************)
(* Types, and that a break or a continue lands                             *)
(***************************************************************************)

\* The evaluator's state has its types, and ex_loops counts the loops that are
\* under way in the function that is running.
THEOREM TypeCorrect ==
  Spec => []TypeOK
<1>1. EvInv => TypeOK
  <2>1. SUFFICES ASSUME EvInv PROVE TypeOK
    OBVIOUS
  <2>2. loops = Cardinality({i \in In(Loops) : i > Last(In({"call"}))})
    BY <2>1, HereCounted DEF Here
  <2>3. aim \in -1 .. Depth
    <3>1. aim \in Int /\ aim >= -1 /\ Depth \in Nat \ {0}
      BY <2>1, InvFacts
    <3>2. aim > 0 => aim \in 1 .. Depth
      BY <2>1 DEF EvInv, Frames, AimedOf, Depth
    <3>3. QED
      BY <3>1, <3>2
  <2>4. stk \in Seq(Call) /\ stk # <<>>
    BY <2>1, InvFacts
  <2>5. QED
    BY <2>1, <2>2, <2>3, <2>4 DEF TypeOK, EvInv, Types
<1>2. QED
  BY <1>1, InvAlways, PTL

\* A break or a continue gets to the loop it is for, and no further.
THEOREM LandsCorrect ==
  Spec => Lands
<1>1. ASSUME EvInv, [Next]_vars, aim > 0, brk' = 0, cont' = 0
      PROVE  Len(stk') = IF brk > 0 \/ Leaving THEN aim - 1 ELSE aim
  <2>1. brk \in Nat /\ cont \in Nat /\ aim \in Int /\ (brk > 0 \/ cont > 0)
    BY <1>1 DEF EvInv, Types, Jumping
  <2>2. ~(brk' = brk /\ cont' = cont)
    BY <1>1, <2>1
  <2>3. ~UNCHANGED vars /\ ~(\E i \in Signals : Arrive(i))
    BY <2>2 DEF vars, flags, Arrive
  <2>4. Command \/ Walk
    BY <1>1, <2>3 DEF Next
  <2>5. \/ LoopBody \/ Debugged \/ FnTrapped
        \/ \E n \in 0 .. loops : Break(n) \/ Continue(n)
    BY <2>2, <2>4, WalkAim, CommandAim
  <2>6. ~(Debugged \/ FnTrapped)
    <3>1. Passable(Top)
      BY <1>1, Blocked
    <3>2. QED
      BY <3>1 DEF Debugged, FnTrapped, Back, At, Passable
  <2>7. ~(\E n \in 0 .. loops : Break(n) \/ Continue(n))
    <3>1. SUFFICES ASSUME NEW n \in 0 .. loops, Break(n) \/ Continue(n) PROVE FALSE
      OBVIOUS
    <3>2. brk' > 0 \/ cont' > 0
      BY <1>1, <3>1, BreakFrames
    <3>3. QED
      BY <1>1, <3>2
  <2>8. /\ Top.k \in Loops
        /\ brk' = IF brk > 0 THEN brk - 1 ELSE 0
        /\ cont' = IF brk = 0 /\ cont > 0 THEN cont - 1 ELSE cont
        /\ IF brk > 0 \/ cont > 1 \/ Leaving
             THEN Return ELSE Become([Top EXCEPT !.pc = "start", !.v = st])
    BY <2>5, <2>6, <2>7 DEF LoopBody, LoopEnd
  <2>9. /\ aim \in 1 .. Depth /\ (brk = 0 \/ cont = 0)
        /\ aim = Depth <=> brk + cont = 1
    BY <1>1, <2>8, AimInLoop
  <2>10. brk + cont = 1 /\ cont <= 1
    BY <1>1, <2>1, <2>8, <2>9
  <2>11. aim = Depth
    BY <2>9, <2>10
  <2>12. stk \in Seq(Call) /\ stk # <<>> /\ Depth \in Nat \ {0}
    BY <1>1, InvFacts
  <2>13. CASE brk > 0 \/ Leaving
    <3>1. stk' = SubSeq(stk, 1, Len(stk) - 1)
      BY <2>8, <2>13 DEF Return, Depth
    <3>2. Len(stk) > 1
      <4>1. Top.k # "shell"
        BY <2>8 DEF Loops
      <4>2. Depth # 1
        BY <1>1, <4>1, InvFacts
      <4>3. Depth > 1
        BY <2>12, <4>2
      <4>4. QED
        BY <4>3 DEF Depth
    <3>3. Len(stk') = Depth - 1
      BY <2>12, <3>1, <3>2, Popped DEF Depth
    <3>4. QED
      BY <2>11, <2>13, <3>3
  <2>14. CASE ~(brk > 0 \/ Leaving)
    <3>1. ~(cont > 1)
      BY <2>1, <2>10
    <3> DEFINE c == [Top EXCEPT !.pc = "start", !.v = st]
    <3>2. stk' = [stk EXCEPT ![Len(stk)] = c]
      BY <2>8, <2>14, <3>1 DEF Become, Depth
    <3>3. c \in Call
      <4>1. Top \in Call /\ st \in 0 .. 1 /\ "start" \in Places
        BY <1>1, InvFacts DEF EvInv, Types, Places
      <4>2. QED
        BY <4>1 DEF Call
    <3> HIDE DEF c
    <3>4. Len(stk') = Depth
      BY <2>12, <3>2, <3>3, Replaced DEF Depth
    <3>5. QED
      BY <2>11, <2>14, <3>4
  <2>15. QED
    BY <2>13, <2>14
<1>2. EvInv /\ [Next]_vars
        => [aim > 0 /\ brk' = 0 /\ cont' = 0
              => Len(stk') = IF brk > 0 \/ Leaving THEN aim - 1 ELSE aim]_vars
  BY <1>1
<1>3. QED
  BY <1>2, InvAlways, PTL DEF Spec, Lands

-----------------------------------------------------------------------------
(***************************************************************************)
(* No signal is forgotten                                                  *)
(***************************************************************************)

\* A step of the stack leaves everything below its innermost call alone.
LEMMA Below ==
  ASSUME EvInv, Moves, Top.k # "shell"
  PROVE  /\ DOMAIN stk' = 1 .. Len(stk') /\ Depth \in Nat /\ Depth > 1
         /\ \A i \in 1 .. Depth - 1 : i \in DOMAIN stk' /\ stk'[i] = stk[i]
<1>1. /\ stk \in Seq(Call) /\ stk # <<>> /\ Depth \in Nat \ {0} /\ Depth # 1
  BY InvFacts
<1>2. Depth > 1
  BY <1>1
<1>3. ASSUME NEW c, NEW s, s = [stk EXCEPT ![Depth] = c]
      PROVE  /\ Len(s) = Depth /\ s \in Seq(Call \cup {c})
             /\ \A i \in 1 .. Depth - 1 : s[i] = stk[i]
  <2>1. stk \in Seq(Call \cup {c})
    BY <1>1
  <2>2. Depth \in 1 .. Len(stk) /\ Depth = Len(stk)
    BY <1>1 DEF Depth
  <2>3. /\ [stk EXCEPT ![Depth] = c] \in Seq(Call \cup {c})
        /\ Len([stk EXCEPT ![Depth] = c]) = Len(stk)
        /\ \A j \in 1 .. Len(stk) :
             [stk EXCEPT ![Depth] = c][j] = IF j = Depth THEN c ELSE stk[j]
    BY <2>1, <2>2, ExceptSeq
  <2>4. QED
    BY <1>1, <1>3, <2>2, <2>3
<1>4. CASE \E c : Become(c)
  <2>1. PICK c : stk' = [stk EXCEPT ![Depth] = c]
    BY <1>4 DEF Become
  <2>2. /\ Len(stk') = Depth /\ stk' \in Seq(Call \cup {c})
        /\ \A i \in 1 .. Depth - 1 : stk'[i] = stk[i]
    BY <1>3, <2>1
  <2>3. DOMAIN stk' = 1 .. Len(stk')
    BY <2>2, LenProperties
  <2>4. QED
    BY <1>1, <1>2, <2>2, <2>3
<1>5. CASE \E c, d : Make(c, d)
  <2>1. PICK c, d : stk' = Append([stk EXCEPT ![Depth] = c], d)
    BY <1>5 DEF Make
  <2> DEFINE r == [stk EXCEPT ![Depth] = c]
  <2>2. /\ Len(r) = Depth /\ r \in Seq(Call \cup {c})
        /\ \A i \in 1 .. Depth - 1 : r[i] = stk[i]
    BY <1>3
  <2>3. stk' = Append(r, d)
    BY <2>1
  <2> HIDE DEF r
  <2>4. r \in Seq(Call \cup {c, d})
    BY <2>2
  <2>5. /\ stk' \in Seq(Call \cup {c, d}) /\ Len(stk') = Depth + 1
        /\ \A i \in 1 .. Depth : stk'[i] = r[i]
    BY <2>2, <2>3, <2>4, AppendProperties
  <2>6. DOMAIN stk' = 1 .. Len(stk')
    BY <2>5, LenProperties
  <2>7. QED
    BY <1>1, <1>2, <2>2, <2>5, <2>6
<1>6. CASE Return
  <2>1. stk' = SubSeq(stk, 1, Len(stk) - 1)
    BY <1>6 DEF Return, Depth
  <2>2. Len(stk) > 1 /\ Depth = Len(stk)
    BY <1>2 DEF Depth
  <2>3. /\ stk' \in Seq(Call) /\ Len(stk') = Depth - 1
        /\ \A i \in 1 .. Depth - 1 : stk'[i] = stk[i]
    BY <1>1, <2>1, <2>2, Popped
  <2>4. DOMAIN stk' = 1 .. Len(stk')
    BY <2>3, LenProperties
  <2>5. QED
    BY <1>1, <1>2, <2>3, <2>4
<1>7. QED
  BY <1>4, <1>5, <1>6 DEF Moves

\* Where a tr_run that is under way looks for a signal still.
Scans(s, i, g) ==
  s[i].k = "sig" /\ IF s[i].pc = "scan" THEN s[i].n <= g ELSE s[i].n < g

\* NoneLost, with the scans of a stack said by position.
LEMMA LostMeans ==
  ASSUME EvInv
  PROVE  NoneLost <=> \A g \in Signals : pend[g] =>
           quit \/ stk[1].pc # "run" \/ any \/ \E i \in 1 .. Depth : Scans(stk, i, g)
<1>1. In({"sig"}) = {i \in 1 .. Depth : stk[i].k = "sig"}
  <2>1. stk \in Seq(Call)
    BY InvFacts
  <2>2. DOMAIN stk = 1 .. Depth
    BY <2>1, LenProperties DEF Depth
  <2>3. QED
    BY <2>2 DEF In
<1>2. QED
  BY <1>1 DEF NoneLost, Scans

\* What happens elsewhere makes none forgotten.
LEMMA ElsewhereKeeps ==
  ASSUME EvInv, NoneLost, EvInv', Moves, Top.k \notin {"shell", "sig"},
         UNCHANGED <<pend, any>>, quit => quit'
  PROVE  NoneLost'
<1>1. /\ DOMAIN stk' = 1 .. Len(stk') /\ Depth \in Nat /\ Depth > 1
      /\ \A i \in 1 .. Depth - 1 : i \in DOMAIN stk' /\ stk'[i] = stk[i]
  BY Below
<1>2. SUFFICES ASSUME NEW g \in Signals, pend'[g]
               PROVE  \/ quit' \/ stk'[1].pc # "run" \/ any'
                      \/ \E i \in DOMAIN stk' : Scans(stk', i, g)
  BY DEF NoneLost, In, Scans
<1>3. quit \/ stk[1].pc # "run" \/ any \/ \E i \in 1 .. Depth : Scans(stk, i, g)
  BY <1>2, LostMeans
<1>4. stk'[1] = stk[1]
  BY <1>1
<1>5. ASSUME NEW i \in 1 .. Depth, Scans(stk, i, g)
      PROVE  i \in DOMAIN stk' /\ Scans(stk', i, g)
  <2>1. i # Depth
    BY <1>5 DEF Scans, Top
  <2>2. i \in 1 .. Depth - 1
    BY <1>1, <2>1
  <2>3. QED
    BY <1>1, <1>5, <2>2 DEF Scans
<1>6. QED
  BY <1>3, <1>4, <1>5

\* A handler's call waits, and a scan that has come to its end has no signal
\* before it.
LEMMA SigKeeps ==
  ASSUME EvInv, NoneLost, EvInv', Moves, Top.k = "sig", any' = any, quit' = quit,
         \A g \in Signals : pend'[g] =>
           /\ pend[g]
           /\ Scans(stk, Depth, g) => Depth \in DOMAIN stk' /\ Scans(stk', Depth, g)
  PROVE  NoneLost'
<1>1. /\ DOMAIN stk' = 1 .. Len(stk') /\ Depth \in Nat /\ Depth > 1
      /\ \A i \in 1 .. Depth - 1 : i \in DOMAIN stk' /\ stk'[i] = stk[i]
  BY Below
<1>2. SUFFICES ASSUME NEW g \in Signals, pend'[g]
               PROVE  \/ quit' \/ stk'[1].pc # "run" \/ any'
                      \/ \E i \in DOMAIN stk' : Scans(stk', i, g)
  BY DEF NoneLost, In, Scans
<1>3. quit \/ stk[1].pc # "run" \/ any \/ \E i \in 1 .. Depth : Scans(stk, i, g)
  BY <1>2, LostMeans
<1>4. stk'[1] = stk[1]
  BY <1>1
<1>5. ASSUME NEW i \in 1 .. Depth, Scans(stk, i, g)
      PROVE  i \in DOMAIN stk' /\ Scans(stk', i, g)
  <2>1. CASE i = Depth
    BY <1>2, <1>5, <2>1
  <2>2. CASE i # Depth
    <3>1. i \in 1 .. Depth - 1
      BY <1>1, <2>2
    <3>2. QED
      BY <1>1, <1>5, <3>1 DEF Scans
  <2>3. QED
    BY <2>1, <2>2
<1>6. QED
  BY <1>3, <1>4, <1>5

\* Only four actions do anything to the signals themselves, or undo an exit.
LEMMA Elsewhere ==
  ASSUME Command \/ Walk, ~Handle, ~Scan, ~Handled, ~Finish, ~Finished
  PROVE  Top.k \notin {"shell", "sig"} /\ UNCHANGED <<pend, any>> /\ (quit => quit')
<1>1. CASE Skip \/ Abandon \/ \E k \in script.kinds : Choose(k) \/ RedirFails(k)
  <2>1. CASE Skip
    BY <2>1 DEF Skip, Going, At, flags, globals
  <2>2. CASE Abandon
    BY <2>2 DEF Abandon, Back, At, flags, globals
  <2>3. ASSUME NEW k \in script.kinds, Choose(k)
        PROVE  Top.k = "node" /\ UNCHANGED <<pend, any, quit>>
    BY <2>3 DEF Choose, Entered, Going, Back, At, flags, globals
  <2>4. ASSUME NEW k \in script.kinds, RedirFails(k)
        PROVE  Top.k = "node" /\ UNCHANGED <<pend, any, quit>>
    BY <2>4 DEF RedirFails, Entered, Going, Back, At, flags, globals
  <2>5. QED
    BY <1>1, <2>1, <2>2, <2>3, <2>4
<1>2. CASE SeqFirst \/ SeqNext \/ Group \/ Line \/ LineRan
  BY <1>2 DEF SeqFirst, SeqNext, Group, Line, LineRan, LineDone, Going, Back, At, Still, flags, globals
<1>3. CASE Test \/ AndOr \/ Not \/ If \/ Through
  BY <1>3 DEF Test, AndOr, Not, If, Through, Back, At, Tests, Still, flags, globals
<1>4. CASE LoopTest \/ LoopTested \/ ForNext
  BY <1>4 DEF LoopTest, LoopTested, ForNext, Going, At, flags, globals
<1>5. CASE LoopBody
  BY <1>5 DEF LoopBody, Loops, globals
<1>6. CASE Debug \/ Debugged
  BY <1>6 DEF Debug, Debugged, Going, Back, At, flags, globals
<1>7. CASE Refused \/ GiveUp \/ \E x \in 0 .. 1 : Status(x) \/ ReturnFn(x) \/ Exit(x)
  BY <1>7 DEF Refused, GiveUp, Status, ReturnFn, Exit, Run, Going, At, Still, flags, globals
<1>8. CASE \E n \in 0 .. loops : Break(n) \/ Continue(n)
  BY <1>8 DEF Break, Continue, Run, Going, At, globals
<1>9. CASE \E w \in {"ERR", "DEBUG", "RETURN", "EXIT"} : SetTrap(w)
  BY <1>9 DEF SetTrap, Run, Going, At, flags, globals
<1>10. CASE Try \/ Tried \/ Eval \/ FnCall \/ Called
  BY <1>10 DEF Try, Tried, Eval, FnCall, Called, Run, Going, Back, At, Still, flags, globals
<1>11. CASE FnBody \/ FnUnbound \/ FnReturned \/ FnTrapped
  BY <1>11 DEF FnBody, FnUnbound, FnReturned, FnTrapped, Going, Back, At, Still, flags, globals
<1>12. CASE Err \/ Erred \/ Check
  BY <1>12 DEF Err, Erred, Check, Going, Back, At, flags, globals
<1>13. QED
  BY <1>1, <1>2, <1>3, <1>4, <1>5, <1>6, <1>7, <1>8, <1>9, <1>10, <1>11, <1>12
     DEF Command, Walk

\* Signals are the numbers from 1 on, so the scan passes each.
LEMMA SignalFacts ==
  ASSUME NEW g \in Signals
  PROVE  /\ g \in Nat \ {0}
         /\ \A n \in Nat \ {0} : n <= g => n \in Signals
<1>1. Cardinality(Signals) \in Nat /\ Signals = 1 .. Cardinality(Signals)
  BY EvaluatorAssumption, FS_CardinalityType
<1> DEFINE m == Cardinality(Signals)
<1> HIDE DEF m
<1>2. m \in Nat /\ Signals = 1 .. m
  BY <1>1 DEF m
<1>3. g \in 1 .. m
  BY <1>2
<1>4. g \in Nat \ {0} /\ \A n \in Nat \ {0} : n <= g => n \in 1 .. m
  BY <1>2, <1>3
<1>5. QED
  BY <1>2, <1>4

\* tr_run starts with the first signal: what is in tr_any is before it.
LEMMA HandleKeeps ==
  ASSUME EvInv, EvInv', Handle
  PROVE  NoneLost'
<1>1. /\ stk \in Seq(Call) /\ stk # <<>> /\ Depth \in Nat \ {0}
      /\ Top \in Call
  BY InvFacts
<1> DEFINE c == [Top EXCEPT !.pc = "handled"]
           d == [New("sig", "scan") EXCEPT !.v = st, !.n = 1]
           r == [stk EXCEPT ![Depth] = c]
<1>2. stk' = Append(r, d)
  BY DEF Handle, Enter, Make
<1>3. d.k = "sig" /\ d.pc = "scan" /\ d.n = 1
  BY DEF New
<1> HIDE DEF d
<1>4. Len(r) = Depth /\ r \in Seq(Call)
  <2>1. c \in Call
    <3>1. "handled" \in Places
      BY DEF Places
    <3>2. QED
      BY <1>1, <3>1 DEF Call
  <2> HIDE DEF c
  <2>2. QED
    BY <1>1, <2>1, Replaced DEF Depth
<1> HIDE DEF r
<1>5. r \in Seq(Call \cup {d})
  BY <1>4
<1>6. stk' \in Seq(Call \cup {d}) /\ Len(stk') = Depth + 1 /\ stk'[Depth + 1] = d
  BY <1>2, <1>4, <1>5, AppendProperties
<1>7. Depth + 1 \in DOMAIN stk'
  <2>1. DOMAIN stk' = 1 .. Len(stk')
    BY <1>6, LenProperties
  <2>2. QED
    BY <1>1, <1>6, <2>1
<1>8. ASSUME NEW g \in Signals
      PROVE  Scans(stk', Depth + 1, g)
  <2>1. 1 <= g
    BY SignalFacts
  <2>2. QED
    BY <1>3, <1>6, <2>1 DEF Scans
<1>9. QED
  BY <1>7, <1>8 DEF NoneLost, In, Scans

\* A scan passes a signal only when it runs it or it is not pending.
LEMMA ScanKeeps ==
  ASSUME EvInv, EvInv', NoneLost, Scan
  PROVE  NoneLost'
<1>1. /\ stk \in Seq(Call) /\ stk # <<>> /\ Depth \in Nat \ {0}
      /\ Top \in Call /\ Top.n \in Nat \ {0}
  <2>1. Top \in Call /\ Sane(Top) /\ Top.k = "sig"
    BY InvFacts DEF Scan, Going, At
  <2>2. Top.n \in Nat /\ Top.n > 0
    BY <2>1 DEF Sane, Call
  <2>3. QED
    BY <2>1, <2>2, InvFacts
<1>2. Top.k = "sig" /\ Top.pc = "scan" /\ any' = any /\ quit' = quit
  BY DEF Scan, Going, At, flags
<1>3. Moves
  BY StepMoves DEF Walk
<1>4. \A g \in Signals : Scans(stk, Depth, g) <=> Top.n <= g
  BY <1>2 DEF Scans, Top
<1>5. CASE Top.n \notin Signals
  <2>1. pend' = pend
    BY <1>5 DEF Scan
  <2>2. \A g \in Signals : ~Scans(stk, Depth, g)
    BY <1>1, <1>4, <1>5, SignalFacts
  <2>3. QED
    BY <1>2, <1>3, <2>1, <2>2, SigKeeps
<1>6. CASE Top.n \in Signals
  <2>1. pend' = [pend EXCEPT ![Top.n] = FALSE] /\ pend \in [Signals -> BOOLEAN]
    BY <1>6 DEF Scan, EvInv, Types
  <2>2. \A g \in Signals : pend'[g] => pend[g] /\ g # Top.n
    BY <1>6, <2>1
  <2>3. CASE pend[Top.n]
    <3> DEFINE c == [Top EXCEPT !.pc = "handler"]
    <3>1. stk' = Append([stk EXCEPT ![Len(stk)] = c], Text)
      BY <1>6, <2>3 DEF Scan, Enter, Make, Depth
    <3>2. c \in Call /\ c.k = "sig" /\ c.pc = "handler" /\ c.n = Top.n
      <4>1. "handler" \in Places
        BY DEF Places
      <4>2. QED
        BY <1>1, <1>2, <4>1 DEF Call
    <3> HIDE DEF c
    <3>3. Depth \in DOMAIN stk' /\ stk'[Depth] = c
      <4> DEFINE r == [stk EXCEPT ![Len(stk)] = c]
      <4>1. r \in Seq(Call) /\ Len(r) = Depth /\ r[Depth] = c
        BY <1>1, <3>2, Replaced DEF Depth
      <4>2. stk' = Append(r, Text) /\ Text \in Call
        BY <3>1, NodeText DEF Sane
      <4> HIDE DEF r
      <4>3. /\ stk' \in Seq(Call) /\ Len(stk') = Depth + 1
            /\ \A i \in 1 .. Depth : stk'[i] = r[i]
        BY <4>1, <4>2, Appended
      <4>4. DOMAIN stk' = 1 .. Depth + 1
        BY <4>3, LenProperties
      <4>5. QED
        BY <1>1, <4>1, <4>3, <4>4
    <3>4. ASSUME NEW g \in Signals, pend'[g], Scans(stk, Depth, g)
          PROVE  Depth \in DOMAIN stk' /\ Scans(stk', Depth, g)
      <4>1. Top.n <= g /\ g # Top.n /\ g \in Nat
        BY <1>4, <2>2, <3>4, SignalFacts
      <4>2. Top.n < g
        BY <1>1, <4>1
      <4>3. QED
        BY <3>2, <3>3, <4>2 DEF Scans
    <3>5. QED
      BY <1>2, <1>3, <2>2, <3>4, SigKeeps
  <2>4. CASE ~pend[Top.n]
    <3> DEFINE n == Top.n + 1
               c == [Top EXCEPT !.n = n]
    <3>1. stk' = [stk EXCEPT ![Len(stk)] = c]
      BY <1>6, <2>4 DEF Scan, Become, Depth
    <3>2. n \in Nat /\ n = Top.n + 1
      BY <1>1
    <3> HIDE DEF n
    <3>3. c \in Call /\ c.k = "sig" /\ c.pc = "scan" /\ c.n = n
      BY <1>1, <1>2, <3>2 DEF Call
    <3> HIDE DEF c
    <3>4. stk' \in Seq(Call) /\ Len(stk') = Depth /\ stk'[Depth] = c
      BY <1>1, <3>1, <3>3, Replaced DEF Depth
    <3>5. Depth \in DOMAIN stk'
      <4>1. DOMAIN stk' = 1 .. Depth
        BY <3>4, LenProperties
      <4>2. QED
        BY <1>1, <4>1
    <3>6. ASSUME NEW g \in Signals, pend'[g], Scans(stk, Depth, g)
          PROVE  Depth \in DOMAIN stk' /\ Scans(stk', Depth, g)
      <4>1. Top.n <= g /\ g # Top.n /\ g \in Nat
        BY <1>4, <2>2, <3>6, SignalFacts
      <4>2. n <= g
        BY <1>1, <3>2, <4>1
      <4>3. QED
        BY <3>3, <3>4, <3>5, <4>2 DEF Scans
    <3>7. QED
      BY <1>2, <1>3, <2>2, <3>6, SigKeeps
  <2>5. QED
    BY <2>3, <2>4
<1>7. QED
  BY <1>5, <1>6

\* After a handler the scan goes on behind the signal it was of.
LEMMA HandledKeeps ==
  ASSUME EvInv, EvInv', NoneLost, Handled
  PROVE  NoneLost'
<1>1. CASE quit
  <2>1. quit'
    BY <1>1 DEF Handled
  <2>2. QED
    BY <2>1 DEF NoneLost
<1>2. CASE ~quit
  <2>1. /\ stk \in Seq(Call) /\ stk # <<>> /\ Depth \in Nat \ {0}
        /\ Top \in Call /\ Top.k = "sig" /\ Top.pc = "handler"
    BY InvFacts DEF Handled, Back, At
  <2>2. Top.n \in Nat
    BY <2>1 DEF Call
  <2> DEFINE n == Top.n + 1
             c == [Top EXCEPT !.pc = "scan", !.n = n]
  <2>3. stk' = [stk EXCEPT ![Len(stk)] = c]
    BY <1>2 DEF Handled, Become, Depth
  <2>4. n \in Nat /\ n = Top.n + 1
    BY <2>2
  <2> HIDE DEF n
  <2>5. c \in Call /\ c.k = "sig" /\ c.pc = "scan" /\ c.n = n
    <3>1. "scan" \in Places
      BY DEF Places
    <3>2. QED
      BY <2>1, <2>4, <3>1 DEF Call
  <2> HIDE DEF c
  <2>6. stk' \in Seq(Call) /\ Len(stk') = Depth /\ stk'[Depth] = c
    BY <2>1, <2>3, <2>5, Replaced DEF Depth
  <2>7. Depth \in DOMAIN stk'
    <3>1. DOMAIN stk' = 1 .. Depth
      BY <2>6, LenProperties
    <3>2. QED
      BY <2>1, <3>1
  <2>8. ASSUME NEW g \in Signals, Scans(stk, Depth, g)
        PROVE  Depth \in DOMAIN stk' /\ Scans(stk', Depth, g)
    <3>1. Top.n < g /\ g \in Nat
      BY <2>1, <2>8, SignalFacts DEF Scans, Top
    <3>2. n <= g
      BY <2>2, <2>4, <3>1
    <3>3. QED
      BY <2>5, <2>6, <2>7, <3>2 DEF Scans
  <2>9. Moves
    BY StepMoves DEF Walk
  <2>10. any' = any /\ quit' = quit /\ pend' = pend
    BY DEF Handled, globals
  <2>11. QED
    BY <2>1, <2>8, <2>9, <2>10, SigKeeps
<1>3. QED
  BY <1>1, <1>2

\* Nothing is promised of a signal once the script has ended.
LEMMA FinishKeeps ==
  ASSUME EvInv, Finish \/ Finished
  PROVE  NoneLost'
<1>1. stk \in Seq(Call) /\ stk # <<>> /\ Depth = 1 /\ Top \in Call
  BY InvFacts DEF Finish, Finished, Back, At
<1>2. {"ended", "exit"} \subseteq Places
  BY DEF Places
<1>3. CASE To("ended")
  <2> DEFINE c == [Top EXCEPT !.pc = "ended"]
  <2>1. c \in Call /\ c.pc = "ended"
    BY <1>1, <1>2 DEF Call
  <2>2. stk' = [stk EXCEPT ![Len(stk)] = c]
    BY <1>3 DEF To, Become, Depth
  <2> HIDE DEF c
  <2>3. stk'[1] = c
    BY <1>1, <2>1, <2>2, Replaced DEF Depth
  <2>4. QED
    BY <2>1, <2>3 DEF NoneLost
<1>4. CASE Enter("exit", Text)
  <2> DEFINE c == [Top EXCEPT !.pc = "exit"]
             r == [stk EXCEPT ![Len(stk)] = c]
  <2>1. c \in Call /\ c.pc = "exit"
    BY <1>1, <1>2 DEF Call
  <2>2. stk' = Append(r, Text)
    BY <1>4 DEF Enter, Make, Depth
  <2> HIDE DEF c
  <2>3. r \in Seq(Call) /\ Len(r) = 1 /\ r[1] = c
    BY <1>1, <2>1, Replaced DEF Depth
  <2> HIDE DEF r
  <2>4. stk'[1] = c
    <3>1. Text \in Call
      BY NodeText DEF Sane
    <3>2. \A i \in 1 .. 1 : stk'[i] = r[i]
      BY <2>2, <2>3, <3>1, Appended
    <3>3. QED
      BY <2>3, <3>2
  <2>5. QED
    BY <2>1, <2>4 DEF NoneLost
<1>5. QED
  BY <1>3, <1>4 DEF Finish, Finished

\* A trapped signal that has arrived is run in the end, or the shell exits.
THEOREM NoneLostCorrect ==
  Spec => []NoneLost
<1>1. Init => NoneLost
  BY DEF Init, NoneLost
<1>2. ASSUME EvInv, EvInv', NoneLost, [Next]_vars
      PROVE  NoneLost'
  <2>1. CASE Command \/ Walk
    <3>1. CASE Handle
      BY <1>2, <3>1, HandleKeeps
    <3>2. CASE Scan
      BY <1>2, <3>2, ScanKeeps
    <3>3. CASE Handled
      BY <1>2, <3>3, HandledKeeps
    <3>4. CASE Finish \/ Finished
      BY <1>2, <3>4, FinishKeeps
    <3>5. CASE ~Handle /\ ~Scan /\ ~Handled /\ ~Finish /\ ~Finished
      BY <1>2, <2>1, <3>5, Elsewhere, StepMoves, ElsewhereKeeps
    <3>6. QED
      BY <3>1, <3>2, <3>3, <3>4, <3>5
  <2>2. CASE \E i \in Signals : Arrive(i)
    <3>1. any'
      BY <2>2 DEF Arrive
    <3>2. QED
      BY <3>1 DEF NoneLost
  <2>3. CASE UNCHANGED vars
    BY <1>2, <2>3 DEF vars, flags, globals, NoneLost, In
  <2>4. QED
    BY <1>2, <2>1, <2>2, <2>3 DEF Next
<1>3. EvInv /\ EvInv' /\ NoneLost /\ [Next]_vars => NoneLost'
  BY <1>2
<1>4. QED
  BY <1>1, <1>3, InvAlways, PTL DEF Spec
=============================================================================
