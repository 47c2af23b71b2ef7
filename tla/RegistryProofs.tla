--------------------------- MODULE RegistryProofs ---------------------------
(***************************************************************************)
(* The registry, for all modules and whatever they offer, want and add:    *)
(* types, that the list holds what is mapped, that the index is never used *)
(* stale and that offers are those of the modules loaded.                  *)
(***************************************************************************)
EXTENDS Registry, Positions

-----------------------------------------------------------------------------
(***************************************************************************)
(* The stack of loads                                                      *)
(***************************************************************************)

InitCall == [op: {"init"}, m: Module, k: Nat \ {0}, asked: BOOLEAN]
OffersCall == [op: {"offers"}, key: Iface \cup Module, at: Nat \ {0}, need: BOOLEAN]
AddsCall == [op: {"adds"}, key: Builtin, at: Nat \ {0}]
UseCall == [op: {"call"}, m: Module, key: Iface]

\* A call is of the kind its name says.
LEMMA Kinds ==
  ASSUME NEW c \in Call
  PROVE  /\ c.op = "init" => c \in InitCall
         /\ c.op = "offers" => c \in OffersCall
         /\ c.op = "adds" => c \in AddsCall
         /\ c.op = "call" => c \in UseCall
  BY DEF Call, InitCall, OffersCall, AddsCall, UseCall

LEMMA KindsAreCalls ==
  /\ InitCall \subseteq Call /\ OffersCall \subseteq Call
  /\ AddsCall \subseteq Call /\ UseCall \subseteq Call
  BY DEF Call, InitCall, OffersCall, AddsCall, UseCall

\* The innermost call, and those it was made from.
LEMMA TopAndBelow ==
  ASSUME TypeOK, calls # <<>>
  PROVE  /\ Len(calls) \in Nat \ {0} /\ DOMAIN calls = 1 .. Len(calls)
         /\ Len(calls) \in DOMAIN calls /\ Top \in Call
         /\ Below \in Seq(Call) /\ Len(Below) = Len(calls) - 1
         /\ \A c \in 1 .. Len(calls) - 1 : Below[c] = calls[c]
<1>1. calls \in Seq(Call)
  BY DEF TypeOK
<1>2. Len(calls) \in Nat \ {0} /\ DOMAIN calls = 1 .. Len(calls)
  BY <1>1
<1>3. QED
  BY <1>1, <1>2 DEF Top, Below

\* A stack with one more call.
LEMMA Pushed ==
  ASSUME NEW s \in Seq(Call), NEW x \in Call
  PROVE  /\ Append(s, x) \in Seq(Call) /\ Len(Append(s, x)) = Len(s) + 1
         /\ DOMAIN Append(s, x) = 1 .. Len(s) + 1
         /\ \A c \in 1 .. Len(s) : Append(s, x)[c] = s[c]
         /\ Append(s, x)[Len(s) + 1] = x
         /\ s \o <<x>> = Append(s, x)
  OBVIOUS

LEMMA Fresh ==
  ASSUME NEW x \in Call, NEW y \in Call
  PROVE  <<>> \in Seq(Call) /\ <<x>> \in Seq(Call) /\ <<x, y>> \in Seq(Call)
  OBVIOUS

\* An init under way is on the list, and its module has no other; it asks for
\* something it wants.  Nothing is under way while everything is dropped.
Asking(c) == c.asked => c.k <= Len(Wants[c.m])
Nested ==
  /\ dropping => calls = <<>>
  /\ \A c \in DOMAIN calls :
       calls[c].op = "init" => calls[c].m \in Loaded /\ Asking(calls[c])
  /\ \A c, d \in DOMAIN calls :
       calls[c].op = "init" /\ calls[d].op = "init" /\ calls[c].m = calls[d].m => c = d

\* Every init of s is one of those under way, at its place.
Of(s) ==
  \A c \in DOMAIN s : s[c].op = "init" =>
     c \in DOMAIN calls /\ calls[c].op = "init" /\ calls[c].m = s[c].m

\* What a step that begins no init leaves to show.
LEMMA NestedKept ==
  ASSUME Nested, Of(calls'), dropping' => calls' = <<>>,
         \A c \in DOMAIN calls' : calls'[c].op = "init" =>
            calls'[c].m \in Loaded' /\ Asking(calls'[c])
  PROVE  Nested'
<1>1. ASSUME NEW c \in DOMAIN calls', NEW d \in DOMAIN calls', calls'[c].op = "init",
             calls'[d].op = "init", calls'[c].m = calls'[d].m
      PROVE  c = d
  BY <1>1 DEF Nested, Of
<1>2. QED
  BY <1>1 DEF Nested, Asking

-----------------------------------------------------------------------------
(***************************************************************************)
(* Types                                                                   *)
(***************************************************************************)

LEMMA NoIndexType == NoIndex \in [ok: BOOLEAN, n: Nat, tab: Names]
  BY DEF NoIndex, Names

\* A scan finds a module or none.
LEMMA ScanType ==
  ASSUME TypeOK, NEW b \in Builtin
  PROVE  Scan(b) \in Module \cup {None}
<1> DEFINE has == {i \in DOMAIN mods : b \in Adds[mods[i]]}
<1>1. mods \in Seq(Module) /\ Len(mods) \in Nat /\ DOMAIN mods = 1 .. Len(mods)
  BY DEF TypeOK
<1>2. CASE has = {}
  BY <1>2 DEF Scan
<1>3. CASE has # {}
  <2>1. has \in SUBSET (1 .. Len(mods))
    BY <1>1
  <2>2. \E i \in has : \A j \in has : j <= i
    BY <1>1, <1>3, <2>1, LastExists
  <2>3. PICK i \in has : i = CHOOSE j \in has : \A o \in has : o <= j
    BY <2>2
  <2>4. Scan(b) = mods[i]
    BY <1>3, <2>3 DEF Scan
  <2>5. QED
    BY <1>1, <2>4
<1>4. QED
  BY <1>2, <1>3

LEMMA IndexType ==
  ASSUME TypeOK
  PROVE  Indexed \in [ok: BOOLEAN, n: Nat, tab: Names]
<1>1. [b \in Builtin |-> Scan(b)] \in Names
  BY ScanType DEF Names
<1>2. Len(mods) \in Nat /\ mx \in [ok: BOOLEAN, n: Nat, tab: Names]
  BY DEF TypeOK
<1>3. QED
  BY <1>1, <1>2 DEF Indexed

\* What is left of the list is the others.
LEMMA WithoutOthers ==
  ASSUME TypeOK, NEW m \in Loaded
  PROVE  /\ Place(m) \in DOMAIN mods /\ mods[Place(m)] = m
         /\ Without(m) \in Seq(Module) /\ Len(Without(m)) = Len(mods) - 1
         /\ \A j \in 1 .. Len(mods) - 1 :
              Without(m)[j] = IF j < Place(m) THEN mods[j] ELSE mods[j + 1]
<1>1. mods \in Seq(Module) /\ Len(mods) \in Nat /\ DOMAIN mods = 1 .. Len(mods)
  BY DEF TypeOK
<1>2. Place(m) \in DOMAIN mods /\ mods[Place(m)] = m
  BY DEF Place, Loaded
<1> DEFINE p == Place(m)
           w == [j \in 1 .. Len(mods) - 1 |-> IF j < p THEN mods[j] ELSE mods[j + 1]]
<1> HIDE DEF p
<1>3. p \in 1 .. Len(mods) /\ Len(mods) # 0
  BY <1>1, <1>2 DEF p
<1>4. \A j \in 1 .. Len(mods) - 1 : w[j] \in Module
  BY <1>1, <1>3
<1>5. w \in Seq(Module) /\ Len(w) = Len(mods) - 1
  BY <1>1, <1>3, <1>4
<1>6. Without(m) = w
  BY DEF Without, p
<1>7. QED
  BY <1>2, <1>5, <1>6 DEF p

LEMMA LoadType ==
  ASSUME TypeOK, NEW m \in Module, NEW under \in Seq(Call), Load(m, under)
  PROVE  /\ open' \subseteq Module /\ mods' \in Seq(Module)
         /\ mx' \in [ok: BOOLEAN, n: Nat, tab: Names]
         /\ calls' \in Seq(Call) /\ ret' \in {"none", "ok", "fail"}
<1>1. Init_(m) \in Call
  BY DEF Init_, Call
<1>2. CASE m \in there \ Loaded
  <2>1. /\ open' = open \cup {m} /\ mods' = Append(mods, m) /\ mx' = NoIndex
        /\ calls' = Append(under, Init_(m)) /\ ret' = "none"
    BY <1>2 DEF Load, Stale
  <2>2. QED
    BY <1>1, <2>1, NoIndexType DEF TypeOK
<1>3. CASE m \notin there \ Loaded
  BY <1>3 DEF Load, TypeOK
<1>4. QED
  BY <1>2, <1>3

\* Where a walk goes on is an object of the path.
LEMMA NearestExists ==
  ASSUME NEW c \in OffersCall \cup AddsCall, Ahead(c) # {}
  PROVE  Nearest(c) \in 1 .. Len(Path) /\ Path[Nearest(c)] \in Module
<1>1. Path \in Seq(Module) /\ Len(Path) \in Nat /\ c.at \in Nat \ {0}
  BY RegistryAssumption DEF OffersCall, AddsCall
<1>2. Ahead(c) \in SUBSET (1 .. Len(Path))
  BY <1>1 DEF Ahead
<1>3. \E j \in Ahead(c) : \A o \in Ahead(c) : j <= o
  BY <1>1, <1>2, FirstExists
<1>4. Nearest(c) \in Ahead(c)
  BY <1>3 DEF Nearest
<1>5. QED
  BY <1>1, <1>2, <1>4

\* What an init asks for is an interface.
LEMMA WantType ==
  ASSUME NEW c \in InitCall, c.k <= Len(Wants[c.m])
  PROVE  Wants[c.m][c.k] \in Iface
<1>1. c.m \in Module /\ c.k \in Nat \ {0}
  BY DEF InitCall
<1>2. Wants[c.m] \in Seq(Iface)
  BY <1>1, RegistryAssumption
<1>3. QED
  BY <1>1, <1>2

\* The call that is under way, as its kind has it.
LEMMA RunningKind ==
  ASSUME TypeOK, Nested, calls # <<>>
  PROVE  /\ Top.op = "init" => Top \in InitCall /\ Top.m \in Loaded /\ Asking(Top)
         /\ Top.op = "call" => Top \in UseCall
         /\ Top.op \in {"offers", "adds"} => Top \in OffersCall \cup AddsCall
         /\ Top.op = "offers" => Top \in OffersCall
  BY TopAndBelow, Kinds DEF Nested, Top

\* An init that has asked, or has what it asked for.
LEMMA InitSteps ==
  ASSUME NEW c \in InitCall
  PROVE  /\ [c EXCEPT !.k = @ + 1] \in Call
         /\ [c EXCEPT !.asked = TRUE] \in Call
         /\ [c EXCEPT !.k = @ + 1, !.asked = FALSE] \in Call
<1>1. c.k \in Nat \ {0} /\ c.k + 1 \in Nat \ {0}
  BY DEF InitCall
<1>2. [c EXCEPT !.k = @ + 1] \in InitCall
  BY <1>1 DEF InitCall
<1>3. [c EXCEPT !.asked = TRUE] \in InitCall
  BY DEF InitCall
<1>4. [c EXCEPT !.k = @ + 1, !.asked = FALSE] \in InitCall
  BY <1>1 DEF InitCall
<1>5. QED
  BY <1>2, <1>3, <1>4, KindsAreCalls

LEMMA AskType ==
  ASSUME TypeOK, Nested, Ask, UNCHANGED old
  PROVE  TypeOK'
<1>1. /\ calls # <<>> /\ Top \in InitCall /\ Below \in Seq(Call)
      /\ Top.k <= Len(Wants[Top.m])
  BY TopAndBelow, RunningKind DEF Ask, Running
<1>2. PICK i \in Iface : i = Wants[Top.m][Top.k]
  BY <1>1, WantType
<1>3. Top.m \in Module /\ Seek(i, FALSE) \in Call /\ apis[i] \in Module \cup {None}
  BY <1>1 DEF InitCall, Seek, Call, TypeOK
<1>4. [Top EXCEPT !.k = @ + 1] \in Call /\ [Top EXCEPT !.asked = TRUE] \in Call
  BY <1>1, InitSteps
<1>5. CASE apis[i] # None
  <2>1. /\ held' = [held EXCEPT ![Top.m] = @ \cup {apis[i]}]
        /\ calls' = Append(Below, [Top EXCEPT !.k = @ + 1])
    BY <1>2, <1>5 DEF Ask
  <2>2. calls' \in Seq(Call)
    BY <1>1, <1>4, <2>1, Pushed
  <2>3. held' \in [Module -> SUBSET Module]
    BY <1>3, <1>5, <2>1 DEF TypeOK
  <2>4. QED
    BY <2>2, <2>3 DEF Ask, TypeOK
<1>6. CASE apis[i] = None
  <2>1. /\ calls' = Append(Below, [Top EXCEPT !.asked = TRUE]) \o <<Seek(i, FALSE)>>
        /\ held' = held
    BY <1>2, <1>6 DEF Ask
  <2>2. Append(Below, [Top EXCEPT !.asked = TRUE]) \in Seq(Call)
    BY <1>1, <1>4, Pushed
  <2>3. calls' \in Seq(Call)
    BY <1>3, <2>1, <2>2, Pushed
  <2>4. QED
    BY <2>1, <2>3 DEF Ask, TypeOK
<1>7. QED
  BY <1>5, <1>6

LEMMA GotType ==
  ASSUME TypeOK, Nested, Got, UNCHANGED old
  PROVE  TypeOK'
<1>1. /\ calls # <<>> /\ Top \in InitCall /\ Below \in Seq(Call)
      /\ Top.k <= Len(Wants[Top.m])
  BY TopAndBelow, RunningKind DEF Got, Running, Asking
<1>2. PICK i \in Iface : i = Wants[Top.m][Top.k]
  BY <1>1, WantType
<1>3. apis[i] \in Module /\ held' = [held EXCEPT ![Top.m] = @ \cup {apis[i]}]
  BY <1>2 DEF Got, TypeOK
<1>4. [Top EXCEPT !.k = @ + 1, !.asked = FALSE] \in Call /\ Top.m \in Module
  BY <1>1, InitSteps DEF InitCall
<1>5. calls' \in Seq(Call)
  BY <1>1, <1>4, Pushed DEF Got
<1>6. held' \in [Module -> SUBSET Module]
  BY <1>3, <1>4 DEF TypeOK
<1>7. QED
  BY <1>5, <1>6 DEF Got, TypeOK

LEMMA FailedType ==
  ASSUME TypeOK, Nested, Failed, UNCHANGED old
  PROVE  TypeOK'
<1>1. calls # <<>> /\ Top \in InitCall /\ Top.m \in Loaded /\ Below \in Seq(Call)
  BY TopAndBelow, RunningKind DEF Failed, Running
<1>2. mods' \in Seq(Module)
  BY <1>1, WithoutOthers DEF Failed
<1>3. mx' \in [ok: BOOLEAN, n: Nat, tab: Names]
  BY NoIndexType DEF Failed, Stale
<1>4. held' \in [Module -> SUBSET Module]
  BY DEF Failed, TypeOK
<1>5. QED
  BY <1>1, <1>2, <1>3, <1>4 DEF Failed, TypeOK

LEMMA DoneType ==
  ASSUME TypeOK, Nested, Done, UNCHANGED old
  PROVE  TypeOK'
<1>1. calls # <<>> /\ Top.m \in Module /\ Below \in Seq(Call)
  BY TopAndBelow, RunningKind DEF Done, Running, InitCall
<1>2. apis' \in [Iface -> Module \cup {None}]
  BY <1>1 DEF Done, TypeOK
<1>3. QED
  BY <1>1, <1>2 DEF Done, TypeOK

LEMMA WalkType ==
  ASSUME TypeOK, Nested, Walk, UNCHANGED old
  PROVE  TypeOK'
<1>1. calls # <<>> /\ Top \in OffersCall \cup AddsCall /\ Below \in Seq(Call)
  BY TopAndBelow, RunningKind DEF Walk
<1>2. PICK n \in 1 .. Len(Path) : n = Nearest(Top) /\ Path[n] \in Module
  BY <1>1, NearestExists DEF Walk
<1>3. n + 1 \in Nat \ {0}
  BY <1>2
<1>4. [Top EXCEPT !.at = n + 1] \in Call
  BY <1>1, <1>3, KindsAreCalls DEF OffersCall, AddsCall
<1>5. Append(Below, [Top EXCEPT !.at = n + 1]) \in Seq(Call)
  BY <1>1, <1>4, Pushed
<1>6. Load(Path[n], Append(Below, [Top EXCEPT !.at = n + 1]))
  BY <1>2 DEF Walk
<1>7. QED
  BY <1>2, <1>5, <1>6, LoadType DEF Walk, TypeOK

LEMMA WalkedType ==
  ASSUME TypeOK, Nested, Walked, UNCHANGED old
  PROVE  TypeOK'
<1>1. calls # <<>> /\ Below \in Seq(Call)
  BY TopAndBelow DEF Walked
<1>2. CASE ret # "ok" /\ Top.op = "offers" /\ Top.need /\ Top.key \in Module
  <2>1. Load(Top.key, Below)
    BY <1>2 DEF Walked
  <2>2. QED
    BY <1>1, <1>2, <2>1, LoadType DEF Walked, TypeOK
<1>3. CASE ~(ret # "ok" /\ Top.op = "offers" /\ Top.need /\ Top.key \in Module)
  BY <1>1, <1>3 DEF Walked, TypeOK
<1>4. QED
  BY <1>2, <1>3

LEMMA CalledType ==
  ASSUME TypeOK, Nested, Called, UNCHANGED old
  PROVE  TypeOK'
<1>1. calls # <<>> /\ Top \in UseCall /\ Below \in Seq(Call)
  BY TopAndBelow, RunningKind DEF Called, Running
<1>2. Top.m \in Module /\ apis[Top.key] \in Module \cup {None}
  BY <1>1 DEF UseCall, TypeOK
<1>3. held' \in [Module -> SUBSET Module]
  BY <1>2 DEF Called, TypeOK
<1>4. QED
  BY <1>1, <1>3 DEF Called, TypeOK

\* A module that goes leaves the list and the registry typed.
LEMMA GoneType ==
  ASSUME TypeOK, NEW m \in Loaded, Gone(m)
  PROVE  /\ open' \subseteq Module /\ mods' \in Seq(Module)
         /\ mx' \in [ok: BOOLEAN, n: Nat, tab: Names]
         /\ held' \in [Module -> SUBSET Module]
         /\ apis' \in [Iface -> Module \cup {None}]
<1>1. mods' \in Seq(Module)
  BY WithoutOthers DEF Gone
<1>2. mx' \in [ok: BOOLEAN, n: Nat, tab: Names]
  BY NoIndexType DEF Gone, Stale
<1>3. QED
  BY <1>1, <1>2 DEF Gone, TypeOK

\* The index of the path has a module for each name, or none.
PathIndex ==
  [c \in Builtin |->
     LET fit == {j \in DOMAIN Path : Path[j] \in there /\ c \in Adds[Path[j]]}
     IN  IF fit = {} THEN None ELSE Path[CHOOSE j \in fit : \A o \in fit : j <= o]]

LEMMA PathIndexType == PathIndex \in Names
<1>1. Path \in Seq(Module) /\ Len(Path) \in Nat /\ DOMAIN Path = 1 .. Len(Path)
  BY RegistryAssumption
<1>2. ASSUME NEW c \in Builtin PROVE PathIndex[c] \in Module \cup {None}
  <2> DEFINE fit == {j \in DOMAIN Path : Path[j] \in there /\ c \in Adds[Path[j]]}
  <2>1. fit \in SUBSET (1 .. Len(Path))
    BY <1>1
  <2>2. CASE fit = {}
    BY <2>2 DEF PathIndex
  <2>3. CASE fit # {}
    <3>1. \E j \in fit : \A o \in fit : j <= o
      BY <1>1, <2>1, <2>3, FirstExists
    <3>2. PICK n \in fit : n = CHOOSE j \in fit : \A o \in fit : j <= o
      BY <3>1
    <3>3. PathIndex[c] = Path[n]
      BY <2>3, <3>2 DEF PathIndex
    <3>4. Path[n] \in Module
      BY <1>1
    <3>5. QED
      BY <3>3, <3>4
  <2>4. QED
    BY <2>2, <2>3
<1>3. QED
  BY <1>2 DEF PathIndex, Names

LEMMA LdAutoType ==
  ASSUME TypeOK, NEW b \in Builtin, LdAuto(b), UNCHANGED old
  PROVE  TypeOK'
<1>1. PICK x \in Names :
        /\ bix' = x
        /\ IF x[b] = None THEN ret' = "fail" /\ UNCHANGED <<open, mods, mx, calls>>
           ELSE Load(x[b], <<>>)
        /\ UNCHANGED <<there, apis, held, dropping>>
  <2> DEFINE x == IF bix # None THEN bix ELSE PathIndex
  <2>1. x \in Names
    BY PathIndexType DEF TypeOK
  <2>2. /\ bix' = x
        /\ IF x[b] = None THEN ret' = "fail" /\ UNCHANGED <<open, mods, mx, calls>>
           ELSE Load(x[b], <<>>)
        /\ UNCHANGED <<there, apis, held, dropping>>
    BY DEF LdAuto, PathIndex
  <2> HIDE DEF x
  <2>3. QED
    BY <2>1, <2>2
<1>2. CASE x[b] = None
  BY <1>1, <1>2 DEF TypeOK
<1>3. CASE x[b] # None
  <2>1. x[b] \in Module /\ Load(x[b], <<>>) /\ <<>> \in Seq(Call)
    BY <1>1, <1>3 DEF Names
  <2>2. QED
    BY <1>1, <2>1, LoadType DEF TypeOK
<1>4. QED
  BY <1>2, <1>3

LEMMA AskedType ==
  ASSUME TypeOK, Asked, UNCHANGED old
  PROVE  TypeOK'
<1>1. ASSUME NEW m \in Module, ModLoad(m) PROVE TypeOK'
  <2>1. Load(m, <<>>) /\ <<>> \in Seq(Call)
    BY <1>1 DEF ModLoad
  <2>2. QED
    BY <1>1, <2>1, LoadType DEF ModLoad, TypeOK
<1>2. ASSUME NEW m \in Module, Drop(m) PROVE TypeOK'
  BY <1>2, GoneType DEF Drop, TypeOK
<1>3. ASSUME NEW m \in Module, Install(m) PROVE TypeOK'
  BY <1>3 DEF Install, TypeOK
<1>4. ASSUME NEW m \in Module, NEW i \in Iface, Use(m, i) PROVE TypeOK'
  <2> DEFINE u == [op |-> "call", m |-> m, key |-> i]
  <2>1. u \in Call /\ Seek(i, FALSE) \in Call
    BY DEF Seek, Call
  <2>2. calls' = <<u>> \/ calls' = <<u, Seek(i, FALSE)>>
    BY <1>4 DEF Use
  <2> HIDE DEF u
  <2>3. calls' \in Seq(Call)
    BY <2>1, <2>2, Fresh
  <2>4. QED
    BY <1>4, <2>3 DEF Use, TypeOK
<1>5. ASSUME NEW i \in Iface \cup Module, Need(i) PROVE TypeOK'
  <2>1. Seek(i, TRUE) \in Call
    BY DEF Seek, Call
  <2>2. calls' \in Seq(Call)
    BY <1>5, <2>1, Fresh DEF Need
  <2>3. QED
    BY <1>5, <2>2 DEF Need, TypeOK
<1>6. ASSUME NEW b \in Builtin, ModFind(b) PROVE TypeOK'
  <2>1. [op |-> "adds", key |-> b, at |-> 1] \in Call
    BY DEF Call
  <2>2. calls' \in Seq(Call) /\ ret' \in {"none", "ok", "fail"}
    BY <1>6, <2>1, Fresh DEF ModFind
  <2>3. QED
    BY <1>6, <2>2, IndexType DEF ModFind, TypeOK
<1>7. CASE DropAll
  BY <1>7 DEF DropAll, TypeOK
<1>8. QED
  BY <1>1, <1>2, <1>3, <1>4, <1>5, <1>6, <1>7, LdAutoType DEF Asked

LEMMA DroppingType ==
  ASSUME TypeOK, Dropping, UNCHANGED old
  PROVE  TypeOK'
<1>1. CASE DropNewest
  <2>1. mods[Len(mods)] \in Loaded
    BY <1>1 DEF DropNewest, Loaded, TypeOK
  <2>2. Gone(mods[Len(mods)])
    BY <1>1 DEF DropNewest
  <2>3. QED
    BY <1>1, <2>1, <2>2, GoneType DEF DropNewest, TypeOK
<1>2. CASE Dropped
  BY <1>2 DEF Dropped, TypeOK
<1>3. QED
  BY <1>1, <1>2 DEF Dropping

LEMMA NextType ==
  ASSUME TypeOK, Nested, [Next]_vars
  PROVE  TypeOK'
<1>1. CASE Lookup /\ UNCHANGED old
  BY <1>1, IndexType DEF Lookup, TypeOK
<1>2. CASE UNCHANGED vars
  BY <1>2 DEF vars, TypeOK
<1>3. QED
  BY <1>1, <1>2, AskType, GotType, FailedType, DoneType, WalkType, WalkedType,
     CalledType, AskedType, DroppingType DEF Next, Within

-----------------------------------------------------------------------------
(***************************************************************************)
(* The loads under way                                                     *)
(***************************************************************************)

\* The list with one more, and with one less.
LEMMA OneMore ==
  ASSUME TypeOK, NEW m \in Module, mods' = Append(mods, m)
  PROVE  Loaded' = Loaded \cup {m}
<1>1. mods \in Seq(Module)
  BY DEF TypeOK
<1>2. /\ DOMAIN mods = 1 .. Len(mods) /\ DOMAIN mods' = 1 .. Len(mods) + 1
      /\ Len(mods) \in Nat /\ mods'[Len(mods) + 1] = m
      /\ \A i \in 1 .. Len(mods) : mods'[i] = mods[i]
  BY <1>1
<1>3. QED
  BY <1>2 DEF Loaded

LEMMA OneLess ==
  ASSUME TypeOK, NEW m \in Loaded, mods' = Without(m)
  PROVE  /\ Loaded \ {m} \subseteq Loaded' /\ Loaded' \subseteq Loaded
         /\ (\A i, j \in DOMAIN mods : mods[i] = mods[j] => i = j)
              => /\ Loaded' = Loaded \ {m}
                 /\ \A i, j \in DOMAIN mods' : mods'[i] = mods'[j] => i = j
<1> DEFINE p == Place(m)
           Up(j) == IF j < p THEN j ELSE j + 1
<1>1. Len(mods) \in Nat /\ DOMAIN mods = 1 .. Len(mods)
  BY DEF TypeOK
<1>2. /\ p \in DOMAIN mods /\ mods[p] = m
      /\ Len(mods') = Len(mods) - 1 /\ mods' \in Seq(Module)
      /\ \A j \in 1 .. Len(mods) - 1 : mods'[j] = mods[Up(j)]
  BY WithoutOthers
<1> HIDE DEF p
<1>3. DOMAIN mods' = 1 .. Len(mods) - 1
  BY <1>1, <1>2
<1>4. \A j \in DOMAIN mods' : Up(j) \in DOMAIN mods /\ Up(j) # p /\ mods'[j] = mods[Up(j)]
  BY <1>1, <1>2, <1>3
<1>5. \A i, j \in DOMAIN mods' : Up(i) = Up(j) => i = j
  BY <1>1, <1>2, <1>3
<1>6. \A i \in DOMAIN mods : i # p => \E j \in DOMAIN mods' : Up(j) = i
  <2> SUFFICES ASSUME NEW i \in DOMAIN mods, i # p
               PROVE  \E j \in DOMAIN mods' : Up(j) = i
    OBVIOUS
  <2>1. CASE i < p
    BY <1>1, <1>2, <1>3, <2>1
  <2>2. CASE p < i
    <3>1. i - 1 \in DOMAIN mods' /\ Up(i - 1) = i
      BY <1>1, <1>2, <1>3, <2>2
    <3>2. QED
      BY <3>1
  <2>3. QED
    BY <1>1, <1>2, <2>1, <2>2
<1> HIDE DEF Up
<1>7. Loaded \ {m} \subseteq Loaded'
  <2> SUFFICES ASSUME NEW i \in DOMAIN mods, mods[i] # m PROVE mods[i] \in Loaded'
    BY DEF Loaded
  <2>1. PICK j \in DOMAIN mods' : Up(j) = i
    BY <1>2, <1>6
  <2>2. mods'[j] = mods[i]
    BY <1>4, <2>1
  <2>3. QED
    BY <2>2 DEF Loaded
<1>8. Loaded' \subseteq Loaded
  BY <1>4 DEF Loaded
<1>9. ASSUME \A i, j \in DOMAIN mods : mods[i] = mods[j] => i = j
      PROVE  /\ Loaded' = Loaded \ {m}
             /\ \A i, j \in DOMAIN mods' : mods'[i] = mods'[j] => i = j
  <2>1. \A j \in DOMAIN mods' : mods'[j] # m
    BY <1>2, <1>4, <1>9
  <2>2. m \notin Loaded'
    BY <2>1 DEF Loaded
  <2>3. QED
    BY <1>4, <1>5, <1>7, <1>8, <1>9, <2>2
<1>10. QED
  BY <1>7, <1>8, <1>9

\* What was below is as it was.
LEMMA BelowNested ==
  ASSUME TypeOK, Nested, calls # <<>>
  PROVE  /\ DOMAIN Below = 1 .. Len(calls) - 1 /\ Len(calls) \in Nat \ {0}
         /\ Of(Below)
         /\ \A c \in DOMAIN Below : Below[c].op = "init" =>
              Below[c].m \in Loaded /\ Asking(Below[c])
         /\ \A c \in DOMAIN Below : Top.op = "init" /\ Below[c].op = "init" =>
              Below[c].m # Top.m
<1>1. /\ Len(calls) \in Nat \ {0} /\ DOMAIN calls = 1 .. Len(calls)
      /\ DOMAIN Below = 1 .. Len(calls) - 1
      /\ \A c \in DOMAIN Below : Below[c] = calls[c]
  BY TopAndBelow
<1>2. \A c \in DOMAIN Below : c \in DOMAIN calls /\ c # Len(calls)
  BY <1>1
<1>3. QED
  BY <1>1, <1>2 DEF Nested, Of, Top

\* A call that goes on in another way, or with one of another kind on it.
LEMMA GoesOn ==
  ASSUME TypeOK, Nested, calls # <<>>, NEW x \in Call,
         x.op = "init" => Top.op = "init" /\ x.m = Top.m /\ Asking(x),
         \/ calls' = Append(Below, x)
         \/ \E y \in Call : y.op # "init" /\ calls' = Append(Below, x) \o <<y>>,
         Loaded' = Loaded, ~dropping'
  PROVE  Nested'
<1>1. /\ Len(calls) \in Nat \ {0} /\ Below \in Seq(Call) /\ Len(Below) = Len(calls) - 1
      /\ DOMAIN calls = 1 .. Len(calls)
  BY TopAndBelow
<1>2. /\ Append(Below, x) \in Seq(Call) /\ Len(Append(Below, x)) = Len(calls)
      /\ \A c \in DOMAIN Below : Append(Below, x)[c] = Below[c]
      /\ Append(Below, x)[Len(calls)] = x
  BY <1>1, Pushed, BelowNested
<1>3. ASSUME NEW c \in DOMAIN calls', calls'[c].op = "init"
      PROVE  \/ c \in DOMAIN Below /\ calls'[c] = Below[c]
             \/ c = Len(calls) /\ calls'[c] = x
  <2>1. CASE calls' = Append(Below, x)
    BY <1>1, <1>2, <1>3, <2>1, BelowNested
  <2>2. CASE \E y \in Call : y.op # "init" /\ calls' = Append(Below, x) \o <<y>>
    <3>1. PICK y \in Call : y.op # "init" /\ calls' = Append(Below, x) \o <<y>>
      BY <2>2
    <3> PICK s \in Seq(Call) : s = Append(Below, x)
      BY <1>2
    <3>2. /\ DOMAIN calls' = 1 .. Len(calls) + 1 /\ calls'[Len(calls) + 1] = y
          /\ \A d \in 1 .. Len(calls) : calls'[d] = Append(Below, x)[d]
      BY <1>1, <1>2, <3>1, Pushed
    <3>3. QED
      BY <1>1, <1>2, <1>3, <3>1, <3>2, BelowNested
  <2>3. QED
    BY <2>1, <2>2
<1>4. Of(calls')
  <2> SUFFICES ASSUME NEW c \in DOMAIN calls', calls'[c].op = "init"
               PROVE  c \in DOMAIN calls /\ calls[c].op = "init" /\ calls[c].m = calls'[c].m
    BY DEF Of
  <2>1. CASE c \in DOMAIN Below /\ calls'[c] = Below[c]
    BY <2>1, BelowNested DEF Of
  <2>2. CASE c = Len(calls) /\ calls'[c] = x
    BY <1>1, <2>2 DEF Top
  <2>3. QED
    BY <1>3, <2>1, <2>2
<1>5. \A c \in DOMAIN calls' : calls'[c].op = "init" =>
         calls'[c].m \in Loaded' /\ Asking(calls'[c])
  BY <1>3, BelowNested, RunningKind
<1>6. QED
  BY <1>4, <1>5, NestedKept

\* A call that ends; an init's module may go with it.
LEMMA Ends ==
  ASSUME TypeOK, Nested, calls # <<>>, calls' = Below, ~dropping',
         \/ Loaded' = Loaded
         \/ Top.op = "init" /\ Loaded \ {Top.m} \subseteq Loaded'
  PROVE  Nested'
<1>1. \A c \in DOMAIN calls' : calls'[c].op = "init" =>
         calls'[c].m \in Loaded' /\ Asking(calls'[c])
  BY BelowNested
<1>2. Of(calls')
  BY BelowNested
<1>3. QED
  BY <1>1, <1>2, NestedKept

\* A load begins over what is under way, with the init of a module that has
\* none under way.
LEMMA LoadNested ==
  ASSUME TypeOK, Nested, NEW m \in Module, NEW under \in Seq(Call), Of(under),
         \A c \in DOMAIN under : under[c].op = "init" => Asking(under[c]),
         Load(m, under), ~dropping'
  PROVE  Nested'
<1>1. \A c \in DOMAIN under : under[c].op = "init" => under[c].m \in Loaded
  BY DEF Nested, Of
<1>2. \A c, d \in DOMAIN under :
        under[c].op = "init" /\ under[d].op = "init" /\ under[c].m = under[d].m => c = d
  BY DEF Nested, Of
<1>3. CASE m \in there \ Loaded
  <2>1. Init_(m) \in Call /\ Init_(m).m = m /\ Asking(Init_(m))
    BY DEF Init_, Call, Asking
  <2>2. mods' = Append(mods, m) /\ calls' = Append(under, Init_(m))
    BY <1>3 DEF Load
  <2>3. Loaded' = Loaded \cup {m}
    BY <2>2, OneMore
  <2>4. /\ DOMAIN under = 1 .. Len(under) /\ Len(under) \in Nat
        /\ DOMAIN calls' = 1 .. Len(under) + 1
        /\ \A c \in DOMAIN under : calls'[c] = under[c]
        /\ calls'[Len(under) + 1] = Init_(m)
    BY <2>1, <2>2, Pushed
  <2>5. \A c \in DOMAIN calls' : c \in DOMAIN under \/ c = Len(under) + 1
    BY <2>4
  <2>6. \A c \in DOMAIN calls' : calls'[c].op = "init" =>
           calls'[c].m \in Loaded' /\ Asking(calls'[c])
    BY <1>1, <2>1, <2>3, <2>4, <2>5
  <2>7. \A c \in DOMAIN under : under[c].op = "init" => under[c].m # m
    BY <1>1, <1>3
  <2>8. \A c, d \in DOMAIN calls' :
          calls'[c].op = "init" /\ calls'[d].op = "init" /\ calls'[c].m = calls'[d].m
            => c = d
    BY <1>2, <2>1, <2>4, <2>5, <2>7
  <2>9. QED
    BY <2>6, <2>8 DEF Nested, Asking
<1>4. CASE m \notin there \ Loaded
  <2>1. calls' = under /\ mods' = mods
    BY <1>4 DEF Load
  <2>2. QED
    BY <1>1, <2>1, NestedKept DEF Loaded
<1>5. QED
  BY <1>3, <1>4

\* The calls that are no init.
LEMMA Others ==
  /\ \A i \in Iface \cup Module, need \in BOOLEAN :
       Seek(i, need) \in Call /\ Seek(i, need).op = "offers"
  /\ \A m \in Module, i \in Iface :
       /\ [op |-> "call", m |-> m, key |-> i] \in Call
       /\ [op |-> "call", m |-> m, key |-> i].op = "call"
  /\ \A b \in Builtin :
       /\ [op |-> "adds", key |-> b, at |-> 1] \in Call
       /\ [op |-> "adds", key |-> b, at |-> 1].op = "adds"
  BY DEF Call, Seek

LEMMA WithinNested ==
  ASSUME TypeOK, Nested, Within
  PROVE  Nested'
<1>1. calls # <<>> /\ dropping' = dropping /\ ~dropping'
  BY DEF Within, Ask, Got, Failed, Done, Walk, Walked, Called, Running, Nested
<1>2. Below \in Seq(Call) /\ Of(Below)
      /\ \A c \in DOMAIN Below : Below[c].op = "init" => Asking(Below[c])
  BY <1>1, TopAndBelow, BelowNested
<1>3. CASE Ask
  <2>1. Top \in InitCall /\ ~Top.asked /\ Top.k <= Len(Wants[Top.m]) /\ mods' = mods
    BY <1>1, <1>3, RunningKind DEF Ask, Running
  <2>2. PICK i \in Iface : i = Wants[Top.m][Top.k]
    BY <2>1, WantType
  <2>3. CASE apis[i] # None
    <3> DEFINE x == [Top EXCEPT !.k = @ + 1]
    <3>1. x \in Call /\ x.op = "init" /\ x.m = Top.m /\ ~x.asked
      BY <2>1, InitSteps DEF InitCall
    <3>2. calls' = Append(Below, x) /\ Loaded' = Loaded
      BY <1>3, <2>1, <2>2, <2>3 DEF Ask, Loaded
    <3> HIDE DEF x
    <3>3. Top.op = "init" /\ Asking(x)
      BY <2>1, <3>1 DEF InitCall, Asking
    <3>4. QED
      BY <1>1, <3>1, <3>2, <3>3, GoesOn
  <2>4. CASE apis[i] = None
    <3> DEFINE x == [Top EXCEPT !.asked = TRUE]
    <3>1. x \in Call /\ x.op = "init" /\ x.m = Top.m /\ x.k = Top.k
      BY <2>1, InitSteps DEF InitCall
    <3>2. calls' = Append(Below, x) \o <<Seek(i, FALSE)>> /\ Loaded' = Loaded
      BY <1>3, <2>1, <2>2, <2>4 DEF Ask, Loaded
    <3> HIDE DEF x
    <3>3. Top.op = "init" /\ Asking(x)
      BY <2>1, <3>1 DEF InitCall, Asking
    <3>4. PICK y \in Call : y = Seek(i, FALSE) /\ y.op # "init"
      BY Others
    <3>5. QED
      BY <1>1, <3>1, <3>2, <3>3, <3>4, GoesOn
  <2>5. QED
    BY <2>3, <2>4
<1>4. CASE Got
  <2>1. Top \in InitCall /\ mods' = mods
    BY <1>1, <1>4, RunningKind DEF Got, Running
  <2> DEFINE x == [Top EXCEPT !.k = @ + 1, !.asked = FALSE]
  <2>2. x \in Call /\ x.op = "init" /\ x.m = Top.m /\ ~x.asked
    BY <2>1, InitSteps DEF InitCall
  <2>3. calls' = Append(Below, x) /\ Loaded' = Loaded
    BY <1>4, <2>1 DEF Got, Loaded
  <2> HIDE DEF x
  <2>4. Top.op = "init" /\ Asking(x)
    BY <2>1, <2>2 DEF InitCall, Asking
  <2>5. QED
    BY <1>1, <2>2, <2>3, <2>4, GoesOn
<1>5. CASE Failed
  <2>1. Top.op = "init" /\ Top.m \in Loaded /\ mods' = Without(Top.m) /\ calls' = Below
    BY <1>1, <1>5, RunningKind DEF Failed, Running
  <2>2. Loaded \ {Top.m} \subseteq Loaded'
    BY <2>1, OneLess
  <2>3. QED
    BY <1>1, <2>1, <2>2, Ends
<1>6. CASE Done \/ Called
  <2>1. calls' = Below /\ Loaded' = Loaded
    BY <1>6 DEF Done, Called, Loaded
  <2>2. QED
    BY <1>1, <2>1, Ends
<1>7. CASE Walk
  <2>1. Top \in OffersCall \cup AddsCall
    BY <1>1, <1>7, RunningKind DEF Walk
  <2>2. PICK n \in 1 .. Len(Path) : n = Nearest(Top) /\ Path[n] \in Module
    BY <1>7, <2>1, NearestExists DEF Walk
  <2>3. PICK x : x = [Top EXCEPT !.at = n + 1]
    OBVIOUS
  <2>4. n + 1 \in Nat \ {0}
    BY <2>2
  <2>5. x \in Call /\ x.op # "init"
    BY <2>1, <2>3, <2>4, KindsAreCalls DEF OffersCall, AddsCall
  <2>6. Load(Path[n], Append(Below, x))
    BY <1>7, <2>2, <2>3 DEF Walk
  <2>7. PICK s \in Seq(Call) : s = Append(Below, x)
    BY <1>2, <2>5, Pushed
  <2>8. \A c \in DOMAIN s : (c \in DOMAIN Below /\ s[c] = Below[c]) \/ s[c] = x
    BY <1>2, <2>5, <2>7, Pushed, BelowNested, TopAndBelow, <1>1
  <2>9. Of(s) /\ \A c \in DOMAIN s : s[c].op = "init" => Asking(s[c])
    BY <1>2, <2>5, <2>8 DEF Of
  <2>10. QED
    BY <1>1, <2>2, <2>6, <2>7, <2>9, LoadNested
<1>8. CASE Walked
  <2>1. CASE ret # "ok" /\ Top.op = "offers" /\ Top.need /\ Top.key \in Module
    <3>1. Load(Top.key, Below)
      BY <1>8, <2>1 DEF Walked
    <3>2. QED
      BY <1>1, <1>2, <2>1, <3>1, LoadNested
  <2>2. CASE ~(ret # "ok" /\ Top.op = "offers" /\ Top.need /\ Top.key \in Module)
    <3>1. calls' = Below /\ Loaded' = Loaded
      BY <1>8, <2>2 DEF Walked, Loaded
    <3>2. QED
      BY <1>1, <3>1, Ends
  <2>3. QED
    BY <2>1, <2>2
<1>9. QED
  BY <1>3, <1>4, <1>5, <1>6, <1>7, <1>8 DEF Within

\* A step from where no load is under way that begins none.
LEMMA IdleNested ==
  ASSUME \A c \in DOMAIN calls' : calls'[c].op # "init", dropping' => calls' = <<>>
  PROVE  Nested'
  BY DEF Nested

LEMMA NoInit ==
  ASSUME NEW s, NEW u, NEW v, u.op # "init", v.op # "init",
         s = <<>> \/ s = <<u>> \/ s = <<u, v>>
  PROVE  \A c \in DOMAIN s : s[c].op # "init"
  OBVIOUS

LEMMA AskedNested ==
  ASSUME TypeOK, Nested, Asked, UNCHANGED old
  PROVE  Nested'
<1>1. calls = <<>> /\ ~dropping
  BY DEF Asked, ModLoad, Drop, Install, Use, Need, ModFind, LdAuto, DropAll, Idle
<1>2. <<>> \in Seq(Call) /\ Of(<<>>) /\ \A c \in DOMAIN << >> : FALSE
  BY DEF Of
<1>3. ASSUME NEW m \in Module, Load(m, <<>>), dropping' = dropping PROVE Nested'
  <2>1. PICK s \in Seq(Call) : s = <<>>
    BY <1>2
  <2>2. Of(s) /\ \A c \in DOMAIN s : s[c].op = "init" => Asking(s[c])
    BY <1>2, <2>1
  <2>3. Load(m, s)
    BY <1>3, <2>1
  <2>4. QED
    BY <1>1, <1>3, <2>2, <2>3, LoadNested
<1>4. ASSUME NEW m \in Module, ModLoad(m) PROVE Nested'
  BY <1>3, <1>4 DEF ModLoad
<1>5. ASSUME NEW m \in Module, Drop(m) \/ Install(m) PROVE Nested'
  <2>1. calls' = <<>>
    BY <1>1, <1>5 DEF Drop, Install
  <2>2. QED
    BY <2>1, IdleNested
<1>6. ASSUME NEW m \in Module, NEW i \in Iface, Use(m, i) PROVE Nested'
  <2>1. PICK u \in Call : u = [op |-> "call", m |-> m, key |-> i] /\ u.op # "init"
    BY Others
  <2>2. PICK v \in Call : v = Seek(i, FALSE) /\ v.op # "init"
    BY Others
  <2>3. calls' = <<u>> \/ calls' = <<u, v>>
    BY <1>6, <2>1, <2>2 DEF Use
  <2>4. ~dropping'
    BY <1>1, <1>6 DEF Use
  <2>5. \A c \in DOMAIN calls' : calls'[c].op # "init"
    BY <2>1, <2>2, <2>3, NoInit
  <2>6. QED
    BY <2>4, <2>5, IdleNested
<1>7. ASSUME NEW i \in Iface \cup Module, Need(i) PROVE Nested'
  <2>1. PICK v \in Call : v = Seek(i, TRUE) /\ v.op # "init"
    BY Others
  <2>2. calls' = <<v>> /\ ~dropping'
    BY <1>1, <1>7, <2>1 DEF Need
  <2>3. \A c \in DOMAIN calls' : calls'[c].op # "init"
    BY <2>1, <2>2, NoInit
  <2>4. QED
    BY <2>2, <2>3, IdleNested
<1>8. ASSUME NEW b \in Builtin, ModFind(b) PROVE Nested'
  <2>1. PICK v \in Call : v = [op |-> "adds", key |-> b, at |-> 1] /\ v.op # "init"
    BY Others
  <2>2. (calls' = <<>> \/ calls' = <<v>>) /\ ~dropping'
    BY <1>1, <1>8, <2>1 DEF ModFind
  <2>3. QED
    BY <2>1, <2>2, IdleNested
<1>9. ASSUME NEW b \in Builtin, LdAuto(b) PROVE Nested'
  <2>1. TypeOK'
    BY <1>9, LdAutoType
  <2>2. PICK x \in Names :
          /\ IF x[b] = None THEN UNCHANGED calls ELSE Load(x[b], <<>>)
          /\ dropping' = dropping
    <3>1. bix' \in Names
      <4>1. bix' = IF bix # None THEN bix ELSE PathIndex
        BY <1>9 DEF LdAuto, PathIndex
      <4>2. QED
        BY <4>1, PathIndexType DEF TypeOK
    <3>2. /\ IF bix'[b] = None THEN UNCHANGED calls ELSE Load(bix'[b], <<>>)
          /\ dropping' = dropping
      BY <1>9 DEF LdAuto
    <3>3. QED
      BY <3>1, <3>2
  <2>3. CASE x[b] = None
    BY <1>1, <2>2, <2>3, IdleNested
  <2>4. CASE x[b] # None
    <3>1. x[b] \in Module
      BY <1>9, <2>2, <2>4 DEF Names
    <3>2. QED
      BY <1>3, <2>2, <2>4, <3>1
  <2>5. QED
    BY <2>3, <2>4
<1>10. CASE DropAll
  <2>1. calls' = <<>>
    BY <1>1, <1>10 DEF DropAll
  <2>2. QED
    BY <2>1, IdleNested
<1>11. QED
  BY <1>4, <1>5, <1>6, <1>7, <1>8, <1>9, <1>10 DEF Asked

LEMMA NextNested ==
  ASSUME TypeOK, Nested, [Next]_vars
  PROVE  Nested'
<1>1. CASE Lookup \/ UNCHANGED vars
  BY <1>1 DEF Lookup, vars, Nested, Loaded, Asking
<1>2. CASE Dropping
  <2>1. calls' = <<>>
    BY <1>2 DEF Dropping, DropNewest, Dropped, Nested
  <2>2. QED
    BY <2>1, IdleNested
<1>3. QED
  BY <1>1, <1>2, WithinNested, AskedNested DEF Next

\* Every variable keeps its type, the loads under way their order: no module's
\* init is entered twice, and what is being loaded is on the list.
THEOREM TypeCorrect == Spec => [](TypeOK /\ Nested)
<1>1. Init => TypeOK /\ Nested
  <2>1. ASSUME Init PROVE TypeOK
    <3>1. mods \in Seq(Module) /\ calls \in Seq(Call)
      BY <2>1 DEF Init
    <3>2. /\ apis \in [Iface -> Module \cup {None}]
          /\ held \in [Module -> SUBSET Module]
      BY <2>1 DEF Init
    <3>3. QED
      BY <2>1, <3>1, <3>2, NoIndexType, RegistryAssumption DEF Init, TypeOK
  <2>2. ASSUME Init PROVE Nested
    BY <2>2 DEF Init, Nested
  <2>3. QED
    BY <2>1, <2>2
<1>2. TypeOK /\ Nested /\ [Next]_vars => (TypeOK /\ Nested)'
  BY NextType, NextNested
<1>3. QED
  BY <1>1, <1>2, PTL DEF Spec

-----------------------------------------------------------------------------
(***************************************************************************)
(* The list and the objects                                                *)
(***************************************************************************)

\* What a step does to the list: one module more, one less, or nothing; the
\* index of a list that changes is forgotten.  Offers come with the end of an
\* init, and go with the module.
Joins(m) ==
  /\ m \in Module \ Loaded
  /\ mods' = Append(mods, m) /\ open' = open \cup {m} /\ apis' = apis
Goes(m) ==
  /\ m \in Loaded
  /\ mods' = Without(m) /\ open' = open \ {m}
Stays == mods' = mods /\ open' = open

LEMMA LoadJoins ==
  ASSUME NEW m \in Module, NEW under, Load(m, under), apis' = apis
  PROVE  \/ Joins(m) /\ mx' = NoIndex
         \/ Stays /\ mx' = mx
<1>1. CASE m \in there \ Loaded
  BY <1>1 DEF Load, Joins, Stale
<1>2. CASE m \notin there \ Loaded
  BY <1>2 DEF Load, Stays
<1>3. QED
  BY <1>1, <1>2

LEMMA ListSteps ==
  ASSUME TypeOK, Nested, [Next]_vars
  PROVE  \/ Stays /\ (mx' = mx \/ mx' = Indexed) /\ (apis' = apis \/ Done)
         \/ \E m \in Module : Joins(m) /\ mx' = NoIndex
         \/ Failed /\ Goes(Top.m) /\ mx' = NoIndex
         \/ \E m \in Loaded : Gone(m) /\ calls = <<>> /\ calls' = <<>>
<1> DEFINE Goal == \/ Stays /\ (mx' = mx \/ mx' = Indexed) /\ (apis' = apis \/ Done)
                   \/ \E m \in Module : Joins(m) /\ mx' = NoIndex
                   \/ Failed /\ Goes(Top.m) /\ mx' = NoIndex
                   \/ \E m \in Loaded : Gone(m) /\ calls = <<>> /\ calls' = <<>>
<1> SUFFICES Goal
  OBVIOUS
<1>1. CASE Lookup \/ Ask \/ Got \/ Done \/ Called \/ Dropped \/ DropAll \/ UNCHANGED vars
  BY <1>1 DEF Lookup, Ask, Got, Done, Called, Dropped, DropAll, vars, Stays
<1>2. ASSUME NEW m \in Module, NEW under, Load(m, under), apis' = apis PROVE Goal
  BY <1>2, LoadJoins
<1>3. CASE Walk
  <2>1. Path[Nearest(Top)] \in Module
    BY <1>3, RunningKind, NearestExists DEF Walk
  <2>2. QED
    BY <1>2, <1>3, <2>1 DEF Walk
<1>4. CASE Walked
  <2>1. CASE ret # "ok" /\ Top.op = "offers" /\ Top.need /\ Top.key \in Module
    BY <1>2, <1>4, <2>1 DEF Walked
  <2>2. CASE ~(ret # "ok" /\ Top.op = "offers" /\ Top.need /\ Top.key \in Module)
    BY <1>4, <2>2 DEF Walked, Stays
  <2>3. QED
    BY <2>1, <2>2
<1>5. CASE Failed
  <2>1. Top.m \in Loaded /\ Top.m \in Module
    BY <1>5, RunningKind DEF Failed, Running, InitCall
  <2>2. QED
    BY <1>5, <2>1 DEF Failed, Goes, Stale
<1>7. CASE DropNewest
  <2>1. mods[Len(mods)] \in Loaded
    BY <1>7 DEF DropNewest, Loaded, TypeOK
  <2>2. QED
    BY <1>7, <2>1 DEF DropNewest, Nested
<1>8. ASSUME NEW m \in Module, ModLoad(m) \/ Drop(m) \/ Install(m) PROVE Goal
  <2>1. CASE ModLoad(m)
    BY <1>2, <2>1 DEF ModLoad
  <2>2. CASE Drop(m)
    BY <2>2 DEF Drop, Idle
  <2>3. CASE Install(m)
    BY <2>3 DEF Install, Stays
  <2>4. QED
    BY <1>8, <2>1, <2>2, <2>3
<1>9. ASSUME NEW b \in Builtin, LdAuto(b) PROVE Goal
  <2>1. bix' \in Names
    <3>1. bix' = IF bix # None THEN bix ELSE PathIndex
      BY <1>9 DEF LdAuto, PathIndex
    <3>2. QED
      BY <3>1, PathIndexType DEF TypeOK
  <2>2. /\ IF bix'[b] = None THEN UNCHANGED <<open, mods, mx>> ELSE Load(bix'[b], <<>>)
        /\ apis' = apis
    BY <1>9 DEF LdAuto
  <2>3. CASE bix'[b] = None
    BY <2>2, <2>3 DEF Stays
  <2>4. CASE bix'[b] # None
    <3>1. bix'[b] \in Module
      BY <1>9, <2>1, <2>4 DEF Names
    <3>2. QED
      BY <1>2, <2>2, <2>4, <3>1
  <2>5. QED
    BY <2>3, <2>4
<1>10. ASSUME NEW m \in Module, NEW i \in Iface, Use(m, i) PROVE Goal
  BY <1>10 DEF Use, Stays
<1>11. ASSUME NEW i \in Iface \cup Module, Need(i) PROVE Goal
  BY <1>11 DEF Need, Stays
<1>12. ASSUME NEW b \in Builtin, ModFind(b) PROVE Goal
  BY <1>12 DEF ModFind, Stays
<1> HIDE DEF Goal
<1>13. CASE Asked
  BY <1>1, <1>8, <1>9, <1>10, <1>11, <1>12, <1>13 DEF Asked
<1>14. QED
  BY <1>1, <1>3, <1>4, <1>5, <1>7, <1>13 DEF Next, Within, Dropping

\* The list holds exactly the objects that are mapped, each once.
THEOREM ListIsOpenCorrect == Spec => []ListIsOpen
<1>1. Init => ListIsOpen
  BY DEF Init, ListIsOpen, Loaded
<1>2. TypeOK /\ Nested /\ ListIsOpen /\ [Next]_vars => ListIsOpen'
  <2> SUFFICES ASSUME TypeOK, Nested, ListIsOpen, [Next]_vars PROVE ListIsOpen'
    OBVIOUS
  <2>1. CASE Stays
    BY <2>1 DEF Stays, ListIsOpen, Loaded
  <2>2. ASSUME NEW m \in Module, Joins(m) PROVE ListIsOpen'
    <3>1. Loaded' = Loaded \cup {m}
      BY <2>2, OneMore DEF Joins
    <3>2. /\ DOMAIN mods = 1 .. Len(mods) /\ DOMAIN mods' = 1 .. Len(mods) + 1
          /\ Len(mods) \in Nat /\ mods'[Len(mods) + 1] = m
          /\ \A i \in 1 .. Len(mods) : mods'[i] = mods[i]
      BY <2>2 DEF Joins, TypeOK
    <3>3. \A i \in DOMAIN mods : mods[i] # m
      BY <2>2 DEF Joins, Loaded
    <3>4. \A i, j \in DOMAIN mods' : mods'[i] = mods'[j] => i = j
      BY <3>2, <3>3 DEF ListIsOpen
    <3>5. QED
      BY <2>2, <3>1, <3>4 DEF ListIsOpen, Joins
  <2>3. ASSUME NEW m \in Module, Goes(m) PROVE ListIsOpen'
    BY <2>3, OneLess DEF ListIsOpen, Goes
  <2>4. ASSUME NEW m \in Loaded, Gone(m) PROVE ListIsOpen'
    <3>1. m \in Module /\ Goes(m)
      BY <2>4 DEF Gone, Goes, Loaded, TypeOK
    <3>2. QED
      BY <2>3, <3>1
  <2>5. CASE Failed /\ Goes(Top.m)
    <3>1. Top.m \in Module
      BY <2>5 DEF Goes, Loaded, TypeOK
    <3>2. QED
      BY <2>3, <2>5, <3>1
  <2>6. QED
    BY <2>1, <2>2, <2>4, <2>5, ListSteps
<1>3. QED
  BY <1>1, <1>2, TypeCorrect, PTL DEF Spec

\* The index is used only while it says what a scan of the list would.
THEOREM IndexFreshCorrect == Spec => []IndexFresh
<1>1. Init => IndexFresh
  BY DEF Init, IndexFresh, Current, NoIndex
<1>2. TypeOK /\ Nested /\ IndexFresh /\ [Next]_vars => IndexFresh'
  <2> SUFFICES ASSUME TypeOK, Nested, IndexFresh, [Next]_vars PROVE IndexFresh'
    OBVIOUS
  <2>1. CASE mx' = NoIndex
    BY <2>1 DEF IndexFresh, Current, NoIndex
  <2>2. ASSUME mods' = mods PROVE \A b \in Builtin : Scan(b)' = Scan(b)
    BY <2>2 DEF Scan
  <2>3. CASE mods' = mods /\ mx' = mx
    BY <2>2, <2>3 DEF IndexFresh, Current
  <2>4. CASE mods' = mods /\ mx' = Indexed
    <3>1. CASE mods = <<>> \/ Current
      BY <2>3, <2>4, <3>1 DEF Indexed
    <3>2. CASE ~(mods = <<>> \/ Current)
      <4>1. mx'.tab = [b \in Builtin |-> Scan(b)]
        BY <2>4, <3>2 DEF Indexed
      <4>2. QED
        BY <2>2, <2>4, <4>1 DEF IndexFresh
    <3>3. QED
      BY <3>1, <3>2
  <2>5. QED
    BY <2>1, <2>3, <2>4, ListSteps DEF Stays, Gone, Stale
<1>3. QED
  BY <1>1, <1>2, TypeCorrect, PTL DEF Spec

-----------------------------------------------------------------------------
(***************************************************************************)
(* The interfaces                                                          *)
(***************************************************************************)

\* The modules whose init is under way.
Loading == {calls[c].m : c \in {d \in DOMAIN calls : calls[d].op = "init"}}

\* No module that is in its init has an offer, and nobody who is not loaded.
Claims ==
  /\ \A i \in Iface : apis[i] # None => apis[i] \in Loaded /\ i \in Offers[apis[i]]
  /\ \A i \in Iface : apis[i] \notin Loading

\* Whoever is loaded and through its init has somebody behind its interfaces.
Offered == \A m \in Loaded \ Loading : \A i \in Offers[m] : apis[i] # None

LEMMA OffersAre == OffersLive <=> Offered /\ \A i \in Iface :
                     apis[i] # None => apis[i] \in Loaded /\ i \in Offers[apis[i]]
<1>1. \A m \in Loaded : m \in Loading <=>
        ~ \A c \in DOMAIN calls : calls[c].op = "init" => calls[c].m # m
  BY DEF Loading
<1>2. QED
  BY <1>1 DEF OffersLive, Offered

\* The inits under way change with the list and the offers: one begins when a
\* module joins, one ends, and none is under way when a module goes.
LEMMA Loadings ==
  ASSUME TypeOK, Nested, [Next]_vars
  PROVE  \/ Stays /\ apis' = apis /\ Loading' = Loading
         \/ \E m \in Module : Joins(m) /\ Loading' = Loading \cup {m}
         \/ /\ Failed \/ Done
            /\ Top.m \in Loading /\ Loading' = Loading \ {Top.m}
         \/ \E m \in Loaded : Gone(m) /\ Loading = {} /\ Loading' = {}
<1> DEFINE Goal == \/ Stays /\ apis' = apis /\ Loading' = Loading
                   \/ \E m \in Module : Joins(m) /\ Loading' = Loading \cup {m}
                   \/ /\ Failed \/ Done
                      /\ Top.m \in Loading /\ Loading' = Loading \ {Top.m}
                   \/ \E m \in Loaded : Gone(m) /\ Loading = {} /\ Loading' = {}
           L(s) == {s[c].m : c \in {d \in DOMAIN s : s[d].op = "init"}}
<1> SUFFICES Goal
  OBVIOUS
<1>1. Loading = L(calls) /\ Loading' = L(calls')
  BY DEF Loading
<1>2. calls # <<>> =>
        Loading = L(Below) \cup (IF Top.op = "init" THEN {Top.m} ELSE {})
  <2> SUFFICES ASSUME calls # <<>>
               PROVE  Loading = L(Below) \cup (IF Top.op = "init" THEN {Top.m} ELSE {})
    OBVIOUS
  <2>1. /\ DOMAIN calls = 1 .. Len(calls) /\ Len(calls) \in Nat \ {0}
        /\ DOMAIN Below = 1 .. Len(calls) - 1 /\ Top = calls[Len(calls)]
        /\ \A c \in DOMAIN Below : Below[c] = calls[c]
    BY TopAndBelow, BelowNested DEF Top
  <2>2. DOMAIN calls = DOMAIN Below \cup {Len(calls)}
    BY <2>1
  <2>3. QED
    BY <1>1, <2>1, <2>2
<1>3. ASSUME NEW s \in Seq(Call), NEW x \in Call
      PROVE  L(Append(s, x)) = L(s) \cup (IF x.op = "init" THEN {x.m} ELSE {})
  <2>1. PICK t : t = Append(s, x)
    OBVIOUS
  <2>2. /\ DOMAIN t = DOMAIN s \cup {Len(s) + 1} /\ t[Len(s) + 1] = x
        /\ \A c \in DOMAIN s : t[c] = s[c]
    <3>1. DOMAIN s = 1 .. Len(s) /\ Len(s) \in Nat
      BY <1>3
    <3>2. QED
      BY <1>3, <2>1, <3>1, Pushed
  <2>3. L(t) = L(s) \cup (IF x.op = "init" THEN {x.m} ELSE {})
    BY <2>2
  <2>4. QED
    BY <2>1, <2>3
<1>4. L(<<>>) = {}
  OBVIOUS
<1> HIDE DEF L
<1>5. ASSUME NEW m \in Module, NEW under \in Seq(Call), Load(m, under), apis' = apis,
             Loading = L(under)
      PROVE  Goal
  <2>1. CASE m \in there \ Loaded
    <3>1. Init_(m) \in Call /\ Init_(m).op = "init" /\ Init_(m).m = m
      BY DEF Init_, Call
    <3>2. Joins(m) /\ calls' = Append(under, Init_(m))
      BY <1>5, <2>1 DEF Load, Joins
    <3>3. Loading' = Loading \cup {m}
      BY <1>1, <1>3, <1>5, <3>1, <3>2
    <3>4. QED
      BY <3>2, <3>3
  <2>2. CASE m \notin there \ Loaded
    BY <1>1, <1>5, <2>2 DEF Load, Stays
  <2>3. QED
    BY <2>1, <2>2
<1>6. ASSUME calls' = calls, Stays, apis' = apis PROVE Goal
  BY <1>1, <1>6
<1>7. CASE Dropping \/ UNCHANGED vars \/ Lookup
  <2>1. CASE DropNewest
    <3>1. mods[Len(mods)] \in Loaded /\ calls = <<>> /\ calls' = <<>>
      BY <2>1 DEF DropNewest, Loaded, TypeOK, Nested
    <3>2. QED
      BY <1>1, <1>4, <2>1, <3>1 DEF DropNewest
  <2>2. CASE Dropped \/ UNCHANGED vars \/ Lookup
    BY <1>6, <2>2 DEF Dropped, vars, Lookup, Stays
  <2>3. QED
    BY <1>7, <2>1, <2>2 DEF Dropping
<1>8. ASSUME calls # <<>>, Top.op # "init", calls' = Below, Stays, apis' = apis
      PROVE  Goal
  BY <1>1, <1>2, <1>8
<1>9. ASSUME calls # <<>>, Top.op = "init", calls' = Below
      PROVE  Top.m \in Loading /\ Loading' = Loading \ {Top.m}
  <2>1. \A c \in DOMAIN Below : Below[c].op = "init" => Below[c].m # Top.m
    BY <1>9, BelowNested
  <2>2. Top.m \notin L(Below)
    BY <2>1 DEF L
  <2>3. QED
    BY <1>1, <1>2, <1>9, <2>2
<1>10. ASSUME calls # <<>>, NEW x \in Call, Top.op = "init", x.op = "init", x.m = Top.m,
              \/ calls' = Append(Below, x)
              \/ \E y \in Call : y.op # "init" /\ calls' = Append(Below, x) \o <<y>>,
              Stays, apis' = apis
       PROVE  Goal
  <2>1. Below \in Seq(Call)
    BY <1>10, TopAndBelow
  <2>2. PICK s \in Seq(Call) : s = Append(Below, x)
    BY <1>10, <2>1, Pushed
  <2>3. L(s) = Loading
    BY <1>2, <1>3, <1>10, <2>1, <2>2
  <2>4. CASE calls' = s
    BY <1>1, <1>10, <2>3, <2>4
  <2>5. ASSUME NEW y \in Call, y.op # "init", calls' = s \o <<y>> PROVE Goal
    <3>1. calls' = Append(s, y)
      BY <2>5, Pushed
    <3>2. L(calls') = L(s)
      BY <1>3, <2>5, <3>1
    <3>3. QED
      BY <1>1, <1>10, <2>3, <3>2
  <2>6. QED
    BY <1>10, <2>2, <2>4, <2>5
<1>11. CASE Ask
  <2>1. /\ calls # <<>> /\ Top \in InitCall /\ Top.op = "init"
        /\ Top.k <= Len(Wants[Top.m]) /\ Stays /\ apis' = apis
    BY <1>11, RunningKind DEF Ask, Running, Stays
  <2>2. PICK i \in Iface : i = Wants[Top.m][Top.k]
    BY <2>1, WantType
  <2>3. PICK y \in Call : y = Seek(i, FALSE) /\ y.op # "init"
    BY Others
  <2>4. PICK x \in Call : x = [Top EXCEPT !.k = @ + 1] /\ x.op = "init" /\ x.m = Top.m
    BY <2>1, InitSteps DEF InitCall
  <2>5. PICK z \in Call : z = [Top EXCEPT !.asked = TRUE] /\ z.op = "init" /\ z.m = Top.m
    BY <2>1, InitSteps DEF InitCall
  <2>6. CASE apis[i] # None
    <3>1. calls' = Append(Below, x)
      BY <1>11, <2>2, <2>4, <2>6 DEF Ask
    <3>2. QED
      BY <1>10, <2>1, <2>4, <3>1
  <2>7. CASE apis[i] = None
    <3>1. calls' = Append(Below, z) \o <<y>>
      BY <1>11, <2>2, <2>3, <2>5, <2>7 DEF Ask
    <3>2. QED
      BY <1>10, <2>1, <2>3, <2>5, <3>1
  <2>8. QED
    BY <2>6, <2>7
<1>12. CASE Got
  <2>1. /\ calls # <<>> /\ Top \in InitCall /\ Top.op = "init"
        /\ Stays /\ apis' = apis
    BY <1>12, RunningKind DEF Got, Running, Stays
  <2>2. PICK x \in Call : /\ x = [Top EXCEPT !.k = @ + 1, !.asked = FALSE]
                          /\ x.op = "init" /\ x.m = Top.m
    BY <2>1, InitSteps DEF InitCall
  <2>3. calls' = Append(Below, x)
    BY <1>12, <2>2 DEF Got
  <2>4. QED
    BY <1>10, <2>1, <2>2, <2>3
<1>13. CASE Failed \/ Done
  BY <1>9, <1>13 DEF Failed, Done, Running
<1>14. CASE Called
  BY <1>8, <1>14 DEF Called, Running, Stays
<1>15. CASE Walk
  <2>1. calls # <<>> /\ Top \in OffersCall \cup AddsCall /\ Top.op # "init"
        /\ Below \in Seq(Call)
    BY <1>15, RunningKind, TopAndBelow DEF Walk
  <2>2. PICK n \in 1 .. Len(Path) : n = Nearest(Top) /\ Path[n] \in Module
    BY <1>15, <2>1, NearestExists DEF Walk
  <2>3. n + 1 \in Nat \ {0}
    BY <2>2
  <2>4. PICK x : x = [Top EXCEPT !.at = n + 1]
    OBVIOUS
  <2> x \in Call /\ x.op # "init"
    BY <2>1, <2>3, <2>4, KindsAreCalls DEF OffersCall, AddsCall
  <2>5. PICK s \in Seq(Call) : s = Append(Below, x)
    BY <2>1, Pushed
  <2>6. L(s) = Loading
    BY <1>2, <1>3, <2>1, <2>5
  <2>7. Load(Path[n], s) /\ apis' = apis
    BY <1>15, <2>2, <2>4, <2>5 DEF Walk
  <2>8. QED
    BY <1>5, <2>2, <2>6, <2>7
<1>16. CASE Walked
  <2>1. calls # <<>> /\ Top.op # "init" /\ Below \in Seq(Call) /\ L(Below) = Loading
    BY <1>2, <1>16, TopAndBelow DEF Walked
  <2>2. CASE ret # "ok" /\ Top.op = "offers" /\ Top.need /\ Top.key \in Module
    <3>1. Load(Top.key, Below) /\ apis' = apis
      BY <1>16, <2>2 DEF Walked
    <3>2. QED
      BY <1>5, <2>1, <2>2, <3>1
  <2>3. CASE ~(ret # "ok" /\ Top.op = "offers" /\ Top.need /\ Top.key \in Module)
    <3>1. calls' = Below /\ Stays /\ apis' = apis
      BY <1>16, <2>3 DEF Walked, Stays
    <3>2. QED
      BY <1>8, <2>1, <3>1
  <2>4. QED
    BY <2>2, <2>3
<1>17. CASE Asked
  <2>1. calls = <<>> /\ Loading = {} /\ L(<<>>) = {} /\ <<>> \in Seq(Call)
    <3>1. calls = <<>>
      BY <1>17 DEF Asked, ModLoad, Drop, Install, Use, Need, ModFind, LdAuto, DropAll, Idle
    <3>2. QED
      BY <1>1, <1>4, <3>1
  <2>2. ASSUME NEW m \in Module, ModLoad(m) PROVE Goal
    <3>1. PICK s \in Seq(Call) : s = <<>>
      BY <2>1
    <3>2. Load(m, s) /\ apis' = apis /\ L(s) = Loading
      BY <2>1, <2>2, <3>1 DEF ModLoad
    <3>3. QED
      BY <1>5, <3>2
  <2>3. ASSUME NEW b \in Builtin, LdAuto(b) PROVE Goal
    <3>1. bix' \in Names
      <4>1. bix' = IF bix # None THEN bix ELSE PathIndex
        BY <2>3 DEF LdAuto, PathIndex
      <4>2. QED
        BY <4>1, PathIndexType DEF TypeOK
    <3>2. /\ IF bix'[b] = None THEN UNCHANGED calls /\ Stays ELSE Load(bix'[b], <<>>)
          /\ apis' = apis
      BY <2>3 DEF LdAuto, Stays
    <3>3. CASE bix'[b] = None
      BY <1>6, <3>2, <3>3
    <3>4. CASE bix'[b] # None
      <4>1. PICK m \in Module : m = bix'[b]
        BY <2>3, <3>1, <3>4 DEF Names
      <4>2. PICK s \in Seq(Call) : s = <<>>
        BY <2>1
      <4>3. Load(m, s) /\ L(s) = Loading
        BY <2>1, <3>2, <3>4, <4>1, <4>2
      <4>4. QED
        BY <1>5, <3>2, <4>3
    <3>5. QED
      BY <3>3, <3>4
  <2>4. ASSUME NEW m \in Module, Drop(m) \/ Install(m) PROVE Goal
    <3>1. CASE Drop(m)
      BY <1>1, <1>4, <3>1 DEF Drop, Idle
    <3>2. CASE Install(m)
      BY <1>6, <3>2 DEF Install, Stays
    <3>3. QED
      BY <2>4, <3>1, <3>2
  <2>5. ASSUME NEW s \in Seq(Call), calls' = s, \A c \in DOMAIN s : s[c].op # "init",
               Stays, apis' = apis
        PROVE  Goal
    <3>1. L(s) = {}
      BY <2>5 DEF L
    <3>2. QED
      BY <1>1, <2>1, <2>5, <3>1
  <2>6. ASSUME NEW m \in Module, NEW i \in Iface, Use(m, i) PROVE Goal
    <3>1. PICK u \in Call : u = [op |-> "call", m |-> m, key |-> i] /\ u.op # "init"
      BY Others
    <3>2. PICK v \in Call : v = Seek(i, FALSE) /\ v.op # "init"
      BY Others
    <3>3. PICK s \in Seq(Call) : /\ calls' = s /\ (s = <<u>> \/ s = <<u, v>>)
                                 /\ Stays /\ apis' = apis
      BY <2>6, <3>1, <3>2, Fresh DEF Use, Stays
    <3>4. \A c \in DOMAIN s : s[c].op # "init"
      BY <3>1, <3>2, <3>3, NoInit
    <3>5. QED
      BY <2>5, <3>3, <3>4
  <2>7. ASSUME NEW i \in Iface \cup Module, Need(i) PROVE Goal
    <3>1. PICK v \in Call : v = Seek(i, TRUE) /\ v.op # "init"
      BY Others
    <3>2. PICK s \in Seq(Call) : calls' = s /\ s = <<v>> /\ Stays /\ apis' = apis
      BY <2>7, <3>1, Fresh DEF Need, Stays
    <3>3. \A c \in DOMAIN s : s[c].op # "init"
      BY <3>1, <3>2, NoInit
    <3>4. QED
      BY <2>5, <3>2, <3>3
  <2>8. ASSUME NEW b \in Builtin, ModFind(b) PROVE Goal
    <3>1. PICK v \in Call : v = [op |-> "adds", key |-> b, at |-> 1] /\ v.op # "init"
      BY Others
    <3>2. PICK s \in Seq(Call) : /\ calls' = s /\ (s = <<>> \/ s = <<v>>)
                                 /\ Stays /\ apis' = apis
      BY <2>8, <3>1, Fresh DEF ModFind, Stays
    <3>3. \A c \in DOMAIN s : s[c].op # "init"
      BY <3>1, <3>2, NoInit
    <3>4. QED
      BY <2>5, <3>2, <3>3
  <2>9. CASE DropAll
    BY <1>6, <2>9 DEF DropAll, Stays
  <2> HIDE DEF Goal
  <2>10. QED
    BY <1>17, <2>2, <2>3, <2>4, <2>6, <2>7, <2>8, <2>9 DEF Asked
<1> HIDE DEF Goal
<1>18. QED
  BY <1>7, <1>11, <1>12, <1>13, <1>14, <1>15, <1>16, <1>17 DEF Next, Within

\* A module offers nothing while its init runs, and what it said it would when
\* that ends; its offers go with it.  Two modules that offer one interface would
\* undo that, as the one that goes withdraws it by name.
THEOREM OffersLiveCorrect ==
  ASSUME \A m, n \in Module : m # n => Offers[m] \cap Offers[n] = {}
  PROVE  Spec => []OffersLive
<1>1. Init => Claims /\ Offered
  BY DEF Init, Claims, Offered, Loaded, Loading
<1>2. TypeOK /\ Nested /\ ListIsOpen /\ Claims /\ Offered /\ [Next]_vars
        => (Claims /\ Offered)'
  <2> SUFFICES ASSUME TypeOK, Nested, ListIsOpen, Claims, Offered, [Next]_vars
               PROVE  Claims' /\ Offered'
    OBVIOUS
  <2>1. /\ apis \in [Iface -> Module \cup {None}] /\ Offers \in [Module -> SUBSET Iface]
        /\ None \notin Module /\ Loaded \subseteq Module /\ Loading \subseteq Loaded
    BY RegistryAssumption DEF TypeOK, Loaded, Loading, Nested
  <2>2. CASE Stays /\ apis' = apis /\ Loading' = Loading
    <3>1. Loaded' = Loaded
      BY <2>2 DEF Stays, Loaded
    <3>2. QED
      BY <2>2, <3>1 DEF Claims, Offered
  <2>3. ASSUME NEW m \in Module, Joins(m), Loading' = Loading \cup {m}
        PROVE  Claims' /\ Offered'
    <3>1. Loaded' = Loaded \cup {m} /\ apis' = apis /\ m \notin Loaded
      BY <2>3, OneMore DEF Joins
    <3>2. \A i \in Iface : apis[i] # m
      BY <2>1, <3>1 DEF Claims
    <3>3. QED
      BY <2>1, <2>3, <3>1, <3>2 DEF Claims, Offered
  <2>4. CASE Failed /\ Top.m \in Loading /\ Loading' = Loading \ {Top.m}
    <3>1. PICK m \in Loading : m = Top.m
      BY <2>4
    <3>2. Loaded' = Loaded \ {m} /\ apis' = apis
      BY <2>1, <2>4, <3>1, OneLess DEF ListIsOpen, Failed
    <3>3. Loading' = Loading \ {m}
      BY <2>4, <3>1
    <3>4. QED
      BY <3>1, <3>2, <3>3 DEF Claims, Offered
  <2>5. CASE Done /\ Top.m \in Loading /\ Loading' = Loading \ {Top.m}
    <3>1. PICK m \in Loading : m = Top.m
      BY <2>5
    <3>2. /\ apis' = [i \in Iface |-> IF i \in Offers[m] THEN m ELSE apis[i]]
          /\ Loaded' = Loaded /\ Loading' = Loading \ {m}
      BY <2>5, <3>1 DEF Done, Loaded
    <3>3. Claims'
      BY <2>1, <3>1, <3>2 DEF Claims
    <3>4. Offered'
      BY <2>1, <3>1, <3>2 DEF Offered
    <3>5. QED
      BY <3>3, <3>4
  <2>6. ASSUME NEW m \in Loaded, Gone(m), Loading = {}, Loading' = {}
        PROVE  Claims' /\ Offered'
    <3>1. /\ apis' = [i \in Iface |-> IF i \in Offers[m] THEN None ELSE apis[i]]
          /\ Loaded' = Loaded \ {m}
      BY <2>6, OneLess DEF ListIsOpen, Gone
    <3>2. \A i \in Iface : apis[i] = m => i \in Offers[m]
      BY <2>1 DEF Claims
    <3>3. Claims'
      BY <2>1, <2>6, <3>1, <3>2 DEF Claims
    <3>4. \A n \in Loaded' : \A i \in Offers[n] : i \notin Offers[m]
      BY <2>1, <3>1
    <3>5. Offered'
      BY <2>1, <2>6, <3>1, <3>4 DEF Offered
    <3>6. QED
      BY <3>3, <3>5
  <2>7. QED
    BY <2>2, <2>3, <2>4, <2>5, <2>6, Loadings
<1>3. Claims /\ Offered => OffersLive
  BY OffersAre DEF Claims
<1>4. QED
  BY <1>1, <1>2, <1>3, TypeCorrect, ListIsOpenCorrect, PTL DEF Spec
=============================================================================
